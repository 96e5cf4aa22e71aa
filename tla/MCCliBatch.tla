----------------------------- MODULE MCCliBatch ------------------------------
(***************************************************************************)
(* Inputs of up to four lines and pipes that hold one, so that both fill.  *)
(***************************************************************************)
EXTENDS CliBatch

ArrayOf(tokens) == [text |-> TRUE, brackets |-> TRUE, tokens |-> tokens]

Good == ArrayOf(<<0, 7>>)

Kinds ==
  {Good, ArrayOf(<<8, 0>>), ArrayOf(<<Word, 1>>), ArrayOf(<<3>>),
   [text |-> TRUE, brackets |-> FALSE, tokens |-> <<>>]}

Loose == {ArrayOf(<<1, Empty, 2>>), ArrayOf(<<>>), [Good EXCEPT !.brackets = FALSE]}

Bytes == [Good EXCEPT !.text = FALSE]

MCScripts ==
  {<<>>} \cup UNION {[1..n -> Kinds] : n \in 1..3}
    \cup [1..2 -> Loose \cup {Bytes, Good}]
    \cup {<<Good, Good, Good, last>> : last \in Kinds}

PlainScripts == [1..2 -> {Good, ArrayOf(<<1, 5, 4>>), ArrayOf(<<Word, 1>>)}]
=============================================================================
