------------------------- MODULE AuthorityContract -------------------------
(***************************************************************************)
(* What the anchoring layer promises its users, without registries,        *)
(* snapshots or bundles (docs/FORMAL-MODEL.md, sections 0.1 and 0.2):      *)
(* identities are bound to definitions once, only a bound identity decides *)
(* anything, and every formal object has one element of B^6 under it.  An  *)
(* identity belongs to a registry: the documentation speaks of one.        *)
(***************************************************************************)
CONSTANTS
  Identities,   \* the anchors, each a registry with an (id, version) pair
  Definitions,  \* the contents that can be bound
  Given,        \* identity -> what it is bound to from the start
  Unbound       \* the content of an identity nothing is registered under

VARIABLES
  contract,  \* identity -> definition
  verdicts   \* the decisions made: [identity, object, element]

Init ==
  /\ contract = Given
  /\ verdicts = {}

Bind ==
  /\ \E i \in Identities, d \in Definitions :
       /\ contract[i] = Unbound
       /\ contract' = [contract EXCEPT ![i] = d]
  /\ UNCHANGED verdicts

Decide ==
  /\ \E v \in verdicts' :
       /\ contract[v.identity] # Unbound
       /\ \A w \in verdicts :
            w.identity = v.identity /\ w.object = v.object => w.element = v.element
       /\ verdicts' = verdicts \cup {v}
  /\ UNCHANGED contract

Next == Bind \/ Decide

Spec == Init /\ [][Next]_<<contract, verdicts>>
=============================================================================
