----------------------- MODULE CrossLanguageShapesProofs ---------------------
(***************************************************************************)
(* The properties of the two languages' trajectory layer for paths and     *)
(* buffers of every length and content.  Three parts: run_collapse_into()  *)
(* on its own, where RunsTilePrefix is inductive together with TypeOK and  *)
(* the bound runs <= read; the recursive functions of the reference and of *)
(* the core, each shown to satisfy its equations round by round, and what  *)
(* follows from them; and BothInv, the inductive invariant of the two      *)
(* together, by which the buffers always hold a round of the reference.    *)
(* The command line follows last: a call is a command and the rest, flags  *)
(* drop out of it by counting words, and what a command computes is        *)
(* printed in every form.                                                  *)
(***************************************************************************)
EXTENDS CrossLanguageShapes, FiniteSetTheorems, SequenceTheorems, WellFoundedInduction, TLAPS

CollapseInv ==
  /\ TypeOK
  /\ RunsTilePrefix
  /\ runs <= read
  /\ StopsOnlyWhenFull

(* A buffer filled from a set of numbers is a sequence of numbers. *)
LEMMA BuffersAreSequences ==
  ASSUME NEW S, S \subseteq Nat
  PROVE  \A b \in Buffers(S) : b \in Seq(Nat) /\ Len(b) \in Nat
<1> SUFFICES ASSUME NEW n \in Lengths, NEW b \in [1..n -> S]
             PROVE  b \in Seq(Nat) /\ Len(b) \in Nat
  BY DEF Buffers
<1>1. n \in Nat
  BY LengthsAssumption
<1>2. b \in [1..n -> Nat]
  OBVIOUS
<1>3. b \in Seq(Nat)
  BY <1>1, <1>2, IsASeq
<1> QED
  BY <1>3, LenProperties

LEMMA CollapseInit == Init => CollapseInv
<1> SUFFICES ASSUME Init PROVE CollapseInv
  OBVIOUS
<1>1. path \in Seq(Nat) /\ shape \in Seq(Nat) /\ dwell \in Seq(Nat)
  BY BuffersAreSequences, BytesAssumption, LeftoversAssumption DEF Init
<1>2. Len(path) \in Nat /\ Len(shape) \in Nat /\ Len(dwell) \in Nat
  BY <1>1, LenProperties
<1>3. TypeOK
  BY <1>1, <1>2, EmptySeq DEF Init, TypeOK
<1> QED
  BY <1>2, <1>3 DEF Init, CollapseInv, RunsTilePrefix, StopsOnlyWhenFull

(* What Extend and Open write is a number: a dwell counted up, a state. *)
LEMMA Q3IsNat == \A b \in Nat : Q3(b) \in Nat
  BY DEF Q3

LEMMA ExtendKeepsInv == CollapseInv /\ Extend => CollapseInv'
<1> SUFFICES ASSUME CollapseInv, Extend PROVE CollapseInv'
  OBVIOUS
<1> USE DEF CollapseInv
<1>0. /\ path \in Seq(Nat) /\ shape \in Seq(Nat) /\ dwell \in Seq(Nat)
      /\ opened \in Seq(Nat) /\ Len(opened) = runs
      /\ Len(path) \in Nat /\ Len(shape) \in Nat /\ Len(dwell) \in Nat
      /\ runs \in Nat /\ runs > 0 /\ runs <= Len(shape) /\ runs <= Len(dwell)
      /\ read \in Nat /\ read < Len(path)
      /\ UNCHANGED <<path, shape, runs, pc, opened>> /\ read' = read + 1
  BY LenProperties DEF TypeOK, Extend, Pending, Continues
<1>1. dwell[runs] \in Nat
  BY <1>0, ElementOfSeq
<1>2. /\ dwell' \in Seq(Nat) /\ Len(dwell') = Len(dwell)
      /\ dwell'[runs] = dwell[runs] + 1
      /\ \A k \in 1..runs : k # runs => dwell'[k] = dwell[k]
  <2>1. dwell' = [dwell EXCEPT ![runs] = dwell[runs] + 1]
    BY DEF Extend
  <2>2. dwell[runs] + 1 \in Nat /\ runs \in 1..Len(dwell)
    BY <1>0, <1>1
  <2> QED
    BY <1>0, <2>1, <2>2, ExceptSeq
<1>3. TypeOK'
  BY <1>0, <1>2 DEF TypeOK
<1>4. RunsTilePrefix'
  <2>1. \A k \in 1..runs : EndOf(k)' = IF k < runs THEN EndOf(k) ELSE read + 1
    BY <1>0 DEF EndOf
  <2>2. \A k \in 1..runs : k = runs => EndOf(k) = read
    BY <1>0 DEF EndOf
  <2>3. opened[1] = 1
    BY <1>0 DEF RunsTilePrefix
  <2>4. ASSUME NEW k \in 1..runs
        PROVE  /\ opened[k] <= EndOf(k)'
               /\ dwell'[k] = EndOf(k)' - opened[k] + 1
               /\ \A i \in opened[k]..EndOf(k)' : Q3(path[i]) = shape[k]
               /\ k < runs => shape[k] # shape[k + 1]
    <3>0. /\ opened[k] \in Nat /\ opened[k] <= EndOf(k)
          /\ dwell[k] = EndOf(k) - opened[k] + 1
          /\ \A i \in opened[k]..EndOf(k) : Q3(path[i]) = shape[k]
          /\ k < runs => shape[k] # shape[k + 1]
      BY <1>0, ElementOfSeq DEF RunsTilePrefix
    <3>1. CASE k < runs
      BY <1>0, <1>2, <2>1, <3>0, <3>1
    <3>2. CASE k = runs
      <4>1. Q3(path[read + 1]) = shape[runs]
        BY DEF Extend, Continues
      <4>2. EndOf(k)' = read + 1 /\ EndOf(k) = read
        BY <1>0, <2>1, <2>2, <3>2
      <4>3. /\ opened[k] \in Nat /\ opened[k] <= read
            /\ dwell'[k] = dwell[k] + 1 /\ dwell[k] = read - opened[k] + 1
        BY <1>2, <3>0, <3>2, <4>2
      <4>4. ASSUME NEW i \in opened[k]..(read + 1) PROVE Q3(path[i]) = shape[k]
        <5>1. CASE i = read + 1
          BY <3>2, <4>1, <5>1
        <5>2. CASE i # read + 1
          <6>1. i \in opened[k]..read
            BY <1>0, <4>3, <5>2
          <6> QED
            BY <3>0, <4>2, <6>1
        <5> QED
          BY <5>1, <5>2
      <4>5. opened[k] <= read + 1 /\ dwell'[k] = read + 1 - opened[k] + 1
        BY <1>0, <4>3
      <4> QED
        BY <1>0, <3>2, <4>2, <4>4, <4>5
    <3> QED
      BY <1>0, <3>1, <3>2
  <2> QED
    BY <1>0, <2>3, <2>4 DEF RunsTilePrefix
<1>5. StopsOnlyWhenFull'
  BY DEF Extend, Pending, StopsOnlyWhenFull
<1> QED
  BY <1>0, <1>3, <1>4, <1>5

LEMMA OpenKeepsInv == CollapseInv /\ Open => CollapseInv'
<1> SUFFICES ASSUME CollapseInv, Open PROVE CollapseInv'
  OBVIOUS
<1> USE DEF CollapseInv
<1> DEFINE state == Q3(path[read + 1])
           new   == runs + 1
<1>0. /\ path \in Seq(Nat) /\ shape \in Seq(Nat) /\ dwell \in Seq(Nat)
      /\ opened \in Seq(Nat) /\ Len(opened) = runs
      /\ Len(path) \in Nat /\ Len(shape) \in Nat /\ Len(dwell) \in Nat
      /\ runs \in Nat /\ runs < Len(shape) /\ runs < Len(dwell)
      /\ read \in Nat /\ read < Len(path)
      /\ runs' = new /\ read' = read + 1 /\ UNCHANGED <<path, pc>>
  BY LenProperties DEF TypeOK, Open, Pending, Capacity
<1>1. state \in Nat
  <2>1. read + 1 \in 1..Len(path)
    BY <1>0
  <2>2. path[read + 1] \in Nat
    BY <1>0, <2>1, ElementOfSeq
  <2> QED
    BY <2>2, Q3IsNat
<1>2. /\ shape' \in Seq(Nat) /\ Len(shape') = Len(shape)
      /\ shape'[new] = state /\ \A k \in 1..runs : shape'[k] = shape[k]
  <2>1. shape' = [shape EXCEPT ![new] = state]
    BY DEF Open
  <2>2. new \in 1..Len(shape) /\ \A k \in 1..runs : k \in 1..Len(shape) /\ k # new
    BY <1>0
  <2> QED
    BY <1>0, <1>1, <2>1, <2>2, ExceptSeq
<1>3. /\ dwell' \in Seq(Nat) /\ Len(dwell') = Len(dwell)
      /\ dwell'[new] = 1 /\ \A k \in 1..runs : dwell'[k] = dwell[k]
  <2>1. dwell' = [dwell EXCEPT ![new] = 1]
    BY DEF Open
  <2>2. new \in 1..Len(dwell) /\ \A k \in 1..runs : k \in 1..Len(dwell) /\ k # new
    BY <1>0
  <2> QED
    BY <1>0, <2>1, <2>2, ExceptSeq
<1>4. /\ opened' \in Seq(Nat) /\ Len(opened') = new
      /\ opened'[new] = read + 1 /\ \A k \in 1..runs : opened'[k] = opened[k]
  <2>1. opened' = Append(opened, read + 1) /\ read + 1 \in Nat
    BY <1>0 DEF Open
  <2> QED
    BY <1>0, <2>1, AppendProperties
<1>5. TypeOK'
  <2>1. path' \in Seq(Nat) /\ shape' \in Seq(Nat) /\ dwell' \in Seq(Nat)
    BY <1>0, <1>2, <1>3
  <2>2. runs' \in 0..Len(shape') /\ runs' <= Len(dwell') /\ read' \in 0..Len(path')
    <3>1. runs + 1 \in 0..Len(shape) /\ runs + 1 <= Len(dwell) /\ read + 1 \in 0..Len(path)
      BY <1>0
    <3>2. /\ runs' = runs + 1 /\ read' = read + 1
          /\ Len(shape') = Len(shape) /\ Len(dwell') = Len(dwell) /\ path' = path
      BY <1>0, <1>2, <1>3
    <3> HIDE DEF new
    <3> QED
      BY <3>1, <3>2
  <2>3. opened' \in Seq(Nat) /\ Len(opened') = runs'
    BY <1>0, <1>4
  <2>4. pc' \in {"loop", "returned"}
    BY <1>0 DEF TypeOK
  <2> QED
    BY <2>1, <2>2, <2>3, <2>4 DEF TypeOK
<1>6. RunsTilePrefix'
  <2>1. opened'[1] = 1
    <3>1. CASE runs = 0
      BY <1>0, <1>4, <3>1 DEF RunsTilePrefix
    <3>2. CASE runs > 0
      BY <1>0, <1>4, <3>2 DEF RunsTilePrefix
    <3> QED
      BY <1>0, <3>1, <3>2
  <2>2. \A k \in 1..(runs + 1) : k = runs + 1 => EndOf(k)' = read + 1
    BY <1>0 DEF EndOf
  <2>3. \A k \in 1..runs : EndOf(k)' = EndOf(k)
    <3> SUFFICES ASSUME NEW k \in 1..runs PROVE EndOf(k)' = EndOf(k)
      OBVIOUS
    <3>1. EndOf(k)' = opened'[k + 1] - 1
      BY <1>0 DEF EndOf
    <3>2. CASE k < runs
      BY <1>0, <1>4, <3>1, <3>2 DEF EndOf
    <3>3. CASE k = runs
      BY <1>0, <1>4, <3>1, <3>3 DEF EndOf
    <3> QED
      BY <1>0, <3>2, <3>3
  <2>4. runs > 0 => shape[runs] # state
    BY DEF Open, Continues
  <2>5. ASSUME NEW k \in 1..new
        PROVE  /\ opened'[k] <= EndOf(k)'
               /\ dwell'[k] = EndOf(k)' - opened'[k] + 1
               /\ \A i \in opened'[k]..EndOf(k)' : Q3(path[i]) = shape'[k]
               /\ k < new => shape'[k] # shape'[k + 1]
    <3>1. CASE k = new
      <4>1. opened'[k] = read + 1 /\ EndOf(k)' = read + 1 /\ dwell'[k] = 1
        BY <1>3, <1>4, <2>2, <3>1
      <4>2. \A i \in (read + 1)..(read + 1) : i = read + 1
        BY <1>0
      <4> QED
        BY <1>0, <1>2, <3>1, <4>1, <4>2
    <3>2. CASE k \in 1..runs
      <4>1. /\ opened[k] <= EndOf(k)
            /\ dwell[k] = EndOf(k) - opened[k] + 1
            /\ \A i \in opened[k]..EndOf(k) : Q3(path[i]) = shape[k]
            /\ k < runs => shape[k] # shape[k + 1]
        BY <3>2 DEF RunsTilePrefix
      <4>2. shape'[k] # shape'[k + 1]
        <5>1. CASE k < runs
          BY <1>0, <1>2, <3>2, <4>1, <5>1
        <5>2. CASE k = runs
          <6>1. shape'[k] = shape[runs] /\ shape'[k + 1] = state /\ runs > 0
            <7> HIDE DEF state
            <7>1. shape'[k] = shape[k]
              BY <1>2, <3>2
            <7>2. k + 1 = new /\ runs > 0
              BY <1>0, <3>2, <5>2
            <7>3. shape'[k + 1] = state
              BY <1>2, <7>2
            <7> QED
              BY <5>2, <7>1, <7>2, <7>3
          <6> QED
            BY <2>4, <6>1
        <5> QED
          BY <1>0, <3>2, <5>1, <5>2
      <4> QED
        BY <1>2, <1>3, <1>4, <2>3, <3>2, <4>1, <4>2
    <3> QED
      BY <1>0, <3>1, <3>2
  <2> QED
    BY <1>0, <2>1, <2>5 DEF RunsTilePrefix
<1>7. StopsOnlyWhenFull'
  BY DEF Open, Pending, StopsOnlyWhenFull
<1> QED
  BY <1>0, <1>5, <1>6, <1>7

LEMMA ReturnKeepsInv == CollapseInv /\ Return => CollapseInv'
<1> SUFFICES ASSUME CollapseInv, Return PROVE CollapseInv'
  OBVIOUS
<1>1. UNCHANGED <<path, shape, dwell, runs, read, opened>> /\ pc' = "returned" /\ pc = "loop"
  BY DEF Return
<1>2. TypeOK' /\ RunsTilePrefix' /\ (runs <= read)'
  BY <1>1 DEF CollapseInv, TypeOK, RunsTilePrefix, EndOf, Q3
<1>3. StopsOnlyWhenFull'
  <2>1. /\ Len(path) \in Nat /\ Len(shape) \in Nat /\ Len(dwell) \in Nat
        /\ read \in 0..Len(path) /\ runs \in Nat /\ runs <= read
        /\ runs <= Len(shape) /\ runs <= Len(dwell)
    BY LenProperties DEF CollapseInv, TypeOK
  <2>2. Capacity' = Capacity /\ Capacity \in Nat /\ runs <= Capacity
    BY <1>1, <2>1 DEF Capacity
  <2>3. CASE read = Len(path)
    BY <1>1, <2>3 DEF StopsOnlyWhenFull
  <2>4. CASE read < Len(path)
    <3>1. ~Continues /\ runs >= Capacity
      BY <1>1, <2>4 DEF Return, Pending
    <3>2. runs = Capacity /\ Capacity < Len(path)
      BY <2>1, <2>2, <2>4, <3>1
    <3>3. runs > 0 => Q3(path[read + 1]) # shape[runs]
      BY <3>1 DEF Continues
    <3> QED
      BY <1>1, <2>2, <3>2, <3>3 DEF StopsOnlyWhenFull, Q3
  <2> QED
    BY <2>1, <2>3, <2>4
<1> QED
  BY <1>2, <1>3 DEF CollapseInv

(* CollapseInv is an inductive invariant of run_collapse_into(). *)
THEOREM CollapseInvariant == Spec => []CollapseInv
<1>1. Init => CollapseInv
  BY CollapseInit
<1>2. CollapseInv /\ [Next]_vars => CollapseInv'
  <2> SUFFICES ASSUME CollapseInv, [Next]_vars PROVE CollapseInv'
    OBVIOUS
  <2>1. CASE Extend
    BY <2>1, ExtendKeepsInv
  <2>2. CASE Open
    BY <2>2, OpenKeepsInv
  <2>3. CASE Return
    BY <2>3, ReturnKeepsInv
  <2>4. CASE UNCHANGED vars
    BY <2>4 DEF vars, CollapseInv, TypeOK, RunsTilePrefix, StopsOnlyWhenFull, EndOf,
                Capacity, Q3
  <2> QED
    BY <2>1, <2>2, <2>3, <2>4 DEF Next
<1> QED
  BY <1>1, <1>2, PTL DEF Spec

(* The indices of the loop stay inside the buffers, whatever their lengths. *)
THEOREM CollapseTypeCorrect == Spec => []TypeOK
<1>1. CollapseInv => TypeOK
  BY DEF CollapseInv
<1> QED
  BY <1>1, CollapseInvariant, PTL

(* What the buffers hold is always the run-collapse of what has been read. *)
THEOREM CollapseTilesPrefix == Spec => []RunsTilePrefix
<1>1. CollapseInv => RunsTilePrefix
  BY DEF CollapseInv
<1> QED
  BY <1>1, CollapseInvariant, PTL

(* Buffers as long as the path are long enough; shorter ones give up only   *)
(* at the longest prefix they have room for.                                *)
THEOREM CollapseStopsOnlyWhenFull == Spec => []StopsOnlyWhenFull
<1>1. CollapseInv => StopsOnlyWhenFull
  BY DEF CollapseInv
<1> QED
  BY <1>1, CollapseInvariant, PTL

-----------------------------------------------------------------------------
(* A set of numbers that holds a number has a least one.                    *)
LEMMA LeastNatural ==
  ASSUME NEW S \in SUBSET Nat, S # {}
  PROVE  \E n \in S : \A m \in S : n <= m
<1> DEFINE R == OpToRel(<, Nat)
<1>1. \A x, y \in Nat : <<x, y>> \in R <=> x < y
  BY DEF OpToRel
<1>2. IsWellFoundedOn(R, Nat)
  BY NatLessThanWellFounded
<1> HIDE DEF R
<1>3. PICK n \in S : \A m \in S : ~ (<<m, n>> \in R)
  BY <1>2, WFMin
<1>4. ASSUME NEW m \in S PROVE n <= m
  <2>1. m \in Nat /\ n \in Nat /\ ~ (<<m, n>> \in R)
    BY <1>3
  <2>2. ~ (m < n)
    BY <1>1, <2>1
  <2> QED
    BY <2>1, <2>2
<1> QED
  BY <1>4

(* Induction over the numbers, as a fact about a set of them.               *)
LEMMA NatSetInduction ==
  ASSUME NEW S, 0 \in S, \A n \in Nat : n \in S => n + 1 \in S
  PROVE  Nat \subseteq S
<1> SUFFICES ASSUME Nat \ S # {} PROVE FALSE
  OBVIOUS
<1>1. PICK n \in Nat \ S : \A m \in Nat \ S : n <= m
  BY LeastNatural
<1>2. n # 0 /\ n - 1 \in Nat /\ n - 1 \notin Nat \ S
  BY <1>1
<1> QED
  BY <1>1, <1>2

\* The first n rounds of a loop over S.
IsRun(f, S, base, n, step) ==
  f \in [0..n -> S] /\ f[0] = base /\ \A i \in 1..n : f[i] = step[i][f[i - 1]]

(* A loop of n rounds over S runs to its end.                               *)
LEMMA PrimitiveRecursion ==
  ASSUME NEW S, NEW base \in S, NEW n \in Nat, NEW step \in [Nat -> [S -> S]]
  PROVE  \E f : IsRun(f, S, base, n, step)
<1> DEFINE Good == {k \in Nat : \E f : IsRun(f, S, base, k, step)}
<1>1. 0 \in Good
  <2>1. IsRun([i \in 0..0 |-> base], S, base, 0, step)
    BY DEF IsRun
  <2> QED
    BY <2>1
<1>2. ASSUME NEW k \in Nat, k \in Good PROVE k + 1 \in Good
  <2>1. PICK f : IsRun(f, S, base, k, step)
    BY <1>2
  <2> DEFINE g == [i \in 0..(k + 1) |-> IF i = k + 1 THEN step[k + 1][f[k]] ELSE f[i]]
  <2>2. /\ f[k] \in S /\ step[k + 1][f[k]] \in S
    BY <2>1 DEF IsRun
  <2>3. g \in [0..(k + 1) -> S]
    BY <2>1, <2>2 DEF IsRun
  <2>4. g[0] = base
    BY <2>1 DEF IsRun
  <2>5. ASSUME NEW i \in 1..(k + 1) PROVE g[i] = step[i][g[i - 1]]
    BY <2>1 DEF IsRun
  <2>6. IsRun(g, S, base, k + 1, step)
    BY <2>3, <2>4, <2>5 DEF IsRun
  <2> HIDE DEF g
  <2> QED
    BY <2>6
<1> HIDE DEF Good
<1>3. n \in Good
  BY <1>1, <1>2, NatSetInduction
<1> QED
  BY <1>3 DEF Good

-----------------------------------------------------------------------------
\* What the collapsing loop of the reference keeps.
Forms ==
  {f \in [shape : Seq(ElementaryStates), dwell : Seq(Nat)] : Len(f.shape) = Len(f.dwell)}

NoForm == [shape |-> <<>>, dwell |-> <<>>]

Extended(form, after) ==
  LET n == Len(form.shape)
  IN  /\ after.shape = form.shape
      /\ after.dwell[n] = form.dwell[n] + 1
      /\ \A k \in 1..(n - 1) : after.dwell[k] = form.dwell[k]

Opened(form, state, after) ==
  LET n == Len(form.shape)
  IN  /\ after.shape = Append(form.shape, state)
      /\ after.dwell = Append(form.dwell, 1)

(* One turn of the loop counts one more, or opens a run.                    *)
LEMMA AbsorbCases ==
  ASSUME NEW form \in Forms, NEW state \in ElementaryStates
  PROVE  /\ Absorb(form, state) \in Forms
         /\ form.shape # <<>> /\ Last(form.shape) = state => Extended(form, Absorb(form, state))
         /\ ~(form.shape # <<>> /\ Last(form.shape) = state) =>
              Opened(form, state, Absorb(form, state))
<1> DEFINE n == Len(form.shape)
           after == Absorb(form, state)
<1>1. /\ form = [shape |-> form.shape, dwell |-> form.dwell]
      /\ form.shape \in Seq(ElementaryStates) /\ form.dwell \in Seq(Nat)
      /\ n \in Nat /\ Len(form.dwell) = n
  BY LenProperties DEF Forms
<1>2. CASE form.shape # <<>> /\ Last(form.shape) = state
  <2> DEFINE d == [form.dwell EXCEPT ![n] = form.dwell[n] + 1]
  <2>1. n \in 1..n
    BY <1>1, <1>2, EmptySeq
  <2>2. form.dwell[n] \in Nat
    BY <1>1, <2>1, ElementOfSeq
  <2>3. /\ d \in Seq(Nat) /\ Len(d) = n /\ d[n] = form.dwell[n] + 1
        /\ \A k \in 1..(n - 1) : d[k] = form.dwell[k]
    <3>1. d \in Seq(Nat) /\ Len(d) = Len(form.dwell)
      BY <1>1, <2>1, <2>2, ExceptSeq
    <3>2. DOMAIN form.dwell = 1..n
      BY <1>1
    <3>3. d[n] = form.dwell[n] + 1
      BY <2>1, <3>2
    <3>4. \A k \in 1..(n - 1) : d[k] = form.dwell[k]
      BY <1>1, <2>1, <3>2
    <3> QED
      BY <1>1, <3>1, <3>3, <3>4
  <2>4. after = [shape |-> form.shape, dwell |-> d]
    BY <1>1, <1>2 DEF Absorb
  <2> HIDE DEF d, after
  <2> QED
    BY <1>1, <1>2, <2>3, <2>4 DEF Forms, Extended, after
<1>3. CASE ~(form.shape # <<>> /\ Last(form.shape) = state)
  <2>1. after = [shape |-> Append(form.shape, state), dwell |-> Append(form.dwell, 1)]
    BY <1>3 DEF Absorb
  <2>2. /\ Append(form.shape, state) \in Seq(ElementaryStates)
        /\ Append(form.dwell, 1) \in Seq(Nat)
        /\ Len(Append(form.shape, state)) = Len(Append(form.dwell, 1))
    BY <1>1, AppendProperties
  <2> HIDE DEF after
  <2> QED
    BY <1>3, <2>1, <2>2 DEF Forms, Opened, after
<1> QED
  BY <1>2, <1>3

\* The rounds of the loop over a path.
IsCollapse(f, p) ==
  /\ f \in [0..Len(p) -> Forms]
  /\ f[0] = NoForm
  /\ \A i \in 1..Len(p) : f[i] = Absorb(f[i - 1], p[i])
  /\ NormalizePathRunCollapse(p) = f[Len(p)]

(* The recursive function of NormalizePathRunCollapse is a run of the loop. *)
LEMMA CollapseByState ==
  ASSUME NEW p \in Seq(ElementaryStates)
  PROVE  \E f : IsCollapse(f, p)
<1> DEFINE n == Len(p)
           S == Forms
           step == [i \in Nat |-> [u \in S |-> IF i \in 1..n THEN Absorb(u, p[i]) ELSE u]]
           Body(g) == [i \in 0..n |-> IF i = 0 THEN [shape |-> <<>>, dwell |-> <<>>]
                                      ELSE Absorb(g[i - 1], p[i])]
           F == CHOOSE g : g = Body(g)
<1>1. n \in Nat /\ \A i \in 1..n : p[i] \in ElementaryStates
  BY LenProperties, ElementOfSeq
<1>2. NoForm \in S
  BY EmptySeq DEF Forms, NoForm
<1>3. step \in [Nat -> [S -> S]]
  <2>1. ASSUME NEW i \in Nat, NEW u \in S
        PROVE  (IF i \in 1..n THEN Absorb(u, p[i]) ELSE u) \in S
    BY <1>1, AbsorbCases
  <2> QED
    BY <2>1
<1>4. \A i \in 1..n, u \in S : step[i][u] = Absorb(u, p[i])
  BY <1>1
<1> HIDE DEF step, S
<1>5. PICK f : IsRun(f, S, NoForm, n, step)
  <2> HIDE DEF n
  <2> QED
    BY <1>1, <1>2, <1>3, PrimitiveRecursion
<1>6. /\ f \in [0..n -> S] /\ f[0] = NoForm
      /\ \A i \in 1..n : f[i] = Absorb(f[i - 1], p[i])
  <2>1. \A i \in 1..n : i - 1 \in 0..n
    BY <1>1
  <2> QED
    BY <1>4, <1>5, <2>1 DEF IsRun
<1>7. f = Body(f)
  <2>1. ASSUME NEW i \in 0..n PROVE f[i] = Body(f)[i]
    <3>1. CASE i = 0
      BY <1>6, <3>1 DEF NoForm
    <3>2. CASE i \in 1..n
      BY <1>6, <3>2
    <3> QED
      BY <1>1, <3>1, <3>2
  <2>2. f = [i \in 0..n |-> f[i]] /\ Body(f) = [i \in 0..n |-> Body(f)[i]]
    BY <1>6
  <2> HIDE DEF Body
  <2> QED
    BY <2>1, <2>2
<1>8. F = Body(F)
  <2> HIDE DEF Body
  <2> QED
    BY <1>7
<1> HIDE DEF F
<1>9. F[0] = NoForm /\ \A i \in 1..n : F[i] = Absorb(F[i - 1], p[i])
  BY <1>1, <1>8 DEF NoForm
<1>10. ASSUME NEW i \in 0..n PROVE F[i] \in S
  <2> DEFINE Good == {k \in Nat : k <= n => F[k] \in S}
  <2>1. 0 \in Good
    BY <1>2, <1>9
  <2>2. ASSUME NEW k \in Nat, k \in Good PROVE k + 1 \in Good
    <3>1. CASE k + 1 <= n
      <4>1. k + 1 \in 1..n /\ (k + 1) - 1 = k /\ F[k] \in S
        BY <1>1, <2>2, <3>1
      <4>2. F[k + 1] = Absorb(F[k], p[k + 1])
        BY <1>9, <4>1
      <4> QED
        BY <1>1, <4>1, <4>2, AbsorbCases DEF S
    <3> QED
      BY <3>1
  <2>3. Nat \subseteq Good
    <3> HIDE DEF Good
    <3> QED
      BY <2>1, <2>2, NatSetInduction
  <2> QED
    BY <1>1, <2>3
<1>11. NormalizePathRunCollapse(p) = F[n]
  BY DEF NormalizePathRunCollapse, F
<1>12. F \in [0..n -> S]
  <2>1. F = [i \in 0..n |-> F[i]]
    BY <1>8
  <2> QED
    BY <1>10, <2>1
<1>13. IsCollapse(F, p)
  BY <1>9, <1>11, <1>12 DEF IsCollapse, S
<1> QED
  BY <1>13

\* The rounds in which a shape and a dwell are replayed.
IsReplay(g, form) ==
  /\ g \in [0..Len(form.shape) -> Seq(ElementaryStates)]
  /\ g[0] = <<>>
  /\ \A k \in 1..Len(form.shape) :
       g[k] = g[k - 1] \o [i \in 1..form.dwell[k] |-> form.shape[k]]
  /\ Replayed(form) = g[Len(form.shape)]

LEMMA RunsAreSequences ==
  ASSUME NEW n \in Nat, NEW s \in ElementaryStates
  PROVE  /\ [i \in 1..n |-> s] \in Seq(ElementaryStates)
         /\ Len([i \in 1..n |-> s]) = n
<1>1. [i \in 1..n |-> s] \in [1..n -> ElementaryStates]
  OBVIOUS
<1> QED
  BY <1>1, IsASeq

LEMMA ReplayByRun ==
  ASSUME NEW form \in Forms
  PROVE  \E g : IsReplay(g, form)
<1> DEFINE n == Len(form.shape)
           S == Seq(ElementaryStates)
           Run(k) == [i \in 1..form.dwell[k] |-> form.shape[k]]
           step == [k \in Nat |-> [u \in S |-> IF k \in 1..n THEN u \o Run(k) ELSE u]]
           Body(g) == [k \in 0..n |-> IF k = 0 THEN <<>> ELSE g[k - 1] \o Run(k)]
           F == CHOOSE g : g = Body(g)
<1>1. /\ n \in Nat
      /\ \A k \in 1..n : form.dwell[k] \in Nat /\ form.shape[k] \in ElementaryStates
  BY LenProperties, ElementOfSeq DEF Forms
<1>2. \A k \in 1..n : Run(k) \in S
  BY <1>1, RunsAreSequences
<1>3. <<>> \in S
  BY EmptySeq
<1> HIDE DEF Run
<1>4. step \in [Nat -> [S -> S]]
  <2>1. ASSUME NEW k \in Nat, NEW u \in S
        PROVE  (IF k \in 1..n THEN u \o Run(k) ELSE u) \in S
    BY <1>2, ConcatProperties
  <2> QED
    BY <2>1
<1>5. \A k \in 1..n, u \in S : step[k][u] = u \o Run(k)
  BY <1>1
<1> HIDE DEF step, S
<1>6. PICK f : IsRun(f, S, <<>>, n, step)
  <2> HIDE DEF n
  <2> QED
    BY <1>1, <1>3, <1>4, PrimitiveRecursion
<1>7. /\ f \in [0..n -> S] /\ f[0] = <<>>
      /\ \A k \in 1..n : f[k] = f[k - 1] \o Run(k)
  <2>1. \A k \in 1..n : k - 1 \in 0..n
    BY <1>1
  <2> QED
    BY <1>5, <1>6, <2>1 DEF IsRun
<1>8. f = Body(f)
  <2>1. ASSUME NEW k \in 0..n PROVE f[k] = Body(f)[k]
    <3>1. CASE k = 0
      BY <1>7, <3>1
    <3>2. CASE k \in 1..n
      BY <1>7, <3>2
    <3> QED
      BY <1>1, <3>1, <3>2
  <2>2. f = [k \in 0..n |-> f[k]] /\ Body(f) = [k \in 0..n |-> Body(f)[k]]
    BY <1>7
  <2> HIDE DEF Body
  <2> QED
    BY <2>1, <2>2
<1>9. F = Body(F)
  <2> HIDE DEF Body
  <2> QED
    BY <1>8
<1> HIDE DEF F
<1>10. F[0] = <<>> /\ \A k \in 1..n : F[k] = F[k - 1] \o Run(k)
  <2>1. F[0] = <<>>
    BY <1>1, <1>9
  <2>2. ASSUME NEW k \in 1..n PROVE F[k] = F[k - 1] \o Run(k)
    <3>1. k \in 0..n /\ k # 0
      BY <1>1
    <3>2. Body(F)[k] = F[k - 1] \o Run(k)
      BY <3>1
    <3> HIDE DEF Body
    <3> QED
      BY <1>9, <3>2
  <2> QED
    BY <2>1, <2>2
<1>11. ASSUME NEW k \in 0..n PROVE F[k] \in S
  <2> DEFINE Good == {l \in Nat : l <= n => F[l] \in S}
  <2>1. 0 \in Good
    BY <1>3, <1>10
  <2>2. ASSUME NEW l \in Nat, l \in Good PROVE l + 1 \in Good
    <3>1. CASE l + 1 <= n
      <4>1. l + 1 \in 1..n /\ (l + 1) - 1 = l /\ F[l] \in S
        BY <1>1, <2>2, <3>1
      <4>2. F[l + 1] = F[l] \o Run(l + 1)
        BY <1>10, <4>1
      <4>3. F[l] \o Run(l + 1) \in S
        BY <1>2, <4>1, ConcatProperties DEF S
      <4>4. F[l + 1] \in S
        BY <4>2, <4>3
      <4> QED
        BY <4>4
    <3> QED
      BY <3>1
  <2>3. Nat \subseteq Good
    <3> HIDE DEF Good
    <3> QED
      BY <2>1, <2>2, NatSetInduction
  <2> QED
    BY <1>1, <2>3
<1>12. Replayed(form) = F[n]
  BY DEF Replayed, F, Run
<1>13. F \in [0..n -> S]
  <2>1. F = [k \in 0..n |-> F[k]]
    BY <1>9
  <2> QED
    BY <1>11, <2>1
<1>14. IsReplay(F, form)
  BY <1>10, <1>12, <1>13 DEF IsReplay, S, Run
<1> QED
  BY <1>14

(* Forms that agree on their first runs replay them alike.                  *)
LEMMA RepliesAgree ==
  ASSUME NEW a \in Forms, NEW b \in Forms, NEW g, NEW h, IsReplay(g, a), IsReplay(h, b),
         NEW n \in Nat, n <= Len(a.shape), n <= Len(b.shape),
         \A k \in 1..n : a.shape[k] = b.shape[k] /\ a.dwell[k] = b.dwell[k]
  PROVE  g[n] = h[n]
<1>0. Len(a.shape) \in Nat /\ Len(b.shape) \in Nat
  BY LenProperties DEF Forms
<1> DEFINE Good == {l \in Nat : l <= n => g[l] = h[l]}
<1>1. 0 \in Good
  BY DEF IsReplay
<1>2. ASSUME NEW l \in Nat, l \in Good PROVE l + 1 \in Good
  <2>1. CASE l + 1 <= n
    <3>1. /\ l + 1 \in 1..n /\ l + 1 \in 1..Len(a.shape) /\ l + 1 \in 1..Len(b.shape)
          /\ (l + 1) - 1 = l /\ g[l] = h[l]
      BY <1>0, <1>2, <2>1
    <3>2. g[l + 1] = g[l] \o [i \in 1..a.dwell[l + 1] |-> a.shape[l + 1]]
      BY <3>1 DEF IsReplay
    <3>3. h[l + 1] = h[l] \o [i \in 1..b.dwell[l + 1] |-> b.shape[l + 1]]
      BY <3>1 DEF IsReplay
    <3>4. g[l + 1] = h[l + 1]
      <4>1. \A k \in 1..n : a.shape[k] = b.shape[k] /\ a.dwell[k] = b.dwell[k]
        OBVIOUS
      <4>2. a.shape[l + 1] = b.shape[l + 1] /\ a.dwell[l + 1] = b.dwell[l + 1]
        BY <3>1, <4>1
      <4> QED
        BY <3>1, <3>2, <3>3, <4>2
    <3> QED
      BY <3>4
  <2> QED
    BY <2>1
<1>3. Nat \subseteq Good
  <2> HIDE DEF Good
  <2> QED
    BY <1>1, <1>2, NatSetInduction
<1> QED
  BY <1>3

(* A run that is one longer ends in one more of its state.                  *)
LEMMA LongerRun ==
  ASSUME NEW u \in Seq(ElementaryStates), NEW d \in Nat, NEW s \in ElementaryStates
  PROVE  u \o [i \in 1..(d + 1) |-> s] = Append(u \o [i \in 1..d |-> s], s)
<1> DEFINE r == [i \in 1..d |-> s]
           q == [i \in 1..(d + 1) |-> s]
           m == Len(u)
<1>1. m \in Nat /\ r \in Seq(ElementaryStates) /\ q \in Seq(ElementaryStates)
      /\ Len(r) = d /\ Len(q) = d + 1
  BY RunsAreSequences, LenProperties
<1>2. /\ \A i \in 1..d : r[i] = s
      /\ \A i \in 1..(d + 1) : q[i] = s
  OBVIOUS
<1> HIDE DEF r, q
<1>3. /\ u \o q \in Seq(ElementaryStates) /\ Len(u \o q) = m + (d + 1)
      /\ \A i \in 1..(m + (d + 1)) : (u \o q)[i] = IF i <= m THEN u[i] ELSE q[i - m]
  <2>1. /\ u \o q \in Seq(ElementaryStates) /\ Len(u \o q) = m + Len(q)
        /\ \A i \in 1..(m + Len(q)) : (u \o q)[i] = IF i <= m THEN u[i] ELSE q[i - m]
    BY <1>1, ConcatProperties
  <2>2. Len(q) = d + 1
    BY <1>1
  <2> QED
    BY <2>1, <2>2
<1>4. /\ u \o r \in Seq(ElementaryStates) /\ Len(u \o r) = m + d
      /\ \A i \in 1..(m + d) : (u \o r)[i] = IF i <= m THEN u[i] ELSE r[i - m]
  BY <1>1, ConcatProperties
<1> DEFINE w == u \o r
           v == u \o q
<1> HIDE DEF w, v
<1>5. /\ Append(w, s) \in Seq(ElementaryStates) /\ Len(Append(w, s)) = m + d + 1
      /\ \A i \in 1..(m + d) : Append(w, s)[i] = w[i]
      /\ Append(w, s)[m + d + 1] = s
  <2>1. w \in Seq(ElementaryStates) /\ Len(w) = m + d
    BY <1>4 DEF w
  <2>2. /\ Append(w, s) \in Seq(ElementaryStates) /\ Len(Append(w, s)) = Len(w) + 1
        /\ \A i \in 1..Len(w) : Append(w, s)[i] = w[i]
        /\ Append(w, s)[Len(w) + 1] = s
    BY <2>1, AppendProperties
  <2> QED
    BY <2>1, <2>2
<1>6. ASSUME NEW i \in 1..(m + d + 1) PROVE v[i] = Append(w, s)[i]
  <2>1. CASE i <= m
    BY <1>1, <1>3, <1>4, <1>5, <2>1 DEF w, v
  <2>2. CASE i > m /\ i <= m + d
    <3>1. i - m \in 1..d /\ i - m \in 1..(d + 1) /\ ~(i <= m) /\ i \in 1..(m + d)
      BY <1>1, <2>2
    <3> QED
      BY <1>2, <1>3, <1>4, <1>5, <3>1 DEF w, v
  <2>3. CASE i = m + d + 1
    <3>1. i - m \in 1..(d + 1) /\ ~(i <= m)
      BY <1>1, <2>3
    <3> QED
      BY <1>2, <1>3, <1>5, <2>3, <3>1 DEF v
  <2>4. i <= m \/ (i > m /\ i <= m + d) \/ i = m + d + 1
    <3> HIDE DEF m
    <3>1. m \in Nat
      BY <1>1
    <3> QED
      BY <3>1
  <2> QED
    BY <2>1, <2>2, <2>3, <2>4
<1>7. v = Append(w, s)
  BY <1>1, <1>3, <1>5, <1>6, SeqEqual DEF v
<1> QED
  BY <1>7 DEF v, w, q, r

(* What the loop absorbs is replayed behind what it had.                    *)
LEMMA AbsorbedIsReplayed ==
  ASSUME NEW form \in Forms, NEW state \in ElementaryStates
  PROVE  /\ Replayed(form) \in Seq(ElementaryStates)
         /\ Replayed(Absorb(form, state)) = Append(Replayed(form), state)
<1> DEFINE n == Len(form.shape)
<1>0. PICK after : after = Absorb(form, state)
  OBVIOUS
<1>1. /\ after \in Forms
      /\ form.shape # <<>> /\ Last(form.shape) = state => Extended(form, after)
      /\ ~(form.shape # <<>> /\ Last(form.shape) = state) => Opened(form, state, after)
  BY <1>0, AbsorbCases
<1>2. PICK g : IsReplay(g, form)
  BY ReplayByRun
<1>3. PICK h : IsReplay(h, after)
  BY <1>1, ReplayByRun
<1>4. /\ n \in Nat /\ form.shape \in Seq(ElementaryStates)
      /\ form.dwell \in Seq(Nat) /\ Len(form.dwell) = n
      /\ \A k \in 1..n : form.dwell[k] \in Nat /\ form.shape[k] \in ElementaryStates
  BY LenProperties, ElementOfSeq DEF Forms
<1>5. Replayed(form) = g[n] /\ g[n] \in Seq(ElementaryStates)
  BY <1>2, <1>4 DEF IsReplay
<1>6. CASE form.shape # <<>> /\ Last(form.shape) = state
  <2>1. Extended(form, after)
    BY <1>1, <1>6
  <2>2. n \in 1..n /\ form.shape[n] = state
    BY <1>4, <1>6, EmptySeq DEF Last
  <2>3. /\ Len(after.shape) = n /\ after.shape[n] = state
        /\ after.dwell[n] = form.dwell[n] + 1
        /\ \A k \in 1..(n - 1) : form.shape[k] = after.shape[k] /\ form.dwell[k] = after.dwell[k]
    BY <2>1, <2>2 DEF Extended
  <2>4. n - 1 \in Nat /\ n - 1 <= n
    BY <2>2
  <2>5. g[n - 1] = h[n - 1]
    BY <1>1, <1>2, <1>3, <2>3, <2>4, RepliesAgree
  <2>6. h[n] = h[n - 1] \o [i \in 1..(form.dwell[n] + 1) |-> state]
    BY <1>3, <2>2, <2>3 DEF IsReplay
  <2>7. g[n] = g[n - 1] \o [i \in 1..form.dwell[n] |-> state]
    BY <1>2, <2>2 DEF IsReplay
  <2>8. g[n - 1] \in Seq(ElementaryStates) /\ form.dwell[n] \in Nat
    <3>1. n - 1 \in 0..n
      BY <1>4, <2>2
    <3>2. g \in [0..n -> Seq(ElementaryStates)]
      BY <1>2 DEF IsReplay
    <3>3. form.dwell[n] \in Nat
      BY <1>4, <2>2
    <3> HIDE DEF n
    <3> QED
      BY <3>1, <3>2, <3>3
  <2>9. h[n] = Append(g[n], state)
    BY <2>5, <2>6, <2>7, <2>8, LongerRun
  <2>10. Replayed(after) = h[n]
    BY <1>3, <2>3 DEF IsReplay
  <2> QED
    BY <1>0, <1>5, <2>9, <2>10
<1>7. CASE ~(form.shape # <<>> /\ Last(form.shape) = state)
  <2>1. Opened(form, state, after)
    BY <1>1, <1>7
  <2>2. /\ after.shape = Append(form.shape, state)
        /\ after.dwell = Append(form.dwell, 1)
    BY <2>1 DEF Opened
  <2>3. /\ Len(after.shape) = n + 1 /\ after.shape[n + 1] = state /\ after.dwell[n + 1] = 1
        /\ \A k \in 1..n : form.shape[k] = after.shape[k] /\ form.dwell[k] = after.dwell[k]
    BY <1>4, <2>2, AppendProperties
  <2>4. n <= n /\ n <= Len(after.shape)
    BY <1>4, <2>3
  <2>5. g[n] = h[n]
    BY <1>1, <1>2, <1>3, <1>4, <2>3, <2>4, RepliesAgree
  <2>6. n + 1 \in 1..(n + 1) /\ (n + 1) - 1 = n
    BY <1>4
  <2>7. h[n + 1] = h[n] \o [i \in 1..1 |-> state]
    BY <1>3, <2>3, <2>6 DEF IsReplay
  <2>8. h[n] \o [i \in 1..1 |-> state] = Append(h[n] \o [i \in 1..0 |-> state], state)
    <3>1. h[n] \in Seq(ElementaryStates) /\ 0 \in Nat /\ 0 + 1 = 1
      BY <1>5, <2>5
    <3> QED
      BY <3>1, LongerRun
  <2>9. h[n] \o [i \in 1..0 |-> state] = h[n]
    <3>1. [i \in 1..0 |-> state] = <<>>
      OBVIOUS
    <3> QED
      BY <1>5, <2>5, <3>1, ConcatEmptySeq
  <2>10. Replayed(after) = h[n + 1]
    BY <1>3, <2>3 DEF IsReplay
  <2> QED
    BY <1>0, <1>5, <2>5, <2>7, <2>8, <2>9, <2>10
<1> QED
  BY <1>5, <1>6, <1>7

-----------------------------------------------------------------------------
\* What round i of the loop leaves, of the path read so far.
RoundIsExact(f, p, i) ==
  LET sh == f[i].shape
  IN  /\ Replayed(f[i]) = SubSeq(p, 1, i)
      /\ \A k \in 2..Len(sh) : sh[k] # sh[k - 1]
      /\ i = 0 => sh = <<>>
      /\ i > 0 => sh # <<>> /\ Last(sh) = p[i] /\ sh[1] = p[1]

LEMMA ReplayOfNothing == Replayed(NoForm) = <<>>
<1>1. NoForm \in Forms
  BY EmptySeq DEF Forms, NoForm
<1>2. PICK g : IsReplay(g, NoForm)
  BY <1>1, ReplayByRun
<1> QED
  BY <1>2 DEF IsReplay, NoForm

LEMMA NextRound ==
  ASSUME NEW p \in Seq(ElementaryStates), NEW f, IsCollapse(f, p),
         NEW i \in Nat, i + 1 <= Len(p), RoundIsExact(f, p, i)
  PROVE  RoundIsExact(f, p, i + 1)
<1> DEFINE form == f[i]
           after == f[i + 1]
           state == p[i + 1]
           n == Len(form.shape)
<1>1. /\ Len(p) \in Nat /\ i \in 0..Len(p) /\ i + 1 \in 1..Len(p) /\ (i + 1) - 1 = i
      /\ state \in ElementaryStates
  BY LenProperties, ElementOfSeq
<1>2. form \in Forms /\ after = Absorb(form, state)
  BY <1>1 DEF IsCollapse
<1>3. /\ form.shape # <<>> /\ Last(form.shape) = state => Extended(form, after)
      /\ ~(form.shape # <<>> /\ Last(form.shape) = state) => Opened(form, state, after)
  BY <1>1, <1>2, AbsorbCases
<1>4. /\ n \in Nat /\ form.shape \in Seq(ElementaryStates)
  BY <1>2, LenProperties DEF Forms
<1>5. Replayed(after) = SubSeq(p, 1, i + 1)
  <2>1. Replayed(after) = Append(SubSeq(p, 1, i), state)
    BY <1>1, <1>2, AbsorbedIsReplayed DEF RoundIsExact
  <2>2. SubSeq(p, 1, i + 1) = SubSeq(p, 1, (i + 1) - 1) \o <<state>>
    <3>1. 1 \in 1..Len(p) /\ i + 1 \in 1..Len(p)
      BY <1>1
    <3> QED
      BY <3>1, SubSeqRecursiveSecond
  <2>3. SubSeq(p, 1, i) \in Seq(ElementaryStates)
    <3>1. \A k \in 1..i : p[k] \in ElementaryStates
      BY <1>1, ElementOfSeq
    <3> QED
      BY <3>1, SubSeqProperties
  <2>4. Append(SubSeq(p, 1, i), state) = SubSeq(p, 1, i) \o <<state>>
    BY <1>1, <2>3, AppendIsConcat
  <2> QED
    BY <1>1, <2>1, <2>2, <2>4
<1>6. /\ \A k \in 2..n : form.shape[k] # form.shape[k - 1]
      /\ i = 0 => form.shape = <<>>
      /\ i > 0 => form.shape # <<>> /\ Last(form.shape) = p[i] /\ form.shape[1] = p[1]
  BY DEF RoundIsExact
<1>7. CASE form.shape # <<>> /\ Last(form.shape) = state
  <2>1. after.shape = form.shape /\ i > 0
    BY <1>1, <1>3, <1>6, <1>7 DEF Extended
  <2>2. after.shape # <<>> /\ Last(after.shape) = p[i + 1] /\ after.shape[1] = p[1]
    BY <1>6, <1>7, <2>1
  <2>3. \A k \in 2..Len(after.shape) : after.shape[k] # after.shape[k - 1]
    BY <1>6, <2>1
  <2>4. i + 1 # 0
    BY <2>1
  <2> HIDE DEF after
  <2> QED
    BY <1>1, <1>5, <2>2, <2>3, <2>4 DEF RoundIsExact, after
<1>8. CASE ~(form.shape # <<>> /\ Last(form.shape) = state)
  <2>1. after.shape = Append(form.shape, state)
    BY <1>3, <1>8 DEF Opened
  <2>2. /\ Len(after.shape) = n + 1 /\ after.shape[n + 1] = state
        /\ \A k \in 1..n : after.shape[k] = form.shape[k]
        /\ after.shape # <<>>
    <3> HIDE DEF state, n
    <3>1. /\ Len(Append(form.shape, state)) = Len(form.shape) + 1
          /\ Append(form.shape, state)[Len(form.shape) + 1] = state
          /\ \A k \in 1..Len(form.shape) : Append(form.shape, state)[k] = form.shape[k]
          /\ Append(form.shape, state) # <<>>
      BY <1>1, <1>4, AppendProperties
    <3> HIDE DEF form, after
    <3> QED
      BY <2>1, <3>1 DEF n
  <2>3. Last(after.shape) = state
    BY <2>2 DEF Last
  <2>4. ASSUME NEW k \in 2..(n + 1) PROVE after.shape[k] # after.shape[k - 1]
    <3>1. CASE k \in 2..n
      <4>1. k \in 1..n /\ k - 1 \in 1..n
        BY <1>4, <3>1
      <4> QED
        BY <1>6, <2>2, <3>1, <4>1
    <3>2. CASE k = n + 1
      <4>1. n \in 1..n /\ k - 1 = n /\ form.shape # <<>>
        BY <1>4, <3>2, EmptySeq
      <4>2. form.shape[n] # state
        BY <1>8, <4>1 DEF Last
      <4> QED
        BY <2>2, <3>2, <4>1, <4>2
    <3>3. k \in 2..n \/ k = n + 1
      <4>1. n \in Nat
        BY <1>4
      <4> HIDE DEF n
      <4> QED
        BY <4>1
    <3> QED
      BY <3>1, <3>2, <3>3
  <2>5. after.shape[1] = p[1]
    <3>1. CASE i = 0
      <4>1. n = 0
        BY <1>6, <3>1, EmptySeq
      <4> QED
        BY <2>2, <3>1, <4>1
    <3>2. CASE i > 0
      <4>1. 1 \in 1..n
        BY <1>4, <1>6, <3>2, EmptySeq
      <4> QED
        BY <1>6, <2>2, <3>2, <4>1
    <3> QED
      BY <3>1, <3>2
  <2> QED
    BY <1>1, <1>5, <2>2, <2>3, <2>4, <2>5 DEF RoundIsExact
<1> QED
  BY <1>7, <1>8

(* Every round of the loop is exact.                                        *)
LEMMA RoundsAreExact ==
  ASSUME NEW p \in Seq(ElementaryStates), NEW f, IsCollapse(f, p)
  PROVE  \A i \in 0..Len(p) : RoundIsExact(f, p, i)
<1>2. Len(p) \in Nat
  BY LenProperties
<1> DEFINE Good == {l \in Nat : l <= Len(p) => RoundIsExact(f, p, l)}
<1>3. 0 \in Good
  <2>1. f[0] = NoForm /\ NoForm.shape = <<>>
    BY DEF IsCollapse, NoForm
  <2>2. SubSeq(p, 1, 0) = <<>>
    BY SubSeqEmpty
  <2>3. RoundIsExact(f, p, 0)
    BY <2>1, <2>2, ReplayOfNothing, EmptySeq DEF RoundIsExact
  <2> QED
    BY <2>3
<1>4. ASSUME NEW l \in Nat, l \in Good PROVE l + 1 \in Good
  <2>1. CASE l + 1 <= Len(p)
    <3>1. RoundIsExact(f, p, l)
      BY <1>2, <1>4, <2>1
    <3>2. RoundIsExact(f, p, l + 1)
      BY <2>1, <3>1, NextRound
    <3> QED
      BY <3>2
  <2> QED
    BY <2>1
<1>5. Nat \subseteq Good
  <2> HIDE DEF Good
  <2> QED
    BY <1>3, <1>4, NatSetInduction
<1> QED
  BY <1>2, <1>5

(* The whole of a path is collapsed without loss.                           *)
LEMMA PathIsCollapsed ==
  ASSUME NEW p \in Seq(ElementaryStates)
  PROVE  LET form == NormalizePathRunCollapse(p)
         IN  /\ form \in Forms
             /\ Replayed(form) = p
             /\ \A k \in 2..Len(form.shape) : form.shape[k] # form.shape[k - 1]
             /\ p # <<>> => form.shape # <<>> /\ Last(form.shape) = Last(p) /\ form.shape[1] = p[1]
<1>1. PICK f : IsCollapse(f, p)
  BY CollapseByState
<1>2. Len(p) \in Nat
  BY LenProperties
<1>3. RoundIsExact(f, p, Len(p))
  BY <1>1, <1>2, RoundsAreExact
<1>4. SubSeq(p, 1, Len(p)) = p
  BY SubSeqFull
<1>5. NormalizePathRunCollapse(p) = f[Len(p)] /\ f[Len(p)] \in Forms
  BY <1>1, <1>2 DEF IsCollapse
<1>6. p # <<>> => Len(p) > 0
  BY <1>2, EmptySeq
<1> QED
  BY <1>3, <1>4, <1>5, <1>6 DEF RoundIsExact, Last

(* The states entered are the shape.                                        *)
LEMMA ShapeIsEntered ==
  ASSUME NEW p \in Seq(ElementaryStates)
  PROVE  Shape(p) = Entered(p)
<1> DEFINE n == Len(p)
           Body(e) == [i \in 0..n |-> IF i = 0 THEN <<>>
                                      ELSE IF i > 1 /\ p[i] = p[i - 1] THEN e[i - 1]
                                      ELSE Append(e[i - 1], p[i])]
           E == CHOOSE e : e = Body(e)
<1>1. PICK f : IsCollapse(f, p)
  BY CollapseByState
<1>2. n \in Nat
  BY LenProperties
<1>3. \A i \in 0..n : RoundIsExact(f, p, i)
  BY <1>1, RoundsAreExact
<1> DEFINE e == [i \in 0..n |-> f[i].shape]
<1>4. e[0] = <<>>
  BY <1>1, <1>2 DEF IsCollapse, NoForm
<1>5. ASSUME NEW i \in 1..n
      PROVE  e[i] = IF i > 1 /\ p[i] = p[i - 1] THEN e[i - 1] ELSE Append(e[i - 1], p[i])
  <2>1. i \in 0..n /\ i - 1 \in 0..n /\ p[i] \in ElementaryStates
    BY <1>2, ElementOfSeq
  <2>2. f[i - 1] \in Forms /\ f[i] = Absorb(f[i - 1], p[i])
    BY <1>1, <2>1 DEF IsCollapse
  <2>3. e[i] = f[i].shape /\ e[i - 1] = f[i - 1].shape
    BY <2>1
  <2>4. f[i - 1].shape # <<>> /\ Last(f[i - 1].shape) = p[i] => e[i] = e[i - 1]
    BY <2>1, <2>2, <2>3, AbsorbCases DEF Extended
  <2>5. ~(f[i - 1].shape # <<>> /\ Last(f[i - 1].shape) = p[i])
          => e[i] = Append(e[i - 1], p[i])
    BY <2>1, <2>2, <2>3, AbsorbCases DEF Opened
  <2>6. /\ i - 1 = 0 => f[i - 1].shape = <<>>
        /\ i - 1 > 0 => f[i - 1].shape # <<>> /\ Last(f[i - 1].shape) = p[i - 1]
    BY <1>3, <2>1 DEF RoundIsExact
  <2> HIDE DEF e
  <2>7. CASE i = 1
    BY <2>5, <2>6, <2>7
  <2>8. CASE i > 1
    <3>1. i - 1 > 0
      BY <2>8
    <3>2. Last(f[i - 1].shape) = p[i - 1] /\ f[i - 1].shape # <<>>
      BY <2>6, <3>1
    <3> QED
      BY <2>4, <2>5, <2>8, <3>2
  <2> QED
    BY <2>7, <2>8
<1> HIDE DEF e
<1>6. e = Body(e)
  <2>1. ASSUME NEW i \in 0..n PROVE e[i] = Body(e)[i]
    <3>1. CASE i = 0
      BY <1>4, <3>1
    <3>2. CASE i \in 1..n
      BY <1>5, <3>2
    <3> QED
      BY <1>2, <3>1, <3>2
  <2>2. e = [i \in 0..n |-> e[i]] /\ Body(e) = [i \in 0..n |-> Body(e)[i]]
    BY DEF e
  <2> HIDE DEF Body
  <2> QED
    BY <2>1, <2>2
<1>7. E = Body(E)
  <2> HIDE DEF Body
  <2> QED
    BY <1>6
<1> HIDE DEF E
<1> DEFINE Good == {l \in Nat : l <= n => E[l] = e[l]}
<1>8. 0 \in Good
  <2>1. E[0] = <<>>
    BY <1>2, <1>7
  <2> QED
    BY <1>4, <2>1
<1>9. ASSUME NEW l \in Nat, l \in Good PROVE l + 1 \in Good
  <2>1. CASE l + 1 <= n
    <3>1. l + 1 \in 1..n /\ l + 1 \in 0..n /\ l + 1 # 0 /\ (l + 1) - 1 = l /\ E[l] = e[l]
      BY <1>2, <1>9, <2>1
    <3>2. E[l + 1] = Body(E)[l + 1]
      BY <1>7
    <3>3. Body(E)[l + 1] = IF l + 1 > 1 /\ p[l + 1] = p[l] THEN E[l] ELSE Append(E[l], p[l + 1])
      BY <3>1
    <3>4. e[l + 1] = IF l + 1 > 1 /\ p[l + 1] = p[l] THEN e[l] ELSE Append(e[l], p[l + 1])
      BY <1>5, <3>1
    <3>5. E[l + 1] = e[l + 1]
      <4> HIDE DEF Body
      <4> QED
        BY <3>1, <3>2, <3>3, <3>4
    <3> QED
      BY <3>5
  <2> QED
    BY <2>1
<1>10. Nat \subseteq Good
  <2> HIDE DEF Good
  <2> QED
    BY <1>8, <1>9, NatSetInduction
<1>11. E[n] = e[n]
  BY <1>2, <1>10
<1>12. Entered(p) = E[n]
  BY DEF Entered, E
<1>13. Shape(p) = e[n]
  BY <1>1, <1>2 DEF IsCollapse, Shape, e
<1> QED
  BY <1>11, <1>12, <1>13

LEMMA HeadIsFirst ==
  ASSUME NEW S, NEW r \in Seq(S), r # <<>>
  PROVE  Head(r) = r[1]
<1>1. Len(r) \in 1..Len(r) /\ 1 \in 1..Len(r)
  BY LenProperties, EmptySeq
<1>2. Head(SubSeq(r, 1, Len(r))) = r[1]
  BY <1>1, HeadTailOfSubSeq
<1> QED
  BY <1>2, SubSeqFull

(* An endpoint code is its two states.                                      *)
LEMMA EndpointsAreCoded ==
  ASSUME NEW p \in Seq(ElementaryStates), NEW q \in Seq(ElementaryStates),
         p # <<>>, q # <<>>
  PROVE  /\ EndpointCompression(p) = EndpointCompression(q)
              <=> <<Head(p), Last(p)>> = <<Head(q), Last(q)>>
<1>1. ASSUME NEW r \in Seq(ElementaryStates), r # <<>>
      PROVE  Head(r) \in 0..7 /\ Last(r) \in 0..7
  <2>1. Head(r) \in ElementaryStates
    BY <1>1, HeadTailProperties
  <2>2. Len(r) \in 1..Len(r)
    BY <1>1, LenProperties, EmptySeq
  <2>3. r[Len(r)] \in ElementaryStates
    BY <2>2, ElementOfSeq
  <2> QED
    BY <2>1, <2>3 DEF Last, ElementaryStates
<1>2. ASSUME NEW a \in 0..7, NEW b \in 0..7, NEW c \in 0..7, NEW d \in 0..7
      PROVE  8 * a + b = 8 * c + d <=> a = c /\ b = d
  OBVIOUS
<1>3. /\ Head(p) \in 0..7 /\ Last(p) \in 0..7 /\ Head(q) \in 0..7 /\ Last(q) \in 0..7
  BY <1>1
<1>4. 8 * Head(p) + Last(p) = 8 * Head(q) + Last(q) <=> Head(p) = Head(q) /\ Last(p) = Last(q)
  <2>1. PICK a \in 0..7, b \in 0..7, c \in 0..7, d \in 0..7 :
          a = Head(p) /\ b = Last(p) /\ c = Head(q) /\ d = Last(q)
    BY <1>3
  <2>2. 8 * a + b = 8 * c + d <=> a = c /\ b = d
    BY <1>2
  <2> QED
    BY <2>1, <2>2
<1>5. (<<Head(p), Last(p)>> = <<Head(q), Last(q)>>) <=> (Head(p) = Head(q) /\ Last(p) = Last(q))
  OBVIOUS
<1> QED
  BY <1>4, <1>5 DEF EndpointCompression

(* One form ends where it ends, and one form with one dwell is one path.    *)
LEMMA FormsTellPaths ==
  ASSUME NEW p \in Seq(ElementaryStates), NEW q \in Seq(ElementaryStates),
         p # <<>>, q # <<>>, Shape(p) = Shape(q)
  PROVE  /\ EndpointCompression(p) = EndpointCompression(q)
         /\ DwellSignature(p) = DwellSignature(q) => p = q
<1> DEFINE a == NormalizePathRunCollapse(p)
           b == NormalizePathRunCollapse(q)
<1>1. /\ a \in Forms /\ Replayed(a) = p
      /\ Last(a.shape) = Last(p) /\ a.shape[1] = p[1]
  BY PathIsCollapsed
<1>2. /\ b \in Forms /\ Replayed(b) = q
      /\ Last(b.shape) = Last(q) /\ b.shape[1] = q[1]
  BY PathIsCollapsed
<1>3. a.shape = b.shape
  BY DEF Shape
<1>4. Head(p) = p[1] /\ Head(q) = q[1]
  BY HeadIsFirst
<1> HIDE DEF a, b
<1>5. EndpointCompression(p) = EndpointCompression(q)
  <2>1. Head(p) = Head(q) /\ Last(p) = Last(q)
    BY <1>1, <1>2, <1>3, <1>4
  <2> QED
    BY <2>1 DEF EndpointCompression
<1>6. ASSUME a.dwell = b.dwell PROVE p = q
  <2>1. a = [shape |-> a.shape, dwell |-> a.dwell] /\ b = [shape |-> b.shape, dwell |-> b.dwell]
    BY <1>1, <1>2 DEF Forms
  <2>2. a = b
    BY <1>3, <1>6, <2>1
  <2> QED
    BY <1>1, <1>2, <2>2
<1> QED
  BY <1>5, <1>6 DEF DwellSignature, a, b

LEMMA AppendToTuples ==
  ASSUME NEW x, NEW y
  PROVE  /\ Append(<<x>>, y) = <<x, y>>
         /\ Append(<<x, y>>, x) = <<x, y, x>>
<1> DEFINE S == {x, y}
<1>1. <<x>> \in Seq(S) /\ <<x, y>> \in Seq(S) /\ <<x, y, x>> \in Seq(S)
  OBVIOUS
<1>2. Append(<<x>>, y) = <<x, y>>
  <2>1. /\ Append(<<x>>, y) \in Seq(S) /\ Len(Append(<<x>>, y)) = 2
        /\ Append(<<x>>, y)[1] = x /\ Append(<<x>>, y)[2] = y
    BY <1>1, AppendProperties
  <2>2. Len(<<x, y>>) = 2 /\ <<x, y>>[1] = x /\ <<x, y>>[2] = y
    OBVIOUS
  <2>3. \A i \in 1..2 : i = 1 \/ i = 2
    OBVIOUS
  <2>4. \A i \in 1..2 : Append(<<x>>, y)[i] = <<x, y>>[i]
    BY <2>1, <2>2, <2>3
  <2> QED
    BY <1>1, <2>1, <2>2, <2>4, SeqEqual
<1>3. Append(<<x, y>>, x) = <<x, y, x>>
  <2>1. /\ Append(<<x, y>>, x) \in Seq(S) /\ Len(Append(<<x, y>>, x)) = 3
        /\ \A i \in 1..2 : Append(<<x, y>>, x)[i] = <<x, y>>[i]
        /\ Append(<<x, y>>, x)[3] = x
    BY <1>1, AppendProperties
  <2>2. Len(<<x, y, x>>) = 3 /\ <<x, y, x>>[3] = x
        /\ \A i \in 1..2 : <<x, y, x>>[i] = <<x, y>>[i]
    OBVIOUS
  <2>3. \A i \in 1..3 : i \in 1..2 \/ i = 3
    OBVIOUS
  <2>4. \A i \in 1..3 : Append(<<x, y>>, x)[i] = <<x, y, x>>[i]
    BY <2>1, <2>2, <2>3
  <2> QED
    BY <1>1, <2>1, <2>2, <2>4, SeqEqual
<1> QED
  BY <1>2, <1>3

(* groupByShape() keeps the paths of one form together, in order.           *)
LEMMA GroupsAreForms ==
  ASSUME NEW p \in Seq(ElementaryStates), NEW q \in Seq(ElementaryStates),
         NEW A, NEW B, A = Shape(p), B = Shape(q)
  PROVE  GroupByShape(<<p, q, p>>) =
           [form \in {A, B} |->
              IF A = B THEN <<p, q, p>> ELSE IF form = A THEN <<p, p>> ELSE <<q>>]
<1> DEFINE paths == <<p, q, p>>
           Turn(g, i) ==
             LET key   == Shape(paths[i])
                 known == DOMAIN g
             IN  [k \in known \cup {key} |->
                    IF k # key THEN g[k]
                    ELSE IF k \in known THEN Append(g[k], paths[i])
                    ELSE <<paths[i]>>]
           Body(g) == [i \in 0..Len(paths) |-> IF i = 0 THEN <<>> ELSE Turn(g[i - 1], i)]
           G == CHOOSE g : g = Body(g)
           g1 == Turn(<<>>, 1)
           g2 == Turn(g1, 2)
           g3 == Turn(g2, 3)
           g == [i \in 0..3 |-> IF i = 0 THEN <<>> ELSE IF i = 1 THEN g1
                                ELSE IF i = 2 THEN g2 ELSE g3]
<1>1. Len(paths) = 3 /\ paths[1] = p /\ paths[2] = q /\ paths[3] = p
  OBVIOUS
<1>2. GroupByShape(paths) = G[3]
  BY <1>1 DEF GroupByShape
<1>3. g1 = [k \in {A} |-> <<p>>]
  BY <1>1
<1>4. /\ A = B => g2 = [k \in {A} |-> <<p, q>>]
      /\ A # B => g2 = [k \in {A, B} |-> IF k = A THEN <<p>> ELSE <<q>>]
  <2> HIDE DEF g1
  <2>1. Append(<<p>>, q) = <<p, q>>
    BY AppendToTuples
  <2> QED
    BY <1>1, <1>3, <2>1
<1>5. g3 = [k \in {A, B} |-> IF A = B THEN <<p, q, p>> ELSE IF k = A THEN <<p, p>> ELSE <<q>>]
  <2> HIDE DEF g2
  <2>1. Append(<<p>>, p) = <<p, p>> /\ Append(<<p, q>>, p) = <<p, q, p>>
    BY AppendToTuples
  <2>2. CASE A = B
    <3>1. g3 = [k \in {A} |-> <<p, q, p>>]
      BY <1>1, <1>4, <2>1, <2>2
    <3>2. {A, B} = {A}
      BY <2>2
    <3> HIDE DEF g3
    <3> QED
      BY <2>2, <3>1, <3>2
  <2>3. CASE A # B
    BY <1>1, <1>4, <2>1, <2>3
  <2> QED
    BY <2>2, <2>3
<1> HIDE DEF Turn
<1>6. g = Body(g)
  BY <1>1
<1>7. G = Body(G)
  <2> HIDE DEF Body, g
  <2> QED
    BY <1>6
<1> HIDE DEF G, g
<1>8. G[0] = <<>> /\ G[1] = Turn(G[0], 1) /\ G[2] = Turn(G[1], 2) /\ G[3] = Turn(G[2], 3)
  BY <1>1, <1>7
<1>9. G[3] = g3
  BY <1>8
<1> QED
  BY <1>2, <1>5, <1>9

PathsInv ==
  /\ left \in Seq(States) /\ left # <<>>
  /\ right \in Seq(States) /\ right # <<>>

LEMMA PathsAreElementary ==
  PathsInv => /\ left \in Seq(ElementaryStates) /\ left # <<>>
              /\ right \in Seq(ElementaryStates) /\ right # <<>>
<1> SUFFICES ASSUME PathsInv
             PROVE  left \in Seq(ElementaryStates) /\ right \in Seq(ElementaryStates)
  BY DEF PathsInv
<1>1. ASSUME NEW r \in Seq(States) PROVE r \in Seq(ElementaryStates)
  <2>1. /\ Len(r) \in Nat /\ r \in [1..Len(r) -> States]
    BY LenProperties
  <2>2. r \in [1..Len(r) -> ElementaryStates]
    BY <2>1, StatesAreElementary
  <2> QED
    BY <2>1, <2>2, IsASeq
<1> QED
  BY <1>1 DEF PathsInv

-----------------------------------------------------------------------------
(* The low three bits of a byte are the state.                              *)
LEMMA LowBits ==
  ASSUME NEW b \in Nat
  PROVE  b % 8 \in 0..7 /\ Bits(b) = Bits(b % 8)
<1>1. 2^0 = 1 /\ 2^1 = 2 /\ 2^2 = 4
  OBVIOUS
<1>2. /\ b % 8 \in 0..7
      /\ b % 2 = (b % 8) % 2
      /\ (b \div 2) % 2 = ((b % 8) \div 2) % 2
      /\ (b \div 4) % 2 = ((b % 8) \div 4) % 2
  OBVIOUS
<1>3. ASSUME NEW k \in 0..2
      PROVE  (b \div 2^k) % 2 = 1 <=> ((b % 8) \div 2^k) % 2 = 1
  <2>1. CASE k = 0
    BY <1>1, <1>2, <2>1
  <2>2. CASE k = 1
    BY <1>1, <1>2, <2>2
  <2>3. CASE k = 2
    BY <1>1, <1>2, <2>3
  <2> QED
    BY <2>1, <2>2, <2>3
<1> QED
  BY <1>2, <1>3 DEF Bits

\* The bytes are those of the path, with the same bits set above the low three.
Carries(b, p) ==
  /\ b \in Seq(Nat) /\ Len(b) = Len(p)
  /\ \A i \in 1..Len(p) : b[i] % 8 = p[i] /\ Bits(b[i]) = Bits(p[i])

LEMMA BytesCarryStates ==
  ASSUME NEW p \in Seq(ElementaryStates), NEW b \in BytesOf(p)
  PROVE  Carries(b, p)
<1>1. PICK c \in Bytes : b = [i \in DOMAIN p |-> p[i] + (c - Q3(c))]
  BY DEF BytesOf
<1>2. Len(p) \in Nat /\ DOMAIN p = 1..Len(p) /\ \A i \in 1..Len(p) : p[i] \in ElementaryStates
  BY LenProperties, ElementOfSeq
<1>3. c \in Nat
  BY BytesAssumption
<1>4. ASSUME NEW i \in 1..Len(p)
      PROVE  b[i] = p[i] + (c - (c % 8)) /\ b[i] \in Nat /\ b[i] % 8 = p[i]
  <2>1. PICK s \in 0..7 : s = p[i]
    BY <1>2 DEF ElementaryStates
  <2>2. b[i] = s + (c - (c % 8))
    BY <1>1, <1>2, <2>1 DEF Q3
  <2>3. (s + (c - (c % 8))) % 8 = s /\ s + (c - (c % 8)) \in Nat
    BY <1>3
  <2> QED
    BY <2>1, <2>2, <2>3
<1>5. b \in Seq(Nat) /\ Len(b) = Len(p)
  <2>1. b \in [1..Len(p) -> Nat]
    BY <1>1, <1>2, <1>4
  <2> QED
    BY <1>2, <2>1, IsASeq
<1>6. \A i \in 1..Len(p) : Bits(b[i]) = Bits(p[i])
  BY <1>4, LowBits
<1> QED
  BY <1>4, <1>5, <1>6 DEF Carries

-----------------------------------------------------------------------------
(* The core collapses the bytes as the reference collapses the states.      *)
LEMMA CoreCollapses ==
  ASSUME NEW p \in Seq(ElementaryStates), NEW b, Carries(b, p)
  PROVE  Core!Collapsed(b) = NormalizePathRunCollapse(p)
<1> DEFINE n == Len(b)
           Body(k) ==
             [i \in 0..n |->
                IF i = 0 THEN [shape |-> <<>>, dwell |-> <<>>]
                ELSE LET before == k[i - 1]
                         state  == Core!Masked(b[i])
                     IN  IF before.shape # <<>> /\ Last(before.shape) = state
                         THEN [before EXCEPT !.dwell[Len(before.dwell)] = @ + 1]
                         ELSE [shape |-> Append(before.shape, state),
                               dwell |-> Append(before.dwell, 1)]]
           K == CHOOSE k : k = Body(k)
<1>1. PICK f : IsCollapse(f, p)
  BY CollapseByState
<1>2. n \in Nat /\ n = Len(p)
  BY LenProperties DEF Carries
<1>3. \A i \in 1..n : Core!Masked(b[i]) = p[i]
  BY <1>2 DEF Carries, Core!Masked
<1>4. ASSUME NEW k, NEW i \in 1..n PROVE Body(k)[i] = Absorb(k[i - 1], p[i])
  <2>1. i \in 0..n /\ i # 0
    BY <1>2
  <2> QED
    BY <1>3, <2>1 DEF Absorb
<1>5. ASSUME NEW k PROVE Body(k)[0] = NoForm /\ Body(k) = [i \in 0..n |-> Body(k)[i]]
  BY <1>2 DEF NoForm
<1> HIDE DEF Body
<1>6. f = Body(f)
  <2>1. ASSUME NEW i \in 0..n PROVE f[i] = Body(f)[i]
    <3>1. CASE i = 0
      BY <1>1, <1>5, <3>1 DEF IsCollapse
    <3>2. CASE i \in 1..n
      BY <1>1, <1>2, <1>4, <3>2 DEF IsCollapse
    <3> QED
      BY <1>2, <3>1, <3>2
  <2>2. f = [i \in 0..n |-> f[i]]
    BY <1>1, <1>2 DEF IsCollapse
  <2> QED
    BY <1>5, <2>1, <2>2
<1>7. K = Body(K)
  BY <1>6
<1> HIDE DEF K
<1> DEFINE Good == {l \in Nat : l <= n => K[l] = f[l]}
<1>8. 0 \in Good
  BY <1>1, <1>5, <1>7 DEF IsCollapse
<1>9. ASSUME NEW l \in Nat, l \in Good PROVE l + 1 \in Good
  <2>1. CASE l + 1 <= n
    <3>1. l + 1 \in 1..n /\ (l + 1) - 1 = l /\ K[l] = f[l]
      BY <1>2, <1>9, <2>1
    <3>2. K[l + 1] = Absorb(K[l], p[l + 1])
      BY <1>4, <1>7, <3>1
    <3>3. f[l + 1] = Absorb(f[l], p[l + 1])
      BY <1>1, <1>2, <3>1 DEF IsCollapse
    <3>4. K[l + 1] = f[l + 1]
      BY <3>1, <3>2, <3>3
    <3> QED
      BY <3>4
  <2> QED
    BY <2>1
<1>10. Nat \subseteq Good
  <2> HIDE DEF Good
  <2> QED
    BY <1>8, <1>9, NatSetInduction
<1>11. K[n] = f[n]
  BY <1>2, <1>10
<1>12. Core!Collapsed(b) = K[n]
  BY DEF Core!Collapsed, K, Body, Core!Last, Last
<1> QED
  BY <1>1, <1>2, <1>11, <1>12 DEF IsCollapse

-----------------------------------------------------------------------------
Between(p, i) == SymDiff(Bits(p[i]), Bits(p[i + 1]))

IsNet(net, p) ==
  /\ net = [i \in 0..(Len(p) - 1) |-> net[i]]
  /\ net[0] = {}
  /\ \A i \in 1..(Len(p) - 1) : net[i] = SymDiff(net[i - 1], Between(p, i))
  /\ NetMutation(p) = net[Len(p) - 1]

IsTotal(total, p) ==
  /\ total = [i \in 0..(Len(p) - 1) |-> total[i]]
  /\ total[0] = 0
  /\ \A i \in 1..(Len(p) - 1) : total[i] = total[i - 1] + Cardinality(Between(p, i))
  /\ CumulativeDistance(p) = total[Len(p) - 1]

LEMMA MasksAreSmall ==
  ASSUME NEW a, NEW c
  PROVE  SymDiff(Bits(a), Bits(c)) \subseteq 0..2 /\ Cardinality(SymDiff(Bits(a), Bits(c))) \in Nat
<1>1. SymDiff(Bits(a), Bits(c)) \subseteq 0..2
  BY DEF Bits, SymDiff
<1>2. IsFiniteSet(0..2)
  <2>1. 0 \in Int /\ 2 \in Int
    OBVIOUS
  <2> QED
    BY <2>1, FS_Interval
<1>3. IsFiniteSet(SymDiff(Bits(a), Bits(c)))
  BY <1>1, <1>2, FS_Subset
<1> QED
  BY <1>1, <1>3, FS_CardinalityType

LEMMA NetByStep ==
  ASSUME NEW p \in Seq(ElementaryStates), p # <<>>
  PROVE  \E net : IsNet(net, p)
<1> DEFINE n == Len(p) - 1
           S == SUBSET (0..2)
           step == [i \in Nat |-> [u \in S |-> SymDiff(u, Between(p, i))]]
           Body(g) == [i \in 0..n |-> IF i = 0 THEN {} ELSE SymDiff(g[i - 1], MutationPath(p)[i])]
           F == CHOOSE g : g = Body(g)
<1>1. n \in Nat
  BY LenProperties, EmptySeq
<1>2. step \in [Nat -> [S -> S]]
  <2>1. ASSUME NEW i \in Nat, NEW u \in S PROVE SymDiff(u, Between(p, i)) \in S
    BY MasksAreSmall DEF SymDiff, Between
  <2> QED
    BY <2>1
<1>3. \A i \in Nat, u \in S : step[i][u] = SymDiff(u, Between(p, i))
  OBVIOUS
<1>4. ASSUME NEW g, NEW i \in 1..n PROVE Body(g)[i] = SymDiff(g[i - 1], Between(p, i))
  <2>1. i \in 0..n /\ i # 0
    BY <1>1
  <2> QED
    BY <2>1 DEF MutationPath, Between
<1>5. ASSUME NEW g PROVE Body(g)[0] = {} /\ Body(g) = [i \in 0..n |-> Body(g)[i]]
  BY <1>1
<1>6. {} \in S
  OBVIOUS
<1> HIDE DEF step, Body
<1>7. PICK f : IsRun(f, S, {}, n, step)
  <2> HIDE DEF n, S
  <2> QED
    BY <1>1, <1>2, <1>6, PrimitiveRecursion
<1>8. f = Body(f)
  <2>1. ASSUME NEW i \in 0..n PROVE f[i] = Body(f)[i]
    <3>1. CASE i = 0
      BY <1>5, <1>7, <3>1 DEF IsRun
    <3>2. CASE i \in 1..n
      <4>1. i - 1 \in 0..n /\ i \in Nat
        BY <1>1, <3>2
      <4>2. f[i - 1] \in S /\ f[i] = step[i][f[i - 1]]
        <5> HIDE DEF S, n
        <5> QED
          BY <1>7, <3>2, <4>1 DEF IsRun
      <4> QED
        BY <1>3, <1>4, <3>2, <4>1, <4>2
    <3> QED
      BY <1>1, <3>1, <3>2
  <2>2. f = [i \in 0..n |-> f[i]]
    BY <1>7 DEF IsRun
  <2> QED
    BY <1>5, <2>1, <2>2
<1>9. F = Body(F)
  BY <1>8
<1>10. NetMutation(p) = F[n]
  BY DEF NetMutation, F, Body
<1> HIDE DEF F
<1>11. IsNet(F, p)
  BY <1>4, <1>5, <1>9, <1>10 DEF IsNet
<1> QED
  BY <1>11

LEMMA TotalByStep ==
  ASSUME NEW p \in Seq(ElementaryStates), p # <<>>
  PROVE  \E total : IsTotal(total, p)
<1> DEFINE n == Len(p) - 1
           step == [i \in Nat |-> [u \in Nat |-> u + Cardinality(Between(p, i))]]
           Body(g) == [i \in 0..n |-> IF i = 0 THEN 0 ELSE g[i - 1] + Cardinality(MutationPath(p)[i])]
           F == CHOOSE g : g = Body(g)
<1>1. n \in Nat
  BY LenProperties, EmptySeq
<1>2. step \in [Nat -> [Nat -> Nat]]
  <2>1. ASSUME NEW i \in Nat, NEW u \in Nat PROVE u + Cardinality(Between(p, i)) \in Nat
    BY MasksAreSmall DEF Between
  <2> QED
    BY <2>1
<1>3. \A i \in Nat, u \in Nat : step[i][u] = u + Cardinality(Between(p, i))
  OBVIOUS
<1>4. ASSUME NEW g, NEW i \in 1..n PROVE Body(g)[i] = g[i - 1] + Cardinality(Between(p, i))
  <2>1. i \in 0..n /\ i # 0
    BY <1>1
  <2> QED
    BY <2>1 DEF MutationPath, Between
<1>5. ASSUME NEW g PROVE Body(g)[0] = 0 /\ Body(g) = [i \in 0..n |-> Body(g)[i]]
  BY <1>1
<1> HIDE DEF step, Body
<1>7. PICK f : IsRun(f, Nat, 0, n, step)
  <2> HIDE DEF n
  <2> QED
    BY <1>1, <1>2, PrimitiveRecursion
<1>8. f = Body(f)
  <2>1. ASSUME NEW i \in 0..n PROVE f[i] = Body(f)[i]
    <3>1. CASE i = 0
      BY <1>5, <1>7, <3>1 DEF IsRun
    <3>2. CASE i \in 1..n
      <4>1. i - 1 \in 0..n /\ i \in Nat
        BY <1>1, <3>2
      <4>2. f[i - 1] \in Nat /\ f[i] = step[i][f[i - 1]]
        <5> HIDE DEF n
        <5> QED
          BY <1>7, <3>2, <4>1 DEF IsRun
      <4> QED
        BY <1>3, <1>4, <3>2, <4>1, <4>2
    <3> QED
      BY <1>1, <3>1, <3>2
  <2>2. f = [i \in 0..n |-> f[i]]
    BY <1>7 DEF IsRun
  <2> QED
    BY <1>5, <2>1, <2>2
<1>9. F = Body(F)
  BY <1>8
<1>10. CumulativeDistance(p) = F[n]
  BY DEF CumulativeDistance, F, Body
<1> HIDE DEF F
<1>11. IsTotal(F, p)
  BY <1>4, <1>5, <1>9, <1>10 DEF IsTotal
<1> QED
  BY <1>11

LEMMA SameCardinality ==
  ASSUME NEW S
  PROVE  Core!Cardinality(S) = Cardinality(S)
  BY DEF Core!Cardinality, Cardinality

(* The windows of the core are the transitions of the reference.            *)
LEMMA CoreFolds ==
  ASSUME NEW p \in Seq(ElementaryStates), p # <<>>, NEW b, Carries(b, p)
  PROVE  /\ Core!FoldSteps(b).net = NetMutation(p)
         /\ Core!FoldSteps(b).distance = CumulativeDistance(p)
<1>1. PICK net : IsNet(net, p)
  BY NetByStep
<1>2. PICK total : IsTotal(total, p)
  BY TotalByStep
<1> DEFINE n == Len(b)
           Body(k) ==
             [i \in 0..n |->
                IF i <= 1 THEN [net |-> {}, distance |-> 0]
                ELSE Core!Step(k[i - 1], Core!SymDiff(Core!Q3Bits(b[i - 1]), Core!Q3Bits(b[i])))]
           K == CHOOSE k : k = Body(k)
           Kept(i) == [net |-> net[i - 1], distance |-> total[i - 1]]
           f == [i \in 0..n |-> IF i = 0 THEN [net |-> {}, distance |-> 0] ELSE Kept(i)]
<1>3. n \in Nat /\ n = Len(p) /\ n >= 1
  BY LenProperties, EmptySeq DEF Carries
<1>4. ASSUME NEW k, NEW i \in 2..n
      PROVE  Body(k)[i] = [net |-> SymDiff(k[i - 1].net, Between(p, i - 1)),
                           distance |-> k[i - 1].distance + Cardinality(Between(p, i - 1))]
  <2>1. i \in 0..n /\ ~(i <= 1) /\ i \in 1..n /\ i - 1 \in 1..n /\ (i - 1) + 1 = i
    BY <1>3
  <2>2. Core!SymDiff(Core!Q3Bits(b[i - 1]), Core!Q3Bits(b[i])) = Between(p, i - 1)
    <3>1. Bits(b[i - 1]) = Bits(p[i - 1]) /\ Bits(b[i]) = Bits(p[i])
      BY <1>3, <2>1 DEF Carries
    <3>2. Core!Q3Bits(b[i - 1]) = Bits(b[i - 1]) /\ Core!Q3Bits(b[i]) = Bits(b[i])
      BY DEF Core!Q3Bits, Bits
    <3> QED
      BY <2>1, <3>1, <3>2 DEF Core!SymDiff, SymDiff, Between
  <2> HIDE DEF n
  <2> QED
    BY <2>1, <2>2, SameCardinality DEF Core!Step, Core!SymDiff, SymDiff
<1>5. ASSUME NEW k
      PROVE  /\ Body(k)[0] = [net |-> {}, distance |-> 0]
             /\ Body(k)[1] = [net |-> {}, distance |-> 0]
             /\ Body(k) = [i \in 0..n |-> Body(k)[i]]
  BY <1>3
<1>6. Kept(1) = [net |-> {}, distance |-> 0]
  <2>1. net[0] = {} /\ total[0] = 0 /\ 1 - 1 = 0
    BY <1>1, <1>2 DEF IsNet, IsTotal
  <2> QED
    BY <2>1
<1>7. ASSUME NEW i \in 2..n
      PROVE  Kept(i) = [net |-> SymDiff(Kept(i - 1).net, Between(p, i - 1)),
                        distance |-> Kept(i - 1).distance + Cardinality(Between(p, i - 1))]
  <2>1. i - 1 \in 1..(Len(p) - 1)
    BY <1>3
  <2> QED
    BY <1>1, <1>2, <2>1 DEF IsNet, IsTotal
<1> HIDE DEF Body, Kept
<1>8. f = Body(f)
  <2>1. ASSUME NEW i \in 0..n PROVE f[i] = Body(f)[i]
    <3>1. CASE i = 0
      BY <1>5, <3>1
    <3>2. CASE i = 1
      <4>1. f[1] = Kept(1)
        BY <1>3
      <4> HIDE DEF f
      <4> QED
        BY <1>5, <1>6, <3>2, <4>1
    <3>3. CASE i \in 2..n
      <4>1. f[i] = Kept(i) /\ f[i - 1] = Kept(i - 1)
        BY <1>3, <3>3
      <4> HIDE DEF f
      <4> QED
        BY <1>4, <1>7, <3>3, <4>1
    <3>4. i = 0 \/ i = 1 \/ i \in 2..n
      BY <1>3
    <3> QED
      BY <3>1, <3>2, <3>3, <3>4
  <2>2. f = [i \in 0..n |-> f[i]]
    OBVIOUS
  <2> HIDE DEF f
  <2> QED
    BY <1>5, <2>1, <2>2
<1> HIDE DEF f
<1>9. K = Body(K)
  BY <1>8
<1> HIDE DEF K
<1> DEFINE Good == {l \in Nat : l + 1 <= n => K[l + 1] = Kept(l + 1)}
<1>10. 0 \in Good
  BY <1>3, <1>5, <1>6, <1>9
<1>11. ASSUME NEW l \in Nat, l \in Good PROVE l + 1 \in Good
  <2>1. CASE (l + 1) + 1 <= n
    <3>1. (l + 1) + 1 \in 2..n /\ ((l + 1) + 1) - 1 = l + 1 /\ K[l + 1] = Kept(l + 1)
      BY <1>3, <1>11, <2>1
    <3>2. K[(l + 1) + 1] = [net |-> SymDiff(K[l + 1].net, Between(p, l + 1)),
                            distance |-> K[l + 1].distance + Cardinality(Between(p, l + 1))]
      BY <1>4, <1>9, <3>1
    <3>3. Kept((l + 1) + 1) = [net |-> SymDiff(Kept(l + 1).net, Between(p, l + 1)),
                               distance |-> Kept(l + 1).distance + Cardinality(Between(p, l + 1))]
      BY <1>7, <3>1
    <3>4. K[(l + 1) + 1] = Kept((l + 1) + 1)
      BY <3>1, <3>2, <3>3
    <3> QED
      BY <3>4
  <2> QED
    BY <2>1
<1>12. Nat \subseteq Good
  <2> HIDE DEF Good
  <2> QED
    BY <1>10, <1>11, NatSetInduction
<1>13. K[n] = Kept(n)
  <2>1. n - 1 \in Nat /\ (n - 1) + 1 = n
    BY <1>3
  <2> HIDE DEF n
  <2>2. n - 1 \in Good
    BY <1>12, <2>1
  <2> QED
    BY <1>3, <2>1, <2>2
<1>14. Core!FoldSteps(b) = K[n]
  BY DEF Core!FoldSteps, K, Body
<1>15. NetMutation(p) = net[n - 1] /\ CumulativeDistance(p) = total[n - 1]
  BY <1>1, <1>2, <1>3 DEF IsNet, IsTotal
<1> QED
  BY <1>13, <1>14, <1>15 DEF Kept

LEMMA CoreEnds ==
  ASSUME NEW p \in Seq(ElementaryStates), p # <<>>, NEW b, Carries(b, p)
  PROVE  /\ Core!Endpoints(b).endpoint = EndpointCompression(p)
         /\ Core!Endpoints(b).hamming = EndpointHammingDistance(p)
<1> DEFINE n == Len(p)
<1>1. /\ n \in Nat /\ n >= 1 /\ Len(b) = n /\ b # <<>> /\ b \in Seq(Nat)
      /\ 1 \in 1..n /\ n \in 1..n
  BY LenProperties, EmptySeq DEF Carries
<1>2. Head(p) = p[1] /\ Head(b) = b[1]
  BY <1>1, HeadIsFirst
<1>3. /\ b[1] % 8 = p[1] /\ Bits(b[1]) = Bits(p[1])
      /\ b[n] % 8 = p[n] /\ Bits(b[n]) = Bits(p[n])
  BY <1>1 DEF Carries
<1>4. \A x : Core!Q3Bits(x) = Bits(x)
  BY DEF Core!Q3Bits, Bits
<1>5. Core!Masked(Head(b)) = Head(p) /\ Core!Masked(Core!Last(b)) = Last(p)
  BY <1>1, <1>2, <1>3 DEF Core!Masked, Core!Last, Last
<1>6. Core!Q3Bits(Head(b)) = Bits(Head(p)) /\ Core!Q3Bits(Core!Last(b)) = Bits(Last(p))
  BY <1>1, <1>2, <1>3, <1>4 DEF Core!Last, Last
<1>7. Core!Endpoints(b) =
        [endpoint |-> 8 * Core!Masked(Head(b)) + Core!Masked(Core!Last(b)),
         hamming |-> Cardinality(Core!SymDiff(Core!Q3Bits(Head(b)), Core!Q3Bits(Core!Last(b))))]
  BY <1>1, SameCardinality DEF Core!Endpoints
<1>8. Core!Endpoints(b).endpoint = EndpointCompression(p)
  BY <1>5, <1>7 DEF EndpointCompression
<1>9. Core!Endpoints(b).hamming = EndpointHammingDistance(p)
  <2>1. Core!SymDiff(Core!Q3Bits(Head(b)), Core!Q3Bits(Core!Last(b))) = SymDiff(Bits(Head(p)), Bits(Last(p)))
    BY <1>6 DEF Core!SymDiff, SymDiff
  <2> QED
    BY <1>7, <2>1 DEF EndpointHammingDistance
<1> QED
  BY <1>8, <1>9

(* What is admitted is what masking leaves alone.                           *)
LEMMA MaskingAdmits ==
  ASSUME NEW p \in Seq(ElementaryStates), p # <<>>, NEW b, Carries(b, p)
  PROVE  PathQ3Admits(b) <=> b = [i \in DOMAIN b |-> Core!Masked(b[i])]
<1>1. /\ b \in Seq(Nat) /\ b # <<>> /\ DOMAIN b = 1..Len(b)
      /\ \A i \in DOMAIN b : b[i] \in Nat
  BY LenProperties, EmptySeq, ElementOfSeq DEF Carries
<1>2. \A x \in Nat : x \in ElementaryStates <=> x = x % 8
  BY DEF ElementaryStates
<1>3. \A i \in DOMAIN b : b[i] \in ElementaryStates <=> b[i] = Core!Masked(b[i])
  BY <1>1, <1>2 DEF Core!Masked
<1>4. b = [i \in DOMAIN b |-> b[i]]
  BY <1>1
<1>5. (b = [i \in DOMAIN b |-> Core!Masked(b[i])]) <=> \A i \in DOMAIN b : b[i] = Core!Masked(b[i])
  <2>1. ASSUME b = [i \in DOMAIN b |-> Core!Masked(b[i])]
        PROVE  \A i \in DOMAIN b : b[i] = Core!Masked(b[i])
    BY <2>1
  <2>2. ASSUME \A i \in DOMAIN b : b[i] = Core!Masked(b[i])
        PROVE  b = [i \in DOMAIN b |-> Core!Masked(b[i])]
    BY <1>4, <2>2
  <2> QED
    BY <2>1, <2>2
<1> QED
  BY <1>1, <1>3, <1>5 DEF PathQ3Admits

Names == {"net_mutation", "cumulative_distance", "endpoint", "endpoint_hamming"}

LEMMA RowIsProjected ==
  ASSUME NEW x, NEW c \in Names
  PROVE  Core!Row(x)[c] = Core!ProjectTrajectory(x)[c]
  BY DEF Core!ProjectTrajectory, Core!Joined, Core!Row, Core!Scalars, Names

\* Entry i of a column of a batch of two.
Filled(a, b, n, c, i) ==
  Core!CompressTrajectoryBatch(<<a, b>>, Room(n))[c][i] =
    CASE i = 1 -> Core!ProjectTrajectory(a)[c]
      [] i = 2 -> Core!ProjectTrajectory(b)[c]
      [] i = 3 -> "kept"

(* A batch fills what every column has room for, and leaves the rest.       *)
LEMMA BatchFillsWhatFits ==
  ASSUME NEW a, NEW b, NEW n \in 0..3, NEW c \in Names, NEW i \in 1..n
  PROVE  Filled(a, b, n, c, i)
<1> DEFINE room == Room(n)
           lengths == {Len(<<a, b>>)} \cup {Len(room[d]) : d \in DOMAIN room}
           m == Core!Min(lengths)
<1>1. DOMAIN room = Names /\ \A d \in Names : room[d] = [j \in 1..n |-> "kept"]
  BY DEF Room, Names
<1>2. \A d \in Names : Len(room[d]) = n /\ DOMAIN room[d] = 1..n
  <2> HIDE DEF room, lengths, m
  <2>1. [j \in 1..n |-> "kept"] \in [1..n -> {"kept"}] /\ n \in Nat
    OBVIOUS
  <2>2. Len([j \in 1..n |-> "kept"]) = n
    BY <2>1, IsASeq, LenProperties
  <2> QED
    BY <1>1, <2>2
<1>3. lengths = {2, n}
  <2>1. Len(<<a, b>>) = 2 /\ c \in DOMAIN room
    BY <1>1
  <2> HIDE DEF room
  <2> QED
    BY <1>1, <1>2, <2>1
<1>4. m = IF n <= 2 THEN n ELSE 2
  <2>1. m = CHOOSE x \in {2, n} : \A y \in {2, n} : x <= y
    BY <1>3 DEF Core!Min
  <2>2. (IF n <= 2 THEN n ELSE 2) \in {2, n}
    OBVIOUS
  <2>3. \A y \in {2, n} : (IF n <= 2 THEN n ELSE 2) <= y
    OBVIOUS
  <2>4. m \in {2, n} /\ \A y \in {2, n} : m <= y
    <3> HIDE DEF m
    <3> QED
      BY <2>1, <2>2, <2>3
  <2> HIDE DEF m
  <2> QED
    BY <2>4
<1>5. Core!CompressTrajectoryBatch(<<a, b>>, room)[c][i] =
        IF i <= m THEN Core!Row(<<a, b>>[i])[c] ELSE room[c][i]
  <2>1. c \in DOMAIN room /\ i \in DOMAIN room[c]
    BY <1>1, <1>2
  <2> HIDE DEF room
  <2> QED
    BY <2>1 DEF Core!CompressTrajectoryBatch
<1> HIDE DEF m, lengths, room
<1>6. CASE i = 1
  <2>1. i <= m /\ <<a, b>>[i] = a
    BY <1>4, <1>6
  <2> QED
    BY <1>5, <1>6, <2>1, RowIsProjected DEF room, Filled
<1>7. CASE i = 2
  <2>1. i <= m /\ <<a, b>>[i] = b
    BY <1>4, <1>7
  <2> QED
    BY <1>5, <1>7, <2>1, RowIsProjected DEF room, Filled
<1>8. CASE i = 3
  <2>1. ~(i <= m) /\ room[c][i] = "kept"
    BY <1>1, <1>4, <1>8
  <2> QED
    BY <1>5, <1>8, <2>1 DEF room, Filled
<1>9. i = 1 \/ i = 2 \/ i = 3
  OBVIOUS
<1> QED
  BY <1>6, <1>7, <1>8, <1>9

(* The first part of LanguagesAgree, for a path that is called with.        *)
LEMMA CoreProjects ==
  ASSUME NEW p \in Seq(ElementaryStates), p # <<>>, NEW b \in BytesOf(p)
  PROVE  LET core == Core!ProjectTrajectory(b)
         IN  /\ PathQ3Admits(b) <=> b = [i \in DOMAIN b |-> Core!Masked(b[i])]
             /\ core.shape = Shape(p) /\ core.dwell = DwellSignature(p)
             /\ core.net_mutation = NetMutation(p)
             /\ core.cumulative_distance = CumulativeDistance(p)
             /\ core.endpoint = EndpointCompression(p)
             /\ core.endpoint_hamming = EndpointHammingDistance(p)
             /\ \A n \in 0..3 :
                  LET columns == Core!CompressTrajectoryBatch(<<b, Tail(b)>>, Room(n))
                  IN  \A c \in DOMAIN columns : \A i \in 1..n :
                        columns[c][i] = CASE i = 1 -> core[c]
                                          [] i = 2 -> Core!ProjectTrajectory(Tail(b))[c]
                                          [] i = 3 -> "kept"
<1>1. Carries(b, p)
  BY BytesCarryStates
<1>2. PathQ3Admits(b) <=> b = [i \in DOMAIN b |-> Core!Masked(b[i])]
  BY <1>1, MaskingAdmits
<1> DEFINE core == Core!ProjectTrajectory(b)
<1>3. core.shape = Shape(p) /\ core.dwell = DwellSignature(p)
  BY <1>1, CoreCollapses DEF Core!ProjectTrajectory, Core!Joined, Shape, DwellSignature
<1>4. core.net_mutation = NetMutation(p) /\ core.cumulative_distance = CumulativeDistance(p)
  BY <1>1, CoreFolds DEF Core!ProjectTrajectory, Core!Joined, Core!Row, Core!Scalars
<1>5. core.endpoint = EndpointCompression(p) /\ core.endpoint_hamming = EndpointHammingDistance(p)
  BY <1>1, CoreEnds DEF Core!ProjectTrajectory, Core!Joined, Core!Row, Core!Scalars
<1>6. ASSUME NEW n \in 0..3
      PROVE  DOMAIN Core!CompressTrajectoryBatch(<<b, Tail(b)>>, Room(n)) = Names
  BY DEF Core!CompressTrajectoryBatch, Room, Names
<1>7. ASSUME NEW n \in 0..3, NEW c \in Names, NEW i \in 1..n
      PROVE  Filled(b, Tail(b), n, c, i)
  BY BatchFillsWhatFits
<1> QED
  BY <1>2, <1>3, <1>4, <1>5, <1>6, <1>7, Zenon DEF Filled

-----------------------------------------------------------------------------
\* The buffers hold what round read of the reference's loop left.
Reading(f) ==
  /\ IsCollapse(f, left)
  /\ runs = Len(f[read].shape)
  /\ \A k \in 1..runs : shape[k] = f[read].shape[k] /\ dwell[k] = f[read].dwell[k]

BothInv ==
  /\ PathsInv
  /\ CollapseInv
  /\ path = <<>> => pc = "returned" /\ runs = 0 /\ read = 0 /\ opened = <<>>
  /\ path # <<>> => path \in BytesOf(left) /\ \E f : Reading(f)

\* What one more round may change of the runs before it.
LEMMA RunsStay ==
  ASSUME NEW f, NEW p \in Seq(ElementaryStates), IsCollapse(f, p),
         NEW i \in 0..Len(p), i < Len(p)
  PROVE  LET form  == f[i]
             after == f[i + 1]
             n     == Len(form.shape)
         IN  /\ n \in Nat /\ form \in Forms /\ after \in Forms
             /\ form.shape # <<>> /\ Last(form.shape) = p[i + 1] => Extended(form, after)
             /\ ~(form.shape # <<>> /\ Last(form.shape) = p[i + 1])
                  => /\ Len(after.shape) = n + 1
                     /\ after.shape[n + 1] = p[i + 1] /\ after.dwell[n + 1] = 1
                     /\ \A k \in 1..n : after.shape[k] = form.shape[k] /\ after.dwell[k] = form.dwell[k]
<1> DEFINE form  == f[i]
           after == f[i + 1]
           n     == Len(form.shape)
<1>1. /\ Len(p) \in Nat /\ i + 1 \in 1..Len(p) /\ (i + 1) - 1 = i /\ i + 1 \in 0..Len(p)
      /\ p[i + 1] \in ElementaryStates
  BY LenProperties, ElementOfSeq
<1>2. form \in Forms /\ after \in Forms /\ after = Absorb(form, p[i + 1])
  BY <1>1 DEF IsCollapse
<1>3. /\ n \in Nat /\ form.shape \in Seq(ElementaryStates)
      /\ form.dwell \in Seq(Nat) /\ Len(form.dwell) = n
  BY <1>2, LenProperties DEF Forms
<1>4. form.shape # <<>> /\ Last(form.shape) = p[i + 1] => Extended(form, after)
  BY <1>1, <1>2, AbsorbCases
<1>5. ASSUME ~(form.shape # <<>> /\ Last(form.shape) = p[i + 1])
      PROVE  /\ Len(after.shape) = n + 1
             /\ after.shape[n + 1] = p[i + 1] /\ after.dwell[n + 1] = 1
             /\ \A k \in 1..n : after.shape[k] = form.shape[k] /\ after.dwell[k] = form.dwell[k]
  <2>1. Opened(form, p[i + 1], after)
    BY <1>1, <1>2, <1>5, AbsorbCases
  <2>2. PICK state : state = p[i + 1]
    OBVIOUS
  <2>3. after.shape = Append(form.shape, state) /\ after.dwell = Append(form.dwell, 1)
    BY <2>1, <2>2 DEF Opened
  <2> HIDE DEF n
  <2>4. /\ Len(Append(form.shape, state)) = Len(form.shape) + 1
        /\ Append(form.shape, state)[Len(form.shape) + 1] = state
        /\ \A k \in 1..Len(form.shape) : Append(form.shape, state)[k] = form.shape[k]
    BY <1>1, <1>3, <2>2, AppendProperties
  <2>5. /\ Append(form.dwell, 1)[Len(form.dwell) + 1] = 1
        /\ \A k \in 1..Len(form.dwell) : Append(form.dwell, 1)[k] = form.dwell[k]
    <3>1. form.dwell \in Seq(Nat) /\ 1 \in Nat
      BY <1>3
    <3> HIDE DEF form
    <3> QED
      BY <3>1, AppendProperties
  <2>6. n = Len(form.shape) /\ n = Len(form.dwell)
    BY <1>3 DEF n
  <2> HIDE DEF form, after
  <2> QED
    BY <2>2, <2>3, <2>4, <2>5, <2>6
<1> QED
  BY <1>2, <1>3, <1>4, <1>5

(* A run that was closed stays as it is, whatever is read after it.         *)
LEMMA ClosedRunsStay ==
  ASSUME NEW f, NEW p \in Seq(ElementaryStates), IsCollapse(f, p),
         NEW m \in 0..Len(p), m < Len(p),
         ~(f[m].shape # <<>> /\ Last(f[m].shape) = p[m + 1])
  PROVE  /\ Len(f[m].shape) < Len(f[Len(p)].shape)
         /\ \A k \in 1..Len(f[m].shape) :
              /\ f[Len(p)].shape[k] = f[m].shape[k]
              /\ f[Len(p)].dwell[k] = f[m].dwell[k]
<1> DEFINE n == Len(f[m].shape)
           Stays(j) == /\ n < Len(f[j].shape)
                       /\ \A k \in 1..n : f[j].shape[k] = f[m].shape[k] /\ f[j].dwell[k] = f[m].dwell[k]
           Good == {l \in Nat : (m + 1) + l <= Len(p) => Stays((m + 1) + l)}
<1>1. Len(p) \in Nat /\ m \in Nat
  BY LenProperties
<1>2. n \in Nat
  BY RunsStay
<1>3. 0 \in Good
  <2>1. Len(f[m + 1].shape) = n + 1
        /\ \A k \in 1..n : f[m + 1].shape[k] = f[m].shape[k] /\ f[m + 1].dwell[k] = f[m].dwell[k]
    BY RunsStay
  <2>2. (m + 1) + 0 = m + 1
    BY <1>1
  <2>3. Stays(m + 1)
    BY <1>2, <2>1
  <2> HIDE DEF Stays
  <2> QED
    BY <2>2, <2>3
<1>4. ASSUME NEW l \in Nat, l \in Good PROVE l + 1 \in Good
  <2>1. CASE (m + 1) + (l + 1) <= Len(p)
    <3>0. PICK j : j = (m + 1) + l
      OBVIOUS
    <3>1. j \in 0..Len(p) /\ j < Len(p) /\ (m + 1) + (l + 1) = j + 1 /\ Stays(j)
      <4> HIDE DEF Stays
      <4> QED
        BY <1>1, <1>4, <2>1, <3>0
    <3> DEFINE q == Len(f[j].shape)
    <3>2. q \in Nat
      BY <3>1, RunsStay
    <3>3. CASE f[j].shape # <<>> /\ Last(f[j].shape) = p[j + 1]
      <4>1. Extended(f[j], f[j + 1])
        BY <3>1, <3>3, RunsStay
      <4>2. f[j + 1].shape = f[j].shape /\ \A k \in 1..(q - 1) : f[j + 1].dwell[k] = f[j].dwell[k]
        BY <4>1 DEF Extended
      <4>3. \A k \in 1..n : k \in 1..(q - 1)
        <5>1. n < q
          BY <3>1
        <5> HIDE DEF n, q
        <5> QED
          BY <1>2, <3>2, <5>1
      <4>4. Stays(j + 1)
        BY <3>1, <4>2, <4>3
      <4> HIDE DEF Stays
      <4> QED
        BY <3>1, <4>4
    <3>4. CASE ~(f[j].shape # <<>> /\ Last(f[j].shape) = p[j + 1])
      <4>1. /\ Len(f[j + 1].shape) = q + 1
            /\ \A k \in 1..q : f[j + 1].shape[k] = f[j].shape[k] /\ f[j + 1].dwell[k] = f[j].dwell[k]
        BY <3>1, <3>4, RunsStay
      <4>2. n < q + 1 /\ \A k \in 1..n : k \in 1..q
        <5>1. n < q
          BY <3>1
        <5> HIDE DEF n, q
        <5> QED
          BY <1>2, <3>2, <5>1
      <4>4. Stays(j + 1)
        BY <3>1, <4>1, <4>2
      <4> HIDE DEF Stays
      <4> QED
        BY <3>1, <4>4
    <3> QED
      BY <3>3, <3>4
  <2> HIDE DEF Stays
  <2> QED
    BY <2>1
<1>5. Nat \subseteq Good
  <2> HIDE DEF Good
  <2> QED
    BY <1>3, <1>4, NatSetInduction
<1>6. Stays(Len(p))
  <2>1. PICK l \in Nat : (m + 1) + l = Len(p)
    <3>1. Len(p) - (m + 1) \in Nat /\ (m + 1) + (Len(p) - (m + 1)) = Len(p)
      BY <1>1
    <3> QED
      BY <3>1
  <2>2. l \in Good /\ (m + 1) + l <= Len(p)
    BY <1>1, <1>5, <2>1
  <2> HIDE DEF Stays
  <2>3. Stays((m + 1) + l)
    BY <2>2
  <2> QED
    BY <2>1, <2>3
<1> QED
  BY <1>6

LEMMA SubSeqsAgree ==
  ASSUME NEW s \in Seq(Nat), NEW t \in Seq(Nat), NEW r \in Nat,
         r <= Len(s), r <= Len(t), \A k \in 1..r : s[k] = t[k]
  PROVE  SubSeq(s, 1, r) = SubSeq(t, 1, r)
<1>1. \A k \in 1..r : s[k] \in Nat /\ t[k] \in Nat
  <2>1. \A k \in 1..r : k \in 1..Len(s) /\ k \in 1..Len(t)
    BY LenProperties
  <2> QED
    BY <2>1, ElementOfSeq
<1>2. /\ SubSeq(s, 1, r) \in Seq(Nat) /\ Len(SubSeq(s, 1, r)) = r
      /\ \A i \in 1..r : SubSeq(s, 1, r)[i] = s[i]
  <2>1. /\ SubSeq(s, 1, r) \in Seq(Nat)
        /\ Len(SubSeq(s, 1, r)) = IF 1 <= r THEN r - 1 + 1 ELSE 0
        /\ \A i \in 1..(r - 1 + 1) : SubSeq(s, 1, r)[i] = s[1 + i - 1]
    BY <1>1, SubSeqProperties
  <2>2. (IF 1 <= r THEN r - 1 + 1 ELSE 0) = r /\ r - 1 + 1 = r /\ \A i \in 1..r : 1 + i - 1 = i
    OBVIOUS
  <2> QED
    BY <2>1, <2>2
<1>3. /\ SubSeq(t, 1, r) \in Seq(Nat) /\ Len(SubSeq(t, 1, r)) = r
      /\ \A i \in 1..r : SubSeq(t, 1, r)[i] = t[i]
  <2>1. /\ SubSeq(t, 1, r) \in Seq(Nat)
        /\ Len(SubSeq(t, 1, r)) = IF 1 <= r THEN r - 1 + 1 ELSE 0
        /\ \A i \in 1..(r - 1 + 1) : SubSeq(t, 1, r)[i] = t[1 + i - 1]
    BY <1>1, SubSeqProperties
  <2>2. (IF 1 <= r THEN r - 1 + 1 ELSE 0) = r /\ r - 1 + 1 = r /\ \A i \in 1..r : 1 + i - 1 = i
    OBVIOUS
  <2> QED
    BY <2>1, <2>2
<1> QED
  BY <1>2, <1>3, SeqEqual

LEMMA ReadingBytes ==
  ASSUME BothInv, path # <<>>
  PROVE  /\ left \in Seq(ElementaryStates) /\ left # <<>>
         /\ Len(path) = Len(left) /\ Len(left) \in Nat
         /\ \A i \in 1..Len(left) : Q3(path[i]) = left[i]
<1>1. left \in Seq(ElementaryStates) /\ left # <<>>
  BY PathsAreElementary DEF BothInv
<1>2. path \in BytesOf(left)
  BY DEF BothInv
<1>3. Carries(path, left)
  BY <1>1, <1>2, BytesCarryStates
<1> QED
  BY <1>1, <1>3, LenProperties DEF Carries, Q3

LEMMA BothStarts == BothInit => BothInv
<1> SUFFICES ASSUME BothInit PROVE BothInv
  OBVIOUS
<1>1. PathsInv
  <2>1. PICK s \in States, t \in States : left = <<s>> /\ right = <<t>>
    BY DEF BothInit, PathsInit
  <2> QED
    BY <2>1 DEF PathsInv
<1>2. /\ path = <<>> /\ shape = <<>> /\ dwell = <<>> /\ runs = 0 /\ read = 0
      /\ pc = "returned" /\ opened = <<>>
  BY DEF BothInit
<1>3. Len(<<>>) = 0 /\ <<>> \in Seq(Nat)
  BY EmptySeq
<1>4. TypeOK
  BY <1>2, <1>3 DEF TypeOK
<1>5. RunsTilePrefix /\ runs <= read /\ StopsOnlyWhenFull
  BY <1>2, <1>3 DEF RunsTilePrefix, StopsOnlyWhenFull
<1> QED
  BY <1>1, <1>2, <1>4, <1>5 DEF BothInv, CollapseInv

LEMMA ObserveKeepsBoth == BothInv /\ Observe => BothInv'
<1> SUFFICES ASSUME BothInv, Observe PROVE BothInv'
  OBVIOUS
<1>1. path = <<>> /\ UNCHANGED vars
  BY DEF Observe
<1>2. PathsInv'
  <2>1. PICK s \in States : ObserveLeft(s) \/ ObserveRight(s)
    BY DEF Observe, PathsNext
  <2>2. CASE ObserveLeft(s)
    BY <2>2, AppendProperties DEF BothInv, PathsInv, ObserveLeft
  <2>3. CASE ObserveRight(s)
    BY <2>3, AppendProperties DEF BothInv, PathsInv, ObserveRight
  <2> QED
    BY <2>1, <2>2, <2>3
<1>3. CollapseInv'
  BY <1>1 DEF BothInv, CollapseInv, vars, TypeOK, RunsTilePrefix, StopsOnlyWhenFull, EndOf, Capacity
<1> QED
  BY <1>1, <1>2, <1>3 DEF BothInv, vars

LEMMA CallKeepsBoth == BothInv /\ CallLoop => BothInv'
<1> SUFFICES ASSUME BothInv, CallLoop PROVE BothInv'
  OBVIOUS
<1>0. /\ path = <<>> /\ path' \in BytesOf(left)
      /\ shape' \in Buffers(Leftovers) /\ dwell' \in Buffers(Leftovers) /\ pc' = "loop"
      /\ UNCHANGED <<left, right, runs, read, opened>>
  BY DEF CallLoop, Callable
<1>1. runs = 0 /\ read = 0 /\ opened = <<>>
  BY <1>0 DEF BothInv
<1>2. left \in Seq(ElementaryStates) /\ left # <<>>
  BY PathsAreElementary DEF BothInv
<1>3. path' \in Seq(Nat) /\ Len(path') = Len(left) /\ Len(left) \in Nat
  BY <1>0, <1>2, BytesCarryStates, LenProperties DEF Carries
<1>4. path' # <<>>
  BY <1>2, <1>3, EmptySeq
<1>5. PathsInv'
  BY <1>0 DEF BothInv, PathsInv
<1>6. shape' \in Seq(Nat) /\ Len(shape') \in Nat /\ dwell' \in Seq(Nat) /\ Len(dwell') \in Nat
  BY <1>0, LeftoversAssumption, BuffersAreSequences
<1>7. CollapseInv'
  <2>1. TypeOK'
    BY <1>0, <1>1, <1>3, <1>6, EmptySeq DEF TypeOK
  <2> QED
    BY <1>0, <1>1, <2>1 DEF CollapseInv, RunsTilePrefix, StopsOnlyWhenFull
<1>8. \E f : Reading(f)'
  <2>1. PICK f : IsCollapse(f, left)
    BY <1>2, CollapseByState
  <2>2. f[0].shape = <<>> /\ Len(f[0].shape) = 0
    BY <2>1, EmptySeq DEF IsCollapse, NoForm
  <2>3. Reading(f)'
    BY <1>0, <1>1, <2>1, <2>2 DEF Reading
  <2> QED
    BY <2>3
<1> QED
  BY <1>0, <1>4, <1>5, <1>7, <1>8 DEF BothInv

LEMMA CollapseKeepsBoth == BothInv /\ Collapse => BothInv'
<1> SUFFICES ASSUME BothInv, Collapse PROVE BothInv'
  OBVIOUS
<1>0. Next /\ UNCHANGED <<left, right>>
  BY DEF Collapse
<1>1. pc = "loop" /\ path # <<>> /\ path' = path
  BY <1>0 DEF BothInv, Next, Extend, Open, Return, Pending
<1>2. CollapseInv'
  BY <1>0, ExtendKeepsInv, OpenKeepsInv, ReturnKeepsInv DEF BothInv, Next
<1>3. PathsInv'
  BY <1>0 DEF BothInv, PathsInv
<1>4. PICK f : Reading(f)
  BY <1>1 DEF BothInv
<1>5. /\ left \in Seq(ElementaryStates) /\ Len(path) = Len(left) /\ Len(left) \in Nat
      /\ \A i \in 1..Len(left) : Q3(path[i]) = left[i]
  BY <1>1, ReadingBytes
<1>6. /\ shape \in Seq(Nat) /\ dwell \in Seq(Nat) /\ read \in 0..Len(left)
      /\ runs \in Nat /\ runs <= Len(shape) /\ runs <= Len(dwell)
      /\ Len(shape) \in Nat /\ Len(dwell) \in Nat
  <2>1. TypeOK
    BY DEF BothInv, CollapseInv
  <2> QED
    BY <1>5, <2>1, LenProperties DEF TypeOK
<1>7. IsCollapse(f, left) /\ runs = Len(f[read].shape)
      /\ \A k \in 1..runs : shape[k] = f[read].shape[k] /\ dwell[k] = f[read].dwell[k]
  BY <1>4 DEF Reading
<1>8. ASSUME read < Len(left)
      PROVE  /\ Q3(path[read + 1]) = left[read + 1]
             /\ f[read].shape # <<>> /\ Last(f[read].shape) = left[read + 1] <=> Continues
  <2>1. read + 1 \in 1..Len(left)
    BY <1>5, <1>6, <1>8
  <2>2. Q3(path[read + 1]) = left[read + 1]
    BY <1>5, <2>1
  <2>3. f[read] \in Forms
    BY <1>5, <1>6, <1>7, <1>8, RunsStay
  <2>4. f[read].shape \in Seq(ElementaryStates)
    BY <2>3 DEF Forms
  <2>5. f[read].shape # <<>> <=> runs > 0
    BY <1>6, <1>7, <2>4, EmptySeq
  <2>6. runs > 0 => Last(f[read].shape) = shape[runs]
    <3>1. runs > 0 => runs \in 1..runs
      BY <1>6
    <3>2. \A k \in 1..runs : shape[k] = f[read].shape[k]
      BY <1>7
    <3>3. runs > 0 => shape[runs] = f[read].shape[runs]
      BY <3>1, <3>2
    <3> QED
      BY <1>7, <3>3 DEF Last
  <2> QED
    BY <2>2, <2>5, <2>6 DEF Continues
<1>9. Reading(f)'
  <2>1. CASE Extend
    <3>1. /\ read < Len(left) /\ Continues
          /\ dwell' = [dwell EXCEPT ![runs] = @ + 1] /\ read' = read + 1
          /\ UNCHANGED <<path, shape, runs, pc, opened>>
      BY <1>5, <2>1 DEF Extend, Pending
    <3>2. Extended(f[read], f[read + 1])
      BY <1>5, <1>6, <1>7, <1>8, <3>1, RunsStay
    <3>3. runs \in 1..runs /\ DOMAIN dwell = 1..Len(dwell)
      BY <1>6, <3>1, LenProperties DEF Continues
    <3>4. /\ f[read + 1].shape = f[read].shape
          /\ f[read + 1].dwell[runs] = f[read].dwell[runs] + 1
          /\ \A k \in 1..(runs - 1) : f[read + 1].dwell[k] = f[read].dwell[k]
      BY <1>7, <3>2 DEF Extended
    <3>5. ASSUME NEW k \in 1..runs PROVE dwell'[k] = f[read + 1].dwell[k]
      <4>1. CASE k = runs
        <5>1. dwell[runs] = f[read].dwell[runs]
          BY <1>7, <3>3
        <5>2. runs \in DOMAIN dwell
          BY <1>6, <3>3
        <5>3. dwell'[runs] = dwell[runs] + 1
          BY <3>1, <5>2
        <5> QED
          BY <3>4, <4>1, <5>1, <5>3
      <4>2. CASE k \in 1..(runs - 1)
        <5>1. dwell'[k] = dwell[k]
          BY <1>6, <3>1, <3>3, <4>2
        <5> QED
          BY <1>7, <3>4, <4>2, <5>1
      <4> QED
        BY <1>6, <4>1, <4>2
    <3> QED
      BY <1>0, <1>7, <3>1, <3>4, <3>5 DEF Reading
  <2>2. CASE Open
    <3>1. /\ read < Len(left) /\ ~Continues /\ runs < Capacity
          /\ shape' = [shape EXCEPT ![runs + 1] = Q3(path[read + 1])]
          /\ dwell' = [dwell EXCEPT ![runs + 1] = 1]
          /\ runs' = runs + 1 /\ read' = read + 1
      BY <1>5, <2>2 DEF Open, Pending
    <3>2. /\ Len(f[read + 1].shape) = runs + 1
          /\ f[read + 1].shape[runs + 1] = left[read + 1] /\ f[read + 1].dwell[runs + 1] = 1
          /\ \A k \in 1..runs : /\ f[read + 1].shape[k] = f[read].shape[k]
                                /\ f[read + 1].dwell[k] = f[read].dwell[k]
      BY <1>5, <1>6, <1>7, <1>8, <3>1, RunsStay
    <3>3. /\ runs + 1 \in DOMAIN shape /\ runs + 1 \in DOMAIN dwell
          /\ DOMAIN shape = 1..Len(shape) /\ DOMAIN dwell = 1..Len(dwell)
      BY <1>6, <3>1, LenProperties DEF Capacity
    <3>4. ASSUME NEW k \in 1..(runs + 1)
          PROVE  shape'[k] = f[read + 1].shape[k] /\ dwell'[k] = f[read + 1].dwell[k]
      <4>1. CASE k = runs + 1
        BY <1>8, <3>1, <3>2, <3>3, <4>1
      <4>2. CASE k \in 1..runs
        <5>1. shape'[k] = shape[k] /\ dwell'[k] = dwell[k]
          BY <1>6, <3>1, <3>3, <4>2
        <5> QED
          BY <1>7, <3>2, <4>2, <5>1
      <4> QED
        BY <1>6, <4>1, <4>2
    <3> QED
      BY <1>0, <1>7, <3>1, <3>2, <3>4 DEF Reading
  <2>3. CASE Return
    BY <1>0, <1>4, <2>3 DEF Return, Reading
  <2> QED
    BY <1>0, <2>1, <2>2, <2>3 DEF Next
<1>10. path' \in BytesOf(left')
  BY <1>0, <1>1 DEF BothInv
<1> QED
  BY <1>1, <1>2, <1>3, <1>9, <1>10 DEF BothInv

(* The inductive invariant of the two languages together.                   *)
THEOREM BothInvariant == BothSpec => []BothInv
<1>1. BothInv /\ UNCHANGED <<vars, left, right>> => BothInv'
  <2> SUFFICES ASSUME BothInv, UNCHANGED <<vars, left, right>> PROVE BothInv'
    OBVIOUS
  <2>1. UNCHANGED <<path, shape, dwell, runs, read, pc, opened, left, right>>
    BY DEF vars
  <2>2. PathsInv'
    BY <2>1 DEF BothInv, PathsInv
  <2>3. CollapseInv'
    BY <2>1 DEF BothInv, CollapseInv, TypeOK, RunsTilePrefix, StopsOnlyWhenFull, EndOf, Capacity
  <2>4. ASSUME NEW f, Reading(f) PROVE Reading(f)'
    BY <2>1, <2>4 DEF Reading
  <2> QED
    BY <2>1, <2>2, <2>3, <2>4 DEF BothInv
<1>2. BothInv /\ [BothNext]_<<vars, left, right>> => BothInv'
  BY <1>1, ObserveKeepsBoth, CallKeepsBoth, CollapseKeepsBoth DEF BothNext
<1> QED
  BY <1>2, BothStarts, PTL DEF BothSpec

(* The loop, called with the bytes of a path, keeps what it keeps alone.    *)
THEOREM CalledLoopIsExact == BothSpec => [](TypeOK /\ RunsTilePrefix /\ StopsOnlyWhenFull)
<1>1. BothInv => TypeOK /\ RunsTilePrefix /\ StopsOnlyWhenFull
  BY DEF BothInv, CollapseInv
<1> QED
  BY <1>1, BothInvariant, PTL

(* What the loop returns is the collapse, or as much of it as there is room *)
(* for.                                                                     *)
LEMMA LoopReturnsTheCollapse ==
  ASSUME BothInv, path # <<>>, pc = "returned"
  PROVE  LET whole == Shape(left)
         IN  /\ SubSeq(shape, 1, runs) = SubSeq(whole, 1, runs)
             /\ runs = Min({Len(whole), Len(shape), Len(dwell)})
             /\ SubSeq(dwell, 1, runs) = SubSeq(DwellSignature(left), 1, runs)
<1>1. /\ left \in Seq(ElementaryStates) /\ Len(path) = Len(left) /\ Len(left) \in Nat
      /\ \A i \in 1..Len(left) : Q3(path[i]) = left[i]
  BY ReadingBytes
<1>2. /\ shape \in Seq(Nat) /\ dwell \in Seq(Nat) /\ read \in 0..Len(left)
      /\ runs \in Nat /\ runs <= Len(shape) /\ runs <= Len(dwell)
      /\ Len(shape) \in Nat /\ Len(dwell) \in Nat
  <2>1. TypeOK
    BY DEF BothInv, CollapseInv
  <2> QED
    BY <1>1, <2>1, LenProperties DEF TypeOK
<1>3. PICK f : Reading(f)
  BY DEF BothInv
<1>4. /\ IsCollapse(f, left) /\ runs = Len(f[read].shape)
      /\ \A k \in 1..runs : shape[k] = f[read].shape[k] /\ dwell[k] = f[read].dwell[k]
  BY <1>3 DEF Reading
<1> DEFINE whole == Shape(left)
           durations == DwellSignature(left)
           n == Len(left)
<1>5. whole = f[n].shape /\ durations = f[n].dwell /\ f[n] \in Forms
  BY <1>1, <1>4 DEF IsCollapse, Shape, DwellSignature
<1>6. /\ whole \in Seq(ElementaryStates) /\ whole \in Seq(Nat) /\ durations \in Seq(Nat)
      /\ Len(whole) \in Nat /\ Len(durations) = Len(whole)
  <2>1. /\ whole \in Seq(ElementaryStates) /\ durations \in Seq(Nat)
        /\ Len(durations) = Len(whole)
    BY <1>5 DEF Forms
  <2>2. Len(whole) \in Nat /\ whole \in [1..Len(whole) -> ElementaryStates]
    BY <2>1, LenProperties
  <2>3. whole \in [1..Len(whole) -> Nat]
    BY <2>2 DEF ElementaryStates
  <2> HIDE DEF whole, durations
  <2> QED
    BY <2>1, <2>2, <2>3, IsASeq
<1>7. /\ runs <= Len(whole)
      /\ \A k \in 1..runs : shape[k] = whole[k] /\ dwell[k] = durations[k]
      /\ runs = Len(whole) \/ runs = Len(shape) \/ runs = Len(dwell)
  <2>1. CASE read = n
    <3> HIDE DEF whole, durations
    <3> QED
      BY <1>2, <1>4, <1>5, <1>6, <2>1
  <2>2. CASE read # n
    <3>1. runs = Capacity /\ (runs > 0 => Q3(path[read + 1]) # shape[runs])
      BY <1>1, <2>2 DEF BothInv, CollapseInv, StopsOnlyWhenFull
    <3>2. read \in 0..Len(left) /\ read < Len(left) /\ read + 1 \in 1..Len(left)
      BY <1>1, <1>2, <2>2
    <3>3. f[read].shape \in Seq(ElementaryStates)
      BY <1>1, <1>4, <3>2, RunsStay DEF Forms
    <3>4. ~(f[read].shape # <<>> /\ Last(f[read].shape) = left[read + 1])
      <4>1. f[read].shape # <<>> => runs > 0
        BY <1>2, <1>4, <3>3, EmptySeq
      <4>2. runs > 0 => Last(f[read].shape) = shape[runs]
        <5>1. runs > 0 => runs \in 1..runs
          BY <1>2
        <5>2. \A k \in 1..runs : shape[k] = f[read].shape[k]
          BY <1>4
        <5>3. runs > 0 => shape[runs] = f[read].shape[runs]
          BY <5>1, <5>2
        <5> QED
          BY <1>4, <5>3 DEF Last
      <4>3. Q3(path[read + 1]) = left[read + 1]
        BY <1>1, <3>2
      <4> QED
        BY <3>1, <4>1, <4>2, <4>3
    <3>5. /\ runs < Len(f[n].shape)
          /\ \A k \in 1..runs : f[n].shape[k] = f[read].shape[k] /\ f[n].dwell[k] = f[read].dwell[k]
      BY <1>1, <1>4, <3>2, <3>4, ClosedRunsStay
    <3>6. runs = Len(shape) \/ runs = Len(dwell)
      BY <3>1 DEF Capacity
    <3> HIDE DEF whole, durations
    <3> QED
      BY <1>2, <1>4, <1>5, <1>6, <3>5, <3>6
  <2> QED
    BY <2>1, <2>2
<1> HIDE DEF whole, durations
<1>8. SubSeq(shape, 1, runs) = SubSeq(whole, 1, runs)
  BY <1>2, <1>6, <1>7, SubSeqsAgree
<1>9. SubSeq(dwell, 1, runs) = SubSeq(durations, 1, runs)
  BY <1>2, <1>6, <1>7, SubSeqsAgree
<1>10. runs = Min({Len(whole), Len(shape), Len(dwell)})
  <2> DEFINE S == {Len(whole), Len(shape), Len(dwell)}
             m == CHOOSE x \in S : \A y \in S : x <= y
  <2>1. runs \in S /\ \A y \in S : runs <= y
    BY <1>2, <1>6, <1>7
  <2>2. m \in S /\ \A y \in S : m <= y
    <3> HIDE DEF S
    <3> QED
      BY <2>1
  <2>3. S \subseteq Nat
    BY <1>2, <1>6
  <2>4. m = runs
    <3> HIDE DEF S, m
    <3>1. m <= runs /\ runs <= m /\ m \in Nat
      BY <2>1, <2>2, <2>3
    <3> QED
      BY <1>2, <3>1
  <2> QED
    BY <2>4 DEF Min
<1> QED
  BY <1>8, <1>9, <1>10 DEF whole, durations

(* LanguagesAgree, about the core and the reference of the trajectories.    *)
THEOREM CoreIsTheReference == BothSpec => []LanguagesAgree
<1>1. BothInv => LanguagesAgree
  <2> SUFFICES ASSUME BothInv PROVE LanguagesAgree
    OBVIOUS
  <2>1. left \in Seq(ElementaryStates) /\ left # <<>>
    BY PathsAreElementary DEF BothInv
  <2>2. PICK p : p = left
    OBVIOUS
  <2> QED
    BY <2>1, CoreProjects, LoopReturnsTheCollapse, Zenon DEF LanguagesAgree
<1> QED
  BY <1>1, BothInvariant, PTL

(* CollapseIsLossless, about normalizePathRunCollapse(): for every set of   *)
(* states observed and paths of every length.                               *)
THEOREM ShapeAndDwellAreThePath == BothSpec => []CollapseIsLossless
<1>1. BothInv => CollapseIsLossless
  BY PathsAreElementary, PathIsCollapsed DEF BothInv, CollapseIsLossless
<1> QED
  BY <1>1, BothInvariant, PTL

(* RelationIsExact, about compareTrajectories() and groupByShape().         *)
THEOREM CascadeIsExact == BothSpec => []RelationIsExact
<1>1. BothInv => RelationIsExact
  <2> SUFFICES ASSUME BothInv PROVE RelationIsExact
    OBVIOUS
  <2>0. PICK p, q : p = left /\ q = right
    OBVIOUS
  <2>1. /\ p \in Seq(ElementaryStates) /\ p # <<>>
        /\ q \in Seq(ElementaryStates) /\ q # <<>>
    BY <2>0, PathsAreElementary DEF BothInv
  <2>2. Shape(p) = Entered(p) /\ Shape(q) = Entered(q)
    BY <2>1, ShapeIsEntered
  <2>3. EndpointCompression(p) = EndpointCompression(q)
          <=> <<Head(p), Last(p)>> = <<Head(q), Last(q)>>
    BY <2>1, EndpointsAreCoded
  <2>4. Shape(p) = Shape(q)
          => /\ EndpointCompression(p) = EndpointCompression(q)
             /\ DwellSignature(p) = DwellSignature(q) => p = q
    BY <2>1, FormsTellPaths
  <2>5. GroupByShape(<<p, q, p>>) =
          [form \in {Entered(p), Entered(q)} |->
             IF Entered(p) = Entered(q) THEN <<p, q, p>>
             ELSE IF form = Entered(p) THEN <<p, p>> ELSE <<q>>]
    BY <2>1, <2>2, GroupsAreForms
  <2>6. CompareTrajectories(p, q) = CompareTrajectories(q, p)
    BY DEF CompareTrajectories
  <2>7. CompareTrajectories(p, q) = "different_trajectory"
          <=> <<Head(p), Last(p)>> # <<Head(q), Last(q)>>
    BY <2>3 DEF CompareTrajectories
  <2>8. CompareTrajectories(p, q) \in {"equivalent", "same_form_different_duration"}
          <=> Entered(p) = Entered(q)
    BY <2>2, <2>4 DEF CompareTrajectories
  <2>9. CompareTrajectories(p, q) = "equivalent" <=> p = q
    BY <2>4 DEF CompareTrajectories
  <2> QED
    BY <2>0, <2>5, <2>6, <2>7, <2>8, <2>9 DEF RelationIsExact
<1> QED
  BY <1>1, BothInvariant, PTL

-----------------------------------------------------------------------------
\* The arguments of a call, as the command line takes them.
Texts == {"compress", "compare", "classify", "lookup", "verify", "batch", "clasify", "--",
          "digits", "5x", "--quiet", "--json", "--help"}

Tokens == [text : Texts, number : Int]

FormFlags == {"--json", "--quiet"}

EarlyFlags == {"--version", "--help", "-h"}

\* No flag is among them.
IsPlain(args) == \A i \in 1..Len(args) : args[i].text \notin FormFlags \cup EarlyFlags

LEMMA WordsAreTokens ==
  ASSUME NEW text \in Texts
  PROVE  /\ Cli!Word(text) \in Tokens
         /\ Cli!Word(text).text = text /\ Cli!Word(text).number = -1
BY DEF Cli!Word, Tokens

LEMMA NumeralsAreTokens ==
  ASSUME NEW n \in Int
  PROVE  /\ Cli!Numeral(n) \in Tokens
         /\ Cli!Numeral(n).text = "digits" /\ Cli!Numeral(n).number = n
BY DEF Cli!Numeral, Tokens, Texts

LEMMA OneToken ==
  ASSUME NEW e \in Tokens
  PROVE  <<e>> \in Seq(Tokens) /\ Len(<<e>>) = 1 /\ <<e>>[1] = e
OBVIOUS

(* A path as arguments, and back.                                           *)
LEMMA NumeralsOfPaths ==
  ASSUME NEW p \in Seq(Nat)
  PROVE  /\ N(p) \in Seq(Tokens) /\ Len(N(p)) = Len(p)
         /\ \A i \in 1..Len(p) : N(p)[i].text = "digits" /\ N(p)[i].number = p[i]
         /\ Cli!Numbers(N(p)) = p
<1>1. Len(p) \in Nat /\ DOMAIN p = 1..Len(p) /\ \A i \in 1..Len(p) : p[i] \in Nat
  BY LenProperties, ElementOfSeq
<1>2. N(p) = [i \in 1..Len(p) |-> Cli!Numeral(p[i])]
  BY <1>1 DEF N, Cli!Numerals
<1>3. \A i \in 1..Len(p) : Cli!Numeral(p[i]) \in Tokens
  BY <1>1, NumeralsAreTokens
<1>4. N(p) \in [1..Len(p) -> Tokens]
  BY <1>2, <1>3
<1>5. N(p) \in Seq(Tokens) /\ Len(N(p)) = Len(p)
  BY <1>1, <1>4, IsASeq
<1>6. \A i \in 1..Len(p) : N(p)[i].text = "digits" /\ N(p)[i].number = p[i]
  BY <1>1, <1>2, NumeralsAreTokens
<1>7. Cli!Numbers(N(p)) = [i \in 1..Len(p) |-> p[i]]
  BY <1>2, <1>6 DEF Cli!Numbers
<1>8. p = [i \in 1..Len(p) |-> p[i]]
  BY <1>1
<1> QED
  BY <1>5, <1>6, <1>7, <1>8

\* What is put in at place i moves the rest back by one.
IsInserted(t, s, i, e) ==
  /\ t \in Seq(Tokens) /\ Len(t) = Len(s) + 1
  /\ \A k \in 1..(Len(s) + 1) :
       t[k] = IF k < i THEN s[k] ELSE IF k = i THEN e ELSE s[k - 1]

LEMMA InsertionMoves ==
  ASSUME NEW s \in Seq(Tokens), NEW i \in 1..(Len(s) + 1), NEW e \in Tokens
  PROVE  IsInserted(InsertAt(s, i, e), s, i, e)
<1> DEFINE n == Len(s)
           a == SubSeq(s, 1, i - 1)
           z == SubSeq(s, i, n)
           m == <<e>> 
<1>1. n \in Nat /\ \A k \in 1..n : s[k] \in Tokens
  BY LenProperties, ElementOfSeq
<1>2. a \in Seq(Tokens) /\ Len(a) = i - 1 /\ \A k \in 1..(i - 1) : a[k] = s[k]
  <2>1. \A k \in 1..(i - 1) : s[k] \in Tokens
    BY <1>1
  <2>2. /\ a \in Seq(Tokens)
        /\ Len(a) = IF 1 <= i - 1 THEN (i - 1) - 1 + 1 ELSE 0
        /\ \A k \in 1..((i - 1) - 1 + 1) : a[k] = s[1 + k - 1]
    <3> HIDE DEF n
    <3>1. 1 \in Int /\ i - 1 \in Int
      BY <1>1
    <3> QED
      BY <2>1, <3>1, SubSeqProperties
  <2> HIDE DEF a
  <2> QED
    BY <1>1, <2>2
<1>3. z \in Seq(Tokens) /\ Len(z) = n - i + 1 /\ \A k \in 1..(n - i + 1) : z[k] = s[i + k - 1]
  <2>1. \A k \in i..n : s[k] \in Tokens
    BY <1>1
  <2>2. /\ z \in Seq(Tokens)
        /\ Len(z) = IF i <= n THEN n - i + 1 ELSE 0
        /\ \A k \in 1..(n - i + 1) : z[k] = s[i + k - 1]
    <3> HIDE DEF n
    <3>1. n \in Int /\ i \in Int
      BY <1>1
    <3> QED
      BY <2>1, <3>1, SubSeqProperties
  <2> HIDE DEF z
  <2> QED
    BY <1>1, <2>2
<1>4. m \in Seq(Tokens) /\ Len(m) = 1 /\ m[1] = e
  BY OneToken
<1> HIDE DEF a, z, m
<1>5. PICK h : h = a \o m
  OBVIOUS
<1>6. /\ h \in Seq(Tokens) /\ Len(h) = Len(a) + Len(m)
      /\ \A k \in 1..(Len(a) + Len(m)) : h[k] = IF k <= Len(a) THEN a[k] ELSE m[k - Len(a)]
  BY <1>2, <1>4, <1>5, ConcatProperties
<1>7. Len(h) = i /\ \A k \in 1..i : h[k] = IF k < i THEN s[k] ELSE e
  <2>1. Len(a) + Len(m) = i
    BY <1>1, <1>2, <1>4
  <2>2. ASSUME NEW k \in 1..i PROVE h[k] = IF k < i THEN s[k] ELSE e
    <3>1. CASE k < i
      <4>1. k \in 1..(i - 1) /\ k <= Len(a)
        BY <1>1, <1>2, <3>1
      <4> QED
        BY <1>2, <1>6, <2>1, <3>1, <4>1
    <3>2. CASE k = i
      <4>1. k - Len(a) = 1 /\ ~ (k <= Len(a)) /\ ~ (k < i)
        BY <1>1, <1>2, <3>2
      <4> QED
        BY <1>4, <1>6, <2>1, <4>1
    <3> QED
      BY <1>1, <3>1, <3>2
  <2> QED
    BY <1>6, <2>1, <2>2
<1>8. PICK t : t = h \o z
  OBVIOUS
<1>9. /\ t \in Seq(Tokens) /\ Len(t) = Len(h) + Len(z)
      /\ \A k \in 1..(Len(h) + Len(z)) : t[k] = IF k <= Len(h) THEN h[k] ELSE z[k - Len(h)]
  <2>1. h \in Seq(Tokens) /\ z \in Seq(Tokens)
    BY <1>3, <1>6
  <2> QED
    BY <1>8, <2>1, ConcatProperties
<1>10. Len(h) + Len(z) = n + 1
  BY <1>1, <1>3, <1>7
<1>11. ASSUME NEW k \in 1..(n + 1)
       PROVE  t[k] = IF k < i THEN s[k] ELSE IF k = i THEN e ELSE s[k - 1]
  <2>1. t[k] = IF k <= i THEN h[k] ELSE z[k - i]
    BY <1>7, <1>9, <1>10
  <2>2. CASE k <= i
    <3>1. k \in 1..i
      BY <1>1, <2>2
    <3>2. t[k] = IF k < i THEN s[k] ELSE e
      BY <1>7, <2>1, <2>2, <3>1
    <3> QED
      BY <1>1, <2>2, <3>2
  <2>3. CASE k > i
    <3>1. k - i \in 1..(n - i + 1) /\ i + (k - i) - 1 = k - 1 /\ ~ (k <= i)
      BY <1>1, <2>3
    <3>2. t[k] = s[k - 1]
      BY <1>3, <2>1, <3>1
    <3> QED
      BY <1>1, <2>3, <3>2
  <2> QED
    BY <1>1, <2>2, <2>3
<1>12. InsertAt(s, i, e) = t
  BY <1>5, <1>8 DEF InsertAt, a, m, z
<1> QED
  BY <1>9, <1>10, <1>11, <1>12 DEF IsInserted

-----------------------------------------------------------------------------
\* The rounds in which the flags are taken out.
Round(args, u, i) == IF args[i].text \in FormFlags THEN u ELSE Append(u, args[i])

(* What is left is read off place by place.                                 *)
LEMMA PositionalByPlace ==
  ASSUME NEW args \in Seq(Tokens)
  PROVE  \E f : /\ f \in [0..Len(args) -> Seq(Tokens)]
                /\ f[0] = <<>>
                /\ \A i \in 1..Len(args) : f[i] = Round(args, f[i - 1], i)
                /\ Cli!Positional(args) = f[Len(args)]
<1> DEFINE n == Len(args)
           S == Seq(Tokens)
           step == [i \in Nat |-> [u \in S |-> IF i \in 1..n THEN Round(args, u, i) ELSE u]]
           Body(g) == [i \in 0..n |->
                         IF i = 0 THEN <<>>
                         ELSE IF args[i].text \in {"--json", "--quiet"} THEN g[i - 1]
                         ELSE Append(g[i - 1], args[i])]
           F == CHOOSE g : g = Body(g)
<1>1. n \in Nat /\ \A i \in 1..n : args[i] \in Tokens
  BY LenProperties, ElementOfSeq
<1>2. <<>> \in S
  BY EmptySeq
<1>3. \A i \in 1..n, u \in S : Round(args, u, i) \in S
  BY <1>1, AppendProperties DEF Round
<1>4. step \in [Nat -> [S -> S]]
  <2>1. \A i \in Nat, u \in S : (IF i \in 1..n THEN Round(args, u, i) ELSE u) \in S
    BY <1>3
  <2> HIDE DEF S
  <2> QED
    BY <2>1
<1>5. \A i \in 1..n, u \in S : step[i][u] = Round(args, u, i)
  <2> HIDE DEF S
  <2> QED
    BY <1>1
<1> HIDE DEF step, S
<1>6. PICK f : IsRun(f, S, <<>>, n, step)
  <2> HIDE DEF n
  <2> QED
    BY <1>1, <1>2, <1>4, PrimitiveRecursion
<1>7. /\ f \in [0..n -> S] /\ f[0] = <<>>
      /\ \A i \in 1..n : f[i] = Round(args, f[i - 1], i)
  <2>1. \A i \in 1..n : i - 1 \in 0..n
    BY <1>1
  <2> QED
    BY <1>5, <1>6, <2>1 DEF IsRun
<1>8. f = Body(f)
  <2>1. ASSUME NEW i \in 0..n PROVE f[i] = Body(f)[i]
    <3>1. CASE i = 0
      BY <1>7, <3>1
    <3>2. CASE i \in 1..n
      BY <1>7, <3>2 DEF Round, FormFlags
    <3> QED
      BY <1>1, <3>1, <3>2
  <2>2. f = [i \in 0..n |-> f[i]] /\ Body(f) = [i \in 0..n |-> Body(f)[i]]
    BY <1>7
  <2> HIDE DEF Body
  <2> QED
    BY <2>1, <2>2
<1>9. F = Body(F)
  <2> HIDE DEF Body
  <2> QED
    BY <1>8
<1>10. Cli!Positional(args) = F[n]
  BY DEF Cli!Positional, F
<1> HIDE DEF F
<1>11. F[0] = <<>> /\ \A i \in 1..n : F[i] = Round(args, F[i - 1], i)
  <2>1. 0 \in 0..n
    BY <1>1
  <2>2. Body(F)[0] = <<>>
    BY <2>1
  <2>3. \A i \in 1..n : Body(F)[i] = Round(args, F[i - 1], i)
    BY <1>1 DEF Round, FormFlags
  <2> HIDE DEF Body
  <2> QED
    BY <1>9, <2>2, <2>3
<1>12. ASSUME NEW i \in 0..n PROVE F[i] \in S
  <2> DEFINE Good == {k \in Nat : k <= n => F[k] \in S}
  <2>1. 0 \in Good
    BY <1>2, <1>11
  <2>2. ASSUME NEW k \in Nat, k \in Good PROVE k + 1 \in Good
    <3>1. CASE k + 1 <= n
      <4>1. k + 1 \in 1..n /\ (k + 1) - 1 = k /\ F[k] \in S
        BY <1>1, <2>2, <3>1
      <4>2. F[k + 1] = Round(args, F[k], k + 1)
        BY <1>11, <4>1
      <4> QED
        BY <1>1, <1>3, <4>1, <4>2
    <3> QED
      BY <3>1
  <2>3. Nat \subseteq Good
    <3> HIDE DEF Good
    <3> QED
      BY <2>1, <2>2, NatSetInduction
  <2> QED
    BY <1>1, <2>3
<1>13. F \in [0..n -> S]
  <2>1. F = [i \in 0..n |-> F[i]]
    BY <1>9
  <2> QED
    BY <1>12, <2>1
<1> QED
  BY <1>10, <1>11, <1>13 DEF S

(* The words are what the flags leave when g counts them.                   *)
LEMMA FlagsDropOut ==
  ASSUME NEW args \in Seq(Tokens), NEW words \in Seq(Tokens),
         NEW g \in [0..Len(args) -> Nat], g[0] = 0, g[Len(args)] = Len(words),
         \A k \in 1..Len(args) :
           IF args[k].text \in FormFlags THEN g[k] = g[k - 1]
           ELSE g[k] = g[k - 1] + 1 /\ g[k] <= Len(words) /\ words[g[k]] = args[k]
  PROVE  Cli!Positional(args) = words
<1> DEFINE n == Len(args)
<1>1. n \in Nat /\ Len(words) \in Nat /\ \A k \in 1..n : args[k] \in Tokens
  BY LenProperties, ElementOfSeq
<1>2. PICK f : /\ f \in [0..n -> Seq(Tokens)] /\ f[0] = <<>>
               /\ \A i \in 1..n : f[i] = Round(args, f[i - 1], i)
               /\ Cli!Positional(args) = f[n]
  BY PositionalByPlace
<1> DEFINE Holds(k) == Len(f[k]) = g[k] /\ \A j \in 1..g[k] : f[k][j] = words[j]
           Good == {k \in Nat : k <= n => Holds(k)}
<1>3. 0 \in Good
  BY <1>1, <1>2, EmptySeq
<1>4. ASSUME NEW k \in Nat, k \in Good, k + 1 <= n PROVE Holds(k + 1)
  <2>1. /\ k \in 0..n /\ k + 1 \in 0..n /\ k + 1 \in 1..n /\ (k + 1) - 1 = k /\ Holds(k)
    BY <1>1, <1>4
  <2>2. f[k] \in Seq(Tokens) /\ args[k + 1] \in Tokens /\ g[k] \in Nat /\ g[k + 1] \in Nat
    BY <1>1, <1>2, <2>1
  <2>3. f[k + 1] = Round(args, f[k], k + 1)
    BY <1>2, <2>1
  <2>4. CASE args[k + 1].text \in FormFlags
    <3>1. f[k + 1] = f[k] /\ g[k + 1] = g[k]
      BY <2>1, <2>3, <2>4 DEF Round
    <3> QED
      BY <2>1, <3>1
  <2>5. CASE args[k + 1].text \notin FormFlags
    <3>1. PICK u, v, e : u = f[k] /\ v = f[k + 1] /\ e = args[k + 1]
      OBVIOUS
    <3>2. /\ v = Append(u, e) /\ u \in Seq(Tokens) /\ e \in Tokens
      BY <2>2, <2>3, <2>5, <3>1 DEF Round
    <3>3. /\ Len(v) = Len(u) + 1 /\ \A j \in 1..Len(u) : v[j] = u[j]
          /\ v[Len(u) + 1] = e
      BY <3>2, AppendProperties
    <3>4. g[k + 1] = g[k] + 1 /\ words[g[k] + 1] = e
      BY <2>1, <2>5, <3>1
    <3>5. Len(u) = g[k] /\ \A j \in 1..g[k] : u[j] = words[j]
      BY <2>1, <3>1
    <3>6. PICK c \in Nat : c = g[k]
      BY <2>2
    <3>7. \A j \in 1..(c + 1) : v[j] = words[j]
      <4>1. \A j \in 1..c : v[j] = words[j]
        BY <3>3, <3>5, <3>6
      <4>2. v[c + 1] = words[c + 1]
        BY <3>3, <3>4, <3>5, <3>6
      <4>3. \A j \in 1..(c + 1) : j \in 1..c \/ j = c + 1
        OBVIOUS
      <4> QED
        BY <4>1, <4>2, <4>3
    <3>8. Len(v) = g[k + 1] /\ g[k + 1] = c + 1
      BY <3>3, <3>4, <3>5, <3>6
    <3> QED
      BY <3>1, <3>7, <3>8
  <2> QED
    BY <2>4, <2>5
<1>5. Nat \subseteq Good
  <2>1. \A k \in Nat : k \in Good => k + 1 \in Good
    <3> HIDE DEF Holds
    <3> QED
      BY <1>1, <1>4
  <2> HIDE DEF Good
  <2> QED
    BY <1>3, <2>1, NatSetInduction
<1>6. Holds(n) /\ f[n] \in Seq(Tokens)
  <2> HIDE DEF Holds
  <2> QED
    BY <1>1, <1>2, <1>5
<1>7. Len(f[n]) = Len(words) /\ \A j \in 1..Len(f[n]) : f[n][j] = words[j]
  BY <1>6
<1>8. f[n] = words
  BY <1>6, <1>7, SeqEqual
<1> QED
  BY <1>2, <1>8

(* A call without flags is all words ...                                    *)
LEMMA PlainCallsAreWords ==
  ASSUME NEW s \in Seq(Tokens), IsPlain(s)
  PROVE  Cli!Positional(s) = s
<1> DEFINE g == [k \in 0..Len(s) |-> k]
<1>1. Len(s) \in Nat
  BY LenProperties
<1>2. /\ g \in [0..Len(s) -> Nat] /\ g[0] = 0 /\ g[Len(s)] = Len(s)
      /\ \A k \in 1..Len(s) : g[k] = k /\ g[k - 1] = k - 1
  BY <1>1
<1>3. \A k \in 1..Len(s) : s[k].text \notin FormFlags
  BY DEF IsPlain
<1> HIDE DEF g
<1>4. \A k \in 1..Len(s) :
        IF s[k].text \in FormFlags THEN g[k] = g[k - 1]
        ELSE g[k] = g[k - 1] + 1 /\ g[k] <= Len(s) /\ s[g[k]] = s[k]
  BY <1>1, <1>2, <1>3
<1> QED
  BY <1>2, <1>4, FlagsDropOut

(* ... and with a flag put in anywhere it has the same words.               *)
LEMMA FlagsAreNoWords ==
  ASSUME NEW s \in Seq(Tokens), IsPlain(s), NEW i \in 1..(Len(s) + 1),
         NEW e \in Tokens, e.text \in FormFlags
  PROVE  Cli!Positional(InsertAt(s, i, e)) = s
<1>1. PICK t, n : t = InsertAt(s, i, e) /\ n = Len(s)
  OBVIOUS
<1>2. /\ t \in Seq(Tokens) /\ Len(t) = n + 1 /\ n \in Nat /\ i \in 1..(n + 1)
      /\ \A k \in 1..(n + 1) : t[k] = IF k < i THEN s[k] ELSE IF k = i THEN e ELSE s[k - 1]
  BY <1>1, InsertionMoves, LenProperties DEF IsInserted
<1>3. \A k \in 1..n : s[k].text \notin FormFlags
  BY <1>1 DEF IsPlain
<1> DEFINE g == [k \in 0..(n + 1) |-> IF k < i THEN k ELSE k - 1]
<1>4. /\ g \in [0..(n + 1) -> Nat] /\ g[0] = 0 /\ g[n + 1] = n
      /\ \A k \in 0..(n + 1) : g[k] = IF k < i THEN k ELSE k - 1
  BY <1>2
<1> HIDE DEF g
<1>5. ASSUME NEW k \in 1..(n + 1)
      PROVE  IF t[k].text \in FormFlags THEN g[k] = g[k - 1]
             ELSE g[k] = g[k - 1] + 1 /\ g[k] <= n /\ s[g[k]] = t[k]
  <2>1. k - 1 \in 0..(n + 1) /\ k \in 0..(n + 1)
    BY <1>2
  <2>2. CASE k < i
    <3>1. k \in 1..n /\ g[k] = k /\ g[k - 1] = k - 1 /\ t[k] = s[k]
      BY <1>2, <1>4, <2>1, <2>2
    <3> QED
      BY <1>2, <1>3, <3>1
  <2>3. CASE k = i
    <3>1. g[k] = k - 1 /\ g[k - 1] = k - 1 /\ t[k] = e
      BY <1>2, <1>4, <2>1, <2>3
    <3> QED
      BY <3>1
  <2>4. CASE k > i
    <3>1. k - 1 \in 1..n /\ g[k] = k - 1 /\ g[k - 1] = (k - 1) - 1 /\ t[k] = s[k - 1]
      BY <1>2, <1>4, <2>1, <2>4
    <3> QED
      BY <1>2, <1>3, <3>1
  <2> QED
    BY <1>2, <2>2, <2>3, <2>4
<1>6. g \in [0..Len(t) -> Nat] /\ g[0] = 0 /\ g[Len(t)] = Len(s)
  BY <1>1, <1>2, <1>4
<1>7. \A k \in 1..Len(t) :
        IF t[k].text \in FormFlags THEN g[k] = g[k - 1]
        ELSE g[k] = g[k - 1] + 1 /\ g[k] <= Len(s) /\ s[g[k]] = t[k]
  BY <1>1, <1>2, <1>5
<1>8. Cli!Positional(t) = s
  BY <1>2, <1>6, <1>7, FlagsDropOut
<1> QED
  BY <1>1, <1>8

-----------------------------------------------------------------------------
Ctx(json, quiet) == [json |-> json, quiet |-> quiet]

Unflagged == Ctx(FALSE, FALSE)

\* What main() does with the words.
Ran(ctx, words) ==
  IF words = <<>> THEN Cli!Outcome(2, <<>>, <<"help">>)
  ELSE Cli!Dispatch(ctx, Head(words).text, Tail(words))

LEMMA MainRuns ==
  ASSUME NEW args, Cli!PlacesOf(args, EarlyFlags) = {}
  PROVE  Cli!Main(args) = Ran(Ctx(Cli!PlacesOf(args, {"--json"}) # {},
                                  Cli!PlacesOf(args, {"--quiet"}) # {}), Cli!Positional(args))
BY DEF Cli!Main, Ran, Ctx, EarlyFlags

LEMMA PlainCallsRun ==
  ASSUME NEW s \in Seq(Tokens), IsPlain(s)
  PROVE  Cli!Main(s) = Ran(Ctx(FALSE, FALSE), s)
<1>1. DOMAIN s = 1..Len(s)
  BY LenProperties
<1>2. /\ Cli!PlacesOf(s, EarlyFlags) = {} /\ Cli!PlacesOf(s, {"--json"}) = {}
      /\ Cli!PlacesOf(s, {"--quiet"}) = {}
  BY <1>1 DEF Cli!PlacesOf, IsPlain, FormFlags
<1>3. Cli!Positional(s) = s
  BY PlainCallsAreWords
<1> QED
  BY <1>2, <1>3, MainRuns

\* The only place of a text that is put into a plain call.
LEMMA PlacesOfInserted ==
  ASSUME NEW s \in Seq(Tokens), IsPlain(s), NEW i \in 1..(Len(s) + 1), NEW e \in Tokens,
         NEW texts, texts \subseteq FormFlags \cup EarlyFlags
  PROVE  Cli!PlacesOf(InsertAt(s, i, e), texts) = IF e.text \in texts THEN {i} ELSE {}
<1>1. PICK t, n : t = InsertAt(s, i, e) /\ n = Len(s)
  OBVIOUS
<1>2. /\ t \in Seq(Tokens) /\ Len(t) = n + 1 /\ n \in Nat /\ i \in 1..(n + 1)
      /\ DOMAIN t = 1..(n + 1)
      /\ \A k \in 1..(n + 1) : t[k] = IF k < i THEN s[k] ELSE IF k = i THEN e ELSE s[k - 1]
  BY <1>1, InsertionMoves, LenProperties DEF IsInserted
<1>3. \A k \in 1..n : s[k].text \notin texts
  BY <1>1 DEF IsPlain
<1>4. ASSUME NEW k \in 1..(n + 1), k # i PROVE t[k].text \notin texts
  <2>1. CASE k < i
    <3>1. k \in 1..n /\ t[k] = s[k]
      BY <1>2, <2>1
    <3> QED
      BY <1>3, <3>1
  <2>2. CASE k > i
    <3>1. k - 1 \in 1..n /\ t[k] = s[k - 1]
      BY <1>2, <2>2
    <3> QED
      BY <1>3, <3>1
  <2> QED
    BY <1>2, <1>4, <2>1, <2>2
<1>5. t[i] = e
  BY <1>2
<1>6. {k \in 1..(n + 1) : t[k].text \in texts} = IF e.text \in texts THEN {i} ELSE {}
  BY <1>2, <1>4, <1>5
<1>7. Cli!PlacesOf(t, texts) = {k \in 1..(n + 1) : t[k].text \in texts}
  BY <1>2 DEF Cli!PlacesOf
<1> QED
  BY <1>1, <1>6, <1>7

LEMMA FlaggedCallsRun ==
  ASSUME NEW s \in Seq(Tokens), IsPlain(s), NEW i \in 1..(Len(s) + 1)
  PROVE  /\ With(s, i, Cli!Word("--quiet")) = Ran(Ctx(FALSE, TRUE), s)
         /\ With(s, i, Cli!Word("--json")) = Ran(Ctx(TRUE, FALSE), s)
         /\ With(s, i, Cli!Word("--help")) = Cli!Said("help")
<1>1. ASSUME NEW e \in Tokens, e.text \in FormFlags
      PROVE  With(s, i, e) = Ran(Ctx(e.text = "--json", e.text = "--quiet"), s)
  <2>1. PICK t : t = InsertAt(s, i, e)
    OBVIOUS
  <2>2. e.text \notin EarlyFlags
    BY <1>1 DEF FormFlags, EarlyFlags
  <2>3. Cli!PlacesOf(t, EarlyFlags) = {}
    BY <2>1, <2>2, PlacesOfInserted
  <2>4. /\ Cli!PlacesOf(t, {"--json"}) = IF e.text \in {"--json"} THEN {i} ELSE {}
        /\ Cli!PlacesOf(t, {"--quiet"}) = IF e.text \in {"--quiet"} THEN {i} ELSE {}
    <3>1. {"--json"} \subseteq FormFlags \cup EarlyFlags /\ {"--quiet"} \subseteq FormFlags \cup EarlyFlags
      BY DEF FormFlags
    <3> QED
      BY <2>1, <3>1, PlacesOfInserted
  <2>5. /\ (Cli!PlacesOf(t, {"--json"}) # {}) = (e.text = "--json")
        /\ (Cli!PlacesOf(t, {"--quiet"}) # {}) = (e.text = "--quiet")
    BY <2>4
  <2>6. Cli!Positional(t) = s
    BY <1>1, <2>1, FlagsAreNoWords
  <2>7. Cli!Main(t) = Ran(Ctx(Cli!PlacesOf(t, {"--json"}) # {}, Cli!PlacesOf(t, {"--quiet"}) # {}), s)
    BY <2>3, <2>6, MainRuns
  <2> QED
    BY <2>1, <2>5, <2>7 DEF With
<1>2. /\ Cli!Word("--quiet") \in Tokens /\ Cli!Word("--quiet").text = "--quiet"
      /\ Cli!Word("--json") \in Tokens /\ Cli!Word("--json").text = "--json"
      /\ Cli!Word("--help") \in Tokens /\ Cli!Word("--help").text = "--help"
  BY DEF Cli!Word, Tokens, Texts
<1>3. With(s, i, Cli!Word("--quiet")) = Ran(Ctx(FALSE, TRUE), s)
  <2>1. Cli!Word("--quiet").text \in FormFlags
    BY <1>2 DEF FormFlags
  <2>2. (Cli!Word("--quiet").text = "--json") = FALSE /\ (Cli!Word("--quiet").text = "--quiet") = TRUE
    BY <1>2
  <2> QED
    BY <1>1, <1>2, <2>1, <2>2
<1>4. With(s, i, Cli!Word("--json")) = Ran(Ctx(TRUE, FALSE), s)
  <2>1. Cli!Word("--json").text \in FormFlags
    BY <1>2 DEF FormFlags
  <2>2. (Cli!Word("--json").text = "--json") = TRUE /\ (Cli!Word("--json").text = "--quiet") = FALSE
    BY <1>2
  <2> QED
    BY <1>1, <1>2, <2>1, <2>2
<1>5. With(s, i, Cli!Word("--help")) = Cli!Said("help")
  <2>1. PICK t : t = InsertAt(s, i, Cli!Word("--help"))
    OBVIOUS
  <2>2. Cli!PlacesOf(t, EarlyFlags) = {i}
    <3>1. Cli!Word("--help").text \in EarlyFlags /\ EarlyFlags \subseteq FormFlags \cup EarlyFlags
      BY <1>2 DEF EarlyFlags
    <3> QED
      BY <1>2, <2>1, <3>1, PlacesOfInserted
  <2>3. t[i].text = "--help"
    <3>1. Len(s) \in Nat /\ IsInserted(t, s, i, Cli!Word("--help"))
      BY <1>2, <2>1, InsertionMoves, LenProperties
    <3>2. t[i] = Cli!Word("--help")
      BY <3>1 DEF IsInserted
    <3> QED
      BY <1>2, <3>2
  <2>4. Cli!Min({i}) = i
    BY DEF Cli!Min
  <2>5. Cli!Main(t) = Cli!Said("help")
    BY <2>2, <2>3, <2>4 DEF Cli!Main, EarlyFlags
  <2> QED
    BY <2>1, <2>5 DEF With
<1> QED
  BY <1>3, <1>4, <1>5

-----------------------------------------------------------------------------
\* The contexts of a call without a flag, with --quiet and with --json.
Contexts(plain, quiet, json) ==
  plain = Ctx(FALSE, FALSE) /\ quiet = Ctx(FALSE, TRUE) /\ json = Ctx(TRUE, FALSE)

\* What is computed is printed in the form the flags ask for.
LEMMA RenderedInForm ==
  ASSUME NEW fields, NEW besides, NEW ff, NEW ft, NEW tf, Contexts(ff, ft, tf)
  PROVE  FlagsChangeTheForm(Cli!RenderedWith(ff, fields, besides),
                            Cli!RenderedWith(ft, fields, besides),
                            Cli!RenderedWith(tf, fields, besides), Cli!Said("help"))
BY DEF FlagsChangeTheForm, Cli!RenderedWith, Cli!Printed, Cli!Outcome, Ctx, Contexts, Fields

\* An outcome without data is the same in every form.
LEMMA SaidInForm ==
  ASSUME NEW code, NEW stderr, code = 0 \/ stderr # <<>>
  PROVE  FlagsChangeTheForm(Cli!Outcome(code, <<>>, stderr), Cli!Outcome(code, <<>>, stderr),
                            Cli!Outcome(code, <<>>, stderr), Cli!Said("help"))
BY DEF FlagsChangeTheForm, Cli!Outcome

LEMMA ErrorsInForm ==
  FlagsChangeTheForm(Cli!UsageError, Cli!UsageError, Cli!UsageError, Cli!Said("help"))
<1>1. <<"error">> # <<>>
  OBVIOUS
<1> QED
  BY <1>1, SaidInForm DEF Cli!UsageError

LEMMA EitherInForm ==
  ASSUME NEW guard, NEW fields, NEW besides, NEW plain, NEW quiet, NEW json,
         NEW ff, NEW ft, NEW tf, Contexts(ff, ft, tf),
         plain = IF guard THEN Cli!RenderedWith(ff, fields, besides)
                 ELSE Cli!UsageError,
         quiet = IF guard THEN Cli!RenderedWith(ft, fields, besides)
                 ELSE Cli!UsageError,
         json = IF guard THEN Cli!RenderedWith(tf, fields, besides)
                ELSE Cli!UsageError
  PROVE  FlagsChangeTheForm(plain, quiet, json, Cli!Said("help"))
<1>1. CASE guard
  BY <1>1, RenderedInForm, Zenon
<1>2. CASE ~guard
  BY <1>2, ErrorsInForm, Zenon
<1> QED
  BY <1>1, <1>2

(* A command fails or prints one computation, whatever form is asked for.   *)
LEMMA CommandsInForm ==
  ASSUME NEW c, c # "help", NEW rest, NEW ff, NEW ft, NEW tf, Contexts(ff, ft, tf)
  PROVE  FlagsChangeTheForm(Cli!Dispatch(ff, c, rest), Cli!Dispatch(ft, c, rest),
                            Cli!Dispatch(tf, c, rest), Cli!Said("help"))
<1>0. PICK plain, quiet, json :
        /\ plain = Cli!Dispatch(ff, c, rest) /\ quiet = Cli!Dispatch(ft, c, rest)
        /\ json = Cli!Dispatch(tf, c, rest)
  OBVIOUS
<1> DEFINE Goal == FlagsChangeTheForm(plain, quiet, json, Cli!Said("help"))
<1>1. ASSUME c = "classify" PROVE Goal
  <2> DEFINE guard == Len(rest) = 2 /\ \A i \in DOMAIN rest : Cli!IsState(rest[i], Cli!Q6_MAX)
             fields == Cli!TransitionFields(Cli!LookupTransition(rest[1].number, rest[2].number))
             besides == <<Cli!LookupTransition(rest[1].number, rest[2].number).regimeClass>>
  <2>1. \A ctx : Cli!Dispatch(ctx, c, rest) = Cli!Classify(ctx, rest)
    BY <1>1 DEF Cli!Dispatch
  <2>2. \A ctx : Cli!Classify(ctx, rest) =
                   IF guard THEN Cli!RenderedWith(ctx, fields, besides) ELSE Cli!UsageError
    BY Zenon DEF Cli!Classify, Cli!RenderTransition
  <2> HIDE DEF guard, fields, besides
  <2>3. /\ plain = IF guard THEN Cli!RenderedWith(ff, fields, besides) ELSE Cli!UsageError
        /\ quiet = IF guard THEN Cli!RenderedWith(ft, fields, besides) ELSE Cli!UsageError
        /\ json = IF guard THEN Cli!RenderedWith(tf, fields, besides) ELSE Cli!UsageError
    BY <1>0, <2>1, <2>2, Zenon
  <2> QED
    BY <2>3, EitherInForm, Zenon
<1>2. ASSUME c = "compress" PROVE Goal
  <2> DEFINE guard == Cli!IsTrajectory(rest)
             fields == Cli!CompressFields(Cli!Numbers(rest))
             besides == <<>>
  <2>1. \A ctx : Cli!Dispatch(ctx, c, rest) = Cli!Compress(ctx, rest)
    BY <1>2 DEF Cli!Dispatch
  <2>2. \A ctx : Cli!Compress(ctx, rest) =
                   IF guard THEN Cli!RenderedWith(ctx, fields, besides) ELSE Cli!UsageError
    BY Zenon DEF Cli!Compress, Cli!Rendered
  <2> HIDE DEF guard, fields, besides
  <2>3. /\ plain = IF guard THEN Cli!RenderedWith(ff, fields, besides) ELSE Cli!UsageError
        /\ quiet = IF guard THEN Cli!RenderedWith(ft, fields, besides) ELSE Cli!UsageError
        /\ json = IF guard THEN Cli!RenderedWith(tf, fields, besides) ELSE Cli!UsageError
    BY <1>0, <2>1, <2>2, Zenon
  <2> QED
    BY <2>3, EitherInForm, Zenon
<1>3. ASSUME c = "compare" PROVE Goal
  <2> DEFINE seps == Cli!PlacesOf(rest, {"--"})
             p == SubSeq(rest, 1, Cli!Min(seps) - 1)
             q == SubSeq(rest, Cli!Min(seps) + 1, Len(rest))
             guard == seps # {} /\ Cli!IsTrajectory(p) /\ Cli!IsTrajectory(q)
             fields == Cli!CompareFields(Cli!Numbers(p), Cli!Numbers(q))
  <2>1. \A ctx : Cli!Dispatch(ctx, c, rest) = Cli!Compare(ctx, rest)
    BY <1>3 DEF Cli!Dispatch
  <2>2. \A ctx : Cli!Compare(ctx, rest) =
                   IF guard THEN Cli!RenderedWith(ctx, fields, <<>>) ELSE Cli!UsageError
    BY Zenon DEF Cli!Compare, Cli!Rendered
  <2> HIDE DEF guard, fields
  <2>3. /\ plain = IF guard THEN Cli!RenderedWith(ff, fields, <<>>) ELSE Cli!UsageError
        /\ quiet = IF guard THEN Cli!RenderedWith(ft, fields, <<>>) ELSE Cli!UsageError
        /\ json = IF guard THEN Cli!RenderedWith(tf, fields, <<>>) ELSE Cli!UsageError
    BY <1>0, <2>1, <2>2, Zenon
  <2> QED
    BY <2>3, EitherInForm, Zenon
<1>4. ASSUME c = "lookup" PROVE Goal
  <2> DEFINE guard == Len(rest) = 1 /\ Cli!IsState(rest[1], Cli!MAX_INDEX)
             fields == Cli!TransitionFields(Cli!LookupTransition(rest[1].number \div 64, rest[1].number % 64))
             besides == <<Cli!LookupTransition(rest[1].number \div 64, rest[1].number % 64).regimeClass>>
  <2>1. \A ctx : Cli!Dispatch(ctx, c, rest) = Cli!Lookup(ctx, rest)
    BY <1>4 DEF Cli!Dispatch
  <2>2. \A ctx : Cli!Lookup(ctx, rest) =
                   IF guard THEN Cli!RenderedWith(ctx, fields, besides) ELSE Cli!UsageError
    BY Zenon DEF Cli!Lookup, Cli!RenderTransition
  <2> HIDE DEF guard, fields, besides
  <2>3. /\ plain = IF guard THEN Cli!RenderedWith(ff, fields, besides) ELSE Cli!UsageError
        /\ quiet = IF guard THEN Cli!RenderedWith(ft, fields, besides) ELSE Cli!UsageError
        /\ json = IF guard THEN Cli!RenderedWith(tf, fields, besides) ELSE Cli!UsageError
    BY <1>0, <2>1, <2>2, Zenon
  <2> QED
    BY <2>3, EitherInForm, Zenon
<1>5. ASSUME c = "verify" PROVE Goal
  <2> DEFINE ok == Cli!Verified = 4096
             fields == [verified |-> Cli!Verified, total |-> 4096, ok |-> ok]
  <2>1. \A ctx : Cli!Dispatch(ctx, c, rest) = Cli!Verify(ctx)
    BY <1>5 DEF Cli!Dispatch
  <2>4. \A ctx : Cli!Verify(ctx) = IF ok THEN Cli!Rendered(ctx, fields) ELSE Cli!Failed(ctx, fields)
    BY Zenon DEF Cli!Verify
  <2> HIDE DEF ok, fields
  <2>2. CASE ok
    <3>1. \A ctx : Cli!Verify(ctx) = Cli!RenderedWith(ctx, fields, <<>>)
      BY <2>2, <2>4, Zenon DEF Cli!Rendered
    <3> HIDE DEF fields
    <3>2. /\ plain = Cli!RenderedWith(ff, fields, <<>>)
          /\ quiet = Cli!RenderedWith(ft, fields, <<>>)
          /\ json = Cli!RenderedWith(tf, fields, <<>>)
      BY <1>0, <2>1, <3>1, Zenon
    <3> QED
      BY <3>2, RenderedInForm, Zenon
  <2>3. CASE ~ ok
    <3>2. \A ctx : Cli!Verify(ctx) = Cli!Failed(ctx, fields)
      BY <2>3, <2>4, Zenon
    <3>3. PICK out : out = Cli!Printed(tf, fields, <<>>)
      OBVIOUS
    <3>4. ~ ff.json /\ ~ ft.json /\ tf.json
      BY DEF Ctx, Contexts
    <3>8. /\ Cli!Failed(ff, fields) = Cli!DataError(<<>>)
          /\ Cli!Failed(ft, fields) = Cli!DataError(<<>>)
          /\ Cli!Failed(tf, fields) = Cli!DataError(out)
      BY <3>3, <3>4 DEF Cli!Failed
    <3>5. /\ Cli!Verify(ff) = Cli!DataError(<<>>)
          /\ Cli!Verify(ft) = Cli!DataError(<<>>)
          /\ Cli!Verify(tf) = Cli!DataError(out)
      BY <3>2, <3>8, Zenon
    <3>7. plain = Cli!DataError(<<>>) /\ quiet = Cli!DataError(<<>>) /\ json = Cli!DataError(out)
      BY <1>0, <2>1, <3>5, Zenon
    <3>6. FlagsChangeTheForm(Cli!DataError(<<>>), Cli!DataError(<<>>), Cli!DataError(out), Cli!Said("help"))
      BY DEF Cli!DataError, Cli!Outcome, FlagsChangeTheForm
    <3> QED
      BY <3>6, <3>7, Zenon
  <2> QED
    BY <2>2, <2>3
<1>6. ASSUME c = "batch" PROVE Goal
  <2>1. \A ctx : Cli!Dispatch(ctx, c, rest) = Cli!EmptyBatch
    BY <1>6 DEF Cli!Dispatch
  <2>2. FlagsChangeTheForm(Cli!EmptyBatch, Cli!EmptyBatch, Cli!EmptyBatch, Cli!Said("help"))
    BY SaidInForm DEF Cli!EmptyBatch
  <2>3. plain = Cli!EmptyBatch /\ quiet = Cli!EmptyBatch /\ json = Cli!EmptyBatch
    BY <1>0, <2>1, Zenon
  <2> QED
    BY <2>2, <2>3, Zenon
<1>7. ASSUME c \notin {"classify", "compress", "compare", "lookup", "verify", "batch"} PROVE Goal
  <2>1. \A ctx : Cli!Dispatch(ctx, c, rest) = Cli!UsageError
    BY <1>7 DEF Cli!Dispatch
  <2>2. plain = Cli!UsageError /\ quiet = Cli!UsageError /\ json = Cli!UsageError
    BY <1>0, <2>1, Zenon
  <2> QED
    BY <2>2, ErrorsInForm, Zenon
<1> QED
  BY <1>0, <1>1, <1>2, <1>3, <1>4, <1>5, <1>6, <1>7, Zenon

-----------------------------------------------------------------------------
(* A call is its command and the rest.                                      *)
LEMMA CommandLeads ==
  ASSUME NEW e \in Tokens, NEW rest \in Seq(Tokens)
  PROVE  /\ <<e>> \o rest \in Seq(Tokens) /\ <<e>> \o rest # <<>>
         /\ Len(<<e>> \o rest) = Len(rest) + 1
         /\ Head(<<e>> \o rest) = e /\ Tail(<<e>> \o rest) = rest
         /\ (<<e>> \o rest)[1] = e /\ \A k \in 1..Len(rest) : (<<e>> \o rest)[k + 1] = rest[k]
<1>1. PICK m, t : m = <<e>> /\ t = m \o rest
  OBVIOUS
<1>2. m \in Seq(Tokens) /\ Len(m) = 1 /\ m[1] = e
  BY <1>1, OneToken
<1>3. /\ t \in Seq(Tokens) /\ Len(t) = Len(m) + Len(rest)
      /\ \A k \in 1..(Len(m) + Len(rest)) : t[k] = IF k <= Len(m) THEN m[k] ELSE rest[k - Len(m)]
  BY <1>1, <1>2, ConcatProperties
<1>4. PICK n \in Nat : n = Len(rest)
  BY LenProperties
<1>5. Len(t) = n + 1 /\ t[1] = e
  <2>1. Len(m) + Len(rest) = n + 1 /\ 1 \in 1..(n + 1) /\ 1 <= Len(m)
    BY <1>2, <1>4
  <2> QED
    BY <1>2, <1>3, <2>1
<1>6. \A k \in 1..n : t[k + 1] = rest[k]
  <2> SUFFICES ASSUME NEW k \in 1..n PROVE t[k + 1] = rest[k]
    OBVIOUS
  <2>1. k + 1 \in 1..(Len(m) + Len(rest)) /\ ~ (k + 1 <= Len(m)) /\ (k + 1) - Len(m) = k
    BY <1>2, <1>4
  <2> QED
    BY <1>3, <2>1
<1>7. t # <<>>
  <2>1. Len(t) # 0
    BY <1>4, <1>5
  <2> QED
    BY <2>1
<1>8. Head(t) = e
  BY <1>3, <1>5, <1>7, HeadIsFirst
<1>9. /\ Tail(t) \in Seq(Tokens) /\ Len(Tail(t)) = n
      /\ \A k \in 1..n : Tail(t)[k] = rest[k]
  <2>1. /\ Tail(t) \in Seq(Tokens) /\ Len(Tail(t)) = Len(t) - 1
        /\ \A k \in 1..Len(Tail(t)) : Tail(t)[k] = t[k + 1]
    BY <1>3, <1>7, HeadTailProperties
  <2>2. Len(Tail(t)) = n
    BY <1>4, <1>5, <2>1
  <2> QED
    BY <1>6, <2>1, <2>2
<1>10. Tail(t) = rest
  BY <1>4, <1>9, SeqEqual
<1> QED
  BY <1>1, <1>3, <1>4, <1>5, <1>6, <1>7, <1>8, <1>10

(* A word put in behind the command is one of the rest.                     *)
LEMMA StrayIsInTheRest ==
  ASSUME NEW c \in Tokens, NEW rest \in Seq(Tokens), IsPlain(<<c>> \o rest),
         NEW i \in 2..(Len(rest) + 2), NEW e \in Tokens, e.text \notin FormFlags \cup EarlyFlags
  PROVE  \E u \in Seq(Tokens) :
           /\ Len(u) = Len(rest) + 1 /\ u[i - 1] = e
           /\ With(<<c>> \o rest, i, e) = Cli!Dispatch(Unflagged, c.text, u)
<1>1. PICK s, n, t : s = <<c>> \o rest /\ n = Len(rest) /\ t = InsertAt(s, i, e)
  OBVIOUS
<1>2. n \in Nat /\ i \in 2..(n + 2)
  BY <1>1, LenProperties
<1>3. s \in Seq(Tokens) /\ Len(s) = n + 1 /\ s[1] = c
  BY <1>1, CommandLeads
<1>4. /\ t \in Seq(Tokens) /\ Len(t) = n + 2
      /\ \A k \in 1..(n + 2) : t[k] = IF k < i THEN s[k] ELSE IF k = i THEN e ELSE s[k - 1]
  <2>1. i \in 1..(Len(s) + 1)
    BY <1>2, <1>3
  <2>2. IsInserted(t, s, i, e)
    BY <1>1, <1>3, <2>1, InsertionMoves
  <2>3. Len(s) + 1 = n + 2
    BY <1>2, <1>3
  <2> QED
    BY <2>2, <2>3 DEF IsInserted
<1>5. t[1] = c /\ t[i] = e
  BY <1>2, <1>3, <1>4
<1>6. IsPlain(t)
  <2>1. \A k \in 1..(n + 1) : s[k].text \notin FormFlags \cup EarlyFlags
    BY <1>1, <1>3 DEF IsPlain
  <2>2. ASSUME NEW k \in 1..(n + 2) PROVE t[k].text \notin FormFlags \cup EarlyFlags
    <3>1. CASE k < i
      <4>1. k \in 1..(n + 1) /\ t[k] = s[k]
        BY <1>2, <1>4, <3>1
      <4> QED
        BY <2>1, <4>1
    <3>2. CASE k = i
      BY <1>5, <3>2
    <3>3. CASE k > i
      <4>1. k - 1 \in 1..(n + 1) /\ t[k] = s[k - 1]
        BY <1>2, <1>4, <3>3
      <4> QED
        BY <2>1, <4>1
    <3> QED
      BY <1>2, <3>1, <3>2, <3>3
  <2> QED
    BY <1>4, <2>2 DEF IsPlain
<1>7. t # <<>>
  <2>1. Len(t) # 0
    BY <1>2, <1>4
  <2> QED
    BY <2>1
<1>8. Head(t) = c
  BY <1>4, <1>5, <1>7, HeadIsFirst
<1>9. PICK u : u = Tail(t)
  OBVIOUS
<1>10. u \in Seq(Tokens) /\ Len(u) = n + 1 /\ u[i - 1] = e
  <2>1. u \in Seq(Tokens) /\ Len(u) = Len(t) - 1 /\ \A k \in 1..Len(u) : u[k] = t[k + 1]
    BY <1>4, <1>7, <1>9, HeadTailProperties
  <2>2. Len(u) = n + 1 /\ i - 1 \in 1..(n + 1) /\ (i - 1) + 1 = i
    BY <1>2, <1>4, <2>1
  <2>3. u[i - 1] = t[(i - 1) + 1]
    BY <2>1, <2>2
  <2> QED
    BY <1>5, <2>1, <2>2, <2>3
<1>11. With(s, i, e) = Cli!Dispatch(Unflagged, c.text, u)
  <2>1. Cli!Main(t) = Ran(Unflagged, t)
    BY <1>4, <1>6, PlainCallsRun DEF Unflagged
  <2> QED
    BY <1>1, <1>7, <1>8, <1>9, <2>1 DEF With, Ran
<1> QED
  BY <1>1, <1>10, <1>11

\* No state of a path, and no separator.
IsStray(e) == e \in Tokens /\ e.number \notin 0..7 /\ e.text # "--"

LEMMA StraysAreNoPath ==
  ASSUME NEW u \in Seq(Tokens), NEW j \in 1..Len(u), IsStray(u[j])
  PROVE  ~ Cli!IsTrajectory(u)
<1>1. DOMAIN u = 1..Len(u)
  BY LenProperties
<1> QED
  BY <1>1 DEF IsStray, Cli!IsTrajectory, Cli!IsState, Cli!Q3_MAX

LEMMA StraysAreNoComparison ==
  ASSUME NEW u \in Seq(Tokens), NEW j \in 1..Len(u), IsStray(u[j]), NEW ctx
  PROVE  Cli!Compare(ctx, u) = Cli!UsageError
<1> DEFINE seps == Cli!PlacesOf(u, {"--"})
           m == Cli!Min(seps)
           p == SubSeq(u, 1, m - 1)
           q == SubSeq(u, m + 1, Len(u))
<1>1. PICK n \in Nat : n = Len(u)
  BY LenProperties
<1>2. \A k \in 1..n : u[k] \in Tokens
  BY <1>1, ElementOfSeq
<1>3. seps = {k \in 1..n : u[k].text \in {"--"}}
  <2>1. DOMAIN u = 1..n
    BY <1>1, LenProperties
  <2> QED
    BY <2>1 DEF Cli!PlacesOf
<1> HIDE DEF seps
<1>4. ASSUME seps # {} PROVE m \in 1..n /\ m # j
  <2>1. seps \in SUBSET Nat
    BY <1>3
  <2>2. \E k \in seps : \A l \in seps : k <= l
    BY <1>4, <2>1, LeastNatural
  <2>3. m \in seps
    BY <2>2 DEF Cli!Min
  <2> HIDE DEF m
  <2>4. j \notin seps
    BY <1>3 DEF IsStray
  <2> QED
    BY <1>3, <2>3, <2>4
<1> HIDE DEF m
<1>5. ASSUME seps # {}, j < m PROVE ~ Cli!IsTrajectory(p)
  <2>1. m \in 1..n /\ j \in 1..(m - 1) /\ \A k \in 1..(m - 1) : u[k] \in Tokens
    BY <1>1, <1>2, <1>4, <1>5
  <2>2. /\ p \in Seq(Tokens) /\ Len(p) = IF 1 <= m - 1 THEN (m - 1) - 1 + 1 ELSE 0
        /\ \A k \in 1..((m - 1) - 1 + 1) : p[k] = u[1 + k - 1]
    <3>1. 1 \in Int /\ m - 1 \in Int
      BY <2>1
    <3> QED
      BY <2>1, <3>1, SubSeqProperties
  <2> HIDE DEF p
  <2>3. j \in 1..Len(p) /\ p[j] = u[j]
    BY <2>1, <2>2
  <2> QED
    BY <2>2, <2>3, StraysAreNoPath
<1>6. ASSUME seps # {}, j > m PROVE ~ Cli!IsTrajectory(q)
  <2>1. /\ m \in 1..n /\ j \in (m + 1)..n /\ \A k \in (m + 1)..n : u[k] \in Tokens
    BY <1>1, <1>2, <1>4, <1>6
  <2>2. /\ q \in Seq(Tokens) /\ Len(q) = IF m + 1 <= n THEN n - (m + 1) + 1 ELSE 0
        /\ \A k \in 1..(n - (m + 1) + 1) : q[k] = u[(m + 1) + k - 1]
    <3>1. m + 1 \in Int /\ n \in Int
      BY <2>1
    <3> QED
      BY <1>1, <2>1, <3>1, SubSeqProperties
  <2> HIDE DEF q
  <2>3. j - m \in 1..Len(q) /\ j - m \in 1..(n - (m + 1) + 1) /\ (m + 1) + (j - m) - 1 = j
    BY <2>1, <2>2
  <2>4. q[j - m] = u[j]
    BY <2>2, <2>3
  <2> QED
    BY <2>2, <2>3, <2>4, StraysAreNoPath
<1>7. ~ (seps # {} /\ Cli!IsTrajectory(p) /\ Cli!IsTrajectory(q))
  BY <1>1, <1>4, <1>5, <1>6
<1> QED
  BY <1>7, Zenon DEF Cli!Compare, seps, m

-----------------------------------------------------------------------------
(* A mistyped command is an error, whatever follows.                        *)
LEMMA MistypedCommands ==
  ASSUME NEW s \in Seq(Tokens), IsPlain(s)
  PROVE  With(s, 1, Cli!Word("clasify")) = Cli!UsageError
<1>1. PICK e, t, n : e = Cli!Word("clasify") /\ t = InsertAt(s, 1, e) /\ n = Len(s)
  OBVIOUS
<1>2. e \in Tokens /\ e.text = "clasify"
  BY <1>1 DEF Cli!Word, Tokens, Texts
<1>3. /\ n \in Nat /\ t \in Seq(Tokens) /\ Len(t) = n + 1
      /\ \A k \in 1..(n + 1) : t[k] = IF k < 1 THEN s[k] ELSE IF k = 1 THEN e ELSE s[k - 1]
  <2>1. n \in Nat /\ 1 \in 1..(Len(s) + 1)
    BY <1>1, LenProperties
  <2> QED
    BY <1>1, <1>2, <2>1, InsertionMoves DEF IsInserted
<1>4. t[1] = e
  BY <1>3
<1>5. IsPlain(t)
  <2>1. \A k \in 1..n : s[k].text \notin FormFlags \cup EarlyFlags
    BY <1>1 DEF IsPlain
  <2>2. e.text \notin FormFlags \cup EarlyFlags
    BY <1>2 DEF FormFlags, EarlyFlags
  <2>3. ASSUME NEW k \in 1..(n + 1) PROVE t[k].text \notin FormFlags \cup EarlyFlags
    <3>1. CASE k = 1
      BY <1>4, <2>2, <3>1
    <3>2. CASE k > 1
      <4>1. k - 1 \in 1..n /\ t[k] = s[k - 1]
        BY <1>3, <3>2
      <4> QED
        BY <2>1, <4>1
    <3> QED
      BY <1>3, <3>1, <3>2
  <2> QED
    BY <1>3, <2>3 DEF IsPlain
<1>6. t # <<>>
  <2>1. Len(t) # 0
    BY <1>3
  <2> QED
    BY <2>1
<1>7. Head(t) = e
  BY <1>3, <1>4, <1>6, HeadIsFirst
<1>8. Cli!Main(t) = Cli!Dispatch(Unflagged, "clasify", Tail(t))
  BY <1>2, <1>3, <1>5, <1>6, <1>7, PlainCallsRun DEF Ran, Unflagged
<1>9. Cli!Main(t) = Cli!UsageError
  BY <1>8 DEF Cli!Dispatch
<1> QED
  BY <1>1, <1>9 DEF With

LEMMA EmptyCallHeeds == HeedsItsWords(<<>>)
<1>1. <<>> \in Seq(Tokens) /\ Len(<<>>) = 0 /\ 1..(Len(<<>>) + 1) = {1}
  BY EmptySeq
<1>2. IsPlain(<<>>)
  BY <1>1 DEF IsPlain
<1>3. PICK out : out = Cli!Outcome(2, <<>>, <<"help">>)
  OBVIOUS
<1>4. \A ctx : Ran(ctx, <<>>) = out
  BY <1>3 DEF Ran
<1>5. Cli!Main(<<>>) = out
  BY <1>1, <1>2, <1>4, PlainCallsRun
<1>6. /\ With(<<>>, 1, Cli!Word("--quiet")) = out /\ With(<<>>, 1, Cli!Word("--json")) = out
      /\ With(<<>>, 1, Cli!Word("--help")) = Cli!Said("help")
  <2>1. 1 \in 1..(Len(<<>>) + 1)
    BY <1>1
  <2> QED
    BY <1>1, <1>2, <1>4, <2>1, FlaggedCallsRun
<1>7. FlagsChangeTheForm(out, out, out, Cli!Said("help"))
  <2>1. <<"help">> # <<>>
    OBVIOUS
  <2> QED
    BY <1>3, <2>1, SaidInForm
<1>8. With(<<>>, 1, Cli!Word("clasify")) = Cli!UsageError
  BY <1>1, <1>2, MistypedCommands
<1> QED
  BY <1>1, <1>5, <1>6, <1>7, <1>8 DEF HeedsItsWords

Commands == {"compress", "compare", "classify", "lookup", "verify", "batch"}

\* As many words as the command takes.
FitsCommand(text, rest) ==
  /\ text \in Commands
  /\ text = "classify" => Len(rest) = 2
  /\ text = "lookup" => Len(rest) = 1

LEMMA CallsHeedTheirWords ==
  ASSUME NEW c \in Tokens, NEW rest \in Seq(Tokens), NEW call, call = <<c>> \o rest,
         IsPlain(call), FitsCommand(c.text, rest)
  PROVE  HeedsItsWords(call)
<1>1. PICK n \in Nat : n = Len(rest)
  BY LenProperties
<1>2. /\ call \in Seq(Tokens) /\ call # <<>> /\ Len(call) = n + 1 /\ call[1] = c
      /\ Head(call) = c /\ Tail(call) = rest
  BY <1>1, CommandLeads
<1>3. ASSUME NEW i \in 1..(Len(call) + 1)
      PROVE  FlagsChangeTheForm(Cli!Main(call), With(call, i, Cli!Word("--quiet")),
                                With(call, i, Cli!Word("--json")), With(call, i, Cli!Word("--help")))
  <2>1. PICK ff, ft, tf : ff = Ctx(FALSE, FALSE) /\ ft = Ctx(FALSE, TRUE) /\ tf = Ctx(TRUE, FALSE)
    OBVIOUS
  <2>2. Contexts(ff, ft, tf)
    BY <2>1 DEF Contexts
  <2>3. \A ctx : Ran(ctx, call) = Cli!Dispatch(ctx, c.text, rest)
    BY <1>2 DEF Ran
  <2>4. Cli!Main(call) = Cli!Dispatch(ff, c.text, rest)
    BY <1>2, <2>1, <2>3, PlainCallsRun
  <2>5. /\ With(call, i, Cli!Word("--quiet")) = Cli!Dispatch(ft, c.text, rest)
        /\ With(call, i, Cli!Word("--json")) = Cli!Dispatch(tf, c.text, rest)
        /\ With(call, i, Cli!Word("--help")) = Cli!Said("help")
    BY <1>2, <2>1, <2>3, FlaggedCallsRun
  <2>6. c.text # "help"
    BY DEF FitsCommand, Commands
  <2>7. FlagsChangeTheForm(Cli!Dispatch(ff, c.text, rest), Cli!Dispatch(ft, c.text, rest),
                           Cli!Dispatch(tf, c.text, rest), Cli!Said("help"))
    BY <2>2, <2>6, CommandsInForm
  <2> QED
    BY <2>4, <2>5, <2>7
<1>4. ASSUME NEW i \in 1..(Len(call) + 1), i > 1, call[1].text \notin {"verify", "batch"},
             NEW stray \in {Cli!Word("5x"), Cli!Numeral(4096)}
      PROVE  With(call, i, stray) = Cli!UsageError
  <2>1. PICK e : e = stray
    OBVIOUS
  <2>2. IsStray(e) /\ e.text \notin FormFlags \cup EarlyFlags
    BY <2>1 DEF IsStray, Cli!Word, Cli!Numeral, Tokens, Texts, FormFlags, EarlyFlags
  <2>3. i \in 2..(Len(rest) + 2)
    BY <1>1, <1>2, <1>4
  <2>4. PICK u \in Seq(Tokens) :
          /\ Len(u) = Len(rest) + 1 /\ u[i - 1] = e
          /\ With(<<c>> \o rest, i, e) = Cli!Dispatch(Unflagged, c.text, u)
    <3>1. IsPlain(<<c>> \o rest) /\ e \in Tokens
      BY <2>2 DEF IsStray
    <3> QED
      BY <2>2, <2>3, <3>1, StrayIsInTheRest
  <2>12. PICK ctx : ctx = Unflagged
    OBVIOUS
  <2>5. PICK j : j = i - 1
    OBVIOUS
  <2>6. j \in 1..Len(u) /\ IsStray(u[j])
    BY <1>1, <2>2, <2>3, <2>4, <2>5
  <2>7. With(call, i, stray) = Cli!Dispatch(ctx, c.text, u)
    BY <2>1, <2>4, <2>12
  <2>8. CASE c.text = "compress"
    <3>1. ~ Cli!IsTrajectory(u)
      BY <2>6, StraysAreNoPath
    <3> QED
      BY <2>7, <2>8, <3>1 DEF Cli!Dispatch, Cli!Compress
  <2>9. CASE c.text = "compare"
    <3>1. Cli!Compare(ctx, u) = Cli!UsageError
      BY <2>6, StraysAreNoComparison
    <3> QED
      BY <2>7, <2>9, <3>1 DEF Cli!Dispatch
  <2>10. CASE c.text = "classify"
    <3>1. Len(u) # 2
      BY <2>4, <2>10 DEF FitsCommand
    <3> QED
      BY <2>7, <2>10, <3>1 DEF Cli!Dispatch, Cli!Classify
  <2>11. CASE c.text = "lookup"
    <3>1. Len(u) # 1
      BY <2>4, <2>11 DEF FitsCommand
    <3> QED
      BY <2>7, <2>11, <3>1 DEF Cli!Dispatch, Cli!Lookup
  <2> QED
    BY <1>2, <1>4, <2>8, <2>9, <2>10, <2>11 DEF FitsCommand, Commands
<1>5. With(call, 1, Cli!Word("clasify")) = Cli!UsageError
  BY <1>2, MistypedCommands
<1> QED
  BY <1>3, <1>4, <1>5 DEF HeedsItsWords

-----------------------------------------------------------------------------
(* What the command line projects is what the core projects, which is what  *)
(* the reference does.                                                      *)
LEMMA CliProjects ==
  ASSUME NEW p \in Seq(ElementaryStates), p # <<>>
  PROVE  /\ Cli!ProjectTrajectory(p).shape = Shape(p)
         /\ Cli!ProjectTrajectory(p).dwell = DwellSignature(p)
         /\ Cli!ProjectTrajectory(p).net_mutation = NetMutation(p)
         /\ Cli!ProjectTrajectory(p).cumulative_distance = CumulativeDistance(p)
         /\ Cli!ProjectTrajectory(p).endpoint = EndpointCompression(p)
<1>1. Carries(p, p)
  <2>1. Len(p) \in Nat /\ p \in [1..Len(p) -> ElementaryStates]
    BY LenProperties
  <2>2. p \in [1..Len(p) -> Nat]
    BY <2>1 DEF ElementaryStates
  <2>3. p \in Seq(Nat)
    BY <2>1, <2>2, IsASeq
  <2>4. \A x \in ElementaryStates : x % 8 = x
    BY DEF ElementaryStates
  <2> QED
    BY <2>1, <2>3, <2>4 DEF Carries
<1>2. Cli!ProjectTrajectory(p) = Core!ProjectTrajectory(p)
  <2>1. Cli!Collapsed(p) = Core!Collapsed(p)
    BY Zenon DEF Cli!Collapsed, Core!Collapsed, Cli!Masked, Core!Masked, Cli!Last, Core!Last
  <2>2. \A S : Cli!Cardinality(S) = Core!Cardinality(S)
    BY DEF Cli!Cardinality, Core!Cardinality
  <2>3. \A S, T : Cli!SymDiff(S, T) = Core!SymDiff(S, T)
    BY DEF Cli!SymDiff, Core!SymDiff
  <2>4. \A byte : Cli!Q3Bits(byte) = Core!Q3Bits(byte)
    BY DEF Cli!Q3Bits, Core!Q3Bits
  <2>5. Cli!FoldSteps(p) = Core!FoldSteps(p)
    BY Zenon DEF Cli!FoldSteps, Core!FoldSteps, Cli!Step, Core!Step, Cli!Q3Bits, Core!Q3Bits,
       Cli!SymDiff, Core!SymDiff, Cli!Cardinality, Core!Cardinality
  <2>6. Cli!Endpoints(p) = Core!Endpoints(p)
    BY Zenon DEF Cli!Endpoints, Core!Endpoints, Cli!Masked, Core!Masked, Cli!Q3Bits, Core!Q3Bits,
       Cli!SymDiff, Core!SymDiff, Cli!Cardinality, Core!Cardinality, Cli!Last, Core!Last
  <2> QED
    BY <2>1, <2>5, <2>6, Zenon DEF Cli!ProjectTrajectory, Core!ProjectTrajectory, Cli!Joined,
       Core!Joined, Cli!Row, Core!Row, Cli!Scalars, Core!Scalars
<1>3. Core!ProjectTrajectory(p).shape = Shape(p) /\ Core!ProjectTrajectory(p).dwell = DwellSignature(p)
  BY <1>1, CoreCollapses DEF Core!ProjectTrajectory, Core!Joined, Shape, DwellSignature
<1>4. /\ Core!ProjectTrajectory(p).net_mutation = NetMutation(p)
      /\ Core!ProjectTrajectory(p).cumulative_distance = CumulativeDistance(p)
  BY <1>1, CoreFolds DEF Core!ProjectTrajectory, Core!Joined, Core!Row, Core!Scalars
<1>5. Core!ProjectTrajectory(p).endpoint = EndpointCompression(p)
  BY <1>1, CoreEnds DEF Core!ProjectTrajectory, Core!Joined, Core!Row, Core!Scalars
<1> QED
  BY <1>2, <1>3, <1>4, <1>5

-----------------------------------------------------------------------------
LEMMA PathsAreNumbers ==
  ASSUME NEW p \in Seq(ElementaryStates)
  PROVE  p \in Seq(Nat)
<1>1. Len(p) \in Nat /\ p \in [1..Len(p) -> ElementaryStates]
  BY LenProperties
<1>2. p \in [1..Len(p) -> Nat]
  BY <1>1 DEF ElementaryStates
<1> QED
  BY <1>1, <1>2, IsASeq

LEMMA NumeralsArePlain ==
  ASSUME NEW p \in Seq(Nat)
  PROVE  IsPlain(N(p))
<1>1. \A i \in 1..Len(N(p)) : N(p)[i].text = "digits"
  BY NumeralsOfPaths
<1> QED
  BY <1>1 DEF IsPlain, FormFlags, EarlyFlags

LEMMA LedCallsArePlain ==
  ASSUME NEW e \in Tokens, e.text \notin FormFlags \cup EarlyFlags,
         NEW rest \in Seq(Tokens), IsPlain(rest)
  PROVE  IsPlain(<<e>> \o rest)
<1>1. PICK t, n : t = <<e>> \o rest /\ n = Len(rest)
  OBVIOUS
<1>2. /\ n \in Nat /\ Len(t) = n + 1 /\ t[1] = e /\ \A k \in 1..n : t[k + 1] = rest[k]
  BY <1>1, CommandLeads, LenProperties
<1>3. \A k \in 1..n : rest[k].text \notin FormFlags \cup EarlyFlags
  BY <1>1 DEF IsPlain
<1>4. ASSUME NEW k \in 1..(n + 1) PROVE t[k].text \notin FormFlags \cup EarlyFlags
  <2>1. CASE k = 1
    BY <1>2, <2>1
  <2>2. CASE k > 1
    <3>1. k - 1 \in 1..n /\ (k - 1) + 1 = k
      BY <1>2, <2>2
    <3>2. t[k] = rest[k - 1]
      BY <1>2, <3>1
    <3> QED
      BY <1>3, <3>1, <3>2
  <2> QED
    BY <1>2, <2>1, <2>2
<1> QED
  BY <1>1, <1>2, <1>4 DEF IsPlain

LEMMA FrontOfSequence ==
  ASSUME NEW r \in Seq(Tokens), NEW a \in Seq(Tokens), Len(a) <= Len(r),
         \A k \in 1..Len(a) : r[k] = a[k]
  PROVE  SubSeq(r, 1, Len(a)) = a
<1>1. PICK m \in Nat : m = Len(a)
  BY LenProperties
<1>2. PICK b : b = SubSeq(r, 1, m)
  OBVIOUS
<1>3. \A k \in 1..m : r[k] \in Tokens
  BY <1>1, ElementOfSeq
<1>4. /\ b \in Seq(Tokens) /\ Len(b) = IF 1 <= m THEN m - 1 + 1 ELSE 0
      /\ \A k \in 1..(m - 1 + 1) : b[k] = r[1 + k - 1]
  <2>1. 1 \in Int /\ m \in Int
    OBVIOUS
  <2> QED
    BY <1>2, <1>3, <2>1, SubSeqProperties
<1>5. Len(b) = m
  BY <1>4
<1>6. \A k \in 1..m : b[k] = a[k]
  <2> SUFFICES ASSUME NEW k \in 1..m PROVE b[k] = a[k]
    OBVIOUS
  <2>1. k \in 1..(m - 1 + 1) /\ 1 + k - 1 = k
    OBVIOUS
  <2>2. b[k] = r[k]
    BY <1>4, <2>1
  <2> QED
    BY <1>1, <2>2
<1> QED
  BY <1>1, <1>2, <1>4, <1>5, <1>6, SeqEqual

(* The rest of compare is two paths and the separator between them.         *)
LEMMA SeparatedPaths ==
  ASSUME NEW p \in Seq(Nat), NEW q \in Seq(Nat), NEW r, r = N(p) \o (W("--") \o N(q))
  PROVE  /\ r \in Seq(Tokens) /\ IsPlain(r)
         /\ Cli!PlacesOf(r, {"--"}) = {Len(p) + 1}
         /\ SubSeq(r, 1, Len(p)) = N(p) /\ SubSeq(r, Len(p) + 2, Len(r)) = N(q)
<1>1. PICK m \in Nat, n \in Nat : m = Len(p) /\ n = Len(q)
  BY LenProperties
<1>2. PICK a, z, w : a = N(p) /\ z = N(q) /\ w = Cli!Word("--")
  OBVIOUS
<1>3. /\ a \in Seq(Tokens) /\ Len(a) = m /\ \A k \in 1..m : a[k].text = "digits"
      /\ z \in Seq(Tokens) /\ Len(z) = n /\ \A k \in 1..n : z[k].text = "digits"
  BY <1>1, <1>2, NumeralsOfPaths
<1>4. w \in Tokens /\ w.text = "--"
  BY <1>2 DEF Cli!Word, Tokens, Texts
<1>5. PICK t : t = <<w>> \o z
  OBVIOUS
<1>6. /\ t \in Seq(Tokens) /\ Len(t) = n + 1 /\ t[1] = w /\ \A k \in 1..n : t[k + 1] = z[k]
  BY <1>3, <1>4, <1>5, CommandLeads
<1>7. r = a \o t
  BY <1>2, <1>5 DEF W
<1>8. /\ r \in Seq(Tokens) /\ Len(r) = Len(a) + Len(t)
      /\ \A k \in 1..(Len(a) + Len(t)) : r[k] = IF k <= Len(a) THEN a[k] ELSE t[k - Len(a)]
  <2>1. a \in Seq(Tokens) /\ t \in Seq(Tokens)
    BY <1>3, <1>6
  <2> QED
    BY <1>7, <2>1, ConcatProperties
<1>9. Len(r) = m + (n + 1) /\ \A k \in 1..(m + (n + 1)) : r[k] = IF k <= m THEN a[k] ELSE t[k - m]
  BY <1>3, <1>6, <1>8
<1>10. \A k \in 1..m : r[k] = a[k]
  BY <1>9
<1>11. r[m + 1] = w
  <2>1. m + 1 \in 1..(m + (n + 1)) /\ ~ (m + 1 <= m) /\ (m + 1) - m = 1
    OBVIOUS
  <2> QED
    BY <1>6, <1>9, <2>1
<1>12. \A k \in 1..n : r[(m + 1) + k] = z[k]
  <2> SUFFICES ASSUME NEW k \in 1..n PROVE r[(m + 1) + k] = z[k]
    OBVIOUS
  <2>1. /\ (m + 1) + k \in 1..(m + (n + 1)) /\ ~ ((m + 1) + k <= m) /\ ((m + 1) + k) - m = k + 1
    OBVIOUS
  <2> QED
    BY <1>6, <1>9, <2>1
<1>13. ASSUME NEW k \in 1..(m + (n + 1)), k # m + 1 PROVE r[k].text = "digits"
  <2>1. CASE k <= m
    <3>1. k \in 1..m
      BY <2>1
    <3> QED
      BY <1>3, <1>10, <3>1
  <2>2. CASE k > m + 1
    <3>1. k - (m + 1) \in 1..n /\ (m + 1) + (k - (m + 1)) = k
      BY <2>2
    <3>2. r[k] = z[k - (m + 1)]
      BY <1>12, <3>1
    <3> QED
      BY <1>3, <3>1, <3>2
  <2> QED
    <3>1. k <= m \/ k > m + 1
      BY <1>13
    <3> QED
      BY <2>1, <2>2, <3>1
<1>14. Cli!PlacesOf(r, {"--"}) = {m + 1}
  <2>1. DOMAIN r = 1..(m + (n + 1)) /\ m + 1 \in 1..(m + (n + 1))
    BY <1>8, <1>9, LenProperties
  <2>2. \A k \in 1..(m + (n + 1)) : r[k].text \in {"--"} <=> k = m + 1
    BY <1>4, <1>11, <1>13
  <2> QED
    BY <2>1, <2>2 DEF Cli!PlacesOf
<1>15. IsPlain(r)
  <2>1. \A k \in 1..(m + (n + 1)) : r[k].text \in {"digits", "--"}
    BY <1>4, <1>11, <1>13
  <2> QED
    BY <1>9, <2>1 DEF IsPlain, FormFlags, EarlyFlags
<1>16. SubSeq(r, 1, m) = a
  <2>1. /\ r \in Seq(Tokens) /\ a \in Seq(Tokens) /\ Len(a) <= Len(r)
        /\ \A k \in 1..Len(a) : r[k] = a[k]
    BY <1>3, <1>8, <1>9, <1>10
  <2>2. SubSeq(r, 1, Len(a)) = a
    BY <2>1, FrontOfSequence
  <2> QED
    BY <1>3, <2>2
<1>17. SubSeq(r, m + 2, Len(r)) = z
  <2>1. PICK b, l : b = SubSeq(r, m + 2, l) /\ l = Len(r)
    OBVIOUS
  <2>2. l = m + (n + 1) /\ l \in Int /\ m + 2 \in Int
    BY <1>9, <2>1
  <2>3. /\ b \in Seq(Tokens) /\ Len(b) = IF m + 2 <= l THEN l - (m + 2) + 1 ELSE 0
        /\ \A k \in 1..(l - (m + 2) + 1) : b[k] = r[(m + 2) + k - 1]
    <3>1. \A k \in (m + 2)..l : r[k] \in Tokens
      <4>1. \A k \in (m + 2)..l : k \in 1..Len(r)
        BY <2>1, <2>2
      <4> QED
        BY <1>8, <4>1, ElementOfSeq
    <3> QED
      BY <2>1, <2>2, <3>1, SubSeqProperties
  <2>4. Len(b) = n
    BY <2>2, <2>3
  <2>5. \A k \in 1..n : b[k] = z[k]
    <3> SUFFICES ASSUME NEW k \in 1..n PROVE b[k] = z[k]
      OBVIOUS
    <3>1. k \in 1..(l - (m + 2) + 1) /\ (m + 2) + k - 1 = (m + 1) + k
      BY <2>2
    <3>2. b[k] = r[(m + 1) + k]
      BY <2>3, <3>1
    <3> QED
      BY <1>12, <3>2
  <2>6. b = z
    BY <1>3, <2>3, <2>4, <2>5, SeqEqual
  <2> QED
    BY <2>1, <2>6
<1> QED
  BY <1>1, <1>2, <1>8, <1>14, <1>15, <1>16, <1>17

(* A path is a trajectory when it has a transition.                         *)
LEMMA PathsAreTrajectories ==
  ASSUME NEW p \in Seq(ElementaryStates)
  PROVE  Cli!IsTrajectory(N(p)) <=> Len(p) >= 2
<1>1. /\ N(p) \in Seq(Tokens) /\ Len(N(p)) = Len(p)
      /\ \A i \in 1..Len(p) : N(p)[i].number = p[i]
  BY PathsAreNumbers, NumeralsOfPaths
<1>2. DOMAIN N(p) = 1..Len(p)
  BY <1>1, LenProperties
<1>3. \A i \in 1..Len(p) : p[i] \in 0..7
  BY ElementOfSeq DEF ElementaryStates
<1> QED
  BY <1>1, <1>2, <1>3 DEF Cli!IsTrajectory, Cli!IsState, Cli!Q3_MAX

-----------------------------------------------------------------------------
(* What compare prints of two paths is their comparison.                    *)
LEMMA ComparesAsReference ==
  ASSUME NEW p \in Seq(ElementaryStates), p # <<>>, NEW q \in Seq(ElementaryStates), q # <<>>,
         NEW out, out.stdout = <<[form |-> "text", fields |-> Cli!CompareFields(p, q), besides |-> <<>>]>>
  PROVE  ComparesLike(out, Comparison(p, q))
<1> DEFINE sameEndpoint == EndpointCompression(p) = EndpointCompression(q)
           sameShape == Shape(p) = Shape(q)
           sameDwell == DwellSignature(p) = DwellSignature(q)
           relation == CompareTrajectories(p, q)
           a == Cli!Keys(p)
           b == Cli!Keys(q)
<1>1. Fields(out) = Cli!CompareFields(p, q)
  BY DEF Fields
<1>2. /\ a.shape_key = <<"S3", Shape(p)>> /\ a.dwell_signature = <<"D3", DwellSignature(p)>>
      /\ b.shape_key = <<"S3", Shape(q)>> /\ b.dwell_signature = <<"D3", DwellSignature(q)>>
  BY CliProjects DEF Cli!Keys, Cli!ShapeKey, Cli!DwellSignature
<1> HIDE DEF a, b
<1>3. (a.shape_key = b.shape_key) = sameShape /\ (a.dwell_signature = b.dwell_signature) = sameDwell
  BY <1>2
<1>4. (Cli!ProjectTrajectory(p).endpoint = Cli!ProjectTrajectory(q).endpoint) = sameEndpoint
  BY CliProjects
<1>5. Cli!CompareFields(p, q) =
        [relation |-> Cli!Relation(sameEndpoint, sameShape, sameDwell), path_a |-> a, path_b |-> b,
         flags |-> Cli!Reported(sameEndpoint, sameShape, sameDwell)]
  BY <1>3, <1>4, Zenon DEF Cli!CompareFields, Cli!CompareKeys, a, b
<1>6. Cli!Relation(sameEndpoint, sameShape, sameDwell) = relation
  BY DEF Cli!Relation, CompareTrajectories
<1>7. /\ sameEndpoint = (relation # "different_trajectory")
      /\ (sameEndpoint /\ sameShape) = (relation \in {"equivalent", "same_form_different_duration"})
      /\ ((sameEndpoint /\ sameShape) /\ sameDwell) = (relation = "equivalent")
  BY DEF CompareTrajectories
<1> DEFINE x == relation # "different_trajectory"
           y == relation \in {"equivalent", "same_form_different_duration"}
           z == relation = "equivalent"
<1>8. Comparison(p, q) = [relation |-> relation, same_endpoint |-> x, same_shape |-> y, same_dwell |-> z]
  BY Zenon DEF Comparison
<1> HIDE DEF sameEndpoint, sameShape, sameDwell, relation
<1>9. Cli!Reported(sameEndpoint, sameShape, sameDwell) =
        [same_endpoint |-> x, same_shape |-> y, same_dwell |-> z]
  BY <1>7, Zenon DEF Cli!Reported
<1> HIDE DEF x, y, z
<1> QED
  BY <1>1, <1>5, <1>6, <1>8, <1>9 DEF ComparesLike

-----------------------------------------------------------------------------
LEMMA PlainCommandsRun ==
  ASSUME NEW text \in Commands, NEW rest \in Seq(Tokens), IsPlain(rest)
  PROVE  /\ W(text) \o rest = <<Cli!Word(text)>> \o rest
         /\ W(text) \o rest \in Seq(Tokens) /\ IsPlain(W(text) \o rest)
         /\ Cli!Main(W(text) \o rest) = Cli!Dispatch(Unflagged, text, rest)
<1>1. PICK e, call : e = Cli!Word(text) /\ call = <<e>> \o rest
  OBVIOUS
<1>2. text \in Texts /\ text \notin FormFlags \cup EarlyFlags
  BY DEF Commands, Texts, FormFlags, EarlyFlags
<1>3. e \in Tokens /\ e.text = text
  BY <1>1, <1>2, WordsAreTokens
<1>4. W(text) \o rest = call
  BY <1>1 DEF W
<1>5. call \in Seq(Tokens) /\ call # <<>> /\ Head(call) = e /\ Tail(call) = rest
  BY <1>1, <1>3, CommandLeads
<1>6. IsPlain(call)
  BY <1>1, <1>2, <1>3, LedCallsArePlain
<1>7. Cli!Main(call) = Ran(Unflagged, call)
  BY <1>5, <1>6, PlainCallsRun DEF Unflagged
<1>8. Cli!Main(call) = Cli!Dispatch(Unflagged, text, rest)
  BY <1>3, <1>5, <1>7 DEF Ran
<1> QED
  BY <1>1, <1>4, <1>5, <1>6, <1>8

(* A command of as many words as it takes heeds every other word.           *)
LEMMA CommandsHeedTheirWords ==
  ASSUME NEW text, NEW rest \in Seq(Tokens), IsPlain(rest), FitsCommand(text, rest)
  PROVE  HeedsItsWords(W(text) \o rest)
<1>1. text \in Commands /\ text \in Texts
  BY DEF FitsCommand, Commands, Texts
<1>2. PICK e, call : e = Cli!Word(text) /\ call = <<e>> \o rest
  OBVIOUS
<1>3. e \in Tokens /\ e.text = text
  BY <1>1, <1>2, WordsAreTokens
<1>4. call = W(text) \o rest /\ IsPlain(call)
  BY <1>1, <1>2, PlainCommandsRun
<1> QED
  BY <1>2, <1>3, <1>4, CallsHeedTheirWords

(* A command of no words.                                                   *)
LEMMA LoneCommands ==
  ASSUME NEW text \in {"verify", "batch"}
  PROVE  HeedsItsWords(W(text))
<1>1. <<>> \in Seq(Tokens) /\ Len(<<>>) = 0
  BY EmptySeq
<1>2. IsPlain(<<>>) /\ FitsCommand(text, <<>>)
  BY <1>1 DEF IsPlain, FitsCommand, Commands
<1>3. Cli!Word(text) \in Tokens
  BY WordsAreTokens DEF Texts
<1>4. W(text) \o <<>> = W(text)
  BY <1>3, OneToken, ConcatEmptySeq DEF W
<1>5. HeedsItsWords(W(text) \o <<>>)
  BY <1>1, <1>2, CommandsHeedTheirWords
<1> QED
  BY <1>4, <1>5

-----------------------------------------------------------------------------
\* Without a flag the fields are printed as text.
LEMMA PlainlyPrinted ==
  ASSUME NEW fields, NEW besides
  PROVE  /\ Fields(Cli!RenderedWith(Unflagged, fields, besides)) = fields
         /\ Cli!RenderedWith(Unflagged, fields, besides).stdout
              = <<[form |-> "text", fields |-> fields, besides |-> <<>>]>>
<1>1. PICK ctx : ctx = Unflagged
  OBVIOUS
<1>2. ~ ctx.quiet /\ ~ ctx.json
  BY <1>1 DEF Unflagged, Ctx
<1>3. Cli!RenderedWith(ctx, fields, besides).stdout
        = <<[form |-> "text", fields |-> fields, besides |-> <<>>]>>
  BY <1>2 DEF Cli!RenderedWith, Cli!Printed, Cli!Outcome
<1> QED
  BY <1>1, <1>3 DEF Fields

\* The two ends of a path are the digits of its endpoint code.
LEMMA EndsOfPaths ==
  ASSUME NEW p \in Seq(ElementaryStates), p # <<>>
  PROVE  /\ EndpointCompression(p) \in 0..63
         /\ EndpointCompression(p) \div 8 = Head(p) /\ EndpointCompression(p) % 8 = Last(p)
<1>1. Len(p) \in Nat /\ Len(p) # 0
  BY LenProperties, EmptySeq
<1>2. p[1] \in 0..7 /\ p[Len(p)] \in 0..7
  BY <1>1, ElementOfSeq DEF ElementaryStates
<1>3. Head(p) = p[1] /\ Last(p) = p[Len(p)]
  BY HeadIsFirst DEF Last
<1>4. PICK a \in 0..7, b \in 0..7 : a = Head(p) /\ b = Last(p)
  BY <1>2, <1>3
<1>5. 8 * a + b \in 0..63 /\ (8 * a + b) \div 8 = a /\ (8 * a + b) % 8 = b
  OBVIOUS
<1> QED
  BY <1>4, <1>5 DEF EndpointCompression

(* What compress prints of a path.                                          *)
LEMMA CompressPrints ==
  ASSUME NEW p \in Seq(ElementaryStates), p # <<>>
  PROVE  CompressesLike(Cli!Main(W("compress") \o N(p)), p)
<1>1. PICK out : out = Cli!Main(W("compress") \o N(p))
  OBVIOUS
<1>2. N(p) \in Seq(Tokens) /\ IsPlain(N(p)) /\ Cli!Numbers(N(p)) = p
  BY PathsAreNumbers, NumeralsOfPaths, NumeralsArePlain
<1>3. "compress" \in Commands
  BY DEF Commands
<1>4. PICK ctx : ctx = Unflagged
  OBVIOUS
<1>5. out = Cli!Compress(ctx, N(p))
  <2>1. out = Cli!Dispatch(ctx, "compress", N(p))
    BY <1>1, <1>2, <1>3, <1>4, PlainCommandsRun
  <2> QED
    BY <2>1 DEF Cli!Dispatch
<1>6. Len(p) \in Nat
  BY LenProperties
<1>7. CASE Len(p) < 2
  <2>1. ~ Cli!IsTrajectory(N(p))
    BY <1>6, <1>7, PathsAreTrajectories
  <2>2. out = Cli!UsageError
    BY <1>5, <2>1 DEF Cli!Compress
  <2> QED
    BY <1>1, <1>7, <2>2 DEF CompressesLike
<1>8. CASE Len(p) >= 2
  <2>1. Cli!IsTrajectory(N(p))
    BY <1>8, PathsAreTrajectories
  <2>2. PICK fields : fields = Cli!CompressFields(p)
    OBVIOUS
  <2>3. out = Cli!Rendered(ctx, fields)
    BY <1>2, <1>5, <2>1, <2>2 DEF Cli!Compress
  <2>4. Fields(out) = fields
    BY <1>4, <2>3, PlainlyPrinted DEF Cli!Rendered
  <2>5. PICK row : row = Cli!ProjectTrajectory(p)
    OBVIOUS
  <2>6. /\ row.shape = Shape(p) /\ row.dwell = DwellSignature(p)
        /\ row.net_mutation = NetMutation(p)
        /\ row.cumulative_distance = CumulativeDistance(p)
        /\ row.endpoint = EndpointCompression(p)
    BY <2>5, CliProjects
  <2>7. /\ fields.shape = row.shape /\ fields.dwell = row.dwell
        /\ fields.net_mutation = row.net_mutation
        /\ fields.cumulative_distance = row.cumulative_distance
        /\ fields.endpoint = [source |-> row.endpoint \div 8, target |-> row.endpoint % 8,
                              code |-> row.endpoint]
    BY <2>2, <2>5 DEF Cli!CompressFields
  <2>8. /\ EndpointCompression(p) \div 8 = Head(p) /\ EndpointCompression(p) % 8 = Last(p)
    BY EndsOfPaths
  <2> QED
    BY <1>1, <1>6, <1>8, <2>4, <2>6, <2>7, <2>8 DEF CompressesLike
<1> QED
  BY <1>6, <1>7, <1>8

-----------------------------------------------------------------------------
(* What compare prints of two paths.                                        *)
LEMMA ComparePrints ==
  ASSUME NEW p \in Seq(ElementaryStates), p # <<>>, NEW q \in Seq(ElementaryStates), q # <<>>,
         NEW rest, rest = N(p) \o (W("--") \o N(q)),
         NEW out, out = Cli!Main(W("compare") \o rest)
  PROVE  IF Len(p) < 2 \/ Len(q) < 2 THEN out = Cli!UsageError
         ELSE ComparesLike(out, Comparison(p, q))
<1>1. p \in Seq(Nat) /\ q \in Seq(Nat)
  BY PathsAreNumbers
<1>2. PICK m \in Nat, n \in Nat : m = Len(p) /\ n = Len(q)
  BY LenProperties
<1>3. /\ rest \in Seq(Tokens) /\ IsPlain(rest)
      /\ Cli!PlacesOf(rest, {"--"}) = {m + 1}
      /\ SubSeq(rest, 1, m) = N(p) /\ SubSeq(rest, m + 2, Len(rest)) = N(q)
  BY <1>1, <1>2, SeparatedPaths
<1>4. "compare" \in Commands
  BY DEF Commands
<1>5. PICK ctx : ctx = Unflagged
  OBVIOUS
<1>6. out = Cli!Compare(ctx, rest)
  <2>1. out = Cli!Dispatch(ctx, "compare", rest)
    BY <1>3, <1>4, <1>5, PlainCommandsRun
  <2> QED
    BY <2>1 DEF Cli!Dispatch
<1>7. Cli!Min({m + 1}) = m + 1
  BY DEF Cli!Min
<1>8. (m + 1) - 1 = m /\ (m + 1) + 1 = m + 2
  OBVIOUS
<1> DEFINE guard == Cli!IsTrajectory(N(p)) /\ Cli!IsTrajectory(N(q))
<1>9. Cli!Compare(ctx, rest) =
        IF guard THEN Cli!Rendered(ctx, Cli!CompareFields(Cli!Numbers(N(p)), Cli!Numbers(N(q))))
        ELSE Cli!UsageError
  <2>1. {m + 1} # {}
    OBVIOUS
  <2> QED
    BY <1>3, <1>7, <1>8, <2>1 DEF Cli!Compare
<1>10. Cli!Numbers(N(p)) = p /\ Cli!Numbers(N(q)) = q
  BY <1>1, NumeralsOfPaths
<1>11. guard <=> ~ (m < 2 \/ n < 2)
  BY <1>2, PathsAreTrajectories
<1>12. CASE m < 2 \/ n < 2
  <2>1. out = Cli!UsageError
    BY <1>6, <1>9, <1>11, <1>12
  <2> QED
    BY <1>2, <1>12, <2>1
<1>13. CASE ~ (m < 2 \/ n < 2)
  <2>1. PICK fields : fields = Cli!CompareFields(p, q)
    OBVIOUS
  <2>2. out = Cli!RenderedWith(Unflagged, fields, <<>>)
    BY <1>5, <1>6, <1>9, <1>10, <1>11, <1>13, <2>1, Zenon DEF Cli!Rendered
  <2>3. out.stdout = <<[form |-> "text", fields |-> fields, besides |-> <<>>]>>
    BY <2>2, PlainlyPrinted
  <2>4. ComparesLike(out, Comparison(p, q))
    BY <2>1, <2>3, ComparesAsReference
  <2> QED
    BY <1>2, <1>13, <2>4
<1> QED
  BY <1>12, <1>13

LEMMA JoinedInOrder ==
  ASSUME NEW a \in Seq(Tokens), NEW b \in Seq(Tokens), NEW c \in Seq(Tokens)
  PROVE  (a \o b) \o c = a \o (b \o c)
BY ConcatAssociative

(* Each part of the call is joined to what stands before it.                *)
LEMMA CompareCalls ==
  ASSUME NEW p \in Seq(Nat), NEW q \in Seq(Nat)
  PROVE  W("compare") \o N(p) \o W("--") \o N(q)
           = W("compare") \o (N(p) \o (W("--") \o N(q)))
<1>1. PICK a, b, c, d : a = W("compare") /\ b = N(p) /\ c = W("--") /\ d = N(q)
  OBVIOUS
<1>2. a \in Seq(Tokens) /\ c \in Seq(Tokens)
  BY <1>1, WordsAreTokens, OneToken DEF W, Texts
<1>3. b \in Seq(Tokens) /\ d \in Seq(Tokens)
  BY <1>1, NumeralsOfPaths
<1>4. c \o d \in Seq(Tokens) /\ a \o b \in Seq(Tokens)
  BY <1>2, <1>3, ConcatProperties
<1>5. (a \o b) \o (c \o d) = a \o (b \o (c \o d))
  <2>1. PICK e \in Seq(Tokens) : e = c \o d
    BY <1>4
  <2>2. (a \o b) \o e = a \o (b \o e)
    BY <1>2, <1>3, JoinedInOrder
  <2> QED
    BY <2>1, <2>2
<1>6. ((a \o b) \o c) \o d = (a \o b) \o (c \o d)
  <2>1. PICK e \in Seq(Tokens) : e = a \o b
    BY <1>4
  <2>2. (e \o c) \o d = e \o (c \o d)
    BY <1>2, <1>3, JoinedInOrder
  <2> QED
    BY <2>1, <2>2
<1> QED
  BY <1>1, <1>5, <1>6

-----------------------------------------------------------------------------
(* The number of a state numbered.                                          *)
LEMMA NumbersOfCodes ==
  ASSUME NEW n \in 0..63
  PROVE  Cli!StateNumbered(n) \in Cli!States64 /\ Cli!NumberOf(Cli!StateNumbered(n)) = n
<1>1. PICK S : S = Cli!StateNumbered(n)
  OBVIOUS
<1>2. PICK a \in 0..1, b \in 0..1, c \in 0..1, d \in 0..1, e \in 0..1, f \in 0..1 :
        /\ a = (n \div 32) % 2 /\ b = (n \div 16) % 2 /\ c = (n \div 8) % 2
        /\ d = (n \div 4) % 2 /\ e = (n \div 2) % 2 /\ f = (n \div 1) % 2
  OBVIOUS
<1>3. n = 32 * a + 16 * b + 8 * c + 4 * d + 2 * e + f
  BY <1>2
<1>4. /\ 1 \in S <=> a = 1
      /\ 2 \in S <=> b = 1
      /\ 3 \in S <=> c = 1
      /\ 4 \in S <=> d = 1
      /\ 5 \in S <=> e = 1
      /\ 6 \in S <=> f = 1
  BY <1>1, <1>2 DEF Cli!StateNumbered, Cli!Positions, Cli!Digit, Cli!Weights
<1>5. Cli!NumberOf(S) = 32 * a + 16 * b + 8 * c + 4 * d + 2 * e + f
  BY <1>4 DEF Cli!NumberOf
<1>6. S \in Cli!States64
  BY <1>1 DEF Cli!StateNumbered, Cli!States64
<1> QED
  BY <1>1, <1>3, <1>5, <1>6

LEMMA MaskDistances ==
  ASSUME NEW s \in Cli!States64, NEW t \in Cli!States64, NEW module \in SUBSET Cli!Positions
  PROVE  Cli!ModuleDistance(module, s, t)
           = Cli!Cardinality(Cli!MutationBetween(s, t) \cap module)
<1>1. \A p \in module : ((p \in s) # (p \in t)) <=> p \in Cli!MutationBetween(s, t)
  BY DEF Cli!MutationBetween
<1>2. {p \in module : (p \in s) # (p \in t)} = Cli!MutationBetween(s, t) \cap module
  BY <1>1
<1> QED
  BY <1>2 DEF Cli!ModuleDistance

LEMMA ScopeNames ==
  ASSUME NEW lower \in Nat, NEW upper \in Nat
  PROVE  Cli!MODULE_SCOPE_NAMES[Cli!ScopeFromDistances(lower, upper) + 1]
           = Cli!ModuleScope(lower, upper)
<1>1. CASE lower = 0 /\ upper = 0
  BY <1>1 DEF Cli!MODULE_SCOPE_NAMES, Cli!ModuleScope, Cli!ScopeFromDistances
<1>2. CASE lower > 0 /\ upper = 0
  BY <1>2 DEF Cli!MODULE_SCOPE_NAMES, Cli!ModuleScope, Cli!ScopeFromDistances
<1>3. CASE lower = 0 /\ upper > 0
  BY <1>3 DEF Cli!MODULE_SCOPE_NAMES, Cli!ModuleScope, Cli!ScopeFromDistances
<1>4. CASE lower > 0 /\ upper > 0
  BY <1>4 DEF Cli!MODULE_SCOPE_NAMES, Cli!ModuleScope, Cli!ScopeFromDistances
<1> QED
  BY <1>1, <1>2, <1>3, <1>4

LEMMA RegimeNames ==
  ASSUME NEW distance \in 0..6, NEW lower \in Nat, NEW upper \in Nat
  PROVE  Cli!REGIME_CLASS_NAMES[Cli!RegimeFromDistances(distance, lower, upper) + 1]
           = Cli!RegimeClass(distance, Cli!ModuleScope(lower, upper))
<1>1. PICK scope : scope = Cli!ModuleScope(lower, upper)
  OBVIOUS
<1>2. scope = "both_modules" <=> lower > 0 /\ upper > 0
  BY <1>1 DEF Cli!ModuleScope
<1> DEFINE Goal == Cli!REGIME_CLASS_NAMES[Cli!RegimeFromDistances(distance, lower, upper) + 1]
                     = Cli!RegimeClass(distance, scope)
<1>3. ASSUME distance = 0 PROVE Goal
  BY <1>3 DEF Cli!REGIME_CLASS_NAMES, Cli!RegimeClass, Cli!RegimeFromDistances
<1>4. ASSUME distance = 1 PROVE Goal
  BY <1>4 DEF Cli!REGIME_CLASS_NAMES, Cli!RegimeClass, Cli!RegimeFromDistances
<1>5. ASSUME distance = 2, scope = "both_modules" PROVE Goal
  BY <1>2, <1>5 DEF Cli!REGIME_CLASS_NAMES, Cli!RegimeClass, Cli!RegimeFromDistances
<1>10. ASSUME distance = 2, scope # "both_modules" PROVE Goal
  BY <1>2, <1>10 DEF Cli!REGIME_CLASS_NAMES, Cli!RegimeClass, Cli!RegimeFromDistances
<1>6. ASSUME distance = 3 PROVE Goal
  BY <1>6 DEF Cli!REGIME_CLASS_NAMES, Cli!RegimeClass, Cli!RegimeFromDistances
<1>7. ASSUME distance \in 4..5 PROVE Goal
  BY <1>7 DEF Cli!REGIME_CLASS_NAMES, Cli!RegimeClass, Cli!RegimeFromDistances
<1>8. ASSUME distance = 6 PROVE Goal
  BY <1>8 DEF Cli!REGIME_CLASS_NAMES, Cli!RegimeClass, Cli!RegimeFromDistances
<1>9. Goal
  BY <1>3, <1>4, <1>5, <1>6, <1>7, <1>8, <1>10
<1> QED
  BY <1>1, <1>9

\* What classify prints, of the reference row.
ReportsRow(fields, reference) ==
  /\ fields.module_scope = reference.moduleScope
  /\ fields.regime_class = reference.regimeClass
  /\ fields.distance = reference.distance
  /\ fields.lower_distance = reference.lowerDistance
  /\ fields.upper_distance = reference.upperDistance
  /\ fields.mutation_mask = Cli!NumberOf(reference.mutationMask)

\* The fields that classify prints are those of the reference row.
LEMMA FieldsOfTransitions ==
  ASSUME NEW s \in Cli!States64, NEW t \in Cli!States64, NEW fields,
         fields = Cli!TransitionFields(Cli!Transition64Entry(s, t)),
         NEW reference, reference = Cli!ClassifyPair(s, t)
  PROVE  /\ ReportsRow(fields, reference)
         /\ fields.index = 64 * Cli!NumberOf(s) + Cli!NumberOf(t)
<1>1. PICK mask, lower, upper, distance :
        /\ mask = Cli!MutationBetween(s, t)
        /\ lower = Cli!Cardinality(mask \cap Cli!LowerModule)
        /\ upper = Cli!Cardinality(mask \cap Cli!UpperModule)
        /\ distance = Cli!Cardinality(mask)
  OBVIOUS
<1>2. mask \in SUBSET (1..6)
  BY <1>1 DEF Cli!MutationBetween, Cli!States64, Cli!Positions
<1>3. \A S \in SUBSET (1..6) : Cli!Cardinality(S) \in 0..6
  <2>1. IsFiniteSet(1..6) /\ Cardinality(1..6) = IF 1 > 6 THEN 0 ELSE 6 - 1 + 1
    BY 1 \in Int, 6 \in Int, FS_Interval
  <2>2. IsFiniteSet(1..6) /\ Cardinality(1..6) = 6
    BY <2>1
  <2>3. \A S \in SUBSET (1..6) : IsFiniteSet(S) /\ Cardinality(S) <= 6
    BY <2>2, FS_Subset
  <2>4. \A S : Cli!Cardinality(S) = Cardinality(S)
    BY DEF Cli!Cardinality, Cardinality
  <2> QED
    BY <2>3, <2>4, FS_CardinalityType
<1>4. lower \in Nat /\ upper \in Nat /\ distance \in 0..6
  BY <1>1, <1>2, <1>3
<1>5. /\ Cli!ModuleDistance(Cli!LowerModule, s, t) = lower
      /\ Cli!ModuleDistance(Cli!UpperModule, s, t) = upper
  <2>1. Cli!LowerModule \in SUBSET Cli!Positions /\ Cli!UpperModule \in SUBSET Cli!Positions
    BY DEF Cli!LowerModule, Cli!UpperModule, Cli!Positions
  <2> QED
    BY <1>1, <2>1, MaskDistances
<1>6. Cli!ModuleDistance(Cli!Positions, s, t) = distance
  <2>1. mask \cap Cli!Positions = mask /\ Cli!Positions \in SUBSET Cli!Positions
    BY <1>2 DEF Cli!Positions
  <2> QED
    BY <1>1, <2>1, MaskDistances
<1>7. PICK scope, regime :
        /\ scope = Cli!ModuleScope(lower, upper) /\ regime = Cli!RegimeClass(distance, scope)
  OBVIOUS
<1>8. reference = [mutationMask |-> mask, distance |-> distance, lowerDistance |-> lower,
                   upperDistance |-> upper, moduleScope |-> scope, regimeClass |-> regime]
  BY <1>1, <1>5, <1>6, <1>7 DEF Cli!ClassifyPair
<1>9. PICK entry, row : entry = Cli!Transition64Entry(s, t) /\ row = Cli!RowOf(mask)
  OBVIOUS
<1>10. row = [mutationMask |-> Cli!NumberOf(mask), distance |-> distance,
              lowerDistance |-> lower, upperDistance |-> upper,
              moduleScope |-> Cli!ScopeFromDistances(lower, upper),
              regimeClass |-> Cli!RegimeFromDistances(distance, lower, upper)]
  BY <1>1, <1>9 DEF Cli!RowOf
<1>11. DOMAIN Cli!Slots = {"source", "target", "mutationMask", "distance", "lowerDistance",
                           "upperDistance", "moduleScope", "regimeClass", "index"}
  BY DEF Cli!Slots
<1>12. entry = [f \in {"source", "target", "mutationMask", "distance", "lowerDistance",
                       "upperDistance", "moduleScope", "regimeClass", "index"} |->
                 CASE f = "source" -> Cli!NumberOf(s)
                   [] f = "target" -> Cli!NumberOf(t)
                   [] f = "index"  -> Cli!TransitionIndex(s, t)
                   [] OTHER        -> row[f]]
  BY <1>1, <1>9, <1>11, Zenon DEF Cli!Transition64Entry
<1>13. /\ entry["mutationMask"] = row["mutationMask"] /\ entry["distance"] = row["distance"]
       /\ entry["lowerDistance"] = row["lowerDistance"]
       /\ entry["upperDistance"] = row["upperDistance"]
       /\ entry["moduleScope"] = row["moduleScope"] /\ entry["regimeClass"] = row["regimeClass"]
       /\ entry["index"] = Cli!TransitionIndex(s, t)
  BY <1>12
<1>14. /\ entry.mutationMask = Cli!NumberOf(mask) /\ entry.distance = distance
       /\ entry.lowerDistance = lower /\ entry.upperDistance = upper
       /\ entry.moduleScope = Cli!ScopeFromDistances(lower, upper)
       /\ entry.regimeClass = Cli!RegimeFromDistances(distance, lower, upper)
       /\ entry.index = Cli!TransitionIndex(s, t)
  BY <1>10, <1>13
<1>15. /\ fields.mutation_mask = entry.mutationMask /\ fields.distance = entry.distance
       /\ fields.lower_distance = entry.lowerDistance
       /\ fields.upper_distance = entry.upperDistance /\ fields.index = entry.index
       /\ fields.module_scope = Cli!MODULE_SCOPE_NAMES[entry.moduleScope + 1]
       /\ fields.regime_class = Cli!REGIME_CLASS_NAMES[entry.regimeClass + 1]
  BY <1>9 DEF Cli!TransitionFields
<1>16. fields.module_scope = scope /\ fields.regime_class = regime
  BY <1>4, <1>7, <1>14, <1>15, ScopeNames, RegimeNames
<1> QED
  BY <1>8, <1>14, <1>15, <1>16 DEF Cli!TransitionIndex, ReportsRow

LEMMA CodesAsWords ==
  ASSUME NEW n \in Nat
  PROVE  /\ N(<<n>>) \in Seq(Tokens) /\ IsPlain(N(<<n>>)) /\ Len(N(<<n>>)) = 1
         /\ DOMAIN N(<<n>>) = {1} /\ N(<<n>>)[1].number = n
<1>1. PICK p : p = <<n>>
  OBVIOUS
<1>2. p \in Seq(Nat) /\ Len(p) = 1 /\ p[1] = n
  BY <1>1
<1>3. /\ N(p) \in Seq(Tokens) /\ Len(N(p)) = 1 /\ N(p)[1].number = n /\ IsPlain(N(p))
  BY <1>2, NumeralsOfPaths, NumeralsArePlain
<1>4. DOMAIN N(p) = {1}
  BY <1>3, LenProperties
<1> QED
  BY <1>1, <1>3, <1>4

LEMMA PairsAsWords ==
  ASSUME NEW a \in Nat, NEW b \in Nat
  PROVE  /\ N(<<a, b>>) \in Seq(Tokens) /\ IsPlain(N(<<a, b>>)) /\ Len(N(<<a, b>>)) = 2
         /\ DOMAIN N(<<a, b>>) = {1, 2}
         /\ N(<<a, b>>)[1].number = a /\ N(<<a, b>>)[2].number = b
<1>1. PICK p : p = <<a, b>>
  OBVIOUS
<1>2. p \in Seq(Nat) /\ Len(p) = 2 /\ p[1] = a /\ p[2] = b
  BY <1>1
<1>3. /\ N(p) \in Seq(Tokens) /\ Len(N(p)) = 2 /\ IsPlain(N(p))
      /\ N(p)[1].number = a /\ N(p)[2].number = b
  BY <1>2, NumeralsOfPaths, NumeralsArePlain
<1>4. DOMAIN N(p) = {1, 2}
  BY <1>3, LenProperties
<1> QED
  BY <1>1, <1>3, <1>4

LEMMA LookupPrints ==
  ASSUME NEW index \in 0..Cli!MAX_INDEX
  PROVE  Cli!Main(W("lookup") \o N(<<index>>))
           = Cli!RenderTransition(Unflagged, Cli!LookupTransition(index \div 64, index % 64))
<1>1. PICK ctx, words : ctx = Unflagged /\ words = N(<<index>>)
  OBVIOUS
<1>2. /\ words \in Seq(Tokens) /\ IsPlain(words) /\ Len(words) = 1 /\ words[1].number = index
  <2>1. index \in Nat
    BY DEF Cli!MAX_INDEX
  <2> QED
    BY <1>1, <2>1, CodesAsWords
<1>3. Cli!Main(W("lookup") \o words) = Cli!Dispatch(ctx, "lookup", words)
  <2>1. "lookup" \in Commands
    BY DEF Commands
  <2>2. words \in Seq(Tokens) /\ IsPlain(words)
    BY <1>2
  <2> QED
    BY <1>1, <2>1, <2>2, PlainCommandsRun
<1>4. Cli!Dispatch(ctx, "lookup", words) = Cli!Lookup(ctx, words)
  BY DEF Cli!Dispatch
<1>5. Cli!Lookup(ctx, words)
        = Cli!RenderTransition(ctx, Cli!LookupTransition(index \div 64, index % 64))
  BY <1>2 DEF Cli!Lookup, Cli!IsState, Cli!MAX_INDEX
<1> QED
  BY <1>1, <1>3, <1>4, <1>5

(* classify prints the reference row of two states, and lookup of the index *)
(* it prints prints it again.                                               *)
LEMMA ClassifyPrints ==
  ASSUME NEW a \in 0..63, NEW b \in 0..63
  PROVE  ClassifiesLike(Cli!Main(W("classify") \o N(<<a, b>>)),
                        Cli!ClassifyPair(Cli!StateNumbered(a), Cli!StateNumbered(b)))
<1>1. PICK out, reference :
        /\ out = Cli!Main(W("classify") \o N(<<a, b>>))
        /\ reference = Cli!ClassifyPair(Cli!StateNumbered(a), Cli!StateNumbered(b))
  OBVIOUS
<1>2. PICK s \in Cli!States64, t \in Cli!States64 :
        /\ s = Cli!StateNumbered(a) /\ t = Cli!StateNumbered(b)
        /\ Cli!NumberOf(s) = a /\ Cli!NumberOf(t) = b
  BY NumbersOfCodes
<1>3. PICK ctx : ctx = Unflagged
  OBVIOUS
<1>4. "classify" \in Commands
  BY DEF Commands
<1>5. PICK pair : pair = N(<<a, b>>)
  OBVIOUS
<1>6. /\ pair \in Seq(Tokens) /\ IsPlain(pair) /\ Len(pair) = 2 /\ DOMAIN pair = {1, 2}
      /\ pair[1].number = a /\ pair[2].number = b
  <2>1. a \in Nat /\ b \in Nat
    OBVIOUS
  <2> QED
    BY <1>5, <2>1, PairsAsWords
<1>7. out = Cli!RenderTransition(ctx, Cli!LookupTransition(a, b))
  <2>1. out = Cli!Dispatch(ctx, "classify", pair)
    BY <1>1, <1>3, <1>4, <1>5, <1>6, PlainCommandsRun
  <2>2. out = Cli!Classify(ctx, pair)
    BY <2>1 DEF Cli!Dispatch
  <2> QED
    BY <1>6, <2>2 DEF Cli!Classify, Cli!IsState, Cli!Q6_MAX
<1>8. PICK fields, entry : /\ entry = Cli!Transition64Entry(s, t)
                           /\ fields = Cli!TransitionFields(entry)
  OBVIOUS
<1>9. Fields(out) = fields
  <2>1. out = Cli!RenderedWith(Unflagged, fields, <<entry.regimeClass>>)
    BY <1>2, <1>3, <1>7, <1>8 DEF Cli!RenderTransition, Cli!LookupTransition
  <2> QED
    BY <2>1, PlainlyPrinted
<1>10. reference = Cli!ClassifyPair(s, t)
  BY <1>1, <1>2
<1>11. ReportsRow(fields, reference) /\ fields.index = 64 * a + b
  <2>1. fields = Cli!TransitionFields(Cli!Transition64Entry(s, t))
    BY <1>8
  <2>2. ReportsRow(fields, reference)
    BY <1>10, <2>1, FieldsOfTransitions
  <2>3. fields.index = 64 * Cli!NumberOf(s) + Cli!NumberOf(t)
    BY <1>10, <2>1, FieldsOfTransitions
  <2> QED
    BY <1>2, <2>2, <2>3
<1>12. PICK index \in 0..Cli!MAX_INDEX :
         index = 64 * a + b /\ index \div 64 = a /\ index % 64 = b
  <2>1. 64 * a + b \in Nat /\ 64 * a + b <= 4095
    OBVIOUS
  <2>2. (64 * a + b) \div 64 = a /\ (64 * a + b) % 64 = b
    OBVIOUS
  <2>3. 64 * a + b \in 0..Cli!MAX_INDEX
    BY <2>1 DEF Cli!MAX_INDEX
  <2> QED
    BY <2>2, <2>3
<1>13. Cli!Main(W("lookup") \o N(<<index>>)) = out
  <2>1. Cli!LookupTransition(index \div 64, index % 64) = Cli!LookupTransition(a, b)
    BY <1>12, Zenon
  <2>2. Cli!Main(W("lookup") \o N(<<index>>))
          = Cli!RenderTransition(ctx, Cli!LookupTransition(index \div 64, index % 64))
    BY <1>3, LookupPrints
  <2> QED
    BY <1>7, <2>1, <2>2
<1> QED
  BY <1>1, <1>9, <1>11, <1>12, <1>13 DEF ClassifiesLike, ReportsRow

-----------------------------------------------------------------------------
LEMMA ReversedPaths ==
  ASSUME NEW p \in Seq(ElementaryStates), p # <<>>
  PROVE  Reverse(p) \in Seq(ElementaryStates) /\ Reverse(p) # <<>>
<1>1. PICK n \in Nat : n = Len(p) /\ n # 0
  BY LenProperties, EmptySeq
<1>2. \A i \in 1..n : n - i + 1 \in 1..n /\ p[n - i + 1] \in ElementaryStates
  BY <1>1, ElementOfSeq
<1>3. PICK r : r = [i \in 1..n |-> p[n - i + 1]]
  OBVIOUS
<1>4. r = Reverse(p)
  BY <1>1, <1>3 DEF Reverse
<1>5. r \in [1..n -> ElementaryStates]
  BY <1>2, <1>3
<1>6. r \in Seq(ElementaryStates) /\ Len(r) = n
  BY <1>5, IsASeq
<1> QED
  BY <1>1, <1>4, <1>6, EmptySeq

(* Every call heeds its words, whatever the path.                           *)
LEMMA EveryCallHeeds ==
  ASSUME NEW p \in Seq(ElementaryStates), NEW a \in 0..63, NEW b \in 0..63,
         NEW call \in {W("compress") \o N(p), W("compare") \o N(p) \o W("--") \o N(p),
                       W("classify") \o N(<<a, b>>), W("lookup") \o N(<<64 * a + b>>),
                       W("verify"), W("batch"), <<>>}
  PROVE  HeedsItsWords(call)
<1>1. p \in Seq(Nat)
  BY PathsAreNumbers
<1>2. HeedsItsWords(W("compress") \o N(p))
  <2>1. N(p) \in Seq(Tokens) /\ IsPlain(N(p))
    BY <1>1, NumeralsOfPaths, NumeralsArePlain
  <2>2. FitsCommand("compress", N(p))
    BY DEF FitsCommand, Commands
  <2> QED
    BY <2>1, <2>2, CommandsHeedTheirWords
<1>3. HeedsItsWords(W("compare") \o N(p) \o W("--") \o N(p))
  <2>1. PICK rest : rest = N(p) \o (W("--") \o N(p))
    OBVIOUS
  <2>2. rest \in Seq(Tokens) /\ IsPlain(rest)
    BY <1>1, <2>1, SeparatedPaths
  <2>3. FitsCommand("compare", rest)
    BY DEF FitsCommand, Commands
  <2>4. HeedsItsWords(W("compare") \o rest)
    BY <2>2, <2>3, CommandsHeedTheirWords
  <2>5. W("compare") \o N(p) \o W("--") \o N(p) = W("compare") \o rest
    BY <1>1, <2>1, CompareCalls
  <2> QED
    BY <2>4, <2>5
<1>4. HeedsItsWords(W("classify") \o N(<<a, b>>))
  <2>1. a \in Nat /\ b \in Nat
    OBVIOUS
  <2>2. PICK rest : rest = N(<<a, b>>)
    OBVIOUS
  <2>3. rest \in Seq(Tokens) /\ IsPlain(rest) /\ Len(rest) = 2
    BY <2>1, <2>2, PairsAsWords
  <2>4. FitsCommand("classify", rest)
    BY <2>3 DEF FitsCommand, Commands
  <2> QED
    BY <2>2, <2>3, <2>4, CommandsHeedTheirWords
<1>5. HeedsItsWords(W("lookup") \o N(<<64 * a + b>>))
  <2>1. PICK index \in Nat : index = 64 * a + b
    OBVIOUS
  <2>2. PICK rest : rest = N(<<index>>)
    OBVIOUS
  <2>3. rest \in Seq(Tokens) /\ IsPlain(rest) /\ Len(rest) = 1
    BY <2>2, CodesAsWords
  <2>4. FitsCommand("lookup", rest)
    BY <2>3 DEF FitsCommand, Commands
  <2>5. HeedsItsWords(W("lookup") \o rest)
    BY <2>3, <2>4, CommandsHeedTheirWords
  <2> QED
    BY <2>1, <2>2, <2>5
<1>6. HeedsItsWords(W("verify")) /\ HeedsItsWords(W("batch"))
  BY LoneCommands
<1>7. HeedsItsWords(<<>>)
  BY EmptyCallHeeds
<1> QED
  BY <1>2, <1>3, <1>4, <1>5, <1>6, <1>7, Zenon

(* The command line of two paths.                                           *)
LEMMA CommandLineOfPaths ==
  ASSUME BothInv
  PROVE  CommandLineAgrees
<1>1. PICK p, q : p = left /\ q = right
  OBVIOUS
<1>2. /\ p \in Seq(ElementaryStates) /\ p # <<>>
      /\ q \in Seq(ElementaryStates) /\ q # <<>>
  BY <1>1, PathsAreElementary DEF BothInv
<1>3. p \in Seq(Nat) /\ q \in Seq(Nat)
  BY <1>2, PathsAreNumbers
<1>4. PICK out : out = Cli!Main(W("compare") \o N(p) \o W("--") \o N(q))
  OBVIOUS
<1>5. IF Len(p) < 2 \/ Len(q) < 2 THEN out = Cli!UsageError
      ELSE ComparesLike(out, Comparison(p, q))
  <2>1. PICK rest : rest = N(p) \o (W("--") \o N(q))
    OBVIOUS
  <2>2. out = Cli!Main(W("compare") \o rest)
    BY <1>3, <1>4, <2>1, CompareCalls
  <2> QED
    BY <1>2, <2>1, <2>2, ComparePrints
<1>6. CompressesLike(Cli!Main(W("compress") \o N(p)), p)
  BY <1>2, CompressPrints
<1>7. PICK a \in 0..63, b \in 0..63 :
        a = EndpointCompression(p) /\ b = EndpointCompression(Reverse(p))
  BY <1>2, ReversedPaths, EndsOfPaths
<1>8. ClassifiesLike(Cli!Main(W("classify") \o N(<<a, b>>)),
                     Cli!ClassifyPair(Cli!StateNumbered(a), Cli!StateNumbered(b)))
  BY ClassifyPrints
<1>9. Calls = {W("compress") \o N(p), W("compare") \o N(p) \o W("--") \o N(p),
               W("classify") \o N(<<a, b>>), W("lookup") \o N(<<64 * a + b>>),
               W("verify"), W("batch"), <<>>}
  BY <1>1, <1>7 DEF Calls
<1>10. \A call \in Calls : HeedsItsWords(call)
  BY <1>2, <1>9, EveryCallHeeds
<1> QED
  BY <1>1, <1>4, <1>5, <1>6, <1>7, <1>8, <1>10, Zenon DEF CommandLineAgrees

(* CommandLineAgrees, about main() and the handlers of packages/cli: for    *)
(* paths of every length and content, compare, compress, classify and       *)
(* lookup print what the reference computes; and wherever a flag is put it  *)
(* changes neither exit code nor data, and a stray word is an error.        *)
THEOREM CommandLineIsTheReference == BothSpec => []CommandLineAgrees
<1>1. BothInv => CommandLineAgrees
  BY CommandLineOfPaths
<1> QED
  BY <1>1, BothInvariant, PTL
=============================================================================
