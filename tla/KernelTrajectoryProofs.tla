----------------------- MODULE KernelTrajectoryProofs -----------------------
(***************************************************************************)
(* The properties of a shared trajectory for every list of states, every   *)
(* set of rules, and any number of callers and events.  The first          *)
(* invariant is of rules that compile: it says of each result that is held *)
(* or committed how it came about (Sound); that a stale one can be         *)
(* committed only where it fits then follows from the head being the state *)
(* its parameters derive; and every commit takes an edge of the declared   *)
(* graph.  The second (HistoryInv) is of any rules: the snapshots that     *)
(* results start from had been reached, and the events account for what    *)
(* distinguishes each of them from the first.  The third (ResultsInv) adds *)
(* that snapshots are maps, so that a change of magnitude 0 is none; what  *)
(* policies are resolved follows from the places of a sorted list.         *)
(***************************************************************************)
EXTENDS KernelTrajectory, FiniteSetTheorems, SequenceTheorems, WellFoundedInduction, TLAPS

\* What compileDeclaredStateGraph() demands, of states that have ids.
RulesCompile ==
  /\ Compiles(StateDefs, Rules)
  /\ \A d \in Elements(StateDefs) : Declared(d.id)

Derived(parameters) == SelectedState(StateDefs, parameters)

\* A result that was accepted followed a rule between derived states.
Follows(t, r) ==
  /\ t.ruleId = r.id
  /\ t.sourceStateId \in r.sourceStateIds
  /\ t.targetStateId = r.targetStateId
  /\ t.authority \in r.allowedAuthorities

Sound(t) ==
  /\ t.sourceStateId = Derived(t.before)
  /\ t.targetStateId = Derived(t.after)
  /\ Declared(t.targetStateId)
  /\ \E r \in Rules : Follows(t, r)

HeldInv ==
  /\ held = [c \in Callers |-> held[c]]
  /\ \A c \in Callers : Declared(held[c]) /\ held[c].accepted => Sound(held[c])

StartInv ==
  /\ trajectory = [initialParameters |-> trajectory.initialParameters,
                   initialStateId |-> trajectory.initialStateId,
                   events |-> trajectory.events]
  /\ trajectory.initialStateId = Derived(trajectory.initialParameters)

EventsAreListed == \E S : trajectory.events \in Seq(S)

EventsInv ==
  /\ EventsAreListed
  /\ \A i \in 1..Len(trajectory.events) : Sound(trajectory.events[i])

TrajectoryInv == HeldInv /\ StartInv /\ EventsInv /\ Connected

(* A rule of a graph that compiles declares both of its ends. *)
LEMMA CompiledRulesDeclareEnds ==
  ASSUME RulesCompile, NEW r \in Rules
  PROVE  Declared(r.targetStateId) /\ Declared(r.sourceStateIds)
<1>1. r.targetStateId \in {d.id : d \in Elements(StateDefs)} /\ r.sourceStateIds # Null
  BY DEF RulesCompile, Compiles
<1> QED
  BY <1>1 DEF RulesCompile, Declared

(* The head of a trajectory is the state its parameters derive: no event    *)
(* has a null target that would put it back to the initial state.           *)
LEMMA HeadIsDerived ==
  ASSUME StartInv, EventsInv
  PROVE  CurrentStateId(trajectory) = Derived(CurrentParameters(trajectory))
<1>1. PICK S : trajectory.events \in Seq(S)
  BY DEF EventsInv, EventsAreListed
<1>2. CASE trajectory.events = <<>>
  BY <1>2 DEF StartInv, CurrentStateId, CurrentParameters
<1>3. CASE trajectory.events # <<>>
  <2>1. Len(trajectory.events) \in 1..Len(trajectory.events)
    BY <1>1, <1>3, EmptySeq
  <2>2. Sound(Last(trajectory.events))
    BY <2>1 DEF EventsInv, Last
  <2> QED
    BY <1>3, <2>2 DEF Sound, CurrentStateId, CurrentParameters
<1> QED
  BY <1>2, <1>3

(* What an attempt from a derived state leads to is sound, once accepted.   *)
LEMMA EvaluationIsSound ==
  ASSUME RulesCompile, NEW r \in Rules, NEW a, NEW p
  PROVE  LET t == EvaluateTransition(r, [ruleId |-> r.id, sourceStateId |-> Derived(p),
                                         authority |-> a, parameters |-> p], StateDefs)
         IN  t.accepted => Sound(t)
<1> DEFINE attempt == [ruleId |-> r.id, sourceStateId |-> Derived(p), authority |-> a,
                       parameters |-> p]
           t == EvaluateTransition(r, attempt, StateDefs)
<1> SUFFICES ASSUME t.accepted PROVE Sound(t)
  OBVIOUS
<1>1. Admits(r, attempt) /\ ReachesTarget(r, attempt, StateDefs)
  BY DEF EvaluateTransition
<1>2. /\ t.ruleId = r.id /\ t.authority = a /\ t.before = p /\ t.sourceStateId = Derived(p)
      /\ t.targetStateId = Derived(t.after)
      /\ t.targetStateId = TargetOf(r, attempt, StateDefs)
  BY <1>1 DEF EvaluateTransition, TargetOf, Derived
<1>3. Declared(r.targetStateId) /\ Declared(r.sourceStateIds)
  BY CompiledRulesDeclareEnds
<1>4. t.targetStateId = r.targetStateId
  BY <1>1, <1>2, <1>3 DEF ReachesTarget
<1>5. a \in r.allowedAuthorities /\ Derived(p) \in r.sourceStateIds
  BY <1>1, <1>3 DEF Admits
<1> HIDE DEF t
<1>6. Follows(t, r)
  BY <1>2, <1>4, <1>5 DEF Follows
<1> QED
  BY <1>2, <1>3, <1>4, <1>6 DEF Sound

LEMMA TrajectoryInit == Init => TrajectoryInv
<1> SUFFICES ASSUME Init PROVE TrajectoryInv
  OBVIOUS
<1>1. PICK p \in Initial : trajectory = CreateTrajectory(p)
  BY DEF Init
<1>2. HeldInv
  BY DEF Init, HeldInv, Declared
<1>3. StartInv /\ trajectory.events = <<>>
  BY <1>1 DEF StartInv, CreateTrajectory, Derived
<1>4. <<>> \in Seq({}) /\ Len(<<>>) = 0 /\ DOMAIN <<>> = {}
  BY EmptySeq
<1> QED
  BY <1>2, <1>3, <1>4 DEF TrajectoryInv, EventsInv, EventsAreListed, Connected

LEMMA EvaluateKeepsInv ==
  ASSUME RulesCompile, TrajectoryInv, NEW caller \in Callers, Evaluate(caller)
  PROVE  TrajectoryInv'
<1> DEFINE p == CurrentParameters(trajectory)
<1>1. PICK r \in Rules, a \in Authorities, s \in {CurrentStateId(trajectory), Derived(p)} :
        held' = [held EXCEPT ![caller] = EvaluateTransition(r,
                   [ruleId |-> r.id, sourceStateId |-> s, authority |-> a, parameters |-> p],
                   StateDefs)]
  BY DEF Evaluate, Derived
<1>2. s = Derived(p)
  BY HeadIsDerived DEF TrajectoryInv
<1> HIDE DEF p
<1>3. HeldInv'
  <2>1. held' = [c \in Callers |-> held'[c]]
    BY <1>1 DEF TrajectoryInv, HeldInv
  <2>2. ASSUME NEW c \in Callers, Declared(held'[c]), held'[c].accepted PROVE Sound(held'[c])
    <3>1. CASE c = caller
      BY <1>1, <1>2, <2>2, <3>1, EvaluationIsSound DEF TrajectoryInv, HeldInv
    <3>2. CASE c # caller
      BY <1>1, <2>2, <3>2 DEF TrajectoryInv, HeldInv
    <3> QED
      BY <3>1, <3>2
  <2> QED
    BY <2>1, <2>2 DEF HeldInv
<1>4. StartInv' /\ EventsInv' /\ Connected'
  BY DEF Evaluate, TrajectoryInv, StartInv, EventsInv, EventsAreListed, Connected
<1> QED
  BY <1>3, <1>4 DEF TrajectoryInv

(* What committing does to the list of events. *)
LEMMA CommitAppends ==
  ASSUME StartInv, EventsAreListed, NEW caller \in Callers, Commit(caller)
  PROVE  LET events == trajectory.events
         IN  /\ trajectory' = [initialParameters |-> trajectory.initialParameters,
                               initialStateId |-> trajectory.initialStateId,
                               events |-> Append(events, held[caller])]
             /\ Len(events) \in Nat
             /\ DOMAIN events = 1..Len(events)
             /\ Len(trajectory'.events) = Len(events) + 1
             /\ DOMAIN trajectory'.events = 1..(Len(events) + 1)
             /\ \A i \in 1..Len(events) : trajectory'.events[i] = events[i]
             /\ trajectory'.events[Len(events) + 1] = held[caller]
             /\ EventsAreListed'
<1> DEFINE events == trajectory.events
<1>1. PICK S : events \in Seq(S)
  BY DEF EventsAreListed
<1>2. trajectory' = [initialParameters |-> trajectory.initialParameters,
                     initialStateId |-> trajectory.initialStateId,
                     events |-> Append(events, held[caller])]
  BY DEF StartInv, Commit, AppendTransition
<1> DEFINE T == S \cup {held[caller]}
<1>3. events \in Seq(T) /\ held[caller] \in T
  BY <1>1, SeqMonotonic
<1> HIDE DEF T, events
<1>4. /\ Append(events, held[caller]) \in Seq(T)
      /\ Len(Append(events, held[caller])) = Len(events) + 1
      /\ \A i \in 1..Len(events) : Append(events, held[caller])[i] = events[i]
      /\ Append(events, held[caller])[Len(events) + 1] = held[caller]
      /\ Len(events) \in Nat /\ DOMAIN events = 1..Len(events)
      /\ DOMAIN Append(events, held[caller]) = 1..(Len(events) + 1)
  BY <1>3, AppendProperties, LenProperties
<1>5. trajectory'.events = Append(events, held[caller])
  BY <1>2
<1> QED
  BY <1>2, <1>4, <1>5 DEF events, EventsAreListed

LEMMA CommitKeepsInv ==
  ASSUME TrajectoryInv, NEW caller \in Callers, Commit(caller)
  PROVE  TrajectoryInv'
<1> DEFINE events == trajectory.events
           n == Len(events)
<1>1. /\ StartInv' /\ n \in Nat /\ Len(trajectory'.events) = n + 1
      /\ DOMAIN events = 1..n /\ DOMAIN trajectory'.events = 1..(n + 1)
      /\ \A i \in 1..n : trajectory'.events[i] = events[i]
      /\ trajectory'.events[n + 1] = held[caller]
      /\ EventsAreListed'
      /\ trajectory'.initialStateId = trajectory.initialStateId
  BY CommitAppends DEF TrajectoryInv, StartInv, EventsInv
<1>2. Sound(held[caller])
  BY DEF Commit, AdmitsTransition, TrajectoryInv, HeldInv
<1>3. HeldInv'
  BY DEF Commit, TrajectoryInv, HeldInv
<1>4. EventsInv'
  <2>1. ASSUME NEW i \in 1..(n + 1) PROVE Sound(trajectory'.events[i])
    <3>1. CASE i = n + 1
      BY <1>1, <1>2, <3>1
    <3>2. CASE i \in 1..n
      BY <1>1, <3>2 DEF TrajectoryInv, EventsInv
    <3> QED
      BY <1>1, <3>1, <3>2
  <2> QED
    BY <1>1, <2>1 DEF EventsInv
<1>5. Connected'
  <2>1. ASSUME NEW i \in 1..(n + 1)
        PROVE  trajectory'.events[i].sourceStateId =
                   IF i = 1 THEN trajectory.initialStateId
                   ELSE trajectory'.events[i - 1].targetStateId
    <3>1. CASE i \in 1..n
      <4>1. trajectory.events[i].sourceStateId =
              IF i = 1 THEN trajectory.initialStateId ELSE trajectory.events[i - 1].targetStateId
        BY <1>1, <3>1 DEF TrajectoryInv, Connected
      <4>2. i # 1 => i - 1 \in 1..n
        BY <1>1, <3>1
      <4> QED
        BY <1>1, <3>1, <4>1, <4>2
    <3>2. CASE i = n + 1
      <4>1. held[caller].sourceStateId = CurrentStateId(trajectory)
        BY DEF Commit, AdmitsTransition
      <4>2. CASE n = 0
        <5>1. events = <<>>
          BY <4>2, EmptySeq DEF TrajectoryInv, EventsInv, EventsAreListed
        <5> QED
          BY <1>1, <3>2, <4>1, <4>2, <5>1 DEF CurrentStateId
      <4>3. CASE n # 0
        <5>1. n \in 1..n /\ events # <<>>
          BY <1>1, <4>3, EmptySeq
        <5>2. Sound(events[n])
          BY <5>1 DEF TrajectoryInv, EventsInv
        <5>3. CurrentStateId(trajectory) = events[n].targetStateId
          BY <5>1, <5>2 DEF CurrentStateId, Last, Sound
        <5> QED
          BY <1>1, <3>2, <4>1, <4>3, <5>1, <5>3
      <4> QED
        BY <4>2, <4>3
    <3> QED
      BY <1>1, <3>1, <3>2
  <2> QED
    BY <1>1, <2>1 DEF Connected
<1> QED
  BY <1>1, <1>3, <1>4, <1>5 DEF TrajectoryInv

(* TrajectoryInv is inductive, whatever order callers act in. *)
THEOREM TrajectoryInvariant == ASSUME RulesCompile PROVE Spec => []TrajectoryInv
<1>1. TrajectoryInv /\ [Next]_vars => TrajectoryInv'
  <2> SUFFICES ASSUME TrajectoryInv, [Next]_vars PROVE TrajectoryInv'
    OBVIOUS
  <2>1. CASE Next
    BY <2>1, EvaluateKeepsInv, CommitKeepsInv DEF Next
  <2>2. CASE UNCHANGED vars
    BY <2>2 DEF vars, TrajectoryInv, HeldInv, StartInv, EventsInv, EventsAreListed, Connected
  <2> QED
    BY <2>1, <2>2
<1> QED
  BY <1>1, TrajectoryInit, PTL DEF Spec

(* Both ends of every committed transition, and the head, are the states    *)
(* that the snapshots select.                                               *)
THEOREM TrajectoryEndsAreDerived == ASSUME RulesCompile PROVE Spec => []EndsAreDerived
<1>1. TrajectoryInv => EndsAreDerived
  <2> SUFFICES ASSUME TrajectoryInv PROVE EndsAreDerived
    OBVIOUS
  <2>1. CurrentStateId(trajectory) = SelectedState(StateDefs, CurrentParameters(trajectory))
    BY HeadIsDerived DEF TrajectoryInv, Derived
  <2>2. DOMAIN trajectory.events = 1..Len(trajectory.events)
    BY LenProperties DEF TrajectoryInv, EventsInv, EventsAreListed
  <2>3. \A e \in Elements(trajectory.events) : Sound(e)
    BY <2>2 DEF TrajectoryInv, EventsInv, Elements
  <2> QED
    BY <2>1, <2>3 DEF EndsAreDerived, Sound, Derived
<1> QED
  BY <1>1, TrajectoryInvariant, PTL

(* With rules that declare their targets no step is out of place: what      *)
(* rules without them break (run state_gap).                                *)
THEOREM TrajectoryConnected == ASSUME RulesCompile PROVE Spec => []Connected
<1>1. TrajectoryInv => Connected
  BY DEF TrajectoryInv
<1> QED
  BY <1>1, TrajectoryInvariant, PTL

-----------------------------------------------------------------------------
\* A committed event as a step of the walk.
EdgeOf(e) ==
  [ruleId |-> e.ruleId, sourceStateId |-> e.sourceStateId, targetStateId |-> e.targetStateId,
   allowedAuthorities |-> Rule(e.ruleId).allowedAuthorities]

StepOf(e) == [edge |-> EdgeOf(e), authority |-> e.authority]

Walked(events) == [i \in DOMAIN events |-> StepOf(events[i])]

(* A sound result takes an edge of the declared graph, under an authority   *)
(* the edge allows.                                                         *)
LEMMA SoundResultsTakeEdges ==
  ASSUME NEW t, Sound(t)
  PROVE  EdgeOf(t) \in DeclaredEdges(Rules) /\ t.authority \in EdgeOf(t).allowedAuthorities
<1>1. PICK r \in Rules : Follows(t, r)
  BY DEF Sound
<1>2. Rule(t.ruleId) = r
  BY <1>1, RuleIdsAreUnique DEF Rule, Follows
<1> DEFINE edges(q) == {[ruleId |-> q.id, sourceStateId |-> s, targetStateId |-> q.targetStateId,
                         allowedAuthorities |-> q.allowedAuthorities] : s \in q.sourceStateIds}
<1>3. EdgeOf(t) \in edges(r)
  BY <1>1, <1>2 DEF Follows, EdgeOf
<1>4. edges(r) \subseteq DeclaredEdges(Rules)
  BY DEF DeclaredEdges
<1>5. t.authority \in EdgeOf(t).allowedAuthorities
  BY <1>1, <1>2 DEF Follows, EdgeOf
<1> QED
  BY <1>3, <1>4, <1>5

(* One more event is one more step walked. *)
LEMMA WalkedGrows ==
  ASSUME NEW events, NEW later, NEW t, Len(events) \in Nat, DOMAIN events = 1..Len(events),
         DOMAIN later = 1..(Len(events) + 1),
         \A i \in 1..Len(events) : later[i] = events[i],
         later[Len(events) + 1] = t
  PROVE  Walked(later) = Append(Walked(events), StepOf(t))
<1> DEFINE n == Len(events)
<1>1. DOMAIN Walked(events) = 1..n /\ DOMAIN Walked(later) = 1..(n + 1)
  BY DEF Walked
<1> DEFINE w == Walked(events)
           x == StepOf(t)
           S == {StepOf(events[i]) : i \in 1..n} \cup {x}
<1>2. w \in Seq(S) /\ Len(w) = n /\ x \in S
  BY DEF Walked
<1>3. ASSUME NEW i \in 1..(n + 1)
      PROVE  Walked(later)[i] \in S /\ Walked(later)[i] = IF i = n + 1 THEN x ELSE w[i]
  BY DEF Walked
<1>4. Walked(later) \in Seq(S) /\ Len(Walked(later)) = n + 1
  BY <1>3, <1>1 DEF Walked
<1> HIDE DEF w, x, S
<1>5. Append(w, x) \in Seq(S) /\ Len(Append(w, x)) = n + 1
      /\ \A i \in 1..(n + 1) : Append(w, x)[i] = IF i = n + 1 THEN x ELSE w[i]
  BY <1>2, AppendProperties
<1>6. Walked(later) = Append(w, x)
  BY <1>3, <1>4, <1>5, SeqEqual
<1> QED
  BY <1>6 DEF w, x

LEMMA CommitWalksAnEdge ==
  ASSUME TrajectoryInv, NEW caller \in Callers, Commit(caller)
  PROVE  Walk!Next
<1> DEFINE t == held[caller]
<1>1. Sound(t)
  BY DEF Commit, AdmitsTransition, TrajectoryInv, HeldInv
<1>2. EdgeOf(t) \in DeclaredEdges(Rules) /\ t.authority \in EdgeOf(t).allowedAuthorities
  BY <1>1, SoundResultsTakeEdges
<1>3. EdgeOf(t).sourceStateId = CurrentStateId(trajectory)
  BY DEF EdgeOf, Commit, AdmitsTransition
<1>4. CurrentStateId(trajectory)' = EdgeOf(t).targetStateId
  <2>1. trajectory'.events # <<>> /\ Last(trajectory'.events) = t
    BY CommitAppends, EmptySeq DEF TrajectoryInv, EventsInv, EventsAreListed, Last
  <2> QED
    BY <1>1, <2>1 DEF CurrentStateId, EdgeOf, Sound
<1>5. Walked(trajectory'.events) = Append(Walked(trajectory.events), StepOf(t))
  BY CommitAppends, WalkedGrows DEF TrajectoryInv, EventsInv
<1> DEFINE e == EdgeOf(t)
           a == t.authority
<1>6. StepOf(t) = [edge |-> e, authority |-> a]
  BY DEF StepOf
<1> HIDE DEF t, e, a
<1> QED
  BY <1>2, <1>3, <1>4, <1>5, <1>6 DEF Walk!Next, Walk!Step, Walked, StepOf, EdgeOf

(* The trajectory implements the walk of the declared graph. *)
THEOREM TrajectoryWalksDeclaredGraph ==
  ASSUME RulesCompile PROVE Spec => WalksDeclaredGraph
<1> DEFINE walkVars == <<CurrentStateId(trajectory), Walked(trajectory.events)>>
<1>1. Init => Walk!Init
  BY DEF Init, CreateTrajectory, Walk!Init
<1>2. TrajectoryInv /\ [Next]_vars => [Walk!Next]_walkVars
  <2> SUFFICES ASSUME TrajectoryInv, [Next]_vars PROVE Walk!Next \/ UNCHANGED walkVars
    OBVIOUS
  <2>1. ASSUME UNCHANGED trajectory PROVE UNCHANGED walkVars
    BY <2>1 DEF CurrentStateId, Walked, StepOf, EdgeOf, Rule
  <2> QED
    BY <2>1, CommitWalksAnEdge DEF Next, Evaluate, vars
<1> QED
  BY <1>1, <1>2, TrajectoryInvariant, PTL
  DEF Spec, WalksDeclaredGraph, Walk!Spec, Walked, StepOf, EdgeOf


-----------------------------------------------------------------------------
(* A set of numbers that holds a number has a least one.                    *)
LEMMA LeastNatural ==
  ASSUME NEW S \in SUBSET Nat, S # {}
  PROVE  \E n \in S : \A m \in S : n <= m
<1> DEFINE R == OpToRel(<, Nat)
<1>1. \A x, y \in Nat : <<x, y>> \in R <=> x < y
  BY DEF OpToRel
<1>2. IsWellFoundedOn(R, Nat)
  BY NatLessThanWellFounded
<1> HIDE DEF R
<1>3. PICK n \in S : \A m \in S : ~ (<<m, n>> \in R)
  BY <1>2, WFMin
<1>4. ASSUME NEW m \in S PROVE n <= m
  <2>1. m \in Nat /\ n \in Nat /\ ~ (<<m, n>> \in R)
    BY <1>3
  <2>2. ~ (m < n)
    BY <1>1, <2>1
  <2> QED
    BY <2>1, <2>2
<1> QED
  BY <1>4

(* Induction over the numbers, as a fact about a set of them.               *)
LEMMA NatSetInduction ==
  ASSUME NEW S, 0 \in S, \A n \in Nat : n \in S => n + 1 \in S
  PROVE  Nat \subseteq S
<1> SUFFICES ASSUME Nat \ S # {} PROVE FALSE
  OBVIOUS
<1>1. PICK n \in Nat \ S : \A m \in Nat \ S : n <= m
  BY LeastNatural
<1>2. n # 0 /\ n - 1 \in Nat /\ n - 1 \notin Nat \ S
  BY <1>1
<1> QED
  BY <1>1, <1>2

-----------------------------------------------------------------------------
(* Where every weight is one, the total counts.                             *)
LEMMA UnitTotal ==
  ASSUME NEW weighted, NEW n \in Nat, DOMAIN weighted = 1..n, Len(weighted) = n,
         \A i \in 1..n : weighted[i].weight = 1, NEW counted \in SUBSET (1..n)
  PROVE  TotalWeight(weighted, counted) = Cardinality(counted)
<1> DEFINE Body(g) == [i \in 0..n |->
                         IF i = 0 THEN 0
                         ELSE IF i \in counted THEN g[i - 1] + weighted[i].weight ELSE g[i - 1]]
           F == CHOOSE g : g = Body(g)
           size == [i \in 0..n |-> Cardinality(counted \cap (1..i))]
<1>1. /\ IsFiniteSet(counted) /\ Cardinality(counted) \in Nat
      /\ counted \cap (1..n) = counted /\ counted \cap (1..0) = {}
  <2>1. IsFiniteSet(1..n)
    BY FS_Interval
  <2>2. IsFiniteSet(counted)
    BY <2>1, FS_Subset
  <2>3. Cardinality(counted) \in Nat
    BY <2>2, FS_CardinalityType
  <2>4. counted \cap (1..n) = counted
    OBVIOUS
  <2>5. counted \cap (1..0) = {}
    OBVIOUS
  <2> QED
    BY <2>2, <2>3, <2>4, <2>5
<1>2. ASSUME NEW i \in 1..n
      PROVE  /\ i - 1 \in 0..n
             /\ size[i] = IF i \in counted THEN size[i - 1] + 1 ELSE size[i - 1]
  <2> DEFINE below == counted \cap (1..(i - 1))
  <2>1. i - 1 \in 0..n /\ i \in 0..n /\ i \notin below /\ IsFiniteSet(below)
    <3>1. IsFiniteSet(below)
      BY <1>1, FS_Intersection
    <3> QED
      BY <3>1
  <2>2. size[i] = Cardinality(counted \cap (1..i)) /\ size[i - 1] = Cardinality(below)
    BY <2>1
  <2>3. CASE i \in counted
    <3>1. counted \cap (1..i) = below \cup {i}
      BY <2>3
    <3>2. Cardinality(below \cup {i}) = Cardinality(below) + 1
      <4> HIDE DEF below
      <4> QED
        BY <2>1, FS_AddElement
    <3> QED
      BY <2>1, <2>2, <2>3, <3>1, <3>2
  <2>4. CASE i \notin counted
    <3>1. counted \cap (1..i) = below
      BY <2>4
    <3> QED
      BY <2>1, <2>2, <2>4, <3>1
  <2> QED
    BY <2>3, <2>4
<1>3. size[0] = 0 /\ size[n] = Cardinality(counted)
  <2>1. 0 \in 0..n /\ n \in 0..n
    OBVIOUS
  <2>2. size[0] = Cardinality({}) /\ size[n] = Cardinality(counted)
    BY <1>1, <2>1
  <2> HIDE DEF size
  <2> QED
    BY <2>2, FS_EmptySet
<1>4. size = Body(size)
  <2>1. ASSUME NEW i \in 0..n PROVE size[i] = Body(size)[i]
    <3>1. CASE i = 0
      BY <1>3, <3>1
    <3>2. CASE i \in 1..n
      <4>1. weighted[i].weight = 1 /\ i # 0
        BY <3>2
      <4>2. Body(size)[i] = IF i \in counted THEN size[i - 1] + 1 ELSE size[i - 1]
        <5> HIDE DEF size
        <5> QED
          BY <4>1
      <4> HIDE DEF Body, size
      <4> QED
        BY <3>2, <4>2, <1>2
    <3> QED
      BY <3>1, <3>2
  <2>2. size = [i \in 0..n |-> size[i]] /\ Body(size) = [i \in 0..n |-> Body(size)[i]]
    OBVIOUS
  <2> HIDE DEF size, Body
  <2> QED
    BY <2>1, <2>2
<1>5. F = Body(F)
  <2> HIDE DEF size, Body
  <2> QED
    BY <1>4
<1> HIDE DEF F
<1>6. F[0] = 0
  BY <1>5
<1>7. ASSUME NEW i \in 1..n
      PROVE  F[i] = IF i \in counted THEN F[i - 1] + 1 ELSE F[i - 1]
  BY <1>5
<1> DEFINE Same == {i \in Nat : i \in 0..n => F[i] = size[i]}
<1>8. Nat \subseteq Same
  <2> HIDE DEF size
  <2>1. 0 \in Same
    BY <1>3, <1>6
  <2>2. ASSUME NEW i \in Nat, i \in Same PROVE i + 1 \in Same
    <3>1. CASE i + 1 \in 1..n
      <4>1. F[i] = size[i] /\ (i + 1) - 1 = i
        BY <2>2, <3>1
      <4>2. F[i + 1] = IF i + 1 \in counted THEN F[i] + 1 ELSE F[i]
        BY <1>7, <3>1, <4>1
      <4>3. size[i + 1] = IF i + 1 \in counted THEN size[i] + 1 ELSE size[i]
        BY <1>2, <3>1, <4>1
      <4> QED
        BY <4>1, <4>2, <4>3
    <3>2. CASE i + 1 \notin 1..n
      BY <3>2
    <3> QED
      BY <3>1, <3>2
  <2> HIDE DEF Same
  <2> QED
    BY <2>1, <2>2, NatSetInduction
<1>9. F[n] = size[n]
  <2> HIDE DEF size
  <2> QED
    BY <1>8
<1>10. TotalWeight(weighted, counted) = F[n]
  BY DEF TotalWeight, F
<1> QED
  BY <1>3, <1>9, <1>10

(* The keys of a snapshot, one by one.                                      *)
LEMMA KeysInOrder ==
  ASSUME NEW S, IsFiniteSet(S)
  PROVE  LET n == Cardinality(S)
             s == SetToSeq(S)
         IN  /\ n \in Nat /\ s \in [1..n -> S]
             /\ \A i, j \in 1..n : s[i] = s[j] => i = j
             /\ \A k \in S : \E i \in 1..n : s[i] = k
<1> DEFINE n == Cardinality(S)
           s == SetToSeq(S)
<1>1. n \in Nat /\ ExistsBijection(1..n, S)
  BY FS_CardinalityType
<1>2. PICK f : f \in Bijection(1..n, S)
  BY <1>1 DEF ExistsBijection
<1>3. f \in [1..n -> S] /\ IsInjective(f)
  BY <1>2 DEF Bijection, Injection, Surjection
<1>4. s \in [1..n -> S] /\ IsInjective(s)
  BY <1>3 DEF SetToSeq
<1> HIDE DEF s
<1>5. s \in Injection(1..n, S)
  BY <1>4 DEF Injection
<1>6. IsFiniteSet(1..n) /\ Cardinality(1..n) = n
  BY <1>1, FS_Interval
<1>7. s \in Surjection(1..n, S)
  BY <1>5, <1>6, FS_Injection
<1>8. \A k \in S : \E i \in 1..n : s[i] = k
  BY <1>7 DEF Surjection
<1>9. \A i, j \in 1..n : s[i] = s[j] => i = j
  BY <1>4 DEF IsInjective
<1> QED
  BY <1>1, <1>4, <1>8, <1>9 DEF s

(* The similarity of two snapshots counts the keys they agree on.           *)
LEMMA SimilarityCountsAgreement ==
  ASSUME NEW left, NEW right, IsFiniteSet(DOMAIN right)
  PROVE  LET n == Cardinality(DOMAIN right)
             kept == {k \in DOMAIN right : SameValue(left, right, k)}
         IN  WeightedSnapshotSimilarity(left, right, UnitWeights(right))
               = (20000 * Cardinality(kept) + n) \div (2 * n)
<1> DEFINE keys == DOMAIN right
           n == Cardinality(keys)
           s == SetToSeq(keys)
           w == UnitWeights(right)
           kept == {k \in keys : SameValue(left, right, k)}
           counted == {i \in 1..n : SameValue(left, right, s[i])}
<1>1. /\ n \in Nat /\ s \in [1..n -> keys]
      /\ \A i, j \in 1..n : s[i] = s[j] => i = j
      /\ \A k \in keys : \E i \in 1..n : s[i] = k
  BY KeysInOrder
<1>2. /\ DOMAIN w = 1..n /\ Len(w) = n
      /\ \A i \in 1..n : w[i].weight = 1 /\ w[i].parameterKey = s[i]
  BY <1>1 DEF UnitWeights
<1>3. counted = {i \in DOMAIN w : SameValue(left, right, w[i].parameterKey)}
  BY <1>2
<1>4. TotalWeight(w, counted) = Cardinality(counted)
  BY <1>1, <1>2, UnitTotal
<1>5. TotalWeight(w, DOMAIN w) = n
  <2>1. TotalWeight(w, 1..n) = Cardinality(1..n)
    BY <1>1, <1>2, UnitTotal
  <2>2. Cardinality(1..n) = n
    BY <1>1, FS_Interval
  <2> QED
    BY <1>2, <2>1, <2>2
<1>6. Cardinality(counted) = Cardinality(kept)
  <2> DEFINE f == [i \in counted |-> s[i]]
  <2> HIDE DEF s, n
  <2>1. f \in [counted -> kept]
    BY <1>1
  <2>2. \A i, j \in counted : f[i] = f[j] => i = j
    BY <1>1
  <2>3. \A k \in kept : \E i \in counted : f[i] = k
    BY <1>1
  <2>4. f \in Bijection(counted, kept)
    <3> HIDE DEF f, counted, kept
    <3> QED
      BY <2>1, <2>2, <2>3 DEF Bijection, Injection, Surjection, IsInjective
  <2>5. IsFiniteSet(counted)
    <3>1. IsFiniteSet(1..n)
      BY <1>1, FS_Interval
    <3>2. counted \in SUBSET (1..n)
      OBVIOUS
    <3> HIDE DEF counted
    <3> QED
      BY <3>1, <3>2, FS_Subset
  <2>6. ExistsBijection(counted, kept)
    BY <2>4 DEF ExistsBijection
  <2> HIDE DEF counted, kept
  <2> QED
    BY <2>5, <2>6, FS_Bijection
<1> HIDE DEF counted, w, n
<1>7. WeightedSnapshotSimilarity(left, right, w)
        = (20000 * TotalWeight(w, counted) + n) \div (2 * n)
  BY <1>3, <1>5 DEF WeightedSnapshotSimilarity
<1> QED
  BY <1>4, <1>6, <1>7 DEF w, n

(* The keys that an expression tests, at any depth, are referred to.        *)
LEMMA ReferencesAreComplete ==
  ASSUME NEW x, IsTree(x)
  PROVE  VariablesOf(x) \subseteq ReferencedKeys(x)
<1> DEFINE n == Len(x)
           V == VariablesOf(x)
           Below(g, i) == IF x[i].kind = "test" THEN {x[i].variable}
                          ELSE UNION {g[j] : j \in Members(x[i])}
           Body(g) == [i \in 1..n |-> Below(g, i)]
           F == CHOOSE g : g = Body(g)
<1>1. n \in Nat /\ DOMAIN x = 1..n /\ 1 \in 1..n
  <2>1. x \in Seq(Elements(x)) /\ x # <<>>
    BY DEF IsTree
  <2> QED
    BY <2>1, EmptySeq
<1>2. ASSUME NEW i \in 1..n PROVE Members(x[i]) \subseteq (i + 1)..n
  BY <1>1 DEF IsTree
<1>3. ASSUME NEW i \in 1..n, i # 1 PROVE \E j \in 1..(i - 1) : i \in Members(x[j])
  BY <1>1, <1>3 DEF IsTree
<1>4. ASSUME NEW i \in 1..n, x[i].kind = "test" PROVE x[i].variable \in V
  <2>1. x[i] \in Tests(x)
    BY <1>1, <1>4 DEF Tests, Elements
  <2> QED
    BY <2>1 DEF VariablesOf
<1> HIDE DEF V, n
\* From the last node up, the equation has a solution.
<1>5. \E g \in [1..n -> SUBSET V] : \A i \in 1..n : g[i] = Below(g, i)
  <2> DEFINE Solved(m, g) == /\ g \in [1..n -> SUBSET V]
                             /\ \A i \in 1..n : i > n - m => g[i] = Below(g, i)
             Good == {m \in Nat : m <= n => \E g : Solved(m, g)}
  <2>1. 0 \in Good
    <3>1. Solved(0, [i \in 1..n |-> {}])
      BY <1>1
    <3> HIDE DEF Solved
    <3> QED
      BY <3>1
  <2>2. ASSUME NEW m \in Nat, m \in Good, m + 1 <= n PROVE \E g : Solved(m + 1, g)
    <3>1. PICK f : Solved(m, f)
      <4>1. m <= n
        BY <1>1, <2>2
      <4> HIDE DEF Solved
      <4> QED
        BY <2>2, <4>1
    <3> DEFINE k == n - m
               g == [i \in 1..n |-> IF i = k THEN Below(f, k) ELSE f[i]]
    <3>2. k \in 1..n
      BY <1>1, <2>2
    <3>3. Below(f, k) \in SUBSET V
      <4>1. CASE x[k].kind = "test"
        BY <1>4, <3>2, <4>1
      <4>2. CASE x[k].kind # "test"
        <5>1. \A j \in Members(x[k]) : f[j] \in SUBSET V
          BY <1>1, <1>2, <3>1, <3>2
        <5> QED
          BY <4>2, <5>1
      <4> QED
        BY <4>1, <4>2
    <3>4. g \in [1..n -> SUBSET V]
      BY <3>1, <3>3
    <3>5. ASSUME NEW i \in 1..n, i > n - (m + 1) PROVE g[i] = Below(g, i)
      <4>1. \A j \in Members(x[i]) : j \in 1..n /\ j # k
        BY <1>1, <1>2, <3>2, <3>5
      <4>2. \A j \in Members(x[i]) : g[j] = f[j]
        BY <4>1
      <4>3. Below(g, i) = Below(f, i)
        <5> HIDE DEF g, k
        <5> QED
          BY <4>2
      <4>4. CASE i = k
        <5> HIDE DEF k
        <5> QED
          BY <4>3, <4>4
      <4>5. CASE i # k
        <5>1. i > n - m
          BY <1>1, <2>2, <3>5, <4>5
        <5>2. f[i] = Below(f, i) /\ g[i] = f[i]
          BY <3>1, <4>5, <5>1
        <5> HIDE DEF g, k
        <5> QED
          BY <4>3, <5>2
      <4> QED
        BY <4>4, <4>5
    <3> HIDE DEF g, Below
    <3>6. Solved(m + 1, g)
      BY <3>4, <3>5
    <3> HIDE DEF Solved
    <3> QED
      BY <3>6
  <2>3. ASSUME NEW m \in Nat, m \in Good PROVE m + 1 \in Good
    <3> HIDE DEF Solved
    <3> QED
      BY <2>2, <2>3
  <2>4. n \in Good
    <3> HIDE DEF Good
    <3> QED
      BY <1>1, <2>1, <2>3, NatSetInduction
  <2>5. PICK g : Solved(n, g)
    <3> HIDE DEF Solved
    <3> QED
      BY <1>1, <2>4
  <2>6. \A i \in 1..n : i > n - n
    BY <1>1
  <2> HIDE DEF Below
  <2> QED
    BY <2>5, <2>6
<1>6. F = Body(F)
  <2>1. PICK g \in [1..n -> SUBSET V] : \A i \in 1..n : g[i] = Below(g, i)
    BY <1>5
  <2>2. g = Body(g)
    <3> HIDE DEF Below
    <3> QED
      BY <2>1
  <2> HIDE DEF Body
  <2> QED
    BY <2>2
<1> HIDE DEF F
<1>7. \A i \in 1..n : F[i] = Below(F, i)
  <2> HIDE DEF Below
  <2> QED
    BY <1>6
\* What a node refers to, the root does.
<1> DEFINE Rooted == {m \in Nat : \A i \in 1..n : i <= m => F[i] \subseteq F[1]}
<1>8. Nat \subseteq Rooted
  <2>1. 0 \in Rooted
    BY <1>1
  <2>2. ASSUME NEW m \in Nat, m \in Rooted PROVE m + 1 \in Rooted
    <3>1. ASSUME NEW i \in 1..n, i = m + 1 PROVE F[i] \subseteq F[1]
      <4>1. CASE i = 1
        BY <4>1
      <4>2. CASE i # 1
        <5>1. PICK j \in 1..(i - 1) : i \in Members(x[j])
          BY <1>3, <4>2
        <5>2. j \in 1..n /\ j <= m
          BY <1>1, <3>1, <5>1
        <5>3. F[i] \subseteq F[j]
          BY <1>7, <5>1, <5>2 DEF Members
        <5> QED
          BY <2>2, <5>2, <5>3
      <4> QED
        BY <4>1, <4>2
    <3> QED
      BY <1>1, <2>2, <3>1
  <2> HIDE DEF Rooted
  <2> QED
    BY <2>1, <2>2, NatSetInduction
<1>9. ReferencedKeys(x) = F[1]
  BY <1>1 DEF ReferencedKeys, F
<1>10. ASSUME NEW v \in V PROVE v \in F[1]
  <2>1. PICK i \in 1..n : x[i].kind = "test" /\ x[i].variable = v
    BY <1>1, <1>10 DEF V, VariablesOf, Tests, Elements
  <2>2. v \in F[i]
    BY <1>7, <2>1
  <2>3. i \in Rooted
    BY <1>1, <1>8
  <2> QED
    BY <1>1, <2>2, <2>3
<1> QED
  BY <1>9, <1>10 DEF V

-----------------------------------------------------------------------------
\* What follows needs no rule to compile: a result that was accepted applied
\* some rule to a snapshot the trajectory had reached.
Snapshots(t) ==
  {t.initialParameters} \cup {t.events[i].after : i \in 1..Len(t.events)}

Applied(e) == \E r \in Rules : e.ruleId = r.id /\ e.after = ApplyEffects(e.before, r)

\* The events account for what distinguishes a snapshot from the first one.
Traceable(t, p) ==
  /\ DOMAIN t.initialParameters \subseteq DOMAIN p
  /\ IsFiniteSet(DOMAIN p)
  /\ \A k \in DOMAIN p : ~SameValue(p, t.initialParameters, k) =>
       \E i \in 1..Len(t.events) : k \in ChangedParameterKeys(t.events[i])
  /\ \A issue \in SnapshotIssues(ParameterDefs, p)
                    \ SnapshotIssues(ParameterDefs, t.initialParameters) :
       \E i \in 1..Len(t.events) : issue.parameterKey \in Misassigned(Rule(t.events[i].ruleId))

HeldHistory ==
  /\ held = [c \in Callers |-> held[c]]
  /\ \A c \in Callers : Declared(held[c]) /\ held[c].accepted =>
       held[c].before \in Snapshots(trajectory) /\ Applied(held[c])

EventsHistory ==
  \A i \in 1..Len(trajectory.events) :
    trajectory.events[i].before \in
      {trajectory.initialParameters} \cup {trajectory.events[j].after : j \in 1..(i - 1)}

SnapshotsHistory == \A p \in Snapshots(trajectory) : Traceable(trajectory, p)

HistoryInv == HeldHistory /\ StartInv /\ EventsAreListed /\ EventsHistory /\ SnapshotsHistory

\* What a rule leaves of a snapshot.
Replaces(r, p, q) ==
  /\ DOMAIN q = DOMAIN p \cup {e.key : e \in Elements(r.effects)}
  /\ \A k \in DOMAIN q :
       \/ k \in DOMAIN p /\ q[k] = p[k]
       \/ \E e \in Elements(r.effects) : e.key = k /\ q[k] = e.value
  /\ IsFiniteSet(DOMAIN p) => IsFiniteSet(DOMAIN q)

(* The last effect of a key decides what a rule leaves under it; the other  *)
(* keys are left alone.                                                     *)
LEMMA EffectsReplaceValues ==
  ASSUME NEW r \in Rules, NEW p, NEW q, q = ApplyEffects(p, r)
  PROVE  Replaces(r, p, q)
<1> DEFINE effects == r.effects
           n == Len(effects)
           keys == {effects[i].key : i \in DOMAIN effects}
           Lasts(key, i) == /\ effects[i].key = key
                            /\ \A j \in DOMAIN effects : effects[j].key = key => j <= i
<1>1. n \in Nat /\ DOMAIN effects = 1..n
  BY RulesAssignInOrder
<1>2. keys = {e.key : e \in Elements(effects)}
  BY DEF Elements
<1>3. DOMAIN q = DOMAIN p \cup keys
  BY DEF ApplyEffects
<1>4. ASSUME NEW k \in keys PROVE \E i \in DOMAIN effects : Lasts(k, i)
  <2> DEFINE T == {n - i : i \in {j \in 1..n : effects[j].key = k}}
  <2>1. T \in SUBSET Nat /\ T # {}
    <3>1. PICK i \in 1..n : effects[i].key = k
      BY <1>1, <1>4
    <3>2. n - i \in T
      BY <3>1
    <3>3. \A j \in 1..n : n - j \in Nat
      BY <1>1
    <3> QED
      BY <3>2, <3>3
  <2> HIDE DEF T
  <2>2. PICK m \in T : \A l \in T : m <= l
    BY <2>1, LeastNatural
  <2>3. PICK i \in 1..n : effects[i].key = k /\ m = n - i
    BY <2>2 DEF T
  <2>4. ASSUME NEW j \in 1..n, effects[j].key = k PROVE j <= i
    <3>1. n - j \in T
      BY <2>4 DEF T
    <3>2. n - i <= n - j
      BY <2>2, <2>3, <3>1
    <3> QED
      BY <1>1, <2>3, <3>2
  <2> QED
    BY <1>1, <2>3, <2>4
<1>5. ASSUME NEW k \in keys
      PROVE  \E i \in DOMAIN effects : effects[i].key = k /\ q[k] = effects[i].value
  <2> DEFINE i == CHOOSE l \in DOMAIN effects : Lasts(k, l)
  <2>1. i \in DOMAIN effects /\ effects[i].key = k
    BY <1>4
  <2>2. q[k] = effects[i].value
    BY <1>5 DEF ApplyEffects
  <2> HIDE DEF i
  <2> QED
    BY <2>1, <2>2
<1>6. ASSUME NEW k \in DOMAIN q, k \notin keys PROVE k \in DOMAIN p /\ q[k] = p[k]
  BY <1>3, <1>6 DEF ApplyEffects
<1>7. IsFiniteSet(DOMAIN p) => IsFiniteSet(DOMAIN q)
  <2> DEFINE f == [i \in 1..n |-> effects[i].key]
  <2>1. IsFiniteSet(1..n)
    BY <1>1, FS_Interval
  <2>2. f \in Surjection(1..n, keys)
    BY <1>1 DEF Surjection
  <2> HIDE DEF f, keys, n
  <2>3. IsFiniteSet(keys)
    BY <2>1, <2>2, FS_Surjection
  <2> QED
    BY <1>3, <2>3, FS_Union
<1> HIDE DEF keys
<1>8. ASSUME NEW k \in DOMAIN q
      PROVE  \/ k \in DOMAIN p /\ q[k] = p[k]
             \/ \E e \in Elements(r.effects) : e.key = k /\ q[k] = e.value
  <2>1. CASE k \in keys
    <3>1. PICK i \in DOMAIN effects : effects[i].key = k /\ q[k] = effects[i].value
      BY <1>5, <2>1
    <3> QED
      BY <3>1 DEF Elements
  <2>2. CASE k \notin keys
    BY <1>6, <2>2
  <2> QED
    BY <2>1, <2>2
<1>9. DOMAIN q = DOMAIN p \cup {e.key : e \in Elements(r.effects)}
  BY <1>2, <1>3
<1> QED
  BY <1>7, <1>8, <1>9 DEF Replaces

(* What is refused after a rule was applied, and was not before, is what    *)
(* the rule may be blamed for.                                              *)
LEMMA NewIssuesAreAssigned ==
  ASSUME NEW r \in Rules, NEW p,
         NEW issue \in SnapshotIssues(ParameterDefs, ApplyEffects(p, r)),
         issue \notin SnapshotIssues(ParameterDefs, p)
  PROVE  issue.parameterKey \in Misassigned(r)
<1> DEFINE defs == ParameterDefs
<1>0. PICK q : q = ApplyEffects(p, r)
  OBVIOUS
<1>1. /\ DOMAIN q = DOMAIN p \cup {e.key : e \in Elements(r.effects)}
      /\ \A k \in DOMAIN q :
           \/ k \in DOMAIN p /\ q[k] = p[k]
           \/ \E e \in Elements(r.effects) : e.key = k /\ q[k] = e.value
  <2>1. Replaces(r, p, q)
    BY <1>0, EffectsReplaceValues
  <2> QED
    BY <2>1 DEF Replaces
<1>2. issue \in SnapshotIssues(defs, q)
  BY <1>0
<1>3. CASE \E i \in DOMAIN defs : defs[i].key \notin DOMAIN q /\ issue = Issue(defs[i].key, "missing")
  BY <1>1, <1>3 DEF SnapshotIssues, Issues
<1>4. CASE \E i \in DOMAIN defs : /\ defs[i].key \in DOMAIN q
                                  /\ ~IsValidValue(defs[i], q[defs[i].key])
                                  /\ issue = Issue(defs[i].key, "invalid")
  <2>1. PICK i \in DOMAIN defs : /\ defs[i].key \in DOMAIN q
                                 /\ ~IsValidValue(defs[i], q[defs[i].key])
                                 /\ issue = Issue(defs[i].key, "invalid")
    BY <1>4
  <2> DEFINE k == defs[i].key
  <2>2. ~(k \in DOMAIN p /\ q[k] = p[k])
    BY <2>1 DEF SnapshotIssues, Issues
  <2>3. PICK e \in Elements(r.effects) : e.key = k /\ q[k] = e.value
    BY <1>1, <2>1, <2>2
  <2>4. defs[i] \in Elements(defs)
    BY DEF Elements
  <2>5. e.key \in Misassigned(r)
    BY <2>1, <2>3, <2>4 DEF Misassigned
  <2> QED
    BY <2>1, <2>3, <2>5 DEF Issue
<1>5. CASE \E k \in DOMAIN q \ DefinedKeys(defs) : issue = Issue(k, "unknown")
  <2>1. PICK k \in DOMAIN q \ DefinedKeys(defs) : issue = Issue(k, "unknown")
    BY <1>5
  <2>2. k \notin DOMAIN p
    BY <2>1 DEF SnapshotIssues
  <2>3. PICK e \in Elements(r.effects) : e.key = k
    BY <1>1, <2>1, <2>2
  <2>4. e.key \in Misassigned(r)
    BY <2>1, <2>3 DEF Misassigned
  <2> QED
    BY <2>1, <2>3, <2>4 DEF Issue
<1> QED
  BY <1>2, <1>3, <1>4, <1>5 DEF SnapshotIssues, Issues

LEMMA HeadIsSnapshot ==
  ASSUME EventsAreListed
  PROVE  CurrentParameters(trajectory) \in Snapshots(trajectory)
<1>1. CASE trajectory.events = <<>>
  BY <1>1 DEF CurrentParameters, Snapshots
<1>2. CASE trajectory.events # <<>>
  <2>1. Len(trajectory.events) \in 1..Len(trajectory.events)
    BY <1>2, EmptySeq DEF EventsAreListed
  <2> QED
    BY <1>2, <2>1 DEF CurrentParameters, Snapshots, Last
<1> QED
  BY <1>1, <1>2

LEMMA HistoryInit == Init => HistoryInv
<1> SUFFICES ASSUME Init PROVE HistoryInv
  OBVIOUS
<1>1. PICK p \in Initial : trajectory = CreateTrajectory(p)
  BY DEF Init
<1>2. HeldHistory
  BY DEF Init, HeldHistory, Declared
<1>3. StartInv /\ trajectory.events = <<>> /\ trajectory.initialParameters = p
  BY <1>1 DEF StartInv, CreateTrajectory, Derived
<1>4. <<>> \in Seq({}) /\ Len(<<>>) = 0
  BY EmptySeq
<1>5. EventsAreListed /\ EventsHistory /\ Snapshots(trajectory) = {p}
  BY <1>3, <1>4 DEF EventsAreListed, EventsHistory, Snapshots
<1>6. Traceable(trajectory, p)
  BY <1>3, SnapshotsAreFinite DEF Traceable, SameValue
<1> QED
  BY <1>2, <1>3, <1>5, <1>6 DEF HistoryInv, SnapshotsHistory

LEMMA EvaluateKeepsHistory ==
  ASSUME HistoryInv, NEW caller \in Callers, Evaluate(caller)
  PROVE  HistoryInv'
<1> DEFINE p == CurrentParameters(trajectory)
<1>1. PICK r \in Rules, a \in Authorities, s \in {CurrentStateId(trajectory), Derived(p)} :
        held' = [held EXCEPT ![caller] = EvaluateTransition(r,
                   [ruleId |-> r.id, sourceStateId |-> s, authority |-> a, parameters |-> p],
                   StateDefs)]
  BY DEF Evaluate, Derived
<1>2. p \in Snapshots(trajectory)
  BY HeadIsSnapshot DEF HistoryInv
<1> DEFINE t == EvaluateTransition(r, [ruleId |-> r.id, sourceStateId |-> s, authority |-> a,
                                       parameters |-> p], StateDefs)
<1>3. t.before = p /\ (t.accepted => Applied(t))
  <2>1. t.ruleId = r.id /\ t.before = p /\ (t.accepted => t.after = ApplyEffects(p, r))
    BY DEF EvaluateTransition
  <2> HIDE DEF t, p
  <2> QED
    BY <2>1 DEF Applied
<1> HIDE DEF p, t
<1>4. trajectory' = trajectory /\ held' = [held EXCEPT ![caller] = t]
  BY <1>1 DEF Evaluate, t, p
<1>5. HeldHistory'
  BY <1>2, <1>3, <1>4 DEF HistoryInv, HeldHistory
<1>6. StartInv' /\ EventsAreListed' /\ EventsHistory' /\ SnapshotsHistory'
  BY <1>4 DEF HistoryInv, StartInv, EventsAreListed, EventsHistory, SnapshotsHistory
<1> QED
  BY <1>5, <1>6 DEF HistoryInv

(* One more event leaves every snapshot as traceable as it was.             *)
LEMMA TracesExtend ==
  ASSUME NEW t, NEW u, NEW p, Traceable(t, p), u.initialParameters = t.initialParameters,
         Len(t.events) \in Nat, Len(u.events) = Len(t.events) + 1,
         \A i \in 1..Len(t.events) : u.events[i] = t.events[i]
  PROVE  Traceable(u, p)
<1>1. 1..Len(t.events) \subseteq 1..Len(u.events)
  OBVIOUS
<1>2. ASSUME NEW k \in DOMAIN p, ~SameValue(p, u.initialParameters, k)
      PROVE  \E i \in 1..Len(u.events) : k \in ChangedParameterKeys(u.events[i])
  BY <1>1, <1>2 DEF Traceable
<1>3. ASSUME NEW issue \in SnapshotIssues(ParameterDefs, p)
                             \ SnapshotIssues(ParameterDefs, u.initialParameters)
      PROVE  \E i \in 1..Len(u.events) :
               issue.parameterKey \in Misassigned(Rule(u.events[i].ruleId))
  BY <1>1 DEF Traceable
<1> QED
  BY <1>2, <1>3 DEF Traceable

(* What a rule makes of a traceable snapshot is traceable, the result being *)
(* among the events.                                                        *)
LEMMA ResultsAreTraceable ==
  ASSUME NEW t, NEW e, NEW l \in 1..Len(t.events), t.events[l] = e, Applied(e),
         Traceable(t, e.before)
  PROVE  Traceable(t, e.after)
<1> DEFINE p == e.before
           q == e.after
           start == t.initialParameters
<1>1. PICK r \in Rules : e.ruleId = r.id /\ q = ApplyEffects(p, r)
  BY DEF Applied
<1>2. Replaces(r, p, q)
  BY <1>1, EffectsReplaceValues
<1>3. DOMAIN start \subseteq DOMAIN q /\ DOMAIN p \subseteq DOMAIN q /\ IsFiniteSet(DOMAIN q)
  BY <1>2 DEF Replaces, Traceable
<1>4. ASSUME NEW k \in DOMAIN q, ~SameValue(q, start, k)
      PROVE  \E i \in 1..Len(t.events) : k \in ChangedParameterKeys(t.events[i])
  <2>1. CASE SameValue(p, q, k)
    <3>1. k \in DOMAIN p /\ ~SameValue(p, start, k)
      BY <1>4, <2>1 DEF SameValue
    <3> QED
      BY <3>1 DEF Traceable
  <2>2. CASE ~SameValue(p, q, k)
    BY <1>4, <2>2 DEF ChangedParameterKeys
  <2> QED
    BY <2>1, <2>2
<1>5. ASSUME NEW issue \in SnapshotIssues(ParameterDefs, q)
                             \ SnapshotIssues(ParameterDefs, start)
      PROVE  \E i \in 1..Len(t.events) :
               issue.parameterKey \in Misassigned(Rule(t.events[i].ruleId))
  <2>1. CASE issue \in SnapshotIssues(ParameterDefs, p)
    BY <2>1 DEF Traceable
  <2>2. CASE issue \notin SnapshotIssues(ParameterDefs, p)
    <3>1. issue.parameterKey \in Misassigned(r)
      BY <1>1, <2>2, NewIssuesAreAssigned
    <3>2. Rule(e.ruleId) = r
      BY <1>1, RuleIdsAreUnique DEF Rule
    <3> QED
      BY <3>1, <3>2
  <2> QED
    BY <2>1, <2>2
<1> QED
  BY <1>3, <1>4, <1>5 DEF Traceable

LEMMA CommitKeepsHistory ==
  ASSUME HistoryInv, NEW caller \in Callers, Commit(caller)
  PROVE  HistoryInv'
<1> DEFINE n == Len(trajectory.events)
           e == held[caller]
<1>1. PICK u : u = trajectory'
  OBVIOUS
<1>2. /\ u = [initialParameters |-> trajectory.initialParameters,
              initialStateId |-> trajectory.initialStateId,
              events |-> Append(trajectory.events, e)]
      /\ n \in Nat /\ Len(u.events) = n + 1
      /\ \A i \in 1..n : u.events[i] = trajectory.events[i]
      /\ u.events[n + 1] = e
      /\ EventsAreListed'
  BY <1>1, CommitAppends DEF HistoryInv
<1>3. u.initialParameters = trajectory.initialParameters
      /\ u.initialStateId = trajectory.initialStateId
  BY <1>2
<1>4. held' = held /\ e.before \in Snapshots(trajectory) /\ Applied(e)
  BY DEF Commit, AdmitsTransition, HistoryInv, HeldHistory
<1> HIDE DEF e
<1>5. StartInv'
  BY <1>1, <1>2 DEF HistoryInv, StartInv
<1>6. Snapshots(u) = Snapshots(trajectory) \cup {e.after}
  <2>1. \A i \in 1..(n + 1) : i \in 1..n \/ i = n + 1
    BY <1>2
  <2>2. 1..n \subseteq 1..(n + 1) /\ n + 1 \in 1..(n + 1)
    BY <1>2
  <2>3. {u.events[i].after : i \in 1..(n + 1)}
          = {trajectory.events[i].after : i \in 1..n} \cup {e.after}
    BY <1>2, <2>1, <2>2
  <2> QED
    BY <1>2, <1>3, <2>3 DEF Snapshots
<1>7. HeldHistory'
  BY <1>1, <1>4, <1>6 DEF HistoryInv, HeldHistory
<1>8. EventsHistory'
  <2>1. ASSUME NEW i \in 1..(n + 1)
        PROVE  u.events[i].before \in
                 {u.initialParameters} \cup {u.events[j].after : j \in 1..(i - 1)}
    <3>1. i - 1 <= n /\ 1..(i - 1) \subseteq 1..n
      BY <1>2
    <3>2. {u.events[j].after : j \in 1..(i - 1)}
            = {trajectory.events[j].after : j \in 1..(i - 1)}
      BY <1>2, <3>1
    <3>3. CASE i \in 1..n
      BY <1>2, <1>3, <3>2, <3>3 DEF HistoryInv, EventsHistory
    <3>4. CASE i = n + 1
      <4>1. i - 1 = n /\ u.events[i] = e
        BY <1>2, <3>4
      <4> QED
        BY <1>3, <1>4, <3>2, <4>1 DEF Snapshots
    <3> QED
      BY <1>2, <3>3, <3>4
  <2> QED
    BY <1>1, <1>2, <2>1 DEF EventsHistory
<1>9. SnapshotsHistory'
  <2>1. ASSUME NEW p \in Snapshots(trajectory) PROVE Traceable(u, p)
    <3>1. Traceable(trajectory, p)
      BY DEF HistoryInv, SnapshotsHistory
    <3> QED
      BY <1>2, <1>3, <3>1, TracesExtend
  <2>2. Traceable(u, e.after)
    <3>1. n + 1 \in 1..Len(u.events) /\ u.events[n + 1] = e
      BY <1>2
    <3>2. Traceable(u, e.before)
      BY <1>4, <2>1
    <3> QED
      BY <1>4, <3>1, <3>2, ResultsAreTraceable
  <2> QED
    BY <1>1, <1>6, <2>1, <2>2 DEF SnapshotsHistory
<1> QED
  BY <1>2, <1>5, <1>7, <1>8, <1>9 DEF HistoryInv

(* HistoryInv is inductive, whether or not the rules compile.               *)
THEOREM HistoryInvariant == Spec => []HistoryInv
<1>1. HistoryInv /\ [Next]_vars => HistoryInv'
  <2> SUFFICES ASSUME HistoryInv, [Next]_vars PROVE HistoryInv'
    OBVIOUS
  <2>1. CASE Next
    BY <2>1, EvaluateKeepsHistory, CommitKeepsHistory DEF Next
  <2>2. CASE UNCHANGED vars
    BY <2>2 DEF vars, HistoryInv, HeldHistory, StartInv, EventsAreListed, EventsHistory,
                SnapshotsHistory
  <2> QED
    BY <2>1, <2>2
<1> QED
  BY <1>1, HistoryInit, PTL DEF Spec

(* Nothing drifts unaccounted for, whatever is committed in whatever order. *)
THEOREM TrajectoryDriftIsAccounted == Spec => []DriftIsAccounted
<1>1. HistoryInv => DriftIsAccounted
  <2> SUFFICES ASSUME HistoryInv PROVE DriftIsAccounted
    OBVIOUS
  <2> DEFINE events == trajectory.events
             start == trajectory.initialParameters
             head == CurrentParameters(trajectory)
             drifted == Drift(head)
             n == Cardinality(DOMAIN head)
  <2>1. Len(events) \in Nat /\ DOMAIN events = 1..Len(events)
    BY LenProperties DEF HistoryInv, EventsAreListed
  <2>2. Traceable(trajectory, head)
    BY HeadIsSnapshot DEF HistoryInv, SnapshotsHistory
  <2> HIDE DEF head
  <2>3. ASSUME events # <<>>
        PROVE  Last(events).before \in {start} \cup {e.after : e \in Elements(Front(events))}
    <3> DEFINE m == Len(events)
    <3>1. m \in 1..m
      BY <2>3, EmptySeq DEF HistoryInv, EventsAreListed
    <3>2. events[m].before \in {start} \cup {events[j].after : j \in 1..(m - 1)}
      BY <3>1 DEF HistoryInv, EventsHistory
    <3>3. ASSUME NEW j \in 1..(m - 1) PROVE events[j] \in Elements(Front(events))
      <4>1. \A i \in 1..(m - 1) : events[i] \in {events[l] : l \in 1..m}
        BY <2>1
      <4>2. /\ Len(Front(events)) = m - 1
            /\ \A i \in 1..(m - 1) : Front(events)[i] = events[i]
            /\ DOMAIN Front(events) = 1..(m - 1)
        <5>1. 1 \in Int /\ m - 1 \in Int /\ (m - 1) - 1 + 1 = m - 1 /\ 1 <= m
          BY <2>1, <3>1
        <5> DEFINE f == SubSeq(events, 1, m - 1)
        <5>2. /\ f \in Seq({events[l] : l \in 1..m})
              /\ Len(f) = IF 1 <= m - 1 THEN (m - 1) - 1 + 1 ELSE 0
              /\ \A i \in 1..((m - 1) - 1 + 1) : f[i] = events[1 + i - 1]
          BY <4>1, <5>1, SubSeqProperties
        <5> HIDE DEF f
        <5>3. Front(events) = f
          BY DEF Front, f
        <5> QED
          BY <5>1, <5>2, <5>3
      <4> QED
        BY <4>2 DEF Elements
    <3> QED
      BY <3>2, <3>3 DEF Last
  <2>4. drifted \subseteq UNION {ChangedParameterKeys(e) : e \in Elements(events)}
    <3>1. ASSUME NEW k \in drifted PROVE \E e \in Elements(events) : k \in ChangedParameterKeys(e)
      <4>1. k \in DOMAIN head /\ ~SameValue(head, start, k)
        BY <2>2 DEF Drift, Traceable
      <4>2. PICK i \in 1..Len(events) : k \in ChangedParameterKeys(events[i])
        BY <2>2, <4>1 DEF Traceable
      <4> QED
        BY <2>1, <4>2 DEF Elements
    <3> QED
      BY <3>1
  <2>5. WeightedSnapshotSimilarity(start, head, UnitWeights(head))
          = (20000 * (n - Cardinality(drifted)) + n) \div (2 * n)
    <3> DEFINE kept == {k \in DOMAIN head : SameValue(start, head, k)}
    <3>1. IsFiniteSet(DOMAIN head) /\ DOMAIN start \subseteq DOMAIN head
      BY <2>2 DEF Traceable
    <3>2. DOMAIN head = kept \cup drifted /\ kept \cap drifted = {}
          /\ kept \subseteq DOMAIN head /\ drifted \subseteq DOMAIN head
      BY <3>1 DEF Drift, SameValue
    <3>3. WeightedSnapshotSimilarity(start, head, UnitWeights(head))
            = (20000 * Cardinality(kept) + n) \div (2 * n)
      BY <3>1, SimilarityCountsAgreement
    <3> HIDE DEF kept, drifted
    <3>4. IsFiniteSet(kept) /\ IsFiniteSet(drifted)
      BY <3>1, <3>2, FS_Subset
    <3>5. n = Cardinality(kept) + Cardinality(drifted) - Cardinality(kept \cap drifted)
      BY <3>2, <3>4, FS_Union
    <3>6. Cardinality(kept) \in Nat /\ Cardinality(drifted) \in Nat
      BY <3>4, FS_CardinalityType
    <3>7. Cardinality(kept) = n - Cardinality(drifted)
      BY <3>2, <3>5, <3>6, FS_EmptySet
    <3> QED
      BY <3>3, <3>7
  <2> QED
    BY <2>3, <2>4, <2>5 DEF DriftIsAccounted, head
<1> QED
  BY <1>1, HistoryInvariant, PTL

(* Validating the definitions, the references and the first snapshot once   *)
(* is enough, for any rules.                                                *)
THEOREM TrajectoryValidationCarries == Spec => []ValidationCarries
<1>1. HistoryInv => ValidationCarries
  <2> SUFFICES ASSUME HistoryInv PROVE ValidationCarries
    OBVIOUS
  <2> DEFINE events == trajectory.events
             head == CurrentParameters(trajectory)
  <2>1. DOMAIN events = 1..Len(events)
    BY LenProperties DEF HistoryInv, EventsAreListed
  <2>2. Traceable(trajectory, head)
    BY HeadIsSnapshot DEF HistoryInv, SnapshotsHistory
  <2> HIDE DEF head
  <2>3. ASSUME ValidatePredicateParameterReferences(ParameterDefs, Expressions) = {},
               ValidSnapshot(ParameterDefs, head), NEW x \in Expressions
        PROVE  VariablesOf(x) \subseteq DOMAIN head
    <3>1. VariablesOf(x) \subseteq ReferencedKeys(x)
      BY ExpressionsAreTrees, ReferencesAreComplete
    <3>2. ASSUME NEW k \in ReferencedKeys(x) PROVE k \in DefinedKeys(ParameterDefs)
      <4> DEFINE referred == UNION {ReferencedKeys(e) : e \in Expressions}
                 undeclared == {Issue(l, "undeclared") : l \in referred \ DefinedKeys(ParameterDefs)}
      <4>1. k \in referred
        BY <3>2
      <4>2. ValidatePredicateParameterReferences(ParameterDefs, Expressions)
              = ValidateParameterDefinitions(ParameterDefs) \cup undeclared
        BY Zenon DEF ValidatePredicateParameterReferences
      <4>3. undeclared = {}
        <5> HIDE DEF undeclared
        <5> QED
          BY <2>3, <4>2
      <4> HIDE DEF referred
      <4> QED
        BY <4>1, <4>3
    <3>3. ASSUME NEW k \in DefinedKeys(ParameterDefs) PROVE k \in DOMAIN head
      <4>1. PICK i \in DOMAIN ParameterDefs : ParameterDefs[i].key = k
        BY DEF DefinedKeys, Elements
      <4>2. k \notin DOMAIN head => Issue(k, "missing") \in SnapshotIssues(ParameterDefs, head)
        BY <4>1 DEF SnapshotIssues, Issues
      <4> QED
        BY <2>3, <4>2 DEF ValidSnapshot, ValidateParameterSnapshot
    <3> QED
      BY <3>1, <3>2, <3>3
  <2>4. ASSUME NEW issue \in SnapshotIssues(ParameterDefs, head)
                               \ SnapshotIssues(ParameterDefs, trajectory.initialParameters)
        PROVE  \E e \in Elements(events) : issue.parameterKey \in Misassigned(Rule(e.ruleId))
    <3>1. PICK i \in 1..Len(events) : issue.parameterKey \in Misassigned(Rule(events[i].ruleId))
      BY <2>2 DEF Traceable
    <3> QED
      BY <2>1, <3>1 DEF Elements
  <2> QED
    BY <2>3, <2>4 DEF ValidationCarries, head
<1> QED
  BY <1>1, HistoryInvariant, PTL

-----------------------------------------------------------------------------
(* The places of a list of policies are 1, 2, ..., each taken once, and one  *)
(* policy goes before another exactly when its place is lower.              *)
LEMMA PlacesRank ==
  ASSUME NEW policies, NEW M, IsFiniteSet(M),
         \A k \in M : k \in Int /\ PriorityOf(policies[k]) \in Int
  PROVE  /\ Cardinality(M) \in Nat
         /\ \A k \in M : PlaceOf(policies, M, k) \in 1..Cardinality(M)
         /\ \A j, k \in M :
              GoesBefore(policies, j, k) <=> PlaceOf(policies, M, j) < PlaceOf(policies, M, k)
         /\ \A j, k \in M : PlaceOf(policies, M, j) = PlaceOf(policies, M, k) => j = k
         /\ \A i \in 1..Cardinality(M) : \E k \in M : PlaceOf(policies, M, k) = i
<1> DEFINE n == Cardinality(M)
           Before(j, k) == GoesBefore(policies, j, k)
           Behind(k) == {j \in M : Before(j, k)}
           place == [k \in M |-> PlaceOf(policies, M, k)]
<1>1. n \in Nat
  BY FS_CardinalityType
<1>2. \A k \in M : PlaceOf(policies, M, k) = Cardinality(Behind(k)) + 1
  BY DEF PlaceOf
<1>3. /\ \A k \in M : ~Before(k, k)
      /\ \A j, k, l \in M : Before(j, k) /\ Before(k, l) => Before(j, l)
      /\ \A j, k \in M : j # k => Before(j, k) \/ Before(k, j)
  BY DEF GoesBefore
<1> HIDE DEF n, Before
<1>4. ASSUME NEW k \in M
      PROVE  /\ IsFiniteSet(Behind(k)) /\ Cardinality(Behind(k)) \in Nat
             /\ Cardinality(Behind(k)) + 1 <= n
  <2>1. IsFiniteSet(Behind(k)) /\ k \notin Behind(k) /\ Behind(k) \cup {k} \in SUBSET M
    BY <1>3, FS_Subset
  <2>2. Cardinality(Behind(k)) \in Nat
    BY <2>1, FS_CardinalityType
  <2>3. Cardinality(Behind(k) \cup {k}) = Cardinality(Behind(k)) + 1
    BY <2>1, FS_AddElement
  <2>4. Cardinality(Behind(k) \cup {k}) <= Cardinality(M)
    BY <2>1, FS_Subset
  <2> QED
    BY <2>1, <2>2, <2>3, <2>4 DEF n
<1>5. ASSUME NEW j \in M, NEW k \in M, Before(j, k)
      PROVE  Cardinality(Behind(j)) + 1 <= Cardinality(Behind(k))
  <2>1. IsFiniteSet(Behind(j)) /\ j \notin Behind(j) /\ Behind(j) \cup {j} \in SUBSET Behind(k)
    BY <1>3, <1>4, <1>5
  <2>2. Cardinality(Behind(j) \cup {j}) = Cardinality(Behind(j)) + 1
    BY <2>1, FS_AddElement
  <2>3. Cardinality(Behind(j) \cup {j}) <= Cardinality(Behind(k))
    BY <1>4, <2>1, FS_Subset
  <2> QED
    BY <2>2, <2>3
<1> HIDE DEF Behind
<1>6. \A k \in M : PlaceOf(policies, M, k) \in 1..n
  BY <1>1, <1>2, <1>4
<1>7. ASSUME NEW j \in M, NEW k \in M, Before(j, k)
      PROVE  PlaceOf(policies, M, j) < PlaceOf(policies, M, k)
  BY <1>2, <1>4, <1>5, <1>7
<1>8. \A j, k \in M : PlaceOf(policies, M, j) = PlaceOf(policies, M, k) => j = k
  BY <1>1, <1>3, <1>6, <1>7
<1>9. \A j, k \in M : Before(j, k) <=> PlaceOf(policies, M, j) < PlaceOf(policies, M, k)
  BY <1>1, <1>3, <1>6, <1>7
<1>10. \A i \in 1..n : \E k \in M : PlaceOf(policies, M, k) = i
  <2>1. place \in [M -> 1..n] /\ \A j, k \in M : place[j] = place[k] => j = k
    BY <1>6, <1>8
  <2>2. place \in Injection(M, 1..n)
    BY <2>1 DEF Injection, IsInjective
  <2>3. IsFiniteSet(1..n) /\ Cardinality(1..n) = n
    <3>1. 1 \in Int /\ n \in Int
      BY <1>1
    <3>2. IsFiniteSet(1..n) /\ Cardinality(1..n) = IF 1 > n THEN 0 ELSE n - 1 + 1
      BY <3>1, FS_Interval
    <3> QED
      BY <1>1, <3>2
  <2>4. place \in Surjection(M, 1..n)
    BY <2>2, <2>3, FS_Injection DEF n
  <2> QED
    BY <2>4 DEF Surjection
<1> QED
  BY <1>1, <1>6, <1>8, <1>9, <1>10 DEF n, Before

(* Every policy that matches is in the sorted list, at its place.           *)
LEMMA MatchedByPlace ==
  ASSUME NEW c, NEW book, NEW t, IsBook(book),
         NEW M, M = MatchingPolicies(c, book, t)
  PROVE  /\ IsFiniteSet(M) /\ \A k \in M : k \in Int /\ PriorityOf(book[k]) \in Int
         /\ Cardinality(M) \in Nat
         /\ DOMAIN MatchedPolicies(c, book, t) = 1..Cardinality(M)
         /\ \A k \in M : /\ PlaceOf(book, M, k) \in 1..Cardinality(M)
                         /\ MatchedPolicies(c, book, t)[PlaceOf(book, M, k)] = book[k]
<1>1. Len(book) \in Nat /\ DOMAIN book = 1..Len(book)
  BY LenProperties DEF IsBook
<1>2. M \subseteq 1..Len(book)
  BY <1>1 DEF MatchingPolicies
<1>3. IsFiniteSet(M)
  <2>1. IsFiniteSet(1..Len(book))
    BY <1>1, FS_Interval
  <2> QED
    BY <1>2, <2>1, FS_Subset
<1>4. \A k \in M : k \in Int /\ PriorityOf(book[k]) \in Int
  BY <1>1, <1>2 DEF IsBook, Elements
<1>5. /\ Cardinality(M) \in Nat
      /\ \A k \in M : PlaceOf(book, M, k) \in 1..Cardinality(M)
      /\ \A j, k \in M : PlaceOf(book, M, j) = PlaceOf(book, M, k) => j = k
  BY <1>3, <1>4, PlacesRank
<1>6. MatchedPolicies(c, book, t) =
        [i \in 1..Cardinality(M) |-> book[CHOOSE k \in M : PlaceOf(book, M, k) = i]]
  BY DEF MatchedPolicies
<1>7. ASSUME NEW k \in M
      PROVE  MatchedPolicies(c, book, t)[PlaceOf(book, M, k)] = book[k]
  <2>1. (CHOOSE l \in M : PlaceOf(book, M, l) = PlaceOf(book, M, k)) = k
    BY <1>5
  <2> QED
    BY <1>5, <1>6, <2>1
<1>8. DOMAIN MatchedPolicies(c, book, t) = 1..Cardinality(M)
  BY <1>6
<1> QED
  BY <1>3, <1>4, <1>5, <1>7, <1>8

\* The policy of place 1 is selected.
IsFirst(book, M, k) == k \in M /\ \A j \in M : ~GoesBefore(book, j, k)

(* Some policy has none before it unless none matches, and it is selected.  *)
LEMMA FirstIsSelected ==
  ASSUME NEW c, NEW book, NEW t, IsBook(book),
         NEW M, M = MatchingPolicies(c, book, t)
  PROVE  /\ M = {} => SelectedPolicy(c, book, t) = Null
         /\ M # {} => \E k \in M : IsFirst(book, M, k)
         /\ \A k : IsFirst(book, M, k) => SelectedPolicy(c, book, t) = book[k]
<1> DEFINE list == MatchedPolicies(c, book, t)
           n == Cardinality(M)
<1>1. /\ IsFiniteSet(M) /\ \A k \in M : k \in Int /\ PriorityOf(book[k]) \in Int
      /\ n \in Nat /\ DOMAIN list = 1..n
      /\ \A k \in M : PlaceOf(book, M, k) \in 1..n /\ list[PlaceOf(book, M, k)] = book[k]
  BY MatchedByPlace
<1>2. list = [i \in 1..n |-> list[i]]
  BY <1>1 DEF MatchedPolicies
<1>3. ASSUME M = {} PROVE SelectedPolicy(c, book, t) = Null
  <2>1. n = 0
    BY <1>3, FS_EmptySet
  <2>2. list = <<>>
    BY <1>2, <2>1
  <2> QED
    BY <2>2 DEF SelectedPolicy
<1>4. ASSUME NEW k, IsFirst(book, M, k) PROVE SelectedPolicy(c, book, t) = book[k]
  <2>1. {j \in M : GoesBefore(book, j, k)} = {}
    BY <1>4 DEF IsFirst
  <2>2. PlaceOf(book, M, k) = 1
    BY <2>1, FS_EmptySet DEF PlaceOf
  <2>3. k \in M /\ 1 \in 1..n /\ list[1] = book[k]
    BY <1>1, <1>4, <2>2 DEF IsFirst
  <2> HIDE DEF list
  <2>4. list # <<>>
    BY <1>1, <2>3
  <2>5. Head(list) = list[1]
    BY <1>2, <2>4
  <2> QED
    BY <2>3, <2>4, <2>5 DEF SelectedPolicy, list
<1>5. ASSUME M # {} PROVE \E k \in M : IsFirst(book, M, k)
  <2>1. /\ \A k \in M : PlaceOf(book, M, k) \in 1..n
        /\ \A j, k \in M : GoesBefore(book, j, k) <=> PlaceOf(book, M, j) < PlaceOf(book, M, k)
        /\ \A i \in 1..n : \E k \in M : PlaceOf(book, M, k) = i
    BY <1>1, PlacesRank
  <2>2. 1 \in 1..n
    BY <1>1, <1>5, <2>1
  <2>3. PICK k \in M : PlaceOf(book, M, k) = 1
    BY <2>1, <2>2
  <2> QED
    BY <1>1, <2>1, <2>3 DEF IsFirst
<1> QED
  BY <1>3, <1>4, <1>5

LEMMA ListOfMembers ==
  ASSUME NEW n \in Nat, NEW f, f = [i \in 1..n |-> f[i]], NEW T, \A i \in 1..n : f[i] \in T
  PROVE  f \in Seq(T)
<1>1. f \in [1..n -> T]
  OBVIOUS
<1> QED
  BY <1>1, SeqDef

LEMMA JoinedType ==
  ASSUME NEW S, NEW T, NEW p \in Seq(S), NEW q \in Seq(T)
  PROVE  p \o q \in Seq(S \cup T)
<1>1. p \in Seq(S \cup T) /\ q \in Seq(S \cup T)
  OBVIOUS
<1> QED
  BY <1>1, ConcatProperties

(* A book read in two parts selects what the whole book selects: the second *)
(* part must have a higher priority to prevail.                             *)
LEMMA BooksJoin ==
  ASSUME NEW c, NEW t, NEW p, NEW q, IsBook(p), IsBook(q)
  PROVE  SelectedPolicy(c, p \o q, t) =
           IF /\ Declared(SelectedPolicy(c, q, t))
              /\ Declared(SelectedPolicy(c, p, t)) =>
                   PriorityOf(SelectedPolicy(c, q, t)) > PriorityOf(SelectedPolicy(c, p, t))
           THEN SelectedPolicy(c, q, t) ELSE SelectedPolicy(c, p, t)
<1>1. PICK r : r = p \o q
  OBVIOUS
<1>2. PICK n \in Nat : n = Len(p) /\ DOMAIN p = 1..n
  BY LenProperties DEF IsBook
<1>3. PICK m \in Nat : m = Len(q) /\ DOMAIN q = 1..m
  BY LenProperties DEF IsBook
<1>4. /\ DOMAIN r = 1..(n + m)
      /\ \A i \in 1..n : r[i] = p[i]
      /\ \A i \in 1..m : r[n + i] = q[i]
  <2>1. p \in Seq(Elements(p) \cup Elements(q)) /\ q \in Seq(Elements(p) \cup Elements(q))
    BY <1>2, <1>3, LenProperties DEF IsBook, Elements
  <2>2. r \in Seq(Elements(p) \cup Elements(q)) /\ Len(r) = n + m
        /\ \A i \in 1..(n + m) : r[i] = IF i <= n THEN p[i] ELSE q[i - n]
    BY <1>1, <1>2, <1>3, <2>1, ConcatProperties
  <2>3. DOMAIN r = 1..(n + m)
    BY <2>2, LenProperties
  <2>4. \A i \in 1..n : i \in 1..(n + m) /\ i <= n
    OBVIOUS
  <2>5. \A i \in 1..m : n + i \in 1..(n + m) /\ ~(n + i <= n) /\ (n + i) - n = i
    OBVIOUS
  <2> QED
    BY <2>2, <2>3, <2>4, <2>5
<1>5. PICK P : P = MatchingPolicies(c, p, t)
  OBVIOUS
<1>6. PICK Q : Q = MatchingPolicies(c, q, t)
  OBVIOUS
<1>7. PICK R : R = MatchingPolicies(c, r, t)
  OBVIOUS
<1>8. /\ P \subseteq 1..n /\ Q \subseteq 1..m
      /\ \A i \in 1..n : i \in R <=> i \in P
      /\ \A i \in 1..m : n + i \in R <=> i \in Q
      /\ \A k \in R : k \in P \/ \E i \in Q : k = n + i
  <2>1. \A i \in 1..n : i \in 1..(n + m)
    OBVIOUS
  <2>2. \A i \in 1..m : n + i \in 1..(n + m)
    OBVIOUS
  <2>3. \A k \in 1..(n + m) : k \in 1..n \/ \E i \in 1..m : k = n + i
    <3> TAKE k \in 1..(n + m)
    <3>1. CASE k <= n
      BY <3>1
    <3>2. CASE k > n
      <4>1. k - n \in 1..m /\ k = n + (k - n)
        BY <3>2
      <4> QED
        BY <4>1
    <3> QED
      BY <3>1, <3>2
  <2>4. /\ P = {i \in 1..n : PolicyMatchesClassification(p[i], c, t)}
        /\ Q = {i \in 1..m : PolicyMatchesClassification(q[i], c, t)}
        /\ R = {i \in 1..(n + m) : PolicyMatchesClassification(r[i], c, t)}
    BY <1>2, <1>3, <1>4, <1>5, <1>6, <1>7 DEF MatchingPolicies
  <2>5. \A i \in 1..n : i \in R <=> i \in P
    BY <1>4, <2>1, <2>4
  <2>6. \A i \in 1..m : n + i \in R <=> i \in Q
    BY <1>4, <2>2, <2>4
  <2>7. ASSUME NEW k \in R PROVE k \in P \/ \E i \in Q : k = n + i
    <3>1. k \in 1..(n + m)
      BY <2>4
    <3> QED
      BY <2>3, <2>5, <2>6, <3>1
  <2>8. P \subseteq 1..n /\ Q \subseteq 1..m
    BY <2>4
  <2> QED
    BY <2>5, <2>6, <2>7, <2>8
<1>9. IsBook(r)
  <2>1. r \in Seq(Elements(r))
    <3>1. r \in Seq(Elements(p) \cup Elements(q))
      BY <1>1, JoinedType DEF IsBook
    <3>2. Len(r) \in Nat /\ DOMAIN r = 1..Len(r) /\ r = [i \in 1..Len(r) |-> r[i]]
      BY <3>1, LenProperties
    <3> QED
      BY <3>2, ListOfMembers DEF Elements
  <2>2. ASSUME NEW policy \in Elements(r) PROVE policy \in Elements(p) \cup Elements(q)
    <3>1. PICK k \in 1..(n + m) : policy = r[k]
      BY <1>4 DEF Elements
    <3>2. CASE k <= n
      BY <1>2, <1>4, <3>1, <3>2 DEF Elements
    <3>3. CASE k > n
      <4>1. PICK i \in 1..m : k = n + i
        <5>1. k - n \in 1..m /\ k = n + (k - n)
          BY <3>3
        <5> QED
          BY <5>1
      <4> QED
        BY <1>3, <1>4, <3>1, <4>1 DEF Elements
    <3> QED
      BY <3>2, <3>3
  <2> QED
    BY <2>1, <2>2 DEF IsBook
<1>10. /\ \A i \in P : Declared(p[i]) /\ PriorityOf(p[i]) \in Int /\ r[i] = p[i] /\ i \in R /\ i <= n
       /\ \A i \in Q : Declared(q[i]) /\ PriorityOf(q[i]) \in Int /\ r[n + i] = q[i] /\ n + i \in R
                       /\ n + i > n
  <2>1. \A i \in 1..n : Declared(p[i]) /\ PriorityOf(p[i]) \in Int
    BY <1>2 DEF IsBook, Elements
  <2>2. \A i \in 1..m : Declared(q[i]) /\ PriorityOf(q[i]) \in Int
    BY <1>3 DEF IsBook, Elements
  <2>3. ASSUME NEW i \in P
        PROVE  /\ Declared(p[i]) /\ PriorityOf(p[i]) \in Int
               /\ r[i] = p[i] /\ i \in R /\ i <= n
    <3>1. i \in 1..n
      BY <1>8
    <3> QED
      BY <1>4, <1>8, <2>1, <3>1
  <2>4. ASSUME NEW i \in Q
        PROVE  /\ Declared(q[i]) /\ PriorityOf(q[i]) \in Int
               /\ r[n + i] = q[i] /\ n + i \in R /\ n + i > n
    <3>1. i \in 1..m
      BY <1>8
    <3>2. n + i > n
      BY <3>1
    <3> QED
      BY <1>4, <1>8, <2>2, <3>1, <3>2
  <2> QED
    BY <2>3, <2>4
<1>11. /\ P = {} => SelectedPolicy(c, p, t) = Null
       /\ P # {} => \E k \in P : IsFirst(p, P, k)
       /\ \A k : IsFirst(p, P, k) => SelectedPolicy(c, p, t) = p[k]
  BY <1>5, FirstIsSelected
<1>12. /\ Q = {} => SelectedPolicy(c, q, t) = Null
       /\ Q # {} => \E k \in Q : IsFirst(q, Q, k)
       /\ \A k : IsFirst(q, Q, k) => SelectedPolicy(c, q, t) = q[k]
  BY <1>6, FirstIsSelected
<1>13. /\ R = {} => SelectedPolicy(c, r, t) = Null
       /\ \A k : IsFirst(r, R, k) => SelectedPolicy(c, r, t) = r[k]
  BY <1>7, <1>9, FirstIsSelected
<1>14. ASSUME NEW k, IsFirst(p, P, k),
              \A i \in Q : PriorityOf(p[k]) >= PriorityOf(q[i])
       PROVE  SelectedPolicy(c, r, t) = p[k]
  <2>1. k \in P /\ k \in R /\ r[k] = p[k] /\ k <= n /\ k \in Int
    BY <1>8, <1>10, <1>14 DEF IsFirst
  <2>2. ASSUME NEW j \in R PROVE ~GoesBefore(r, j, k)
    <3>1. CASE j \in P
      BY <1>10, <1>14, <2>1, <3>1 DEF IsFirst, GoesBefore
    <3>2. CASE \E i \in Q : j = n + i
      <4>1. PICK i \in Q : j = n + i
        BY <3>2
      <4>2. r[j] = q[i] /\ j > n /\ PriorityOf(q[i]) \in Int /\ PriorityOf(p[k]) \in Int
            /\ j \in Int
        BY <1>8, <1>10, <2>1, <4>1
      <4> QED
        BY <1>14, <2>1, <4>2 DEF GoesBefore
    <3> QED
      BY <1>8, <3>1, <3>2
  <2> QED
    BY <1>13, <2>1, <2>2 DEF IsFirst
<1>15. ASSUME NEW k, IsFirst(q, Q, k),
              \A i \in P : PriorityOf(q[k]) > PriorityOf(p[i])
       PROVE  SelectedPolicy(c, r, t) = q[k]
  <2>1. k \in Q /\ n + k \in R /\ r[n + k] = q[k] /\ k \in Int
    BY <1>8, <1>10, <1>15 DEF IsFirst
  <2>2. ASSUME NEW j \in R PROVE ~GoesBefore(r, j, n + k)
    <3>1. CASE j \in P
      <4>1. r[j] = p[j] /\ PriorityOf(p[j]) \in Int /\ PriorityOf(q[k]) \in Int
            /\ PriorityOf(q[k]) > PriorityOf(p[j])
        BY <1>10, <1>15, <2>1, <3>1
      <4> QED
        BY <2>1, <4>1 DEF GoesBefore
    <3>2. CASE \E i \in Q : j = n + i
      <4>1. PICK i \in Q : j = n + i
        BY <3>2
      <4>2. r[j] = q[i] /\ i \in Int /\ ~GoesBefore(q, i, k)
        BY <1>8, <1>10, <1>15, <4>1 DEF IsFirst
      <4>3. n + i < n + k <=> i < k
        BY <2>1, <4>2
      <4> QED
        BY <2>1, <4>1, <4>2, <4>3 DEF GoesBefore
    <3> QED
      BY <1>8, <3>1, <3>2
  <2> QED
    BY <1>13, <2>1, <2>2 DEF IsFirst
<1>16. CASE P = {} /\ Q = {}
  <2>1. R = {}
    BY <1>8, <1>16
  <2> QED
    BY <1>1, <1>11, <1>12, <1>13, <1>16, <2>1 DEF Declared
<1>17. CASE P # {} /\ Q = {}
  <2>1. PICK k \in P : IsFirst(p, P, k)
    BY <1>11, <1>17
  <2>2. SelectedPolicy(c, r, t) = p[k] /\ SelectedPolicy(c, p, t) = p[k]
    BY <1>11, <1>14, <1>17, <2>1
  <2> QED
    BY <1>1, <1>12, <1>17, <2>2 DEF Declared
<1>18. CASE P = {} /\ Q # {}
  <2>1. PICK k \in Q : IsFirst(q, Q, k)
    BY <1>12, <1>18
  <2>2. SelectedPolicy(c, r, t) = q[k] /\ SelectedPolicy(c, q, t) = q[k] /\ Declared(q[k])
    BY <1>10, <1>12, <1>15, <1>18, <2>1
  <2> QED
    BY <1>1, <1>11, <1>18, <2>2 DEF Declared
<1>19. CASE P # {} /\ Q # {}
  <2>1. PICK k \in P : IsFirst(p, P, k)
    BY <1>11, <1>19
  <2>2. PICK l \in Q : IsFirst(q, Q, l)
    BY <1>12, <1>19
  <2>3. /\ SelectedPolicy(c, p, t) = p[k] /\ SelectedPolicy(c, q, t) = q[l]
        /\ Declared(p[k]) /\ Declared(q[l])
        /\ PriorityOf(p[k]) \in Int /\ PriorityOf(q[l]) \in Int
    BY <1>10, <1>11, <1>12, <2>1, <2>2
  <2>4. CASE PriorityOf(q[l]) > PriorityOf(p[k])
    <3>1. \A i \in P : PriorityOf(p[i]) <= PriorityOf(p[k])
      BY <1>10, <2>1 DEF IsFirst, GoesBefore
    <3>2. \A i \in P : PriorityOf(q[l]) > PriorityOf(p[i])
      BY <1>10, <2>3, <2>4, <3>1
    <3> QED
      BY <1>1, <1>15, <2>2, <2>3, <2>4, <3>2
  <2>5. CASE ~(PriorityOf(q[l]) > PriorityOf(p[k]))
    <3>1. \A i \in Q : PriorityOf(q[i]) <= PriorityOf(q[l])
      BY <1>10, <2>2 DEF IsFirst, GoesBefore
    <3>2. \A i \in Q : PriorityOf(p[k]) >= PriorityOf(q[i])
      BY <1>10, <2>3, <2>5, <3>1
    <3> QED
      BY <1>1, <1>14, <2>1, <2>3, <2>5, <3>2
  <2> QED
    BY <2>4, <2>5
<1> QED
  BY <1>16, <1>17, <1>18, <1>19

(* The transition only takes policies out of the list: it never reorders.   *)
LEMMA AuthorityOnlyFilters ==
  ASSUME NEW c, NEW t, NEW book, IsBook(book), Declared(t), Declared(t.authority)
  PROVE  KeepsAllowed(MatchedPolicies(c, book, t), MatchedPolicies(c, book, Null), t.authority)
<1>1. PICK kept : kept = MatchedPolicies(c, book, t)
  OBVIOUS
<1>2. PICK all : all = MatchedPolicies(c, book, Null)
  OBVIOUS
<1>3. PICK M : M = MatchingPolicies(c, book, t)
  OBVIOUS
<1>4. PICK N : N = MatchingPolicies(c, book, Null)
  OBVIOUS
<1>5. M \subseteq N /\ \A k \in N : k \in M <=> Lists(book[k].allowedAuthorities, t.authority)
  BY <1>3, <1>4 DEF MatchingPolicies, PolicyMatchesClassification, Lists, Declared
<1>6. PICK m : m = Cardinality(M)
  OBVIOUS
<1>7. PICK n : n = Cardinality(N)
  OBVIOUS
<1>8. /\ IsFiniteSet(M) /\ (\A k \in M : k \in Int /\ PriorityOf(book[k]) \in Int)
      /\ m \in Nat /\ DOMAIN kept = 1..m
      /\ \A k \in M : PlaceOf(book, M, k) \in 1..m /\ kept[PlaceOf(book, M, k)] = book[k]
  BY <1>1, <1>3, <1>6, MatchedByPlace
<1>9. /\ IsFiniteSet(N) /\ (\A k \in N : k \in Int /\ PriorityOf(book[k]) \in Int)
      /\ n \in Nat /\ DOMAIN all = 1..n
      /\ \A k \in N : PlaceOf(book, N, k) \in 1..n /\ all[PlaceOf(book, N, k)] = book[k]
  BY <1>2, <1>4, <1>7, MatchedByPlace
<1>10. /\ \A j, k \in M : GoesBefore(book, j, k) <=> PlaceOf(book, M, j) < PlaceOf(book, M, k)
       /\ \A j, k \in M : PlaceOf(book, M, j) = PlaceOf(book, M, k) => j = k
       /\ \A i \in 1..m : \E k \in M : PlaceOf(book, M, k) = i
  BY <1>6, <1>8, PlacesRank
<1>11. /\ \A j, k \in N : GoesBefore(book, j, k) <=> PlaceOf(book, N, j) < PlaceOf(book, N, k)
       /\ \A j, k \in N : PlaceOf(book, N, j) = PlaceOf(book, N, k) => j = k
       /\ \A i \in 1..n : \E k \in N : PlaceOf(book, N, k) = i
  BY <1>7, <1>9, PlacesRank
<1> DEFINE policy(i) == CHOOSE k \in M : PlaceOf(book, M, k) = i
           at == [i \in 1..m |-> PlaceOf(book, N, policy(i))]
<1>12. \A i \in 1..m : policy(i) \in M /\ PlaceOf(book, M, policy(i)) = i
  BY <1>10
<1> HIDE DEF policy
<1>13. at \in [1..m -> 1..n]
  BY <1>5, <1>9, <1>12
<1>14. ASSUME NEW i \in 1..m, NEW j \in 1..m, i < j PROVE at[i] < at[j]
  <2>1. GoesBefore(book, policy(i), policy(j))
    BY <1>10, <1>12, <1>14
  <2> QED
    BY <1>5, <1>11, <1>12, <2>1
<1>15. ASSUME NEW i \in 1..m PROVE kept[i] = all[at[i]]
  BY <1>5, <1>8, <1>9, <1>12
<1>16. ASSUME NEW i \in 1..m PROVE at[i] \in 1..n /\ Lists(all[at[i]].allowedAuthorities, t.authority)
  BY <1>5, <1>9, <1>12
<1>17. ASSUME NEW l \in 1..n, Lists(all[l].allowedAuthorities, t.authority)
       PROVE  \E i \in 1..m : at[i] = l
  <2>1. PICK k \in N : PlaceOf(book, N, k) = l
    BY <1>11
  <2>2. k \in M
    BY <1>5, <1>9, <1>17, <2>1
  <2>3. PICK i \in 1..m : PlaceOf(book, M, k) = i
    BY <1>8, <2>2
  <2>4. policy(i) = k
    <3>1. PlaceOf(book, M, policy(i)) = PlaceOf(book, M, k)
      BY <1>12, <2>3
    <3>2. policy(i) \in M
      BY <1>12
    <3> QED
      BY <1>10, <2>2, <3>1, <3>2
  <2> QED
    BY <2>1, <2>3, <2>4
<1> HIDE DEF at
<1>18. {at[i] : i \in 1..m} = {l \in 1..n : Lists(all[l].allowedAuthorities, t.authority)}
  BY <1>16, <1>17
<1>19. KeepsAllowed(kept, all, t.authority)
  BY <1>8, <1>9, <1>13, <1>14, <1>15, <1>18 DEF KeepsAllowed
<1> QED
  BY <1>1, <1>2, <1>19

\* What is known of results besides their history: an accepted one was claimed by
\* an authority, and snapshots are maps.
IsMap(p) == p = [k \in DOMAIN p |-> p[k]]

HeldResults == \A c \in Callers : Declared(held[c]) => held[c].authority \in Authorities

EventResults == \A i \in 1..Len(trajectory.events) : trajectory.events[i].accepted

MapsInv == \A p \in Snapshots(trajectory) : IsMap(p)

ResultsInv == HistoryInv /\ HeldResults /\ EventResults /\ MapsInv

LEMMA EffectsLeaveMaps == \A p, r : IsMap(ApplyEffects(p, r))
BY DEF ApplyEffects, IsMap

LEMMA ResultsInit == Init => ResultsInv
<1> SUFFICES ASSUME Init PROVE ResultsInv
  OBVIOUS
<1>1. PICK p \in Initial : trajectory = CreateTrajectory(p)
  BY DEF Init
<1>2. HeldResults
  BY DEF Init, HeldResults, Declared
<1>3. trajectory.events = <<>> /\ trajectory.initialParameters = p /\ Len(<<>>) = 0
  BY <1>1, EmptySeq DEF CreateTrajectory
<1>4. Snapshots(trajectory) = {p}
  BY <1>3 DEF Snapshots
<1>5. EventResults /\ MapsInv
  BY <1>3, <1>4, SnapshotsAreFinite DEF EventResults, MapsInv, IsMap
<1> QED
  BY <1>2, <1>5, HistoryInit DEF ResultsInv

LEMMA EvaluateKeepsResults ==
  ASSUME ResultsInv, NEW caller \in Callers, Evaluate(caller)
  PROVE  HeldResults' /\ EventResults' /\ MapsInv'
<1>0. PICK r \in Rules, a \in Authorities :
        \E s : held' = [held EXCEPT ![caller] = EvaluateTransition(r,
                         [ruleId |-> r.id, sourceStateId |-> s, authority |-> a,
                          parameters |-> CurrentParameters(trajectory)], StateDefs)]
  BY DEF Evaluate
<1>1. PICK s :
        held' = [held EXCEPT ![caller] = EvaluateTransition(r,
                   [ruleId |-> r.id, sourceStateId |-> s, authority |-> a,
                    parameters |-> CurrentParameters(trajectory)], StateDefs)]
  BY <1>0
<1>2. PICK t : t = EvaluateTransition(r, [ruleId |-> r.id, sourceStateId |-> s, authority |-> a,
                                          parameters |-> CurrentParameters(trajectory)], StateDefs)
  OBVIOUS
<1>3. t.authority = a
  BY <1>2 DEF EvaluateTransition
<1>4. held' = [held EXCEPT ![caller] = t] /\ trajectory' = trajectory
  BY <1>1, <1>2 DEF Evaluate
<1>5. held = [c \in Callers |-> held[c]]
  BY DEF ResultsInv, HistoryInv, HeldHistory
<1>6. HeldResults'
  BY <1>3, <1>4, <1>5 DEF ResultsInv, HeldResults
<1> QED
  BY <1>4, <1>6 DEF ResultsInv, EventResults, MapsInv

LEMMA CommitKeepsResults ==
  ASSUME ResultsInv, NEW caller \in Callers, Commit(caller)
  PROVE  HeldResults' /\ EventResults' /\ MapsInv'
<1>1. PICK e : e = held[caller]
  OBVIOUS
<1>2. PICK u : u = trajectory'
  OBVIOUS
<1>3. PICK n \in Nat : n = Len(trajectory.events)
  BY CommitAppends DEF ResultsInv, HistoryInv
<1>4. /\ u.initialParameters = trajectory.initialParameters
      /\ Len(u.events) = n + 1 /\ u.events[n + 1] = e
      /\ \A i \in 1..n : u.events[i] = trajectory.events[i]
  BY <1>1, <1>2, <1>3, CommitAppends DEF ResultsInv, HistoryInv
<1>5. held' = held /\ e.accepted /\ Applied(e)
  BY <1>1 DEF Commit, AdmitsTransition, ResultsInv, HistoryInv, HeldHistory
<1>6. \A i \in 1..(n + 1) : i \in 1..n \/ i = n + 1
  OBVIOUS
<1>7. HeldResults'
  BY <1>5 DEF ResultsInv, HeldResults
<1>8. EventResults'
  <2>1. \A i \in 1..n : trajectory.events[i].accepted
    BY <1>3 DEF ResultsInv, EventResults
  <2>2. \A i \in 1..(n + 1) : u.events[i].accepted
    BY <1>4, <1>5, <1>6, <2>1
  <2> QED
    BY <1>2, <1>4, <2>2 DEF EventResults
<1>9. MapsInv'
  <2>1. ASSUME NEW p \in Snapshots(u) PROVE p \in Snapshots(trajectory) \/ p = e.after
    BY <1>3, <1>4, <1>6 DEF Snapshots
  <2>2. IsMap(e.after)
    BY <1>5, EffectsLeaveMaps DEF Applied
  <2>3. \A p \in Snapshots(trajectory) : IsMap(p)
    BY DEF ResultsInv, MapsInv
  <2> QED
    BY <1>2, <2>1, <2>2, <2>3 DEF MapsInv
<1> QED
  BY <1>7, <1>8, <1>9

LEMMA ResultsStep == ResultsInv /\ HistoryInv' /\ [Next]_vars => ResultsInv'
<1> SUFFICES ASSUME ResultsInv, HistoryInv', [Next]_vars PROVE ResultsInv'
  OBVIOUS
<1>1. CASE Next
  BY <1>1, EvaluateKeepsResults, CommitKeepsResults DEF Next, ResultsInv
<1>2. CASE UNCHANGED vars
  BY <1>2 DEF vars, ResultsInv, HeldResults, EventResults, MapsInv
<1> QED
  BY <1>1, <1>2

(* What is held and committed are results of authorities on maps.           *)
THEOREM ResultsInvariant == Spec => []ResultsInv
BY ResultsInit, ResultsStep, HistoryInvariant, PTL DEF Spec

-----------------------------------------------------------------------------
LEMMA ChangesAreFinite ==
  ASSUME NEW t, IsFiniteSet(DOMAIN t.before), IsFiniteSet(DOMAIN t.after)
  PROVE  /\ IsFiniteSet(ChangedParameterKeys(t))
         /\ Cardinality(ChangedParameterKeys(t)) \in Nat
<1>1. IsFiniteSet(DOMAIN t.before \cup DOMAIN t.after)
  BY FS_Union
<1>2. IsFiniteSet(ChangedParameterKeys(t))
  BY <1>1, FS_Subset DEF ChangedParameterKeys
<1> QED
  BY <1>2, FS_CardinalityType

LEMMA RankOfRegimes ==
  /\ Rank("no_change") = 1 /\ Rank("local_adjustment") = 2
  /\ Rank("partial_reconfiguration") = 3 /\ Rank("regime_shift") = 4
  /\ Rank("structural_inversion") = 5
<1> DEFINE At(class) == {i \in 1..5 : Regimes[i] = class}
<1>1. Len(Regimes) = 5
  BY DEF Regimes
<1>2. /\ Regimes[1] = "no_change" /\ Regimes[2] = "local_adjustment"
      /\ Regimes[3] = "partial_reconfiguration" /\ Regimes[4] = "regime_shift"
      /\ Regimes[5] = "structural_inversion"
  BY DEF Regimes
<1>3. \A i \in 1..5 : i = 1 \/ i = 2 \/ i = 3 \/ i = 4 \/ i = 5
  OBVIOUS
<1>4. \A i \in 1..5 : At(Regimes[i]) = {i}
  BY <1>2, <1>3
<1>5. \A i \in 1..5 : Min({i}) = i
  BY DEF Min
<1> HIDE DEF At
<1>6. \A i \in 1..5 : Rank(Regimes[i]) = i
  <2> TAKE i \in 1..5
  <2>1. PICK class : class = Regimes[i]
    OBVIOUS
  <2>2. Rank(class) = IF At(class) # {} THEN Min(At(class)) ELSE 0
    BY <1>1 DEF Rank, SelectInSeq, At
  <2>3. At(class) = {i}
    BY <1>4, <2>1
  <2> QED
    BY <1>5, <2>1, <2>2, <2>3
<1> QED
  BY <1>2, <1>6

LEMMA ResolvedThresholds ==
  ASSUME NEW given \in ThresholdSets
  PROVE  /\ Resolved(given).localMaxChangedParameters \in Int
         /\ Resolved(given).partialMaxChangedParameters \in Int
         /\ Resolved(given).inversionMinChangedParameters \in Int
<1>1. \A name \in DOMAIN given : given[name] \in Int
  BY ThresholdsAreNumbers
<1> QED
  BY <1>1 DEF Resolved, DefaultThresholds

(* A larger change never has a lesser class, whatever numbers the           *)
(* thresholds are, in whatever order.                                       *)
LEMMA LargerChangesRankHigher ==
  ASSUME NEW given \in ThresholdSets, NEW t, NEW u, t.accepted, u.accepted,
         NEW m \in Nat, NEW n \in Nat, n > m
  PROVE  Rank(RegimeClass(u, n, Resolved(given))) >= Rank(RegimeClass(t, m, Resolved(given)))
BY ResolvedThresholds, RankOfRegimes DEF RegimeClass

\* An accepted result that is held or committed compares two finite maps.
Comparable(t) ==
  /\ IsMap(t.before) /\ IsFiniteSet(DOMAIN t.before)
  /\ IsMap(t.after) /\ IsFiniteSet(DOMAIN t.after)

LEMMA SnapshotsAreFiniteMaps ==
  ASSUME ResultsInv, NEW p \in Snapshots(trajectory)
  PROVE  IsMap(p) /\ IsFiniteSet(DOMAIN p)
BY DEF ResultsInv, MapsInv, HistoryInv, SnapshotsHistory, Traceable

(* An accepted result started from a snapshot of the trajectory and assigned *)
(* finitely many keys.                                                      *)
LEMMA AcceptedAreComparable ==
  ASSUME ResultsInv
  PROVE  /\ \A t \in Results : t.accepted => Comparable(t)
         /\ \A i \in 1..Len(trajectory.events) : Comparable(trajectory.events[i])
<1>1. ASSUME NEW t \in Results, t.accepted PROVE Comparable(t)
  <2>1. PICK c \in Callers : t = held[c] /\ Declared(held[c])
    BY DEF Results
  <2>2. t.before \in Snapshots(trajectory) /\ Applied(t)
    BY <1>1, <2>1 DEF ResultsInv, HistoryInv, HeldHistory
  <2>3. PICK r \in Rules : t.after = ApplyEffects(t.before, r)
    BY <2>2 DEF Applied
  <2>4. Replaces(r, t.before, t.after)
    BY <2>3, EffectsReplaceValues
  <2>5. IsMap(t.before) /\ IsFiniteSet(DOMAIN t.before)
    BY <2>2, SnapshotsAreFiniteMaps
  <2> QED
    BY <2>3, <2>4, <2>5, EffectsLeaveMaps DEF Comparable, Replaces
<1>2. ASSUME NEW i \in 1..Len(trajectory.events) PROVE Comparable(trajectory.events[i])
  <2>1. PICK S : trajectory.events \in Seq(S)
    BY DEF ResultsInv, HistoryInv, EventsAreListed
  <2>2. \A j \in 1..(i - 1) : j \in 1..Len(trajectory.events)
    BY <2>1, LenProperties
  <2>3. trajectory.events[i].before \in Snapshots(trajectory)
    BY <2>2 DEF ResultsInv, HistoryInv, EventsHistory, Snapshots
  <2>4. trajectory.events[i].after \in Snapshots(trajectory)
    BY DEF Snapshots
  <2> QED
    BY <2>3, <2>4, SnapshotsAreFiniteMaps DEF Comparable
<1> QED
  BY <1>1, <1>2

LEMMA ClassOfResult ==
  ASSUME NEW t, NEW given, NEW m, m = Cardinality(ChangedParameterKeys(t))
  PROVE  /\ ClassifyTransitionRegime(t, given).changeMagnitude = m
         /\ ClassifyTransitionRegime(t, given).regimeClass = RegimeClass(t, m, Resolved(given))
BY DEF ClassifyTransitionRegime

(* No key has changed only if the snapshot is the same.                     *)
LEMMA UnchangedMapsAreEqual ==
  ASSUME NEW t, Comparable(t)
  PROVE  Cardinality(ChangedParameterKeys(t)) = 0 <=> t.before = t.after
<1>1. PICK p : p = t.before
  OBVIOUS
<1>2. PICK q : q = t.after
  OBVIOUS
<1>3. PICK keys : keys = ChangedParameterKeys(t)
  OBVIOUS
<1>4. Cardinality(keys) = 0 <=> keys = {}
  BY <1>3, ChangesAreFinite, FS_EmptySet DEF Comparable
<1>5. keys = {k \in DOMAIN p \cup DOMAIN q : ~SameValue(p, q, k)}
  BY <1>1, <1>2, <1>3 DEF ChangedParameterKeys
<1>6. p = q => keys = {}
  BY <1>5 DEF SameValue
<1>7. ASSUME keys = {} PROVE p = q
  <2>1. \A k \in DOMAIN p \cup DOMAIN q : SameValue(p, q, k)
    BY <1>5, <1>7
  <2>2. DOMAIN p = DOMAIN q /\ \A k \in DOMAIN p : p[k] = q[k]
    BY <2>1 DEF SameValue
  <2>3. p = [k \in DOMAIN p |-> p[k]] /\ q = [k \in DOMAIN q |-> q[k]]
    BY <1>1, <1>2 DEF Comparable, IsMap
  <2> QED
    BY <2>2, <2>3
<1> QED
  BY <1>1, <1>2, <1>3, <1>4, <1>6, <1>7

LEMMA NoChangeIsExact ==
  ASSUME NEW t, t.accepted, Comparable(t), NEW given
  PROVE  ClassifyTransitionRegime(t, given).regimeClass = "no_change" <=>
           t.before = t.after /\ t.sourceStateId = t.targetStateId
<1>1. PICK m : m = Cardinality(ChangedParameterKeys(t))
  OBVIOUS
<1>2. PICK class : class = ClassifyTransitionRegime(t, given).regimeClass
  OBVIOUS
<1>3. class = RegimeClass(t, m, Resolved(given))
  BY <1>1, <1>2, ClassOfResult
<1>4. class = "no_change" <=> m = 0 /\ ~StateChanged(t)
  BY <1>3 DEF RegimeClass
<1> QED
  BY <1>1, <1>2, <1>4, UnchangedMapsAreEqual DEF StateChanged

(* Regimes and policies follow the results of every trajectory: of any      *)
(* thresholds that are numbers, any books whose priorities are, and however *)
(* results were held back and committed.                                    *)
THEOREM TrajectoryPoliciesFollow == Spec => []PoliciesFollowResults
<1>1. ResultsInv => PoliciesFollowResults
  <2> SUFFICES ASSUME ResultsInv PROVE PoliciesFollowResults
    OBVIOUS
  <2> DEFINE class(t, given) == ClassifyTransitionRegime(t, given)
             Magnitude(t) == Cardinality(ChangedParameterKeys(t))
  <2>1. \A t, given : /\ class(t, given).changeMagnitude = Magnitude(t)
                      /\ class(t, given).regimeClass
                           = RegimeClass(t, Magnitude(t), Resolved(given))
    BY ClassOfResult
  <2>2. ASSUME NEW t \in Results, NEW given
        PROVE  class(t, given).regimeClass = "unclassified" <=> ~t.accepted
    BY <2>1 DEF RegimeClass
  <2>3. ASSUME NEW t \in Results, t.accepted PROVE Magnitude(t) \in Nat
    BY <2>3, AcceptedAreComparable, ChangesAreFinite DEF Comparable
  <2>4. ASSUME NEW t \in Results, NEW u \in Results, t.accepted, u.accepted,
               NEW given \in ThresholdSets,
               class(u, given).changeMagnitude > class(t, given).changeMagnitude
        PROVE  Rank(class(u, given).regimeClass) >= Rank(class(t, given).regimeClass)
    BY <2>1, <2>3, <2>4, LargerChangesRankHigher
  <2>5. ASSUME NEW t \in Results PROVE Declared(t) /\ Declared(t.authority)
    BY AuthoritiesAreNamed DEF Results, ResultsInv, HeldResults, Declared
  <2>6. ASSUME NEW e \in Elements(trajectory.events), NEW given
        PROVE  class(e, given).regimeClass = "no_change" <=>
                 e.before = e.after /\ e.sourceStateId = e.targetStateId
    <3>1. PICK S : trajectory.events \in Seq(S)
      BY DEF ResultsInv, HistoryInv, EventsAreListed
    <3>2. PICK i \in 1..Len(trajectory.events) : e = trajectory.events[i]
      BY <3>1, LenProperties DEF Elements
    <3>3. e.accepted /\ Comparable(e)
      BY <3>2, AcceptedAreComparable DEF ResultsInv, EventResults
    <3> QED
      BY <3>3, NoChangeIsExact
  <2>7. ASSUME NEW c, NEW t, NEW p \in PolicyBooks, NEW q \in PolicyBooks
        PROVE  SelectedPolicy(c, p \o q, t) =
                 IF /\ Declared(SelectedPolicy(c, q, t))
                    /\ Declared(SelectedPolicy(c, p, t)) =>
                         PriorityOf(SelectedPolicy(c, q, t)) > PriorityOf(SelectedPolicy(c, p, t))
                 THEN SelectedPolicy(c, q, t) ELSE SelectedPolicy(c, p, t)
    BY BooksListPolicies, BooksJoin
  <2>8. ASSUME NEW c, NEW t \in Results, NEW p \in PolicyBooks
        PROVE  KeepsAllowed(MatchedPolicies(c, p, t), MatchedPolicies(c, p, Null), t.authority)
    BY <2>5, BooksListPolicies, AuthorityOnlyFilters
  <2> QED
    BY <2>2, <2>4, <2>6, <2>7, <2>8 DEF PoliciesFollowResults
<1> QED
  BY <1>1, ResultsInvariant, PTL
=============================================================================
