-------------------------- MODULE KernelTrajectory --------------------------
(***************************************************************************)
(* A trajectory (packages/kernel/src/trajectories.ts) shared by several    *)
(* callers.  Each evaluates an attempt at the head it sees and commits the *)
(* result later, or twice, while others commit theirs: appendTransition()  *)
(* is where such results meet.  A call that throws changes nothing.  What  *)
(* the rest of the kernel says of a trajectory is asked of it at every     *)
(* moment: which of its snapshots validate, how far it has drifted, the    *)
(* regime of each transition, and the policies resolved for it.            *)
(***************************************************************************)
EXTENDS KernelFunctions

CONSTANTS
  StateDefs,      \* the derived state definitions, in order
  Rules,          \* the transition rules
  Authorities,    \* the authorities an attempt may claim
  Initial,        \* the snapshots a trajectory may start from
  Callers,        \* who evaluates and commits
  MaxEvents,      \* bound on the length of the trajectory
  ParameterDefs,  \* the parameter definitions, in order
  PolicyBooks,    \* the lists of policies that are resolved against
  ThresholdSets   \* thresholds that callers pass

VARIABLES
  trajectory,  \* [initialParameters, initialStateId, events]
  held         \* caller -> the last result it evaluated, or Null

vars == <<trajectory, held>>

\* The expressions of states and rules.
Expressions == {d.predicates : d \in Elements(StateDefs)}
                 \cup {r.guards : r \in {q \in Rules : Declared(q.guards)}}

\* Trees: every node but the root is a member of a group before it.
IsTree(expression) ==
  /\ expression \in Seq(Elements(expression)) /\ expression # <<>>
  /\ \A i \in DOMAIN expression : Members(expression[i]) \subseteq (i + 1)..Len(expression)
  /\ \A i \in DOMAIN expression \ {1} : \E j \in 1..(i - 1) : i \in Members(expression[j])

ASSUME SnapshotsAreFinite ==
  \A p \in Initial : IsFiniteSet(DOMAIN p) /\ p = [k \in DOMAIN p |-> p[k]]

ASSUME RulesAssignInOrder == \A r \in Rules : r.effects \in Seq(Elements(r.effects))

ASSUME ExpressionsAreTrees == \A x \in Expressions : IsTree(x)

ASSUME RuleIdsAreUnique == \A q, r \in Rules : q.id = r.id => q = r

ASSUME AuthoritiesAreNamed == Null \notin Authorities

ASSUME ThresholdsAreNumbers ==
  \A given \in ThresholdSets : \A name \in DOMAIN given : given[name] \in Int

\* A list of policies, with priorities that can be compared.
IsBook(book) ==
  /\ book \in Seq(Elements(book))
  /\ \A policy \in Elements(book) : Declared(policy) /\ PriorityOf(policy) \in Int

ASSUME BooksListPolicies == \A book \in PolicyBooks : IsBook(book)

Rule(id) == CHOOSE r \in Rules : r.id = id

CreateTrajectory(parameters) ==
  [initialParameters |-> parameters,
   initialStateId |-> SelectedState(StateDefs, parameters), events |-> <<>>]

\* events.at(-1)?.targetStateId ?? initialStateId: the initial state stands in
\* for a missing last event and for a null target alike.
CurrentStateId(t) ==
  IF t.events # <<>> /\ Declared(Last(t.events).targetStateId)
  THEN Last(t.events).targetStateId
  ELSE t.initialStateId

\* The snapshot a caller continues from.
CurrentParameters(t) ==
  IF t.events = <<>> THEN t.initialParameters ELSE Last(t.events).after

AppendTransition(t, transition) == [t EXCEPT !.events = Append(@, transition)]

\* Mutation: a result is committed wherever the trajectory has got to.
AdmitsAnywhere(t, transition) == transition.accepted

AdmitsTransition(t, transition) ==
  /\ transition.accepted
  /\ transition.sourceStateId = CurrentStateId(t)

Init ==
  /\ trajectory \in {CreateTrajectory(p) : p \in Initial}
  /\ held = [c \in Callers |-> Null]

\* A caller attempts a rule from the head; it takes the source state from the
\* trajectory or derives it from the parameters it continues from.
Evaluate(caller) ==
  LET parameters == CurrentParameters(trajectory)
  IN  /\ \E r \in Rules, a \in Authorities,
            s \in {CurrentStateId(trajectory), SelectedState(StateDefs, parameters)} :
           held' = [held EXCEPT ![caller] = EvaluateTransition(r,
                      [ruleId |-> r.id, sourceStateId |-> s, authority |-> a,
                       parameters |-> parameters], StateDefs)]
      /\ UNCHANGED trajectory

Commit(caller) ==
  LET transition == held[caller]
  IN  /\ Declared(transition)
      /\ AdmitsTransition(trajectory, transition)
      /\ Len(trajectory.events) < MaxEvents
      /\ trajectory' = AppendTransition(trajectory, transition)
      /\ UNCHANGED held

Next == \E c \in Callers : Evaluate(c) \/ Commit(c)

Spec == Init /\ [][Next]_vars

-----------------------------------------------------------------------------
(* A committed trajectory is connected: every transition leaves the state   *)
(* its predecessor reached, although its result may have been evaluated at  *)
(* an earlier head, or committed before.                                    *)
Connected ==
  \A i \in DOMAIN trajectory.events :
    trajectory.events[i].sourceStateId =
      IF i = 1 THEN trajectory.initialStateId ELSE trajectory.events[i - 1].targetStateId

(* Both ends of every committed transition are the states its own snapshots *)
(* select, and so is the head: a stale result can bring older parameters    *)
(* back, but never a state its parameters do not derive.                    *)
EndsAreDerived ==
  /\ \A e \in Elements(trajectory.events) :
       /\ e.sourceStateId = SelectedState(StateDefs, e.before)
       /\ e.targetStateId = SelectedState(StateDefs, e.after)
  /\ CurrentStateId(trajectory) = SelectedState(StateDefs, CurrentParameters(trajectory))

(* When the rules compile to a declared graph, committing walks that graph, *)
(* whatever the order in which concurrent results arrive.                   *)
Walk == INSTANCE DeclaredWalk WITH
  Edges  <- DeclaredEdges(Rules),
  at     <- CurrentStateId(trajectory),
  walked <- [i \in DOMAIN trajectory.events |->
              LET e == trajectory.events[i]
              IN  [edge |-> [ruleId |-> e.ruleId, sourceStateId |-> e.sourceStateId,
                             targetStateId |-> e.targetStateId,
                             allowedAuthorities |-> Rule(e.ruleId).allowedAuthorities],
                   authority |-> e.authority]]

WalksDeclaredGraph == Walk!Spec

-----------------------------------------------------------------------------
Drift(snapshot) ==
  {k \in DOMAIN snapshot \cup DOMAIN trajectory.initialParameters :
     ~SameValue(snapshot, trajectory.initialParameters, k)}

UnitWeights(snapshot) ==
  [i \in 1..Cardinality(DOMAIN snapshot) |->
     [parameterKey |-> SetToSeq(DOMAIN snapshot)[i], weight |-> 1]]

(* Nothing drifts unaccounted for, although results are evaluated at one    *)
(* head and committed at another: each event starts from the snapshot of an *)
(* earlier one, so every key on which the head differs from the start was   *)
(* reported as changed by some event before it, and the similarity of head  *)
(* and start counts just the keys that did not drift.                       *)
DriftIsAccounted ==
  LET events  == trajectory.events
      head    == CurrentParameters(trajectory)
      drifted == Drift(head)
      n       == Cardinality(DOMAIN head)
  IN  /\ events # <<>> => Last(events).before \in
           {trajectory.initialParameters} \cup {e.after : e \in Elements(Front(events))}
      /\ drifted \subseteq UNION {ChangedParameterKeys(e) : e \in Elements(events)}
      /\ WeightedSnapshotSimilarity(trajectory.initialParameters, head, UnitWeights(head))
           = (20000 * (n - Cardinality(drifted)) + n) \div (2 * n)

\* What a rule may be blamed for: it assigns what a definition refuses, or
\* what none declares.
Misassigned(rule) ==
  {e.key : e \in {f \in Elements(rule.effects) :
     \/ f.key \notin DefinedKeys(ParameterDefs)
     \/ \E d \in Elements(ParameterDefs) : d.key = f.key /\ ~IsValidValue(d, f.value)}}

(* Validating once is enough.  When the definitions and the references of   *)
(* states and rules validate, no test of theirs can fail for want of a      *)
(* value on a snapshot that validates; and what a later snapshot is refused *)
(* for was there from the start or was assigned by a rule on the way.       *)
ValidationCarries ==
  LET head  == CurrentParameters(trajectory)
      sound == ValidatePredicateParameterReferences(ParameterDefs, Expressions) = {}
  IN  /\ sound /\ ValidSnapshot(ParameterDefs, head) =>
           \A x \in Expressions : VariablesOf(x) \subseteq DOMAIN head
      /\ \A issue \in SnapshotIssues(ParameterDefs, head)
                       \ SnapshotIssues(ParameterDefs, trajectory.initialParameters) :
           \E e \in Elements(trajectory.events) :
             issue.parameterKey \in Misassigned(Rule(e.ruleId))

\* Committed transitions were held before they were committed.
Results == {held[c] : c \in {d \in Callers : Declared(held[d])}}

Regimes == <<"no_change", "local_adjustment", "partial_reconfiguration", "regime_shift",
             "structural_inversion">>

Rank(class) == SelectInSeq(Regimes, LAMBDA c : c = class)

\* One list is what is left of another when the policies that an authority is
\* not allowed are taken out.
KeepsAllowed(kept, all, authority) ==
  \E at \in [DOMAIN kept -> DOMAIN all] :
    /\ \A i, j \in DOMAIN kept : i < j => at[i] < at[j]
    /\ {at[i] : i \in DOMAIN kept}
         = {i \in DOMAIN all : Lists(all[i].allowedAuthorities, authority)}
    /\ \A i \in DOMAIN kept : kept[i] = all[at[i]]

(* Policies are resolved for what happened and not for how they are kept.   *)
(* A committed transition is in some class, the emptiest only if it left    *)
(* its state and its snapshot as they were, and a larger change is never in *)
(* a lesser class; a book read in two parts selects the same policy; and a  *)
(* caller that withholds the transition resolves the same policies, and     *)
(* besides them only those that its authority is not allowed.               *)
PoliciesFollowResults ==
  \A given \in ThresholdSets :
    LET class(t) == ClassifyTransitionRegime(t, given)
    IN  /\ \A t \in Results :
             LET c == class(t)
             IN  /\ c.regimeClass = "unclassified" <=> ~t.accepted
                 /\ \A u \in Results : 
                      t.accepted /\ u.accepted /\ class(u).changeMagnitude > c.changeMagnitude =>
                        Rank(class(u).regimeClass) >= Rank(c.regimeClass)
                 /\ \A p, q \in PolicyBooks :
                      LET inP == SelectedPolicy(c, p, t)
                          inQ == SelectedPolicy(c, q, t)
                          overrides == Declared(inQ) /\ (Declared(inP) =>
                                         PriorityOf(inQ) > PriorityOf(inP))
                      IN  SelectedPolicy(c, p \o q, t) = IF overrides THEN inQ ELSE inP
                 /\ \A p \in PolicyBooks :
                      KeepsAllowed(MatchedPolicies(c, p, t), MatchedPolicies(c, p, Null),
                                   t.authority)
        /\ \A e \in Elements(trajectory.events) :
             class(e).regimeClass = "no_change" <=>
               e.before = e.after /\ e.sourceStateId = e.targetStateId
=============================================================================
