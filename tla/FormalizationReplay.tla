------------------------ MODULE FormalizationReplay ------------------------
(***************************************************************************)
(* A caller that states its evidence in different ways: it lists the same  *)
(* observations in another order, or withdraws one of them.  The           *)
(* properties say what applyMathematicalAnchor() and the projection may    *)
(* make of the difference.                                                 *)
(***************************************************************************)
EXTENDS Formalization

CONSTANTS
  Contracts,    \* registered definitions
  Statements    \* the observation sequences a caller starts from

\* Registration refuses a definition that binds a key or a variable twice, or
\* whose predicates read a variable that no binding gives a value.
ASSUME ContractsAreRegistered ==
  \A c \in Contracts :
    /\ c.bindings \in Seq(Elements(c.bindings))
    /\ c.predicates \in Seq(Elements(c.predicates))
    /\ IsInjective([i \in DOMAIN c.bindings |-> c.bindings[i].key])
    /\ IsInjective([i \in DOMAIN c.bindings |-> c.bindings[i].variable])
    /\ \A p \in Elements(c.predicates) :
         /\ p.position \in Int
         /\ VariablesOf(p.expression) \subseteq {b.variable : b \in Elements(c.bindings)}

\* An observation has its four fields, and its value is a typed one.
ASSUME StatementsAreObservations ==
  \A s \in Statements :
    /\ s \in Seq(Elements(s))
    /\ \A o \in Elements(s) :
         /\ o = [key |-> o.key, value |-> o.value, unit |-> o.unit, evidence |-> o.evidence]
         /\ Present(o.value)

VARIABLES
  definition,   \* the registered definition applied
  observations  \* the caller's observations, as stated now

replayVars == <<definition, observations>>

ReplayInit ==
  /\ definition \in Contracts
  /\ observations \in Statements

Reorder ==
  /\ \E i \in 1..(Len(observations) - 1) :
       observations' = [observations EXCEPT ![i] = observations[i + 1],
                                            ![i + 1] = observations[i]]
  /\ UNCHANGED definition

Withdraw ==
  /\ \E i \in DOMAIN observations : observations' = RemoveAt(observations, i)
  /\ UNCHANGED definition

ReplayNext == Reorder \/ Withdraw

ReplaySpec == ReplayInit /\ [][ReplayNext]_replayVars

-----------------------------------------------------------------------------
Admitted == AdmitsObservations(definition, observations)

Formalized == Formalize(definition, observations)

Projected == State64Record(definition, Formalized)

(* Whatever the code formalizes it can replay: rebuilding the observations  *)
(* from the rows of a snapshot and applying the anchor again gives that     *)
(* snapshot, replay key included, so no honest snapshot is ever rejected.   *)
AdmittedEvidenceReplays == Admitted => Replays(definition, Formalized)

(* Identical evidence gives the identical formal object, in whatever order  *)
(* the caller lists it; and it is refused in every order or in none.        *)
OrderIsImmaterial ==
  [][Len(observations') = Len(observations) =>
       /\ Admitted' <=> Admitted
       /\ Admitted => Formalized' = Formalized]_replayVars

(* An observation bears on its own variable only: when the anchor still     *)
(* applies without it, every other formal value stands, and so does every   *)
(* bit whose predicate does not read that variable.                         *)
WithdrawalIsLocal ==
  [][Admitted /\ Admitted' =>
       LET withdrawn == {o.key : o \in Elements(observations)}
                          \ {o.key : o \in Elements(observations')}
           moved == {b.variable : b \in
                       {c \in Elements(definition.bindings) : c.key \in withdrawn}}
           before == Formalized.material.variables
           after  == Formalized'.material.variables
       IN  /\ DOMAIN after = DOMAIN before
           /\ \A x \in DOMAIN before \ moved : after[x] = before[x]
           /\ \A i \in DOMAIN Projected.decisions :
                Projected.decisions[i].variables \cap moved = {} =>
                  Projected'.decisions[i] = Projected.decisions[i]]_replayVars

(* The evidence behind a bit is exactly what the caller gave for the        *)
(* variables its predicate reads: no decision cites evidence of another     *)
(* variable, and none is lost on the way into the trace.                    *)
TraceCitesItsEvidence ==
  Admitted =>
    \A d \in Elements(Projected.decisions) :
      d.evidence = UNION {Elements(o.evidence) : o \in
        {p \in Elements(observations) :
           \E b \in Elements(definition.bindings) :
             b.key = p.key /\ b.variable \in d.variables}}
=============================================================================
