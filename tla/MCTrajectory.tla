---------------------------- MODULE MCTrajectory ----------------------------
(***************************************************************************)
(* The states of packages/kernel/tests/kernel.test.ts (in hundredths): low *)
(* pressure with low cohesion selects none of them.                        *)
(***************************************************************************)
EXTENDS KernelTrajectory

At(key, operator, n) == Test(key, {}, operator, Scalar(Number(n)))

All(tests) == <<Group(2..(Len(tests) + 1), FALSE, {}, {})>> \o tests

State(id, priority, tests) == [id |-> id, priority |-> priority, predicates |-> All(tests)]

DemoStates == <<
  State("stable", 10, <<At("pressure", "lt", 35), At("cohesion", "gte", 50)>>),
  State("strained", 20, <<At("pressure", "gte", 35)>>),
  State("fragmentation-risk", 30, <<At("pressure", "gte", 65), At("cohesion", "lt", 40)>>)>>

TransitionRule(id, sources, target, guards, effects, authorities) ==
  [id |-> id, sourceStateIds |-> sources, targetStateId |-> target, guards |-> guards,
   effects |-> effects, allowedAuthorities |-> authorities]

Set(key, n) == [key |-> key, value |-> Number(n)]

Constrained == All(<<Test("constraint", {}, "eq", Scalar(Boolean(TRUE)))>>)

Constrain(target) == TransitionRule("constrain", {"stable"}, target, Constrained,
  <<Set("pressure", 78), Set("cohesion", 28)>>, {"observed", "simulated"})
Relieve(target) == TransitionRule("relieve", {"strained", "fragmentation-risk"}, target, Null,
  <<Set("pressure", 20)>>, {"observed"})
Strain(target) == TransitionRule("strain", {"stable", "strained"}, target, Null,
  <<Set("pressure", 78), Set("pressure", 50)>>, {"simulated"})
Recover(target) == TransitionRule("recover", {"strained"}, target, Null,
  <<Set("cohesion", 80)>>, {"observed"})
Erode(target) == TransitionRule("erode", {"strained"}, target, Null,
  <<Set("cohesion", 28)>>, {"observed"})

\* Five keys change, of which two have no definition.
Collapse(target) == TransitionRule("collapse", {"strained"}, target, Null,
  <<Set("pressure", 90), Set("cohesion", 10), [key |-> "constraint", value |-> Boolean(TRUE)],
    Set("alarm", 1), Set("trend", 1)>>, {"observed"})

DeclaredRules ==
  {Constrain("fragmentation-risk"), Relieve("stable"), Strain("strained"),
   Recover("strained"), Collapse("fragmentation-risk")}

ASSUME DeclaredRulesCompile == Compiles(DemoStates, DeclaredRules)

\* The same rules without declared targets, and one with no declared source.
OpenRules == {Constrain(Null), Relieve(Null), Strain(Null), Erode(Null),
              [Recover(Null) EXCEPT !.sourceStateIds = Null]}

Snapshot(pressure, cohesion, constraint) ==
  ("pressure" :> Number(pressure)) @@ ("cohesion" :> Number(cohesion))
    @@ ("constraint" :> Boolean(constraint))

Starts == {Snapshot(20, 80, TRUE), Snapshot(50, 28, FALSE)}
IncompleteStart == "pressure" :> Number(40)
MoreStarts == Starts \cup {IncompleteStart}

Range100(key) == [key |-> key, kind |-> "number", min |-> 0, max |-> 100, allowedValues |-> Null]
DemoParameters ==
  <<Range100("pressure"), Range100("cohesion"),
    [Range100("constraint") EXCEPT !.kind = "boolean"]>>

Policy(id, classes, sources, rules, authorities, priority) ==
  [id |-> id, appliesToRegimeClasses |-> classes, sourceStateIds |-> sources,
   targetStateIds |-> Null, transitionRuleIds |-> rules, allowedAuthorities |-> authorities,
   priority |-> priority]

AnyChange == {"local_adjustment", "partial_reconfiguration", "regime_shift", "structural_inversion"}

Books == {
  <<Policy("watch", AnyChange \cup {"no_change"}, Null, Null, Null, Null),
    Policy("confirm", AnyChange, Null, Null, {"observed"}, 0)>>,
  <<Policy("demote", AnyChange, Null, Null, {"simulated"}, -1),
    Policy("escalate", {"partial_reconfiguration", "structural_inversion"}, {"strained"}, Null,
           {"observed"}, 2),
    Policy("explain", {"unclassified"}, {"stable", "strained"}, {"constrain", "collapse"}, Null, 1)>>}

MCThresholds ==
  {<<>>, ("localMaxChangedParameters" :> 0) @@ ("inversionMinChangedParameters" :> 3)}

Interchangeable == Permutations(Callers)

BothAuthorities == {"observed", "simulated"}
Observed == {"observed"}
=============================================================================
