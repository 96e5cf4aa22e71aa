---------------------------- MODULE CliCommands -----------------------------
(***************************************************************************)
(* The commands of `semagraph` that print one result (main() and its       *)
(* handlers in packages/cli/src/main.rs) as functions of their arguments.  *)
(* An argument is its text and the number it parses as, -1 if none.  What  *)
(* a command prints is the record of its fields, with the form they are    *)
(* printed in and what only JSON says beside them; a canonical key is its  *)
(* prefix and the list behind it.                                          *)
(***************************************************************************)
EXTENDS State64, TrajectoryProjection

PlacesOf(args, texts) == {i \in DOMAIN args : args[i].text \in texts}

Word(text) == [text |-> text, number |-> -1]

Numeral(number) == [text |-> "digits", number |-> number]

Numerals(numbers) == [i \in DOMAIN numbers |-> Numeral(numbers[i])]

Numbers(tokens) == [i \in DOMAIN tokens |-> tokens[i].number]

MODULE_SCOPE_NAMES == <<"none", "lower_only", "upper_only", "both_modules">>

REGIME_CLASS_NAMES ==
  <<"no_change", "bit_adjustment", "module_reconfiguration",
    "cross_module_regime_shift", "near_total_inversion", "full_bit_reversal">>

Q3_MAX == 7
Q6_MAX == 63
MAX_INDEX == 4095

-----------------------------------------------------------------------------
\* What a call ends in: its exit code and what is on its two outputs.
Outcome(code, stdout, stderr) == [code |-> code, stdout |-> stdout, stderr |-> stderr]

Said(text) == Outcome(0, <<text>>, <<>>)

UsageError == Outcome(2, <<>>, <<"error">>)

DataError(printed) == Outcome(1, printed, <<"error">>)

\* The renderers: one computation, printed as JSON, as text, or not at all.
Printed(ctx, fields, besides) ==
  IF ctx.quiet THEN <<>>
  ELSE <<[form |-> IF ctx.json THEN "json" ELSE "text", fields |-> fields,
          besides |-> IF ctx.json THEN besides ELSE <<>>]>>

RenderedWith(ctx, fields, besides) == Outcome(0, Printed(ctx, fields, besides), <<>>)

Rendered(ctx, fields) == RenderedWith(ctx, fields, <<>>)

IsState(token, max) == token.number \in 0..max

IsTrajectory(tokens) ==
  Len(tokens) >= 2 /\ \A i \in DOMAIN tokens : IsState(tokens[i], Q3_MAX)

-----------------------------------------------------------------------------
LookupTransition(source, target) == Transition64Entry(StateNumbered(source), StateNumbered(target))

TransitionFields(entry) ==
  [source |-> entry.source, target |-> entry.target, mutation_mask |-> entry.mutationMask,
   distance |-> entry.distance, lower_distance |-> entry.lowerDistance,
   upper_distance |-> entry.upperDistance,
   module_scope |-> MODULE_SCOPE_NAMES[entry.moduleScope + 1],
   regime_class |-> REGIME_CLASS_NAMES[entry.regimeClass + 1],
   index |-> entry.index, packed |-> Pack(entry)]

\* Only JSON has the code of the regime class beside its name.
RenderTransition(ctx, entry) ==
  RenderedWith(ctx, TransitionFields(entry), <<entry.regimeClass>>)

Classify(ctx, rest) ==
  IF Len(rest) = 2 /\ \A i \in DOMAIN rest : IsState(rest[i], Q6_MAX)
  THEN RenderTransition(ctx, LookupTransition(rest[1].number, rest[2].number))
  ELSE UsageError

Lookup(ctx, rest) ==
  IF Len(rest) = 1 /\ IsState(rest[1], MAX_INDEX)
  THEN RenderTransition(ctx, LookupTransition(rest[1].number \div 64, rest[1].number % 64))
  ELSE UsageError

-----------------------------------------------------------------------------
ExactKey(path) == <<"P3", path>>
ShapeKey(shape) == <<"S3", shape>>
DwellSignature(dwell) == <<"D3", dwell>>

\* The keys of one path, as compress and compare print them.
Keys(path) ==
  LET p == ProjectTrajectory(path)
  IN  [exact_key |-> ExactKey(path), shape_key |-> ShapeKey(p.shape),
       dwell_signature |-> DwellSignature(p.dwell)]

CompressFields(path) ==
  LET p == ProjectTrajectory(path)
  IN  [path |-> path, length |-> [states |-> Len(path), transitions |-> Len(path) - 1],
       net_mutation |-> p.net_mutation, cumulative_distance |-> p.cumulative_distance,
       endpoint |-> [source |-> p.endpoint \div 8, target |-> p.endpoint % 8,
                     code |-> p.endpoint],
       shape |-> p.shape, dwell |-> p.dwell, keys |-> Keys(path)]

Compress(ctx, rest) ==
  IF IsTrajectory(rest) THEN Rendered(ctx, CompressFields(Numbers(rest))) ELSE UsageError

Relation(sameEndpoint, sameShape, sameDwell) ==
  CASE ~sameEndpoint                           -> "different_trajectory"
    [] sameEndpoint /\ ~sameShape              -> "different_pattern"
    [] sameEndpoint /\ sameShape /\ sameDwell  -> "equivalent"
    [] sameEndpoint /\ sameShape /\ ~sameDwell -> "same_form_different_duration"

\* Mutation: the flags are reported as they were computed.
ReportedAsComputed(sameEndpoint, sameShape, sameDwell) ==
  [same_endpoint |-> sameEndpoint, same_shape |-> sameShape, same_dwell |-> sameDwell]

\* A flag the cascade does not come to is reported false.
Reported(sameEndpoint, sameShape, sameDwell) ==
  LET sameForm == sameEndpoint /\ sameShape
  IN  [same_endpoint |-> sameEndpoint, same_shape |-> sameForm,
       same_dwell |-> sameForm /\ sameDwell]

CompareKeys(a, b, sameEndpoint) ==
  LET sameShape == a.shape_key = b.shape_key
      sameDwell == a.dwell_signature = b.dwell_signature
  IN  [relation |-> Relation(sameEndpoint, sameShape, sameDwell), path_a |-> a, path_b |-> b,
       flags |-> Reported(sameEndpoint, sameShape, sameDwell)]

CompareFields(left, right) ==
  CompareKeys(Keys(left), Keys(right),
              ProjectTrajectory(left).endpoint = ProjectTrajectory(right).endpoint)

\* The paths stand on the two sides of the first separator.
Compare(ctx, rest) ==
  LET seps  == PlacesOf(rest, {"--"})
      left  == SubSeq(rest, 1, Min(seps) - 1)
      right == SubSeq(rest, Min(seps) + 1, Len(rest))
  IN  IF seps # {} /\ IsTrajectory(left) /\ IsTrajectory(right)
      THEN Rendered(ctx, CompareFields(Numbers(left), Numbers(right)))
      ELSE UsageError

-----------------------------------------------------------------------------
\* The transitions of which the tables say what the branches say.
VerifiedTransitions ==
  {pair \in States64 \X States64 :
     ClassifyBranchless(pair[1], pair[2]) = RowOf(MutationBetween(pair[1], pair[2]))}

Verified == Cardinality(VerifiedTransitions)

\* A self-test that fails prints its text to stderr, and JSON to stdout.
Failed(ctx, fields) == DataError(IF ctx.json THEN Printed(ctx, fields, <<>>) ELSE <<>>)

Verify(ctx) ==
  LET ok     == Verified = 4096
      fields == [verified |-> Verified, total |-> 4096, ok |-> ok]
  IN  IF ok THEN Rendered(ctx, fields) ELSE Failed(ctx, fields)

\* A batch of no input; CliBatch has the rest of it.
EmptyBatch == Outcome(0, <<>>, <<>>)

Dispatch(ctx, command, rest) ==
  CASE command = "classify" -> Classify(ctx, rest)
    [] command = "compress" -> Compress(ctx, rest)
    [] command = "compare"  -> Compare(ctx, rest)
    [] command = "lookup"   -> Lookup(ctx, rest)
    [] command = "verify"   -> Verify(ctx)
    [] command = "batch"    -> EmptyBatch
    [] command = "help"     -> Said("help")
    [] OTHER                -> UsageError

\* The first pass over the arguments: what is left when the flags are taken out.
Positional(args) ==
  LET upTo[i \in 0..Len(args)] ==
        IF i = 0 THEN <<>>
        ELSE IF args[i].text \in {"--json", "--quiet"} THEN upTo[i - 1]
        ELSE Append(upTo[i - 1], args[i])
  IN  upTo[Len(args)]

\* main(): the first flag that asks for help or for the version ends it.
Main(args) ==
  LET ctx   == [json |-> PlacesOf(args, {"--json"}) # {},
                quiet |-> PlacesOf(args, {"--quiet"}) # {}]
      early == PlacesOf(args, {"--version", "--help", "-h"})
      words == Positional(args)
  IN  IF early # {}
      THEN Said(IF args[Min(early)].text = "--version" THEN "version" ELSE "help")
      ELSE IF words = <<>> THEN Outcome(2, <<>>, <<"help">>)
      ELSE Dispatch(ctx, Head(words).text, Tail(words))
=============================================================================
