------------------------ MODULE CrossLanguageShapes ------------------------
(***************************************************************************)
(* The trajectory layer in both languages: two paths grow as states are    *)
(* observed (TrajectoryShapes), and the bytes of the first are handed to   *)
(* the Rust core, to its projections (TrajectoryProjection) and to its     *)
(* collapsing loop over buffers of the caller (RunCollapseInto).           *)
(***************************************************************************)
EXTENDS RunCollapseInto, TrajectoryShapes

Core == INSTANCE TrajectoryProjection

Cli == INSTANCE CliCommands

\* The bytes that a caller who does not mask may pass for a path.
BytesOf(states) ==
  {[i \in DOMAIN states |-> states[i] + high] : high \in {b - Q3(b) : b \in Bytes}}

BothInit ==
  /\ PathsInit
  /\ path = <<>> /\ shape = <<>> /\ dwell = <<>>
  /\ runs = 0 /\ read = 0 /\ pc = "returned" /\ opened = <<>>

Observe ==
  /\ path = <<>>
  /\ PathsNext
  /\ UNCHANGED vars

\* The core is called before there is a second path to compare.
Callable == path = <<>> /\ Len(right) = 1

CallLoop ==
  /\ Callable
  /\ path' \in BytesOf(left)
  /\ shape' \in Buffers(Leftovers)
  /\ dwell' \in Buffers(Leftovers)
  /\ pc' = "loop"
  /\ UNCHANGED <<left, right, runs, read, opened>>

Collapse == Next /\ UNCHANGED <<left, right>>

BothNext == Observe \/ CallLoop \/ Collapse

BothSpec == BothInit /\ [][BothNext]_<<vars, left, right>>

-----------------------------------------------------------------------------
Room(n) == [c \in {"net_mutation", "cumulative_distance", "endpoint", "endpoint_hamming"} |->
             [i \in 1..n |-> "kept"]]

(* The two languages are one trajectory layer.  What pathQ3() admits is     *)
(* what the Rust core leaves as it is; of any path, masked or not, the core *)
(* computes the projections of the TypeScript reference, alone or in a      *)
(* batch of columns too short or too long for it; and the loop returns the  *)
(* collapse of all of it, or of as many runs as it has room for.            *)
LanguagesAgree ==
  /\ Callable => \A b \in BytesOf(left) :
       LET core == Core!ProjectTrajectory(b)
       IN  /\ PathQ3Admits(b) <=> b = [i \in DOMAIN b |-> Core!Masked(b[i])]
           /\ core.shape = Shape(left) /\ core.dwell = DwellSignature(left)
           /\ core.net_mutation = NetMutation(left)
           /\ core.cumulative_distance = CumulativeDistance(left)
           /\ core.endpoint = EndpointCompression(left)
           /\ core.endpoint_hamming = EndpointHammingDistance(left)
           /\ \A n \in 0..3 :
                LET columns == Core!CompressTrajectoryBatch(<<b, Tail(b)>>, Room(n))
                IN  \A c \in DOMAIN columns : \A i \in 1..n :
                      columns[c][i] = CASE i = 1 -> core[c]
                                        [] i = 2 -> Core!ProjectTrajectory(Tail(b))[c]
                                        [] i = 3 -> "kept"
  /\ path # <<>> /\ pc = "returned" =>
       LET whole == Shape(left)
       IN  /\ SubSeq(shape, 1, runs) = SubSeq(whole, 1, runs)
           /\ runs = Min({Len(whole), Len(shape), Len(dwell)})
           /\ SubSeq(dwell, 1, runs) = SubSeq(DwellSignature(left), 1, runs)

-----------------------------------------------------------------------------
W(text) == <<Cli!Word(text)>>

N(numbers) == Cli!Numerals(numbers)

\* Calls of every command, about the first path or about the endpoint codes.
Calls ==
  LET p == EndpointCompression(left)
      q == EndpointCompression(Reverse(left))
  IN  {W("compress") \o N(left), W("compare") \o N(left) \o W("--") \o N(left),
       W("classify") \o N(<<p, q>>), W("lookup") \o N(<<64 * p + q>>), W("verify"),
       W("batch"), <<>>}

\* The fields printed.
Fields(outcome) == outcome.stdout[1].fields

\* compress prints the projections of the reference.
CompressesLike(compressed, p) ==
  IF Len(p) < 2 THEN compressed = Cli!UsageError
  ELSE LET fields == Fields(compressed)
         IN  /\ fields.shape = Shape(p) /\ fields.dwell = DwellSignature(p)
             /\ fields.net_mutation = NetMutation(p)
             /\ fields.cumulative_distance = CumulativeDistance(p)
             /\ fields.endpoint =
                  [source |-> Head(p), target |-> Last(p), code |-> EndpointCompression(p)]

\* compare prints the comparison of the reference.
ComparesLike(compared, reference) ==
  /\ Fields(compared).relation = reference.relation
  /\ Fields(compared).flags = [same_endpoint |-> reference.same_endpoint,
                               same_shape |-> reference.same_shape,
                               same_dwell |-> reference.same_dwell]

\* classify prints the reference row, and lookup of the index it prints says the same.
ClassifiesLike(classified, reference) ==
  LET fields == Fields(classified)
  IN  /\ fields.module_scope = reference.moduleScope
      /\ fields.regime_class = reference.regimeClass
      /\ fields.distance = reference.distance
      /\ fields.lower_distance = reference.lowerDistance
      /\ fields.upper_distance = reference.upperDistance
      /\ fields.mutation_mask = Cli!NumberOf(reference.mutationMask)
      /\ Cli!Main(W("lookup") \o N(<<fields.index>>)) = classified

\* What the flags change of a call.
FlagsChangeTheForm(plain, quiet, json, help) ==
  /\ plain.code # 0 => plain.stdout = <<>> /\ plain.stderr # <<>>
  /\ quiet = [plain EXCEPT !.stdout = <<>>]
  /\ json.code = plain.code
  /\ plain.stdout # <<>> => Fields(json) = Fields(plain)
  /\ help = Cli!Said("help")

\* The call with a token put in at place i.
With(call, i, token) == Cli!Main(InsertAt(call, i, token))

\* Wherever a flag or a stray word is put.
HeedsItsWords(call) ==
  \A i \in 1..(Len(call) + 1) :
    /\ FlagsChangeTheForm(Cli!Main(call), With(call, i, Cli!Word("--quiet")),
                          With(call, i, Cli!Word("--json")), With(call, i, Cli!Word("--help")))
    /\ i > 1 /\ call[1].text \notin {"verify", "batch"} =>
         \A stray \in {Cli!Word("5x"), Cli!Numeral(4096)} : With(call, i, stray) = Cli!UsageError
    /\ i = 1 => With(call, i, Cli!Word("clasify")) = Cli!UsageError

(* The command line is a third face of the same layer.  compare prints the  *)
(* comparison of the TypeScript reference, with the flags its cascade comes *)
(* to, and compress its projections; lookup, of the index that classify     *)
(* prints, prints the reference classification again; and wherever a flag   *)
(* is put it changes neither the exit code nor the data, a word that does   *)
(* not belong is an error, and an error leaves stdout clean.                *)
CommandLineAgrees ==
  /\ path = <<>> =>
       LET outcome == Cli!Main(W("compare") \o N(left) \o W("--") \o N(right))
       IN  IF Len(left) < 2 \/ Len(right) < 2 THEN outcome = Cli!UsageError
           ELSE ComparesLike(outcome, Comparison(left, right))
  /\ Callable =>
       LET p == EndpointCompression(left)
           q == EndpointCompression(Reverse(left))
       IN  /\ CompressesLike(Cli!Main(W("compress") \o N(left)), left)
           /\ ClassifiesLike(Cli!Main(W("classify") \o N(<<p, q>>)),
                             Cli!ClassifyPair(Cli!StateNumbered(p), Cli!StateNumbered(q)))
           /\ \A call \in Calls : HeedsItsWords(call)
=============================================================================
