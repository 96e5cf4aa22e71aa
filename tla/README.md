# SemaGraph-64 in TLA+

SemaGraph-64 turns evidence about some domain into a six-bit state by explicit,
registered rules, and then works on the states: transitions between them, the
trajectories they form, and the shapes of those trajectories.  Its promise is
that nothing on the way is inferred: a state is authoritative only if it can be
traced, bit by bit, to a registered definition and to evidence, and can be
computed again.  This directory models the parts of the code that carry the
promise, checks them with TLC on small instances and proves the central facts
with TLAPS for every value of the constants.

## 1. The system

| part | code | state it keeps | operations |
|---|---|---|---|
| anchor contracts | `packages/math-anchors` `types.ts`, `vocabulary.ts`, `validation.ts` | none | validate a domain, validate an anchor against a domain |
| anchor registry | `registry.ts`, `canonical.ts` | two maps, (id, version) to definition and to registered anchor | register a domain, register an anchor, look up, list |
| formalization | `formalization.ts`, `comparison.ts` | none; snapshots leave with the caller | apply an anchor to observations, evaluate the projection of a snapshot, inspect a trace |
| State64 anchoring | `packages/state64-adapter` `mathematical-anchors.ts`, `hypercube.ts` | none | project a snapshot to a State64 record; both stages at once |
| anchoring tools | `ai-tools/semagraph-kernel-tool` | none: each call hydrates a registry from its argument | validate, formalize, anchor, inspect, classify, look up |
| transition kernel | `packages/kernel` `predicates.ts`, `states.ts`, `transitions.ts`, `graph.ts`, `trajectories.ts` | none; trajectories are values of the caller | select a state, evaluate a transition, compile a graph, append to a trajectory |
| trajectory shapes | `packages/kernel` `shapes.ts`; `packages/core-rs` `shapes.rs` | caller's buffers (Rust) | run-collapse, lossy projections, comparison cascade, grouping |
| regimes, policies, parameters | `packages/kernel` `regimes.ts`, `policies.ts`, `parameters.ts`, `policy-synthesis.ts`, `similarity.ts` | none | classify a transition, resolve policies, validate snapshots |
| State64 core and catalogue | `packages/core-rs` `lib.rs`, `tables.rs`; the rest of `packages/state64-adapter` | constant tables | classify, pack, compress chains, batches |
| command line tool | `packages/cli` `main.rs` | the input of a batch, while it runs | classify, compress, compare, look up, batch, verify |
| Rust MCP server | `packages/cli` `mcp.rs` | the declared length of the frame being read | read a frame, answer a request; eight tools that anchor, look up, compress, build and validate packets, analyse timelines |
| benchmark programs | `experiments/agentic-loop-benchmark` rounds 3, 5 and 6 | none | programs written apart to one task, on their own, beside the kernel or through the MCP server, and the reference they are judged by |
| renderer, schemas, examples, other experiments | `packages/renderer-svg`, `schemas`, `examples`, `experiments` | none | |

How the parts meet.  A domain and its anchors are registered once; the kernel
packages are synchronous TypeScript, so two calls never overlap inside one
registry.  What interleaves is the *clients*: they register, export the contents
of a registry, formalize, keep snapshots, edit them, and come back later to
another process.  The tools of `ai-tools/` hold no registry at all: each call
carries a bundle with the contents of some registry at some time, hydrates a
registry of its own from it, and does one thing.  Trajectories are immutable
values passed around in the same way: a transition evaluated at one head can be
committed at another.  A Rust caller owns the buffers of the run-collapse.

The two Rust programs are the exception to all this: the batch command and the
MCP server are processes that talk to a caller over pipes, which fill, close and
carry whatever the caller writes.  The server keeps nothing between two calls; an
agent that has a packet built keeps it, may edit it, collects more, and has it
validated against what it has by then.

One thing is computed in many places: the trajectory layer in TypeScript, in
Rust and behind the commands; a classification by branches, by tables and by the
adapter; a packet by one tool, by several in turn, and by programs written apart
from the server and from each other.

What is hard, then, is staleness, order and identity, and at the pipes framing
and waiting:

- a registration that collides with an earlier one, in either order;
- a bundle older than the registry, or from another registry;
- a snapshot edited between formalization and projection;
- observations listed in another order, or one of several missing;
- a transition committed late or twice, and snapshots that select no state;
- lossy projections used as filters before an exact comparison;
- buffers too short for the path, or dirty from an earlier call;
- one classification written three times, by branches, by tables and by
  vectors, in two languages, with vectors that need not fill;
- frames that lie about their length, a client that closes or hangs up at any
  moment, a caller that reads only when it has written everything, and errors
  only when it has read everything else;
- packets that travel through JSON and through the hands of an agent, scenario
  ids that repeat, schemas written beside the handlers that never consult them;
- snapshots validated once, and effects that write into them afterwards.

`PROJECT.json` lists each of these under `hazards` at the line where it bites,
with the properties that cover it.

### What makes each part correct

- *Registry*: entries are immutable; each stands on a registered domain it is
  valid for; what a caller was given stays the entry of its key.
- *Formalization*: a function of the evidence, not of its order; nothing is
  invented for what is missing except the declared default; every snapshot it
  makes can be made again from its own rows.
- *Anchoring*: a record is decided under the registered definition and by no
  other; to one registry, one snapshot has one element of `B^6`; every bit has a decision with
  exactly the evidence of the variables it reads.
- *Kernel*: a committed trajectory is connected, its ends are the states its
  parameters derive, and with compiled rules it walks the declared graph.
- *Parameters and policies*: what changed since a trajectory began was reported
  by its events; what a later snapshot is refused for was there from the start
  or assigned by a rule; policies follow what happened, not how they are kept.
- *Shapes*: the run-collapse loses nothing but duration; the cascade decides
  form by the collapsed path alone; both languages and the commands compute one
  thing.
- *Rust run-collapse*: right whatever the buffers held, and for short buffers
  the longest prefix that fits.
- *State64*: every implementation is the reference classification; a state is
  one thing as an id, a catalogue entry, a byte, a packed word and an encoded
  measurement; the masks of a chain replay it.
- *Batch loops*: every pair that all arrays have room for gets its row, and
  nothing else is written.
- *MCP server*: answers in order, under the id of the request, once each; it
  stops when it is left.
- *Tools*: a verdict on a packet is exact; an id means one scenario throughout a
  packet; the tools agree with each other; the choices of a timeline are enough
  to derive its output; what a schema admits is not refused for its form.
- *Batch command*: every line accounted for, an exit code that tells of
  refusals, and an end with every caller that does not leave stderr for last.

## 2. Modules

| module | models | main definitions |
|---|---|---|
| `Expressions` | typed values and predicate trees of anchors and kernel | `Compare`, `TruthOf` |
| `AnchorDefinitions` | both validators of `validation.ts` and the vocabulary | `ValidDomain`, `ValidAnchor` |
| `MathAnchorRegistry` | `MathematicalAnchorRegistry` | `RegisterDomain`, `RegisterNewAnchor`, `RegisterKnownAnchor` |
| `Formalization` | `formalization.ts` and the projection, as functions of a definition | `AdmitsObservations`, `Formalize`, `Replays`, `Decisions` |
| `FormalizationReplay` | a caller that states its evidence in different ways | `Reorder`, `Withdraw` |
| `AnchorPipeline` | registry, library calls, tools and clients together | `ExportBundle`, `FormalizeInProcess`, `FormalizeTool`, `ProjectInProcess`, `ProjectTool`, `AnchorObservations`, `EditSnapshot` |
| `AuthorityContract` | abstract: identities bound once, one element per object | `Bind`, `Decide` |
| `KernelFunctions` | states, transitions and graph of the kernel, with `parameters.ts`, `similarity.ts`, `regimes.ts` and `policies.ts`, as functions | `SelectedState`, `EvaluateTransition`, `Compiles`, `SnapshotIssues`, `ClassifyTransitionRegime`, `MatchedPolicies` |
| `KernelTrajectory` | a trajectory shared by callers, and what the rest of the kernel says of it | `Evaluate`, `Commit` |
| `DeclaredWalk` | abstract: a walk of a graph under allowed authorities | `Step` |
| `TrajectoryShapes` | `shapes.ts` for two paths that grow | `NormalizePathRunCollapse`, `CompareTrajectories` |
| `RunCollapseInto` | the loop of `run_collapse_into`, turn by turn | `Extend`, `Open`, `Return` |
| `TrajectoryProjection` | the projections of `shapes.rs` and the batch over columns, as functions | `ProjectTrajectory`, `CompressTrajectoryBatch` |
| `CliCommands` | the commands of `main.rs` that print one result, as functions of their arguments | `Main`, `CompareFields`, `CompressFields` |
| `CrossLanguageShapes` | one growing path in TypeScript, in the Rust core, in its loop and on the command line | `Observe`, `CallLoop`, `Collapse` |
| `State64` | states, transitions and their classification: the reference, the tables of `tables.rs`, the packed word of `lib.rs` | `ClassifyPair`, `ClassifyBranchless`, `Transition64Entry`, `Pack` |
| `State64Chain` | `compress_chain64` and `compressState64Chain` over a growing chain | `Fold` |
| `State64Forms` | catalogue, transformations, matrix, similarity and encoding of `state64-adapter`; the checked functions of `lib.rs` and its C entry points; all on the states of a chain | `CatalogEntry`, `TransformState64`, `EncodedState`, `CompressChain64`, `sg64_transition_packed` |
| `BatchClassification` | `classify_batch`, `classify_batch_full`, `classify_batch_simd` | `Vector`, `Scalar`, `Return` |
| `McpMessages` | what `handle_message` answers to one body | `Answer`, `OwedAnswers` |
| `McpServer` | `serve` and `read_frame` between two pipes, with its client | `ReadLine`, `ReadBody`, `WriteReply`, `Close`, `HangUp` |
| `RequestSession` | abstract: requests answered one at a time, in order | `Ask`, `Reply` |
| `JsonValues` | the values of the server, how they are read, compared, printed and parsed | `SemanticEqual`, `Printed`, `FieldFaults` |
| `McpTools` | the tools for one vector, transition or chain, for packets and for timelines, the schemas they declare and the dispatch by name | `AnchorState64`, `LookupTransition64`, `CompressChain64`, `AnalyzeScenarios64`, `ValidatePolicyPacket64`, `AnalyzeObservedTimeline64`, `ToolDefinitions`, `Conforms`, `DispatchTool` |
| `Workbenches` | the benchmark programs of rounds 3, 5 and 6, the output they should have and the oracle that is asked about it | `BaselineProfiler`, `RsProfiler`, `TsProfiler`, `ExpectedOutput`, `OracleConfirms`, `NoMcpWorkbench`, `RustMcpWorkbench`, `UpgradedWorkbench`, `ReferencePacket`, `RunBaseline`, `RunMcp`, `RunMcpSingleCall` |
| `AgentSession` | an agent that collects, calls, edits and validates | `CollectScenario`, `Analyze`, `Answer`, `EditPacket`, `Validate`, `AnalyzeTimeline`, `CallLoosely` |
| `CliBatch` | `cmd_batch`, and `main` behind it, between its caller's three pipes | `Read`, `Compress`, `Refuse`, `Exit`, `Fail`, `Receive`, `ReceiveError` |
| `AnchorFixtures`, `MC*` | the instances TLC checks | |
| `*Proofs` | theorems and their proofs | |

`AnchorPipeline` extends `MathAnchorRegistry` (whose steps it takes as
`Register`) and `Formalization`; both extend `AnchorDefinitions`, which extends
`Expressions`.  `KernelTrajectory` extends `KernelFunctions`.  `State64Chain`,
`CliCommands`, `BatchClassification` and `McpTools` extend `State64`, and
`State64Forms` extends the chain; `McpTools`, `Workbenches` and `AgentSession`
extend each other in that order.
`CrossLanguageShapes` extends the Rust loop and the two growing paths of the
TypeScript reference, and instantiates the Rust projections and the commands, to
compare them on the same paths.  `McpServer` and `RequestSession` extend
`McpMessages`.

There is one module of theorems to a component: `MathAnchorProofs` for registry,
pipeline and formalization, `KernelTrajectoryProofs`, `CrossLanguageShapesProofs`,
`State64Proofs` with `State64ChainProofs` and `BatchClassificationProofs` on it,
`McpServerProofs` and `CliBatchProofs`.

The abstract modules are instantiated in the module that refines them:
`AnchorPipeline` maps `contract` to the definitions that its registry's entries,
and the bundles of other registries, give to their anchor versions, and
`verdicts` to its records, `KernelTrajectory` maps `walked` to the events of the
trajectory and `at` to its head, and `McpServer` maps `asked` to the messages it
was sent up to the first frame that lies about itself and `replied` to the
answers in the pipe or read.

`McpServer` and `AgentSession` divide the server between them.  The first knows
of a message only what kind of answer it gets, and shows that the n-th answer is
that to the n-th message; the second takes a call and its answer as two steps,
and works out what the tools say.

How state and actions correspond to the code:

- A JavaScript call that throws changes nothing, so it is no action: its guard
  is the negation of every throw.  In `Formalization` the operators named
  `Admits...`, `Valid...` and `Replays` are the conjunctions of those guards.
- `canonicalStringify` is injective on JSON, so canonical texts are compared as
  the values they stand for; a replay key is a tag and the material itself.  A
  frozen clone is the value.
- A map key is `id`, NUL, `version`; ids are taken not to contain NUL, so a key
  is a pair.
- The list fields of an anchor are sequences where the code looks at order or
  duplicates, sets otherwise.  All free text of an object (labels,
  descriptions, a unit's dimension) is one field, blank when one of them is:
  the code asks nothing else of it.
- Numbers are bounded integers; `MaxNumber` separates the finite ones from the
  infinities.  An infinite reading of a variable with a unit is refused at once,
  where the code refuses it after converting.  Positions of predicates count in
  halves, so that a position that is no integer exists.
- `trueValue` and `falseValue` keep their type `0 | 1 | None`: a record with
  another value is refused by `createBinaryState64`.
- Comparators of the kernel's predicates are well typed (`comparableNumber`
  throws otherwise); a parameter the snapshot lacks makes its test false.
- `domains`, `anchors`, `trajectory` and the variables of `RunCollapseInto` are
  those of the code; `left` and `right` are paths a caller has observed.
  `granted`, `formalized`, `held`, `opened` and the fields `by` and `under` of a
  record, the registry and the definition that decided it, are history or what a
  client keeps between two calls.
- A bundle of another registry is all that is known of that registry.  The tools
  ask of a bundle only that it agree with itself, so it has the authority of its
  own; what a property says of records it says of those of one registry.
- Of `trajectories.ts`, `createTrajectory` is called with the state derived from
  its parameters, as the tests do.
- A state is the set of the positions of its ones and a byte a subset of
  `1..8`, so that masking to six bits is an intersection and XOR the symmetric
  difference; a packed word is a set of the numbers of its bits.
- One step of `BatchClassification` is one vector or one item; the routines
  share the loop and differ in the columns they write.
- The stream to the MCP server is cut into units, the two halves of a header
  line, the empty line and the two halves of a body: the places where a wrong
  `Content-Length` can cut.  A half of a body may end inside a character.  The id
  of a request is its number in the session.
- A text of the MCP server is a run of ASCII, taken as one word, and a run of
  code points beyond it: the parser reads bytes, and only the second run changes.
  Objects are functions from their keys, floats count thousandths (`round3` is
  the only rounding).  An error of a tool is the set of the reasons for which it
  refuses; the code reports the first of them.
- The programs of the benchmarks are JavaScript: `Printed` takes a whole float
  for an integer, as they do.  Where one calls the server its texts go through
  `Sent` and `Received`, unescaped.
- The arguments of a command are words and numerals; what it prints is the
  record of its fields, with the form they are printed in and what only JSON says
  besides.
- A line of a batch is its tokens between commas, whether it is text and whether
  it has brackets; its result is the path, from which the projections follow.
- The three pipes of a batch hold a number of messages.  A write to a full one
  waits.  When the reader has left, `writeln!` on stdout fails and the code
  ignores it, and `eprintln!` panics, which ends the process with code 101.  The
  caller takes both outputs as they come, or stderr only when stdout has ended
  (`inTurn`).
- Edits are the client's: a measurement, a formal value, the evidence or the
  anchor version of a snapshot rewritten, with the old replay key or a
  recomputed one (the function that computes it is exported).

## 3. What is checked

| run | instance and bounds | properties |
|---|---|---|
| `pipeline` | colliding domains, five anchors (one version with two contents, a second version, one of another domain version, one without a default), two acceptors and the empty one, two authority tags, five malformed foreign bundles and one of another registry, `MaxBundles = 7`, `MaxSnapshots = 2` | `AnchorsAreGrounded`, `GrantsStand`, `ExportsHydrate`, `RecordsAreRegistered`, `OneElementPerFormalObject`, `NothingInvented`, `ImplementsContract` |
| `formalization` | contracts with units, transforms, defaults and evidence demands; statements with shared, conflicting and missing evidence, all orders and subsets | `AdmittedEvidenceReplays`, `TraceCitesItsEvidence`, `OrderIsImmaterial`, `WithdrawalIsLocal` |
| `trajectory` | the three states of `kernel.test.ts`, five rules with declared ends, two authorities, two interchangeable callers, snapshots with missing and undeclared keys, two books of policies, default and given thresholds, `MaxEvents = 3` | `EndsAreDerived`, `WalksDeclaredGraph`, `DriftIsAccounted`, `ValidationCarries`, `PoliciesFollowResults` |
| `shapes` | every pair of paths over three states, `MaxLength = 5`; for each path its bytes masked and not, buffers of length 0, 2, 4 and 5, dirty, and every command with a flag or a stray word in every place | `CollapseIsLossless`, `RelationIsExact`, `RunsTilePrefix`, `StopsOnlyWhenFull`, `LanguagesAgree`, `CommandLineAgrees` |
| `chain` | chains from three of the 64 states, `MaxStates = 3`; three orders of bit rules, two readings | `MasksReplayChain`, `ClassificationsAgree`, `StatesSurviveEveryForm` |
| `batch_loops` | all three routines, `Lanes = 2`, lengths 0 to 5, one array at a time shorter than the others, bytes with stray bits, dirty columns | `ColumnsFollowItems`, `ReturnsReference` |
| `mcp` | every kind of message in an honest frame, six kinds of frame that are not or that carry another header, `MaxFrames = 2`, `StdoutCapacity = 1` | `AnswersStayInOrder`, `StopsAfterClose`, `OwedAnswersArrive`, `ImplementsSession` |
| `cli_batch` | inputs of up to four lines of every kind, stdin and stdout that hold one line and stderr that holds two, callers patient and impatient, who read stderr beside stdout or behind it | `AccountsForEveryLine`, `ExitCodeTellsRefusals`, `FinishesForAnyCaller` |
| `agent_session` | `MaxScenarios = 2` with one id twice, `MaxPairs = 2`, every exclusion, nine edits of a packet; `MaxSnapshots = 4` of five states; some nine hundred single calls: every tool with one argument missing, added or of another type, at every depth, workbenches of three scenarios, timelines with lists and texts beyond ASCII; the transitions of its workbenches as datasets for the profilers, whole and with eight things wrong | `VerdictIsExact`, `IdsMeanOneScenario`, `ToolsAgree`, `ChoicesReconstructOutput`, `SchemasSuffice`, `ProgramsAgree` |
| `packet_text` | the same agent, sending texts without escapes | finds `OwnPacketIsValid` violated |
| `state_gap` | the rules without declared targets | finds `Connected` violated |
| `cli_silent` | two lines, one of which may be bad, with `--quiet` and without | finds `QuietFailureIsSilent` violated |

What some of them say that their names do not: `DriftIsAccounted` relates the
head of a trajectory, its events and `weightedSnapshotSimilarity` when stale
results have brought older snapshots back.  `StatesSurviveEveryForm` takes each
state through the catalogue, the C entry points with their sentinels, the packed
word and the encoding of measurements.  `ProgramsAgree` lists everything in which
the benchmark programs may differ, from the tools and from each other, and says
that they differ in nothing else and, where the comment says so, do differ there.

Why the bounds are enough.  A registry collision needs two definitions of one
key and two acceptors.  A stale bundle needs one registration after the export:
the seven bundles are the five malformed ones, that of another registry and one
that is exported, at any time.  Two snapshots let an honest one and an edited one, or one of each anchor
version, meet; two records of one snapshot come from one snapshot projected
twice.  A result of a caller goes stale when the other commits between its two
steps, and three events let one result be committed, overtaken, and committed
again.  Five states hold a run, a return and a detour at once, on either side of
a comparison.  Path bytes that differ only above the mask, and leftovers equal
to a state of the path, are what the masking and the dirty buffers could
confuse.  Two turns of the chain's loop meet every ordered pair of states, all
4096, as the last transition.  Five items with two lanes are no vector, one or two, with and
without a tail.  Two frames are a frame and what it does to the next one:
swallows its header, leaves a rest in front of it, or keeps it from being read.
A pipe that holds one line is full while the batch has more, in both directions;
a stderr that holds two takes one refusal and the last word on it, and not two,
so that a caller who reads it last is among those that must be served and those
that cannot be.
Two scenarios of one id are an id that means two, and two pairs a comparison and
its converse; averages that are no multiple of a thousandth need three scenarios.
Four snapshots are three transitions, whose distances reach each of the three
actions.

Fairness.  The TypeScript packages and the loops are synchronous calls of a
client that may stop at any time; nothing in them waits, and no fairness is
assumed.  The two processes are scheduled by the operating system and wait only
for their pipes, so each gets weak fairness on its steps as a whole (`Server`,
`Batch`).  Of the other side the least is assumed that the property needs: a
reader that has not hung up goes on reading, of either output of a batch, and
the caller of a batch writes what it has and closes.  `FinishesForAnyCaller` has
a hypothesis beside: a caller that leaves stderr unread until stdout has ended
gets to the end only if the pipe can hold every refusal and the word on them all
(`Due`); else the two wait for each other, which is so of the program.  Nobody has
to close the server's input or to hang up, which may happen at any step or
never; `OwedAnswersArrive` ends with the reader hanging up, `StopsAfterClose` and
`FinishesForAnyCaller` do not.

A client that has used up what it may do, a path or a chain at its length, and a
loop or a process at its end stop for good: `CHECK_DEADLOCK FALSE` in
`formalization`, `shapes`, `chain`, `batch_loops`, `mcp`, `cli_batch`,
`agent_session`, `packet_text` and `cli_silent`.

### Disagreements found

1. *A null target resets the head* (`state_gap`).  `appendTransition` reads the
   head as `events.at(-1)?.targetStateId ?? initialStateId`
   (`packages/kernel/src/trajectories.ts:18`).  When the parameters after a
   transition select no state, its target is null and the head becomes the
   initial state again, so a transition leaving the initial state is committed
   next, although the check is there to refuse a source that "does not match
   the trajectory head" (line 20).  Rules that compile declare their targets and
   never get there: `trajectory` checks that.
2. *The batch command is never silent* (`cli_silent`).  The help text says that
   `--quiet` suppresses data on stdout (`packages/cli/src/main.rs:645`); the
   other commands look at the flag, `cmd_batch` takes the context as `_ctx`
   (line 406) and does not.  `TOOL_DESCRIPTION.md:85` says of invalid input that
   "stdout stays clean"; a batch with one bad line exits with 1 and leaves the
   results of the good ones, before and behind the refusal, on stdout (line 425).
   The run finds a quiet batch that fails over its input and has data on stdout,
   where either promise alone would keep it silent.
3. *Texts beyond ASCII change on the way* (`packet_text`).  The parser of the MCP
   server takes each byte of a string for a character
   (`packages/cli/src/mcp.rs:1970`), so a text beyond ASCII grows each time it is
   read.  A packet is read once more than the arguments it was built from, and
   the server calls its own packet invalid, which
   `packages/cli/scripts/smoke-mcp.mjs:103` takes for a failure.  A client that
   escapes such texts is safe: `agent_session` checks that.

Others were read in the code and have no run of their own:

- A command whose stderr nobody reads any more panics over its own complaint and
  exits with 101 (`packages/cli/src/main.rs:429`, and line 98); the documents know
  0, 1 and 2 (`docs/DECISIONS.md:129`, `TOOL_DESCRIPTION.md:90`).
  `ExitCodeTellsRefusals` allows 101 in that case and in no other.
- `parse_json_int_array` accepts `[0,,1]`, which is no JSON array (`Parses` in
  `CliBatch` passes over `Empty` tokens, as the code does).
- A tool registers afresh what its bundle holds and accepts any that agrees with
  itself (`ai-tools/semagraph-kernel-tool/src/index.ts:49`).  The same formal
  object under the same projection version has another element in the bundle of a
  registry that binds the anchor version to other predicates, where
  `docs/FORMAL-MODEL.md:85` says that projection "must return the same element of
  `B^6`".  Run `pipeline` has such a bundle among its own and projects through it,
  so `OneElementPerFormalObject` speaks of the records of one registry.
- Validation counts six distinct positions between 1 and 6 without asking for
  integers (`validation.ts:211`), so 1.5 passes and one bit has no decision.
- The programs of benchmark round 5 differ on inputs the benchmark does not have:
  `rust-mcp` does not round the average, `rust-mcp-upgraded` disagrees on a queued
  scenario without an objective, `no-mcp` takes two classes of regimes for a
  third and counts repeated states repeatedly (`ProgramsAgree`).
- One projection version can name two lists of predicates
  (`docs/FORMAL-MODEL.md:58`): the registry compares no predicates.

## 4. What is proved

Every theorem holds for all values of the constants that satisfy the assumptions
named below: definitions, contracts, rules, paths, buffers, frames and pipes of
any number, length and content.

### Anchors (`MathAnchorProofs`)

| theorem | says | argument |
|---|---|---|
| `RegistryTypeCorrect`, `RegistryAnchorsAreGrounded`, `RegistryGrantsStand` | the three invariants of the registry | by induction on the steps: an entry is written only where there was none, after validation against a domain that is never replaced; groundedness rests on type correctness, and both grow with the maps |
| `RegistryEntriesAreImmutable` | the action property | each action leaves every present entry as it was |
| `PipelineTypeCorrect`, `PipelineExportsHydrate` | bundles are well typed, and exports hydrate for ever | `ExportInv` adds to `ExportsHydrate` the invariants of the registry: a listing is taken from a grounded registry, and a bundle never changes |
| `PipelineRecordsAreRegistered`, `PipelineOneElement`, `PipelineImplementsContract` | records follow the registry that decided them, one element to one snapshot and registry; the pipeline refines `AuthorityContract`.  No hypothesis on bundles | `PipelineInv` says of every bundle that hydrates whose it is: what was exported is still in the registry as it is now, what was brought is a registry of its own that never changes.  A definition resolved from it is current to that registry (`Current`), which has one to a version (`CurrentIsOne`), and a record is a function of its definition and its snapshot |
| `PipelineInventsNothing` | no record rests on a value that neither evidence nor a declared default licenses | `RecordsReplay`: a record was issued only where its snapshot replayed under a definition that binds each variable once, which is so of every entry of a grounded registry and of every anchor of a bundle that hydrates; then the row of a variable is the one its binding gives.  No hypothesis on snapshots or bundles |
| `EvidenceReplays`, `OrderNeverMatters`, `TraceCitesEvidence`, `WithdrawalStaysLocal` | the properties of a caller that restates its evidence | `CallerInv`, that the observations are a rearrangement of part of a statement, so their keys are distinct; what a snapshot retains is then exactly what was admitted (by induction over its rows), formalizing looks up by key, and a predicate reads only its variables |

### Kernel and shapes

| theorem | says | argument |
|---|---|---|
| `TrajectoryInvariant`, `TrajectoryEndsAreDerived`, `TrajectoryConnected` | both ends of every committed transition, and the head, are derived states, and no transition is out of place | `TrajectoryInv` says of every result that is held and accepted, or committed, that it leads from the state its first snapshot derives to that of its second, along a rule; the target is then never null, the head is the last event's (`HeadIsDerived`), and a stale result fits only where its source is the head |
| `TrajectoryWalksDeclaredGraph` | the trajectory refines `DeclaredWalk` | a sound result takes an edge (`SoundResultsTakeEdges`), a commit appends one step (`WalkedGrows`), and evaluating stutters |
| `HistoryInvariant`, `TrajectoryDriftIsAccounted`, `TrajectoryValidationCarries` | what changed since the start was reported by events; what is refused later was there or was assigned | neither property is inductive: a result held by a caller starts from a snapshot that may no longer be the head.  `HistoryInv` says of each that it had been reached, and of every snapshot reached that the events so far account for it; a commit then adds the changes of one rule (`EffectsReplaceValues`) |
| `ResultsInvariant`, `TrajectoryPoliciesFollow` | policies follow what happened: every result is in the class its change and the thresholds give, no larger change is in a lesser class, a book of policies that is read in two parts selects the same one, and withholding the transition adds only policies the authority is not allowed | `ResultsInv` adds to `HistoryInv` that held results are of authorities, committed ones accepted, and snapshots maps.  The place of a policy in a stable sort is a count of those that go before it; going before is a strict order, so places are a bijection on the policies matched, in whatever order the book has them |
| `CollapseInvariant`, `CollapseTypeCorrect`, `CollapseTilesPrefix`, `CollapseStopsOnlyWhenFull` | the loop of `run_collapse_into`, for every path and all buffers | `CollapseInv` adds `runs <= read`; `RunsTilePrefix` is inductive through the starts of the runs (`opened`) |
| `ShapeAndDwellAreThePath`, `CascadeIsExact` | the collapse loses nothing but duration; the cascade decides form by the states entered | each recursive function is shown to satisfy its equations at every round; a round of the collapse keeps the replay of what it has, and shape and the states entered are the same sequence round by round; two paths with one shape and one dwell replay alike, hence are equal |
| `BothInvariant`, `CoreIsTheReference` | Rust computes what TypeScript computes, alone, in a batch and in its loop | `BothInv` ties the buffers of a call to the round of the reference's loop that has as much read; masked bytes have the bits of the state they carry, so that the folds agree term by term |
| `CommandLineIsTheReference` | what `compare`, `compress`, `classify` and `lookup` print is what the reference computes, in every form; a flag, wherever it is put, changes neither exit code nor data, and a stray word is an error | a call is a command and the rest; flags drop out of the words by counting (`FlagsDropOut`), and one computation is printed in every form (`CommandsInForm`).  A stray word lands in the rest and fits no command; the separator of `compare` is the only one there is; the number that `lookup` takes has those of its two states as digits |

### State64

| theorem | says | argument |
|---|---|---|
| `TablesMirrorReference` | `classify_branchless` of any two bytes is the reference classification of the states they mask to | the distance within a module is the number of the mask's bits in it (`ModuleDistanceOfMask`), and scope and regime agree case by case on the distances (`ScopesAgree`, `RegimesAgree`) |
| `ChainInvariant`, `SignatureReplaysChain`, `NetMaskTelescopes`, `DetoursCountTwice` | masks and folds of a chain of any length | one more state adds one mask to each fold; symmetric difference cancels the state in the middle, and the cardinality of a symmetric difference differs from the sum by twice the overlap |
| `ChainsAreClassifiedAlike` | the last transition of a chain, however long, has in the tables the row of the reference classification, whatever stray bits the byte of its source has | the last two states of a chain are states (`ChainTypeCorrect`), and `TablesMirrorReference` of them |
| `CompressionInvariant` | `compress_chain64`, in one pass over a chain, sums up what the adapter accumulated state by state | `CompressionInv` is `ChainInv` and `SumInv`: one more state adds one mask to the list and its size to the sum |
| `PackedWordsDecode` | every field of the packed word of a transition comes back | the fields lie in slots of the word that do not overlap, and each is the digits of a number small enough for its slot |
| `RefusalsAreTold` | the sentinels of the C entry points stand for exactly the refusals | no packed word, class or index of two states is the sentinel, and stray high bits are refused where states are asked for |
| `CatalogueFollows` | catalogue, modules, transformations, neighbours, similarity and matrix of the adapter speak of one transition as the core's index does | the entry of a state is at its number, that of a pair at the two-digit number of both; a state is determined by its digits |
| `MeasuredStatesEncode` | what is measured of a state is encoded as that state, in any order, and never half of it | the decision of a rule depends on the one parameter it reads, so each bit follows its own reading, and a reading that is missing, doubled or displaced is refused |
| `StatesSurvive` | the property of the run, whose parts are the four before | by `CompressionInvariant` and their lemmas |
| `BatchTypeCorrect`, `BatchColumnsFollowItems`, `BatchReturnsReference` | the batch loops stay in their arrays and return the reference rows | `LoopInv` adds that at the return there is no item left that all arrays have room for; the row is then `TablesMirrorReference` |

### The processes

| theorem | says | argument |
|---|---|---|
| `ServerInvariant`, `AnswersInOrder` | an answer under an id is that to the message of the id, sent whole; answers keep the order of the messages, none is given twice | it is about the units *not yet read*: bodies lie in them in the order of their frames (`InOrder`), and behind every answer already decided (`Answered`).  A read takes units from the front only, wherever a false `Content-Length` cuts, so a whole body that comes out is of a later frame than every answer before |
| `PlaceInvariant`, `ServerImplementsSession` | `McpServer` refines `RequestSession`: to the client, the pipes, the framing and the loop of `serve` are a session that asks and answers in turn | `ServerInvariant` allows an answer to be skipped, so `Place` says where the server stands.  `Follows`: the units of the frames not yet done lie contiguous in the pipe (`Laid`), the server is at a header, a blank line or a body of the first of them, and what it has given and holds is exactly what the frames before it owe.  `Lost`: an honest prefix has been answered and the frame behind it lies.  `Ended`: it reads no more, and what it gave agrees with what is owed.  Every write then gives the next answer owed, or one that the mapping cuts off because it comes behind a lie; every other step asks or stutters |
| `BatchInvariant`, `EveryLineAccounted`, `ExitCodeIsExact` | the lines done are blank, compressed or refused, once each and in order; the exit code tells of refusals, and is 101 only if stderr has lost its reader | `BatchInv` adds where the lines of the input are (looked at, read, in the pipe, still with the caller) and at what stage the command is, `main`'s own complaint and a panic among them; the number of good lines before a place grows by one exactly when a line is printed |

### Assumptions

The constants' own, which TLC evaluates:

- `NoneIsNoEntry`; bytes, lengths and leftovers of the loop are naturals; the
  states of paths are elementary (`StatesAreElementary`); chains start in states;
  batches of bytes with at least one lane; frames of the MCP server have headers,
  a message and a declared length, true or false; no length is mistaken for its
  absence (`NoneAssumption`: the code's `Option` of a number); pipes hold at least
  one line (`CapacitiesAssumption` for all three of a batch).
- `NoneIsNoBundle`: the value that stands for the modelled registry, and for an
  unbound version, is no bundle and no definition in one.
- `ContractsAreRegistered`: the contracts of `FormalizationReplay` have what
  registration ensures, list fields, keys and variables bound once, integer
  positions and predicates over bound variables.  The integer positions are the
  one thing validation does not ask (section 3): without them the order of two
  decisions would not be defined.  `StatementsAreObservations`: an observation has
  its four fields and a value.
- `EncodersReadBits`: every rule of an encoder reads one parameter, no two the same,
  and can come out either way on some reading.  An encoder with a rule that is
  always true cannot tell two states apart, and the property is not about it.
- `SnapshotsAreFinite`, `RulesAssignInOrder`, `ExpressionsAreTrees`: records have
  finitely many keys, effects are a list, and expressions are values without
  cycles, as objects that come from JSON are.  `RuleIdsAreUnique`: a result names
  its rule by its id.
- `AuthoritiesAreNamed`, `ThresholdsAreNumbers`, `BooksListPolicies`: no authority is
  the value that stands for none, given thresholds are numbers, and a book is a
  list of policies whose priorities can be compared, as the types of `regimes.ts`
  and `policies.ts` have it.

`TrajectoryEndsAreDerived`, `TrajectoryConnected` and
`TrajectoryWalksDeclaredGraph` assume `RulesCompile`, what
`compileDeclaredStateGraph` demands of the rules; run `state_gap` shows what
happens without it.  The history of a trajectory needs no such hypothesis.

The theorems that state a property of section 3 say for every value of the
constants what its run says for one.  The inductive invariants, the type
invariants, `EntriesAreImmutable` and the two facts on the folds of a chain
(`NetIsEndToEnd`, `DetoursAreEven`) are proved only.

### Recursion

What a recursive function computes is proved from its definition: a function by
recursion on the naturals exists (`PrimitiveRecursion`, by least numbers from
`WFMin` and `NatLessThanWellFounded`), so that the `CHOOSE` it abbreviates
satisfies its equations, and induction over its rounds is a step of the kind
"a set of naturals with 0 and with every successor is all of them".  The theorems
of the library that take an operator are not needed.  This is why
`RetainedObservations`, `OwedAnswers`, the functions of `shapes.ts` and of `shapes.rs` are
recursive functions, as are the words among the arguments of a command
(`Positional`), and why sorted predicates (`InOrder`) and matched policies are
given by the place of each: `FoldLeft`, `SelectSeq` and `SortSeq` cannot be
expanded by the prover.

### Only model-checked

- Liveness (`StopsAfterClose`, `OwedAnswersArrive`, `FinishesForAnyCaller`), which
  rests on fairness.
- The six properties of `AgentSession` (`VerdictIsExact`, `IdsMeanOneScenario`,
  `ToolsAgree`, `ChoicesReconstructOutput`, `SchemasSuffice`, `ProgramsAgree`).  JSON is
  a tree, and `JsonValues` compares, prints and parses it by `RECURSIVE` operators,
  which no module with a theorem can reach; the tools and the benchmark programs
  on top of it sort, select and fold lists throughout.  Their interest is in the
  many shapes of the input, which TLC enumerates.

Every other property of the passing runs is stated by a theorem.

## 5. Not modelled, and the plan

Not modelled at all:

- the SVG renderer, which lays out text;
- schemas and examples, which are data;
- rounds 1, 2 and 4 of the agentic benchmark, whose tasks are smaller forms of
  those of the others, and the other measurements, which no part of the system
  calls.

Left out of parts that are modelled:

- ids and labels of the State64 catalogue as text, and `policy-synthesis.ts`,
  which words a policy;
- of the benchmarks, reading files, starting the server, token proxies and
  reports; their transport is `McpServer`'s;
- the tools of `ai-tools/` that classify numbers and look up transitions, which
  hydrate nothing, and the dispatch by name.

What is left to do: the remaining tools of `ai-tools/` and their dispatch; and, for
theorems on `AgentSession`, a form of `JsonValues` without recursive operators, trees
of bounded depth for instance.
