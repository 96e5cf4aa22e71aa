---------------------------- MODULE State64Forms ----------------------------
(***************************************************************************)
(* The forms a state of a chain takes in the two packages.  In             *)
(* packages/state64-adapter: its catalogue entry (catalog.ts, modules.ts), *)
(* its transformations (transformations.ts, hypercube.ts), the matrix of   *)
(* transitions (matrix.ts), similarity (similarity.ts) and the encoding of *)
(* measurements (encoding.ts, anchors.ts); the id of a state or a mask is  *)
(* the set of its positions that are 1, that of a module the same of its   *)
(* three.  In packages/core-rs/src/lib.rs: the checked functions and their *)
(* C entry points; a byte is the set of its bits that are 1, a state       *)
(* leaves 7 and 8 zero, and a C entry point tells of a refusal by a        *)
(* sentinel.                                                               *)
(***************************************************************************)
EXTENDS State64Chain, SequencesExt

CONSTANTS
  Encoders,  \* encoding definitions
  Readings,  \* the values a parameter is measured at
  Null       \* a value that a bit rule does not give

Kernel == INSTANCE KernelFunctions

LowerOf(state) == state \cap LowerModule

UpperOf(state) == {p - 3 : p \in state \cap UpperModule}

\* The module of an index: three binary digits, the first of which is position 1.
ModuleCatalogue == [i \in 1..8 |-> {p \in 1..3 : Digit(i - 1, 3 - p) = 1}]

CatalogEntry(state, index) ==
  [state |-> state, index |-> index, ordinal |-> index + 1,
   lowerModuleId |-> LowerOf(state), upperModuleId |-> UpperOf(state)]

Catalogue == [i \in 1..64 |-> CatalogEntry(StateNumbered(i - 1), i - 1)]

\* The entries that a lookup finds; it throws if there is none.
Found(Sought(_)) == {entry \in ToSet(Catalogue) : Sought(entry)}

GetById(id) == Found(LAMBDA entry : entry.state = id)

GetByOrdinal(ordinal) == Found(LAMBDA entry : entry.ordinal = ordinal)

StatesByModulePair(lower, upper) ==
  Found(LAMBDA entry : entry.lowerModuleId = lower /\ entry.upperModuleId = upper)

-----------------------------------------------------------------------------
\* Mutation: a repeated position flips its bit once more.
AdmitsRepeated(positions) == ToSet(positions) \subseteq Positions

\* createMutationMask64() throws for a position out of range or repeated.
AdmitsPositions(positions) == IsInjective(positions) /\ ToSet(positions) \subseteq Positions

TransformState64(source, positions) ==
  LET mask == ToSet(positions)
  IN  [source |-> source, mask |-> mask, distance |-> Cardinality(mask),
       target |-> MutationBetween(source, mask)]

ElementaryNeighbours(state) == [p \in Positions |-> MutationBetween(state, {p})]

\* createState64TransitionMatrix(): every source with every target.
TransitionMatrix ==
  [i \in 1..(64 * 64) |->
    LET source == Catalogue[((i - 1) \div 64) + 1].state
        target == Catalogue[((i - 1) % 64) + 1].state
    IN  [source |-> source, target |-> target, classified |-> ClassifyPair(source, target)]]

SharedModuleScore(a, b) ==
  (IF LowerOf(a) = LowerOf(b) THEN 1 ELSE 0) + (IF UpperOf(a) = UpperOf(b) THEN 1 ELSE 0)

\* 0.75 (1 - distance/6) + 0.25 score/2, in ten-thousandths, where it is whole.
StateSimilarity(a, b) ==
  1250 * (6 - ModuleDistance(Positions, a, b) + SharedModuleScore(a, b))

-----------------------------------------------------------------------------
\* measurementsToParameterSnapshot() throws for a blank key and a repeated one.
AdmitsMeasurements(measurements) ==
  LET keys == [i \in DOMAIN measurements |-> measurements[i].key]
  IN  Kernel!Blank \notin ToSet(keys) /\ IsInjective(keys)

\* The value that was measured under each key: no key is repeated.
SnapshotOf(measurements) ==
  [key \in {m.key : m \in ToSet(measurements)} |->
     (CHOOSE m \in ToSet(measurements) : m.key = key).value]

\* Six positions, each of them once; a seventh rule makes a code of seven bits.
AdmitsRules(bitRules) ==
  /\ {r.position : r \in ToSet(bitRules)} = Positions
  /\ Len(bitRules) = 6

AdmitsEncoding(definition, measurements) ==
  /\ AdmitsMeasurements(measurements)
  /\ Kernel!ValidSnapshot(definition.parameterDefinitions, SnapshotOf(measurements))
  /\ Kernel!ValidatePredicateParameterReferences(
       definition.parameterDefinitions, {r.predicate : r \in ToSet(definition.bitRules)}) = {}
  /\ AdmitsRules(definition.bitRules)

OrElse(value, default) == IF value = Null THEN default ELSE value

Decision(rule, snapshot) ==
  LET result == Kernel!EvaluatePredicateSet(rule.predicate, snapshot)
  IN  [position |-> rule.position, result |-> result,
       value |-> IF result THEN OrElse(rule.trueValue, 1) ELSE OrElse(rule.falseValue, 0)]

\* Mutation: the rules are taken in the order they are given in.
DecisionsAsGiven(definition, snapshot) ==
  [i \in DOMAIN definition.bitRules |-> Decision(definition.bitRules[i], snapshot)]

\* The rules in the order of their positions, of which no two are the same.
Decisions(definition, snapshot) ==
  [p \in Positions |->
     Decision(CHOOSE r \in ToSet(definition.bitRules) : r.position = p, snapshot)]

\* The values of the decisions, joined, are the binary code of the state.
EncodedState(definition, measurements) ==
  LET decisions == Decisions(definition, SnapshotOf(measurements))
  IN  {i \in DOMAIN decisions : decisions[i].value = 1}

\* Every test of a predicate is of the parameter of this key.
ReadsOnly(predicate, key) ==
  \A i \in DOMAIN predicate : predicate[i].kind = "test" => predicate[i].variable = key

\* A definition whose rules read one parameter each, of which either bit can be measured.
ReadsBits(definition) ==
  LET definitions == definition.parameterDefinitions
      rules       == definition.bitRules
  IN  /\ DOMAIN definition = {"parameterDefinitions", "bitRules"}
      /\ Kernel!ValidateParameterDefinitions(definitions) = {}
      /\ AdmitsRules(rules)
      /\ definitions \in [1..6 -> ToSet(definitions)] /\ rules \in [1..6 -> ToSet(rules)]
      /\ \A i \in 1..6 :
           LET key == definitions[i].key
           IN  /\ DOMAIN rules[i] = {"position", "predicate", "trueValue", "falseValue"}
               /\ ReadsOnly(rules[i].predicate, key)
               /\ Kernel!ReferencedKeys(rules[i].predicate) \subseteq {key}
               /\ \A reading \in Readings : Kernel!IsValidValue(definitions[i], reading)
               /\ \A bit \in 0..1 : \E reading \in Readings :
                    Decision(rules[i], [k \in {key} |-> reading]).value = bit

ASSUME EncodersReadBits == \A e \in Encoders : ReadsBits(e)

-----------------------------------------------------------------------------
\* Mutation: a byte of seven bits passes for a state.
IsValidByte(byte) == byte \subseteq 1..7

\* The checked functions of lib.rs.
IsValidState64(byte) == byte \subseteq Positions

Ok(value) == [ok |-> TRUE, value |-> value]

Err(code) == [ok |-> FALSE, value |-> code]

ApplyMutation64(state, mask) ==
  CASE ~IsValidState64(state)                         -> Err("InvalidState")
    [] IsValidState64(state) /\ ~IsValidState64(mask) -> Err("InvalidMask")
    [] OTHER                                          -> Ok(MutationBetween(state, mask))

\* What the functions of a pair of states do that refuse a byte that is none.
OfStates(source, target, value) ==
  IF IsValidState64(source) /\ IsValidState64(target) THEN Ok(value) ELSE Err("InvalidState")

HammingDistance64(source, target) ==
  OfStates(source, target, Cardinality(MutationBetween(source, target)))

TransitionIndex64(source, target) == OfStates(source, target, TransitionIndex(source, target))

LookupTransition64(source, target) ==
  OfStates(source, target, Transition64Entry(source, target))

\* compress_chain64(): the three folds over the neighbouring pairs.
CompressChain64(bytes) ==
  LET masks == [i \in 1..(Len(bytes) - 1) |-> MutationBetween(bytes[i], bytes[i + 1])]
      net[i \in 0..Len(masks)] == IF i = 0 THEN {} ELSE MutationBetween(net[i - 1], masks[i])
      distance[i \in 0..Len(masks)] ==
        IF i = 0 THEN 0 ELSE distance[i - 1] + Cardinality(masks[i])
  IN  IF Len(bytes) < 2 THEN Err("EmptyChain")
      ELSE IF \E i \in DOMAIN bytes : ~IsValidState64(bytes[i]) THEN Err("InvalidState")
      ELSE Ok([source |-> bytes[1], target |-> bytes[Len(bytes)],
               net_mutation_mask |-> net[Len(masks)],
               cumulative_distance |-> distance[Len(masks)],
               transition_count |-> Len(masks)])

-----------------------------------------------------------------------------
\* The C entry points.
NoByte == 255
NoIndex == 65535
NoWord == 0..63

sg64_is_valid_state(byte) == IF IsValidState64(byte) THEN 1 ELSE 0

sg64_apply_mutation(state, mask) ==
  IF IsValidState64(state) /\ IsValidState64(mask) THEN NumberOf(MutationBetween(state, mask))
  ELSE NoByte

sg64_hamming_distance(source, target) ==
  IF IsValidState64(source) /\ IsValidState64(target)
  THEN Cardinality(MutationBetween(source, target)) ELSE NoByte

sg64_transition_index(source, target) ==
  IF IsValidState64(source) /\ IsValidState64(target) THEN TransitionIndex(source, target)
  ELSE NoIndex

sg64_transition_packed(source, target) ==
  LET found == LookupTransition64(source, target)
  IN  IF found.ok THEN Pack(found.value) ELSE NoWord

-----------------------------------------------------------------------------
\* Measurements that a definition reads as the bits of a state, in the order of its rules.
Measured(definition, state) ==
  [i \in DOMAIN definition.bitRules |->
    LET rule == definition.bitRules[i]
        key  == definition.parameterDefinitions[i].key
        bit  == IF rule.position \in state THEN 1 ELSE 0
    IN  [key |-> key, value |-> CHOOSE v \in Readings : Decision(rule, [k \in {key} |-> v]).value = bit]]

(* The adapter finds each state of a chain by its id, its number and its    *)
(* two modules, and numbers it as the Rust core does; it reaches the next   *)
(* state by the positions of the mask in any order, each named once; a bit  *)
(* further away is a bit less similar; and the matrix has the transition    *)
(* where the core's index says.                                             *)
CatalogueFollowsChain ==
  Len(states) > 1 =>
    LET source == states[Len(states) - 1]
        mask   == orderedMutationMasks[Len(orderedMutationMasks)]
        flips  == SetToSeq(mask)
        entry  == Catalogue[NumberOf(source) + 1]
        row    == TransitionMatrix[TransitionIndex(source, Target) + 1]
    IN  /\ \A found \in {GetById(source), GetByOrdinal(NumberOf(source) + 1),
                         StatesByModulePair(LowerOf(source), UpperOf(source))} : found = {entry}
        /\ entry.state = source
        /\ NumberOf(source) = 8 * (CHOOSE l \in 0..7 : ModuleCatalogue[l + 1] = entry.lowerModuleId)
                                + (CHOOSE u \in 0..7 : ModuleCatalogue[u + 1] = entry.upperModuleId)
        /\ \A positions \in {flips, Reverse(flips)} :
             /\ AdmitsPositions(positions)
             /\ TransformState64(source, positions).target = Target
             /\ mask # {} => ~AdmitsPositions(Append(positions, positions[1]))
        /\ Target \in Range(ElementaryNeighbours(source)) <=> Cardinality(mask) = 1
        /\ \A p \in Positions \ mask :
             StateSimilarity(source, MutationBetween(Target, {p})) < StateSimilarity(source, Target)
        /\ row.source = source /\ row.target = Target /\ row.classified.mutationMask = mask

\* What a caller of the C entry points is told of two bytes.
RefusalIsTold(s, t) ==
  LET refused == \E byte \in {s, t} : sg64_is_valid_state(byte) = 0
  IN  /\ refused <=> ~(s \cup t \subseteq Positions)
      /\ refused <=> sg64_apply_mutation(s, t) = NoByte
      /\ refused <=> ~ApplyMutation64(s, t).ok
      /\ refused <=> sg64_hamming_distance(s, t) = NoByte
      /\ refused <=> sg64_transition_index(s, t) = NoIndex
      /\ refused <=> sg64_transition_packed(s, t) = NoWord
      /\ refused => ~CompressChain64(<<s, t>>).ok
      /\ ~refused => /\ HammingDistance64(s, t) = Ok(sg64_hamming_distance(s, t))
                     /\ TransitionIndex64(s, t) = Ok(sg64_transition_index(s, t))

(* The core folds a chain to what was accumulated observation by            *)
(* observation, and a caller of its C entry points can tell a refusal from  *)
(* every answer: of the last two states, and of bytes with stray high bits. *)
SentinelsAreNoAnswers ==
  Len(states) > 1 =>
    /\ CompressChain64(states) =
         Ok([source |-> Source, target |-> Target, net_mutation_mask |-> netMutationMask,
             cumulative_distance |-> cumulativeDistance,
             transition_count |-> Len(orderedMutationMasks)])
    /\ \A a, b \in SUBSET {7, 8} :
         RefusalIsTold(states[Len(states) - 1] \cup a, Target \cup b)

(* What is measured of a state is encoded as that state, in whatever order  *)
(* the measurements are taken and the rules are written, and never half of  *)
(* it: a measurement that is missing or repeated, or a rule that writes     *)
(* another's position, is refused.                                          *)
MeasurementsEncode ==
  \A e \in Encoders :
    LET m == Measured(e, Target)
    IN  /\ \A order \in {m, Reverse(m)} :
             AdmitsEncoding(e, order) /\ EncodedState(e, order) = Target
        /\ \A i \in DOMAIN m :
             /\ ~AdmitsEncoding(e, RemoveAt(m, i))
             /\ ~AdmitsEncoding(e, Append(m, m[i]))
             /\ ~AdmitsEncoding([e EXCEPT !.bitRules[i].position = (@ % 6) + 1], m)

(* Whatever form a state of the chain takes in either package, it can be    *)
(* taken back from it, and what is no form of a state is refused.           *)
StatesSurviveEveryForm ==
  /\ PackedWordDecodes
  /\ CatalogueFollowsChain
  /\ SentinelsAreNoAnswers
  /\ MeasurementsEncode
=============================================================================
