---------------------------- MODULE State64Chain ----------------------------
(***************************************************************************)
(* The compression of an ordered chain of states, written once in          *)
(* TypeScript (compressState64Chain) and once in Rust (compress_chain64):  *)
(* both walk over the neighbouring pairs of the chain, collect the masks,  *)
(* fold them into the net mask and add up the distances.  Here the chain   *)
(* grows as states are observed, and the folds with it.                    *)
(***************************************************************************)
EXTENDS State64, Sequences

CONSTANTS
  Sources,   \* the states a chain starts in
  MaxStates  \* bound on the length of a chain

ASSUME SourcesAssumption == Sources \subseteq States64

ASSUME MaxStatesAssumption == MaxStates \in Nat

VARIABLES
  states,               \* the chain so far
  orderedMutationMasks, \* the masks of its transitions, in order
  netMutationMask,      \* their fold
  cumulativeDistance    \* the sum of their distances

vars == <<states, orderedMutationMasks, netMutationMask, cumulativeDistance>>

Source == states[1]

Target == states[Len(states)]

Init ==
  /\ \E source \in Sources : states = <<source>>
  /\ orderedMutationMasks = <<>>
  /\ netMutationMask = {}
  /\ cumulativeDistance = 0

\* Mutation: every mask is taken from the source of the chain.
FoldFromSource(target) ==
  LET mask == MutationBetween(Source, target)
  IN  /\ Len(states) < MaxStates
      /\ states' = Append(states, target)
      /\ orderedMutationMasks' = Append(orderedMutationMasks, mask)
      /\ netMutationMask' = mask
      /\ cumulativeDistance' = cumulativeDistance + Cardinality(mask)

Fold(target) ==
  LET mask == MutationBetween(Target, target)
  IN  /\ Len(states) < MaxStates
      /\ states' = Append(states, target)
      /\ orderedMutationMasks' = Append(orderedMutationMasks, mask)
      /\ netMutationMask' = MutationBetween(netMutationMask, mask)
      /\ cumulativeDistance' = cumulativeDistance + Cardinality(mask)

Next == \E target \in States64 : Fold(target)

Spec == Init /\ [][Next]_vars

-----------------------------------------------------------------------------
TypeOK ==
  /\ states \in Seq(States64) /\ states # <<>>
  /\ orderedMutationMasks \in Seq(States64)
  /\ netMutationMask \in States64
  /\ cumulativeDistance \in Nat

(* The signature of a chain names its two ends, its masks and the net mask, *)
(* and loses nothing: applying the masks to the source one after the other  *)
(* meets the states of the chain again.                                     *)
MasksReplayChain ==
  /\ Len(states) = Len(orderedMutationMasks) + 1
  /\ \A i \in 1..Len(orderedMutationMasks) :
       states[i + 1] = MutationBetween(states[i], orderedMutationMasks[i])

(* The net mask forgets the way: it is the mutation between the two ends of *)
(* the chain, wherever the chain has been.                                  *)
NetIsEndToEnd == netMutationMask = MutationBetween(Source, Target)

(* The cumulative distance is at least the net distance, which is what the  *)
(* volatility of a scenario rests on, and differs from it by an even        *)
(* number: what is flipped on the way and does not last is flipped twice.   *)
DetoursAreEven ==
  \E detours \in 0..cumulativeDistance :
    cumulativeDistance = Cardinality(netMutationMask) + 2 * detours

(* The tables of the Rust core give the last transition the row of the      *)
(* reference classification, in the codes both share, and they read bytes   *)
(* with stray high bits as the states these mask to.                        *)
ClassificationsAgree ==
  Len(states) > 1 =>
    LET source == states[Len(states) - 1]
    IN  \A stray \in SUBSET {7, 8} :
          ClassifyBranchless(source \cup stray, Target) = Encoded(ClassifyPair(source, Target))

(* The packed word of the last transition gives every field back: each slot *)
(* is wide enough for whatever the field holds, and no two slots overlap.   *)
PackedWordDecodes ==
  Len(states) > 1 =>
    LET entry == Transition64Entry(states[Len(states) - 1], Target)
        word == Pack(entry)
    IN  \A f \in DOMAIN Slots :
          {b \in 0..(Slots[f][2] - 1) : Slots[f][1] + b \in word} = BitsOf(entry[f], 16)
=============================================================================
