--------------------------- MODULE SelectedOpening ---------------------------
(***************************************************************************)
(* The live source of the selected-opening artifact                        *)
(* (talus-mpc/src/online.rs): produce_selected_opening_artifact of         *)
(* ProductionStrictLiveVectorMpcArtifactSource, which turns a consumed     *)
(* batch of tokens into one opened response and hint.                      *)
(*                                                                         *)
(* Seen by one party.  A handle stands for the secret it shares, as in     *)
(* BitCircuits, whose circuits are single steps here, and everything that  *)
(* is opened is recorded when this party sends its share of the opening:   *)
(* from then on its peers may learn the value, whether or not this call    *)
(* goes on.  PhaseRuntime says what driving and collecting a phase is.     *)
(* The call drives a phase and collects it at once, and a collect that     *)
(* finds messages missing is an error that ends it.                        *)
(*                                                                         *)
(* The ring is that of scalars: a challenge multiplies every lane.         *)
(* OpeningSpec and its parts are named so that StrictSigningProofs can     *)
(* extend this module beside StrictSigning, which calls the source.        *)
(***************************************************************************)
EXTENDS Integers, Sequences, FiniteSets, Functions

CONSTANTS
  Q, Width,    \* the modulus, and the bits of a representative
  Gamma,       \* GAMMA1 - BETA
  Gamma2,
  Omega,
  A,           \* the matrix, a sequence of rows
  S1,          \* the key: its first secret vector,
  T,           \* and t1 * 2^d
  ChunkLanes,  \* max_vector_lanes_per_chunk
  Batches,     \* the consumed batches, with the inputs handed to the source
  Masks,       \* [value, bits]: what the lanes are masked with, and its bits
  NoArtifact

ZLanes == Len(S1)
HLanes == Len(T)
Lanes == ZLanes + HLanes

ASSUME ParameterAssumption ==
  /\ Q \in Nat \ {0} /\ Width \in Nat /\ Q < 2 ^ Width
  /\ Gamma \in 2 .. Q - 1 /\ Omega \in Nat
  /\ Gamma2 \in Nat \ {0} /\ (Q - 1) % (2 * Gamma2) = 0
  /\ S1 \in Seq(0 .. Q - 1) /\ T \in Seq(0 .. Q - 1) /\ ZLanes > 0
  /\ A \in [1 .. HLanes -> [1 .. ZLanes -> 0 .. Q - 1]]
  /\ ChunkLanes \in Nat \ {0}

\* A candidate: its token (session, nonce share y), the session its input names,
\* whether w and A s1 were computed before, and its public metadata.
Candidate ==
  [session : Nat, handed : Nat, precomputed : BOOLEAN, y : [1 .. ZLanes -> 0 .. Q - 1],
   priority : 0 .. Q - 1, ctilde : 0 .. Q - 1]

ASSUME CandidateAssumption ==
  /\ \A b \in Batches : b \in Seq(Candidate) /\ b # <<>>
  /\ \A m \in Masks : m.value \in 0 .. Q - 1 /\ m.bits \in 0 .. 2 ^ Width - 1

VARIABLES
  batch,       \* the candidates
  mask,        \* the mask of every lane
  stage,       \* where the call is
  values,      \* the fused lanes: z and r of every candidate
  recovered,   \* the lanes as their recovered bits give them
  hints,       \* the hint bits of each candidate
  violations,  \* what is left to be or-ed, each a bit for every candidate
  valid,       \* one bit for each candidate
  todo,        \* priority selection: the candidates from the cursor on
  prefix,      \* one of those before is valid
  selected,    \* one bit for each candidate
  lanes,       \* the selected lanes opened so far
  driven,      \* history: the labels of the phases driven, in their order
  opened,      \* history: [what, lanes], what this party has sent shares to open
  outcome,
  artifact

circuit == <<values, recovered, hints, violations, valid>>
selection == <<todo, prefix, selected>>
openingVars == <<batch, mask, stage, circuit, selection, lanes, driven, opened, outcome, artifact>>

Candidates == 1 .. Len(batch)
Bits == {0, 1}
BitNot(x) == 1 - x
\* (Mutant: without the product.)
OrSum(x, y) == x + y
Or(x, y) == x + y - x * y
Bit(condition) == IF condition THEN 1 ELSE 0

(***************************************************************************)
(* Preparation, which is linear in what is shared and needs no phase.      *)
(***************************************************************************)
SumOver(f) == FoldFunction(+, 0, f)
Dot(u, v) == SumOver([k \in DOMAIN u |-> u[k] * v[k]])
Times(v) == [i \in 1 .. HLanes |-> Dot(A[i], v)]

\* strict_prepare_runtime_z_share: z = y + c s1.
ZShare(c) == [k \in 1 .. ZLanes |-> (c.y[k] + c.ctilde * S1[k]) % Q]

\* strict_runtime_hint_approx_share: r = A z - c t1 2^d, and
\* strict_runtime_hint_approx_share_from_precomputed: w + c As1 - c t1 2^d.
HintApprox(c) ==
  IF c.precomputed
  THEN [i \in 1 .. HLanes |-> (Times(c.y)[i] + c.ctilde * Times(S1)[i] - c.ctilde * T[i]) % Q]
  ELSE [i \in 1 .. HLanes |-> (Times(ZShare(c))[i] - c.ctilde * T[i]) % Q]

\* The fused lanes, and the slices of a candidate.
Fused ==
  [l \in 1 .. Len(batch) * Lanes |->
     LET c == batch[((l - 1) \div Lanes) + 1]
     IN (ZShare(c) \o HintApprox(c))[((l - 1) % Lanes) + 1]]
Slice(s, j, from, n) == SubSeq(s, (j - 1) * Lanes + from + 1, (j - 1) * Lanes + from + n)

ZPart(s, j) == Slice(s, j, 0, ZLanes)
HPart(s, j) == Slice(s, j, ZLanes, HLanes)

(***************************************************************************)
(* The masked canonical opening: C = x + a is opened, and the bits of x    *)
(* recovered from C and the bits of a.                                     *)
(***************************************************************************)
Masked(x) == (x + mask.value) % Q
RecoveredFrom(c) == (c + (IF mask.bits > c THEN Q ELSE 0) - mask.bits) % 2 ^ Width

(***************************************************************************)
(* strict_run_fused_z_bound_and_hint_bits_batch: z < gamma or z > q - gamma *)
(* and, with the interval of strict_highbits_interval_constants_for_lanes, *)
(* whether HighBits(r) is not w1.                                          *)
(***************************************************************************)
ZBoundOk(z) == Or(Bit(z < Gamma), BitNot(Bit(z < Q - Gamma + 1)))

Lower(high) == IF high = 0 THEN Q - Gamma2 - 1 ELSE high * (2 * Gamma2) - Gamma2
UpperExclusive(high) == IF high = 0 THEN Gamma2 + 1 ELSE high * (2 * Gamma2) + Gamma2 + 1

\* The interval of w1 = 0 wraps around zero, and is a union.
InInterval(gt, lt, high) == IF high = 0 THEN Or(gt, lt) ELSE gt * lt

HintBit(r, high) ==
  BitNot(InInterval(BitNot(Bit(r < Lower(high) + 1)), Bit(r < UpperExclusive(high)), high))

(***************************************************************************)
(* HighBits and the norm as FIPS 204 defines them; w1 comes with a token.  *)
(***************************************************************************)
HighBits(r) ==
  LET low == r % (2 * Gamma2)
      r0 == IF low > Gamma2 THEN low - 2 * Gamma2 ELSE low
  IN IF r - r0 = Q - 1 THEN 0 ELSE (r - r0) \div (2 * Gamma2)

Norm(z) == IF z > Q \div 2 THEN Q - z ELSE z

W1(c) == [i \in 1 .. HLanes |-> HighBits(Times(c.y)[i] % Q)]

(***************************************************************************)
(* strict_run_private_or_reduce_packed: neighbours are or-ed, and a last   *)
(* one without a neighbour goes to the front.                              *)
(***************************************************************************)
OrPairs(s) ==
  [i \in 1 .. Len(s) \div 2 |-> [j \in Candidates |-> Or(s[2 * i - 1][j], s[2 * i][j])]]
OrLayer(s) == (IF Len(s) % 2 = 1 THEN <<s[Len(s)]>> ELSE <<>>) \o OrPairs(s)

\* bit_width_for_private_reduce_layer: the layers that are left.
\* (Mutant: by the lower half.)
LayerIndexFloor(n) ==
  LET layers[m \in 0 .. n] == IF m > 1 THEN 1 + layers[m \div 2] ELSE 0 IN layers[n]
LayerIndex(n) ==
  LET layers[m \in 0 .. n] == IF m > 1 THEN 1 + layers[(m + 1) \div 2] ELSE 0 IN layers[n]

\* strict_run_fused_validity_checks_batch: a violation of z weighs more than omega
\* hints.
ValidBit(j) ==
  Bit(Dot(hints[j], [i \in 1 .. HLanes |-> 1]) + (Omega + 1) * violations[1][j] <= Omega)

(***************************************************************************)
(* StrictRuntimePrioritySelectionState: the candidates sorted by priority, *)
(* equal ones left in their order.                                         *)
(***************************************************************************)
Before(i, j) ==
  \/ batch[i].priority < batch[j].priority
  \/ batch[i].priority = batch[j].priority /\ i < j

(***************************************************************************)
(* The selected lanes.                                                     *)
(***************************************************************************)
\* strict_selected_public_lanes_share
SelectedPublic(field) ==
  SumOver([j \in Candidates |-> selected[j] * batch[j][field]]) % Q

\* What candidate j has to open in lane l: z, then h.
Offer(j, l) == (ZPart(values, j) \o hints[j])[l]

\* strict_drive_selected_share_products: the first value and, for the others, the
\* difference that selects them.  (Mutant: the whole value.)
AffineWhole(l) ==
  (Offer(1, l) + SumOver([j \in Candidates \ {1} |-> selected[j] * Offer(j, l)])) % Q
Affine(l) ==
  (Offer(1, l)
    + SumOver([j \in Candidates \ {1} |-> selected[j] * (Offer(j, l) - Offer(1, l))])) % Q

\* strict_lane_chunk_ranges: the range that starts behind the lanes opened so far.
ChunkEnd(from) == IF from + ChunkLanes > Lanes THEN Lanes ELSE from + ChunkLanes
Chunk == [i \in 1 .. ChunkEnd(Len(lanes)) - Len(lanes) |-> Affine(Len(lanes) + i)]

(***************************************************************************)
(* The phase of a stage: its label, and what it opens.                     *)
(***************************************************************************)
Cursor == CHOOSE j \in todo : \A k \in todo \ {j} : Before(j, k)

Label ==
  CASE stage = "or" -> <<"or_layer", LayerIndex(Len(violations))>>
    [] stage = "select" -> <<"candidate", Cursor>>
    [] stage = "chunks" -> <<"chunk", Len(lanes) \div ChunkLanes>>
    [] OTHER -> <<stage, 0>>

Residual == (SumOver(selected) - 1) % Q

NotCanonical == [l \in DOMAIN recovered |-> BitNot(Bit(recovered[l] < Q))]
Difference == [l \in DOMAIN recovered |-> (recovered[l] - values[l]) % Q]

Shows(sequence) == {[what |-> stage, lanes |-> sequence]}

Shown ==
  CASE stage = "masked" -> Shows([l \in DOMAIN values |-> Masked(values[l])])
    [] stage = "canonical" -> Shows(NotCanonical)
    [] stage = "equal" -> Shows(Difference)
    [] stage = "one_hot" -> Shows(<<Residual>>)
    [] stage = "any_valid" -> Shows(<<prefix>>)
    [] stage = "priority" -> Shows(<<SelectedPublic("priority")>>)
    [] stage = "ctilde" -> Shows(<<SelectedPublic("ctilde")>>)
    [] stage = "chunks" -> {[what |-> "chunk", lanes |-> lanes \o Chunk]}
    [] OTHER -> {}

Send ==
  /\ driven' = Append(driven, Label)
  /\ opened' = opened \cup Shown

Ends(how) == stage' = "ended" /\ outcome' = how

Goes(next) == stage' = next /\ UNCHANGED outcome

AllZero(s) == \A l \in DOMAIN s : s[l] = 0

OpeningInit ==
  /\ batch \in Batches
  /\ mask \in Masks
  /\ stage = "prepare"
  /\ values = <<>> /\ recovered = <<>> /\ hints = <<>> /\ violations = <<>> /\ valid = <<>>
  /\ todo = {} /\ prefix = 0 /\ selected = [j \in Candidates |-> 0]
  /\ lanes = <<>>
  /\ driven = <<>>
  /\ opened = {}
  /\ outcome = "none"
  /\ artifact = NoArtifact

(***************************************************************************)
(* The stages, in their order.  The inputs must be those of the tokens.    *)
(***************************************************************************)
InputsFit == \A j \in Candidates : batch[j].handed = batch[j].session

Prepare ==
  /\ stage = "prepare"
  /\ IF InputsFit
     THEN /\ values' = Fused
          /\ Goes("masked")
     ELSE UNCHANGED values /\ Ends("StrictResponseCheckShapeMismatch")
  /\ UNCHANGED <<batch, mask, recovered, hints, violations, valid, selection, lanes, driven,
                 opened, artifact>>

OpenMasked ==
  /\ stage = "masked"
  /\ Send
  /\ recovered' = [l \in DOMAIN values |-> RecoveredFrom(Masked(values[l]))]
  /\ Goes("canonical")
  /\ UNCHANGED <<batch, mask, values, hints, violations, valid, selection, lanes, artifact>>

\* assert_true of [r < q]
AssertCanonical ==
  /\ stage = "canonical"
  /\ Send
  /\ IF AllZero(NotCanonical) THEN Goes("equal") ELSE Ends("Power2RoundCanonicalityFailure")
  /\ UNCHANGED <<batch, mask, circuit, selection, lanes, artifact>>

\* r_bits_equal_value_check
Agrees == AllZero(Difference)

AssertEqual ==
  /\ stage = "equal"
  /\ Send
  /\ IF Agrees THEN Goes("bounds") ELSE Ends("Power2RoundCanonicalityFailure")
  /\ UNCHANGED <<batch, mask, circuit, selection, lanes, artifact>>

\* From here on the recovered bits are used.
CheckBounds ==
  /\ stage = "bounds"
  /\ Send
  /\ hints' = [j \in Candidates |->
                 [i \in 1 .. HLanes |-> HintBit(HPart(recovered, j)[i], W1(batch[j])[i])]]
  /\ violations' = [k \in 1 .. ZLanes |->
                      [j \in Candidates |-> BitNot(ZBoundOk(ZPart(recovered, j)[k]))]]
  /\ Goes("or")
  /\ UNCHANGED <<batch, mask, values, recovered, valid, selection, lanes, artifact>>

\* One layer.  A single violation needs none.
OrReduce ==
  /\ stage = "or"
  /\ IF Len(violations) > 1
     THEN Send /\ violations' = OrLayer(violations) /\ Goes("or")
     ELSE UNCHANGED <<driven, opened, violations>> /\ Goes("threshold")
  /\ UNCHANGED <<batch, mask, values, recovered, hints, valid, selection, lanes, artifact>>

\* The threshold circuit, and StrictRuntimePrioritySelectionState::new.
CheckValidity ==
  /\ stage = "threshold"
  /\ Send
  /\ valid' = [j \in Candidates |-> ValidBit(j)]
  /\ todo' = Candidates
  /\ Goes("select")
  /\ UNCHANGED <<batch, mask, values, recovered, hints, violations, prefix, selected, lanes, artifact>>

\* drive_step and collect_step: the two products of the next candidate.
\* (Mutant: the prefix is not negated.)
TakesLast(j) == valid[j]
Takes(j) == valid[j] * BitNot(prefix)

Select(j) ==
  /\ stage = "select"
  /\ j \in todo /\ \A k \in todo \ {j} : Before(j, k)
  /\ Send
  /\ selected' = [selected EXCEPT ![j] = Takes(j)]
  /\ prefix' = Or(prefix, valid[j])
  /\ todo' = todo \ {j}
  /\ Goes(IF todo = {j} THEN "one_hot" ELSE "select")
  /\ UNCHANGED <<batch, mask, circuit, lanes, artifact>>

\* one_hot_sum_minus_one and the private selection check.
OneHot == Residual = 0

CheckOneHot ==
  /\ stage = "one_hot"
  /\ Send
  /\ IF OneHot THEN Goes("any_valid") ELSE Ends("Power2RoundCanonicalityFailure")
  /\ UNCHANGED <<batch, mask, circuit, selection, lanes, artifact>>

OpenAnyValid ==
  /\ stage = "any_valid"
  /\ Send
  /\ IF prefix = 1 THEN Goes("priority") ELSE Ends("GenericBatchFailure")
  /\ UNCHANGED <<batch, mask, circuit, selection, lanes, artifact>>

OpenPriority ==
  /\ stage = "priority"
  /\ Send
  /\ Goes("ctilde")
  /\ UNCHANGED <<batch, mask, circuit, selection, lanes, artifact>>

OpenCtilde ==
  /\ stage = "ctilde"
  /\ Send
  /\ Goes("chunks")
  /\ UNCHANGED <<batch, mask, circuit, selection, lanes, artifact>>

\* strict_selected_share_opening_chunks
OpenChunk ==
  /\ stage = "chunks"
  /\ Send
  /\ lanes' = lanes \o Chunk
  /\ Goes(IF Len(lanes') = Lanes THEN "finish" ELSE "chunks")
  /\ UNCHANGED <<batch, mask, circuit, selection, artifact>>

Finish ==
  /\ stage = "finish"
  /\ artifact' = [priority |-> SelectedPublic("priority"),
                  ctilde |-> SelectedPublic("ctilde"),
                  z |-> SubSeq(lanes, 1, ZLanes), h |-> SubSeq(lanes, ZLanes + 1, Lanes)]
  /\ Ends("Ok")
  /\ UNCHANGED <<batch, mask, circuit, selection, lanes, driven, opened>>

\* A phase whose drive or collect fails, or whose messages are not all there: the
\* call ends, and this party may have sent its share.
Fails ==
  /\ stage \notin {"prepare", "finish", "ended"}
  /\ stage = "or" => Len(violations) > 1
  /\ Send \/ UNCHANGED <<driven, opened>>
  /\ Ends("StrictSigningRuntimeSlotIncomplete")
  /\ UNCHANGED <<batch, mask, circuit, selection, lanes, artifact>>

OpeningNext ==
  \/ Prepare \/ OpenMasked \/ AssertCanonical \/ AssertEqual \/ CheckBounds \/ OrReduce
  \/ CheckValidity \/ (\E j \in Candidates : Select(j)) \/ CheckOneHot \/ OpenAnyValid
  \/ OpenPriority \/ OpenCtilde \/ OpenChunk \/ Finish \/ Fails

OpeningSpec == OpeningInit /\ [][OpeningNext]_openingVars

(***************************************************************************)
(* Properties                                                              *)
(***************************************************************************)
Outcomes ==
  {"none", "Ok", "GenericBatchFailure", "Power2RoundCanonicalityFailure",
   "StrictResponseCheckShapeMismatch", "StrictSigningRuntimeSlotIncomplete"}

\* Every handle the circuits treat as a bit is one, and nothing is opened twice.
OpeningTypeOK ==
  /\ \A j \in DOMAIN valid : valid[j] \in Bits
  /\ \A j \in DOMAIN selected : selected[j] \in Bits
  /\ \A k \in DOMAIN violations : \A j \in Candidates : violations[k][j] \in Bits
  /\ \A j \in DOMAIN hints : \A i \in 1 .. HLanes : hints[j][i] \in Bits
  /\ prefix \in Bits
  /\ todo \subseteq Candidates
  /\ Len(lanes) <= Lanes
  /\ outcome \in Outcomes /\ (outcome = "none" <=> stage # "ended")

\* A candidate is selected when it is valid and none of a lower priority is, and
\* the prefix says whether one so far was: at most one is ever selected.
SelectionIsFirst ==
  stage = "select" \/ selected # [j \in Candidates |-> 0] =>
    /\ \A j \in Candidates \ todo :
         selected[j] = 1 <=> valid[j] = 1 /\ \A k \in Candidates : Before(k, j) => valid[k] = 0
    /\ \A j \in todo : selected[j] = 0
    /\ prefix = 1 <=> \E j \in Candidates \ todo : valid[j] = 1

\* What a candidate would open, and whether the signature would be accepted, by
\* the definitions of FIPS 204.
Z(c) == ZShare(c)
R(c) == [i \in 1 .. HLanes |-> (Times(Z(c))[i] - c.ctilde * T[i]) % Q]
H(c) == [i \in 1 .. HLanes |-> Bit(HighBits(R(c)[i]) # W1(c)[i])]
Weight(c) == Cardinality({i \in 1 .. HLanes : H(c)[i] = 1})
Acceptable(c) == (\A k \in 1 .. ZLanes : Norm(Z(c)[k]) < Gamma) /\ Weight(c) <= Omega

IsFirst(j) ==
  /\ Acceptable(batch[j])
  /\ \A k \in Candidates : Before(k, j) => ~Acceptable(batch[k])

\* The artifact is that of the acceptable candidate of least priority, whatever
\* masks the tokens brought and in which of the two ways r was computed, and it is
\* made of the inputs of the tokens that were consumed.
ArtifactIsFirst ==
  artifact # NoArtifact =>
    \E j \in Candidates :
      /\ IsFirst(j)
      /\ artifact = [priority |-> batch[j].priority, ctilde |-> batch[j].ctilde,
                     z |-> Z(batch[j]), h |-> H(batch[j])]
      /\ \A k \in Candidates : batch[k].handed = batch[k].session

IsPrefixOf(s, t) == Len(s) <= Len(t) /\ s = SubSeq(t, 1, Len(s))

\* What is opened, even by a call that fails on the way, tells of a candidate only
\* if it is the first acceptable one: the checks of well masked lanes open zeros,
\* and without an acceptable candidate nothing but masked lanes and the verdict.
OnlySelectedOpens ==
  \A o \in opened :
    /\ o.what \in {"canonical", "equal"} /\ mask.bits = mask.value => AllZero(o.lanes)
    /\ o.what \in {"priority", "ctilde", "chunk"} =>
         \E j \in Candidates :
           /\ IsFirst(j)
           /\ CASE o.what = "priority" -> o.lanes = <<batch[j].priority>>
                [] o.what = "ctilde" -> o.lanes = <<batch[j].ctilde>>
                [] o.what = "chunk" -> IsPrefixOf(o.lanes, Z(batch[j]) \o H(batch[j]))

\* Both together: the first acceptable candidate, and nothing about any other.
OpensTheFirst == ArtifactIsFirst /\ OnlySelectedOpens

\* No two phases of a call have one label: the runtime refuses to collect a label
\* again, and would send what it sent under it before.
PhasesAreDistinct ==
  \A i, j \in DOMAIN driven : driven[i] = driven[j] => i = j
=============================================================================
