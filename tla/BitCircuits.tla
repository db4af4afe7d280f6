---------------------------- MODULE BitCircuits ----------------------------
(***************************************************************************)
(* The circuits on secret bits that the DKG's vector runtime offers        *)
(* (talus-dkg/src/power2round.rs): comparison with a public constant,      *)
(* [x < q] for canonical representatives, [sum(bits) <= threshold], the    *)
(* recovery of the bits of x from the opened C = x + a and the bits of a   *)
(* mask a, and the addition of Power2Round's rounding constant.  And the   *)
(* canonical masks of strict signing (talus-mpc/src/local.rs), the xor of  *)
(* the dealers' random bits with an assertion that it lies below q.        *)
(*                                                                         *)
(* Seen by one party, which drives a layer of multiplications and collects *)
(* it, layer after layer.  A handle stands for the secret it shares: a     *)
(* multiplication gives the product, what the code does to shares locally  *)
(* is done to the secret, and the values are those of the field, whether   *)
(* they are bits is a property.  Lanes never meet, and there is one.       *)
(* PhaseRuntime says what driving and collecting a layer is; here a drive  *)
(* may fail, after which the application calls drive again.                *)
(***************************************************************************)
EXTENDS Integers, Sequences

CONSTANTS
  Jobs,        \* the circuits, with their inputs
  MaxFailure   \* bound: drives that fail

\* bits are little endian, as everywhere in the code.  The modulus of the field is
\* 2^w - 2^low + 1 for representatives of w bits.
Modulus(j) == 2 ^ Len(j.bits) - 2 ^ j.low + 1

\* low is for ltq, recover and mask; add adds 2^low - 1.  The first dealer of a mask
\* contributes bits, the others what is in others.
IsJob(j) ==
  /\ j.kind \in {"lt", "gt", "ltq", "sum", "recover", "add", "mask"}
  /\ j.bits \in Seq({0, 1}) /\ Len(j.bits) > 0
  /\ j.public \in Nat /\ j.low \in 0 .. Len(j.bits)
  /\ j.kind = "sum" => j.public <= Len(j.bits)
  /\ j.kind \in {"lt", "gt"} => j.public < 2 ^ Len(j.bits)
  /\ j.kind \in {"ltq", "recover"} => j.low < Len(j.bits)
  /\ j.kind = "recover" => j.public < Modulus(j)
  /\ j.others \in Seq([1 .. Len(j.bits) -> {0, 1}]) /\ (j.kind # "mask" => j.others = <<>>)
  /\ j.kind = "mask" => j.low \in 2 .. Len(j.bits) - 2

ASSUME JobsAssumption == \A j \in Jobs : IsJob(j)

VARIABLES
  job,        \* the circuit and its input
  columns,    \* sum: the bits of weight 2^(i-1), to be added up
  normal,     \* sum and add: the bits of the sum, as far as they are known;
              \* mask: the xor of the contributions, as far as it is folded
  carry,      \* sum and add: what the last column carried over, at most one
  segments,   \* comparison: [generate, equal], the most significant first;
              \* recover: of the borrows, the least significant first
  xors,       \* recover: the minuend xor the mask
  distance,   \* recover: how far the segments reach down
  terms,      \* ltq, mask: the low bits to be or-ed, the high ones to be and-ed;
              \* what a mask's assertion is about, with no high bits
  left,       \* mask: the contributions not yet folded in
  pending,    \* the layer that was driven, or that is half way
  marked,     \* layers collected: to collect one again fails
  result,     \* a sequence of bits, empty until it is known
  failures,   \* history: drives that failed
  dropped     \* history: a failed drive has lost a carry

recovery == <<xors, distance>>
vars == <<job, columns, normal, carry, segments, recovery, terms, left, pending, marked,
          result, failures, dropped>>

\* A layer: its label, its operands, whether its multiplications were sent.
NoLayer == [label |-> <<"none", 0>>, ops |-> <<>>, driven |-> FALSE]
Layer(name, idx, ops, driven) == [label |-> <<name, idx>>, ops |-> ops, driven |-> driven]

Name == pending.label[1]
Idx == pending.label[2]

(***************************************************************************)
(* Arithmetic on handles.                                                  *)
(***************************************************************************)
Bits == {0, 1}
BitNot(x) == 1 - x

\* bit_xor_from_and_vec, bit_or_from_and_vec
\* (Mutant: the product is taken off once.)
XorOnce(x, y) == x + y - x * y
Xor(x, y) == x + y - 2 * (x * y)
Or(x, y) == x + y - x * y

SumOf(x, y, z) == Xor(Xor(x, y), z)
CarryOf(x, y, z) == x * y + Xor(x, y) * z

\* What the sequence stands for, and how many ones it has.
Value(bits) ==
  LET upTo[i \in 0 .. Len(bits)] == IF i = 0 THEN 0 ELSE upTo[i - 1] + bits[i] * 2 ^ (i - 1)
  IN upTo[Len(bits)]
Total(bits) ==
  LET upTo[i \in 0 .. Len(bits)] == IF i = 0 THEN 0 ELSE upTo[i - 1] + bits[i]
  IN upTo[Len(bits)]

\* bit_width_for_public_sum
WidthFor(n) == CHOOSE w \in 1 .. n + 1 : 2 ^ w > n /\ (w = 1 \/ 2 ^ (w - 1) <= n)

NormalWidth(n) == WidthFor(n) + 1

(***************************************************************************)
(* start_public_comparison_vec and initialize_public_comparison_prefix.    *)
(* The comparison with a public constant for every lane computes the same  *)
(* conditions with multiplications by public bits.                         *)
(***************************************************************************)
PublicBit(c, i) == (c \div 2 ^ (i - 1)) % 2

Generate(kind, x, c) ==
  CASE kind = "lt" /\ c = 1 -> BitNot(x)
    [] kind = "gt" /\ c = 0 -> x
    [] OTHER -> 0

Equal(x, c) == IF c = 1 THEN x ELSE BitNot(x)

Segments(kind, bits, c) ==
  LET w == Len(bits) IN
  [i \in 1 .. w |-> [generate |-> Generate(kind, bits[w + 1 - i], PublicBit(c, w + 1 - i)),
                     equal |-> Equal(bits[w + 1 - i], PublicBit(c, w + 1 - i))]]

\* One layer of the prefix tree: neighbours are joined, a last one without a
\* neighbour stays.  (Mutants: it goes missing; one that has a neighbour stays.)
Join(high, low) ==
  [generate |-> high.generate + high.equal * low.generate, equal |-> high.equal * low.equal]

PairsOf(s, Op(_, _)) == [i \in 1 .. Len(s) \div 2 |-> Op(s[2 * i - 1], s[2 * i])]
RestOverlap(s) == IF Len(s) < 2 THEN s ELSE SubSeq(s, 2 * (Len(s) \div 2), Len(s))
Rest(s) == SubSeq(s, 2 * (Len(s) \div 2) + 1, Len(s))

PrefixLayerEven(s) == PairsOf(s, Join)
PrefixLayer(s) == PairsOf(s, Join) \o Rest(s)

\* The layer of canonical lt q, which takes the low bits and the high at once.
TreeLayer(t) ==
  [low |-> PairsOf(t.low, Or) \o Rest(t.low),
   high |-> PairsOf(t.high, LAMBDA x, y : x * y) \o Rest(t.high)]

(***************************************************************************)
(* The carry-save layer: every three bits of a column become a bit of it   *)
(* and a bit of the next; the columns become one more.                     *)
(***************************************************************************)
Triples(col) == Len(col) \div 3
Triple(col, j, Op(_, _, _)) == Op(col[3 * j - 2], col[3 * j - 1], col[3 * j])
Sums(col) == [j \in 1 .. Triples(col) |-> Triple(col, j, SumOf)]
Carries(col) == [j \in 1 .. Triples(col) |-> Triple(col, j, CarryOf)]

Column(cols, i) == IF i \in 1 .. Len(cols) THEN cols[i] ELSE <<>>

HasTriples(cols) == \E i \in 1 .. Len(cols) : Triples(cols[i]) > 0

CsaLayer(cols) ==
  [i \in 1 .. Len(cols) + 1 |->
     LET col == Column(cols, i) IN
     SubSeq(col, 3 * Triples(col) + 1, Len(col)) \o Carries(Column(cols, i - 1)) \o Sums(col)]

(***************************************************************************)
(* The ripple over the columns of at most two bits.                        *)
(***************************************************************************)
Ripple == Len(normal) + 1

\* The operands of a column: the carry is only there for the next one.
Operands(i) == IF i = Ripple THEN Column(columns, i) \o carry ELSE Column(columns, i)

\* The first column that takes a multiplication.  Those before have one bit or
\* none, and are settled in the call that drives it.
NextBusy ==
  CHOOSE k \in Ripple .. NormalWidth(Len(job.bits)) + 1 :
    /\ k = NormalWidth(Len(job.bits)) + 1 \/ Len(Operands(k)) >= 2
    /\ \A i \in Ripple .. k - 1 : Len(Operands(i)) < 2

Settled(k) ==
  normal \o [i \in 1 .. k - Ripple |->
               LET ops == Operands(Ripple + i - 1) IN IF ops = <<>> THEN 0 ELSE ops[1]]

(***************************************************************************)
(* Starting.                                                               *)
(***************************************************************************)
IsComparison == job.kind \in {"lt", "gt"}
IsSum == job.kind = "sum"

\* The low bits of q - 1 = 2^w - 2^low are all zero, its high bits all one.
TermsOf(j) == [low |-> SubSeq(j.bits, 1, j.low),
               high |-> SubSeq(j.bits, j.low + 1, Len(j.bits))]

\* start_lt_public_vec, start_gt_public_vec, start_canonical_lt_q_vec,
\* start_bit_sum_leq_public_vec, start_canonical_r_bit_recovery, start_add_4095,
\* start_strict_signing_canonical_mask_generation
Init ==
  /\ job \in Jobs
  /\ columns = IF IsSum THEN [i \in 1 .. WidthFor(Len(job.bits)) |->
                                IF i = 1 THEN job.bits ELSE <<>>]
               ELSE <<>>
  /\ normal = <<>> /\ carry = IF job.kind = "add" THEN <<0>> ELSE <<>>
  /\ xors = <<>> /\ distance = 1
  /\ segments = IF IsComparison THEN Segments(job.kind, job.bits, job.public) ELSE <<>>
  /\ terms = IF job.kind = "ltq" THEN TermsOf(job) ELSE [low |-> <<>>, high |-> <<>>]
  /\ left = <<>>
  /\ pending = NoLayer
  /\ marked = {}
  /\ result = <<>>
  /\ failures = 0
  /\ dropped = FALSE

(***************************************************************************)
(* drive: sends the multiplications of the next layer.  When that fails    *)
(* the state is left as it is at that point of the call: fails says so.    *)
(***************************************************************************)
Sent(layer, fails) ==
  pending' = IF fails THEN NoLayer ELSE layer

\* drive_public_comparison_prefix_vec_step.  A single segment is the result.
Finish(segs) ==
  result' = IF Len(segs) # 1 THEN result
            ELSE IF IsSum THEN <<BitNot(segs[1].generate)>> ELSE <<segs[1].generate>>

DriveComparison(fails) ==
  /\ job.kind # "recover"
  /\ segments # <<>> /\ pending = NoLayer
  /\ IF Len(segments) = 1
     THEN ~fails /\ Finish(segments) /\ UNCHANGED pending
     ELSE Sent(Layer("prefix", Len(segments), <<>>, TRUE), fails) /\ UNCHANGED result
  /\ UNCHANGED <<columns, normal, carry, segments, dropped>>

\* drive_canonical_lt_q_vec_step
DriveCanonical(fails) ==
  /\ job.kind = "ltq" /\ pending = NoLayer
  /\ IF Len(terms.low) > 1 \/ Len(terms.high) > 1
     THEN Sent(Layer("tree", Len(terms.low) + Len(terms.high), <<>>, TRUE), fails)
     ELSE Sent(Layer("invalid", 0, <<>>, TRUE), fails)
  /\ UNCHANGED <<columns, normal, carry, segments, result, dropped>>

\* drive_fast_bit_sum_step, while there are three bits in a column.
DriveCsa(fails) ==
  /\ IsSum /\ segments = <<>> /\ pending = NoLayer
  /\ HasTriples(columns)
  /\ Sent(Layer("csa_ab", Len(columns), <<>>, TRUE), fails)
  /\ UNCHANGED <<columns, normal, carry, segments, result, dropped>>

\* The second multiplication of a full adder.  It was taken out of pending.
DriveSecond(fails) ==
  /\ Name \in {"csa_axc", "full_axc"} /\ ~pending.driven
  /\ Sent([pending EXCEPT !.driven = TRUE], fails)
  /\ dropped' = (dropped \/ (fails /\ Name = "full_axc"))
  /\ UNCHANGED <<columns, normal, carry, segments, result>>

\* The ripple: the carry is taken, then the multiplication is sent.
DriveRipple(fails) ==
  /\ IsSum /\ segments = <<>> /\ pending = NoLayer
  /\ ~HasTriples(columns)
  /\ NextBusy <= NormalWidth(Len(job.bits))
  /\ LET k == NextBusy
         ops == Operands(k)
     IN
     /\ normal' = Settled(k)
     /\ carry' = <<>>
     /\ Sent(Layer(IF Len(ops) = 2 THEN "half" ELSE "full_ab", k, ops, TRUE), fails)
     /\ dropped' = (dropped \/ (fails /\ k = Ripple /\ carry # <<>>))
  /\ UNCHANGED <<columns, segments, result>>

\* All columns are settled: the comparison of the sum starts, and is driven.
DriveSumComparison(fails) ==
  /\ IsSum /\ segments = <<>> /\ pending = NoLayer
  /\ ~HasTriples(columns)
  /\ NextBusy = NormalWidth(Len(job.bits)) + 1
  /\ normal' = Settled(NextBusy)
  /\ carry' = <<>>
  /\ segments' = Segments("gt", normal', job.public)
  /\ Sent(Layer("prefix", Len(normal'), <<>>, TRUE), fails)
  /\ UNCHANGED <<columns, result, dropped>>

\* drive_canonical_r_recovery_step: the products of the minuend with the mask, then
\* the borrows over ever more bits, then the difference.
DriveRecovery(fails) ==
  /\ job.kind = "recover" /\ pending = NoLayer
  /\ Sent(IF segments = <<>> THEN Layer("init", 0, <<>>, TRUE)
          ELSE IF distance <= Len(job.bits) THEN Layer("borrow", distance, <<>>, TRUE)
          ELSE Layer("diff", 0, <<>>, TRUE), fails)
  /\ UNCHANGED <<columns, normal, carry, segments, result, dropped>>

\* drive_add_4095_step: a bit with the carry.
DriveAdd(fails) ==
  /\ job.kind = "add" /\ pending = NoLayer
  /\ Sent(Layer("add", Ripple, <<>>, TRUE), fails)
  /\ UNCHANGED <<columns, normal, carry, segments, result, dropped>>

\* drive_strict_signing_canonical_mask_generation_step and the steps of its check
\* below q, which reduces the high bits, then the low ones.
MaskLayer ==
  IF normal = <<>> THEN Layer("random", 0, <<>>, TRUE)
  ELSE IF left # <<>> THEN Layer("fold", Len(left), <<>>, TRUE)
  ELSE
  CASE Len(terms.high) > 1 -> Layer("all", Len(terms.high), <<>>, TRUE)
    [] Len(terms.high) = 1 /\ Len(terms.low) > 1 -> Layer("any", Len(terms.low), <<>>, TRUE)
    [] Len(terms.high) = 1 /\ Len(terms.low) = 1 -> Layer("invalid", 0, <<>>, TRUE)
    [] OTHER -> Layer("assert", 0, <<>>, TRUE)

\* The circuit is over with its assertion, whatever came of it.
Asserted == <<"assert", 0>> \in marked

DriveMask(fails) ==
  /\ job.kind = "mask" /\ pending = NoLayer /\ ~Asserted
  /\ Sent(MaskLayer, fails)
  /\ UNCHANGED <<columns, normal, carry, segments, result, dropped>>

Drive(fails) ==
  /\ result = <<>>
  /\ fails => failures < MaxFailure
  /\ \/ DriveComparison(fails) \/ DriveCanonical(fails) \/ DriveCsa(fails)
     \/ DriveSecond(fails) \/ DriveRipple(fails) \/ DriveSumComparison(fails)
     \/ DriveRecovery(fails) \/ DriveAdd(fails) \/ DriveMask(fails)
  /\ failures' = IF fails THEN failures + 1 ELSE failures
  /\ UNCHANGED <<job, recovery, terms, left, marked>>

(***************************************************************************)
(* collect: the layer's products.  The layer is taken out of pending, put  *)
(* back if messages are missing (and nothing has changed), but not if the  *)
(* collect fails, as it does for a layer collected before.  The addition   *)
(* leaves its layer in place until it is collected.                        *)
(***************************************************************************)
CollectFails ==
  /\ pending.driven
  /\ pending.label \in marked
  /\ Name # "add"
  /\ pending' = NoLayer
  /\ UNCHANGED <<job, columns, normal, carry, segments, recovery, terms, left, marked,
                 result, failures, dropped>>

Collected ==
  /\ result = <<>>
  /\ pending.driven
  /\ pending.label \notin marked
  /\ marked' = marked \cup {pending.label}
  /\ UNCHANGED <<job, failures, dropped>>

CollectPrefix ==
  /\ Collected
  /\ Name = "prefix"
  /\ segments' = PrefixLayer(segments)
  /\ Finish(segments')
  /\ pending' = NoLayer
  /\ UNCHANGED <<columns, normal, carry, recovery, terms, left>>

CollectTree ==
  /\ Collected
  /\ Name = "tree"
  /\ terms' = TreeLayer(terms)
  /\ pending' = NoLayer
  /\ UNCHANGED <<columns, normal, carry, segments, recovery, left, result>>

Canonical == BitNot(terms.low[1] * terms.high[1])

CollectInvalid ==
  /\ Collected
  /\ job.kind = "ltq" /\ Name = "invalid"
  /\ result' = <<Canonical>>
  /\ pending' = NoLayer
  /\ UNCHANGED <<columns, normal, carry, segments, recovery, terms, left>>

\* The first product of a full adder: the second is still to be driven.
CollectFirst ==
  /\ Collected
  /\ Name \in {"csa_ab", "full_ab"}
  /\ pending' = Layer(IF Name = "csa_ab" THEN "csa_axc" ELSE "full_axc", Idx, pending.ops, FALSE)
  /\ UNCHANGED <<columns, normal, carry, segments, recovery, terms, left, result>>

CollectCsa ==
  /\ Collected
  /\ Name = "csa_axc"
  /\ columns' = CsaLayer(columns)
  /\ pending' = NoLayer
  /\ UNCHANGED <<normal, carry, segments, recovery, terms, left, result>>

CollectRipple ==
  /\ Collected
  /\ Name \in {"half", "full_axc"}
  /\ LET x == pending.ops[1]
         y == pending.ops[2]
         z == IF Name = "half" THEN 0 ELSE pending.ops[3]
     IN
     /\ normal' = Append(normal, SumOf(x, y, z))
     /\ carry' = <<CarryOf(x, y, z)>>
  /\ pending' = NoLayer
  /\ UNCHANGED <<columns, segments, recovery, terms, left, result>>

(***************************************************************************)
(* Recovery: with wrap = [a > C], which the comparison gives, x is the     *)
(* minuend C + wrap * q, less a.                                           *)
(***************************************************************************)
Wrap == IF Value(job.bits) > job.public THEN 1 ELSE 0

\* selected_base_bit_for_recovery and recovery_a_bit: one bit more than a
\* representative has.
BaseBit(i) ==
  LET c == PublicBit(job.public, i)
      cq == PublicBit(job.public + Modulus(job), i)
  IN c + Wrap * (cq - c)
MaskBit(i) == IF i <= Len(job.bits) THEN job.bits[i] ELSE 0
Positions == 1 .. Len(job.bits) + 1

\* What a position borrows from, joined with the one distance below.
Borrows ==
  [i \in Positions |->
     IF i <= distance THEN segments[i] ELSE Join(segments[i], segments[i - distance])]

CollectInit ==
  /\ Collected
  /\ Name = "init"
  /\ xors' = [i \in Positions |-> Xor(BaseBit(i), MaskBit(i))]
  /\ segments' = [i \in Positions |-> [generate |-> BitNot(BaseBit(i)) * MaskBit(i),
                                       equal |-> BitNot(xors'[i])]]
  /\ distance' = 1
  /\ pending' = NoLayer
  /\ UNCHANGED <<columns, normal, carry, terms, left, result>>

CollectBorrow ==
  /\ Collected
  /\ Name = "borrow"
  /\ segments' = Borrows
  /\ distance' = 2 * distance
  /\ pending' = NoLayer
  /\ UNCHANGED <<columns, normal, carry, xors, terms, left, result>>

\* The bit above a representative's is kept apart and never read.
CollectDiff ==
  /\ Collected
  /\ Name = "diff"
  /\ result' = [i \in 1 .. Len(job.bits) |->
                  IF i = 1 THEN xors[1] ELSE Xor(xors[i], segments[i - 1].generate)]
  /\ pending' = NoLayer
  /\ UNCHANGED <<columns, normal, carry, segments, recovery, terms, left>>

\* collect_add_4095_step: a full adder with a public bit, which is one at the low
\* positions.
CollectAdd ==
  /\ Collected
  /\ Name = "add"
  /\ LET x == job.bits[Idx]
         c == carry[1]
         one == Idx <= job.low
     IN
     /\ normal' = Append(normal, IF one THEN BitNot(Xor(x, c)) ELSE Xor(x, c))
     /\ carry' = <<IF one THEN Or(x, c) ELSE x * c>>
  /\ result' = IF Len(normal') = Len(job.bits) THEN normal' ELSE result
  /\ pending' = NoLayer
  /\ UNCHANGED <<columns, segments, recovery, terms, left>>

(***************************************************************************)
(* Masks: collect_strict_signing_canonical_mask_generation_step and the    *)
(* collects of the check below q.                                          *)
(***************************************************************************)

\* accept_strict_signing_mask_bits, once every contribution is in.
Accept(bits, rest) ==
  /\ normal' = bits
  /\ left' = rest
  /\ terms' = IF rest = <<>> THEN TermsOf([job EXCEPT !.bits = bits]) ELSE terms
  /\ UNCHANGED result

CollectRandom ==
  /\ Name = "random"
  /\ Accept(job.bits, job.others)

CollectFold ==
  /\ Name = "fold"
  /\ Accept([i \in 1 .. Len(normal) |-> Xor(normal[i], left[1][i])], Tail(left))

\* collect_strict_signing_bit_reduction_step: one layer of the high bits, or of the low.
CollectReduction ==
  /\ Name \in {"all", "any"}
  /\ terms' = IF Name = "all" THEN [terms EXCEPT !.high = TreeLayer(terms).high]
              ELSE [terms EXCEPT !.low = TreeLayer(terms).low]
  /\ UNCHANGED <<normal, left, result>>

CollectCombined ==
  /\ Name = "invalid"
  /\ terms' = [low |-> <<Canonical>>, high |-> <<>>]
  /\ UNCHANGED <<normal, left, result>>

\* The assertion opens its bit; a mask that fails it is refused with an error (what
\* the state left behind by it is taken for is in ReleaseDriver).
CollectAssert ==
  /\ Name = "assert"
  /\ result' = IF terms.low[1] = 1 THEN normal ELSE <<>>
  /\ UNCHANGED <<normal, left, terms>>

CollectMask ==
  /\ Collected
  /\ job.kind = "mask"
  /\ CollectRandom \/ CollectFold \/ CollectReduction \/ CollectCombined \/ CollectAssert
  /\ pending' = NoLayer
  /\ UNCHANGED <<columns, carry, segments, recovery>>

Collect ==
  CollectPrefix \/ CollectTree \/ CollectInvalid \/ CollectFirst \/ CollectCsa \/ CollectRipple
    \/ CollectInit \/ CollectBorrow \/ CollectDiff \/ CollectAdd \/ CollectMask

Next == (\E fails \in BOOLEAN : Drive(fails)) \/ Collect \/ CollectFails

\* The application calls until the result is there, and its messages arrive.
Spec == Init /\ [][Next]_vars /\ WF_vars(Drive(FALSE)) /\ WF_vars(Collect)

(***************************************************************************)
(* Properties                                                              *)
(***************************************************************************)
AreBits(s) == \A i \in 1 .. Len(s) : s[i] \in Bits

\* Every handle is a sharing of a bit: xor, or and carry never leave {0, 1}, and
\* a column of the ripple never has more than three operands.
TypeOK ==
  /\ IsJob(job)
  /\ AreBits(normal) /\ AreBits(carry)
  /\ \A i \in 1 .. Len(columns) : AreBits(columns[i])
  /\ \A i \in 1 .. Len(segments) :
       /\ segments[i].generate \in Bits /\ segments[i].equal \in Bits
       /\ segments[i].generate + segments[i].equal <= 1
  /\ AreBits(xors) /\ distance \in 1 .. 2 * Len(job.bits)
  /\ AreBits(terms.low) /\ AreBits(terms.high)
  /\ \A i \in 1 .. Len(left) : AreBits(left[i])
  /\ Len(carry) <= 1 /\ Len(pending.ops) <= 3
  /\ AreBits(result)
  /\ failures \in 0 .. MaxFailure

Predicate ==
  CASE job.kind = "lt" -> Value(job.bits) < job.public
    [] job.kind = "gt" -> Value(job.bits) > job.public
    [] job.kind = "ltq" -> Value(job.bits) < Modulus(job)
    [] job.kind = "sum" -> Total(job.bits) <= job.public

\* A bit of a mask is one where an odd number of dealers drew one.
JointMask ==
  [i \in 1 .. Len(job.bits) |->
     (job.bits[i] + Total([d \in 1 .. Len(job.others) |-> job.others[d][i]])) % 2]

\* The number that a circuit is documented to leave the bits of: x, from C = x + a
\* (mod q); R + 4095; the joint mask.
Number ==
  CASE job.kind = "recover" -> (job.public - Value(job.bits)) % Modulus(job)
    [] job.kind = "add" -> (Value(job.bits) + 2 ^ job.low - 1) % 2 ^ Len(job.bits)
    [] job.kind = "mask" -> Value(JointMask)

IsNumeric == job.kind \in {"recover", "add", "mask"}
IsExact ==
  IF IsNumeric THEN Len(result) = Len(job.bits) /\ Value(result) = Number
  ELSE result = <<IF Predicate THEN 1 ELSE 0>>

\* A mask is accepted exactly if it lies below q.
AssertionIsExact ==
  job.kind = "mask" /\ Asserted => ((result # <<>>) <=> Value(JointMask) < Modulus(job))

\* A result is what its circuit is documented to compute: the predicate's bit, or the
\* bits of the number; and a mask is refused for no other reason than its size.
ResultIsExact == (result # <<>> /\ ~dropped => IsExact) /\ AssertionIsExact

\* The same without the exception.  power2round.rs, 7643: "Returns the private
\* predicate bit [sum(bits) <= threshold]".  No run checks it: it fails where a
\* drive of the ripple fails and is repeated (README, known divergences).
ResultIsPredicate == result # <<>> => IsExact

\* A circuit whose drives do not fail comes to its result, or to its refusal.
CircuitFinishes == <>(result # <<>> \/ Asserted \/ failures > 0)
=============================================================================
