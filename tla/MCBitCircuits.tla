--------------------------- MODULE MCBitCircuits ---------------------------
(***************************************************************************)
(* Every input of every circuit up to a few bits: comparisons of MaxWidth  *)
(* bits with every constant, canonicality with every split into low bits   *)
(* and high bits, sums of MaxBits bits with every threshold, recovery for  *)
(* every modulus, mask and opened value, and addition of every constant;   *)
(* masks of two dealers with any bits, of one with more bits, of three     *)
(* with a choice of bits for the last two.                                 *)
(***************************************************************************)
EXTENDS BitCircuits

CONSTANTS MaxWidth, MaxBits

BitStrings(n) == UNION {[1 .. k -> {0, 1}] : k \in 1 .. n}

MaskJob(bits, others, low) ==
  [kind |-> "mask", bits |-> bits, public |-> 0, low |-> low, others |-> others]
Job(kind, bits, public, low) ==
  [kind |-> kind, bits |-> bits, public |-> public, low |-> low, others |-> <<>>]

Nibbles == [1 .. 4 -> {0, 1}]
Masks ==
  {MaskJob(b, <<>>, low) : b \in [1 .. MaxWidth -> {0, 1}], low \in 2 .. MaxWidth - 2}
    \cup {MaskJob(b, <<c>>, 2) : b \in Nibbles, c \in Nibbles}
    \cup {MaskJob(b, <<c, d>>, 2) : b \in Nibbles, c \in {<<1, 1, 1, 1>>, <<0, 0, 1, 1>>},
                                   d \in {<<1, 0, 1, 0>>, <<1, 1, 1, 1>>}}

\* Masks are canonical.
Recoveries ==
  {j \in UNION {{Job("recover", b, c, low) : c \in 0 .. 2 ^ Len(b) - 1, low \in 0 .. Len(b) - 1} :
                  b \in BitStrings(MaxWidth)} :
     j.public < Modulus(j) /\ Value(j.bits) < Modulus(j)}

MCJobs ==
  UNION {{Job(kind, b, c, 0) : kind \in {"lt", "gt"}, c \in 0 .. 2 ^ Len(b) - 1} : b \in BitStrings(MaxWidth)}
    \cup UNION {{Job("ltq", b, 0, low) : low \in 1 .. Len(b) - 1} : b \in BitStrings(MaxWidth + 2)}
    \cup UNION {{Job("sum", b, t, 0) : t \in 0 .. Len(b)} : b \in BitStrings(MaxBits)}
    \cup Recoveries
    \cup UNION {{Job("add", b, 0, low) : low \in 0 .. Len(b)} : b \in BitStrings(MaxWidth)}
    \cup Masks
=============================================================================
