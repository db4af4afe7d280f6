---------------------------- MODULE MCPower2Round ----------------------------
(***************************************************************************)
(* q = 25 and three dropped bits: secrets at both ends and around the      *)
(* rounding boundaries, masks that make C wrap around q or not, good and   *)
(* with bits of another number.                                            *)
(***************************************************************************)
EXTENDS Power2Round

MCInput(t, value, bits, wrong, restarts) ==
  [t |-> t, value |-> value, bits |-> bits, wrong |-> wrong, restarts |-> restarts]

Good == {MCInput(t, v, v, {}, 0) : t \in {0, 4, 5, 24}, v \in {0, 24}}

\* Bits off by one, by 2^Low - 1, where R is t + q if t is small, and by q, where
\* all is well.
Bad ==
  {MCInput(3, 4, 5, {}, 0), MCInput(12, 13, 12, {}, 0), MCInput(7, 24, 31, {}, 0),
   MCInput(5, 4, 29, {}, 0)}

Wrong ==
  {MCInput(5, 20, 20, {<<"canonical", 1>>}, 0), MCInput(5, 20, 20, {<<"add_residual", 1>>}, 0)}

Restarted == {MCInput(5, 20, 20, {<<"canonical", 2>>}, 1), MCInput(3, 24, 31, {}, 1)}

MCInputs == Good \cup Bad \cup Wrong \cup Restarted
=============================================================================
