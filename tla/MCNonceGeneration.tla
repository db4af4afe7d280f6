-------------------------- MODULE MCNonceGeneration --------------------------
(***************************************************************************)
(* Two parties that are both needed, given the same entropy: one whose     *)
(* contributions add up to the upper end of the nonce interval, one where  *)
(* they wrap to the lower end, and one in between with a delivery that     *)
(* does not arrive as it was dealt.                                        *)
(***************************************************************************)
EXTENDS NonceGeneration

MCEntropies == 1 .. 3
MCSetups ==
  {[entropy |-> <<1, 1>>, wrong |-> {}, losses |-> <<1, 0>>],
   [entropy |-> <<2, 2>>, wrong |-> {}, losses |-> <<0, 0>>],
   [entropy |-> <<3, 3>>, wrong |-> {<<1, 2>>}, losses |-> <<0, 0>>]}

\* Sums modulo 2 * Gamma1: 7, 0 and 5.
MCResidues == <<<<3, 4>>, <<5, 3>>, <<6, 7>>>>

MCHash(e, purpose) ==
  CASE purpose[1] = "residue" -> MCResidues[e][purpose[2]]
    [] purpose[1] \in {"mask", "poly"} -> 5 * e + 3 * purpose[Len(purpose)] + Len(purpose)
    [] purpose[1] \in {"y", "b"} ->
         7 * e + 2 * purpose[2] + 3 * purpose[3] + 5 * purpose[4] + 11 * purpose[5][2]
           + (IF purpose[5][1] = "audit" THEN 1 ELSE 6)
=============================================================================
