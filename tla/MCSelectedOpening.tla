------------------------- MODULE MCSelectedOpening -------------------------
(***************************************************************************)
(* Batches of up to three candidates, three lanes of z and two of r.  The  *)
(* key is such that candidates fail by their norm, by the weight of their  *)
(* hints, by both and by neither.                                          *)
(***************************************************************************)
EXTENDS SelectedOpening

MCA == <<<<1, 3, 0>>, <<5, 1, 2>>>>
MCS1 == <<1, 12, 0>>
MCT == <<9, 2>>

MCCandidate(s, h, pre, y, p, c) ==
  [session |-> s, handed |-> h, precomputed |-> pre, y |-> y, priority |-> p, ctilde |-> c]

\* Nonces around the bounds of the norm, and a few to stand beside them: the first
\* and the last of these are acceptable with some challenge.
Nonces == [1 .. 3 -> {0, 1, 3, 4, 6, 9, 10, 11, 12}]
Few == {<<0, 0, 0>>, <<1, 2, 4>>, <<6, 0, 1>>, <<0, 12, 3>>}

\* A candidate of every kind; beside another with a lower, the same and a higher
\* priority; three of a few kinds; and an input handed in for another token.
Singles == {<<MCCandidate(1, 1, pre, y, 5, c)>> : pre \in BOOLEAN, y \in Nonces, c \in {1, 12}}
Pairs ==
  {<<MCCandidate(1, 1, TRUE, y, 5, 1), MCCandidate(2, 2, FALSE, x, p, 12)>> :
     y \in Nonces, x \in Few, p \in {4, 5, 6}}
Triples ==
  {<<MCCandidate(1, 1, TRUE, x, p[1], 1), MCCandidate(2, 2, TRUE, y, p[2], 12),
     MCCandidate(3, 3, FALSE, u, p[3], 1)>> :
     x \in Few, y \in Few, u \in Few, p \in [1 .. 3 -> {4, 5, 6}]}
Swapped ==
  {<<MCCandidate(1, 2, TRUE, y, 5, 1), MCCandidate(2, 1, TRUE, x, 6, 1)>> : y \in Few, x \in Few}

MCBatches == Singles \cup Pairs \cup Triples \cup Swapped

\* Two masks with their bits, one whose bits are off by one, one whose bits are no
\* representative.
MCMasks ==
  {[value |-> 0, bits |-> 0], [value |-> 7, bits |-> 7], [value |-> 7, bits |-> 8],
   [value |-> 2, bits |-> 15]}
=============================================================================
