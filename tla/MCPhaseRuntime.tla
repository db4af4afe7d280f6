--------------------------- MODULE MCPhaseRuntime ---------------------------
(***************************************************************************)
(* Two honest parties and one that is not, and a multiplication gate whose *)
(* product is opened.                                                      *)
(***************************************************************************)
EXTENDS PhaseRuntime

CONSTANTS p1, p2, p3, mul, open

MCOrder == <<p1, p2, p3>>
MCHonest == {p1, p2}
MCPhases == <<mul, open>>
MCDirected == {mul}

Constantly(draw) == [p \in Parties |-> draw]
FromP3(phase, to, val) == [phase |-> phase, from |-> p3, to |-> to, val |-> val]

\* p3 may change its mind about the share of p1, send p1 a message of another
\* label, and tell the parties different openings.
MCFaultyShares ==
  {FromP3(mul, p1, 1), FromP3(mul, p1, 2), FromP3(mul, p2, 1), FromP3(Stray, p1, 1)}
MCFaultyOpenings ==
  {FromP3(open, All, Constantly(1)), FromP3(open, All, Constantly(2)),
   FromP3(Stray, All, Constantly(1))}
=============================================================================
