---------------------------- MODULE MCDkgSession ----------------------------
(* Two parties, two coefficients, one vector: two residue rounds, one        *)
(* precommitment round and two coin rounds, one crash or failed append.      *)
EXTENDS DkgSession, TLC

CONSTANTS p1, p2

MCParty == {p1, p2}

Symmetry == Permutations(MCParty)
=============================================================================
