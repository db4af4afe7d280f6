-------------------------- MODULE MCStrictSigning --------------------------
(***************************************************************************)
(* Two sessions whose batches share a token: a batch of two and a batch of *)
(* one.                                                                    *)
(***************************************************************************)
EXTENDS StrictSigning

CONSTANTS t1, t2, s1, s2

MCTokens == {t1, t2}
MCSessions == {s1, s2}
MCBatchOf == [s \in MCSessions |-> IF s = s1 THEN <<t1, t2>> ELSE <<t2>>]
=============================================================================
