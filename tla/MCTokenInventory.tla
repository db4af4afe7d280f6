-------------------------- MODULE MCTokenInventory --------------------------
(***************************************************************************)
(* Two tokens: a batch of both, and a batch of the second alone, so that   *)
(* the log may hold the entries of one while the other is offered.         *)
(***************************************************************************)
EXTENDS TokenInventory

CONSTANTS t1, t2

MCTokens == {t1, t2}
MCBatches == {<<t1, t2>>, <<t2>>}
=============================================================================
