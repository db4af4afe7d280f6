--------------------------- MODULE MCReleaseDriver ---------------------------
(***************************************************************************)
(* Two preprocessing sessions, driven one by one or in a batch.            *)
(***************************************************************************)
EXTENDS ReleaseDriver

CONSTANTS s1, s2

MCSessions == {s1, s2}
MCBatch == <<s1, s2>>
=============================================================================
