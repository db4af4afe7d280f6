--------------------------- MODULE OneTimeTokens ---------------------------
(***************************************************************************)
(* What strict signing promises about preprocessing tokens, with no word   *)
(* of logs, cursors, processes or crashes: a token is burnt for good, and  *)
(* only then, at most once, it takes part in a signing attempt.            *)
(*                                                                         *)
(* docs/no-rejected-z-leakage.md states it: consume each token durably     *)
(* before any challenge or response computation; a consumed token remains  *)
(* consumed after a crash; it is never reused for a different challenge.   *)
(***************************************************************************)
EXTENDS Naturals

CONSTANTS Tokens, Batches   \* Batches: the sets of tokens that are signed with together

VARIABLES
  burnt,   \* tokens whose consumption is durable
  uses     \* how often each token was given to a signing backend

vars == <<burnt, uses>>

Init == burnt = {} /\ uses = [t \in Tokens |-> 0]

Burn(t) == burnt' = burnt \cup {t} /\ UNCHANGED uses

Use(batch) ==
  /\ batch \subseteq burnt
  /\ \A t \in batch : uses[t] = 0
  /\ uses' = [t \in Tokens |-> IF t \in batch THEN 1 ELSE uses[t]]
  /\ UNCHANGED burnt

Next == (\E t \in Tokens : Burn(t)) \/ (\E batch \in Batches : Use(batch))

Spec == Init /\ [][Next]_vars
=============================================================================
