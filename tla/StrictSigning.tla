--------------------------- MODULE StrictSigning ---------------------------
(***************************************************************************)
(* The life of a strict-signing session (talus-mpc/src/online.rs) over its *)
(* durable logs: the consumed-token log, the session cursor log and the    *)
(* mask and helper use logs.  Every durable append is one step with its    *)
(* possible outcomes, and a process may crash between any two steps.       *)
(*                                                                         *)
(* A session stands for the pair (request, ordered token batch) that       *)
(* strict_signing_session_id hashes.  A handle stands for one process, or  *)
(* one set of opened store objects inside a process: the stores check      *)
(* their own in-memory copy, never the file.                               *)
(***************************************************************************)
EXTENDS Naturals, Sequences, FiniteSets

CONSTANTS
  Handles,    \* sets of opened stores, each driven by one caller
  Tokens,     \* certified preprocessing tokens, named by their session id
  Sessions,   \* strict signing sessions
  BatchOf,    \* the ordered token batch of each session
  NoSession   \* a handle that drives no session

\* BccCertifiedTokenBatch::new: not empty, no token twice.
ASSUME BatchAssumption ==
  /\ BatchOf \in [Sessions -> Seq(Tokens)]
  /\ \A s \in Sessions :
       /\ Len(BatchOf[s]) > 0
       /\ \A i, j \in 1 .. Len(BatchOf[s]) : BatchOf[s][i] = BatchOf[s][j] => i = j
ASSUME NoSessionAssumption == NoSession \notin Sessions

VARIABLES
  consumedFile,   \* tokens whose line is in the consumed-token log
  cursorFile,     \* phase of the last cursor line of each session
  inventoryFile,  \* mask and helper inventories with a line in their log
  fileState,      \* how the last line of each log ends
  handle,         \* the volatile state of each handle
  useCount,       \* history: how often a token was given to a signing backend
  ran,            \* history: sessions whose batch was given to the backend
  returned        \* history: sessions that returned a signature

durable == <<consumedFile, cursorFile, inventoryFile, fileState>>
history == <<useCount, ran, returned>>
vars == <<consumedFile, cursorFile, inventoryFile, fileState, handle,
          useCount, ran, returned>>

(***************************************************************************)
(* Values.                                                                 *)
(***************************************************************************)
Files == {"consumed", "cursor", "mask", "helper"}

\* "unterminated": the last line is whole but its newline is missing.
\* "torn": some line does not parse, and no later open accepts the log.
FileState == {"clean", "unterminated", "torn"}

CursorPhase == {"Absent", "Started", "TokensConsumed", "Finished", "Failed"}
SessionPhase == {"Ready", "Finished", "Failed"}

HelperKinds == <<"Comparison", "Threshold", "SelectedOpening">>
InventoryKind == {"Mask", "Comparison", "Threshold", "SelectedOpening"}
InventoryId == [kind : InventoryKind, token : Tokens]

\* Where a handle is: outside any call, or at a step of a call.
Pc == {"down", "idle", "consume", "persistConsumed", "inventory", "handOver",
       "slot", "verify", "persistFinished", "persistFailed",
       "directConsume", "directHandOver", "directBackend"}

HandleState ==
  [pc : Pc, pos : Nat,
   consumed : SUBSET Tokens, cursor : [Sessions -> CursorPhase],
   inventory : SUBSET InventoryId,
   sess : Sessions \cup {NoSession}, phase : SessionPhase, batch : BOOLEAN,
   outcome : {"none", "signature", "error"}]

DownHandle ==
  [pc |-> "down", pos |-> 0, consumed |-> {},
   cursor |-> [s \in Sessions |-> "Absent"], inventory |-> {},
   sess |-> NoSession, phase |-> "Ready", batch |-> FALSE, outcome |-> "none"]

TypeOK ==
  /\ consumedFile \subseteq Tokens
  /\ cursorFile \in [Sessions -> CursorPhase]
  /\ inventoryFile \subseteq InventoryId
  /\ fileState \in [Files -> FileState]
  /\ handle \in [Handles -> HandleState]
  /\ useCount \in [Tokens -> Nat]
  /\ ran \subseteq Sessions
  /\ returned \subseteq Sessions

BatchSet(s) == {BatchOf[s][i] : i \in 1 .. Len(BatchOf[s])}

\* The inventories finish marks, in its order: every mask, then the three
\* helpers of each token.
InventoryCount(s) == 4 * Len(BatchOf[s])

InventoryAt(s, i) ==
  LET n == Len(BatchOf[s])
      k == i - n - 1
  IN  IF i <= n THEN [kind |-> "Mask", token |-> BatchOf[s][i]]
                ELSE [kind |-> HelperKinds[(k % 3) + 1], token |-> BatchOf[s][(k \div 3) + 1]]

InventoryLog(id) == IF id.kind = "Mask" THEN "mask" ELSE "helper"

(***************************************************************************)
(* One durable append: open, write the line and its newline, sync_data.    *)
(***************************************************************************)
Outcome == {"ok", "failed", "unsynced", "unterminated", "torn"}

\* The whole line is in the file, though only "ok" tells the caller so.
Written(o) == o \in {"ok", "unsynced", "unterminated"}

\* A line appended behind an unterminated one makes both unreadable.
AppendLine(f, o) ==
  fileState' =
    [fileState EXCEPT ![f] =
       IF o = "failed" THEN @
       ELSE IF @ # "clean" \/ o = "torn" THEN "torn"
       ELSE IF o = "unterminated" THEN "unterminated"
       ELSE "clean"]

\* FileStrictSigningSessionStore::persist_cursor: the file, then the memory.
PersistCursor(s, phase, o) ==
  /\ AppendLine("cursor", o)
  /\ cursorFile' = IF Written(o) THEN [cursorFile EXCEPT ![s] = phase] ELSE cursorFile

CursorMemory(h, s, phase, o) ==
  IF o = "ok" THEN [handle[h].cursor EXCEPT ![s] = phase] ELSE handle[h].cursor

(***************************************************************************)
(* Initial state: no log holds a line and no handle is open.               *)
(***************************************************************************)
Init ==
  /\ consumedFile = {}
  /\ cursorFile = [s \in Sessions |-> "Absent"]
  /\ inventoryFile = {}
  /\ fileState = [f \in Files |-> "clean"]
  /\ handle = [h \in Handles |-> DownHandle]
  /\ useCount = [t \in Tokens |-> 0]
  /\ ran = {}
  /\ returned = {}

(***************************************************************************)
(* Opening, starting and dropping.                                         *)
(***************************************************************************)

\* What FileConsumedTokenStore::open rebuilds in memory.
\* (Mutant: nothing.)
ReplayedNothing == {}
ReplayedTokens == consumedFile

\* The four open functions read their log; a line that does not parse is an
\* error and nothing is opened.
OpenStores(h) ==
  /\ handle[h].pc = "down"
  /\ \A f \in Files : fileState[f] # "torn"
  /\ handle' = [handle EXCEPT ![h] =
                  [DownHandle EXCEPT !.pc = "idle", !.consumed = ReplayedTokens,
                                     !.cursor = cursorFile, !.inventory = inventoryFile]]
  /\ UNCHANGED <<durable, history>>

\* A fresh session over this handle's stores.
Opened(h, s, cursor) ==
  [handle[h] EXCEPT !.cursor = cursor, !.sess = s, !.phase = "Ready",
                    !.batch = TRUE, !.outcome = "none"]

\* start_with_cursor_store_and_runtime on a session without a cursor.  It owns
\* the stores by then: an error drops them, and the caller has to reopen.
StartNew(h, s, o) ==
  /\ handle[h].pc = "idle"
  /\ handle[h].sess = NoSession
  /\ handle[h].cursor[s] = "Absent"
  /\ PersistCursor(s, "Started", o)
  /\ handle' =
       IF o = "ok"
       THEN [handle EXCEPT ![h] = Opened(h, s, CursorMemory(h, s, "Started", o))]
       ELSE [handle EXCEPT ![h] = DownHandle]
  /\ UNCHANGED <<consumedFile, inventoryFile, history>>

\* ... on one whose cursor is Started: hydrated, nothing written ...
StartHydrated(h, s) ==
  /\ handle[h].pc = "idle"
  /\ handle[h].sess = NoSession
  /\ handle[h].cursor[s] = "Started"
  /\ handle' = [handle EXCEPT ![h] = Opened(h, s, handle[h].cursor)]
  /\ UNCHANGED <<durable, history>>

\* ... and on one whose cursor is past Started: an error, the stores dropped.
StartRefused(h, s) ==
  /\ handle[h].pc = "idle"
  /\ handle[h].sess = NoSession
  /\ handle[h].cursor[s] \in {"TokensConsumed", "Finished", "Failed"}
  /\ handle' = [handle EXCEPT ![h] = DownHandle]
  /\ UNCHANGED <<durable, history>>

\* into_parts returns the stores to the caller.
CloseSession(h) ==
  /\ handle[h].pc = "idle"
  /\ handle[h].sess # NoSession
  /\ handle' = [handle EXCEPT ![h].sess = NoSession]
  /\ UNCHANGED <<durable, history>>

Crash(h) ==
  /\ handle[h].pc # "down"
  /\ handle' = [handle EXCEPT ![h] = DownHandle]
  /\ UNCHANGED <<durable, history>>

\* handle_private, handle_broadcast and the queue operations, as far as this
\* module sees them: each persists a Started cursor while the phase is Ready.
WireMessage(h, o) ==
  LET s == handle[h].sess IN
  /\ handle[h].pc = "idle"
  /\ s # NoSession
  /\ handle[h].phase = "Ready"
  /\ PersistCursor(s, "Started", o)
  /\ handle' = [handle EXCEPT ![h].cursor = CursorMemory(h, s, "Started", o)]
  /\ UNCHANGED <<consumedFile, inventoryFile, history>>

(***************************************************************************)
(* finish_with_helper_use_logs, one durable step at a time.                *)
(***************************************************************************)
FinishStart(h) ==
  /\ handle[h].pc = "idle"
  /\ handle[h].sess # NoSession
  /\ handle[h].phase = "Ready"
  /\ handle[h].batch
  /\ handle' = [handle EXCEPT ![h].batch = FALSE, ![h].pc = "consume", ![h].pos = 1]
  /\ UNCHANGED <<durable, history>>

\* (Mutant: the session phase takes a cursor phase.)
FailCallWithCursorPhase(h) ==
  [handle EXCEPT ![h].phase = "TokensConsumed", ![h].pc = "persistFailed"]

\* The session is Failed; its Failed cursor is still to be written.
FailCall(h) == [handle EXCEPT ![h].phase = "Failed", ![h].pc = "persistFailed"]

\* FileConsumedTokenStore::persist_consumed: refused (see RefuseToken) when this
\* handle's memory holds the token.  (Mutant: no look at the memory.)
PersistConsumedUnchecked(h, t, o) ==
  /\ AppendLine("consumed", o)
  /\ consumedFile' = IF Written(o) THEN consumedFile \cup {t} ELSE consumedFile

PersistConsumed(h, t, o) ==
  /\ t \notin handle[h].consumed
  /\ AppendLine("consumed", o)
  /\ consumedFile' = IF Written(o) THEN consumedFile \cup {t} ELSE consumedFile

CurrentToken(h) == BatchOf[handle[h].sess][handle[h].pos]

\* The loop over the batch goes on, or leaves for next after its last token.
TokenConsumed(h, next) ==
  [handle EXCEPT ![h].consumed = @ \cup {CurrentToken(h)}, ![h].pos = @ + 1,
                 ![h].pc = IF handle[h].pos = Len(BatchOf[handle[h].sess]) THEN next ELSE @]

\* (Mutant: an I/O error does not stop the loop.)
ConsumeTokenIgnoringErrors(h, o) ==
  /\ handle[h].pc = "consume"
  /\ PersistConsumed(h, CurrentToken(h), o)
  /\ handle' = TokenConsumed(h, "persistConsumed")
  /\ UNCHANGED <<cursorFile, inventoryFile, history>>

ConsumeToken(h, o) ==
  /\ handle[h].pc = "consume"
  /\ PersistConsumed(h, CurrentToken(h), o)
  /\ handle' = IF o = "ok" THEN TokenConsumed(h, "persistConsumed") ELSE FailCall(h)
  /\ UNCHANGED <<cursorFile, inventoryFile, history>>

RefuseToken(h) ==
  /\ handle[h].pc = "consume"
  /\ CurrentToken(h) \in handle[h].consumed
  /\ handle' = FailCall(h)
  /\ UNCHANGED <<durable, history>>

\* The TokensConsumed cursor.  The code leaves with ? when the store fails:
\* the call returns an error and the phase stays Ready.
PersistTokensConsumed(h, o) ==
  LET s == handle[h].sess IN
  /\ handle[h].pc = "persistConsumed"
  /\ PersistCursor(s, "TokensConsumed", o)
  /\ handle' = [handle EXCEPT ![h].cursor = CursorMemory(h, s, "TokensConsumed", o),
                              ![h].pc = IF o = "ok" THEN "inventory" ELSE "idle",
                              ![h].outcome = IF o = "ok" THEN @ ELSE "error",
                              ![h].pos = 1]
  /\ UNCHANGED <<consumedFile, inventoryFile, history>>

\* The mask and helper logs, unlike the other two, refuse a second line of one
\* inventory when they are opened.
InventoryOutcome(id, o) == IF Written(o) /\ id \in inventoryFile THEN "torn" ELSE o

\* mark_mask_consumed and mark_helper_consumed: the memory, then the file.  Both
\* refuse an inventory their memory holds.  Nobody who was let past the token log
\* meets that refusal: the inventory of a batch is marked behind its tokens only.
MarkInventory(h, o) ==
  LET s == handle[h].sess
      i == handle[h].pos
      id == InventoryAt(s, i)
  IN
  /\ handle[h].pc = "inventory"
  /\ id \notin handle[h].inventory
  /\ AppendLine(InventoryLog(id), InventoryOutcome(id, o))
  /\ inventoryFile' = IF Written(o) THEN inventoryFile \cup {id} ELSE inventoryFile
  /\ handle' =
       IF o # "ok" THEN [FailCall(h) EXCEPT ![h].inventory = @ \cup {id}]
       ELSE [handle EXCEPT ![h].inventory = @ \cup {id}, ![h].pos = i + 1,
                           ![h].pc = IF i = InventoryCount(s) THEN "handOver" ELSE "inventory"]
  /\ UNCHANGED <<consumedFile, cursorFile, history>>

CountUse(s) ==
  useCount' = [t \in Tokens |-> IF t \in BatchSet(s) THEN useCount[t] + 1 ELSE useCount[t]]

\* The backend receives the consumed batch and derives the challenges.
HandOver(h) ==
  LET s == handle[h].sess IN
  /\ handle[h].pc = "handOver"
  /\ CountUse(s)
  /\ ran' = ran \cup {s}
  /\ handle' = [handle EXCEPT ![h].pc = "slot", ![h].pos = 1]
  /\ UNCHANGED <<durable, returned>>

\* enter_runtime_slot persists the cursor; then the slot's component runs and
\* may fail.  The fifth slot opens the selected candidate.
RunSlot(h, o, completes) ==
  LET s == handle[h].sess
      i == handle[h].pos
  IN
  /\ handle[h].pc = "slot"
  /\ completes => o = "ok"
  /\ PersistCursor(s, "TokensConsumed", o)
  /\ handle' =
       IF completes
       THEN [handle EXCEPT ![h].cursor = CursorMemory(h, s, "TokensConsumed", o),
                           ![h].pos = i + 1,
                           ![h].pc = IF i = 5 THEN "verify" ELSE "slot"]
       ELSE [FailCall(h) EXCEPT ![h].cursor = CursorMemory(h, s, "TokensConsumed", o)]
  /\ UNCHANGED <<consumedFile, inventoryFile, history>>

\* The evidence checks and verify_final.
FinalVerify(h, accepted) ==
  /\ handle[h].pc = "verify"
  /\ handle' = IF accepted
               THEN [handle EXCEPT ![h].phase = "Finished", ![h].pc = "persistFinished"]
               ELSE FailCall(h)
  /\ UNCHANGED <<durable, history>>

\* (Mutant: the signature is returned whether or not its cursor was written.)
PersistFinishedIgnoringErrors(h, o) ==
  LET s == handle[h].sess IN
  /\ handle[h].pc = "persistFinished"
  /\ PersistCursor(s, "Finished", o)
  /\ handle' = [handle EXCEPT ![h].cursor = CursorMemory(h, s, "Finished", o),
                              ![h].pc = "idle", ![h].outcome = "signature"]
  /\ returned' = returned \cup {s}
  /\ UNCHANGED <<consumedFile, inventoryFile, useCount, ran>>

PersistFinished(h, o) ==
  LET s == handle[h].sess IN
  /\ handle[h].pc = "persistFinished"
  /\ PersistCursor(s, "Finished", o)
  /\ handle' = [handle EXCEPT ![h].cursor = CursorMemory(h, s, "Finished", o),
                              ![h].pc = "idle",
                              ![h].outcome = IF o = "ok" THEN "signature" ELSE "error"]
  /\ returned' = IF o = "ok" THEN returned \cup {s} ELSE returned
  /\ UNCHANGED <<consumedFile, inventoryFile, useCount, ran>>

PersistFailed(h, o) ==
  LET s == handle[h].sess IN
  /\ handle[h].pc = "persistFailed"
  /\ PersistCursor(s, "Failed", o)
  /\ handle' = [handle EXCEPT ![h].cursor = CursorMemory(h, s, "Failed", o),
                              ![h].pc = "idle", ![h].outcome = "error"]
  /\ UNCHANGED <<consumedFile, inventoryFile, history>>

(***************************************************************************)
(* sign_strict_no_rejected_z: the same consumed-token log, no cursor and   *)
(* no session object.  sess holds the pair the call signs for.             *)
(***************************************************************************)
DirectStart(h, s) ==
  /\ handle[h].pc = "idle"
  /\ handle[h].sess = NoSession
  /\ handle' = [handle EXCEPT ![h].sess = s, ![h].pc = "directConsume", ![h].pos = 1]
  /\ UNCHANGED <<durable, history>>

\* The call returns: back to an idle handle without a session.
DirectReturn(h) == [handle EXCEPT ![h].sess = NoSession, ![h].pc = "idle"]

DirectConsume(h, o) ==
  /\ handle[h].pc = "directConsume"
  /\ PersistConsumed(h, CurrentToken(h), o)
  /\ handle' = IF o = "ok" THEN TokenConsumed(h, "directHandOver") ELSE DirectReturn(h)
  /\ UNCHANGED <<cursorFile, inventoryFile, history>>

DirectRefuse(h) ==
  /\ handle[h].pc = "directConsume"
  /\ CurrentToken(h) \in handle[h].consumed
  /\ handle' = DirectReturn(h)
  /\ UNCHANGED <<durable, history>>

DirectHandOver(h) ==
  /\ handle[h].pc = "directHandOver"
  /\ CountUse(handle[h].sess)
  /\ handle' = [handle EXCEPT ![h].pc = "directBackend"]
  /\ UNCHANGED <<durable, ran, returned>>

\* The backend and the verifier finish, with or without a signature.
DirectBackend(h) ==
  /\ handle[h].pc = "directBackend"
  /\ handle' = DirectReturn(h)
  /\ UNCHANGED <<durable, history>>

(***************************************************************************)
(* The specification.                                                      *)
(***************************************************************************)
FinishStep(h) ==
  \/ RefuseToken(h)
  \/ HandOver(h)
  \/ \E o \in Outcome :
       \/ ConsumeToken(h, o)
       \/ PersistTokensConsumed(h, o)
       \/ MarkInventory(h, o)
       \/ \E completes \in BOOLEAN : RunSlot(h, o, completes)
       \/ PersistFinished(h, o)
       \/ PersistFailed(h, o)
  \/ \E accepted \in BOOLEAN : FinalVerify(h, accepted)

DirectStep(h) ==
  \/ \E o \in Outcome : DirectConsume(h, o)
  \/ DirectRefuse(h)
  \/ DirectHandOver(h)
  \/ DirectBackend(h)

CallerStep(h) ==
  \/ OpenStores(h)
  \/ Crash(h)
  \/ CloseSession(h)
  \/ FinishStart(h)
  \/ \E o \in Outcome : WireMessage(h, o)
  \/ \E s \in Sessions :
       \/ \E o \in Outcome : StartNew(h, s, o)
       \/ StartHydrated(h, s)
       \/ StartRefused(h, s)
       \/ DirectStart(h, s)

Next == \E h \in Handles : CallerStep(h) \/ FinishStep(h) \/ DirectStep(h)

Spec == Init /\ [][Next]_vars

(***************************************************************************)
(* Properties.                                                             *)
(***************************************************************************)

\* No token is given to a signing backend twice, whichever entry point, and
\* however writes fail and processes restart: persist_consumed guards both.
OneTimeUse == \A t \in Tokens : useCount[t] <= 1

\* A token the backend has received is in the consumed-token log, so that
\* every later open that accepts the log refuses it; and every mask and
\* helper of a batch run by a session has its line in the use logs.
UseIsDurable ==
  /\ \A t \in Tokens : useCount[t] > 0 => t \in consumedFile
  /\ \A s \in ran : \A i \in 1 .. InventoryCount(s) : InventoryAt(s, i) \in inventoryFile

\* Once the backend has run for a session, its last durable cursor is past
\* Started for good: no restart hydrates it, no message handler rewinds it.
RanIsNeverReopened == \A s \in ran : cursorFile[s] \notin {"Absent", "Started"}

\* A session that returned a signature has run its backend, and its last
\* cursor says Finished for good.
ReturnedIsFinished == \A s \in returned : s \in ran /\ cursorFile[s] = "Finished"

\* The end of a session is never taken back, by a line, a restart or a handler.
SessionsStayOver == RanIsNeverReopened /\ ReturnedIsFinished

\* While a call is past its consumption loop and has not handed over yet, its
\* whole batch is durable and still unused: the claim no other step may break.
ClaimIsUnused ==
  \A h \in Handles :
    handle[h].pc \in {"persistConsumed", "inventory", "handOver", "directHandOver"} =>
      \A t \in BatchSet(handle[h].sess) : t \in consumedFile /\ useCount[t] = 0

\* The promise about tokens, implemented by the logs and the calls above.
Promise == INSTANCE OneTimeTokens
             WITH burnt <- consumedFile, uses <- useCount,
                  Batches <- {BatchSet(s) : s \in Sessions}

ImplementsPromise == Promise!Spec
=============================================================================
