--------------------------- MODULE TokenInventory ---------------------------
(***************************************************************************)
(* Admission and consumption of certified preprocessing tokens             *)
(* (talus-mpc/src/local.rs): the in-memory TokenPool, FileTokenInventory   *)
(* with the lifecycle Fresh -> Reserved -> Consumed -> Erased, and the     *)
(* typed release-token log a batch has to match.  One process owns the     *)
(* three; it may crash between two appends, or drop and reopen either      *)
(* store and keep its pool.                                                *)
(*                                                                         *)
(* Token material is the caller's: it may offer a token of any session id  *)
(* at any time, also one it has offered before.                            *)
(***************************************************************************)
EXTENDS Naturals, Sequences, FiniteSets

CONSTANTS
  Tokens,    \* certified preprocessing tokens, named by their session id
  Batches,   \* the sequences of tokens that callers admit, log and take
  NoLog      \* a release log that is not open

ASSUME TokenAssumption ==
  /\ Batches \subseteq Seq(Tokens)
  /\ NoLog \notin Seq(Nat \X Tokens)

VARIABLES
  inventoryFile,  \* state the inventory log replays to, of each token
  releaseFile,    \* entries of the release-token log: index in the batch, token
  fileState,      \* how the last line of each log ends
  inventory,      \* the copy FileTokenInventory keeps in memory
  releaseLog,     \* the copy FilePreprocessingReleaseTokenBatchLog keeps
  pool,           \* the tokens in TokenPool
  call,           \* the call in progress
  admitted,       \* history: how often a token entered the pool by way of the inventory
  logged,         \* history: tokens that entered it with a release-logged batch
  uses            \* history: how often a token was returned for consumption

files == <<inventoryFile, releaseFile, fileState>>
history == <<admitted, logged, uses>>
vars == <<inventoryFile, releaseFile, fileState, inventory, releaseLog, pool, call,
          admitted, logged, uses>>

TokenInventoryState == {"Fresh", "Reserved", "Consumed", "Erased"}

\* The only state each state may follow.
Before(state) == CASE state = "Reserved" -> "Fresh"
                   [] state = "Consumed" -> "Reserved"
                   [] state = "Erased" -> "Consumed"

\* "unterminated": whole but for its newline.  "corrupt": some line does not
\* parse or replay, and open refuses the log.
FileState == {"clean", "unterminated", "corrupt"}
Files == {"inventory", "release"}

Entries == Nat \X Tokens

Pc == {"down", "idle", "reserve", "consume", "take"}
Idle == [pc |-> "idle", batch |-> <<>>, pos |-> 1]
Down == [pc |-> "down", batch |-> <<>>, pos |-> 1]

TypeOK ==
  /\ inventoryFile \in [Tokens -> TokenInventoryState]
  /\ releaseFile \in Seq(Entries)
  /\ fileState \in [Files -> FileState]
  /\ inventory \in [Tokens -> TokenInventoryState]
  /\ releaseLog \in Seq(Entries) \cup {NoLog}
  /\ pool \subseteq Tokens
  /\ call \in [pc : Pc, batch : Seq(Tokens), pos : Nat]
  /\ call.pc \in {"reserve", "consume"} => call.pos \in 1 .. Len(call.batch)
  /\ admitted \in [Tokens -> Nat]
  /\ logged \subseteq Tokens
  /\ uses \in [Tokens -> Nat]

BatchSet(batch) == {batch[i] : i \in 1 .. Len(batch)}
NoRepetition(batch) == Cardinality(BatchSet(batch)) = Len(batch)

(***************************************************************************)
(* Appending to a log: open, write the line and its newline, sync_data.    *)
(***************************************************************************)
Outcome == {"ok", "failed", "unsynced", "unterminated", "torn"}
Written(o) == o \in {"ok", "unsynced", "unterminated"}

\* readable: the line, once written, is one that open accepts in its place.
AppendLine(f, readable, o) ==
  fileState' =
    [fileState EXCEPT ![f] =
       IF o = "failed" THEN @
       ELSE IF @ # "clean" \/ o = "torn" \/ ~readable THEN "corrupt"
       ELSE IF o = "unterminated" THEN "unterminated"
       ELSE "clean"]

\* append_transition.  replay_token_inventory_transition takes a line only
\* behind the state it follows: a second copy of a line, as a retry after an
\* unreported success leaves, makes the log corrupt.
AppendTransition(t, state, o) ==
  /\ AppendLine("inventory", inventoryFile[t] = Before(state), o)
  /\ inventoryFile' = IF Written(o) /\ inventoryFile[t] = Before(state)
                      THEN [inventoryFile EXCEPT ![t] = state] ELSE inventoryFile
  /\ UNCHANGED releaseFile

\* FileTokenInventory::reserve, consume, erase past their check of the state in
\* memory: the file, then the memory.  (Mutant: the memory first.)
TransitionMemoryFirst(t, state, o) ==
  /\ inventory[t] = Before(state)
  /\ AppendTransition(t, state, o)
  /\ inventory' = [inventory EXCEPT ![t] = state]

Transition(t, state, o) ==
  /\ inventory[t] = Before(state)
  /\ AppendTransition(t, state, o)
  /\ inventory' = IF o = "ok" THEN [inventory EXCEPT ![t] = state] ELSE inventory

\* TokenInventory::new.
Nothing == [t \in Tokens |-> "Fresh"]

Init ==
  /\ inventoryFile = Nothing
  /\ releaseFile = <<>>
  /\ fileState = [f \in Files |-> "clean"]
  /\ inventory = Nothing
  /\ releaseLog = NoLog
  /\ pool = {}
  /\ call = Down
  /\ admitted = [t \in Tokens |-> 0]
  /\ logged = {}
  /\ uses = [t \in Tokens |-> 0]

(***************************************************************************)
(* Opening and dropping the stores.                                        *)
(***************************************************************************)

\* What FileTokenInventory::open rebuilds from its lines.
Replayed == inventoryFile

OpenInventory ==
  /\ call.pc = "down"
  /\ fileState["inventory"] # "corrupt"
  /\ inventory' = Replayed
  /\ call' = Idle
  /\ UNCHANGED <<files, releaseLog, pool, history>>

DropInventory ==
  /\ call.pc = "idle"
  /\ call' = Down
  /\ inventory' = Nothing
  /\ UNCHANGED <<files, releaseLog, pool, history>>

OpenReleaseLog ==
  /\ call.pc \in {"idle", "down"}
  /\ releaseLog = NoLog
  /\ fileState["release"] # "corrupt"
  /\ releaseLog' = releaseFile
  /\ UNCHANGED <<files, inventory, pool, call, history>>

DropReleaseLog ==
  /\ call.pc \in {"idle", "down"}
  /\ releaseLog # NoLog
  /\ releaseLog' = NoLog
  /\ UNCHANGED <<files, inventory, pool, call, history>>

\* The pool and its tokens live in memory only.
Crash ==
  /\ call' = Down
  /\ inventory' = Nothing
  /\ pool' = {}
  /\ releaseLog' = NoLog
  /\ UNCHANGED <<files, history>>

(***************************************************************************)
(* The release-token log.                                                  *)
(***************************************************************************)
UsedIn(log, i) == \E k \in 1 .. Len(log) : log[k][1] = i

\* FilePreprocessingReleaseTokenBatchLog::append of the entry of a batch's
\* i-th token; the index must be new to the memory, and is judged against the
\* whole file by the next open.
AppendEntry(batch, i, o) ==
  LET e == <<i, batch[i]>> IN
  /\ call.pc \in {"idle", "down"}
  /\ releaseLog # NoLog
  /\ ~UsedIn(releaseLog, i)
  /\ AppendLine("release", ~UsedIn(releaseFile, i), o)
  /\ releaseFile' = IF Written(o) /\ ~UsedIn(releaseFile, i)
                    THEN Append(releaseFile, e) ELSE releaseFile
  /\ releaseLog' = IF o = "ok" THEN Append(releaseLog, e) ELSE releaseLog
  /\ UNCHANGED <<inventoryFile, inventory, pool, call, history>>

\* ensure_preprocessing_release_token_batch_log_for_release: entry by entry,
\* in the order of the batch.
MatchesLog(batch) == releaseLog = [i \in 1 .. Len(batch) |-> <<i, batch[i]>>]

(***************************************************************************)
(* Admission.                                                              *)
(***************************************************************************)

\* insert_certified and insert_release_certified: the pool alone.
InsertCertified(t) ==
  /\ call.pc \in {"idle", "down"}
  /\ t \notin pool
  /\ pool' = pool \cup {t}
  /\ UNCHANGED <<files, inventory, releaseLog, call, history>>

\* insert_certified_with_inventory and its release twin: the id is reserved
\* first, and stays reserved when the token is then found uncertified or its
\* id in the pool already.
InsertWithInventory(t, certified, o) ==
  LET enters == o = "ok" /\ certified /\ t \notin pool IN
  /\ call.pc = "idle"
  /\ Transition(t, "Reserved", o)
  /\ pool' = IF enters THEN pool \cup {t} ELSE pool
  /\ admitted' = IF enters THEN [admitted EXCEPT ![t] = @ + 1] ELSE admitted
  /\ UNCHANGED <<releaseLog, call, logged, uses>>

\* insert_release_certified_batch_with_inventory_and_file_log: every check
\* first, then the reservations one by one, then the whole batch.
InsertBatch(batch) ==
  /\ call.pc = "idle"
  /\ batch # <<>>
  /\ releaseLog # NoLog
  /\ MatchesLog(batch)
  /\ NoRepetition(batch)
  /\ BatchSet(batch) \cap pool = {}
  /\ \A t \in BatchSet(batch) : inventory[t] = "Fresh"
  /\ call' = [pc |-> "reserve", batch |-> batch, pos |-> 1]
  /\ UNCHANGED <<files, inventory, releaseLog, pool, history>>

\* A reservation that fails ends the call with nothing inserted; those made
\* before it stay.
ReserveNext(o) ==
  LET batch == call.batch
      last == call.pos = Len(batch)
  IN
  /\ call.pc = "reserve"
  /\ Transition(batch[call.pos], "Reserved", o)
  /\ call' = IF o # "ok" \/ last THEN Idle ELSE [call EXCEPT !.pos = @ + 1]
  /\ IF o = "ok" /\ last
     THEN /\ pool' = pool \cup BatchSet(batch)
          /\ admitted' = [t \in Tokens |-> IF t \in BatchSet(batch) THEN admitted[t] + 1
                                                                     ELSE admitted[t]]
          /\ logged' = logged \cup BatchSet(batch)
     ELSE UNCHANGED <<pool, admitted, logged>>
  /\ UNCHANGED <<releaseLog, uses>>

(***************************************************************************)
(* Taking tokens out.                                                      *)
(***************************************************************************)

\* take_certified and take_certified_batch: the tokens before the first
\* missing or repeated one leave the pool, returned or dropped.
TakeBatch(batch) ==
  /\ call.pc \in {"idle", "down"}
  /\ \E n \in 0 .. Len(batch) :
       /\ BatchSet(SubSeq(batch, 1, n)) \subseteq pool
       /\ NoRepetition(SubSeq(batch, 1, n))
       /\ n < Len(batch) => batch[n + 1] \notin pool \ BatchSet(SubSeq(batch, 1, n))
       /\ pool' = pool \ BatchSet(SubSeq(batch, 1, n))
  /\ UNCHANGED <<files, inventory, releaseLog, call, history>>

\* take_certified_for_consumption looks at the inventory only; whether the pool
\* holds the token shows after its consumption.
TakeForConsumption(t) ==
  /\ call.pc = "idle"
  /\ inventory[t] = "Reserved"
  /\ call' = [pc |-> "consume", batch |-> <<t>>, pos |-> 1]
  /\ UNCHANGED <<files, inventory, releaseLog, pool, history>>

\* take_certified_batch_for_consumption looks at the pool and the inventory for
\* every token first.
TakeBatchForConsumption(batch) ==
  /\ call.pc = "idle"
  /\ Len(batch) > 0
  /\ NoRepetition(batch)
  /\ BatchSet(batch) \subseteq pool
  /\ \A t \in BatchSet(batch) : inventory[t] = "Reserved"
  /\ call' = [pc |-> "consume", batch |-> batch, pos |-> 1]
  /\ UNCHANGED <<files, inventory, releaseLog, pool, history>>

\* An error leaves the tokens consumed so far consumed, and the pool as it was.
\* (Mutants: the error is ignored; the loop runs one token too far.)
ConsumeNextIgnoringErrors(o) ==
  /\ call.pc = "consume"
  /\ Transition(call.batch[call.pos], "Consumed", o)
  /\ call' = IF call.pos = Len(call.batch) THEN [call EXCEPT !.pc = "take"]
             ELSE [call EXCEPT !.pos = @ + 1]
  /\ UNCHANGED <<releaseLog, pool, history>>

ConsumeNextTooFar(o) ==
  /\ call.pc = "consume"
  /\ Transition(call.batch[call.pos], "Consumed", o)
  /\ call' = IF o # "ok" THEN Idle
             ELSE IF call.pos > Len(call.batch) THEN [call EXCEPT !.pc = "take"]
             ELSE [call EXCEPT !.pos = @ + 1]
  /\ UNCHANGED <<releaseLog, pool, history>>

ConsumeNext(o) ==
  /\ call.pc = "consume"
  /\ Transition(call.batch[call.pos], "Consumed", o)
  /\ call' = IF o # "ok" THEN Idle
             ELSE IF call.pos = Len(call.batch) THEN [call EXCEPT !.pc = "take"]
             ELSE [call EXCEPT !.pos = @ + 1]
  /\ UNCHANGED <<releaseLog, pool, history>>

\* The tokens leave the pool for the caller; one that is not there is Missing.
Take ==
  LET batch == BatchSet(call.batch) IN
  /\ call.pc = "take"
  /\ IF batch \subseteq pool
     THEN /\ pool' = pool \ batch
          /\ uses' = [t \in Tokens |-> IF t \in batch THEN uses[t] + 1 ELSE uses[t]]
     ELSE UNCHANGED <<pool, uses>>
  /\ call' = Idle
  /\ UNCHANGED <<files, inventory, releaseLog, admitted, logged>>

Erase(t, o) ==
  /\ call.pc = "idle"
  /\ Transition(t, "Erased", o)
  /\ UNCHANGED <<releaseLog, pool, call, history>>

(***************************************************************************)
(* The specification.                                                      *)
(***************************************************************************)
Next ==
  \/ OpenInventory
  \/ DropInventory
  \/ OpenReleaseLog
  \/ DropReleaseLog
  \/ Crash
  \/ Take
  \/ \E batch \in Batches :
       \/ InsertBatch(batch)
       \/ TakeBatch(batch)
       \/ TakeBatchForConsumption(batch)
       \/ \E i \in 1 .. Len(batch), o \in Outcome : AppendEntry(batch, i, o)
  \/ \E t \in Tokens :
       \/ InsertCertified(t)
       \/ TakeForConsumption(t)
       \/ \E o \in Outcome : Erase(t, o)
       \/ \E certified \in BOOLEAN, o \in Outcome : InsertWithInventory(t, certified, o)
  \/ \E o \in Outcome : ReserveNext(o) \/ ConsumeNext(o)

Spec == Init /\ [][Next]_vars

(***************************************************************************)
(* Properties.                                                             *)
(***************************************************************************)

\* "Reused nonce/token id -> inventory transition rejects": a session id enters
\* the pool by way of the inventory once, whatever material the caller offers
\* again, and however often writes fail and the process restarts.
AdmittedOnce == \A t \in Tokens : admitted[t] <= 1

Rank(state) == CASE state = "Fresh" -> 0
                 [] state = "Reserved" -> 1
                 [] state = "Consumed" -> 2
                 [] state = "Erased" -> 3

\* "Once a token reaches Consumed or Erased, no later restart may make it
\* usable again": an open inventory never knows more than its log replays to,
\* so that what any open would rebuild is at least as far.
NoRollback ==
  call.pc # "down" => \A t \in Tokens : Rank(inventory[t]) <= Rank(inventoryFile[t])

\* A batch was admitted only with every entry of it in the durable release log:
\* a later open, or the audit of the log, finds them, or refuses a log that a
\* repeated append has spoilt.
AdmittedIsLogged ==
  fileState["release"] # "corrupt" =>
    \A t \in logged : \E k \in 1 .. Len(releaseFile) : releaseFile[k][2] = t

\* The logs are never behind what was done: admission happens once and behind its
\* whole log, and no open takes a transition back.
LogsComeFirst == AdmittedOnce /\ AdmittedIsLogged /\ NoRollback

\* The promise about tokens that strict signing keeps with its own log: what
\* the pool returns for consumption is durably consumed, and returned once,
\* also when the caller offers the material again or mixes in the operations
\* that pass the inventory by.
Promise == INSTANCE OneTimeTokens
             WITH burnt <- {t \in Tokens : inventoryFile[t] \in {"Consumed", "Erased"}},
                  Batches <- {BatchSet(b) : b \in Batches} \cup {{t} : t \in Tokens}

ImplementsPromise == Promise!Spec
=============================================================================
