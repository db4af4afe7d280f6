------------------------- MODULE TokenInventoryProofs -------------------------
(***************************************************************************)
(* For any tokens and batches, and through any crashes and failed writes:  *)
(* the inventory's types, LogsComeFirst, and that the calls over pool and  *)
(* logs implement OneTimeTokens.                                           *)
(*                                                                         *)
(* What a token has been through is told by the rank of its state.  The    *)
(* argument is that neither the log nor the memory of an open inventory    *)
(* ever ranks a token below what has been done with it, and that a call    *)
(* in progress holds tokens with which nothing has been done yet.          *)
(***************************************************************************)
EXTENDS TokenInventory, TLAPS

Target == {"Reserved", "Consumed", "Erased"}

(***************************************************************************)
(* The inductive invariant.                                                *)
(***************************************************************************)

\* An admission is behind a reservation, a use behind a consumption.
Remembers(states) ==
  \A t \in Tokens : /\ admitted[t] > 0 => Rank(states[t]) > 0
                    /\ uses[t] > 0 => Rank(states[t]) > 1

AllRemember == Remembers(inventoryFile) /\ (call.pc # "down" => Remembers(inventory))

IsLogged(t) == \E k \in 1 .. Len(releaseFile) : releaseFile[k][2] = t

\* What an open release log holds, its file holds, or the file is spoilt.
LogIsBacked ==
  fileState["release"] # "corrupt" /\ releaseLog # NoLog =>
    \A k \in 1 .. Len(releaseLog) :
      \E j \in 1 .. Len(releaseFile) : releaseFile[j] = releaseLog[k]

PromiseBatches == {BatchSet(b) : b \in Batches} \cup {{t} : t \in Tokens}

ReservePending ==
  call.pc = "reserve" =>
    /\ \A t \in BatchSet(call.batch) : admitted[t] = 0
    /\ fileState["release"] # "corrupt" => \A t \in BatchSet(call.batch) : IsLogged(t)
    /\ \A i \in 1 .. call.pos - 1 : Rank(inventory[call.batch[i]]) > 0

ConsumePending ==
  /\ call.pc \in {"consume", "take"} =>
       /\ BatchSet(call.batch) \in PromiseBatches
       /\ \A t \in BatchSet(call.batch) : uses[t] = 0
  /\ call.pc = "consume" =>
       \A i \in 1 .. call.pos - 1 : Rank(inventory[call.batch[i]]) > 1
  /\ call.pc = "take" => \A t \in BatchSet(call.batch) : Rank(inventory[t]) > 1

CallsHoldNewTokens == ReservePending /\ ConsumePending

IInv == TypeOK /\ NoRollback /\ AllRemember /\ LogIsBacked /\ CallsHoldNewTokens
          /\ AdmittedIsLogged /\ AdmittedOnce

(***************************************************************************)
(* Ranks, and what a transition does to them.                              *)
(***************************************************************************)
LEMMA Ranks ==
  /\ Rank("Fresh") = 0 /\ Rank("Reserved") = 1 /\ Rank("Consumed") = 2 /\ Rank("Erased") = 3
  /\ \A s \in TokenInventoryState : Rank(s) \in 0 .. 3
  BY DEF Rank, TokenInventoryState

LEMMA Predecessors ==
  \A s \in Target : Before(s) \in TokenInventoryState /\ Rank(Before(s)) + 1 = Rank(s)
<1>1. Before("Reserved") = "Fresh" /\ Before("Consumed") = "Reserved"
        /\ Before("Erased") = "Consumed"
  BY DEF Before
<1>. QED
  BY <1>1, Ranks DEF Target, TokenInventoryState

LEMMA AppendLineStep ==
  ASSUME TypeOK, NEW f \in Files, NEW readable \in BOOLEAN, NEW o \in Outcome,
         AppendLine(f, readable, o)
  PROVE  /\ fileState' \in [Files -> FileState]
         /\ \A g \in Files \ {f} : fileState'[g] = fileState[g]
         /\ fileState[f] = "corrupt" => fileState'[f] = "corrupt"
         /\ fileState'[f] # "corrupt" /\ o = "ok" => readable
<1> DEFINE after == IF o = "failed" THEN fileState[f]
                    ELSE IF fileState[f] # "clean" \/ o = "torn" \/ ~readable THEN "corrupt"
                    ELSE IF o = "unterminated" THEN "unterminated"
                    ELSE "clean"
<1>1. fileState' = [fileState EXCEPT ![f] = after]
  BY DEF AppendLine
<1>2. fileState \in [Files -> FileState]
  BY DEF TypeOK
<1>3. after \in FileState
  BY <1>2 DEF FileState
<1>4. fileState[f] = "corrupt" => after = "corrupt"
  OBVIOUS
<1>5. after # "corrupt" /\ o = "ok" => readable
  OBVIOUS
<1>. HIDE DEF after
<1>. QED
  BY <1>1, <1>2, <1>3, <1>4, <1>5

\* A transition takes the file and the memory forward, and never the memory past
\* the file.
LEMMA TransitionStep ==
  ASSUME TypeOK, NoRollback, call.pc # "down",
         NEW t \in Tokens, NEW state \in Target, NEW o \in Outcome, Transition(t, state, o)
  PROVE  /\ inventoryFile' \in [Tokens -> TokenInventoryState]
         /\ inventory' \in [Tokens -> TokenInventoryState]
         /\ fileState' \in [Files -> FileState]
         /\ releaseFile' = releaseFile
         /\ fileState'["release"] = fileState["release"]
         /\ \A u \in Tokens : Rank(inventoryFile[u]) <= Rank(inventoryFile'[u])
         /\ \A u \in Tokens : Rank(inventory[u]) <= Rank(inventory'[u])
         /\ \A u \in Tokens : Rank(inventory'[u]) <= Rank(inventoryFile'[u])
         /\ Rank(inventory[t]) + 1 = Rank(state)
         /\ o = "ok" => inventory'[t] = state
<1>1. inventory[t] = Before(state) /\ AppendTransition(t, state, o)
        /\ inventory' = IF o = "ok" THEN [inventory EXCEPT ![t] = state] ELSE inventory
  BY DEF Transition
<1>2. state \in TokenInventoryState /\ Rank(Before(state)) + 1 = Rank(state)
  BY Predecessors DEF Target, TokenInventoryState
<1>3. /\ inventoryFile \in [Tokens -> TokenInventoryState]
      /\ inventory \in [Tokens -> TokenInventoryState]
      /\ \A u \in Tokens : Rank(inventory[u]) <= Rank(inventoryFile[u])
      /\ \A u \in Tokens : Rank(inventory[u]) \in Nat /\ Rank(inventoryFile[u]) \in Nat
      /\ Rank(state) \in Nat
  <2>1. \A s \in TokenInventoryState : Rank(s) \in Nat
    BY Ranks
  <2>. QED
    BY <1>2, <2>1 DEF TypeOK, NoRollback
<1>4. /\ fileState' \in [Files -> FileState]
      /\ fileState'["release"] = fileState["release"]
      /\ releaseFile' = releaseFile
  <2>1. AppendLine("inventory", inventoryFile[t] = Before(state), o)
    BY <1>1 DEF AppendTransition
  <2>2. "inventory" \in Files /\ "release" \in Files \ {"inventory"}
    BY DEF Files
  <2>. QED
    BY <1>1, <2>1, <2>2, AppendLineStep DEF AppendTransition
<1>5. CASE inventoryFile[t] = Before(state)
  <2>1. \/ inventoryFile' = [inventoryFile EXCEPT ![t] = state]
        \/ inventoryFile' = inventoryFile /\ o # "ok"
    BY <1>1, <1>5 DEF AppendTransition, Written
  <2>2. \A u \in Tokens \ {t} : inventoryFile'[u] = inventoryFile[u] /\ inventory'[u] = inventory[u]
    BY <1>1, <1>3, <2>1
  <2>3. /\ inventoryFile' \in [Tokens -> TokenInventoryState]
        /\ inventory' \in [Tokens -> TokenInventoryState]
    BY <1>1, <1>2, <1>3, <2>1
  <2>4. /\ \/ inventoryFile'[t] = state
           \/ inventoryFile'[t] = inventoryFile[t] /\ o # "ok"
        /\ o = "ok" => inventory'[t] = state
        /\ o # "ok" => inventory'[t] = inventory[t]
    BY <1>1, <1>3, <2>1
  <2>5. Rank(inventory[t]) + 1 = Rank(state) /\ Rank(inventoryFile[t]) + 1 = Rank(state)
    BY <1>1, <1>2, <1>5
  <2>. QED
    BY <1>3, <1>4, <2>2, <2>3, <2>4, <2>5
<1>6. CASE inventoryFile[t] # Before(state)
  <2>1. inventoryFile' = inventoryFile
    BY <1>1, <1>6 DEF AppendTransition
  <2>2. Rank(inventoryFile[t]) # Rank(Before(state))
    BY <1>2, <1>3, <1>6, Ranks, Predecessors DEF TokenInventoryState
  <2>3. Rank(state) <= Rank(inventoryFile[t])
    BY <1>1, <1>2, <1>3, <2>2
  <2>4. \A u \in Tokens \ {t} : inventory'[u] = inventory[u]
    BY <1>1, <1>3
  <2>5. /\ inventory' \in [Tokens -> TokenInventoryState]
        /\ o = "ok" => inventory'[t] = state
        /\ o # "ok" => inventory'[t] = inventory[t]
        /\ Rank(inventory[t]) + 1 = Rank(state)
    BY <1>1, <1>2, <1>3
  <2>. QED
    BY <1>3, <1>4, <2>1, <2>3, <2>4, <2>5
<1>. QED
  BY <1>5, <1>6

\* A transition keeps what is remembered, and lets a token in that it has reserved.
LEMMA TransitionRemembers ==
  ASSUME TypeOK, NoRollback, AllRemember, call.pc # "down",
         NEW t \in Tokens, NEW state \in Target, NEW o \in Outcome, Transition(t, state, o),
         uses' = uses,
         \A u \in Tokens : admitted'[u] > 0 => admitted[u] > 0 \/ Rank(inventory'[u]) > 0
  PROVE  AllRemember' /\ NoRollback'
<1>1. /\ \A u \in Tokens : Rank(inventoryFile[u]) <= Rank(inventoryFile'[u])
      /\ \A u \in Tokens : Rank(inventory[u]) <= Rank(inventory'[u])
      /\ \A u \in Tokens : Rank(inventory'[u]) <= Rank(inventoryFile'[u])
      /\ inventoryFile' \in [Tokens -> TokenInventoryState]
      /\ inventory' \in [Tokens -> TokenInventoryState]
  BY TransitionStep
<1>2. \A u \in Tokens : /\ Rank(inventory[u]) \in Nat /\ Rank(inventoryFile[u]) \in Nat
                        /\ Rank(inventory'[u]) \in Nat /\ Rank(inventoryFile'[u]) \in Nat
  <2>1. \A s \in TokenInventoryState : Rank(s) \in Nat
    BY Ranks
  <2>. QED
    BY <1>1, <2>1 DEF TypeOK
<1>3. Remembers(inventory) /\ Remembers(inventoryFile)
  BY DEF AllRemember
<1>4. Remembers(inventory)'
  BY <1>1, <1>2, <1>3 DEF Remembers
<1>5. Remembers(inventoryFile)'
  BY <1>1, <1>2, <1>3 DEF Remembers
<1>. QED
  BY <1>1, <1>4, <1>5 DEF AllRemember, NoRollback

\* What stands as long as the release log and its file do.
LEMMA SameReleaseLog ==
  ASSUME LogIsBacked, AdmittedIsLogged, releaseFile' = releaseFile, releaseLog' = releaseLog,
         fileState'["release"] = fileState["release"], logged' = logged
  PROVE  LogIsBacked' /\ AdmittedIsLogged'
  BY DEF LogIsBacked, AdmittedIsLogged

LEMMA NothingIsPending ==
  ASSUME call'.pc \in {"idle", "down"}
  PROVE  CallsHoldNewTokens'
  BY DEF CallsHoldNewTokens, ReservePending, ConsumePending

LEMMA CountIsTyped ==
  ASSUME NEW f \in [Tokens -> Nat], NEW S
  PROVE  [u \in Tokens |-> IF u \in S THEN f[u] + 1 ELSE f[u]] \in [Tokens -> Nat]
<1>1. \A u \in Tokens : (IF u \in S THEN f[u] + 1 ELSE f[u]) \in Nat
  OBVIOUS
<1>. QED
  BY <1>1

LEMMA IdleAndDown ==
  /\ Idle \in [pc : Pc, batch : Seq(Tokens), pos : Nat] /\ Idle.pc = "idle"
  /\ Down \in [pc : Pc, batch : Seq(Tokens), pos : Nat] /\ Down.pc = "down"
<1>1. <<>> \in Seq(Tokens)
  OBVIOUS
<1>. QED
  BY <1>1 DEF Idle, Down, Pc

(***************************************************************************)
(* The steps.                                                              *)
(***************************************************************************)
LEMMA InitOK == Init => IInv
<1> SUFFICES ASSUME Init PROVE IInv
  OBVIOUS
<1>1. TypeOK
  BY IdleAndDown DEF Init, TypeOK, Nothing, TokenInventoryState, Files, FileState, Entries, Down
<1>2. NoRollback /\ AllRemember /\ CallsHoldNewTokens
  BY DEF Init, Nothing, Down, NoRollback, AllRemember, Remembers, CallsHoldNewTokens,
         ReservePending, ConsumePending
<1>3. LogIsBacked /\ AdmittedIsLogged /\ AdmittedOnce
  BY DEF Init, LogIsBacked, AdmittedIsLogged, AdmittedOnce
<1>. QED
  BY <1>1, <1>2, <1>3 DEF IInv

\* Opening and dropping the inventory, and a crash.
LEMMA StoreStep ==
  ASSUME IInv, OpenInventory \/ DropInventory \/ Crash
  PROVE  IInv'
<1>1. /\ TypeOK /\ NoRollback /\ AllRemember /\ LogIsBacked /\ AdmittedIsLogged /\ AdmittedOnce
  BY DEF IInv
<1>2. /\ releaseLog' = releaseLog \/ releaseLog' = NoLog
      /\ \/ inventory' = inventoryFile /\ call' = Idle
         \/ inventory' = Nothing /\ call' = Down
  BY DEF OpenInventory, DropInventory, Crash, Replayed
<1>3. /\ UNCHANGED <<inventoryFile, releaseFile, fileState, admitted, logged, uses>>
      /\ pool' = pool \/ pool' = {}
  BY DEF OpenInventory, DropInventory, Crash, files, history
<1>4. TypeOK'
  BY <1>1, <1>2, <1>3, IdleAndDown DEF TypeOK, Nothing, TokenInventoryState
<1>5. NoRollback'
  <2>1. \A s \in TokenInventoryState : Rank(s) <= Rank(s)
    BY Ranks
  <2>. QED
    BY <1>1, <1>2, <1>3, <2>1, IdleAndDown DEF TypeOK, NoRollback
<1>6. AllRemember'
  BY <1>1, <1>2, <1>3, IdleAndDown DEF AllRemember, Remembers
<1>7. LogIsBacked' /\ AdmittedIsLogged' /\ AdmittedOnce'
  BY <1>1, <1>2, <1>3 DEF LogIsBacked, AdmittedIsLogged, AdmittedOnce
<1>8. CallsHoldNewTokens'
  BY <1>2, IdleAndDown, NothingIsPending
<1>. QED
  BY <1>4, <1>5, <1>6, <1>7, <1>8 DEF IInv

\* Opening and dropping the release log, and appending to it.
LEMMA ReleaseLogStep ==
  ASSUME IInv, OpenReleaseLog \/ DropReleaseLog
  PROVE  IInv'
<1>1. /\ TypeOK /\ NoRollback /\ AllRemember /\ LogIsBacked /\ AdmittedIsLogged /\ AdmittedOnce
  BY DEF IInv
<1>2. /\ UNCHANGED <<inventoryFile, releaseFile, fileState, inventory, pool, call,
                     admitted, logged, uses>>
      /\ call.pc \in {"idle", "down"}
      /\ releaseLog' = releaseFile \/ releaseLog' = NoLog
  BY DEF OpenReleaseLog, DropReleaseLog, files, history
<1>3. TypeOK'
  BY <1>1, <1>2 DEF TypeOK
<1>4. NoRollback' /\ AllRemember' /\ AdmittedOnce' /\ AdmittedIsLogged'
  BY <1>1, <1>2 DEF NoRollback, AllRemember, Remembers, AdmittedOnce, AdmittedIsLogged
<1>5. LogIsBacked'
  BY <1>1, <1>2 DEF LogIsBacked
<1>6. CallsHoldNewTokens'
  BY <1>2, NothingIsPending
<1>. QED
  BY <1>3, <1>4, <1>5, <1>6 DEF IInv

\* An entry reaches the memory of the release log with the file, or spoils the file.
LEMMA AppendEntryStep ==
  ASSUME IInv, NEW batch \in Batches, NEW i \in 1 .. Len(batch), NEW o \in Outcome,
         AppendEntry(batch, i, o)
  PROVE  IInv'
<1> DEFINE e == <<i, batch[i]>>
<1>1. /\ TypeOK /\ NoRollback /\ AllRemember /\ LogIsBacked /\ AdmittedIsLogged /\ AdmittedOnce
  BY DEF IInv
<1>2. e \in Entries
  <2>1. batch \in Seq(Tokens)
    BY TokenAssumption
  <2>. QED
    BY <2>1 DEF Entries
<1>3. /\ UNCHANGED <<inventoryFile, inventory, pool, call, admitted, logged, uses>>
      /\ call.pc \in {"idle", "down"}
      /\ releaseLog # NoLog
  BY DEF AppendEntry, history
<1>4. /\ fileState' \in [Files -> FileState]
      /\ fileState["release"] = "corrupt" => fileState'["release"] = "corrupt"
      /\ fileState'["release"] # "corrupt" /\ o = "ok" => ~UsedIn(releaseFile, i)
  <2>1. AppendLine("release", ~UsedIn(releaseFile, i), o)
    BY DEF AppendEntry
  <2>2. "release" \in Files /\ (~UsedIn(releaseFile, i)) \in BOOLEAN
    BY DEF Files, UsedIn
  <2>. QED
    BY <1>1, <2>1, <2>2, AppendLineStep
<1>5. /\ releaseFile' \in {releaseFile, Append(releaseFile, e)}
      /\ releaseLog' \in {releaseLog, Append(releaseLog, e)}
      /\ releaseLog' # releaseLog /\ fileState'["release"] # "corrupt" =>
           releaseFile' = Append(releaseFile, e)
  BY <1>4 DEF AppendEntry, Written
<1>6. releaseFile \in Seq(Entries) /\ releaseLog \in Seq(Entries)
  BY <1>1, <1>3 DEF TypeOK
<1>. HIDE DEF e
<1>7. /\ releaseFile' \in Seq(Entries) /\ Len(releaseFile) <= Len(releaseFile')
      /\ Len(releaseFile) \in Nat /\ Len(releaseFile') \in Nat
      /\ \A k \in 1 .. Len(releaseFile) : releaseFile'[k] = releaseFile[k]
  <2>1. CASE releaseFile' = releaseFile
    BY <1>6, <2>1
  <2>2. CASE releaseFile' = Append(releaseFile, e)
    <3>1. releaseFile' \in Seq(Entries) /\ Len(releaseFile') = Len(releaseFile) + 1
      BY <1>2, <1>6, <2>2
    <3>2. \A k \in 1 .. Len(releaseFile) : releaseFile'[k] = releaseFile[k]
      BY <1>2, <1>6, <2>2
    <3>3. Len(releaseFile) \in Nat
      BY <1>6
    <3>. QED
      BY <3>1, <3>2, <3>3
  <2>. QED
    BY <1>5, <2>1, <2>2
<1>8. TypeOK'
  <2>1. releaseLog' \in Seq(Entries)
    <3>1. Append(releaseLog, e) \in Seq(Entries)
      BY <1>2, <1>6
    <3>. QED
      BY <1>5, <1>6, <3>1
  <2>. QED
    BY <1>1, <1>3, <1>4, <1>7, <2>1 DEF TypeOK
<1>9. NoRollback' /\ AllRemember' /\ AdmittedOnce'
  BY <1>1, <1>3 DEF NoRollback, AllRemember, Remembers, AdmittedOnce
<1>10. AdmittedIsLogged'
  BY <1>1, <1>3, <1>4, <1>7 DEF AdmittedIsLogged
<1>11. LogIsBacked'
  <2> SUFFICES ASSUME fileState'["release"] # "corrupt", NEW k \in 1 .. Len(releaseLog')
               PROVE  \E j \in 1 .. Len(releaseFile') : releaseFile'[j] = releaseLog'[k]
    BY DEF LogIsBacked
  <2>1. CASE k \in 1 .. Len(releaseLog)
    <3>1. releaseLog'[k] = releaseLog[k]
      BY <1>2, <1>5, <1>6, <2>1
    <3>2. PICK j \in 1 .. Len(releaseFile) : releaseFile[j] = releaseLog[k]
      BY <1>1, <1>3, <1>4, <2>1 DEF LogIsBacked
    <3>3. j \in 1 .. Len(releaseFile') /\ releaseFile'[j] = releaseFile[j]
      BY <1>7
    <3>. QED
      BY <3>1, <3>2, <3>3
  <2>2. CASE k \notin 1 .. Len(releaseLog)
    <3>1. releaseLog' = Append(releaseLog, e) /\ k = Len(releaseLog) + 1
      BY <1>2, <1>5, <1>6, <2>2
    <3>2. releaseLog' # releaseLog
      BY <1>2, <1>6, <3>1
    <3>3. releaseFile' = Append(releaseFile, e)
      BY <1>5, <3>2
    <3>4. releaseLog'[k] = e
      BY <1>2, <1>6, <3>1
    <3>5. releaseFile'[Len(releaseFile) + 1] = e /\ Len(releaseFile') = Len(releaseFile) + 1
      BY <1>2, <1>6, <3>3
    <3>. QED
      BY <1>6, <1>7, <3>4, <3>5
  <2>. QED
    BY <2>1, <2>2
<1>12. CallsHoldNewTokens'
  BY <1>3, NothingIsPending
<1>. QED
  BY <1>8, <1>9, <1>10, <1>11, <1>12 DEF IInv

\* The pool alone.
LEMMA PoolStep ==
  ASSUME IInv,
         \/ \E t \in Tokens : InsertCertified(t)
         \/ \E batch \in Batches : TakeBatch(batch)
  PROVE  IInv'
<1>1. /\ TypeOK /\ NoRollback /\ AllRemember /\ LogIsBacked /\ AdmittedIsLogged /\ AdmittedOnce
  BY DEF IInv
<1>2. /\ UNCHANGED <<inventoryFile, releaseFile, fileState, inventory, releaseLog, call,
                     admitted, logged, uses>>
      /\ call.pc \in {"idle", "down"}
  BY DEF InsertCertified, TakeBatch, files, history
<1>3. pool' \subseteq Tokens
  BY <1>1 DEF InsertCertified, TakeBatch, TypeOK
<1>4. TypeOK'
  BY <1>1, <1>2, <1>3 DEF TypeOK
<1>5. NoRollback' /\ AllRemember' /\ AdmittedOnce'
  BY <1>1, <1>2 DEF NoRollback, AllRemember, Remembers, AdmittedOnce
<1>6. LogIsBacked' /\ AdmittedIsLogged'
  BY <1>1, <1>2, SameReleaseLog
<1>7. CallsHoldNewTokens'
  BY <1>2, NothingIsPending
<1>. QED
  BY <1>4, <1>5, <1>6, <1>7 DEF IInv

\* Single transitions of an idle inventory.
LEMMA SingleTransitionStep ==
  ASSUME IInv, NEW t \in Tokens, NEW o \in Outcome,
         \/ Erase(t, o)
         \/ \E certified \in BOOLEAN : InsertWithInventory(t, certified, o)
  PROVE  IInv'
<1>1. /\ TypeOK /\ NoRollback /\ AllRemember /\ LogIsBacked /\ AdmittedIsLogged /\ AdmittedOnce
  BY DEF IInv
<1>2. PICK state \in Target : Transition(t, state, o) /\ (admitted' # admitted => state = "Reserved")
  BY DEF Erase, InsertWithInventory, Target, history
<1>3. /\ UNCHANGED <<releaseLog, call, logged, uses>>
      /\ call.pc = "idle"
      /\ pool' \in {pool, pool \cup {t}}
      /\ admitted' # admitted => o = "ok" /\ admitted' = [admitted EXCEPT ![t] = @ + 1]
  BY DEF Erase, InsertWithInventory, history
<1>4. /\ inventoryFile' \in [Tokens -> TokenInventoryState]
      /\ inventory' \in [Tokens -> TokenInventoryState]
      /\ fileState' \in [Files -> FileState]
      /\ releaseFile' = releaseFile
      /\ fileState'["release"] = fileState["release"]
      /\ Rank(inventory[t]) + 1 = Rank(state)
      /\ o = "ok" => inventory'[t] = state
  BY <1>1, <1>2, <1>3, TransitionStep
<1>5. admitted' # admitted => admitted[t] = 0 /\ Rank(inventory'[t]) = 1
  <2> SUFFICES ASSUME admitted' # admitted PROVE admitted[t] = 0 /\ Rank(inventory'[t]) = 1
    OBVIOUS
  <2>1. Rank(state) = 1 /\ inventory'[t] = state
    BY <1>2, <1>3, <1>4, Ranks
  <2>2. Rank(inventory[t]) \in Nat /\ admitted[t] \in Nat
    <3>1. inventory[t] \in TokenInventoryState /\ admitted[t] \in Nat
      BY <1>1 DEF TypeOK
    <3>. QED
      BY <3>1, Ranks
  <2>3. ~(Rank(inventory[t]) > 0)
    BY <1>4, <2>1, <2>2
  <2>. QED
    BY <1>1, <1>3, <2>1, <2>2, <2>3 DEF AllRemember, Remembers
<1>6. /\ admitted' \in [Tokens -> Nat]
      /\ \A u \in Tokens : admitted'[u] > 0 => admitted[u] > 0 \/ Rank(inventory'[u]) > 0
      /\ AdmittedOnce'
  <2>1. CASE admitted' = admitted
    BY <1>1, <2>1 DEF TypeOK, AdmittedOnce
  <2>2. CASE admitted' # admitted
    <3>1. admitted' = [admitted EXCEPT ![t] = 1] /\ Rank(inventory'[t]) > 0
      BY <1>3, <1>5, <2>2
    <3>. QED
      BY <1>1, <3>1 DEF TypeOK, AdmittedOnce
  <2>. QED
    BY <2>1, <2>2
<1>7. TypeOK'
  BY <1>1, <1>3, <1>4, <1>6 DEF TypeOK
<1>8. AllRemember' /\ NoRollback'
  BY <1>1, <1>2, <1>3, <1>6, TransitionRemembers
<1>9. LogIsBacked' /\ AdmittedIsLogged'
  BY <1>1, <1>3, <1>4, SameReleaseLog
<1>10. CallsHoldNewTokens'
  BY <1>3, NothingIsPending
<1>. QED
  BY <1>6, <1>7, <1>8, <1>9, <1>10 DEF IInv

(***************************************************************************)
(* A batch is admitted: reserved token by token, then inserted.            *)
(***************************************************************************)
LEMMA InsertBatchStep ==
  ASSUME IInv, NEW batch \in Batches, InsertBatch(batch)
  PROVE  IInv'
<1>1. /\ TypeOK /\ NoRollback /\ AllRemember /\ LogIsBacked /\ AdmittedIsLogged /\ AdmittedOnce
  BY DEF IInv
<1>2. /\ UNCHANGED <<inventoryFile, releaseFile, fileState, inventory, releaseLog, pool,
                     admitted, logged, uses>>
      /\ call' = [pc |-> "reserve", batch |-> batch, pos |-> 1]
      /\ call.pc = "idle" /\ batch # <<>> /\ releaseLog # NoLog /\ MatchesLog(batch)
      /\ \A t \in BatchSet(batch) : inventory[t] = "Fresh"
  BY DEF InsertBatch, files, history
<1>3. batch \in Seq(Tokens) /\ Len(batch) \in Nat \ {0} /\ BatchSet(batch) \subseteq Tokens
  <2>1. batch \in Seq(Tokens)
    BY TokenAssumption
  <2>. QED
    BY <1>2, <2>1 DEF BatchSet
<1>4. TypeOK'
  <2>1. call' \in [pc : Pc, batch : Seq(Tokens), pos : Nat]
    BY <1>2, <1>3 DEF Pc
  <2>2. call'.pos \in 1 .. Len(call'.batch)
    BY <1>2, <1>3
  <2>. QED
    BY <1>1, <1>2, <2>1, <2>2 DEF TypeOK
<1>5. NoRollback' /\ AllRemember' /\ AdmittedOnce'
  BY <1>1, <1>2 DEF NoRollback, AllRemember, Remembers, AdmittedOnce
<1>6. LogIsBacked' /\ AdmittedIsLogged'
  BY <1>1, <1>2, SameReleaseLog
<1>7. ASSUME NEW t \in BatchSet(batch) PROVE admitted'[t] = 0
  <2>1. admitted[t] \in Nat /\ ~(admitted[t] > 0)
    BY <1>1, <1>2, <1>3, Ranks DEF TypeOK, AllRemember, Remembers
  <2>. QED
    BY <1>2, <2>1
<1>8. ASSUME fileState["release"] # "corrupt", NEW t \in BatchSet(batch) PROVE IsLogged(t)'
  <2>1. PICK i \in 1 .. Len(batch) : batch[i] = t
    BY DEF BatchSet
  <2>2. releaseLog = [k \in 1 .. Len(batch) |-> <<k, batch[k]>>] /\ releaseLog \in Seq(Entries)
    BY <1>1, <1>2 DEF MatchesLog, TypeOK
  <2>3. Len(releaseLog) = Len(batch)
    BY <1>3, <2>2
  <2>4. PICK j \in 1 .. Len(releaseFile) : releaseFile[j] = <<i, t>>
    BY <1>1, <1>2, <1>8, <2>1, <2>2, <2>3 DEF LogIsBacked
  <2>. QED
    BY <1>2, <2>4 DEF IsLogged
<1>9. CallsHoldNewTokens'
  <2>1. ReservePending'
    BY <1>2, <1>3, <1>7, <1>8 DEF ReservePending
  <2>2. ConsumePending'
    BY <1>2 DEF ConsumePending
  <2>. QED
    BY <2>1, <2>2 DEF CallsHoldNewTokens
<1>. QED
  BY <1>4, <1>5, <1>6, <1>9 DEF IInv

LEMMA ReserveNextStep ==
  ASSUME IInv, NEW o \in Outcome, ReserveNext(o)
  PROVE  IInv'
<1> DEFINE batch == call.batch
           t == batch[call.pos]
           admits == o = "ok" /\ call.pos = Len(batch)
<1>1. /\ TypeOK /\ NoRollback /\ AllRemember /\ LogIsBacked /\ AdmittedIsLogged /\ AdmittedOnce
      /\ ReservePending
  BY DEF IInv, CallsHoldNewTokens
<1>2. /\ call.pc = "reserve" /\ Transition(t, "Reserved", o)
      /\ call' = IF o # "ok" \/ call.pos = Len(batch) THEN Idle ELSE [call EXCEPT !.pos = @ + 1]
      /\ releaseLog' = releaseLog /\ uses' = uses
      /\ admits => /\ pool' = pool \cup BatchSet(batch)
                   /\ admitted' = [u \in Tokens |-> IF u \in BatchSet(batch) THEN admitted[u] + 1
                                                                             ELSE admitted[u]]
                   /\ logged' = logged \cup BatchSet(batch)
      /\ ~admits => UNCHANGED <<pool, admitted, logged>>
  BY DEF ReserveNext
<1>3. /\ call \in [pc : Pc, batch : Seq(Tokens), pos : Nat]
      /\ batch \in Seq(Tokens) /\ call.pos \in 1 .. Len(batch) /\ Len(batch) \in Nat
      /\ t \in Tokens /\ t \in BatchSet(batch) /\ BatchSet(batch) \subseteq Tokens
  <2>1. call \in [pc : Pc, batch : Seq(Tokens), pos : Nat] /\ call.pos \in 1 .. Len(batch)
    BY <1>1, <1>2 DEF TypeOK
  <2>. QED
    BY <2>1 DEF BatchSet
<1>4. "Reserved" \in Target /\ call.pc # "down"
  BY <1>2 DEF Target
<1>5. /\ inventoryFile' \in [Tokens -> TokenInventoryState]
      /\ inventory' \in [Tokens -> TokenInventoryState]
      /\ fileState' \in [Files -> FileState]
      /\ releaseFile' = releaseFile
      /\ fileState'["release"] = fileState["release"]
      /\ \A u \in Tokens : Rank(inventory[u]) <= Rank(inventory'[u])
      /\ o = "ok" => inventory'[t] = "Reserved"
  BY <1>1, <1>2, <1>3, <1>4, TransitionStep
<1>6. /\ \A u \in BatchSet(batch) : admitted[u] = 0
      /\ fileState["release"] # "corrupt" => \A u \in BatchSet(batch) : IsLogged(u)
      /\ \A i \in 1 .. call.pos - 1 : Rank(inventory[batch[i]]) > 0
  BY <1>1, <1>2 DEF ReservePending
<1>7. o = "ok" => \A i \in 1 .. call.pos : Rank(inventory'[batch[i]]) > 0
  <2> SUFFICES ASSUME o = "ok", NEW i \in 1 .. call.pos PROVE Rank(inventory'[batch[i]]) > 0
    OBVIOUS
  <2>1. CASE i = call.pos
    BY <1>5, <2>1, Ranks
  <2>2. CASE i # call.pos
    <3>1. i \in 1 .. call.pos - 1 /\ batch[i] \in Tokens
      BY <1>3, <2>2
    <3>2. inventory[batch[i]] \in TokenInventoryState /\ inventory'[batch[i]] \in TokenInventoryState
      BY <1>1, <1>5, <3>1 DEF TypeOK
    <3>. QED
      BY <1>5, <1>6, <3>1, <3>2, Ranks
  <2>. QED
    BY <2>1, <2>2
<1>. HIDE DEF batch, t, admits
<1>8. admits => \A u \in BatchSet(batch) : Rank(inventory'[u]) > 0
  BY <1>7 DEF admits, BatchSet
<1>9. /\ pool' \subseteq Tokens /\ logged' \subseteq Tokens
      /\ admitted' \in [Tokens -> Nat]
      /\ AdmittedOnce'
      /\ \A u \in Tokens : admitted'[u] > 0 => admitted[u] > 0 \/ Rank(inventory'[u]) > 0
  <2>1. CASE admits
    <3>1. \A u \in Tokens : /\ u \in BatchSet(batch) => admitted'[u] = 1
                            /\ u \notin BatchSet(batch) => admitted'[u] = admitted[u]
      BY <1>2, <1>6, <2>1
    <3>2. admitted' \in [Tokens -> Nat]
      <4>1. admitted \in [Tokens -> Nat]
        BY <1>1 DEF TypeOK
      <4>2. [u \in Tokens |-> IF u \in BatchSet(batch) THEN admitted[u] + 1 ELSE admitted[u]]
              \in [Tokens -> Nat]
        BY <4>1, CountIsTyped
      <4>. QED
        BY <1>2, <2>1, <4>2
    <3>3. pool' \subseteq Tokens /\ logged' \subseteq Tokens
      BY <1>1, <1>2, <1>3, <2>1 DEF TypeOK
    <3>4. AdmittedOnce'
      BY <1>1, <3>1 DEF AdmittedOnce
    <3>. QED
      BY <1>8, <2>1, <3>1, <3>2, <3>3, <3>4
  <2>2. CASE ~admits
    BY <1>1, <1>2, <2>2 DEF TypeOK, AdmittedOnce
  <2>. QED
    BY <2>1, <2>2
<1>10. TypeOK'
  <2>1. CASE call' = Idle
    BY <1>1, <1>2, <1>5, <1>9, <2>1, IdleAndDown DEF TypeOK
  <2>2. CASE call' # Idle
    <3>1. /\ call' = [call EXCEPT !.pos = @ + 1] /\ call.pos # Len(batch)
      BY <1>2, <2>2
    <3>2. call' \in [pc : Pc, batch : Seq(Tokens), pos : Nat] /\ call'.pos \in 1 .. Len(call'.batch)
      BY <1>3, <3>1 DEF batch
    <3>. QED
      BY <1>1, <1>2, <1>5, <1>9, <3>2 DEF TypeOK
  <2>. QED
    BY <2>1, <2>2
<1>11. AllRemember' /\ NoRollback'
  BY <1>1, <1>2, <1>3, <1>4, <1>9, TransitionRemembers
<1>12. LogIsBacked'
  BY <1>1, <1>2, <1>5 DEF LogIsBacked
<1>13. AdmittedIsLogged'
  BY <1>1, <1>2, <1>5, <1>6 DEF AdmittedIsLogged, IsLogged
<1>14. CallsHoldNewTokens'
  <2>1. CASE call' = Idle
    BY <2>1, IdleAndDown, NothingIsPending
  <2>2. CASE call' # Idle
    <3>1. /\ o = "ok" /\ ~admits /\ call' = [call EXCEPT !.pos = @ + 1]
      BY <1>2, <2>2 DEF admits
    <3>2. /\ call'.pc = "reserve" /\ call'.batch = batch
          /\ call'.pos = call.pos + 1 /\ call'.pos - 1 = call.pos
      <4>1. call.pos \in Nat
        BY <1>3
      <4>2. call'.pc = call.pc /\ call'.batch = call.batch /\ call'.pos = call.pos + 1
        BY <1>3, <3>1
      <4>. QED
        BY <1>2, <4>1, <4>2 DEF batch
    <3>3. ReservePending'
      <4>1. admitted' = admitted
        BY <1>2, <3>1
      <4>2. \A u \in BatchSet(batch) : IsLogged(u)' <=> IsLogged(u)
        BY <1>5 DEF IsLogged
      <4>3. \A i \in 1 .. call.pos : Rank(inventory'[batch[i]]) > 0
        BY <1>7, <3>1
      <4>. QED
        BY <1>5, <1>6, <3>2, <4>1, <4>2, <4>3 DEF ReservePending
    <3>4. ConsumePending'
      BY <3>2 DEF ConsumePending
    <3>. QED
      BY <3>3, <3>4 DEF CallsHoldNewTokens
  <2>. QED
    BY <2>1, <2>2
<1>. QED
  BY <1>9, <1>10, <1>11, <1>12, <1>13, <1>14 DEF IInv

(***************************************************************************)
(* Tokens are consumed one by one, then taken out.                         *)
(***************************************************************************)
LEMMA StartConsumptionStep ==
  ASSUME IInv,
         \/ \E t \in Tokens : TakeForConsumption(t)
         \/ \E batch \in Batches : TakeBatchForConsumption(batch)
  PROVE  IInv'
<1>1. /\ TypeOK /\ NoRollback /\ AllRemember /\ LogIsBacked /\ AdmittedIsLogged /\ AdmittedOnce
  BY DEF IInv
<1>2. PICK batch \in Seq(Tokens) :
        /\ Len(batch) > 0
        /\ BatchSet(batch) \in PromiseBatches
        /\ call' = [pc |-> "consume", batch |-> batch, pos |-> 1]
        /\ \A t \in BatchSet(batch) : inventory[t] = "Reserved"
  <2>1. ASSUME NEW t \in Tokens, TakeForConsumption(t)
        PROVE  /\ <<t>> \in Seq(Tokens) /\ Len(<<t>>) > 0
               /\ BatchSet(<<t>>) \in PromiseBatches
               /\ call' = [pc |-> "consume", batch |-> <<t>>, pos |-> 1]
               /\ \A u \in BatchSet(<<t>>) : inventory[u] = "Reserved"
    <3>1. BatchSet(<<t>>) = {t}
      BY DEF BatchSet
    <3>. QED
      BY <2>1, <3>1 DEF TakeForConsumption, PromiseBatches
  <2>2. ASSUME NEW batch \in Batches, TakeBatchForConsumption(batch)
        PROVE  /\ batch \in Seq(Tokens) /\ Len(batch) > 0
               /\ BatchSet(batch) \in PromiseBatches
               /\ call' = [pc |-> "consume", batch |-> batch, pos |-> 1]
               /\ \A u \in BatchSet(batch) : inventory[u] = "Reserved"
    BY <2>2, TokenAssumption DEF TakeBatchForConsumption, PromiseBatches
  <2>. QED
    BY <2>1, <2>2
<1>3. /\ UNCHANGED <<inventoryFile, releaseFile, fileState, inventory, releaseLog, pool,
                     admitted, logged, uses>>
      /\ call.pc = "idle"
  BY DEF TakeForConsumption, TakeBatchForConsumption, files, history
<1>4. BatchSet(batch) \subseteq Tokens
  BY DEF BatchSet
<1>5. TypeOK'
  <2>1. call' \in [pc : Pc, batch : Seq(Tokens), pos : Nat]
    BY <1>2 DEF Pc
  <2>2. call'.pos \in 1 .. Len(call'.batch)
    BY <1>2
  <2>. QED
    BY <1>1, <1>3, <2>1, <2>2 DEF TypeOK
<1>6. NoRollback' /\ AllRemember' /\ AdmittedOnce'
  BY <1>1, <1>2, <1>3 DEF NoRollback, AllRemember, Remembers, AdmittedOnce
<1>7. LogIsBacked' /\ AdmittedIsLogged'
  BY <1>1, <1>3, SameReleaseLog
<1>8. ASSUME NEW t \in BatchSet(batch) PROVE uses'[t] = 0
  <2>1. uses[t] \in Nat /\ ~(uses[t] > 0)
    BY <1>1, <1>2, <1>3, <1>4, Ranks DEF TypeOK, AllRemember, Remembers
  <2>. QED
    BY <1>3, <2>1
<1>9. CallsHoldNewTokens'
  <2>1. ReservePending'
    BY <1>2 DEF ReservePending
  <2>2. ConsumePending'
    BY <1>2, <1>8 DEF ConsumePending
  <2>. QED
    BY <2>1, <2>2 DEF CallsHoldNewTokens
<1>. QED
  BY <1>5, <1>6, <1>7, <1>9 DEF IInv

LEMMA ConsumeNextStep ==
  ASSUME IInv, NEW o \in Outcome, ConsumeNext(o)
  PROVE  IInv'
<1> DEFINE batch == call.batch
           t == batch[call.pos]
<1>1. /\ TypeOK /\ NoRollback /\ AllRemember /\ LogIsBacked /\ AdmittedIsLogged /\ AdmittedOnce
      /\ ConsumePending
  BY DEF IInv, CallsHoldNewTokens
<1>2. /\ call.pc = "consume" /\ Transition(t, "Consumed", o)
      /\ call' = IF o # "ok" THEN Idle
                 ELSE IF call.pos = Len(batch) THEN [call EXCEPT !.pc = "take"]
                 ELSE [call EXCEPT !.pos = @ + 1]
      /\ UNCHANGED <<releaseLog, pool, admitted, logged, uses>>
  BY DEF ConsumeNext, history
<1>3. /\ call \in [pc : Pc, batch : Seq(Tokens), pos : Nat]
      /\ batch \in Seq(Tokens) /\ call.pos \in 1 .. Len(batch) /\ Len(batch) \in Nat
      /\ t \in Tokens
  <2>1. call \in [pc : Pc, batch : Seq(Tokens), pos : Nat] /\ call.pos \in 1 .. Len(batch)
    BY <1>1, <1>2 DEF TypeOK
  <2>. QED
    BY <2>1
<1>4. "Consumed" \in Target /\ call.pc # "down"
  BY <1>2 DEF Target
<1>5. /\ inventoryFile' \in [Tokens -> TokenInventoryState]
      /\ inventory' \in [Tokens -> TokenInventoryState]
      /\ fileState' \in [Files -> FileState]
      /\ releaseFile' = releaseFile
      /\ fileState'["release"] = fileState["release"]
      /\ \A u \in Tokens : Rank(inventory[u]) <= Rank(inventory'[u])
      /\ o = "ok" => inventory'[t] = "Consumed"
  BY <1>1, <1>2, <1>3, <1>4, TransitionStep
<1>6. /\ BatchSet(batch) \in PromiseBatches
      /\ \A u \in BatchSet(batch) : uses[u] = 0
      /\ \A i \in 1 .. call.pos - 1 : Rank(inventory[batch[i]]) > 1
  BY <1>1, <1>2 DEF ConsumePending
<1>7. o = "ok" => \A i \in 1 .. call.pos : Rank(inventory'[batch[i]]) > 1
  <2> SUFFICES ASSUME o = "ok", NEW i \in 1 .. call.pos PROVE Rank(inventory'[batch[i]]) > 1
    OBVIOUS
  <2>1. CASE i = call.pos
    BY <1>5, <2>1, Ranks
  <2>2. CASE i # call.pos
    <3>1. i \in 1 .. call.pos - 1 /\ batch[i] \in Tokens
      BY <1>3, <2>2
    <3>2. inventory[batch[i]] \in TokenInventoryState /\ inventory'[batch[i]] \in TokenInventoryState
      BY <1>1, <1>5, <3>1 DEF TypeOK
    <3>. QED
      BY <1>5, <1>6, <3>1, <3>2, Ranks
  <2>. QED
    BY <2>1, <2>2
<1>8. AllRemember' /\ NoRollback'
  BY <1>1, <1>2, <1>3, <1>4, TransitionRemembers
<1>9. LogIsBacked' /\ AdmittedIsLogged' /\ AdmittedOnce'
  BY <1>1, <1>2, <1>5, SameReleaseLog DEF AdmittedOnce
<1>. HIDE DEF batch, t
<1>10. CASE o # "ok"
  <2>1. TypeOK'
    BY <1>1, <1>2, <1>5, <1>10, IdleAndDown DEF TypeOK
  <2>2. CallsHoldNewTokens'
    BY <1>2, <1>10, IdleAndDown, NothingIsPending
  <2>. QED
    BY <1>8, <1>9, <2>1, <2>2 DEF IInv
<1>11. CASE o = "ok" /\ call.pos = Len(batch)
  <2>1. call' = [call EXCEPT !.pc = "take"]
    BY <1>2, <1>11
  <2>2. /\ call' \in [pc : Pc, batch : Seq(Tokens), pos : Nat]
        /\ call'.pc = "take" /\ call'.batch = batch
    BY <1>3, <2>1 DEF batch, Pc
  <2>3. TypeOK'
    BY <1>1, <1>2, <1>5, <2>2 DEF TypeOK
  <2>4. \A u \in BatchSet(batch) : Rank(inventory'[u]) > 1
    BY <1>7, <1>11 DEF BatchSet
  <2>5. ConsumePending' /\ ReservePending'
    BY <1>2, <1>6, <2>2, <2>4 DEF ConsumePending, ReservePending
  <2>. QED
    BY <1>8, <1>9, <2>3, <2>5 DEF IInv, CallsHoldNewTokens
<1>12. CASE o = "ok" /\ call.pos # Len(batch)
  <2>1. call' = [call EXCEPT !.pos = @ + 1] /\ call.pos \in Nat
    BY <1>2, <1>3, <1>12
  <2>2. /\ call' \in [pc : Pc, batch : Seq(Tokens), pos : Nat]
        /\ call'.pc = call.pc /\ call'.batch = call.batch /\ call'.pos = call.pos + 1
    BY <1>3, <2>1
  <2>3. call'.pos \in 1 .. Len(call'.batch) /\ call'.pos - 1 = call.pos
    BY <1>3, <1>12, <2>1, <2>2 DEF batch
  <2>4. TypeOK'
    BY <1>1, <1>2, <1>5, <2>2, <2>3 DEF TypeOK
  <2>5. ReservePending'
    BY <1>2, <2>2 DEF ReservePending
  <2>6. ConsumePending'
    BY <1>2, <1>6, <1>7, <1>12, <2>2, <2>3 DEF ConsumePending, batch
  <2>. QED
    BY <1>8, <1>9, <2>4, <2>5, <2>6 DEF IInv, CallsHoldNewTokens
<1>. QED
  BY <1>10, <1>11, <1>12

\* What is taken is behind its consumption.
LEMMA TakeStep ==
  ASSUME IInv, Take
  PROVE  IInv'
<1> DEFINE batch == BatchSet(call.batch)
<1>1. /\ TypeOK /\ NoRollback /\ AllRemember /\ LogIsBacked /\ AdmittedIsLogged /\ AdmittedOnce
      /\ ConsumePending
  BY DEF IInv, CallsHoldNewTokens
<1>2. /\ UNCHANGED <<inventoryFile, releaseFile, fileState, inventory, releaseLog,
                     admitted, logged>>
      /\ call.pc = "take" /\ call' = Idle
      /\ \/ uses' = uses
         \/ uses' = [t \in Tokens |-> IF t \in batch THEN uses[t] + 1 ELSE uses[t]]
      /\ pool' = pool \/ pool' = pool \ batch
  BY DEF Take, files
<1>3. TypeOK'
  <2>1. uses' \in [Tokens -> Nat]
    BY <1>1, <1>2, CountIsTyped DEF TypeOK
  <2>. QED
    BY <1>1, <1>2, <2>1, IdleAndDown DEF TypeOK
<1>4. \A t \in batch : Rank(inventory[t]) > 1
  BY <1>1, <1>2 DEF ConsumePending
<1>. HIDE DEF batch
<1>5. ASSUME NEW t \in Tokens, uses'[t] > 0 PROVE Rank(inventory[t]) > 1 /\ Rank(inventoryFile[t]) > 1
  <2>1. /\ Rank(inventory[t]) \in Nat /\ Rank(inventoryFile[t]) \in Nat
        /\ Rank(inventory[t]) <= Rank(inventoryFile[t])
    <3>1. \A s \in TokenInventoryState : Rank(s) \in Nat
      BY Ranks
    <3>. QED
      BY <1>1, <1>2, <3>1 DEF TypeOK, NoRollback
  <2>2. CASE t \in batch
    BY <1>4, <2>1, <2>2
  <2>3. CASE t \notin batch
    <3>1. uses'[t] = uses[t]
      BY <1>2, <2>3
    <3>. QED
      BY <1>1, <1>2, <1>5, <3>1 DEF AllRemember, Remembers
  <2>. QED
    BY <2>2, <2>3
<1>6. AllRemember' /\ NoRollback' /\ AdmittedOnce'
  BY <1>1, <1>2, <1>5 DEF AllRemember, Remembers, NoRollback, AdmittedOnce
<1>7. LogIsBacked' /\ AdmittedIsLogged'
  BY <1>1, <1>2, SameReleaseLog
<1>8. CallsHoldNewTokens'
  BY <1>2, IdleAndDown, NothingIsPending
<1>. QED
  BY <1>3, <1>6, <1>7, <1>8 DEF IInv

LEMMA NextOK == IInv /\ [Next]_vars => IInv'
<1> SUFFICES ASSUME IInv, [Next]_vars PROVE IInv'
  OBVIOUS
<1>1. CASE OpenInventory \/ DropInventory \/ Crash
  BY <1>1, StoreStep
<1>2. CASE OpenReleaseLog \/ DropReleaseLog
  BY <1>2, ReleaseLogStep
<1>3. CASE Take
  BY <1>3, TakeStep
<1>4. ASSUME NEW batch \in Batches,
             \/ InsertBatch(batch)
             \/ TakeBatch(batch)
             \/ TakeBatchForConsumption(batch)
             \/ \E i \in 1 .. Len(batch), o \in Outcome : AppendEntry(batch, i, o)
      PROVE  IInv'
  BY <1>4, InsertBatchStep, PoolStep, StartConsumptionStep, AppendEntryStep
<1>5. ASSUME NEW t \in Tokens,
             \/ InsertCertified(t)
             \/ TakeForConsumption(t)
             \/ \E o \in Outcome : Erase(t, o)
             \/ \E certified \in BOOLEAN, o \in Outcome : InsertWithInventory(t, certified, o)
      PROVE  IInv'
  BY <1>5, PoolStep, StartConsumptionStep, SingleTransitionStep
<1>6. ASSUME NEW o \in Outcome, ReserveNext(o) \/ ConsumeNext(o) PROVE IInv'
  BY <1>6, ReserveNextStep, ConsumeNextStep
<1>7. CASE UNCHANGED vars
  BY <1>7 DEF vars, IInv, TypeOK, NoRollback, AllRemember, Remembers, LogIsBacked, IsLogged,
              CallsHoldNewTokens, ReservePending, ConsumePending, AdmittedIsLogged, AdmittedOnce
<1>. QED
  BY <1>1, <1>2, <1>3, <1>4, <1>5, <1>6, <1>7 DEF Next

LEMMA IInvCorrect == Spec => []IInv
  BY InitOK, NextOK, PTL DEF Spec

(***************************************************************************)
(* The theorems.                                                           *)
(***************************************************************************)

\* The files, the copies in memory, the pool and the call in progress stay what
\* their types say; no call runs past its batch.
THEOREM TypeCorrect == Spec => []TypeOK
<1>1. IInv => TypeOK
  BY DEF IInv
<1>. QED
  BY <1>1, IInvCorrect, PTL

\* The logs are never behind what was done: a session id is admitted once, an
\* admitted batch is in the release log, and no open takes a transition back.
THEOREM LogsComeFirstCorrect == Spec => []LogsComeFirst
<1>1. IInv => LogsComeFirst
  BY DEF IInv, LogsComeFirst
<1>. QED
  BY <1>1, IInvCorrect, PTL

(***************************************************************************)
(* The refinement: a token is burnt by the transition to Consumed in the   *)
(* file, and used by Take.                                                 *)
(***************************************************************************)
Burnt == {t \in Tokens : inventoryFile[t] \in {"Consumed", "Erased"}}

LEMMA BurntIsRanked ==
  ASSUME TypeOK
  PROVE  \A t \in Tokens : t \in Burnt <=> Rank(inventoryFile[t]) > 1
<1>1. \A s \in TokenInventoryState : s \in {"Consumed", "Erased"} <=> Rank(s) > 1
  BY Ranks DEF TokenInventoryState
<1>. QED
  BY <1>1 DEF TypeOK, Burnt

\* A transition burns its token or none.
LEMMA TransitionBurns ==
  ASSUME TypeOK, NEW t \in Tokens, NEW state \in Target, NEW o \in Outcome,
         Transition(t, state, o), uses' = uses
  PROVE  Promise!Burn(t) \/ UNCHANGED Promise!vars
<1>1. /\ inventoryFile' \in {inventoryFile, [inventoryFile EXCEPT ![t] = state]}
      /\ inventoryFile' # inventoryFile => inventoryFile[t] = Before(state)
  BY DEF Transition, AppendTransition
<1>2. CASE inventoryFile' = inventoryFile
  BY <1>2 DEF Promise!vars
<1>3. CASE inventoryFile' # inventoryFile
  <2>1. /\ inventoryFile' = [inventoryFile EXCEPT ![t] = state]
        /\ inventoryFile[t] = Before(state)
    BY <1>1, <1>3
  <2>2. \A u \in Tokens \ {t} : inventoryFile'[u] = inventoryFile[u]
    BY <2>1 DEF TypeOK
  <2>3. inventoryFile'[t] = state
    BY <2>1 DEF TypeOK
  <2>4. Before("Reserved") = "Fresh" /\ Before("Erased") = "Consumed"
    BY DEF Before
  <2>5. CASE state = "Consumed"
    <3>1. Burnt' = Burnt \cup {t}
      BY <2>2, <2>3, <2>5 DEF Burnt
    <3>. QED
      BY <3>1 DEF Promise!Burn, Burnt
  <2>6. CASE state # "Consumed"
    <3>1. Burnt' = Burnt
      BY <2>1, <2>2, <2>3, <2>4, <2>6 DEF Burnt, Target
    <3>. QED
      BY <3>1 DEF Promise!vars, Burnt
  <2>. QED
    BY <2>5, <2>6
<1>. QED
  BY <1>2, <1>3

LEMMA TakeImplementsUse ==
  ASSUME IInv, Take
  PROVE  Promise!Next \/ UNCHANGED Promise!vars
<1> DEFINE batch == BatchSet(call.batch)
<1>1. TypeOK /\ NoRollback /\ ConsumePending /\ call.pc = "take" /\ inventoryFile' = inventoryFile
  BY DEF IInv, CallsHoldNewTokens, Take, files
<1>2. /\ batch \in PromiseBatches
      /\ \A t \in batch : uses[t] = 0
      /\ \A t \in batch : Rank(inventory[t]) > 1
  BY <1>1 DEF ConsumePending
<1>3. batch \subseteq Tokens
  BY <1>1 DEF TypeOK, BatchSet
<1>4. CASE uses' = uses
  BY <1>1, <1>4 DEF Promise!vars
<1>5. CASE uses' = [t \in Tokens |-> IF t \in batch THEN uses[t] + 1 ELSE uses[t]]
  <2>. HIDE DEF batch
  <2>1. \A t \in batch : Rank(inventoryFile[t]) > 1
    <3>1. \A s \in TokenInventoryState : Rank(s) \in Nat
      BY Ranks
    <3>. QED
      BY <1>1, <1>2, <1>3, <3>1 DEF TypeOK, NoRollback
  <2>2. batch \subseteq Burnt
    BY <1>1, <1>3, <2>1, BurntIsRanked
  <2>3. uses' = [t \in Tokens |-> IF t \in batch THEN 1 ELSE uses[t]]
    BY <1>2, <1>5
  <2>4. Promise!Use(batch)
    BY <1>1, <1>2, <2>2, <2>3 DEF Promise!Use, Burnt
  <2>. QED
    BY <1>2, <2>4 DEF Promise!Next, PromiseBatches
<1>. QED
  BY <1>4, <1>5 DEF Take

LEMMA StepsImplement == IInv /\ [Next]_vars => [Promise!Next]_(Promise!vars)
<1> SUFFICES ASSUME IInv, [Next]_vars PROVE Promise!Next \/ UNCHANGED Promise!vars
  BY DEF Promise!vars
<1>1. TypeOK
  BY DEF IInv
<1>2. CASE Take
  BY <1>2, TakeImplementsUse
<1>3. ASSUME NEW t \in Tokens, NEW state \in Target, NEW o \in Outcome,
             Transition(t, state, o), uses' = uses
      PROVE  Promise!Next \/ UNCHANGED Promise!vars
  BY <1>1, <1>3, TransitionBurns DEF Promise!Next
<1>4. ASSUME NEW t \in Tokens, NEW o \in Outcome,
             \/ Erase(t, o)
             \/ \E certified \in BOOLEAN : InsertWithInventory(t, certified, o)
      PROVE  Promise!Next \/ UNCHANGED Promise!vars
  BY <1>3, <1>4 DEF Erase, InsertWithInventory, Target, history
<1>5. ASSUME NEW o \in Outcome, ReserveNext(o) \/ ConsumeNext(o)
      PROVE  Promise!Next \/ UNCHANGED Promise!vars
  <2>1. call.batch[call.pos] \in Tokens /\ uses' = uses
    BY <1>1, <1>5 DEF ReserveNext, ConsumeNext, TypeOK, history
  <2>. QED
    BY <1>3, <1>5, <2>1 DEF ReserveNext, ConsumeNext, Target
<1>6. ASSUME inventoryFile' = inventoryFile, uses' = uses
      PROVE  Promise!Next \/ UNCHANGED Promise!vars
  BY <1>6 DEF Promise!vars
<1>7. CASE OpenInventory \/ DropInventory \/ OpenReleaseLog \/ DropReleaseLog \/ Crash
  BY <1>6, <1>7 DEF OpenInventory, DropInventory, OpenReleaseLog, DropReleaseLog, Crash,
                    files, history
<1>8. ASSUME NEW batch \in Batches,
             \/ InsertBatch(batch)
             \/ TakeBatch(batch)
             \/ TakeBatchForConsumption(batch)
             \/ \E i \in 1 .. Len(batch), o \in Outcome : AppendEntry(batch, i, o)
      PROVE  Promise!Next \/ UNCHANGED Promise!vars
  BY <1>6, <1>8 DEF InsertBatch, TakeBatch, TakeBatchForConsumption, AppendEntry, files, history
<1>9. ASSUME NEW t \in Tokens, InsertCertified(t) \/ TakeForConsumption(t)
      PROVE  Promise!Next \/ UNCHANGED Promise!vars
  BY <1>6, <1>9 DEF InsertCertified, TakeForConsumption, files, history
<1>10. CASE UNCHANGED vars
  BY <1>6, <1>10 DEF vars
<1>. QED
  BY <1>2, <1>4, <1>5, <1>7, <1>8, <1>9, <1>10 DEF Next

\* Pool, inventory and release log keep the promise about tokens: what is returned
\* for consumption is durably consumed and returned once, through any crashes and
\* failed writes, and whatever the caller offers again.
THEOREM ImplementsPromiseCorrect == Spec => ImplementsPromise
<1>1. Init => Promise!Init
  BY DEF Init, Nothing, Promise!Init
<1>2. IInv /\ [Next]_vars => [Promise!Next]_(Promise!vars)
  BY StepsImplement
<1>. QED
  BY <1>1, <1>2, IInvCorrect, PTL DEF Spec, Promise!Spec, ImplementsPromise
===============================================================================
