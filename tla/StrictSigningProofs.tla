------------------------ MODULE StrictSigningProofs ------------------------
(***************************************************************************)
(* Proofs about the two halves of a strict signing: its session, for any   *)
(* sets of tokens, sessions and handles, and any batches, and the source   *)
(* of the artifact that the session hands its tokens to.                   *)
(***************************************************************************)
EXTENDS StrictSigning, SelectedOpening, SequenceTheorems, FiniteSetTheorems,
        WellFoundedInduction, TLAPS

(***************************************************************************)
(* Facts about batches and inventories.                                    *)
(***************************************************************************)
LEMMA BatchFacts ==
  ASSUME NEW s \in Sessions
  PROVE  /\ Len(BatchOf[s]) \in Nat \ {0}
         /\ \A i \in 1 .. Len(BatchOf[s]) : BatchOf[s][i] \in Tokens
  BY BatchAssumption

LEMMA DivModByThree ==
  ASSUME NEW k \in Nat, NEW n \in Nat, k < 3 * n
  PROVE  (k % 3) + 1 \in 1 .. 3 /\ (k \div 3) + 1 \in 1 .. n
<1>1. k % 3 \in 0 .. 2
  OBVIOUS
<1>2. k \div 3 \in Nat
  OBVIOUS
<1>3. 3 * (k \div 3) <= k
  OBVIOUS
<1>. QED
  BY <1>1, <1>2, <1>3

LEMMA InventoryFacts ==
  ASSUME NEW s \in Sessions, NEW i \in 1 .. InventoryCount(s)
  PROVE  InventoryAt(s, i) \in InventoryId
<1> DEFINE n == Len(BatchOf[s])
           k == i - n - 1
<1>1. n \in Nat \ {0} /\ \A j \in 1 .. n : BatchOf[s][j] \in Tokens
  BY BatchFacts
<1>2. CASE i <= n
  BY <1>1, <1>2 DEF InventoryAt, InventoryId, InventoryKind, InventoryCount
<1>3. CASE ~(i <= n)
  <2>1. i \in Nat /\ i <= 4 * n
    BY <1>1 DEF InventoryCount
  <2>2. k \in Nat /\ k < 3 * n
    BY <1>1, <1>3, <2>1
  <2>3. (k % 3) + 1 \in 1 .. 3 /\ (k \div 3) + 1 \in 1 .. n
    BY <1>1, <2>2, DivModByThree
  <2>4. HelperKinds[(k % 3) + 1] \in InventoryKind
    <3>1. \A j \in 1 .. 3 : HelperKinds[j] \in InventoryKind
      BY DEF HelperKinds, InventoryKind
    <3>. QED
      BY <2>3, <3>1
  <2>5. BatchOf[s][(k \div 3) + 1] \in Tokens
    BY <1>1, <2>3
  <2>. QED
    BY <1>3, <2>4, <2>5 DEF InventoryAt, InventoryId
<1>. QED
  BY <1>2, <1>3

(***************************************************************************)
(* Type correctness.  A handle inside a call drives a session, and its     *)
(* position is inside the loop it is in: without that, a step could read   *)
(* past the end of a batch.                                                *)
(***************************************************************************)
PosOK ==
  \A h \in Handles :
    LET hs == handle[h] IN
    /\ hs.pc \notin {"down", "idle"} => hs.sess \in Sessions
    /\ hs.pc \in {"consume", "directConsume"} => hs.pos \in 1 .. Len(BatchOf[hs.sess])
    /\ hs.pc = "inventory" => hs.pos \in 1 .. InventoryCount(hs.sess)

TypeInv == TypeOK /\ PosOK

LEMMA DownHandleTyped == DownHandle \in HandleState
  BY DEF DownHandle, HandleState, Pc, CursorPhase, SessionPhase

LEMMA TypeInit == Init => TypeInv
  BY DownHandleTyped
     DEF Init, TypeInv, TypeOK, PosOK, DownHandle, CursorPhase, FileState

\* A step that replaces the state of one handle by a typed one.
LEMMA HandleUpdate ==
  ASSUME handle \in [Handles -> HandleState], NEW h \in Handles, NEW X \in HandleState,
         handle' = [handle EXCEPT ![h] = X]
  PROVE  /\ handle' \in [Handles -> HandleState]
         /\ handle'[h] = X
         /\ \A g \in Handles \ {h} : handle'[g] = handle[g]
  OBVIOUS

\* A handle with one field replaced.  A record with several fields replaced is
\* one after the other, so these facts chain.
LEMMA FieldUpdates ==
  ASSUME NEW hs \in HandleState
  PROVE  /\ \A p \in Pc : [hs EXCEPT !.pc = p] \in HandleState
         /\ \A n \in Nat : [hs EXCEPT !.pos = n] \in HandleState
         /\ \A C \in SUBSET Tokens : [hs EXCEPT !.consumed = C] \in HandleState
         /\ \A c \in [Sessions -> CursorPhase] : [hs EXCEPT !.cursor = c] \in HandleState
         /\ \A I \in SUBSET InventoryId : [hs EXCEPT !.inventory = I] \in HandleState
         /\ \A s \in Sessions \cup {NoSession} : [hs EXCEPT !.sess = s] \in HandleState
         /\ \A p \in SessionPhase : [hs EXCEPT !.phase = p] \in HandleState
         /\ \A b \in BOOLEAN : [hs EXCEPT !.batch = b] \in HandleState
         /\ \A r \in {"none", "signature", "error"} : [hs EXCEPT !.outcome = r] \in HandleState
  BY DEF HandleState

LEMMA AppendLineTyped ==
  ASSUME fileState \in [Files -> FileState], NEW f \in Files, NEW o \in Outcome,
         AppendLine(f, o)
  PROVE  fileState' \in [Files -> FileState]
  BY DEF AppendLine, FileState, Outcome

LEMMA PersistCursorTyped ==
  ASSUME TypeOK, NEW s \in Sessions \cup {NoSession}, NEW phase \in CursorPhase,
         NEW o \in Outcome, NEW h \in Handles, PersistCursor(s, phase, o)
  PROVE  /\ fileState' \in [Files -> FileState]
         /\ cursorFile' \in [Sessions -> CursorPhase]
         /\ CursorMemory(h, s, phase, o) \in [Sessions -> CursorPhase]
<1>1. fileState' \in [Files -> FileState]
  BY AppendLineTyped DEF PersistCursor, Files, TypeOK
<1>2. cursorFile' \in [Sessions -> CursorPhase]
  BY DEF PersistCursor, TypeOK
<1>3. handle[h].cursor \in [Sessions -> CursorPhase]
  BY DEF TypeOK, HandleState
<1>4. CursorMemory(h, s, phase, o) \in [Sessions -> CursorPhase]
  BY <1>3 DEF CursorMemory
<1>. QED
  BY <1>1, <1>2, <1>4

\* A typed step of one handle that leaves it outside every loop of a call, or
\* at a legal position of one.
LEMMA HandleStep ==
  ASSUME TypeInv, NEW h \in Handles, NEW X \in HandleState,
         handle' = [handle EXCEPT ![h] = X],
         X.pc \notin {"down", "idle"} => X.sess \in Sessions,
         X.pc \in {"consume", "directConsume"} => X.pos \in 1 .. Len(BatchOf[X.sess]),
         X.pc = "inventory" => X.pos \in 1 .. InventoryCount(X.sess)
  PROVE  handle' \in [Handles -> HandleState] /\ PosOK'
<1>1. handle' \in [Handles -> HandleState] /\ handle'[h] = X
      /\ \A g \in Handles \ {h} : handle'[g] = handle[g]
  BY HandleUpdate DEF TypeInv, TypeOK
<1>. QED
  BY <1>1 DEF TypeInv, PosOK

LEMMA FailCallTyped ==
  ASSUME TypeInv, NEW h \in Handles, handle[h].pc \notin {"down", "idle"},
         handle' = FailCall(h)
  PROVE  handle' \in [Handles -> HandleState] /\ PosOK'
<1> DEFINE X == [handle[h] EXCEPT !.phase = "Failed", !.pc = "persistFailed"]
<1>1. handle[h] \in HandleState /\ handle[h].sess \in Sessions
  BY DEF TypeInv, TypeOK, PosOK
<1>2. "Failed" \in SessionPhase /\ "persistFailed" \in Pc
  BY DEF SessionPhase, Pc
<1>3. X \in HandleState
  BY <1>1, <1>2, FieldUpdates
<1>4. X.pc = "persistFailed" /\ X.sess = handle[h].sess
  BY <1>1 DEF HandleState
<1>5. handle' = [handle EXCEPT ![h] = X]
  BY DEF FailCall
<1>. QED
  BY <1>1, <1>3, <1>4, <1>5, HandleStep

LEMMA TokenConsumedTyped ==
  ASSUME TypeInv, NEW h \in Handles, NEW next \in {"persistConsumed", "directHandOver"},
         handle[h].pc \in {"consume", "directConsume"},
         handle' = TokenConsumed(h, next)
  PROVE  handle' \in [Handles -> HandleState] /\ PosOK'
<1> DEFINE n == Len(BatchOf[handle[h].sess])
           X == [handle[h] EXCEPT !.consumed = @ \cup {CurrentToken(h)}, !.pos = @ + 1,
                                  !.pc = IF handle[h].pos = n THEN next ELSE @]
<1>1. handle[h] \in HandleState /\ handle[h].sess \in Sessions /\ handle[h].pos \in 1 .. n
  BY DEF TypeInv, TypeOK, PosOK
<1>2. CurrentToken(h) \in Tokens /\ n \in Nat
  BY <1>1, BatchFacts DEF CurrentToken
<1>3. X \in HandleState
  <2>1. handle[h].consumed \cup {CurrentToken(h)} \in SUBSET Tokens
    BY <1>1, <1>2 DEF HandleState
  <2>2. (IF handle[h].pos = n THEN next ELSE handle[h].pc) \in Pc
    BY DEF Pc
  <2>3. handle[h].pos + 1 \in Nat
    BY <1>1, <1>2
  <2>. QED
    BY <1>1, <2>1, <2>2, <2>3, FieldUpdates
<1>4. X.sess = handle[h].sess /\ X.pos = handle[h].pos + 1
      /\ X.pc = IF handle[h].pos = n THEN next ELSE handle[h].pc
  BY <1>1 DEF HandleState
<1>5. handle' = [handle EXCEPT ![h] = X]
  BY DEF TokenConsumed
<1>. HIDE DEF X
<1>6. X.sess \in Sessions
  BY <1>1, <1>4
<1>7. X.pc \in {"consume", "directConsume"} => X.pos \in 1 .. Len(BatchOf[X.sess])
  BY <1>1, <1>2, <1>4
<1>8. X.pc # "inventory"
  BY <1>4
<1>. QED
  BY <1>3, <1>5, <1>6, <1>7, <1>8, HandleStep

LEMMA OpenedTyped ==
  ASSUME TypeInv, NEW h \in Handles, NEW s \in Sessions,
         NEW c \in [Sessions -> CursorPhase], handle[h].pc = "idle"
  PROVE  Opened(h, s, c) \in HandleState /\ Opened(h, s, c).pc = "idle"
<1>1. handle[h] \in HandleState
  BY DEF TypeInv, TypeOK
<1>2. "Ready" \in SessionPhase
  BY DEF SessionPhase
<1>3. Opened(h, s, c) \in HandleState
  BY <1>1, <1>2, FieldUpdates DEF Opened
<1>4. Opened(h, s, c).pc = "idle"
  BY <1>1 DEF Opened, HandleState
<1>. QED
  BY <1>3, <1>4

LEMMA CallerStepTyped ==
  ASSUME TypeInv, NEW h \in Handles, CallerStep(h)
  PROVE  TypeInv'
<1>1. CASE OpenStores(h)
  BY <1>1, DownHandleTyped DEF OpenStores, DownHandle, ReplayedTokens, TypeInv, TypeOK, PosOK, HandleState, Pc, durable, history
<1>2. CASE Crash(h)
  BY <1>2, DownHandleTyped DEF Crash, DownHandle, TypeInv, TypeOK, PosOK, durable, history
<1>3. CASE CloseSession(h)
  <2> DEFINE X == [handle[h] EXCEPT !.sess = NoSession]
  <2>1. handle[h] \in HandleState
    BY DEF TypeInv, TypeOK
  <2>2. X \in HandleState
    BY <2>1, FieldUpdates
  <2>3. X.pc = "idle"
    BY <1>3, <2>1 DEF CloseSession, HandleState
  <2>4. handle' = [handle EXCEPT ![h] = X]
    BY <1>3 DEF CloseSession
  <2>. QED
    BY <1>3, <2>2, <2>3, <2>4, HandleStep DEF CloseSession, TypeInv, TypeOK, durable, history
<1>4. CASE FinishStart(h)
  <2>1. handle[h].sess \in Sessions
    BY <1>4 DEF FinishStart, TypeInv, TypeOK, HandleState
  <2>2. Len(BatchOf[handle[h].sess]) \in Nat \ {0}
    BY <2>1, BatchFacts
  <2>. QED
    BY <1>4, <2>1, <2>2 DEF FinishStart, TypeInv, TypeOK, PosOK, HandleState, Pc, durable, history
<1>5. ASSUME NEW o \in Outcome, WireMessage(h, o) PROVE TypeInv'
  <2>1. handle[h].sess \in Sessions /\ "Started" \in CursorPhase
    BY <1>5 DEF WireMessage, TypeInv, TypeOK, HandleState, CursorPhase
  <2>2. /\ fileState' \in [Files -> FileState]
        /\ cursorFile' \in [Sessions -> CursorPhase]
        /\ CursorMemory(h, handle[h].sess, "Started", o) \in [Sessions -> CursorPhase]
    BY <1>5, <2>1, PersistCursorTyped DEF WireMessage, TypeInv
  <2>. QED
    <3> DEFINE X == [handle[h] EXCEPT !.cursor = CursorMemory(h, handle[h].sess, "Started", o)]
    <3>1. handle[h] \in HandleState
      BY DEF TypeInv, TypeOK
    <3>2. X \in HandleState
      BY <2>2, <3>1, FieldUpdates
    <3>3. X.pc = "idle"
      BY <1>5, <3>1 DEF WireMessage, HandleState
    <3>4. handle' = [handle EXCEPT ![h] = X]
      BY <1>5 DEF WireMessage
    <3>. QED
      BY <1>5, <2>2, <3>2, <3>3, <3>4, HandleStep DEF WireMessage, TypeInv, TypeOK, history
<1>6. ASSUME NEW s \in Sessions, NEW o \in Outcome, StartNew(h, s, o) PROVE TypeInv'
  <2>1. "Started" \in CursorPhase
    BY DEF CursorPhase
  <2>2. /\ fileState' \in [Files -> FileState]
        /\ cursorFile' \in [Sessions -> CursorPhase]
        /\ CursorMemory(h, s, "Started", o) \in [Sessions -> CursorPhase]
    BY <1>6, <2>1, PersistCursorTyped DEF StartNew, TypeInv
  <2>. QED
    <3> DEFINE c == CursorMemory(h, s, "Started", o)
               X == IF o = "ok" THEN Opened(h, s, c) ELSE DownHandle
    <3>1. X \in HandleState /\ X.pc \in {"idle", "down"}
      BY <1>6, <2>2, OpenedTyped, DownHandleTyped DEF StartNew, DownHandle
    <3>2. handle' = [handle EXCEPT ![h] = X]
      BY <1>6 DEF StartNew
    <3>. HIDE DEF X
    <3>. QED
      BY <1>6, <2>2, <3>1, <3>2, HandleStep DEF StartNew, TypeInv, TypeOK, history
<1>7. ASSUME NEW s \in Sessions, StartHydrated(h, s) PROVE TypeInv'
  <2> DEFINE X == Opened(h, s, handle[h].cursor)
  <2>1. X \in HandleState /\ X.pc = "idle"
    <3>1. handle[h].cursor \in [Sessions -> CursorPhase]
      BY DEF TypeInv, TypeOK, HandleState
    <3>. QED
      BY <1>7, <3>1, OpenedTyped DEF StartHydrated
  <2>2. handle' = [handle EXCEPT ![h] = X]
    BY <1>7 DEF StartHydrated
  <2>. HIDE DEF X
  <2>. QED
    BY <1>7, <2>1, <2>2, HandleStep DEF StartHydrated, TypeInv, TypeOK, durable, history
<1>8. ASSUME NEW s \in Sessions, StartRefused(h, s) PROVE TypeInv'
  BY <1>8, DownHandleTyped DEF StartRefused, DownHandle, TypeInv, TypeOK, PosOK, durable, history
<1>9. ASSUME NEW s \in Sessions, DirectStart(h, s) PROVE TypeInv'
  <2>1. Len(BatchOf[s]) \in Nat \ {0}
    BY BatchFacts
  <2>. QED
    BY <1>9, <2>1 DEF DirectStart, TypeInv, TypeOK, PosOK, HandleState, Pc, durable, history
<1>. QED
  BY <1>1, <1>2, <1>3, <1>4, <1>5, <1>6, <1>7, <1>8, <1>9 DEF CallerStep

LEMMA FinishStepTyped ==
  ASSUME TypeInv, NEW h \in Handles, FinishStep(h)
  PROVE  TypeInv'
<1>1. handle[h] \in HandleState /\ handle[h].pc \notin {"down", "idle"}
      /\ handle[h].sess \in Sessions
  BY DEF FinishStep, RefuseToken, HandOver, ConsumeToken,
         PersistTokensConsumed, MarkInventory, RunSlot, PersistFinished, PersistFailed,
         FinalVerify, TypeInv, TypeOK, PosOK
<1> DEFINE s == handle[h].sess
           written(phase, o) == CursorMemory(h, s, phase, o)
<1>2. \A o \in Outcome, phase \in CursorPhase :
        PersistCursor(s, phase, o) =>
          /\ fileState' \in [Files -> FileState]
          /\ cursorFile' \in [Sessions -> CursorPhase]
          /\ written(phase, o) \in [Sessions -> CursorPhase]
  BY <1>1, PersistCursorTyped DEF TypeInv
<1>3. CASE RefuseToken(h)
  BY <1>1, <1>3, FailCallTyped DEF RefuseToken, TypeInv, TypeOK, durable, history
<1>5. CASE HandOver(h)
  <2>1. useCount' \in [Tokens -> Nat] /\ ran' \subseteq Sessions
    BY <1>1, <1>5 DEF HandOver, CountUse, TypeInv, TypeOK
  <2>. QED
    BY <1>1, <1>5, <2>1 DEF HandOver, TypeInv, TypeOK, PosOK, HandleState, Pc, durable
<1>6. ASSUME NEW o \in Outcome, ConsumeToken(h, o) PROVE TypeInv'
  <2>1. CurrentToken(h) \in Tokens
    BY <1>1, <1>6, BatchFacts DEF ConsumeToken, CurrentToken, TypeInv, PosOK
  <2>2. fileState' \in [Files -> FileState]
    BY <1>6, AppendLineTyped DEF ConsumeToken, PersistConsumed, Files, TypeInv, TypeOK
  <2>3. consumedFile' \subseteq Tokens
    BY <1>6, <2>1 DEF ConsumeToken, PersistConsumed, TypeInv, TypeOK
  <2>4. handle' \in [Handles -> HandleState] /\ PosOK'
    <3>1. CASE o = "ok"
      BY <1>6, <3>1, TokenConsumedTyped DEF ConsumeToken
    <3>2. CASE o # "ok"
      BY <1>1, <1>6, <3>2, FailCallTyped DEF ConsumeToken
    <3>. QED
      BY <3>1, <3>2
  <2>. QED
    BY <1>6, <2>2, <2>3, <2>4 DEF ConsumeToken, TypeInv, TypeOK, history
<1>7. ASSUME NEW o \in Outcome, PersistTokensConsumed(h, o) PROVE TypeInv'
  <2>1. /\ fileState' \in [Files -> FileState]
        /\ cursorFile' \in [Sessions -> CursorPhase]
        /\ written("TokensConsumed", o) \in [Sessions -> CursorPhase]
    BY <1>2, <1>7 DEF PersistTokensConsumed, CursorPhase
  <2>2. InventoryCount(s) \in Nat \ {0}
    BY <1>1, BatchFacts DEF InventoryCount
  <2> DEFINE X == [handle[h] EXCEPT !.cursor = written("TokensConsumed", o),
                                    !.pc = IF o = "ok" THEN "inventory" ELSE "idle",
                                    !.outcome = IF o = "ok" THEN @ ELSE "error",
                                    !.pos = 1]
  <2>3. X \in HandleState
    <3>1. (IF o = "ok" THEN "inventory" ELSE "idle") \in Pc
      BY DEF Pc
    <3>2. (IF o = "ok" THEN handle[h].outcome ELSE "error") \in {"none", "signature", "error"}
      BY <1>1 DEF HandleState
    <3>. HIDE DEF written
    <3>. QED
      BY <1>1, <2>1, <3>1, <3>2, FieldUpdates
  <2>4. X.sess = s /\ X.pos = 1 /\ X.pc \in {"inventory", "idle"}
    BY <1>1 DEF HandleState
  <2>5. handle' = [handle EXCEPT ![h] = X]
    BY <1>7 DEF PersistTokensConsumed
  <2>. HIDE DEF X
  <2>6. handle' \in [Handles -> HandleState] /\ PosOK'
    <3>1. X.sess \in Sessions /\ X.pc \notin {"consume", "directConsume"}
      BY <1>1, <2>4
    <3>2. X.pos \in 1 .. InventoryCount(X.sess)
      BY <2>2, <2>4
    <3>. QED
      BY <2>3, <2>5, <3>1, <3>2, HandleStep
  <2>. QED
    BY <1>7, <2>1, <2>6 DEF PersistTokensConsumed, TypeInv, TypeOK, history
<1>8. ASSUME NEW o \in Outcome, MarkInventory(h, o) PROVE TypeInv'
  <2> DEFINE i == handle[h].pos
             id == InventoryAt(s, i)
  <2>1. i \in 1 .. InventoryCount(s) /\ id \in InventoryId /\ InventoryCount(s) \in Nat
    BY <1>1, <1>8, InventoryFacts, BatchFacts DEF MarkInventory, TypeInv, PosOK, InventoryCount
  <2>. HIDE DEF id
  <2>2. fileState' \in [Files -> FileState] /\ inventoryFile' \subseteq InventoryId
    <3>1. InventoryLog(id) \in Files /\ AppendLine(InventoryLog(id), InventoryOutcome(id, o))
      BY <1>8 DEF MarkInventory, InventoryLog, Files, id
    <3>0. InventoryOutcome(id, o) \in Outcome
      BY DEF InventoryOutcome, Outcome
    <3>2. fileState' \in [Files -> FileState]
      BY <3>0, <3>1, AppendLineTyped DEF TypeInv, TypeOK
    <3>. QED
      BY <1>8, <2>1, <3>2 DEF MarkInventory, TypeInv, TypeOK, id
  <2> DEFINE Y == [handle[h] EXCEPT !.phase = "Failed", !.pc = "persistFailed",
                                    !.inventory = @ \cup {id}]
             W == [handle[h] EXCEPT !.inventory = @ \cup {id}, !.pos = i + 1,
                                    !.pc = IF i = InventoryCount(s) THEN "handOver" ELSE "inventory"]
             X == IF o # "ok" THEN Y ELSE W
  <2>3. Y \in HandleState /\ W \in HandleState
    <3>1. /\ "Failed" \in SessionPhase
          /\ {"persistFailed", "handOver", "inventory"} \subseteq Pc
          /\ handle[h].inventory \cup {id} \in SUBSET InventoryId
          /\ i + 1 \in Nat
      BY <1>1, <2>1 DEF SessionPhase, Pc, HandleState
    <3>. QED
      BY <1>1, <3>1, FieldUpdates
  <2>4. Y.sess = s /\ Y.pc = "persistFailed"
    BY <1>1 DEF HandleState
  <2>5. /\ W.sess = s /\ W.pos = i + 1
        /\ W.pc = IF i = InventoryCount(s) THEN "handOver" ELSE "inventory"
    BY <1>1 DEF HandleState
  <2>6. handle' = [handle EXCEPT ![h] = X]
    BY <1>8 DEF MarkInventory, FailCall, id
  <2>. HIDE DEF Y, W
  <2>7. handle' \in [Handles -> HandleState] /\ PosOK'
    <3>1. CASE o # "ok"
      BY <1>1, <2>3, <2>4, <2>6, <3>1, HandleStep
    <3>2. CASE o = "ok"
      <4>1. W.sess \in Sessions /\ W.pc \notin {"consume", "directConsume"}
        BY <1>1, <2>5
      <4>2. W.pc = "inventory" => W.pos \in 1 .. InventoryCount(W.sess)
        BY <2>1, <2>5
      <4>. QED
        BY <2>3, <2>6, <3>2, <4>1, <4>2, HandleStep
    <3>. QED
      BY <3>1, <3>2
  <2>. QED
    BY <1>8, <2>2, <2>7 DEF MarkInventory, TypeInv, TypeOK, history
<1>9. ASSUME NEW o \in Outcome, NEW completes \in BOOLEAN, RunSlot(h, o, completes)
      PROVE  TypeInv'
  <2>1. /\ fileState' \in [Files -> FileState]
        /\ cursorFile' \in [Sessions -> CursorPhase]
        /\ written("TokensConsumed", o) \in [Sessions -> CursorPhase]
    BY <1>2, <1>9 DEF RunSlot, CursorPhase
  <2> DEFINE Y == [handle[h] EXCEPT !.cursor = written("TokensConsumed", o), !.pos = @ + 1,
                                    !.pc = IF handle[h].pos = 5 THEN "verify" ELSE "slot"]
             W == [handle[h] EXCEPT !.phase = "Failed", !.pc = "persistFailed",
                                    !.cursor = written("TokensConsumed", o)]
             X == IF completes THEN Y ELSE W
  <2>2. Y \in HandleState /\ W \in HandleState
    <3>1. /\ "Failed" \in SessionPhase
          /\ {"persistFailed", "verify", "slot"} \subseteq Pc
          /\ handle[h].pos + 1 \in Nat
      BY <1>1 DEF SessionPhase, Pc, HandleState
    <3>. HIDE DEF written
    <3>. QED
      BY <1>1, <2>1, <3>1, FieldUpdates
  <2>3. Y.sess = s /\ Y.pc \in {"verify", "slot"} /\ W.sess = s /\ W.pc = "persistFailed"
    BY <1>1 DEF HandleState
  <2>4. handle' = [handle EXCEPT ![h] = X]
    BY <1>9 DEF RunSlot, FailCall
  <2>. HIDE DEF Y, W
  <2>5. handle' \in [Handles -> HandleState] /\ PosOK'
    BY <1>1, <2>2, <2>3, <2>4, HandleStep
  <2>. QED
    BY <1>9, <2>1, <2>5 DEF RunSlot, TypeInv, TypeOK, history
<1>10. ASSUME NEW o \in Outcome, PersistFinished(h, o) PROVE TypeInv'
  <2>1. /\ fileState' \in [Files -> FileState]
        /\ cursorFile' \in [Sessions -> CursorPhase]
        /\ written("Finished", o) \in [Sessions -> CursorPhase]
    BY <1>2, <1>10 DEF PersistFinished, CursorPhase
  <2>. QED
    BY <1>1, <1>10, <2>1
       DEF PersistFinished, TypeInv, TypeOK, PosOK, HandleState, Pc
<1>11. ASSUME NEW o \in Outcome, PersistFailed(h, o) PROVE TypeInv'
  <2>1. /\ fileState' \in [Files -> FileState]
        /\ cursorFile' \in [Sessions -> CursorPhase]
        /\ written("Failed", o) \in [Sessions -> CursorPhase]
    BY <1>2, <1>11 DEF PersistFailed, CursorPhase
  <2>. QED
    BY <1>1, <1>11, <2>1
       DEF PersistFailed, TypeInv, TypeOK, PosOK, HandleState, Pc, history
<1>12. ASSUME NEW accepted \in BOOLEAN, FinalVerify(h, accepted) PROVE TypeInv'
  <2>1. handle' \in [Handles -> HandleState] /\ PosOK'
    <3>1. CASE accepted
      BY <1>1, <1>12, <3>1
         DEF FinalVerify, TypeInv, TypeOK, PosOK, HandleState, Pc, SessionPhase
    <3>2. CASE ~accepted
      BY <1>1, <1>12, <3>2, FailCallTyped DEF FinalVerify
    <3>. QED
      BY <3>1, <3>2
  <2>. QED
    BY <1>12, <2>1 DEF FinalVerify, TypeInv, TypeOK, durable, history
<1>. QED
  BY <1>3, <1>5, <1>6, <1>7, <1>8, <1>9, <1>10, <1>11, <1>12 DEF FinishStep

LEMMA DirectStepTyped ==
  ASSUME TypeInv, NEW h \in Handles, DirectStep(h)
  PROVE  TypeInv'
<1>1. handle[h] \in HandleState /\ handle[h].sess \in Sessions
  BY DEF DirectStep, DirectConsume, DirectRefuse, DirectHandOver, DirectBackend,
         TypeInv, TypeOK, PosOK
<1>2. handle' = DirectReturn(h) => handle' \in [Handles -> HandleState] /\ PosOK'
  <2> DEFINE X == [handle[h] EXCEPT !.sess = NoSession, !.pc = "idle"]
  <2>1. "idle" \in Pc
    BY DEF Pc
  <2>2. X \in HandleState
    BY <1>1, <2>1, FieldUpdates
  <2>3. X.pc = "idle"
    BY <1>1 DEF HandleState
  <2>4. handle' = DirectReturn(h) => handle' = [handle EXCEPT ![h] = X]
    BY DEF DirectReturn
  <2>. QED
    BY <2>2, <2>3, <2>4, HandleStep
<1>3. ASSUME NEW o \in Outcome, DirectConsume(h, o) PROVE TypeInv'
  <2>1. CurrentToken(h) \in Tokens
    BY <1>1, <1>3, BatchFacts DEF DirectConsume, CurrentToken, TypeInv, PosOK
  <2>2. fileState' \in [Files -> FileState]
    BY <1>3, AppendLineTyped DEF DirectConsume, PersistConsumed, Files, TypeInv, TypeOK
  <2>3. consumedFile' \subseteq Tokens
    BY <1>3, <2>1 DEF DirectConsume, PersistConsumed, TypeInv, TypeOK
  <2>4. handle' \in [Handles -> HandleState] /\ PosOK'
    <3>1. CASE o = "ok"
      BY <1>3, <3>1, TokenConsumedTyped DEF DirectConsume
    <3>2. CASE o # "ok"
      BY <1>2, <1>3, <3>2 DEF DirectConsume
    <3>. QED
      BY <3>1, <3>2
  <2>. QED
    BY <1>3, <2>2, <2>3, <2>4 DEF DirectConsume, TypeInv, TypeOK, history
<1>4. CASE DirectRefuse(h)
  BY <1>2, <1>4 DEF DirectRefuse, TypeInv, TypeOK, durable, history
<1>5. CASE DirectHandOver(h)
  <2>1. useCount' \in [Tokens -> Nat]
    BY <1>5 DEF DirectHandOver, CountUse, TypeInv, TypeOK
  <2>. QED
    BY <1>1, <1>5, <2>1 DEF DirectHandOver, TypeInv, TypeOK, PosOK, HandleState, Pc, durable
<1>6. CASE DirectBackend(h)
  BY <1>2, <1>6 DEF DirectBackend, TypeInv, TypeOK, durable, history
<1>. QED
  BY <1>3, <1>4, <1>5, <1>6 DEF DirectStep

LEMMA TypeStep == TypeInv /\ [Next]_vars => TypeInv'
<1>. SUFFICES ASSUME TypeInv, [Next]_vars PROVE TypeInv'
  OBVIOUS
<1>1. CASE UNCHANGED vars
  BY <1>1 DEF vars, TypeInv, TypeOK, PosOK
<1>2. CASE Next
  BY <1>2, CallerStepTyped, FinishStepTyped, DirectStepTyped DEF Next
<1>. QED
  BY <1>1, <1>2

THEOREM TypeInvariant == Spec => []TypeInv
<1>. QED
  BY TypeInit, TypeStep, PTL DEF Spec

\* Every variable keeps its type, whatever writes fail and handles crash.
THEOREM TypeCorrect == Spec => []TypeOK
<1>1. TypeInv => TypeOK
  BY DEF TypeInv
<1>. QED
  BY <1>1, TypeInvariant, PTL

(***************************************************************************)
(* Durability.  A handle's memory never runs ahead of the file, whatever   *)
(* the number of handles; a call that is past a loop has been through all  *)
(* of it; so what reaches the backend is durable.  Durable is stated over  *)
(* values, so that it can be carried from one file state to a larger one.  *)
(***************************************************************************)
Durable(hs, tokens, inventories) ==
  /\ hs.consumed \subseteq tokens
  /\ hs.pc \in {"consume", "directConsume"} =>
       \A i \in 1 .. hs.pos - 1 : BatchOf[hs.sess][i] \in tokens
  /\ hs.pc \in {"persistConsumed", "inventory", "handOver", "directHandOver"} =>
       BatchSet(hs.sess) \subseteq tokens
  /\ hs.pc = "inventory" =>
       \A i \in 1 .. hs.pos - 1 : InventoryAt(hs.sess, i) \in inventories
  /\ hs.pc = "handOver" =>
       \A i \in 1 .. InventoryCount(hs.sess) : InventoryAt(hs.sess, i) \in inventories

HandlesDurable == \A h \in Handles : Durable(handle[h], consumedFile, inventoryFile)

DurableInv == TypeInv /\ HandlesDurable /\ UseIsDurable

\* The positions at which Durable asks for nothing but the memory.
QuietPc == {"down", "idle", "slot", "verify", "persistFinished", "persistFailed", "directBackend"}

LEMMA DurableStep ==
  ASSUME HandlesDurable, NEW h \in Handles,
         consumedFile \subseteq consumedFile', inventoryFile \subseteq inventoryFile',
         \A g \in Handles \ {h} : handle'[g] = handle[g],
         Durable(handle'[h], consumedFile', inventoryFile')
  PROVE  HandlesDurable'
  BY DEF HandlesDurable, Durable

\* Files grow and nothing is handed over.
LEMMA UseStep ==
  ASSUME UseIsDurable, consumedFile \subseteq consumedFile', inventoryFile \subseteq inventoryFile',
         useCount' = useCount, ran' = ran
  PROVE  UseIsDurable'
  BY DEF UseIsDurable

\* A step that takes a handle to a quiet position with no more in its memory.
LEMMA QuietStep ==
  ASSUME DurableInv, NEW h \in Handles,
         consumedFile \subseteq consumedFile', inventoryFile \subseteq inventoryFile',
         useCount' = useCount, ran' = ran,
         NEW X, handle' = [handle EXCEPT ![h] = X],
         X.pc \in QuietPc, X.consumed \subseteq consumedFile'
  PROVE  HandlesDurable' /\ UseIsDurable'
<1>1. handle'[h] = X /\ \A g \in Handles \ {h} : handle'[g] = handle[g]
  BY DEF DurableInv, TypeInv, TypeOK
<1>2. Durable(X, consumedFile', inventoryFile')
  BY DEF Durable, QuietPc
<1>. QED
  BY <1>1, <1>2, DurableStep, UseStep DEF DurableInv

LEMMA CallerStepDurable ==
  ASSUME DurableInv, NEW h \in Handles, CallerStep(h)
  PROVE  HandlesDurable' /\ UseIsDurable'
<1>1. handle[h] \in HandleState /\ Durable(handle[h], consumedFile, inventoryFile)
  BY DEF DurableInv, TypeInv, TypeOK, HandlesDurable
<1>2. /\ consumedFile' = consumedFile /\ inventoryFile' = inventoryFile
      /\ useCount' = useCount /\ ran' = ran
  BY DEF CallerStep, OpenStores, Crash, CloseSession, FinishStart, WireMessage, StartNew,
         StartHydrated, StartRefused, DirectStart, durable, history
<1>3. CASE OpenStores(h)
  <2> DEFINE X == [DownHandle EXCEPT !.pc = "idle", !.consumed = ReplayedTokens,
                                     !.cursor = cursorFile, !.inventory = inventoryFile]
  <2>1. X.pc \in QuietPc /\ X.consumed = consumedFile
    BY DEF DownHandle, ReplayedTokens, QuietPc
  <2>2. handle' = [handle EXCEPT ![h] = X]
    BY <1>3 DEF OpenStores
  <2>. HIDE DEF X
  <2>. QED
    BY <1>2, <2>1, <2>2, QuietStep
<1>4. ASSUME handle' = [handle EXCEPT ![h] = DownHandle] PROVE HandlesDurable' /\ UseIsDurable'
  <2>1. DownHandle.pc \in QuietPc /\ DownHandle.consumed = {}
    BY DEF DownHandle, QuietPc
  <2>. QED
    BY <1>2, <1>4, <2>1, QuietStep
<1>5. CASE CloseSession(h)
  <2> DEFINE X == [handle[h] EXCEPT !.sess = NoSession]
  <2>1. X.pc \in QuietPc /\ X.consumed = handle[h].consumed
    BY <1>1, <1>5 DEF CloseSession, QuietPc, HandleState
  <2>2. handle' = [handle EXCEPT ![h] = X]
    BY <1>5 DEF CloseSession
  <2>. HIDE DEF X
  <2>. QED
    BY <1>1, <1>2, <2>1, <2>2, QuietStep DEF Durable
<1>6. CASE FinishStart(h)
  <2> DEFINE X == [handle[h] EXCEPT !.batch = FALSE, !.pc = "consume", !.pos = 1]
  <2>1. X.pc = "consume" /\ X.pos = 1 /\ X.consumed = handle[h].consumed
    BY <1>1 DEF HandleState
  <2>2. Durable(X, consumedFile, inventoryFile)
    <3>. HIDE DEF X
    <3>. QED
      BY <1>1, <2>1 DEF Durable
  <2>3. handle' = [handle EXCEPT ![h] = X]
    BY <1>6 DEF FinishStart
  <2>4. handle'[h] = X /\ \A g \in Handles \ {h} : handle'[g] = handle[g]
    BY <2>3 DEF DurableInv, TypeInv, TypeOK
  <2>. QED
    BY <1>2, <2>2, <2>4, DurableStep, UseStep DEF DurableInv
<1>7. ASSUME NEW o \in Outcome, WireMessage(h, o) PROVE HandlesDurable' /\ UseIsDurable'
  <2> DEFINE X == [handle[h] EXCEPT !.cursor = CursorMemory(h, handle[h].sess, "Started", o)]
  <2>1. X.pc \in QuietPc /\ X.consumed = handle[h].consumed
    BY <1>1, <1>7 DEF WireMessage, QuietPc, HandleState
  <2>2. handle' = [handle EXCEPT ![h] = X]
    BY <1>7 DEF WireMessage
  <2>. HIDE DEF X
  <2>. QED
    BY <1>1, <1>2, <2>1, <2>2, QuietStep DEF Durable
<1>8. ASSUME NEW s \in Sessions, NEW c, handle[h].pc = "idle",
             handle' = [handle EXCEPT ![h] = Opened(h, s, c)]
      PROVE  HandlesDurable' /\ UseIsDurable'
  <2>1. Opened(h, s, c).pc \in QuietPc /\ Opened(h, s, c).consumed = handle[h].consumed
    BY <1>1, <1>8 DEF Opened, QuietPc, HandleState
  <2>. QED
    BY <1>1, <1>2, <1>8, <2>1, QuietStep DEF Durable
<1>9. CASE Crash(h)
  BY <1>4, <1>9 DEF Crash
<1>10. ASSUME NEW s \in Sessions, NEW o \in Outcome, StartNew(h, s, o)
       PROVE  HandlesDurable' /\ UseIsDurable'
  BY <1>4, <1>8, <1>10 DEF StartNew
<1>11. ASSUME NEW s \in Sessions, StartHydrated(h, s) PROVE HandlesDurable' /\ UseIsDurable'
  BY <1>8, <1>11 DEF StartHydrated
<1>12. ASSUME NEW s \in Sessions, StartRefused(h, s) PROVE HandlesDurable' /\ UseIsDurable'
  BY <1>4, <1>12 DEF StartRefused
<1>13. ASSUME NEW s \in Sessions, DirectStart(h, s) PROVE HandlesDurable' /\ UseIsDurable'
  <2> DEFINE X == [handle[h] EXCEPT !.sess = s, !.pc = "directConsume", !.pos = 1]
  <2>1. X.pc = "directConsume" /\ X.pos = 1 /\ X.consumed = handle[h].consumed
    BY <1>1 DEF HandleState
  <2>2. Durable(X, consumedFile, inventoryFile)
    <3>. HIDE DEF X
    <3>. QED
      BY <1>1, <2>1 DEF Durable
  <2>3. handle' = [handle EXCEPT ![h] = X]
    BY <1>13 DEF DirectStart
  <2>4. handle'[h] = X /\ \A g \in Handles \ {h} : handle'[g] = handle[g]
    BY <2>3 DEF DurableInv, TypeInv, TypeOK
  <2>. QED
    BY <1>2, <2>2, <2>4, DurableStep, UseStep DEF DurableInv
<1>. QED
  BY <1>3, <1>5, <1>6, <1>7, <1>9, <1>10, <1>11, <1>12, <1>13 DEF CallerStep

\* The step of the consumption loop: the prefix of the batch it has been through
\* grows by the token it appended, and after the last one it is the batch.
LEMMA ConsumeDurable ==
  ASSUME DurableInv, NEW h \in Handles, NEW next \in {"persistConsumed", "directHandOver"},
         handle[h].pc \in {"consume", "directConsume"},
         handle' = TokenConsumed(h, next),
         consumedFile' = consumedFile \cup {CurrentToken(h)},
         inventoryFile' = inventoryFile, useCount' = useCount, ran' = ran
  PROVE  HandlesDurable' /\ UseIsDurable'
<1> DEFINE s == handle[h].sess
           n == Len(BatchOf[s])
           X == [handle[h] EXCEPT !.consumed = @ \cup {CurrentToken(h)}, !.pos = @ + 1,
                                  !.pc = IF handle[h].pos = n THEN next ELSE @]
<1>1. /\ handle[h] \in HandleState /\ handle[h].pos \in 1 .. n /\ s \in Sessions
      /\ Durable(handle[h], consumedFile, inventoryFile)
  BY DEF DurableInv, TypeInv, TypeOK, PosOK, HandlesDurable
<1>2. /\ X.sess = s /\ X.pos = handle[h].pos + 1
      /\ X.consumed = handle[h].consumed \cup {CurrentToken(h)}
      /\ X.pc = IF handle[h].pos = n THEN next ELSE handle[h].pc
  BY <1>1 DEF HandleState
<1>3. handle' = [handle EXCEPT ![h] = X]
  BY DEF TokenConsumed
<1>. HIDE DEF X
<1>4. n \in Nat
  BY <1>1, BatchFacts
<1>5. \A i \in 1 .. handle[h].pos : BatchOf[s][i] \in consumedFile'
  <2>1. \A i \in 1 .. handle[h].pos - 1 : BatchOf[s][i] \in consumedFile
    BY <1>1 DEF Durable
  <2>2. BatchOf[s][handle[h].pos] \in consumedFile'
    BY DEF CurrentToken
  <2>3. ASSUME NEW i \in 1 .. handle[h].pos PROVE i \in 1 .. handle[h].pos - 1 \/ i = handle[h].pos
    BY <1>1, <1>4
  <2>. QED
    BY <2>1, <2>2, <2>3
<1>6. Durable(X, consumedFile', inventoryFile')
  <2>1. X.consumed \subseteq consumedFile'
    BY <1>1, <1>2 DEF Durable
  <2>2. X.pos - 1 = handle[h].pos
    BY <1>1, <1>2, <1>4
  <2>3. X.pc = next => BatchSet(s) \subseteq consumedFile'
    BY <1>2, <1>5 DEF BatchSet
  <2>. QED
    BY <1>2, <1>5, <2>1, <2>2, <2>3 DEF Durable
<1>7. handle'[h] = X /\ \A g \in Handles \ {h} : handle'[g] = handle[g]
  BY <1>3 DEF DurableInv, TypeInv, TypeOK
<1>. QED
  BY <1>6, <1>7, DurableStep, UseStep DEF DurableInv

\* A step of a call that fails, or that stays outside the loops.
LEMMA FailCallDurable ==
  ASSUME DurableInv, NEW h \in Handles,
         consumedFile \subseteq consumedFile', inventoryFile \subseteq inventoryFile',
         useCount' = useCount, ran' = ran, handle' = FailCall(h)
  PROVE  HandlesDurable' /\ UseIsDurable'
<1> DEFINE X == [handle[h] EXCEPT !.phase = "Failed", !.pc = "persistFailed"]
<1>1. handle[h] \in HandleState /\ handle[h].consumed \subseteq consumedFile
  BY DEF DurableInv, TypeInv, TypeOK, HandlesDurable, Durable
<1>2. X.pc \in QuietPc /\ X.consumed = handle[h].consumed
  BY <1>1 DEF HandleState, QuietPc
<1>3. handle' = [handle EXCEPT ![h] = X]
  BY DEF FailCall
<1>. HIDE DEF X
<1>. QED
  BY <1>1, <1>2, <1>3, QuietStep

LEMMA MarkInventoryDurable ==
  ASSUME DurableInv, NEW h \in Handles, NEW o \in Outcome, MarkInventory(h, o)
  PROVE  HandlesDurable' /\ UseIsDurable'
<1> DEFINE s == handle[h].sess
           i == handle[h].pos
           id == InventoryAt(s, i)
           n == InventoryCount(s)
<1>1. /\ handle[h] \in HandleState /\ s \in Sessions /\ i \in 1 .. n
      /\ Durable(handle[h], consumedFile, inventoryFile)
  BY DEF MarkInventory, DurableInv, TypeInv, TypeOK, PosOK, HandlesDurable
<1>2. /\ consumedFile' = consumedFile /\ useCount' = useCount /\ ran' = ran
      /\ inventoryFile \subseteq inventoryFile'
  BY DEF MarkInventory, history
<1>3. CASE o # "ok"
  <2> DEFINE X == [handle[h] EXCEPT !.phase = "Failed", !.pc = "persistFailed",
                                    !.inventory = @ \cup {id}]
  <2>1. X.pc \in QuietPc /\ X.consumed = handle[h].consumed
    BY <1>1 DEF HandleState, QuietPc
  <2>2. handle' = [handle EXCEPT ![h] = X]
    BY <1>3 DEF MarkInventory, FailCall
  <2>. HIDE DEF X
  <2>. QED
    BY <1>1, <1>2, <2>1, <2>2, QuietStep DEF Durable
<1>4. CASE o = "ok"
  <2> DEFINE X == [handle[h] EXCEPT !.inventory = @ \cup {id}, !.pos = i + 1,
                                    !.pc = IF i = n THEN "handOver" ELSE "inventory"]
  <2>1. X.sess = s /\ X.pos = i + 1 /\ X.consumed = handle[h].consumed
        /\ X.pc = IF i = n THEN "handOver" ELSE "inventory"
    BY <1>1 DEF HandleState
  <2>2. handle' = [handle EXCEPT ![h] = X]
    BY <1>4 DEF MarkInventory
  <2>. HIDE DEF X
  <2>3. n \in Nat
    BY <1>1, BatchFacts DEF InventoryCount
  <2>4. \A j \in 1 .. i : InventoryAt(s, j) \in inventoryFile'
    <3>1. \A j \in 1 .. i - 1 : InventoryAt(s, j) \in inventoryFile
      BY <1>1 DEF MarkInventory, Durable
    <3>2. InventoryAt(s, i) \in inventoryFile'
      BY <1>4 DEF MarkInventory, Written
    <3>3. ASSUME NEW j \in 1 .. i PROVE j \in 1 .. i - 1 \/ j = i
      BY <1>1, <2>3
    <3>. QED
      BY <1>2, <3>1, <3>2, <3>3
  <2>5. Durable(X, consumedFile', inventoryFile')
    <3>1. X.pos - 1 = i
      BY <1>1, <2>1, <2>3
    <3>2. BatchSet(s) \subseteq consumedFile'
      BY <1>1, <1>2 DEF MarkInventory, Durable
    <3>3. X.consumed \subseteq consumedFile'
      BY <1>1, <1>2, <2>1 DEF Durable
    <3>4. X.pc = "inventory" => \A j \in 1 .. X.pos - 1 : InventoryAt(s, j) \in inventoryFile'
      BY <2>4, <3>1
    <3>5. X.pc = "handOver" => \A j \in 1 .. n : InventoryAt(s, j) \in inventoryFile'
      BY <2>1, <2>4
    <3>. QED
      BY <2>1, <3>2, <3>3, <3>4, <3>5 DEF Durable
  <2>6. handle'[h] = X /\ \A g \in Handles \ {h} : handle'[g] = handle[g]
    BY <2>2 DEF DurableInv, TypeInv, TypeOK
  <2>. QED
    BY <1>2, <2>5, <2>6, DurableStep, UseStep DEF DurableInv
<1>. QED
  BY <1>3, <1>4

LEMMA FinishStepDurable ==
  ASSUME DurableInv, NEW h \in Handles, FinishStep(h)
  PROVE  HandlesDurable' /\ UseIsDurable'
<1>1. handle[h] \in HandleState /\ Durable(handle[h], consumedFile, inventoryFile)
  BY DEF DurableInv, TypeInv, TypeOK, HandlesDurable
<1>2. CASE RefuseToken(h)
  BY <1>2, FailCallDurable DEF RefuseToken, durable, history
<1>4. CASE HandOver(h)
  <2> DEFINE s == handle[h].sess
             X == [handle[h] EXCEPT !.pc = "slot", !.pos = 1]
  <2>1. X.pc = "slot" /\ X.consumed = handle[h].consumed
    BY <1>1 DEF HandleState
  <2>2. handle' = [handle EXCEPT ![h] = X] /\ consumedFile' = consumedFile
        /\ inventoryFile' = inventoryFile
    BY <1>4 DEF HandOver, durable
  <2>. HIDE DEF X
  <2>3. handle'[h] = X /\ \A g \in Handles \ {h} : handle'[g] = handle[g]
    BY <2>2 DEF DurableInv, TypeInv, TypeOK
  <2>4. HandlesDurable'
    <3>1. Durable(X, consumedFile', inventoryFile')
      BY <1>1, <2>1, <2>2 DEF Durable
    <3>. QED
      BY <2>2, <2>3, <3>1, DurableStep DEF DurableInv
  <2>5. UseIsDurable'
    <3>1. BatchSet(s) \subseteq consumedFile
          /\ \A i \in 1 .. InventoryCount(s) : InventoryAt(s, i) \in inventoryFile
      BY <1>1, <1>4 DEF HandOver, Durable
    <3>2. \A t \in Tokens : useCount'[t] > 0 => t \in BatchSet(s) \/ useCount[t] > 0
      BY <1>4 DEF HandOver, CountUse
    <3>3. ran' = ran \cup {s}
      BY <1>4 DEF HandOver
    <3>. QED
      BY <2>2, <3>1, <3>2, <3>3 DEF DurableInv, UseIsDurable
  <2>. QED
    BY <2>4, <2>5
<1>5. ASSUME NEW o \in Outcome, ConsumeToken(h, o) PROVE HandlesDurable' /\ UseIsDurable'
  <2>1. inventoryFile' = inventoryFile /\ useCount' = useCount /\ ran' = ran
    BY <1>5 DEF ConsumeToken, history
  <2>2. CASE o = "ok"
    <3>1. consumedFile' = consumedFile \cup {CurrentToken(h)}
      BY <1>5, <2>2 DEF ConsumeToken, PersistConsumed, Written
    <3>. QED
      BY <1>5, <2>1, <2>2, <3>1, ConsumeDurable DEF ConsumeToken
  <2>3. CASE o # "ok"
    BY <1>5, <2>1, <2>3, FailCallDurable DEF ConsumeToken, PersistConsumed
  <2>. QED
    BY <2>2, <2>3
<1>6. ASSUME NEW o \in Outcome, PersistTokensConsumed(h, o)
      PROVE  HandlesDurable' /\ UseIsDurable'
  <2> DEFINE s == handle[h].sess
             X == [handle[h] EXCEPT !.cursor = CursorMemory(h, s, "TokensConsumed", o),
                                    !.pc = IF o = "ok" THEN "inventory" ELSE "idle",
                                    !.outcome = IF o = "ok" THEN @ ELSE "error",
                                    !.pos = 1]
  <2>1. X.consumed = handle[h].consumed /\ X.sess = s /\ X.pos = 1
        /\ X.pc = IF o = "ok" THEN "inventory" ELSE "idle"
    BY <1>1 DEF HandleState
  <2>2. handle' = [handle EXCEPT ![h] = X] /\ consumedFile' = consumedFile
        /\ inventoryFile' = inventoryFile /\ useCount' = useCount /\ ran' = ran
    BY <1>6 DEF PersistTokensConsumed, history
  <2>. HIDE DEF X
  <2>3. handle'[h] = X /\ \A g \in Handles \ {h} : handle'[g] = handle[g]
    BY <2>2 DEF DurableInv, TypeInv, TypeOK
  <2>4. Durable(X, consumedFile', inventoryFile')
    <3>1. X.consumed \subseteq consumedFile /\ BatchSet(X.sess) \subseteq consumedFile
      BY <1>1, <1>6, <2>1 DEF PersistTokensConsumed, Durable
    <3>2. 1 .. X.pos - 1 = {}
      BY <2>1
    <3>. QED
      BY <2>1, <2>2, <3>1, <3>2 DEF Durable
  <2>. QED
    BY <2>2, <2>3, <2>4, DurableStep, UseStep DEF DurableInv
<1>7. ASSUME NEW o \in Outcome, MarkInventory(h, o) PROVE HandlesDurable' /\ UseIsDurable'
  BY <1>7, MarkInventoryDurable
<1>8. ASSUME NEW o \in Outcome, NEW completes \in BOOLEAN, RunSlot(h, o, completes)
      PROVE  HandlesDurable' /\ UseIsDurable'
  <2> DEFINE c == CursorMemory(h, handle[h].sess, "TokensConsumed", o)
             X == IF completes
                  THEN [handle[h] EXCEPT !.cursor = c, !.pos = @ + 1,
                                         !.pc = IF handle[h].pos = 5 THEN "verify" ELSE "slot"]
                  ELSE [handle[h] EXCEPT !.phase = "Failed", !.pc = "persistFailed", !.cursor = c]
  <2>1. X.pc \in QuietPc /\ X.consumed = handle[h].consumed
    BY <1>1 DEF HandleState, QuietPc
  <2>2. handle' = [handle EXCEPT ![h] = X] /\ consumedFile' = consumedFile
        /\ inventoryFile' = inventoryFile /\ useCount' = useCount /\ ran' = ran
    BY <1>8 DEF RunSlot, FailCall, history
  <2>. HIDE DEF X
  <2>. QED
    BY <1>1, <2>1, <2>2, QuietStep DEF Durable
<1>9. ASSUME NEW o \in Outcome, PersistFinished(h, o) PROVE HandlesDurable' /\ UseIsDurable'
  <2> DEFINE X == [handle[h] EXCEPT !.cursor = CursorMemory(h, handle[h].sess, "Finished", o),
                                    !.pc = "idle",
                                    !.outcome = IF o = "ok" THEN "signature" ELSE "error"]
  <2>1. X.pc \in QuietPc /\ X.consumed = handle[h].consumed
    BY <1>1 DEF HandleState, QuietPc
  <2>2. handle' = [handle EXCEPT ![h] = X] /\ consumedFile' = consumedFile
        /\ inventoryFile' = inventoryFile /\ useCount' = useCount /\ ran' = ran
    BY <1>9 DEF PersistFinished
  <2>. HIDE DEF X
  <2>. QED
    BY <1>1, <2>1, <2>2, QuietStep DEF Durable
<1>10. ASSUME NEW o \in Outcome, PersistFailed(h, o) PROVE HandlesDurable' /\ UseIsDurable'
  <2> DEFINE X == [handle[h] EXCEPT !.cursor = CursorMemory(h, handle[h].sess, "Failed", o),
                                    !.pc = "idle", !.outcome = "error"]
  <2>1. X.pc \in QuietPc /\ X.consumed = handle[h].consumed
    BY <1>1 DEF HandleState, QuietPc
  <2>2. handle' = [handle EXCEPT ![h] = X] /\ consumedFile' = consumedFile
        /\ inventoryFile' = inventoryFile /\ useCount' = useCount /\ ran' = ran
    BY <1>10 DEF PersistFailed, history
  <2>. HIDE DEF X
  <2>. QED
    BY <1>1, <2>1, <2>2, QuietStep DEF Durable
<1>11. ASSUME NEW accepted \in BOOLEAN, FinalVerify(h, accepted)
       PROVE  HandlesDurable' /\ UseIsDurable'
  <2>1. consumedFile' = consumedFile /\ inventoryFile' = inventoryFile
        /\ useCount' = useCount /\ ran' = ran
    BY <1>11 DEF FinalVerify, durable, history
  <2>2. CASE accepted
    <3> DEFINE X == [handle[h] EXCEPT !.phase = "Finished", !.pc = "persistFinished"]
    <3>1. X.pc \in QuietPc /\ X.consumed = handle[h].consumed
      BY <1>1 DEF HandleState, QuietPc
    <3>2. handle' = [handle EXCEPT ![h] = X]
      BY <1>11, <2>2 DEF FinalVerify
    <3>. HIDE DEF X
    <3>. QED
      BY <1>1, <2>1, <3>1, <3>2, QuietStep DEF Durable
  <2>3. CASE ~accepted
    BY <1>11, <2>1, <2>3, FailCallDurable DEF FinalVerify
  <2>. QED
    BY <2>2, <2>3
<1>. QED
  BY <1>2, <1>4, <1>5, <1>6, <1>7, <1>8, <1>9, <1>10, <1>11 DEF FinishStep

LEMMA DirectStepDurable ==
  ASSUME DurableInv, NEW h \in Handles, DirectStep(h)
  PROVE  HandlesDurable' /\ UseIsDurable'
<1>1. handle[h] \in HandleState /\ Durable(handle[h], consumedFile, inventoryFile)
  BY DEF DurableInv, TypeInv, TypeOK, HandlesDurable
<1>2. ASSUME handle' = DirectReturn(h), consumedFile \subseteq consumedFile',
             inventoryFile' = inventoryFile, useCount' = useCount, ran' = ran
      PROVE  HandlesDurable' /\ UseIsDurable'
  <2> DEFINE X == [handle[h] EXCEPT !.sess = NoSession, !.pc = "idle"]
  <2>1. X.pc \in QuietPc /\ X.consumed = handle[h].consumed
    BY <1>1 DEF HandleState, QuietPc
  <2>2. handle' = [handle EXCEPT ![h] = X]
    BY <1>2 DEF DirectReturn
  <2>. HIDE DEF X
  <2>. QED
    BY <1>1, <1>2, <2>1, <2>2, QuietStep DEF Durable
<1>3. ASSUME NEW o \in Outcome, DirectConsume(h, o) PROVE HandlesDurable' /\ UseIsDurable'
  <2>1. inventoryFile' = inventoryFile /\ useCount' = useCount /\ ran' = ran
    BY <1>3 DEF DirectConsume, history
  <2>2. CASE o = "ok"
    <3>1. consumedFile' = consumedFile \cup {CurrentToken(h)}
      BY <1>3, <2>2 DEF DirectConsume, PersistConsumed, Written
    <3>. QED
      BY <1>3, <2>1, <2>2, <3>1, ConsumeDurable DEF DirectConsume
  <2>3. CASE o # "ok"
    BY <1>2, <1>3, <2>1, <2>3 DEF DirectConsume, PersistConsumed
  <2>. QED
    BY <2>2, <2>3
<1>4. CASE DirectRefuse(h)
  BY <1>2, <1>4 DEF DirectRefuse, durable, history
<1>5. CASE DirectHandOver(h)
  <2> DEFINE s == handle[h].sess
             X == [handle[h] EXCEPT !.pc = "directBackend"]
  <2>1. X.pc = "directBackend" /\ X.consumed = handle[h].consumed
    BY <1>1 DEF HandleState
  <2>2. handle' = [handle EXCEPT ![h] = X] /\ consumedFile' = consumedFile
        /\ inventoryFile' = inventoryFile /\ ran' = ran
    BY <1>5 DEF DirectHandOver, durable
  <2>. HIDE DEF X
  <2>3. handle'[h] = X /\ \A g \in Handles \ {h} : handle'[g] = handle[g]
    BY <2>2 DEF DurableInv, TypeInv, TypeOK
  <2>4. HandlesDurable'
    <3>1. Durable(X, consumedFile', inventoryFile')
      BY <1>1, <2>1, <2>2 DEF Durable
    <3>. QED
      BY <2>2, <2>3, <3>1, DurableStep DEF DurableInv
  <2>5. UseIsDurable'
    <3>1. BatchSet(s) \subseteq consumedFile
      BY <1>1, <1>5 DEF DirectHandOver, Durable
    <3>2. \A t \in Tokens : useCount'[t] > 0 => t \in BatchSet(s) \/ useCount[t] > 0
      BY <1>5 DEF DirectHandOver, CountUse
    <3>. QED
      BY <2>2, <3>1, <3>2 DEF DurableInv, UseIsDurable
  <2>. QED
    BY <2>4, <2>5
<1>6. CASE DirectBackend(h)
  BY <1>2, <1>6 DEF DirectBackend, durable, history
<1>. QED
  BY <1>3, <1>4, <1>5, <1>6 DEF DirectStep

LEMMA DurableInit == Init => DurableInv
<1>. SUFFICES ASSUME Init PROVE DurableInv
  OBVIOUS
<1>1. HandlesDurable
  BY DEF Init, HandlesDurable, Durable, DownHandle
<1>2. UseIsDurable
  BY DEF Init, UseIsDurable
<1>. QED
  BY <1>1, <1>2, TypeInit DEF DurableInv

LEMMA DurableNext == DurableInv /\ [Next]_vars => DurableInv'
<1>. SUFFICES ASSUME DurableInv, [Next]_vars PROVE DurableInv'
  OBVIOUS
<1>1. TypeInv'
  BY TypeStep DEF DurableInv
<1>2. CASE UNCHANGED vars
  BY <1>1, <1>2 DEF vars, DurableInv, HandlesDurable, UseIsDurable
<1>3. CASE Next
  BY <1>1, <1>3, CallerStepDurable, FinishStepDurable, DirectStepDurable DEF Next, DurableInv
<1>. QED
  BY <1>2, <1>3

THEOREM DurableInvariant == Spec => []DurableInv
<1>. QED
  BY DurableInit, DurableNext, PTL DEF Spec

\* Whatever a signing backend has received is durable: its tokens are in the
\* consumed-token log and its masks and helpers in theirs.  For any number of
\* handles, since it only compares each call with the files.
THEOREM UseIsDurableCorrect == Spec => []UseIsDurable
<1>1. DurableInv => UseIsDurable
  BY DEF DurableInv
<1>. QED
  BY <1>1, DurableInvariant, PTL

(***************************************************************************)
(* One handle keeps the promise about tokens, through any number of        *)
(* crashes and failed writes: each token is used at most once, and the     *)
(* calls over the logs implement OneTimeTokens; and it never takes the end *)
(* of a session back.                                                      *)
(*                                                                         *)
(* OneHandle is the hypothesis of every theorem from here on.  With two    *)
(* handles the statements are false: each judges by the copy of the logs   *)
(* that it loaded when it opened its stores.                               *)
(***************************************************************************)
OneHandle == \A g, h \in Handles : g = h

(***************************************************************************)
(* The inductive invariant: an open handle remembers every token that was  *)
(* ever used, and what a call has consumed so far has not been used yet.   *)
(***************************************************************************)
Fresh(hs, uses) ==
  /\ hs.pc # "down" => \A t \in Tokens : uses[t] > 0 => t \in hs.consumed
  /\ hs.pc \in {"consume", "directConsume"} =>
       \A i \in 1 .. hs.pos - 1 :
         BatchOf[hs.sess][i] \in hs.consumed /\ uses[BatchOf[hs.sess][i]] = 0
  /\ hs.pc \in {"persistConsumed", "inventory", "handOver", "directHandOver"} =>
       \A t \in BatchSet(hs.sess) : t \in hs.consumed /\ uses[t] = 0

HandlesFresh == \A h \in Handles : Fresh(handle[h], useCount)

PromiseInv == DurableInv /\ HandlesFresh /\ OneTimeUse

LEMMA FreshStep ==
  ASSUME OneHandle, NEW h \in Handles, Fresh(handle'[h], useCount')
  PROVE  HandlesFresh'
  BY DEF OneHandle, HandlesFresh

\* A step that uses no token, forgets none and leaves the loops of a call.
LEMMA QuietFresh ==
  ASSUME OneHandle, PromiseInv, NEW h \in Handles,
         useCount' = useCount,
         NEW X, handle' = [handle EXCEPT ![h] = X],
         X.pc \in QuietPc,
         \/ X.pc = "down"
         \/ handle[h].pc # "down" /\ X.consumed = handle[h].consumed
         \/ X.consumed = consumedFile
  PROVE  HandlesFresh' /\ OneTimeUse'
<1>1. handle'[h] = X
  BY DEF PromiseInv, DurableInv, TypeInv, TypeOK
<1>2. Fresh(handle[h], useCount) /\ UseIsDurable
  BY DEF PromiseInv, HandlesFresh, DurableInv
<1>3. X.pc # "down" => \A t \in Tokens : useCount[t] > 0 => t \in X.consumed
  BY <1>2 DEF Fresh, UseIsDurable
<1>4. Fresh(X, useCount')
  BY <1>3 DEF Fresh, QuietPc
<1>. QED
  BY <1>1, <1>4, FreshStep DEF PromiseInv, OneTimeUse

LEMMA FailCallFresh ==
  ASSUME OneHandle, PromiseInv, NEW h \in Handles, handle[h].pc # "down",
         useCount' = useCount, handle' = FailCall(h)
  PROVE  HandlesFresh' /\ OneTimeUse'
<1> DEFINE X == [handle[h] EXCEPT !.phase = "Failed", !.pc = "persistFailed"]
<1>1. handle[h] \in HandleState
  BY DEF PromiseInv, DurableInv, TypeInv, TypeOK
<1>2. X.pc \in QuietPc /\ X.consumed = handle[h].consumed
  BY <1>1 DEF HandleState, QuietPc
<1>3. handle' = [handle EXCEPT ![h] = X]
  BY DEF FailCall
<1>. HIDE DEF X
<1>. QED
  BY <1>2, <1>3, QuietFresh

LEMMA CallerStepFresh ==
  ASSUME OneHandle, PromiseInv, NEW h \in Handles, CallerStep(h)
  PROVE  HandlesFresh' /\ OneTimeUse'
<1>1. handle[h] \in HandleState /\ Fresh(handle[h], useCount)
  BY DEF PromiseInv, HandlesFresh, DurableInv, TypeInv, TypeOK
<1>2. useCount' = useCount
  BY DEF CallerStep, OpenStores, Crash, CloseSession, FinishStart, WireMessage, StartNew,
         StartHydrated, StartRefused, DirectStart, durable, history
<1>3. CASE OpenStores(h)
  <2> DEFINE X == [DownHandle EXCEPT !.pc = "idle", !.consumed = ReplayedTokens,
                                     !.cursor = cursorFile, !.inventory = inventoryFile]
  <2>1. X.pc \in QuietPc /\ X.consumed = consumedFile
    BY DEF DownHandle, ReplayedTokens, QuietPc
  <2>2. handle' = [handle EXCEPT ![h] = X]
    BY <1>3 DEF OpenStores
  <2>. HIDE DEF X
  <2>. QED
    BY <1>2, <2>1, <2>2, QuietFresh
<1>4. ASSUME handle' = [handle EXCEPT ![h] = DownHandle] PROVE HandlesFresh' /\ OneTimeUse'
  <2>1. DownHandle.pc \in QuietPc /\ DownHandle.pc = "down"
    BY DEF DownHandle, QuietPc
  <2>. QED
    BY <1>2, <1>4, <2>1, QuietFresh
<1>5. CASE CloseSession(h)
  <2> DEFINE X == [handle[h] EXCEPT !.sess = NoSession]
  <2>1. X.pc \in QuietPc /\ handle[h].pc # "down" /\ X.consumed = handle[h].consumed
    BY <1>1, <1>5 DEF CloseSession, QuietPc, HandleState
  <2>2. handle' = [handle EXCEPT ![h] = X]
    BY <1>5 DEF CloseSession
  <2>. HIDE DEF X
  <2>. QED
    BY <1>2, <2>1, <2>2, QuietFresh
<1>6. CASE FinishStart(h)
  <2> DEFINE X == [handle[h] EXCEPT !.batch = FALSE, !.pc = "consume", !.pos = 1]
  <2>1. X.pc = "consume" /\ X.pos = 1 /\ X.consumed = handle[h].consumed
    BY <1>1 DEF HandleState
  <2>2. handle[h].pc # "down"
    BY <1>6 DEF FinishStart
  <2>3. Fresh(X, useCount)
    <3>. HIDE DEF X
    <3>. QED
      BY <1>1, <2>1, <2>2 DEF Fresh
  <2>4. handle'[h] = X
    BY <1>6 DEF FinishStart, PromiseInv, DurableInv, TypeInv, TypeOK
  <2>. QED
    BY <1>2, <2>3, <2>4, FreshStep DEF PromiseInv, OneTimeUse
<1>7. ASSUME NEW o \in Outcome, WireMessage(h, o) PROVE HandlesFresh' /\ OneTimeUse'
  <2> DEFINE X == [handle[h] EXCEPT !.cursor = CursorMemory(h, handle[h].sess, "Started", o)]
  <2>1. X.pc \in QuietPc /\ handle[h].pc # "down" /\ X.consumed = handle[h].consumed
    BY <1>1, <1>7 DEF WireMessage, QuietPc, HandleState
  <2>2. handle' = [handle EXCEPT ![h] = X]
    BY <1>7 DEF WireMessage
  <2>. HIDE DEF X
  <2>. QED
    BY <1>2, <2>1, <2>2, QuietFresh
<1>8. ASSUME NEW s \in Sessions, NEW c, handle[h].pc = "idle",
             handle' = [handle EXCEPT ![h] = Opened(h, s, c)]
      PROVE  HandlesFresh' /\ OneTimeUse'
  <2>1. Opened(h, s, c).pc \in QuietPc /\ Opened(h, s, c).consumed = handle[h].consumed
    BY <1>1, <1>8 DEF Opened, QuietPc, HandleState
  <2>2. handle[h].pc # "down"
    BY <1>8
  <2>. QED
    BY <1>2, <1>8, <2>1, <2>2, QuietFresh
<1>9. CASE Crash(h)
  BY <1>4, <1>9 DEF Crash
<1>10. ASSUME NEW s \in Sessions, NEW o \in Outcome, StartNew(h, s, o)
       PROVE  HandlesFresh' /\ OneTimeUse'
  BY <1>4, <1>8, <1>10 DEF StartNew
<1>11. ASSUME NEW s \in Sessions, StartHydrated(h, s) PROVE HandlesFresh' /\ OneTimeUse'
  BY <1>8, <1>11 DEF StartHydrated
<1>12. ASSUME NEW s \in Sessions, StartRefused(h, s) PROVE HandlesFresh' /\ OneTimeUse'
  BY <1>4, <1>12 DEF StartRefused
<1>13. ASSUME NEW s \in Sessions, DirectStart(h, s) PROVE HandlesFresh' /\ OneTimeUse'
  <2> DEFINE X == [handle[h] EXCEPT !.sess = s, !.pc = "directConsume", !.pos = 1]
  <2>1. X.pc = "directConsume" /\ X.pos = 1 /\ X.consumed = handle[h].consumed
    BY <1>1 DEF HandleState
  <2>2. handle[h].pc # "down"
    BY <1>13 DEF DirectStart
  <2>3. Fresh(X, useCount)
    <3>. HIDE DEF X
    <3>. QED
      BY <1>1, <2>1, <2>2 DEF Fresh
  <2>4. handle'[h] = X
    BY <1>13 DEF DirectStart, PromiseInv, DurableInv, TypeInv, TypeOK
  <2>. QED
    BY <1>2, <2>3, <2>4, FreshStep DEF PromiseInv, OneTimeUse
<1>. QED
  BY <1>3, <1>5, <1>6, <1>7, <1>9, <1>10, <1>11, <1>12, <1>13 DEF CallerStep

\* The consumption loop: a token this memory does not hold was never used.
LEMMA ConsumeFresh ==
  ASSUME OneHandle, PromiseInv, NEW h \in Handles,
         NEW next \in {"persistConsumed", "directHandOver"},
         handle[h].pc \in {"consume", "directConsume"},
         CurrentToken(h) \notin handle[h].consumed,
         handle' = TokenConsumed(h, next),
         useCount' = useCount
  PROVE  HandlesFresh' /\ OneTimeUse'
<1> DEFINE s == handle[h].sess
           n == Len(BatchOf[s])
           X == [handle[h] EXCEPT !.consumed = @ \cup {CurrentToken(h)}, !.pos = @ + 1,
                                  !.pc = IF handle[h].pos = n THEN next ELSE @]
<1>1. /\ handle[h] \in HandleState /\ handle[h].pos \in 1 .. n /\ s \in Sessions
      /\ Fresh(handle[h], useCount) /\ useCount \in [Tokens -> Nat]
  BY DEF PromiseInv, HandlesFresh, DurableInv, TypeInv, TypeOK, PosOK
<1>2. /\ X.sess = s /\ X.pos = handle[h].pos + 1
      /\ X.consumed = handle[h].consumed \cup {CurrentToken(h)}
      /\ X.pc = IF handle[h].pos = n THEN next ELSE handle[h].pc
  BY <1>1 DEF HandleState
<1>3. handle'[h] = X
  BY DEF TokenConsumed, PromiseInv, DurableInv, TypeInv, TypeOK
<1>. HIDE DEF X
<1>4. n \in Nat /\ CurrentToken(h) \in Tokens
  BY <1>1, BatchFacts DEF CurrentToken
<1>5. useCount[CurrentToken(h)] = 0
  BY <1>1, <1>4 DEF Fresh
<1>6. \A i \in 1 .. handle[h].pos :
        BatchOf[s][i] \in X.consumed /\ useCount[BatchOf[s][i]] = 0
  <2>1. \A i \in 1 .. handle[h].pos - 1 :
          BatchOf[s][i] \in handle[h].consumed /\ useCount[BatchOf[s][i]] = 0
    BY <1>1 DEF Fresh
  <2>2. BatchOf[s][handle[h].pos] \in X.consumed /\ useCount[BatchOf[s][handle[h].pos]] = 0
    BY <1>2, <1>5 DEF CurrentToken
  <2>3. ASSUME NEW i \in 1 .. handle[h].pos PROVE i \in 1 .. handle[h].pos - 1 \/ i = handle[h].pos
    BY <1>1, <1>4
  <2>. QED
    BY <1>2, <2>1, <2>2, <2>3
<1>7. Fresh(X, useCount)
  <2>1. \A t \in Tokens : useCount[t] > 0 => t \in X.consumed
    BY <1>1, <1>2 DEF Fresh
  <2>2. X.pos - 1 = handle[h].pos
    BY <1>1, <1>2, <1>4
  <2>3. X.pc = next => \A t \in BatchSet(s) : t \in X.consumed /\ useCount[t] = 0
    BY <1>2, <1>6 DEF BatchSet
  <2>. QED
    BY <1>2, <1>6, <2>1, <2>2, <2>3 DEF Fresh
<1>. QED
  BY <1>3, <1>7, FreshStep DEF PromiseInv, OneTimeUse

\* The batch is given to a backend: from zero uses to one, and remembered.
LEMMA UseFresh ==
  ASSUME OneHandle, PromiseInv, NEW h \in Handles, NEW X,
         handle' = [handle EXCEPT ![h] = X], X.consumed = handle[h].consumed, X.pc \in QuietPc,
         handle[h].pc \in {"handOver", "directHandOver"},
         CountUse(handle[h].sess)
  PROVE  HandlesFresh' /\ OneTimeUse'
<1>1. handle'[h] = X /\ Fresh(handle[h], useCount) /\ useCount \in [Tokens -> Nat]
  BY DEF PromiseInv, HandlesFresh, DurableInv, TypeInv, TypeOK
<1>2. \A t \in BatchSet(handle[h].sess) : t \in handle[h].consumed /\ useCount[t] = 0
  BY <1>1 DEF Fresh
<1>3. \A t \in Tokens :
        useCount'[t] = IF t \in BatchSet(handle[h].sess) THEN 1 ELSE useCount[t]
  BY <1>1, <1>2 DEF CountUse
<1>4. \A t \in Tokens : useCount'[t] > 0 => t \in X.consumed
  BY <1>1, <1>2, <1>3 DEF Fresh
<1>5. Fresh(X, useCount')
  BY <1>4 DEF Fresh, QuietPc
<1>6. OneTimeUse'
  BY <1>3 DEF PromiseInv, OneTimeUse
<1>. QED
  BY <1>1, <1>5, <1>6, FreshStep

LEMMA FinishStepFresh ==
  ASSUME OneHandle, PromiseInv, NEW h \in Handles, FinishStep(h)
  PROVE  HandlesFresh' /\ OneTimeUse'
<1>1. handle[h] \in HandleState /\ Fresh(handle[h], useCount)
  BY DEF PromiseInv, HandlesFresh, DurableInv, TypeInv, TypeOK
<1>2. handle[h].pc # "down"
  BY DEF FinishStep, RefuseToken, HandOver, ConsumeToken,
         PersistTokensConsumed, MarkInventory, RunSlot, PersistFinished, PersistFailed,
         FinalVerify
<1>3. CASE RefuseToken(h)
  BY <1>2, <1>3, FailCallFresh DEF RefuseToken, durable, history
<1>5. CASE HandOver(h)
  <2> DEFINE X == [handle[h] EXCEPT !.pc = "slot", !.pos = 1]
  <2>1. X.pc \in QuietPc /\ X.consumed = handle[h].consumed
    BY <1>1 DEF HandleState, QuietPc
  <2>2. handle' = [handle EXCEPT ![h] = X]
    BY <1>5 DEF HandOver
  <2>. HIDE DEF X
  <2>. QED
    BY <1>5, <2>1, <2>2, UseFresh DEF HandOver
<1>6. ASSUME NEW o \in Outcome, ConsumeToken(h, o) PROVE HandlesFresh' /\ OneTimeUse'
  <2>1. CASE o = "ok"
    BY <1>6, <2>1, ConsumeFresh DEF ConsumeToken, PersistConsumed, history
  <2>2. CASE o # "ok"
    BY <1>2, <1>6, <2>2, FailCallFresh DEF ConsumeToken, history
  <2>. QED
    BY <2>1, <2>2
<1>7. ASSUME NEW o \in Outcome, PersistTokensConsumed(h, o) PROVE HandlesFresh' /\ OneTimeUse'
  <2> DEFINE s == handle[h].sess
             X == [handle[h] EXCEPT !.cursor = CursorMemory(h, s, "TokensConsumed", o),
                                    !.pc = IF o = "ok" THEN "inventory" ELSE "idle",
                                    !.outcome = IF o = "ok" THEN @ ELSE "error",
                                    !.pos = 1]
  <2>1. X.consumed = handle[h].consumed /\ X.sess = s
        /\ X.pc = IF o = "ok" THEN "inventory" ELSE "idle"
    BY <1>1 DEF HandleState
  <2>2. handle'[h] = X /\ useCount' = useCount
    BY <1>7 DEF PersistTokensConsumed, history, PromiseInv, DurableInv, TypeInv, TypeOK
  <2>. HIDE DEF X
  <2>3. Fresh(X, useCount)
    BY <1>1, <1>7, <2>1 DEF PersistTokensConsumed, Fresh
  <2>. QED
    BY <2>2, <2>3, FreshStep DEF PromiseInv, OneTimeUse
<1>8. ASSUME NEW o \in Outcome, MarkInventory(h, o) PROVE HandlesFresh' /\ OneTimeUse'
  <2> DEFINE s == handle[h].sess
             i == handle[h].pos
             id == InventoryAt(s, i)
             Y == [handle[h] EXCEPT !.phase = "Failed", !.pc = "persistFailed",
                                    !.inventory = @ \cup {id}]
             W == [handle[h] EXCEPT !.inventory = @ \cup {id}, !.pos = i + 1,
                                    !.pc = IF i = InventoryCount(s) THEN "handOver" ELSE "inventory"]
             X == IF o # "ok" THEN Y ELSE W
  <2>1. X.consumed = handle[h].consumed /\ X.sess = s
        /\ X.pc \in {"persistFailed", "handOver", "inventory"}
    BY <1>1 DEF HandleState
  <2>2. handle'[h] = X /\ useCount' = useCount
    BY <1>8 DEF MarkInventory, FailCall, history, PromiseInv, DurableInv, TypeInv, TypeOK
  <2>. HIDE DEF X
  <2>3. Fresh(X, useCount)
    BY <1>1, <1>8, <2>1 DEF MarkInventory, Fresh
  <2>. QED
    BY <2>2, <2>3, FreshStep DEF PromiseInv, OneTimeUse
<1>9. ASSUME NEW o \in Outcome, NEW completes \in BOOLEAN, RunSlot(h, o, completes)
      PROVE  HandlesFresh' /\ OneTimeUse'
  <2> DEFINE c == CursorMemory(h, handle[h].sess, "TokensConsumed", o)
             X == IF completes
                  THEN [handle[h] EXCEPT !.cursor = c, !.pos = @ + 1,
                                         !.pc = IF handle[h].pos = 5 THEN "verify" ELSE "slot"]
                  ELSE [handle[h] EXCEPT !.phase = "Failed", !.pc = "persistFailed", !.cursor = c]
  <2>1. X.pc \in QuietPc /\ X.consumed = handle[h].consumed
    BY <1>1 DEF HandleState, QuietPc
  <2>2. handle' = [handle EXCEPT ![h] = X] /\ useCount' = useCount
    BY <1>9 DEF RunSlot, FailCall, history
  <2>. HIDE DEF X
  <2>. QED
    BY <1>2, <2>1, <2>2, QuietFresh
<1>10. ASSUME NEW o \in Outcome, PersistFinished(h, o) PROVE HandlesFresh' /\ OneTimeUse'
  <2> DEFINE X == [handle[h] EXCEPT !.cursor = CursorMemory(h, handle[h].sess, "Finished", o),
                                    !.pc = "idle",
                                    !.outcome = IF o = "ok" THEN "signature" ELSE "error"]
  <2>1. X.pc \in QuietPc /\ X.consumed = handle[h].consumed
    BY <1>1 DEF HandleState, QuietPc
  <2>2. handle' = [handle EXCEPT ![h] = X] /\ useCount' = useCount
    BY <1>10 DEF PersistFinished
  <2>. HIDE DEF X
  <2>. QED
    BY <1>2, <2>1, <2>2, QuietFresh
<1>11. ASSUME NEW o \in Outcome, PersistFailed(h, o) PROVE HandlesFresh' /\ OneTimeUse'
  <2> DEFINE X == [handle[h] EXCEPT !.cursor = CursorMemory(h, handle[h].sess, "Failed", o),
                                    !.pc = "idle", !.outcome = "error"]
  <2>1. X.pc \in QuietPc /\ X.consumed = handle[h].consumed
    BY <1>1 DEF HandleState, QuietPc
  <2>2. handle' = [handle EXCEPT ![h] = X] /\ useCount' = useCount
    BY <1>11 DEF PersistFailed, history
  <2>. HIDE DEF X
  <2>. QED
    BY <1>2, <2>1, <2>2, QuietFresh
<1>12. ASSUME NEW accepted \in BOOLEAN, FinalVerify(h, accepted)
       PROVE  HandlesFresh' /\ OneTimeUse'
  <2>1. useCount' = useCount
    BY <1>12 DEF FinalVerify, history
  <2>2. CASE accepted
    <3> DEFINE X == [handle[h] EXCEPT !.phase = "Finished", !.pc = "persistFinished"]
    <3>1. X.pc \in QuietPc /\ X.consumed = handle[h].consumed
      BY <1>1 DEF HandleState, QuietPc
    <3>2. handle' = [handle EXCEPT ![h] = X]
      BY <1>12, <2>2 DEF FinalVerify
    <3>. HIDE DEF X
    <3>. QED
      BY <1>2, <2>1, <3>1, <3>2, QuietFresh
  <2>3. CASE ~accepted
    BY <1>2, <1>12, <2>1, <2>3, FailCallFresh DEF FinalVerify
  <2>. QED
    BY <2>2, <2>3
<1>. QED
  BY <1>3, <1>5, <1>6, <1>7, <1>8, <1>9, <1>10, <1>11, <1>12 DEF FinishStep

LEMMA DirectStepFresh ==
  ASSUME OneHandle, PromiseInv, NEW h \in Handles, DirectStep(h)
  PROVE  HandlesFresh' /\ OneTimeUse'
<1>1. handle[h] \in HandleState /\ Fresh(handle[h], useCount)
  BY DEF PromiseInv, HandlesFresh, DurableInv, TypeInv, TypeOK
<1>2. ASSUME handle[h].pc # "down", handle' = DirectReturn(h), useCount' = useCount
      PROVE  HandlesFresh' /\ OneTimeUse'
  <2> DEFINE X == [handle[h] EXCEPT !.sess = NoSession, !.pc = "idle"]
  <2>1. X.pc \in QuietPc /\ X.consumed = handle[h].consumed
    BY <1>1 DEF HandleState, QuietPc
  <2>2. handle' = [handle EXCEPT ![h] = X]
    BY <1>2 DEF DirectReturn
  <2>. HIDE DEF X
  <2>. QED
    BY <1>2, <2>1, <2>2, QuietFresh
<1>3. ASSUME NEW o \in Outcome, DirectConsume(h, o) PROVE HandlesFresh' /\ OneTimeUse'
  <2>1. CASE o = "ok"
    BY <1>3, <2>1, ConsumeFresh DEF DirectConsume, PersistConsumed, history
  <2>2. CASE o # "ok"
    BY <1>2, <1>3, <2>2 DEF DirectConsume, history
  <2>. QED
    BY <2>1, <2>2
<1>4. CASE DirectRefuse(h)
  BY <1>2, <1>4 DEF DirectRefuse, history
<1>5. CASE DirectHandOver(h)
  <2> DEFINE X == [handle[h] EXCEPT !.pc = "directBackend"]
  <2>1. X.pc \in QuietPc /\ X.consumed = handle[h].consumed
    BY <1>1 DEF HandleState, QuietPc
  <2>2. handle' = [handle EXCEPT ![h] = X]
    BY <1>5 DEF DirectHandOver
  <2>. HIDE DEF X
  <2>. QED
    BY <1>5, <2>1, <2>2, UseFresh DEF DirectHandOver
<1>6. CASE DirectBackend(h)
  BY <1>2, <1>6 DEF DirectBackend, history
<1>. QED
  BY <1>3, <1>4, <1>5, <1>6 DEF DirectStep

LEMMA PromiseInit == Init => PromiseInv
<1>. SUFFICES ASSUME Init PROVE PromiseInv
  OBVIOUS
<1>1. HandlesFresh
  BY DEF Init, HandlesFresh, Fresh, DownHandle
<1>2. OneTimeUse
  BY DEF Init, OneTimeUse
<1>. QED
  BY <1>1, <1>2, DurableInit DEF PromiseInv

LEMMA PromiseNext ==
  ASSUME OneHandle
  PROVE  PromiseInv /\ [Next]_vars => PromiseInv'
<1>. SUFFICES ASSUME PromiseInv, [Next]_vars PROVE PromiseInv'
  OBVIOUS
<1>1. DurableInv'
  BY DurableNext DEF PromiseInv
<1>2. CASE UNCHANGED vars
  BY <1>1, <1>2 DEF vars, PromiseInv, HandlesFresh, OneTimeUse
<1>3. CASE Next
  BY <1>1, <1>3, CallerStepFresh, FinishStepFresh, DirectStepFresh DEF Next, PromiseInv
<1>. QED
  BY <1>2, <1>3

THEOREM PromiseInvariant ==
  ASSUME OneHandle
  PROVE  Spec => []PromiseInv
<1>1. Init => PromiseInv
  BY PromiseInit
<1>2. PromiseInv /\ [Next]_vars => PromiseInv'
  BY PromiseNext
<1>. QED
  BY <1>1, <1>2, PTL DEF Spec

\* One handle never gives a token to a signing backend twice, whichever entry
\* point is called and however its writes fail and its process restarts.
THEOREM OneTimeUseCorrect ==
  ASSUME OneHandle
  PROVE  Spec => []OneTimeUse
<1>1. PromiseInv => OneTimeUse
  BY DEF PromiseInv
<1>2. Spec => []PromiseInv
  BY PromiseInvariant
<1>. QED
  BY <1>1, <1>2, PTL

\* The batch of a call that is past its consumption loop stays durable and
\* unused until that very call hands it over.
THEOREM ClaimIsUnusedCorrect ==
  ASSUME OneHandle
  PROVE  Spec => []ClaimIsUnused
<1>1. PromiseInv => ClaimIsUnused
  BY DEF PromiseInv, HandlesFresh, Fresh, DurableInv, HandlesDurable, Durable, ClaimIsUnused
<1>2. Spec => []PromiseInv
  BY PromiseInvariant
<1>. QED
  BY <1>1, <1>2, PTL

(***************************************************************************)
(* Refinement.  An append to the consumed-token log is a Burn when the     *)
(* line is written and a stutter when it is not; handing the batch over is *)
(* a Use; every other step leaves both logs of the promise alone.          *)
(***************************************************************************)
LEMMA BurnStep ==
  ASSUME NEW h \in Handles, NEW o \in Outcome, CurrentToken(h) \in Tokens,
         PersistConsumed(h, CurrentToken(h), o), useCount' = useCount
  PROVE  [Promise!Next]_Promise!vars
<1>1. CASE Written(o)
  BY <1>1 DEF PersistConsumed, Promise!Next, Promise!Burn
<1>2. CASE ~Written(o)
  BY <1>2 DEF PersistConsumed, Promise!vars
<1>. QED
  BY <1>1, <1>2

LEMMA HandOverIsUse ==
  ASSUME PromiseInv, NEW h \in Handles, handle[h].pc \in {"handOver", "directHandOver"},
         CountUse(handle[h].sess), consumedFile' = consumedFile
  PROVE  Promise!Next
<1> DEFINE given == BatchSet(handle[h].sess)
<1>1. handle[h].sess \in Sessions /\ useCount \in [Tokens -> Nat]
  BY DEF PromiseInv, DurableInv, TypeInv, TypeOK, PosOK
<1>2. given \subseteq Tokens
  BY <1>1, BatchFacts DEF BatchSet
<1>3. given \subseteq consumedFile /\ \A t \in given : useCount[t] = 0
  BY DEF PromiseInv, HandlesFresh, Fresh, DurableInv, HandlesDurable, Durable
<1>4. useCount' = [t \in Tokens |-> IF t \in given THEN 1 ELSE useCount[t]]
  <2>1. \A t \in given : useCount[t] + 1 = 1
    BY <1>3
  <2>. QED
    BY <2>1 DEF CountUse
<1>5. Promise!Use(given)
  BY <1>3, <1>4 DEF Promise!Use
<1>. QED
  BY <1>1, <1>5 DEF Promise!Next

LEMMA RefinesInit == Init => Promise!Init
  BY DEF Init, Promise!Init

LEMMA RefinesNext == PromiseInv /\ [Next]_vars => [Promise!Next]_Promise!vars
<1>. SUFFICES ASSUME PromiseInv, [Next]_vars PROVE [Promise!Next]_Promise!vars
  OBVIOUS
<1>1. CASE UNCHANGED vars
  BY <1>1 DEF vars, Promise!vars
<1>2. ASSUME NEW h \in Handles, CallerStep(h) PROVE [Promise!Next]_Promise!vars
  BY <1>2 DEF CallerStep, OpenStores, Crash, CloseSession, FinishStart, WireMessage, StartNew,
              StartHydrated, StartRefused, DirectStart, durable, history, Promise!vars
<1>3. ASSUME NEW h \in Handles, handle[h].pc \in {"consume", "directConsume"}
      PROVE  CurrentToken(h) \in Tokens
  BY <1>3, BatchFacts DEF CurrentToken, PromiseInv, DurableInv, TypeInv, PosOK
<1>4. ASSUME NEW h \in Handles, FinishStep(h) PROVE [Promise!Next]_Promise!vars
  <2>1. CASE HandOver(h)
    BY <2>1, HandOverIsUse DEF HandOver, durable
  <2>2. ASSUME NEW o \in Outcome, ConsumeToken(h, o) PROVE [Promise!Next]_Promise!vars
    BY <1>3, <2>2, BurnStep DEF ConsumeToken, history
  <2>. QED
    BY <1>4, <2>1, <2>2
       DEF FinishStep, RefuseToken, PersistTokensConsumed, MarkInventory,
           RunSlot, PersistFinished, PersistFailed, FinalVerify, durable, history, Promise!vars
<1>5. ASSUME NEW h \in Handles, DirectStep(h) PROVE [Promise!Next]_Promise!vars
  <2>1. CASE DirectHandOver(h)
    BY <2>1, HandOverIsUse DEF DirectHandOver, durable
  <2>2. ASSUME NEW o \in Outcome, DirectConsume(h, o) PROVE [Promise!Next]_Promise!vars
    BY <1>3, <2>2, BurnStep DEF DirectConsume, history
  <2>. QED
    BY <1>5, <2>1, <2>2 DEF DirectStep, DirectRefuse, DirectBackend, durable, history, Promise!vars
<1>. QED
  BY <1>1, <1>2, <1>4, <1>5 DEF Next

\* The logs and the calls above implement the promise: a token is burnt for
\* good before it is used, and used at most once.
THEOREM ImplementsPromiseCorrect ==
  ASSUME OneHandle
  PROVE  Spec => ImplementsPromise
<1>1. Spec => []PromiseInv
  BY PromiseInvariant
<1>. QED
  BY <1>1, RefinesInit, RefinesNext, PTL DEF Spec, ImplementsPromise, Promise!Spec

(***************************************************************************)
(* The end of a session.  Once the backend has run, the cursor of the file *)
(* and the one in memory are past Started, and nothing can write an        *)
(* earlier one: a session object that has run is no longer Ready, and one  *)
(* that is to run its backend has not run it before.                       *)
(***************************************************************************)
Past == {"TokensConsumed", "Finished", "Failed"}

BeforeRun == {"consume", "persistConsumed", "inventory", "handOver"}
Running == {"slot", "verify", "persistFinished"}

Over(hs, file, rn, rt) ==
  /\ hs.pc # "down" => \A s \in rn : hs.cursor[s] \in Past
  /\ hs.pc = "idle" /\ hs.sess \in rn => hs.phase # "Ready"
  /\ hs.pc \in BeforeRun => hs.sess \notin rn
  /\ hs.pc \in {"inventory", "handOver"} =>
       file[hs.sess] = "TokensConsumed" /\ hs.cursor[hs.sess] = "TokensConsumed"
  /\ hs.pc \in Running => hs.sess \in rn \ rt
  /\ hs.pc = "persistFailed" => hs.sess \notin rt /\ hs.phase = "Failed"
  /\ hs.pc = "persistFinished" => hs.phase = "Finished"

SessionsOver ==
  /\ returned \subseteq ran
  /\ \A s \in ran : cursorFile[s] \in Past
  /\ \A s \in returned : cursorFile[s] = "Finished"

OverInv ==
  /\ TypeInv /\ SessionsOver
  /\ \A h \in Handles : Over(handle[h], cursorFile, ran, returned)

\* A step of the one handle, to a state X.
OverTo(X) == Over(X, cursorFile', ran', returned')

LEMMA OverStep ==
  ASSUME OneHandle, TypeInv, NEW h \in Handles, NEW X,
         handle' = [handle EXCEPT ![h] = X], OverTo(X)
  PROVE  \A g \in Handles : Over(handle'[g], cursorFile', ran', returned')
<1>1. handle'[h] = X /\ \A g \in Handles : g = h
  BY DEF OneHandle, TypeInv, TypeOK
<1>. QED
  BY <1>1 DEF OverTo

LEMMA HandleOver ==
  ASSUME OverInv, NEW h \in Handles
  PROVE  /\ handle[h] \in HandleState
         /\ handle[h].pc \notin {"down", "idle"} => handle[h].sess \in Sessions
         /\ Over(handle[h], cursorFile, ran, returned)
         /\ SessionsOver /\ ran \subseteq Sessions
         /\ cursorFile \in [Sessions -> CursorPhase]
         /\ handle[h].cursor \in [Sessions -> CursorPhase]
  BY DEF OverInv, TypeInv, TypeOK, PosOK, HandleState

\* A cursor that is written for a session that has not run, or is past Started, and for
\* none that has returned.
LEMMA CursorWrite ==
  ASSUME OverInv, NEW h \in Handles, handle[h].pc # "down",
         NEW s \in Sessions, NEW phase \in CursorPhase, NEW o \in Outcome,
         PersistCursor(s, phase, o), s \in ran => phase \in Past
  PROVE  /\ \A t \in ran : cursorFile'[t] \in Past /\ CursorMemory(h, s, phase, o)[t] \in Past
         /\ s \notin returned => \A t \in returned : cursorFile'[t] = "Finished"
         /\ o = "ok" => cursorFile'[s] = phase /\ CursorMemory(h, s, phase, o)[s] = phase
<1> DEFINE c == CursorMemory(h, s, phase, o)
<1>1. /\ ran \subseteq Sessions /\ returned \subseteq ran
      /\ cursorFile \in [Sessions -> CursorPhase]
      /\ handle[h].cursor \in [Sessions -> CursorPhase]
      /\ \A t \in ran : cursorFile[t] \in Past /\ handle[h].cursor[t] \in Past
      /\ \A t \in returned : cursorFile[t] = "Finished"
  BY HandleOver DEF Over, SessionsOver
<1>2. /\ cursorFile' \in {cursorFile, [cursorFile EXCEPT ![s] = phase]}
      /\ o = "ok" => cursorFile' = [cursorFile EXCEPT ![s] = phase]
  BY DEF PersistCursor, Written
<1>3. /\ c \in {handle[h].cursor, [handle[h].cursor EXCEPT ![s] = phase]}
      /\ o = "ok" => c = [handle[h].cursor EXCEPT ![s] = phase]
  BY DEF CursorMemory
<1>. HIDE DEF c
<1>4. ASSUME NEW t \in ran PROVE cursorFile'[t] \in Past /\ c[t] \in Past
  BY <1>1, <1>2, <1>3
<1>5. ASSUME s \notin returned, NEW t \in returned PROVE cursorFile'[t] = "Finished"
  BY <1>1, <1>2, <1>5
<1>6. o = "ok" => cursorFile'[s] = phase /\ c[s] = phase
  BY <1>1, <1>2, <1>3
<1>. QED
  BY <1>4, <1>5, <1>6 DEF c

OverKept == SessionsOver' /\ \A g \in Handles : Over(handle'[g], cursorFile', ran', returned')

\* A step that writes no cursor, runs and returns nothing, to a state that is outside
\* every call.
LEMMA IdleOver ==
  ASSUME OneHandle, OverInv, NEW h \in Handles, NEW X,
         handle' = [handle EXCEPT ![h] = X],
         UNCHANGED <<cursorFile, ran, returned>>,
         OverTo(X)
  PROVE  OverKept
<1>1. SessionsOver'
  BY DEF OverInv, SessionsOver
<1>. QED
  BY <1>1, OverStep DEF OverInv, OverKept

LEMMA DownOver == OverTo(DownHandle)
  BY DEF OverTo, Over, DownHandle, BeforeRun, Running

LEMMA FailCallOver ==
  ASSUME OneHandle, OverInv, NEW h \in Handles, UNCHANGED <<cursorFile, ran, returned>>,
         handle[h].pc \in {"consume", "inventory", "verify"},
         handle' = FailCall(h)
  PROVE  OverKept
<1> DEFINE X == [handle[h] EXCEPT !.phase = "Failed", !.pc = "persistFailed"]
<1>1. handle[h] \in HandleState /\ Over(handle[h], cursorFile, ran, returned) /\ SessionsOver
  BY HandleOver
<1>2. /\ X.pc = "persistFailed" /\ X.phase = "Failed" /\ X.sess = handle[h].sess
      /\ X.cursor = handle[h].cursor
  BY <1>1 DEF HandleState
<1>3. handle' = [handle EXCEPT ![h] = X]
  BY DEF FailCall
<1>. HIDE DEF X
<1>4. OverTo(X)
  BY <1>1, <1>2 DEF OverTo, Over, BeforeRun, Running, SessionsOver
<1>. QED
  BY <1>3, <1>4, IdleOver

LEMMA CallerStepOver ==
  ASSUME OneHandle, OverInv, NEW h \in Handles, CallerStep(h)
  PROVE  OverKept
<1>1. /\ handle[h] \in HandleState /\ Over(handle[h], cursorFile, ran, returned)
      /\ SessionsOver /\ ran \subseteq Sessions
  BY HandleOver
<1>2. ASSUME UNCHANGED <<cursorFile, ran, returned>>,
             handle' = [handle EXCEPT ![h] = DownHandle]
      PROVE  OverKept
  BY <1>2, DownOver, IdleOver
<1>3. CASE OpenStores(h)
  <2> DEFINE X == [DownHandle EXCEPT !.pc = "idle", !.consumed = ReplayedTokens,
                                     !.cursor = cursorFile, !.inventory = inventoryFile]
  <2>1. X.pc = "idle" /\ X.cursor = cursorFile /\ X.sess = NoSession
    BY DEF DownHandle
  <2>2. handle' = [handle EXCEPT ![h] = X] /\ UNCHANGED <<cursorFile, ran, returned>>
    BY <1>3 DEF OpenStores, durable, history
  <2>. HIDE DEF X
  <2>3. OverTo(X)
    BY <1>1, <2>1, <2>2, NoSessionAssumption
    DEF OverTo, Over, BeforeRun, Running, SessionsOver
  <2>. QED
    BY <2>2, <2>3, IdleOver
<1>4. CASE Crash(h)
  BY <1>2, <1>4 DEF Crash, durable, history
<1>5. CASE CloseSession(h)
  <2> DEFINE X == [handle[h] EXCEPT !.sess = NoSession]
  <2>1. X.pc = "idle" /\ X.cursor = handle[h].cursor /\ X.sess = NoSession
    BY <1>1, <1>5 DEF CloseSession, HandleState
  <2>2. handle' = [handle EXCEPT ![h] = X] /\ UNCHANGED <<cursorFile, ran, returned>>
        /\ handle[h].pc = "idle"
    BY <1>5 DEF CloseSession, durable, history
  <2>. HIDE DEF X
  <2>3. OverTo(X)
    BY <1>1, <2>1, <2>2, NoSessionAssumption DEF OverTo, Over, BeforeRun, Running
  <2>. QED
    BY <2>2, <2>3, IdleOver
<1>6. CASE FinishStart(h)
  <2> DEFINE X == [handle[h] EXCEPT !.batch = FALSE, !.pc = "consume", !.pos = 1]
  <2>1. X.pc = "consume" /\ X.cursor = handle[h].cursor /\ X.sess = handle[h].sess
    BY <1>1 DEF HandleState
  <2>2. handle' = [handle EXCEPT ![h] = X] /\ UNCHANGED <<cursorFile, ran, returned>>
        /\ handle[h].pc = "idle" /\ handle[h].phase = "Ready"
    BY <1>6 DEF FinishStart, durable, history
  <2>. HIDE DEF X
  <2>3. OverTo(X)
    BY <1>1, <2>1, <2>2 DEF OverTo, Over, BeforeRun, Running
  <2>. QED
    BY <2>2, <2>3, IdleOver
<1>7. ASSUME NEW o \in Outcome, WireMessage(h, o) PROVE OverKept
  <2> DEFINE s == handle[h].sess
             X == [handle[h] EXCEPT !.cursor = CursorMemory(h, s, "Started", o)]
  <2>1. /\ X.pc = "idle" /\ X.cursor = CursorMemory(h, s, "Started", o) /\ X.sess = s
        /\ X.phase = "Ready"
    BY <1>1, <1>7 DEF WireMessage, HandleState
  <2>2. /\ handle' = [handle EXCEPT ![h] = X] /\ UNCHANGED <<ran, returned>>
        /\ PersistCursor(s, "Started", o) /\ handle[h].pc = "idle"
    BY <1>7 DEF WireMessage, history
  <2>3. s \in Sessions /\ s \notin ran /\ s \notin returned
    BY <1>1, <1>7 DEF WireMessage, Over, HandleState, SessionsOver
  <2>. HIDE DEF X, s
  <2>4. /\ \A t \in ran : cursorFile'[t] \in Past /\ CursorMemory(h, s, "Started", o)[t] \in Past
        /\ \A t \in returned : cursorFile'[t] = "Finished"
    BY <2>2, <2>3, CursorWrite DEF CursorPhase
  <2>5. OverTo(X) /\ SessionsOver'
    BY <1>1, <2>1, <2>2, <2>3, <2>4 DEF OverTo, Over, BeforeRun, Running, SessionsOver
  <2>. QED
    BY <2>2, <2>5, OverStep DEF OverInv, OverKept
<1>8. ASSUME NEW s \in Sessions, NEW c, handle[h].pc = "idle", s \notin ran,
             \A t \in ran : c[t] \in Past, UNCHANGED <<ran, returned>>,
             handle' = [handle EXCEPT ![h] = Opened(h, s, c)], SessionsOver'
      PROVE  OverKept
  <2>1. /\ Opened(h, s, c).pc = "idle" /\ Opened(h, s, c).cursor = c
        /\ Opened(h, s, c).sess = s
    BY <1>1, <1>8 DEF Opened, HandleState
  <2>2. OverTo(Opened(h, s, c))
    BY <1>8, <2>1 DEF OverTo, Over, BeforeRun, Running
  <2>. QED
    BY <1>8, <2>2, OverStep DEF OverInv, OverKept
<1>9. ASSUME NEW s \in Sessions, NEW o \in Outcome, StartNew(h, s, o) PROVE OverKept
  <2>1. /\ handle[h].pc = "idle" /\ PersistCursor(s, "Started", o)
        /\ UNCHANGED <<ran, returned>>
        /\ handle' = IF o = "ok"
                     THEN [handle EXCEPT ![h] = Opened(h, s, CursorMemory(h, s, "Started", o))]
                     ELSE [handle EXCEPT ![h] = DownHandle]
    BY <1>9 DEF StartNew, history
  <2>2. s \notin ran /\ s \notin returned
    BY <1>1, <1>9 DEF StartNew, Over, Past, SessionsOver
  <2>3. /\ \A t \in ran : cursorFile'[t] \in Past /\ CursorMemory(h, s, "Started", o)[t] \in Past
        /\ \A t \in returned : cursorFile'[t] = "Finished"
    BY <2>1, <2>2, CursorWrite DEF CursorPhase
  <2>4. SessionsOver'
    BY <1>1, <2>1, <2>3 DEF SessionsOver
  <2>5. CASE o = "ok"
    BY <1>8, <2>1, <2>2, <2>3, <2>4, <2>5
  <2>6. CASE o # "ok"
    BY <2>1, <2>4, <2>6, DownOver, OverStep DEF OverInv, OverKept
  <2>. QED
    BY <2>5, <2>6
<1>10. ASSUME NEW s \in Sessions, StartHydrated(h, s) PROVE OverKept
  <2>1. /\ handle[h].pc = "idle" /\ handle[h].cursor[s] = "Started"
        /\ UNCHANGED <<cursorFile, ran, returned>>
        /\ handle' = [handle EXCEPT ![h] = Opened(h, s, handle[h].cursor)]
    BY <1>10 DEF StartHydrated, durable, history
  <2>2. s \notin ran /\ \A t \in ran : handle[h].cursor[t] \in Past
    BY <1>1, <2>1 DEF Over, Past
  <2>3. SessionsOver'
    BY <1>1, <2>1 DEF SessionsOver
  <2>. QED
    BY <1>8, <2>1, <2>2, <2>3
<1>11. ASSUME NEW s \in Sessions, StartRefused(h, s) PROVE OverKept
  BY <1>2, <1>11 DEF StartRefused, durable, history
<1>12. ASSUME NEW s \in Sessions, DirectStart(h, s) PROVE OverKept
  <2> DEFINE X == [handle[h] EXCEPT !.sess = s, !.pc = "directConsume", !.pos = 1]
  <2>1. X.pc = "directConsume" /\ X.cursor = handle[h].cursor
    BY <1>1 DEF HandleState
  <2>2. handle' = [handle EXCEPT ![h] = X] /\ UNCHANGED <<cursorFile, ran, returned>>
        /\ handle[h].pc = "idle"
    BY <1>12 DEF DirectStart, durable, history
  <2>. HIDE DEF X
  <2>3. OverTo(X)
    BY <1>1, <2>1, <2>2 DEF OverTo, Over, BeforeRun, Running
  <2>. QED
    BY <2>2, <2>3, IdleOver
<1>. QED
  BY <1>3, <1>4, <1>5, <1>6, <1>7, <1>9, <1>10, <1>11, <1>12 DEF CallerStep

\* A cursor past Started that a call writes for its session, which has not returned.
LEMMA CallWrites ==
  ASSUME OneHandle, OverInv, NEW h \in Handles, NEW o \in Outcome,
         NEW phase \in Past, PersistCursor(handle[h].sess, phase, o),
         handle[h].pc \notin {"down", "idle"}, handle[h].sess \notin returned, ran' = ran
  PROVE  /\ \A t \in ran : /\ cursorFile'[t] \in Past
                           /\ CursorMemory(h, handle[h].sess, phase, o)[t] \in Past
         /\ \A t \in returned : cursorFile'[t] = "Finished"
         /\ o = "ok" => /\ cursorFile'[handle[h].sess] = phase
                        /\ CursorMemory(h, handle[h].sess, phase, o)[handle[h].sess] = phase
<1>1. handle[h].sess \in Sessions /\ phase \in CursorPhase
  BY HandleOver DEF Past, CursorPhase
<1>. QED
  BY <1>1, CursorWrite

LEMMA FinishStepOver ==
  ASSUME OneHandle, OverInv, NEW h \in Handles, FinishStep(h)
  PROVE  OverKept
<1> DEFINE s == handle[h].sess
<1>1. /\ handle[h] \in HandleState /\ Over(handle[h], cursorFile, ran, returned)
      /\ SessionsOver /\ ran \subseteq Sessions
      /\ handle[h].pc \notin {"down", "idle"} => s \in Sessions
  BY HandleOver
<1>2. s \in returned => s \in ran
  BY <1>1 DEF SessionsOver
<1>3. CASE RefuseToken(h)
  BY <1>3, FailCallOver DEF RefuseToken, durable, history
<1>4. CASE HandOver(h)
  <2> DEFINE X == [handle[h] EXCEPT !.pc = "slot", !.pos = 1]
  <2>1. X.pc = "slot" /\ X.cursor = handle[h].cursor /\ X.sess = s
    BY <1>1 DEF HandleState
  <2>2. /\ handle' = [handle EXCEPT ![h] = X] /\ UNCHANGED <<cursorFile, returned>>
        /\ ran' = ran \cup {s} /\ handle[h].pc = "handOver"
    BY <1>4 DEF HandOver, durable
  <2>. HIDE DEF X
  <2>3. s \notin ran /\ cursorFile[s] = "TokensConsumed"
        /\ handle[h].cursor[s] = "TokensConsumed"
    BY <1>1, <2>2 DEF Over, BeforeRun
  <2>4. OverTo(X) /\ SessionsOver'
    BY <1>1, <1>2, <2>1, <2>2, <2>3 DEF OverTo, Over, BeforeRun, Running, SessionsOver, Past
  <2>. QED
    BY <2>2, <2>4, OverStep DEF OverInv, OverKept
<1>5. ASSUME NEW o \in Outcome, ConsumeToken(h, o) PROVE OverKept
  <2>1. handle[h].pc = "consume" /\ UNCHANGED <<cursorFile, ran, returned>>
    BY <1>5 DEF ConsumeToken, history
  <2>2. CASE o = "ok"
    <3> DEFINE X == [handle[h] EXCEPT !.consumed = @ \cup {CurrentToken(h)}, !.pos = @ + 1,
                       !.pc = IF handle[h].pos = Len(BatchOf[s]) THEN "persistConsumed" ELSE @]
    <3>1. X.pc \in {"consume", "persistConsumed"} /\ X.cursor = handle[h].cursor /\ X.sess = s
      BY <1>1, <2>1 DEF HandleState
    <3>2. handle' = [handle EXCEPT ![h] = X]
      BY <1>5, <2>2 DEF ConsumeToken, TokenConsumed
    <3>. HIDE DEF X
    <3>3. OverTo(X)
      BY <1>1, <2>1, <3>1 DEF OverTo, Over, BeforeRun, Running
    <3>. QED
      BY <2>1, <3>2, <3>3, IdleOver
  <2>3. CASE o # "ok"
    BY <1>5, <2>1, <2>3, FailCallOver DEF ConsumeToken
  <2>. QED
    BY <2>2, <2>3
<1>6. ASSUME NEW o \in Outcome, PersistTokensConsumed(h, o) PROVE OverKept
  <2> DEFINE c == CursorMemory(h, s, "TokensConsumed", o)
             X == [handle[h] EXCEPT !.cursor = c,
                                    !.pc = IF o = "ok" THEN "inventory" ELSE "idle",
                                    !.outcome = IF o = "ok" THEN @ ELSE "error",
                                    !.pos = 1]
  <2>1. /\ X.cursor = c /\ X.sess = s
        /\ X.pc = IF o = "ok" THEN "inventory" ELSE "idle"
    BY <1>1 DEF HandleState
  <2>2. /\ handle' = [handle EXCEPT ![h] = X] /\ UNCHANGED <<ran, returned>>
        /\ PersistCursor(s, "TokensConsumed", o) /\ handle[h].pc = "persistConsumed"
    BY <1>6 DEF PersistTokensConsumed, history
  <2>. HIDE DEF X
  <2>3. s \notin ran /\ s \notin returned
    BY <1>1, <1>2, <2>2 DEF Over, BeforeRun
  <2>4. /\ \A t \in ran : cursorFile'[t] \in Past /\ c[t] \in Past
        /\ \A t \in returned : cursorFile'[t] = "Finished"
        /\ o = "ok" => cursorFile'[s] = "TokensConsumed" /\ c[s] = "TokensConsumed"
    BY <2>2, <2>3, CallWrites DEF Past
  <2>. HIDE DEF c
  <2>5. OverTo(X) /\ SessionsOver'
    BY <1>1, <2>1, <2>2, <2>3, <2>4 DEF OverTo, Over, BeforeRun, Running, SessionsOver
  <2>. QED
    BY <2>2, <2>5, OverStep DEF OverInv, OverKept
<1>7. ASSUME NEW o \in Outcome, MarkInventory(h, o) PROVE OverKept
  <2> DEFINE i == handle[h].pos
             id == InventoryAt(s, i)
             Y == [handle[h] EXCEPT !.phase = "Failed", !.pc = "persistFailed",
                                    !.inventory = @ \cup {id}]
             W == [handle[h] EXCEPT !.inventory = @ \cup {id}, !.pos = i + 1,
                                    !.pc = IF i = InventoryCount(s) THEN "handOver" ELSE "inventory"]
  <2>1. handle[h].pc = "inventory" /\ UNCHANGED <<cursorFile, ran, returned>>
    BY <1>7 DEF MarkInventory, history
  <2>2. CASE o # "ok"
    <3>1. /\ Y.pc = "persistFailed" /\ Y.phase = "Failed" /\ Y.sess = s
          /\ Y.cursor = handle[h].cursor
      BY <1>1 DEF HandleState
    <3>2. handle' = [handle EXCEPT ![h] = Y]
      BY <1>7, <2>2 DEF MarkInventory, FailCall, OverInv, TypeInv, TypeOK
    <3>. HIDE DEF Y
    <3>3. OverTo(Y)
      BY <1>1, <1>2, <2>1, <3>1 DEF OverTo, Over, BeforeRun, Running
    <3>. QED
      BY <2>1, <3>2, <3>3, IdleOver
  <2>3. CASE o = "ok"
    <3>1. W.pc \in {"handOver", "inventory"} /\ W.sess = s /\ W.cursor = handle[h].cursor
      BY <1>1 DEF HandleState
    <3>2. handle' = [handle EXCEPT ![h] = W]
      BY <1>7, <2>3 DEF MarkInventory
    <3>. HIDE DEF W
    <3>3. OverTo(W)
      BY <1>1, <2>1, <3>1 DEF OverTo, Over, BeforeRun, Running
    <3>. QED
      BY <2>1, <3>2, <3>3, IdleOver
  <2>. QED
    BY <2>2, <2>3
<1>8. ASSUME NEW o \in Outcome, NEW completes \in BOOLEAN, RunSlot(h, o, completes)
      PROVE  OverKept
  <2> DEFINE c == CursorMemory(h, s, "TokensConsumed", o)
             Y == [handle[h] EXCEPT !.cursor = c, !.pos = handle[h].pos + 1,
                                    !.pc = IF handle[h].pos = 5 THEN "verify" ELSE "slot"]
             W == [handle[h] EXCEPT !.phase = "Failed", !.pc = "persistFailed", !.cursor = c]
  <2>1. /\ UNCHANGED <<ran, returned>> /\ handle[h].pc = "slot"
        /\ PersistCursor(s, "TokensConsumed", o)
    BY <1>8 DEF RunSlot, history
  <2>2. s \in ran /\ s \notin returned
    BY <1>1, <2>1 DEF Over, Running
  <2>3. /\ \A t \in ran : cursorFile'[t] \in Past /\ c[t] \in Past
        /\ \A t \in returned : cursorFile'[t] = "Finished"
    BY <2>1, <2>2, CallWrites DEF Past
  <2>4. CASE completes
    <3>1. Y.pc \in {"verify", "slot"} /\ Y.sess = s /\ Y.cursor = c
      BY <1>1 DEF HandleState
    <3>2. handle' = [handle EXCEPT ![h] = Y]
      BY <1>8, <2>4 DEF RunSlot
    <3>. HIDE DEF Y, c
    <3>3. OverTo(Y) /\ SessionsOver'
      BY <1>1, <2>1, <2>2, <2>3, <3>1 DEF OverTo, Over, BeforeRun, Running, SessionsOver
    <3>. QED
      BY <3>2, <3>3, OverStep DEF OverInv, OverKept
  <2>5. CASE ~completes
    <3>1. W.pc = "persistFailed" /\ W.phase = "Failed" /\ W.sess = s /\ W.cursor = c
      BY <1>1 DEF HandleState
    <3>2. handle' = [handle EXCEPT ![h] = W]
      BY <1>8, <2>5 DEF RunSlot, FailCall, OverInv, TypeInv, TypeOK
    <3>. HIDE DEF W, c
    <3>3. OverTo(W) /\ SessionsOver'
      BY <1>1, <2>1, <2>2, <2>3, <3>1 DEF OverTo, Over, BeforeRun, Running, SessionsOver
    <3>. QED
      BY <3>2, <3>3, OverStep DEF OverInv, OverKept
  <2>. QED
    BY <2>4, <2>5
<1>9. ASSUME NEW o \in Outcome, PersistFinished(h, o) PROVE OverKept
  <2> DEFINE c == CursorMemory(h, s, "Finished", o)
             X == [handle[h] EXCEPT !.cursor = c, !.pc = "idle",
                                    !.outcome = IF o = "ok" THEN "signature" ELSE "error"]
  <2>1. X.pc = "idle" /\ X.sess = s /\ X.cursor = c /\ X.phase = handle[h].phase
    BY <1>1 DEF HandleState
  <2>2. /\ handle' = [handle EXCEPT ![h] = X] /\ ran' = ran
        /\ returned' = IF o = "ok" THEN returned \cup {s} ELSE returned
        /\ PersistCursor(s, "Finished", o) /\ handle[h].pc = "persistFinished"
    BY <1>9 DEF PersistFinished
  <2>. HIDE DEF X
  <2>3. s \in ran /\ s \notin returned /\ handle[h].phase = "Finished"
    BY <1>1, <2>2 DEF Over, Running
  <2>4. /\ \A t \in ran : cursorFile'[t] \in Past /\ c[t] \in Past
        /\ \A t \in returned : cursorFile'[t] = "Finished"
        /\ o = "ok" => cursorFile'[s] = "Finished"
    BY <2>2, <2>3, CallWrites DEF Past
  <2>. HIDE DEF c
  <2>5. OverTo(X)
    BY <1>1, <2>1, <2>2, <2>3, <2>4 DEF OverTo, Over, BeforeRun, Running
  <2>6. SessionsOver'
    BY <1>1, <2>2, <2>3, <2>4 DEF SessionsOver
  <2>. QED
    BY <2>2, <2>5, <2>6, OverStep DEF OverInv, OverKept
<1>10. ASSUME NEW o \in Outcome, PersistFailed(h, o) PROVE OverKept
  <2> DEFINE c == CursorMemory(h, s, "Failed", o)
             X == [handle[h] EXCEPT !.cursor = c, !.pc = "idle", !.outcome = "error"]
  <2>1. X.pc = "idle" /\ X.sess = s /\ X.cursor = c /\ X.phase = handle[h].phase
    BY <1>1 DEF HandleState
  <2>2. /\ handle' = [handle EXCEPT ![h] = X] /\ UNCHANGED <<ran, returned>>
        /\ PersistCursor(s, "Failed", o) /\ handle[h].pc = "persistFailed"
    BY <1>10 DEF PersistFailed, history
  <2>. HIDE DEF X
  <2>3. s \notin returned /\ handle[h].phase = "Failed"
    BY <1>1, <2>2 DEF Over
  <2>4. /\ \A t \in ran : cursorFile'[t] \in Past /\ c[t] \in Past
        /\ \A t \in returned : cursorFile'[t] = "Finished"
    BY <2>2, <2>3, CallWrites DEF Past
  <2>. HIDE DEF c
  <2>5. OverTo(X) /\ SessionsOver'
    BY <1>1, <2>1, <2>2, <2>3, <2>4 DEF OverTo, Over, BeforeRun, Running, SessionsOver
  <2>. QED
    BY <2>2, <2>5, OverStep DEF OverInv, OverKept
<1>11. ASSUME NEW accepted \in BOOLEAN, FinalVerify(h, accepted) PROVE OverKept
  <2>1. handle[h].pc = "verify" /\ UNCHANGED <<cursorFile, ran, returned>>
    BY <1>11 DEF FinalVerify, durable, history
  <2>2. CASE accepted
    <3> DEFINE X == [handle[h] EXCEPT !.phase = "Finished", !.pc = "persistFinished"]
    <3>1. /\ X.pc = "persistFinished" /\ X.phase = "Finished" /\ X.sess = s
          /\ X.cursor = handle[h].cursor
      BY <1>1 DEF HandleState
    <3>2. handle' = [handle EXCEPT ![h] = X]
      BY <1>11, <2>2 DEF FinalVerify
    <3>. HIDE DEF X
    <3>3. OverTo(X)
      BY <1>1, <2>1, <3>1 DEF OverTo, Over, BeforeRun, Running
    <3>. QED
      BY <2>1, <3>2, <3>3, IdleOver
  <2>3. CASE ~accepted
    BY <1>11, <2>1, <2>3, FailCallOver DEF FinalVerify
  <2>. QED
    BY <2>2, <2>3
<1>. QED
  BY <1>3, <1>4, <1>5, <1>6, <1>7, <1>8, <1>9, <1>10, <1>11 DEF FinishStep

LEMMA DirectStepOver ==
  ASSUME OneHandle, OverInv, NEW h \in Handles, DirectStep(h)
  PROVE  OverKept
<1>1. /\ handle[h] \in HandleState /\ Over(handle[h], cursorFile, ran, returned)
      /\ handle[h].pc \in {"directConsume", "directHandOver", "directBackend"}
      /\ UNCHANGED <<cursorFile, ran, returned>>
  BY HandleOver DEF DirectStep, DirectConsume, DirectRefuse, DirectHandOver, DirectBackend,
     durable, history
<1>2. ASSUME NEW X, handle' = [handle EXCEPT ![h] = X], X.cursor = handle[h].cursor,
             \/ X.pc = "idle" /\ X.sess = NoSession
             \/ X.pc \in {"directConsume", "directHandOver", "directBackend"}
      PROVE  OverKept
  <2>1. NoSession \notin ran
    BY HandleOver, NoSessionAssumption
  <2>2. OverTo(X)
    BY <1>1, <1>2, <2>1 DEF OverTo, Over, BeforeRun, Running
  <2>. QED
    BY <1>1, <1>2, <2>2, IdleOver
<1>3. ASSUME handle' = DirectReturn(h) PROVE OverKept
  <2> DEFINE X == [handle[h] EXCEPT !.sess = NoSession, !.pc = "idle"]
  <2>1. X.pc = "idle" /\ X.sess = NoSession /\ X.cursor = handle[h].cursor
    BY <1>1 DEF HandleState
  <2>2. handle' = [handle EXCEPT ![h] = X]
    BY <1>3 DEF DirectReturn
  <2>. HIDE DEF X
  <2>. QED
    BY <1>2, <2>1, <2>2
<1>4. ASSUME handle' = TokenConsumed(h, "directHandOver"), handle[h].pc = "directConsume"
      PROVE  OverKept
  <2> DEFINE X == [handle[h] EXCEPT !.consumed = @ \cup {CurrentToken(h)}, !.pos = @ + 1,
                     !.pc = IF handle[h].pos = Len(BatchOf[handle[h].sess])
                            THEN "directHandOver" ELSE @]
  <2>1. X.pc \in {"directConsume", "directHandOver"} /\ X.cursor = handle[h].cursor
    BY <1>1, <1>4 DEF HandleState
  <2>2. handle' = [handle EXCEPT ![h] = X]
    BY <1>4 DEF TokenConsumed
  <2>. HIDE DEF X
  <2>. QED
    BY <1>2, <2>1, <2>2
<1>5. CASE DirectHandOver(h)
  <2> DEFINE X == [handle[h] EXCEPT !.pc = "directBackend"]
  <2>1. X.pc = "directBackend" /\ X.cursor = handle[h].cursor
    BY <1>1 DEF HandleState
  <2>2. handle' = [handle EXCEPT ![h] = X]
    BY <1>5 DEF DirectHandOver
  <2>. HIDE DEF X
  <2>. QED
    BY <1>2, <2>1, <2>2
<1>6. ASSUME NEW o \in Outcome, DirectConsume(h, o) PROVE OverKept
  BY <1>3, <1>4, <1>6 DEF DirectConsume
<1>. QED
  BY <1>3, <1>5, <1>6 DEF DirectStep, DirectRefuse, DirectBackend

\* With one handle a session whose backend has run is never started again, by a line, a
\* restart or a handler, and one that returned a signature has Finished as its last line.
THEOREM SessionsStayOverCorrect ==
  ASSUME OneHandle
  PROVE  Spec => []SessionsStayOver
<1>1. Init => OverInv
  <2>. SUFFICES ASSUME Init PROVE OverInv
    OBVIOUS
  <2>1. SessionsOver
    BY DEF Init, SessionsOver
  <2>2. \A h \in Handles : Over(handle[h], cursorFile, ran, returned)
    BY DEF Init, Over, DownHandle, BeforeRun, Running
  <2>. QED
    BY <2>1, <2>2, TypeInit DEF OverInv
<1>2. OverInv /\ [Next]_vars => OverInv'
  <2>. SUFFICES ASSUME OverInv, [Next]_vars PROVE OverInv'
    OBVIOUS
  <2>1. TypeInv'
    BY TypeStep DEF OverInv
  <2>2. CASE UNCHANGED vars
    BY <2>1, <2>2 DEF vars, OverInv, SessionsOver
  <2>3. CASE Next
    <3>1. OverKept
      BY <2>3, CallerStepOver, FinishStepOver, DirectStepOver DEF Next
    <3>. QED
      BY <2>1, <3>1 DEF OverInv, OverKept
  <2>. QED
    BY <2>2, <2>3
<1>3. OverInv => SessionsStayOver
  BY DEF OverInv, SessionsOver, SessionsStayOver, RanIsNeverReopened, ReturnedIsFinished, Past
<1>. QED
  BY <1>1, <1>2, <1>3, PTL DEF Spec

(***************************************************************************)
(* SelectedOpening.  What a call opens is chosen well: for any number of   *)
(* candidates with any priorities, any lanes, parameters and masks,        *)
(* wherever the call fails.                                                *)
(***************************************************************************)
BitVectors == [Candidates -> Bits]

Selecting == {"select", "one_hot", "any_valid", "priority", "ctilde", "chunks", "finish"}

(***************************************************************************)
(* The results of the circuits have their types.  What a lane is does not  *)
(* matter, as long as there are as many as there should be.                *)
(***************************************************************************)
OpeningTypeInv ==
  /\ batch \in Batches
  /\ valid \in {<<>>} \cup BitVectors
  /\ stage \in Selecting => valid \in BitVectors
  /\ selected \in BitVectors
  /\ violations \in Seq(BitVectors)
  /\ hints \in {<<>>} \cup [Candidates -> [1 .. HLanes -> Bits]]
  /\ prefix \in Bits
  /\ todo \subseteq Candidates
  /\ \E S : lanes \in Seq(S)
  /\ Len(lanes) <= Lanes
  /\ outcome \in Outcomes /\ (outcome = "none" <=> stage # "ended")

\* The circuits' operators give bits.
LEMMA BitsAreClosed ==
  /\ \A p : Bit(p) \in Bits
  /\ \A x \in Bits : BitNot(x) \in Bits
  /\ \A x, y \in Bits : x * y \in Bits /\ Or(x, y) \in Bits
BY DEF Bit, Bits, BitNot, Or

LEMMA HintBitType == \A r, high : HintBit(r, high) \in Bits
<1>1. \A x, y \in Bits : \A high : InInterval(x, y, high) \in Bits
  BY BitsAreClosed DEF InInterval
<1>. QED  BY <1>1, BitsAreClosed DEF HintBit

LEMMA ZBoundOkType == \A z : ZBoundOk(z) \in Bits
BY BitsAreClosed DEF ZBoundOk

LEMMA ValidBitType == \A j : ValidBit(j) \in Bits
BY BitsAreClosed DEF ValidBit

LEMMA LanesType == ZLanes \in Nat /\ HLanes \in Nat /\ Lanes \in Nat
BY ParameterAssumption DEF ZLanes, HLanes, Lanes

\* A layer of the reduction keeps the violations of every candidate.
LEMMA OrLayerType ==
  ASSUME violations \in Seq(BitVectors)
  PROVE  OrLayer(violations) \in Seq(BitVectors)
<1>. DEFINE n == Len(violations)
<1>0. n \in Nat
  OBVIOUS
<1>1. n \div 2 \in Nat /\ \A i \in 1 .. n \div 2 : 2 * i - 1 \in 1 .. n /\ 2 * i \in 1 .. n
  BY <1>0
<1>2. ASSUME NEW i \in 1 .. n \div 2
      PROVE  [j \in Candidates |-> Or(violations[2 * i - 1][j], violations[2 * i][j])] \in BitVectors
  <2>1. violations[2 * i - 1] \in BitVectors /\ violations[2 * i] \in BitVectors
    BY <1>1
  <2>. QED  BY <2>1, BitsAreClosed DEF BitVectors
<1>3. OrPairs(violations) \in Seq(BitVectors)
  BY <1>1, <1>2 DEF OrPairs
<1>4. n % 2 = 1 => violations[n] \in BitVectors
  BY <1>0
<1>5. (IF n % 2 = 1 THEN <<violations[n]>> ELSE <<>>) \in Seq(BitVectors)
  BY <1>4
<1>. QED  BY <1>3, <1>5 DEF OrLayer

\* A chunk is as long as its range.
LEMMA ChunkType ==
  ASSUME NEW S, lanes \in Seq(S), Len(lanes) <= Lanes
  PROVE  /\ \E U : lanes \o Chunk \in Seq(U)
         /\ Len(lanes \o Chunk) <= Lanes
<1>. DEFINE n == ChunkEnd(Len(lanes)) - Len(lanes)
            V == {Chunk[i] : i \in 1 .. n}
<1>1. n \in Nat /\ Len(lanes) + n <= Lanes
  BY LanesType, ParameterAssumption DEF ChunkEnd
<1>2. Chunk = [i \in 1 .. n |-> Chunk[i]]
  BY DEF Chunk
<1>3. Chunk \in [1 .. n -> V]
  BY <1>2
<1>4. Chunk \in Seq(V) /\ Len(Chunk) = n
  BY <1>1, <1>3
<1>5. Chunk \in Seq(S \cup V) /\ lanes \in Seq(S \cup V)
  BY <1>4
<1>6. lanes \o Chunk \in Seq(S \cup V) /\ Len(lanes \o Chunk) = Len(lanes) + n
  BY <1>4, <1>5
<1>. QED  BY <1>1, <1>6

\* OpeningTypeOK is what the invariant says of the bits.
LEMMA TypeInvImpliesOpeningTypeOK == OpeningTypeInv => OpeningTypeOK
<1>. SUFFICES ASSUME OpeningTypeInv PROVE OpeningTypeOK
  OBVIOUS
<1>1. \A j \in DOMAIN valid : valid[j] \in Bits
  BY DEF OpeningTypeInv, BitVectors
<1>2. \A j \in DOMAIN selected : selected[j] \in Bits
  BY DEF OpeningTypeInv, BitVectors
<1>3. \A k \in DOMAIN violations : \A j \in Candidates : violations[k][j] \in Bits
  BY DEF OpeningTypeInv, BitVectors
<1>4. \A j \in DOMAIN hints : \A i \in 1 .. HLanes : hints[j][i] \in Bits
  <2>1. CASE hints = <<>>
    BY <2>1
  <2>2. CASE hints \in [Candidates -> [1 .. HLanes -> Bits]]
    BY <2>2
  <2>. QED  BY <2>1, <2>2 DEF OpeningTypeInv
<1>. QED  BY <1>1, <1>2, <1>3, <1>4 DEF OpeningTypeInv, OpeningTypeOK

LEMMA InitType == OpeningInit => OpeningTypeInv
<1>. SUFFICES ASSUME OpeningInit PROVE OpeningTypeInv
  OBVIOUS
<1>1. selected \in BitVectors /\ prefix \in Bits
  BY DEF OpeningInit, BitVectors, Bits
<1>2. violations \in Seq(BitVectors) /\ lanes \in Seq(Int) /\ Len(lanes) <= Lanes
  BY LanesType DEF OpeningInit
<1>. QED  BY <1>1, <1>2 DEF OpeningInit, OpeningTypeInv, Selecting, Outcomes

LEMMA NextType == OpeningTypeInv /\ [OpeningNext]_openingVars => OpeningTypeInv'
<1>. SUFFICES ASSUME OpeningTypeInv, [OpeningNext]_openingVars PROVE OpeningTypeInv'
  OBVIOUS
<1>. USE DEF Goes, Ends, Selecting, Outcomes
<1>0. batch' = batch /\ Candidates' = Candidates /\ BitVectors' = BitVectors
  BY DEF OpeningNext, openingVars, Prepare, OpenMasked, AssertCanonical, AssertEqual, CheckBounds, OrReduce,
         CheckValidity, Select, CheckOneHot, OpenAnyValid, OpenPriority, OpenCtilde, OpenChunk,
         Finish, Fails, Candidates, BitVectors
<1>1. CASE Prepare
  BY <1>0, <1>1 DEF Prepare, selection, OpeningTypeInv
<1>2. CASE OpenMasked
  BY <1>0, <1>2 DEF OpenMasked, selection, OpeningTypeInv
<1>3. CASE AssertCanonical
  BY <1>0, <1>3 DEF AssertCanonical, selection, circuit, OpeningTypeInv
<1>4. CASE AssertEqual
  BY <1>0, <1>4 DEF AssertEqual, selection, circuit, OpeningTypeInv
<1>5. CASE CheckBounds
  <2>1. hints' \in [Candidates -> [1 .. HLanes -> Bits]]
    BY <1>5, HintBitType DEF CheckBounds
  <2>2. violations' \in Seq(BitVectors)
    BY <1>5, ZBoundOkType, BitsAreClosed, LanesType DEF CheckBounds, BitVectors
  <2>. QED  BY <1>0, <1>5, <2>1, <2>2 DEF CheckBounds, selection, OpeningTypeInv
<1>6. CASE OrReduce
  <2>1. violations' \in Seq(BitVectors)
    BY <1>6, OrLayerType DEF OrReduce, OpeningTypeInv
  <2>. QED  BY <1>0, <1>6, <2>1 DEF OrReduce, selection, OpeningTypeInv
<1>7. CASE CheckValidity
  <2>1. valid' \in BitVectors
    BY <1>7, ValidBitType DEF CheckValidity, BitVectors
  <2>. QED  BY <1>0, <1>7, <2>1 DEF CheckValidity, OpeningTypeInv
<1>8. CASE \E j \in Candidates : Select(j)
  <2>. PICK j \in Candidates : Select(j)
    BY <1>8
  <2>1. valid \in BitVectors /\ valid[j] \in Bits
    BY DEF Select, OpeningTypeInv, BitVectors
  <2>2. Takes(j) \in Bits /\ Or(prefix, valid[j]) \in Bits
    BY <2>1, BitsAreClosed DEF Takes, OpeningTypeInv
  <2>3. selected' \in BitVectors /\ prefix' \in Bits
    BY <2>2 DEF Select, OpeningTypeInv, BitVectors
  <2>. QED  BY <1>0, <2>1, <2>3 DEF Select, circuit, OpeningTypeInv
<1>9. CASE CheckOneHot
  BY <1>0, <1>9 DEF CheckOneHot, selection, circuit, OpeningTypeInv
<1>10. CASE OpenAnyValid
  BY <1>0, <1>10 DEF OpenAnyValid, selection, circuit, OpeningTypeInv
<1>11. CASE OpenPriority
  BY <1>0, <1>11 DEF OpenPriority, selection, circuit, OpeningTypeInv
<1>12. CASE OpenCtilde
  BY <1>0, <1>12 DEF OpenCtilde, selection, circuit, OpeningTypeInv
<1>13. CASE OpenChunk
  <2>1. (\E S : lanes' \in Seq(S)) /\ Len(lanes') <= Lanes
    BY <1>13, ChunkType DEF OpenChunk, OpeningTypeInv
  <2>. QED  BY <1>0, <1>13, <2>1 DEF OpenChunk, selection, circuit, OpeningTypeInv
<1>14. CASE Finish
  BY <1>0, <1>14 DEF Finish, selection, circuit, OpeningTypeInv
<1>15. CASE Fails
  BY <1>0, <1>15 DEF Fails, selection, circuit, OpeningTypeInv
<1>16. CASE UNCHANGED openingVars
  BY <1>0, <1>16 DEF openingVars, selection, circuit, OpeningTypeInv
<1>. QED  BY <1>1, <1>2, <1>3, <1>4, <1>5, <1>6, <1>7, <1>8, <1>9, <1>10, <1>11, <1>12, <1>13,
             <1>14, <1>15, <1>16 DEF OpeningNext

\* Whatever the circuits treat as a bit is one, for any batch, parameters and masks,
\* and no more lanes are opened than there are.
THEOREM OpeningTypeCorrect == OpeningSpec => []OpeningTypeOK
<1>1. OpeningInit => OpeningTypeInv
  BY InitType
<1>2. OpeningTypeInv /\ [OpeningNext]_openingVars => OpeningTypeInv'
  BY NextType
<1>3. OpeningTypeInv => OpeningTypeOK
  BY TypeInvImpliesOpeningTypeOK
<1>. QED  BY <1>1, <1>2, <1>3, PTL DEF OpeningSpec

(***************************************************************************)
(* The selection.  The candidates from the cursor on are those that come   *)
(* last in the order of priorities, none of them is selected yet, and the  *)
(* prefix is set exactly when one has been selected: two products of one   *)
(* layer must agree on that.                                               *)
(***************************************************************************)
Early == {"prepare", "masked", "canonical", "equal", "bounds", "or", "threshold"}

Nobody == [j \in Candidates |-> 0]

IsFirstValid(j) == valid[j] = 1 /\ \A k \in Candidates : Before(k, j) => valid[k] = 0

SelectInv ==
  /\ stage \in Early => selected = Nobody /\ prefix = 0
  /\ stage = "select" \/ selected # Nobody =>
       /\ valid \in BitVectors
       /\ \A j \in Candidates \ todo : selected[j] = 1 <=> IsFirstValid(j)
       /\ \A j \in todo : selected[j] = 0
       /\ prefix = 1 <=> \E j \in Candidates \ todo : valid[j] = 1
  /\ \A j \in todo, k \in Candidates : Before(j, k) => k \in todo
  /\ prefix = 1 <=> \E j \in Candidates : selected[j] = 1

SelectionInv == OpeningTypeInv /\ SelectInv

LEMMA SelectInvImpliesFirst == SelectionInv => SelectionIsFirst
BY DEF SelectionInv, SelectInv, IsFirstValid, Nobody, SelectionIsFirst

\* Of two candidates one comes before the other.
LEMMA BeforeIsOrder ==
  ASSUME batch \in Batches
  PROVE  /\ \A i \in Candidates : ~ Before(i, i)
         /\ \A i, j \in Candidates : i # j => Before(i, j) \/ Before(j, i)
         /\ \A i, j \in Candidates : Before(i, j) => ~ Before(j, i)
         /\ \A i, j, k \in Candidates : Before(i, j) /\ Before(j, k) => Before(i, k)
<1>1. \A i \in Candidates : batch[i].priority \in Int /\ i \in Int
  <2>1. batch \in Seq(Candidate)
    BY CandidateAssumption
  <2>2. \A i \in Candidates : batch[i] \in Candidate
    BY <2>1 DEF Candidates
  <2>3. \A c \in Candidate : c.priority \in 0 .. Q - 1
    BY DEF Candidate
  <2>4. \A i \in Candidates : batch[i].priority \in 0 .. Q - 1
    BY <2>2, <2>3
  <2>5. \A i \in Candidates : i \in Int
    BY DEF Candidates
  <2>. QED  BY <2>4, <2>5, ParameterAssumption
<1>. QED  BY <1>1 DEF Before

LEMMA InitSelect == OpeningInit => SelectInv
BY DEF OpeningInit, SelectInv, Early, Nobody

\* A step that leaves the selection, its bits and the order alone.
LEMMA SelectionKept ==
  ASSUME OpeningTypeInv, SelectInv, batch' = batch, UNCHANGED selection,
         valid' = valid, stage' = "select" => stage = "select",
         stage' \in Early => stage \in Early
  PROVE  SelectInv'
<1>1. Candidates' = Candidates /\ Nobody' = Nobody /\ BitVectors' = BitVectors
  BY DEF Candidates, Nobody, BitVectors
<1>2. \A j, k : Before(j, k)' = Before(j, k)
  BY DEF Before
<1>3. \A j : IsFirstValid(j)' = IsFirstValid(j)
  BY <1>1, <1>2 DEF IsFirstValid
<1>4. todo' = todo /\ prefix' = prefix /\ selected' = selected
  BY DEF selection
<1>. QED  BY <1>1, <1>2, <1>3, <1>4 DEF SelectInv

\* The threshold is done, and the selection starts with nobody selected.
LEMMA SelectionStarts ==
  ASSUME OpeningTypeInv', SelectInv, CheckValidity
  PROVE  SelectInv'
<1>1. /\ batch' = batch /\ todo' = Candidates /\ stage' = "select"
      /\ prefix' = prefix /\ selected' = selected
      /\ stage = "threshold"
  BY DEF CheckValidity, Goes
<1>2. Candidates' = Candidates /\ Nobody' = Nobody
  BY <1>1 DEF Candidates, Nobody
<1>3. selected = Nobody /\ prefix = 0
  BY <1>1 DEF SelectInv, Early
<1>4. \A j \in Candidates : selected[j] = 0
  BY <1>3 DEF Nobody
<1>5. valid' \in BitVectors'
  BY <1>1 DEF OpeningTypeInv, Selecting
<1>. QED  BY <1>1, <1>2, <1>3, <1>4, <1>5 DEF SelectInv, Early

\* One candidate: the least of those from the cursor on.
LEMMA SelectionGoesOn ==
  ASSUME OpeningTypeInv, SelectInv, OpeningTypeInv', NEW j \in Candidates, Select(j)
  PROVE  SelectInv'
<1>1. /\ stage = "select" /\ stage' \in {"select", "one_hot"}
      /\ j \in todo /\ \A k \in todo \ {j} : Before(j, k)
      /\ batch' = batch /\ valid' = valid
      /\ selected' = [selected EXCEPT ![j] = Takes(j)]
      /\ prefix' = Or(prefix, valid[j])
      /\ todo' = todo \ {j}
  BY DEF Select, Goes, circuit
<1>2. /\ valid \in BitVectors
      /\ \A k \in Candidates \ todo : selected[k] = 1 <=> IsFirstValid(k)
      /\ \A k \in todo : selected[k] = 0
      /\ prefix = 1 <=> \E k \in Candidates \ todo : valid[k] = 1
  BY <1>1 DEF SelectInv
<1>3. Candidates' = Candidates /\ BitVectors' = BitVectors
  BY <1>1 DEF Candidates, BitVectors
<1>4. \A k, l : Before(k, l)' = Before(k, l)
  BY <1>1 DEF Before
<1>5. \A k : IsFirstValid(k)' = IsFirstValid(k)
  BY <1>1, <1>3, <1>4 DEF IsFirstValid
<1>6. /\ prefix \in Bits /\ \A k \in Candidates : valid[k] \in Bits
      /\ todo \subseteq Candidates /\ selected \in BitVectors
      /\ batch \in Batches
  BY <1>2 DEF OpeningTypeInv, BitVectors
\* The products.
<1>7. Takes(j) = 1 <=> valid[j] = 1 /\ prefix = 0
  BY <1>6 DEF Takes, BitNot, Bits
<1>8. Or(prefix, valid[j]) = 1 <=> prefix = 1 \/ valid[j] = 1
  BY <1>6 DEF Or, Bits
<1>9. \A k \in Candidates : Before(k, j) <=> k \notin todo
  <2>1. \A k \in todo : ~ Before(k, j)
    BY <1>1, <1>6, BeforeIsOrder
  <2>2. \A k \in Candidates \ todo : ~ Before(j, k)
    BY <1>1 DEF SelectInv
  <2>. QED  BY <2>1, <2>2, <1>1, <1>6, BeforeIsOrder
<1>10. Takes(j) = 1 <=> IsFirstValid(j)
  BY <1>2, <1>6, <1>7, <1>9 DEF IsFirstValid, Bits
<1>11. \A k \in Candidates : selected'[k] = IF k = j THEN Takes(j) ELSE selected[k]
  BY <1>1, <1>6 DEF BitVectors
<1>12. \A k \in Candidates \ todo' : selected'[k] = 1 <=> IsFirstValid(k)
  BY <1>1, <1>2, <1>10, <1>11
<1>13. \A k \in todo' : selected'[k] = 0
  BY <1>1, <1>2, <1>6, <1>11
<1>14. prefix' = 1 <=> \E k \in Candidates \ todo' : valid[k] = 1
  BY <1>1, <1>2, <1>8
<1>15. \A k \in todo', l \in Candidates : Before(k, l) => l \in todo'
  <2>. SUFFICES ASSUME NEW k \in todo', NEW l \in Candidates, Before(k, l) PROVE l \in todo'
    OBVIOUS
  <2>1. l \in todo
    BY <1>1 DEF SelectInv
  <2>2. l # j
    BY <1>1, <1>6, BeforeIsOrder
  <2>. QED  BY <2>1, <2>2, <1>1
<1>16. prefix' = 1 <=> \E k \in Candidates : selected'[k] = 1
  <2>1. selected[j] = 0
    BY <1>1, <1>2
  <2>2. prefix = 1 <=> \E k \in Candidates : selected[k] = 1
    BY DEF SelectInv
  <2>. QED  BY <1>1, <1>6, <1>7, <1>8, <1>11, <2>1, <2>2 DEF Bits
<1>. QED  BY <1>1, <1>2, <1>3, <1>4, <1>5, <1>12, <1>13, <1>14, <1>15, <1>16 DEF SelectInv, Early

LEMMA NextSelect == SelectionInv /\ [OpeningNext]_openingVars => SelectionInv'
<1>. SUFFICES ASSUME OpeningTypeInv, SelectInv, [OpeningNext]_openingVars PROVE SelectionInv'
  BY DEF SelectionInv
<1>. USE DEF Goes, Ends, Early
<1>0. OpeningTypeInv'
  BY NextType
<1>1. CASE CheckValidity
  BY <1>0, <1>1, SelectionStarts DEF SelectionInv
<1>2. CASE \E j \in Candidates : Select(j)
  BY <1>0, <1>2, SelectionGoesOn DEF SelectionInv
<1>3. CASE Prepare
  BY <1>3, SelectionKept, <1>0 DEF Prepare, circuit, SelectionInv
<1>4. CASE OpenMasked
  BY <1>4, SelectionKept, <1>0 DEF OpenMasked, circuit, SelectionInv
<1>5. CASE AssertCanonical
  BY <1>5, SelectionKept, <1>0 DEF AssertCanonical, circuit, SelectionInv
<1>6. CASE AssertEqual
  BY <1>6, SelectionKept, <1>0 DEF AssertEqual, circuit, SelectionInv
<1>7. CASE CheckBounds
  BY <1>7, SelectionKept, <1>0 DEF CheckBounds, circuit, SelectionInv
<1>8. CASE OrReduce
  BY <1>8, SelectionKept, <1>0 DEF OrReduce, circuit, SelectionInv
<1>9. CASE CheckOneHot
  BY <1>9, SelectionKept, <1>0 DEF CheckOneHot, circuit, SelectionInv
<1>10. CASE OpenAnyValid
  BY <1>10, SelectionKept, <1>0 DEF OpenAnyValid, circuit, SelectionInv
<1>11. CASE OpenPriority
  BY <1>11, SelectionKept, <1>0 DEF OpenPriority, circuit, SelectionInv
<1>12. CASE OpenCtilde
  BY <1>12, SelectionKept, <1>0 DEF OpenCtilde, circuit, SelectionInv
<1>13. CASE OpenChunk
  BY <1>13, SelectionKept, <1>0 DEF OpenChunk, circuit, SelectionInv
<1>14. CASE Finish
  BY <1>14, SelectionKept, <1>0 DEF Finish, circuit, SelectionInv
<1>15. CASE Fails
  BY <1>15, SelectionKept, <1>0 DEF Fails, circuit, SelectionInv
<1>16. CASE UNCHANGED openingVars
  BY <1>16, SelectionKept, <1>0 DEF openingVars, circuit, SelectionInv
<1>. QED  BY <1>0, <1>1, <1>2, <1>3, <1>4, <1>5, <1>6, <1>7, <1>8, <1>9, <1>10, <1>11, <1>12, <1>13, <1>14, <1>15, <1>16 DEF OpeningNext, SelectionInv

\* At every moment the candidates selected are the valid ones before which none is
\* valid, for any number of candidates and priorities, also equal ones.
THEOREM SelectionIsFirstCorrect == OpeningSpec => []SelectionIsFirst
<1>1. OpeningInit => SelectionInv
  BY InitType, InitSelect DEF SelectionInv
<1>2. SelectionInv /\ [OpeningNext]_openingVars => SelectionInv'
  BY NextSelect
<1>3. SelectionInv => SelectionIsFirst
  BY SelectInvImpliesFirst
<1>. QED  BY <1>1, <1>2, <1>3, PTL DEF OpeningSpec

(***************************************************************************)
(* What is opened.  Shares of a selected value leave the party only behind *)
(* the opening of any_valid, when the selection has ended.                 *)
(***************************************************************************)
Chosen == {"priority", "ctilde", "chunk"}

OpenInv ==
  /\ stage \in {"priority", "ctilde", "chunks", "finish"} => prefix = 1
  /\ \A o \in opened : o.what \in Chosen =>
       prefix = 1 /\ stage \in {"priority", "ctilde", "chunks", "finish", "ended"}

\* A value of a candidate is opened, even by a call that then fails, only when just
\* one candidate is selected, which is valid, and none before it is.
OpensOneValid ==
  \A o \in opened : o.what \in Chosen =>
    \E j \in Candidates :
      /\ selected[j] = 1 /\ IsFirstValid(j)
      /\ \A k \in Candidates \ {j} : selected[k] = 0

\* What a phase shows is named for its stage.
LEMMA ShownWhat ==
  \A o \in Shown : o.what \in Chosen => stage \in {"priority", "ctilde", "chunks"}
BY DEF Shown, Shows, Chosen

LEMMA InitOpen == OpeningInit => OpenInv
BY DEF OpeningInit, OpenInv

LEMMA NextOpen == OpenInv /\ [OpeningNext]_openingVars => OpenInv'
<1>. SUFFICES ASSUME OpenInv, [OpeningNext]_openingVars PROVE OpenInv'
  OBVIOUS
<1>. USE DEF Goes, Ends
<1>0. Send => \A o \in opened' : o.what \in Chosen =>
        \/ o \in opened
        \/ stage \in {"priority", "ctilde", "chunks"}
  BY ShownWhat DEF Send
<1>1. CASE Prepare
  BY <1>0, <1>1 DEF Prepare, OpenInv, selection
<1>2. CASE OpenMasked
  BY <1>0, <1>2 DEF OpenMasked, OpenInv, selection
<1>3. CASE AssertCanonical
  BY <1>0, <1>3 DEF AssertCanonical, OpenInv, selection
<1>4. CASE AssertEqual
  BY <1>0, <1>4 DEF AssertEqual, OpenInv, selection
<1>5. CASE CheckBounds
  BY <1>0, <1>5 DEF CheckBounds, OpenInv, selection
<1>6. CASE OrReduce
  BY <1>0, <1>6 DEF OrReduce, OpenInv, selection
<1>7. CASE CheckValidity
  BY <1>0, <1>7 DEF CheckValidity, OpenInv, selection
<1>8. CASE CheckOneHot
  BY <1>0, <1>8 DEF CheckOneHot, OpenInv, selection
<1>9. CASE OpenAnyValid
  BY <1>0, <1>9 DEF OpenAnyValid, OpenInv, selection
<1>10. CASE OpenPriority
  BY <1>0, <1>10 DEF OpenPriority, OpenInv, selection
<1>11. CASE OpenCtilde
  BY <1>0, <1>11 DEF OpenCtilde, OpenInv, selection
<1>12. CASE OpenChunk
  BY <1>0, <1>12 DEF OpenChunk, OpenInv, selection
<1>13. CASE Finish
  BY <1>0, <1>13 DEF Finish, OpenInv, selection
<1>14. CASE Fails
  BY <1>0, <1>14 DEF Fails, OpenInv, selection
<1>15. CASE \E j \in Candidates : Select(j)
  BY <1>0, <1>15 DEF Select, OpenInv
<1>16. CASE UNCHANGED openingVars
  BY <1>16 DEF openingVars, OpenInv, selection
<1>. QED  BY <1>1, <1>2, <1>3, <1>4, <1>5, <1>6, <1>7, <1>8, <1>9, <1>10, <1>11, <1>12, <1>13, <1>14, <1>15, <1>16 DEF OpeningNext

LEMMA OpenInvImpliesOneValid == SelectionInv /\ OpenInv => OpensOneValid
<1>. SUFFICES ASSUME SelectionInv, OpenInv, NEW o \in opened, o.what \in Chosen
              PROVE  \E j \in Candidates :
                       /\ selected[j] = 1 /\ IsFirstValid(j)
                       /\ \A k \in Candidates \ {j} : selected[k] = 0
  BY DEF OpensOneValid
<1>1. prefix = 1
  BY DEF OpenInv
<1>2. PICK j \in Candidates : selected[j] = 1
  BY <1>1 DEF SelectionInv, SelectInv
<1>3. selected # Nobody
  BY <1>2 DEF Nobody
<1>4. \A k \in Candidates : selected[k] = 1 => IsFirstValid(k)
  BY <1>3 DEF SelectionInv, SelectInv
<1>5. \A k \in Candidates \ {j} : selected[k] # 1
  BY <1>2, <1>4, BeforeIsOrder DEF SelectionInv, OpeningTypeInv, IsFirstValid
<1>6. \A k \in Candidates : selected[k] \in Bits
  BY DEF SelectionInv, OpeningTypeInv, BitVectors
<1>. QED  BY <1>2, <1>4, <1>5, <1>6 DEF Bits

\* The one-hot check and the verdict guard every opening of a selected value.
THEOREM OpensOneValidCorrect == OpeningSpec => []OpensOneValid
<1>1. OpeningInit => SelectionInv /\ OpenInv
  BY InitType, InitSelect, InitOpen DEF SelectionInv
<1>2. SelectionInv /\ OpenInv /\ [OpeningNext]_openingVars => (SelectionInv /\ OpenInv)'
  BY NextSelect, NextOpen
<1>3. SelectionInv /\ OpenInv => OpensOneValid
  BY OpenInvImpliesOneValid
<1>. QED  BY <1>1, <1>2, <1>3, PTL DEF OpeningSpec

(***************************************************************************)
(* Division, and what it leaves.                                           *)
(***************************************************************************)
LEMMA MulBound ==
  ASSUME NEW b \in Int, NEW n \in Int, b > 0, n >= 1
  PROVE  b * n >= b
  BY SMT

\* Quotient and remainder make up the number, and the remainder is small.
LEMMA DivFacts ==
  ASSUME NEW x \in Int, NEW b \in Int, b > 0
  PROVE  /\ x \div b \in Int /\ x % b \in Int
         /\ x = b * (x \div b) + (x % b)
         /\ x % b >= 0 /\ x % b < b
  BY SMT

\* The larger of two numbers with small remainders has no smaller quotient.
LEMMA NotBelow ==
  ASSUME NEW b \in Int, NEW q \in Int, NEW r \in Int, NEW p \in Int, NEW s \in Int,
         b > 0, b * q + r = b * p + s, 0 <= r, s < b
  PROVE  q <= p
  <1>1. SUFFICES ASSUME q - p >= 1 PROVE FALSE
    BY SMT
  <1>2. b * (q - p) >= b
    BY <1>1, MulBound
  <1>3. b * (q - p) = s - r
    BY SMT
  <1> QED
    BY <1>2, <1>3, SMT

\* There is one quotient, and one remainder.
LEMMA DivMod ==
  ASSUME NEW b \in Int, NEW q \in Int, NEW r \in Int, b > 0, 0 <= r, r < b
  PROVE  (b * q + r) \div b = q /\ (b * q + r) % b = r
  <1> DEFINE x == b * q + r
  <1>1. /\ x \in Int /\ x \div b \in Int /\ x % b \in Int
        /\ b * q + r = b * (x \div b) + (x % b) /\ x % b >= 0 /\ x % b < b
    BY DivFacts
  <1> HIDE DEF x
  <1>2. q <= x \div b /\ x \div b <= q
    BY <1>1, NotBelow
  <1>3. q = x \div b
    BY <1>1, <1>2, SMT
  <1>4. r = x % b
    BY <1>1, <1>3, SMT
  <1> QED
    BY <1>3, <1>4 DEF x

\* A number below the divisor is its own remainder.
LEMMA ModSmall ==
  ASSUME NEW b \in Int, NEW r \in Int, 0 <= r, r < b
  PROVE  r % b = r
  <1>1. (b * 0 + r) % b = r
    BY DivMod
  <1> QED
    BY <1>1, SMT

\* A remainder taken of a part of a sum makes no difference to that of the sum.
LEMMA ModDrop ==
  ASSUME NEW b \in Int, b > 0, NEW x \in Int, NEW y \in Int
  PROVE  ((x % b) + y) % b = (x + y) % b
<1> DEFINE q == x \div b  r == x % b  n == (r + y) \div b  s == (r + y) % b
<1>1. q \in Int /\ r \in Int /\ x = b * q + r
  BY DivFacts
<1> HIDE DEF q, r
<1>2. n \in Int /\ s \in Int /\ r + y = b * n + s /\ s >= 0 /\ s < b
  BY <1>1, DivFacts
<1> HIDE DEF n, s
<1>3. x + y = b * (q + n) + s
  BY <1>1, <1>2, SMT
<1>4. (b * (q + n) + s) % b = s
  BY <1>1, <1>2, DivMod
<1>5. (x + y) % b = s
  BY <1>3, <1>4
<1>. QED
  BY <1>5 DEF s, r

\* A number and its remainder are congruent.
LEMMA ModZero ==
  ASSUME NEW b \in Int, b > 0, NEW x \in Int
  PROVE  ((x % b) - x) % b = 0
<1>1. -x \in Int /\ x % b \in Int
  BY DivFacts
<1>2. ((x % b) + (-x)) % b = (x + (-x)) % b
  BY <1>1, ModDrop
<1>3. x + (-x) = 0 /\ (x % b) + (-x) = (x % b) - x
  BY <1>1
<1>4. 0 % b = 0
  BY ModSmall
<1>. QED
  BY <1>2, <1>3, <1>4

(***************************************************************************)
(* Induction: a family of subsets of a finite set has a smallest member.   *)
(***************************************************************************)
\* The library's induction theorem takes a predicate as an operator; what it rests on,
\* that proper inclusion of finite sets is well founded, does not.
LEMMA SmallestSubset ==
  ASSUME NEW S, IsFiniteSet(S), NEW family, family \subseteq SUBSET S, family # {}
  PROVE  \E X \in family : \A Y \in family : Y \subseteq X => Y = X
<1> DEFINE smaller == StrictSubsetOrdering(S)
<1>1. \A X, Y \in family : Y \subseteq X /\ Y # X => <<Y, X>> \in smaller
  BY DEF StrictSubsetOrdering
<1>2. IsWellFoundedOn(smaller, FiniteSubsetsOf(S))
  BY FS_StrictSubsetOrderingWellFounded
<1>3. family \subseteq FiniteSubsetsOf(S)
  BY FS_Subset DEF FiniteSubsetsOf
<1> HIDE DEF smaller
<1>4. \E X \in family : \A Y \in family : ~ (<<Y, X>> \in smaller)
  BY <1>2, <1>3, WFMin
<1>. QED
  BY <1>1, <1>4

\* SmallestSubset, for every set and family at once.
LEMMA SmallestOfFamily ==
  \A S, family : IsFiniteSet(S) /\ family \subseteq SUBSET S /\ family # {} =>
     \E X \in family : \A Y \in family : Y \subseteq X => Y = X
  BY SmallestSubset

\* Induction over the natural numbers, with a set in the place of the predicate.
LEMMA SetInduction ==
  ASSUME NEW S \in SUBSET Nat, 0 \in S, \A n \in S : n + 1 \in S
  PROVE  S = Nat
<1>1. ASSUME NEW x \in Nat \ S PROVE FALSE
  <2> DEFINE family == {0 .. k : k \in (0 .. x) \ S}
  <2>1. 0 .. x \in family /\ family \subseteq SUBSET (0 .. x)
    OBVIOUS
  <2>2. IsFiniteSet(0 .. x)
    BY FS_Interval
  <2>2a. \E X \in family : \A Y \in family : Y \subseteq X => Y = X
    <3>1. PICK box : box = 0 .. x
      OBVIOUS
    <3>2. family # {} /\ family \subseteq SUBSET box /\ IsFiniteSet(box)
      BY <2>1, <2>2, <3>1
    <3> HIDE DEF family
    <3>. QED
      BY <3>2, SmallestSubset
  <2>3. PICK X \in family : \A Y \in family : Y \subseteq X => Y = X
    BY <2>2a
  <2>4. PICK k \in (0 .. x) \ S : X = 0 .. k
    BY <2>3
  <2>5. k # 0 /\ k \in Nat /\ k - 1 \in 0 .. x
    OBVIOUS
  <2>6. k - 1 \notin S
    BY <2>5
  <2>7. 0 .. (k - 1) \in family /\ 0 .. (k - 1) \subseteq 0 .. k
    BY <2>5, <2>6
  <2>8. 0 .. (k - 1) = 0 .. k
    BY <2>3, <2>4, <2>7
  <2>9. k \in 0 .. k /\ k \notin 0 .. (k - 1)
    BY <2>5
  <2>. QED
    BY <2>8, <2>9
<1>. QED
  BY <1>1

(***************************************************************************)
(* Recursion over the subsets of a finite set, and over numbers.           *)
(***************************************************************************)
SetRecursion(g, D, V, base, pick, step) ==
  /\ g \in [D -> V]
  /\ \A s \in D : g[s] = IF s = {} THEN base ELSE step[<<pick[s], g[s \ {pick[s]}]>>]

\* What is defined from a set without one of its elements is defined.
LEMMA SetRecursionExists ==
  ASSUME NEW S, IsFiniteSet(S), NEW V, NEW base \in V, NEW pick, NEW step \in [S \X V -> V],
         \A s \in SUBSET S : s # {} => pick[s] \in s
  PROVE  \E g : SetRecursion(g, SUBSET S, V, base, pick, step)
<1> DEFINE upto(n) == {s \in SUBSET S : Cardinality(s) <= n}
           P == {n \in Nat : \E g : SetRecursion(g, upto(n), V, base, pick, step)}
<1>1. \A s \in SUBSET S : /\ IsFiniteSet(s) /\ Cardinality(s) \in Nat
                          /\ Cardinality(s) = 0 <=> s = {}
  BY FS_Subset, FS_CardinalityType, FS_EmptySet
<1>2. ASSUME NEW s \in SUBSET S, s # {}
      PROVE  /\ pick[s] \in S /\ s \ {pick[s]} \in SUBSET S
             /\ Cardinality(s \ {pick[s]}) = Cardinality(s) - 1
  <2>1. pick[s] \in s /\ IsFiniteSet(s)
    BY <1>1, <1>2
  <2>2. Cardinality(s \ {pick[s]}) = Cardinality(s) - 1
    BY <2>1, FS_RemoveElement
  <2>. QED
    BY <2>1, <2>2
<1>3. 0 \in P
  <2>1. upto(0) = {{}}
    BY <1>1
  <2>2. SetRecursion([s \in upto(0) |-> base], upto(0), V, base, pick, step)
    BY <2>1 DEF SetRecursion
  <2>. QED
    BY <2>2
<1>4. ASSUME NEW n \in P PROVE n + 1 \in P
  <2>1. n \in Nat /\ n + 1 \in Nat
    OBVIOUS
  <2>2. PICK g : SetRecursion(g, upto(n), V, base, pick, step)
    BY <1>4
  <2> DEFINE h == [s \in upto(n + 1) |->
                     IF s \in upto(n) THEN g[s] ELSE step[<<pick[s], g[s \ {pick[s]}]>>]]
  <2>3. \A s \in upto(n + 1) : s # {} =>
           /\ s \in SUBSET S /\ pick[s] \in S /\ s \ {pick[s]} \in upto(n)
           /\ s \in upto(n) => s \ {pick[s]} \in upto(n)
    BY <1>1, <1>2, <2>1
  <2>4. {} \in upto(n) /\ upto(n) \subseteq upto(n + 1)
    <3>1. {} \in SUBSET S /\ Cardinality({}) = 0
      BY <1>1
    <3>. QED
      BY <1>1, <2>1, <3>1
  <2> HIDE DEF upto
  <2>5. ASSUME NEW s \in upto(n + 1) PROVE h[s] \in V
    <3>1. g \in [upto(n) -> V]
      BY <2>2 DEF SetRecursion
    <3>2. CASE s \in upto(n)
      BY <3>1, <3>2
    <3>3. CASE s \notin upto(n)
      <4>3. s # {}
        BY <2>4, <3>3
      <4>4. pick[s] \in S /\ s \ {pick[s]} \in upto(n)
        BY <2>3, <4>3
      <4>5. PICK t : t = s \ {pick[s]}
        OBVIOUS
      <4>6. g[t] \in V
        BY <3>1, <4>4, <4>5
      <4>1. pick[s] \in S /\ g[s \ {pick[s]}] \in V
        BY <4>4, <4>5, <4>6
      <4>2. step[<<pick[s], g[s \ {pick[s]}]>>] \in V
        BY <4>1
      <4>. QED
        BY <3>3, <4>2
    <3>. QED
      BY <3>2, <3>3
  <2>6. \A s \in upto(n) : h[s] = g[s]
    BY <2>4
  <2>7. \A s \in upto(n + 1) :
          h[s] = IF s = {} THEN base ELSE step[<<pick[s], h[s \ {pick[s]}]>>]
    BY <2>2, <2>3, <2>4, <2>6 DEF SetRecursion
  <2>8. h \in [upto(n + 1) -> V]
    BY <2>5
  <2> HIDE DEF h
  <2>9. SetRecursion(h, upto(n + 1), V, base, pick, step)
    BY <2>7, <2>8 DEF SetRecursion
  <2>. QED
    BY <2>1, <2>9
<1>5. P = Nat
  <2> HIDE DEF P
  <2>1. P \in SUBSET Nat
    BY DEF P
  <2>. QED
    BY <1>3, <1>4, <2>1, SetInduction
<1>6. Cardinality(S) \in P
  BY <1>1, <1>5
<1>7. upto(Cardinality(S)) = SUBSET S
  <2>1. \A s \in SUBSET S : Cardinality(s) <= Cardinality(S)
    BY FS_Subset
  <2>. QED
    BY <2>1
<1>. QED
  BY <1>6, <1>7

\* Every value of such a recursion is in a set that the recursion does not leave.
BuiltUp(P, S) ==
  {} \in P /\ \A s \in SUBSET S : s # {} => \E x \in s : s \ {x} \in P => s \in P

\* Induction over the subsets of a finite set.
LEMMA SubsetInduction ==
  ASSUME NEW S, IsFiniteSet(S), NEW P, BuiltUp(P, S)
  PROVE  SUBSET S \subseteq P
<1>1. ASSUME NEW family, family = (SUBSET S) \ P, family # {} PROVE FALSE
  <2>0. family \subseteq SUBSET S /\ family # {}
    BY <1>1
  <2>1. PICK X \in family : \A Y \in family : Y \subseteq X => Y = X
    BY <2>0, SmallestSubset
  <2>7. X \in SUBSET S /\ X \notin P
    BY <1>1
  <2>8. {} \in P
    BY DEF BuiltUp
  <2>2. X # {} /\ X \in SUBSET S /\ X \notin P
    BY <2>7, <2>8
  <2>3. PICK x \in X : X \ {x} \in P => X \in P
    BY <2>2 DEF BuiltUp
  <2>4. PICK Y : Y = X \ {x}
    OBVIOUS
  <2>5. Y \in SUBSET S /\ Y \subseteq X /\ Y # X
    BY <2>2, <2>4
  <2>6. Y \in P
    BY <1>1, <2>1, <2>5
  <2>. QED
    BY <2>2, <2>3, <2>4, <2>6
<1>. QED
  BY <1>1

\* The recursive function in a fold that adds.
SumTable(it, f) ==
  it = [s \in SUBSET DOMAIN f |->
          IF s = {} THEN 0 ELSE f[CHOOSE x \in s : TRUE] + it[s \ {CHOOSE x \in s : TRUE}]]

\* It exists for every function of a finite set to the integers.
LEMMA SumTableExists ==
  ASSUME NEW f, IsFiniteSet(DOMAIN f), \A x \in DOMAIN f : f[x] \in Int
  PROVE  \E it : SumTable(it, f)
<1> DEFINE S == DOMAIN f
           pick == [s \in SUBSET S |-> CHOOSE x \in s : TRUE]
           step == [p \in S \X Int |-> f[p[1]] + p[2]]
<1>1. \A s \in SUBSET S : s # {} => pick[s] \in s
  OBVIOUS
<1>2. step \in [S \X Int -> Int] /\ 0 \in Int
  OBVIOUS
<1>3. PICK g : SetRecursion(g, SUBSET S, Int, 0, pick, step)
  <2> HIDE DEF pick, step
  <2>. QED
    BY <1>1, <1>2, SetRecursionExists
<1>4. ASSUME NEW s \in SUBSET S, s # {}
      PROVE  step[<<pick[s], g[s \ {pick[s]}]>>]
               = f[CHOOSE x \in s : TRUE] + g[s \ {CHOOSE x \in s : TRUE}]
  <2>1. pick[s] \in S /\ pick[s] = CHOOSE x \in s : TRUE
    BY <1>1, <1>4
  <2>2. PICK t : t = s \ {pick[s]}
    OBVIOUS
  <2>3. t \in SUBSET S
    BY <2>2
  <2>4. g[t] \in Int
    BY <1>3, <2>3 DEF SetRecursion
  <2>5. \A a \in S, b \in Int : step[<<a, b>>] = f[a] + b
    OBVIOUS
  <2>. QED
    BY <2>1, <2>2, <2>4, <2>5
<1>5. SumTable(g, f)
  <2>1. g = [s \in SUBSET S |-> g[s]]
    BY <1>3 DEF SetRecursion
  <2>2. ASSUME NEW s \in SUBSET S
        PROVE  g[s] = IF s = {} THEN 0
                      ELSE f[CHOOSE x \in s : TRUE] + g[s \ {CHOOSE x \in s : TRUE}]
    BY <1>3, <1>4 DEF SetRecursion
  <2>. QED
    BY <2>1, <2>2, Zenon DEF SumTable
<1>. QED
  BY <1>5

\* The sum of the values of a function, and the element that is added next.
Total(f) == (CHOOSE it : SumTable(it, f))[DOMAIN f]

Pick(s) == CHOOSE x \in s : TRUE

\* The sum over a set is that of an element and of the rest.
SumsUp(it, f, S) ==
  \A s \in SUBSET S : s # {} => \E x \in s : x = Pick(s) /\ it[s] = f[x] + it[s \ {x}]

\* So it is in the recursive function.
LEMMA TableStep ==
  ASSUME NEW S, NEW f \in [S -> Int], NEW it, SumTable(it, f)
  PROVE  it[{}] = 0 /\ SumsUp(it, f, S)
<1>0. DOMAIN f = S
  OBVIOUS
<1>1. \A s \in SUBSET S : it[s] = IF s = {} THEN 0 ELSE f[Pick(s)] + it[s \ {Pick(s)}]
  BY <1>0, Zenon DEF SumTable, Pick
<1>2. {} \in SUBSET S
  OBVIOUS
<1>3. it[{}] = 0
  BY <1>1, <1>2, Zenon
<1>4. ASSUME NEW s \in SUBSET S, s # {}
      PROVE  \E x \in s : x = Pick(s) /\ it[s] = f[x] + it[s \ {x}]
  <2>1. Pick(s) \in s
    BY <1>4 DEF Pick
  <2>2. it[s] = f[Pick(s)] + it[s \ {Pick(s)}]
    BY <1>1, <1>4, Zenon
  <2>. QED
    BY <2>1, <2>2, Zenon
<1>. QED
  BY <1>3, <1>4 DEF SumsUp

\* Sums are integers.
LEMMA TableInt ==
  ASSUME NEW S, IsFiniteSet(S), NEW f \in [S -> Int], NEW it, SumTable(it, f)
  PROVE  \A s \in SUBSET S : it[s] \in Int
<1>9. SumsUp(it, f, S)
  BY TableStep
<1> DEFINE P == {s \in SUBSET S : it[s] \in Int}
<1>1. {} \in P
  BY TableStep
<1>2. ASSUME NEW s \in SUBSET S, s # {}
      PROVE  \E x \in s : s \ {x} \in P => s \in P
  <2>1. PICK x \in s : it[s] = f[x] + it[s \ {x}]
    BY <1>2, <1>9 DEF SumsUp
  <2>2. f[x] \in Int
    OBVIOUS
  <2>. QED
    BY <2>1, <2>2
<1>3. BuiltUp(P, S)
  BY <1>1, <1>2 DEF BuiltUp
<1> HIDE DEF P
<1>4. SUBSET S \subseteq P
  BY <1>3, SubsetInduction
<1>. QED
  BY <1>4 DEF P

\* Two recursive functions of the same values agree.
LEMMA TableIsOnly ==
  ASSUME NEW S, IsFiniteSet(S), NEW f \in [S -> Int], NEW it, SumTable(it, f),
         NEW jt, SumTable(jt, f)
  PROVE  \A s \in SUBSET S : it[s] = jt[s]
<1>9. SumsUp(it, f, S) /\ SumsUp(jt, f, S)
  BY TableStep
<1> DEFINE P == {s \in SUBSET S : it[s] = jt[s]}
<1>1. {} \in P
  BY TableStep
<1>2. ASSUME NEW s \in SUBSET S, s # {}
      PROVE  \E x \in s : s \ {x} \in P => s \in P
  <2>1. PICK x \in s : x = Pick(s) /\ it[s] = f[x] + it[s \ {x}]
    BY <1>2, <1>9 DEF SumsUp
  <2>2. x \in s /\ it[s] = f[x] + it[s \ {x}]
    BY <2>1
  <2>3. jt[s] = f[x] + jt[s \ {x}]
    <3>1. PICK y \in s : y = Pick(s) /\ jt[s] = f[y] + jt[s \ {y}]
      BY <1>2, <1>9 DEF SumsUp
    <3>. QED
      BY <2>1, <3>1
  <2>. QED
    BY <2>2, <2>3
<1>3. BuiltUp(P, S)
  BY <1>1, <1>2 DEF BuiltUp
<1> HIDE DEF P
<1>4. SUBSET S \subseteq P
  BY <1>3, SubsetInduction
<1>. QED
  BY <1>4 DEF P

\* The sum is the last value of any recursive function of the values.
LEMMA TotalIs ==
  ASSUME NEW S, IsFiniteSet(S), NEW f \in [S -> Int]
  PROVE  /\ \E it : SumTable(it, f) /\ Total(f) = it[S]
         /\ \A it : SumTable(it, f) => it[S] = Total(f)
<1> DEFINE c == CHOOSE it : SumTable(it, f)
<1>1. \E it : SumTable(it, f)
  BY SumTableExists
<1>2. SumTable(c, f)
  BY <1>1
<1>3. Total(f) = c[S]
  BY DEF Total
<1>4. S \in SUBSET S
  OBVIOUS
<1> HIDE DEF c
<1>. QED
  BY <1>2, <1>3, <1>4, TableIsOnly

\* The sum of integers is an integer.
LEMMA TotalInt ==
  ASSUME NEW S, IsFiniteSet(S), NEW f \in [S -> Int]
  PROVE  Total(f) \in Int
<1>1. PICK it : SumTable(it, f) /\ Total(f) = it[S]
  BY TotalIs
<1>2. S \in SUBSET S
  OBVIOUS
<1>. QED
  BY <1>1, <1>2, TableInt

\* The sum of sums is the sum of the two sums.
LEMMA TotalPlus ==
  ASSUME NEW S, IsFiniteSet(S), NEW f \in [S -> Int], NEW g \in [S -> Int],
         NEW h \in [S -> Int], \A x \in S : h[x] = f[x] + g[x]
  PROVE  Total(h) = Total(f) + Total(g)
<1>1. PICK ofF : SumTable(ofF, f) /\ Total(f) = ofF[S]
  BY TotalIs
<1>2. PICK ofG : SumTable(ofG, g) /\ Total(g) = ofG[S]
  BY TotalIs
<1>3. PICK sums : SumTable(sums, h) /\ Total(h) = sums[S]
  BY TotalIs
<1>9. SumsUp(ofF, f, S) /\ SumsUp(ofG, g, S) /\ SumsUp(sums, h, S)
  BY <1>1, <1>2, <1>3, TableStep
<1> DEFINE P == {s \in SUBSET S : sums[s] = ofF[s] + ofG[s]}
<1>4. {} \in P
  BY <1>1, <1>2, <1>3, TableStep
<1>5. ASSUME NEW s \in SUBSET S, s # {}
      PROVE  \E x \in s : s \ {x} \in P => s \in P
  <2>1. PICK x \in s : x = Pick(s) /\ ofF[s] = f[x] + ofF[s \ {x}]
    BY <1>5, <1>9 DEF SumsUp
  <2>2. x \in s /\ ofF[s] = f[x] + ofF[s \ {x}]
    BY <2>1
  <2>3. ofG[s] = g[x] + ofG[s \ {x}]
    <3>1. PICK y \in s : y = Pick(s) /\ ofG[s] = g[y] + ofG[s \ {y}]
      BY <1>5, <1>9 DEF SumsUp
    <3>. QED
      BY <2>1, <3>1
  <2>4. sums[s] = h[x] + sums[s \ {x}]
    <3>1. PICK y \in s : y = Pick(s) /\ sums[s] = h[y] + sums[s \ {y}]
      BY <1>5, <1>9 DEF SumsUp
    <3>. QED
      BY <2>1, <3>1
  <2>5. PICK t : t = s \ {x} /\ t \in SUBSET S
    OBVIOUS
  <2>6. ofF[t] \in Int /\ ofG[t] \in Int /\ sums[t] \in Int /\ f[x] \in Int /\ g[x] \in Int
    BY <1>1, <1>2, <1>3, <2>2, <2>5, TableInt
  <2>7. sums[t] = ofF[t] + ofG[t] => sums[s] = ofF[s] + ofG[s]
    BY <2>1, <2>2, <2>3, <2>4, <2>5, <2>6
  <2>. QED
    BY <2>2, <2>5, <2>7
<1>6. BuiltUp(P, S)
  BY <1>4, <1>5 DEF BuiltUp
<1> HIDE DEF P
<1>7. SUBSET S \subseteq P /\ S \in SUBSET S
  BY <1>6, SubsetInduction
<1>. QED
  BY <1>1, <1>2, <1>3, <1>7 DEF P

\* A factor may be taken out of a sum.
LEMMA TotalTimes ==
  ASSUME NEW S, IsFiniteSet(S), NEW f \in [S -> Int], NEW c \in Int,
         NEW h \in [S -> Int], \A x \in S : h[x] = c * f[x]
  PROVE  Total(h) = c * Total(f)
<1>1. PICK ofF : SumTable(ofF, f) /\ Total(f) = ofF[S]
  BY TotalIs
<1>3. PICK sums : SumTable(sums, h) /\ Total(h) = sums[S]
  BY TotalIs
<1>9. SumsUp(ofF, f, S) /\ SumsUp(sums, h, S)
  BY <1>1, <1>3, TableStep
<1> DEFINE P == {s \in SUBSET S : sums[s] = c * ofF[s]}
<1>4. {} \in P
  BY <1>1, <1>3, TableStep
<1>5. ASSUME NEW s \in SUBSET S, s # {}
      PROVE  \E x \in s : s \ {x} \in P => s \in P
  <2>1. PICK x \in s : x = Pick(s) /\ ofF[s] = f[x] + ofF[s \ {x}]
    BY <1>5, <1>9 DEF SumsUp
  <2>2. x \in s /\ ofF[s] = f[x] + ofF[s \ {x}]
    BY <2>1
  <2>3. sums[s] = h[x] + sums[s \ {x}]
    <3>1. PICK y \in s : y = Pick(s) /\ sums[s] = h[y] + sums[s \ {y}]
      BY <1>5, <1>9 DEF SumsUp
    <3>. QED
      BY <2>1, <3>1
  <2>5. PICK t : t = s \ {x} /\ t \in SUBSET S
    OBVIOUS
  <2>6. ofF[t] \in Int /\ sums[t] \in Int /\ f[x] \in Int
    BY <1>1, <1>3, <2>2, <2>5, TableInt
  <2>7. c * (f[x] + ofF[t]) = c * f[x] + c * ofF[t]
    BY <2>6
  <2>8. sums[t] = c * ofF[t] => sums[s] = c * ofF[s]
    BY <2>2, <2>3, <2>5, <2>6, <2>7
  <2>. QED
    BY <2>2, <2>5, <2>8
<1>6. BuiltUp(P, S)
  BY <1>4, <1>5 DEF BuiltUp
<1> HIDE DEF P
<1>7. SUBSET S \subseteq P /\ S \in SUBSET S
  BY <1>6, SubsetInduction
<1>. QED
  BY <1>1, <1>3, <1>7 DEF P

\* Of what is nothing everywhere but in one place, that place is the sum.
LEMMA TotalOne ==
  ASSUME NEW S, IsFiniteSet(S), NEW f \in [S -> Int], NEW a,
         \A x \in S : x # a => f[x] = 0
  PROVE  Total(f) = IF a \in S THEN f[a] ELSE 0
<1>1. PICK ofF : SumTable(ofF, f) /\ Total(f) = ofF[S]
  BY TotalIs
<1>9. SumsUp(ofF, f, S)
  BY <1>1, TableStep
<1> DEFINE P == {s \in SUBSET S : ofF[s] = IF a \in s THEN f[a] ELSE 0}
<1>4. {} \in P
  BY <1>1, TableStep
<1>5. ASSUME NEW s \in SUBSET S, s # {}
      PROVE  \E x \in s : s \ {x} \in P => s \in P
  <2>1. PICK x \in s : ofF[s] = f[x] + ofF[s \ {x}]
    BY <1>5, <1>9 DEF SumsUp
  <2>5. PICK t : t = s \ {x} /\ t \in SUBSET S
    OBVIOUS
  <2>6. ofF[t] \in Int /\ f[x] \in Int
    BY <1>1, <2>5, TableInt
  <2>7. x = a => a \in s /\ a \notin t
    BY <2>5
  <2>8. x # a => (a \in s <=> a \in t) /\ f[x] = 0
    BY <2>5
  <2>9. t \in P => s \in P
    BY <2>1, <2>5, <2>6, <2>7, <2>8
  <2>. QED
    BY <2>5, <2>9
<1>6. BuiltUp(P, S)
  BY <1>4, <1>5 DEF BuiltUp
<1> HIDE DEF P
<1>7. SUBSET S \subseteq P /\ S \in SUBSET S
  BY <1>6, SubsetInduction
<1>. QED
  BY <1>1, <1>7 DEF P

\* A sum of bits counts the ones.
LEMMA TotalOfBits ==
  ASSUME NEW S, IsFiniteSet(S), NEW f \in [S -> {0, 1}]
  PROVE  Total(f) = Cardinality({x \in S : f[x] = 1})
<1>0. f \in [S -> Int]
  OBVIOUS
<1>1. PICK ofF : SumTable(ofF, f) /\ Total(f) = ofF[S]
  BY <1>0, TotalIs
<1>9. SumsUp(ofF, f, S)
  BY <1>1, <1>0, TableStep
<1> DEFINE ones(s) == {x \in s : f[x] = 1}
           P == {s \in SUBSET S : ofF[s] = Cardinality(ones(s))}
<1>4. {} \in P
  BY <1>1, TableStep, FS_EmptySet
<1>5. ASSUME NEW s \in SUBSET S, s # {}
      PROVE  \E x \in s : s \ {x} \in P => s \in P
  <2>1. PICK x \in s : ofF[s] = f[x] + ofF[s \ {x}]
    BY <1>5, <1>9 DEF SumsUp
  <2>5. PICK t : t = s \ {x} /\ t \in SUBSET S
    OBVIOUS
  <2>6. IsFiniteSet(ones(t)) /\ Cardinality(ones(t)) \in Nat
    <3>1. ones(t) \in SUBSET S
      BY <2>5
    <3>. QED
      BY <3>1, FS_Subset, FS_CardinalityType
  <2>7. CASE f[x] = 1
    <3>1. ones(s) = ones(t) \cup {x} /\ x \notin ones(t)
      BY <2>5, <2>7
    <3>2. Cardinality(ones(s)) = Cardinality(ones(t)) + 1
      BY <2>6, <3>1, FS_AddElement
    <3>3. t \in P => s \in P
      BY <2>1, <2>5, <2>6, <2>7, <3>2
    <3>. QED
      BY <2>5, <3>3
  <2>8. CASE f[x] # 1
    <3>1. ones(s) = ones(t) /\ f[x] = 0
      BY <2>5, <2>8
    <3>3. t \in P => s \in P
      BY <2>1, <2>5, <2>6, <3>1
    <3>. QED
      BY <2>5, <3>3
  <2>. QED
    BY <2>7, <2>8
<1>6. BuiltUp(P, S)
  BY <1>4, <1>5 DEF BuiltUp
<1> HIDE DEF P
<1>7. SUBSET S \subseteq P /\ S \in SUBSET S
  BY <1>6, SubsetInduction
<1>. QED
  BY <1>1, <1>7 DEF P

\* The modulus and the parameters as numbers.
LEMMA Numbers ==
  /\ Q \in Int /\ Q >= 3 /\ Gamma \in Int /\ Gamma >= 2 /\ Gamma < Q /\ Omega \in Nat
  /\ 2 * Gamma2 \in Int /\ Gamma2 \in Int /\ Gamma2 >= 1 /\ Width \in Nat
  /\ 2 ^ Width \in Int /\ Q < 2 ^ Width
  /\ ZLanes \in Nat /\ ZLanes >= 1 /\ HLanes \in Nat /\ Lanes = ZLanes + HLanes
<1>1. \A n \in Nat : 2 ^ n \in Int
  OBVIOUS
<1>. QED
  BY <1>1, ParameterAssumption, LanesType DEF ZLanes, HLanes, Lanes

\* HighBits, case by case.
LEMMA HighBitsIs ==
  ASSUME NEW r, NEW low, low = r % (2 * Gamma2)
  PROVE  /\ low > Gamma2 => HighBits(r) = IF r - (low - 2 * Gamma2) = Q - 1 THEN 0
                                          ELSE (r - (low - 2 * Gamma2)) \div (2 * Gamma2)
         /\ ~ (low > Gamma2) => HighBits(r) = IF r - low = Q - 1 THEN 0
                                              ELSE (r - low) \div (2 * Gamma2)
<1>1. CASE low > Gamma2
  BY <1>1, Zenon DEF HighBits
<1>2. CASE ~ (low > Gamma2)
  BY <1>2, Zenon DEF HighBits
<1>. QED
  BY <1>1, <1>2

\* The modulus is one more than m times a.
Steps(a, m) == a = 2 * Gamma2 /\ Q - 1 = a * m

\* r is k steps and a part low, and what HighBits makes of it.
Rounds(r, a, m, k, low) ==
  /\ 0 <= low /\ low < a /\ r = a * k + low /\ 0 <= k /\ k <= m /\ m >= 1
  /\ low <= Gamma2 => HighBits(r) = IF k = m THEN 0 ELSE k
  /\ low > Gamma2 => HighBits(r) = (IF k + 1 = m THEN 0 ELSE k + 1) /\ k + 1 <= m

\* Multiples of the step alpha: q - 1 is m of them.
LEMMA StepFacts ==
  ASSUME NEW a \in Int, NEW m \in Int, Steps(a, m)
  PROVE  /\ a >= 2 /\ m >= 1
         /\ \A i \in Int : a * i \in Int /\ (a * i = Q - 1 <=> i = m) /\ (a * i) \div a = i
<1>1. a \in Int /\ a > 0 /\ Q >= 3 /\ Q \in Int /\ a >= 2
  BY Numbers DEF Steps
<1>5. m >= 1
  <2>1. SUFFICES ASSUME m <= 0 PROVE FALSE
    OBVIOUS
  <2>2. CASE m = 0
    BY <1>1, <2>2 DEF Steps
  <2>3. CASE m <= -1
    <3>1. a * (-m) >= a
      BY <1>1, <2>3, MulBound
    <3>2. a * (-m) = -(a * m)
      BY <1>1
    <3>. QED
      BY <1>1, <3>1, <3>2 DEF Steps
  <2>. QED
    BY <2>1, <2>2, <2>3
<1>6. \A i \in Int : a * i = Q - 1 <=> i = m
  <2>1. SUFFICES ASSUME NEW i \in Int, a * i = Q - 1 PROVE i = m
    BY <1>1 DEF Steps
  <2>2. a * i + 0 = a * m + 0
    BY <2>1 DEF Steps
  <2>3. i <= m
    BY <1>1, <2>2, NotBelow
  <2>4. m <= i
    BY <1>1, <2>2, NotBelow
  <2>. QED
    BY <2>3, <2>4
<1>7. \A i \in Int : (a * i) \div a = i
  <2>1. SUFFICES ASSUME NEW i \in Int PROVE (a * i) \div a = i
    OBVIOUS
  <2>2. (a * i + 0) \div a = i
    BY <1>1, DivMod
  <2>3. a * i + 0 = a * i
    BY <1>1
  <2>. QED
    BY <2>2, <2>3
<1>. QED
  BY <1>1, <1>5, <1>6, <1>7

\* What rounds to a high part.
LEMMA HighRange ==
  ASSUME NEW r \in 0 .. Q - 1, NEW a \in Int, NEW m \in Int, Steps(a, m)
  PROVE  \E k \in Int, low \in Int : Rounds(r, a, m, k, low)
<1>1. /\ a > 0 /\ a >= 2 /\ m >= 1 /\ Q >= 3 /\ Q \in Int /\ r \in Int
      /\ Gamma2 \in Int /\ Gamma2 >= 1 /\ r <= Q - 1 /\ r >= 0
  BY Numbers, StepFacts
<1>2. PICK k, low : k = r \div a /\ low = r % a
  OBVIOUS
<1>3. k \in Int /\ low \in Int /\ r = a * k + low /\ 0 <= low /\ low < a
  BY <1>1, <1>2, DivFacts
<1>4. low = r % (2 * Gamma2)
  BY <1>2 DEF Steps
<1>5. \A i \in Int : a * i \in Int /\ (a * i = Q - 1 <=> i = m) /\ (a * i) \div a = i
  BY StepFacts
<1>6. 0 <= k
  <2>1. SUFFICES ASSUME k <= -1 PROVE FALSE
    BY <1>3
  <2>2. a * (-k) >= a
    BY <1>1, <1>3, <2>1, MulBound
  <2>3. a * (-k) = -(a * k)
    BY <1>3
  <2>. QED
    BY <1>1, <1>3, <2>2, <2>3
<1>7. k <= m
  <2>1. SUFFICES ASSUME k - m >= 1 PROVE FALSE
    BY <1>3
  <2>2. a * (k - m) >= a
    BY <1>1, <1>3, <2>1, MulBound
  <2>3. a * (k - m) = a * k - a * m
    BY <1>3
  <2>. QED
    BY <1>1, <1>3, <2>2, <2>3 DEF Steps
<1>8. ASSUME low <= Gamma2 PROVE HighBits(r) = IF k = m THEN 0 ELSE k
  <2>1. HighBits(r) = IF r - low = Q - 1 THEN 0 ELSE (r - low) \div a
    <3>1. ~ (low > Gamma2)
      BY <1>1, <1>3, <1>8
    <3>2. HighBits(r) = IF r - low = Q - 1 THEN 0 ELSE (r - low) \div (2 * Gamma2)
      BY <1>4, <3>1, HighBitsIs
    <3>. QED
      BY <3>2 DEF Steps
  <2>2. r - low = a * k
    BY <1>1, <1>3
  <2>. QED
    BY <1>3, <1>5, <2>1, <2>2
<1>9. ASSUME low > Gamma2 PROVE HighBits(r) = IF k + 1 = m THEN 0 ELSE k + 1
  <2>1. HighBits(r) = IF r - (low - a) = Q - 1 THEN 0 ELSE (r - (low - a)) \div a
    <3>1. HighBits(r) = IF r - (low - 2 * Gamma2) = Q - 1 THEN 0
                        ELSE (r - (low - 2 * Gamma2)) \div (2 * Gamma2)
      BY <1>4, <1>9, HighBitsIs
    <3>. QED
      BY <3>1 DEF Steps
  <2>2. r - (low - a) = a * (k + 1) /\ k + 1 \in Int
    BY <1>1, <1>3
  <2>. QED
    BY <1>5, <2>1, <2>2
<1>10. ASSUME low > Gamma2 PROVE k + 1 <= m
  <2>1. k # m
    BY <1>1, <1>3, <1>10 DEF Steps
  <2>. QED
    BY <1>3, <1>7, <2>1
<1>11. Rounds(r, a, m, k, low)
  <2>1. 0 <= low /\ low < a /\ r = a * k + low /\ 0 <= k /\ k <= m /\ m >= 1
    BY <1>1, <1>3, <1>6, <1>7, Zenon
  <2>. QED
    BY <1>8, <1>9, <1>10, <2>1, Zenon DEF Rounds
<1>. QED
  BY <1>3, <1>11

\* The gates of the circuits compute not, and, or.
LEMMA BitAlgebra ==
  \A p, q \in BOOLEAN : /\ BitNot(Bit(p)) = Bit(~p)
                        /\ Bit(p) * Bit(q) = Bit(p /\ q)
                        /\ Or(Bit(p), Bit(q)) = Bit(p \/ q)
<1>. SUFFICES ASSUME NEW p \in BOOLEAN, NEW q \in BOOLEAN
              PROVE  /\ BitNot(Bit(p)) = Bit(~p)
                     /\ Bit(p) * Bit(q) = Bit(p /\ q)
                     /\ Or(Bit(p), Bit(q)) = Bit(p \/ q)
  OBVIOUS
<1>1. CASE p /\ q
  BY <1>1 DEF Bit, BitNot, Or
<1>2. CASE p /\ ~q
  BY <1>2 DEF Bit, BitNot, Or
<1>3. CASE ~p /\ q
  BY <1>3 DEF Bit, BitNot, Or
<1>4. CASE ~p /\ ~q
  BY <1>4 DEF Bit, BitNot, Or
<1>. QED
  BY <1>1, <1>2, <1>3, <1>4

\* Alpha is a step, as it divides q - 1.
LEMMA StepsExist == \E a \in Int, m \in Int : Steps(a, m)
<1>1. 2 * Gamma2 \in Int /\ 2 * Gamma2 > 0 /\ Q - 1 \in Int
  BY Numbers
<1>2. PICK a \in Int : a = 2 * Gamma2
  BY <1>1
<1>3. Q - 1 = a * ((Q - 1) \div a) + ((Q - 1) % a) /\ (Q - 1) \div a \in Int
  BY <1>1, <1>2, DivFacts
<1>4. (Q - 1) % a = 0
  BY <1>2, ParameterAssumption
<1>5. PICK m \in Int : m = (Q - 1) \div a
  BY <1>3
<1>6. Q - 1 = a * m
  BY <1>3, <1>4, <1>5
<1>. QED
  BY <1>2, <1>6 DEF Steps

\* The high parts: from 0 to m - 1.
LEMMA HighType ==
  ASSUME NEW r \in 0 .. Q - 1, NEW a \in Int, NEW m \in Int, Steps(a, m)
  PROVE  HighBits(r) \in 0 .. m - 1
<1>1. PICK k \in Int, low \in Int : Rounds(r, a, m, k, low)
  BY HighRange
<1>2. Gamma2 \in Int
  BY Numbers
<1>3. CASE low <= Gamma2
  BY <1>1, <1>3 DEF Rounds
<1>4. CASE low > Gamma2
  BY <1>1, <1>4 DEF Rounds
<1>. QED
  BY <1>2, <1>3, <1>4

\* Different multiples are a step apart.
LEMMA MulOrder ==
  ASSUME NEW a \in Int, a > 0, NEW i \in Int, NEW j \in Int, i < j
  PROVE  a * i + a <= a * j
<1>1. a * (j - i) >= a
  BY MulBound
<1>2. a * (j - i) = a * j - a * i
  OBVIOUS
<1>. QED
  BY <1>1, <1>2

\* The interval circuit asks for the high part: the interval of zero wraps around.
LEMMA IntervalIs ==
  ASSUME NEW r \in 0 .. Q - 1, NEW a \in Int, NEW m \in Int, Steps(a, m), NEW h \in 0 .. m - 1
  PROVE  /\ h = 0 => (HighBits(r) = h <=> ~ (r < Lower(h) + 1) \/ r < UpperExclusive(h))
         /\ h # 0 => (HighBits(r) = h <=> ~ (r < Lower(h) + 1) /\ r < UpperExclusive(h))
<1>1. PICK k \in Int, low \in Int : Rounds(r, a, m, k, low)
  BY HighRange
<1>2. /\ a > 0 /\ a >= 2 /\ m >= 1 /\ Q >= 3 /\ Q \in Int /\ r \in Int /\ h \in Int
      /\ Gamma2 \in Int /\ Gamma2 >= 1 /\ r <= Q - 1 /\ r >= 0 /\ h >= 0 /\ h < m
  BY Numbers, StepFacts
<1>3. a = 2 * Gamma2 /\ Q - 1 = a * m
  BY DEF Steps
<1>4. PICK ak \in Int, ah \in Int, am \in Int : ak = a * k /\ ah = a * h /\ am = a * m
  BY <1>2
<1>5. /\ k < h => ak + a <= ah
      /\ h < k => ah + a <= ak
      /\ k + 1 < h => ak + a + a <= ah
      /\ k = h => ak = ah
      /\ k + 1 = h => ak + a = ah
      /\ h < k + 1 => ah <= ak
  <2>1. k < h => ak + a <= ah
    BY <1>2, <1>4, MulOrder
  <2>2. h < k => ah + a <= ak
    BY <1>2, <1>4, MulOrder
  <2>3. k + 1 < h => a * (k + 1) + a <= ah
    BY <1>2, <1>4, MulOrder
  <2>4. a * (k + 1) = ak + a
    BY <1>4
  <2>5. k + 1 = h => a * (k + 1) = ah
    BY <1>4
  <2>6. k = h => ak = ah
    BY <1>4
  <2>7. h < k + 1 => h < k \/ h = k
    BY <1>2
  <2>. QED
    BY <1>2, <2>1, <2>2, <2>3, <2>4, <2>5, <2>6, <2>7
<1>6. /\ k < m => ak + a <= am
      /\ k = m => ak = am
      /\ k + 1 = m => ak + a = am
      /\ k + 1 < m => ak + a + a <= am
  <2>1. k < m => ak + a <= am
    BY <1>2, <1>4, MulOrder
  <2>3. k + 1 < m => a * (k + 1) + a <= am
    BY <1>2, <1>4, MulOrder
  <2>4. a * (k + 1) = ak + a
    BY <1>4
  <2>. QED
    BY <1>4, <2>1, <2>3, <2>4
<1>7. /\ 0 <= low /\ low < a /\ r = ak + low /\ 0 <= k /\ k <= m
      /\ low <= Gamma2 => HighBits(r) = IF k = m THEN 0 ELSE k
      /\ low > Gamma2 => HighBits(r) = (IF k + 1 = m THEN 0 ELSE k + 1) /\ k + 1 <= m
      /\ Q - 1 = am
  BY <1>1, <1>3, <1>4 DEF Rounds
<1>8. CASE h = 0
  <2>1. Lower(h) + 1 = Q - Gamma2 /\ UpperExclusive(h) = Gamma2 + 1 /\ ah = 0
    BY <1>2, <1>4, <1>8 DEF Lower, UpperExclusive
  <2>2. k = 0 \/ ak >= a
    BY <1>5, <1>7, <1>8, <2>1
  <2>3. k = 0 => ak = 0
    BY <1>5, <1>8, <2>1
  <2>4. CASE low <= Gamma2
    <3>1. HighBits(r) = 0 <=> k = m \/ k = 0
      BY <1>7, <2>4
    <3>. QED
      BY <1>2, <1>3, <1>6, <1>7, <1>8, <2>1, <2>2, <2>3, <2>4, <3>1
  <2>5. CASE low > Gamma2
    <3>1. HighBits(r) = 0 <=> k + 1 = m
      BY <1>7, <2>5
    <3>. QED
      BY <1>2, <1>3, <1>6, <1>7, <1>8, <2>1, <2>2, <2>3, <2>5, <3>1
  <2>. QED
    BY <1>2, <2>4, <2>5
<1>9. CASE h # 0
  <2>1. Lower(h) + 1 = ah - Gamma2 + 1 /\ UpperExclusive(h) = ah + Gamma2 + 1
    <3>1. h * (2 * Gamma2) = ah
      BY <1>2, <1>3, <1>4
    <3>. QED
      BY <1>2, <1>9, <3>1 DEF Lower, UpperExclusive
  <2>4. CASE low <= Gamma2
    <3>1. HighBits(r) = h <=> k = h
      BY <1>2, <1>7, <1>9, <2>4
    <3>. QED
      BY <1>2, <1>3, <1>5, <1>7, <1>9, <2>1, <2>4, <3>1
  <2>5. CASE low > Gamma2
    <3>1. HighBits(r) = h <=> k + 1 = h
      BY <1>2, <1>7, <1>9, <2>5
    <3>. QED
      BY <1>2, <1>3, <1>5, <1>7, <1>9, <2>1, <2>5, <3>1
  <2>. QED
    BY <1>2, <2>4, <2>5
<1>. QED
  BY <1>8, <1>9

\* The hint circuit compares the high bits of a lane with the public ones.
LEMMA HintIs ==
  ASSUME NEW r \in 0 .. Q - 1, NEW x \in 0 .. Q - 1
  PROVE  HintBit(r, HighBits(x)) = Bit(HighBits(r) # HighBits(x))
<1>1. PICK a \in Int, m \in Int : Steps(a, m)
  BY StepsExist
<1>2. PICK h \in 0 .. m - 1 : h = HighBits(x)
  BY <1>1, HighType
<1>3. PICK g, l : g = (r < Lower(h) + 1) /\ l = (r < UpperExclusive(h))
  OBVIOUS
<1>4. g \in BOOLEAN /\ l \in BOOLEAN
  BY <1>3
<1>5. HintBit(r, h) = BitNot(InInterval(BitNot(Bit(g)), Bit(l), h))
  BY <1>3 DEF HintBit
<1>6. BitNot(Bit(g)) = Bit(~g) /\ (~g) \in BOOLEAN
  <2>1. (~g) \in BOOLEAN
    OBVIOUS
  <2>. QED
    BY <1>4, <2>1, BitAlgebra, Zenon
<1>7. CASE h = 0
  <2>1. HintBit(r, h) = Bit(~ (~g \/ l))
    BY <1>4, <1>5, <1>6, <1>7, BitAlgebra DEF InInterval
  <2>2. HighBits(r) = h <=> ~g \/ l
    BY <1>1, <1>3, <1>7, IntervalIs
  <2>. QED
    BY <1>2, <2>1, <2>2 DEF Bit
<1>8. CASE h # 0
  <2>1. HintBit(r, h) = Bit(~ (~g /\ l))
    BY <1>4, <1>5, <1>6, <1>8, BitAlgebra DEF InInterval
  <2>2. HighBits(r) = h <=> ~g /\ l
    BY <1>1, <1>3, <1>8, IntervalIs
  <2>. QED
    BY <1>2, <2>1, <2>2 DEF Bit
<1>. QED
  BY <1>7, <1>8

\* A fold that adds is such a sum.
LEMMA SumIsTotal == \A f : SumOver(f) = Total(f)
BY Zenon DEF SumOver, FoldFunction, FoldFunctionOnSet, MapThenFoldSet, SumTable, Total

\* Integers stay integers.
LEMMA IntClosed == \A a, b \in Int : a * b \in Int /\ a + b \in Int /\ a - b \in Int /\ -a \in Int
OBVIOUS

\* The values of h are those of f and g, added.
Adds(h, f, g, S) == \A x \in S : h[x] = f[x] + g[x]

\* f maps the finite set S to integers.
Ints(f, S) == f \in [S -> Int] /\ IsFiniteSet(S)

\* TotalPlus, for every function at once.
LEMMA TotalAdds ==
  \A S, f, g, h : Ints(f, S) /\ Ints(g, S) /\ Ints(h, S) /\ Adds(h, f, g, S)
                  => Total(h) = Total(f) + Total(g)
BY TotalPlus, Zenon DEF Adds, Ints

\* The values of h are those of f, times c.
Scales(h, c, f, S) == c \in Int /\ \A x \in S : h[x] = c * f[x]

\* TotalTimes, for every function at once.
LEMMA TotalScales ==
  \A S, f, c, h : Ints(f, S) /\ Ints(h, S) /\ Scales(h, c, f, S) => Total(h) = c * Total(f)
BY TotalTimes, Zenon DEF Scales, Ints

\* w is v and multiples of x and y.
Combines(w, v, c, x, d, y, S) == \A k \in S : w[k] = v[k] + c * x[k] + d * y[k]

\* A product of two vectors is linear in the second one.
LEMMA DotLinear ==
  ASSUME NEW n \in Nat, NEW u, Ints(u, 1 .. n), NEW v, Ints(v, 1 .. n), NEW x, Ints(x, 1 .. n),
         NEW y, Ints(y, 1 .. n), NEW w, Ints(w, 1 .. n),
         NEW c \in Int, NEW d \in Int, Combines(w, v, c, x, d, y, 1 .. n)
  PROVE  /\ Dot(u, v) \in Int /\ Dot(u, x) \in Int /\ Dot(u, y) \in Int
         /\ Dot(u, w) = Dot(u, v) + c * Dot(u, x) + d * Dot(u, y)
<1> DEFINE S == 1 .. n
<1>0. IsFiniteSet(S) /\ DOMAIN u = S
  BY DEF Ints
<1>11. /\ u \in [S -> Int] /\ v \in [S -> Int] /\ x \in [S -> Int] /\ y \in [S -> Int]
       /\ w \in [S -> Int]
  BY DEF Ints
<1> DEFINE fv == [k \in S |-> u[k] * v[k]]  fx == [k \in S |-> u[k] * x[k]]
           fy == [k \in S |-> u[k] * y[k]]  fw == [k \in S |-> u[k] * w[k]]
           cx == [k \in S |-> c * fx[k]]  dy == [k \in S |-> d * fy[k]]
           vx == [k \in S |-> fv[k] + cx[k]]
<1>1. /\ fv \in [S -> Int] /\ fx \in [S -> Int] /\ fy \in [S -> Int] /\ fw \in [S -> Int]
      /\ cx \in [S -> Int] /\ dy \in [S -> Int] /\ vx \in [S -> Int]
  <2>1. /\ fv \in [S -> Int] /\ fx \in [S -> Int] /\ fy \in [S -> Int] /\ fw \in [S -> Int]
    BY <1>11, IntClosed
  <2> HIDE DEF fv, fx, fy, fw
  <2>2. cx \in [S -> Int] /\ dy \in [S -> Int]
    BY <2>1, IntClosed
  <2> HIDE DEF cx, dy
  <2>3. vx \in [S -> Int]
    BY <2>1, <2>2, IntClosed
  <2>. QED
    BY <2>1, <2>2, <2>3
<1>2. /\ Dot(u, v) = Total(fv) /\ Dot(u, x) = Total(fx)
      /\ Dot(u, y) = Total(fy) /\ Dot(u, w) = Total(fw)
  BY <1>0, SumIsTotal, Zenon DEF Dot
<1>3. \A k \in S : fw[k] = vx[k] + dy[k]
  <2>. SUFFICES ASSUME NEW k \in S PROVE fw[k] = vx[k] + dy[k]
    OBVIOUS
  <2>1. PICK a \in Int, b \in Int, e \in Int, f \in Int :
          a = u[k] /\ b = v[k] /\ e = x[k] /\ f = y[k]
    BY <1>11
  <2>2. fw[k] = a * (b + c * e + d * f)
    BY <2>1 DEF Combines
  <2>3. vx[k] = a * b + c * (a * e) /\ dy[k] = d * (a * f)
    BY <2>1
  <2>. QED
    BY <2>2, <2>3
<1>4. /\ Adds(vx, fv, cx, S) /\ Scales(cx, c, fx, S) /\ Scales(dy, d, fy, S)
      /\ Adds(fw, vx, dy, S)
  BY <1>3 DEF Adds, Scales
<1> HIDE DEF S, fv, fx, fy, fw, cx, dy, vx
<1>10. /\ Ints(fv, S) /\ Ints(fx, S) /\ Ints(fy, S) /\ Ints(fw, S)
       /\ Ints(cx, S) /\ Ints(dy, S) /\ Ints(vx, S)
  BY <1>0, <1>1 DEF Ints
<1>5. Total(fv) \in Int /\ Total(fx) \in Int /\ Total(fy) \in Int
  BY <1>0, <1>1, TotalInt
<1>6. Total(fw) = Total(vx) + Total(dy)
  BY <1>10, <1>4, TotalAdds, Zenon
<1>7. Total(vx) = Total(fv) + Total(cx)
  <2>1. Ints(vx, S) /\ Ints(fv, S) /\ Ints(cx, S) /\ Adds(vx, fv, cx, S)
    BY <1>10, <1>4, Zenon
  <2>. QED
    BY <2>1, TotalAdds
<1>8. Total(cx) = c * Total(fx)
  BY <1>10, <1>4, TotalScales, Zenon
<1>9. Total(dy) = d * Total(fy)
  BY <1>10, <1>4, TotalScales, Zenon
<1>. QED
  BY <1>2, <1>5, <1>6, <1>7, <1>8, <1>9, Zenon

\* A product of two vectors is a number.
LEMMA DotInt ==
  ASSUME NEW n \in Nat, NEW u, Ints(u, 1 .. n), NEW v, Ints(v, 1 .. n)
  PROVE  Dot(u, v) \in Int
<1>1. PICK z : z = [k \in 1 .. n |-> 0]
  OBVIOUS
<1>2. Ints(z, 1 .. n) /\ Combines(v, v, 0, z, 0, z, 1 .. n) /\ 0 \in Int
  BY <1>1 DEF Combines, Ints
<1>. QED
  BY <1>2, DotLinear, Zenon

\* Multiples of the divisor make no difference to the remainder.
LEMMA ModMultiple ==
  ASSUME NEW b \in Int, b > 0, NEW x \in Int, NEW n \in Int
  PROVE  (x + b * n) % b = x % b
<1>1. PICK q \in Int, r \in Int : x = b * q + r /\ 0 <= r /\ r < b /\ r = x % b
  BY DivFacts
<1>2. x + b * n = b * (q + n) + r
  BY <1>1
<1>3. (b * (q + n) + r) % b = r
  BY <1>1, DivMod
<1>. QED
  BY <1>1, <1>2, <1>3

\* The parts of a candidate.
LEMMA CandidateParts ==
  ASSUME NEW c \in Candidate
  PROVE  /\ c.y \in [1 .. ZLanes -> Int] /\ c.y \in [1 .. ZLanes -> 0 .. Q - 1]
         /\ c.priority \in 0 .. Q - 1 /\ c.ctilde \in 0 .. Q - 1
         /\ c.priority \in Int /\ c.ctilde \in Int
         /\ c.precomputed \in BOOLEAN
BY Numbers DEF Candidate

\* The key and the matrix have the dimensions that the profile gives them.
LEMMA KeyParts ==
  /\ S1 \in [1 .. ZLanes -> Int] /\ T \in [1 .. HLanes -> Int]
  /\ \A i \in 1 .. HLanes : A[i] \in [1 .. ZLanes -> Int]
<1>1. S1 \in [1 .. ZLanes -> 0 .. Q - 1]
  <2>1. S1 \in Seq(0 .. Q - 1)
    BY ParameterAssumption
  <2>2. \A X, s : s \in Seq(X) => s \in [1 .. Len(s) -> X]
    OBVIOUS
  <2>. QED
    BY <2>1, <2>2, Zenon DEF ZLanes
<1>2. T \in [1 .. HLanes -> 0 .. Q - 1]
  BY ParameterAssumption DEF HLanes
<1>3. \A i \in 1 .. HLanes : A[i] \in [1 .. ZLanes -> 0 .. Q - 1]
  BY ParameterAssumption
<1>4. 0 .. Q - 1 \subseteq Int
  BY Numbers
<1>. QED
  BY <1>1, <1>2, <1>3, <1>4

\* The response of a candidate is a vector of representatives.
LEMMA ZShareType ==
  ASSUME NEW c \in Candidate
  PROVE  /\ ZShare(c) \in [1 .. ZLanes -> 0 .. Q - 1]
         /\ ZShare(c) \in [1 .. ZLanes -> Int]
<1>1. \A k \in 1 .. ZLanes : (c.y[k] + c.ctilde * S1[k]) % Q \in 0 .. Q - 1
  <2>. SUFFICES ASSUME NEW k \in 1 .. ZLanes
                PROVE (c.y[k] + c.ctilde * S1[k]) % Q \in 0 .. Q - 1
    OBVIOUS
  <2>0. c.y[k] \in Int /\ c.ctilde \in Int /\ S1[k] \in Int
    BY CandidateParts, KeyParts
  <2>1. PICK x \in Int : x = c.y[k] + c.ctilde * S1[k]
    BY <2>0, IntClosed
  <2>. QED
    BY <2>1, Numbers, DivFacts
<1>. QED
  BY <1>1, Numbers DEF ZShare

\* The two ways to the hint's input agree.
LEMMA ApproxIs ==
  ASSUME NEW c \in Candidate
  PROVE  HintApprox(c) = R(c) /\ R(c) \in [1 .. HLanes -> 0 .. Q - 1]
<1>1. ASSUME NEW i \in 1 .. HLanes
      PROVE  /\ (Times(Z(c))[i] - c.ctilde * T[i]) % Q \in 0 .. Q - 1
             /\ (Times(c.y)[i] + c.ctilde * Times(S1)[i] - c.ctilde * T[i]) % Q
                  = (Times(Z(c))[i] - c.ctilde * T[i]) % Q
  <2> DEFINE quotient == [k \in 1 .. ZLanes |-> (c.y[k] + c.ctilde * S1[k]) \div Q]
  <2>0. PICK ct \in Int, t \in Int : ct = c.ctilde /\ t = T[i]
    BY CandidateParts, KeyParts
  <2>1. ASSUME NEW k \in 1 .. ZLanes
        PROVE  /\ quotient[k] \in Int
               /\ Z(c)[k] = c.y[k] + ct * S1[k] + (-Q) * quotient[k]
    <3>0. c.y[k] \in Int /\ S1[k] \in Int
      BY CandidateParts, KeyParts
    <3>1. PICK x \in Int : x = c.y[k] + ct * S1[k]
      BY <3>0, IntClosed
    <3>2. x = Q * (x \div Q) + (x % Q) /\ x \div Q \in Int /\ x % Q \in Int
      BY Numbers, DivFacts
    <3>3. Z(c)[k] = x % Q /\ quotient[k] = x \div Q
      BY <2>0, <3>1 DEF Z, ZShare
    <3>4. PICK q \in Int, r \in Int : q = x \div Q /\ r = x % Q /\ x = Q * q + r
      BY <3>2
    <3>5. r = x + (-Q) * q
      BY <3>4, Numbers
    <3>. QED
      BY <3>0, <3>1, <3>3, <3>4, <3>5
  <2>2. quotient \in [1 .. ZLanes -> Int]
    BY <2>1
  <2> HIDE DEF quotient
  <2>3. /\ Z(c) \in [1 .. ZLanes -> Int] /\ c.y \in [1 .. ZLanes -> Int]
        /\ S1 \in [1 .. ZLanes -> Int] /\ A[i] \in [1 .. ZLanes -> Int] /\ ZLanes \in Nat
    BY ZShareType, CandidateParts, KeyParts, Numbers DEF Z
  <2>4. /\ Dot(A[i], c.y) \in Int /\ Dot(A[i], S1) \in Int /\ Dot(A[i], quotient) \in Int
        /\ Dot(A[i], Z(c)) = Dot(A[i], c.y) + ct * Dot(A[i], S1) + (-Q) * Dot(A[i], quotient)
    <3>1. PICK mq \in Int : mq = -Q
      BY Numbers
    <3>2. Combines(Z(c), c.y, ct, S1, mq, quotient, 1 .. ZLanes)
      BY <2>1, <3>1 DEF Combines
    <3>3. /\ Ints(Z(c), 1 .. ZLanes) /\ Ints(c.y, 1 .. ZLanes) /\ Ints(S1, 1 .. ZLanes)
          /\ Ints(A[i], 1 .. ZLanes) /\ Ints(quotient, 1 .. ZLanes) /\ ZLanes \in Nat
      <4>1. IsFiniteSet(1 .. ZLanes)
        BY Numbers, FS_Interval
      <4>. QED
        BY <2>2, <2>3, <4>1, Zenon DEF Ints
    <3>4. /\ Dot(A[i], c.y) \in Int /\ Dot(A[i], S1) \in Int /\ Dot(A[i], quotient) \in Int
          /\ Dot(A[i], Z(c)) = Dot(A[i], c.y) + ct * Dot(A[i], S1) + mq * Dot(A[i], quotient)
      <4>1. PICK z, y, s, a, q : z = Z(c) /\ y = c.y /\ s = S1 /\ a = A[i] /\ q = quotient
        OBVIOUS
      <4>2. PICK n \in Nat : n = ZLanes
        BY <3>3
      <4>3. /\ Ints(z, 1 .. n) /\ Ints(y, 1 .. n) /\ Ints(s, 1 .. n)
            /\ Ints(a, 1 .. n) /\ Ints(q, 1 .. n)
        BY <3>3, <4>1, <4>2
      <4>4. Combines(z, y, ct, s, mq, q, 1 .. n)
        BY <3>2, <4>1, <4>2
      <4>5. /\ Dot(a, y) \in Int /\ Dot(a, s) \in Int /\ Dot(a, q) \in Int
            /\ Dot(a, z) = Dot(a, y) + ct * Dot(a, s) + mq * Dot(a, q)
        BY <4>3, <4>4, DotLinear
      <4>. QED
        BY <4>1, <4>5
    <3>. QED
      BY <3>1, <3>4
  <2>5. /\ Times(Z(c))[i] = Dot(A[i], Z(c)) /\ Times(c.y)[i] = Dot(A[i], c.y)
        /\ Times(S1)[i] = Dot(A[i], S1)
    BY DEF Times
  <2>6. PICK d \in Int, e \in Int, f \in Int :
          d = Dot(A[i], c.y) /\ e = Dot(A[i], S1) /\ f = Dot(A[i], quotient)
    BY <2>4
  <2>7. PICK x \in Int : x = d + ct * e - ct * t
    OBVIOUS
  <2>13. PICK s \in Int : s = d + ct * e + (-Q) * f
    BY Numbers, IntClosed
  <2>8. s - ct * t = x + Q * (-f)
    BY <2>7, <2>13, Numbers
  <2>9. (x + Q * (-f)) % Q = x % Q /\ x % Q \in 0 .. Q - 1
    <3>1. Q \in Int /\ Q > 0 /\ -f \in Int
      BY Numbers
    <3>2. (x + Q * (-f)) % Q = x % Q
      BY <3>1, ModMultiple, Zenon
    <3>3. x % Q \in Int /\ x % Q >= 0 /\ x % Q < Q
      BY <3>1, DivFacts
    <3>. QED
      BY <3>1, <3>2, <3>3
  <2>10. Times(Z(c))[i] = d + ct * e + (-Q) * f
    BY <2>4, <2>5, <2>6
  <2>11. (Times(Z(c))[i] - c.ctilde * T[i]) % Q = x % Q
    <3>2. s - ct * t = Times(Z(c))[i] - c.ctilde * T[i]
      BY <2>0, <2>10, <2>13, Zenon
    <3>. QED
      BY <3>2, <2>8, <2>9, Zenon
  <2>12. Times(c.y)[i] + c.ctilde * Times(S1)[i] - c.ctilde * T[i] = x
    BY <2>0, <2>5, <2>6, <2>7, Zenon
  <2>. QED
    BY <2>9, <2>11, <2>12, Zenon
<1>2. R(c) \in [1 .. HLanes -> 0 .. Q - 1]
  BY <1>1 DEF R
<1>3. HintApprox(c) = R(c)
  <2>1. CASE c.precomputed
    BY <1>1, <2>1 DEF HintApprox, R
  <2>2. CASE ~ c.precomputed
    BY <2>2 DEF HintApprox, R, Z
  <2>. QED
    BY <2>1, <2>2
<1>. QED
  BY <1>2, <1>3

\* The bound circuit finds the lanes whose centred value is too large.
LEMMA NormIs ==
  ASSUME NEW z \in 0 .. Q - 1
  PROVE  BitNot(ZBoundOk(z)) = Bit(~ (Norm(z) < Gamma))
<1>0. PICK p, q : p = (z < Gamma) /\ q = (z < Q - Gamma + 1)
  OBVIOUS
<1>1. p \in BOOLEAN /\ q \in BOOLEAN /\ p = (z < Gamma) /\ q = (z < Q - Gamma + 1)
  BY <1>0
<1>2. ZBoundOk(z) = Or(Bit(p), Bit(~q))
  <2>1. ZBoundOk(z) = Or(Bit(p), BitNot(Bit(q)))
    BY <1>1 DEF ZBoundOk
  <2>. QED
    BY <1>1, <2>1, BitAlgebra, Zenon
<1>3. Or(Bit(p), Bit(~q)) = Bit(p \/ ~q) /\ BitNot(Bit(p \/ ~q)) = Bit(~ (p \/ ~q))
  <2>1. (~q) \in BOOLEAN /\ (p \/ ~q) \in BOOLEAN
    OBVIOUS
  <2>. QED
    BY <1>1, <2>1, BitAlgebra, Zenon
<1>4. Norm(z) < Gamma <=> z < Gamma \/ ~ (z < Q - Gamma + 1)
  <2>1. PICK h \in Int, r \in Int : h = Q \div 2 /\ Q = 2 * h + r /\ 0 <= r /\ r < 2
    BY Numbers, DivFacts
  <2>2. CASE z > h
    <3>1. Norm(z) = Q - z
      BY <2>1, <2>2 DEF Norm
    <3>. QED
      BY <2>1, <2>2, <3>1, Numbers
  <2>3. CASE ~ (z > h)
    <3>1. Norm(z) = z
      BY <2>1, <2>3 DEF Norm
    <3>. QED
      BY <2>1, <2>3, <3>1, Numbers
  <2>. QED
    BY <2>2, <2>3
<1>5. (~ (Norm(z) < Gamma)) <=> ~ (p \/ ~q)
  BY <1>1, <1>4, Zenon
<1>. QED
  BY <1>2, <1>3, <1>5, Zenon DEF Bit

\* A vector is a sequence.
LEMMA VectorIsSeq ==
  ASSUME NEW n \in Nat, NEW X, NEW f \in [1 .. n -> X]
  PROVE  f \in Seq(X) /\ Len(f) = n
<1>1. \E m \in Nat : DOMAIN f = 1 .. m
  OBVIOUS
<1>2. f \in Seq(X)
  BY <1>1, SeqDef
<1>3. DOMAIN f = 1 .. Len(f) /\ Len(f) \in Nat
  BY <1>2
<1>4. \A i \in Nat : i <= n <=> i <= Len(f)
  BY <1>3
<1>. QED
  BY <1>2, <1>3, <1>4

\* Vectors, parts of a sequence, and two vectors after one another.
VectorOf(t, n, X) == t \in [1 .. n -> X]
SliceOf(t, s, from, n) == \A k \in 1 .. n : t[k] = s[from + k - 1]
JoinOf(t, u, n, v, m) ==
  (\A k \in 1 .. n : t[k] = u[k]) /\ (\A k \in 1 .. m : t[n + k] = v[k])

\* Vectors with the same lanes are the same.
LEMMA SameVector ==
  ASSUME NEW D, NEW X, NEW t \in [D -> X], NEW v \in [D -> X], \A k \in D : t[k] = v[k]
  PROVE  t = v
OBVIOUS

\* A subsequence is a vector with the lanes it was cut from.
LEMMA SliceIs ==
  ASSUME NEW X, NEW s \in Seq(X), NEW from \in Int, NEW to \in Int, NEW n \in Nat,
         from >= 1, to = from + n - 1, to <= Len(s)
  PROVE  /\ VectorOf(SubSeq(s, from, to), n, X)
         /\ SliceOf(SubSeq(s, from, to), s, from, n)
<1>1. from \in 1 .. Len(s) + 1 /\ to \in from - 1 .. Len(s)
  OBVIOUS
<1>2. /\ SubSeq(s, from, to) \in Seq(X)
      /\ Len(SubSeq(s, from, to)) = to - from + 1
      /\ \A i \in 1 .. to - from + 1 : SubSeq(s, from, to)[i] = s[from + i - 1]
  BY <1>1, SubSeqProperties
<1>3. to - from + 1 = n
  OBVIOUS
<1>4. PICK t : t = SubSeq(s, from, to)
  OBVIOUS
<1>5. t \in Seq(X) /\ Len(t) = n
  BY <1>2, <1>3, <1>4
<1>6. t \in [1 .. n -> X]
  BY <1>5
<1>. QED
  BY <1>2, <1>3, <1>4, <1>6 DEF VectorOf, SliceOf

\* Vectors after one another are a vector.
LEMMA VectorsJoin ==
  ASSUME NEW n \in Nat, NEW m \in Nat, NEW X, NEW u, VectorOf(u, n, X), NEW v, VectorOf(v, m, X)
  PROVE  /\ VectorOf(u \o v, n + m, X) /\ u \o v \in Seq(X) /\ Len(u \o v) = n + m
         /\ JoinOf(u \o v, u, n, v, m)
<1>1. u \in Seq(X) /\ v \in Seq(X) /\ Len(u) = n /\ Len(v) = m
  BY VectorIsSeq DEF VectorOf
<1>2. /\ u \o v \in Seq(X) /\ Len(u \o v) = n + m
      /\ \A k \in 1 .. n + m : (u \o v)[k] = IF k <= n THEN u[k] ELSE v[k - n]
  BY <1>1, ConcatProperties
<1>3. u \o v \in [1 .. n + m -> X]
  <2>1. PICK t : t = u \o v
    OBVIOUS
  <2>2. t \in Seq(X) /\ Len(t) = n + m
    BY <1>2, <2>1
  <2>3. t \in [1 .. n + m -> X]
    BY <2>2
  <2>. QED
    BY <2>1, <2>3
<1>4. \A k \in 1 .. n : (u \o v)[k] = u[k]
  BY <1>2
<1>5. ASSUME NEW k \in 1 .. m PROVE (u \o v)[n + k] = v[k]
  <2>1. n + k \in 1 .. n + m /\ ~ (n + k <= n) /\ (n + k) - n = k
    OBVIOUS
  <2>. QED
    BY <1>2, <2>1
<1>. QED
  BY <1>2, <1>3, <1>4, <1>5, Zenon DEF VectorOf, JoinOf

\* A batch has a candidate, and its positions are the candidates.
LEMMA BatchIs ==
  ASSUME batch \in Batches
  PROVE  /\ Len(batch) \in Nat /\ Len(batch) >= 1 /\ Candidates = 1 .. Len(batch)
         /\ \A j \in Candidates : j \in Int /\ batch[j] \in Candidate
<1>1. batch \in Seq(Candidate) /\ batch # <<>>
  BY CandidateAssumption
<1>. QED
  BY <1>1 DEF Candidates

\* A place among the lanes of all candidates is one of one candidate.
LEMMA PlaceIs ==
  ASSUME NEW j \in Int, NEW i \in 1 .. Lanes, NEW n \in Int, 1 <= j, j <= n
  PROVE  /\ (j - 1) * Lanes + i \in 1 .. n * Lanes
         /\ (((j - 1) * Lanes + i) - 1) \div Lanes = j - 1
         /\ (((j - 1) * Lanes + i) - 1) % Lanes = i - 1
<1>1. Lanes \in Int /\ Lanes >= 1
  BY Numbers
<1>2. PICK b \in Int : b = Lanes
  BY <1>1
<1>3. PICK p \in Int : p = (j - 1) * b
  BY IntClosed
<1>4. p = b * (j - 1) /\ p + i - 1 = b * (j - 1) + (i - 1)
  BY <1>3
<1>5. (b * (j - 1) + (i - 1)) \div b = j - 1 /\ (b * (j - 1) + (i - 1)) % b = i - 1
  BY <1>1, <1>2, DivMod
<1>6. p >= 0
  <2>1. CASE j = 1
    BY <1>3, <2>1
  <2>2. CASE j # 1
    <3>1. b * (j - 1) >= b
      BY <1>1, <1>2, <2>2, MulBound
    <3>. QED
      BY <1>1, <1>2, <1>4, <3>1
  <2>. QED
    BY <2>1, <2>2
<1>7. p + b <= n * b
  <2>1. p + b = j * b
    BY <1>3
  <2>2. CASE j = n
    BY <2>1, <2>2
  <2>3. CASE j < n
    <3>1. b * j + b <= b * n
      BY <1>1, <1>2, <2>3, MulOrder
    <3>2. b * j = j * b /\ b * n = n * b
      OBVIOUS
    <3>. QED
      BY <1>1, <1>2, <2>1, <3>1, <3>2
  <2>. QED
    BY <2>2, <2>3
<1>8. p + i \in 1 .. n * b
  BY <1>2, <1>6, <1>7
<1>9. (p + i) - 1 = b * (j - 1) + (i - 1)
  BY <1>4
<1>. QED
  BY <1>2, <1>3, <1>5, <1>8, <1>9

\* A fused lane has a candidate and a place in its lanes.
LEMMA PlaceOf ==
  ASSUME NEW n \in Int, NEW l \in 1 .. n * Lanes
  PROVE  /\ (l - 1) \div Lanes + 1 \in 1 .. n
         /\ ((l - 1) % Lanes) + 1 \in 1 .. Lanes
<1>1. Lanes \in Int /\ Lanes >= 1
  BY Numbers
<1>2. PICK b \in Int : b = Lanes
  BY <1>1
<1>3. PICK q, r : q = (l - 1) \div b /\ r = (l - 1) % b
  OBVIOUS
<1>10. l \in Int /\ l >= 1 /\ l <= n * b
  BY <1>2, IntClosed
<1>4. q \in Int /\ r \in Int /\ l - 1 = b * q + r /\ 0 <= r /\ r < b
  BY <1>1, <1>2, <1>3, <1>10, DivFacts
<1>5. q >= 0
  <2>1. SUFFICES ASSUME q <= -1 PROVE FALSE
    BY <1>4
  <2>2. b * (-q) >= b
    BY <1>1, <1>2, <1>4, <2>1, MulBound
  <2>3. b * (-q) = -(b * q)
    BY <1>4
  <2>. QED
    BY <1>4, <1>10, <2>2, <2>3
<1>6. q + 1 <= n
  <2>1. SUFFICES ASSUME q - n >= 0 PROVE FALSE
    BY <1>4
  <2>2. b * q = b * (q - n) + n * b
    BY <1>4
  <2>3. b * (q - n) >= 0
    <3>1. CASE q - n = 0
      BY <3>1
    <3>2. CASE q - n >= 1
      BY <1>1, <1>2, <1>4, <3>2, MulBound
    <3>. QED
      BY <1>4, <2>1, <3>1, <3>2
  <2>. QED
    BY <1>4, <1>10, <2>2, <2>3, IntClosed
<1>. QED
  BY <1>1, <1>2, <1>3, <1>4, <1>5, <1>6

\* The lanes of a candidate that are masked together.
Together(c) == Z(c) \o R(c)

\* They are those of z and behind them those of the hint.
LEMMA TogetherIs ==
  ASSUME NEW c \in Candidate
  PROVE  /\ Together(c) \in [1 .. Lanes -> 0 .. Q - 1]
         /\ ZShare(c) \o HintApprox(c) = Together(c)
         /\ \A k \in 1 .. ZLanes : Together(c)[k] = Z(c)[k]
         /\ \A i \in 1 .. HLanes : Together(c)[ZLanes + i] = R(c)[i]
<1>1. Z(c) \in [1 .. ZLanes -> 0 .. Q - 1] /\ R(c) \in [1 .. HLanes -> 0 .. Q - 1]
  BY ZShareType, ApproxIs DEF Z
<1>3. ZShare(c) \o HintApprox(c) = Together(c)
  BY ApproxIs DEF Together, Z
<1>4. PICK u, v : u = Z(c) /\ v = R(c)
  OBVIOUS
<1>5. ZLanes \in Nat /\ HLanes \in Nat /\ Lanes = ZLanes + HLanes
  BY Numbers
<1>8. VectorOf(u, ZLanes, 0 .. Q - 1) /\ VectorOf(v, HLanes, 0 .. Q - 1)
  BY <1>1, <1>4, Zenon DEF VectorOf
<1>9. VectorOf(u \o v, ZLanes + HLanes, 0 .. Q - 1) /\ JoinOf(u \o v, u, ZLanes, v, HLanes)
  BY <1>5, <1>8, VectorsJoin, Zenon
<1>6. /\ u \o v \in [1 .. ZLanes + HLanes -> 0 .. Q - 1]
      /\ \A k \in 1 .. ZLanes : (u \o v)[k] = u[k]
      /\ \A i \in 1 .. HLanes : (u \o v)[ZLanes + i] = v[i]
  BY <1>9, Zenon DEF VectorOf, JoinOf
<1>7. Together(c) = u \o v
  BY <1>4 DEF Together
<1>. QED
  BY <1>3, <1>4, <1>5, <1>6, <1>7

\* The fused vector has the lanes of every candidate at their place.
LEMMA FusedIs ==
  ASSUME batch \in Batches
  PROVE  /\ DOMAIN Fused = 1 .. Len(batch) * Lanes
         /\ \A l \in DOMAIN Fused : Fused[l] \in 0 .. Q - 1
         /\ \A j \in Candidates, i \in 1 .. Lanes :
              /\ (j - 1) * Lanes + i \in DOMAIN Fused
              /\ Fused[(j - 1) * Lanes + i] = Together(batch[j])[i]
<1>1. DOMAIN Fused = 1 .. Len(batch) * Lanes
  BY DEF Fused
<1>2. ASSUME NEW l \in 1 .. Len(batch) * Lanes
      PROVE  /\ (l - 1) \div Lanes + 1 \in Candidates
             /\ ((l - 1) % Lanes) + 1 \in 1 .. Lanes
             /\ Fused[l] = Together(batch[(l - 1) \div Lanes + 1])[((l - 1) % Lanes) + 1]
  <2>1. (l - 1) \div Lanes + 1 \in Candidates /\ ((l - 1) % Lanes) + 1 \in 1 .. Lanes
    BY BatchIs, PlaceOf
  <2>2. PICK j, i : j = (l - 1) \div Lanes + 1 /\ i = ((l - 1) % Lanes) + 1
    OBVIOUS
  <2>3. Fused[l] = (ZShare(batch[j]) \o HintApprox(batch[j]))[i]
    BY <2>2, Zenon DEF Fused
  <2>4. batch[j] \in Candidate
    BY <2>1, <2>2, BatchIs
  <2>. QED
    BY <2>1, <2>2, <2>3, <2>4, TogetherIs
<1>3. \A l \in DOMAIN Fused : Fused[l] \in 0 .. Q - 1
  <2>. SUFFICES ASSUME NEW l \in DOMAIN Fused PROVE Fused[l] \in 0 .. Q - 1
    OBVIOUS
  <2>1. PICK j \in Candidates, i \in 1 .. Lanes : Fused[l] = Together(batch[j])[i]
    BY <1>1, <1>2, Zenon
  <2>2. Together(batch[j]) \in [1 .. Lanes -> 0 .. Q - 1]
    BY BatchIs, TogetherIs
  <2>. QED
    BY <2>1, <2>2
<1>4. ASSUME NEW j \in Candidates, NEW i \in 1 .. Lanes
      PROVE  /\ (j - 1) * Lanes + i \in DOMAIN Fused
             /\ Fused[(j - 1) * Lanes + i] = Together(batch[j])[i]
  <2>1. PICK l : l = (j - 1) * Lanes + i
    OBVIOUS
  <2>2. j \in Int /\ 1 <= j /\ j <= Len(batch) /\ Len(batch) \in Int /\ i \in Int
    BY BatchIs
  <2>3. l \in 1 .. Len(batch) * Lanes /\ (l - 1) \div Lanes = j - 1 /\ (l - 1) % Lanes = i - 1
    BY <2>1, <2>2, PlaceIs
  <2>4. (l - 1) \div Lanes + 1 = j /\ ((l - 1) % Lanes) + 1 = i
    BY <2>2, <2>3
  <2>. QED
    BY <1>1, <1>2, <2>1, <2>3, <2>4
<1>. QED
  BY <1>1, <1>3, <1>4

\* The slices of the fused lanes are those of the candidates.
LEMMA SlicesAre ==
  ASSUME batch \in Batches, NEW j \in Candidates
  PROVE  ZPart(Fused, j) = Z(batch[j]) /\ HPart(Fused, j) = R(batch[j])
<1>1. PICK n \in Int : n = Len(batch) * Lanes /\ n >= 0
  <2>1. Len(batch) \in Nat /\ Lanes \in Nat
    BY BatchIs, Numbers
  <2>. QED
    BY <2>1
<1>2. Fused \in Seq(0 .. Q - 1) /\ Len(Fused) = n
  <2>2. Fused = [l \in 1 .. n |-> Fused[l]]
    <3>1. Fused = [l \in DOMAIN Fused |-> Fused[l]]
      BY DEF Fused
    <3>. QED
      BY <1>1, <3>1, FusedIs
  <2>1. Fused \in [1 .. n -> 0 .. Q - 1]
    BY <1>1, <2>2, FusedIs
  <2>3. n \in Nat
    BY <1>1
  <2>. QED
    BY <2>1, <2>3, VectorIsSeq
<1>3. batch[j] \in Candidate /\ j \in Int
  BY BatchIs
<1>4. PICK p \in Int : p = (j - 1) * Lanes
  BY <1>3, Numbers, IntClosed
<1>5. \A i \in 1 .. Lanes : p + i \in 1 .. n /\ Fused[p + i] = Together(batch[j])[i]
  BY <1>1, <1>4, FusedIs
<1>6. ZLanes \in Nat /\ HLanes \in Nat /\ Lanes = ZLanes + HLanes /\ ZLanes >= 1
  BY Numbers
<1>7. p >= 0 /\ p + Lanes <= n
  <2>1. 1 \in 1 .. Lanes /\ Lanes \in 1 .. Lanes
    BY <1>6
  <2>. QED
    BY <1>5, <2>1
<1>8. ZPart(Fused, j) = SubSeq(Fused, p + 0 + 1, p + 0 + ZLanes)
  BY <1>4, Zenon DEF ZPart, Slice
<1>9. HPart(Fused, j) = SubSeq(Fused, p + ZLanes + 1, p + ZLanes + HLanes)
  BY <1>4, Zenon DEF HPart, Slice
<1>10. ZPart(Fused, j) = Z(batch[j])
  <2>1. PICK from, to : from = p + 0 + 1 /\ to = p + 0 + ZLanes
    OBVIOUS
  <2>2. /\ SubSeq(Fused, from, to) \in [1 .. ZLanes -> 0 .. Q - 1]
        /\ \A k \in 1 .. ZLanes : SubSeq(Fused, from, to)[k] = Fused[from + k - 1]
    <3>1. from \in Int /\ to \in Int /\ from >= 1 /\ to = from + ZLanes - 1 /\ to <= Len(Fused)
      BY <1>2, <1>6, <1>7, <2>1
    <3>2. /\ VectorOf(SubSeq(Fused, from, to), ZLanes, 0 .. Q - 1)
          /\ SliceOf(SubSeq(Fused, from, to), Fused, from, ZLanes)
      BY <1>2, <1>6, <3>1, SliceIs, Zenon
    <3>. QED
      BY <3>2, Zenon DEF VectorOf, SliceOf
  <2>4. \A k \in 1 .. ZLanes : SubSeq(Fused, from, to)[k] = Z(batch[j])[k]
    <3>. SUFFICES ASSUME NEW k \in 1 .. ZLanes PROVE SubSeq(Fused, from, to)[k] = Z(batch[j])[k]
      OBVIOUS
    <3>1. SubSeq(Fused, from, to)[k] = Fused[p + k]
      <4>1. from + k - 1 = p + k
        BY <1>6, <2>1
      <4>. QED
        BY <2>2, <4>1
    <3>2. k \in 1 .. Lanes
      BY <1>6
    <3>3. Fused[p + k] = Together(batch[j])[k]
      BY <1>5, <3>2
    <3>. QED
      BY <1>3, <3>1, <3>3, TogetherIs
  <2>5. Z(batch[j]) \in [1 .. ZLanes -> 0 .. Q - 1]
    BY <1>3, ZShareType DEF Z
  <2>6. PICK t, v : t = SubSeq(Fused, from, to) /\ v = Z(batch[j])
    OBVIOUS
  <2>10. PICK D, X : D = 1 .. ZLanes /\ X = 0 .. Q - 1
    OBVIOUS
  <2>7. t \in [D -> X] /\ v \in [D -> X]
    BY <2>2, <2>5, <2>6, <2>10
  <2>8. \A k \in D : t[k] = v[k]
    BY <2>4, <2>6, <2>10, Zenon
  <2>9. t = v
    BY <2>7, <2>8
  <2>. QED
    BY <1>8, <2>1, <2>6, <2>9, Zenon
<1>11. HPart(Fused, j) = R(batch[j])
  <2>1. PICK from, to : from = p + ZLanes + 1 /\ to = p + ZLanes + HLanes
    OBVIOUS
  <2>2. /\ SubSeq(Fused, from, to) \in [1 .. HLanes -> 0 .. Q - 1]
        /\ \A k \in 1 .. HLanes : SubSeq(Fused, from, to)[k] = Fused[from + k - 1]
    <3>1. from \in Int /\ to \in Int /\ from >= 1 /\ to = from + HLanes - 1 /\ to <= Len(Fused)
      BY <1>2, <1>6, <1>7, <2>1
    <3>2. /\ VectorOf(SubSeq(Fused, from, to), HLanes, 0 .. Q - 1)
          /\ SliceOf(SubSeq(Fused, from, to), Fused, from, HLanes)
      BY <1>2, <1>6, <3>1, SliceIs, Zenon
    <3>. QED
      BY <3>2, Zenon DEF VectorOf, SliceOf
  <2>4. \A k \in 1 .. HLanes : SubSeq(Fused, from, to)[k] = R(batch[j])[k]
    <3>. SUFFICES ASSUME NEW k \in 1 .. HLanes PROVE SubSeq(Fused, from, to)[k] = R(batch[j])[k]
      OBVIOUS
    <3>1. SubSeq(Fused, from, to)[k] = Fused[p + (ZLanes + k)]
      <4>1. from + k - 1 = p + (ZLanes + k)
        BY <1>6, <2>1
      <4>. QED
        BY <2>2, <4>1
    <3>2. ZLanes + k \in 1 .. Lanes
      BY <1>6
    <3>3. Fused[p + (ZLanes + k)] = Together(batch[j])[ZLanes + k]
      BY <1>5, <3>2
    <3>. QED
      BY <1>3, <3>1, <3>3, TogetherIs
  <2>5. R(batch[j]) \in [1 .. HLanes -> 0 .. Q - 1]
    BY <1>3, ApproxIs
  <2>6. PICK t, v : t = SubSeq(Fused, from, to) /\ v = R(batch[j])
    OBVIOUS
  <2>10. PICK D, X : D = 1 .. HLanes /\ X = 0 .. Q - 1
    OBVIOUS
  <2>7. t \in [D -> X] /\ v \in [D -> X]
    BY <2>2, <2>5, <2>6, <2>10
  <2>8. \A k \in D : t[k] = v[k]
    BY <2>4, <2>6, <2>10, Zenon
  <2>9. t = v
    BY <2>7, <2>8
  <2>. QED
    BY <1>9, <2>1, <2>6, <2>9, Zenon
<1>. QED
  BY <1>10, <1>11

\* What a mask gives, whatever its bits are, and if they are those of its value.
LEMMA RecoverType ==
  ASSUME mask \in Masks, NEW v \in 0 .. Q - 1
  PROVE  /\ RecoveredFrom(Masked(v)) \in Int /\ RecoveredFrom(Masked(v)) >= 0
         /\ mask.bits = mask.value => RecoveredFrom(Masked(v)) = v
<1>1. PICK a \in Int, b \in Int : a = mask.value /\ b = mask.bits /\ 0 <= a /\ a < Q
  BY CandidateAssumption, Numbers
<1>2. PICK p \in Int : p = 2 ^ Width /\ p > Q
  BY Numbers
<1>3. Q \in Int /\ Q > 0 /\ v \in Int /\ v >= 0 /\ v < Q
  BY Numbers
<1>4. PICK c \in Int : c = (v + a) % Q /\ c >= 0 /\ c < Q
  BY <1>1, <1>3, DivFacts
<1>5. PICK d \in Int : d = c + (IF b > c THEN Q ELSE 0) - b
  BY <1>1, <1>3, <1>4
<1>6. RecoveredFrom(Masked(v)) = d % p
  BY <1>1, <1>2, <1>4, <1>5 DEF RecoveredFrom, Masked
<1>7. d % p \in Int /\ d % p >= 0
  BY <1>2, <1>3, <1>5, DivFacts
<1>8. ASSUME a = b PROVE d = v
  <2>1. CASE v + a < Q
    <3>1. c = v + a
      BY <1>1, <1>3, <1>4, <2>1, ModSmall
    <3>. QED
      BY <1>1, <1>3, <1>5, <1>8, <3>1
  <2>2. CASE ~ (v + a < Q)
    <3>1. PICK e \in Int : e = v + a - Q /\ 0 <= e /\ e < Q
      BY <1>1, <1>3, <2>2
    <3>2. (Q * 1 + e) % Q = e
      BY <1>3, <3>1, DivMod
    <3>3. Q * 1 + e = v + a
      BY <1>1, <1>3, <3>1
    <3>4. c = v + a - Q
      BY <1>4, <3>1, <3>2, <3>3
    <3>. QED
      BY <1>1, <1>3, <1>5, <1>8, <3>4
  <2>. QED
    BY <2>1, <2>2
<1>9. v % p = v
  BY <1>2, <1>3, ModSmall
<1>. QED
  BY <1>1, <1>6, <1>7, <1>8, <1>9

\* Representatives that are congruent are the same.
LEMMA RecoverForced ==
  ASSUME NEW r \in Int, r >= 0, r < Q, NEW v \in 0 .. Q - 1, (r - v) % Q = 0
  PROVE  r = v
<1>1. PICK q \in Int : q = Q /\ q > 0
  BY Numbers
<1>2. PICK k \in Int : r - v = q * k + 0
  <2>1. r - v \in Int
    OBVIOUS
  <2>. QED
    BY <1>1, <2>1, DivFacts
<1>3. v \in Int /\ v >= 0 /\ v < q
  BY <1>1
<1>4. k <= 0
  <2>1. SUFFICES ASSUME k >= 1 PROVE FALSE
    OBVIOUS
  <2>2. q * k >= q
    BY <1>1, <2>1, MulBound
  <2>. QED
    BY <1>1, <1>2, <1>3, <2>2
<1>5. k >= 0
  <2>1. SUFFICES ASSUME k <= -1 PROVE FALSE
    OBVIOUS
  <2>2. q * (-k) >= q
    BY <1>1, <2>1, MulBound
  <2>3. q * (-k) = -(q * k)
    BY <1>1
  <2>. QED
    BY <1>1, <1>2, <1>3, <2>2, <2>3
<1>6. k = 0
  BY <1>4, <1>5
<1>7. q * k = 0
  BY <1>6
<1>. QED
  BY <1>1, <1>2, <1>3, <1>7

\* What every lane is recovered as from its masked opening.
Lifted == [l \in DOMAIN Fused |-> RecoveredFrom(Masked(Fused[l]))]

\* The two checks let only the lanes themselves through, and those of good masks
\* show nothing.
LEMMA ChecksAre ==
  ASSUME batch \in Batches, mask \in Masks, values = Fused, recovered = Lifted
  PROVE  /\ AllZero(NotCanonical) /\ AllZero(Difference) => recovered = Fused
         /\ mask.bits = mask.value => AllZero(NotCanonical) /\ AllZero(Difference)
<1>1. /\ DOMAIN recovered = DOMAIN Fused /\ DOMAIN NotCanonical = DOMAIN Fused
      /\ DOMAIN Difference = DOMAIN Fused
  BY DEF Lifted, NotCanonical, Difference
<1>2. ASSUME NEW l \in DOMAIN Fused
      PROVE  /\ Fused[l] \in 0 .. Q - 1
             /\ recovered[l] \in Int /\ recovered[l] >= 0
             /\ mask.bits = mask.value => recovered[l] = Fused[l]
             /\ NotCanonical[l] = BitNot(Bit(recovered[l] < Q))
             /\ Difference[l] = (recovered[l] - Fused[l]) % Q
  <2>1. Fused[l] \in 0 .. Q - 1
    BY FusedIs
  <2>2. recovered[l] = RecoveredFrom(Masked(Fused[l]))
    BY DEF Lifted
  <2>3. /\ NotCanonical[l] = BitNot(Bit(recovered[l] < Q))
        /\ Difference[l] = (recovered[l] - Fused[l]) % Q
    BY <1>1 DEF NotCanonical, Difference
  <2>. QED
    BY <2>1, <2>2, <2>3, RecoverType
<1>3. ASSUME AllZero(NotCanonical), AllZero(Difference) PROVE recovered = Fused
  <2>1. ASSUME NEW l \in DOMAIN Fused PROVE recovered[l] = Fused[l]
    <3>1. NotCanonical[l] = 0 /\ Difference[l] = 0
      BY <1>1, <1>3 DEF AllZero
    <3>2. recovered[l] < Q
      BY <1>2, <3>1 DEF Bit, BitNot
    <3>. QED
      BY <1>2, <3>1, <3>2, RecoverForced
  <2>2. recovered = [l \in DOMAIN Fused |-> recovered[l]]
    BY DEF Lifted
  <2>3. Fused = [l \in DOMAIN Fused |-> Fused[l]]
    BY DEF Fused
  <2>. QED
    BY <2>1, <2>2, <2>3
<1>4. ASSUME mask.bits = mask.value PROVE AllZero(NotCanonical) /\ AllZero(Difference)
  <2>1. ASSUME NEW l \in DOMAIN Fused PROVE NotCanonical[l] = 0 /\ Difference[l] = 0
    <3>1. recovered[l] = Fused[l] /\ Fused[l] \in 0 .. Q - 1 /\ Q \in Int /\ Q > 0
      BY <1>2, <1>4, Numbers
    <3>2. NotCanonical[l] = 0
      BY <1>2, <3>1 DEF Bit, BitNot
    <3>3. recovered[l] - Fused[l] = 0
      BY <3>1
    <3>4. 0 % Q = 0
      BY <3>1, ModSmall
    <3>. QED
      BY <1>2, <3>2, <3>3, <3>4
  <2>. QED
    BY <1>1, <2>1 DEF AllZero
<1>. QED
  BY <1>3, <1>4

(***************************************************************************)
(* The reduction.                                                          *)
(***************************************************************************)
Violated(s, j) == \E k \in 1 .. Len(s) : s[k][j] = 1

\* Half of a number, rounded down and up.
LEMMA HalfIs ==
  ASSUME NEW n \in Nat
  PROVE  /\ n \div 2 \in Nat /\ (n % 2 = 0 \/ n % 2 = 1) /\ n = 2 * (n \div 2) + (n % 2)
         /\ (n + 1) \div 2 = n \div 2 + (n % 2)
<1>1. PICK q \in Int, r \in Int : q = n \div 2 /\ r = n % 2 /\ n = 2 * q + r /\ 0 <= r /\ r < 2
  BY DivFacts
<1>2. CASE r = 0
  <2>1. (2 * q + 1) \div 2 = q
    BY DivMod
  <2>. QED
    BY <1>1, <1>2, <2>1
<1>3. CASE r = 1
  <2>1. (2 * (q + 1) + 0) \div 2 = q + 1
    BY DivMod
  <2>2. 2 * (q + 1) + 0 = n + 1
    BY <1>1, <1>3
  <2>. QED
    BY <1>1, <1>3, <2>1, <2>2
<1>. QED
  BY <1>1, <1>2, <1>3

\* The layer of odd and of even length.
LEMMA OrLayerIs ==
  ASSUME NEW s, s \in Seq(BitVectors)
  PROVE  /\ Len(OrLayer(s)) = (Len(s) + 1) \div 2
         /\ Len(s) % 2 = 0 => \A k \in 1 .. Len(s) \div 2 : OrLayer(s)[k] = OrPairs(s)[k]
         /\ Len(s) % 2 = 1 => /\ OrLayer(s)[1] = s[Len(s)]
                              /\ \A k \in 1 .. Len(s) \div 2 : OrLayer(s)[k + 1] = OrPairs(s)[k]
<1>1. PICK n \in Nat : n = Len(s)
  OBVIOUS
<1>2. PICK m \in Nat : m = n \div 2 /\ (n % 2 = 0 \/ n % 2 = 1) /\ n = 2 * m + (n % 2)
                       /\ (n + 1) \div 2 = m + (n % 2)
  BY HalfIs
<1>3. PICK p : p = OrPairs(s)
  OBVIOUS
<1>4. \E S : p \in Seq(S) /\ Len(p) = m
  <2>1. p = [i \in 1 .. m |-> [j \in Candidates |-> Or(s[2 * i - 1][j], s[2 * i][j])]]
    BY <1>1, <1>2, <1>3 DEF OrPairs
  <2>2. PICK S : S = {p[i] : i \in 1 .. m}
    OBVIOUS
  <2>3. p \in [1 .. m -> S]
    BY <2>1, <2>2
  <2>. QED
    BY <2>3, VectorIsSeq
<1>5. PICK S : p \in Seq(S) /\ Len(p) = m
  BY <1>4
<1>6. CASE n % 2 = 0
  <2>1. OrLayer(s) = <<>> \o p
    <3>1. Len(s) % 2 # 1
      BY <1>1, <1>6
    <3>. QED
      BY <1>3, <3>1, Zenon DEF OrLayer
  <2>2. OrLayer(s) = p
    BY <1>5, <2>1
  <2>. QED
    BY <1>1, <1>2, <1>3, <1>5, <1>6, <2>2
<1>7. CASE n % 2 = 1
  <2>1. OrLayer(s) = <<s[n]>> \o p
    BY <1>1, <1>3, <1>7 DEF OrLayer
  <2>2. PICK X : X = S \cup {s[n]}
    OBVIOUS
  <2>3. PICK one : one = <<s[n]>>
    OBVIOUS
  <2>4. one \in Seq(X) /\ p \in Seq(X) /\ Len(one) = 1 /\ one[1] = s[n]
    BY <1>5, <2>2, <2>3
  <2>8. /\ Len(one \o p) = Len(one) + Len(p)
        /\ \A k \in 1 .. Len(one) + Len(p) :
             (one \o p)[k] = IF k <= Len(one) THEN one[k] ELSE p[k - Len(one)]
    BY <2>4, ConcatProperties, Zenon
  <2>5. /\ Len(one \o p) = 1 + m
        /\ \A k \in 1 .. 1 + m : (one \o p)[k] = IF k <= 1 THEN one[k] ELSE p[k - 1]
    BY <1>5, <2>4, <2>8
  <2>6. (one \o p)[1] = s[n]
    BY <2>4, <2>5
  <2>7. ASSUME NEW k \in 1 .. m PROVE (one \o p)[k + 1] = p[k]
    <3>1. k + 1 \in 1 .. 1 + m /\ ~ (k + 1 <= 1) /\ (k + 1) - 1 = k
      OBVIOUS
    <3>. QED
      BY <2>5, <3>1
  <2>. QED
    BY <1>1, <1>2, <1>3, <1>7, <2>1, <2>3, <2>5, <2>6, <2>7
<1>. QED
  BY <1>2, <1>6, <1>7

\* The or of two bits is one if one of them is.
LEMMA OrOne == \A x, y \in Bits : Or(x, y) = 1 <=> x = 1 \/ y = 1
BY DEF Or, Bits

\* A layer loses no violation, and adds none.
LEMMA OrLayerKeeps ==
  ASSUME NEW s, s \in Seq(BitVectors), Len(s) >= 1, NEW j \in Candidates
  PROVE  /\ Len(OrLayer(s)) >= 1
         /\ Violated(OrLayer(s), j) <=> Violated(s, j)
<1>1. PICK n \in Nat : n = Len(s) /\ n >= 1
  OBVIOUS
<1>2. PICK m \in Nat : m = n \div 2 /\ (n % 2 = 0 \/ n % 2 = 1) /\ n = 2 * m + (n % 2)
                       /\ (n + 1) \div 2 = m + (n % 2)
  BY HalfIs
<1>3. PICK t : t = OrLayer(s)
  OBVIOUS
<1>4. Len(t) = m + (n % 2)
  BY <1>1, <1>2, <1>3, OrLayerIs
<1>5. \A k \in 1 .. n : s[k][j] \in Bits
  BY <1>1 DEF BitVectors
<1>6. \A i \in 1 .. m : OrPairs(s)[i][j] = 1 <=> s[2 * i - 1][j] = 1 \/ s[2 * i][j] = 1
  <2>. SUFFICES ASSUME NEW i \in 1 .. m
                PROVE OrPairs(s)[i][j] = 1 <=> s[2 * i - 1][j] = 1 \/ s[2 * i][j] = 1
    OBVIOUS
  <2>1. 2 * i - 1 \in 1 .. n /\ 2 * i \in 1 .. n
    BY <1>2
  <2>2. OrPairs(s)[i][j] = Or(s[2 * i - 1][j], s[2 * i][j])
    BY <1>1, <1>2 DEF OrPairs
  <2>. QED
    BY <1>5, <2>1, <2>2, OrOne
<1>7. ASSUME NEW k \in 1 .. n, ~ (n % 2 = 1 /\ k = n)
      PROVE  \E i \in 1 .. m : k = 2 * i - 1 \/ k = 2 * i
  <2>1. PICK q \in Nat, r \in Int : k = 2 * q + r /\ (r = 0 \/ r = 1)
    <3>1. k \in Nat
      OBVIOUS
    <3>2. k \div 2 \in Nat /\ (k % 2 = 0 \/ k % 2 = 1) /\ k = 2 * (k \div 2) + (k % 2)
      BY <3>1, HalfIs
    <3>3. k % 2 \in Int
      BY <3>2
    <3>. QED
      BY <3>2, <3>3
  <2>2. CASE r = 0
    BY <1>2, <2>1, <2>2
  <2>3. CASE r = 1
    <3>1. k = 2 * (q + 1) - 1 /\ q + 1 \in 1 .. m
      BY <1>2, <1>7, <2>1, <2>3
    <3>. QED
      BY <3>1
  <2>. QED
    BY <2>1, <2>2, <2>3
<1>8. CASE n % 2 = 0
  <2>1. Len(t) = m /\ \A k \in 1 .. m : t[k] = OrPairs(s)[k]
    BY <1>1, <1>2, <1>3, <1>4, <1>8, OrLayerIs
  <2>2. ASSUME NEW k \in 1 .. m, t[k][j] = 1 PROVE \E i \in 1 .. n : s[i][j] = 1
    <3>1. s[2 * k - 1][j] = 1 \/ s[2 * k][j] = 1
      BY <1>6, <2>1, <2>2
    <3>2. 2 * k - 1 \in 1 .. n /\ 2 * k \in 1 .. n
      BY <1>2
    <3>. QED
      BY <3>1, <3>2
  <2>3. ASSUME NEW k \in 1 .. n, s[k][j] = 1 PROVE \E i \in 1 .. m : t[i][j] = 1
    <3>2. ~ (n % 2 = 1 /\ k = n)
      BY <1>8
    <3>1. PICK i \in 1 .. m : k = 2 * i - 1 \/ k = 2 * i
      BY <1>7, <3>2, Zenon
    <3>. QED
      BY <1>6, <2>1, <2>3, <3>1
  <2>4. m >= 1
    BY <1>1, <1>2, <1>8
  <2>. QED
    BY <1>1, <1>3, <2>1, <2>2, <2>3, <2>4 DEF Violated
<1>9. CASE n % 2 = 1
  <2>1. Len(t) = m + 1 /\ t[1] = s[n] /\ \A k \in 1 .. m : t[k + 1] = OrPairs(s)[k]
    BY <1>1, <1>2, <1>3, <1>4, <1>9, OrLayerIs
  <2>2. ASSUME NEW k \in 1 .. m + 1, t[k][j] = 1 PROVE \E i \in 1 .. n : s[i][j] = 1
    <3>1. CASE k = 1
      BY <1>1, <2>1, <2>2, <3>1
    <3>2. CASE k # 1
      <4>1. PICK i \in 1 .. m : k = i + 1
        BY <3>2
      <4>2. s[2 * i - 1][j] = 1 \/ s[2 * i][j] = 1
        BY <1>6, <2>1, <2>2, <4>1
      <4>3. 2 * i - 1 \in 1 .. n /\ 2 * i \in 1 .. n
        BY <1>2
      <4>. QED
        BY <4>2, <4>3
    <3>. QED
      BY <3>1, <3>2
  <2>3. ASSUME NEW k \in 1 .. n, s[k][j] = 1 PROVE \E i \in 1 .. m + 1 : t[i][j] = 1
    <3>1. CASE k = n
      BY <1>1, <2>1, <2>3, <3>1
    <3>2. CASE k # n
      <4>1. PICK i \in 1 .. m : k = 2 * i - 1 \/ k = 2 * i
        BY <1>7, <3>2
      <4>3. OrPairs(s)[i][j] = 1
        BY <1>6, <2>3, <4>1
      <4>2. t[i + 1][j] = 1 /\ i + 1 \in 1 .. m + 1
        BY <2>1, <4>3
      <4>. QED
        BY <4>2
    <3>. QED
      BY <3>1, <3>2
  <2>. QED
    BY <1>1, <1>3, <2>1, <2>2, <2>3 DEF Violated
<1>. QED
  BY <1>2, <1>8, <1>9

\* The hints of FIPS 204, and the norm bound that z may violate.
HintsAre == [j \in Candidates |-> H(batch[j])]

OutOfBound(c) == \E k \in 1 .. ZLanes : ~ (Norm(Z(c)[k]) < Gamma)

\* Every public high part is that of a representative.
LEMMA HighIs ==
  ASSUME NEW c \in Candidate, NEW i \in 1 .. HLanes
  PROVE  \E x \in 0 .. Q - 1 : W1(c)[i] = HighBits(x)
<1>1. A[i] \in [1 .. ZLanes -> Int] /\ c.y \in [1 .. ZLanes -> Int] /\ ZLanes \in Nat
  BY KeyParts, CandidateParts, Numbers
<1>2. IsFiniteSet(1 .. ZLanes)
  BY <1>1, FS_Interval
<1>3. Ints(A[i], 1 .. ZLanes) /\ Ints(c.y, 1 .. ZLanes)
  BY <1>1, <1>2, Zenon DEF Ints
<1>4. PICK d \in Int : d = Dot(A[i], c.y)
  BY <1>1, <1>3, DotInt, Zenon
<1>5. d % Q \in 0 .. Q - 1
  BY Numbers, DivFacts
<1>6. W1(c)[i] = HighBits(d % Q)
  BY <1>4, Zenon DEF W1, Times
<1>. QED
  BY <1>5, <1>6

\* Hints are vectors of bits.
LEMMA HType == ASSUME NEW c PROVE H(c) \in [1 .. HLanes -> Bits]
<1>1. \A i \in 1 .. HLanes : Bit(HighBits(R(c)[i]) # W1(c)[i]) \in Bits
  BY BitsAreClosed, Zenon
<1>. QED
  BY <1>1, Zenon DEF H

\* The circuits of the bounds and of the hints compute what FIPS 204 defines.
LEMMA BoundsAre ==
  ASSUME batch \in Batches, recovered = Fused, NEW j \in Candidates
  PROVE  /\ [i \in 1 .. HLanes |-> HintBit(HPart(recovered, j)[i], W1(batch[j])[i])]
              = H(batch[j])
         /\ \A k \in 1 .. ZLanes :
              BitNot(ZBoundOk(ZPart(recovered, j)[k])) = Bit(~ (Norm(Z(batch[j])[k]) < Gamma))
<1>1. batch[j] \in Candidate
  BY BatchIs
<1>2. PICK c \in Candidate : c = batch[j]
  BY <1>1
<1>3. ZPart(recovered, j) = Z(c) /\ HPart(recovered, j) = R(c)
  BY <1>2, SlicesAre
<1>4. Z(c) \in [1 .. ZLanes -> 0 .. Q - 1] /\ R(c) \in [1 .. HLanes -> 0 .. Q - 1]
  BY ZShareType, ApproxIs DEF Z
<1>5. ASSUME NEW i \in 1 .. HLanes
      PROVE  HintBit(HPart(recovered, j)[i], W1(batch[j])[i]) = H(c)[i]
  <2>1. PICK x \in 0 .. Q - 1 : W1(c)[i] = HighBits(x)
    BY HighIs
  <2>2. PICK r \in 0 .. Q - 1 : r = R(c)[i]
    BY <1>4
  <2>3. HintBit(r, HighBits(x)) = Bit(HighBits(r) # HighBits(x))
    BY HintIs
  <2>4. H(c)[i] = Bit(HighBits(R(c)[i]) # W1(c)[i])
    BY DEF H
  <2>. QED
    BY <1>2, <1>3, <2>1, <2>2, <2>3, <2>4, Zenon
<1>6. ASSUME NEW k \in 1 .. ZLanes
      PROVE  BitNot(ZBoundOk(ZPart(recovered, j)[k])) = Bit(~ (Norm(Z(c)[k]) < Gamma))
  <2>1. PICK z \in 0 .. Q - 1 : z = Z(c)[k]
    BY <1>4
  <2>. QED
    BY <1>3, <2>1, NormIs, Zenon
<1>7. H(c) = [i \in 1 .. HLanes |-> H(c)[i]]
  BY DEF H
<1>. QED
  BY <1>2, <1>5, <1>6, <1>7, Zenon

\* A violation is weighed more than the hints may weigh.
LEMMA ValidIs ==
  ASSUME batch \in Batches, hints = HintsAre, violations \in Seq(BitVectors), Len(violations) = 1,
         NEW j \in Candidates, Violated(violations, j) <=> OutOfBound(batch[j])
  PROVE  ValidBit(j) = Bit(Acceptable(batch[j]))
<1>1. PICK c : c = batch[j]
  OBVIOUS
<1>2. PICK h : h = H(c)
  OBVIOUS
<1>3. h \in [1 .. HLanes -> Bits] /\ hints[j] = h
  BY <1>1, <1>2, HType DEF HintsAre
<1>4. IsFiniteSet(1 .. HLanes)
  BY Numbers, FS_Interval
<1>5. Dot(hints[j], [i \in 1 .. HLanes |-> 1]) = Total(h)
  <2>1. DOMAIN h = 1 .. HLanes
    BY <1>3
  <2>2. \A i \in 1 .. HLanes : h[i] * [k \in 1 .. HLanes |-> 1][i] = h[i]
    BY <1>3 DEF Bits
  <2>3. [i \in DOMAIN h |-> h[i] * [k \in 1 .. HLanes |-> 1][i]] = h
    BY <1>3, <2>1, <2>2
  <2>. QED
    BY <1>3, <2>3, SumIsTotal, Zenon DEF Dot
<1>6. Total(h) = Cardinality({i \in 1 .. HLanes : h[i] = 1})
  BY <1>3, <1>4, TotalOfBits DEF Bits
<1>7. PICK w \in Nat : w = Weight(c) /\ Total(h) = w
  <2>1. Cardinality({i \in 1 .. HLanes : h[i] = 1}) \in Nat
    <3>1. {i \in 1 .. HLanes : h[i] = 1} \subseteq 1 .. HLanes
      OBVIOUS
    <3>. QED
      BY <1>4, <3>1, FS_Subset, FS_CardinalityType
  <2>. QED
    BY <1>2, <1>6, <2>1 DEF Weight
<1>8. PICK v \in Bits : v = violations[1][j]
  <2>1. violations[1] \in BitVectors
    OBVIOUS
  <2>. QED
    BY <2>1 DEF BitVectors
<1>9. v = 1 <=> OutOfBound(c)
  BY <1>1, <1>8 DEF Violated
<1>10. ValidBit(j) = Bit(w + (Omega + 1) * v <= Omega)
  BY <1>5, <1>7, <1>8, Zenon DEF ValidBit
<1>11. w + (Omega + 1) * v <= Omega <=> v # 1 /\ w <= Omega
  <2>1. PICK o \in Nat : o = Omega
    BY Numbers
  <2>2. CASE v = 0
    <3>1. w + (o + 1) * v = w
      BY <2>2
    <3>. QED
      BY <2>1, <2>2, <3>1
  <2>3. CASE v = 1
    <3>1. w + (o + 1) * v = w + o + 1
      BY <2>3
    <3>. QED
      BY <2>1, <2>3, <3>1
  <2>. QED
    BY <1>8, <2>2, <2>3 DEF Bits
<1>12. Acceptable(c) <=> ~ OutOfBound(c) /\ w <= Omega
  BY <1>7, Zenon DEF Acceptable, OutOfBound
<1>. QED
  BY <1>1, <1>9, <1>10, <1>11, <1>12, Zenon DEF Bit

(***************************************************************************)
(* The selected candidate.                                                 *)
(***************************************************************************)
OnlyOne(j) == j \in Candidates /\ selected[j] = 1 /\ \A k \in Candidates \ {j} : selected[k] = 0

\* A sum over the candidates, weighed by the selection, is the value of the one selected.
LEMMA SelectedIs ==
  ASSUME batch \in Batches, NEW j, OnlyOne(j)
  PROVE  /\ SelectedPublic("priority") = batch[j].priority
         /\ SelectedPublic("ctilde") = batch[j].ctilde
<1>1. Candidates = 1 .. Len(batch) /\ Len(batch) \in Nat
  BY BatchIs
<1>2. IsFiniteSet(Candidates)
  BY <1>1, FS_Interval
<1>3. ASSUME NEW field, \A k \in Candidates : batch[k][field] \in 0 .. Q - 1
      PROVE  SelectedPublic(field) = batch[j][field]
  <2>1. PICK f : f = [k \in Candidates |-> selected[k] * batch[k][field]]
    OBVIOUS
  <2>2. ASSUME NEW k \in Candidates
        PROVE  f[k] \in Int /\ (k # j => f[k] = 0) /\ (k = j => f[k] = batch[j][field])
    <3>1. PICK x \in Int : x = batch[k][field]
      BY <1>3, Numbers
    <3>2. f[k] = selected[k] * x
      BY <2>1, <3>1
    <3>3. CASE k = j
      BY <3>1, <3>2, <3>3 DEF OnlyOne
    <3>4. CASE k # j
      BY <3>1, <3>2, <3>4 DEF OnlyOne
    <3>. QED
      BY <3>3, <3>4
  <2>3. f \in [Candidates -> Int]
    BY <2>1, <2>2
  <2>4. Total(f) = f[j]
    BY <1>2, <2>2, <2>3, TotalOne DEF OnlyOne
  <2>5. SelectedPublic(field) = Total(f) % Q
    BY <2>1, SumIsTotal, Zenon DEF SelectedPublic
  <2>6. j \in Candidates
    BY DEF OnlyOne
  <2>7. batch[j][field] \in 0 .. Q - 1
    BY <1>3, <2>6
  <2>8. batch[j][field] % Q = batch[j][field]
    BY <2>7, Numbers, ModSmall
  <2>. QED
    BY <2>2, <2>4, <2>5, <2>6, <2>8
<1>4. \A k \in Candidates : batch[k].priority \in 0 .. Q - 1 /\ batch[k].ctilde \in 0 .. Q - 1
  BY BatchIs, CandidateParts
<1>. QED
  BY <1>3, <1>4

\* The response of a candidate as it is opened, in lanes.
Signature(c) == Z(c) \o H(c)

\* It has the lanes of z and behind them those of the hint.
LEMMA SignatureIs ==
  ASSUME NEW c \in Candidate
  PROVE  /\ Signature(c) \in [1 .. Lanes -> 0 .. Q - 1]
         /\ Signature(c) \in Seq(0 .. Q - 1) /\ Len(Signature(c)) = Lanes
         /\ \A k \in 1 .. ZLanes : Signature(c)[k] = Z(c)[k]
         /\ \A i \in 1 .. HLanes : Signature(c)[ZLanes + i] = H(c)[i]
<1>1. Z(c) \in [1 .. ZLanes -> 0 .. Q - 1] /\ H(c) \in [1 .. HLanes -> Bits]
  BY ZShareType, HType DEF Z
<1>2. Bits \subseteq 0 .. Q - 1
  BY Numbers DEF Bits
<1>3. PICK u, v : u = Z(c) /\ v = H(c)
  OBVIOUS
<1>4. u \in [1 .. ZLanes -> 0 .. Q - 1] /\ v \in [1 .. HLanes -> 0 .. Q - 1]
  BY <1>1, <1>2, <1>3
<1>5. ZLanes \in Nat /\ HLanes \in Nat /\ Lanes = ZLanes + HLanes
  BY Numbers
<1>6. VectorOf(u, ZLanes, 0 .. Q - 1) /\ VectorOf(v, HLanes, 0 .. Q - 1)
  BY <1>4, Zenon DEF VectorOf
<1>7. /\ VectorOf(u \o v, ZLanes + HLanes, 0 .. Q - 1) /\ u \o v \in Seq(0 .. Q - 1)
      /\ Len(u \o v) = ZLanes + HLanes
      /\ JoinOf(u \o v, u, ZLanes, v, HLanes)
  <2>1. PICK X, n, m : X = 0 .. Q - 1 /\ n = ZLanes /\ m = HLanes
    OBVIOUS
  <2>2. VectorOf(u, n, X) /\ VectorOf(v, m, X)
    BY <1>6, <2>1
  <2>3. /\ VectorOf(u \o v, n + m, X) /\ u \o v \in Seq(X) /\ Len(u \o v) = n + m
        /\ JoinOf(u \o v, u, n, v, m)
    <3>1. n \in Nat /\ m \in Nat
      BY <1>5, <2>1
    <3>. QED
      BY <2>2, <3>1, VectorsJoin, Zenon
  <2>. QED
    BY <2>1, <2>3
<1>8. Signature(c) = u \o v
  BY <1>3 DEF Signature
<1>. QED
  BY <1>3, <1>5, <1>7, <1>8, Zenon DEF VectorOf, JoinOf

\* The products select the lanes of one candidate.
LEMMA AffineIs ==
  ASSUME batch \in Batches, values = Fused, hints = HintsAre, NEW j, OnlyOne(j),
         NEW l \in 1 .. Lanes
  PROVE  Affine(l) = Signature(batch[j])[l]
<1>1. /\ Candidates = 1 .. Len(batch) /\ Len(batch) \in Nat /\ 1 \in Candidates
      /\ j \in Candidates
  BY BatchIs DEF OnlyOne
<1>2. \A k \in Candidates : Offer(k, l) = Signature(batch[k])[l]
  <2>. SUFFICES ASSUME NEW k \in Candidates PROVE Offer(k, l) = Signature(batch[k])[l]
    OBVIOUS
  <2>1. ZPart(values, k) = Z(batch[k]) /\ hints[k] = H(batch[k])
    BY SlicesAre DEF HintsAre
  <2>. QED
    BY <2>1, Zenon DEF Offer, Signature
<1>3. \A k \in Candidates : Offer(k, l) \in 0 .. Q - 1
  BY <1>2, BatchIs, SignatureIs
<1>4. PICK others : others = Candidates \ {1}
  OBVIOUS
<1>5. IsFiniteSet(others)
  <2>1. IsFiniteSet(Candidates) /\ others \subseteq Candidates
    BY <1>1, <1>4, FS_Interval
  <2>. QED
    BY <2>1, FS_Subset
<1>6. PICK f : f = [k \in others |-> selected[k] * (Offer(k, l) - Offer(1, l))]
  OBVIOUS
<1>7. PICK first \in Int : first = Offer(1, l)
  BY <1>1, <1>3, Numbers
<1>8. ASSUME NEW k \in others
      PROVE  f[k] \in Int /\ (k # j => f[k] = 0) /\ (k = j => f[k] = Offer(k, l) - first)
  <2>1. PICK x \in Int : x = Offer(k, l)
    BY <1>3, <1>4, Numbers
  <2>2. f[k] = selected[k] * (x - first)
    BY <1>6, <1>7, <2>1
  <2>3. CASE k = j
    BY <2>1, <2>2, <2>3 DEF OnlyOne
  <2>4. CASE k # j
    BY <1>4, <2>1, <2>2, <2>4 DEF OnlyOne
  <2>. QED
    BY <2>3, <2>4
<1>9. f \in [others -> Int]
  BY <1>6, <1>8
<1>10. Total(f) = IF j \in others THEN f[j] ELSE 0
  BY <1>5, <1>8, <1>9, TotalOne
<1>11. Affine(l) = (first + Total(f)) % Q
  BY <1>4, <1>6, <1>7, SumIsTotal, Zenon DEF Affine
<1>12. first + Total(f) = Offer(j, l)
  <2>1. CASE j = 1
    BY <1>4, <1>7, <1>10, <2>1
  <2>2. CASE j # 1
    <3>1. j \in others /\ Offer(j, l) \in Int
      BY <1>1, <1>3, <1>4, <2>2, Numbers
    <3>2. f[j] = Offer(j, l) - first
      BY <1>8, <3>1
    <3>. QED
      BY <1>10, <3>1, <3>2
  <2>. QED
    BY <2>1, <2>2
<1>13. Offer(j, l) % Q = Offer(j, l)
  <2>1. PICK o \in 0 .. Q - 1 : o = Offer(j, l)
    BY <1>1, <1>3
  <2>2. o % Q = o
    BY Numbers, ModSmall
  <2>. QED
    BY <2>1, <2>2
<1>. QED
  BY <1>1, <1>2, <1>11, <1>12, <1>13

(***************************************************************************)
(* What has been opened of it.                                             *)
(***************************************************************************)
LanesOf(s, c) ==
  /\ s \in Seq(0 .. Q - 1) /\ Len(s) <= Lanes
  /\ \A i \in 1 .. Len(s) : s[i] = Signature(c)[i]

\* Lanes that agree with the response are a beginning of it.
LEMMA LanesArePrefix ==
  ASSUME NEW c \in Candidate, NEW s, LanesOf(s, c)
  PROVE  IsPrefixOf(s, Z(c) \o H(c))
<1>1. PICK t : t = Signature(c)
  OBVIOUS
<1>2. t \in Seq(0 .. Q - 1) /\ Len(t) = Lanes
  BY <1>1, SignatureIs
<1>3. PICK n \in Nat : n = Len(s) /\ n <= Lanes
  BY DEF LanesOf
<1>4. s \in Seq(0 .. Q - 1) /\ \A i \in 1 .. n : s[i] = t[i]
  BY <1>1, <1>3 DEF LanesOf
<1>5. PICK X : X = 0 .. Q - 1
  OBVIOUS
<1>6. VectorOf(SubSeq(t, 1, n), n, X) /\ SliceOf(SubSeq(t, 1, n), t, 1, n)
  <2>1. 1 \in Int /\ n \in Int /\ 1 >= 1 /\ n = 1 + n - 1 /\ n <= Len(t) /\ t \in Seq(X)
    BY <1>2, <1>3, <1>5
  <2>. QED
    BY <2>1, SliceIs, Zenon
<1>7. PICK p : p = SubSeq(t, 1, n)
  OBVIOUS
<1>8. PICK D : D = 1 .. n
  OBVIOUS
<1>9. p \in [D -> X] /\ s \in [D -> X]
  <2>1. p \in [D -> X]
    BY <1>6, <1>7, <1>8, Zenon DEF VectorOf
  <2>2. s \in Seq(X) /\ Len(s) = n
    BY <1>3, <1>4, <1>5
  <2>3. s \in [D -> X]
    BY <1>8, <2>2
  <2>. QED
    BY <2>1, <2>3
<1>10. \A i \in D : p[i] = s[i]
  <2>1. \A i \in 1 .. n : p[i] = t[1 + i - 1] /\ 1 + i - 1 = i
    BY <1>6, <1>7 DEF SliceOf
  <2>. QED
    BY <1>4, <1>8, <2>1
<1>11. p = s
  BY <1>9, <1>10
<1>. QED
  BY <1>1, <1>2, <1>3, <1>7, <1>11 DEF IsPrefixOf, Signature

\* A chunk of the selected candidate continues its response.
LEMMA LanesGrow ==
  ASSUME batch \in Batches, values = Fused, hints = HintsAre, NEW j, OnlyOne(j),
         LanesOf(lanes, batch[j])
  PROVE  /\ LanesOf(lanes \o Chunk, batch[j])
         /\ Len(lanes \o Chunk) = ChunkEnd(Len(lanes))
<1>1. PICK n \in Nat : n = Len(lanes) /\ n <= Lanes
  BY DEF LanesOf
<1>2. PICK e \in Nat : e = ChunkEnd(n) /\ n <= e /\ e <= Lanes
  BY <1>1, Numbers, ParameterAssumption DEF ChunkEnd
<1>3. PICK m \in Nat : m = e - n
  BY <1>2
<1>4. PICK u, v, X : u = lanes /\ v = Chunk /\ X = 0 .. Q - 1
  OBVIOUS
<1>5. PICK t : t = Signature(batch[j])
  OBVIOUS
<1>6. t \in [1 .. Lanes -> X]
  BY <1>4, <1>5, BatchIs, SignatureIs DEF OnlyOne
<1>7. v = [i \in 1 .. m |-> Affine(n + i)]
  BY <1>1, <1>2, <1>3, <1>4 DEF Chunk
<1>8. ASSUME NEW i \in 1 .. m PROVE v[i] = t[n + i] /\ v[i] \in X
  <2>1. n + i \in 1 .. Lanes
    BY <1>2, <1>3, Numbers
  <2>2. Affine(n + i) = t[n + i]
    BY <1>5, <2>1, AffineIs
  <2>. QED
    BY <1>6, <1>7, <2>1, <2>2
<1>9. VectorOf(v, m, X)
  BY <1>7, <1>8 DEF VectorOf
<1>10. VectorOf(u, n, X)
  <2>1. u \in Seq(X) /\ Len(u) = n
    BY <1>1, <1>4 DEF LanesOf
  <2>. QED
    BY <2>1 DEF VectorOf
<1>11. /\ VectorOf(u \o v, n + m, X) /\ u \o v \in Seq(X) /\ Len(u \o v) = n + m
       /\ JoinOf(u \o v, u, n, v, m)
  BY <1>9, <1>10, VectorsJoin, Zenon
<1>12. \A i \in 1 .. n : u[i] = t[i]
  BY <1>1, <1>4, <1>5 DEF LanesOf
<1>13. PICK w : w = u \o v
  OBVIOUS
<1>14. ASSUME NEW i \in 1 .. n + m PROVE w[i] = t[i]
  <2>1. CASE i <= n
    BY <1>11, <1>12, <1>13, <2>1 DEF JoinOf
  <2>2. CASE ~ (i <= n)
    <3>1. PICK k \in 1 .. m : i = n + k
      BY <2>2
    <3>. QED
      BY <1>8, <1>11, <1>13, <3>1 DEF JoinOf
  <2>. QED
    BY <2>1, <2>2
<1>15. n + m = e
  BY <1>2, <1>3
<1>. QED
  BY <1>1, <1>2, <1>4, <1>5, <1>11, <1>13, <1>14, <1>15 DEF LanesOf

\* All lanes of a response are its z and its hint.
LEMMA LanesAreWhole ==
  ASSUME NEW c \in Candidate, LanesOf(lanes, c), Len(lanes) = Lanes
  PROVE  SubSeq(lanes, 1, ZLanes) = Z(c) /\ SubSeq(lanes, ZLanes + 1, Lanes) = H(c)
<1>1. PICK X, s : X = 0 .. Q - 1 /\ s = lanes
  OBVIOUS
<1>2. ZLanes \in Nat /\ HLanes \in Nat /\ Lanes = ZLanes + HLanes
  BY Numbers
<1>3. s \in Seq(X) /\ Len(s) = Lanes /\ \A i \in 1 .. Lanes : s[i] = Signature(c)[i]
  BY <1>1 DEF LanesOf
<1>4. Z(c) \in [1 .. ZLanes -> X] /\ H(c) \in [1 .. HLanes -> X]
  <2>1. Z(c) \in [1 .. ZLanes -> X] /\ H(c) \in [1 .. HLanes -> Bits]
    BY <1>1, ZShareType, HType DEF Z
  <2>2. Bits \subseteq X
    BY <1>1, Numbers DEF Bits
  <2>. QED
    BY <2>1, <2>2
<1>5. /\ VectorOf(SubSeq(s, 1, ZLanes), ZLanes, X)
      /\ SliceOf(SubSeq(s, 1, ZLanes), s, 1, ZLanes)
  <2>1. 1 \in Int /\ ZLanes \in Int /\ 1 >= 1 /\ ZLanes = 1 + ZLanes - 1 /\ ZLanes <= Len(s)
    BY <1>2, <1>3
  <2>. QED
    BY <1>2, <1>3, <2>1, SliceIs, Zenon
<1>6. /\ VectorOf(SubSeq(s, ZLanes + 1, Lanes), HLanes, X)
      /\ SliceOf(SubSeq(s, ZLanes + 1, Lanes), s, ZLanes + 1, HLanes)
  <2>1. /\ ZLanes + 1 \in Int /\ Lanes \in Int /\ ZLanes + 1 >= 1
        /\ Lanes = (ZLanes + 1) + HLanes - 1 /\ Lanes <= Len(s)
    BY <1>2, <1>3
  <2>. QED
    BY <1>2, <1>3, <2>1, SliceIs, Zenon
<1>7. SubSeq(s, 1, ZLanes) = Z(c)
  <2>1. PICK p, z, D : p = SubSeq(s, 1, ZLanes) /\ z = Z(c) /\ D = 1 .. ZLanes
    OBVIOUS
  <2>2. p \in [D -> X] /\ z \in [D -> X]
    BY <1>4, <1>5, <2>1 DEF VectorOf
  <2>3. ASSUME NEW i \in D PROVE p[i] = z[i]
    <3>1. p[i] = s[1 + i - 1] /\ 1 + i - 1 = i /\ i \in 1 .. Lanes
      BY <1>2, <1>5, <2>1 DEF SliceOf
    <3>2. s[i] = Signature(c)[i]
      BY <1>3, <3>1
    <3>. QED
      BY <2>1, <3>1, <3>2, SignatureIs
  <2>4. p = z
    BY <2>2, <2>3
  <2>. QED
    BY <2>1, <2>4
<1>8. SubSeq(s, ZLanes + 1, Lanes) = H(c)
  <2>1. PICK p, h, D : p = SubSeq(s, ZLanes + 1, Lanes) /\ h = H(c) /\ D = 1 .. HLanes
    OBVIOUS
  <2>2. p \in [D -> X] /\ h \in [D -> X]
    BY <1>4, <1>6, <2>1 DEF VectorOf
  <2>3. ASSUME NEW i \in D PROVE p[i] = h[i]
    <3>1. p[i] = s[ZLanes + 1 + i - 1]
      BY <1>6, <2>1 DEF SliceOf
    <3>2. ZLanes + 1 + i - 1 = ZLanes + i /\ ZLanes + i \in 1 .. Lanes
      BY <1>2, <2>1
    <3>3. s[ZLanes + i] = Signature(c)[ZLanes + i]
      BY <1>3, <3>2
    <3>. QED
      BY <2>1, <3>1, <3>2, <3>3, SignatureIs
  <2>4. p = h
    BY <2>2, <2>3
  <2>. QED
    BY <2>1, <2>4
<1>. QED
  BY <1>1, <1>7, <1>8

\* The stages that have opened lanes.
Late == {"chunks", "finish"}

\* What FIPS 204 accepts.
Verdicts == [j \in Candidates |-> Bit(Acceptable(batch[j]))]

\* What the vectors of the call are, at each stage: behind the two checks the bits are
\* those of the lanes, the hints and verdicts those of FIPS 204, and the lanes that were
\* opened the beginning of the response of the one that is selected.
DataInv ==
  /\ mask \in Masks
  /\ stage \notin {"prepare", "ended"} => InputsFit /\ values = Fused
  /\ stage \in {"canonical", "equal"} => recovered = Lifted
  /\ stage = "equal" => AllZero(NotCanonical)
  /\ stage = "bounds" => recovered = Fused
  /\ stage \in {"or", "threshold"} \cup Selecting => hints = HintsAre
  /\ stage \in {"or", "threshold"} =>
       /\ Len(violations) >= 1
       /\ \A j \in Candidates : Violated(violations, j) <=> OutOfBound(batch[j])
  /\ stage = "threshold" => Len(violations) = 1
  /\ stage \in Selecting => valid = Verdicts
  /\ stage \notin Late \cup {"ended"} => lanes = <<>>
  /\ stage \in Late => \A j : OnlyOne(j) => LanesOf(lanes, batch[j])
  /\ stage = "finish" => Len(lanes) = Lanes

\* All that is known of a call.
CallInv == SelectionInv /\ OpenInv /\ DataInv

\* The stages behind the verdict that one candidate is selected.
Opening == {"priority", "ctilde", "chunks", "finish"}

\* Behind the verdict one candidate is selected: the first that is acceptable.
LEMMA TheFirst ==
  ASSUME CallInv, stage \in Opening
  PROVE  \E j \in Candidates : OnlyOne(j) /\ IsFirst(j)
<1>0. SelectionInv /\ OpenInv /\ DataInv
  BY DEF CallInv
<1>1. prefix = 1
  BY <1>0 DEF OpenInv, Opening
<1>2. PICK j \in Candidates : selected[j] = 1
  BY <1>0, <1>1 DEF SelectionInv, SelectInv
<1>3. selected # Nobody
  BY <1>2 DEF Nobody
<1>4. \A k \in Candidates : selected[k] = 1 => IsFirstValid(k)
  <2>1. \A k \in Candidates \ todo : selected[k] = 1 <=> IsFirstValid(k)
    BY <1>0, <1>3 DEF SelectionInv, SelectInv
  <2>2. \A k \in todo : selected[k] = 0
    BY <1>0, <1>3 DEF SelectionInv, SelectInv
  <2>. QED
    BY <2>1, <2>2
<1>5. \A k \in Candidates \ {j} : selected[k] # 1
  BY <1>0, <1>2, <1>4, BeforeIsOrder DEF SelectionInv, OpeningTypeInv, IsFirstValid
<1>6. \A k \in Candidates : selected[k] \in Bits
  BY <1>0 DEF SelectionInv, OpeningTypeInv, BitVectors
<1>7. OnlyOne(j)
  BY <1>2, <1>5, <1>6 DEF OnlyOne, Bits
<1>8. \A k \in Candidates : valid[k] = 1 <=> Acceptable(batch[k])
  <2>1. valid = Verdicts
    BY <1>0 DEF DataInv, Opening, Selecting
  <2>. QED
    BY <2>1 DEF Verdicts, Bit
<1>9. IsFirst(j)
  <2>1. IsFirstValid(j)
    BY <1>2, <1>4
  <2>2. \A k \in Candidates : Before(k, j) => valid[k] # 1
    BY <2>1 DEF IsFirstValid
  <2>. QED
    BY <1>2, <1>8, <2>1, <2>2, Zenon DEF IsFirst, IsFirstValid
<1>. QED
  BY <1>7, <1>9

\* What may be opened: zeros of a good mask, and values of the first acceptable one.
Fine(o) ==
  /\ o.what \in {"canonical", "equal"} /\ mask.bits = mask.value => AllZero(o.lanes)
  /\ o.what \in {"priority", "ctilde", "chunk"} =>
       \E j \in Candidates :
         /\ IsFirst(j)
         /\ CASE o.what = "priority" -> o.lanes = <<batch[j].priority>>
              [] o.what = "ctilde" -> o.lanes = <<batch[j].ctilde>>
              [] o.what = "chunk" -> IsPrefixOf(o.lanes, Z(batch[j]) \o H(batch[j]))

\* OnlySelectedOpens says that all that was opened is of that kind.
LEMMA OnlyFineOpens == OnlySelectedOpens <=> \A o \in opened : Fine(o)
BY Zenon DEF OnlySelectedOpens, Fine

\* Whatever a phase shows may be shown.
LEMMA ShownIsFine ==
  ASSUME CallInv, NEW o \in Shown
  PROVE  Fine(o)
<1>0. SelectionInv /\ OpenInv /\ DataInv /\ batch \in Batches /\ mask \in Masks
  BY DEF CallInv, DataInv, SelectionInv, OpeningTypeInv
<1>1. CASE stage = "masked"
  <2>1. o.what = "masked"
    BY <1>1 DEF Shown, Shows
  <2>. QED
    BY <2>1 DEF Fine
<1>2. CASE stage = "canonical"
  <2>1. o = [what |-> "canonical", lanes |-> NotCanonical]
    BY <1>2 DEF Shown, Shows
  <2>2. mask.bits = mask.value => AllZero(NotCanonical)
    BY <1>0, <1>2, ChecksAre DEF DataInv
  <2>3. o.what = "canonical" /\ o.lanes = NotCanonical
    BY <2>1
  <2>. QED
    BY <2>2, <2>3 DEF Fine
<1>3. CASE stage = "equal"
  <2>1. o = [what |-> "equal", lanes |-> Difference]
    BY <1>3 DEF Shown, Shows
  <2>2. mask.bits = mask.value => AllZero(Difference)
    BY <1>0, <1>3, ChecksAre DEF DataInv
  <2>3. o.what = "equal" /\ o.lanes = Difference
    BY <2>1
  <2>. QED
    BY <2>2, <2>3 DEF Fine
<1>4. CASE stage \in {"priority", "ctilde", "chunks"}
  <2>1. PICK j \in Candidates : OnlyOne(j) /\ IsFirst(j)
    BY <1>4, TheFirst DEF Opening
  <2>2. CASE stage = "priority"
    <3>1. o.what = "priority" /\ o.lanes = <<SelectedPublic("priority")>>
      BY <2>2 DEF Shown, Shows
    <3>2. o.lanes = <<batch[j].priority>>
      BY <1>0, <2>1, <3>1, SelectedIs
    <3>. QED
      BY <2>1, <3>1, <3>2 DEF Fine
  <2>3. CASE stage = "ctilde"
    <3>1. o.what = "ctilde" /\ o.lanes = <<SelectedPublic("ctilde")>>
      BY <2>3 DEF Shown, Shows
    <3>2. o.lanes = <<batch[j].ctilde>>
      BY <1>0, <2>1, <3>1, SelectedIs
    <3>. QED
      BY <2>1, <3>1, <3>2 DEF Fine
  <2>4. CASE stage = "chunks"
    <3>1. o.what = "chunk" /\ o.lanes = lanes \o Chunk
      BY <2>4 DEF Shown
    <3>2. values = Fused /\ hints = HintsAre /\ LanesOf(lanes, batch[j])
      BY <1>0, <2>1, <2>4 DEF DataInv, Selecting, Late
    <3>3. LanesOf(lanes \o Chunk, batch[j])
      BY <1>0, <2>1, <3>2, LanesGrow
    <3>4. batch[j] \in Candidate
      BY <1>0, BatchIs
    <3>5. IsPrefixOf(o.lanes, Z(batch[j]) \o H(batch[j]))
      BY <3>1, <3>3, <3>4, LanesArePrefix, Zenon
    <3>. QED
      BY <2>1, <3>1, <3>5 DEF Fine
  <2>. QED
    BY <1>4, <2>2, <2>3, <2>4
<1>5. CASE stage \in {"one_hot", "any_valid"}
  <2>1. o.what \in {"one_hot", "any_valid"}
    BY <1>5 DEF Shown, Shows
  <2>. QED
    BY <2>1 DEF Fine
<1>6. CASE stage \notin {"masked", "canonical", "equal", "one_hot", "any_valid", "priority",
                         "ctilde", "chunks"}
  BY <1>6 DEF Shown
<1>. QED
  BY <1>1, <1>2, <1>3, <1>4, <1>5, <1>6

(***************************************************************************)
(* The steps.                                                              *)
(***************************************************************************)
LEMMA BatchStays == ASSUME [OpeningNext]_openingVars PROVE batch' = batch /\ mask' = mask
BY DEF OpeningNext, openingVars, Prepare, OpenMasked, AssertCanonical, AssertEqual, CheckBounds,
       OrReduce, CheckValidity, Select, CheckOneHot, OpenAnyValid, OpenPriority, OpenCtilde,
       OpenChunk, Finish, Fails

\* What depends on the batch and the mask alone stays.
LEMMA SameBatch ==
  ASSUME batch' = batch, mask' = mask
  PROVE  /\ Candidates' = Candidates /\ Fused' = Fused /\ InputsFit' = InputsFit
         /\ Lifted' = Lifted /\ HintsAre' = HintsAre /\ Verdicts' = Verdicts
         /\ BitVectors' = BitVectors
         /\ \A j : IsFirst(j)' = IsFirst(j)
         /\ \A o : Fine(o)' = Fine(o)
<1>1. Candidates' = Candidates
  BY DEF Candidates
<1>2. Fused' = Fused
  BY Zenon DEF Fused
<1>3. InputsFit' = InputsFit
  BY <1>1 DEF InputsFit
<1>4. \A x : Masked(x)' = Masked(x) /\ RecoveredFrom(x)' = RecoveredFrom(x)
  BY Zenon DEF Masked, RecoveredFrom
<1>5. Lifted' = Lifted
  BY <1>2, Zenon DEF Lifted, Masked, RecoveredFrom
<1>6. HintsAre' = HintsAre /\ Verdicts' = Verdicts /\ BitVectors' = BitVectors
  BY <1>1, Zenon DEF HintsAre, Verdicts, BitVectors
<1>7. \A i, j : Before(i, j)' = Before(i, j)
  BY DEF Before
<1>8. \A j : IsFirst(j)' = IsFirst(j)
  BY <1>1, <1>7, Zenon DEF IsFirst
<1>9. \A o : Fine(o)' = Fine(o)
  BY <1>1, <1>8, Zenon DEF Fine
<1>. QED
  BY <1>1, <1>2, <1>3, <1>5, <1>6, <1>8, <1>9

\* OpensTheFirst, in these words.
FirstInv == ArtifactIsFirst /\ \A o \in opened : Fine(o)

\* What a step opens, and the artifact.
LEMMA OpenedAfter ==
  ASSUME [OpeningNext]_openingVars
  PROVE  /\ \A o \in opened' : o \in opened \/ o \in Shown
         /\ artifact' = artifact \/ Finish
BY DEF OpeningNext, openingVars, Prepare, OpenMasked, AssertCanonical, AssertEqual, CheckBounds,
       OrReduce, CheckValidity, Select, CheckOneHot, OpenAnyValid, OpenPriority, OpenCtilde,
       OpenChunk, Finish, Fails, Send

\* The artifact is the response of the first acceptable candidate.
LEMMA FinishIsFirst ==
  ASSUME CallInv, Finish
  PROVE  \E j \in Candidates :
           /\ IsFirst(j)
           /\ artifact' = [priority |-> batch[j].priority, ctilde |-> batch[j].ctilde,
                           z |-> Z(batch[j]), h |-> H(batch[j])]
           /\ InputsFit
<1>0. SelectionInv /\ OpenInv /\ DataInv /\ batch \in Batches /\ stage = "finish"
  BY DEF CallInv, SelectionInv, OpeningTypeInv, Finish
<1>1. PICK j \in Candidates : OnlyOne(j) /\ IsFirst(j)
  BY <1>0, TheFirst DEF Opening
<1>2. LanesOf(lanes, batch[j]) /\ Len(lanes) = Lanes /\ InputsFit
  BY <1>0, <1>1 DEF DataInv, Late
<1>3. batch[j] \in Candidate
  BY <1>0, BatchIs
<1>4. SubSeq(lanes, 1, ZLanes) = Z(batch[j]) /\ SubSeq(lanes, ZLanes + 1, Lanes) = H(batch[j])
  BY <1>2, <1>3, LanesAreWhole
<1>5. SelectedPublic("priority") = batch[j].priority /\ SelectedPublic("ctilde") = batch[j].ctilde
  BY <1>0, <1>1, SelectedIs
<1>6. artifact' = [priority |-> SelectedPublic("priority"), ctilde |-> SelectedPublic("ctilde"),
                   z |-> SubSeq(lanes, 1, ZLanes), h |-> SubSeq(lanes, ZLanes + 1, Lanes)]
  BY DEF Finish
<1>. QED
  BY <1>1, <1>2, <1>4, <1>5, <1>6, Zenon

\* No step opens anything else.
LEMMA NextFirst == CallInv /\ FirstInv /\ [OpeningNext]_openingVars => FirstInv'
<1>. SUFFICES ASSUME CallInv, FirstInv, [OpeningNext]_openingVars PROVE FirstInv'
  OBVIOUS
<1>1. batch' = batch /\ mask' = mask
  BY BatchStays
<1>2. \A o \in opened' : Fine(o)'
  BY <1>1, OpenedAfter, ShownIsFine, SameBatch DEF FirstInv
<1>3. ArtifactIsFirst'
  <2>1. SUFFICES ASSUME artifact' # NoArtifact
                 PROVE  \E j \in Candidates :
                          /\ IsFirst(j)
                          /\ artifact' = [priority |-> batch[j].priority,
                                          ctilde |-> batch[j].ctilde,
                                          z |-> Z(batch[j]), h |-> H(batch[j])]
                          /\ InputsFit
    BY <1>1, SameBatch, Zenon DEF ArtifactIsFirst, InputsFit
  <2>2. CASE artifact' = artifact
    BY <2>1, <2>2, Zenon DEF FirstInv, ArtifactIsFirst, InputsFit
  <2>3. CASE Finish
    BY <2>3, FinishIsFirst
  <2>. QED
    BY <2>2, <2>3, OpenedAfter
<1>. QED
  BY <1>2, <1>3 DEF FirstInv

\* A call starts with nothing.
LEMMA InitData == OpeningInit => CallInv /\ FirstInv
<1>. SUFFICES ASSUME OpeningInit PROVE CallInv /\ FirstInv
  OBVIOUS
<1>1. SelectionInv /\ OpenInv
  BY InitType, InitSelect, InitOpen DEF SelectionInv
<1>2. DataInv
  BY DEF OpeningInit, DataInv, Selecting, Late
<1>3. FirstInv
  BY DEF OpeningInit, FirstInv, ArtifactIsFirst
<1>. QED
  BY <1>1, <1>2, <1>3 DEF CallInv

\* Preparation fuses the lanes of the batch.
LEMMA PrepareData == ASSUME CallInv, Prepare PROVE DataInv'
<1>1. DataInv /\ batch' = batch /\ mask' = mask /\ stage = "prepare" /\ lanes' = lanes
  BY DEF CallInv, Prepare
<1>2. Fused' = Fused /\ InputsFit' = InputsFit
  BY <1>1, SameBatch
<1>3. \/ stage' = "masked" /\ values' = Fused /\ InputsFit
      \/ stage' = "ended"
  BY DEF Prepare, Goes, Ends
<1>4. mask \in Masks /\ lanes = <<>>
  BY <1>1 DEF DataInv, Late
<1>. QED
  BY <1>1, <1>2, <1>3, <1>4 DEF DataInv, Selecting, Late

\* The masked opening lifts every lane.
LEMMA OpenMaskedData == ASSUME CallInv, OpenMasked PROVE DataInv'
<1>1. /\ DataInv /\ batch' = batch /\ mask' = mask /\ stage = "masked" /\ lanes' = lanes
      /\ values' = values /\ stage' = "canonical"
      /\ recovered' = [l \in DOMAIN values |-> RecoveredFrom(Masked(values[l]))]
  BY DEF CallInv, OpenMasked, Goes
<1>2. Fused' = Fused /\ InputsFit' = InputsFit /\ Lifted' = Lifted
  BY <1>1, SameBatch
<1>3. mask \in Masks /\ lanes = <<>> /\ InputsFit /\ values = Fused
  BY <1>1 DEF DataInv, Late
<1>4. recovered' = Lifted
  BY <1>1, <1>3 DEF Lifted
<1>. QED
  BY <1>1, <1>2, <1>3, <1>4 DEF DataInv, Selecting, Late

\* Behind the first check all lanes are below q.
LEMMA CanonicalData == ASSUME CallInv, AssertCanonical PROVE DataInv'
<1>1. /\ DataInv /\ batch' = batch /\ mask' = mask /\ stage = "canonical" /\ lanes' = lanes
      /\ values' = values /\ recovered' = recovered
      /\ (stage' = "equal" /\ AllZero(NotCanonical)) \/ stage' = "ended"
  BY DEF CallInv, AssertCanonical, Goes, Ends, circuit
<1>2. Fused' = Fused /\ InputsFit' = InputsFit /\ Lifted' = Lifted
  BY <1>1, SameBatch
<1>3. mask \in Masks /\ lanes = <<>> /\ InputsFit /\ values = Fused /\ recovered = Lifted
  BY <1>1 DEF DataInv, Late
<1>4. NotCanonical' = NotCanonical
  BY <1>1 DEF NotCanonical
<1>5. AllZero(NotCanonical) => AllZero(NotCanonical)'
  BY <1>4 DEF AllZero
<1>. QED
  BY <1>1, <1>2, <1>3, <1>5 DEF DataInv, Selecting, Late

\* Behind the second check the bits are those of the lanes.
LEMMA EqualData == ASSUME CallInv, AssertEqual PROVE DataInv'
<1>1. /\ DataInv /\ batch' = batch /\ mask' = mask /\ stage = "equal" /\ lanes' = lanes
      /\ values' = values /\ recovered' = recovered
      /\ (stage' = "bounds" /\ AllZero(Difference)) \/ stage' = "ended"
      /\ batch \in Batches
  BY DEF CallInv, AssertEqual, Goes, Ends, circuit, Agrees, SelectionInv, OpeningTypeInv
<1>2. Fused' = Fused /\ InputsFit' = InputsFit
  BY <1>1, SameBatch
<1>3. /\ mask \in Masks /\ lanes = <<>> /\ InputsFit /\ values = Fused /\ recovered = Lifted
      /\ AllZero(NotCanonical)
  BY <1>1 DEF DataInv, Late
<1>4. stage' = "bounds" => recovered' = Fused
  BY <1>1, <1>3, ChecksAre
<1>. QED
  BY <1>1, <1>2, <1>3, <1>4 DEF DataInv, Selecting, Late

\* The bound and hint circuits compute what FIPS 204 says.
LEMMA BoundsData == ASSUME CallInv, CheckBounds PROVE DataInv'
<1>1. /\ DataInv /\ batch' = batch /\ mask' = mask /\ stage = "bounds" /\ lanes' = lanes
      /\ values' = values /\ stage' = "or" /\ batch \in Batches
      /\ hints' = [j \in Candidates |->
                     [i \in 1 .. HLanes |-> HintBit(HPart(recovered, j)[i], W1(batch[j])[i])]]
      /\ violations' = [k \in 1 .. ZLanes |->
                          [j \in Candidates |-> BitNot(ZBoundOk(ZPart(recovered, j)[k]))]]
  BY DEF CallInv, CheckBounds, Goes, SelectionInv, OpeningTypeInv
<1>2. Fused' = Fused /\ InputsFit' = InputsFit /\ HintsAre' = HintsAre /\ Candidates' = Candidates
  BY <1>1, SameBatch
<1>3. mask \in Masks /\ lanes = <<>> /\ InputsFit /\ values = Fused /\ recovered = Fused
  BY <1>1 DEF DataInv, Late
<1>4. hints' = HintsAre
  BY <1>1, <1>3, BoundsAre, Zenon DEF HintsAre
<1>5. Len(violations') = ZLanes /\ ZLanes \in Nat /\ ZLanes >= 1
  <2>1. ZLanes \in Nat /\ ZLanes >= 1
    BY Numbers
  <2>2. PICK X : X = {[j \in Candidates |-> BitNot(ZBoundOk(ZPart(recovered, j)[k]))]
                        : k \in 1 .. ZLanes}
    OBVIOUS
  <2>3. violations' \in [1 .. ZLanes -> X]
    BY <1>1, <2>2
  <2>. QED
    BY <2>1, <2>3, VectorIsSeq
<1>6. ASSUME NEW j \in Candidates PROVE Violated(violations', j) <=> OutOfBound(batch[j])
  <2>1. \A k \in 1 .. ZLanes :
          violations'[k][j] = Bit(~ (Norm(Z(batch[j])[k]) < Gamma))
    BY <1>1, <1>3, BoundsAre, Zenon
  <2>2. \A k \in 1 .. ZLanes : violations'[k][j] = 1 <=> ~ (Norm(Z(batch[j])[k]) < Gamma)
    BY <2>1 DEF Bit
  <2>. QED
    BY <1>5, <2>2, Zenon DEF Violated, OutOfBound
<1>. QED
  BY <1>1, <1>2, <1>3, <1>4, <1>5, <1>6 DEF DataInv, Selecting, Late

\* A layer of the reduction keeps who is violated.
LEMMA OrData == ASSUME CallInv, OrReduce PROVE DataInv'
<1>1. /\ DataInv /\ batch' = batch /\ mask' = mask /\ stage = "or" /\ lanes' = lanes
      /\ values' = values /\ hints' = hints /\ violations \in Seq(BitVectors)
      /\ \/ violations' = OrLayer(violations) /\ stage' = "or"
         \/ violations' = violations /\ ~ (Len(violations) > 1) /\ stage' = "threshold"
  BY DEF CallInv, OrReduce, Goes, SelectionInv, OpeningTypeInv
<1>2. Fused' = Fused /\ InputsFit' = InputsFit /\ HintsAre' = HintsAre /\ Candidates' = Candidates
  BY <1>1, SameBatch
<1>3. /\ mask \in Masks /\ lanes = <<>> /\ InputsFit /\ values = Fused /\ hints = HintsAre
      /\ Len(violations) >= 1
      /\ \A j \in Candidates : Violated(violations, j) <=> OutOfBound(batch[j])
  BY <1>1 DEF DataInv, Late
<1>4. /\ Len(violations') >= 1
      /\ \A j \in Candidates : Violated(violations', j) <=> OutOfBound(batch[j])
  <2>1. CASE violations' = OrLayer(violations)
    <3>1. \A j \in Candidates : Violated(violations', j) <=> OutOfBound(batch[j])
      BY <1>1, <1>3, <2>1, OrLayerKeeps
    <3>2. 1 \in Candidates
      BY BatchIs DEF CallInv, SelectionInv, OpeningTypeInv
    <3>. QED
      BY <1>1, <1>3, <2>1, <3>1, <3>2, OrLayerKeeps
  <2>2. CASE violations' = violations
    BY <1>3, <2>2
  <2>. QED
    BY <1>1, <2>1, <2>2
<1>5. stage' = "threshold" => Len(violations') = 1
  <2>1. PICK n \in Nat : n = Len(violations)
    BY <1>1
  <2>2. n >= 1
    BY <1>3, <2>1
  <2>3. stage' = "threshold" => violations' = violations /\ ~ (n > 1)
    BY <1>1, <2>1
  <2>. QED
    BY <2>1, <2>2, <2>3
<1>. QED
  BY <1>1, <1>2, <1>3, <1>4, <1>5 DEF DataInv, Selecting, Late

\* The verdicts are those of FIPS 204.
LEMMA ValidityData == ASSUME CallInv, CheckValidity PROVE DataInv'
<1>1. /\ DataInv /\ batch' = batch /\ mask' = mask /\ stage = "threshold" /\ lanes' = lanes
      /\ values' = values /\ hints' = hints /\ violations \in Seq(BitVectors)
      /\ stage' = "select" /\ valid' = [j \in Candidates |-> ValidBit(j)] /\ batch \in Batches
  BY DEF CallInv, CheckValidity, Goes, SelectionInv, OpeningTypeInv
<1>2. Fused' = Fused /\ InputsFit' = InputsFit /\ HintsAre' = HintsAre /\ Verdicts' = Verdicts
  BY <1>1, SameBatch
<1>3. /\ mask \in Masks /\ lanes = <<>> /\ InputsFit /\ values = Fused /\ hints = HintsAre
      /\ Len(violations) = 1
      /\ \A j \in Candidates : Violated(violations, j) <=> OutOfBound(batch[j])
  BY <1>1 DEF DataInv, Late
<1>4. valid' = Verdicts
  BY <1>1, <1>3, ValidIs, Zenon DEF Verdicts
<1>. QED
  BY <1>1, <1>2, <1>3, <1>4 DEF DataInv, Selecting, Late

\* From one stage of the selection to another that shows no lanes.
LEMMA SelectingData ==
  ASSUME CallInv, batch' = batch, mask' = mask, UNCHANGED circuit, lanes' = lanes,
         stage \in Selecting \ Late, stage' \in (Selecting \ Late) \cup {"ended"}
  PROVE  DataInv'
<1>1. DataInv /\ values' = values /\ hints' = hints /\ valid' = valid
  BY DEF CallInv, circuit
<1>2. Fused' = Fused /\ InputsFit' = InputsFit /\ HintsAre' = HintsAre /\ Verdicts' = Verdicts
  BY SameBatch
<1>3. /\ mask \in Masks /\ lanes = <<>> /\ InputsFit /\ values = Fused /\ hints = HintsAre
      /\ valid = Verdicts
  BY <1>1 DEF DataInv, Late, Selecting
<1>. QED
  BY <1>1, <1>2, <1>3 DEF DataInv, Selecting, Late

\* The call ends.
LEMMA EndedData == ASSUME CallInv, mask' = mask, stage' = "ended" PROVE DataInv'
<1>1. mask \in Masks
  BY DEF CallInv, DataInv
<1>. QED
  BY <1>1 DEF DataInv, Selecting, Late

\* Before the chunks nothing of a response is open.
LEMMA CtildeData == ASSUME CallInv, OpenCtilde PROVE DataInv'
<1>1. /\ DataInv /\ batch' = batch /\ mask' = mask /\ stage = "ctilde" /\ lanes' = lanes
      /\ values' = values /\ hints' = hints /\ valid' = valid /\ stage' = "chunks"
  BY DEF CallInv, OpenCtilde, Goes, circuit
<1>2. Fused' = Fused /\ InputsFit' = InputsFit /\ HintsAre' = HintsAre /\ Verdicts' = Verdicts
  BY <1>1, SameBatch
<1>3. /\ mask \in Masks /\ lanes = <<>> /\ InputsFit /\ values = Fused /\ hints = HintsAre
      /\ valid = Verdicts
  BY <1>1 DEF DataInv, Late, Selecting
<1>4. \A c : LanesOf(<<>>, c)
  BY Numbers DEF LanesOf
<1>. QED
  BY <1>1, <1>2, <1>3, <1>4 DEF DataInv, Selecting, Late

\* A chunk continues the response of the selected one.
LEMMA ChunkData == ASSUME CallInv, OpenChunk PROVE DataInv'
<1>1. /\ DataInv /\ batch' = batch /\ mask' = mask /\ stage = "chunks" /\ lanes' = lanes \o Chunk
      /\ values' = values /\ hints' = hints /\ valid' = valid /\ selected' = selected
      /\ stage' = (IF Len(lanes') = Lanes THEN "finish" ELSE "chunks")
      /\ batch \in Batches
  BY DEF CallInv, OpenChunk, Goes, circuit, selection, SelectionInv, OpeningTypeInv
<1>2. Fused' = Fused /\ InputsFit' = InputsFit /\ HintsAre' = HintsAre /\ Verdicts' = Verdicts
  BY <1>1, SameBatch
<1>3. /\ mask \in Masks /\ InputsFit /\ values = Fused /\ hints = HintsAre
      /\ valid = Verdicts /\ \A j : OnlyOne(j) => LanesOf(lanes, batch[j])
  BY <1>1 DEF DataInv, Late, Selecting
<1>4. \A j : OnlyOne(j)' <=> OnlyOne(j)
  BY <1>1, SameBatch DEF OnlyOne
<1>5. \A j : OnlyOne(j) => LanesOf(lanes', batch[j])
  BY <1>1, <1>3, LanesGrow
<1>. QED
  BY <1>1, <1>2, <1>3, <1>4, <1>5 DEF DataInv, Selecting, Late

\* Nothing changes if nothing happens.
LEMMA StutterData == ASSUME CallInv, UNCHANGED openingVars PROVE DataInv'
<1>1. /\ DataInv /\ batch' = batch /\ mask' = mask /\ stage' = stage /\ lanes' = lanes
      /\ values' = values /\ hints' = hints /\ valid' = valid /\ selected' = selected
      /\ recovered' = recovered /\ violations' = violations
  BY DEF CallInv, openingVars, circuit, selection
<1>2. /\ Fused' = Fused /\ InputsFit' = InputsFit /\ HintsAre' = HintsAre /\ Verdicts' = Verdicts
      /\ Lifted' = Lifted /\ Candidates' = Candidates
  BY <1>1, SameBatch
<1>3. \A j : OnlyOne(j)' <=> OnlyOne(j)
  BY <1>1, <1>2 DEF OnlyOne
<1>4. NotCanonical' = NotCanonical
  BY <1>1 DEF NotCanonical
<1>5. AllZero(NotCanonical)' <=> AllZero(NotCanonical)
  BY <1>4 DEF AllZero
<1>. QED
  BY <1>1, <1>2, <1>3, <1>5 DEF DataInv

\* DataInv is preserved by every step.
LEMMA NextData == CallInv /\ [OpeningNext]_openingVars => DataInv'
<1>. SUFFICES ASSUME CallInv, [OpeningNext]_openingVars PROVE DataInv'
  OBVIOUS
<1>0. batch' = batch /\ mask' = mask
  BY BatchStays
<1>1. CASE Prepare
  BY <1>1, PrepareData
<1>2. CASE OpenMasked
  BY <1>2, OpenMaskedData
<1>3. CASE AssertCanonical
  BY <1>3, CanonicalData
<1>4. CASE AssertEqual
  BY <1>4, EqualData
<1>5. CASE CheckBounds
  BY <1>5, BoundsData
<1>6. CASE OrReduce
  BY <1>6, OrData
<1>7. CASE CheckValidity
  BY <1>7, ValidityData
<1>8. CASE \E j \in Candidates : Select(j)
  BY <1>0, <1>8, SelectingData DEF Select, Goes, Selecting, Late
<1>9. CASE CheckOneHot
  BY <1>0, <1>9, SelectingData DEF CheckOneHot, Goes, Ends, Selecting, Late
<1>10. CASE OpenAnyValid
  BY <1>0, <1>10, SelectingData DEF OpenAnyValid, Goes, Ends, Selecting, Late
<1>11. CASE OpenPriority
  BY <1>0, <1>11, SelectingData DEF OpenPriority, Goes, Selecting, Late
<1>12. CASE OpenCtilde
  BY <1>12, CtildeData
<1>13. CASE OpenChunk
  BY <1>13, ChunkData
<1>14. CASE Finish
  BY <1>0, <1>14, EndedData DEF Finish, Ends
<1>15. CASE Fails
  BY <1>0, <1>15, EndedData DEF Fails, Ends
<1>16. CASE UNCHANGED openingVars
  BY <1>16, StutterData
<1>. QED
  BY <1>1, <1>2, <1>3, <1>4, <1>5, <1>6, <1>7, <1>8, <1>9, <1>10, <1>11, <1>12, <1>13, <1>14,
     <1>15, <1>16 DEF OpeningNext

\* The theorem about the artifact: for every key, batch and mask it is the response,
\* lane by lane that of FIPS 204, of the first candidate by priority that the norm bound and
\* the number of hints let through, and no value of another candidate is ever opened.
\* produce_selected_opening_artifact.
THEOREM OpensTheFirstCorrect == OpeningSpec => []OpensTheFirst
<1>1. OpeningInit => CallInv /\ FirstInv
  BY InitData
<1>2. CallInv /\ FirstInv /\ [OpeningNext]_openingVars => (CallInv /\ FirstInv)'
  BY NextSelect, NextOpen, NextData, NextFirst DEF CallInv
<1>3. CallInv /\ FirstInv => OpensTheFirst
  BY OnlyFineOpens DEF FirstInv, OpensTheFirst
<1>. QED
  BY <1>1, <1>2, <1>3, PTL DEF OpeningSpec

(***************************************************************************)
(* The layers that are left.                                               *)
(***************************************************************************)
LayerTable(f, n) == f = [m \in 0 .. n |-> IF m > 1 THEN 1 + f[(m + 1) \div 2] ELSE 0]

\* LayerIndex is the value of a recursive function.
LEMMA LayerIndexIs == \A n : LayerIndex(n) = (CHOOSE f : LayerTable(f, n))[n]
BY Zenon DEF LayerIndex, LayerTable

\* Half of a number above one, rounded up, is less.
LEMMA HalfIsLess ==
  ASSUME NEW m \in Nat, m > 1
  PROVE  (m + 1) \div 2 \in Nat /\ (m + 1) \div 2 < m
<1>1. m \div 2 \in Nat /\ (m % 2 = 0 \/ m % 2 = 1) /\ m = 2 * (m \div 2) + (m % 2)
      /\ (m + 1) \div 2 = (m \div 2) + (m % 2)
  BY HalfIs
<1>. QED
  BY <1>1

\* That function, value by value.
LayersOf(f, n) ==
  /\ DOMAIN f = 0 .. n
  /\ \A m \in 0 .. n : /\ m > 1 => f[m] = 1 + f[(m + 1) \div 2]
                       /\ ~ (m > 1) => f[m] = 0
                       /\ f[m] \in Nat

\* Its values determine it.
LEMMA TableIsLayers ==
  ASSUME NEW n \in Nat, NEW f, LayersOf(f, n), f = [m \in 0 .. n |-> f[m]]
  PROVE  LayerTable(f, n)
<1>1. ASSUME NEW m \in 0 .. n PROVE f[m] = IF m > 1 THEN 1 + f[(m + 1) \div 2] ELSE 0
  BY DEF LayersOf
<1>. QED
  BY <1>1, Zenon DEF LayerTable

\* It exists for every number.
LEMMA LayersExist == ASSUME NEW n \in Nat PROVE \E f : LayerTable(f, n) /\ LayersOf(f, n)
<1> DEFINE P == {k \in Nat : \E f : LayersOf(f, k) /\ f = [m \in 0 .. k |-> f[m]]}
<1>1. 0 \in P
  <2>1. PICK f : f = [m \in 0 .. 0 |-> 0]
    OBVIOUS
  <2>2. LayersOf(f, 0) /\ f = [m \in 0 .. 0 |-> f[m]]
    BY <2>1 DEF LayersOf
  <2>. QED
    BY <2>2
<1>2. ASSUME NEW k \in P PROVE k + 1 \in P
  <2>1. k \in Nat
    OBVIOUS
  <2>2. PICK f : LayersOf(f, k) /\ f = [m \in 0 .. k |-> f[m]]
    OBVIOUS
  <2>3. PICK next \in Nat : k + 1 > 1 => next = 1 + f[((k + 1) + 1) \div 2]
    <3>1. CASE k + 1 > 1
      <4>1. ((k + 1) + 1) \div 2 \in 0 .. k
        BY <2>1, <3>1, HalfIsLess
      <4>2. f[((k + 1) + 1) \div 2] \in Nat
        BY <2>2, <4>1 DEF LayersOf
      <4>3. 1 + f[((k + 1) + 1) \div 2] \in Nat
        BY <4>2
      <4>. QED
        BY <4>3
    <3>2. CASE ~ (k + 1 > 1)
      BY <3>2
    <3>. QED
      BY <3>1, <3>2
  <2>4. PICK g : g = [m \in 0 .. k + 1 |-> IF m <= k THEN f[m]
                                            ELSE IF m > 1 THEN next ELSE 0]
    OBVIOUS
  <2>5. ASSUME NEW m \in 0 .. k + 1
        PROVE  /\ m > 1 => g[m] = 1 + g[(m + 1) \div 2]
               /\ ~ (m > 1) => g[m] = 0
               /\ g[m] \in Nat
    <3>1. m \in Nat /\ (m > 1 => (m + 1) \div 2 \in 0 .. k /\ (m + 1) \div 2 < m)
      <4>1. m \in Nat
        BY <2>1
      <4>2. m > 1 => (m + 1) \div 2 \in Nat /\ (m + 1) \div 2 < m
        BY <4>1, HalfIsLess
      <4>. QED
        BY <2>1, <4>1, <4>2
    <3>2. CASE m <= k
      <4>1. m \in 0 .. k /\ g[m] = f[m]
        BY <2>1, <2>4, <3>1, <3>2
      <4>2. /\ m > 1 => f[m] = 1 + f[(m + 1) \div 2]
            /\ ~ (m > 1) => f[m] = 0
            /\ f[m] \in Nat
        BY <2>2, <4>1 DEF LayersOf
      <4>3. m > 1 => g[(m + 1) \div 2] = f[(m + 1) \div 2]
        <5>. SUFFICES ASSUME m > 1 PROVE g[(m + 1) \div 2] = f[(m + 1) \div 2]
          OBVIOUS
        <5>1. PICK h : h = (m + 1) \div 2
          OBVIOUS
        <5>2. h \in 0 .. k + 1 /\ h <= k
          BY <2>1, <3>1, <5>1
        <5>. QED
          BY <2>4, <5>1, <5>2
      <4>. QED
        BY <4>1, <4>2, <4>3
    <3>3. CASE m = k + 1
      <4>1. g[m] = IF m > 1 THEN next ELSE 0
        BY <2>1, <2>4, <3>3
      <4>2. m > 1 => g[(m + 1) \div 2] = f[(m + 1) \div 2]
        <5>. SUFFICES ASSUME m > 1 PROVE g[(m + 1) \div 2] = f[(m + 1) \div 2]
          OBVIOUS
        <5>1. PICK h : h = (m + 1) \div 2
          OBVIOUS
        <5>2. h \in 0 .. k + 1 /\ h <= k
          BY <2>1, <3>1, <5>1
        <5>. QED
          BY <2>4, <5>1, <5>2
      <4>3. m > 1 => next = 1 + f[(m + 1) \div 2]
        BY <2>3, <3>3
      <4>. QED
        BY <4>1, <4>2, <4>3
    <3>. QED
      BY <2>1, <3>2, <3>3
  <2>6. LayersOf(g, k + 1)
    <3>1. DOMAIN g = 0 .. k + 1
      BY <2>4
    <3>. QED
      BY <2>5, <3>1, Zenon DEF LayersOf
  <2>7. g = [m \in 0 .. k + 1 |-> g[m]]
    BY <2>4
  <2>8. k + 1 \in Nat
    BY <2>1
  <2>. QED
    BY <2>6, <2>7, <2>8
<1>3. P = Nat
  <2>1. P \in SUBSET Nat
    OBVIOUS
  <2> HIDE DEF P
  <2>. QED
    BY <1>1, <1>2, <2>1, SetInduction
<1>4. PICK f : LayersOf(f, n) /\ f = [m \in 0 .. n |-> f[m]]
  BY <1>3
<1>. QED
  BY <1>4, TableIsLayers

\* Two of them agree where both are defined.
LEMMA LayersAreOne ==
  ASSUME NEW n \in Nat, NEW f, LayerTable(f, n), NEW k \in Nat, NEW g, LayerTable(g, k)
  PROVE  \A m \in Nat : m <= n /\ m <= k => f[m] = g[m]
<1> DEFINE P == {x \in Nat : \A m \in 0 .. x : m <= n /\ m <= k => f[m] = g[m]}
<1>0. /\ \A m \in 0 .. n : f[m] = IF m > 1 THEN 1 + f[(m + 1) \div 2] ELSE 0
      /\ \A m \in 0 .. k : g[m] = IF m > 1 THEN 1 + g[(m + 1) \div 2] ELSE 0
  BY Zenon DEF LayerTable
<1>1. 0 \in P
  <2>1. f[0] = 0 /\ g[0] = 0
    BY <1>0
  <2>. QED
    BY <2>1
<1>2. ASSUME NEW x \in P PROVE x + 1 \in P
  <2>1. x \in Nat /\ x + 1 \in Nat
    OBVIOUS
  <2>2. ASSUME NEW m \in 0 .. x + 1, m <= n, m <= k PROVE f[m] = g[m]
    <3>1. CASE m <= x
      BY <2>1, <2>2, <3>1
    <3>2. CASE m = x + 1
      <4>1. CASE m > 1
        <5>1. PICK h : h = (m + 1) \div 2
          OBVIOUS
        <5>2. h \in Nat /\ h < m
          BY <2>1, <4>1, <5>1, HalfIsLess
        <5>3. f[h] = g[h]
          BY <2>1, <2>2, <3>2, <5>2
        <5>4. f[m] = 1 + f[h] /\ g[m] = 1 + g[h]
          BY <1>0, <2>2, <4>1, <5>1
        <5>. QED
          BY <5>3, <5>4
      <4>2. CASE ~ (m > 1)
        BY <1>0, <2>2, <4>2
      <4>. QED
        BY <4>1, <4>2
    <3>. QED
      BY <2>1, <3>1, <3>2
  <2>. QED
    BY <2>1, <2>2
<1>3. P = Nat
  <2>1. P \in SUBSET Nat
    OBVIOUS
  <2> HIDE DEF P
  <2>. QED
    BY <1>1, <1>2, <2>1, SetInduction
<1>4. ASSUME NEW m \in Nat, m <= n, m <= k PROVE f[m] = g[m]
  <2>1. m \in P
    BY <1>3
  <2>. QED
    BY <1>4, <2>1
<1>. QED
  BY <1>4

\* Each layer leaves one less.
LEMMA LayerLess ==
  ASSUME NEW n \in Nat
  PROVE  /\ LayerIndex(n) \in Nat
         /\ n > 1 => LayerIndex((n + 1) \div 2) < LayerIndex(n)
<1>1. PICK f : f = CHOOSE t : LayerTable(t, n)
  OBVIOUS
<1>2. LayerTable(f, n) /\ LayerIndex(n) = f[n]
  BY <1>1, LayersExist, LayerIndexIs, Zenon
<1>3. PICK g : LayerTable(g, n) /\ LayersOf(g, n)
  BY LayersExist
<1>4. \A m \in Nat : m <= n => f[m] = g[m]
  BY <1>2, <1>3, LayersAreOne
<1>5. f[n] \in Nat /\ (n > 1 => g[n] = 1 + g[(n + 1) \div 2])
  BY <1>3, <1>4 DEF LayersOf
<1>6. ASSUME n > 1 PROVE LayerIndex((n + 1) \div 2) < LayerIndex(n)
  <2>1. PICK h : h = (n + 1) \div 2
    OBVIOUS
  <2>2. h \in Nat /\ h < n
    BY <1>6, <2>1, HalfIsLess
  <2>3. PICK e : e = CHOOSE t : LayerTable(t, h)
    OBVIOUS
  <2>4. LayerTable(e, h) /\ LayerIndex(h) = e[h]
    BY <2>2, <2>3, LayersExist, LayerIndexIs, Zenon
  <2>5. e[h] = g[h]
    BY <1>3, <2>2, <2>4, LayersAreOne
  <2>6. g[h] \in Nat
    BY <1>3, <2>2 DEF LayersOf
  <2>7. f[n] = 1 + g[h]
    BY <1>4, <1>5, <1>6, <2>1
  <2>. QED
    BY <1>2, <2>1, <2>4, <2>5, <2>6, <2>7
<1>. QED
  BY <1>2, <1>5, <1>6

\* Where a stage, or the label of its phase, is in the order of the call.
Place(s) ==
  CASE s = "masked" -> 1
    [] s = "canonical" -> 2
    [] s = "equal" -> 3
    [] s = "bounds" -> 4
    [] s \in {"or", "or_layer"} -> 5
    [] s = "threshold" -> 6
    [] s \in {"select", "candidate"} -> 7
    [] s = "one_hot" -> 8
    [] s = "any_valid" -> 9
    [] s = "priority" -> 10
    [] s = "ctilde" -> 11
    [] s \in {"chunks", "chunk"} -> 12
    [] s = "finish" -> 13
    [] OTHER -> 0

\* The places, one by one.
LEMMA Places ==
  /\ Place("masked") = 1 /\ Place("canonical") = 2 /\ Place("equal") = 3 /\ Place("bounds") = 4
  /\ Place("or") = 5 /\ Place("or_layer") = 5 /\ Place("threshold") = 6
  /\ Place("select") = 7 /\ Place("candidate") = 7 /\ Place("one_hot") = 8
  /\ Place("any_valid") = 9 /\ Place("priority") = 10 /\ Place("ctilde") = 11
  /\ Place("chunks") = 12 /\ Place("chunk") = 12 /\ Place("finish") = 13 /\ Place("prepare") = 0
<1>1. Place("masked") = 1 /\ Place("canonical") = 2 /\ Place("equal") = 3 /\ Place("bounds") = 4
  BY DEF Place
<1>2. Place("or") = 5 /\ Place("or_layer") = 5 /\ Place("threshold") = 6
  BY DEF Place
<1>3. Place("select") = 7 /\ Place("candidate") = 7 /\ Place("one_hot") = 8
  BY DEF Place
<1>4. Place("any_valid") = 9 /\ Place("priority") = 10 /\ Place("ctilde") = 11
  BY DEF Place
<1>5. Place("chunks") = 12 /\ Place("chunk") = 12 /\ Place("finish") = 13 /\ Place("prepare") = 0
  BY DEF Place
<1>. QED
  BY <1>1, <1>2, <1>3, <1>4, <1>5

\* The labels of the phases that are over.
Behind(label) ==
  /\ Place(label[1]) \in Nat
  /\ \/ Place(label[1]) < Place(stage)
     \/ /\ Place(label[1]) = Place(stage)
        /\ \/ stage = "or" /\ label[2] \in Nat /\ label[2] > LayerIndex(Len(violations))
           \/ stage = "select" /\ label[2] \in Candidates \ todo
           \/ stage = "chunks" /\ label[2] \in Int /\ label[2] < Len(lanes) \div ChunkLanes

\* The stages with a phase.
Driving ==
  {"masked", "canonical", "equal", "bounds", "or", "threshold", "select", "one_hot", "any_valid",
   "priority", "ctilde", "chunks"}

\* All that was driven belongs to phases that are over.
AllBehind == \A i \in 1 .. Len(driven) : Behind(driven[i])

\* What was driven, between the steps of a call.
DrivenInv ==
  /\ stage \in Driving \cup {"prepare", "finish", "ended"}
  /\ \E S : driven \in Seq(S)
  /\ PhasesAreDistinct
  /\ stage # "ended" => AllBehind
  /\ stage = "select" => todo # {}
  /\ stage = "chunks" => Len(lanes) % ChunkLanes = 0

\* The cursor: the least of those that are left.
LEMMA LeastExists ==
  ASSUME batch \in Batches, todo \subseteq Candidates, todo # {}
  PROVE  \E j \in todo : \A k \in todo \ {j} : Before(j, k)
<1>1. PICK upto : upto = [j \in todo |-> {k \in todo : k = j \/ Before(k, j)}]
  OBVIOUS
<1>2. PICK family : family = {upto[j] : j \in todo}
  OBVIOUS
<1>3. family \subseteq SUBSET todo /\ family # {}
  BY <1>1, <1>2
<1>4. IsFiniteSet(todo)
  <2>1. IsFiniteSet(Candidates)
    <3>1. Candidates = 1 .. Len(batch) /\ Len(batch) \in Nat
      BY BatchIs
    <3>. QED
      BY <3>1, FS_Interval
  <2>. QED
    BY <2>1, FS_Subset
<1>5. PICK X \in family : \A Y \in family : Y \subseteq X => Y = X
  BY <1>3, <1>4, SmallestSubset
<1>6. PICK j \in todo : X = upto[j]
  BY <1>2
<1>7. ASSUME NEW k \in todo \ {j} PROVE Before(j, k)
  <2>1. SUFFICES ASSUME Before(k, j) PROVE FALSE
    BY <1>7, BeforeIsOrder
  <2>2. upto[k] \subseteq upto[j]
    <3>1. \A i \in todo : i = k \/ Before(i, k) => i = j \/ Before(i, j)
      BY <1>7, <2>1, BeforeIsOrder
    <3>. QED
      BY <1>1, <1>7, <3>1
  <2>3. j \in upto[j] /\ j \notin upto[k]
    <3>1. ~ Before(j, k) /\ j # k
      BY <1>7, <2>1, BeforeIsOrder
    <3>. QED
      BY <1>1, <1>7, <3>1
  <2>4. upto[k] = upto[j]
    BY <1>2, <1>5, <1>6, <1>7, <2>2
  <2>. QED
    BY <2>3, <2>4
<1>. QED
  BY <1>7

\* The cursor is the only least one.
LEMMA CursorIs ==
  ASSUME batch \in Batches, todo \subseteq Candidates, todo # {}
  PROVE  /\ Cursor \in todo
         /\ \A j \in todo : (\A k \in todo \ {j} : Before(j, k)) => j = Cursor
<1>1. Cursor \in todo /\ \A k \in todo \ {Cursor} : Before(Cursor, k)
  BY LeastExists, Zenon DEF Cursor
<1>2. PICK c \in todo : c = Cursor /\ \A k \in todo \ {c} : Before(c, k)
  BY <1>1
<1>3. ASSUME NEW j \in todo, \A k \in todo \ {j} : Before(j, k), j # c PROVE FALSE
  <2>1. Before(j, c) /\ Before(c, j)
    BY <1>2, <1>3
  <2>. QED
    BY <2>1, BeforeIsOrder
<1>. QED
  BY <1>1, <1>2, <1>3

\* What can be counted: candidates that are left, layers, lanes.
CountsOK ==
  /\ batch \in Batches /\ todo \subseteq Candidates
  /\ violations \in Seq(BitVectors) /\ \E S : lanes \in Seq(S)

\* A chunk more is an index more.
LEMMA ChunkIndex ==
  ASSUME NEW n \in Nat
  PROVE  /\ n \div ChunkLanes \in Int
         /\ (n + ChunkLanes) \div ChunkLanes = n \div ChunkLanes + 1
         /\ n % ChunkLanes = 0 => (n + ChunkLanes) % ChunkLanes = 0
<1>1. PICK b \in Int : b = ChunkLanes /\ b > 0
  BY ParameterAssumption
<1>2. PICK q \in Int, r \in Int : q = n \div b /\ r = n % b /\ n = b * q + r /\ 0 <= r /\ r < b
  BY <1>1, DivFacts
<1>3. n + b = b * (q + 1) + r
  BY <1>1, <1>2
<1>4. (b * (q + 1) + r) \div b = q + 1 /\ (b * (q + 1) + r) % b = r
  BY <1>1, <1>2, DivMod
<1>. QED
  BY <1>1, <1>2, <1>3, <1>4

\* A chunk ends where its range does.
LEMMA ChunkLength ==
  ASSUME NEW S, lanes \in Seq(S), Len(lanes) <= Lanes
  PROVE  Len(lanes \o Chunk) = ChunkEnd(Len(lanes))
<1>1. PICK n \in Nat : n = Len(lanes) /\ n <= Lanes
  OBVIOUS
<1>2. PICK e \in Nat : e = ChunkEnd(n) /\ n <= e
  BY <1>1, Numbers, ParameterAssumption DEF ChunkEnd
<1>3. PICK m \in Nat : m = e - n
  BY <1>2
<1>4. PICK X : X = S \cup {Affine(n + i) : i \in 1 .. m}
  OBVIOUS
<1>5. PICK u, v : u = lanes /\ v = Chunk
  OBVIOUS
<1>6. v = [i \in 1 .. m |-> Affine(n + i)]
  BY <1>1, <1>2, <1>3, <1>5 DEF Chunk
<1>7. v \in Seq(X) /\ Len(v) = m
  <2>1. v \in [1 .. m -> X]
    BY <1>4, <1>6
  <2>. QED
    BY <2>1, VectorIsSeq
<1>8. u \in Seq(X) /\ Len(u) = n
  BY <1>1, <1>4, <1>5
<1>9. Len(u \o v) = n + m
  BY <1>7, <1>8
<1>. QED
  BY <1>1, <1>2, <1>3, <1>5, <1>9

\* The label of the phase of a stage is not one of those that are over.
LEMMA LabelIsNew ==
  ASSUME CountsOK, DrivenInv, stage \in Driving
  PROVE  /\ Place(Label[1]) = Place(stage) /\ Place(stage) \in Nat
         /\ ~ Behind(Label)
         /\ stage = "or" => Label[2] = LayerIndex(Len(violations))
         /\ stage = "select" => Label[2] = Cursor
         /\ stage = "chunks" => Label[2] = Len(lanes) \div ChunkLanes
<1>1. CASE stage = "or"
  <2>1. Label[1] = "or_layer" /\ Label[2] = LayerIndex(Len(violations))
    BY <1>1 DEF Label
  <2>2. LayerIndex(Len(violations)) \in Nat
    BY LayerLess DEF CountsOK
  <2>. QED
    BY <1>1, <2>1, <2>2, Places DEF Behind
<1>2. CASE stage = "select"
  <2>1. Label[1] = "candidate" /\ Label[2] = Cursor
    BY <1>2 DEF Label
  <2>2. Cursor \in todo
    BY <1>2, CursorIs DEF CountsOK, DrivenInv
  <2>. QED
    BY <1>2, <2>1, <2>2, Places DEF Behind
<1>3. CASE stage = "chunks"
  <2>1. Label[1] = "chunk" /\ Label[2] = Len(lanes) \div ChunkLanes
    BY <1>3 DEF Label
  <2>2. Len(lanes) \div ChunkLanes \in Int
    BY ChunkIndex DEF CountsOK
  <2>. QED
    BY <1>3, <2>1, <2>2, Places DEF Behind
<1>4. CASE stage \notin {"or", "select", "chunks"}
  <2>1. Label[1] = stage
    BY <1>4 DEF Label
  <2>2. Place(stage) \in Nat
    BY Places DEF Driving
  <2>. QED
    BY <1>4, <2>1, <2>2 DEF Behind
<1>. QED
  BY <1>1, <1>2, <1>3, <1>4

\* What a phase adds to the labels.
LEMMA SendAdds ==
  ASSUME CountsOK, DrivenInv, stage \in Driving, driven' = Append(driven, Label)
  PROVE  /\ \E S : driven' \in Seq(S)
         /\ PhasesAreDistinct'
         /\ \A i \in 1 .. Len(driven') : Behind(driven'[i]) \/ driven'[i] = Label
<1>1. PICK S : driven \in Seq(S)
  BY DEF DrivenInv
<1>2. PICK n \in Nat : n = Len(driven)
  BY <1>1
<1>3. PICK label : label = Label
  OBVIOUS
<1>4. PICK X : X = S \cup {label}
  OBVIOUS
<1>5. PICK d : d = Append(driven, label)
  OBVIOUS
<1>6. /\ d \in Seq(X) /\ Len(d) = n + 1 /\ d[n + 1] = label
      /\ \A i \in 1 .. n : d[i] = driven[i]
  BY <1>1, <1>2, <1>4, <1>5
<1>7. stage # "ended"
  BY DEF Driving
<1>8. \A i \in 1 .. n : Behind(d[i]) /\ d[i] # label
  <2>. SUFFICES ASSUME NEW i \in 1 .. n PROVE Behind(d[i]) /\ d[i] # label
    OBVIOUS
  <2>1. Behind(driven[i])
    BY <1>2, <1>7 DEF DrivenInv, AllBehind
  <2>2. ~ Behind(label)
    BY <1>3, LabelIsNew
  <2>3. d[i] = driven[i]
    BY <1>6
  <2>. QED
    BY <2>1, <2>2, <2>3
<1>9. \A i, j \in 1 .. n : driven[i] = driven[j] => i = j
  <2>1. DOMAIN driven = 1 .. n
    BY <1>1, <1>2
  <2>. QED
    BY <2>1 DEF DrivenInv, PhasesAreDistinct
<1>10. \A i, j \in 1 .. n + 1 : d[i] = d[j] => i = j
  <2>. SUFFICES ASSUME NEW i \in 1 .. n + 1, NEW j \in 1 .. n + 1, d[i] = d[j] PROVE i = j
    OBVIOUS
  <2>1. CASE i = n + 1
    <3>1. j \in 1 .. n \/ j = n + 1
      OBVIOUS
    <3>. QED
      BY <1>6, <1>8, <2>1, <3>1
  <2>2. CASE j = n + 1
    <3>1. i \in 1 .. n \/ i = n + 1
      OBVIOUS
    <3>. QED
      BY <1>6, <1>8, <2>2, <3>1
  <2>3. CASE i # n + 1 /\ j # n + 1
    <3>1. i \in 1 .. n /\ j \in 1 .. n
      BY <2>3
    <3>. QED
      BY <1>6, <1>9, <3>1
  <2>. QED
    BY <2>1, <2>2, <2>3
<1>11. driven' = d
  BY <1>3, <1>5
<1>12. DOMAIN d = 1 .. n + 1
  BY <1>6
<1>13. PhasesAreDistinct'
  BY <1>10, <1>11, <1>12 DEF PhasesAreDistinct
<1>14. \A i \in 1 .. n + 1 : Behind(d[i]) \/ d[i] = label
  <2>. SUFFICES ASSUME NEW i \in 1 .. n + 1 PROVE Behind(d[i]) \/ d[i] = label
    OBVIOUS
  <2>1. i \in 1 .. n \/ i = n + 1
    OBVIOUS
  <2>. QED
    BY <1>6, <1>8, <2>1
<1>. QED
  BY <1>3, <1>6, <1>11, <1>13, <1>14

\* A phase whose stage gives way to a later one.
LEMMA LaterStage ==
  ASSUME CountsOK, DrivenInv, stage \in Driving, Place(stage') \in Nat,
         Place(stage) < Place(stage'),
         driven' = Append(driven, Label) \/ driven' = driven
  PROVE  /\ \E S : driven' \in Seq(S)
         /\ PhasesAreDistinct'
         /\ AllBehind'
<1>1. Place(stage) \in Nat /\ Place(Label[1]) = Place(stage)
  BY LabelIsNew
<1>2. ASSUME NEW l, Behind(l) \/ l = Label PROVE Place(l[1]) \in Nat /\ Place(l[1]) < Place(stage')
  BY <1>1, <1>2 DEF Behind
<1>3. CASE driven' = Append(driven, Label)
  <2>1. \A i \in 1 .. Len(driven') : Behind(driven'[i]) \/ driven'[i] = Label
    BY <1>3, SendAdds
  <2>2. AllBehind'
    BY <1>2, <2>1 DEF AllBehind, Behind
  <2>. QED
    BY <1>3, <2>2, SendAdds
<1>4. CASE driven' = driven
  <2>1. stage # "ended"
    BY DEF Driving
  <2>2. \A i \in 1 .. Len(driven') : Behind(driven[i])
    BY <1>4, <2>1 DEF DrivenInv, AllBehind
  <2>3. AllBehind'
    BY <1>2, <1>4, <2>2 DEF AllBehind, Behind
  <2>4. \E S : driven' \in Seq(S)
    BY <1>4 DEF DrivenInv
  <2>5. PhasesAreDistinct'
    BY <1>4 DEF DrivenInv, PhasesAreDistinct
  <2>. QED
    BY <2>3, <2>4, <2>5
<1>. QED
  BY <1>3, <1>4

\* The call ends, and its last phase may have been driven.
LEMMA EndedDriven ==
  ASSUME CountsOK, DrivenInv, stage' = "ended",
         \/ driven' = driven
         \/ stage \in Driving /\ driven' = Append(driven, Label)
  PROVE  DrivenInv'
<1>1. CASE driven' = driven
  BY <1>1 DEF DrivenInv, PhasesAreDistinct
<1>2. CASE stage \in Driving /\ driven' = Append(driven, Label)
  BY <1>2, SendAdds DEF DrivenInv
<1>. QED
  BY <1>1, <1>2

\* The stages that repeat their phase.
LEMMA OrAgain ==
  ASSUME CountsOK, DrivenInv, stage = "or", stage' = "or", Len(violations) > 1,
         violations' = OrLayer(violations), driven' = Append(driven, Label)
  PROVE  DrivenInv'
<1>1. PICK n \in Nat : n = Len(violations) /\ n > 1
  BY DEF CountsOK
<1>2. Len(violations') = (n + 1) \div 2
  BY <1>1, OrLayerIs DEF CountsOK
<1>3. PICK a \in Nat, b \in Nat : a = LayerIndex(n) /\ b = LayerIndex((n + 1) \div 2) /\ b < a
  <2>1. (n + 1) \div 2 \in Nat
    BY <1>1, HalfIsLess
  <2>. QED
    BY <1>1, <2>1, LayerLess
<1>4. stage \in Driving
  BY DEF Driving
<1>5. /\ \E S : driven' \in Seq(S)
      /\ PhasesAreDistinct'
      /\ \A i \in 1 .. Len(driven') : Behind(driven'[i]) \/ driven'[i] = Label
  BY <1>4, SendAdds
<1>6. Place(Label[1]) = 5 /\ Label[2] = a
  BY <1>1, <1>3, <1>4, LabelIsNew, Places
<1>7. ASSUME NEW l, Behind(l) \/ l = Label
      PROVE  /\ Place(l[1]) \in Nat
             /\ Place(l[1]) < 5 \/ (Place(l[1]) = 5 /\ l[2] \in Nat /\ l[2] > b)
  <2>1. CASE Behind(l)
    BY <1>1, <1>3, <2>1, Places DEF Behind
  <2>2. CASE l = Label
    BY <1>3, <1>6, <2>2
  <2>. QED
    BY <1>7, <2>1, <2>2
<1>8. AllBehind'
  <2>1. Place(stage') = 5 /\ LayerIndex(Len(violations')) = b
    BY <1>2, <1>3, Places
  <2>. QED
    BY <1>5, <1>7, <2>1 DEF AllBehind, Behind
<1>. QED
  BY <1>5, <1>8 DEF DrivenInv

\* The label of the next candidate is another one.
LEMMA SelectAgain ==
  ASSUME CountsOK, DrivenInv, stage = "select", stage' = "select", NEW j \in todo,
         \A k \in todo \ {j} : Before(j, k), todo' = todo \ {j}, todo # {j}, batch' = batch,
         driven' = Append(driven, Label)
  PROVE  DrivenInv'
<1>1. stage \in Driving
  BY DEF Driving
<1>2. /\ \E S : driven' \in Seq(S)
      /\ PhasesAreDistinct'
      /\ \A i \in 1 .. Len(driven') : Behind(driven'[i]) \/ driven'[i] = Label
  BY <1>1, SendAdds
<1>3. Place(Label[1]) = 7 /\ Label[2] = j
  <2>1. Label[2] = Cursor /\ Place(Label[1]) = 7
    BY <1>1, LabelIsNew, Places
  <2>2. j = Cursor
    BY CursorIs DEF CountsOK
  <2>. QED
    BY <2>1, <2>2
<1>4. Candidates' = Candidates /\ j \in Candidates
  BY DEF Candidates, CountsOK
<1>5. ASSUME NEW l, Behind(l) \/ l = Label
      PROVE  /\ Place(l[1]) \in Nat
             /\ Place(l[1]) < 7 \/ (Place(l[1]) = 7 /\ l[2] \in Candidates \ (todo \ {j}))
  <2>1. CASE Behind(l)
    BY <2>1, Places DEF Behind
  <2>2. CASE l = Label
    BY <1>3, <1>4, <2>2
  <2>. QED
    BY <1>5, <2>1, <2>2
<1>6. AllBehind'
  <2>1. Place(stage') = 7
    BY Places
  <2>. QED
    BY <1>2, <1>4, <1>5, <2>1 DEF AllBehind, Behind
<1>7. todo' # {}
  OBVIOUS
<1>. QED
  BY <1>2, <1>6, <1>7 DEF DrivenInv

\* The label of the next chunk is another one.
LEMMA ChunkAgain ==
  ASSUME CountsOK, DrivenInv, stage = "chunks", stage' = "chunks", Len(lanes) <= Lanes,
         lanes' = lanes \o Chunk, Len(lanes') # Lanes, driven' = Append(driven, Label)
  PROVE  DrivenInv'
<1>1. PICK n \in Nat : n = Len(lanes) /\ n <= Lanes
  BY DEF CountsOK
<1>2. PICK b \in Int : b = ChunkLanes /\ b > 0
  BY ParameterAssumption
<1>3. Len(lanes') = n + b
  <2>1. Len(lanes') = ChunkEnd(n)
    BY <1>1, ChunkLength DEF CountsOK
  <2>. QED
    BY <1>1, <1>2, <2>1, Numbers DEF ChunkEnd
<1>4. stage \in Driving
  BY DEF Driving
<1>5. /\ \E S : driven' \in Seq(S)
      /\ PhasesAreDistinct'
      /\ \A i \in 1 .. Len(driven') : Behind(driven'[i]) \/ driven'[i] = Label
  BY <1>4, SendAdds
<1>6. PICK a \in Int : a = n \div ChunkLanes
  BY ChunkIndex
<1>7. Place(Label[1]) = 12 /\ Label[2] = a
  BY <1>1, <1>4, <1>6, LabelIsNew, Places
<1>8. Len(lanes') \div ChunkLanes = a + 1 /\ Len(lanes') % ChunkLanes = 0
  BY <1>1, <1>2, <1>3, <1>6, ChunkIndex DEF DrivenInv
<1>9. ASSUME NEW l, Behind(l) \/ l = Label
      PROVE  /\ Place(l[1]) \in Nat
             /\ Place(l[1]) < 12 \/ (Place(l[1]) = 12 /\ l[2] \in Int /\ l[2] < a + 1)
  <2>1. CASE Behind(l)
    BY <1>1, <1>6, <2>1, Places DEF Behind
  <2>2. CASE l = Label
    BY <1>6, <1>7, <2>2
  <2>. QED
    BY <1>9, <2>1, <2>2
<1>10. AllBehind'
  <2>1. Place(stage') = 12
    BY Places
  <2>. QED
    BY <1>5, <1>8, <1>9, <2>1 DEF AllBehind, Behind
<1>. QED
  BY <1>5, <1>8, <1>10 DEF DrivenInv

\* The type invariant gives what is counted.
LEMMA TypesCount ==
  OpeningTypeInv => CountsOK /\ Len(lanes) <= Lanes
BY DEF OpeningTypeInv, CountsOK

\* At first nothing was driven.
LEMMA InitDriven == OpeningInit => DrivenInv
<1>. SUFFICES ASSUME OpeningInit PROVE DrivenInv
  OBVIOUS
<1>1. driven = <<>> /\ stage = "prepare"
  BY DEF OpeningInit
<1>2. driven \in Seq({}) /\ Len(driven) = 0 /\ DOMAIN driven = {}
  BY <1>1
<1>. QED
  BY <1>1, <1>2 DEF DrivenInv, AllBehind, PhasesAreDistinct, Driving

\* Preparation drives nothing.
LEMMA PrepareDriven == ASSUME DrivenInv, Prepare PROVE DrivenInv'
<1>1. stage = "prepare" /\ driven' = driven /\ stage' \in {"masked", "ended"} /\ AllBehind
  BY DEF Prepare, Goes, Ends, DrivenInv
<1>2. \A i \in 1 .. Len(driven) : FALSE
  <2>. SUFFICES ASSUME NEW i \in 1 .. Len(driven) PROVE FALSE
    OBVIOUS
  <2>1. Behind(driven[i])
    BY <1>1 DEF AllBehind
  <2>. QED
    BY <1>1, <2>1, Places DEF Behind
<1>3. AllBehind'
  BY <1>1, <1>2 DEF AllBehind
<1>. QED
  BY <1>1, <1>3 DEF DrivenInv, PhasesAreDistinct, Driving

\* To a later stage, which does not repeat its phase before it.
LEMMA ForwardDriven ==
  ASSUME CountsOK, DrivenInv, stage \in Driving, stage' \in Driving \cup {"finish"},
         Place(stage) < Place(stage'),
         driven' = Append(driven, Label) \/ driven' = driven,
         stage' = "select" => todo' # {},
         stage' = "chunks" => lanes' = <<>>
  PROVE  DrivenInv'
<1>1. Place(stage') \in Nat
  BY Places DEF Driving
<1>2. (\E S : driven' \in Seq(S)) /\ PhasesAreDistinct' /\ AllBehind'
  BY <1>1, LaterStage
<1>3. 0 % ChunkLanes = 0
  BY ParameterAssumption, ModSmall
<1>4. stage' = "chunks" => Len(lanes') % ChunkLanes = 0
  BY <1>3
<1>. QED
  BY <1>2, <1>4 DEF DrivenInv

\* DrivenInv is preserved by every step.
LEMMA NextDriven == CallInv /\ DrivenInv /\ [OpeningNext]_openingVars => DrivenInv'
<1>. SUFFICES ASSUME CallInv, DrivenInv, [OpeningNext]_openingVars PROVE DrivenInv'
  OBVIOUS
<1>0. /\ OpeningTypeInv /\ DataInv /\ CountsOK /\ Len(lanes) <= Lanes /\ batch \in Batches
      /\ batch' = batch
  BY TypesCount, BatchStays DEF CallInv, SelectionInv, OpeningTypeInv
<1>1. CASE Prepare
  BY <1>1, PrepareDriven
<1>2. CASE OpenMasked
  BY <1>0, <1>2, ForwardDriven, Places DEF OpenMasked, Send, Goes, Driving
<1>3. CASE AssertCanonical
  BY <1>0, <1>3, ForwardDriven, EndedDriven, Places DEF AssertCanonical, Send, Goes, Ends, Driving
<1>4. CASE AssertEqual
  BY <1>0, <1>4, ForwardDriven, EndedDriven, Places DEF AssertEqual, Send, Goes, Ends, Driving
<1>5. CASE CheckBounds
  BY <1>0, <1>5, ForwardDriven, Places DEF CheckBounds, Send, Goes, Driving
<1>6. CASE OrReduce
  <2>1. CASE Len(violations) > 1
    BY <1>0, <1>6, <2>1, OrAgain DEF OrReduce, Send, Goes
  <2>2. CASE ~ (Len(violations) > 1)
    BY <1>0, <1>6, <2>2, ForwardDriven, Places DEF OrReduce, Goes, Driving
  <2>. QED
    BY <2>1, <2>2
<1>7. CASE CheckValidity
  <2>1. Candidates # {}
    BY <1>0, BatchIs
  <2>. QED
    BY <1>0, <1>7, <2>1, ForwardDriven, Places DEF CheckValidity, Send, Goes, Driving
<1>8. CASE \E j \in Candidates : Select(j)
  <2>1. PICK j \in Candidates : Select(j)
    BY <1>8
  <2>2. CASE todo = {j}
    BY <1>0, <2>1, <2>2, ForwardDriven, Places DEF Select, Send, Goes, Driving
  <2>3. CASE todo # {j}
    BY <1>0, <2>1, <2>3, SelectAgain DEF Select, Send, Goes
  <2>. QED
    BY <2>2, <2>3
<1>9. CASE CheckOneHot
  BY <1>0, <1>9, ForwardDriven, EndedDriven, Places DEF CheckOneHot, Send, Goes, Ends, Driving
<1>10. CASE OpenAnyValid
  BY <1>0, <1>10, ForwardDriven, EndedDriven, Places DEF OpenAnyValid, Send, Goes, Ends, Driving
<1>11. CASE OpenPriority
  BY <1>0, <1>11, ForwardDriven, Places DEF OpenPriority, Send, Goes, Driving
<1>12. CASE OpenCtilde
  <2>1. lanes' = <<>>
    BY <1>0, <1>12 DEF OpenCtilde, DataInv, Late
  <2>. QED
    BY <1>0, <1>12, <2>1, ForwardDriven, Places DEF OpenCtilde, Send, Goes, Driving
<1>13. CASE OpenChunk
  <2>1. CASE Len(lanes') = Lanes
    BY <1>0, <1>13, <2>1, ForwardDriven, Places DEF OpenChunk, Send, Goes, Driving
  <2>2. CASE Len(lanes') # Lanes
    BY <1>0, <1>13, <2>2, ChunkAgain DEF OpenChunk, Send, Goes
  <2>. QED
    BY <2>1, <2>2
<1>14. CASE Finish
  BY <1>0, <1>14, EndedDriven DEF Finish, Ends
<1>15. CASE Fails
  <2>1. stage \in Driving
    BY <1>15 DEF Fails, DrivenInv
  <2>. QED
    BY <1>0, <1>15, <2>1, EndedDriven DEF Fails, Send, Ends
<1>16. CASE UNCHANGED openingVars
  <2>1. /\ stage' = stage /\ driven' = driven /\ lanes' = lanes /\ todo' = todo
        /\ violations' = violations /\ Candidates' = Candidates
    BY <1>16 DEF openingVars, circuit, selection, Candidates
  <2>2. AllBehind => AllBehind'
    BY <2>1 DEF AllBehind, Behind
  <2>. QED
    BY <2>1, <2>2 DEF DrivenInv, PhasesAreDistinct
<1>. QED
  BY <1>1, <1>2, <1>3, <1>4, <1>5, <1>6, <1>7, <1>8, <1>9, <1>10, <1>11, <1>12, <1>13, <1>14,
     <1>15, <1>16 DEF OpeningNext

\* The theorem about the labels: no two phases of a call have the same transcript label,
\* however many candidates, layers of the reduction and chunks it has, so that no message of
\* one can be taken for one of another. strict_run_private_or_reduce_packed,
\* bit_width_for_private_reduce_layer.
THEOREM PhasesAreDistinctCorrect == OpeningSpec => []PhasesAreDistinct
<1>1. OpeningInit => CallInv /\ DrivenInv
  BY InitData, InitDriven
<1>2. CallInv /\ DrivenInv /\ [OpeningNext]_openingVars => (CallInv /\ DrivenInv)'
  BY NextSelect, NextOpen, NextData, NextDriven DEF CallInv
<1>3. DrivenInv => PhasesAreDistinct
  BY DEF DrivenInv
<1>. QED
  BY <1>1, <1>2, <1>3, PTL DEF OpeningSpec

=============================================================================
