----------------------------- MODULE StrictWire -----------------------------
(***************************************************************************)
(* The wire side of a strict signing session (talus-mpc/src/online.rs):    *)
(* the messages it accepts, the messages it queues, the progress of its    *)
(* runtime slots, and the cursor line that carries all of them over a      *)
(* restart.  The session is in phase Ready and its cursor is Started       *)
(* throughout: StrictSigning models how a call of finish leaves both.      *)
(*                                                                         *)
(* A message is a record of the fields the session looks at, and body      *)
(* tells apart two messages that agree on the others.  Its hash stands for *)
(* the message itself; the transcript hashes, which chain the accepted     *)
(* messages, are left out.                                                 *)
(***************************************************************************)
EXTENDS Naturals, Sequences, FiniteSets

CONSTANTS
  Signers,    \* the signing set of the request
  SlotOrder,  \* STRICT_SIGNING_RUNTIME_SLOTS, in its order
  Inbound,    \* messages the transport may bring, any number of times
  Outbound,   \* messages the runtime or the caller may queue
  Outcomes,   \* what an append to the cursor log may do
  NoCursor, NoSlot

Slots == {SlotOrder[i] : i \in 1 .. Len(SlotOrder)}

\* "shortened": the line is cut right behind its first accepted hash, and is
\* then read as one of the older, shorter cursor lines.  See Shortened.
AllOutcomes == {"ok", "failed", "unsynced", "unterminated", "shortened", "torn"}

ASSUME WireAssumption ==
  /\ SlotOrder \in Seq(Slots)
  /\ \A i, j \in 1 .. Len(SlotOrder) : SlotOrder[i] = SlotOrder[j] => i = j
  /\ \A m \in Inbound \cup Outbound :
       m.slot \in Slots /\ m.phase \in Nat /\ m.sender \in Signers
  /\ "ok" \in Outcomes /\ Outcomes \subseteq AllOutcomes
  /\ NoSlot \notin Slots

VARIABLES
  fileCursor,   \* what the last line of the cursor log reads as
  fileState,    \* how that line ends
  storeCursor,  \* the copy FileStrictSigningSessionStore keeps in memory
  session,      \* the session, and the step of the call it is in
  handed        \* history: how often each message was given to the runtime

vars == <<fileCursor, fileState, storeCursor, session, handed>>

(***************************************************************************)
(* What a Started cursor line records.                                     *)
(***************************************************************************)
NoProgress == [known |-> FALSE, phase |-> 0, senders |-> {}, sent |-> 0, completed |-> FALSE]

Progress == [known : BOOLEAN, phase : Nat, senders : SUBSET Signers, sent : Nat,
             completed : BOOLEAN]

Wire == [accepted : SUBSET Inbound, outbound : SUBSET Outbound,
         completed : Seq(Slots), progress : [Slots -> Progress]]

ASSUME NoCursorAssumption == NoCursor \notin Wire

EmptyWire == [accepted |-> {}, outbound |-> {}, completed |-> <<>>,
              progress |-> [s \in Slots |-> NoProgress]]

\* [accepted, ..., final_part] with everything behind the first accepted hash
\* missing: that hash is taken for the final signature hash, and no message,
\* slot or progress is left.
Shortened == EmptyWire

SessionState ==
  [pc : {"down", "closed", "idle", "runtime", "apply"},
   wire : Wire, queue : Seq(Outbound), message : Inbound \cup {NoSlot},
   outs : Seq(Outbound), done : Slots \cup {NoSlot}]

DownSession == [pc |-> "down", wire |-> EmptyWire, queue |-> <<>>, message |-> NoSlot,
                outs |-> <<>>, done |-> NoSlot]

TypeOK ==
  /\ fileCursor \in Wire \cup {NoCursor}
  /\ fileState \in {"clean", "unterminated", "torn"}
  /\ storeCursor \in Wire \cup {NoCursor}
  /\ session \in SessionState
  /\ handed \in [Inbound -> Nat]

(***************************************************************************)
(* FileStrictSigningSessionStore::persist_cursor: the file, then, if       *)
(* everything went well, the memory.                                       *)
(***************************************************************************)
FileAfter(wire, o) ==
  CASE o = "shortened" -> Shortened
    [] o \in {"ok", "unsynced", "unterminated"} -> wire
    [] OTHER -> fileCursor

PersistCursor(wire, o) ==
  /\ o = "shortened" => wire.accepted # {}
  /\ fileCursor' = FileAfter(wire, o)
  /\ fileState' = IF o = "failed" THEN fileState
                  ELSE IF fileState # "clean" \/ o = "torn" THEN "torn"
                  ELSE IF o \in {"unterminated", "shortened"} THEN "unterminated"
                  ELSE "clean"
  /\ storeCursor' = IF o = "ok" THEN wire ELSE storeCursor

(***************************************************************************)
(* The bookkeeping of messages and slots.                                  *)
(***************************************************************************)

\* accept_strict_mpc_wire_record and record_runtime_slot_accept: no replay, no
\* message for a completed slot, one phase per slot, one message per sender.
MayAccept(wire, m) ==
  LET p == wire.progress[m.slot] IN
  /\ m \notin wire.accepted
  /\ p.known => ~p.completed /\ p.phase = m.phase /\ m.sender \notin p.senders

Accept(wire, m) ==
  LET p == wire.progress[m.slot]
      q == [p EXCEPT !.known = TRUE, !.phase = m.phase, !.senders = @ \cup {m.sender}]
  IN [wire EXCEPT !.accepted = @ \cup {m}, !.progress = [wire.progress EXCEPT ![m.slot] = q]]

\* record_runtime_slot_outbound: a completed slot still takes outbound messages.
\* (Mutant: the count goes the wrong way.)
MayQueue(wire, m) ==
  LET p == wire.progress[m.slot] IN
  /\ m \notin wire.outbound
  /\ p.known => p.phase = m.phase

QueueCountingDown(wire, m) ==
  LET p == wire.progress[m.slot]
      q == [p EXCEPT !.known = TRUE, !.phase = m.phase, !.sent = @ - 1]
  IN [wire EXCEPT !.outbound = @ \cup {m}, !.progress = [wire.progress EXCEPT ![m.slot] = q]]

Queue(wire, m) ==
  LET p == wire.progress[m.slot]
      q == [p EXCEPT !.known = TRUE, !.phase = m.phase, !.sent = @ + 1]
  IN [wire EXCEPT !.outbound = @ \cup {m}, !.progress = [wire.progress EXCEPT ![m.slot] = q]]

\* complete_runtime_slot: the next slot of the order, with a message of every
\* signer.  (Mutant: whoever has sent.)
MayCompleteEarly(wire, s) ==
  /\ Len(wire.completed) < Len(SlotOrder)
  /\ SlotOrder[Len(wire.completed) + 1] = s
  /\ wire.progress[s].known
  /\ ~wire.progress[s].completed

MayComplete(wire, s) ==
  /\ Len(wire.completed) < Len(SlotOrder)
  /\ SlotOrder[Len(wire.completed) + 1] = s
  /\ wire.progress[s].known
  /\ ~wire.progress[s].completed
  /\ wire.progress[s].senders = Signers

Complete(wire, s) ==
  LET q == [wire.progress[s] EXCEPT !.completed = TRUE] IN
  [wire EXCEPT !.completed = Append(@, s), !.progress = [wire.progress EXCEPT ![s] = q]]

(***************************************************************************)
(* Opening, starting, dropping.                                            *)
(***************************************************************************)
Init ==
  /\ fileCursor = NoCursor
  /\ fileState = "clean"
  /\ storeCursor = NoCursor
  /\ session = DownSession
  /\ handed = [m \in Inbound |-> 0]

Open ==
  /\ session.pc = "down"
  /\ fileState # "torn"
  /\ storeCursor' = fileCursor
  /\ session' = [session EXCEPT !.pc = "closed"]
  /\ UNCHANGED <<fileCursor, fileState, handed>>

\* Without a cursor a first line is written; on an error the store is dropped.
StartNew(o) ==
  /\ session.pc = "closed"
  /\ storeCursor = NoCursor
  /\ PersistCursor(EmptyWire, o)
  /\ session' = IF o = "ok" THEN [DownSession EXCEPT !.pc = "idle"] ELSE DownSession
  /\ UNCHANGED handed

\* hydrate_started_cursor: all of the cursor, and an empty outbound queue.
Hydrated(cursor) == [DownSession EXCEPT !.pc = "idle", !.wire = cursor]

StartHydrated ==
  /\ session.pc = "closed"
  /\ storeCursor # NoCursor
  /\ session' = Hydrated(storeCursor)
  /\ UNCHANGED <<fileCursor, fileState, storeCursor, handed>>

\* into_parts keeps the store and drops the session with its queue.
Close ==
  /\ session.pc = "idle"
  /\ session' = [DownSession EXCEPT !.pc = "closed"]
  /\ UNCHANGED <<fileCursor, fileState, storeCursor, handed>>

Crash ==
  /\ session.pc # "down"
  /\ session' = DownSession
  /\ UNCHANGED <<fileCursor, fileState, storeCursor, handed>>

(***************************************************************************)
(* handle_private and handle_broadcast: accept and persist, then call the  *)
(* runtime, then apply what it returns.  An error leaves the call and      *)
(* undoes nothing.                                                         *)
(***************************************************************************)
Returned(wire) == [session EXCEPT !.pc = "idle", !.wire = wire, !.message = NoSlot,
                                  !.outs = <<>>, !.done = NoSlot]

\* (Mutant: the runtime gets the message before it is persisted.)
HandleMessageUnpersisted(m, o) ==
  LET wire == Accept(session.wire, m) IN
  /\ session.pc = "idle"
  /\ MayAccept(session.wire, m)
  /\ PersistCursor(wire, o)
  /\ session' = [session EXCEPT !.pc = "runtime", !.wire = wire, !.message = m]
  /\ UNCHANGED handed

HandleMessage(m, o) ==
  LET wire == Accept(session.wire, m) IN
  /\ session.pc = "idle"
  /\ MayAccept(session.wire, m)
  /\ PersistCursor(wire, o)
  /\ session' = IF o = "ok"
                THEN [session EXCEPT !.pc = "runtime", !.wire = wire, !.message = m]
                ELSE Returned(wire)
  /\ UNCHANGED handed

\* The runtime is the embedding application's: it may fail, return any message
\* to send, and claim any slot complete.
RuntimeCall(outs, done, fails) ==
  /\ session.pc = "runtime"
  /\ handed' = [handed EXCEPT ![session.message] = @ + 1]
  /\ session' = IF fails THEN Returned(session.wire)
                ELSE [session EXCEPT !.pc = "apply", !.message = NoSlot,
                                     !.outs = outs, !.done = done]
  /\ UNCHANGED <<fileCursor, fileState, storeCursor>>

\* queue_private_mpc_message and queue_broadcast_mpc_message: the record, the
\* queue, and then the cursor.
Enqueue(m, o) ==
  /\ MayQueue(session.wire, m)
  /\ PersistCursor(Queue(session.wire, m), o)

ApplyOutbound(o) ==
  LET m == Head(session.outs)
      wire == Queue(session.wire, m)
  IN
  /\ session.pc = "apply"
  /\ session.outs # <<>>
  /\ Enqueue(m, o)
  /\ session' = IF o = "ok"
                THEN [session EXCEPT !.wire = wire, !.queue = Append(@, m), !.outs = Tail(@)]
                ELSE [Returned(wire) EXCEPT !.queue = Append(@, m)]
  /\ UNCHANGED handed

\* A message that may not be queued ends the call: what the runtime returned
\* behind it, the completed slot included, is dropped.
RefuseOutbound ==
  /\ session.pc = "apply"
  /\ session.outs # <<>>
  /\ ~MayQueue(session.wire, Head(session.outs))
  /\ session' = Returned(session.wire)
  /\ UNCHANGED <<fileCursor, fileState, storeCursor, handed>>

CompleteSlot(o) ==
  LET s == session.done
      wire == Complete(session.wire, s)
  IN
  /\ session.pc = "apply"
  /\ session.outs = <<>>
  /\ s # NoSlot
  /\ MayComplete(session.wire, s)
  /\ PersistCursor(wire, o)
  /\ session' = Returned(wire)
  /\ UNCHANGED handed

\* Nothing to complete, or a slot that may not be completed.
EndCall ==
  /\ session.pc = "apply"
  /\ session.outs = <<>>
  /\ session.done = NoSlot \/ ~MayComplete(session.wire, session.done)
  /\ session' = Returned(session.wire)
  /\ UNCHANGED <<fileCursor, fileState, storeCursor, handed>>

\* The caller queues a message of its own ...
QueueMessage(m, o) ==
  /\ session.pc = "idle"
  /\ Enqueue(m, o)
  /\ session' = [session EXCEPT !.wire = Queue(@, m), !.queue = Append(@, m)]
  /\ UNCHANGED handed

\* ... and takes the next one to deliver.
NextOutbound ==
  /\ session.pc = "idle"
  /\ session.queue # <<>>
  /\ session' = [session EXCEPT !.queue = Tail(@)]
  /\ UNCHANGED <<fileCursor, fileState, storeCursor, handed>>

(***************************************************************************)
(* The specification.                                                      *)
(***************************************************************************)
Next ==
  \/ Open
  \/ StartHydrated
  \/ Close
  \/ Crash
  \/ RefuseOutbound
  \/ EndCall
  \/ NextOutbound
  \/ \E o \in Outcomes :
       \/ StartNew(o)
       \/ ApplyOutbound(o)
       \/ CompleteSlot(o)
       \/ \E m \in Inbound : HandleMessage(m, o)
       \/ \E m \in Outbound : QueueMessage(m, o)
  \/ \E outs \in {<<>>} \cup {<<m>> : m \in Outbound}, done \in Slots \cup {NoSlot},
        fails \in BOOLEAN : RuntimeCall(outs, done, fails)

Spec == Init /\ [][Next]_vars

(***************************************************************************)
(* Properties.                                                             *)
(***************************************************************************)

\* "Replays after cursor-store restart are rejected": no message is given to
\* the runtime twice, however the cursor is written and reopened.
HandedOnce == \A m \in Inbound : handed[m] <= 1

\* The runtime never hears two different messages of one signer for one slot,
\* nor two phases of a slot, over all restarts: record_runtime_slot_accept.
OneVoicePerSlot ==
  \A m, n \in Inbound :
    handed[m] > 0 /\ handed[n] > 0 /\ m.slot = n.slot =>
      m.phase = n.phase /\ (m.sender = n.sender => m = n)

\* What the runtime hears of a signer for a slot is one message, once.
HeardOnce == HandedOnce /\ OneVoicePerSlot

\* Every copy of a cursor: the log's, the store's and the session's.
Cursors == ({fileCursor, storeCursor} \ {NoCursor}) \cup {session.wire}

\* "A slot may complete only after every signer has contributed", and in the
\* canonical order: in every copy of the cursor the completed slots are the
\* first ones, each with an accepted message of every signer.
CompletedIsWhole ==
  \A c \in Cursors :
    /\ Len(c.completed) <= Len(SlotOrder)
    /\ c.completed = SubSeq(SlotOrder, 1, Len(c.completed))
    /\ \A i \in 1 .. Len(c.completed) : \A p \in Signers :
         \E m \in c.accepted : m.slot = c.completed[i] /\ m.sender = p

\* The progress a cursor carries is that of the messages whose hashes it
\* carries, so that a session hydrated from hashes alone judges the next
\* message as the one before the restart would have.
ProgressIsExact ==
  \A c \in Cursors : \A s \in Slots :
    LET p == c.progress[s]
        ins == {m \in c.accepted : m.slot = s}
        sent == {m \in c.outbound : m.slot = s}
    IN
    /\ p.senders = {m.sender : m \in ins}
    /\ p.sent = Cardinality(sent)
    /\ p.known <=> ins \cup sent # {}
    /\ \A m \in ins \cup sent : m.phase = p.phase
    /\ p.completed <=> \E i \in 1 .. Len(c.completed) : c.completed[i] = s

\* Both together: no copy of a cursor, whatever failed to reach the log or was
\* cut off by a restart, lets a slot complete that not every signer has spoken in,
\* or forgets who has.
SlotsAreWhole == CompletedIsWhole /\ ProgressIsExact
=============================================================================
