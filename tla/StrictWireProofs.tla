--------------------------- MODULE StrictWireProofs ---------------------------
(***************************************************************************)
(* The wire side of a session, for any signers, slots and messages: types, *)
(* SlotsAreWhole for every outcome of an append, and HeardOnce as long as  *)
(* no line of the cursor log is cut right behind its first accepted hash   *)
(* (WholeLines; such a line is read back as a cursor that knows nothing).  *)
(*                                                                         *)
(* A cursor is sound by itself: its progress is that of its messages.      *)
(* Every copy of a cursor is sound, and every copy that may still become   *)
(* the session's holds all that the runtime has been given.                *)
(***************************************************************************)
EXTENDS StrictWire, FiniteSetTheorems, TLAPS

WholeLines == "shortened" \notin Outcomes

(***************************************************************************)
(* The inductive invariant.                                                *)
(***************************************************************************)
In(c, s) == {m \in c.accepted : m.slot = s}
Out(c, s) == {m \in c.outbound : m.slot = s}

IsWhole(c) ==
  /\ Len(c.completed) <= Len(SlotOrder)
  /\ c.completed = SubSeq(SlotOrder, 1, Len(c.completed))
  /\ \A i \in 1 .. Len(c.completed) : \A p \in Signers :
       \E m \in c.accepted : m.slot = c.completed[i] /\ m.sender = p

IsExact(c, s) ==
  LET p == c.progress[s] IN
  /\ p.senders = {m.sender : m \in In(c, s)}
  /\ p.sent = Cardinality(Out(c, s))
  /\ p.known <=> In(c, s) \cup Out(c, s) # {}
  /\ \A m \in In(c, s) \cup Out(c, s) : m.phase = p.phase
  /\ p.completed <=> \E i \in 1 .. Len(c.completed) : c.completed[i] = s

OneVoice(c) ==
  \A m, n \in c.accepted : m.slot = n.slot /\ m.sender = n.sender => m = n

Sound(c) ==
  /\ c \in Wire
  /\ IsFiniteSet(c.outbound)
  /\ IsWhole(c)
  /\ \A s \in Slots : IsExact(c, s)
  /\ OneVoice(c)

CursorsAreSound ==
  /\ fileCursor # NoCursor => Sound(fileCursor)
  /\ storeCursor # NoCursor => Sound(storeCursor)
  /\ Sound(session.wire)

Holds(cursor, m) == cursor # NoCursor /\ m \in cursor.accepted

\* What the runtime was given is in the file, in the memory of an open store, and in
\* a running session; the message it is given next is new, and is there too.
Remembered ==
  /\ \A m \in Inbound : handed[m] > 0 =>
       /\ Holds(fileCursor, m)
       /\ session.pc # "down" => Holds(storeCursor, m)
       /\ session.pc \notin {"down", "closed"} => m \in session.wire.accepted
  /\ session.pc = "runtime" =>
       /\ session.message \in Inbound
       /\ handed[session.message] = 0
       /\ Holds(fileCursor, session.message) /\ Holds(storeCursor, session.message)
       /\ session.message \in session.wire.accepted

SoundInv == TypeOK /\ CursorsAreSound
IInv == SoundInv /\ Remembered /\ HandedOnce

(***************************************************************************)
(* The operations on a cursor.                                             *)
(***************************************************************************)
LEMMA Messages ==
  \A m \in Inbound \cup Outbound : m.slot \in Slots /\ m.phase \in Nat /\ m.sender \in Signers
  BY WireAssumption

LEMMA Order ==
  /\ SlotOrder \in Seq(Slots) /\ Len(SlotOrder) \in Nat
  /\ \A i \in 1 .. Len(SlotOrder) : SlotOrder[i] \in Slots
<1>1. SlotOrder \in Seq(Slots)
  BY WireAssumption
<1>. QED
  BY <1>1

LEMMA WireFields ==
  ASSUME NEW c \in Wire
  PROVE  /\ c.accepted \subseteq Inbound /\ c.outbound \subseteq Outbound
         /\ c.completed \in Seq(Slots) /\ Len(c.completed) \in Nat
         /\ c.progress \in [Slots -> Progress]
         /\ \A s \in Slots : /\ c.progress[s] \in Progress
                             /\ c.progress[s].senders \subseteq Signers
                             /\ c.progress[s].sent \in Nat
<1>1. /\ c.accepted \subseteq Inbound /\ c.outbound \subseteq Outbound
      /\ c.completed \in Seq(Slots) /\ c.progress \in [Slots -> Progress]
  BY DEF Wire
<1>. QED
  BY <1>1 DEF Progress

LEMMA EmptyIsSound == Sound(EmptyWire)
<1>1. NoProgress \in Progress
  BY DEF NoProgress, Progress
<1>2. EmptyWire \in Wire
  <2>1. <<>> \in Seq(Slots)
    OBVIOUS
  <2>. QED
    BY <1>1, <2>1 DEF EmptyWire, Wire
<1>3. IsFiniteSet(EmptyWire.outbound)
  BY FS_EmptySet DEF EmptyWire
<1>4. IsWhole(EmptyWire)
  <2>1. EmptyWire.completed = <<>> /\ Len(EmptyWire.completed) = 0
    BY DEF EmptyWire
  <2>2. SubSeq(SlotOrder, 1, 0) = <<>>
    BY Order
  <2>. QED
    BY <2>1, <2>2, Order DEF IsWhole
<1>5. ASSUME NEW s \in Slots PROVE IsExact(EmptyWire, s)
  <2>1. In(EmptyWire, s) = {} /\ Out(EmptyWire, s) = {}
    BY DEF In, Out, EmptyWire
  <2>2. Cardinality(Out(EmptyWire, s)) = 0
    BY <2>1, FS_EmptySet
  <2>3. EmptyWire.progress[s] = NoProgress /\ Len(EmptyWire.completed) = 0
    BY DEF EmptyWire
  <2>. QED
    BY <2>1, <2>2, <2>3 DEF IsExact, NoProgress
<1>6. OneVoice(EmptyWire)
  BY DEF OneVoice, EmptyWire
<1>. QED
  BY <1>2, <1>3, <1>4, <1>5, <1>6 DEF Sound

\* What an update of a cursor leaves, and what it sets.
LEMMA ProgressUpdate ==
  ASSUME NEW f \in [Slots -> Progress], NEW s \in Slots, NEW q \in Progress
  PROVE  /\ [f EXCEPT ![s] = q] \in [Slots -> Progress]
         /\ [f EXCEPT ![s] = q][s] = q
         /\ \A t \in Slots \ {s} : [f EXCEPT ![s] = q][t] = f[t]
  OBVIOUS

LEMMA WireUpdate ==
  ASSUME NEW c \in Wire, NEW f \in [Slots -> Progress]
  PROVE  /\ \A a \in SUBSET Inbound : [c EXCEPT !.accepted = a, !.progress = f] \in Wire
         /\ \A b \in SUBSET Outbound : [c EXCEPT !.outbound = b, !.progress = f] \in Wire
         /\ \A e \in Seq(Slots) : [c EXCEPT !.completed = e, !.progress = f] \in Wire
  BY DEF Wire

AcceptFacts(c, m, d) ==
  /\ d \in Wire
  /\ d.accepted = c.accepted \cup {m} /\ d.outbound = c.outbound
  /\ d.completed = c.completed
  /\ \A s \in Slots \ {m.slot} : d.progress[s] = c.progress[s]
  /\ d.progress[m.slot].known = TRUE /\ d.progress[m.slot].phase = m.phase
  /\ d.progress[m.slot].senders = c.progress[m.slot].senders \cup {m.sender}
  /\ d.progress[m.slot].sent = c.progress[m.slot].sent
  /\ d.progress[m.slot].completed = c.progress[m.slot].completed

LEMMA AcceptFields ==
  ASSUME NEW c \in Wire, NEW m \in Inbound
  PROVE  AcceptFacts(c, m, Accept(c, m))
<1>. DEFINE d == Accept(c, m)
<1>1. m.slot \in Slots /\ m.phase \in Nat /\ m.sender \in Signers
  BY Messages
<1>2. c.progress \in [Slots -> Progress] /\ c.progress[m.slot] \in Progress
  BY <1>1, WireFields
<1>3. PICK q : q = [c.progress[m.slot] EXCEPT !.known = TRUE, !.phase = m.phase,
                                              !.senders = @ \cup {m.sender}]
  OBVIOUS
<1>4. /\ q \in Progress /\ q.known = TRUE /\ q.phase = m.phase
      /\ q.senders = c.progress[m.slot].senders \cup {m.sender}
      /\ q.sent = c.progress[m.slot].sent /\ q.completed = c.progress[m.slot].completed
  BY <1>1, <1>2, <1>3 DEF Progress
<1>5. d = [c EXCEPT !.accepted = @ \cup {m}, !.progress = [c.progress EXCEPT ![m.slot] = q]]
  BY <1>3 DEF Accept
<1>6. /\ d.accepted = c.accepted \cup {m} /\ d.outbound = c.outbound
      /\ d.completed = c.completed /\ d.progress = [c.progress EXCEPT ![m.slot] = q]
  BY <1>5 DEF Wire
<1>7. d \in Wire
  <2>1. [c.progress EXCEPT ![m.slot] = q] \in [Slots -> Progress]
    BY <1>1, <1>2, <1>4, ProgressUpdate
  <2>2. c.accepted \cup {m} \in SUBSET Inbound
    BY WireFields
  <2>3. [c EXCEPT !.accepted = c.accepted \cup {m},
                  !.progress = [c.progress EXCEPT ![m.slot] = q]] \in Wire
    BY <2>1, <2>2, WireUpdate
  <2>. QED
    BY <1>5, <2>3
<1>8. d.progress[m.slot] = q /\ \A s \in Slots \ {m.slot} : d.progress[s] = c.progress[s]
  BY <1>1, <1>2, <1>4, <1>6, ProgressUpdate
<1>. HIDE DEF d
<1>9. AcceptFacts(c, m, d)
  BY <1>4, <1>6, <1>7, <1>8 DEF AcceptFacts
<1>. QED
  BY <1>9 DEF d

QueueFacts(c, m, d) ==
  /\ d \in Wire
  /\ d.outbound = c.outbound \cup {m} /\ d.accepted = c.accepted
  /\ d.completed = c.completed
  /\ \A s \in Slots \ {m.slot} : d.progress[s] = c.progress[s]
  /\ d.progress[m.slot].known = TRUE /\ d.progress[m.slot].phase = m.phase
  /\ d.progress[m.slot].senders = c.progress[m.slot].senders
  /\ d.progress[m.slot].sent = c.progress[m.slot].sent + 1
  /\ d.progress[m.slot].completed = c.progress[m.slot].completed

LEMMA QueueFields ==
  ASSUME NEW c \in Wire, NEW m \in Outbound
  PROVE  QueueFacts(c, m, Queue(c, m))
<1>. DEFINE d == Queue(c, m)
<1>1. m.slot \in Slots /\ m.phase \in Nat /\ m.sender \in Signers
  BY Messages
<1>2. c.progress \in [Slots -> Progress] /\ c.progress[m.slot] \in Progress
  BY <1>1, WireFields
<1>3. PICK q : q = [c.progress[m.slot] EXCEPT !.known = TRUE, !.phase = m.phase, !.sent = @ + 1]
  OBVIOUS
<1>4. /\ q \in Progress /\ q.known = TRUE /\ q.phase = m.phase
      /\ q.senders = c.progress[m.slot].senders
      /\ q.sent = c.progress[m.slot].sent + 1
      /\ q.completed = c.progress[m.slot].completed
  <2>1. c.progress[m.slot].sent + 1 \in Nat
    BY <1>1, WireFields
  <2>. QED
    BY <1>1, <1>2, <1>3, <2>1 DEF Progress
<1>5. d = [c EXCEPT !.outbound = @ \cup {m}, !.progress = [c.progress EXCEPT ![m.slot] = q]]
  BY <1>3 DEF Queue
<1>6. /\ d.outbound = c.outbound \cup {m} /\ d.accepted = c.accepted
      /\ d.completed = c.completed /\ d.progress = [c.progress EXCEPT ![m.slot] = q]
  BY <1>5 DEF Wire
<1>7. d \in Wire
  <2>1. [c.progress EXCEPT ![m.slot] = q] \in [Slots -> Progress]
    BY <1>1, <1>2, <1>4, ProgressUpdate
  <2>2. c.outbound \cup {m} \in SUBSET Outbound
    BY WireFields
  <2>3. [c EXCEPT !.outbound = c.outbound \cup {m},
                  !.progress = [c.progress EXCEPT ![m.slot] = q]] \in Wire
    BY <2>1, <2>2, WireUpdate
  <2>. QED
    BY <1>5, <2>3
<1>8. d.progress[m.slot] = q /\ \A s \in Slots \ {m.slot} : d.progress[s] = c.progress[s]
  BY <1>1, <1>2, <1>4, <1>6, ProgressUpdate
<1>. HIDE DEF d
<1>9. QueueFacts(c, m, d)
  BY <1>4, <1>6, <1>7, <1>8 DEF QueueFacts
<1>. QED
  BY <1>9 DEF d

CompleteFacts(c, s, d) ==
  /\ d \in Wire
  /\ d.outbound = c.outbound /\ d.accepted = c.accepted
  /\ d.completed = Append(c.completed, s)
  /\ \A t \in Slots \ {s} : d.progress[t] = c.progress[t]
  /\ d.progress[s].known = c.progress[s].known
  /\ d.progress[s].phase = c.progress[s].phase
  /\ d.progress[s].senders = c.progress[s].senders
  /\ d.progress[s].sent = c.progress[s].sent
  /\ d.progress[s].completed = TRUE

LEMMA CompleteFields ==
  ASSUME NEW c \in Wire, NEW s \in Slots
  PROVE  CompleteFacts(c, s, Complete(c, s))
<1>. DEFINE d == Complete(c, s)
<1>1. /\ c.progress \in [Slots -> Progress] /\ c.progress[s] \in Progress
      /\ Append(c.completed, s) \in Seq(Slots)
  BY WireFields
<1>2. PICK q : q = [c.progress[s] EXCEPT !.completed = TRUE]
  OBVIOUS
<1>3. /\ q \in Progress /\ q.known = c.progress[s].known /\ q.phase = c.progress[s].phase
      /\ q.senders = c.progress[s].senders /\ q.sent = c.progress[s].sent /\ q.completed = TRUE
  BY <1>1, <1>2 DEF Progress
<1>4. d = [c EXCEPT !.completed = Append(@, s), !.progress = [c.progress EXCEPT ![s] = q]]
  BY <1>2 DEF Complete
<1>5. /\ d.outbound = c.outbound /\ d.accepted = c.accepted
      /\ d.completed = Append(c.completed, s) /\ d.progress = [c.progress EXCEPT ![s] = q]
  BY <1>4 DEF Wire
<1>6. d \in Wire
  <2>1. [c.progress EXCEPT ![s] = q] \in [Slots -> Progress]
    BY <1>1, <1>3, ProgressUpdate
  <2>2. [c EXCEPT !.completed = Append(c.completed, s),
                  !.progress = [c.progress EXCEPT ![s] = q]] \in Wire
    BY <1>1, <2>1, WireUpdate
  <2>. QED
    BY <1>4, <2>2
<1>7. d.progress[s] = q /\ \A t \in Slots \ {s} : d.progress[t] = c.progress[t]
  BY <1>1, <1>3, <1>5, ProgressUpdate
<1>. HIDE DEF d
<1>9. CompleteFacts(c, s, d)
  BY <1>3, <1>5, <1>6, <1>7 DEF CompleteFacts
<1>. QED
  BY <1>9 DEF d

\* A message that may be accepted leaves the cursor sound: its sender is new in its
\* slot, and a slot that has messages has their phase.
LEMMA AcceptSound ==
  ASSUME NEW c, Sound(c), NEW m \in Inbound, MayAccept(c, m), NEW d, d = Accept(c, m)
  PROVE  Sound(d)
<1>1. c \in Wire /\ m.slot \in Slots /\ m.sender \in Signers
  BY Messages DEF Sound
<1>2. AcceptFacts(c, m, d)
  BY <1>1, AcceptFields
<1>3. /\ IsExact(c, m.slot)
      /\ c.progress[m.slot].known => /\ c.progress[m.slot].phase = m.phase
                                     /\ m.sender \notin c.progress[m.slot].senders
  BY <1>1 DEF Sound, MayAccept
<1>4. IsWhole(d)
  BY <1>2 DEF Sound, IsWhole, AcceptFacts
<1>5. ASSUME NEW s \in Slots PROVE IsExact(d, s)
  <2>1. CASE s # m.slot
    <3>1. In(d, s) = In(c, s) /\ Out(d, s) = Out(c, s)
      BY <1>2, <2>1 DEF In, Out, AcceptFacts
    <3>2. d.progress[s] = c.progress[s] /\ d.completed = c.completed
      BY <1>2, <2>1 DEF AcceptFacts
    <3>. QED
      BY <3>1, <3>2 DEF Sound, IsExact
  <2>2. CASE s = m.slot
    <3>1. In(d, s) = In(c, s) \cup {m} /\ Out(d, s) = Out(c, s)
      BY <1>2, <2>2 DEF In, Out, AcceptFacts
    <3>2. d.progress[s].senders = {n.sender : n \in In(d, s)}
      <4>1. c.progress[s].senders = {n.sender : n \in In(c, s)}
        BY <1>3, <2>2 DEF IsExact
      <4>. QED
        BY <1>2, <2>2, <3>1, <4>1 DEF AcceptFacts
    <3>3. d.progress[s].sent = Cardinality(Out(d, s))
      BY <1>2, <1>3, <2>2, <3>1 DEF IsExact, AcceptFacts
    <3>4. d.progress[s].known <=> In(d, s) \cup Out(d, s) # {}
      BY <1>2, <2>2, <3>1 DEF AcceptFacts
    <3>5. \A n \in In(d, s) \cup Out(d, s) : n.phase = d.progress[s].phase
      BY <1>2, <1>3, <2>2, <3>1 DEF IsExact, AcceptFacts
    <3>6. d.progress[s].completed <=> \E i \in 1 .. Len(d.completed) : d.completed[i] = s
      BY <1>2, <1>3, <2>2 DEF IsExact, AcceptFacts
    <3>. QED
      BY <3>2, <3>3, <3>4, <3>5, <3>6 DEF IsExact
  <2>. QED
    BY <2>1, <2>2
<1>6. OneVoice(d)
  <2>1. ASSUME NEW n \in c.accepted, n.slot = m.slot, n.sender = m.sender PROVE FALSE
    <3>1. n \in In(c, m.slot)
      BY <2>1 DEF In
    <3>2. c.progress[m.slot].known /\ m.sender \in c.progress[m.slot].senders
      BY <1>3, <2>1, <3>1 DEF IsExact
    <3>. QED
      BY <1>3, <3>2
  <2>2. OneVoice(c)
    BY DEF Sound
  <2>. QED
    BY <1>2, <2>1, <2>2 DEF OneVoice, AcceptFacts
<1>. QED
  BY <1>2, <1>4, <1>5, <1>6 DEF Sound, AcceptFacts

\* So does a message that may be queued, which the count of its slot then counts.
LEMMA QueueSound ==
  ASSUME NEW c, Sound(c), NEW m \in Outbound, MayQueue(c, m), NEW d, d = Queue(c, m)
  PROVE  Sound(d)
<1>1. c \in Wire /\ m.slot \in Slots
  BY Messages DEF Sound
<1>2. QueueFacts(c, m, d)
  BY <1>1, QueueFields
<1>3. /\ IsExact(c, m.slot) /\ IsFiniteSet(c.outbound)
      /\ m \notin c.outbound
      /\ c.progress[m.slot].known => c.progress[m.slot].phase = m.phase
  BY <1>1 DEF Sound, MayQueue
<1>4. IsWhole(d) /\ OneVoice(d)
  BY <1>2 DEF Sound, IsWhole, OneVoice, QueueFacts
<1>5. IsFiniteSet(d.outbound)
  BY <1>2, <1>3, FS_AddElement DEF QueueFacts
<1>6. ASSUME NEW s \in Slots PROVE IsExact(d, s)
  <2>1. CASE s # m.slot
    <3>1. In(d, s) = In(c, s) /\ Out(d, s) = Out(c, s)
      BY <1>2, <2>1 DEF In, Out, QueueFacts
    <3>2. d.progress[s] = c.progress[s] /\ d.completed = c.completed
      BY <1>2, <2>1 DEF QueueFacts
    <3>. QED
      BY <3>1, <3>2 DEF Sound, IsExact
  <2>2. CASE s = m.slot
    <3>1. In(d, s) = In(c, s) /\ Out(d, s) = Out(c, s) \cup {m} /\ m \notin Out(c, s)
      BY <1>2, <1>3, <2>2 DEF In, Out, QueueFacts
    <3>2. d.progress[s].senders = {n.sender : n \in In(d, s)}
      BY <1>2, <1>3, <2>2, <3>1 DEF IsExact, QueueFacts
    <3>3. d.progress[s].sent = Cardinality(Out(d, s))
      <4>1. IsFiniteSet(Out(c, s))
        BY <1>3, FS_Subset DEF Out
      <4>2. Cardinality(Out(d, s)) = Cardinality(Out(c, s)) + 1
        BY <3>1, <4>1, FS_AddElement
      <4>. QED
        BY <1>2, <1>3, <2>2, <4>2 DEF IsExact, QueueFacts
    <3>4. d.progress[s].known <=> In(d, s) \cup Out(d, s) # {}
      BY <1>2, <2>2, <3>1 DEF QueueFacts
    <3>5. \A n \in In(d, s) \cup Out(d, s) : n.phase = d.progress[s].phase
      BY <1>2, <1>3, <2>2, <3>1 DEF IsExact, QueueFacts
    <3>6. d.progress[s].completed <=> \E i \in 1 .. Len(d.completed) : d.completed[i] = s
      BY <1>2, <1>3, <2>2 DEF IsExact, QueueFacts
    <3>. QED
      BY <3>2, <3>3, <3>4, <3>5, <3>6 DEF IsExact
  <2>. QED
    BY <2>1, <2>2
<1>. QED
  BY <1>2, <1>4, <1>5, <1>6 DEF Sound, QueueFacts

\* A slot that may be completed is the next one of the order, and every signer has
\* an accepted message in it.
LEMMA CompleteSound ==
  ASSUME NEW c, Sound(c), NEW s \in Slots, MayComplete(c, s), NEW d, d = Complete(c, s)
  PROVE  Sound(d)
<1>1. c \in Wire
  BY DEF Sound
<1>2. CompleteFacts(c, s, d)
  BY <1>1, CompleteFields
<1> DEFINE n == Len(c.completed)
<1>3. /\ n \in Nat /\ n < Len(SlotOrder) /\ SlotOrder[n + 1] = s
      /\ c.progress[s].senders = Signers
      /\ c.completed \in Seq(Slots) /\ c.completed = SubSeq(SlotOrder, 1, n)
  BY <1>1, WireFields DEF Sound, IsWhole, MayComplete
<1>4. /\ Len(d.completed) = n + 1 /\ d.completed[n + 1] = s
      /\ \A i \in 1 .. n : d.completed[i] = c.completed[i]
  BY <1>2, <1>3 DEF CompleteFacts
<1>. HIDE DEF n
<1>5. IsWhole(d)
  <2>1. n + 1 <= Len(SlotOrder) /\ n + 1 \in 1 .. Len(SlotOrder)
    BY <1>3, Order
  <2>2. d.completed = SubSeq(SlotOrder, 1, n + 1)
    <3>1. Append(SubSeq(SlotOrder, 1, n), SlotOrder[n + 1]) = SubSeq(SlotOrder, 1, n + 1)
      BY <1>3, <2>1, Order
    <3>. QED
      BY <1>2, <1>3, <3>1 DEF CompleteFacts
  <2>3. ASSUME NEW i \in 1 .. n + 1, NEW p \in Signers
        PROVE  \E m \in d.accepted : m.slot = d.completed[i] /\ m.sender = p
    <3>1. CASE i \in 1 .. n
      BY <1>2, <1>4, <3>1 DEF Sound, IsWhole, n, CompleteFacts
    <3>2. CASE i = n + 1
      <4>1. p \in {m.sender : m \in In(c, s)}
        BY <1>3 DEF Sound, IsExact
      <4>. QED
        BY <1>2, <1>4, <3>2, <4>1 DEF In, CompleteFacts
    <3>. QED
      BY <1>3, <3>1, <3>2
  <2>. QED
    BY <1>4, <2>1, <2>2, <2>3 DEF IsWhole
<1>6. ASSUME NEW t \in Slots PROVE IsExact(d, t)
  <2>1. In(d, t) = In(c, t) /\ Out(d, t) = Out(c, t)
    BY <1>2 DEF In, Out, CompleteFacts
  <2>2. IsExact(c, t)
    BY DEF Sound
  <2>3. CASE t # s
    <3>1. d.progress[t] = c.progress[t]
      BY <1>2, <2>3 DEF CompleteFacts
    <3>2. (\E i \in 1 .. Len(d.completed) : d.completed[i] = t)
            <=> \E i \in 1 .. Len(c.completed) : c.completed[i] = t
      <4>1. \A i \in 1 .. n + 1 : i \in 1 .. n \/ i = n + 1
        BY <1>3
      <4>2. \A i \in 1 .. n : i \in 1 .. n + 1
        BY <1>3
      <4>. QED
        BY <1>4, <2>3, <4>1, <4>2 DEF n
    <3>. QED
      BY <2>1, <2>2, <3>1, <3>2 DEF IsExact
  <2>4. CASE t = s
    <3>1. \E i \in 1 .. Len(d.completed) : d.completed[i] = t
      BY <1>3, <1>4, <2>4
    <3>. QED
      BY <1>2, <2>1, <2>2, <2>4, <3>1 DEF IsExact, CompleteFacts
  <2>. QED
    BY <2>3, <2>4
<1>. QED
  BY <1>2, <1>5, <1>6 DEF Sound, OneVoice, CompleteFacts

(***************************************************************************)
(* A step keeps every cursor sound.                                        *)
(***************************************************************************)
CursorOK(c) == c \in Wire \cup {NoCursor} /\ (c # NoCursor => Sound(c))

CursorsKept ==
  /\ CursorOK(fileCursor') /\ CursorOK(storeCursor')
  /\ fileState' \in {"clean", "unterminated", "torn"}

SessionKept == session' \in SessionState /\ Sound(session'.wire)

LEMMA SoundParts ==
  SoundInv <=> /\ CursorOK(fileCursor) /\ CursorOK(storeCursor)
               /\ fileState \in {"clean", "unterminated", "torn"}
               /\ session \in SessionState /\ Sound(session.wire)
               /\ handed \in [Inbound -> Nat]
  BY DEF SoundInv, TypeOK, CursorsAreSound, CursorOK

LEMMA KeptIsSound ==
  ASSUME CursorsKept, SessionKept, handed' \in [Inbound -> Nat]
  PROVE  SoundInv'
  BY DEF SoundInv, TypeOK, CursorsAreSound, CursorOK, CursorsKept, SessionKept

LEMMA SameCursors ==
  ASSUME SoundInv, UNCHANGED <<fileCursor, fileState, storeCursor>>
  PROVE  CursorsKept
  BY SoundParts DEF CursorsKept

LEMMA PersistKeeps ==
  ASSUME SoundInv, NEW wire, Sound(wire), NEW o \in Outcomes, PersistCursor(wire, o)
  PROVE  CursorsKept
<1>1. CursorOK(EmptyWire) /\ CursorOK(wire)
  BY EmptyIsSound DEF CursorOK, Sound
<1>2. CursorOK(fileCursor) /\ CursorOK(storeCursor)
      /\ fileState \in {"clean", "unterminated", "torn"}
  BY SoundParts
<1>3. CursorOK(fileCursor')
  BY <1>1, <1>2 DEF PersistCursor, FileAfter, Shortened
<1>4. CursorOK(storeCursor')
  BY <1>1, <1>2 DEF PersistCursor
<1>5. fileState' \in {"clean", "unterminated", "torn"}
  BY <1>2 DEF PersistCursor
<1>. QED
  BY <1>3, <1>4, <1>5 DEF CursorsKept

LEMMA SessionFields ==
  ASSUME session \in SessionState
  PROVE  /\ session.wire \in Wire /\ session.queue \in Seq(Outbound)
         /\ session.message \in Inbound \cup {NoSlot}
         /\ session.outs \in Seq(Outbound) /\ session.done \in Slots \cup {NoSlot}
  BY DEF SessionState

LEMMA DownIsKept == DownSession \in SessionState /\ Sound(DownSession.wire)
<1>1. EmptyWire \in Wire /\ <<>> \in Seq(Outbound)
  BY EmptyIsSound DEF Sound
<1>. QED
  BY <1>1, EmptyIsSound DEF DownSession, SessionState

LEMMA ReturnedFields ==
  ASSUME session \in SessionState, NEW wire \in Wire
  PROVE  /\ Returned(wire) \in SessionState
         /\ Returned(wire).pc = "idle" /\ Returned(wire).wire = wire
<1>1. <<>> \in Seq(Outbound)
  OBVIOUS
<1>. QED
  BY <1>1, SessionFields DEF Returned, SessionState

LEMMA SoundInit == Init => SoundInv
  BY DownIsKept, SoundParts DEF Init, CursorOK

LEMMA StartNewSound ==
  ASSUME SoundInv, NEW o \in Outcomes, StartNew(o)
  PROVE  SoundInv'
<1>1. CursorsKept
  BY EmptyIsSound, PersistKeeps DEF StartNew
<1>2. SessionKept
  <2>1. [DownSession EXCEPT !.pc = "idle"] \in SessionState
        /\ [DownSession EXCEPT !.pc = "idle"].wire = DownSession.wire
    BY DownIsKept DEF SessionState
  <2>. QED
    BY <2>1, DownIsKept DEF StartNew, SessionKept
<1>. QED
  BY <1>1, <1>2, KeptIsSound, SoundParts DEF StartNew

LEMMA StartHydratedSound ==
  ASSUME SoundInv, StartHydrated
  PROVE  SoundInv'
<1>1. storeCursor \in Wire /\ Sound(storeCursor)
  BY SoundParts DEF CursorOK, StartHydrated
<1>2. Hydrated(storeCursor) \in SessionState /\ Hydrated(storeCursor).wire = storeCursor
  BY <1>1, DownIsKept DEF Hydrated, SessionState
<1>3. SessionKept
  BY <1>1, <1>2 DEF StartHydrated, SessionKept
<1>. QED
  BY <1>3, SameCursors, KeptIsSound, SoundParts DEF StartHydrated

LEMMA HandleMessageSound ==
  ASSUME SoundInv, NEW m \in Inbound, NEW o \in Outcomes, HandleMessage(m, o)
  PROVE  SoundInv'
<1>. DEFINE w == Accept(session.wire, m)
<1>1. Sound(w) /\ w \in Wire
  BY AcceptSound, SoundParts DEF HandleMessage, Sound
<1>. HIDE DEF w
<1>2. PersistCursor(w, o)
  BY DEF HandleMessage, w
<1>3. session' = IF o = "ok" THEN [session EXCEPT !.pc = "runtime", !.wire = w, !.message = m]
                 ELSE Returned(w)
  BY DEF HandleMessage, w
<1>4. [session EXCEPT !.pc = "runtime", !.wire = w, !.message = m] \in SessionState
      /\ [session EXCEPT !.pc = "runtime", !.wire = w, !.message = m].wire = w
  BY <1>1, SoundParts DEF SessionState
<1>5. SessionKept
  BY <1>1, <1>3, <1>4, ReturnedFields, SoundParts DEF SessionKept
<1>6. CursorsKept
  BY <1>1, <1>2, PersistKeeps
<1>. QED
  BY <1>5, <1>6, KeptIsSound, SoundParts DEF HandleMessage

LEMMA RuntimeCallSound ==
  ASSUME SoundInv,
         NEW outs \in {<<>>} \cup {<<m>> : m \in Outbound}, NEW done \in Slots \cup {NoSlot},
         NEW fails \in BOOLEAN, RuntimeCall(outs, done, fails)
  PROVE  SoundInv'
<1>. DEFINE s == [session EXCEPT !.pc = "apply", !.message = NoSlot,
                                 !.outs = outs, !.done = done]
<1>1. outs \in Seq(Outbound)
  <2>1. CASE outs = <<>>
    BY <2>1
  <2>2. ASSUME NEW m \in Outbound, outs = <<m>> PROVE outs \in Seq(Outbound)
    BY <2>2
  <2>. QED
    BY <2>1, <2>2
<1>2. s \in SessionState /\ s.wire = session.wire
  BY <1>1, SoundParts DEF SessionState
<1>3. SessionKept
  <2>1. session' = IF fails THEN Returned(session.wire) ELSE s
    BY DEF RuntimeCall
  <2>. QED
    BY <1>2, <2>1, ReturnedFields, SessionFields, SoundParts DEF SessionKept
<1>4. handed' \in [Inbound -> Nat]
  <2>1. handed \in [Inbound -> Nat]
    BY SoundParts
  <2>2. ASSUME NEW n \in Inbound PROVE handed[n] + 1 \in Nat
    BY <2>1
  <2>3. handed' = [handed EXCEPT ![session.message] = handed[session.message] + 1]
    BY DEF RuntimeCall
  <2>. QED
    BY <2>1, <2>2, <2>3
<1>. QED
  BY <1>3, <1>4, SameCursors, KeptIsSound DEF RuntimeCall

LEMMA ApplyOutboundSound ==
  ASSUME SoundInv, NEW o \in Outcomes, ApplyOutbound(o)
  PROVE  SoundInv'
<1>. DEFINE m == Head(session.outs)
            w == Queue(session.wire, m)
<1>1. /\ m \in Outbound /\ Tail(session.outs) \in Seq(Outbound)
      /\ Append(session.queue, m) \in Seq(Outbound)
  BY SessionFields, SoundParts DEF ApplyOutbound
<1>2. Sound(w) /\ w \in Wire
  BY <1>1, QueueSound, SoundParts DEF ApplyOutbound, Enqueue, Sound
<1>. HIDE DEF m, w
<1>3. PersistCursor(w, o)
  BY DEF ApplyOutbound, Enqueue, w, m
<1>4. session' = IF o = "ok"
                 THEN [session EXCEPT !.wire = w, !.queue = Append(@, m), !.outs = Tail(@)]
                 ELSE [Returned(w) EXCEPT !.queue = Append(@, m)]
  BY DEF ApplyOutbound, w, m
<1>5. SessionKept
  <2>1. CASE o = "ok"
    <3>1. session' = [session EXCEPT !.wire = w, !.queue = Append(session.queue, m),
                                     !.outs = Tail(session.outs)]
      BY <1>4, <2>1
    <3>2. session' \in SessionState /\ session'.wire = w
      BY <1>1, <1>2, <3>1, SoundParts DEF SessionState
    <3>. QED
      BY <1>2, <3>2 DEF SessionKept
  <2>2. CASE o # "ok"
    <3>1. session \in SessionState /\ Returned(w) \in SessionState /\ Returned(w).wire = w
      BY <1>2, ReturnedFields, SoundParts
    <3>2. Append(Returned(w).queue, m) \in Seq(Outbound)
      BY <1>1, <3>1 DEF SessionState
    <3>3. session' = [Returned(w) EXCEPT !.queue = Append(Returned(w).queue, m)]
      BY <1>4, <2>2
    <3>4. session' \in SessionState /\ session'.wire = w
      BY <3>1, <3>2, <3>3 DEF SessionState
    <3>. QED
      BY <1>2, <3>4 DEF SessionKept
  <2>. QED
    BY <2>1, <2>2
<1>6. CursorsKept
  BY <1>2, <1>3, PersistKeeps
<1>. QED
  BY <1>5, <1>6, KeptIsSound, SoundParts DEF ApplyOutbound

LEMMA CompleteSlotSound ==
  ASSUME SoundInv, NEW o \in Outcomes, CompleteSlot(o)
  PROVE  SoundInv'
<1>. DEFINE w == Complete(session.wire, session.done)
<1>1. session.done \in Slots
  BY SessionFields, SoundParts DEF CompleteSlot
<1>2. Sound(w) /\ w \in Wire
  BY <1>1, CompleteSound, SoundParts DEF CompleteSlot, Sound
<1>. HIDE DEF w
<1>3. PersistCursor(w, o) /\ session' = Returned(w)
  BY DEF CompleteSlot, w
<1>4. SessionKept
  BY <1>2, <1>3, ReturnedFields, SoundParts DEF SessionKept
<1>5. CursorsKept
  BY <1>2, <1>3, PersistKeeps
<1>. QED
  BY <1>4, <1>5, KeptIsSound, SoundParts DEF CompleteSlot

LEMMA QueueMessageSound ==
  ASSUME SoundInv, NEW m \in Outbound, NEW o \in Outcomes, QueueMessage(m, o)
  PROVE  SoundInv'
<1>. DEFINE w == Queue(session.wire, m)
<1>1. Append(session.queue, m) \in Seq(Outbound)
  BY SessionFields, SoundParts
<1>2. Sound(w) /\ w \in Wire
  BY QueueSound, SoundParts DEF QueueMessage, Enqueue, Sound
<1>. HIDE DEF w
<1>3. PersistCursor(w, o)
      /\ session' = [session EXCEPT !.wire = w, !.queue = Append(session.queue, m)]
  BY DEF QueueMessage, Enqueue, w
<1>4. session' \in SessionState /\ session'.wire = w
  BY <1>1, <1>2, <1>3, SoundParts DEF SessionState
<1>5. SessionKept
  BY <1>2, <1>4 DEF SessionKept
<1>6. CursorsKept
  BY <1>2, <1>3, PersistKeeps
<1>. QED
  BY <1>5, <1>6, KeptIsSound, SoundParts DEF QueueMessage

LEMMA SoundNext ==
  ASSUME SoundInv, [Next]_vars
  PROVE  SoundInv'
<1>1. CASE Open
  <2>1. [session EXCEPT !.pc = "closed"] \in SessionState
        /\ [session EXCEPT !.pc = "closed"].wire = session.wire
    BY SoundParts DEF SessionState
  <2>2. SessionKept /\ CursorsKept
    BY <1>1, <2>1, SoundParts DEF Open, SessionKept, CursorsKept
  <2>. QED
    BY <1>1, <2>2, KeptIsSound, SoundParts DEF Open
<1>2. CASE StartHydrated
  BY <1>2, StartHydratedSound
<1>3. CASE Close \/ Crash
  <2>1. [DownSession EXCEPT !.pc = "closed"] \in SessionState
        /\ [DownSession EXCEPT !.pc = "closed"].wire = DownSession.wire
    BY DownIsKept DEF SessionState
  <2>2. SessionKept
    BY <1>3, <2>1, DownIsKept DEF Close, Crash, SessionKept
  <2>. QED
    BY <1>3, <2>2, SameCursors, KeptIsSound, SoundParts DEF Close, Crash
<1>4. CASE RefuseOutbound \/ EndCall
  <2>1. session.wire \in Wire /\ session' = Returned(session.wire)
    BY <1>4, SessionFields, SoundParts DEF RefuseOutbound, EndCall
  <2>2. SessionKept
    BY <2>1, ReturnedFields, SoundParts DEF SessionKept
  <2>. QED
    BY <1>4, <2>2, SameCursors, KeptIsSound, SoundParts DEF RefuseOutbound, EndCall
<1>5. CASE NextOutbound
  <2>1. Tail(session.queue) \in Seq(Outbound)
    BY <1>5, SessionFields, SoundParts DEF NextOutbound
  <2>2. session' = [session EXCEPT !.queue = Tail(session.queue)]
    BY <1>5 DEF NextOutbound
  <2>3. session' \in SessionState /\ session'.wire = session.wire
    BY <2>1, <2>2, SoundParts DEF SessionState
  <2>4. SessionKept
    BY <2>3, SoundParts DEF SessionKept
  <2>. QED
    BY <1>5, <2>4, SameCursors, KeptIsSound, SoundParts DEF NextOutbound
<1>6. ASSUME NEW o \in Outcomes, StartNew(o) PROVE SoundInv'
  BY <1>6, StartNewSound
<1>7. ASSUME NEW o \in Outcomes, ApplyOutbound(o) PROVE SoundInv'
  BY <1>7, ApplyOutboundSound
<1>8. ASSUME NEW o \in Outcomes, CompleteSlot(o) PROVE SoundInv'
  BY <1>8, CompleteSlotSound
<1>9. ASSUME NEW o \in Outcomes, NEW m \in Inbound, HandleMessage(m, o) PROVE SoundInv'
  BY <1>9, HandleMessageSound
<1>10. ASSUME NEW o \in Outcomes, NEW m \in Outbound, QueueMessage(m, o) PROVE SoundInv'
  BY <1>10, QueueMessageSound
<1>11. ASSUME NEW outs \in {<<>>} \cup {<<m>> : m \in Outbound},
              NEW done \in Slots \cup {NoSlot}, NEW fails \in BOOLEAN,
              RuntimeCall(outs, done, fails)
       PROVE  SoundInv'
  BY <1>11, RuntimeCallSound
<1>12. CASE UNCHANGED vars
  <2>1. SessionKept
    BY <1>12, SoundParts DEF vars, SessionKept
  <2>. QED
    BY <1>12, <2>1, SameCursors, KeptIsSound, SoundParts DEF vars
<1>. QED
  BY <1>1, <1>2, <1>3, <1>4, <1>5, <1>6, <1>7, <1>8, <1>9, <1>10, <1>11, <1>12 DEF Next

(***************************************************************************)
(* A step keeps what the runtime was given in every cursor that may become *)
(* the session's, as long as no line is cut behind its first hash.         *)
(***************************************************************************)
HeldByAll(wire, m) == Holds(fileCursor', m) /\ Holds(storeCursor', m) /\ m \in wire.accepted

LEMMA RunningHolds ==
  ASSUME IInv, session.pc \notin {"down", "closed"}, NEW m \in Inbound, handed[m] > 0
  PROVE  Holds(fileCursor, m) /\ Holds(storeCursor, m) /\ m \in session.wire.accepted
  BY DEF IInv, Remembered

LEMMA PersistHolds ==
  ASSUME IInv, WholeLines, session.pc \notin {"down", "closed"},
         NEW wire \in Wire, session.wire.accepted \subseteq wire.accepted,
         NEW o \in Outcomes, PersistCursor(wire, o)
  PROVE  /\ \A m \in Inbound : handed[m] > 0 => HeldByAll(wire, m)
         /\ o = "ok" => \A m \in wire.accepted : HeldByAll(wire, m)
<1>1. /\ fileCursor' \in {wire, fileCursor} /\ storeCursor' \in {wire, storeCursor}
      /\ o = "ok" => fileCursor' = wire /\ storeCursor' = wire
  BY DEF PersistCursor, FileAfter, WholeLines
<1>2. \A m \in wire.accepted : Holds(wire, m)
  BY NoCursorAssumption DEF Holds
<1>3. ASSUME NEW m \in Inbound, handed[m] > 0 PROVE HeldByAll(wire, m)
  BY <1>1, <1>2, <1>3, RunningHolds DEF HeldByAll
<1>4. ASSUME o = "ok", NEW m \in wire.accepted PROVE HeldByAll(wire, m)
  BY <1>1, <1>2, <1>4 DEF HeldByAll
<1>. QED
  BY <1>3, <1>4

\* A step of a running session that gives the runtime nothing.
LEMMA QuietStep ==
  ASSUME IInv, UNCHANGED handed,
         \A m \in Inbound : handed[m] > 0 => HeldByAll(session'.wire, m),
         session'.pc \in {"idle", "apply"}
  PROVE  Remembered' /\ HandedOnce'
  BY DEF IInv, Remembered, HandedOnce, HeldByAll, Holds

LEMMA UpdatedWires ==
  ASSUME SoundInv
  PROVE  /\ \A m \in Inbound :
              /\ Accept(session.wire, m) \in Wire
              /\ Accept(session.wire, m).accepted = session.wire.accepted \cup {m}
         /\ \A m \in Outbound :
              /\ Queue(session.wire, m) \in Wire
              /\ Queue(session.wire, m).accepted = session.wire.accepted
         /\ \A s \in Slots :
              /\ Complete(session.wire, s) \in Wire
              /\ Complete(session.wire, s).accepted = session.wire.accepted
<1>1. session.wire \in Wire
  BY SoundParts DEF Sound
<1>2. ASSUME NEW m \in Inbound
      PROVE  /\ Accept(session.wire, m) \in Wire
             /\ Accept(session.wire, m).accepted = session.wire.accepted \cup {m}
  BY <1>1, AcceptFields DEF AcceptFacts
<1>3. ASSUME NEW m \in Outbound
      PROVE  /\ Queue(session.wire, m) \in Wire
             /\ Queue(session.wire, m).accepted = session.wire.accepted
  BY <1>1, QueueFields DEF QueueFacts
<1>4. ASSUME NEW s \in Slots
      PROVE  /\ Complete(session.wire, s) \in Wire
             /\ Complete(session.wire, s).accepted = session.wire.accepted
  BY <1>1, CompleteFields DEF CompleteFacts
<1>. QED
  BY <1>2, <1>3, <1>4

LEMMA HandleMessageHolds ==
  ASSUME IInv, WholeLines, NEW m \in Inbound, NEW o \in Outcomes, HandleMessage(m, o)
  PROVE  Remembered' /\ HandedOnce'
<1>. DEFINE w == Accept(session.wire, m)
<1>1. w \in Wire /\ w.accepted = session.wire.accepted \cup {m}
  BY UpdatedWires DEF IInv, HandleMessage
<1>. HIDE DEF w
<1>2. /\ session.pc = "idle" /\ m \notin session.wire.accepted
      /\ PersistCursor(w, o) /\ handed' = handed
      /\ session' = IF o = "ok"
                    THEN [session EXCEPT !.pc = "runtime", !.wire = w, !.message = m]
                    ELSE Returned(w)
  BY DEF HandleMessage, MayAccept, w
<1>3. /\ \A n \in Inbound : handed[n] > 0 => HeldByAll(w, n)
      /\ o = "ok" => \A n \in w.accepted : HeldByAll(w, n)
  BY <1>1, <1>2, PersistHolds
<1>4. session \in SessionState /\ handed \in [Inbound -> Nat]
  BY SoundParts DEF IInv
<1>5. CASE o = "ok"
  <2>1. session'.pc = "runtime" /\ session'.wire = w /\ session'.message = m
    BY <1>2, <1>4, <1>5 DEF SessionState
  <2>2. handed[m] = 0
    <3>1. ~(handed[m] > 0)
      BY <1>2, RunningHolds
    <3>. QED
      BY <1>4, <3>1
  <2>3. HeldByAll(w, m)
    BY <1>1, <1>3, <1>5
  <2>. QED
    BY <1>2, <1>3, <2>1, <2>2, <2>3 DEF IInv, Remembered, HandedOnce, HeldByAll, Holds
<1>6. CASE o # "ok"
  <2>1. session'.pc = "idle" /\ session'.wire = w
    BY <1>1, <1>2, <1>4, <1>6, ReturnedFields
  <2>. QED
    BY <1>2, <1>3, <2>1, QuietStep
<1>. QED
  BY <1>5, <1>6

LEMMA RuntimeCallHolds ==
  ASSUME IInv,
         NEW outs, NEW done, NEW fails \in BOOLEAN, RuntimeCall(outs, done, fails)
  PROVE  Remembered' /\ HandedOnce'
<1>. DEFINE m == session.message
<1>1. /\ m \in Inbound /\ handed[m] = 0 /\ session.pc = "runtime"
      /\ Holds(fileCursor, m) /\ Holds(storeCursor, m) /\ m \in session.wire.accepted
  BY DEF IInv, Remembered, RuntimeCall
<1>2. /\ handed \in [Inbound -> Nat] /\ session \in SessionState /\ session.wire \in Wire
  BY SoundParts, SessionFields DEF IInv
<1>3. session'.pc \in {"idle", "apply"} /\ session'.wire = session.wire
  <2>1. CASE fails
    BY <1>2, <2>1, ReturnedFields DEF RuntimeCall
  <2>2. CASE ~fails
    <3>1. session' = [session EXCEPT !.pc = "apply", !.message = NoSlot,
                                     !.outs = outs, !.done = done]
      BY <2>2 DEF RuntimeCall
    <3>. QED
      BY <1>2, <3>1 DEF SessionState
  <2>. QED
    BY <2>1, <2>2
<1>4. handed' = [handed EXCEPT ![m] = handed[m] + 1]
  BY DEF RuntimeCall
<1>5. fileCursor' = fileCursor /\ storeCursor' = storeCursor
  BY DEF RuntimeCall
<1>. HIDE DEF m
<1>6. \A n \in Inbound \ {m} : handed'[n] = handed[n]
  BY <1>2, <1>4
<1>7. handed'[m] = 1
  BY <1>1, <1>2, <1>4
<1>8. HandedOnce'
  BY <1>6, <1>7 DEF IInv, HandedOnce
<1>9. ASSUME NEW n \in Inbound, handed'[n] > 0
      PROVE  Holds(fileCursor, n) /\ Holds(storeCursor, n) /\ n \in session.wire.accepted
  BY <1>1, <1>6, <1>9, RunningHolds
<1>. QED
  BY <1>3, <1>5, <1>8, <1>9 DEF Remembered, Holds

LEMMA HoldsNext ==
  ASSUME IInv, WholeLines, [Next]_vars
  PROVE  Remembered' /\ HandedOnce'
<1>1. /\ session \in SessionState /\ session.wire \in Wire
      /\ session.queue \in Seq(Outbound) /\ session.outs \in Seq(Outbound)
      /\ session.done \in Slots \cup {NoSlot} /\ handed \in [Inbound -> Nat]
      /\ storeCursor \in Wire \cup {NoCursor}
  BY SoundParts, SessionFields DEF IInv, CursorOK
<1>2. CASE Open
  <2>1. session'.pc = "closed" /\ session'.wire = session.wire
    BY <1>1, <1>2 DEF Open, SessionState
  <2>. QED
    BY <1>2, <2>1 DEF Open, IInv, Remembered, HandedOnce, Holds
<1>3. CASE StartHydrated
  <2>1. session'.pc = "idle" /\ session'.wire = storeCursor
    BY <1>1, <1>3 DEF StartHydrated, Hydrated, DownSession
  <2>. QED
    BY <1>3, <2>1 DEF StartHydrated, IInv, Remembered, HandedOnce, Holds
<1>4. CASE Close
  <2>1. session'.pc = "closed"
    BY <1>4 DEF Close, DownSession
  <2>. QED
    BY <1>4, <2>1 DEF Close, IInv, Remembered, HandedOnce, Holds
<1>5. CASE Crash
  <2>1. session'.pc = "down"
    BY <1>5 DEF Crash, DownSession
  <2>. QED
    BY <1>5, <2>1 DEF Crash, IInv, Remembered, HandedOnce, Holds
<1>6. CASE RefuseOutbound \/ EndCall
  <2>1. session' = Returned(session.wire) /\ session.pc = "apply"
        /\ UNCHANGED <<fileCursor, storeCursor, handed>>
    BY <1>6 DEF RefuseOutbound, EndCall
  <2>2. session'.pc = "idle" /\ session'.wire = session.wire
    BY <1>1, <2>1, ReturnedFields
  <2>. QED
    BY <2>1, <2>2, RunningHolds, QuietStep DEF HeldByAll
<1>7. CASE NextOutbound
  <2>1. session'.pc = "idle" /\ session'.wire = session.wire
    BY <1>1, <1>7 DEF NextOutbound, SessionState
  <2>. QED
    BY <1>7, <2>1, RunningHolds, QuietStep DEF HeldByAll, NextOutbound
<1>8. ASSUME NEW o \in Outcomes, StartNew(o) PROVE Remembered' /\ HandedOnce'
  <2>1. \A m \in Inbound : ~(handed[m] > 0)
    BY <1>8 DEF StartNew, IInv, Remembered, Holds
  <2>2. session'.pc \in {"idle", "down"}
    BY <1>8 DEF StartNew, DownSession
  <2>. QED
    BY <1>8, <2>1, <2>2 DEF StartNew, IInv, Remembered, HandedOnce
<1>9. ASSUME NEW o \in Outcomes, ApplyOutbound(o) PROVE Remembered' /\ HandedOnce'
  <2>. DEFINE m == Head(session.outs)
              w == Queue(session.wire, m)
  <2>1. m \in Outbound
    BY <1>1, <1>9 DEF ApplyOutbound
  <2>2. w \in Wire /\ w.accepted = session.wire.accepted
    BY <1>9, <2>1, UpdatedWires DEF ApplyOutbound, Enqueue, IInv
  <2>. HIDE DEF m, w
  <2>3. /\ PersistCursor(w, o) /\ session.pc = "apply" /\ handed' = handed
        /\ session' = IF o = "ok"
                      THEN [session EXCEPT !.wire = w, !.queue = Append(@, m), !.outs = Tail(@)]
                      ELSE [Returned(w) EXCEPT !.queue = Append(@, m)]
    BY <1>9 DEF ApplyOutbound, Enqueue, w, m
  <2>4. Returned(w) \in SessionState /\ Returned(w).pc = "idle" /\ Returned(w).wire = w
    BY <1>1, <2>2, ReturnedFields
  <2>5. session'.pc \in {"idle", "apply"} /\ session'.wire = w
    BY <1>1, <2>3, <2>4 DEF SessionState
  <2>. QED
    BY <2>2, <2>3, <2>5, PersistHolds, QuietStep
<1>10. ASSUME NEW o \in Outcomes, CompleteSlot(o) PROVE Remembered' /\ HandedOnce'
  <2>. DEFINE w == Complete(session.wire, session.done)
  <2>1. session.done \in Slots
    BY <1>1, <1>10 DEF CompleteSlot
  <2>2. w \in Wire /\ w.accepted = session.wire.accepted
    BY <2>1, UpdatedWires DEF IInv
  <2>. HIDE DEF w
  <2>3. /\ PersistCursor(w, o) /\ session.pc = "apply" /\ handed' = handed
        /\ session' = Returned(w)
    BY <1>10 DEF CompleteSlot, w
  <2>4. session'.pc = "idle" /\ session'.wire = w
    BY <1>1, <2>2, <2>3, ReturnedFields
  <2>. QED
    BY <2>2, <2>3, <2>4, PersistHolds, QuietStep
<1>11. ASSUME NEW o \in Outcomes, NEW m \in Inbound, HandleMessage(m, o)
       PROVE  Remembered' /\ HandedOnce'
  BY <1>11, HandleMessageHolds
<1>12. ASSUME NEW o \in Outcomes, NEW m \in Outbound, QueueMessage(m, o)
       PROVE  Remembered' /\ HandedOnce'
  <2>. DEFINE w == Queue(session.wire, m)
  <2>1. w \in Wire /\ w.accepted = session.wire.accepted
    BY <1>12, UpdatedWires DEF QueueMessage, Enqueue, IInv
  <2>. HIDE DEF w
  <2>2. /\ PersistCursor(w, o) /\ session.pc = "idle" /\ handed' = handed
        /\ session' = [session EXCEPT !.wire = w, !.queue = Append(session.queue, m)]
    BY <1>12 DEF QueueMessage, Enqueue, w
  <2>3. session'.pc = "idle" /\ session'.wire = w
    BY <1>1, <2>2 DEF SessionState
  <2>. QED
    BY <2>1, <2>2, <2>3, PersistHolds, QuietStep
<1>13. ASSUME NEW outs \in {<<>>} \cup {<<m>> : m \in Outbound},
              NEW done \in Slots \cup {NoSlot}, NEW fails \in BOOLEAN,
              RuntimeCall(outs, done, fails)
       PROVE  Remembered' /\ HandedOnce'
  BY <1>13, RuntimeCallHolds
<1>14. CASE UNCHANGED vars
  BY <1>14 DEF vars, IInv, Remembered, HandedOnce, Holds
<1>. QED
  BY <1>2, <1>3, <1>4, <1>5, <1>6, <1>7, <1>8, <1>9, <1>10, <1>11, <1>12, <1>13, <1>14 DEF Next

(***************************************************************************)
(* The theorems.                                                           *)
(***************************************************************************)
LEMMA SoundAlways == Spec => []SoundInv
  BY SoundInit, SoundNext, PTL DEF Spec

LEMMA HoldsInit == Init => Remembered /\ HandedOnce
  BY DEF Init, Remembered, HandedOnce, DownSession

LEMMA SoundImpliesWhole == SoundInv => SlotsAreWhole
<1>. SUFFICES ASSUME SoundInv, NEW c \in Cursors
     PROVE  IsWhole(c) /\ \A s \in Slots : IsExact(c, s)
  BY DEF SlotsAreWhole, CompletedIsWhole, ProgressIsExact, IsWhole, IsExact, In, Out
<1>1. Sound(c)
  BY SoundParts DEF Cursors, CursorOK
<1>. QED
  BY <1>1 DEF Sound

\* Two messages the runtime was given are in the cursor of the file, whose progress
\* has one phase for each slot.
LEMMA HeldIsHeardOnce == IInv => HeardOnce
<1>. SUFFICES ASSUME IInv, NEW m \in Inbound, NEW n \in Inbound,
                     handed[m] > 0, handed[n] > 0, m.slot = n.slot
              PROVE  m.phase = n.phase /\ (m.sender = n.sender => m = n)
  BY DEF HeardOnce, OneVoicePerSlot, IInv
<1>1. Sound(fileCursor) /\ m \in fileCursor.accepted /\ n \in fileCursor.accepted
  BY SoundParts DEF IInv, Remembered, Holds, CursorOK
<1>2. m.slot \in Slots /\ m \in In(fileCursor, m.slot) /\ n \in In(fileCursor, m.slot)
  BY <1>1, Messages DEF In
<1>3. IsExact(fileCursor, m.slot) /\ OneVoice(fileCursor)
  BY <1>1, <1>2 DEF Sound
<1>4. m.phase = fileCursor.progress[m.slot].phase /\ n.phase = fileCursor.progress[m.slot].phase
  BY <1>2, <1>3 DEF IsExact
<1>. QED
  BY <1>1, <1>3, <1>4 DEF OneVoice

\* Types hold, whatever an append to the cursor log does.
THEOREM TypeCorrect == Spec => []TypeOK
<1>1. SoundInv => TypeOK
  BY DEF SoundInv
<1>. QED
  BY <1>1, SoundAlways, PTL

\* No copy of a cursor lets a slot complete in which a signer has not spoken, or forgets
\* who has, whatever an append to the cursor log does (complete_runtime_slot,
\* hydrate_started_cursor).
THEOREM SlotsAreWholeCorrect == Spec => []SlotsAreWhole
  BY SoundAlways, SoundImpliesWhole, PTL

\* Unless a line of the cursor log is cut right behind its first hash, the runtime hears
\* of a signer for a slot one message, once, and one phase of the slot, over all
\* restarts.
THEOREM HeardOnceCorrect ==
  ASSUME WholeLines
  PROVE  Spec => []HeardOnce
<1>1. Init => IInv
  BY SoundInit, HoldsInit DEF IInv
<1>2. IInv /\ [Next]_vars => IInv'
  BY SoundNext, HoldsNext DEF IInv
<1>. QED
  BY <1>1, <1>2, HeldIsHeardOnce, PTL DEF Spec
===============================================================================
