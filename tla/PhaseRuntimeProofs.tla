------------------------- MODULE PhaseRuntimeProofs -------------------------
(***************************************************************************)
(* Proofs about PhaseRuntime, for any parties, any circuit in which no two *)
(* broadcast phases follow each other, any number of crashes, failures and *)
(* draws, and whatever the parties that are not honest send.               *)
(***************************************************************************)
EXTENDS PhaseRuntime, FiniteSetTheorems, TLAPS

Messages == Shares \cup Openings
Records == [dir : {"sent", "accepted"}, msg : Messages]

Process ==
  [mode : {"down", "idle", "driving", "collecting", "done"},
   at : 1 .. Len(Phases), todo : Seq(Parties), draw : 0 .. MaxDraw,
   input : Vec \cup [Parties -> Vec] \cup {NoVec}, completed : SUBSET PhaseSet]

(***************************************************************************)
(* Facts about messages and records.                                       *)
(***************************************************************************)
LEMMA MessageFacts ==
  ASSUME NEW m \in Messages
  PROVE  /\ m.from \in Parties /\ m.to \in Parties \cup {All}
         /\ m = [phase |-> m.phase, from |-> m.from, to |-> m.to, val |-> m.val]
         /\ m \in Openings <=> m.to = All
         /\ m.phase \in Directed => m \in Shares
         /\ m.phase \in PhaseSet \ Directed => m \in Openings
         /\ m \in Shares => m.val \in Draws
         /\ m \in Openings => m.val \in Vec
<1>1. CASE m \in Shares
  <2>1. m.to \in Parties /\ m.phase \in Directed \cup {Stray}
    BY <1>1 DEF Shares
  <2>2. m.to # All
    BY <2>1, PhaseAssumption
  <2>3. m \notin Openings
    BY <2>2 DEF Openings
  <2>. QED
    BY <1>1, <2>1, <2>2, <2>3, PhaseAssumption DEF Shares
<1>2. CASE m \in Openings
  <2>1. m.to = All /\ m.phase \in (PhaseSet \ Directed) \cup {Stray}
    BY <1>2 DEF Openings
  <2>2. m \notin Shares
    BY <2>1, PhaseAssumption DEF Shares
  <2>3. m.phase \notin Directed
    BY <2>1, PhaseAssumption
  <2>. QED
    BY <1>2, <2>1, <2>2, <2>3 DEF Openings
<1>. QED
  BY <1>1, <1>2 DEF Messages

LEMMA RecordFacts ==
  /\ \A r \in Records : r.msg \in Messages /\ r.dir \in {"sent", "accepted"}
                        /\ r = Record(r.dir, r.msg)
  /\ \A m \in Messages : Record("sent", m) \in Records /\ Record("accepted", m) \in Records
  /\ \A m : \A d : Record(d, m).dir = d /\ Record(d, m).msg = m
  BY DEF Records, Record

LEMMA FaultyFacts ==
  /\ FaultyShares \subseteq Shares /\ FaultyOpenings \subseteq Openings
  /\ \A m \in FaultyShares \cup FaultyOpenings : m.from \notin Honest
  BY FaultyAssumption DEF Faulty

LEMMA OrderFacts ==
  /\ Len(Order) \in Nat /\ Len(Phases) \in Nat \ {0}
  /\ \A i \in 1 .. Len(Phases) : Phases[i] \in PhaseSet
  /\ \A p \in Honest : Order # <<>>
<1>1. \A p \in Honest : \E i \in 1 .. Len(Order) : p = Order[i]
  BY PhaseAssumption DEF Parties
<1>. QED
  BY <1>1, PhaseAssumption DEF PhaseSet

(***************************************************************************)
(* The invariant.  Types first: a drive has a receiver left and a draw of  *)
(* its own, and a process that is down keeps nothing.                      *)
(***************************************************************************)
CallOK(r) ==
  /\ r.mode = "down" => r = Down
  /\ r.mode = "driving" => r.todo # <<>> /\ r.draw \in Draws /\ Phases[r.at] \in Directed
  /\ Len(r.todo) <= Len(Order)

ReturnedOK(p, ph) == returned[p][ph] \subseteq (IF ph \in Directed THEN Vec ELSE [Parties -> Vec])

TypeInv ==
  /\ file \in [Honest -> SUBSET Records]
  /\ mem \in [Honest -> SUBSET Records]
  /\ party \in [Honest -> Process]
  /\ wire \subseteq {m \in Messages : m.from \in Honest}
  /\ view \in [Honest -> SUBSET FaultyOpenings]
  /\ draws \in [Honest -> 0 .. MaxDraw]
  /\ crashes \in 0 .. MaxCrash
  /\ failures \in 0 .. MaxFailure
  /\ troubled \subseteq Honest
  /\ returned \in [Honest -> [PhaseSet -> SUBSET (Vec \cup [Parties -> Vec])]]
  /\ \A p \in Honest : CallOK(party[p])
  /\ \A p \in Honest : \A ph \in PhaseSet : ReturnedOK(p, ph)

\* The log: the file is behind the memory only after a failed append, a replay key
\* has one record, and what the transport was given is in the memory.
LogInv ==
  /\ \A p \in Honest : file[p] \subseteq mem[p]
  /\ \A p \in Honest \ troubled : mem[p] \subseteq file[p]
  /\ \A p \in Honest : \A r, s \in mem[p] : SameKey(r, s) => r = s
  /\ \A p \in Honest : \A r \in mem[p] : r.dir = "sent" => r.msg.from = p
  /\ \A m \in wire : m.from \notin troubled => Record("sent", m) \in mem[m.from]

AcceptedIn(log, p, ph) ==
  {r.msg : r \in {s \in log : s.dir = "accepted" /\ s.msg.phase = ph /\ s.msg.to = To(p, ph)}}

\* The batch of a phase is logged whole, the file misses it only while the phase is
\* marked, and what a collect returned is the batch of the file.
BatchOK(p, ph) ==
  LET held == AcceptedIn(mem[p], p, ph)
      kept == AcceptedIn(file[p], p, ph)
  IN
  /\ held = {} \/ Full(held)
  /\ kept = {} \/ kept = held
  /\ kept # held => ph \in party[p].completed
  /\ \A v \in returned[p][ph] : kept # {} /\ v = Values(kept)

AcceptInv ==
  /\ \A p \in Honest : \A ph \in PhaseSet : BatchOK(p, ph)
  /\ \A p \in Honest : \A r \in mem[p] :
       r.dir = "accepted" /\ r.msg.from \in Honest => r.msg \in wire
  /\ \A p \in Honest : \A r \in mem[p] :
       r.dir = "accepted" /\ r.msg.to = All => \A o \in Honest : r.msg \in ViewOf(o)
  /\ \A o \in Honest : \A m, n \in view[o] : m.from = n.from /\ m.phase = n.phase => m = n

\* What is opened was computed from what the phase before returned.
Derived(m) ==
  \E i \in 2 .. Len(Phases) : m.phase = Phases[i] /\ m.val \in returned[m.from][Phases[i - 1]]

InputInv ==
  /\ \A p \in Honest : Here(p) \notin Directed =>
       party[p].at > 1 /\ party[p].input \in returned[p][Phases[party[p].at - 1]]
  /\ \A p \in Honest : \A r \in mem[p] : r.dir = "sent" /\ r.msg.to = All => Derived(r.msg)
  /\ \A m \in wire : m.to = All => Derived(m)

RuntimeInv == TypeInv /\ LogInv /\ AcceptInv /\ InputInv

LEMMA DownFacts == Down \in Process /\ CallOK(Down)
  BY OrderFacts, PhaseAssumption, BoundAssumption DEF Down, Process, CallOK

LEMMA InitCorrect == Init => RuntimeInv
<1> SUFFICES ASSUME Init PROVE RuntimeInv
  OBVIOUS
<1>1. TypeInv
  <2>1. \A p \in Honest : CallOK(party[p])
    BY DownFacts DEF Init
  <2>2. \A p \in Honest : \A ph \in PhaseSet : ReturnedOK(p, ph)
    BY DEF Init, ReturnedOK
  <2>. QED
    BY <2>1, <2>2, DownFacts, BoundAssumption DEF Init, TypeInv
<1>2. LogInv
  BY DEF Init, LogInv
<1>3. AcceptInv
  BY DEF Init, AcceptInv, BatchOK, AcceptedIn
<1>4. InputInv
  <2>1. \A p \in Honest : Here(p) \in Directed
    BY PhaseAssumption DEF Init, Here, Down
  <2>. QED
    BY <2>1 DEF Init, InputInv
<1>. QED
  BY <1>1, <1>2, <1>3, <1>4 DEF RuntimeInv

(***************************************************************************)
(* Updates of one process.                                                 *)
(***************************************************************************)
LEMMA ProcessUpdate ==
  ASSUME TypeInv, NEW p \in Honest, NEW X \in Process, CallOK(X),
         party' = [party EXCEPT ![p] = X]
  PROVE  /\ party' \in [Honest -> Process]
         /\ party'[p] = X
         /\ \A q \in Honest \ {p} : party'[q] = party[q]
         /\ \A q \in Honest : CallOK(party[q])'
<1>1. party \in [Honest -> Process] /\ \A q \in Honest : CallOK(party[q])
  BY DEF TypeInv
<1>2. party'[p] = X /\ \A q \in Honest \ {p} : party'[q] = party[q]
  BY <1>1
<1>3. party' \in [Honest -> Process]
  BY <1>1
<1>4. ASSUME NEW q \in Honest PROVE CallOK(party'[q])
  BY <1>1, <1>2
<1>. QED
  BY <1>2, <1>3, <1>4

LEMMA AdvanceFacts ==
  ASSUME NEW r \in Process, CallOK(r), r.mode = "collecting", NEW ph \in PhaseSet,
         NEW values \in Vec \cup [Parties -> Vec]
  PROVE  /\ Mark(r, ph) \in Process /\ CallOK(Mark(r, ph))
         /\ Advance(Mark(r, ph), values) \in Process /\ CallOK(Advance(Mark(r, ph), values))
         /\ Mark(r, ph).completed = r.completed \cup {ph}
         /\ Mark(r, ph).at = r.at /\ Mark(r, ph).input = r.input
         /\ Advance(Mark(r, ph), values).completed = r.completed \cup {ph}
         /\ \/ /\ r.at = Len(Phases)
               /\ Advance(Mark(r, ph), values).at = r.at
               /\ Advance(Mark(r, ph), values).input = r.input
            \/ /\ r.at < Len(Phases)
               /\ Advance(Mark(r, ph), values).at = r.at + 1
               /\ Advance(Mark(r, ph), values).input = values
<1>1. /\ Mark(r, ph) \in Process /\ Mark(r, ph).mode = "collecting"
      /\ Mark(r, ph).completed = r.completed \cup {ph}
      /\ Mark(r, ph).at = r.at /\ Mark(r, ph).input = r.input /\ Mark(r, ph).todo = r.todo
  BY DEF Process, Mark
<1>2. CallOK(Mark(r, ph))
  BY <1>1 DEF CallOK
<1>3. r.at \in 1 .. Len(Phases) /\ Len(Phases) \in Nat
  BY OrderFacts DEF Process
<1>4. CASE r.at = Len(Phases)
  <2>1. Advance(Mark(r, ph), values) = [Mark(r, ph) EXCEPT !.mode = "done"]
    BY <1>1, <1>4 DEF Advance
  <2>. QED
    BY <2>1, <1>1, <1>2, <1>4 DEF Process, CallOK
<1>5. CASE r.at < Len(Phases)
  <2> DEFINE R == Mark(r, ph)
             A == Advance(R, values)
  <2>1. A = [R EXCEPT !.mode = "idle", !.at = @ + 1, !.input = values]
    BY <1>1, <1>3, <1>5 DEF Advance
  <2>2. R \in Process /\ R.at = r.at /\ R.completed = r.completed \cup {ph} /\ CallOK(R)
    BY <1>1, <1>2
  <2> HIDE DEF R, A
  <2>3. R.at + 1 \in 1 .. Len(Phases)
    BY <1>3, <1>5, <2>2
  <2>4. A \in Process /\ A.mode = "idle" /\ A.at = R.at + 1 /\ A.input = values
        /\ A.todo = R.todo /\ A.completed = R.completed
    BY <2>1, <2>2, <2>3 DEF Process
  <2>5. CallOK(A)
    BY <2>2, <2>4 DEF CallOK
  <2>. QED
    BY <2>2, <2>4, <2>5, <1>1, <1>2, <1>5 DEF R, A
<1>6. r.at = Len(Phases) \/ r.at < Len(Phases)
  BY <1>3
<1>. QED
  BY <1>4, <1>5, <1>6
(***************************************************************************)
(* Sending.  One record enters the log, the one of its key if there is one,*)
(* and only then the transport.                                            *)
(***************************************************************************)
LEMMA AcceptedMember ==
  ASSUME NEW log \in SUBSET Records, NEW p, NEW ph, NEW m
  PROVE  m \in AcceptedIn(log, p, ph) <=>
           Record("accepted", m) \in log /\ m.phase = ph /\ m.to = To(p, ph)
<1>1. ASSUME m \in AcceptedIn(log, p, ph)
      PROVE  Record("accepted", m) \in log /\ m.phase = ph /\ m.to = To(p, ph)
  BY <1>1, RecordFacts DEF AcceptedIn
<1>2. ASSUME Record("accepted", m) \in log, m.phase = ph, m.to = To(p, ph)
      PROVE  m \in AcceptedIn(log, p, ph)
  BY <1>2 DEF AcceptedIn, Record
<1>. QED
  BY <1>1, <1>2

LEMMA SentIsNotAccepted ==
  ASSUME NEW log \in SUBSET Records, NEW p, NEW ph, NEW m,
         NEW more, more = log \cup {Record("sent", m)}
  PROVE  AcceptedIn(more, p, ph) = AcceptedIn(log, p, ph)
<1>1. Record("sent", m).dir # "accepted"
  BY DEF Record
<1>. QED
  BY <1>1 DEF AcceptedIn

\* The record msg of party p is logged, and handed over if the append was good.
SentStep(p, msg) ==
  /\ mem' = [mem EXCEPT ![p] = @ \cup {Record("sent", msg)}]
  /\ \/ /\ file' = [file EXCEPT ![p] = @ \cup {Record("sent", msg)}]
        /\ troubled' = troubled \/ troubled' = troubled \cup {p}
     \/ file' = file /\ troubled' = troubled \cup {p}
  /\ wire' = wire \/ wire' = wire \cup {msg}
  /\ failures' \in 0 .. MaxFailure

LEMMA SendEffect ==
  ASSUME TypeInv, LogInv, NEW p \in Honest, NEW m \in Messages, m.from = p,
         NEW ok \in BOOLEAN, SendLogged(p, m, ok)
  PROVE  \E msg \in Messages :
           /\ msg.from = p /\ msg.to = m.to
           /\ msg = m \/ Record("sent", msg) \in mem[p]
           /\ \A r \in mem[p] : SameKey(r, Record("sent", msg)) => r = Record("sent", msg)
           /\ SentStep(p, msg)
<1> DEFINE msg == ToSend(p, m)
<1>1. mem[p] \subseteq Records /\ file \in [Honest -> SUBSET Records]
  BY DEF TypeInv
<1>2. PICK o \in Appends, s \in Sends, c \in Statuses :
        /\ o # "ok" => s = "ok"
        /\ o # "ok" \/ s # "ok" => c = "ok"
        /\ Persist(p, {Record("sent", msg)}, o)
        /\ wire' = IF o = "ok" /\ s = "ok" THEN wire \cup {msg} ELSE wire
        /\ ok = (o = "ok" /\ s = "ok" /\ c = "ok")
        /\ failures' = IF ok THEN failures ELSE failures + 1
  BY DEF SendLogged
<1>3. /\ msg \in Messages /\ msg.from = p /\ msg.to = m.to
      /\ msg = m \/ Record("sent", msg) \in mem[p]
      /\ \A r \in mem[p] : SameKey(r, Record("sent", msg)) => r = Record("sent", msg)
  <2>1. CASE LoggedSent(p, m.phase, m.to) = {}
    <3>1. msg = m
      BY <2>1 DEF ToSend
    <3>2. ASSUME NEW r \in mem[p], SameKey(r, Record("sent", m)) PROVE FALSE
      <4>1. r.dir = "sent" /\ r.msg.phase = m.phase /\ r.msg.to = m.to
        BY <3>2, RecordFacts DEF SameKey
      <4>. QED
        BY <4>1, <2>1 DEF LoggedSent
    <3>. QED
      BY <3>1, <3>2
  <2>2. CASE LoggedSent(p, m.phase, m.to) # {}
    <3>1. msg \in LoggedSent(p, m.phase, m.to)
      BY <2>2 DEF ToSend
    <3> HIDE DEF msg
    <3>2. PICK r \in mem[p] :
            r.dir = "sent" /\ r.msg.phase = m.phase /\ r.msg.to = m.to /\ r.msg = msg
      BY <3>1 DEF LoggedSent
    <3>3. r = Record("sent", msg) /\ msg \in Messages /\ msg.from = p /\ msg.to = m.to
      BY <3>2, <1>1, RecordFacts DEF LogInv
    <3>. QED
      BY <3>2, <3>3 DEF LogInv
  <2>. QED
    BY <2>1, <2>2
<1> HIDE DEF msg
<1>4. failures' \in 0 .. MaxFailure
  <2>1. failures \in 0 .. MaxFailure /\ MaxFailure \in Nat
    BY BoundAssumption DEF TypeInv
  <2>2. ~ok => MayFail
    BY <1>2 DEF Appends, Sends, Statuses
  <2>. QED
    BY <1>2, <2>1, <2>2 DEF MayFail
<1>5. \/ /\ file' = [file EXCEPT ![p] = @ \cup {Record("sent", msg)}]
         /\ troubled' = troubled \/ troubled' = troubled \cup {p}
      \/ file' = file /\ troubled' = troubled \cup {p}
  <2>1. CASE o = "lost"
    BY <1>1, <1>2, <2>1 DEF Persist
  <2>2. CASE o # "lost"
    BY <1>2, <2>2 DEF Persist
  <2>. QED
    BY <2>1, <2>2
<1>6. SentStep(p, msg)
  BY <1>2, <1>4, <1>5 DEF SentStep, Persist
<1>. QED
  BY <1>3, <1>6
LEMMA ReturnedUnchanged ==
  ASSUME TypeInv, returned' = returned
  PROVE  \A p \in Honest : \A ph \in PhaseSet : ReturnedOK(p, ph)'
  BY DEF TypeInv, ReturnedOK

LEMMA SentPreserves ==
  ASSUME RuntimeInv, NEW p \in Honest, NEW msg \in Messages, msg.from = p,
         msg.to = All => Derived(msg),
         \A r \in mem[p] : SameKey(r, Record("sent", msg)) => r = Record("sent", msg),
         SentStep(p, msg),
         NEW X \in Process, CallOK(X), party' = [party EXCEPT ![p] = X],
         X.at = party[p].at, X.input = party[p].input, X.completed = party[p].completed,
         UNCHANGED <<view, crashes, returned>>, draws' \in [Honest -> 0 .. MaxDraw]
  PROVE  RuntimeInv'
<1> DEFINE rec == Record("sent", msg)
<1>1. rec \in Records /\ rec.dir = "sent" /\ rec.msg = msg /\ p \in Parties /\ Honest \subseteq Parties
  BY RecordFacts, PhaseAssumption
<1>2. mem \in [Honest -> SUBSET Records] /\ file \in [Honest -> SUBSET Records]
  BY DEF RuntimeInv, TypeInv
<1> HIDE DEF rec
<1>3. /\ mem'[p] = mem[p] \cup {rec}
      /\ mem' \in [Honest -> SUBSET Records]
      /\ \A q \in Honest : q # p => mem'[q] = mem[q]
      /\ \A q \in Honest : mem[q] \subseteq mem'[q]
  BY <1>1, <1>2 DEF SentStep, rec
<1>4. /\ file' \in [Honest -> SUBSET Records]
      /\ file'[p] = file[p] \cup {rec} \/ (file'[p] = file[p] /\ p \in troubled')
      /\ \A q \in Honest : q # p => file'[q] = file[q]
  BY <1>1, <1>2 DEF SentStep, rec
<1>5. troubled' \subseteq troubled \cup {p} /\ troubled \subseteq troubled'
  BY DEF SentStep
<1>6. wire \subseteq wire' /\ wire' \subseteq wire \cup {msg}
  BY DEF SentStep
<1>7. /\ party' \in [Honest -> Process] /\ party'[p] = X
      /\ \A q \in Honest \ {p} : party'[q] = party[q]
      /\ \A q \in Honest : CallOK(party[q])'
  BY ProcessUpdate DEF RuntimeInv
<1>8. TypeInv'
  <2>1. wire' \subseteq {m \in Messages : m.from \in Honest}
    BY <1>6 DEF RuntimeInv, TypeInv
  <2>2. troubled' \subseteq Honest
    BY <1>5 DEF RuntimeInv, TypeInv
  <2>3. \A q \in Honest : \A ph \in PhaseSet : ReturnedOK(q, ph)'
    BY ReturnedUnchanged DEF RuntimeInv
  <2>4. failures' \in 0 .. MaxFailure
    BY DEF SentStep
  <2>5. /\ view' \in [Honest -> SUBSET FaultyOpenings] /\ crashes' \in 0 .. MaxCrash
        /\ returned' \in [Honest -> [PhaseSet -> SUBSET (Vec \cup [Parties -> Vec])]]
    BY DEF RuntimeInv, TypeInv
  <2>. QED
    BY <1>3, <1>4, <1>7, <2>1, <2>2, <2>3, <2>4, <2>5 DEF TypeInv
<1>9. LogInv'
  <2>1. ASSUME NEW q \in Honest PROVE file'[q] \subseteq mem'[q]
    BY <1>3, <1>4 DEF RuntimeInv, LogInv
  <2>2. ASSUME NEW q \in Honest \ troubled' PROVE mem'[q] \subseteq file'[q]
    <3>1. CASE q = p
      BY <1>3, <1>4, <1>5, <2>2, <3>1 DEF RuntimeInv, LogInv
    <3>2. CASE q # p
      BY <1>3, <1>4, <1>5, <2>2, <3>2 DEF RuntimeInv, LogInv
    <3>. QED
      BY <3>1, <3>2
  <2>3. ASSUME NEW q \in Honest, NEW r \in mem'[q], NEW s \in mem'[q], SameKey(r, s)
        PROVE  r = s
    <3>1. r \in mem[q] /\ s \in mem[q] => r = s
      BY <2>3 DEF RuntimeInv, LogInv
    <3>2. \A x \in mem[p] : SameKey(x, rec) => x = rec
      BY DEF rec
    <3>3. SameKey(s, r)
      BY <2>3 DEF SameKey
    <3>. QED
      BY <1>3, <2>3, <3>1, <3>2, <3>3
  <2>4. ASSUME NEW q \in Honest, NEW r \in mem'[q], r.dir = "sent" PROVE r.msg.from = q
    BY <1>1, <1>3, <2>4 DEF RuntimeInv, LogInv
  <2>5. ASSUME NEW m \in wire', m.from \notin troubled' PROVE Record("sent", m) \in mem'[m.from]
    <3>1. CASE m \in wire
      <4>1. m.from \in Honest /\ Record("sent", m) \in mem[m.from]
        BY <1>5, <2>5, <3>1 DEF RuntimeInv, TypeInv, LogInv
      <4>. QED
        BY <4>1, <1>3
    <3>2. CASE m = msg
      BY <1>3, <3>2 DEF rec
    <3>. QED
      BY <1>6, <2>5, <3>1, <3>2
  <2>. QED
    BY <2>1, <2>2, <2>3, <2>4, <2>5 DEF LogInv
<1>10. AcceptInv'
  <2>1. ASSUME NEW q \in Honest, NEW ph \in PhaseSet PROVE BatchOK(q, ph)'
    <3>1. AcceptedIn(mem'[q], q, ph) = AcceptedIn(mem[q], q, ph)
      BY <1>2, <1>3, SentIsNotAccepted DEF rec
    <3>2. AcceptedIn(file'[q], q, ph) = AcceptedIn(file[q], q, ph)
      BY <1>2, <1>4, SentIsNotAccepted DEF rec
    <3>3. party'[q].completed = party[q].completed
      BY <1>7
    <3>4. BatchOK(q, ph)
      BY DEF RuntimeInv, AcceptInv
    <3>. QED
      BY <3>1, <3>2, <3>3, <3>4 DEF BatchOK
  <2>2. ASSUME NEW q \in Honest, NEW r \in mem'[q], r.dir = "accepted"
        PROVE  r \in mem[q]
    BY <1>1, <1>3, <2>2
  <2>3. \A o \in Honest : ViewOf(o) \subseteq ViewOf(o)'
    BY <1>6 DEF ViewOf
  <2>. QED
    BY <1>6, <2>1, <2>2, <2>3 DEF RuntimeInv, AcceptInv
<1>11. InputInv'
  <2>1. \A m : Derived(m)' <=> Derived(m)
    BY DEF Derived
  <2>2. ASSUME NEW q \in Honest, Here(q)' \notin Directed
        PROVE  /\ party'[q].at > 1
               /\ party'[q].input \in returned'[q][Phases[party'[q].at - 1]]
    <3>1. party'[q].at = party[q].at /\ party'[q].input = party[q].input
      BY <1>7
    <3>2. Here(q)' = Here(q)
      BY <3>1 DEF Here
    <3>. QED
      BY <2>2, <3>1, <3>2 DEF RuntimeInv, InputInv
  <2>3. ASSUME NEW q \in Honest, NEW r \in mem'[q], r.dir = "sent", r.msg.to = All
        PROVE  Derived(r.msg)
    BY <1>1, <1>3, <2>3 DEF RuntimeInv, InputInv
  <2>4. ASSUME NEW m \in wire', m.to = All PROVE Derived(m)
    BY <1>6, <2>4 DEF RuntimeInv, InputInv
  <2>. QED
    BY <2>1, <2>2, <2>3, <2>4 DEF InputInv
<1>. QED
  BY <1>8, <1>9, <1>10, <1>11 DEF RuntimeInv
LEMMA SendShareCorrect ==
  ASSUME RuntimeInv, NEW p \in Honest, SendShare(p)
  PROVE  RuntimeInv'
<1> DEFINE r == party[p]
           m == [phase |-> Here(p), from |-> p, to |-> Head(r.todo), val |-> r.draw]
<1>1. /\ r \in Process /\ CallOK(r) /\ r.mode = "driving" /\ p \in Parties
      /\ r.todo \in Seq(Parties) /\ r.todo # <<>> /\ r.draw \in Draws /\ Here(p) \in Directed
  BY PhaseAssumption DEF RuntimeInv, TypeInv, Process, CallOK, SendShare, Here
<1>2. Head(r.todo) \in Parties /\ Tail(r.todo) \in Seq(Parties)
      /\ Len(r.todo) \in Nat \ {0} /\ Len(Tail(r.todo)) = Len(r.todo) - 1
  BY <1>1
<1>3. m \in Messages /\ m.from = p /\ m.to # All
  BY <1>1, <1>2, PhaseAssumption DEF Messages, Shares
<1> HIDE DEF m
<1>4. PICK ok \in BOOLEAN :
        /\ SendLogged(p, m, ok)
        /\ party' = [party EXCEPT ![p] = IF ok THEN AfterShare(@) ELSE Abort(@)]
  BY DEF SendShare, m
<1>5. PICK msg \in Messages :
        /\ msg.from = p /\ msg.to = m.to
        /\ \A x \in mem[p] : SameKey(x, Record("sent", msg)) => x = Record("sent", msg)
        /\ SentStep(p, msg)
  BY <1>3, <1>4, SendEffect DEF RuntimeInv
<1> DEFINE X == IF ok THEN AfterShare(r) ELSE Abort(r)
<1>6. party' = [party EXCEPT ![p] = X]
  BY <1>4 DEF RuntimeInv, TypeInv
<1>7. /\ X \in Process /\ CallOK(X)
      /\ X.at = r.at /\ X.input = r.input /\ X.completed = r.completed
  <2>0. 0 \in 0 .. MaxDraw /\ <<>> \in Seq(Parties) /\ 0 <= Len(Order) /\ Len(<<>>) = 0
    BY BoundAssumption, OrderFacts
  <2>1. CASE ~ok
    <3>1. X = [r EXCEPT !.mode = "idle", !.todo = <<>>, !.draw = 0]
      BY <2>1 DEF Abort
    <3> HIDE DEF X
    <3>2. X \in Process /\ X.todo = <<>> /\ X.mode = "idle"
          /\ X.at = r.at /\ X.input = r.input /\ X.completed = r.completed
      BY <1>1, <2>0, <3>1 DEF Process
    <3>. QED
      BY <2>0, <3>2 DEF CallOK
  <2>2. CASE ok /\ Len(r.todo) = 1
    <3>1. X = [r EXCEPT !.mode = "collecting", !.todo = <<>>, !.draw = 0]
      BY <2>2 DEF AfterShare
    <3> HIDE DEF X
    <3>2. X \in Process /\ X.todo = <<>> /\ X.mode = "collecting"
          /\ X.at = r.at /\ X.input = r.input /\ X.completed = r.completed
      BY <1>1, <2>0, <3>1 DEF Process
    <3>. QED
      BY <2>0, <3>2 DEF CallOK
  <2>3. CASE ok /\ Len(r.todo) # 1
    <3>1. X = [r EXCEPT !.todo = Tail(@)]
      BY <2>3 DEF AfterShare
    <3>2. Tail(r.todo) # <<>> /\ Len(Tail(r.todo)) <= Len(Order)
      <4>1. Len(Tail(r.todo)) # 0
        BY <1>2, <2>3
      <4>2. Len(r.todo) <= Len(Order)
        BY <1>1 DEF CallOK
      <4>3. Len(Tail(r.todo)) <= Len(Order)
        BY <1>2, <4>2, OrderFacts
      <4>. QED
        BY <2>0, <4>1, <4>3
    <3> HIDE DEF X
    <3>3. X \in Process /\ X.todo = Tail(r.todo) /\ X.mode = r.mode /\ X.draw = r.draw
          /\ X.at = r.at /\ X.input = r.input /\ X.completed = r.completed
      BY <1>1, <1>2, <3>1 DEF Process
    <3>. QED
      BY <1>1, <3>2, <3>3 DEF CallOK
  <2>. QED
    BY <2>1, <2>2, <2>3
<1> HIDE DEF X
<1>8. UNCHANGED <<view, draws, crashes, returned>>
  BY DEF SendShare
<1>9. draws' \in [Honest -> 0 .. MaxDraw]
  BY <1>8 DEF RuntimeInv, TypeInv
<1>. QED
  BY <1>3, <1>5, <1>6, <1>7, <1>8, <1>9, SentPreserves

LEMMA BroadcastCorrect ==
  ASSUME RuntimeInv, NEW p \in Honest, Broadcast(p)
  PROVE  RuntimeInv'
<1> DEFINE r == party[p]
           m == [phase |-> Here(p), from |-> p, to |-> All, val |-> r.input]
<1>1. r \in Process /\ CallOK(r) /\ r.mode = "idle" /\ p \in Parties /\ Here(p) \in PhaseSet \ Directed
  BY PhaseAssumption, OrderFacts DEF RuntimeInv, TypeInv, Process, Broadcast, Here
<1>2. r.at \in 2 .. Len(Phases) /\ r.input \in returned[p][Phases[r.at - 1]]
  BY <1>1, OrderFacts DEF RuntimeInv, InputInv, Process
<1>3. r.input \in Vec
  <2>1. r.at - 1 \in 1 .. Len(Phases) - 1 /\ Phases[r.at] \notin Directed
    BY <1>1, <1>2, OrderFacts DEF Here
  <2>2. Phases[r.at - 1] \in Directed /\ Phases[r.at - 1] \in PhaseSet
    <3>1. Phases[r.at - 1] \in Directed \/ Phases[(r.at - 1) + 1] \in Directed
      BY <2>1, PhaseAssumption
    <3>2. (r.at - 1) + 1 = r.at
      BY <1>2, OrderFacts
    <3>. QED
      BY <2>1, <3>1, <3>2, PhaseAssumption
  <2>. QED
    BY <1>2, <2>2 DEF RuntimeInv, TypeInv, ReturnedOK
<1>4. m \in Messages /\ m.from = p /\ m.to = All
  BY <1>1, <1>3 DEF Messages, Openings
<1>5. Derived(m)
  BY <1>2 DEF Derived, Here
<1> HIDE DEF m
<1>6. PICK ok \in BOOLEAN :
        /\ SendLogged(p, m, ok)
        /\ party' = [party EXCEPT ![p].mode = IF ok THEN "collecting" ELSE "idle"]
  BY DEF Broadcast, m
<1>7. PICK msg \in Messages :
        /\ msg.from = p /\ msg.to = m.to
        /\ msg = m \/ Record("sent", msg) \in mem[p]
        /\ \A x \in mem[p] : SameKey(x, Record("sent", msg)) => x = Record("sent", msg)
        /\ SentStep(p, msg)
  BY <1>4, <1>6, SendEffect DEF RuntimeInv
<1>8. Derived(msg)
  <2>1. Record("sent", msg).dir = "sent" /\ Record("sent", msg).msg = msg
    BY RecordFacts
  <2>. QED
    BY <1>4, <1>5, <1>7, <2>1 DEF RuntimeInv, InputInv
<1> DEFINE X == [r EXCEPT !.mode = IF ok THEN "collecting" ELSE "idle"]
<1>9. party' = [party EXCEPT ![p] = X]
  BY <1>6 DEF RuntimeInv, TypeInv
<1>10. /\ X \in Process /\ CallOK(X)
       /\ X.at = r.at /\ X.input = r.input /\ X.completed = r.completed
  BY <1>1 DEF Process, CallOK
<1> HIDE DEF X
<1>11. UNCHANGED <<view, draws, crashes, returned>>
  BY DEF Broadcast
<1>12. draws' \in [Honest -> 0 .. MaxDraw]
  BY <1>11 DEF RuntimeInv, TypeInv
<1>. QED
  BY <1>7, <1>8, <1>9, <1>10, <1>11, <1>12, SentPreserves
(***************************************************************************)
(* Steps that leave the logs alone.                                        *)
(***************************************************************************)
LEMMA LocalPreserves ==
  ASSUME RuntimeInv, NEW p \in Honest,
         UNCHANGED <<file, mem, view, crashes, troubled, returned>>,
         wire \subseteq wire',
         \A m \in wire' : m \in wire \/ Record("sent", m) \in mem[p],
         draws' \in [Honest -> 0 .. MaxDraw], failures' \in 0 .. MaxFailure,
         NEW X \in Process, CallOK(X), party' = [party EXCEPT ![p] = X],
         X.at = party[p].at, X.input = party[p].input,
         party[p].completed \subseteq X.completed
  PROVE  RuntimeInv'
<1>1. /\ party' \in [Honest -> Process] /\ party'[p] = X
      /\ \A q \in Honest \ {p} : party'[q] = party[q]
      /\ \A q \in Honest : CallOK(party[q])'
  BY ProcessUpdate DEF RuntimeInv
<1>2. ASSUME NEW m \in wire'
      PROVE  /\ m \in Messages /\ m.from \in Honest
             /\ m.from \notin troubled => Record("sent", m) \in mem[m.from]
             /\ m.to = All => Derived(m)
  <2>1. CASE m \in wire
    BY <2>1 DEF RuntimeInv, TypeInv, LogInv, InputInv
  <2>2. CASE Record("sent", m) \in mem[p]
    <3>1. Record("sent", m).msg = m /\ Record("sent", m).dir = "sent"
      BY RecordFacts
    <3>2. Record("sent", m) \in Records
      BY <2>2 DEF RuntimeInv, TypeInv
    <3>3. m \in Messages /\ m.from = p
      BY <2>2, <3>1, <3>2, RecordFacts DEF RuntimeInv, LogInv
    <3>. QED
      BY <2>2, <3>1, <3>3 DEF RuntimeInv, InputInv
  <2>. QED
    BY <2>1, <2>2
<1>3. TypeInv'
  <2>1. \A q \in Honest : \A ph \in PhaseSet : ReturnedOK(q, ph)'
    BY ReturnedUnchanged DEF RuntimeInv
  <2>. QED
    BY <1>1, <1>2, <2>1 DEF RuntimeInv, TypeInv
<1>4. LogInv'
  BY <1>2 DEF RuntimeInv, LogInv
<1>5. AcceptInv'
  <2>1. ASSUME NEW q \in Honest, NEW ph \in PhaseSet PROVE BatchOK(q, ph)'
    <3>1. party[q].completed \subseteq party'[q].completed
      BY <1>1
    <3>. QED
      BY <3>1 DEF RuntimeInv, AcceptInv, BatchOK
  <2>2. \A o \in Honest : ViewOf(o) \subseteq ViewOf(o)'
    BY DEF ViewOf
  <2>. QED
    BY <2>1, <2>2 DEF RuntimeInv, AcceptInv
<1>6. InputInv'
  <2>1. \A m : Derived(m)' <=> Derived(m)
    BY DEF Derived
  <2>2. ASSUME NEW q \in Honest, Here(q)' \notin Directed
        PROVE  /\ party'[q].at > 1
               /\ party'[q].input \in returned'[q][Phases[party'[q].at - 1]]
    <3>1. party'[q].at = party[q].at /\ party'[q].input = party[q].input
      BY <1>1
    <3>2. Here(q)' = Here(q)
      BY <3>1 DEF Here
    <3>. QED
      BY <2>2, <3>1, <3>2 DEF RuntimeInv, InputInv
  <2>. QED
    BY <1>2, <2>1, <2>2 DEF RuntimeInv, InputInv
<1>. QED
  BY <1>3, <1>4, <1>5, <1>6 DEF RuntimeInv

LEMMA StartDirectedCorrect ==
  ASSUME RuntimeInv, NEW p \in Honest, StartDirected(p)
  PROVE  RuntimeInv'
<1> DEFINE r == party[p]
           X == [r EXCEPT !.mode = "driving", !.todo = Order, !.draw = draws[p] + 1]
<1>1. r \in Process /\ draws[p] \in 0 .. MaxDraw /\ draws[p] < MaxDraw
      /\ draws \in [Honest -> 0 .. MaxDraw] /\ Here(p) \in Directed
  BY DEF RuntimeInv, TypeInv, StartDirected
<1>2. draws[p] + 1 \in Draws /\ draws[p] + 1 \in 0 .. MaxDraw
  BY <1>1, BoundAssumption DEF Draws
<1>3. Order \in Seq(Parties) /\ Order # <<>> /\ Len(Order) <= Len(Order)
  BY OrderFacts, PhaseAssumption
<1>4. party' = [party EXCEPT ![p] = X] /\ draws' = [draws EXCEPT ![p] = @ + 1]
  BY DEF StartDirected, RuntimeInv, TypeInv
<1> HIDE DEF X
<1>5. /\ X \in Process /\ X.mode = "driving" /\ X.todo = Order /\ X.draw = draws[p] + 1
      /\ X.at = r.at /\ X.input = r.input /\ X.completed = r.completed
  BY <1>1, <1>2, <1>3 DEF Process, X
<1>6. CallOK(X)
  BY <1>1, <1>2, <1>3, <1>5 DEF CallOK, Here
<1>7. draws' \in [Honest -> 0 .. MaxDraw]
  BY <1>1, <1>2, <1>4
<1>8. UNCHANGED <<file, mem, view, crashes, troubled, returned>>
      /\ wire' = wire /\ failures' \in 0 .. MaxFailure
  BY DEF StartDirected, RuntimeInv, TypeInv
<1>. QED
  BY <1>4, <1>5, <1>6, <1>7, <1>8, LocalPreserves

LEMMA ResumeCorrect ==
  ASSUME RuntimeInv, NEW p \in Honest, Resume(p)
  PROVE  RuntimeInv'
<1> DEFINE logged == {r.msg : r \in {s \in mem[p] : s.dir = "sent"}}
           Y == [Down EXCEPT !.mode = "idle"]
<1>1. ASSUME NEW m \in logged PROVE Record("sent", m) \in mem[p]
  <2>1. PICK r \in mem[p] : r.dir = "sent" /\ r.msg = m
    BY <1>1
  <2>2. r = Record("sent", m)
    BY <2>1, RecordFacts DEF RuntimeInv, TypeInv
  <2>. QED
    BY <2>1, <2>2
<1>2. party[p] = Down /\ party \in [Honest -> Process]
  BY DEF Resume, RuntimeInv, TypeInv, CallOK
<1>3. /\ Y \in Process /\ CallOK(Y)
      /\ Y.at = Down.at /\ Y.input = Down.input /\ Y.completed = Down.completed
  BY DownFacts DEF Process, CallOK, Down
<1>4. UNCHANGED <<file, mem, view, crashes, troubled, returned>>
      /\ draws' \in [Honest -> 0 .. MaxDraw]
  BY DEF Resume, RuntimeInv, TypeInv
<1>5. CASE wire' = wire \cup logged /\ party' = [party EXCEPT ![p] = Y] /\ failures' = failures
  <2>1. wire \subseteq wire' /\ \A m \in wire' : m \in wire \/ Record("sent", m) \in mem[p]
    BY <1>1, <1>5
  <2>2. failures' \in 0 .. MaxFailure
    BY <1>5 DEF RuntimeInv, TypeInv
  <2> HIDE DEF Y, logged
  <2>. QED
    BY <1>2, <1>3, <1>4, <1>5, <2>1, <2>2, LocalPreserves
<1>6. CASE /\ MayFail /\ failures' = failures + 1 /\ party' = party
           /\ \E some \in SUBSET (logged \ wire) : wire' = wire \cup some
  <2>1. wire \subseteq wire' /\ \A m \in wire' : m \in wire \/ Record("sent", m) \in mem[p]
    BY <1>1, <1>6
  <2>2. failures' \in 0 .. MaxFailure
    BY <1>6, BoundAssumption DEF RuntimeInv, TypeInv, MayFail
  <2>3. party' = [party EXCEPT ![p] = Down]
    BY <1>2, <1>6
  <2> HIDE DEF Y, logged
  <2>. QED
    BY <1>2, <1>4, <2>1, <2>2, <2>3, DownFacts, LocalPreserves
<1>. QED
  BY <1>5, <1>6 DEF Resume

LEMMA DeliverCorrect ==
  ASSUME RuntimeInv, NEW o \in Honest, NEW m \in FaultyOpenings, Deliver(o, m)
  PROVE  RuntimeInv'
<1>1. /\ view' = [view EXCEPT ![o] = @ \cup {m}]
      /\ ~ \E n \in view[o] : n.from = m.from /\ n.phase = m.phase
      /\ UNCHANGED <<file, mem, party, wire, draws, crashes, failures, troubled, returned>>
  BY DEF Deliver
<1>2. /\ view' \in [Honest -> SUBSET FaultyOpenings] /\ view'[o] = view[o] \cup {m}
      /\ \A q \in Honest \ {o} : view'[q] = view[q]
  BY <1>1 DEF RuntimeInv, TypeInv
<1>3. TypeInv'
  <2>1. \A q \in Honest : \A ph \in PhaseSet : ReturnedOK(q, ph)'
    BY <1>1, ReturnedUnchanged DEF RuntimeInv
  <2>2. \A q \in Honest : CallOK(party'[q])
    BY <1>1 DEF RuntimeInv, TypeInv
  <2>. QED
    BY <1>1, <1>2, <2>1, <2>2 DEF RuntimeInv, TypeInv
<1>4. LogInv'
  BY <1>1 DEF RuntimeInv, LogInv
<1>5. AcceptInv'
  <2>1. ASSUME NEW q \in Honest, NEW ph \in PhaseSet PROVE BatchOK(q, ph)'
    BY <1>1 DEF RuntimeInv, AcceptInv, BatchOK
  <2>2. \A q \in Honest : ViewOf(q) \subseteq ViewOf(q)'
    BY <1>1, <1>2 DEF ViewOf
  <2>3. ASSUME NEW q \in Honest, NEW x \in view'[q], NEW y \in view'[q],
               x.from = y.from, x.phase = y.phase
        PROVE  x = y
    <3>1. x \in view[q] /\ y \in view[q] => x = y
      BY <2>3 DEF RuntimeInv, AcceptInv
    <3>. QED
      BY <1>1, <1>2, <2>3, <3>1
  <2>. QED
    BY <1>1, <2>1, <2>2, <2>3 DEF RuntimeInv, AcceptInv
<1>6. InputInv'
  <2>1. \A n : Derived(n)' <=> Derived(n)
    BY <1>1 DEF Derived
  <2>2. \A q \in Honest : Here(q)' = Here(q)
    BY <1>1 DEF Here
  <2>. QED
    BY <1>1, <2>1, <2>2 DEF RuntimeInv, InputInv
<1>. QED
  BY <1>3, <1>4, <1>5, <1>6 DEF RuntimeInv
LEMMA CrashCorrect ==
  ASSUME RuntimeInv, NEW p \in Honest, Crash(p)
  PROVE  RuntimeInv'
<1>1. /\ crashes' \in 0 .. MaxCrash
      /\ party' = [party EXCEPT ![p] = Down]
      /\ mem' = [mem EXCEPT ![p] = file[p]]
      /\ UNCHANGED <<file, wire, view, draws, failures, troubled, returned>>
  BY BoundAssumption DEF Crash, RuntimeInv, TypeInv
<1>2. /\ mem' \in [Honest -> SUBSET Records] /\ mem'[p] = file[p]
      /\ \A q \in Honest : q # p => mem'[q] = mem[q]
      /\ \A q \in Honest : mem'[q] \subseteq mem[q]
  BY <1>1 DEF RuntimeInv, TypeInv, LogInv
<1>3. /\ party' \in [Honest -> Process] /\ party'[p] = Down
      /\ \A q \in Honest \ {p} : party'[q] = party[q]
      /\ \A q \in Honest : CallOK(party[q])'
  BY <1>1, DownFacts, ProcessUpdate DEF RuntimeInv
<1>4. TypeInv'
  <2>1. \A q \in Honest : \A ph \in PhaseSet : ReturnedOK(q, ph)'
    BY <1>1, ReturnedUnchanged DEF RuntimeInv
  <2>. QED
    BY <1>1, <1>2, <1>3, <2>1 DEF RuntimeInv, TypeInv
<1>5. LogInv'
  <2>1. ASSUME NEW q \in Honest PROVE file'[q] \subseteq mem'[q]
    BY <1>1, <1>2 DEF RuntimeInv, LogInv
  <2>2. ASSUME NEW q \in Honest \ troubled' PROVE mem'[q] \subseteq file'[q]
    BY <1>1, <1>2 DEF RuntimeInv, LogInv
  <2>3. ASSUME NEW q \in Honest, NEW r \in mem'[q], NEW s \in mem'[q], SameKey(r, s)
        PROVE  r = s
    BY <1>2, <2>3 DEF RuntimeInv, LogInv
  <2>4. ASSUME NEW m \in wire', m.from \notin troubled' PROVE Record("sent", m) \in mem'[m.from]
    <3>1. m.from \in Honest /\ Record("sent", m) \in mem[m.from] /\ m.from \notin troubled
      BY <1>1, <2>4 DEF RuntimeInv, TypeInv, LogInv
    <3>2. mem[m.from] \subseteq file[m.from]
      BY <3>1 DEF RuntimeInv, LogInv
    <3>. QED
      BY <1>2, <3>1, <3>2
  <2>. QED
    BY <1>2, <2>1, <2>2, <2>3, <2>4 DEF RuntimeInv, LogInv
<1>6. AcceptInv'
  <2>1. ASSUME NEW q \in Honest, NEW ph \in PhaseSet PROVE BatchOK(q, ph)'
    <3>1. BatchOK(q, ph)
      BY DEF RuntimeInv, AcceptInv
    <3>2. CASE q = p
      BY <1>1, <1>2, <3>1, <3>2 DEF BatchOK
    <3>3. CASE q # p
      BY <1>1, <1>2, <1>3, <3>1, <3>3 DEF BatchOK
    <3>. QED
      BY <3>2, <3>3
  <2>2. \A o \in Honest : ViewOf(o)' = ViewOf(o)
    BY <1>1 DEF ViewOf
  <2>. QED
    BY <1>1, <1>2, <2>1, <2>2 DEF RuntimeInv, AcceptInv
<1>7. InputInv'
  <2>1. \A n : Derived(n)' <=> Derived(n)
    BY <1>1 DEF Derived
  <2>2. ASSUME NEW q \in Honest, Here(q)' \notin Directed
        PROVE  /\ party'[q].at > 1
               /\ party'[q].input \in returned'[q][Phases[party'[q].at - 1]]
    <3>1. q # p
      BY <1>3, <2>2, PhaseAssumption DEF Here, Down
    <3>2. party'[q] = party[q] /\ Here(q)' = Here(q)
      BY <1>3, <3>1 DEF Here
    <3>. QED
      BY <1>1, <2>2, <3>2 DEF RuntimeInv, InputInv
  <2>. QED
    BY <1>1, <1>2, <2>1, <2>2 DEF RuntimeInv, InputInv
<1>. QED
  BY <1>4, <1>5, <1>6, <1>7 DEF RuntimeInv

(***************************************************************************)
(* Collecting.  A batch is whole and of its phase, its honest parts were   *)
(* sent, and an opened one is in every honest view.                        *)
(***************************************************************************)
BatchFits(p, ph, b) ==
  /\ b \subseteq Messages /\ Full(b)
  /\ \A m, n \in b : m.from = n.from => m = n
  /\ \A m \in b : m.phase = ph /\ m.to = To(p, ph)
  /\ \A m \in b : m.from \in Honest => m \in wire
  /\ \A m \in b : m.to = All => \A o \in Honest : m \in ViewOf(o)

AcceptedRecords(b) == {Record("accepted", m) : m \in b}

LEMMA ValuesTyped ==
  ASSUME NEW p \in Honest, NEW ph \in PhaseSet, NEW b, BatchFits(p, ph, b)
  PROVE  Values(b) \in (IF ph \in Directed THEN Vec ELSE [Parties -> Vec])
<1>1. ASSUME NEW q \in Parties
      PROVE  \E m \in b : m.from = q /\ (CHOOSE n \in b : n.from = q) = m
  BY DEF BatchFits, Full
<1>2. ASSUME NEW q \in Parties
      PROVE  (CHOOSE n \in b : n.from = q).val \in (IF ph \in Directed THEN Draws ELSE Vec)
  <2>1. PICK m \in b : m.from = q /\ (CHOOSE n \in b : n.from = q) = m
    BY <1>1
  <2>2. m \in Messages /\ m.phase = ph
    BY DEF BatchFits
  <2>3. m.val \in (IF ph \in Directed THEN Draws ELSE Vec)
    BY <2>2, MessageFacts
  <2>. QED
    BY <2>1, <2>3
<1>. QED
  BY <1>2 DEF Values, Vec

\* What a collect does once it has a batch b: the records are in the memory, and in
\* the file unless the append failed; the phase is marked, and the values are
\* returned only if the batch is in the file.
CollectStep(p, ph, b) ==
  /\ mem' = [mem EXCEPT ![p] = @ \cup AcceptedRecords(b)]
  /\ troubled' = troubled \/ troubled' = troubled \cup {p}
  /\ \/ file' = [file EXCEPT ![p] = @ \cup AcceptedRecords(b)]
     \/ file' = file /\ p \in troubled' /\ returned' = returned
  /\ failures' \in 0 .. MaxFailure
  /\ \/ /\ party' = [party EXCEPT ![p] = Mark(@, ph)]
        /\ returned' = returned
     \/ /\ party' = [party EXCEPT ![p] = Advance(Mark(@, ph), Values(b))]
        /\ returned' = [returned EXCEPT ![p][ph] = @ \cup {Values(b)}]
  /\ UNCHANGED <<wire, view, draws, crashes>>

LEMMA CollectPreserves ==
  ASSUME RuntimeInv, NEW p \in Honest, NEW ph \in PhaseSet, NEW b, ph = Here(p),
         party[p].mode = "collecting",
         BatchFits(p, ph, b), Accepted(p, ph) = {} \/ Accepted(p, ph) = b,
         CollectStep(p, ph, b)
  PROVE  RuntimeInv'
<1> DEFINE A == AcceptedRecords(b)
           r == party[p]
           new == returned'[p][ph]
<1>1. /\ mem \in [Honest -> SUBSET Records] /\ file \in [Honest -> SUBSET Records]
      /\ party \in [Honest -> Process] /\ r \in Process /\ CallOK(r)
      /\ returned \in [Honest -> [PhaseSet -> SUBSET (Vec \cup [Parties -> Vec])]]
      /\ p \in Parties
  BY PhaseAssumption DEF RuntimeInv, TypeInv
<1>2. /\ \A x \in A : x \in Records /\ x.dir = "accepted" /\ x.msg \in b
      /\ \A x \in A : x = Record("accepted", x.msg)
  BY RecordFacts DEF AcceptedRecords, BatchFits
<1>3. b # {}
  BY <1>1 DEF BatchFits, Full
<1>4. Values(b) \in (IF ph \in Directed THEN Vec ELSE [Parties -> Vec])
  BY ValuesTyped
<1> DEFINE held(q, x) == AcceptedIn(mem[q], q, x)
           kept(q, x) == AcceptedIn(file[q], q, x)
<1>5. held(p, ph) = {} \/ held(p, ph) = b
  BY DEF Accepted, AcceptedIn
<1>6. /\ mem' \in [Honest -> SUBSET Records] /\ mem'[p] = mem[p] \cup A
      /\ \A q \in Honest : q # p => mem'[q] = mem[q]
  BY <1>1, <1>2 DEF CollectStep
<1>7. /\ file' \in [Honest -> SUBSET Records]
      /\ \/ file'[p] = file[p] \cup A
         \/ file'[p] = file[p] /\ p \in troubled' /\ returned' = returned
      /\ \A q \in Honest : q # p => file'[q] = file[q]
  BY <1>1, <1>2 DEF CollectStep
<1>8. /\ returned' \in [Honest -> [PhaseSet -> SUBSET (Vec \cup [Parties -> Vec])]]
      /\ new = returned[p][ph] \/ (new = returned[p][ph] \cup {Values(b)} /\ file'[p] = file[p] \cup A)
      /\ \A q \in Honest : \A x \in PhaseSet : q # p \/ x # ph => returned'[q][x] = returned[q][x]
  <2>1. CASE returned' = returned
    BY <1>1, <2>1
  <2>2. CASE returned' # returned
    <3>1. returned' = [returned EXCEPT ![p][ph] = @ \cup {Values(b)}] /\ file'[p] = file[p] \cup A
      BY <1>1, <1>7, <2>2 DEF CollectStep
    <3>. QED
      BY <1>1, <1>4, <3>1
  <2>. QED
    BY <2>1, <2>2
<1> DEFINE X == party'[p]
<1>9. /\ X \in Process /\ CallOK(X) /\ party' = [party EXCEPT ![p] = X]
      /\ X.completed = r.completed \cup {ph}
      /\ \/ X.at = r.at /\ X.input = r.input
         \/ X.at = r.at + 1 /\ X.input = Values(b) /\ Values(b) \in new
  <2>1. /\ Mark(r, ph) \in Process /\ CallOK(Mark(r, ph))
        /\ Advance(Mark(r, ph), Values(b)) \in Process /\ CallOK(Advance(Mark(r, ph), Values(b)))
        /\ Mark(r, ph).completed = r.completed \cup {ph}
        /\ Mark(r, ph).at = r.at /\ Mark(r, ph).input = r.input
        /\ Advance(Mark(r, ph), Values(b)).completed = r.completed \cup {ph}
        /\ \/ /\ Advance(Mark(r, ph), Values(b)).at = r.at
              /\ Advance(Mark(r, ph), Values(b)).input = r.input
           \/ /\ Advance(Mark(r, ph), Values(b)).at = r.at + 1
              /\ Advance(Mark(r, ph), Values(b)).input = Values(b)
    BY <1>1, <1>4, AdvanceFacts
  <2>2. CASE party' = [party EXCEPT ![p] = Mark(@, ph)]
    <3>1. X = Mark(r, ph)
      BY <1>1, <2>2
    <3>. QED
      BY <1>1, <2>1, <2>2, <3>1
  <2>3. CASE /\ party' = [party EXCEPT ![p] = Advance(Mark(@, ph), Values(b))]
             /\ returned' = [returned EXCEPT ![p][ph] = @ \cup {Values(b)}]
    <3>1. X = Advance(Mark(r, ph), Values(b))
      BY <1>1, <2>3
    <3>2. Values(b) \in new
      BY <1>1, <2>3
    <3>. QED
      BY <1>1, <2>1, <2>3, <3>1, <3>2
  <2>. QED
    BY <2>2, <2>3 DEF CollectStep
<1>10. /\ party' \in [Honest -> Process]
       /\ \A q \in Honest \ {p} : party'[q] = party[q]
       /\ \A q \in Honest : CallOK(party[q])'
  BY <1>9, ProcessUpdate DEF RuntimeInv
<1>11. troubled \subseteq troubled' /\ troubled' \subseteq troubled \cup {p}
       /\ UNCHANGED <<wire, view, draws, crashes>> /\ failures' \in 0 .. MaxFailure
  BY DEF CollectStep
<1>12. mem[p] \in SUBSET Records /\ file[p] \in SUBSET Records
  BY <1>1
<1> HIDE DEF A, r, new, held, kept, X
<1>13. ASSUME NEW log \in SUBSET Records, NEW more, more = log \cup A
       PROVE  /\ AcceptedIn(more, p, ph) = AcceptedIn(log, p, ph) \cup b
              /\ \A x \in PhaseSet \ {ph} : AcceptedIn(more, p, x) = AcceptedIn(log, p, x)
  <2>1. \A m \in b : m.phase = ph /\ m.to = To(p, ph)
    BY DEF BatchFits
  <2>2. more \in SUBSET Records
    BY <1>2, <1>13
  <2>3. \A m : Record("accepted", m) \in A <=> m \in b
    BY RecordFacts DEF AcceptedRecords, A
  <2>4. ASSUME NEW m
        PROVE  m \in AcceptedIn(more, p, ph) <=> m \in AcceptedIn(log, p, ph) \cup b
    BY <1>13, <2>1, <2>2, <2>3, AcceptedMember
  <2>5. ASSUME NEW x \in PhaseSet \ {ph}, NEW m
        PROVE  m \in AcceptedIn(more, p, x) <=> m \in AcceptedIn(log, p, x)
    BY <1>13, <2>1, <2>2, <2>3, AcceptedMember
  <2>. QED
    BY <2>4, <2>5
<1>14. TypeInv'
  <2>1. ASSUME NEW q \in Honest, NEW x \in PhaseSet PROVE ReturnedOK(q, x)'
    <3>1. ReturnedOK(q, x)
      BY DEF RuntimeInv, TypeInv
    <3>2. CASE q = p /\ x = ph
      BY <1>4, <1>8, <3>1, <3>2 DEF ReturnedOK, new
    <3>3. CASE q # p \/ x # ph
      BY <1>8, <3>1, <3>3 DEF ReturnedOK
    <3>. QED
      BY <3>2, <3>3
  <2>2. troubled' \subseteq Honest
    BY <1>11 DEF RuntimeInv, TypeInv
  <2>3. /\ wire' \subseteq {m \in Messages : m.from \in Honest}
        /\ view' \in [Honest -> SUBSET FaultyOpenings] /\ draws' \in [Honest -> 0 .. MaxDraw]
        /\ crashes' \in 0 .. MaxCrash
    BY <1>11 DEF RuntimeInv, TypeInv
  <2>. QED
    BY <1>6, <1>7, <1>8, <1>10, <1>11, <2>1, <2>2, <2>3 DEF TypeInv
<1>15. LogInv'
  <2>1. ASSUME NEW q \in Honest PROVE file'[q] \subseteq mem'[q]
    BY <1>6, <1>7 DEF RuntimeInv, LogInv
  <2>2. ASSUME NEW q \in Honest \ troubled' PROVE mem'[q] \subseteq file'[q]
    <3>1. mem[q] \subseteq file[q]
      BY <1>11 DEF RuntimeInv, LogInv
    <3>2. CASE q = p
      BY <1>6, <1>7, <2>2, <3>1, <3>2
    <3>3. CASE q # p
      BY <1>6, <1>7, <3>1, <3>3
    <3>. QED
      BY <3>2, <3>3
  <2>3. ASSUME NEW q \in Honest, NEW x \in mem'[q], NEW y \in mem'[q], SameKey(x, y)
        PROVE  x = y
    <3>1. x \in mem[q] /\ y \in mem[q] => x = y
      BY <2>3 DEF RuntimeInv, LogInv
    <3>2. ASSUME NEW u \in mem[p], NEW v \in A, SameKey(u, v) PROVE u = v
      <4>1. v.msg.phase = ph /\ v.msg.to = To(p, ph) /\ v.dir = "accepted" /\ v.msg \in b
        BY <1>2 DEF BatchFits
      <4>2. u \in Records /\ u.dir = "accepted" /\ u.msg.phase = ph /\ u.msg.to = To(p, ph)
            /\ u.msg.from = v.msg.from
        BY <1>1, <3>2, <4>1 DEF SameKey
      <4>3. u.msg \in held(p, ph)
        BY <4>2 DEF held, AcceptedIn
      <4>4. u.msg \in b /\ u.msg = v.msg
        BY <1>5, <4>1, <4>2, <4>3 DEF BatchFits
      <4>. QED
        BY <1>2, <4>2, <4>4, RecordFacts
    <3>3. ASSUME NEW u \in A, NEW v \in A, SameKey(u, v) PROVE u = v
      <4>1. u.msg = v.msg
        BY <1>2, <3>3 DEF SameKey, BatchFits
      <4>. QED
        BY <1>2, <4>1
    <3>4. SameKey(y, x)
      BY <2>3 DEF SameKey
    <3>5. CASE q = p
      BY <1>6, <2>3, <3>1, <3>2, <3>3, <3>4, <3>5
    <3>6. CASE q # p
      BY <1>6, <3>1, <3>6
    <3>. QED
      BY <3>5, <3>6
  <2>4. ASSUME NEW q \in Honest, NEW x \in mem'[q], x.dir = "sent" PROVE x.msg.from = q
    <3>1. x \in mem[q]
      BY <1>2, <1>6, <2>4
    <3>. QED
      BY <2>4, <3>1 DEF RuntimeInv, LogInv
  <2>5. ASSUME NEW m \in wire', m.from \notin troubled' PROVE Record("sent", m) \in mem'[m.from]
    <3>1. m.from \in Honest /\ Record("sent", m) \in mem[m.from]
      BY <1>11, <2>5 DEF RuntimeInv, TypeInv, LogInv
    <3>. QED
      BY <1>6, <3>1
  <2>. QED
    BY <2>1, <2>2, <2>3, <2>4, <2>5 DEF LogInv
<1>16. AcceptInv'
  <2>1. ASSUME NEW q \in Honest, NEW x \in PhaseSet PROVE BatchOK(q, x)'
    <3>1. BatchOK(q, x)
      BY DEF RuntimeInv, AcceptInv
    <3>2. CASE q # p
      BY <1>6, <1>7, <1>8, <1>10, <3>1, <3>2 DEF BatchOK
    <3>3. CASE q = p /\ x # ph
      <4>1. AcceptedIn(mem'[p], p, x) = held(p, x)
        BY <1>6, <1>13, <1>12, <3>3 DEF held
      <4>2. AcceptedIn(file'[p], p, x) = kept(p, x)
        <5>1. CASE file'[p] = file[p] \cup A
          BY <1>13, <1>12, <3>3, <5>1 DEF kept
        <5>2. CASE file'[p] = file[p]
          BY <5>2 DEF kept
        <5>. QED
          BY <1>7, <5>1, <5>2
      <4>3. returned'[p][x] = returned[p][x] /\ r.completed \subseteq party'[p].completed
        BY <1>8, <1>9, <3>3 DEF X
      <4>. QED
        BY <3>1, <3>3, <4>1, <4>2, <4>3 DEF BatchOK, held, kept, r
    <3>4. CASE q = p /\ x = ph
      <4>1. AcceptedIn(mem'[p], p, ph) = b
        <5>1. AcceptedIn(mem'[p], p, ph) = held(p, ph) \cup b
          BY <1>6, <1>13, <1>12 DEF held
        <5>. QED
          BY <1>5, <5>1
      <4>2. kept(p, ph) = {} \/ kept(p, ph) = b
        BY <1>5, <3>1, <3>4 DEF BatchOK, held, kept
      <4>3. /\ AcceptedIn(file'[p], p, ph) = kept(p, ph) \/ AcceptedIn(file'[p], p, ph) = b
            /\ file'[p] = file[p] \cup A => AcceptedIn(file'[p], p, ph) = b
        <5>1. ASSUME file'[p] = file[p] \cup A
              PROVE  AcceptedIn(file'[p], p, ph) = kept(p, ph) \cup b
          BY <1>13, <1>12, <5>1 DEF kept
        <5>2. file'[p] = file[p] \cup A => AcceptedIn(file'[p], p, ph) = b
          BY <4>2, <5>1
        <5>3. file'[p] = file[p] => AcceptedIn(file'[p], p, ph) = kept(p, ph)
          BY DEF kept
        <5>. QED
          BY <1>7, <5>2, <5>3
      <4>4. ph \in party'[p].completed
        BY <1>9 DEF X
      <4>5. ASSUME NEW v \in returned'[p][ph]
            PROVE  AcceptedIn(file'[p], p, ph) # {} /\ v = Values(AcceptedIn(file'[p], p, ph))
        <5>1. CASE v \in returned[p][ph]
          <6>1. kept(p, ph) # {} /\ v = Values(kept(p, ph))
            BY <3>1, <3>4, <5>1 DEF BatchOK, kept
          <6>2. AcceptedIn(file'[p], p, ph) = kept(p, ph)
            BY <4>2, <4>3, <6>1
          <6>. QED
            BY <6>1, <6>2
        <5>2. CASE v \notin returned[p][ph]
          <6>1. v = Values(b) /\ file'[p] = file[p] \cup A
            BY <1>8, <5>2 DEF new
          <6>. QED
            BY <1>3, <4>3, <6>1
        <5>. QED
          BY <5>1, <5>2
      <4>6. Full(b)
        BY DEF BatchFits
      <4>. QED
        BY <3>4, <4>1, <4>2, <4>3, <4>4, <4>5, <4>6 DEF BatchOK, Full
    <3>. QED
      BY <3>2, <3>3, <3>4
  <2>2. \A o \in Honest : ViewOf(o)' = ViewOf(o)
    BY <1>11 DEF ViewOf
  <2>3. ASSUME NEW q \in Honest, NEW x \in mem'[q], x.dir = "accepted"
        PROVE  /\ x.msg.from \in Honest => x.msg \in wire
               /\ x.msg.to = All => \A o \in Honest : x.msg \in ViewOf(o)
    <3>1. CASE x \in mem[q]
      BY <2>3, <3>1 DEF RuntimeInv, AcceptInv
    <3>2. CASE x \in A
      BY <1>2, <3>2 DEF BatchFits
    <3>. QED
      BY <1>6, <2>3, <3>1, <3>2
  <2>. QED
    BY <1>11, <2>1, <2>2, <2>3 DEF RuntimeInv, AcceptInv
<1>17. InputInv'
  <2>1. ASSUME NEW m, Derived(m), m.from \in Honest PROVE Derived(m)'
    <3>1. PICK i \in 2 .. Len(Phases) :
            m.phase = Phases[i] /\ m.val \in returned[m.from][Phases[i - 1]]
      BY <2>1 DEF Derived
    <3>2. Phases[i - 1] \in PhaseSet
      BY OrderFacts
    <3>3. m.val \in returned'[m.from][Phases[i - 1]]
      BY <1>8, <2>1, <3>1, <3>2 DEF new
    <3>. QED
      BY <3>1, <3>3 DEF Derived
  <2>2. ASSUME NEW q \in Honest, Here(q)' \notin Directed
        PROVE  /\ party'[q].at > 1
               /\ party'[q].input \in returned'[q][Phases[party'[q].at - 1]]
    <3>1. CASE party'[q].at = party[q].at /\ party'[q].input = party[q].input
      <4>1. Here(q)' = Here(q)
        BY <3>1 DEF Here
      <4>2. party[q].at > 1 /\ party[q].input \in returned[q][Phases[party[q].at - 1]]
        BY <2>2, <4>1 DEF RuntimeInv, InputInv
      <4>3. Phases[party[q].at - 1] \in PhaseSet
        <5>1. party[q].at \in 1 .. Len(Phases)
          BY <1>1 DEF Process
        <5>. QED
          BY <4>2, <5>1, OrderFacts
      <4>. QED
        BY <1>8, <3>1, <4>2, <4>3 DEF new
    <3>2. CASE q = p /\ X.at = r.at + 1 /\ X.input = Values(b) /\ Values(b) \in new
      <4>1. r.at \in Nat \ {0} /\ ph = Phases[r.at]
        BY <1>1, OrderFacts DEF Process, Here, r
      <4>2. X.at > 1 /\ X.at - 1 = r.at
        BY <3>2, <4>1
      <4>. QED
        BY <3>2, <4>1, <4>2 DEF X, new
    <3>. QED
      BY <1>9, <1>10, <3>1, <3>2 DEF X, r
  <2>3. ASSUME NEW q \in Honest, NEW x \in mem'[q], x.dir = "sent", x.msg.to = All
        PROVE  Derived(x.msg)'
    <3>1. x \in mem[q]
      BY <1>2, <1>6, <2>3
    <3>2. Derived(x.msg) /\ x.msg.from \in Honest
      BY <2>3, <3>1 DEF RuntimeInv, LogInv, InputInv
    <3>. QED
      BY <2>1, <3>2
  <2>4. ASSUME NEW m \in wire', m.to = All PROVE Derived(m)'
    <3>1. Derived(m) /\ m.from \in Honest
      BY <1>11, <2>4 DEF RuntimeInv, TypeInv, InputInv
    <3>. QED
      BY <2>1, <3>1
  <2>. QED
    BY <2>2, <2>3, <2>4 DEF InputInv
<1>. QED
  BY <1>14, <1>15, <1>16, <1>17 DEF RuntimeInv
LEMMA ReturnFacts ==
  ASSUME TypeInv, NEW p \in Honest, NEW ph, NEW b, Return(p, ph, b)
  PROVE  /\ failures' \in 0 .. MaxFailure
         /\ \/ /\ party' = [party EXCEPT ![p] = Mark(@, ph)]
               /\ returned' = returned
            \/ /\ party' = [party EXCEPT ![p] = Advance(Mark(@, ph), Values(b))]
               /\ returned' = [returned EXCEPT ![p][ph] = @ \cup {Values(b)}]
  BY BoundAssumption DEF Return, TypeInv, MayFail

LEMMA RecoverCorrect ==
  ASSUME RuntimeInv, NEW p \in Honest, Recover(p)
  PROVE  RuntimeInv'
<1> DEFINE ph == Here(p)
           b == Accepted(p, ph)
<1>1. /\ party[p].mode = "collecting" /\ ph \notin party[p].completed /\ b # {}
      /\ Return(p, ph, b)
      /\ UNCHANGED <<file, mem, wire, view, draws, crashes, troubled>>
  BY DEF Recover, MayCollect, MayDecode, Recovers
<1>2. /\ ph \in PhaseSet /\ mem \in [Honest -> SUBSET Records] /\ file \in [Honest -> SUBSET Records]
      /\ mem[p] \in SUBSET Records /\ file[p] \in SUBSET Records
  BY OrderFacts DEF RuntimeInv, TypeInv, Process, Here
<1> HIDE DEF ph
<1>3. b = AcceptedIn(mem[p], p, ph) /\ b = AcceptedIn(file[p], p, ph) /\ Full(b)
  <2>1. BatchOK(p, ph)
    BY <1>2 DEF RuntimeInv, AcceptInv
  <2>2. b = AcceptedIn(mem[p], p, ph)
    BY DEF Accepted, AcceptedIn
  <2> HIDE DEF b
  <2>. QED
    BY <1>1, <2>1, <2>2 DEF BatchOK
<1> HIDE DEF b
<1>4. ASSUME NEW m \in b
      PROVE  /\ Record("accepted", m) \in mem[p] /\ Record("accepted", m) \in file[p]
             /\ m.phase = ph /\ m.to = To(p, ph) /\ m \in Messages
  <2>1. /\ Record("accepted", m) \in mem[p] /\ Record("accepted", m) \in file[p]
        /\ m.phase = ph /\ m.to = To(p, ph)
    <3>1. m \in AcceptedIn(mem[p], p, ph) /\ m \in AcceptedIn(file[p], p, ph)
      BY <1>3
    <3>2. Record("accepted", m) \in mem[p] /\ m.phase = ph /\ m.to = To(p, ph)
      BY ONLY <1>2, <3>1, AcceptedMember
    <3>3. Record("accepted", m) \in file[p]
      BY ONLY <1>2, <3>1, AcceptedMember
    <3>. QED
      BY <3>2, <3>3
  <2>. QED
    BY <1>2, <2>1, RecordFacts
<1>5. BatchFits(p, ph, b)
  <2>1. ASSUME NEW m \in b, NEW n \in b, m.from = n.from PROVE m = n
    <3>1. SameKey(Record("accepted", m), Record("accepted", n))
      BY <1>4, <2>1, RecordFacts DEF SameKey
    <3>2. Record("accepted", m) = Record("accepted", n)
      BY <1>4, <3>1 DEF RuntimeInv, LogInv
    <3>. QED
      BY <3>2, RecordFacts
  <2>2. ASSUME NEW m \in b
        PROVE  /\ m.from \in Honest => m \in wire
               /\ m.to = All => \A o \in Honest : m \in ViewOf(o)
    BY <1>4, RecordFacts DEF RuntimeInv, AcceptInv
  <2>. QED
    BY <1>3, <1>4, <2>1, <2>2 DEF BatchFits
<1>6. AcceptedRecords(b) \subseteq mem[p] /\ AcceptedRecords(b) \subseteq file[p]
  BY <1>4 DEF AcceptedRecords
<1>7. CollectStep(p, ph, b)
  <2>1. mem[p] \cup AcceptedRecords(b) = mem[p] /\ file[p] \cup AcceptedRecords(b) = file[p]
    BY <1>6
  <2>2. /\ mem' = [mem EXCEPT ![p] = @ \cup AcceptedRecords(b)]
        /\ file' = [file EXCEPT ![p] = @ \cup AcceptedRecords(b)]
    BY <1>1, <1>2, <2>1
  <2>3. /\ failures' \in 0 .. MaxFailure
        /\ \/ /\ party' = [party EXCEPT ![p] = Mark(@, ph)]
              /\ returned' = returned
           \/ /\ party' = [party EXCEPT ![p] = Advance(Mark(@, ph), Values(b))]
              /\ returned' = [returned EXCEPT ![p][ph] = @ \cup {Values(b)}]
    BY <1>1, ReturnFacts DEF RuntimeInv
  <2>. QED
    BY <1>1, <2>2, <2>3 DEF CollectStep
<1>. QED
  BY <1>1, <1>2, <1>5, <1>7, CollectPreserves DEF b, ph

\* A full batch from the transport, be it logged or not fit for its phase.
LEMMA AcceptCorrect ==
  ASSUME RuntimeInv, NEW p \in Honest, MayCollect(p), ~Recovers(p),
         NEW b \in SUBSET Messages, Full(b), Accept(p, b),
         \A m, n \in b : m.from = n.from => m = n,
         \A m \in b : m.to = To(p, Here(p)),
         \A m \in b : m.from \in Honest => m \in wire,
         \A m \in b : m.to = All => \A o \in Honest : m \in ViewOf(o)
  PROVE  RuntimeInv'
<1> DEFINE ph == Here(p)
           r == party[p]
<1>1. /\ ph \in PhaseSet /\ r \in Process /\ CallOK(r) /\ r.mode = "collecting"
      /\ mem \in [Honest -> SUBSET Records] /\ file \in [Honest -> SUBSET Records]
      /\ party \in [Honest -> Process]
  BY OrderFacts DEF RuntimeInv, TypeInv, Process, Here, MayCollect
<1>2. CASE ~Fits(b, ph)
  <2>1. /\ party' = [party EXCEPT ![p] = Mark(@, ph)]
        /\ UNCHANGED <<file, mem, wire, view, draws, crashes, failures, troubled, returned>>
    BY <1>2 DEF Accept
  <2>2. /\ Mark(r, ph) \in Process /\ CallOK(Mark(r, ph))
        /\ Mark(r, ph).completed = r.completed \cup {ph}
        /\ Mark(r, ph).at = r.at /\ Mark(r, ph).input = r.input
    <3>1. /\ Mark(r, ph) \in Process /\ Mark(r, ph).completed = r.completed \cup {ph}
          /\ Mark(r, ph).at = r.at /\ Mark(r, ph).input = r.input
          /\ Mark(r, ph).mode = r.mode /\ Mark(r, ph).todo = r.todo
      BY <1>1 DEF Process, Mark
    <3>. QED
      BY <1>1, <3>1 DEF CallOK
  <2>3. party' = [party EXCEPT ![p] = Mark(r, ph)]
    BY <1>1, <2>1
  <2>4. draws' \in [Honest -> 0 .. MaxDraw] /\ failures' \in 0 .. MaxFailure
    BY <2>1 DEF RuntimeInv, TypeInv
  <2>. QED
    BY <2>1, <2>2, <2>3, <2>4, LocalPreserves
<1>3. CASE Fits(b, ph)
  <2>1. PICK o \in Appends :
          /\ Persist(p, {Record("accepted", m) : m \in b}, o)
          /\ IF o = "ok" THEN Return(p, ph, b)
             ELSE /\ party' = [party EXCEPT ![p] = Mark(@, ph)]
                  /\ failures' = failures + 1
                  /\ UNCHANGED returned
    BY <1>3 DEF Accept
  <2>2. UNCHANGED <<wire, view, draws, crashes>>
    BY <1>3 DEF Accept
  <2>3. BatchFits(p, ph, b)
    BY <1>3 DEF Fits, BatchFits
  <2>4. /\ mem' = [mem EXCEPT ![p] = @ \cup AcceptedRecords(b)]
        /\ troubled' = IF o \in {"lost", "late"} THEN troubled \cup {p} ELSE troubled
        /\ file' = [file EXCEPT ![p] = @ \cup (IF o = "lost" THEN {} ELSE AcceptedRecords(b))]
    BY <2>1 DEF Persist, AcceptedRecords
  <2>5. CollectStep(p, ph, b)
    <3>1. CASE o = "ok"
      <4>1. Return(p, ph, b)
        BY <2>1, <3>1
      <4>. QED
        BY <2>2, <2>4, <3>1, <4>1, ReturnFacts DEF CollectStep, RuntimeInv
    <3>2. CASE o # "ok"
      <4>1. o \in {"lost", "late"} /\ MayFail
        BY <3>2 DEF Appends
      <4>2. failures' \in 0 .. MaxFailure
        BY <2>1, <3>2, <4>1, BoundAssumption DEF RuntimeInv, TypeInv, MayFail
      <4>3. CASE o = "lost"
        <5>1. file' = file
          BY <1>1, <2>4, <4>3
        <5>. QED
          BY <2>1, <2>2, <2>4, <3>2, <4>1, <4>2, <4>3, <5>1 DEF CollectStep
      <4>4. CASE o = "late"
        BY <2>1, <2>2, <2>4, <3>2, <4>1, <4>2, <4>4 DEF CollectStep
      <4>. QED
        BY <4>1, <4>3, <4>4
    <3>. QED
      BY <3>1, <3>2
  <2>6. Accepted(p, ph) = {}
    BY DEF Recovers
  <2>. QED
    BY <1>1, <2>3, <2>5, <2>6, CollectPreserves
<1>. QED
  BY <1>2, <1>3

LEMMA CollectDirectedCorrect ==
  ASSUME RuntimeInv, NEW p \in Honest, CollectDirected(p)
  PROVE  RuntimeInv'
<1>1. PICK b \in Batches(Held(p)) : Full(b) /\ Accept(p, b)
  BY DEF CollectDirected
<1>2. /\ MayCollect(p) /\ ~Recovers(p) /\ Here(p) \in Directed /\ p # All
  BY PhaseAssumption DEF CollectDirected
<1>3. b \subseteq Held(p) /\ \A m, n \in b : m.from = n.from => m = n
  BY <1>1 DEF Batches
<1>4. ASSUME NEW m \in b
      PROVE  m \in Messages /\ m.to = p /\ (m.from \in Honest => m \in wire)
  <2>1. m \in wire \cup FaultyShares /\ m.to = p
    BY <1>3 DEF Held
  <2>2. CASE m \in wire
    BY <2>1, <2>2 DEF RuntimeInv, TypeInv
  <2>3. CASE m \in FaultyShares
    BY <2>1, <2>3, FaultyFacts DEF Messages
  <2>. QED
    BY <2>1, <2>2, <2>3
<1>5. \A m \in b : m.to = To(p, Here(p)) /\ m.to # All
  BY <1>2, <1>4 DEF To
<1>. QED
  BY <1>1, <1>2, <1>3, <1>4, <1>5, AcceptCorrect

LEMMA CollectBroadcastCorrect ==
  ASSUME RuntimeInv, NEW p \in Honest, CollectBroadcast(p)
  PROVE  RuntimeInv'
<1>1. PICK b \in Checked(p) : Full(b) /\ Accept(p, b)
  BY DEF CollectBroadcast
<1>2. MayCollect(p) /\ ~Recovers(p) /\ Here(p) \notin Directed
  BY DEF CollectBroadcast
<1>3. /\ b \subseteq ViewOf(p) /\ \A m, n \in b : m.from = n.from => m = n
      /\ \A o \in Honest : b \subseteq ViewOf(o)
  BY <1>1 DEF Checked, Batches
<1>4. ASSUME NEW m \in b
      PROVE  m \in Messages /\ m.to = All /\ (m.from \in Honest => m \in wire)
  <2>1. (m \in wire /\ m.to = All) \/ m \in view[p]
    BY <1>3 DEF ViewOf
  <2>2. CASE m \in wire /\ m.to = All
    BY <2>2 DEF RuntimeInv, TypeInv
  <2>3. CASE m \in view[p]
    <3>1. m \in FaultyOpenings
      BY <2>3 DEF RuntimeInv, TypeInv
    <3>2. m \in Openings /\ m.from \notin Honest
      BY <3>1, FaultyFacts
    <3>. QED
      BY <3>2, MessageFacts DEF Messages
  <2>. QED
    BY <2>1, <2>2, <2>3
<1>5. \A m \in b : m.to = To(p, Here(p))
  BY <1>2, <1>4 DEF To
<1>. QED
  BY <1>1, <1>2, <1>3, <1>4, <1>5, AcceptCorrect
LEMMA StepCorrect == RuntimeInv /\ [Next]_vars => RuntimeInv'
<1> SUFFICES ASSUME RuntimeInv, [Next]_vars PROVE RuntimeInv'
  OBVIOUS
<1>1. ASSUME NEW p \in Honest, Resume(p) PROVE RuntimeInv'
  BY <1>1, ResumeCorrect
<1>2. ASSUME NEW p \in Honest, Crash(p) PROVE RuntimeInv'
  BY <1>2, CrashCorrect
<1>3. ASSUME NEW p \in Honest, StartDirected(p) PROVE RuntimeInv'
  BY <1>3, StartDirectedCorrect
<1>4. ASSUME NEW p \in Honest, SendShare(p) PROVE RuntimeInv'
  BY <1>4, SendShareCorrect
<1>5. ASSUME NEW p \in Honest, Broadcast(p) PROVE RuntimeInv'
  BY <1>5, BroadcastCorrect
<1>6. ASSUME NEW p \in Honest, Recover(p) PROVE RuntimeInv'
  BY <1>6, RecoverCorrect
<1>7. ASSUME NEW p \in Honest, CollectDirected(p) PROVE RuntimeInv'
  BY <1>7, CollectDirectedCorrect
<1>8. ASSUME NEW p \in Honest, CollectBroadcast(p) PROVE RuntimeInv'
  BY <1>8, CollectBroadcastCorrect
<1>9. ASSUME NEW o \in Honest, NEW m \in FaultyOpenings, Deliver(o, m) PROVE RuntimeInv'
  BY <1>9, DeliverCorrect
<1>10. CASE UNCHANGED vars
  BY <1>10
     DEF vars, RuntimeInv, TypeInv, ReturnedOK, LogInv, AcceptInv, BatchOK, ViewOf, InputInv,
         Derived, Here
<1>. QED
  BY <1>1, <1>2, <1>3, <1>4, <1>5, <1>6, <1>7, <1>8, <1>9, <1>10 DEF Next

LEMMA InvariantCorrect == Spec => []RuntimeInv
  BY InitCorrect, StepCorrect, PTL DEF Spec

(***************************************************************************)
(* What the invariant says of the properties.                              *)
(***************************************************************************)

LEMMA UniqueReturn ==
  ASSUME RuntimeInv, NEW p \in Honest, NEW ph \in PhaseSet,
         NEW v \in returned[p][ph], NEW w \in returned[p][ph]
  PROVE  v = w
  BY DEF RuntimeInv, AcceptInv, BatchOK

\* What was returned for a party is a message in the file of the receiver.
LEMMA ReturnedMessage ==
  ASSUME RuntimeInv, NEW p \in Honest, NEW ph \in PhaseSet, NEW v \in returned[p][ph],
         NEW q \in Parties
  PROVE  \E m \in Messages :
           /\ Record("accepted", m) \in mem[p]
           /\ m.phase = ph /\ m.from = q /\ m.to = To(p, ph) /\ m.val = v[q]
<1> DEFINE kept == AcceptedIn(file[p], p, ph)
<1>1. v = Values(kept) /\ Full(kept)
  BY DEF RuntimeInv, AcceptInv, BatchOK
<1>2. file[p] \in SUBSET Records /\ file[p] \subseteq mem[p]
  BY DEF RuntimeInv, TypeInv, LogInv
<1>3. PICK m \in kept : m.from = q /\ (CHOOSE n \in kept : n.from = q) = m
  BY <1>1 DEF Full
<1>4. v[q] = m.val
  BY <1>1, <1>3 DEF Values
<1>5. Record("accepted", m) \in file[p] /\ m.phase = ph /\ m.to = To(p, ph)
  BY ONLY <1>2, <1>3, AcceptedMember DEF kept
<1>6. m \in Messages
  BY <1>2, <1>5, RecordFacts
<1>. QED
  BY <1>2, <1>3, <1>4, <1>5, <1>6

\* The types of the logs, the processes and the history, and that a replay key has
\* one record (persist_wire_message never refuses a message).
THEOREM TypeCorrect == Spec => []TypeOK
<1>1. RuntimeInv => TypeOK
  <2> SUFFICES ASSUME RuntimeInv PROVE TypeOK
    OBVIOUS
  <2>1. ASSUME NEW p \in Honest, NEW r \in file[p] \cup mem[p] PROVE IsRecord(r)
    <3>1. r \in Records
      BY DEF RuntimeInv, TypeInv
    <3>2. r.msg \in Messages /\ r.dir \in {"sent", "accepted"}
      BY <3>1, RecordFacts
    <3>. QED
      BY <3>2, MessageFacts DEF IsRecord, Messages
  <2>2. ASSUME NEW p \in Honest PROVE IsProcess(party[p])
    <3>1. party[p] \in Process /\ CallOK(party[p])
      BY DEF RuntimeInv, TypeInv
    <3>. QED
      BY <3>1 DEF Process, CallOK, IsProcess
  <2>3. ASSUME NEW p \in Honest, NEW m \in view[p] PROVE m \in Openings
    BY FaultyFacts DEF RuntimeInv, TypeInv
  <2>. QED
    BY <2>1, <2>2, <2>3 DEF RuntimeInv, TypeInv, LogInv, ReturnedOK, TypeOK
<1>. QED
  BY <1>1, InvariantCorrect, PTL

\* SentOnce for any number of crashes, failures and draws: over all lives of a
\* party one message goes out under one replay key.
THEOREM SentOnceCorrect == Spec => []SentOnce
<1>1. RuntimeInv => SentOnce
  <2> SUFFICES ASSUME RuntimeInv, NEW m \in wire, NEW n \in wire, m.from \notin troubled,
                      m.from = n.from, m.phase = n.phase, m.to = n.to
               PROVE  m = n
    BY DEF SentOnce
  <2>1. /\ m.from \in Honest
        /\ Record("sent", m) \in mem[m.from] /\ Record("sent", n) \in mem[m.from]
    BY DEF RuntimeInv, TypeInv, LogInv
  <2>2. SameKey(Record("sent", m), Record("sent", n))
    BY RecordFacts DEF SameKey
  <2>3. Record("sent", m) = Record("sent", n)
    BY <2>1, <2>2 DEF RuntimeInv, LogInv
  <2>. QED
    BY <2>3, RecordFacts
<1>. QED
  BY <1>1, InvariantCorrect, PTL

\* StableInput: a restart computes with the values of the lives before it.
THEOREM StableInputCorrect == Spec => []StableInput
<1>1. RuntimeInv => StableInput
  <2> SUFFICES ASSUME RuntimeInv, NEW p \in Honest, NEW ph \in PhaseSet
               PROVE  Cardinality(returned[p][ph]) <= 1
    BY DEF StableInput
  <2>1. CASE returned[p][ph] = {}
    <3>1. Cardinality({}) = 0
      BY FS_EmptySet
    <3>. QED
      BY <2>1, <3>1
  <2>2. CASE returned[p][ph] # {}
    <3>1. PICK v : v \in returned[p][ph]
      BY <2>2
    <3>2. returned[p][ph] = {v}
      BY <3>1, UniqueReturn
    <3>. QED
      <4>1. Cardinality({v}) = 1
        BY FS_Singleton
      <4>. QED
        BY <3>2, <4>1
  <2>. QED
    BY <2>1, <2>2
<1>. QED
  BY <1>1, InvariantCorrect, PTL

\* CollectedIsLogged: what is computed with is in its sender's file, so that no
\* crash of the sender can change it.
THEOREM CollectedIsLoggedCorrect == Spec => []CollectedIsLogged
<1>1. RuntimeInv => CollectedIsLogged
  <2> SUFFICES ASSUME RuntimeInv, NEW p \in Honest, NEW q \in Honest \ troubled,
                      NEW ph \in PhaseSet, NEW v \in returned[p][ph]
               PROVE  Record("sent", [phase |-> ph, from |-> q, to |-> To(p, ph), val |-> v[q]])
                        \in file[q]
    BY DEF CollectedIsLogged
  <2>1. PICK m \in Messages :
          /\ Record("accepted", m) \in mem[p]
          /\ m.phase = ph /\ m.from = q /\ m.to = To(p, ph) /\ m.val = v[q]
    BY ReturnedMessage, PhaseAssumption
  <2>2. m \in wire
    BY <2>1, RecordFacts DEF RuntimeInv, AcceptInv
  <2>3. Record("sent", m) \in file[q]
    BY <2>1, <2>2 DEF RuntimeInv, LogInv
  <2>4. m = [phase |-> ph, from |-> q, to |-> To(p, ph), val |-> v[q]]
    BY <2>1, MessageFacts
  <2>. QED
    BY <2>3, <2>4
<1>. QED
  BY <1>1, InvariantCorrect, PTL

\* Agreement, for any number of parties and whatever the others send: honest parties
\* that collected a broadcast phase hold the same vector.  The entry of an honest
\* party is what that party computed from its one input, even if it logged nothing;
\* that of another is in the view of everybody.
THEOREM AgreementCorrect == Spec => []Agreement
<1>1. RuntimeInv => Agreement
  <2> SUFFICES ASSUME RuntimeInv, NEW p \in Honest, NEW q \in Honest,
                      NEW ph \in PhaseSet \ Directed,
                      NEW v \in returned[p][ph], NEW w \in returned[q][ph]
               PROVE  v = w
    BY DEF Agreement
  <2>1. v \in [Parties -> Vec] /\ w \in [Parties -> Vec]
    BY DEF RuntimeInv, TypeInv, ReturnedOK
  <2>2. ASSUME NEW s \in Parties PROVE v[s] = w[s]
    <3>1. PICK m \in Messages :
            /\ Record("accepted", m) \in mem[p]
            /\ m.phase = ph /\ m.from = s /\ m.to = To(p, ph) /\ m.val = v[s]
      BY ReturnedMessage
    <3>2. PICK n \in Messages :
            /\ Record("accepted", n) \in mem[q]
            /\ n.phase = ph /\ n.from = s /\ n.to = To(q, ph) /\ n.val = w[s]
      BY ReturnedMessage
    <3>3. m.to = All /\ n.to = All
      BY <3>1, <3>2 DEF To
    <3>4. CASE s \in Honest
      <4>1. m \in wire /\ n \in wire
        BY <3>1, <3>2, <3>4, RecordFacts DEF RuntimeInv, AcceptInv
      <4>2. Derived(m) /\ Derived(n)
        BY <3>3, <4>1 DEF RuntimeInv, InputInv
      <4>3. PICK i \in 2 .. Len(Phases) : ph = Phases[i] /\ m.val \in returned[s][Phases[i - 1]]
        BY <3>1, <4>2 DEF Derived
      <4>4. PICK j \in 2 .. Len(Phases) : ph = Phases[j] /\ n.val \in returned[s][Phases[j - 1]]
        BY <3>2, <4>2 DEF Derived
      <4>5. i = j /\ Phases[i - 1] \in PhaseSet
        <5>1. Len(Phases) \in Nat /\ i \in 1 .. Len(Phases) /\ j \in 1 .. Len(Phases)
              /\ i - 1 \in 1 .. Len(Phases)
          BY OrderFacts
        <5>2. i = j
          BY <4>3, <4>4, <5>1, PhaseAssumption
        <5>. QED
          BY <5>1, <5>2, OrderFacts
      <4>6. m.val = n.val
        BY <3>4, <4>3, <4>4, <4>5, UniqueReturn
      <4>. QED
        BY <3>1, <3>2, <4>6
    <3>5. CASE s \notin Honest
      <4>1. m \in ViewOf(p) /\ n \in ViewOf(p)
        BY <3>1, <3>2, <3>3, RecordFacts DEF RuntimeInv, AcceptInv
      <4>2. m \notin wire /\ n \notin wire
        BY <3>1, <3>2, <3>5 DEF RuntimeInv, TypeInv
      <4>3. m \in view[p] /\ n \in view[p]
        BY <4>1, <4>2 DEF ViewOf
      <4>4. m = n
        BY <3>1, <3>2, <4>3 DEF RuntimeInv, AcceptInv
      <4>. QED
        BY <3>1, <3>2, <4>4
    <3>. QED
      BY <3>4, <3>5
  <2>. QED
    BY <2>1, <2>2
<1>. QED
  BY <1>1, InvariantCorrect, PTL

\* LivesAgree: over all restarts, draws and failures a party whose appends were not
\* troubled sends one message per replay key and computes with one input per phase.
THEOREM LivesAgreeCorrect == Spec => []LivesAgree
<1>1. SentOnce /\ StableInput => LivesAgree
  BY DEF LivesAgree
<1>. QED
  BY <1>1, SentOnceCorrect, StableInputCorrect, PTL

\* PartiesAgree: what honest parties collected is in the file of its honest sender,
\* and of a broadcast phase they collected the same, whatever the others send.
THEOREM PartiesAgreeCorrect == Spec => []PartiesAgree
<1>1. CollectedIsLogged /\ Agreement => PartiesAgree
  BY DEF PartiesAgree
<1>. QED
  BY <1>1, CollectedIsLoggedCorrect, AgreementCorrect, PTL
=============================================================================
