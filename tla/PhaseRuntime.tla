---------------------------- MODULE PhaseRuntime ----------------------------
(***************************************************************************)
(* The prime-field MPC runtime of one party of the DKG                     *)
(* (talus-dkg/src/power2round.rs): the cursored runtime that drives a      *)
(* circuit phase by phase over the application's transport, the durable    *)
(* wire log under it, and the transport contract of talus-wire.  Every     *)
(* circuit of Power2Round is a sequence of such phases.                    *)
(*                                                                         *)
(* A directed phase deals a fresh sharing: the shares of one drive are     *)
(* told apart by the draw of coefficients they come from.  A broadcast     *)
(* phase opens a value computed from what the phase before it returned,    *)
(* and stands for that input.  The circuit state of the application lives  *)
(* in memory, so that after a restart it drives its phases from the first. *)
(* The phase cursor that every call persists at its end is read by nobody  *)
(* but the application: only that its append may fail matters here.  A log *)
(* whose last line is torn is refused when it is opened; a party that      *)
(* stops that way has left the model.                                      *)
(***************************************************************************)
EXTENDS Naturals, Sequences, FiniteSets

CONSTANTS
  Order,           \* config.parties, in their order
  Honest,          \* the parties that run this code
  Phases,          \* the phases of the circuit, in their order
  Directed,        \* those over private channels; the others are broadcast
  FaultyShares,    \* what the parties that are not honest may send, and send again
  FaultyOpenings,  \* and what they may broadcast
  MaxDraw,         \* bound: drives of directed phases of a party, over its lives
  MaxCrash,        \* bound: crashes, in all
  MaxFailure,      \* bound: appends and sends that fail, in all
  All, Stray, NoVec

Parties == {Order[i] : i \in 1 .. Len(Order)}
PhaseSet == {Phases[i] : i \in 1 .. Len(Phases)}
Faulty == Parties \ Honest
Draws == 1 .. MaxDraw
Vec == [Parties -> Draws]

ASSUME BoundAssumption == MaxDraw \in Nat /\ MaxCrash \in Nat /\ MaxFailure \in Nat

ASSUME PhaseAssumption ==
  /\ Order \in Seq(Parties) /\ Phases \in Seq(PhaseSet)
  /\ \A i, j \in 1 .. Len(Order) : Order[i] = Order[j] => i = j
  /\ \A i, j \in 1 .. Len(Phases) : Phases[i] = Phases[j] => i = j
  /\ Honest \subseteq Parties
  /\ Directed \subseteq PhaseSet
  /\ Len(Phases) > 0 /\ Phases[1] \in Directed
  /\ \A i \in 1 .. Len(Phases) - 1 : Phases[i] \in Directed \/ Phases[i + 1] \in Directed
  /\ Stray \notin PhaseSet /\ All \notin Parties /\ NoVec \notin Vec

VARIABLES
  file,      \* the wire log of each party, as its file holds it
  mem,       \* and as FilePrimeFieldMpcWireMessageLog holds it in memory
  party,     \* the process of each party
  wire,      \* the honest parties' messages that ever reached the transport
  view,      \* the broadcasts of the others that each party was delivered
  draws,     \* history: drives of directed phases, the coefficients of each fresh
  crashes,   \* history: crashes
  failures,  \* history: appends and sends that failed
  troubled,  \* history: parties an append to the wire log of which has failed
  returned   \* history: what the collects of each phase returned, over all lives

vars == <<file, mem, party, wire, view, draws, crashes, failures, troubled, returned>>

(***************************************************************************)
(* WireMessage and PrimeFieldMpcWireMessageRecord.  The replay key of a    *)
(* record is all of it but the value.                                      *)
(***************************************************************************)
Shares == [phase : Directed \cup {Stray}, from : Parties, to : Parties, val : Draws]
Openings == [phase : (PhaseSet \ Directed) \cup {Stray}, from : Parties, to : {All}, val : Vec]

ASSUME FaultyAssumption ==
  /\ FaultyShares \subseteq {m \in Shares : m.from \in Faulty}
  /\ FaultyOpenings \subseteq {m \in Openings : m.from \in Faulty}

Record(dir, m) == [dir |-> dir, msg |-> m]

SameKey(r, s) ==
  /\ r.dir = s.dir
  /\ r.msg.phase = s.msg.phase
  /\ r.msg.from = s.msg.from
  /\ r.msg.to = s.msg.to

To(p, ph) == IF ph \in Directed THEN p ELSE All

IsRecord(r) ==
  /\ r.dir \in {"sent", "accepted"}
  /\ IF r.msg.to = All THEN r.msg \in Openings ELSE r.msg \in Shares

(***************************************************************************)
(* The process of a party.  It drives the phase at, or collects it; todo   *)
(* are the receivers the drive has not reached.  input is what the phase   *)
(* before returned in this life, completed the list mark_completed keeps.  *)
(***************************************************************************)
Down == [mode |-> "down", at |-> 1, todo |-> <<>>, draw |-> 0, input |-> NoVec,
         completed |-> {}]

Here(p) == Phases[party[p].at]

IsProcess(r) ==
  /\ r.mode \in {"down", "idle", "driving", "collecting", "done"}
  /\ r.at \in 1 .. Len(Phases)
  /\ Len(r.todo) <= Len(Order)
  /\ r.draw \in 0 .. MaxDraw
  /\ r.input \in Vec \cup [Parties -> Vec] \cup {NoVec}
  /\ r.completed \subseteq PhaseSet

TypeOK ==
  /\ \A p \in Honest :
       /\ \A r \in file[p] \cup mem[p] : IsRecord(r)
       /\ \A r, s \in mem[p] : SameKey(r, s) => r = s
       /\ file[p] \subseteq mem[p]
       /\ IsProcess(party[p])
       /\ \A m \in view[p] : m \in Openings
       /\ draws[p] \in 0 .. MaxDraw
       /\ \A ph \in PhaseSet : \A v \in returned[p][ph] :
            IF ph \in Directed THEN v \in Vec ELSE v \in [Parties -> Vec]
  /\ \A m \in wire : m.from \in Honest
  /\ crashes \in 0 .. MaxCrash
  /\ failures \in 0 .. MaxFailure
  /\ troubled \subseteq Honest

Init ==
  /\ file = [p \in Honest |-> {}]
  /\ mem = [p \in Honest |-> {}]
  /\ party = [p \in Honest |-> Down]
  /\ wire = {}
  /\ view = [p \in Honest |-> {}]
  /\ draws = [p \in Honest |-> 0]
  /\ crashes = 0
  /\ failures = 0
  /\ troubled = {}
  /\ returned = [p \in Honest |-> [ph \in PhaseSet |-> {}]]

(***************************************************************************)
(* FilePrimeFieldMpcWireMessageLog::persist_wire_message and               *)
(* persist_wire_messages: records that are known already are skipped, the  *)
(* others enter the memory, then the file.  A failed append leaves the     *)
(* memory ahead, or the line may have reached the file after all.  Another *)
(* message under a known key would be refused; TypeOK says that none ever  *)
(* comes up.                                                               *)
(***************************************************************************)
\* (Mutant: the file is the last to know, at the next append.)
PersistLazily(p, records, o) ==
  /\ mem' = [mem EXCEPT ![p] = @ \cup records]
  /\ file' = [file EXCEPT ![p] = mem[p]]
  /\ troubled' = IF o \in {"lost", "late"} THEN troubled \cup {p} ELSE troubled

Persist(p, records, o) ==
  /\ mem' = [mem EXCEPT ![p] = @ \cup records]
  /\ file' = [file EXCEPT ![p] = @ \cup (IF o = "lost" THEN {} ELSE records)]
  /\ troubled' = IF o \in {"lost", "late"} THEN troubled \cup {p} ELSE troubled

MayFail == failures < MaxFailure
Appends == {"ok"} \cup (IF MayFail THEN {"lost", "late"} ELSE {})
Sends == {"ok"} \cup (IF MayFail THEN {"failed"} ELSE {})

\* persist_status: whether the cursor was appended.
Statuses == {"ok"} \cup (IF MayFail THEN {"failed"} ELSE {})

\* find_sent_wire_message
LoggedSent(p, ph, to) ==
  {r.msg : r \in {s \in mem[p] : s.dir = "sent" /\ s.msg.phase = ph /\ s.msg.to = to}}

Accepted(p, ph) ==
  {r.msg : r \in {s \in mem[p] : s.dir = "accepted" /\ s.msg.phase = ph /\ s.msg.to = To(p, ph)}}

(***************************************************************************)
(* resume: every sent message of the log goes to the transport again, the  *)
(* private ones first.  If the transport fails the application starts over.*)
(***************************************************************************)
Resume(p) ==
  /\ party[p].mode = "down"
  /\ LET logged == {r.msg : r \in {s \in mem[p] : s.dir = "sent"}} IN
     \/ /\ wire' = wire \cup logged
        /\ party' = [party EXCEPT ![p] = [Down EXCEPT !.mode = "idle"]]
        /\ UNCHANGED failures
     \/ /\ MayFail
        /\ failures' = failures + 1
        /\ \E some \in SUBSET (logged \ wire) : wire' = wire \cup some
        /\ UNCHANGED party
  /\ UNCHANGED <<file, mem, view, draws, crashes, troubled, returned>>

Crash(p) ==
  /\ party[p].mode # "down"
  /\ crashes < MaxCrash
  /\ crashes' = crashes + 1
  /\ party' = [party EXCEPT ![p] = Down]
  /\ mem' = [mem EXCEPT ![p] = file[p]]
  /\ UNCHANGED <<file, wire, view, draws, failures, troubled, returned>>

(***************************************************************************)
(* drive_mul_vec_degree_reduction, drive_random_bit_contribution_vec: the  *)
(* caller's entropy gives fresh coefficients, then every receiver gets a   *)
(* share.  An error ends the drive, and the application may repeat it.     *)
(***************************************************************************)
StartDirected(p) ==
  /\ party[p].mode = "idle"
  /\ Here(p) \in Directed
  /\ draws[p] < MaxDraw
  /\ draws' = [draws EXCEPT ![p] = @ + 1]
  /\ party' = [party EXCEPT ![p] =
                 [@ EXCEPT !.mode = "driving", !.todo = Order, !.draw = draws[p] + 1]]
  /\ UNCHANGED <<file, mem, wire, view, crashes, failures, troubled, returned>>

\* What is sent under a key: the logged message, else the one just built.
\* (Mutant: always the one just built.)
ToSendRebuilt(p, m) == m

ToSend(p, m) ==
  IF LoggedSent(p, m.phase, m.to) = {} THEN m
  ELSE CHOOSE logged \in LoggedSent(p, m.phase, m.to) : TRUE

\* send_directed_phase_vec_logged and broadcast_phase_vec_logged, and the status:
\* the log, then the transport, then the cursor, and the call ends at the first
\* that fails.
SendLogged(p, m, ok) ==
  LET msg == ToSend(p, m) IN
  \E o \in Appends, s \in Sends, c \in Statuses :
    /\ LoggedSent(p, m.phase, m.to) # {} => o = "ok"
    /\ o # "ok" => s = "ok"
    /\ o # "ok" \/ s # "ok" => c = "ok"
    /\ Persist(p, {Record("sent", msg)}, o)
    /\ wire' = IF o = "ok" /\ s = "ok" THEN wire \cup {msg} ELSE wire
    /\ ok = (o = "ok" /\ s = "ok" /\ c = "ok")
    /\ failures' = IF ok THEN failures ELSE failures + 1

AfterShare(r) ==
  IF Len(r.todo) = 1 THEN [r EXCEPT !.mode = "collecting", !.todo = <<>>, !.draw = 0]
  ELSE [r EXCEPT !.todo = Tail(@)]

Abort(r) == [r EXCEPT !.mode = "idle", !.todo = <<>>, !.draw = 0]

\* drive_send_directed_phase_vec for the next receiver.
SendShare(p) ==
  LET ph == Here(p)
      m == [phase |-> ph, from |-> p, to |-> Head(party[p].todo), val |-> party[p].draw]
  IN
  /\ party[p].mode = "driving"
  /\ \E ok \in BOOLEAN :
       /\ SendLogged(p, m, ok)
       /\ party' = [party EXCEPT ![p] = IF ok THEN AfterShare(@) ELSE Abort(@)]
  /\ UNCHANGED <<view, draws, crashes, returned>>

\* drive_broadcast_phase_vec
Broadcast(p) ==
  LET ph == Here(p)
      m == [phase |-> ph, from |-> p, to |-> All, val |-> party[p].input]
  IN
  /\ party[p].mode = "idle"
  /\ ph \notin Directed
  /\ \E ok \in BOOLEAN :
       /\ SendLogged(p, m, ok)
       /\ party' = [party EXCEPT ![p].mode = IF ok THEN "collecting" ELSE "idle"]
  /\ UNCHANGED <<view, draws, crashes, returned>>

(***************************************************************************)
(* The transport.  What a party holds when it collects is what was ever    *)
(* sent to it and not cleared: the transport may lose, delay, repeat and   *)
(* reorder.  Two messages of one sender are refused with an error that     *)
(* changes nothing, and are left out.                                      *)
(***************************************************************************)
Held(p) == {m \in wire \cup FaultyShares : m.to = p}

Batches(messages) ==
  {b \in SUBSET messages : \A m, n \in b : m.from = n.from => m = n}

\* SynchronousBroadcastContract: for a sender and a round an observer is delivered
\* one message.  What the honest parties broadcast is in everybody's view once the
\* transport has it; a party that is not honest may tell each observer something
\* else.  Stray stands for a message of another label.
Deliver(o, m) ==
  /\ ~ \E n \in view[o] : n.from = m.from /\ n.phase = m.phase
  /\ view' = [view EXCEPT ![o] = @ \cup {m}]
  /\ UNCHANGED <<file, mem, party, wire, draws, crashes, failures, troubled, returned>>

ViewOf(o) == {m \in wire : m.to = All} \cup view[o]

(***************************************************************************)
(* decode_vector_values: the phase is marked, then the payloads are looked *)
(* at.                                                                     *)
(***************************************************************************)
MayDecode(p, ph) == ph \notin party[p].completed

Fits(b, ph) == \A m \in b : m.phase = ph

Mark(r, ph) == [r EXCEPT !.completed = @ \cup {ph}]

Values(b) == [q \in Parties |-> (CHOOSE m \in b : m.from = q).val]

Full(b) == {m.from : m \in b} = Parties

\* The values go to the circuit, which turns to its next phase.
Advance(r, values) ==
  IF r.at = Len(Phases) THEN [r EXCEPT !.mode = "done"]
  ELSE [r EXCEPT !.mode = "idle", !.at = @ + 1, !.input = values]

\* The rest of a collect: values of the decoded batch are returned when the
\* status was persisted, and lost to the caller otherwise.
Return(p, ph, b) ==
  \/ /\ party' = [party EXCEPT ![p] = Advance(Mark(@, ph), Values(b))]
     /\ returned' = [returned EXCEPT ![p][ph] = @ \cup {Values(b)}]
     /\ UNCHANGED failures
  \/ /\ MayFail
     /\ failures' = failures + 1
     /\ party' = [party EXCEPT ![p] = Mark(@, ph)]
     /\ UNCHANGED returned

(***************************************************************************)
(* collect_or_recover_directed_vec_phase and ..._broadcast_vec_phase.  A   *)
(* call that finds its phase marked fails, one that finds fewer messages   *)
(* than parties in the mailbox or in a view waits: both change nothing.    *)
(***************************************************************************)
MayCollect(p) == party[p].mode = "collecting" /\ MayDecode(p, Here(p))

\* An accepted record of the phase is in the log: no look at the transport.
Recovers(p) == Accepted(p, Here(p)) # {}

Recover(p) ==
  /\ MayCollect(p)
  /\ Recovers(p)
  /\ Return(p, Here(p), Accepted(p, Here(p)))
  /\ UNCHANGED <<file, mem, wire, view, draws, crashes, troubled>>

\* A full batch: it fits and is logged, or it spoils the phase for this life.
Accept(p, b) ==
  LET ph == Here(p) IN
  IF ~Fits(b, ph)
  THEN /\ party' = [party EXCEPT ![p] = Mark(@, ph)]
       /\ UNCHANGED <<file, mem, wire, view, draws, crashes, failures, troubled, returned>>
  ELSE /\ \E o \in Appends :
            /\ Persist(p, {Record("accepted", m) : m \in b}, o)
            /\ IF o = "ok" THEN Return(p, ph, b)
               ELSE /\ party' = [party EXCEPT ![p] = Mark(@, ph)]
                    /\ failures' = failures + 1
                    /\ UNCHANGED returned
       /\ UNCHANGED <<wire, view, draws, crashes>>

CollectDirected(p) ==
  /\ MayCollect(p)
  /\ Here(p) \in Directed
  /\ ~Recovers(p)
  /\ \E b \in Batches(Held(p)) : Full(b) /\ Accept(p, b)

\* collect_equivocation_checked_round: all views hold the same messages.  A view
\* that differs fails the call and changes nothing; so does that of a party that
\* is not honest, which is asked for nothing else.
\* (Mutant: the party looks at its own view.)
CheckedOwn(p) == Batches(ViewOf(p))
Checked(p) == {b \in Batches(ViewOf(p)) : \A o \in Honest : b \subseteq ViewOf(o)}

CollectBroadcast(p) ==
  /\ MayCollect(p)
  /\ Here(p) \notin Directed
  /\ ~Recovers(p)
  /\ \E b \in Checked(p) : Full(b) /\ Accept(p, b)

Next ==
  \/ \E p \in Honest :
       \/ Resume(p) \/ Crash(p)
       \/ StartDirected(p) \/ SendShare(p) \/ Broadcast(p)
       \/ Recover(p) \/ CollectDirected(p) \/ CollectBroadcast(p)
  \/ \E o \in Honest, m \in FaultyOpenings : Deliver(o, m)

Spec == Init /\ [][Next]_vars

(***************************************************************************)
(* Properties                                                              *)
(***************************************************************************)

\* What a party hands to the transport under one replay key is one message, over
\* all its lives, whatever it drew or computed again after a restart: its peers
\* hold one share each and one opening.  A party whose append has failed may be
\* ahead of its file, and is excepted.
SentOnce ==
  \A m, n \in wire :
    m.from \notin troubled /\ m.from = n.from /\ m.phase = n.phase /\ m.to = n.to => m = n

\* The values a collect returned are those every later life of the party gets
\* from the phase.
StableInput ==
  \A p \in Honest : \A ph \in PhaseSet : Cardinality(returned[p][ph]) <= 1

\* A value that a collect returned for an honest sender is in the sender's file, as
\* sent to this receiver in this phase: a crash of the sender cannot make it deal
\* or open something else.
CollectedIsLogged ==
  \A p \in Honest, q \in Honest \ troubled : \A ph \in PhaseSet : \A v \in returned[p][ph] :
    Record("sent", [phase |-> ph, from |-> q, to |-> To(p, ph), val |-> v[q]]) \in file[q]

\* Both together: a restart changes neither what a party says nor what it computes with.
LivesAgree == SentOnce /\ StableInput

\* Two honest parties that collected a broadcast phase hold the same vector,
\* whatever a party that is not honest told each observer.
Agreement ==
  \A p, q \in Honest : \A ph \in PhaseSet \ Directed :
    \A v \in returned[p][ph], w \in returned[q][ph] : v = w

\* Both together: what honest parties have collected is durable at its sender, and
\* the same at everybody.
PartiesAgree == CollectedIsLogged /\ Agreement

\* The shares of a party's multiplication lie on one polynomial.
\* talus.md, 1624: resume replays sent messages "without regenerating masks,
\* shares, or openings".  No run checks it: it fails after a restart in the middle of
\* a drive (README, known divergences).
OneSharing ==
  \A m, n \in wire :
    m.phase \in Directed /\ m.phase = n.phase /\ m.from = n.from => m.val = n.val
=============================================================================
