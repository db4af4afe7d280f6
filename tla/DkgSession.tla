----------------------------- MODULE DkgSession -----------------------------
(***************************************************************************)
(* The setup of a native DKG, one session per party (NativeDkgSession of   *)
(* talus-dkg/src/lib.rs): the bounded residues of every coefficient, the   *)
(* IT-VSS precommitments of every vector, the public coins of every label, *)
(* the final commitments with their audit and consistency records, the     *)
(* private deliveries, which may turn out not to verify, the complaints    *)
(* about them, and the resolution that certifies the sharings.             *)
(*                                                                         *)
(* The phases of the code run in one order, so a phase with its position   *)
(* (coefficient, vector, label) is one ROUND, a number.  A session keeps   *)
(* its wire-message log and its latest phase cursor on disk, and its       *)
(* phase, its inboxes and its outbound queue in memory.  advance() is a    *)
(* loop; each of its iterations is one action, cut by a crash or a failed  *)
(* append before any of its durable writes.                                *)
(***************************************************************************)
EXTENDS Integers, FiniteSets, Sequences, SequencesExt

CONSTANTS Party,       \* the parties of the DkgConfig
          NResidues,   \* coefficients of the secret vectors s1 and s2 together
          NVectors,    \* secret vectors that are shared (native_dkg_session_vectors)
          MaxFaults    \* bound on the crashes and failed appends of a behaviour

ASSUME SetupAssumption ==
  /\ IsFiniteSet(Party) /\ Cardinality(Party) > 1
  /\ NResidues \in Nat \ {0} /\ NVectors \in Nat \ {0} /\ MaxFaults \in Nat

VARIABLES disk,      \* per party: the wire log, the latest cursor
          session,   \* per party: the memory of its process
          link,      \* per sender and receiver: messages the application carries
          refused,   \* parties whose resume returned an error
          faults     \* crashes and failed appends so far

dkgVars == <<disk, session, link, refused, faults>>

(***************************************************************************)
(* Rounds.                                                                 *)
(***************************************************************************)
LastPrecommit == NResidues + NVectors
Commitments   == LastPrecommit + NVectors * Cardinality(Party) + 1
Audits        == Commitments + 1
Consistency   == Commitments + 2
Shares        == Commitments + 3   \* the private deliveries, and their check
SetupComplete == Commitments + 4
Complaint     == Commitments + 5   \* no round of its own: advance() collects none

Residues    == 1..NResidues
Precommits  == (NResidues + 1)..LastPrecommit
Coins       == (LastPrecommit + 1)..(Commitments - 1)
OwnSend     == Residues \cup Precommits \cup Coins
Round       == 1..SetupComplete

(* A message of party p for round i, to the parties of `to'. *)
Message(p, i, to) == [from |-> p, round |-> i, to |-> to]
Broadcast(p, i)   == Message(p, i, Party)
Mine == [p \in Party |-> {Broadcast(p, i) : i \in 1..Consistency}
                           \cup {Message(p, Shares, {q}) : q \in Party \ {p}}
                           \cup {Broadcast(p, Complaint)}]

SubPhase == {"none", "residue", "precommit", "coin", "commitments", "audits",
             "consistency", "unnamed", "shares", "verified", "complaints",
             "resolution", "certified"}
Cursor(i, state, name) == [round |-> i, state |-> state, name |-> name]

(* The sub-phase a cursor of round i names; a residue cursor also names its   *)
(* coefficient, the others carry no position that a resume reads.             *)
NameOf(i) == CASE i \in Residues   -> "residue"
               [] i \in Precommits -> "precommit"
               [] i \in Coins      -> "coin"
               [] i = Commitments  -> "commitments"
               [] i = Audits       -> "audits"
               [] i = Consistency  -> "consistency"
CursorOf(i, state) == Cursor(IF i \in Residues THEN i ELSE 0, state, NameOf(i))

(***************************************************************************)
(* Disk and memory of a party.                                             *)
(***************************************************************************)
(* Of the log of all cursors only the release gate reads more than the latest *)
(* one: `passed' are the sub-phases whose required cursor was ever written.   *)
(* `invalid' are the dealers whose accepted delivery does not verify.         *)
EmptyDisk == [sent |-> <<>>, accepted |-> {}, cursor |-> Cursor(0, "Sent", "none"),
              passed |-> {}, invalid |-> {}, resolved |-> FALSE]

NoMessages == [s \in Party |-> <<>>]

Process(i, sent, outbound) ==
  [up |-> TRUE, busy |-> TRUE, at |-> i, sent |-> sent, prepared |-> TRUE,
   inbox |-> NoMessages, outbound |-> outbound]

Down == [Process(1, FALSE, <<>>) EXCEPT !.up = FALSE, !.busy = FALSE]

DkgInit ==
  /\ disk = [p \in Party |-> EmptyDisk]
  /\ session = [p \in Party |-> Process(1, FALSE, <<>>)]
  /\ link = [s \in Party |-> NoMessages]
  /\ refused = {}
  /\ faults = 0

(***************************************************************************)
(* Durable writes.  The wire log keeps one record per replay key, and a    *)
(* repeated write of the same message is accepted without a second line.   *)
(***************************************************************************)
Send(m)          == [op |-> "send", msg |-> m]
AcceptLine(s, i) == [op |-> "accept", msg |-> <<s, i>>]
Mark(c)          == [op |-> "cursor", msg |-> c]
Resolve          == [op |-> "resolve", msg |-> 0]

(* A delivery that does not verify, as its log line holds it.                 *)
AcceptInvalid(s) == [op |-> "invalid", msg |-> s]

Required == SubPhase \ {"none", "residue", "unnamed"}

PassedBy(c) == {n \in Required \cap {c.name} :
                  c.state = IF n = "complaints" THEN "Sent" ELSE "Collected"}

Written(d, w) ==
  CASE w.op = "send"    -> IF w.msg \in ToSet(d.sent) THEN d
                           ELSE [d EXCEPT !.sent = Append(@, w.msg)]
    [] w.op = "accept"  -> [d EXCEPT !.accepted = @ \cup {w.msg}]
    [] w.op = "cursor"  -> [d EXCEPT !.cursor = w.msg, !.passed = @ \cup PassedBy(w.msg)]
    [] w.op = "invalid" -> [d EXCEPT !.accepted = @ \cup {<<w.msg, Shares>>},
                                     !.invalid = @ \cup {w.msg}]
    [] w.op = "resolve" -> [d EXCEPT !.resolved = TRUE]

WrittenTo(d, ws) ==
  LET after[k \in 0..Len(ws)] == IF k = 0 THEN d ELSE Written(after[k - 1], ws[k])
  IN  after[Len(ws)]

(* What the transport is given along the way: each message once its log line *)
(* is on disk.                                                               *)
Sends(ws) ==
  LET upto[k \in 0..Len(ws)] ==
        IF k = 0 THEN <<>>
        ELSE IF ws[k].op = "send" THEN Append(upto[k - 1], ws[k].msg) ELSE upto[k - 1]
  IN  upto[Len(ws)]

(* One iteration of advance() for party p: it takes the memory from `before'  *)
(* (messages already out of the inbox, prepared sharings already taken) to    *)
(* `after' through the writes ws.  A crash between two writes loses the       *)
(* memory; a write that fails returns the error and leaves the phase.         *)
Perform(p, ws, before, after) ==
  /\ \/ /\ disk' = [disk EXCEPT ![p] = WrittenTo(@, ws)]
        /\ session' = [session EXCEPT ![p] = [after EXCEPT !.outbound = @ \o Sends(ws)]]
        /\ UNCHANGED faults
     \/ \E k \in 0..(Len(ws) - 1) :
          LET done == SubSeq(ws, 1, k) IN
          /\ faults < MaxFaults
          /\ faults' = faults + 1
          /\ disk' = [disk EXCEPT ![p] = WrittenTo(@, done)]
          /\ \E left \in {Down, [before EXCEPT !.busy = FALSE,
                                               !.outbound = @ \o Sends(done)]} :
               session' = [session EXCEPT ![p] = left]
  /\ UNCHANGED <<link, refused>>

(* advance() works on a round only while nothing waits to be sent. *)
Works(p, rounds) ==
  /\ session[p].busy
  /\ session[p].outbound = <<>>
  /\ session[p].at \in rounds

(* advance() returns: there is something to send, or the setup is complete. *)
Return(p) ==
  /\ session[p].busy
  /\ session[p].outbound # <<>> \/ session[p].at = SetupComplete
  /\ session' = [session EXCEPT ![p].busy = FALSE]
  /\ UNCHANGED <<disk, link, refused, faults>>

(***************************************************************************)
(* Sending: the residue of a coefficient, the precommitment of a vector,   *)
(* the coin share of a label.                                              *)
(***************************************************************************)
SendRound(p) ==
  LET me == session[p] IN
  /\ Works(p, OwnSend)
  /\ ~me.sent
  /\ Perform(p, <<Send(Broadcast(p, me.at)), Mark(CursorOf(me.at, "Sent"))>>,
             me, [me EXCEPT !.sent = TRUE])

(* The final commitments.  The prepared sharings are taken out of memory, so  *)
(* that an iteration that failed in its middle cannot be run again before a   *)
(* restart prepares them again.                                               *)
Deliveries(p, to) == [n \in DOMAIN to |-> Send(Message(p, Shares, {to[n]}))]

FinalWrites(p, to) ==
  <<Send(Broadcast(p, Commitments)), Send(Broadcast(p, Audits)),
    Mark(CursorOf(Audits, "Sent")), Send(Broadcast(p, Consistency)),
    Mark(CursorOf(Consistency, "Sent"))>> \o Deliveries(p, to)

Everyone(p, i) == \A s \in Party : <<s, i>> \in disk[p].accepted

Finalize(p) ==
  LET me == session[p] IN
  /\ Works(p, {Commitments})
  /\ ~me.sent
  /\ IF me.prepared /\ \A i \in Coins : Everyone(p, i)
     THEN Perform(p, FinalWrites(p, SetToSeq(Party \ {p})),
                  [me EXCEPT !.prepared = FALSE],
                  [me EXCEPT !.prepared = FALSE, !.sent = TRUE, !.busy = FALSE])
     ELSE Perform(p, <<>>, me, [me EXCEPT !.busy = FALSE])

(***************************************************************************)
(* Collecting.  The transport takes the first message of every sender that *)
(* fits the round: for residues any message of the residue round, whatever *)
(* its coefficient, for the others the message of this vector or label.    *)
(***************************************************************************)
Senders(p, i) == IF i = Shares THEN Party \ {p} ELSE Party
Fits(i, j)    == IF i \in Residues THEN j \in Residues ELSE j = i

Positions(p, s) == {n \in DOMAIN session[p].inbox[s] :
                      Fits(session[p].at, session[p].inbox[s][n])}

(* (Mutant: a newer message of the sender overtakes the first one.)          *)
ChosenLatest(p, s) == CHOOSE n \in Positions(p, s) : \A m \in Positions(p, s) : m <= n
Chosen(p, s) == CHOOSE n \in Positions(p, s) : \A m \in Positions(p, s) : n <= m

(* (Mutant: a party does not wait for its own broadcast to come back.)       *)
ArrivedOthers(p) == \A s \in Senders(p, session[p].at) \ {p} : Positions(p, s) # {}
Arrived(p) == \A s \in Senders(p, session[p].at) : Positions(p, s) # {}

Taken(p, s) == IF s \in Senders(p, session[p].at) /\ Positions(p, s) # {}
               THEN session[p].inbox[s][Chosen(p, s)] ELSE 0

Without(p) == [s \in Party |-> IF Taken(p, s) = 0 THEN session[p].inbox[s]
                               ELSE RemoveAt(session[p].inbox[s], Chosen(p, s))]

(* The log lines of the messages taken, in the order they were delivered.     *)
Logs(p) == LET from == {s \in Party : Taken(p, s) # 0} IN
           {[n \in DOMAIN o |-> AcceptLine(o[n], Taken(p, o[n]))] :
              o \in {f \in [1..Cardinality(from) -> from] : IsInjective(f)}}

Wait(p, cursor) ==
  Perform(p, <<Mark(cursor)>>, session[p], [session[p] EXCEPT !.busy = FALSE])

(* A round is over when every taken message belongs to it.  A residue round   *)
(* that took a message of another coefficient has consumed all of them, marks *)
(* the coefficient collected, and keeps waiting for it.                       *)
CollectRound(p) ==
  LET me   == session[p]
      rest == [me EXCEPT !.inbox = Without(p)]
  IN
  /\ Works(p, 1..Consistency)
  /\ me.at \in OwnSend \cup {Commitments} => me.sent
  /\ IF Arrived(p)
     THEN \E logs \in Logs(p) :
            Perform(p, Append(logs, Mark(CursorOf(me.at, "Collected"))), rest,
                    IF \A s \in Party : Taken(p, s) \in {0, me.at}
                    THEN [rest EXCEPT !.at = @ + 1, !.sent = FALSE]
                    ELSE [rest EXCEPT !.busy = FALSE])
     ELSE Wait(p, CursorOf(me.at, "Waiting"))

(* The private deliveries are collected and checked, and the dealers of those *)
(* that do not verify are complained about.  Without a complaint of its own   *)
(* the party logs the resolution that certifies the sharings; with one the    *)
(* resolver aborts, and the call returns its error.  Nobody waits for the     *)
(* complaints of the others.  The cursors of a wait and of a complaint that   *)
(* was sent name no sub-phase.                                                *)
Delivered(logs, invalid) ==
  [n \in DOMAIN logs |-> IF logs[n].msg[1] \in invalid
                         THEN AcceptInvalid(logs[n].msg[1]) ELSE logs[n]]

Verified(complaints) ==
  <<Mark(Cursor(0, "Collected", "shares")), Mark(Cursor(0, "Collected", "verified"))>>
    \o complaints \o <<Mark(Cursor(0, "Sent", "complaints"))>>

Complain(p) == <<Send(Broadcast(p, Complaint)), Mark(Cursor(0, "Sent", "unnamed"))>>

CertifyWrites == <<Resolve, Mark(Cursor(0, "Collected", "resolution")),
                   Mark(Cursor(0, "Collected", "certified"))>>

(* What a dealer delivered is settled once its line is in the log.            *)
Verdicts(p) == {invalid \in SUBSET (Party \ {p}) :
                  \A s \in Party : <<s, Shares>> \in disk[p].accepted =>
                                     (s \in invalid <=> s \in disk[p].invalid)}

VerifyShares(p) ==
  LET me   == session[p]
      rest == [me EXCEPT !.inbox = Without(p)]
  IN
  /\ Works(p, {Shares})
  /\ IF Arrived(p)
     THEN \E logs \in Logs(p), invalid \in Verdicts(p) :
            IF invalid = {}
            THEN Perform(p, logs \o Verified(<<>>) \o CertifyWrites, rest,
                         [rest EXCEPT !.at = SetupComplete])
            ELSE Perform(p, Delivered(logs, invalid) \o Verified(Complain(p)), rest,
                         [rest EXCEPT !.busy = FALSE])
     ELSE Wait(p, Cursor(0, "Waiting", "unnamed"))

(***************************************************************************)
(* The application: it takes all a session has to send, carries it in      *)
(* order, a broadcast back to its sender too, and hands it over.  The      *)
(* processes share nothing, so nothing moves while one is inside advance().*)
(***************************************************************************)
Idle(p) == session[p].up /\ \A q \in Party : ~session[q].busy

RoundsTo(ms, q) ==
  LET upto[k \in 0..Len(ms)] ==
        IF k = 0 THEN <<>>
        ELSE IF q \in ms[k].to THEN Append(upto[k - 1], ms[k].round) ELSE upto[k - 1]
  IN  upto[Len(ms)]

Route(p) ==
  /\ Idle(p)
  /\ session[p].outbound # <<>>
  /\ link' = [link EXCEPT ![p] =
                [q \in Party |-> @[q] \o RoundsTo(session[p].outbound, q)]]
  /\ session' = [session EXCEPT ![p].outbound = <<>>]
  /\ UNCHANGED <<disk, refused, faults>>

Handle(s, p) ==
  /\ Idle(p)
  /\ link[s][p] # <<>>
  /\ link' = [link EXCEPT ![s][p] = Tail(@)]
  /\ session' = [session EXCEPT ![p].inbox[s] = Append(@, Head(link[s][p])),
                                ![p].busy = TRUE]
  /\ UNCHANGED <<disk, refused, faults>>

(***************************************************************************)
(* Restart.                                                                *)
(***************************************************************************)
Crash(p) ==
  /\ Idle(p)
  /\ faults < MaxFaults
  /\ faults' = faults + 1
  /\ session' = [session EXCEPT ![p] = Down]
  /\ UNCHANGED <<disk, link, refused>>

(* The first round of a set of consecutive ones that the log does not hold    *)
(* whole, or the round behind them.                                           *)
FirstOpen(p, rounds) ==
  CHOOSE i \in rounds \cup {CHOOSE n \in Round : n - 1 \in rounds /\ n \notin rounds} :
    /\ i \in rounds => ~Everyone(p, i)
    /\ \A j \in rounds : j < i => Everyone(p, j)

At(i, sent) == [at |-> i, sent |-> sent]

(* resume_phase_from_logs.                                                    *)
(* (Mutant: deliveries that were collected count as certified.)               *)
CertifiedIfDelivered(p) ==
  disk[p].cursor.name \in {"certified", "shares"} \/ disk[p].resolved
Certified(p) == disk[p].cursor.name = "certified" \/ disk[p].resolved

PhaseFromLogs(p) ==
  LET c == disk[p].cursor
      collected == c.state = "Collected"
      Reopen(rounds) == LET i == FirstOpen(p, rounds)
                        IN  At(i, ~collected /\ i \in rounds)
  IN
  IF c.name = "none" THEN At(1, FALSE)
  ELSE IF Certified(p) THEN At(SetupComplete, FALSE)
  ELSE
  CASE c.name = "residue"        -> IF collected THEN At(c.round + 1, FALSE)
                                    ELSE At(c.round, TRUE)
    [] c.name = "precommit"      -> Reopen(Precommits)
    [] c.name = "coin"           -> Reopen(Coins)
    [] c.name = "commitments"    -> IF collected THEN At(Audits, FALSE)
                                    ELSE At(Commitments, TRUE)
    [] c.name = "audits"         -> At(IF collected THEN Consistency ELSE Audits, FALSE)
    [] c.name = "consistency"    -> At(Audits, FALSE)
    [] c.name = "unnamed"        -> At(1, FALSE)
    [] OTHER                     -> At(Shares, FALSE)

(* The phases behind the commitments are entered with the commitments of      *)
(* everyone, which the log must hold.                                         *)
Resumes(p) ==
  PhaseFromLogs(p).at \in {Audits, Consistency, Shares} => Everyone(p, Commitments)

(* resume_sent_messages.                                                      *)
(* (Mutant: the log is replayed without looking at the sender.)               *)
ReplayAll(p) == disk[p].sent \o SetToSeq({Broadcast(a[1], a[2]) : a \in disk[p].accepted})
Replay(p) == disk[p].sent

Resume(p) ==
  /\ ~session[p].up /\ \A q \in Party : ~session[q].busy
  /\ p \notin refused
  /\ IF Resumes(p)
     THEN /\ session' = [session EXCEPT ![p] =
                           Process(PhaseFromLogs(p).at, PhaseFromLogs(p).sent, Replay(p))]
          /\ UNCHANGED refused
     ELSE /\ refused' = refused \cup {p}
          /\ UNCHANGED session
  /\ UNCHANGED <<disk, link, faults>>

(***************************************************************************)
(* The release gate over the cursors: the latest one is a collected one,   *)
(* and every sub-phase has its cursor.                                     *)
(***************************************************************************)
MayRelease(p) == disk[p].cursor.state = "Collected" /\ Required \subseteq disk[p].passed

-----------------------------------------------------------------------------
Advance(p) == Return(p) \/ SendRound(p) \/ Finalize(p) \/ CollectRound(p) \/ VerifyShares(p)

Progress == \E p \in Party : \/ Advance(p) \/ Route(p)
                             \/ \E s \in Party : Handle(s, p)

DkgNext == Progress \/ \E p \in Party : Crash(p) \/ Resume(p)

DkgSpec == DkgInit /\ [][DkgNext]_dkgVars

-----------------------------------------------------------------------------
(* The records stay in their domains.  A session replays and sends messages  *)
(* of its own party only, and keeps messages for its own rounds.             *)
DkgTypeOK ==
  /\ \A p \in Party :
       /\ ToSet(disk[p].sent) \subseteq Mine[p]
       /\ disk[p].accepted \subseteq Party \X (1..Shares)
       /\ disk[p].cursor \in [round : 0..NResidues, name : SubPhase,
                              state : {"Sent", "Waiting", "Collected"}]
       /\ disk[p].passed \subseteq Required /\ disk[p].invalid \subseteq Party \ {p}
       /\ disk[p].resolved \in BOOLEAN
       /\ ToSet(session[p].outbound) \subseteq Mine[p]
       /\ session[p].at \in Round
       /\ \A s \in Party : ToSet(session[p].inbox[s]) \cup ToSet(link[s][p])
            \subseteq (1..Shares) \cup {Complaint}
       /\ session[p].busy => session[p].up
  /\ refused \subseteq Party
  /\ faults \in 0..MaxFaults

Released(p, i) == \E n \in DOMAIN disk[p].sent : disk[p].sent[n].round = i

(* A public coin is worth something only if it is drawn after everyone has    *)
(* bound himself: no party releases a share of any coin, over any restart,    *)
(* before its log holds the precommitments of all parties for all vectors,    *)
(* and all of them are on the disks of their senders.                         *)
CoinsFollowPrecommitments ==
  \A p \in Party : (\E i \in Coins : Released(p, i)) =>
    \A i \in Precommits : Everyone(p, i) /\ \A q \in Party : Released(q, i)

(* A private delivery leaves a party only when its commitments, audit records *)
(* and consistency records are on its disk, and every coin is known to it,    *)
(* wherever the run was cut and whatever was run again.                       *)
SharesFollowCommitments ==
  \A p \in Party : Released(p, Shares) =>
    /\ \A i \in {Commitments, Audits, Consistency} : Released(p, i)
    /\ \A i \in Coins : Everyone(p, i)

(* Both together: whatever is cut and run again, a party releases nothing that *)
(* another one could still answer by choosing anew.                            *)
BindingComesFirst == CoinsFollowPrecommitments /\ SharesFollowCommitments

(* A session that calls its setup complete, and a party whose cursors pass the *)
(* release gate, which looks at no message, has everyone's precommitments,    *)
(* coins, commitments, audit and consistency records, all private deliveries  *)
(* to it, valid ones, and the resolution in its log: no restart jumps over a  *)
(* check, and a dispute of its own stays one.                                 *)
CompleteIsWhole ==
  \A p \in Party : (session[p].up /\ session[p].at = SetupComplete) \/ MayRelease(p) =>
    /\ disk[p].resolved /\ disk[p].invalid = {}
    /\ \A i \in Precommits \cup Coins : Everyone(p, i)
    /\ \A i \in {Commitments, Audits, Consistency} : Everyone(p, i)
    /\ \A s \in Party \ {p} : <<s, Shares>> \in disk[p].accepted

(* Without a crash, a failed append or an invalid delivery the setup runs to   *)
(* its end in every order of the deliveries that keeps the order of each       *)
(* sender: when no message is queued or under way and no call is running,      *)
(* everyone is done and everyone's cursors pass the release gate.              *)
Quiet == \A p \in Party : /\ ~session[p].busy /\ session[p].outbound = <<>>
                           /\ \A s \in Party : link[s][p] = <<>>

QuietIsComplete ==
  (faults = 0 /\ Quiet /\ \A p \in Party : disk[p].invalid = {}) =>
    \A p \in Party : session[p].at = SetupComplete /\ MayRelease(p)

(* docs/it-vss-rabin-ben-or.md:136: "Unresolved IC or polynomial-consistency   *)
(* disputes abort the VSS instance", and :150: "No accepted VSS output may be  *)
(* created from an aborted or incomplete session".  When every message of a    *)
(* dispute has arrived, no party calls its setup complete.                     *)
DisputeAborts ==
  (Quiet /\ \E q \in Party : Released(q, Complaint)) =>
    \A p \in Party : ~(session[p].up /\ session[p].at = SetupComplete)
=============================================================================
