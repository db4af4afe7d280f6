------------------------- MODULE PreprocessingSession -------------------------
(***************************************************************************)
(* The commit/open rounds of one preprocessing session                     *)
(* (talus-mpc/src/local.rs): every signer broadcasts a commitment to its   *)
(* masked nonce material, opens it once it holds the commitments of all,   *)
(* and certifies a token from the openings after reserving the session id  *)
(* in its durable registry.                                                *)
(*                                                                         *)
(* The application owns the transport.  Its reliable broadcast shows every *)
(* party the same message of a sender in a round; it delivers in any       *)
(* order, again after a refusal, or twice.  A refused delivery returns an  *)
(* error and changes nothing, so it is no step here.  Sessions live in     *)
(* memory: a crash loses them, and the application starts them again from  *)
(* the nonce share it kept.  Faulty signers commit and open what they like.*)
(***************************************************************************)
EXTENDS Integers, Sequences, FiniteSets, SequencesExt

CONSTANTS
  Setups,   \* who signs, who is faulty, what certifies, how much may be lost
  Payloads, \* masked material, its proof and its salt
  Usable,   \* payloads of this transcript whose input validates
  Input     \* what each party's local input masks to

Everyone == UNION {s.signers : s \in Setups}

\* Openings certify if they pass every check of certification.  losses bounds
\* the crashes, early finishes and starts of a finished id.
ASSUME SessionAssumption ==
  /\ Usable \subseteq Payloads
  /\ Input \in [Everyone -> Usable]
  /\ \A s \in Setups :
       /\ s.signers \subseteq Nat /\ IsFiniteSet(s.signers)
       /\ s.faulty \subseteq s.signers
       /\ s.certifiable \subseteq [s.signers -> Usable]
       /\ s.losses \in Nat

VARIABLES
  setup,     \* the member of Setups this behaviour is about
  channel,   \* messages the reliable broadcast carries
  registry,  \* parties whose registry file holds the session id
  session,   \* each party's session, in memory
  minted,    \* history: the tokens each party's finish returned
  losses     \* how many of the setup's losses have happened

vars == <<setup, channel, registry, session, minted, losses>>

Parties == setup.signers
Faulty == setup.faulty
Honest == Parties \ Faulty

\* The commitment hashes the sender's own id with the material.
Commitment(p, v) == [party |-> p, payload |-> v]
Commitments == [party : Parties, payload : Payloads]
NoCommitment == [party |-> -1, payload |-> "none"]

CommitMessage(p, c) == [round |-> "PreprocessCommit", sender |-> p, commitment |-> c]
OpenMessage(p, v) == [round |-> "PreprocessOpen", sender |-> p, payload |-> v]
LocalCommit(p) == CommitMessage(p, Commitment(p, Input[p]))
LocalOpen(p) == OpenMessage(p, Input[p])

Messages ==
  {CommitMessage(p, c) : p \in Parties, c \in Commitments}
    \cup {OpenMessage(p, v) : p \in Parties, v \in Payloads}

Opening == [party : Parties, payload : Usable]

\* A token: the openings in party order, and the input behind its y_share.
Token == [broadcasts : Seq(Opening), yShare : Payloads]

SessionState ==
  [status : {"none", "running", "over"},
   known : BOOLEAN,          \* the registry's copy in memory holds the id
   commits : [Parties -> Commitments \cup {NoCommitment}],
   inputs : Seq(Opening),    \* in order of arrival
   openSent : BOOLEAN,
   outbound : Seq(Messages)]

NotRunning(status) ==
  [status |-> status, known |-> FALSE, commits |-> [p \in Parties |-> NoCommitment],
   inputs |-> <<>>, openSent |-> FALSE, outbound |-> <<>>]

TypeOK ==
  /\ setup \in Setups
  /\ channel \subseteq Messages
  /\ registry \subseteq Honest
  /\ session \in [Honest -> SessionState]
  /\ minted \in [Honest -> Seq(Token)]
  /\ losses \in 0 .. setup.losses

Lose == losses < setup.losses /\ losses' = losses + 1

Init ==
  /\ setup \in Setups
  /\ channel = {}
  /\ registry = {}
  /\ session = [p \in Honest |-> NotRunning("none")]
  /\ minted = [p \in Honest |-> <<>>]
  /\ losses = 0

(***************************************************************************)
(* PreprocessingSession::start, with the registry opened just before.      *)
(* Nothing looks the id up: a party may start an id it has used.           *)
(***************************************************************************)
Started(p) ==
  [NotRunning("running") EXCEPT !.known = p \in registry, !.outbound = <<LocalCommit(p)>>]

Start(p) ==
  /\ session[p].status # "running"
  /\ session' = [session EXCEPT ![p] = Started(p)]
  /\ IF session[p].status = "over" THEN Lose ELSE UNCHANGED losses
  /\ UNCHANGED <<setup, channel, registry, minted>>

NextOutbound(p) ==
  /\ session[p].outbound # <<>>
  /\ channel' = channel \cup {Head(session[p].outbound)}
  /\ session' = [session EXCEPT ![p].outbound = Tail(@)]
  /\ UNCHANGED <<setup, registry, minted, losses>>

\* mutant: one commitment short
HasAllCommitsButOne(s) == Cardinality({p \in Parties : s.commits[p] = NoCommitment}) <= 1

HasAllCommits(s) == \A p \in Parties : s.commits[p] # NoCommitment

\* advance: the local opening follows the last commitment.
Advance(p, s) ==
  IF ~s.openSent /\ HasAllCommits(s)
    THEN [s EXCEPT !.outbound = Append(@, LocalOpen(p)), !.openSent = TRUE]
    ELSE s

InsertCommit(s, m) ==
  /\ m.round = "PreprocessCommit"
  /\ s.commits[m.sender] = NoCommitment

\* mutant: the input is not validated
InsertOpenUnvalidated(s, m) ==
  /\ m.round = "PreprocessOpen"
  /\ \A i \in DOMAIN s.inputs : s.inputs[i].party # m.sender
  /\ s.commits[m.sender] = Commitment(m.sender, m.payload)

InsertOpen(s, m) ==
  /\ m.round = "PreprocessOpen"
  /\ \A i \in DOMAIN s.inputs : s.inputs[i].party # m.sender
  /\ s.commits[m.sender] = Commitment(m.sender, m.payload)
  /\ m.payload \in Usable

WithCommit(s, m) == [s EXCEPT !.commits[m.sender] = m.commitment]
WithOpening(s, m) ==
  [s EXCEPT !.inputs = Append(@, [party |-> m.sender, payload |-> m.payload])]

\* mutant: without the advance
HandleCommitOnly(p, m) ==
  /\ session[p].status = "running"
  /\ InsertCommit(session[p], m)
  /\ session' = [session EXCEPT ![p] = WithCommit(@, m)]
  /\ UNCHANGED <<setup, channel, registry, minted, losses>>

\* handle_broadcast of a message it accepts.
HandleCommit(p, m) ==
  /\ session[p].status = "running"
  /\ InsertCommit(session[p], m)
  /\ session' = [session EXCEPT ![p] = Advance(p, WithCommit(@, m))]
  /\ UNCHANGED <<setup, channel, registry, minted, losses>>

HandleOpen(p, m) ==
  /\ session[p].status = "running"
  /\ InsertOpen(session[p], m)
  /\ session' = [session EXCEPT ![p] = Advance(p, WithOpening(@, m))]
  /\ UNCHANGED <<setup, channel, registry, minted, losses>>

HandleBroadcast(p) == \E m \in channel : HandleCommit(p, m) \/ HandleOpen(p, m)

(***************************************************************************)
(* finish consumes the session, whatever it returns.                       *)
(***************************************************************************)
\* ensure_complete
Complete(s) ==
  /\ HasAllCommits(s)
  /\ Len(s.inputs) = Cardinality(Parties)
  /\ s.outbound = <<>>

FinishEarly(p) ==
  /\ session[p].status = "running"
  /\ ~Complete(Advance(p, session[p]))
  /\ Lose
  /\ session' = [session EXCEPT ![p] = NotRunning("none")]
  /\ UNCHANGED <<setup, channel, registry, minted>>

\* The openings in the order of their parties: the i-th is the one with i parties
\* up to its own.
SortedByParty(S) ==
  [i \in 1 .. Cardinality(S) |->
    CHOOSE b \in S : Cardinality({c \in S : c.party <= b.party}) = i]

Openings(s) ==
  [p \in Parties |-> s.inputs[CHOOSE i \in DOMAIN s.inputs : s.inputs[i].party = p].payload]

\* mutant: the openings stay in order of arrival
CertifyUnsorted(p, s) ==
  IF Openings(s) \in setup.certifiable
    THEN [minted EXCEPT ![p] = Append(@, [broadcasts |-> s.inputs, yShare |-> Input[p]])]
    ELSE minted

\* certify_opened_masked_broadcasts_with_consistency: reserve, then sort and check.
Certify(p, s) ==
  IF Openings(s) \in setup.certifiable
    THEN [minted EXCEPT ![p] =
           Append(@, [broadcasts |-> SortedByParty(ToSet(s.inputs)), yShare |-> Input[p]])]
    ELSE minted

\* FileSessionRegistry::reserve: "unsynced" wrote the line and returned an error.
Reserve(p, o) ==
  registry' = IF o = "failed" THEN registry ELSE registry \cup {p}

FinishComplete(p, o) ==
  /\ session[p].status = "running"
  /\ Complete(Advance(p, session[p]))
  /\ session' = [session EXCEPT ![p] = NotRunning("over")]
  /\ IF session[p].known
       THEN UNCHANGED <<registry, minted>>
       ELSE /\ Reserve(p, o)
            /\ minted' = IF o = "ok" THEN Certify(p, session[p]) ELSE minted
  /\ UNCHANGED <<setup, channel, losses>>

Finish(p) == \E o \in {"ok", "failed", "unsynced"} : FinishComplete(p, o)

Crash(p) ==
  /\ session[p].status = "running"
  /\ Lose
  /\ session' = [session EXCEPT ![p] = NotRunning("none")]
  /\ UNCHANGED <<setup, channel, registry, minted>>

(***************************************************************************)
(* A faulty signer broadcasts at most one message in each round.           *)
(***************************************************************************)
FaultyBroadcast(q, m) ==
  /\ m.sender = q
  /\ \A n \in channel : ~(n.sender = q /\ n.round = m.round)
  /\ channel' = channel \cup {m}
  /\ UNCHANGED <<setup, registry, session, minted, losses>>

Next ==
  \/ \E p \in Honest :
       \/ Start(p) \/ NextOutbound(p) \/ HandleBroadcast(p)
       \/ FinishEarly(p) \/ Finish(p) \/ Crash(p)
  \/ \E q \in Faulty, m \in Messages : FaultyBroadcast(q, m)

\* The application starts a session it lost, carries messages until they are
\* accepted, and finishes a session that is complete.
Fairness ==
  \A p \in Everyone :
    /\ WF_vars(p \in Honest /\ session[p].status = "none" /\ Start(p))
    /\ WF_vars(p \in Honest /\ NextOutbound(p))
    /\ WF_vars(p \in Honest /\ HandleBroadcast(p))
    /\ WF_vars(p \in Honest /\ Finish(p))

Spec == Init /\ [][Next]_vars
FairSpec == Spec /\ Fairness

(***************************************************************************)
(* Properties.                                                             *)
(***************************************************************************)

\* Nonce material is revealed only when nobody can choose theirs any more: an
\* honest opening is on the broadcast only after every signer's commitment,
\* also when its session was lost and started again.
CommitBeforeOpen ==
  \A p \in Honest : LocalOpen(p) \in channel =>
    \A q \in Parties :
      \E m \in channel : m.round = "PreprocessCommit" /\ m.sender = q

\* Whatever reaches a token was committed to on the broadcast by its sender, so
\* with CommitBeforeOpen no signer picks its share after seeing an honest one.
OpenedAsCommitted ==
  \A p \in Honest : \A t \in ToSet(minted[p]) : \A b \in ToSet(t.broadcasts) :
    CommitMessage(b.party, Commitment(b.party, b.payload)) \in channel

\* Both together: the nonce shares of a token were fixed before any honest one of
\* them was to be seen.
BoundBeforeOpen == CommitBeforeOpen /\ OpenedAsCommitted

\* Tokens of one session id are the same at every party in spite of the order
\* of delivery, and each holds the y share behind its own opening.
TokensAgree ==
  \A p, q \in Honest : \A t \in ToSet(minted[p]), u \in ToSet(minted[q]) :
    /\ t.broadcasts = u.broadcasts
    /\ [party |-> p, payload |-> t.yShare] \in ToSet(t.broadcasts)

\* Without faulty signers every party gets to the end of a finish, past losses
\* and reordering: no opening is refused for good and none is never sent.
EveryoneFinishes ==
  \A p \in Everyone :
    []<>(Faulty = {} /\ p \in Parties => session[p].status = "over")
=============================================================================
