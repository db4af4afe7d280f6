---------------------- MODULE PreprocessingSessionProofs ----------------------
(***************************************************************************)
(* For any signers, payloads and faulty subset, any order of delivery and  *)
(* any number of losses: the types of a preprocessing session, that its    *)
(* material is bound before it is opened, and that the tokens of one       *)
(* session id agree.                                                       *)
(*                                                                         *)
(* The argument goes through the broadcast: it holds one message of a      *)
(* sender in a round, a session in memory holds nothing the broadcast      *)
(* does not, and neither does a token.  So commitments fix openings, and   *)
(* the openings of every party sort into one sequence only.                *)
(***************************************************************************)
EXTENDS PreprocessingSession, FiniteSetTheorems, TLAPS

(***************************************************************************)
(* Sorting openings of different parties keeps exactly them, and a party's *)
(* place is the number of parties up to it.                                *)
(***************************************************************************)
UpTo(S, b) == {c \in S : c.party <= b.party}

DifferentParties(S) == \A b, c \in S : b.party = c.party => b = c

LEMMA PlacesAreTaken ==
  ASSUME NEW S, IsFiniteSet(S), \A b \in S : b.party \in Nat, DifferentParties(S)
  PROVE  /\ \A b \in S : Cardinality(UpTo(S, b)) \in 1 .. Cardinality(S)
         /\ \A i \in 1 .. Cardinality(S) : \E b \in S : Cardinality(UpTo(S, b)) = i
         /\ \A b, c \in S : Cardinality(UpTo(S, b)) = Cardinality(UpTo(S, c)) => b = c
<1> DEFINE n == Cardinality(S)
           place == [b \in S |-> Cardinality(UpTo(S, b))]
<1>1. n \in Nat
  BY FS_CardinalityType
<1>2. ASSUME NEW b \in S
      PROVE  IsFiniteSet(UpTo(S, b)) /\ Cardinality(UpTo(S, b)) \in 1 .. n
  <2>1. UpTo(S, b) \in SUBSET S /\ b \in UpTo(S, b)
    BY DEF UpTo
  <2>2. IsFiniteSet(UpTo(S, b)) /\ Cardinality(UpTo(S, b)) <= n
    BY <2>1, FS_Subset
  <2>3. Cardinality(UpTo(S, b)) \in Nat /\ Cardinality(UpTo(S, b)) # 0
    BY <2>1, <2>2, FS_CardinalityType, FS_EmptySet
  <2>. QED
    BY <1>1, <2>2, <2>3
<1>3. ASSUME NEW b \in S, NEW c \in S, b.party < c.party
      PROVE  Cardinality(UpTo(S, b)) # Cardinality(UpTo(S, c))
  <2>1. UpTo(S, b) \in SUBSET UpTo(S, c) /\ c \in UpTo(S, c) /\ c \notin UpTo(S, b)
    BY <1>3 DEF UpTo
  <2>2. IsFiniteSet(UpTo(S, c))
    BY <1>2
  <2>. QED
    BY <2>1, <2>2, FS_Subset
<1>4. ASSUME NEW b \in S, NEW c \in S, Cardinality(UpTo(S, b)) = Cardinality(UpTo(S, c))
      PROVE  b = c
  <2>1. b.party \in Nat /\ c.party \in Nat
    OBVIOUS
  <2>2. ~(b.party < c.party) /\ ~(c.party < b.party)
    BY <1>3, <1>4
  <2>3. b.party = c.party
    BY <2>1, <2>2
  <2>. QED
    BY <2>3 DEF DifferentParties
<1>5. place \in Injection(S, 1 .. n)
  BY <1>2, <1>4 DEF Injection, IsInjective
<1>6. IsFiniteSet(1 .. n) /\ Cardinality(1 .. n) = n
  BY <1>1, FS_Interval
<1>7. place \in Surjection(S, 1 .. n)
  BY <1>5, <1>6, FS_Injection
<1>8. \A i \in 1 .. n : \E b \in S : Cardinality(UpTo(S, b)) = i
  BY <1>7 DEF Surjection
<1>. QED
  BY <1>2, <1>4, <1>8

LEMMA SortingKeepsAll ==
  ASSUME NEW S, IsFiniteSet(S), \A b \in S : b.party \in Nat, DifferentParties(S)
  PROVE  /\ SortedByParty(S) \in Seq(S)
         /\ ToSet(SortedByParty(S)) = S
<1> DEFINE n == Cardinality(S)
           at(i) == CHOOSE b \in S : Cardinality(UpTo(S, b)) = i
<1>1. n \in Nat
  BY FS_CardinalityType
<1>2. SortedByParty(S) = [i \in 1 .. n |-> at(i)]
  BY DEF SortedByParty, UpTo
<1>3. \A i \in 1 .. n : at(i) \in S /\ Cardinality(UpTo(S, at(i))) = i
  BY PlacesAreTaken
<1>4. \A b \in S : Cardinality(UpTo(S, b)) \in 1 .. n
  BY PlacesAreTaken
<1>5. \A b, c \in S : Cardinality(UpTo(S, b)) = Cardinality(UpTo(S, c)) => b = c
  BY PlacesAreTaken
<1>6. \A b \in S : at(Cardinality(UpTo(S, b))) = b
  <2> HIDE DEF at
  <2>. QED
    BY <1>3, <1>4, <1>5
<1> HIDE DEF at, n
<1>7. SortedByParty(S) \in Seq(S)
  BY <1>1, <1>2, <1>3
<1>8. DOMAIN SortedByParty(S) = 1 .. n /\ \A i \in 1 .. n : SortedByParty(S)[i] = at(i)
  BY <1>2
<1>9. ToSet(SortedByParty(S)) = S
  BY <1>3, <1>4, <1>6, <1>8 DEF ToSet
<1>. QED
  BY <1>7, <1>9

(***************************************************************************)
(* The inductive invariant.                                                *)
(***************************************************************************)
IsCommitOf(m, q) == m.round = "PreprocessCommit" /\ m.sender = q

\* One message of a sender in a round, and from an honest sender its own material.
BroadcastIsSound ==
  /\ \A m, n \in channel : m.sender = n.sender /\ m.round = n.round => m = n
  /\ \A m \in channel : m.sender \in Honest => m \in {LocalCommit(m.sender), LocalOpen(m.sender)}

\* A session of party p holds commitments the broadcast shows and openings of them,
\* one for each party, and it has opened only with every commitment in hand.
Sound(parties, shown, p, s) ==
  /\ \A q \in parties : s.commits[q] # NoCommitment => CommitMessage(q, s.commits[q]) \in shown
  /\ s.openSent => \A q \in parties : s.commits[q] # NoCommitment
  /\ \A i \in DOMAIN s.outbound :
       s.outbound[i] = LocalCommit(p) \/ (s.openSent /\ s.outbound[i] = LocalOpen(p))
  /\ \A i \in DOMAIN s.inputs :
       s.commits[s.inputs[i].party] = Commitment(s.inputs[i].party, s.inputs[i].payload)
  /\ \A i, j \in DOMAIN s.inputs : s.inputs[i].party = s.inputs[j].party => i = j

SessionsAreSound == \A p \in Honest : Sound(Parties, channel, p, session[p])

\* A token sorts one committed opening of each party.
CommittedIn(shown, S) ==
  \A b \in S : CommitMessage(b.party, Commitment(b.party, b.payload)) \in shown

FromOpenings(parties, shown, p, t) ==
  /\ t.yShare = Input[p]
  /\ \E S \in SUBSET [party : parties, payload : Usable] :
       /\ CommittedIn(shown, S)
       /\ \A q \in parties : \E b \in S : b.party = q
       /\ t.broadcasts = SortedByParty(S)

TokensAreSound ==
  \A p \in Honest : \A k \in DOMAIN minted[p] : FromOpenings(Parties, channel, p, minted[p][k])

IInv == TypeOK /\ BroadcastIsSound /\ SessionsAreSound /\ CommitBeforeOpen /\ TokensAreSound

(***************************************************************************)
(* Parties, messages and records.                                          *)
(***************************************************************************)
LEMMA Signers ==
  ASSUME TypeOK
  PROVE  /\ IsFiniteSet(Parties) /\ Parties \subseteq Nat /\ Parties \subseteq Everyone
         /\ Honest \subseteq Parties
         /\ \A p \in Parties : Input[p] \in Usable /\ Input[p] \in Payloads
         /\ Usable \subseteq Payloads
<1>1. setup \in Setups
  BY DEF TypeOK
<1>2. IsFiniteSet(Parties) /\ Parties \subseteq Nat
  BY <1>1, SessionAssumption DEF Parties
<1>3. Parties \subseteq Everyone
  BY <1>1 DEF Parties, Everyone
<1>. QED
  BY <1>2, <1>3, SessionAssumption DEF Honest

LEMMA SameSetup ==
  ASSUME setup' = setup
  PROVE  /\ Parties' = Parties /\ Faulty' = Faulty /\ Honest' = Honest
         /\ Commitments' = Commitments /\ Messages' = Messages /\ Opening' = Opening
         /\ Token' = Token /\ SessionState' = SessionState
<1>1. Parties' = Parties /\ Faulty' = Faulty
  BY DEF Parties, Faulty
<1>2. Commitments' = Commitments /\ Opening' = Opening
  BY <1>1 DEF Commitments, Opening
<1>3. Messages' = Messages
  BY <1>1, <1>2 DEF Messages
<1>. QED
  BY <1>1, <1>2, <1>3 DEF Honest, Token, SessionState

\* A commitment is not the absent one, and it fixes party and payload.
LEMMA CommitmentsBind ==
  ASSUME TypeOK
  PROVE  /\ \A q \in Parties : \A v : Commitment(q, v) # NoCommitment
         /\ \A q, r, v, w : Commitment(q, v) = Commitment(r, w) => q = r /\ v = w
<1>1. \A q, v : Commitment(q, v).party = q /\ Commitment(q, v).payload = v
  BY DEF Commitment
<1>2. NoCommitment.party = -1
  BY DEF NoCommitment
<1>3. \A q \in Parties : q # -1
  BY Signers
<1>. QED
  BY <1>1, <1>2, <1>3

LEMMA MessageFields ==
  /\ \A p, c : /\ CommitMessage(p, c).round = "PreprocessCommit"
               /\ CommitMessage(p, c).sender = p /\ CommitMessage(p, c).commitment = c
  /\ \A p, v : /\ OpenMessage(p, v).round = "PreprocessOpen"
               /\ OpenMessage(p, v).sender = p /\ OpenMessage(p, v).payload = v
  BY DEF CommitMessage, OpenMessage

LEMMA LocalMessages ==
  ASSUME TypeOK, NEW p \in Honest
  PROVE  /\ LocalCommit(p) \in Messages /\ LocalOpen(p) \in Messages
         /\ LocalCommit(p).sender = p /\ LocalOpen(p).sender = p
         /\ LocalCommit(p).round = "PreprocessCommit" /\ LocalOpen(p).round = "PreprocessOpen"
<1>1. p \in Parties /\ Input[p] \in Payloads
  BY Signers
<1>2. Commitment(p, Input[p]) \in Commitments
  BY <1>1 DEF Commitment, Commitments
<1>. QED
  BY <1>1, <1>2, MessageFields DEF LocalCommit, LocalOpen, Messages

LEMMA MessageKinds ==
  ASSUME NEW m \in Messages
  PROVE  /\ m.sender \in Parties
         /\ m.round = "PreprocessCommit" =>
              m.commitment \in Commitments /\ m = CommitMessage(m.sender, m.commitment)
         /\ m.round = "PreprocessOpen" =>
              m.payload \in Payloads /\ m = OpenMessage(m.sender, m.payload)
<1>1. CASE \E p \in Parties, c \in Commitments : m = CommitMessage(p, c)
  BY <1>1, MessageFields
<1>2. CASE \E p \in Parties, v \in Payloads : m = OpenMessage(p, v)
  BY <1>2, MessageFields
<1>. QED
  BY <1>1, <1>2 DEF Messages

LEMMA SessionFields ==
  ASSUME TypeOK, NEW p \in Honest
  PROVE  /\ session[p] \in SessionState
         /\ session[p].commits \in [Parties -> Commitments \cup {NoCommitment}]
         /\ session[p].inputs \in Seq(Opening)
         /\ session[p].openSent \in BOOLEAN
         /\ session[p].outbound \in Seq(Messages)
<1>1. session[p] \in SessionState
  BY DEF TypeOK
<1>. QED
  BY <1>1 DEF SessionState

(***************************************************************************)
(* What a growing broadcast and an unchanged part of the state keep.       *)
(***************************************************************************)
LEMMA SoundIsKept ==
  ASSUME NEW parties, NEW shown, NEW more, shown \subseteq more, NEW p, NEW s,
         Sound(parties, shown, p, s)
  PROVE  Sound(parties, more, p, s)
  BY DEF Sound

LEMMA TokensAreKept ==
  ASSUME NEW parties, NEW shown, NEW more, shown \subseteq more, NEW p, NEW t,
         FromOpenings(parties, shown, p, t)
  PROVE  FromOpenings(parties, more, p, t)
<1>1. \A S : CommittedIn(shown, S) => CommittedIn(more, S)
  BY DEF CommittedIn
<1>. QED
  BY <1>1 DEF FromOpenings

LEMMA SameTokens ==
  ASSUME TokensAreSound, setup' = setup, channel \subseteq channel', minted' = minted
  PROVE  TokensAreSound'
<1>. SUFFICES ASSUME NEW p \in Honest', NEW k \in DOMAIN minted'[p]
              PROVE  FromOpenings(Parties', channel', p, minted'[p][k])
  BY DEF TokensAreSound
<1>1. Parties' = Parties /\ Honest' = Honest
  BY SameSetup
<1>2. FromOpenings(Parties, channel, p, minted[p][k])
  BY <1>1 DEF TokensAreSound
<1>. QED
  BY <1>1, <1>2, TokensAreKept

LEMMA SessionStep ==
  ASSUME TypeOK, SessionsAreSound, setup' = setup, channel \subseteq channel',
         NEW p \in Honest, NEW X \in SessionState, Sound(Parties, channel', p, X),
         session' = [session EXCEPT ![p] = X]
  PROVE  session' \in [Honest -> SessionState] /\ SessionsAreSound'
<1>1. session \in [Honest -> SessionState]
  BY DEF TypeOK
<1>2. Parties' = Parties /\ Honest' = Honest
  BY SameSetup
<1>3. ASSUME NEW q \in Honest
      PROVE  Sound(Parties, channel', q, session'[q])
  <2>1. CASE q = p
    BY <1>1, <2>1
  <2>2. CASE q # p
    <3>1. session'[q] = session[q] /\ Sound(Parties, channel, q, session[q])
      BY <1>1, <2>2 DEF SessionsAreSound
    <3>. QED
      BY <3>1, SoundIsKept
  <2>. QED
    BY <2>1, <2>2
<1>. QED
  BY <1>1, <1>2, <1>3 DEF SessionsAreSound

\* A step of one session that leaves the broadcast, the registry and the tokens alone.
LEMMA SessionOnly ==
  ASSUME IInv, NEW p \in Honest, NEW X \in SessionState, Sound(Parties, channel, p, X),
         session' = [session EXCEPT ![p] = X],
         UNCHANGED <<setup, channel, registry, minted>>, losses' \in 0 .. setup.losses
  PROVE  IInv'
<1>1. TypeOK /\ BroadcastIsSound /\ SessionsAreSound /\ CommitBeforeOpen /\ TokensAreSound
  BY DEF IInv
<1>2. session' \in [Honest -> SessionState] /\ SessionsAreSound'
  BY <1>1, SessionStep
<1>3. Parties' = Parties /\ Honest' = Honest /\ Messages' = Messages /\ Token' = Token
        /\ SessionState' = SessionState
  BY SameSetup
<1>4. TypeOK'
  BY <1>1, <1>2, <1>3 DEF TypeOK
<1>5. BroadcastIsSound'
  BY <1>1, <1>3 DEF BroadcastIsSound
<1>6. CommitBeforeOpen'
  BY <1>1, <1>3 DEF CommitBeforeOpen
<1>7. TokensAreSound'
  BY <1>1, SameTokens
<1>. QED
  BY <1>2, <1>4, <1>5, <1>6, <1>7 DEF IInv

\* An honest opening joins the outbox of a session that has every commitment.
LEMMA AdvanceIsSound ==
  ASSUME TypeOK, NEW p \in Honest, NEW s \in SessionState, Sound(Parties, channel, p, s)
  PROVE  Advance(p, s) \in SessionState /\ Sound(Parties, channel, p, Advance(p, s))
<1> DEFINE X == [s EXCEPT !.outbound = Append(@, LocalOpen(p)), !.openSent = TRUE]
<1>1. CASE ~s.openSent /\ HasAllCommits(s)
  <2>1. Advance(p, s) = X
    BY <1>1 DEF Advance
  <2>2. s.outbound \in Seq(Messages) /\ LocalOpen(p) \in Messages
    BY LocalMessages DEF SessionState
  <2>3. Append(s.outbound, LocalOpen(p)) \in Seq(Messages)
    BY <2>2
  <2>4. /\ X.status = s.status /\ X.known = s.known /\ X.commits = s.commits
        /\ X.inputs = s.inputs /\ X.openSent = TRUE
        /\ X.outbound = Append(s.outbound, LocalOpen(p))
    BY DEF SessionState
  <2>5. X \in SessionState
    BY <2>3 DEF SessionState
  <2>6. \A i \in DOMAIN X.outbound :
          X.outbound[i] = LocalCommit(p) \/ X.outbound[i] = LocalOpen(p)
    BY <2>2, <2>4 DEF Sound
  <2> HIDE DEF X
  <2>7. Sound(Parties, channel, p, X)
    BY <1>1, <2>4, <2>6 DEF Sound, HasAllCommits
  <2>. QED
    BY <2>1, <2>5, <2>7
<1>2. CASE ~(~s.openSent /\ HasAllCommits(s))
  BY <1>2 DEF Advance
<1>. QED
  BY <1>1, <1>2

(***************************************************************************)
(* The actions.                                                            *)
(***************************************************************************)
LEMMA NothingHeard ==
  ASSUME TypeOK, NEW p \in Honest, NEW status \in {"none", "running", "over"}
  PROVE  NotRunning(status) \in SessionState /\ Sound(Parties, channel, p, NotRunning(status))
<1>. SUFFICES ASSUME NEW s, s = NotRunning(status)
              PROVE  s \in SessionState /\ Sound(Parties, channel, p, s)
  OBVIOUS
<1>1. /\ s.commits = [q \in Parties |-> NoCommitment]
      /\ s.inputs = <<>> /\ s.outbound = <<>> /\ s.openSent = FALSE
  BY DEF NotRunning
<1>2. s \in SessionState
  BY DEF NotRunning, SessionState
<1>3. Sound(Parties, channel, p, s)
  BY <1>1 DEF Sound
<1>. QED
  BY <1>2, <1>3

LEMMA Losing ==
  ASSUME TypeOK
  PROVE  /\ Lose => losses' \in 0 .. setup.losses
         /\ losses' = losses => losses' \in 0 .. setup.losses
<1>1. setup.losses \in Nat /\ losses \in 0 .. setup.losses
  BY SessionAssumption DEF TypeOK
<1>. QED
  BY <1>1 DEF Lose

LEMMA StartStep ==
  ASSUME IInv, NEW p \in Honest, Start(p)
  PROVE  IInv'
<1> DEFINE X == Started(p)
<1>1. TypeOK
  BY DEF IInv
<1>2. (p \in registry) \in BOOLEAN /\ <<LocalCommit(p)>> \in Seq(Messages)
  BY <1>1, LocalMessages
<1>3. NotRunning("running") \in SessionState
  BY <1>1, NothingHeard
<1>4. X \in SessionState
  BY <1>2, <1>3 DEF Started, SessionState
<1>5. /\ X.commits = [q \in Parties |-> NoCommitment] /\ X.inputs = <<>>
      /\ X.outbound = <<LocalCommit(p)>> /\ X.openSent = FALSE
  BY DEF Started, NotRunning
<1>6. session' = [session EXCEPT ![p] = X] /\ UNCHANGED <<setup, channel, registry, minted>>
        /\ (Lose \/ losses' = losses)
  BY DEF Start
<1> HIDE DEF X
<1>7. Sound(Parties, channel, p, X)
  BY <1>5 DEF Sound
<1>. QED
  BY <1>1, <1>4, <1>6, <1>7, Losing, SessionOnly

LEMMA LoseSession ==
  ASSUME IInv, NEW p \in Honest, FinishEarly(p) \/ Crash(p)
  PROVE  IInv'
<1>1. TypeOK
  BY DEF IInv
<1>2. /\ session' = [session EXCEPT ![p] = NotRunning("none")]
      /\ UNCHANGED <<setup, channel, registry, minted>> /\ Lose
  BY DEF FinishEarly, Crash
<1>3. NotRunning("none") \in SessionState /\ Sound(Parties, channel, p, NotRunning("none"))
  BY <1>1, NothingHeard
<1>. QED
  BY <1>1, <1>2, <1>3, Losing, SessionOnly

LEMMA HandleCommitStep ==
  ASSUME IInv, NEW p \in Honest, NEW m \in channel, HandleCommit(p, m)
  PROVE  IInv'
<1> DEFINE s == session[p]
           X == WithCommit(s, m)
<1>1. TypeOK /\ Sound(Parties, channel, p, s)
  BY DEF IInv, SessionsAreSound
<1>2. /\ s \in SessionState /\ s.inputs \in Seq(Opening)
      /\ s.commits \in [Parties -> Commitments \cup {NoCommitment}]
  BY <1>1, SessionFields
<1>3. m.round = "PreprocessCommit" /\ s.commits[m.sender] = NoCommitment
  BY DEF HandleCommit, InsertCommit
<1>4. m.sender \in Parties /\ m.commitment \in Commitments /\ m = CommitMessage(m.sender, m.commitment)
  BY <1>1, <1>3, MessageKinds DEF TypeOK
<1>5. /\ session' = [session EXCEPT ![p] = Advance(p, X)]
      /\ UNCHANGED <<setup, channel, registry, minted>> /\ losses' = losses
  <2>1. session' = [session EXCEPT ![p] = Advance(p, WithCommit(session[p], m))]
    BY <1>1 DEF HandleCommit, TypeOK
  <2>. QED
    BY <2>1 DEF HandleCommit
<1>6. /\ X.commits = [s.commits EXCEPT ![m.sender] = m.commitment]
      /\ X.inputs = s.inputs /\ X.outbound = s.outbound /\ X.openSent = s.openSent
      /\ X \in SessionState
  <2> HIDE DEF s
  <2>. QED
    BY <1>2, <1>4 DEF SessionState, WithCommit
<1>7. \A q \in Parties : X.commits[q] = IF q = m.sender THEN m.commitment ELSE s.commits[q]
  BY <1>2, <1>4, <1>6
<1>8. \A q \in Parties : X.commits[q] # NoCommitment =>
        CommitMessage(q, X.commits[q]) \in channel
  BY <1>1, <1>4, <1>7 DEF Sound
<1>9. ~s.openSent
  BY <1>1, <1>3, <1>4 DEF Sound
<1>10. \A i \in DOMAIN s.inputs : s.inputs[i].party \in Parties /\ s.inputs[i].party # m.sender
  <2>1. \A i \in DOMAIN s.inputs : s.inputs[i].party \in Parties
    <3> HIDE DEF s, X
    <3>1. \A i \in DOMAIN s.inputs : s.inputs[i] \in Opening
      BY <1>2
    <3>. QED
      BY <3>1 DEF Opening
  <2>2. \A i \in DOMAIN s.inputs : s.commits[s.inputs[i].party] # NoCommitment
    BY <1>1, <2>1, CommitmentsBind DEF Sound
  <2>. QED
    BY <1>3, <2>1, <2>2
<1> HIDE DEF X, s
<1>11. Sound(Parties, channel, p, X)
  BY <1>1, <1>6, <1>7, <1>8, <1>9, <1>10 DEF Sound
<1>12. Advance(p, X) \in SessionState /\ Sound(Parties, channel, p, Advance(p, X))
  BY <1>1, <1>6, <1>11, AdvanceIsSound
<1>. QED
  BY <1>1, <1>5, <1>12, Losing, SessionOnly

LEMMA HandleOpenStep ==
  ASSUME IInv, NEW p \in Honest, NEW m \in channel, HandleOpen(p, m)
  PROVE  IInv'
<1> DEFINE s == session[p]
           b == [party |-> m.sender, payload |-> m.payload]
           X == WithOpening(s, m)
<1>1. TypeOK /\ Sound(Parties, channel, p, s)
  BY DEF IInv, SessionsAreSound
<1>2. s \in SessionState /\ s.inputs \in Seq(Opening)
  BY <1>1, SessionFields
<1>3. /\ \A i \in DOMAIN s.inputs : s.inputs[i].party # m.sender
      /\ s.commits[m.sender] = Commitment(m.sender, m.payload)
      /\ m.payload \in Usable
  BY DEF HandleOpen, InsertOpen
<1>4. m.sender \in Parties
  BY <1>1, MessageKinds DEF TypeOK
<1>5. /\ session' = [session EXCEPT ![p] = Advance(p, X)]
      /\ UNCHANGED <<setup, channel, registry, minted>> /\ losses' = losses
  <2>1. session' = [session EXCEPT ![p] = Advance(p, WithOpening(session[p], m))]
    BY <1>1 DEF HandleOpen, TypeOK
  <2>. QED
    BY <2>1 DEF HandleOpen
<1>6. b \in Opening /\ b.party = m.sender /\ b.payload = m.payload
  BY <1>3, <1>4 DEF Opening
<1>7. /\ X.inputs = Append(s.inputs, b)
      /\ X.commits = s.commits /\ X.outbound = s.outbound /\ X.openSent = s.openSent
      /\ X \in SessionState
  <2>1. Append(s.inputs, b) \in Seq(Opening)
    BY <1>2, <1>6
  <2> HIDE DEF s
  <2>. QED
    BY <1>2, <2>1 DEF SessionState, WithOpening
<1> HIDE DEF X, s, b
<1>8. /\ DOMAIN s.inputs = 1 .. Len(s.inputs) /\ DOMAIN X.inputs = 1 .. Len(s.inputs) + 1
      /\ \A i \in 1 .. Len(s.inputs) : X.inputs[i] = s.inputs[i]
      /\ X.inputs[Len(s.inputs) + 1] = b
      /\ Len(s.inputs) \in Nat
  BY <1>2, <1>6, <1>7
<1>9. \A i \in DOMAIN X.inputs :
        X.commits[X.inputs[i].party] = Commitment(X.inputs[i].party, X.inputs[i].payload)
  BY <1>1, <1>3, <1>6, <1>7, <1>8 DEF Sound
<1>10. \A i, j \in DOMAIN X.inputs : X.inputs[i].party = X.inputs[j].party => i = j
  <2>1. ASSUME NEW i \in DOMAIN X.inputs, NEW j \in DOMAIN X.inputs,
               X.inputs[i].party = X.inputs[j].party
        PROVE  i = j
    <3>1. CASE i \in DOMAIN s.inputs /\ j \in DOMAIN s.inputs
      BY <1>1, <1>8, <2>1, <3>1 DEF Sound
    <3>2. CASE i \notin DOMAIN s.inputs /\ j \notin DOMAIN s.inputs
      BY <1>8, <3>2
    <3>3. CASE i \in DOMAIN s.inputs /\ j \notin DOMAIN s.inputs
      BY <1>3, <1>6, <1>8, <2>1, <3>3
    <3>4. CASE i \notin DOMAIN s.inputs /\ j \in DOMAIN s.inputs
      BY <1>3, <1>6, <1>8, <2>1, <3>4
    <3>. QED
      BY <3>1, <3>2, <3>3, <3>4
  <2>. QED
    BY <2>1
<1>11. Sound(Parties, channel, p, X)
  BY <1>1, <1>7, <1>9, <1>10 DEF Sound
<1>12. Advance(p, X) \in SessionState /\ Sound(Parties, channel, p, Advance(p, X))
  BY <1>1, <1>7, <1>11, AdvanceIsSound
<1>. QED
  BY <1>1, <1>5, <1>12, Losing, SessionOnly

\* A sender's first message of a round keeps the broadcast sound and the openings
\* behind the commitments.
LEMMA BroadcastStep ==
  ASSUME IInv, NEW m \in Messages,
         \A n \in channel : n.sender = m.sender /\ n.round = m.round => n = m,
         m.sender \in Honest => m \in {LocalCommit(m.sender), LocalOpen(m.sender)},
         m.sender \in Honest /\ m.round = "PreprocessOpen" =>
           \A q \in Parties : \E n \in channel : IsCommitOf(n, q),
         channel' = channel \cup {m}, setup' = setup
  PROVE  channel' \subseteq Messages' /\ BroadcastIsSound' /\ CommitBeforeOpen'
<1>1. TypeOK /\ BroadcastIsSound /\ CommitBeforeOpen
  BY DEF IInv
<1>2. Parties' = Parties /\ Honest' = Honest /\ Messages' = Messages
  BY SameSetup
<1>3. channel' \subseteq Messages'
  BY <1>1, <1>2 DEF TypeOK
<1>4. BroadcastIsSound'
  BY <1>1, <1>2 DEF BroadcastIsSound
<1>5. ASSUME NEW p \in Honest, LocalOpen(p) \in channel', NEW q \in Parties
      PROVE  \E n \in channel' : IsCommitOf(n, q)
  <2>1. CASE LocalOpen(p) \in channel
    BY <1>1, <2>1 DEF CommitBeforeOpen, IsCommitOf
  <2>2. CASE LocalOpen(p) = m
    BY <1>1, <2>2, LocalMessages
  <2>. QED
    BY <1>5, <2>1, <2>2
<1>6. CommitBeforeOpen'
  BY <1>2, <1>5 DEF CommitBeforeOpen, IsCommitOf
<1>. QED
  BY <1>3, <1>4, <1>6

LEMMA NextOutboundStep ==
  ASSUME IInv, NEW p \in Honest, NextOutbound(p)
  PROVE  IInv'
<1> DEFINE s == session[p]
           m == Head(s.outbound)
           X == [s EXCEPT !.outbound = Tail(@)]
<1>1. TypeOK /\ BroadcastIsSound /\ SessionsAreSound /\ TokensAreSound
        /\ Sound(Parties, channel, p, s)
  BY DEF IInv, SessionsAreSound
<1>2. s \in SessionState /\ s.outbound \in Seq(Messages)
  BY <1>1, SessionFields
<1>3. /\ s.outbound # <<>>
      /\ channel' = channel \cup {m} /\ session' = [session EXCEPT ![p] = X]
      /\ UNCHANGED <<setup, registry, minted, losses>>
  <2>1. session' = [session EXCEPT ![p].outbound = Tail(@)]
    BY DEF NextOutbound
  <2>2. session' = [session EXCEPT ![p] = X]
    BY <1>1, <2>1 DEF TypeOK
  <2>. QED
    BY <2>2 DEF NextOutbound
<1>4. /\ X.commits = s.commits /\ X.inputs = s.inputs /\ X.openSent = s.openSent
      /\ X.outbound = Tail(s.outbound) /\ X \in SessionState
  <2>1. Tail(s.outbound) \in Seq(Messages)
    BY <1>2, <1>3
  <2> HIDE DEF s
  <2>. QED
    BY <1>2, <2>1 DEF SessionState
<1>5. m \in Messages /\ (m = LocalCommit(p) \/ (s.openSent /\ m = LocalOpen(p)))
  <2>1. 1 \in DOMAIN s.outbound /\ m = s.outbound[1] /\ m \in Messages
    BY <1>2, <1>3
  <2>. QED
    BY <1>1, <2>1 DEF Sound
<1>6. \A i \in DOMAIN Tail(s.outbound) :
        \E j \in DOMAIN s.outbound : Tail(s.outbound)[i] = s.outbound[j]
  <2>1. ASSUME NEW out \in Seq(Messages), out # <<>>, NEW i \in DOMAIN Tail(out)
        PROVE  i + 1 \in DOMAIN out /\ Tail(out)[i] = out[i + 1]
    BY <2>1
  <2>. QED
    BY <1>2, <1>3, <2>1
<1> HIDE DEF s, m, X
<1>7. Sound(Parties, channel, p, X)
  BY <1>1, <1>4, <1>6 DEF Sound
<1>8. Sound(Parties, channel', p, X)
  BY <1>3, <1>7, SoundIsKept
<1>9. session' \in [Honest -> SessionState] /\ SessionsAreSound'
  BY <1>1, <1>3, <1>4, <1>8, SessionStep
<1>10. m.sender = p /\ m \in {LocalCommit(m.sender), LocalOpen(m.sender)}
  BY <1>1, <1>5, LocalMessages
<1>11. \A n \in channel : n.sender = m.sender /\ n.round = m.round => n = m
  <2>1. \A n \in channel : n.sender = p => n \in {LocalCommit(p), LocalOpen(p)}
    BY <1>1 DEF BroadcastIsSound
  <2>. QED
    BY <1>1, <1>5, <1>10, <2>1, LocalMessages
<1>12. ASSUME m.round = "PreprocessOpen", NEW q \in Parties
       PROVE  \E n \in channel : IsCommitOf(n, q)
  <2>1. s.openSent
    BY <1>1, <1>5, <1>12, LocalMessages
  <2>2. CommitMessage(q, s.commits[q]) \in channel
    BY <1>1, <2>1 DEF Sound
  <2>. QED
    BY <2>2, MessageFields DEF IsCommitOf
<1>13. channel' \subseteq Messages' /\ BroadcastIsSound' /\ CommitBeforeOpen'
  BY <1>3, <1>5, <1>10, <1>11, <1>12, BroadcastStep
<1>14. TokensAreSound'
  BY <1>1, <1>3, SameTokens
<1>15. TypeOK'
  BY <1>1, <1>3, <1>9, <1>13, SameSetup DEF TypeOK
<1>. QED
  BY <1>9, <1>13, <1>14, <1>15 DEF IInv

LEMMA FaultyStep ==
  ASSUME IInv, NEW q \in Faulty, NEW m \in Messages, FaultyBroadcast(q, m)
  PROVE  IInv'
<1>1. TypeOK /\ SessionsAreSound /\ TokensAreSound
  BY DEF IInv
<1>2. /\ m.sender = q /\ q \notin Honest
      /\ \A n \in channel : ~(n.sender = q /\ n.round = m.round)
      /\ channel' = channel \cup {m}
      /\ UNCHANGED <<setup, registry, session, minted, losses>>
  BY DEF FaultyBroadcast, Honest
<1>3. channel' \subseteq Messages' /\ BroadcastIsSound' /\ CommitBeforeOpen'
  BY <1>2, BroadcastStep
<1>4. TokensAreSound'
  BY <1>1, <1>2, SameTokens
<1>5. SessionsAreSound'
  BY <1>1, <1>2, SameSetup, SoundIsKept DEF SessionsAreSound
<1>6. TypeOK'
  BY <1>1, <1>2, <1>3, SameSetup DEF TypeOK
<1>. QED
  BY <1>3, <1>4, <1>5, <1>6 DEF IInv

(***************************************************************************)
(* Tokens.                                                                 *)
(***************************************************************************)

\* What was committed on the broadcast holds one opening of a party at most.
LEMMA CommittedSortWhole ==
  ASSUME TypeOK, BroadcastIsSound, NEW S \in SUBSET Opening, CommittedIn(channel, S)
  PROVE  /\ DifferentParties(S)
         /\ SortedByParty(S) \in Seq(S) /\ ToSet(SortedByParty(S)) = S
<1> DEFINE partyOf == [b \in S |-> b.party]
<1>1. \A b \in S : b = [party |-> b.party, payload |-> b.payload] /\ b.party \in Parties
  BY DEF Opening
<1>2. ASSUME NEW b \in S, NEW c \in S, b.party = c.party
      PROVE  b = c
  <2> DEFINE m == CommitMessage(b.party, Commitment(b.party, b.payload))
             n == CommitMessage(c.party, Commitment(c.party, c.payload))
  <2>1. m \in channel /\ n \in channel
    BY DEF CommittedIn
  <2>2. m.sender = n.sender /\ m.round = n.round
    BY <1>2, MessageFields
  <2>3. m.commitment = Commitment(b.party, b.payload) /\ n.commitment = Commitment(c.party, c.payload)
    BY MessageFields
  <2> HIDE DEF m, n
  <2>4. Commitment(b.party, b.payload) = Commitment(c.party, c.payload)
    BY <2>1, <2>2, <2>3 DEF BroadcastIsSound
  <2>5. b.payload = c.payload
    BY <2>4, CommitmentsBind
  <2>. QED
    BY <1>1, <1>2, <2>5
<1>3. partyOf \in Injection(S, Parties)
  BY <1>1, <1>2 DEF Injection, IsInjective
<1>4. IsFiniteSet(S)
  BY <1>3, Signers, FS_Injection
<1>5. DifferentParties(S)
  BY <1>2 DEF DifferentParties
<1>6. \A b \in S : b.party \in Nat
  BY <1>1, Signers
<1>. QED
  BY <1>4, <1>5, <1>6, SortingKeepsAll

\* As many openings as parties, each of another party: every party is there.
LEMMA EveryPartyOpened ==
  ASSUME TypeOK, NEW inputs \in Seq(Opening), Len(inputs) = Cardinality(Parties),
         \A i, j \in DOMAIN inputs : inputs[i].party = inputs[j].party => i = j
  PROVE  \A q \in Parties : \E b \in ToSet(inputs) : b.party = q
<1> DEFINE n == Len(inputs)
           partyAt == [i \in 1 .. n |-> inputs[i].party]
<1>1. n \in Nat /\ DOMAIN inputs = 1 .. n
  OBVIOUS
<1>2. \A i \in 1 .. n : inputs[i] \in Opening
  BY <1>1
<1>3. \A i \in 1 .. n : inputs[i].party \in Parties
  BY <1>2 DEF Opening
<1>4. partyAt \in Injection(1 .. n, Parties)
  BY <1>1, <1>3 DEF Injection, IsInjective
<1>5. Cardinality(1 .. n) = Cardinality(Parties)
  <2>1. Cardinality(1 .. n) = n
    BY <1>1, FS_Interval
  <2>. QED
    BY <2>1
<1>6. partyAt \in Surjection(1 .. n, Parties)
  BY <1>4, <1>5, Signers, FS_Injection
<1>7. \A q \in Parties : \E i \in 1 .. n : inputs[i].party = q
  BY <1>6 DEF Surjection
<1>. QED
  BY <1>1, <1>7 DEF ToSet

LEMMA CompleteMints ==
  ASSUME IInv, NEW p \in Honest, Complete(Advance(p, session[p]))
  PROVE  [broadcasts |-> SortedByParty(ToSet(session[p].inputs)), yShare |-> Input[p]] \in
           {t \in Token : FromOpenings(Parties, channel, p, t)}
<1> DEFINE s == session[p]
           S == ToSet(s.inputs)
           t == [broadcasts |-> SortedByParty(S), yShare |-> Input[p]]
<1>1. TypeOK /\ BroadcastIsSound /\ Sound(Parties, channel, p, s)
  BY DEF IInv, SessionsAreSound
<1>2. /\ s \in SessionState /\ s.inputs \in Seq(Opening) /\ s.outbound \in Seq(Messages)
  BY <1>1, SessionFields
<1>3. HasAllCommits(s) /\ Len(s.inputs) = Cardinality(Parties)
  <2> HIDE DEF s
  <2>1. Complete(Advance(p, s))
    BY DEF s
  <2>2. CASE ~s.openSent /\ HasAllCommits(s)
    <3>1. Advance(p, s) = [s EXCEPT !.outbound = Append(@, LocalOpen(p)), !.openSent = TRUE]
      BY <2>2 DEF Advance
    <3>2. Advance(p, s).outbound = Append(s.outbound, LocalOpen(p))
      BY <1>2, <3>1 DEF SessionState
    <3>3. Append(s.outbound, LocalOpen(p)) # <<>>
      BY <1>2
    <3>. QED
      BY <2>1, <3>2, <3>3 DEF Complete
  <2>3. CASE ~(~s.openSent /\ HasAllCommits(s))
    BY <2>1, <2>3 DEF Advance, Complete
  <2>. QED
    BY <2>2, <2>3
<1> HIDE DEF s
<1>4. \A i \in DOMAIN s.inputs : s.inputs[i] \in Opening
  BY <1>2
<1>5. S \in SUBSET Opening
  BY <1>4 DEF ToSet
<1>6. CommittedIn(channel, S)
  <2>1. ASSUME NEW i \in DOMAIN s.inputs
        PROVE  CommitMessage(s.inputs[i].party,
                 Commitment(s.inputs[i].party, s.inputs[i].payload)) \in channel
    <3>1. s.inputs[i].party \in Parties
      BY <1>4 DEF Opening
    <3>2. s.commits[s.inputs[i].party] = Commitment(s.inputs[i].party, s.inputs[i].payload)
      BY <1>1 DEF Sound
    <3>3. s.commits[s.inputs[i].party] # NoCommitment
      BY <1>3, <3>1 DEF HasAllCommits
    <3>. QED
      BY <1>1, <3>1, <3>2, <3>3 DEF Sound
  <2>. QED
    BY <2>1 DEF CommittedIn, ToSet
<1>7. \A q \in Parties : \E b \in S : b.party = q
  <2>1. \A i, j \in DOMAIN s.inputs : s.inputs[i].party = s.inputs[j].party => i = j
    BY <1>1 DEF Sound
  <2>. QED
    BY <1>1, <1>2, <1>3, <2>1, EveryPartyOpened
<1> HIDE DEF S
<1>8. SortedByParty(S) \in Seq(Opening)
  <2>1. SortedByParty(S) \in Seq(S)
    BY <1>1, <1>5, <1>6, CommittedSortWhole
  <2>. QED
    BY <1>5, <2>1
<1>9. t \in Token
  BY <1>1, <1>8, Signers DEF Token
<1>10. t.yShare = Input[p] /\ t.broadcasts = SortedByParty(S)
  OBVIOUS
<1> HIDE DEF t
<1>11. FromOpenings(Parties, channel, p, t)
  BY <1>5, <1>6, <1>7, <1>10 DEF FromOpenings, Opening
<1>12. t \in {u \in Token : FromOpenings(Parties, channel, p, u)}
  BY <1>9, <1>11
<1>. QED
  BY <1>12 DEF t, S, s

LEMMA FinishStep ==
  ASSUME IInv, NEW p \in Honest, NEW o \in {"ok", "failed", "unsynced"}, FinishComplete(p, o)
  PROVE  IInv'
<1> DEFINE t == [broadcasts |-> SortedByParty(ToSet(session[p].inputs)), yShare |-> Input[p]]
<1>1. TypeOK /\ BroadcastIsSound /\ SessionsAreSound /\ CommitBeforeOpen /\ TokensAreSound
  BY DEF IInv
<1>2. /\ session' = [session EXCEPT ![p] = NotRunning("over")]
      /\ UNCHANGED <<setup, channel, losses>>
      /\ registry' = registry \/ registry' = registry \cup {p}
      /\ minted' = minted \/ minted' = [minted EXCEPT ![p] = Append(@, t)]
  BY DEF FinishComplete, Reserve, Certify
<1>3. t \in Token /\ FromOpenings(Parties, channel, p, t)
  <2>1. Complete(Advance(p, session[p]))
    BY DEF FinishComplete
  <2>. QED
    BY <2>1, CompleteMints
<1> HIDE DEF t
<1>4. NotRunning("over") \in SessionState /\ Sound(Parties, channel', p, NotRunning("over"))
  BY <1>1, <1>2, NothingHeard
<1>5. session' \in [Honest -> SessionState] /\ SessionsAreSound'
  BY <1>1, <1>2, <1>4, SessionStep
<1>6. /\ Parties' = Parties /\ Honest' = Honest /\ Messages' = Messages /\ Token' = Token
      /\ SessionState' = SessionState
  BY <1>2, SameSetup
<1>7. minted \in [Honest -> Seq(Token)]
  BY <1>1 DEF TypeOK
<1>8. minted' \in [Honest -> Seq(Token)] /\ TokensAreSound'
  <2>1. CASE minted' = minted
    BY <1>1, <1>2, <1>7, <2>1, SameTokens
  <2>2. CASE minted' = [minted EXCEPT ![p] = Append(@, t)]
    <3>1. Append(minted[p], t) \in Seq(Token)
      BY <1>3, <1>7
    <3>2. minted' \in [Honest -> Seq(Token)]
      BY <1>7, <2>2, <3>1
    <3>3. ASSUME NEW q \in Honest, NEW k \in DOMAIN minted'[q]
          PROVE  \/ minted'[q][k] = t /\ q = p
                 \/ k \in DOMAIN minted[q] /\ minted'[q][k] = minted[q][k]
      <4>1. CASE q = p
        <5>1. minted'[q] = Append(minted[q], t) /\ minted[q] \in Seq(Token)
          BY <1>7, <2>2, <4>1
        <5>. QED
          BY <3>3, <4>1, <5>1
      <4>2. CASE q # p
        BY <1>7, <2>2, <3>3, <4>2
      <4>. QED
        BY <4>1, <4>2
    <3>4. TokensAreSound'
      BY <1>1, <1>2, <1>3, <1>6, <3>3 DEF TokensAreSound
    <3>. QED
      BY <3>2, <3>4
  <2>. QED
    BY <1>2, <2>1, <2>2
<1>9. TypeOK'
  BY <1>1, <1>2, <1>5, <1>6, <1>8 DEF TypeOK
<1>10. BroadcastIsSound' /\ CommitBeforeOpen'
  BY <1>1, <1>2, <1>6 DEF BroadcastIsSound, CommitBeforeOpen
<1>. QED
  BY <1>5, <1>8, <1>9, <1>10 DEF IInv

(***************************************************************************)
(* The invariant is inductive.                                             *)
(***************************************************************************)
LEMMA InitInv == Init => IInv
<1>. SUFFICES ASSUME Init
              PROVE  IInv
  OBVIOUS
<1>1. TypeOK
  <2>1. setup.losses \in Nat
    BY SessionAssumption DEF Init
  <2>2. NotRunning("none") \in SessionState
    <3> DEFINE none == NotRunning("none")
    <3>1. [q \in Parties |-> NoCommitment] \in [Parties -> Commitments \cup {NoCommitment}]
      OBVIOUS
    <3>. QED
      BY <3>1 DEF NotRunning, SessionState
  <2>. QED
    BY <2>1, <2>2 DEF Init, TypeOK
<1>2. BroadcastIsSound /\ CommitBeforeOpen
  BY DEF Init, BroadcastIsSound, CommitBeforeOpen
<1>3. SessionsAreSound
  <2>1. \A p \in Honest : Sound(Parties, channel, p, NotRunning("none"))
    BY <1>1, NothingHeard
  <2>. QED
    BY <2>1 DEF Init, SessionsAreSound
<1>4. TokensAreSound
  BY DEF Init, TokensAreSound
<1>. QED
  BY <1>1, <1>2, <1>3, <1>4 DEF IInv

LEMMA NextInv == IInv /\ [Next]_vars => IInv'
<1>. SUFFICES ASSUME IInv, [Next]_vars
              PROVE  IInv'
  OBVIOUS
<1>1. CASE \E p \in Honest : Start(p)
  BY <1>1, StartStep
<1>2. CASE \E p \in Honest : NextOutbound(p)
  BY <1>2, NextOutboundStep
<1>3. CASE \E p \in Honest : HandleBroadcast(p)
  BY <1>3, HandleCommitStep, HandleOpenStep DEF HandleBroadcast
<1>4. CASE \E p \in Honest : FinishEarly(p) \/ Crash(p)
  BY <1>4, LoseSession
<1>5. CASE \E p \in Honest : Finish(p)
  BY <1>5, FinishStep DEF Finish
<1>6. CASE \E q \in Faulty, m \in Messages : FaultyBroadcast(q, m)
  BY <1>6, FaultyStep
<1>7. CASE UNCHANGED vars
  <2>1. UNCHANGED <<setup, channel, registry, session, minted, losses>>
    BY <1>7 DEF vars
  <2>2. TypeOK /\ BroadcastIsSound /\ SessionsAreSound /\ CommitBeforeOpen /\ TokensAreSound
    BY DEF IInv
  <2>3. TypeOK' /\ BroadcastIsSound' /\ SessionsAreSound' /\ CommitBeforeOpen' /\ TokensAreSound'
    BY <2>1, <2>2, SameSetup, SameTokens
    DEF TypeOK, BroadcastIsSound, SessionsAreSound, CommitBeforeOpen
  <2>. QED
    BY <2>3 DEF IInv
<1>. QED
  BY <1>1, <1>2, <1>3, <1>4, <1>5, <1>6, <1>7 DEF Next

\* What a party holds, says and makes keeps its type whatever the others do.
THEOREM TypeCorrect == Spec => []TypeOK
<1>1. IInv => TypeOK
  BY DEF IInv
<1>. QED
  BY <1>1, InitInv, NextInv, PTL DEF Spec

LEMMA InvBinds == IInv => BoundBeforeOpen
<1>. SUFFICES ASSUME IInv, NEW p \in Honest, NEW t \in ToSet(minted[p]),
                     NEW b \in ToSet(t.broadcasts)
              PROVE  CommitMessage(b.party, Commitment(b.party, b.payload)) \in channel
  BY DEF IInv, BoundBeforeOpen, OpenedAsCommitted
<1>1. TypeOK /\ BroadcastIsSound /\ FromOpenings(Parties, channel, p, t)
  BY DEF IInv, TokensAreSound, ToSet
<1>2. PICK S \in SUBSET Opening : CommittedIn(channel, S) /\ t.broadcasts = SortedByParty(S)
  BY <1>1 DEF FromOpenings, Opening
<1>3. b \in S
  BY <1>1, <1>2, CommittedSortWhole
<1>. QED
  BY <1>2, <1>3 DEF CommittedIn

\* Nobody's nonce material is seen before everybody's is fixed, and a token holds only
\* what its senders had committed to, for any number of faulty signers.
THEOREM BoundBeforeOpenCorrect == Spec => []BoundBeforeOpen
  BY InitInv, NextInv, InvBinds, PTL DEF Spec

LEMMA InvAgrees == IInv => TokensAgree
<1>. SUFFICES ASSUME IInv, NEW p \in Honest, NEW q \in Honest,
                     NEW t \in ToSet(minted[p]), NEW u \in ToSet(minted[q])
              PROVE  /\ t.broadcasts = u.broadcasts
                     /\ [party |-> p, payload |-> t.yShare] \in ToSet(t.broadcasts)
  BY DEF TokensAgree
<1>1. /\ TypeOK /\ BroadcastIsSound
      /\ FromOpenings(Parties, channel, p, t) /\ FromOpenings(Parties, channel, q, u)
  BY DEF IInv, TokensAreSound, ToSet
<1>2. PICK S \in SUBSET Opening :
        /\ CommittedIn(channel, S) /\ \A r \in Parties : \E b \in S : b.party = r
        /\ t.broadcasts = SortedByParty(S)
  BY <1>1 DEF FromOpenings, Opening
<1>3. PICK T \in SUBSET Opening :
        /\ CommittedIn(channel, T) /\ \A r \in Parties : \E b \in T : b.party = r
        /\ u.broadcasts = SortedByParty(T)
  BY <1>1 DEF FromOpenings, Opening
<1>4. DifferentParties(S \cup T)
  <2>1. CommittedIn(channel, S \cup T)
    BY <1>2, <1>3 DEF CommittedIn
  <2>. QED
    BY <1>1, <2>1, CommittedSortWhole
<1>5. \A b \in S \cup T : b.party \in Parties
  BY DEF Opening
<1>6. S = T
  BY <1>2, <1>3, <1>4, <1>5 DEF DifferentParties
<1>7. [party |-> p, payload |-> Input[p]] \in S
  <2>1. PICK b \in S : b.party = p
    BY <1>1, <1>2, Signers
  <2>2. CommitMessage(p, Commitment(p, b.payload)) \in channel
    BY <1>2, <2>1 DEF CommittedIn
  <2>3. CommitMessage(p, Commitment(p, b.payload)) = LocalCommit(p)
    BY <1>1, <2>2, MessageFields, LocalMessages DEF BroadcastIsSound
  <2>4. Commitment(p, b.payload) = Commitment(p, Input[p])
    BY <2>3, MessageFields DEF LocalCommit
  <2>5. b.payload = Input[p]
    BY <1>1, <2>4, CommitmentsBind
  <2>. QED
    BY <2>1, <2>5 DEF Opening
<1>8. ToSet(t.broadcasts) = S
  BY <1>1, <1>2, CommittedSortWhole
<1>. QED
  BY <1>1, <1>2, <1>3, <1>6, <1>7, <1>8 DEF FromOpenings

\* Every token of one session id holds the same openings in the same order, its own
\* party's among them, whatever the order of delivery and the losses were.
THEOREM TokensAgreeCorrect == Spec => []TokensAgree
  BY InitInv, NextInv, InvAgrees, PTL DEF Spec
=============================================================================
