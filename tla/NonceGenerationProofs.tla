------------------------ MODULE NonceGenerationProofs ------------------------
(***************************************************************************)
(* For any parties, entropies, altered deliveries and losses: the types of *)
(* distributed nonce generation, that every dealing is bound before a coin *)
(* is seen, that all who finish hold the same evidence and, given the same *)
(* entropy, shares of one sharing of the nonce it certifies, and that who  *)
(* is not done can still take a step.                                      *)
(*                                                                         *)
(* The argument goes through what the application carries.  A party says   *)
(* one thing in each place of the protocol, because everything it draws is *)
(* a hash of its options; it says a coin behind every precommitment, and a *)
(* commitment behind every coin for its dealing.  For the nonce, sums and  *)
(* polynomials are unfolded from the folds that define them, by induction  *)
(* over the subsets of a finite set.  For progress, whatever a session     *)
(* owes has been queued or carried, and what is over has said everything.  *)
(***************************************************************************)
EXTENDS NonceGeneration, FiniteSetTheorems, SequenceTheorems, WellFoundedInduction, TLAPS

(***************************************************************************)
(* The inductive invariant.  st is the setup and shown what is carried.    *)
(***************************************************************************)
Precommitted(st, p) == Precommitment(p, st.entropy[p])
DeliveryOf(st, p, r) == [Dealt(p, r, st.entropy[p]) EXCEPT !.altered = <<p, r>> \in st.wrong]
AllCoins(st, p) == {CoinShare(q, p, st.entropy[q]) : q \in Parties}
Certificate(st, p) == Commitment(p, st.entropy[p], AllCoins(st, p))
Evidence(st) == {Certificate(st, p) : p \in Parties}

\* What party p may say, and what has to be carried by then.
Says(st, p, m) ==
  \/ m = Precommitted(st, p)
  \/ \E d \in Parties : m = CoinShare(p, d, st.entropy[p])
  \/ \E r \in Parties : m = DeliveryOf(st, p, r)
  \/ m = Certificate(st, p)

AllPrecommitted(st, shown) == \A d \in Parties : Precommitted(st, d) \in shown

Due(st, shown, m) ==
  /\ m.kind = "coin" => AllPrecommitted(st, shown)
  /\ m.kind = "commitment" => AllPrecommitted(st, shown) /\ AllCoins(st, m.from) \subseteq shown

Sound(st, shown, p, m) == Says(st, p, m) /\ Due(st, shown, m)

BroadcastIsSound == \A m \in channel : m.from \in Parties /\ Sound(setup, channel, m.from, m)

\* A session holds nothing that was not carried, and one precommitment of a party.
SoundSession(st, shown, p, s) ==
  /\ \A i \in DOMAIN s.outbound : Sound(st, shown, p, s.outbound[i])
  /\ \A i \in DOMAIN s.precommitments : s.precommitments[i] \in shown
  /\ \A i, j \in DOMAIN s.precommitments :
       s.precommitments[i].from = s.precommitments[j].from => i = j
  /\ s.coins \subseteq shown
  /\ s.commitments \subseteq shown

SessionsAreSound == \A p \in Parties : SoundSession(setup, channel, p, session[p])

OutputsAreSound ==
  /\ DOMAIN outputs = Parties
  /\ \A p \in Parties : \A o \in outputs[p] : o.evidence = Evidence(setup)

IInv == TypeOK /\ BroadcastIsSound /\ SessionsAreSound /\ OutputsAreSound

(***************************************************************************)
(* Counting: the parties in order, and sets as large as the parties.       *)
(***************************************************************************)
PartyCount == Cardinality(Parties)

LEMMA PartyFacts ==
  /\ IsFiniteSet(Parties) /\ Parties \subseteq Nat /\ PartyCount \in Nat
  /\ IsFiniteSet(1 .. PartyCount) /\ Cardinality(1 .. PartyCount) = PartyCount
<1>1. IsFiniteSet(Parties) /\ Parties \subseteq Nat
  BY NonceAssumption
<1>2. PartyCount \in Nat
  BY <1>1, FS_CardinalityType DEF PartyCount
<1>. QED
  BY <1>1, <1>2, FS_Interval

UpTo(p) == {q \in Parties : q <= p}

LEMMA InOrderIsOfParties ==
  /\ DOMAIN InOrder = 1 .. PartyCount
  /\ \A k \in 1 .. PartyCount : InOrder[k] \in Parties
  /\ \A p \in Parties : \E k \in 1 .. PartyCount : InOrder[k] = p
<1> DEFINE place == [p \in Parties |-> Cardinality(UpTo(p))]
<1>1. ASSUME NEW p \in Parties
      PROVE  IsFiniteSet(UpTo(p)) /\ Cardinality(UpTo(p)) \in 1 .. PartyCount
  <2>1. UpTo(p) \in SUBSET Parties /\ p \in UpTo(p)
    BY PartyFacts DEF UpTo
  <2>2. IsFiniteSet(UpTo(p)) /\ Cardinality(UpTo(p)) <= PartyCount
    BY <2>1, PartyFacts, FS_Subset DEF PartyCount
  <2>3. Cardinality(UpTo(p)) \in Nat /\ Cardinality(UpTo(p)) # 0
    BY <2>1, <2>2, FS_CardinalityType, FS_EmptySet
  <2>. QED
    BY <2>2, <2>3, PartyFacts
<1>2. ASSUME NEW p \in Parties, NEW q \in Parties, p < q
      PROVE  Cardinality(UpTo(p)) # Cardinality(UpTo(q))
  <2>1. p \in Nat /\ q \in Nat /\ \A r \in Parties : r \in Nat
    BY PartyFacts
  <2>2. \A r \in Parties : r <= p => r <= q
    BY <1>2, <2>1
  <2>3. q <= q /\ ~(q <= p)
    BY <1>2, <2>1
  <2>4. UpTo(p) \in SUBSET UpTo(q) /\ q \in UpTo(q) /\ q \notin UpTo(p)
    BY <2>2, <2>3 DEF UpTo
  <2>. QED
    BY <1>1, <2>4, FS_Subset
<1>3. \A p, q \in Parties : Cardinality(UpTo(p)) = Cardinality(UpTo(q)) => p = q
  <2>1. \A p, q \in Parties : p < q \/ q < p \/ p = q
    BY PartyFacts
  <2>. QED
    BY <1>2, <2>1
<1>4. place \in Injection(Parties, 1 .. PartyCount)
  BY <1>1, <1>3 DEF Injection, IsInjective
<1>5. place \in Surjection(Parties, 1 .. PartyCount)
  BY <1>4, PartyFacts, FS_Injection DEF PartyCount
<1>6. \A k \in 1 .. PartyCount : \E p \in Parties : Cardinality(UpTo(p)) = k
  BY <1>5 DEF Surjection
<1>7. InOrder = [k \in 1 .. PartyCount |-> CHOOSE p \in Parties : Cardinality(UpTo(p)) = k]
  BY DEF InOrder, UpTo, PartyCount
<1>8. \A k \in 1 .. PartyCount : InOrder[k] \in Parties /\ Cardinality(UpTo(InOrder[k])) = k
  BY <1>6, <1>7
<1>9. \A p \in Parties : InOrder[Cardinality(UpTo(p))] = p
  BY <1>1, <1>3, <1>8
<1>. QED
  BY <1>1, <1>7, <1>8, <1>9

\* A set of one message of each party at most has no more members than parties; a subset
\* of as many is the whole set.
LEMMA AsManyIsAll ==
  ASSUME NEW S, \A m \in S : m.from \in Parties, \A m, n \in S : m.from = n.from => m = n,
         NEW T \in SUBSET S, Cardinality(T) = PartyCount
  PROVE  T = S
<1> DEFINE sender == [m \in S |-> m.from]
<1>1. sender \in Injection(S, Parties)
  BY DEF Injection, IsInjective
<1>2. IsFiniteSet(S) /\ Cardinality(S) <= PartyCount
  BY <1>1, PartyFacts, FS_Injection DEF PartyCount
<1>3. IsFiniteSet(T) /\ Cardinality(T) <= Cardinality(S)
  BY <1>2, FS_Subset
<1>4. Cardinality(S) \in Nat
  BY <1>2, FS_CardinalityType
<1>5. Cardinality(S) = Cardinality(T)
  BY <1>2, <1>3, <1>4, PartyFacts
<1>. QED
  BY <1>2, <1>5, FS_Subset

\* A list of one message of each party at most, as long as the parties are many, has
\* one of everybody.
LEMMA EverybodyIsListed ==
  ASSUME NEW list \in Seq(Precommitments), Len(list) = PartyCount,
         \A i \in DOMAIN list : list[i].from \in Parties,
         \A i, j \in DOMAIN list : list[i].from = list[j].from => i = j
  PROVE  \A d \in Parties : \E i \in DOMAIN list : list[i].from = d
<1> DEFINE sender == [i \in 1 .. PartyCount |-> list[i].from]
<1>1. DOMAIN list = 1 .. PartyCount
  OBVIOUS
<1>2. sender \in Injection(1 .. PartyCount, Parties)
  BY <1>1 DEF Injection, IsInjective
<1>3. sender \in Surjection(1 .. PartyCount, Parties)
  BY <1>2, PartyFacts, FS_Injection DEF PartyCount
<1>. QED
  BY <1>1, <1>3 DEF Surjection

(***************************************************************************)
(* Messages.                                                               *)
(***************************************************************************)
LEMMA MessageFields ==
  /\ \A p, e : /\ Precommitment(p, e).kind = "precommitment"
               /\ Precommitment(p, e).from = p /\ Precommitment(p, e).deal = e
  /\ \A p, d, e : /\ CoinShare(p, d, e).kind = "coin" /\ CoinShare(p, d, e).from = p
                  /\ CoinShare(p, d, e).label = d
  /\ \A p, e, c : /\ Commitment(p, e, c).kind = "commitment" /\ Commitment(p, e, c).from = p
                  /\ Commitment(p, e, c).deal = e /\ Commitment(p, e, c).coins = c
  /\ \A st, p, r : /\ DeliveryOf(st, p, r).kind = "private" /\ DeliveryOf(st, p, r).from = p
                   /\ DeliveryOf(st, p, r).to = r
  BY DEF Precommitment, CoinShare, Commitment, DeliveryOf, Dealt

LEMMA MessageKinds ==
  ASSUME NEW m \in Messages
  PROVE  /\ m.kind = "precommitment" => m \in Precommitments
         /\ m.kind = "coin" => m \in CoinShares
         /\ m.kind = "commitment" => m \in Commitments
         /\ m.kind = "private" => m \in Deliveries
<1>1. m \in Precommitments => m.kind = "precommitment"
  BY MessageFields DEF Precommitments
<1>2. m \in CoinShares => m.kind = "coin"
  BY MessageFields DEF CoinShares
<1>3. m \in Commitments => m.kind = "commitment"
  BY DEF Commitments
<1>4. m \in Deliveries => m.kind = "private"
  BY DEF Deliveries
<1>. QED
  BY <1>1, <1>2, <1>3, <1>4 DEF Messages

\* One thing in each place.
LEMMA SaysWhat ==
  ASSUME NEW st, NEW p, NEW m, Says(st, p, m)
  PROVE  /\ m.from = p
         /\ m.kind \in {"precommitment", "coin", "private", "commitment"}
         /\ m.kind = "precommitment" => m = Precommitted(st, p)
         /\ m.kind = "coin" => m.label \in Parties /\ m = CoinShare(p, m.label, st.entropy[p])
         /\ m.kind = "private" => m = DeliveryOf(st, p, m.to)
         /\ m.kind = "commitment" => m = Certificate(st, p)
<1>1. CASE m = Precommitted(st, p)
  BY <1>1, MessageFields DEF Precommitted
<1>2. CASE \E d \in Parties : m = CoinShare(p, d, st.entropy[p])
  BY <1>2, MessageFields
<1>3. CASE \E r \in Parties : m = DeliveryOf(st, p, r)
  BY <1>3, MessageFields
<1>4. CASE m = Certificate(st, p)
  BY <1>4, MessageFields DEF Certificate
<1>. QED
  BY <1>1, <1>2, <1>3, <1>4 DEF Says

LEMMA SetupFacts ==
  ASSUME TypeOK
  PROVE  /\ setup.entropy \in [Parties -> Entropies]
         /\ setup.losses \in [Parties -> Nat]
  BY NonceAssumption DEF TypeOK

LEMMA SaidIsTyped ==
  ASSUME TypeOK, NEW p \in Parties
  PROVE  /\ \A d \in Parties : CoinShare(p, d, setup.entropy[p]) \in CoinShares
         /\ AllCoins(setup, p) \subseteq CoinShares
         /\ Certificate(setup, p) \in Commitments
         /\ \A m : Says(setup, p, m) => m \in Messages
<1>1. \A q \in Parties : setup.entropy[q] \in Entropies
  BY SetupFacts
<1>2. \A q, d \in Parties : CoinShare(q, d, setup.entropy[q]) \in CoinShares
  <2>1. \A q, d \in Parties : \A e \in Entropies : CoinShare(q, d, e) \in CoinShares
    BY DEF CoinShares
  <2>. QED
    BY <1>1, <2>1
<1>3. AllCoins(setup, p) \subseteq CoinShares
  BY <1>2 DEF AllCoins
<1>4. Certificate(setup, p) \in Commitments
  BY <1>1, <1>3 DEF Certificate, Commitment, Commitments
<1>5. Precommitted(setup, p) \in Precommitments
  BY <1>1 DEF Precommitted, Precommitments
<1>6. \A r \in Parties : DeliveryOf(setup, p, r) \in Deliveries
  <2>1. ASSUME NEW e \in Entropies, NEW r \in Parties, NEW altered \in BOOLEAN
        PROVE  [Dealt(p, r, e) EXCEPT !.altered = altered] \in Deliveries
    BY DEF Dealt, Deliveries
  <2>2. \A r \in Parties : (<<p, r>> \in setup.wrong) \in BOOLEAN
    OBVIOUS
  <2>. QED
    BY <1>1, <2>1, <2>2 DEF DeliveryOf
<1>. QED
  BY <1>2, <1>3, <1>4, <1>5, <1>6 DEF Says, Messages

LEMMA SoundIsKept ==
  ASSUME NEW st, NEW shown, NEW more, shown \subseteq more
  PROVE  /\ \A p, m : Sound(st, shown, p, m) => Sound(st, more, p, m)
         /\ \A p, s : SoundSession(st, shown, p, s) => SoundSession(st, more, p, s)
<1>1. \A p, m : Sound(st, shown, p, m) => Sound(st, more, p, m)
  BY DEF Sound, Due, AllPrecommitted
<1>. QED
  BY <1>1 DEF SoundSession

LEMMA SessionFields ==
  ASSUME NEW s \in SessionState
  PROVE  /\ s.precommitments \in Seq(Precommitments) /\ s.coins \subseteq CoinShares
         /\ s.commitments \subseteq Commitments /\ s.deliveries \subseteq Messages
         /\ s.outbound \in Seq(Messages)
         /\ s.prepared \in BOOLEAN /\ s.coinsSent \in BOOLEAN /\ s.commitmentSent \in BOOLEAN
  BY DEF SessionState

\* What is known of a carried message.
LEMMA CarriedFacts ==
  ASSUME TypeOK, BroadcastIsSound, NEW m \in channel
  PROVE  /\ m \in Messages /\ m.from \in Parties
         /\ m.kind = "precommitment" => m = Precommitted(setup, m.from)
         /\ m.kind = "coin" =>
              /\ m.label \in Parties /\ m = CoinShare(m.from, m.label, setup.entropy[m.from])
              /\ AllPrecommitted(setup, channel)
         /\ m.kind = "commitment" => m = Certificate(setup, m.from)
<1>1. m \in Messages /\ m.from \in Parties /\ Sound(setup, channel, m.from, m)
  BY DEF TypeOK, BroadcastIsSound
<1>2. Says(setup, m.from, m) /\ Due(setup, channel, m)
  BY <1>1 DEF Sound
<1>. QED
  BY <1>1, <1>2, SaysWhat DEF Due

LEMMA KindOfSet ==
  /\ \A m \in Precommitments : m.kind = "precommitment"
  /\ \A m \in CoinShares : m.kind = "coin"
  /\ \A m \in Commitments : m.kind = "commitment"
<1>1. \A m \in Precommitments : m.kind = "precommitment"
  BY MessageFields DEF Precommitments
<1>2. \A m \in CoinShares : m.kind = "coin"
  BY MessageFields DEF CoinShares
<1>. QED
  BY <1>1, <1>2 DEF Commitments

(***************************************************************************)
(* Advance: coins behind all precommitments, a commitment behind all coins.*)
(***************************************************************************)
SessionIsSound(p, s) == s \in SessionState /\ SoundSession(setup, channel, p, s)

LEMMA AppendSound ==
  ASSUME TypeOK, NEW p \in Parties, NEW out \in Seq(Messages), NEW more \in Seq(Messages),
         \A i \in DOMAIN out : Sound(setup, channel, p, out[i]),
         \A i \in DOMAIN more : Sound(setup, channel, p, more[i])
  PROVE  /\ out \o more \in Seq(Messages)
         /\ \A i \in DOMAIN (out \o more) : Sound(setup, channel, p, (out \o more)[i])
<1>1. /\ out \o more \in Seq(Messages) /\ Len(out \o more) = Len(out) + Len(more)
      /\ \A i \in 1 .. Len(out) + Len(more) :
           (out \o more)[i] = IF i <= Len(out) THEN out[i] ELSE more[i - Len(out)]
  BY ConcatProperties
<1>2. DOMAIN (out \o more) = 1 .. Len(out) + Len(more)
  BY <1>1
<1>3. /\ DOMAIN out = 1 .. Len(out) /\ DOMAIN more = 1 .. Len(more)
      /\ Len(out) \in Nat /\ Len(more) \in Nat
  OBVIOUS
<1>4. ASSUME NEW i \in 1 .. Len(out) + Len(more)
      PROVE  Sound(setup, channel, p, (out \o more)[i])
  <2>1. CASE i <= Len(out)
    <3>1. i \in DOMAIN out /\ (out \o more)[i] = out[i]
      BY <1>1, <1>3, <2>1
    <3>. QED
      BY <3>1
  <2>2. CASE ~(i <= Len(out))
    <3>1. i - Len(out) \in DOMAIN more /\ (out \o more)[i] = more[i - Len(out)]
      BY <1>1, <1>3, <2>2
    <3>. QED
      BY <3>1
  <2>. QED
    BY <2>1, <2>2
<1>. QED
  BY <1>1, <1>2, <1>4

LEMMA SendCoinsSound ==
  ASSUME TypeOK, BroadcastIsSound, NEW p \in Parties, NEW s, SessionIsSound(p, s)
  PROVE  SessionIsSound(p, SendCoins(p, s))
<1> DEFINE coins == [k \in DOMAIN s.precommitments |->
                       CoinShare(p, s.precommitments[k].from, setup.entropy[p])]
           X == [s EXCEPT !.coinsSent = TRUE, !.outbound = @ \o coins]
<1>1. s \in SessionState /\ SoundSession(setup, channel, p, s)
  BY DEF SessionIsSound
<1>2. CASE ~s.coinsSent /\ HasAllPrecommitments(s)
  <2>1. SendCoins(p, s) = X
    BY <1>2 DEF SendCoins
  <2>2. s.precommitments \in Seq(Precommitments) /\ s.outbound \in Seq(Messages)
    BY <1>1, SessionFields
  <2>3. /\ Len(s.precommitments) = PartyCount /\ Len(s.precommitments) \in Nat
        /\ DOMAIN s.precommitments = 1 .. Len(s.precommitments)
    BY <1>2, <2>2 DEF HasAllPrecommitments, N, PartyCount
  <2>4. \A i \in DOMAIN s.precommitments :
          /\ s.precommitments[i] \in channel
          /\ s.precommitments[i].kind = "precommitment"
    BY <1>1, <2>2, KindOfSet DEF SoundSession
  <2>5. \A i \in DOMAIN s.precommitments :
          /\ s.precommitments[i].from \in Parties
          /\ s.precommitments[i] = Precommitted(setup, s.precommitments[i].from)
    BY <2>4, CarriedFacts
  <2>6. \A d \in Parties : \E i \in DOMAIN s.precommitments : s.precommitments[i].from = d
    BY <1>1, <2>2, <2>3, <2>5, EverybodyIsListed DEF SoundSession
  <2>7. AllPrecommitted(setup, channel)
    BY <2>4, <2>5, <2>6 DEF AllPrecommitted
  <2>8. \A d \in Parties : /\ CoinShare(p, d, setup.entropy[p]) \in Messages
                           /\ Sound(setup, channel, p, CoinShare(p, d, setup.entropy[p]))
    BY <2>7, SaidIsTyped, MessageFields DEF Sound, Says, Due, Messages
  <2>9. DOMAIN coins = 1 .. Len(s.precommitments)
    BY <2>3
  <2>10. \A k \in DOMAIN coins : coins[k] \in Messages /\ Sound(setup, channel, p, coins[k])
    BY <2>5, <2>8
  <2> HIDE DEF coins
  <2>11. coins \in Seq(Messages)
    <3>1. coins = [k \in 1 .. Len(s.precommitments) |-> coins[k]]
      BY <2>9 DEF coins
    <3>. QED
      BY <2>3, <2>9, <2>10, <3>1
  <2>12. /\ s.outbound \o coins \in Seq(Messages)
         /\ \A i \in DOMAIN (s.outbound \o coins) :
              Sound(setup, channel, p, (s.outbound \o coins)[i])
    BY <1>1, <2>2, <2>10, <2>11, AppendSound DEF SoundSession
  <2>13. /\ X \in SessionState /\ X.outbound = s.outbound \o coins
         /\ X.precommitments = s.precommitments /\ X.coins = s.coins
         /\ X.commitments = s.commitments
    BY <1>1, <2>12 DEF SessionState
  <2> HIDE DEF X
  <2>14. SoundSession(setup, channel, p, X)
    BY <1>1, <2>12, <2>13 DEF SoundSession
  <2>. QED
    BY <2>1, <2>13, <2>14 DEF SessionIsSound
<1>3. CASE ~(~s.coinsSent /\ HasAllPrecommitments(s))
  BY <1>3 DEF SendCoins
<1>. QED
  BY <1>2, <1>3

\* As many coins for a dealing as there are parties are the coins of all.
LEMMA CoinsAreAll ==
  ASSUME TypeOK, BroadcastIsSound, NEW p \in Parties, NEW coins \in SUBSET CoinShares,
         coins \subseteq channel, \A m \in coins : m.label = p, Cardinality(coins) = PartyCount
  PROVE  /\ coins = AllCoins(setup, p)
         /\ AllPrecommitted(setup, channel) /\ AllCoins(setup, p) \subseteq channel
<1>1. \A m \in AllCoins(setup, p) : m.from \in Parties /\ m = CoinShare(m.from, p, setup.entropy[m.from])
  BY MessageFields DEF AllCoins
<1>2. \A m \in coins :
        /\ m.from \in Parties /\ m = CoinShare(m.from, p, setup.entropy[m.from])
        /\ AllPrecommitted(setup, channel)
  BY KindOfSet, CarriedFacts
<1>3. coins \in SUBSET AllCoins(setup, p)
  BY <1>2 DEF AllCoins
<1>4. coins = AllCoins(setup, p)
  <2>1. \A m \in AllCoins(setup, p) : m.from \in Parties
    BY <1>1
  <2>2. ASSUME NEW m \in AllCoins(setup, p), NEW n \in AllCoins(setup, p), m.from = n.from
        PROVE  m = n
    <3>1. m = CoinShare(m.from, p, setup.entropy[m.from])
      BY <1>1
    <3>2. n = CoinShare(n.from, p, setup.entropy[n.from])
      BY <1>1
    <3>. QED
      BY <2>2, <3>1, <3>2
  <2>. QED
    BY <1>3, <2>1, <2>2, AsManyIsAll
<1>5. \E m : m \in coins
  BY <1>4 DEF AllCoins
<1>. QED
  BY <1>2, <1>4, <1>5

LEMMA SendCommitmentSound ==
  ASSUME TypeOK, BroadcastIsSound, NEW p \in Parties, NEW s, SessionIsSound(p, s)
  PROVE  SessionIsSound(p, SendCommitment(p, s))
<1> DEFINE coins == CoinsFor(s, p)
           m == Commitment(p, setup.entropy[p], coins)
           X == [s EXCEPT !.prepared = FALSE, !.commitmentSent = TRUE, !.outbound = Append(@, m)]
           Y == [s EXCEPT !.prepared = FALSE]
<1>1. s \in SessionState /\ SoundSession(setup, channel, p, s)
  BY DEF SessionIsSound
<1>2. SessionIsSound(p, Y)
  <2>1. /\ Y \in SessionState /\ Y.outbound = s.outbound
        /\ Y.precommitments = s.precommitments /\ Y.coins = s.coins
        /\ Y.commitments = s.commitments
    BY <1>1 DEF SessionState
  <2> HIDE DEF Y
  <2>. QED
    BY <1>1, <2>1 DEF SoundSession, SessionIsSound
<1>3. CASE ~s.commitmentSent /\ Cardinality(coins) = N /\ s.prepared /\ AuditsVerify[p][setup.entropy[p]]
  <2>1. SendCommitment(p, s) = X
    BY <1>3 DEF SendCommitment
  <2>2. coins \in SUBSET CoinShares /\ coins \subseteq channel /\ \A c \in coins : c.label = p
    BY <1>1, SessionFields DEF CoinsFor, SoundSession
  <2>3. Cardinality(coins) = PartyCount
    BY <1>3 DEF N, PartyCount
  <2> HIDE DEF coins
  <2>4. /\ coins = AllCoins(setup, p) /\ AllPrecommitted(setup, channel)
        /\ AllCoins(setup, p) \subseteq channel
    BY <2>2, <2>3, CoinsAreAll
  <2>5. m = Certificate(setup, p)
    BY <2>4 DEF Certificate
  <2> HIDE DEF m
  <2>6. m \in Messages /\ Says(setup, p, m) /\ m.from = p /\ m.kind = "commitment"
    BY <2>5, SaidIsTyped, MessageFields DEF Says, Messages, Certificate
  <2>7. Sound(setup, channel, p, m)
    BY <2>4, <2>6 DEF Sound, Due
  <2>8. s.outbound \in Seq(Messages)
    BY <1>1, SessionFields
  <2>9. /\ Append(s.outbound, m) \in Seq(Messages)
        /\ \A i \in DOMAIN Append(s.outbound, m) :
             Append(s.outbound, m)[i] = m \/
               (i \in DOMAIN s.outbound /\ Append(s.outbound, m)[i] = s.outbound[i])
    BY <2>6, <2>8
  <2>10. /\ X \in SessionState /\ X.outbound = Append(s.outbound, m)
         /\ X.precommitments = s.precommitments /\ X.coins = s.coins
         /\ X.commitments = s.commitments
    BY <1>1, <2>9 DEF SessionState
  <2> HIDE DEF X
  <2>11. SoundSession(setup, channel, p, X)
    BY <1>1, <2>7, <2>9, <2>10 DEF SoundSession
  <2>. QED
    BY <2>1, <2>10, <2>11 DEF SessionIsSound
<1>4. CASE ~(~s.commitmentSent /\ Cardinality(coins) = N /\ s.prepared /\ AuditsVerify[p][setup.entropy[p]])
  <2>1. SendCommitment(p, s) = s \/ SendCommitment(p, s) = Y
    BY <1>4 DEF SendCommitment
  <2>. QED
    BY <1>2, <2>1
<1>. QED
  BY <1>3, <1>4

LEMMA AdvanceSound ==
  ASSUME TypeOK, BroadcastIsSound, NEW p \in Parties, NEW s, SessionIsSound(p, s)
  PROVE  SessionIsSound(p, Advance(p, s))
  BY SendCoinsSound, SendCommitmentSound DEF Advance

(***************************************************************************)
(* Steps.                                                                  *)
(***************************************************************************)
LEMMA OneOfEachIsInjective ==
  ASSUME NEW p, NEW s, SessionIsSound(p, s)
  PROVE  IsInjective(s.precommitments)
  BY DEF SessionIsSound, SoundSession, IsInjective

LEMMA LossesKept ==
  ASSUME TypeOK, NEW p \in Parties, Lose(p) \/ losses' = losses, setup' = setup
  PROVE  losses' \in [Parties -> Nat] /\ \A q \in Parties : losses'[q] <= setup'.losses[q]
<1>1. /\ losses \in [Parties -> Nat] /\ setup.losses \in [Parties -> Nat]
      /\ \A q \in Parties : losses[q] <= setup.losses[q]
  BY SetupFacts DEF TypeOK
<1>2. CASE Lose(p)
  <2>1. losses' = [losses EXCEPT ![p] = losses[p] + 1] /\ losses[p] < setup.losses[p]
    BY <1>2 DEF Lose
  <2>2. losses[p] + 1 \in Nat /\ losses[p] + 1 <= setup.losses[p]
    BY <1>1, <2>1
  <2>. QED
    BY <1>1, <2>1, <2>2
<1>3. CASE losses' = losses
  BY <1>1, <1>3
<1>. QED
  BY <1>2, <1>3

\* Party p goes to the session X, and what it carries along is sound.
LEMMA SessionStep ==
  ASSUME IInv, NEW p \in Parties, NEW X, X \in SessionState,
         NEW more, \A m \in more : Sound(setup, channel, p, m),
         channel' = channel \cup more, SoundSession(setup, channel', p, X),
         session' = [session EXCEPT ![p] = X], setup' = setup,
         Lose(p) \/ losses' = losses
  PROVE  /\ setup' \in Setups /\ channel' \subseteq Messages
         /\ session' \in [Parties -> SessionState]
         /\ \A q \in Parties : IsInjective(session'[q].precommitments)
         /\ losses' \in [Parties -> Nat] /\ \A q \in Parties : losses'[q] <= setup'.losses[q]
         /\ BroadcastIsSound' /\ SessionsAreSound'
<1>1. TypeOK /\ BroadcastIsSound /\ SessionsAreSound
  BY DEF IInv
<1>2. \A m \in more : m \in Messages /\ m.from = p
  BY <1>1, SaidIsTyped, SaysWhat DEF Sound
<1>3. setup' \in Setups /\ channel' \subseteq Messages
  BY <1>1, <1>2 DEF TypeOK
<1>4. session \in [Parties -> SessionState]
  BY <1>1 DEF TypeOK
<1>5. ASSUME NEW q \in Parties
      PROVE  session'[q] \in SessionState /\ SoundSession(setup, channel', q, session'[q])
  <2>1. CASE q = p
    BY <1>4, <2>1
  <2>2. CASE q # p
    <3>1. session'[q] = session[q] /\ SoundSession(setup, channel, q, session[q])
      BY <1>1, <1>4, <2>2 DEF SessionsAreSound
    <3>2. channel \subseteq channel'
      OBVIOUS
    <3>3. SoundSession(setup, channel', q, session[q])
      BY <3>1, <3>2, SoundIsKept
    <3>. QED
      BY <1>4, <3>1, <3>3
  <2>. QED
    BY <2>1, <2>2
<1>6. session' \in [Parties -> SessionState]
  BY <1>4
<1>7. \A q \in Parties : IsInjective(session'[q].precommitments)
  BY <1>5 DEF SoundSession, IsInjective
<1>8. SessionsAreSound'
  BY <1>5 DEF SessionsAreSound
<1>9. ASSUME NEW m \in channel'
      PROVE  m.from \in Parties /\ Sound(setup, channel', m.from, m)
  <2>1. m.from \in Parties /\ Sound(setup, channel, m.from, m)
    BY <1>1, <1>2 DEF BroadcastIsSound
  <2>. QED
    BY <2>1, SoundIsKept
<1>10. BroadcastIsSound'
  BY <1>9 DEF BroadcastIsSound
<1>11. losses' \in [Parties -> Nat] /\ \A q \in Parties : losses'[q] <= setup'.losses[q]
  BY <1>1, LossesKept
<1>. QED
  BY <1>3, <1>6, <1>7, <1>8, <1>10, <1>11

LEMMA QuietStep ==
  ASSUME IInv, NEW p \in Parties, NEW X, X \in SessionState,
         NEW more, \A m \in more : Sound(setup, channel, p, m),
         channel' = channel \cup more, SoundSession(setup, channel', p, X),
         session' = [session EXCEPT ![p] = X], setup' = setup,
         Lose(p) \/ losses' = losses, outputs' = outputs
  PROVE  IInv'
<1>1. TypeOK /\ OutputsAreSound
  BY DEF IInv
<1>2. /\ setup' \in Setups /\ channel' \subseteq Messages
      /\ session' \in [Parties -> SessionState]
      /\ \A q \in Parties : IsInjective(session'[q].precommitments)
      /\ losses' \in [Parties -> Nat] /\ \A q \in Parties : losses'[q] <= setup'.losses[q]
      /\ BroadcastIsSound' /\ SessionsAreSound'
  BY SessionStep
<1>3. OutputsAreSound'
  BY <1>1 DEF OutputsAreSound
<1>4. TypeOK'
  BY <1>1, <1>2 DEF TypeOK
<1>. QED
  BY <1>2, <1>3, <1>4 DEF IInv

LEMMA StayStep ==
  ASSUME IInv, NEW p \in Parties, NEW X, SessionIsSound(p, X),
         session' = [session EXCEPT ![p] = X], UNCHANGED <<setup, channel, outputs>>,
         Lose(p) \/ losses' = losses
  PROVE  IInv'
<1>1. PICK none : none = {}
  OBVIOUS
<1>4. channel' = channel \cup none /\ \A m \in none : Sound(setup, channel, p, m)
  BY <1>1
<1>2. X \in SessionState /\ SoundSession(setup, channel', p, X)
  BY DEF SessionIsSound
<1>3. setup' = setup /\ outputs' = outputs
  OBVIOUS
<1>. QED
  BY <1>2, <1>3, <1>4, QuietStep

LEMMA NotRunningSound ==
  ASSUME NEW st, NEW shown, NEW p, NEW status \in {"none", "running", "over"}
  PROVE  NotRunning(status) \in SessionState /\ SoundSession(st, shown, p, NotRunning(status))
<1>. SUFFICES ASSUME NEW s, s = NotRunning(status)
              PROVE  s \in SessionState /\ SoundSession(st, shown, p, s)
  OBVIOUS
<1>1. /\ s.outbound = <<>> /\ s.precommitments = <<>> /\ s.coins = {} /\ s.commitments = {}
  BY DEF NotRunning
<1>2. s \in SessionState
  BY DEF NotRunning, SessionState
<1>. QED
  BY <1>1, <1>2 DEF SoundSession

LEMMA StartStep ==
  ASSUME IInv, NEW p \in Parties, Start(p)
  PROVE  IInv'
<1> DEFINE first == <<Precommitment(p, setup.entropy[p])>>
           rest == [k \in DOMAIN InOrder |-> Delivery(p, InOrder[k], setup.entropy[p])]
           X == Started(p)
<1>1. TypeOK
  BY DEF IInv
<1>2. Precommitment(p, setup.entropy[p]) = Precommitted(setup, p)
  BY DEF Precommitted
<1>3. \A k \in DOMAIN InOrder :
        Delivery(p, InOrder[k], setup.entropy[p]) = DeliveryOf(setup, p, InOrder[k])
  BY DEF Delivery, DeliveryOf
<1>4. /\ Precommitted(setup, p) \in Messages
      /\ Sound(setup, channel, p, Precommitted(setup, p))
      /\ \A r \in Parties : /\ DeliveryOf(setup, p, r) \in Messages
                            /\ Sound(setup, channel, p, DeliveryOf(setup, p, r))
  BY <1>1, SaidIsTyped, MessageFields DEF Sound, Says, Due, Precommitted
<1>5. /\ first \in Seq(Messages)
      /\ \A i \in DOMAIN first : Sound(setup, channel, p, first[i])
  BY <1>2, <1>4
<1>6. /\ DOMAIN rest = 1 .. PartyCount
      /\ \A k \in DOMAIN rest : rest[k] \in Messages /\ Sound(setup, channel, p, rest[k])
  BY <1>3, <1>4, InOrderIsOfParties
<1>7. rest = [k \in 1 .. PartyCount |-> rest[k]]
  BY <1>6
<1> HIDE DEF rest
<1>8. rest \in Seq(Messages)
  BY <1>6, <1>7, PartyFacts
<1>9. /\ first \o rest \in Seq(Messages)
      /\ \A i \in DOMAIN (first \o rest) : Sound(setup, channel, p, (first \o rest)[i])
  <2> HIDE DEF first
  <2>. QED
    BY <1>1, <1>5, <1>6, <1>8, AppendSound
<1>10. X = [NotRunning("running") EXCEPT !.prepared = TRUE, !.outbound = first \o rest]
  BY DEF Started, rest
<1> HIDE DEF first
<1>11. /\ X \in SessionState /\ X.outbound = first \o rest
       /\ X.precommitments = <<>> /\ X.coins = {} /\ X.commitments = {}
  <2> DEFINE out == first \o rest
  <2>1. X = [NotRunning("running") EXCEPT !.prepared = TRUE, !.outbound = out]
    BY <1>10
  <2>2. out \in Seq(Messages)
    BY <1>9
  <2> HIDE DEF X, out
  <2>3. X = [status |-> "running", prepared |-> TRUE, precommitments |-> <<>>, coins |-> {},
             commitments |-> {}, deliveries |-> {}, coinsSent |-> FALSE,
             commitmentSent |-> FALSE, outbound |-> out]
    BY <2>1 DEF NotRunning
  <2>4. /\ X.outbound = out /\ X.precommitments = <<>> /\ X.coins = {} /\ X.commitments = {}
    BY <2>3
  <2>5. X \in SessionState
    BY <2>2, <2>3 DEF SessionState
  <2>. QED
    BY <2>4, <2>5 DEF out
<1> HIDE DEF X
<1>12. SoundSession(setup, channel, p, X)
  BY <1>9, <1>11 DEF SoundSession
<1>13. /\ session' = [session EXCEPT ![p] = X] /\ UNCHANGED <<setup, channel, outputs>>
       /\ Lose(p) \/ losses' = losses
  BY DEF Start, X
<1>. QED
  BY <1>11, <1>12, <1>13, StayStep DEF SessionIsSound

LEMMA HandleStep ==
  ASSUME IInv, NEW p \in Parties, NEW s, SessionIsSound(p, s), Handle(p, s)
  PROVE  IInv'
<1>1. SessionIsSound(p, Advance(p, s))
  BY AdvanceSound DEF IInv
<1>2. /\ session' = [session EXCEPT ![p] = Advance(p, s)]
      /\ UNCHANGED <<setup, channel, outputs, losses>>
  BY DEF Handle
<1>. QED
  BY <1>1, <1>2, StayStep

LEMMA CurrentSession ==
  ASSUME IInv, NEW p \in Parties
  PROVE  TypeOK /\ BroadcastIsSound /\ SessionIsSound(p, session[p])
  BY DEF IInv, TypeOK, SessionsAreSound, SessionIsSound

\* A precommitment of a party that was not heard joins the list.
LEMMA AppendedIsSound ==
  ASSUME NEW p, NEW s \in SessionState, SoundSession(setup, channel, p, s),
         NEW m \in Precommitments, m \in channel, m.from \notin Dealers(s),
         NEW X, X = [s EXCEPT !.precommitments = Append(@, m)]
  PROVE  SessionIsSound(p, X)
<1>1. s.precommitments \in Seq(Precommitments)
  BY SessionFields
<1>2. /\ Append(s.precommitments, m) \in Seq(Precommitments)
      /\ DOMAIN s.precommitments = 1 .. Len(s.precommitments) /\ Len(s.precommitments) \in Nat
      /\ DOMAIN Append(s.precommitments, m) = 1 .. Len(s.precommitments) + 1
      /\ \A i \in 1 .. Len(s.precommitments) :
           Append(s.precommitments, m)[i] = s.precommitments[i]
      /\ Append(s.precommitments, m)[Len(s.precommitments) + 1] = m
  BY <1>1
<1>3. /\ X \in SessionState /\ X.precommitments = Append(s.precommitments, m)
      /\ X.outbound = s.outbound /\ X.coins = s.coins /\ X.commitments = s.commitments
  BY <1>2 DEF SessionState
<1>4. \A i \in DOMAIN s.precommitments : s.precommitments[i].from # m.from
  BY DEF Dealers
<1>5. ASSUME NEW i \in DOMAIN X.precommitments, NEW j \in DOMAIN X.precommitments,
             X.precommitments[i].from = X.precommitments[j].from
      PROVE  i = j
  <2>1. CASE i \in DOMAIN s.precommitments /\ j \in DOMAIN s.precommitments
    BY <1>2, <1>3, <1>5, <2>1 DEF SoundSession
  <2>2. CASE i \notin DOMAIN s.precommitments /\ j \notin DOMAIN s.precommitments
    BY <1>2, <1>3, <2>2
  <2>3. CASE i \in DOMAIN s.precommitments /\ j \notin DOMAIN s.precommitments
    BY <1>2, <1>3, <1>4, <1>5, <2>3
  <2>4. CASE i \notin DOMAIN s.precommitments /\ j \in DOMAIN s.precommitments
    BY <1>2, <1>3, <1>4, <1>5, <2>4
  <2>. QED
    BY <2>1, <2>2, <2>3, <2>4
<1>6. \A i \in DOMAIN X.precommitments : X.precommitments[i] \in channel
  BY <1>2, <1>3 DEF SoundSession
<1>. QED
  BY <1>3, <1>5, <1>6 DEF SoundSession, SessionIsSound

LEMMA HandlePrecommitmentStep ==
  ASSUME IInv, NEW p \in Parties, NEW m \in channel, HandlePrecommitment(p, m)
  PROVE  IInv'
<1> DEFINE s == session[p]
           X == [s EXCEPT !.precommitments = Append(@, m)]
<1>1. TypeOK /\ s \in SessionState /\ SoundSession(setup, channel, p, s)
  BY CurrentSession DEF SessionIsSound
<1>2. m.kind = "precommitment" /\ m.from \notin Dealers(s) /\ Handle(p, X)
  BY DEF HandlePrecommitment, InsertPrecommitment
<1> HIDE DEF s
<1>3. m \in Precommitments
  BY <1>1, <1>2, MessageKinds DEF TypeOK
<1>4. SessionIsSound(p, X)
  BY <1>1, <1>2, <1>3, AppendedIsSound
<1> HIDE DEF X
<1>. QED
  BY <1>2, <1>4, HandleStep

LEMMA HandleOthersStep ==
  ASSUME IInv, NEW p \in Parties, NEW m \in channel,
         HandleCoin(p, m) \/ HandleCommitment(p, m) \/ HandlePrivate(p, m)
  PROVE  IInv'
<1> DEFINE s == session[p]
           C == [s EXCEPT !.coins = @ \cup {m}]
           D == [s EXCEPT !.commitments = @ \cup {m}]
           E == [s EXCEPT !.deliveries = @ \cup {m}]
<1>1. TypeOK /\ s \in SessionState /\ SoundSession(setup, channel, p, s)
  BY CurrentSession DEF SessionIsSound
<1>2. \/ m.kind = "coin" /\ Handle(p, C)
      \/ m.kind = "commitment" /\ Handle(p, D)
      \/ m.kind = "private" /\ Handle(p, E)
  BY DEF HandleCoin, InsertCoin, HandleCommitment, InsertCommitment, HandlePrivate, InsertPrivate
<1> HIDE DEF s
<1>3. m \in Messages
  BY <1>1 DEF TypeOK
<1>4. CASE m.kind = "coin" /\ Handle(p, C)
  <2>1. m \in CoinShares
    BY <1>3, <1>4, MessageKinds
  <2>2. /\ C \in SessionState /\ C.outbound = s.outbound /\ C.coins = s.coins \cup {m}
        /\ C.precommitments = s.precommitments /\ C.commitments = s.commitments
    BY <1>1, <2>1 DEF SessionState
  <2> HIDE DEF C
  <2>3. SessionIsSound(p, C)
    BY <1>1, <2>2 DEF SoundSession, SessionIsSound
  <2>. QED
    BY <1>4, <2>3, HandleStep
<1>5. CASE m.kind = "commitment" /\ Handle(p, D)
  <2>1. m \in Commitments
    BY <1>3, <1>5, MessageKinds
  <2>2. /\ D \in SessionState /\ D.outbound = s.outbound /\ D.coins = s.coins
        /\ D.precommitments = s.precommitments /\ D.commitments = s.commitments \cup {m}
    BY <1>1, <2>1 DEF SessionState
  <2> HIDE DEF D
  <2>3. SessionIsSound(p, D)
    BY <1>1, <2>2 DEF SoundSession, SessionIsSound
  <2>. QED
    BY <1>5, <2>3, HandleStep
<1>6. CASE m.kind = "private" /\ Handle(p, E)
  <2>1. /\ E \in SessionState /\ E.outbound = s.outbound /\ E.coins = s.coins
        /\ E.precommitments = s.precommitments /\ E.commitments = s.commitments
    BY <1>1, <1>3 DEF SessionState
  <2> HIDE DEF E
  <2>2. SessionIsSound(p, E)
    BY <1>1, <2>1 DEF SoundSession, SessionIsSound
  <2>. QED
    BY <1>6, <2>2, HandleStep
<1>. QED
  BY <1>2, <1>4, <1>5, <1>6

LEMMA TakeOutboundStep ==
  ASSUME IInv, NEW p \in Parties, TakeOutbound(p)
  PROVE  IInv'
<1> DEFINE s == session[p]
           X == [s EXCEPT !.outbound = <<>>]
           more == ToSet(s.outbound)
<1>1. TypeOK /\ s \in SessionState /\ SoundSession(setup, channel, p, s)
  BY CurrentSession DEF SessionIsSound
<1>2. /\ channel' = channel \cup more /\ session' = [session EXCEPT ![p] = X]
      /\ setup' = setup /\ outputs' = outputs /\ losses' = losses
  <2>1. session \in [Parties -> SessionState]
    BY <1>1 DEF TypeOK
  <2>2. session' = [session EXCEPT ![p].outbound = <<>>]
    BY DEF TakeOutbound
  <2>3. session' = [session EXCEPT ![p] = X]
    BY <2>1, <2>2
  <2>. QED
    BY <2>3 DEF TakeOutbound
<1> HIDE DEF s
<1>3. \A m \in more : Sound(setup, channel, p, m)
  BY <1>1 DEF SoundSession, ToSet
<1>4. /\ X \in SessionState /\ X.outbound = <<>> /\ X.coins = s.coins
      /\ X.precommitments = s.precommitments /\ X.commitments = s.commitments
  <2>1. <<>> \in Seq(Messages)
    OBVIOUS
  <2>. QED
    BY <1>1, <2>1 DEF SessionState
<1> HIDE DEF X, more
<1>5. SoundSession(setup, channel', p, X)
  BY <1>1, <1>2, <1>4 DEF SoundSession
<1>. QED
  BY <1>2, <1>3, <1>4, <1>5, QuietStep

LEMMA LoseSession ==
  ASSUME IInv, NEW p \in Parties, FinishEarly(p) \/ Crash(p)
  PROVE  IInv'
<1> DEFINE s == session[p]
           sent(k) == ToSet(SubSeq(s.outbound, 1, k))
<1>1. TypeOK /\ s \in SessionState /\ SoundSession(setup, channel, p, s)
  BY CurrentSession DEF SessionIsSound
<1>2. /\ session' = [session EXCEPT ![p] = NotRunning("none")]
      /\ setup' = setup /\ outputs' = outputs /\ Lose(p)
      /\ channel' = channel \/ \E k \in 0 .. Len(s.outbound) : channel' = channel \cup sent(k)
  BY DEF FinishEarly, Crash
<1> HIDE DEF s
<1>3. ASSUME NEW k \in 0 .. Len(s.outbound), NEW m \in sent(k)
      PROVE  Sound(setup, channel, p, m)
  <2>1. s.outbound \in Seq(Messages)
    BY <1>1, SessionFields
  <2>2. \A i \in DOMAIN SubSeq(s.outbound, 1, k) :
          i \in DOMAIN s.outbound /\ SubSeq(s.outbound, 1, k)[i] = s.outbound[i]
    BY <2>1
  <2>. QED
    BY <1>1, <2>2 DEF SoundSession, ToSet
<1>4. PICK more : channel' = channel \cup more /\ \A m \in more : Sound(setup, channel, p, m)
  <2>1. CASE channel' = channel
    <3>1. PICK none : none = {}
      OBVIOUS
    <3>2. channel' = channel \cup none /\ \A m \in none : Sound(setup, channel, p, m)
      BY <2>1, <3>1
    <3>. QED
      BY <3>2
  <2>2. CASE \E k \in 0 .. Len(s.outbound) : channel' = channel \cup sent(k)
    <3>1. PICK k \in 0 .. Len(s.outbound) : channel' = channel \cup sent(k)
      BY <2>2
    <3>2. \A m \in sent(k) : Sound(setup, channel, p, m)
      BY <1>3
    <3> HIDE DEF sent
    <3>. QED
      BY <3>1, <3>2
  <2>. QED
    BY <1>2, <2>1, <2>2
<1>. QED
  BY <1>2, <1>4, NotRunningSound, QuietStep

(***************************************************************************)
(* finish: as many certificates as there are parties are all of them.      *)
(***************************************************************************)
LEMMA AdvanceKeepsCommitments ==
  ASSUME TypeOK, BroadcastIsSound, NEW p \in Parties, NEW s, SessionIsSound(p, s)
  PROVE  Advance(p, s).commitments = s.commitments
<1>1. ASSUME NEW r \in SessionState
      PROVE  SendCommitment(p, r).commitments = r.commitments
  BY <1>1 DEF SendCommitment, SessionState
<1>2. ASSUME NEW r \in SessionState
      PROVE  SendCoins(p, r).commitments = r.commitments
  BY <1>2 DEF SendCoins, SessionState
<1>3. s \in SessionState /\ SendCoins(p, s) \in SessionState
  BY SendCoinsSound DEF SessionIsSound
<1>. QED
  BY <1>1, <1>2, <1>3 DEF Advance

LEMMA CertificatesAreAll ==
  ASSUME TypeOK, BroadcastIsSound, NEW list \in SUBSET Commitments, list \subseteq channel,
         Cardinality(list) = PartyCount
  PROVE  list = Evidence(setup)
<1>1. \A m \in Evidence(setup) : m.from \in Parties /\ m = Certificate(setup, m.from)
  BY MessageFields DEF Evidence, Certificate
<1>2. \A m \in list : m.from \in Parties /\ m = Certificate(setup, m.from)
  BY KindOfSet, CarriedFacts
<1>3. list \in SUBSET Evidence(setup)
  BY <1>2 DEF Evidence
<1>4. \A m, n \in Evidence(setup) : m.from = n.from => m = n
  BY <1>1
<1>. QED
  BY <1>1, <1>3, <1>4, AsManyIsAll

LEMMA FinishStep ==
  ASSUME IInv, NEW p \in Parties, Finish(p)
  PROVE  IInv'
<1> DEFINE s == session[p]
           X == NotRunning("over")
           o == Output(p, s)
<1>1. TypeOK /\ BroadcastIsSound /\ s \in SessionState /\ SoundSession(setup, channel, p, s)
  BY CurrentSession DEF SessionIsSound
<1>2. /\ Cardinality(Advance(p, s).commitments) = N
      /\ session' = [session EXCEPT ![p] = X]
      /\ outputs' = [outputs EXCEPT ![p] = @ \cup {o}] \/ outputs' = outputs
      /\ setup' = setup /\ channel' = channel /\ losses' = losses
  BY DEF Finish, Complete
<1> HIDE DEF s
<1>3. s.commitments \in SUBSET Commitments /\ s.commitments \subseteq channel
  BY <1>1, SessionFields DEF SoundSession
<1>4. Cardinality(s.commitments) = PartyCount
  BY <1>1, <1>2, CurrentSession, AdvanceKeepsCommitments DEF N, PartyCount, s
<1>5. o.evidence = Evidence(setup) /\ o.evidence \subseteq Commitments
  BY <1>1, <1>3, <1>4, CertificatesAreAll DEF Output
<1> HIDE DEF o
<1>6. OutputsAreSound /\ \A q \in Parties : \A w \in outputs[q] : w.evidence \subseteq Commitments
  BY <1>1 DEF IInv, TypeOK
<1>7. /\ DOMAIN outputs' = Parties
      /\ \A q \in Parties : \A w \in outputs'[q] : w = o \/ w \in outputs[q]
  BY <1>2, <1>6 DEF OutputsAreSound
<1>8. OutputsAreSound'
  BY <1>2, <1>5, <1>6, <1>7 DEF OutputsAreSound
<1>9. PICK none : none = {}
  OBVIOUS
<1>10. /\ channel' = channel \cup none /\ \A m \in none : Sound(setup, channel, p, m)
       /\ X \in SessionState /\ SoundSession(setup, channel', p, X)
  BY <1>2, <1>9, NotRunningSound
<1> HIDE DEF X
<1>11. /\ setup' \in Setups /\ channel' \subseteq Messages
       /\ session' \in [Parties -> SessionState]
       /\ \A q \in Parties : IsInjective(session'[q].precommitments)
       /\ losses' \in [Parties -> Nat] /\ \A q \in Parties : losses'[q] <= setup'.losses[q]
       /\ BroadcastIsSound' /\ SessionsAreSound'
  BY <1>2, <1>10, SessionStep
<1>12. TypeOK'
  BY <1>5, <1>6, <1>7, <1>11 DEF TypeOK
<1>. QED
  BY <1>8, <1>11, <1>12 DEF IInv

(***************************************************************************)
(* The invariant.                                                          *)
(***************************************************************************)
LEMMA InitInv == Init => IInv
<1>. SUFFICES ASSUME Init PROVE IInv
  OBVIOUS
<1>1. session \in [Parties -> SessionState] /\ SessionsAreSound
  <2>1. \A p \in Parties : session[p] = NotRunning("none")
    BY DEF Init
  <2>2. session = [p \in Parties |-> session[p]]
    BY DEF Init
  <2>3. \A p \in Parties : session[p] \in SessionState /\ SoundSession(setup, channel, p, session[p])
    BY <2>1, NotRunningSound
  <2>. QED
    BY <2>2, <2>3 DEF SessionsAreSound
<1>2. \A p \in Parties : IsInjective(session[p].precommitments)
  BY <1>1 DEF SessionsAreSound, SoundSession, IsInjective
<1>3. BroadcastIsSound /\ OutputsAreSound
  BY DEF Init, BroadcastIsSound, OutputsAreSound
<1>4. losses \in [Parties -> Nat] /\ \A p \in Parties : losses[p] <= setup.losses[p]
  <2>1. setup.losses \in [Parties -> Nat]
    BY NonceAssumption DEF Init
  <2>. QED
    BY <2>1 DEF Init
<1>5. TypeOK
  BY <1>1, <1>2, <1>4 DEF Init, TypeOK
<1>. QED
  BY <1>1, <1>3, <1>5 DEF IInv

LEMMA StutterInv == IInv /\ UNCHANGED vars => IInv'
  BY DEF vars, IInv, TypeOK, BroadcastIsSound, SessionsAreSound, OutputsAreSound

LEMMA NextInv == IInv /\ [Next]_vars => IInv'
<1>. SUFFICES ASSUME IInv, [Next]_vars PROVE IInv'
  OBVIOUS
<1>1. ASSUME NEW p \in Parties, Start(p) PROVE IInv'
  BY <1>1, StartStep
<1>2. ASSUME NEW p \in Parties, TakeOutbound(p) PROVE IInv'
  BY <1>2, TakeOutboundStep
<1>3. ASSUME NEW p \in Parties, HandleMessage(p) PROVE IInv'
  BY <1>3, HandlePrecommitmentStep, HandleOthersStep DEF HandleMessage
<1>4. ASSUME NEW p \in Parties, FinishEarly(p) \/ Crash(p) PROVE IInv'
  BY <1>4, LoseSession
<1>5. ASSUME NEW p \in Parties, Finish(p) PROVE IInv'
  BY <1>5, FinishStep
<1>. QED
  BY <1>1, <1>2, <1>3, <1>4, <1>5, StutterInv DEF Next

LEMMA InvCorrect == Spec => []IInv
  BY InitInv, NextInv, PTL DEF Spec

(***************************************************************************)
(* What follows from it.                                                   *)
(***************************************************************************)
\* Sessions, messages and outputs have their types: no list of precommitments names a
\* party twice, and no party loses more sessions than the setup allows.
THEOREM TypeCorrect == Spec => []TypeOK
<1>1. IInv => TypeOK
  BY DEF IInv
<1>. QED
  BY <1>1, InvCorrect, PTL

LEMMA OnePlace ==
  ASSUME NEW st, NEW p, NEW m, NEW n, Says(st, p, m), Says(st, p, n), m.kind = n.kind,
         m.kind = "coin" => m.label = n.label, m.kind = "private" => m.to = n.to
  PROVE  m = n
<1>1. /\ m.kind \in {"precommitment", "coin", "private", "commitment"}
      /\ m.kind = "precommitment" => m = Precommitted(st, p)
      /\ m.kind = "coin" => m = CoinShare(p, m.label, st.entropy[p])
      /\ m.kind = "private" => m = DeliveryOf(st, p, m.to)
      /\ m.kind = "commitment" => m = Certificate(st, p)
  BY SaysWhat
<1>2. /\ n.kind = "precommitment" => n = Precommitted(st, p)
      /\ n.kind = "coin" => n = CoinShare(p, n.label, st.entropy[p])
      /\ n.kind = "private" => n = DeliveryOf(st, p, n.to)
      /\ n.kind = "commitment" => n = Certificate(st, p)
  BY SaysWhat
<1>. QED
  BY <1>1, <1>2

LEMMA SoundGivesBound == IInv => BoundBeforeCoin
<1>. SUFFICES ASSUME IInv PROVE BoundBeforeCoin
  OBVIOUS
<1>1. TypeOK /\ BroadcastIsSound
  BY DEF IInv
<1>2. ASSUME NEW m \in channel
      PROVE  m.from \in Parties /\ Says(setup, m.from, m) /\ Due(setup, channel, m)
  BY <1>1 DEF BroadcastIsSound, Sound
<1>3. ASSUME AllPrecommitted(setup, channel), NEW d \in Parties
      PROVE  \E n \in channel : n.kind = "precommitment" /\ n.from = d
  BY <1>3, MessageFields DEF AllPrecommitted, Precommitted
<1>4. ASSUME NEW m \in channel, m.kind = "coin", NEW d \in Parties
      PROVE  \E n \in channel : n.kind = "precommitment" /\ n.from = d
  BY <1>2, <1>3, <1>4 DEF Due
<1>5. ASSUME NEW m \in channel, m.kind = "commitment"
      PROVE  /\ Precommitment(m.from, m.deal) \in channel
             /\ m.coins \subseteq channel
             /\ {c.from : c \in m.coins} = Parties
  <2>1. /\ m.from \in Parties /\ m = Certificate(setup, m.from)
        /\ AllPrecommitted(setup, channel) /\ AllCoins(setup, m.from) \subseteq channel
    BY <1>2, <1>5, SaysWhat DEF Due
  <2>2. m.deal = setup.entropy[m.from] /\ m.coins = AllCoins(setup, m.from)
    BY <2>1, MessageFields DEF Certificate
  <2>3. Precommitment(m.from, m.deal) \in channel
    BY <2>1, <2>2 DEF AllPrecommitted, Precommitted
  <2>4. {c.from : c \in AllCoins(setup, m.from)} = Parties
    BY MessageFields DEF AllCoins
  <2>. QED
    BY <2>1, <2>2, <2>3, <2>4
<1>6. CoinsComeLate
  BY <1>4, <1>5 DEF CoinsComeLate
<1>7. ASSUME NEW m \in channel, NEW n \in channel, m.kind = n.kind, m.from = n.from,
             m.kind = "coin" => m.label = n.label, m.kind = "private" => m.to = n.to
      PROVE  m = n
  BY <1>2, <1>7, OnePlace
<1>8. SaysOneThing
  BY <1>7 DEF SaysOneThing
<1>. QED
  BY <1>6, <1>8 DEF BoundBeforeCoin

\* A coin is broadcast only when every dealing is bound; a commitment is to the dealing
\* that was bound, under the broadcast coins of all; and nobody says two things in one
\* place, also over losses and restarts.
THEOREM BoundBeforeCoinCorrect == Spec => []BoundBeforeCoin
  BY InvCorrect, SoundGivesBound, PTL

\* All who finish, in this session or in one that was started again, hold the same
\* evidence.
THEOREM OneEvidenceCorrect == Spec => []OneEvidence
<1>1. IInv => OneEvidence
  BY DEF IInv, OutputsAreSound, OneEvidence
<1>. QED
  BY <1>1, InvCorrect, PTL

(***************************************************************************)
(* Division, as in DkgProofs.                                              *)
(***************************************************************************)
LEMMA MulBound ==
  ASSUME NEW b \in Int, NEW n \in Int, b > 0, n >= 1
  PROVE  b * n >= b
  BY SMT

LEMMA DivFacts ==
  ASSUME NEW x \in Int, NEW b \in Int, b > 0
  PROVE  /\ x \div b \in Int /\ x % b \in Int
         /\ x = b * (x \div b) + (x % b)
         /\ x % b >= 0 /\ x % b < b
  BY SMT

LEMMA NotBelow ==
  ASSUME NEW b \in Int, NEW q \in Int, NEW r \in Int, NEW p \in Int, NEW s \in Int,
         b > 0, b * q + r = b * p + s, 0 <= r, s < b
  PROVE  q <= p
  <1>1. SUFFICES ASSUME q - p >= 1 PROVE FALSE
    BY SMT
  <1>2. b * (q - p) >= b
    BY <1>1, MulBound
  <1>3. b * (q - p) = s - r
    BY SMT
  <1> QED
    BY <1>2, <1>3, SMT

\* There is one quotient, and one remainder.
LEMMA DivMod ==
  ASSUME NEW b \in Int, NEW q \in Int, NEW r \in Int, b > 0, 0 <= r, r < b
  PROVE  (b * q + r) \div b = q /\ (b * q + r) % b = r
  <1> DEFINE x == b * q + r
  <1>1. /\ x \in Int /\ x \div b \in Int /\ x % b \in Int
        /\ b * q + r = b * (x \div b) + (x % b) /\ x % b >= 0 /\ x % b < b
    BY DivFacts
  <1> HIDE DEF x
  <1>2. q <= x \div b /\ x \div b <= q
    BY <1>1, NotBelow
  <1>3. q = x \div b
    BY <1>1, <1>2, SMT
  <1>4. r = x % b
    BY <1>1, <1>3, SMT
  <1> QED
    BY <1>3, <1>4 DEF x

LEMMA ModSmall ==
  ASSUME NEW b \in Int, NEW r \in Int, 0 <= r, r < b
  PROVE  r % b = r
  <1>1. (b * 0 + r) % b = r
    BY DivMod
  <1> QED
    BY <1>1, SMT

LEMMA ModDrop ==
  ASSUME NEW b \in Int, b > 0, NEW x \in Int, NEW y \in Int
  PROVE  ((x % b) + y) % b = (x + y) % b
<1> DEFINE q == x \div b  r == x % b  n == (r + y) \div b  s == (r + y) % b
<1>1. q \in Int /\ r \in Int /\ x = b * q + r
  BY DivFacts
<1> HIDE DEF q, r
<1>2. n \in Int /\ s \in Int /\ r + y = b * n + s /\ s >= 0 /\ s < b
  BY <1>1, DivFacts
<1> HIDE DEF n, s
<1>3. x + y = b * (q + n) + s
  BY <1>1, <1>2, SMT
<1>4. (b * (q + n) + s) % b = s
  BY <1>1, <1>2, DivMod
<1>5. (x + y) % b = s
  BY <1>3, <1>4
<1>. QED
  BY <1>5 DEF s, r

LEMMA ModZero ==
  ASSUME NEW b \in Int, b > 0, NEW x \in Int
  PROVE  ((x % b) - x) % b = 0
<1>1. -x \in Int /\ x % b \in Int
  BY DivFacts
<1>2. ((x % b) + (-x)) % b = (x + (-x)) % b
  BY <1>1, ModDrop
<1>3. x + (-x) = 0 /\ (x % b) + (-x) = (x % b) - x
  BY <1>1
<1>4. 0 % b = 0
  BY ModSmall
<1>. QED
  BY <1>2, <1>3, <1>4

(***************************************************************************)
(* Induction: a family of subsets of a finite set has a smallest member.   *)
(***************************************************************************)
\* The library's induction theorem takes a predicate as an operator; what it rests on,
\* that proper inclusion of finite sets is well founded, does not.
LEMMA SmallestSubset ==
  ASSUME NEW S, IsFiniteSet(S), NEW T, T \subseteq SUBSET S, T # {}
  PROVE  \E X \in T : \A Y \in T : Y \subseteq X => Y = X
<1> DEFINE R == StrictSubsetOrdering(S)
<1>1. \A X, Y \in T : Y \subseteq X /\ Y # X => <<Y, X>> \in R
  BY DEF StrictSubsetOrdering
<1>2. IsWellFoundedOn(R, FiniteSubsetsOf(S))
  BY FS_StrictSubsetOrderingWellFounded
<1>3. T \subseteq FiniteSubsetsOf(S)
  BY FS_Subset DEF FiniteSubsetsOf
<1> HIDE DEF R
<1>4. \E X \in T : \A Y \in T : ~ (<<Y, X>> \in R)
  BY <1>2, <1>3, WFMin
<1>. QED
  BY <1>1, <1>4

LEMMA SmallestOfFamily ==
  \A S, T : IsFiniteSet(S) /\ T \subseteq SUBSET S /\ T # {} =>
     \E X \in T : \A Y \in T : Y \subseteq X => Y = X
  BY SmallestSubset

\* Induction over the natural numbers, with a set in the place of the predicate.
LEMMA SetInduction ==
  ASSUME NEW S \in SUBSET Nat, 0 \in S, \A n \in S : n + 1 \in S
  PROVE  S = Nat
<1>1. ASSUME NEW x \in Nat \ S PROVE FALSE
  <2> DEFINE T == {0 .. k : k \in (0 .. x) \ S}
  <2>1. 0 .. x \in T /\ T \subseteq SUBSET (0 .. x)
    OBVIOUS
  <2>2. IsFiniteSet(0 .. x)
    BY FS_Interval
  <2>2a. \E X \in T : \A Y \in T : Y \subseteq X => Y = X
    <3>1. PICK box : box = 0 .. x
      OBVIOUS
    <3>2. T # {} /\ T \subseteq SUBSET box /\ IsFiniteSet(box)
      BY <2>1, <2>2, <3>1
    <3> HIDE DEF T
    <3>. QED
      BY <3>2, SmallestSubset
  <2>3. PICK X \in T : \A Y \in T : Y \subseteq X => Y = X
    BY <2>2a
  <2>4. PICK k \in (0 .. x) \ S : X = 0 .. k
    BY <2>3
  <2>5. k # 0 /\ k \in Nat /\ k - 1 \in 0 .. x
    OBVIOUS
  <2>6. k - 1 \notin S
    BY <2>5
  <2>7. 0 .. (k - 1) \in T /\ 0 .. (k - 1) \subseteq 0 .. k
    BY <2>5, <2>6
  <2>8. 0 .. (k - 1) = 0 .. k
    BY <2>3, <2>4, <2>7
  <2>9. k \in 0 .. k /\ k \notin 0 .. (k - 1)
    BY <2>5
  <2>. QED
    BY <2>8, <2>9
<1>. QED
  BY <1>1

(***************************************************************************)
(* Recursion over the subsets of a finite set, and over numbers.           *)
(***************************************************************************)
SetRecursion(g, D, V, base, pick, step) ==
  /\ g \in [D -> V]
  /\ \A s \in D : g[s] = IF s = {} THEN base ELSE step[<<pick[s], g[s \ {pick[s]}]>>]

LEMMA SetRecursionExists ==
  ASSUME NEW S, IsFiniteSet(S), NEW V, NEW base \in V, NEW pick, NEW step \in [S \X V -> V],
         \A s \in SUBSET S : s # {} => pick[s] \in s
  PROVE  \E g : SetRecursion(g, SUBSET S, V, base, pick, step)
<1> DEFINE upto(n) == {s \in SUBSET S : Cardinality(s) <= n}
           P == {n \in Nat : \E g : SetRecursion(g, upto(n), V, base, pick, step)}
<1>1. \A s \in SUBSET S : /\ IsFiniteSet(s) /\ Cardinality(s) \in Nat
                          /\ Cardinality(s) = 0 <=> s = {}
  BY FS_Subset, FS_CardinalityType, FS_EmptySet
<1>2. ASSUME NEW s \in SUBSET S, s # {}
      PROVE  /\ pick[s] \in S /\ s \ {pick[s]} \in SUBSET S
             /\ Cardinality(s \ {pick[s]}) = Cardinality(s) - 1
  <2>1. pick[s] \in s /\ IsFiniteSet(s)
    BY <1>1, <1>2
  <2>2. Cardinality(s \ {pick[s]}) = Cardinality(s) - 1
    BY <2>1, FS_RemoveElement
  <2>. QED
    BY <2>1, <2>2
<1>3. 0 \in P
  <2>1. upto(0) = {{}}
    BY <1>1
  <2>2. SetRecursion([s \in upto(0) |-> base], upto(0), V, base, pick, step)
    BY <2>1 DEF SetRecursion
  <2>. QED
    BY <2>2
<1>4. ASSUME NEW n \in P PROVE n + 1 \in P
  <2>1. n \in Nat /\ n + 1 \in Nat
    OBVIOUS
  <2>2. PICK g : SetRecursion(g, upto(n), V, base, pick, step)
    BY <1>4
  <2> DEFINE h == [s \in upto(n + 1) |->
                     IF s \in upto(n) THEN g[s] ELSE step[<<pick[s], g[s \ {pick[s]}]>>]]
  <2>3. \A s \in upto(n + 1) : s # {} =>
           /\ s \in SUBSET S /\ pick[s] \in S /\ s \ {pick[s]} \in upto(n)
           /\ s \in upto(n) => s \ {pick[s]} \in upto(n)
    BY <1>1, <1>2, <2>1
  <2>4. {} \in upto(n) /\ upto(n) \subseteq upto(n + 1)
    <3>1. {} \in SUBSET S /\ Cardinality({}) = 0
      BY <1>1
    <3>. QED
      BY <1>1, <2>1, <3>1
  <2> HIDE DEF upto
  <2>5. ASSUME NEW s \in upto(n + 1) PROVE h[s] \in V
    <3>1. g \in [upto(n) -> V]
      BY <2>2 DEF SetRecursion
    <3>2. CASE s \in upto(n)
      BY <3>1, <3>2
    <3>3. CASE s \notin upto(n)
      <4>3. s # {}
        BY <2>4, <3>3
      <4>4. pick[s] \in S /\ s \ {pick[s]} \in upto(n)
        BY <2>3, <4>3
      <4>5. PICK t : t = s \ {pick[s]}
        OBVIOUS
      <4>6. g[t] \in V
        BY <3>1, <4>4, <4>5
      <4>1. pick[s] \in S /\ g[s \ {pick[s]}] \in V
        BY <4>4, <4>5, <4>6
      <4>2. step[<<pick[s], g[s \ {pick[s]}]>>] \in V
        BY <4>1
      <4>. QED
        BY <3>3, <4>2
    <3>. QED
      BY <3>2, <3>3
  <2>6. \A s \in upto(n) : h[s] = g[s]
    BY <2>4
  <2>7. \A s \in upto(n + 1) :
          h[s] = IF s = {} THEN base ELSE step[<<pick[s], h[s \ {pick[s]}]>>]
    BY <2>2, <2>3, <2>4, <2>6 DEF SetRecursion
  <2>8. h \in [upto(n + 1) -> V]
    BY <2>5
  <2> HIDE DEF h
  <2>9. SetRecursion(h, upto(n + 1), V, base, pick, step)
    BY <2>7, <2>8 DEF SetRecursion
  <2>. QED
    BY <2>1, <2>9
<1>5. P = Nat
  <2> HIDE DEF P
  <2>1. P \in SUBSET Nat
    BY DEF P
  <2>. QED
    BY <1>3, <1>4, <2>1, SetInduction
<1>6. Cardinality(S) \in P
  BY <1>1, <1>5
<1>7. upto(Cardinality(S)) = SUBSET S
  <2>1. \A s \in SUBSET S : Cardinality(s) <= Cardinality(S)
    BY FS_Subset
  <2>. QED
    BY <2>1
<1>. QED
  BY <1>6, <1>7

\* Every value of such a recursion is in a set that the recursion does not leave.
BuiltUp(P, S) ==
  {} \in P /\ \A s \in SUBSET S : s # {} => \E x \in s : s \ {x} \in P => s \in P

LEMMA SubsetInduction ==
  ASSUME NEW S, IsFiniteSet(S), NEW P, BuiltUp(P, S)
  PROVE  SUBSET S \subseteq P
<1>1. ASSUME NEW T, T = (SUBSET S) \ P, T # {} PROVE FALSE
  <2>0. T \subseteq SUBSET S /\ T # {}
    BY <1>1
  <2>1. PICK X \in T : \A Y \in T : Y \subseteq X => Y = X
    BY <2>0, SmallestSubset
  <2>7. X \in SUBSET S /\ X \notin P
    BY <1>1
  <2>8. {} \in P
    BY DEF BuiltUp
  <2>2. X # {} /\ X \in SUBSET S /\ X \notin P
    BY <2>7, <2>8
  <2>3. PICK x \in X : X \ {x} \in P => X \in P
    BY <2>2 DEF BuiltUp
  <2>4. PICK Y : Y = X \ {x}
    OBVIOUS
  <2>5. Y \in SUBSET S /\ Y \subseteq X /\ Y # X
    BY <2>2, <2>4
  <2>6. Y \in P
    BY <1>1, <2>1, <2>5
  <2>. QED
    BY <2>2, <2>3, <2>4, <2>6
<1>. QED
  BY <1>1

(***************************************************************************)
(* Folds: the table that MapThenFoldSet chooses, over the subsets of a     *)
(* domain.                                                                 *)
(***************************************************************************)
SumTable(it, f) ==
  it = [s \in SUBSET DOMAIN f |->
          IF s = {} THEN 0 ELSE f[CHOOSE x \in s : TRUE] + it[s \ {CHOOSE x \in s : TRUE}]]

LEMMA SumIs ==
  ASSUME NEW f, \E it : SumTable(it, f)
  PROVE  \E it : SumTable(it, f) /\ SumOver(f) = it[DOMAIN f]
<1> DEFINE c == CHOOSE it : SumTable(it, f)
<1>1. SumTable(c, f)
  OBVIOUS
<1>2. SumOver(f) = c[DOMAIN f]
  BY Zenon DEF SumOver, FoldFunction, FoldFunctionOnSet, MapThenFoldSet, SumTable
<1>. QED
  BY <1>1, <1>2

LEMMA SumTableExists ==
  ASSUME NEW f, IsFiniteSet(DOMAIN f), \A x \in DOMAIN f : f[x] \in Int
  PROVE  \E it : SumTable(it, f)
<1> DEFINE S == DOMAIN f
           pick == [s \in SUBSET S |-> CHOOSE x \in s : TRUE]
           step == [p \in S \X Int |-> f[p[1]] + p[2]]
<1>1. \A s \in SUBSET S : s # {} => pick[s] \in s
  OBVIOUS
<1>2. step \in [S \X Int -> Int] /\ 0 \in Int
  OBVIOUS
<1>3. PICK g : SetRecursion(g, SUBSET S, Int, 0, pick, step)
  <2> HIDE DEF pick, step
  <2>. QED
    BY <1>1, <1>2, SetRecursionExists
<1>4. ASSUME NEW s \in SUBSET S, s # {}
      PROVE  step[<<pick[s], g[s \ {pick[s]}]>>]
               = f[CHOOSE x \in s : TRUE] + g[s \ {CHOOSE x \in s : TRUE}]
  <2>1. pick[s] \in S /\ pick[s] = CHOOSE x \in s : TRUE
    BY <1>1, <1>4
  <2>2. PICK t : t = s \ {pick[s]}
    OBVIOUS
  <2>3. t \in SUBSET S
    BY <2>2
  <2>4. g[t] \in Int
    BY <1>3, <2>3 DEF SetRecursion
  <2>5. \A a \in S, b \in Int : step[<<a, b>>] = f[a] + b
    OBVIOUS
  <2>. QED
    BY <2>1, <2>2, <2>4, <2>5
<1>5. SumTable(g, f)
  <2>1. g = [s \in SUBSET S |-> g[s]]
    BY <1>3 DEF SetRecursion
  <2>2. ASSUME NEW s \in SUBSET S
        PROVE  g[s] = IF s = {} THEN 0
                      ELSE f[CHOOSE x \in s : TRUE] + g[s \ {CHOOSE x \in s : TRUE}]
    BY <1>3, <1>4 DEF SetRecursion
  <2>. QED
    BY <2>1, <2>2, Zenon DEF SumTable
<1>. QED
  BY <1>5

LEMMA SumIsInt ==
  ASSUME NEW f, IsFiniteSet(DOMAIN f), \A x \in DOMAIN f : f[x] \in Int
  PROVE  SumOver(f) \in Int
<1> DEFINE S == DOMAIN f
<1>1. PICK it : SumTable(it, f) /\ SumOver(f) = it[S]
  BY SumTableExists, SumIs
<1> DEFINE P == {s \in SUBSET S : it[s] \in Int}
<1>2. \A s \in SUBSET S :
         it[s] = IF s = {} THEN 0
                 ELSE f[CHOOSE x \in s : TRUE] + it[s \ {CHOOSE x \in s : TRUE}]
  BY <1>1, Zenon DEF SumTable
<1>3. {} \in P
  <2>1. {} \in SUBSET S /\ 0 \in Int
    OBVIOUS
  <2>2. it[{}] = 0
    BY <1>2, <2>1, Zenon
  <2>. QED
    BY <2>1, <2>2
<1>4. ASSUME NEW s \in SUBSET S, s # {}
      PROVE  \E x \in s : s \ {x} \in P => s \in P
  <2>1. PICK x : x = CHOOSE y \in s : TRUE
    OBVIOUS
  <2>2. x \in s
    BY <1>4, <2>1
  <2>3. it[s] = f[x] + it[s \ {x}]
    BY <1>2, <1>4, <2>1
  <2>. QED
    BY <2>2, <2>3
<1>5. SUBSET S \subseteq P
  <2> HIDE DEF P
  <2>1. BuiltUp(P, S)
    BY <1>3, <1>4 DEF BuiltUp
  <2>. QED
    BY <2>1, SubsetInduction
<1>6. S \in SUBSET S
  OBVIOUS
<1>. QED
  BY <1>1, <1>5, <1>6

LEMMA MinIsLeast ==
  ASSUME NEW s \in SUBSET Nat, s # {}
  PROVE  Min(s) \in s /\ \A y \in s : Min(s) <= y
<1>1. ASSUME ~ \E x \in s : \A y \in s : x <= y PROVE FALSE
  <2> DEFINE P == {n \in Nat : \A k \in 0 .. n : k \notin s}
  <2>1. 0 \in P
    BY <1>1
  <2>2. \A n \in P : n + 1 \in P
    <3>1. ASSUME NEW n \in P, n + 1 \in s PROVE FALSE
      <4>1. \A y \in s : n + 1 <= y
        BY <3>1
      <4>. QED
        BY <1>1, <3>1, <4>1
    <3>2. \A n \in P : \A k \in 0 .. n + 1 : k \in 0 .. n \/ k = n + 1
      OBVIOUS
    <3>. QED
      BY <3>1, <3>2
  <2>3. P = Nat
    <3> HIDE DEF P
    <3>1. P \in SUBSET Nat
      BY DEF P
    <3>. QED
      BY <2>1, <2>2, <3>1, SetInduction
  <2>4. PICK n : n \in s /\ n \in Nat
    OBVIOUS
  <2>5. n \in P /\ n \in 0 .. n
    BY <2>3, <2>4
  <2>. QED
    BY <2>4, <2>5
<1>. QED
  BY <1>1 DEF Min

EvalTable(it, cs, x) ==
  it = [s \in SUBSET DOMAIN cs |->
          IF s = {} THEN 0 ELSE (it[s \ {Min(s)}] * x + cs[Min(s)]) % Q]

LEMMA EvalIs ==
  ASSUME NEW cs, NEW x, \E it : EvalTable(it, cs, x)
  PROVE  \E it : EvalTable(it, cs, x) /\ Eval(cs, x) = it[DOMAIN cs]
<1> DEFINE c == CHOOSE it : EvalTable(it, cs, x)
<1>1. EvalTable(c, cs, x)
  OBVIOUS
<1>2. Eval(cs, x) = c[DOMAIN cs]
  BY Zenon DEF Eval, FoldRight, MapThenFoldSet, EvalTable
<1>. QED
  BY <1>1, <1>2

LEMMA EvalStep ==
  ASSUME NEW a \in Int, NEW x \in Int, NEW c \in Int
  PROVE  (a * x + c) % Q \in Int
<1>1. a * x + c \in Int /\ Q \in Int /\ Q > 0
  BY NonceAssumption
<1>. QED
  BY <1>1, DivFacts

LEMMA EvalTableExists ==
  ASSUME NEW cs \in Seq(Int), NEW x \in Int
  PROVE  \E it : EvalTable(it, cs, x)
<1> DEFINE S == DOMAIN cs
           pick == [s \in SUBSET S |-> Min(s)]
           step == [p \in S \X Int |-> (p[2] * x + cs[p[1]]) % Q]
<1>1. IsFiniteSet(S) /\ S \in SUBSET Nat
  BY FS_Interval
<1>2. \A s \in SUBSET S : s # {} => pick[s] \in s
  BY <1>1, MinIsLeast
<1>3. step \in [S \X Int -> Int] /\ 0 \in Int
  <2>1. \A p \in S \X Int : (p[2] * x + cs[p[1]]) % Q \in Int
    <3>1. ASSUME NEW a \in S, NEW b \in Int PROVE (b * x + cs[a]) % Q \in Int
      <4>1. cs[a] \in Int
        OBVIOUS
      <4>. QED
        BY <4>1, EvalStep
    <3>. QED
      BY <3>1
  <2>. QED
    BY <2>1
<1>4. PICK g : SetRecursion(g, SUBSET S, Int, 0, pick, step)
  <2> HIDE DEF pick, step, S
  <2>. QED
    BY <1>1, <1>2, <1>3, SetRecursionExists
<1>5. ASSUME NEW s \in SUBSET S, s # {}
      PROVE  step[<<pick[s], g[s \ {pick[s]}]>>] = (g[s \ {Min(s)}] * x + cs[Min(s)]) % Q
  <2>1. pick[s] \in S /\ pick[s] = Min(s)
    BY <1>2, <1>5
  <2>2. PICK t : t = s \ {pick[s]}
    OBVIOUS
  <2>3. t \in SUBSET S
    BY <2>2
  <2>4. g[t] \in Int
    BY <1>4, <2>3 DEF SetRecursion
  <2>5. \A a \in S, b \in Int : step[<<a, b>>] = (b * x + cs[a]) % Q
    OBVIOUS
  <2>. QED
    BY <2>1, <2>2, <2>4, <2>5
<1>6. EvalTable(g, cs, x)
  <2>1. g = [s \in SUBSET S |-> g[s]]
    BY <1>4 DEF SetRecursion
  <2>2. ASSUME NEW s \in SUBSET S
        PROVE  g[s] = IF s = {} THEN 0 ELSE (g[s \ {Min(s)}] * x + cs[Min(s)]) % Q
    BY <1>4, <1>5 DEF SetRecursion
  <2>. QED
    BY <2>1, <2>2, Zenon DEF EvalTable
<1>. QED
  BY <1>6

LEMMA EvalTableStep ==
  ASSUME NEW cs \in Seq(Int), NEW x \in Int, NEW it, EvalTable(it, cs, x)
  PROVE  /\ it[{}] = 0
         /\ \A s \in SUBSET DOMAIN cs : s # {} =>
              /\ Min(s) \in s /\ it[s] = (it[s \ {Min(s)}] * x + cs[Min(s)]) % Q
<1>1. DOMAIN cs \in SUBSET Nat
  OBVIOUS
<1>2. \A s \in SUBSET DOMAIN cs : s # {} => Min(s) \in s
  BY <1>1, MinIsLeast
<1>3. \A s \in SUBSET DOMAIN cs :
         it[s] = IF s = {} THEN 0 ELSE (it[s \ {Min(s)}] * x + cs[Min(s)]) % Q
  BY Zenon DEF EvalTable
<1>4. {} \in SUBSET DOMAIN cs
  OBVIOUS
<1>5. it[{}] = 0
  BY <1>3, <1>4, Zenon
<1>6. \A s \in SUBSET DOMAIN cs : s # {} =>
         it[s] = (it[s \ {Min(s)}] * x + cs[Min(s)]) % Q
  BY <1>3, Zenon
<1>. QED
  BY <1>2, <1>5, <1>6

LEMMA EvalTableInt ==
  ASSUME NEW cs \in Seq(Int), NEW x \in Int, NEW it, EvalTable(it, cs, x)
  PROVE  \A s \in SUBSET DOMAIN cs : it[s] \in Int
<1> DEFINE S == DOMAIN cs
           P == {s \in SUBSET S : it[s] \in Int}
<1>1. {} \in P
  BY EvalTableStep
<1>2. ASSUME NEW s \in SUBSET S, s # {}
      PROVE  \E y \in s : s \ {y} \in P => s \in P
  <2>1. PICK y : y = Min(s)
    OBVIOUS
  <2>2. y \in s /\ it[s] = (it[s \ {y}] * x + cs[y]) % Q
    BY <1>2, <2>1, EvalTableStep
  <2>3. y \in S /\ cs[y] \in Int
    BY <2>2
  <2>4. it[s \ {y}] \in Int => it[s] \in Int
    BY <2>2, <2>3, EvalStep
  <2>. QED
    BY <2>2, <2>4
<1>3. IsFiniteSet(S)
  BY FS_Interval
<1>4. SUBSET S \subseteq P
  <2> HIDE DEF P
  <2>1. BuiltUp(P, S)
    BY <1>1, <1>2 DEF BuiltUp
  <2> HIDE DEF S
  <2>. QED
    BY <1>3, <2>1, SubsetInduction
<1>. QED
  BY <1>4

LEMMA EvalIsInt ==
  ASSUME NEW cs \in Seq(Int), NEW x \in Int
  PROVE  Eval(cs, x) \in Int
<1>1. PICK it : EvalTable(it, cs, x) /\ Eval(cs, x) = it[DOMAIN cs]
  BY EvalTableExists, EvalIs
<1>2. DOMAIN cs \in SUBSET DOMAIN cs
  OBVIOUS
<1>. QED
  BY <1>1, <1>2, EvalTableInt

(***************************************************************************)
(* The nonce of the certified contributions.                               *)
(***************************************************************************)
\* All parties were given the same entropy.
SharedEntropy == \A s \in Setups : \A p, q \in Parties : s.entropy[p] = s.entropy[q]

Residues(e) == [d \in Parties |-> Residue(e, d)]
NonceValue(e) == (SumOver(Residues(e)) % (2 * Gamma1)) - (Gamma1 - 1)
Masks(e) == [k \in 1 .. Threshold - 1 |-> Hash(e, <<"mask", k>>) % Q]

LEMMA FieldFacts ==
  /\ Q \in Int /\ Q > 0 /\ Gamma1 \in Int /\ Gamma1 > 0 /\ 2 * Gamma1 \in Int /\ 2 * Gamma1 > 0
  /\ Threshold \in Nat /\ Threshold >= 1
  BY NonceAssumption, PartyFacts DEF PartyCount

LEMMA ResidueIsInt ==
  ASSUME NEW e \in Entropies, NEW d \in Parties
  PROVE  Residue(e, d) \in Int
<1>1. Hash(e, <<"residue", d>>) \in Int
  BY HashAssumption
<1>. QED
  BY <1>1, FieldFacts, DivFacts DEF Residue

LEMMA SumOfResidues ==
  ASSUME NEW e \in Entropies
  PROVE  SumOver(Residues(e)) \in Int
<1>1. DOMAIN Residues(e) = Parties /\ \A d \in Parties : Residues(e)[d] \in Int
  BY ResidueIsInt DEF Residues
<1>. QED
  BY <1>1, PartyFacts, SumIsInt

LEMMA NonceRange ==
  ASSUME NEW e \in Entropies
  PROVE  /\ NonceValue(e) \in 1 - Gamma1 .. Gamma1
         /\ (NonceValue(e) + Gamma1 - 1 - SumOver(Residues(e))) % (2 * Gamma1) = 0
<1> DEFINE b == 2 * Gamma1
           x == SumOver(Residues(e))
<1>1. b \in Int /\ b > 0 /\ x \in Int
  BY FieldFacts, SumOfResidues
<1>2. NonceValue(e) = (x % b) - (Gamma1 - 1)
  BY DEF NonceValue
<1> HIDE DEF x
<1>3. x % b \in Int /\ x % b >= 0 /\ x % b < b
  BY <1>1, DivFacts
<1>4. ((x % b) - x) % b = 0
  BY <1>1, ModZero
<1> DEFINE r == x % b
<1>5. r \in Int /\ r >= 0 /\ r < 2 * Gamma1 /\ (r - x) % b = 0
  BY <1>3, <1>4
<1>6. NonceValue(e) = r - (Gamma1 - 1)
  BY <1>2
<1> HIDE DEF r, b
<1>7. r - (Gamma1 - 1) + Gamma1 - 1 - x = r - x
  BY <1>1, <1>5, FieldFacts
<1>8. r - (Gamma1 - 1) \in 1 - Gamma1 .. Gamma1
  BY <1>5, FieldFacts
<1>. QED
  BY <1>5, <1>6, <1>7, <1>8 DEF x, b

LEMMA MasksAreNumbers ==
  ASSUME NEW e \in Entropies
  PROVE  Masks(e) \in [1 .. Threshold - 1 -> 0 .. Q - 1]
<1>1. ASSUME NEW k \in 1 .. Threshold - 1
      PROVE  Hash(e, <<"mask", k>>) % Q \in 0 .. Q - 1
  <2>1. Hash(e, <<"mask", k>>) \in Int
    BY HashAssumption
  <2>. QED
    BY <2>1, FieldFacts, DivFacts
<1>. QED
  BY <1>1 DEF Masks

LEMMA ShareIs ==
  ASSUME NEW e \in Entropies, NEW p \in Parties
  PROVE  NonceShare(e, p) = Eval(<<NonceValue(e) % Q>> \o Masks(e), p)
  BY DEF NonceShare, Nonce, NonceValue, Residues, Masks

LEMMA DealOfEvidence ==
  ASSUME NEW st, NEW d \in Parties
  PROVE  DealOf(Evidence(st), d) = st.entropy[d]
<1>1. Certificate(st, d) \in Evidence(st) /\ Certificate(st, d).from = d
  BY MessageFields DEF Evidence, Certificate
<1>2. \A m \in Evidence(st) : m.from = d => m.deal = st.entropy[d]
  BY MessageFields DEF Evidence, Certificate
<1>. QED
  BY <1>1, <1>2 DEF DealOf

OutputsAreShares ==
  \A p \in Parties : \A o \in outputs[p] : o.share = NonceShare(setup.entropy[p], p)

LEMMA SoundGivesCertified ==
  ASSUME SharedEntropy, IInv, OutputsAreShares
  PROVE  CertifiedNonce
<1>1. TypeOK /\ OutputsAreSound
  BY DEF IInv
<1>2. OneEvidence
  BY <1>1 DEF OutputsAreSound, OneEvidence
<1>3. ASSUME NEW q \in Parties, NEW o \in outputs[q]
      PROVE  \E y \in 1 - Gamma1 .. Gamma1 :
             /\ IsNonceOf(y, o.evidence)
             /\ \E masks \in [1 .. Threshold - 1 -> 0 .. Q - 1] :
                  \A p \in Parties : \A w \in outputs[p] : w.share = Eval(<<y % Q>> \o masks, p)
  <2> DEFINE e == setup.entropy[q]
             y == NonceValue(e)
  <2>1. e \in Entropies /\ \A p \in Parties : setup.entropy[p] = e
    BY <1>1, SetupFacts DEF TypeOK, SharedEntropy
  <2> HIDE DEF e
  <2>2. o.evidence = Evidence(setup)
    BY <1>1, <1>3 DEF OutputsAreSound
  <2>3. [d \in Parties |-> Residue(DealOf(o.evidence, d), d)] = Residues(e)
    BY <2>1, <2>2, DealOfEvidence DEF Residues
  <2>4. y \in 1 - Gamma1 .. Gamma1 /\ IsNonceOf(y, o.evidence)
    BY <2>1, <2>3, NonceRange DEF IsNonceOf
  <2>5. \A p \in Parties : \A w \in outputs[p] : w.share = Eval(<<y % Q>> \o Masks(e), p)
    BY <2>1, ShareIs DEF OutputsAreShares
  <2>6. Masks(e) \in [1 .. Threshold - 1 -> 0 .. Q - 1]
    BY <2>1, MasksAreNumbers
  <2> HIDE DEF y
  <2>. QED
    BY <2>4, <2>5, <2>6
<1>. QED
  BY <1>2, <1>3 DEF CertifiedNonce

LEMMA SharesInit == Init => OutputsAreShares
  BY DEF Init, OutputsAreShares

LEMMA SharesStep == IInv /\ OutputsAreShares /\ [Next]_vars => OutputsAreShares'
<1>. SUFFICES ASSUME IInv, OutputsAreShares, [Next]_vars PROVE OutputsAreShares'
  OBVIOUS
<1>1. CASE setup' = setup /\ outputs' = outputs
  BY <1>1 DEF OutputsAreShares
<1>2. ASSUME NEW p \in Parties, Finish(p) PROVE OutputsAreShares'
  <2>1. DOMAIN outputs = Parties
    BY DEF IInv, OutputsAreSound
  <2>2. setup' = setup /\ Output(p, session[p]).share = NonceShare(setup.entropy[p], p)
    BY <1>2 DEF Finish, Output
  <2>3. \A q \in Parties : \A o \in outputs'[q] :
          o \in outputs[q] \/ (q = p /\ o = Output(p, session[p]))
    BY <1>2, <2>1 DEF Finish
  <2>. QED
    BY <2>2, <2>3 DEF OutputsAreShares
<1>3. ASSUME NEW p \in Parties, Start(p) \/ TakeOutbound(p) \/ HandleMessage(p)
                                 \/ FinishEarly(p) \/ Crash(p)
      PROVE  OutputsAreShares'
  <2>1. setup' = setup /\ outputs' = outputs
    BY <1>3 DEF Start, TakeOutbound, HandleMessage, HandlePrecommitment, HandleCoin,
                HandleCommitment, HandlePrivate, Handle, FinishEarly, Crash
  <2>. QED
    BY <1>1, <2>1
<1>4. CASE UNCHANGED vars
  BY <1>1, <1>4 DEF vars
<1>. QED
  BY <1>2, <1>3, <1>4 DEF Next

\* All who finish hold shares of one sharing of one nonce, of the interval, and it is the
\* sum of the contributions that their evidence certifies.  The shares come from the
\* options of each party: they fit together when all were given the same entropy.
THEOREM CertifiedNonceCorrect ==
  ASSUME SharedEntropy
  PROVE  Spec => []CertifiedNonce
<1>1. Init => IInv /\ OutputsAreShares
  BY InitInv, SharesInit
<1>2. (IInv /\ OutputsAreShares) /\ [Next]_vars => (IInv /\ OutputsAreShares)'
  BY NextInv, SharesStep
<1>3. IInv /\ OutputsAreShares => CertifiedNonce
  BY SoundGivesCertified
<1>. QED
  BY <1>1, <1>2, <1>3, PTL DEF Spec

(***************************************************************************)
(* What is dealt verifies.                                                 *)
(***************************************************************************)
LEMMA BetaIsInt ==
  ASSUME NEW e \in Entropies, NEW d \in Parties, NEW h \in Parties
  PROVE  Beta(e, d, h) \in Int
<1> DEFINE rest == [k \in 1 .. Threshold - 1 |-> Hash(e, <<"poly", d, k>>) % Q]
<1>1. ASSUME NEW k \in 1 .. Threshold - 1 PROVE Hash(e, <<"poly", d, k>>) \in Int
  <2>1. Hash(e, <<"poly", d, k>>) \in Nat
    BY HashAssumption, Zenon
  <2>. QED
    BY <2>1
<1>2. \A k \in 1 .. Threshold - 1 : Hash(e, <<"poly", d, k>>) % Q \in Int
  BY <1>1, FieldFacts, DivFacts
<1>3. rest \in Seq(Int)
  BY <1>2, FieldFacts
<1>4. <<Residue(e, d)>> \in Seq(Int)
  BY ResidueIsInt
<1> HIDE DEF rest
<1>5. <<Residue(e, d)>> \o rest \in Seq(Int)
  BY <1>3, <1>4, ConcatProperties
<1>6. h \in Int
  BY PartyFacts
<1>7. Beta(e, d, h) = Eval(<<Residue(e, d)>> \o rest, h)
  BY DEF Beta, rest
<1>. QED
  BY <1>5, <1>6, <1>7, EvalIsInt

LEMMA TagsAreInt ==
  ASSUME NEW e \in Entropies, NEW d \in Parties, NEW h \in Parties, NEW v \in Parties,
         NEW t \in TagIds
  PROVE  HolderY(e, d, h, v, t) \in Int /\ ReceiverB(e, d, h, v, t) \in Int
<1>1. Hash(e, <<"y", d, h, v, t>>) \in Int /\ Hash(e, <<"b", d, h, v, t>>) \in Int
  BY HashAssumption
<1>2. Q - 1 \in Int /\ Q - 1 > 0
  BY NonceAssumption
<1>. QED
  BY <1>1, <1>2, FieldFacts, DivFacts DEF HolderY, ReceiverB

\* A share that arrives as it was dealt passes the check of each of its tags.
LEMMA ReducedPasses ==
  ASSUME NEW x \in Int, NEW b \in Int, NEW y \in Int
  PROVE  CheckValue(x, b, y) = CheckValue((x + 0) % Q, b, y)
<1>1. x + 0 = x /\ b * y \in Int
  OBVIOUS
<1>2. ((x % Q) + b * y) % Q = (x + b * y) % Q
  BY <1>1, FieldFacts, ModDrop
<1>. QED
  BY <1>1, <1>2 DEF CheckValue

LEMMA UnalteredVerifies ==
  ASSUME NEW m \in Deliveries, ~m.altered
  PROVE  Verifies[m]
<1>1. m.from \in Parties /\ m.to \in Parties /\ m.deal \in Entropies
  BY DEF Deliveries
<1>2. ASSUME NEW t \in TagIds
      PROVE  CTag(m, m.to, t) = CheckValue(Share(m), BTag(m, m.to, t), YTag(m, m.to, t))
  <2>1. /\ Beta(m.deal, m.from, m.to) \in Int /\ HolderY(m.deal, m.from, m.to, m.to, t) \in Int
        /\ ReceiverB(m.deal, m.from, m.to, m.to, t) \in Int
    BY <1>1, BetaIsInt, TagsAreInt
  <2>2. Share(m) = (Beta(m.deal, m.from, m.to) + 0) % Q
    BY DEF Share
  <2>. QED
    BY <2>1, <2>2, ReducedPasses DEF CTag, BTag, YTag
<1>. QED
  BY <1>2, Zenon DEF Verifies

LEMMA AuditsAlwaysVerify ==
  ASSUME NEW p \in Parties, NEW e \in Entropies
  PROVE  AuditsVerify[p][e]
<1>1. ASSUME NEW h \in Parties, NEW v \in Parties, NEW t \in {"audit"} \X Tags
      PROVE  CTag(Dealt(p, v, e), h, t)
               = CheckValue(Share(Dealt(p, h, e)), BTag(Dealt(p, v, e), h, t), YTag(Dealt(p, h, e), v, t))
  <2>1. t \in TagIds
    BY DEF TagIds
  <2>2. /\ Beta(e, p, h) \in Int /\ HolderY(e, p, h, v, t) \in Int
        /\ ReceiverB(e, p, h, v, t) \in Int
    BY <2>1, BetaIsInt, TagsAreInt
  <2>3. \A r : /\ Dealt(p, r, e).from = p /\ Dealt(p, r, e).to = r
               /\ Dealt(p, r, e).deal = e /\ Dealt(p, r, e).altered = FALSE
    BY DEF Dealt
  <2>4. Share(Dealt(p, h, e)) = (Beta(e, p, h) + 0) % Q
    BY <2>3 DEF Share
  <2>5. CTag(Dealt(p, v, e), h, t) = CheckValue(Beta(e, p, h), ReceiverB(e, p, h, v, t), HolderY(e, p, h, v, t))
    BY <2>3 DEF CTag, BTag
  <2>6. /\ BTag(Dealt(p, v, e), h, t) = ReceiverB(e, p, h, v, t)
        /\ YTag(Dealt(p, h, e), v, t) = HolderY(e, p, h, v, t)
    BY <2>3 DEF BTag, YTag
  <2>. QED
    BY <2>2, <2>4, <2>5, <2>6, ReducedPasses
<1>. QED
  BY <1>1 DEF AuditsVerify

(***************************************************************************)
(* Nobody is stuck: what a session owes has been queued or is carried, and *)
(* what is over has said everything.                                       *)
(***************************************************************************)
Told(shown, s) == shown \cup ToSet(s.outbound)

HoldsDeliveries(shown, p, s) ==
  /\ s.deliveries \subseteq shown
  /\ \A m \in s.deliveries : m.kind = "private" /\ m.to = p
  /\ \A m, n \in s.deliveries : m.from = n.from => m = n

Going(st, shown, p, s) ==
  /\ Precommitted(st, p) \in Told(shown, s)
  /\ \A r \in Parties : DeliveryOf(st, p, r) \in Told(shown, s)
  /\ s.coinsSent => \A d \in Parties : CoinShare(p, d, st.entropy[p]) \in Told(shown, s)
  /\ s.commitmentSent => Certificate(st, p) \in Told(shown, s)
  /\ s.prepared \/ s.commitmentSent
  /\ HoldsDeliveries(shown, p, s)

UpToDate(p, s) ==
  /\ HasAllPrecommitments(s) => s.coinsSent
  /\ Cardinality(CoinsFor(s, p)) = N => s.commitmentSent

AllSaid(st, shown, p) ==
  /\ Precommitted(st, p) \in shown
  /\ \A r \in Parties : DeliveryOf(st, p, r) \in shown
  /\ \A d \in Parties : CoinShare(p, d, st.entropy[p]) \in shown
  /\ Certificate(st, p) \in shown

GetsOn(st, shown, out, p, s) ==
  /\ s.status = "running" => Going(st, shown, p, s) /\ UpToDate(p, s)
  /\ s.status = "over" => AllSaid(st, shown, p) /\ (st.wrong = {} => out # {})

NobodyIsStuck == \A p \in Parties : GetsOn(setup, channel, outputs[p], p, session[p])

LEMMA GetsOnKept ==
  ASSUME NEW st, NEW shown, NEW more, shown \subseteq more, NEW out, NEW out2, out \subseteq out2,
         NEW p, NEW s, GetsOn(st, shown, out, p, s)
  PROVE  GetsOn(st, more, out2, p, s)
<1>1. Told(shown, s) \subseteq Told(more, s)
  BY DEF Told
<1>2. Going(st, shown, p, s) => Going(st, more, p, s)
  BY <1>1 DEF Going, HoldsDeliveries
<1>3. AllSaid(st, shown, p) => AllSaid(st, more, p)
  BY DEF AllSaid
<1>. QED
  BY <1>2, <1>3 DEF GetsOn

LEMMA GetOnStep ==
  ASSUME TypeOK, NobodyIsStuck, NEW p \in Parties, NEW X,
         session' = [session EXCEPT ![p] = X], setup' = setup, channel \subseteq channel',
         \A q \in Parties : outputs[q] \subseteq outputs'[q],
         GetsOn(setup, channel', outputs'[p], p, X)
  PROVE  NobodyIsStuck'
<1>1. ASSUME NEW q \in Parties PROVE GetsOn(setup, channel', outputs'[q], q, session'[q])
  <2>1. DOMAIN session = Parties
    BY DEF TypeOK
  <2>2. CASE q = p
    BY <2>1, <2>2
  <2>3. CASE q # p
    <3>1. session'[q] = session[q] /\ GetsOn(setup, channel, outputs[q], q, session[q])
      BY <2>1, <2>3 DEF NobodyIsStuck
    <3>. QED
      BY <3>1, GetsOnKept
  <2>. QED
    BY <2>2, <2>3
<1>. QED
  BY <1>1 DEF NobodyIsStuck

LEMMA TellsMore ==
  ASSUME NEW shown, NEW s, NEW r, NEW out \in Seq(Messages), NEW more \in Seq(Messages),
         s.outbound = out, r.outbound = out \o more
  PROVE  /\ Told(shown, s) \subseteq Told(shown, r)
         /\ \A i \in DOMAIN more : more[i] \in Told(shown, r)
<1>1. /\ out \o more \in Seq(Messages) /\ Len(out \o more) = Len(out) + Len(more)
      /\ \A i \in 1 .. Len(out) + Len(more) :
           (out \o more)[i] = IF i <= Len(out) THEN out[i] ELSE more[i - Len(out)]
  BY ConcatProperties
<1>2. DOMAIN (out \o more) = 1 .. Len(out) + Len(more)
  BY <1>1
<1>3. /\ DOMAIN out = 1 .. Len(out) /\ DOMAIN more = 1 .. Len(more)
      /\ Len(out) \in Nat /\ Len(more) \in Nat
  OBVIOUS
<1>4. ASSUME NEW i \in DOMAIN out PROVE out[i] \in ToSet(out \o more)
  <2>1. i \in DOMAIN (out \o more) /\ (out \o more)[i] = out[i]
    BY <1>1, <1>2, <1>3
  <2>. QED
    BY <2>1 DEF ToSet
<1>5. ASSUME NEW i \in DOMAIN more PROVE more[i] \in ToSet(out \o more)
  <2>1. /\ Len(out) + i \in DOMAIN (out \o more) /\ ~(Len(out) + i <= Len(out))
        /\ (Len(out) + i) - Len(out) = i
    BY <1>2, <1>3
  <2>2. (out \o more)[Len(out) + i] = more[i]
    BY <1>1, <1>2, <2>1
  <2>. QED
    BY <2>1, <2>2 DEF ToSet
<1>. QED
  BY <1>4, <1>5 DEF Told, ToSet

LEMMA SendCoinsGets ==
  ASSUME TypeOK, BroadcastIsSound, NEW p \in Parties, NEW s, SessionIsSound(p, s),
         s.status = "running", Going(setup, channel, p, s)
  PROVE  LET r == SendCoins(p, s)
         IN  /\ r.status = "running" /\ Going(setup, channel, p, r)
             /\ HasAllPrecommitments(r) => r.coinsSent
<1> DEFINE coins == [k \in DOMAIN s.precommitments |->
                       CoinShare(p, s.precommitments[k].from, setup.entropy[p])]
           X == [s EXCEPT !.coinsSent = TRUE, !.outbound = @ \o coins]
<1>1. s \in SessionState /\ SoundSession(setup, channel, p, s)
  BY DEF SessionIsSound
<1>2. CASE ~s.coinsSent /\ HasAllPrecommitments(s)
  <2>1. SendCoins(p, s) = X
    BY <1>2 DEF SendCoins
  <2>2. s.precommitments \in Seq(Precommitments) /\ s.outbound \in Seq(Messages)
    BY <1>1, SessionFields
  <2>3. /\ Len(s.precommitments) = PartyCount /\ Len(s.precommitments) \in Nat
        /\ DOMAIN s.precommitments = 1 .. Len(s.precommitments)
    BY <1>2, <2>2 DEF HasAllPrecommitments, N, PartyCount
  <2>4. \A i \in DOMAIN s.precommitments :
          /\ s.precommitments[i] \in channel
          /\ s.precommitments[i].kind = "precommitment"
    BY <1>1, <2>2, KindOfSet DEF SoundSession
  <2>5. \A i \in DOMAIN s.precommitments : s.precommitments[i].from \in Parties
    BY <2>4, CarriedFacts
  <2>6. \A d \in Parties : \E i \in DOMAIN s.precommitments : s.precommitments[i].from = d
    BY <1>1, <2>2, <2>3, <2>5, EverybodyIsListed DEF SoundSession
  <2>7. \A d \in Parties : CoinShare(p, d, setup.entropy[p]) \in Messages
    BY SaidIsTyped DEF Messages
  <2>8. \A k \in DOMAIN coins : coins[k] \in Messages
    BY <2>5, <2>7
  <2>9. DOMAIN coins = 1 .. Len(s.precommitments)
    BY <2>3
  <2>10. \A d \in Parties : \E k \in DOMAIN coins : coins[k] = CoinShare(p, d, setup.entropy[p])
    BY <2>6
  <2> HIDE DEF coins
  <2>11. coins \in Seq(Messages)
    <3>1. coins = [k \in 1 .. Len(s.precommitments) |-> coins[k]]
      BY <2>9 DEF coins
    <3>. QED
      BY <2>3, <2>8, <2>9, <3>1
  <2>12. /\ X.outbound = s.outbound \o coins /\ X.coinsSent = TRUE /\ X.status = "running"
         /\ X.prepared = s.prepared /\ X.commitmentSent = s.commitmentSent
         /\ X.deliveries = s.deliveries
    BY <1>1 DEF SessionState
  <2> HIDE DEF X
  <2>13. /\ Told(channel, s) \subseteq Told(channel, X)
         /\ \A k \in DOMAIN coins : coins[k] \in Told(channel, X)
    BY <2>2, <2>11, <2>12, TellsMore
  <2>14. \A d \in Parties : CoinShare(p, d, setup.entropy[p]) \in Told(channel, X)
    BY <2>10, <2>13
  <2>15. Going(setup, channel, p, X)
    BY <2>12, <2>13, <2>14 DEF Going, HoldsDeliveries
  <2>. QED
    BY <2>1, <2>12, <2>15
<1>3. CASE ~(~s.coinsSent /\ HasAllPrecommitments(s))
  <2>1. SendCoins(p, s) = s
    BY <1>3 DEF SendCoins
  <2>. QED
    BY <1>3, <2>1
<1>. QED
  BY <1>2, <1>3

LEMMA SendCommitmentGets ==
  ASSUME TypeOK, BroadcastIsSound, NEW p \in Parties, NEW s, SessionIsSound(p, s),
         s.status = "running", Going(setup, channel, p, s),
         HasAllPrecommitments(s) => s.coinsSent
  PROVE  LET r == SendCommitment(p, s)
         IN  r.status = "running" /\ Going(setup, channel, p, r) /\ UpToDate(p, r)
<1> DEFINE coins == CoinsFor(s, p)
           m == Commitment(p, setup.entropy[p], coins)
           X == [s EXCEPT !.prepared = FALSE, !.commitmentSent = TRUE, !.outbound = Append(@, m)]
<1>1. s \in SessionState /\ SoundSession(setup, channel, p, s)
  BY DEF SessionIsSound
<1>2. CASE ~s.commitmentSent /\ Cardinality(coins) = N
  <2>0. s.prepared /\ AuditsVerify[p][setup.entropy[p]]
    BY <1>2, SetupFacts, AuditsAlwaysVerify DEF Going
  <2>1. SendCommitment(p, s) = X
    BY <1>2, <2>0 DEF SendCommitment
  <2>2. coins \in SUBSET CoinShares /\ coins \subseteq channel /\ \A c \in coins : c.label = p
    BY <1>1, SessionFields DEF CoinsFor, SoundSession
  <2>3. Cardinality(coins) = PartyCount
    BY <1>2 DEF N, PartyCount
  <2> HIDE DEF coins
  <2>4. coins = AllCoins(setup, p)
    BY <2>2, <2>3, CoinsAreAll
  <2>5. m = Certificate(setup, p)
    BY <2>4 DEF Certificate
  <2> HIDE DEF m
  <2>6. m \in Messages /\ s.outbound \in Seq(Messages)
    BY <1>1, <2>5, SaidIsTyped, SessionFields DEF Messages
  <2>7. <<m>> \in Seq(Messages) /\ Append(s.outbound, m) = s.outbound \o <<m>>
    BY <2>6
  <2>8. /\ X.outbound = s.outbound \o <<m>> /\ X.coinsSent = s.coinsSent /\ X.status = "running"
        /\ X.commitmentSent = TRUE /\ X.deliveries = s.deliveries
        /\ X.precommitments = s.precommitments
    BY <1>1, <2>7 DEF SessionState
  <2> HIDE DEF X
  <2>9. /\ Told(channel, s) \subseteq Told(channel, X)
        /\ \A k \in DOMAIN <<m>> : <<m>>[k] \in Told(channel, X)
    BY <2>6, <2>7, <2>8, TellsMore
  <2>10. m \in Told(channel, X)
    BY <2>9
  <2>11. Going(setup, channel, p, X)
    BY <2>5, <2>8, <2>9, <2>10 DEF Going, HoldsDeliveries
  <2>. QED
    BY <2>1, <2>8, <2>11 DEF UpToDate, HasAllPrecommitments
<1>3. CASE ~(~s.commitmentSent /\ Cardinality(coins) = N)
  <2>1. SendCommitment(p, s) = s
    BY <1>3 DEF SendCommitment
  <2>. QED
    BY <1>3, <2>1 DEF UpToDate
<1>. QED
  BY <1>2, <1>3

LEMMA AdvanceGets ==
  ASSUME TypeOK, BroadcastIsSound, NEW p \in Parties, NEW s, SessionIsSound(p, s),
         s.status = "running", Going(setup, channel, p, s)
  PROVE  LET r == Advance(p, s)
         IN  r.status = "running" /\ Going(setup, channel, p, r) /\ UpToDate(p, r)
<1> DEFINE r == SendCoins(p, s)
<1>1. SessionIsSound(p, r)
  BY SendCoinsSound
<1>2. /\ r.status = "running" /\ Going(setup, channel, p, r)
      /\ HasAllPrecommitments(r) => r.coinsSent
  BY SendCoinsGets
<1>3. Advance(p, s) = SendCommitment(p, r)
  BY DEF Advance
<1> HIDE DEF r
<1>. QED
  BY <1>1, <1>2, <1>3, SendCommitmentGets

(***************************************************************************)
(* Messages that are taken, and what is sent then.                         *)
(***************************************************************************)
LEMMA HandleGets ==
  ASSUME IInv, NobodyIsStuck, NEW p \in Parties, NEW s, SessionIsSound(p, s), Handle(p, s),
         s.status = "running", Going(setup, channel, p, s)
  PROVE  NobodyIsStuck'
<1> DEFINE X == Advance(p, s)
<1>1. TypeOK /\ BroadcastIsSound
  BY DEF IInv
<1>2. X.status = "running" /\ Going(setup, channel, p, X) /\ UpToDate(p, X)
  BY <1>1, AdvanceGets
<1>3. /\ session' = [session EXCEPT ![p] = X]
      /\ setup' = setup /\ channel' = channel /\ outputs' = outputs
  BY DEF Handle
<1> HIDE DEF X
<1>4. GetsOn(setup, channel', outputs'[p], p, X)
  BY <1>2, <1>3 DEF GetsOn
<1>. QED
  BY <1>1, <1>3, <1>4, GetOnStep

\* What a message changes of a running session, before it advances.
LEMMA StillGoing ==
  ASSUME NEW st, NEW shown, NEW p, NEW s, NEW r, Going(st, shown, p, s),
         r.outbound = s.outbound, r.coinsSent = s.coinsSent,
         r.commitmentSent = s.commitmentSent, r.prepared = s.prepared,
         HoldsDeliveries(shown, p, r)
  PROVE  Going(st, shown, p, r)
  BY DEF Going, Told

LEMMA HandleMessageGets ==
  ASSUME IInv, NobodyIsStuck, NEW p \in Parties, NEW m \in channel,
         \/ HandlePrecommitment(p, m) \/ HandleCoin(p, m)
         \/ HandleCommitment(p, m) \/ HandlePrivate(p, m)
  PROVE  NobodyIsStuck'
<1> DEFINE s == session[p]
           B == [s EXCEPT !.precommitments = Append(@, m)]
           C == [s EXCEPT !.coins = @ \cup {m}]
           D == [s EXCEPT !.commitments = @ \cup {m}]
           E == [s EXCEPT !.deliveries = @ \cup {m}]
<1>1. /\ TypeOK /\ s \in SessionState /\ SoundSession(setup, channel, p, s) /\ m \in Messages
      /\ BroadcastIsSound
  BY CurrentSession DEF SessionIsSound, IInv, TypeOK
<1>2. s.status = "running"
  BY DEF HandlePrecommitment, HandleCoin, HandleCommitment, HandlePrivate, Handle
<1>3. Going(setup, channel, p, s)
  BY <1>2 DEF NobodyIsStuck, GetsOn
<1>4. \/ m.kind = "precommitment" /\ m.from \notin Dealers(s) /\ Handle(p, B)
      \/ m.kind = "coin" /\ Handle(p, C)
      \/ m.kind = "commitment" /\ Handle(p, D)
      \/ InsertPrivate(p, s, m) /\ Handle(p, E)
  BY DEF HandlePrecommitment, InsertPrecommitment, HandleCoin, InsertCoin, HandleCommitment,
         InsertCommitment, HandlePrivate
<1> HIDE DEF s
<1>5. HoldsDeliveries(channel, p, s)
  BY <1>3 DEF Going
<1>6. CASE m.kind = "precommitment" /\ m.from \notin Dealers(s) /\ Handle(p, B)
  <2>1. m \in Precommitments
    BY <1>1, <1>6, MessageKinds
  <2>2. s.precommitments \in Seq(Precommitments)
    BY <1>1, SessionFields
  <2>3. /\ B \in SessionState /\ B.outbound = s.outbound /\ B.coins = s.coins
        /\ B.commitments = s.commitments /\ B.status = s.status /\ B.prepared = s.prepared
        /\ B.coinsSent = s.coinsSent /\ B.commitmentSent = s.commitmentSent
        /\ B.deliveries = s.deliveries
        /\ B.precommitments = Append(s.precommitments, m)
    BY <1>1, <2>1, <2>2 DEF SessionState
  <2>4. SessionIsSound(p, B)
    BY <1>1, <1>6, <2>1, AppendedIsSound
  <2> HIDE DEF B
  <2>5. Going(setup, channel, p, B)
    BY <1>3, <1>5, <2>3, StillGoing DEF HoldsDeliveries
  <2>. QED
    BY <1>2, <1>6, <2>3, <2>4, <2>5, HandleGets
<1>7. CASE m.kind = "coin" /\ Handle(p, C)
  <2>1. m \in CoinShares
    BY <1>1, <1>7, MessageKinds
  <2>2. /\ C \in SessionState /\ C.outbound = s.outbound /\ C.coins = s.coins \cup {m}
        /\ C.precommitments = s.precommitments /\ C.commitments = s.commitments
        /\ C.status = s.status /\ C.prepared = s.prepared
        /\ C.coinsSent = s.coinsSent /\ C.commitmentSent = s.commitmentSent
        /\ C.deliveries = s.deliveries
    BY <1>1, <2>1 DEF SessionState
  <2> HIDE DEF C
  <2>3. SessionIsSound(p, C)
    BY <1>1, <2>2 DEF SoundSession, SessionIsSound
  <2>4. Going(setup, channel, p, C)
    BY <1>3, <1>5, <2>2, StillGoing DEF HoldsDeliveries
  <2>. QED
    BY <1>2, <1>7, <2>2, <2>3, <2>4, HandleGets
<1>8. CASE m.kind = "commitment" /\ Handle(p, D)
  <2>1. m \in Commitments
    BY <1>1, <1>8, MessageKinds
  <2>2. /\ D \in SessionState /\ D.outbound = s.outbound /\ D.coins = s.coins
        /\ D.precommitments = s.precommitments /\ D.commitments = s.commitments \cup {m}
        /\ D.status = s.status /\ D.prepared = s.prepared
        /\ D.coinsSent = s.coinsSent /\ D.commitmentSent = s.commitmentSent
        /\ D.deliveries = s.deliveries
    BY <1>1, <2>1 DEF SessionState
  <2> HIDE DEF D
  <2>3. SessionIsSound(p, D)
    BY <1>1, <2>2 DEF SoundSession, SessionIsSound
  <2>4. Going(setup, channel, p, D)
    BY <1>3, <1>5, <2>2, StillGoing DEF HoldsDeliveries
  <2>. QED
    BY <1>2, <1>8, <2>2, <2>3, <2>4, HandleGets
<1>9. CASE InsertPrivate(p, s, m) /\ Handle(p, E)
  <2>1. /\ E \in SessionState /\ E.outbound = s.outbound /\ E.coins = s.coins
        /\ E.precommitments = s.precommitments /\ E.commitments = s.commitments
        /\ E.status = s.status /\ E.prepared = s.prepared
        /\ E.coinsSent = s.coinsSent /\ E.commitmentSent = s.commitmentSent
        /\ E.deliveries = s.deliveries \cup {m}
    BY <1>1 DEF SessionState
  <2> HIDE DEF E
  <2>2. SessionIsSound(p, E)
    BY <1>1, <2>1 DEF SoundSession, SessionIsSound
  <2>3. HoldsDeliveries(channel, p, E)
    BY <1>5, <1>9, <2>1 DEF HoldsDeliveries, InsertPrivate
  <2>4. Going(setup, channel, p, E)
    BY <1>3, <2>1, <2>3, StillGoing
  <2>. QED
    BY <1>2, <1>9, <2>1, <2>2, <2>4, HandleGets
<1>. QED
  BY <1>4, <1>6, <1>7, <1>8, <1>9

LEMMA StartGets ==
  ASSUME IInv, NobodyIsStuck, NEW p \in Parties, Start(p)
  PROVE  NobodyIsStuck'
<1> DEFINE first == <<Precommitment(p, setup.entropy[p])>>
           rest == [k \in DOMAIN InOrder |-> Delivery(p, InOrder[k], setup.entropy[p])]
           blank == [NotRunning("running") EXCEPT !.outbound = first]
           X == Started(p)
<1>1. TypeOK
  BY DEF IInv
<1>2. first \in Seq(Messages) /\ first[1] = Precommitted(setup, p) /\ 1 \in DOMAIN first
  <2>1. Precommitted(setup, p) \in Messages
    BY <1>1, SaidIsTyped DEF Says
  <2>. QED
    BY <2>1 DEF Precommitted
<1>3. /\ DOMAIN rest = 1 .. PartyCount
      /\ \A k \in DOMAIN rest : rest[k] \in Messages /\ rest[k] = DeliveryOf(setup, p, InOrder[k])
  <2>1. \A r \in Parties : DeliveryOf(setup, p, r) \in Messages
    BY <1>1, SaidIsTyped DEF Says
  <2>2. \A k \in DOMAIN InOrder : rest[k] = DeliveryOf(setup, p, InOrder[k])
    BY DEF Delivery, DeliveryOf
  <2>. QED
    BY <2>1, <2>2, InOrderIsOfParties
<1>4. rest \in Seq(Messages)
  <2>1. rest = [k \in 1 .. PartyCount |-> rest[k]]
    BY <1>3
  <2> HIDE DEF rest
  <2>. QED
    BY <1>3, <2>1, PartyFacts
<1>5. \A r \in Parties : \E k \in DOMAIN rest : rest[k] = DeliveryOf(setup, p, r)
  <2>1. \A r \in Parties : \E k \in 1 .. PartyCount : InOrder[k] = r
    BY InOrderIsOfParties
  <2> HIDE DEF rest
  <2>. QED
    BY <1>3, <2>1
<1>6. /\ X.outbound = first \o rest /\ X.status = "running" /\ X.prepared = TRUE
      /\ X.coinsSent = FALSE /\ X.commitmentSent = FALSE /\ X.deliveries = {}
      /\ X.precommitments = <<>> /\ X.coins = {}
  BY DEF Started, NotRunning
<1>7. blank.outbound = first
  BY DEF NotRunning
<1> HIDE DEF first, rest, blank, X
<1>8. /\ Told(channel, blank) \subseteq Told(channel, X)
      /\ \A k \in DOMAIN rest : rest[k] \in Told(channel, X)
  BY <1>2, <1>4, <1>6, <1>7, TellsMore
<1>9. first[1] \in Told(channel, X)
  BY <1>2, <1>7, <1>8 DEF Told, ToSet
<1>10. Going(setup, channel, p, X)
  BY <1>2, <1>5, <1>6, <1>8, <1>9 DEF Going, HoldsDeliveries
<1>11. UpToDate(p, X)
  <2>1. N # 0
    BY PartyFacts, FS_EmptySet DEF N, PartyCount
  <2>2. CoinsFor(X, p) = {} /\ Cardinality({}) = 0
    BY <1>6, FS_EmptySet DEF CoinsFor
  <2>3. Len(X.precommitments) = 0
    BY <1>6
  <2>. QED
    BY <2>1, <2>2, <2>3 DEF UpToDate, HasAllPrecommitments
<1>12. /\ session' = [session EXCEPT ![p] = X]
       /\ setup' = setup /\ channel' = channel /\ outputs' = outputs
  BY DEF Start, X
<1>13. GetsOn(setup, channel', outputs'[p], p, X)
  BY <1>6, <1>10, <1>11, <1>12 DEF GetsOn
<1>. QED
  BY <1>1, <1>12, <1>13, GetOnStep

LEMMA TakeOutboundGets ==
  ASSUME IInv, NobodyIsStuck, NEW p \in Parties, TakeOutbound(p)
  PROVE  NobodyIsStuck'
<1> DEFINE s == session[p]
           X == [s EXCEPT !.outbound = <<>>]
           more == ToSet(s.outbound)
<1>1. TypeOK /\ s \in SessionState
  BY CurrentSession DEF SessionIsSound, IInv
<1>2. /\ channel' = channel \cup more /\ session' = [session EXCEPT ![p] = X]
      /\ setup' = setup /\ outputs' = outputs
  <2>1. session \in [Parties -> SessionState]
    BY <1>1 DEF TypeOK
  <2>2. session' = [session EXCEPT ![p].outbound = <<>>]
    BY DEF TakeOutbound
  <2>3. session' = [session EXCEPT ![p] = X]
    BY <2>1, <2>2
  <2>. QED
    BY <2>3 DEF TakeOutbound
<1>3. GetsOn(setup, channel, outputs[p], p, s)
  BY DEF NobodyIsStuck
<1>4. /\ X.outbound = <<>> /\ X.coins = s.coins /\ X.status = s.status
      /\ X.precommitments = s.precommitments /\ X.coinsSent = s.coinsSent
      /\ X.commitmentSent = s.commitmentSent /\ X.prepared = s.prepared
      /\ X.deliveries = s.deliveries
  BY <1>1 DEF SessionState
<1>5. Told(channel', X) = Told(channel, s) /\ channel \subseteq channel'
  <2>1. ToSet(X.outbound) = {}
    BY <1>4 DEF ToSet
  <2>. QED
    BY <1>2, <2>1 DEF Told
<1> HIDE DEF s, X, more
<1>6. Going(setup, channel, p, s) => Going(setup, channel', p, X)
  BY <1>4, <1>5 DEF Going, HoldsDeliveries
<1>7. UpToDate(p, s) => UpToDate(p, X)
  BY <1>4 DEF UpToDate, HasAllPrecommitments, CoinsFor
<1>8. AllSaid(setup, channel, p) => AllSaid(setup, channel', p)
  BY <1>5 DEF AllSaid
<1>9. GetsOn(setup, channel', outputs'[p], p, X)
  BY <1>2, <1>3, <1>4, <1>6, <1>7, <1>8 DEF GetsOn
<1>. QED
  BY <1>1, <1>2, <1>5, <1>9, GetOnStep

LEMMA LoseGets ==
  ASSUME IInv, NobodyIsStuck, NEW p \in Parties, FinishEarly(p) \/ Crash(p)
  PROVE  NobodyIsStuck'
<1>1. TypeOK
  BY DEF IInv
<1>2. /\ session' = [session EXCEPT ![p] = NotRunning("none")]
      /\ setup' = setup /\ outputs' = outputs /\ channel \subseteq channel'
  BY DEF FinishEarly, Crash
<1>3. GetsOn(setup, channel', outputs'[p], p, NotRunning("none"))
  BY DEF GetsOn, NotRunning
<1>. QED
  BY <1>1, <1>2, <1>3, GetOnStep

LEMMA FinishGets ==
  ASSUME IInv, NobodyIsStuck, NEW p \in Parties, Finish(p)
  PROVE  NobodyIsStuck'
<1> DEFINE s == session[p]
           r == Advance(p, s)
           X == NotRunning("over")
<1>1. TypeOK /\ BroadcastIsSound /\ SessionIsSound(p, s) /\ OutputsAreSound
  BY CurrentSession DEF IInv
<1>2. s.status = "running" /\ Complete(r) /\ session' = [session EXCEPT ![p] = X]
      /\ setup' = setup /\ channel' = channel
  BY DEF Finish
<1>3. Going(setup, channel, p, s)
  BY <1>2 DEF NobodyIsStuck, GetsOn
<1>4. Going(setup, channel, p, r) /\ UpToDate(p, r) /\ SessionIsSound(p, r)
  BY <1>1, <1>2, <1>3, AdvanceGets, AdvanceSound
<1>5. Told(channel, r) = channel
  BY <1>2 DEF Complete, Told, ToSet
<1>6. r.coinsSent
  BY <1>2, <1>4 DEF UpToDate, Complete
<1>7. Certificate(setup, p) \in channel
  <2>1. r.commitments \in SUBSET Commitments /\ r.commitments \subseteq channel
    BY <1>4, SessionFields DEF SessionIsSound, SoundSession
  <2>2. Cardinality(r.commitments) = PartyCount
    BY <1>2 DEF Complete, N, PartyCount
  <2>3. r.commitments = Evidence(setup)
    BY <1>1, <2>1, <2>2, CertificatesAreAll
  <2>. QED
    BY <2>1, <2>3 DEF Evidence
<1>8. AllSaid(setup, channel, p)
  BY <1>4, <1>5, <1>6, <1>7 DEF AllSaid, Going
<1>9. setup.wrong = {} => outputs'[p] # {}
  <2>1. ASSUME setup.wrong = {}, NEW m \in s.deliveries PROVE Verifies[m]
    <3>1. m \in channel /\ m.kind = "private"
      BY <1>3 DEF Going, HoldsDeliveries
    <3>2. m \in Deliveries /\ m.from \in Parties /\ Sound(setup, channel, m.from, m)
      BY <1>1, <3>1, MessageKinds DEF TypeOK, BroadcastIsSound
    <3>3. m = DeliveryOf(setup, m.from, m.to)
      BY <3>1, <3>2, SaysWhat DEF Sound
    <3>4. ~DeliveryOf(setup, m.from, m.to).altered
      BY <2>1 DEF DeliveryOf, Dealt
    <3>. QED
      BY <3>2, <3>3, <3>4, UnalteredVerifies
  <2>2. DOMAIN outputs = Parties
    BY <1>1 DEF OutputsAreSound
  <2>. QED
    BY <2>1, <2>2 DEF Finish
<1>10. \A q \in Parties : outputs[q] \subseteq outputs'[q]
  <2>1. DOMAIN outputs = Parties
    BY <1>1 DEF OutputsAreSound
  <2>2. \/ outputs' = [outputs EXCEPT ![p] = @ \cup {Output(p, session[p])}]
        \/ outputs' = outputs
    BY DEF Finish
  <2>. QED
    BY <2>1, <2>2
<1>11. X.status = "over"
  BY DEF NotRunning
<1> HIDE DEF X
<1>12. GetsOn(setup, channel', outputs'[p], p, X)
  BY <1>2, <1>8, <1>9, <1>11 DEF GetsOn
<1>. QED
  BY <1>1, <1>2, <1>10, <1>12, GetOnStep

(***************************************************************************)
(* Where nothing is left to do.                                            *)
(***************************************************************************)
LEMMA InitStuck == Init => NobodyIsStuck
<1>. SUFFICES ASSUME Init PROVE NobodyIsStuck
  OBVIOUS
<1>1. \A p \in Parties : session[p].status = "none"
  BY DEF Init, NotRunning
<1>. QED
  BY <1>1 DEF NobodyIsStuck, GetsOn

LEMMA StutterStuck == NobodyIsStuck /\ UNCHANGED vars => NobodyIsStuck'
  BY DEF vars, NobodyIsStuck

LEMMA StuckStep == IInv /\ NobodyIsStuck /\ [Next]_vars => NobodyIsStuck'
<1>. SUFFICES ASSUME IInv, NobodyIsStuck, [Next]_vars PROVE NobodyIsStuck'
  OBVIOUS
<1>1. ASSUME NEW p \in Parties, HandleMessage(p) PROVE NobodyIsStuck'
  BY <1>1, HandleMessageGets DEF HandleMessage
<1>. QED
  BY <1>1, StartGets, TakeOutboundGets, LoseGets, FinishGets, StutterStuck DEF Next

LEMMA StuckCorrect == Spec => []NobodyIsStuck
  BY InvCorrect, InitStuck, StuckStep, PTL DEF Spec

\* A set with one message of every party has as many members as there are parties.
LEMMA OneOfEach ==
  ASSUME NEW S, \A m \in S : m.from \in Parties, \A m, n \in S : m.from = n.from => m = n,
         \A p \in Parties : \E m \in S : m.from = p
  PROVE  Cardinality(S) = N
<1> DEFINE sender == [m \in S |-> m.from]
<1>1. sender \in Injection(S, Parties) /\ sender \in Surjection(S, Parties)
  BY DEF Injection, IsInjective, Surjection
<1>2. IsFiniteSet(S) /\ sender \in Bijection(S, Parties)
  BY <1>1, PartyFacts, FS_Injection DEF Bijection
<1>. QED
  BY <1>2, FS_Bijection DEF N, ExistsBijection

LEMMA EverybodyIsCounted ==
  ASSUME NEW list \in Seq(Precommitments),
         \A i \in DOMAIN list : list[i].from \in Parties,
         \A i, j \in DOMAIN list : list[i].from = list[j].from => i = j,
         \A d \in Parties : \E i \in DOMAIN list : list[i].from = d
  PROVE  Len(list) = N
<1> DEFINE sender == [i \in 1 .. Len(list) |-> list[i].from]
<1>1. DOMAIN list = 1 .. Len(list) /\ Len(list) \in Nat
  OBVIOUS
<1>2. sender \in Injection(1 .. Len(list), Parties) /\ sender \in Surjection(1 .. Len(list), Parties)
  BY <1>1 DEF Injection, IsInjective, Surjection
<1>3. sender \in Bijection(1 .. Len(list), Parties)
  BY <1>2 DEF Bijection
<1>4. IsFiniteSet(1 .. Len(list)) /\ Cardinality(1 .. Len(list)) = Len(list)
  BY <1>1, FS_Interval
<1>. QED
  BY <1>3, <1>4, FS_Bijection DEF N, ExistsBijection

\* A session that would accept nothing of what is carried.

Heard(p, s) == \A m \in channel : ~InsertPrecommitment(s, m) /\ ~InsertCoin(s, m)
                                   /\ ~InsertCommitment(s, m) /\ ~InsertPrivate(p, s, m)

LEMMA HeardPrecommitments ==
  ASSUME TypeOK, BroadcastIsSound, NEW p \in Parties, NEW s, SessionIsSound(p, s), Heard(p, s),
         AllPrecommitted(setup, channel)
  PROVE  HasAllPrecommitments(s) /\ Parties \subseteq Dealers(s)
<1>1. /\ s \in SessionState /\ SoundSession(setup, channel, p, s)
      /\ s.precommitments \in Seq(Precommitments)
  BY SessionFields DEF SessionIsSound
<1>2. \A d \in Parties : d \in Dealers(s)
  BY MessageFields DEF Heard, AllPrecommitted, Precommitted, InsertPrecommitment
<1>3. \A i \in DOMAIN s.precommitments : s.precommitments[i].from \in Parties
  BY <1>1, CarriedFacts DEF SoundSession
<1>4. Len(s.precommitments) = N
  BY <1>1, <1>2, <1>3, EverybodyIsCounted DEF SoundSession, Dealers
<1>. QED
  BY <1>2, <1>4 DEF HasAllPrecommitments

LEMMA HeardCoins ==
  ASSUME TypeOK, BroadcastIsSound, NEW p \in Parties, NEW s, SessionIsSound(p, s), Heard(p, s),
         Parties \subseteq Dealers(s),
         \A q, d \in Parties : CoinShare(q, d, setup.entropy[q]) \in channel
  PROVE  Cardinality(CoinsFor(s, p)) = N
<1> DEFINE coins == CoinsFor(s, p)
<1>1. \A m \in coins : m \in s.coins /\ m \in channel /\ m.label = p /\ m.kind = "coin"
  BY SessionFields, KindOfSet DEF CoinsFor, SessionIsSound, SoundSession
<1>2. \A m \in coins : m.from \in Parties /\ m = CoinShare(m.from, p, setup.entropy[m.from])
  BY <1>1, CarriedFacts
<1>3. ASSUME NEW q \in Parties PROVE \E m \in coins : m.from = q
  <2> DEFINE c == CoinShare(q, p, setup.entropy[q])
  <2>1. c \in channel /\ c.kind = "coin" /\ c.from = q /\ c.label = p
    BY MessageFields
  <2> HIDE DEF c
  <2>2. \E seen \in s.coins : seen.from = q /\ seen.label = p
    BY <2>1 DEF Heard, InsertCoin
  <2>. QED
    BY <2>2 DEF CoinsFor
<1>4. ASSUME NEW m \in coins, NEW n \in coins, m.from = n.from PROVE m = n
  <2>1. m = CoinShare(m.from, p, setup.entropy[m.from])
    BY <1>2
  <2>2. n = CoinShare(n.from, p, setup.entropy[n.from])
    BY <1>2
  <2>. QED
    BY <1>4, <2>1, <2>2
<1> HIDE DEF coins
<1>5. Cardinality(coins) = N
  BY <1>2, <1>3, <1>4, OneOfEach
<1>. QED
  BY <1>5 DEF coins

LEMMA HeardCommitments ==
  ASSUME TypeOK, BroadcastIsSound, NEW p \in Parties, NEW s, SessionIsSound(p, s), Heard(p, s),
         Parties \subseteq Dealers(s), \A q \in Parties : Certificate(setup, q) \in channel
  PROVE  Cardinality(s.commitments) = N
<1>1. \A m \in s.commitments : m \in channel /\ m.kind = "commitment"
  BY SessionFields, KindOfSet DEF SessionIsSound, SoundSession
<1>2. \A m \in s.commitments : m.from \in Parties /\ m = Certificate(setup, m.from)
  BY <1>1, CarriedFacts
<1>3. ASSUME NEW q \in Parties PROVE \E m \in s.commitments : m.from = q
  <2>1. /\ Certificate(setup, q) \in channel /\ Certificate(setup, q).kind = "commitment"
        /\ Certificate(setup, q).from = q
    BY MessageFields DEF Certificate
  <2>. QED
    BY <2>1 DEF Heard, InsertCommitment
<1>4. ASSUME NEW m \in s.commitments, NEW n \in s.commitments, m.from = n.from PROVE m = n
  <2>1. m = Certificate(setup, m.from)
    BY <1>2
  <2>2. n = Certificate(setup, n.from)
    BY <1>2
  <2>. QED
    BY <1>4, <2>1, <2>2
<1>. QED
  BY <1>2, <1>3, <1>4, OneOfEach

LEMMA HeardDeliveries ==
  ASSUME TypeOK, BroadcastIsSound, NEW p \in Parties, NEW s, Heard(p, s),
         HoldsDeliveries(channel, p, s), \A q \in Parties : DeliveryOf(setup, q, p) \in channel
  PROVE  Cardinality(s.deliveries) = N
<1>1. \A m \in s.deliveries : m.from \in Parties
  BY CarriedFacts DEF HoldsDeliveries
<1>2. ASSUME NEW q \in Parties PROVE \E m \in s.deliveries : m.from = q
  <2>1. /\ DeliveryOf(setup, q, p) \in channel /\ DeliveryOf(setup, q, p).kind = "private"
        /\ DeliveryOf(setup, q, p).from = q /\ DeliveryOf(setup, q, p).to = p
    BY MessageFields
  <2>. QED
    BY <2>1 DEF Heard, InsertPrivate
<1>3. \A m, n \in s.deliveries : m.from = n.from => m = n
  BY DEF HoldsDeliveries
<1>. QED
  BY <1>1, <1>2, <1>3, OneOfEach

LEMMA QuietHasOutputs ==
  ASSUME IInv, NobodyIsStuck, Quiet, setup.wrong = {}, NEW p \in Parties
  PROVE  outputs[p] # {}
<1> DEFINE running(q) == session[q].status = "running"
<1>1. TypeOK /\ BroadcastIsSound /\ \A q \in Parties : SessionIsSound(q, session[q])
  BY CurrentSession
<1>2. \A q \in Parties :
        /\ running(q) \/ session[q].status = "over"
        /\ Told(channel, session[q]) = channel
        /\ running(q) => ~Complete(session[q]) /\ Heard(q, session[q])
  <2>1. \A q \in Parties : session[q].status \in {"none", "running", "over"}
    BY <1>1 DEF SessionIsSound, SessionState
  <2>2. \A q \in Parties : Told(channel, session[q]) = channel
    BY DEF Quiet, Told, ToSet
  <2>. QED
    BY <2>1, <2>2 DEF Quiet, Accepts, Heard
<1>3. \A q \in Parties :
        /\ running(q) => Going(setup, channel, q, session[q]) /\ UpToDate(q, session[q])
        /\ ~running(q) => AllSaid(setup, channel, q) /\ outputs[q] # {}
  BY <1>2 DEF NobodyIsStuck, GetsOn
<1>4. AllPrecommitted(setup, channel) /\ \A q, r \in Parties : DeliveryOf(setup, q, r) \in channel
  BY <1>2, <1>3 DEF AllPrecommitted, Going, AllSaid
<1>5. \A q \in Parties :
        running(q) => HasAllPrecommitments(session[q]) /\ Parties \subseteq Dealers(session[q])
  BY <1>1, <1>2, <1>4, HeardPrecommitments
<1>6. \A q, d \in Parties : CoinShare(q, d, setup.entropy[q]) \in channel
  BY <1>2, <1>3, <1>5 DEF Going, UpToDate, AllSaid
<1>7. \A q \in Parties : running(q) => Cardinality(CoinsFor(session[q], q)) = N
  BY <1>1, <1>2, <1>5, <1>6, HeardCoins
<1>8. \A q \in Parties : Certificate(setup, q) \in channel
  BY <1>2, <1>3, <1>7 DEF Going, UpToDate, AllSaid
<1>9. ASSUME running(p) PROVE FALSE
  <2>1. Cardinality(session[p].commitments) = N
    BY <1>1, <1>2, <1>5, <1>8, <1>9, HeardCommitments
  <2>2. Cardinality(session[p].deliveries) = N
    BY <1>1, <1>2, <1>3, <1>4, <1>9, HeardDeliveries DEF Going
  <2>3. session[p].outbound = <<>>
    BY DEF Quiet
  <2>. QED
    BY <1>2, <1>5, <1>9, <2>1, <2>2, <2>3 DEF Complete
<1>. QED
  BY <1>3, <1>9

\* When every delivery arrives as it was dealt, whoever is not done can still take a step:
\* nobody waits for a message that nobody will send, past losses and in every order.
THEOREM QuietIsFinishedCorrect == Spec => []QuietIsFinished
<1>1. IInv /\ NobodyIsStuck => QuietIsFinished
  BY QuietHasOutputs DEF QuietIsFinished
<1>. QED
  BY <1>1, InvCorrect, StuckCorrect, PTL
=============================================================================
