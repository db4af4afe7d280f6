--------------------------- MODULE NonceGeneration ---------------------------
(***************************************************************************)
(* Distributed nonce generation: one DistributedNonceGenerationSession per *)
(* party (talus-mpc/src/local.rs) over the information-checking sharing of *)
(* talus-dkg/src/it_vss.rs.  Every party deals its contribution to the     *)
(* nonce, and broadcasts a precommitment to what it dealt; who has all     *)
(* precommitments broadcasts a coin for each; who has all coins for its    *)
(* own dealing commits to it; who has every delivery and every commitment  *)
(* may finish, with a share of the nonce and the public evidence.          *)
(*                                                                         *)
(* The application owns the transport, as for PreprocessingSession: it     *)
(* carries each broadcast to all parties, the sender included, and each    *)
(* delivery to its receiver, in any order, again after a refusal, or       *)
(* twice.  A refused message changes nothing.  Sessions live in memory,    *)
(* and everything they draw is a hash of their options: a session that is  *)
(* started again draws the same.  One coefficient stands for the nonce.    *)
(***************************************************************************)
EXTENDS Integers, Sequences, FiniteSets, SequencesExt

CONSTANTS
  Parties,    \* DkgConfig::parties: numbers, and the points of the sharings
  Threshold,  \* shares that determine the nonce
  Q,          \* the field of the nonce and of the sharings
  Gamma1,     \* the nonce lies in 1 - Gamma1 .. Gamma1
  Tags,       \* the indices of audit tags, and those of retained tags
  Entropies,  \* values of nonce_entropy and it_vss_entropy
  Setups,     \* what each party was given, what arrives altered, how much is lost
  Hash(_, _)  \* what an entropy and a purpose give: any number

\* wrong has the deliveries, by dealer and receiver, that do not arrive as they were
\* dealt; losses bounds each party's crashes, early finishes and starts of a finished
\* session.
ASSUME NonceAssumption ==
  /\ Parties \subseteq Nat \ {0} /\ IsFiniteSet(Parties)
  /\ Threshold \in 1 .. Cardinality(Parties)
  /\ Q \in Nat /\ Gamma1 \in Nat \ {0} /\ 2 * Gamma1 < Q
  /\ \A p \in Parties : p < Q
  /\ \A s \in Setups : /\ s.entropy \in [Parties -> Entropies]
                        /\ s.wrong \subseteq Parties \X Parties
                        /\ s.losses \in [Parties -> Nat]

VARIABLES
  setup,    \* the member of Setups this behaviour is about
  channel,  \* what the application carries
  session,  \* each party's session, in memory
  outputs,  \* history: what each party's finish returned
  losses    \* how many of the setup's losses have happened

vars == <<setup, channel, session, outputs, losses>>

(***************************************************************************)
(* The nonce and its shares.                                               *)
(***************************************************************************)
\* evaluate_shamir_polynomial, constant term first.
Eval(coefficients, x) ==
  FoldRight(LAMBDA c, acc : (acc * x + c) % Q, coefficients, 0)

Residue(e, dealer) == Hash(e, <<"residue", dealer>>) % (2 * Gamma1)

SumOver(f) == FoldFunction(+, 0, f)

\* distributed_nonce_coefficients.  (Mutant: the sum is not reduced.)
NonceUnreduced(residues) == (SumOver(residues) - (Gamma1 - 1)) % Q
Nonce(residues) == ((SumOver(residues) % (2 * Gamma1)) - (Gamma1 - 1)) % Q

\* share_nonce_coefficients: all dealers' residues and the masks of the sharing
\* come from the options of the party that computes its share.
NonceShare(e, p) ==
  Eval(<<Nonce([d \in Parties |-> Residue(e, d)])>>
         \o [k \in 1 .. Threshold - 1 |-> Hash(e, <<"mask", k>>) % Q], p)

(***************************************************************************)
(* prepare_secret: one lane stands for the dealer's residues.  Each pair   *)
(* of a holder and a verifier has audit and retained tags: the holder has  *)
(* y, the verifier b and c = share + b * y.                                *)
(***************************************************************************)
TagIds == {"audit", "retained"} \X Tags

\* What is drawn is a number.
ASSUME HashAssumption ==
  \A e \in Entropies :
    /\ \A d \in Parties : Hash(e, <<"residue", d>>) \in Nat
    /\ \A k \in 1 .. Threshold - 1 :
         /\ Hash(e, <<"mask", k>>) \in Nat
         /\ \A d \in Parties : Hash(e, <<"poly", d, k>>) \in Nat
    /\ \A d, h, v \in Parties, t \in TagIds :
         Hash(e, <<"y", d, h, v, t>>) \in Nat /\ Hash(e, <<"b", d, h, v, t>>) \in Nat

Beta(e, dealer, holder) ==
  Eval(<<Residue(e, dealer)>>
         \o [k \in 1 .. Threshold - 1 |-> Hash(e, <<"poly", dealer, k>>) % Q], holder)

HolderY(e, dealer, holder, verifier, tag) ==
  Hash(e, <<"y", dealer, holder, verifier, tag>>) % Q

\* derive_nonzero_fq: never zero.
ReceiverB(e, dealer, holder, verifier, tag) ==
  1 + (Hash(e, <<"b", dealer, holder, verifier, tag>>) % (Q - 1))

CheckValue(beta, b, y) == (beta + b * y) % Q

\* What a delivery carries: the receiver's share, its y tags as a holder, and its
\* b and c tags as a verifier.  An altered delivery carries another share.
Share(m) == (Beta(m.deal, m.from, m.to) + (IF m.altered THEN 1 ELSE 0)) % Q
YTag(m, verifier, t) == HolderY(m.deal, m.from, m.to, verifier, t)
BTag(m, holder, t) == ReceiverB(m.deal, m.from, holder, m.to, t)

CTag(m, holder, t) ==
  CheckValue(Beta(m.deal, m.from, holder), BTag(m, holder, t),
             HolderY(m.deal, m.from, holder, m.to, t))

(***************************************************************************)
(* Messages and sessions.  A label is named by its dealer.  A hash is the  *)
(* record of what it binds: deal stands for all deliveries of the dealer.  *)
(***************************************************************************)
Precommitment(p, e) == [kind |-> "precommitment", from |-> p, deal |-> e]
CoinShare(p, label, e) == [kind |-> "coin", from |-> p, label |-> label, coin |-> e]
Commitment(p, e, coins) == [kind |-> "commitment", from |-> p, deal |-> e, coins |-> coins]
Dealt(p, r, e) ==
  [kind |-> "private", from |-> p, to |-> r, deal |-> e, altered |-> FALSE]
Delivery(p, r, e) == [Dealt(p, r, e) EXCEPT !.altered = <<p, r>> \in setup.wrong]

Precommitments == {Precommitment(p, e) : p \in Parties, e \in Entropies}
CoinShares == {CoinShare(p, d, e) : p \in Parties, d \in Parties, e \in Entropies}
Commitments ==
  [kind : {"commitment"}, from : Parties, deal : Entropies, coins : SUBSET CoinShares]
Deliveries ==
  [kind : {"private"}, from : Parties, to : Parties, deal : Entropies, altered : BOOLEAN]
Messages == Precommitments \cup CoinShares \cup Commitments \cup Deliveries

\* verify_private_delivery: of all tags only those of its own share.
Verifies ==
  [m \in Deliveries |->
     \A t \in TagIds :
       CTag(m, m.to, t) = CheckValue(Share(m), BTag(m, m.to, t), YTag(m, m.to, t))]

\* production_it_vss_public_audit_records_from_output: of all pairs the audit tags.
AuditsVerify ==
  [p \in Parties |-> [e \in Entropies |->
     \A h, v \in Parties, t \in {"audit"} \X Tags :
       CTag(Dealt(p, v, e), h, t)
         = CheckValue(Share(Dealt(p, h, e)), BTag(Dealt(p, v, e), h, t), YTag(Dealt(p, h, e), v, t))]]

SessionState ==
  [status : {"none", "running", "over"},
   prepared : BOOLEAN,              \* not yet finalized
   precommitments : Seq(Precommitments),  \* in order of arrival
   coins : SUBSET CoinShares,
   commitments : SUBSET Commitments,
   deliveries : SUBSET Messages,
   coinsSent : BOOLEAN,
   commitmentSent : BOOLEAN,
   outbound : Seq(Messages)]

NotRunning(status) ==
  [status |-> status, prepared |-> FALSE, precommitments |-> <<>>, coins |-> {},
   commitments |-> {}, deliveries |-> {}, coinsSent |-> FALSE,
   commitmentSent |-> FALSE, outbound |-> <<>>]

TypeOK ==
  /\ setup \in Setups
  /\ channel \subseteq Messages
  /\ session \in [Parties -> SessionState]
  /\ \A p \in Parties : IsInjective(session[p].precommitments)
  /\ \A p \in Parties : \A o \in outputs[p] : o.evidence \subseteq Commitments
  /\ losses \in [Parties -> Nat] /\ \A p \in Parties : losses[p] <= setup.losses[p]

Lose(p) == losses[p] < setup.losses[p] /\ losses' = [losses EXCEPT ![p] = @ + 1]

Init ==
  /\ setup \in Setups
  /\ channel = {}
  /\ session = [p \in Parties |-> NotRunning("none")]
  /\ outputs = [p \in Parties |-> {}]
  /\ losses = [p \in Parties |-> 0]

(***************************************************************************)
(* start: prepares the sharing and queues precommitment and deliveries.    *)
(***************************************************************************)
InOrder ==
  [k \in 1 .. Cardinality(Parties) |->
     CHOOSE p \in Parties : Cardinality({q \in Parties : q <= p}) = k]

Started(p) ==
  [NotRunning("running") EXCEPT
     !.prepared = TRUE,
     !.outbound = <<Precommitment(p, setup.entropy[p])>>
                    \o [k \in DOMAIN InOrder |-> Delivery(p, InOrder[k], setup.entropy[p])]]

Start(p) ==
  /\ session[p].status # "running"
  /\ session' = [session EXCEPT ![p] = Started(p)]
  /\ IF session[p].status = "over" THEN Lose(p) ELSE UNCHANGED losses
  /\ UNCHANGED <<setup, channel, outputs>>

\* The application calls next_outbound until it returns None.
TakeOutbound(p) ==
  /\ session[p].outbound # <<>>
  /\ channel' = channel \cup ToSet(session[p].outbound)
  /\ session' = [session EXCEPT ![p].outbound = <<>>]
  /\ UNCHANGED <<setup, outputs, losses>>

(***************************************************************************)
(* advance, behind every message that was accepted.                        *)
(***************************************************************************)
N == Cardinality(Parties)

\* (Mutant: one precommitment short.)
HasAllPrecommitmentsButOne(s) == Len(s.precommitments) >= N - 1
HasAllPrecommitments(s) == Len(s.precommitments) = N

\* A coin for every precommitment, in their order of arrival.
SendCoins(p, s) ==
  IF ~s.coinsSent /\ HasAllPrecommitments(s)
    THEN [s EXCEPT !.coinsSent = TRUE,
           !.outbound = @ \o [k \in DOMAIN s.precommitments |->
                                CoinShare(p, s.precommitments[k].from, setup.entropy[p])]]
    ELSE s

CoinsFor(s, label) == {m \in s.coins : m.label = label}

\* finalize_prepared_secret.  It takes the prepared sharing, and an error leaves
\* the session without one.
SendCommitment(p, s) ==
  IF ~s.commitmentSent /\ Cardinality(CoinsFor(s, p)) = N
    THEN IF s.prepared /\ AuditsVerify[p][setup.entropy[p]]
           THEN [s EXCEPT !.prepared = FALSE, !.commitmentSent = TRUE,
                  !.outbound = Append(@, Commitment(p, setup.entropy[p], CoinsFor(s, p)))]
           ELSE [s EXCEPT !.prepared = FALSE]
    ELSE s

Advance(p, s) == SendCommitment(p, SendCoins(p, s))

(***************************************************************************)
(* handle_broadcast and handle_private of a message they accept.           *)
(***************************************************************************)
Dealers(s) == {s.precommitments[k].from : k \in DOMAIN s.precommitments}

\* (Mutant: also one that was seen.)
InsertPrecommitmentAgain(s, m) == m.kind = "precommitment"
InsertPrecommitment(s, m) ==
  /\ m.kind = "precommitment"
  /\ m.from \notin Dealers(s)

\* (Mutant: each party is heard once, for one label.)
InsertCoinOfAnyLabel(s, m) ==
  /\ m.kind = "coin"
  /\ m.label \in Dealers(s)
  /\ \A seen \in s.coins : seen.from # m.from
InsertCoin(s, m) ==
  /\ m.kind = "coin"
  /\ m.label \in Dealers(s)
  /\ \A seen \in s.coins : ~(seen.from = m.from /\ seen.label = m.label)

InsertCommitment(s, m) ==
  /\ m.kind = "commitment"
  /\ m.from \in Dealers(s)
  /\ \A seen \in s.commitments : seen.from # m.from

InsertPrivate(p, s, m) ==
  /\ m.kind = "private" /\ m.to = p
  /\ \A seen \in s.deliveries : seen.from # m.from

Handle(p, s) ==
  /\ session[p].status = "running"
  /\ session' = [session EXCEPT ![p] = Advance(p, s)]
  /\ UNCHANGED <<setup, channel, outputs, losses>>

HandlePrecommitment(p, m) ==
  /\ InsertPrecommitment(session[p], m)
  /\ Handle(p, [session[p] EXCEPT !.precommitments = Append(@, m)])

HandleCoin(p, m) ==
  /\ InsertCoin(session[p], m)
  /\ Handle(p, [session[p] EXCEPT !.coins = @ \cup {m}])

HandleCommitment(p, m) ==
  /\ InsertCommitment(session[p], m)
  /\ Handle(p, [session[p] EXCEPT !.commitments = @ \cup {m}])

HandlePrivate(p, m) ==
  /\ InsertPrivate(p, session[p], m)
  /\ Handle(p, [session[p] EXCEPT !.deliveries = @ \cup {m}])

HandleMessage(p) ==
  \E m \in channel :
    HandlePrecommitment(p, m) \/ HandleCoin(p, m) \/ HandleCommitment(p, m) \/ HandlePrivate(p, m)

Accepts(p, m) ==
  LET s == session[p]
  IN  InsertPrecommitment(s, m) \/ InsertCoin(s, m) \/ InsertCommitment(s, m) \/ InsertPrivate(p, s, m)

(***************************************************************************)
(* finish consumes the session, whatever it returns.                       *)
(***************************************************************************)
Complete(s) ==
  /\ s.outbound = <<>>
  /\ HasAllPrecommitments(s)
  /\ Cardinality(s.commitments) = N
  /\ Cardinality(s.deliveries) = N

FinishEarly(p) ==
  /\ session[p].status = "running"
  /\ ~Complete(Advance(p, session[p]))
  /\ Lose(p)
  /\ session' = [session EXCEPT ![p] = NotRunning("none")]
  /\ UNCHANGED <<setup, channel, outputs>>

\* A delivery that does not verify becomes a complaint, which nobody else hears of,
\* and resolve_complaints turns any complaint into an error.
Output(p, s) ==
  [share |-> NonceShare(setup.entropy[p], p), evidence |-> s.commitments]

Finish(p) ==
  /\ session[p].status = "running"
  /\ Complete(Advance(p, session[p]))
  /\ session' = [session EXCEPT ![p] = NotRunning("over")]
  /\ outputs' = IF \A m \in session[p].deliveries : Verifies[m]
                  THEN [outputs EXCEPT ![p] = @ \cup {Output(p, session[p])}]
                  ELSE outputs
  /\ UNCHANGED <<setup, channel, losses>>

\* A crash comes between the messages that the application takes, or at any other time.
Crash(p) ==
  /\ session[p].status = "running"
  /\ Lose(p)
  /\ \E k \in 0 .. Len(session[p].outbound) :
       channel' = channel \cup ToSet(SubSeq(session[p].outbound, 1, k))
  /\ session' = [session EXCEPT ![p] = NotRunning("none")]
  /\ UNCHANGED <<setup, outputs>>

Next ==
  \E p \in Parties :
    \/ Start(p) \/ TakeOutbound(p) \/ HandleMessage(p)
    \/ FinishEarly(p) \/ Finish(p) \/ Crash(p)

Spec == Init /\ [][Next]_vars

(***************************************************************************)
(* Properties.                                                             *)
(***************************************************************************)

\* A coin is on the broadcast only when nobody can choose his dealing any more,
\* and what is committed to afterwards is what was bound before, under the coins
\* that were broadcast: also when sessions were lost and started again.
CoinsComeLate ==
  /\ \A m \in channel : m.kind = "coin" =>
       \A d \in Parties : \E n \in channel : n.kind = "precommitment" /\ n.from = d
  /\ \A m \in channel : m.kind = "commitment" =>
       /\ Precommitment(m.from, m.deal) \in channel
       /\ m.coins \subseteq channel
       /\ {c.from : c \in m.coins} = Parties

\* A party that was started again repeats itself: there is one message for each
\* place in the protocol.
SaysOneThing ==
  \A m, n \in channel :
    (m.kind = n.kind /\ m.from = n.from
      /\ (m.kind = "coin" => m.label = n.label) /\ (m.kind = "private" => m.to = n.to)) => m = n

BoundBeforeCoin == CoinsComeLate /\ SaysOneThing

DealOf(evidence, d) == (CHOOSE m \in evidence : m.from = d).deal

\* The nonce of some evidence: the member of the nonce interval that is the sum of
\* the certified contributions.
IsNonceOf(y, evidence) ==
  (y + Gamma1 - 1 - SumOver([d \in Parties |-> Residue(DealOf(evidence, d), d)]))
     % (2 * Gamma1) = 0

\* Parties that finish hold the same evidence: the commitments of all, also of those who
\* were started again between.
OneEvidence ==
  \A p, q \in Parties : \A o \in outputs[p], w \in outputs[q] : o.evidence = w.evidence

\* And they hold shares of one sharing, of the nonce that the certified contributions add
\* up to.
\* local.rs 2050: "The final nonce secret coefficient is:
\* y = (sum_i u_i mod 2*gamma1) - (gamma1 - 1)".
CertifiedNonce ==
  LET all == UNION {outputs[p] : p \in Parties}
  IN  /\ OneEvidence
      /\ \A o \in all :
           \E y \in 1 - Gamma1 .. Gamma1 :
             /\ IsNonceOf(y, o.evidence)
             /\ \E masks \in [1 .. Threshold - 1 -> 0 .. Q - 1] :
                  \A p \in Parties : \A w \in outputs[p] : w.share = Eval(<<y % Q>> \o masks, p)

\* Nothing is left to do: no session to be started or finished, nothing to send, and
\* no message that would be accepted.
Quiet ==
  \A p \in Parties :
    /\ session[p].status # "none"
    /\ session[p].outbound = <<>>
    /\ session[p].status = "running" =>
         ~Complete(session[p]) /\ \A m \in channel : ~Accepts(p, m)

\* When every delivery arrives as it was dealt, nobody is ever stuck: where nothing is
\* left to do, everybody has his share.  A coin that was refused because it came before
\* its precommitment is accepted later, past losses and in every order.
QuietIsFinished ==
  Quiet /\ setup.wrong = {} => \A p \in Parties : outputs[p] # {}
=============================================================================
