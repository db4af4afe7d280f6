------------------------------ MODULE DkgProofs ------------------------------
(***************************************************************************)
(* Proofs about the two modules of the DKG, in two parts.                  *)
(*                                                                         *)
(* DkgSession, for all parties, residues and vectors, and any number of    *)
(* crashes and failed appends: nothing is released before what binds it,   *)
(* and nobody is complete, or passes the release gate, with a check        *)
(* missing.  SessionInv says what a disk holds whenever it may be cut, that *)
(* a process stands behind the rounds its disk holds whole, and that       *)
(* nobody has heard anything that is not in the log of its sender.         *)
(*                                                                         *)
(* Power2Round, for every modulus 2^Width - 2^Low + 1 and every secret and *)
(* mask below it: what the driver has moved on is in the log, and t1 is    *)
(* the high part of t with good masks, or with whatever masks when the     *)
(* assertions pass.  ValueInv says what every phase in the log gives and   *)
(* every handle stands for, and PathInv what must have been driven before  *)
(* it; the rest is arithmetic.                                             *)
(***************************************************************************)
EXTENDS DkgSession, Power2Round, FiniteSetTheorems, SequenceTheorems, WellFoundedInduction, TLAPS

-----------------------------------------------------------------------------
(***************************************************************************)
(* I. DkgSession.                                                          *)
(***************************************************************************)

\* The library's induction theorem takes a predicate as an operator; what it rests on,
\* that proper inclusion of finite sets is well founded, does not.
LEMMA SmallestSubset ==
  ASSUME NEW S, IsFiniteSet(S), NEW T, T \subseteq SUBSET S, T # {}
  PROVE  \E X \in T : \A Y \in T : Y \subseteq X => Y = X
<1> DEFINE R == StrictSubsetOrdering(S)
<1>1. \A X, Y \in T : Y \subseteq X /\ Y # X => <<Y, X>> \in R
  BY DEF StrictSubsetOrdering
<1>2. IsWellFoundedOn(R, FiniteSubsetsOf(S))
  BY FS_StrictSubsetOrderingWellFounded
<1>3. T \subseteq FiniteSubsetsOf(S)
  BY FS_Subset DEF FiniteSubsetsOf
<1> HIDE DEF R
<1>4. \E X \in T : \A Y \in T : ~ (<<Y, X>> \in R)
  BY <1>2, <1>3, WFMin
<1>. QED
  BY <1>1, <1>4

\* Induction over the natural numbers, with a set in the place of the predicate.
LEMMA SetInduction ==
  ASSUME NEW S \in SUBSET Nat, 0 \in S, \A n \in S : n + 1 \in S
  PROVE  S = Nat
<1>1. ASSUME NEW x \in Nat \ S PROVE FALSE
  <2> DEFINE T == {0 .. k : k \in (0 .. x) \ S}
  <2>1. 0 .. x \in T /\ T \subseteq SUBSET (0 .. x)
    OBVIOUS
  <2>2. IsFiniteSet(0 .. x)
    BY FS_Interval
  <2>2a. \E X \in T : \A Y \in T : Y \subseteq X => Y = X
    <3>1. PICK box : box = 0 .. x
      OBVIOUS
    <3>2. T # {} /\ T \subseteq SUBSET box /\ IsFiniteSet(box)
      BY <2>1, <2>2, <3>1
    <3> HIDE DEF T
    <3>. QED
      BY <3>2, SmallestSubset
  <2>3. PICK X \in T : \A Y \in T : Y \subseteq X => Y = X
    BY <2>2a
  <2>4. PICK k \in (0 .. x) \ S : X = 0 .. k
    BY <2>3
  <2>5. k # 0 /\ k \in Nat /\ k - 1 \in 0 .. x
    OBVIOUS
  <2>6. k - 1 \notin S
    BY <2>5
  <2>7. 0 .. (k - 1) \in T /\ 0 .. (k - 1) \subseteq 0 .. k
    BY <2>5, <2>6
  <2>8. 0 .. (k - 1) = 0 .. k
    BY <2>3, <2>4, <2>7
  <2>9. k \in 0 .. k /\ k \notin 0 .. (k - 1)
    BY <2>5
  <2>. QED
    BY <2>8, <2>9
<1>. QED
  BY <1>1

(***************************************************************************)
(* Sequences that are built step by step.                                  *)
(***************************************************************************)
LEMMA SeqFacts ==
  ASSUME NEW V, NEW s \in Seq(V)
  PROVE  /\ Len(s) \in Nat /\ DOMAIN s = 1 .. Len(s) /\ s \in [1 .. Len(s) -> V]
         /\ \A n \in 1 .. Len(s) : s[n] \in V
  BY LenProperties, ElementOfSeq

\* A function defined along the numbers: a base, and a step from every value to the next.
Chain(g, n, base, step) == g = [k \in 0 .. n |-> IF k = 0 THEN base ELSE step[<<k, g[k - 1]>>]]

\* There is one for every base and step: the library's theorem on recursive functions takes
\* the step as an operator.
LEMMA ChainExists ==
  ASSUME NEW n \in Nat, NEW V, NEW base \in V, NEW step \in [(1 .. n) \X V -> V]
  PROVE  \E g : g \in [0 .. n -> V] /\ Chain(g, n, base, step)
<1> DEFINE P == {k \in Nat : k <= n => \E g : g \in [0 .. k -> V] /\ Chain(g, k, base, step)}
<1>1. 0 \in P
  <2>1. Chain([k \in 0 .. 0 |-> base], 0, base, step)
    BY DEF Chain
  <2>. QED
    BY <2>1
<1>2. ASSUME NEW k \in P PROVE k + 1 \in P
  <2>1. SUFFICES ASSUME k + 1 <= n
                 PROVE  \E h : h \in [0 .. (k + 1) -> V] /\ Chain(h, k + 1, base, step)
    OBVIOUS
  <2>2. PICK g : g \in [0 .. k -> V] /\ Chain(g, k, base, step)
    BY <2>1
  <2>3. PICK v : v = step[<<k + 1, g[k]>>]
    OBVIOUS
  <2>4. v \in V
    <3>1. k \in 0 .. k /\ k + 1 \in 1 .. n
      BY <2>1
    <3>2. g[k] \in V
      BY <2>2, <3>1
    <3>. QED
      BY <2>3, <3>1, <3>2
  <2> DEFINE h == [j \in 0 .. (k + 1) |-> IF j = k + 1 THEN v ELSE g[j]]
  <2>5. h \in [0 .. (k + 1) -> V]
    BY <2>2, <2>4
  <2>6. \A j \in 0 .. k : h[j] = g[j]
    OBVIOUS
  <2>7. ASSUME NEW j \in 0 .. (k + 1)
        PROVE  h[j] = IF j = 0 THEN base ELSE step[<<j, h[j - 1]>>]
    <3>1. CASE j = k + 1
      <4>1. j # 0 /\ j - 1 = k /\ k \in 0 .. k
        BY <3>1
      <4>2. h[j] = v /\ h[j - 1] = g[k]
        BY <2>6, <3>1, <4>1
      <4>. QED
        BY <2>3, <3>1, <4>1, <4>2
    <3>2. CASE j = 0
      <4>1. j \in 0 .. k /\ h[j] = g[j]
        BY <2>6, <3>2
      <4>2. g[j] = base
        BY <2>2, <3>2, <4>1 DEF Chain
      <4>. QED
        BY <3>2, <4>1, <4>2
    <3>3. CASE j \in 1 .. k
      <4>1. j \in 0 .. k /\ j - 1 \in 0 .. k /\ j # 0
        BY <3>3
      <4>2. h[j] = g[j] /\ h[j - 1] = g[j - 1]
        BY <2>6, <4>1
      <4>3. g[j] = step[<<j, g[j - 1]>>]
        BY <2>2, <4>1 DEF Chain
      <4>. QED
        BY <4>1, <4>2, <4>3
    <3>. QED
      BY <3>1, <3>2, <3>3
  <2>8. h = [j \in 0 .. (k + 1) |-> h[j]]
    BY <2>5
  <2>9. Chain(h, k + 1, base, step)
    <3> HIDE DEF h
    <3>. QED
      BY <2>7, <2>8 DEF Chain
  <2>. QED
    BY <2>5, <2>9
<1>3. P = Nat
  <2> HIDE DEF P
  <2>1. P \in SUBSET Nat
    BY DEF P
  <2>. QED
    BY <1>1, <1>2, <2>1, SetInduction
<1>. QED
  BY <1>3

\* What holds at the start of a chain and is kept by every link holds at its end.
LEMMA ChainInduction ==
  ASSUME NEW n \in Nat, NEW P, 0 \in P, \A k \in 0 .. n : k \in P /\ k < n => k + 1 \in P
  PROVE  n \in P
<1> DEFINE S == {k \in Nat : k <= n => k \in P}
<1>1. 0 \in S /\ \A k \in S : k + 1 \in S
  OBVIOUS
<1>2. S = Nat
  <2> HIDE DEF S
  <2>1. S \in SUBSET Nat
    BY DEF S
  <2>. QED
    BY <1>1, <2>1, SetInduction
<1>. QED
  BY <1>2

(***************************************************************************)
(* The types of what a party keeps.                                        *)
(***************************************************************************)
Number   == (1 .. Shares) \cup {Complaint}
Envelope == [from : Party, round : Number, to : SUBSET Party]
CursorType == [round : 0 .. NResidues, state : {"Sent", "Waiting", "Collected"}, name : SubPhase]

DiskType ==
  [sent : Seq(Envelope), accepted : SUBSET (Party \X (1 .. Shares)), cursor : CursorType,
   passed : SUBSET Required, invalid : SUBSET Party, resolved : BOOLEAN]

ProcessType ==
  [up : BOOLEAN, busy : BOOLEAN, at : Round, sent : BOOLEAN, prepared : BOOLEAN,
   inbox : [Party -> Seq(Number)], outbound : Seq(Envelope)]

StateType ==
  /\ disk \in [Party -> DiskType]
  /\ session \in [Party -> ProcessType]
  /\ link \in [Party -> [Party -> Seq(Number)]]
  /\ refused \subseteq Party
  /\ faults \in 0 .. MaxFaults

(***************************************************************************)
(* What a disk holds, and what follows from it.                            *)
(***************************************************************************)
Has(d, i) == \E m \in ToSet(d.sent) : m.round = i
Whole(d, i) == \A s \in Party : <<s, i>> \in d.accepted
HasDeliveries(p, d) == \A s \in Party \ {p} : <<s, Shares>> \in d.accepted

\* The rounds in which something is checked: all but the residues.
Late == Precommits \cup Coins \cup {Commitments, Audits, Consistency}
WholeBelow(d, i) == \A j \in Late : j < i => Whole(d, j)

\* A cursor of this sub-phase is written when everything below this round is whole.
Reached(c) ==
  CASE c.name \in {"none", "residue", "precommit", "unnamed"} -> 1
    [] c.name = "coin"        -> LastPrecommit + 1
    [] c.name = "commitments" -> Commitments
    [] c.name = "audits"      -> IF c.state = "Collected" THEN Consistency ELSE Commitments
    [] c.name = "consistency" -> Commitments
    [] c.name \in {"shares", "verified", "complaints", "resolution", "certified"} -> Shares

OwnMessages(p, d) == \A m \in ToSet(d.sent) : m \in Mine[p]

CursorIsEarned(d) ==
  /\ WholeBelow(d, Reached(d.cursor))
  /\ d.cursor.name = "residue" => d.cursor.round # 0
  /\ d.cursor.name = "certified" => d.resolved

BoundFirst(d) ==
  /\ (\E i \in Coins : Has(d, i)) => WholeBelow(d, LastPrecommit + 1)
  /\ Has(d, Shares) => /\ \A i \in {Commitments, Audits, Consistency} : Has(d, i)
                       /\ WholeBelow(d, Commitments)

ResolvedIsWhole(p, d) ==
  /\ d.resolved => HasDeliveries(p, d) /\ d.invalid = {} /\ WholeBelow(d, Shares)
  /\ "certified" \in d.passed => d.resolved
  /\ p \notin d.invalid
  /\ \A s \in d.invalid : <<s, Shares>> \in d.accepted

SoundDisk(p, d) ==
  OwnMessages(p, d) /\ CursorIsEarned(d) /\ BoundFirst(d) /\ ResolvedIsWhole(p, d)

\* A session is behind the rounds its disk holds whole, and has queued what the disk holds.
SoundProcess(d, me) ==
  /\ me.busy => me.up
  /\ me.up => /\ WholeBelow(d, me.at)
              /\ me.at = SetupComplete => d.resolved
  /\ ToSet(me.outbound) \subseteq ToSet(d.sent)

\* Nobody has heard anything of s that is not in the log of s.
Heard(p, s) ==
  /\ \A i \in ToSet(link[s][p]) \cup ToSet(session[p].inbox[s]) : Has(disk[s], i)
  /\ \A i \in 1 .. Shares : <<s, i>> \in disk[p].accepted => Has(disk[s], i)

SessionInv ==
  /\ StateType
  /\ \A p \in Party : SoundDisk(p, disk[p]) /\ SoundProcess(disk[p], session[p])
  /\ \A p, s \in Party : Heard(p, s)

(***************************************************************************)
(* Writes: what a disk holds when the first k of them are on it.           *)
(***************************************************************************)
Write == [op : {"send"}, msg : Envelope] \cup [op : {"accept"}, msg : Party \X (1 .. Shares)]
           \cup [op : {"cursor"}, msg : CursorType] \cup [op : {"invalid"}, msg : Party]
           \cup [op : {"resolve"}, msg : {0}]

Written1(w, d, e) ==
  /\ \A m : m \in ToSet(e.sent) <=> m \in ToSet(d.sent) \/ (w.op = "send" /\ w.msg = m)
  /\ \A a : a \in e.accepted <=> \/ a \in d.accepted
                                 \/ w.op = "accept" /\ w.msg = a
                                 \/ w.op = "invalid" /\ a = <<w.msg, Shares>>
  /\ \A s : s \in e.invalid <=> s \in d.invalid \/ (w.op = "invalid" /\ w.msg = s)
  /\ e.resolved <=> d.resolved \/ w.op = "resolve"
  /\ \A x : x \in e.passed <=> x \in d.passed \/ (w.op = "cursor" /\ x \in PassedBy(w.msg))
  /\ e.cursor = d.cursor \/ (w.op = "cursor" /\ w.msg = e.cursor)

SentIn(ws, k, m)     == \E n \in 1 .. k : ws[n].op = "send" /\ ws[n].msg = m
AcceptedIn(ws, k, a) ==
  \E n \in 1 .. k : \/ ws[n].op = "accept" /\ ws[n].msg = a
                    \/ ws[n].op = "invalid" /\ a = <<ws[n].msg, Shares>>
InvalidIn(ws, k, s)  == \E n \in 1 .. k : ws[n].op = "invalid" /\ ws[n].msg = s
ResolvedIn(ws, k)    == \E n \in 1 .. k : ws[n].op = "resolve"
PassedIn(ws, k, x)   == \E n \in 1 .. k : ws[n].op = "cursor" /\ x \in PassedBy(ws[n].msg)
CursorIn(ws, k, c)   == \E n \in 1 .. k : ws[n].op = "cursor" /\ ws[n].msg = c

Effect(d, e, ws, k) ==
  /\ \A m : m \in ToSet(e.sent) <=> m \in ToSet(d.sent) \/ SentIn(ws, k, m)
  /\ \A a : a \in e.accepted <=> a \in d.accepted \/ AcceptedIn(ws, k, a)
  /\ \A s : s \in e.invalid <=> s \in d.invalid \/ InvalidIn(ws, k, s)
  /\ e.resolved <=> d.resolved \/ ResolvedIn(ws, k)
  /\ \A x : x \in e.passed <=> x \in d.passed \/ PassedIn(ws, k, x)
  /\ e.cursor = d.cursor \/ CursorIn(ws, k, e.cursor)

\* The rounds follow each other as numbers, and every kind of round exists.
LEMMA RoundFacts ==
  /\ NResidues \in Nat /\ NResidues >= 1 /\ LastPrecommit \in Nat /\ LastPrecommit > NResidues
  /\ Commitments \in Nat /\ Commitments > LastPrecommit + 1
  /\ Audits = Commitments + 1 /\ Consistency = Commitments + 2 /\ Shares = Commitments + 3
  /\ SetupComplete = Commitments + 4 /\ Complaint = Commitments + 5
<1>1. Cardinality(Party) \in Nat /\ Cardinality(Party) > 1 /\ NVectors \in Nat /\ NVectors >= 1
  BY SetupAssumption, FS_CardinalityType
<1>2. NVectors * Cardinality(Party) \in Nat /\ NVectors * Cardinality(Party) >= 1
  <2>1. \A a, b \in Nat : a >= 1 /\ b >= 1 => a * b \in Nat /\ a * b >= 1
    BY SMT
  <2>. QED
    BY <1>1, <2>1
<1>3. \A x \in Nat : x = NVectors * Cardinality(Party) => x >= 1
  BY <1>2
<1>4. PICK x \in Nat : x = NVectors * Cardinality(Party) /\ x >= 1
  BY <1>2
<1>5. LastPrecommit = NResidues + NVectors /\ Commitments = LastPrecommit + x + 1
  BY <1>4 DEF LastPrecommit, Commitments
<1>. QED
  BY <1>1, <1>4, <1>5, SetupAssumption DEF Audits, Consistency, Shares, SetupComplete, Complaint

\* What is in a sequence after an append.
LEMMA AppendSet ==
  ASSUME NEW V, NEW s \in Seq(V), NEW v \in V
  PROVE  Append(s, v) \in Seq(V) /\ \A m : m \in ToSet(Append(s, v)) <=> m \in ToSet(s) \/ m = v
<1>1. Append(s, v) \in Seq(V) /\ Len(Append(s, v)) = Len(s) + 1
      /\ \A i \in 1 .. Len(s) : Append(s, v)[i] = s[i]
      /\ Append(s, v)[Len(s) + 1] = v
  BY AppendProperties
<1>2. DOMAIN s = 1 .. Len(s) /\ Len(s) \in Nat /\ DOMAIN Append(s, v) = 1 .. (Len(s) + 1)
  BY <1>1, SeqFacts
<1>3. 1 .. (Len(s) + 1) = (1 .. Len(s)) \cup {Len(s) + 1}
  BY <1>2
<1>. QED
  BY <1>1, <1>2, <1>3 DEF ToSet

\* A single write does to a disk what Written1 says.
LEMMA WrittenFacts ==
  ASSUME NEW d \in DiskType, NEW w \in Write
  PROVE  Written(d, w) \in DiskType /\ Written1(w, d, Written(d, w))
<1>0. /\ d.sent \in Seq(Envelope) /\ d.accepted \in SUBSET (Party \X (1 .. Shares))
      /\ d.cursor \in CursorType /\ d.passed \in SUBSET Required
      /\ d.invalid \in SUBSET Party /\ d.resolved \in BOOLEAN
  BY DEF DiskType
<1>1. CASE w \in [op : {"send"}, msg : Envelope]
  <2>1. w.op = "send" /\ w.msg \in Envelope
    BY <1>1
  <2>2. CASE w.msg \in ToSet(d.sent)
    <3>1. Written(d, w) = d
      BY <2>1, <2>2 DEF Written
    <3>. QED
      BY <2>1, <2>2, <3>1 DEF Written1
  <2>3. CASE w.msg \notin ToSet(d.sent)
    <3>1. Written(d, w) = [d EXCEPT !.sent = Append(@, w.msg)]
      BY <2>1, <2>3 DEF Written
    <3>2. PICK s \in Seq(Envelope) : s = Append(d.sent, w.msg)
      BY <1>0, <2>1, AppendSet
    <3>3. \A m : m \in ToSet(s) <=> m \in ToSet(d.sent) \/ m = w.msg
      BY <1>0, <2>1, <3>2, AppendSet
    <3>4. Written(d, w) = [d EXCEPT !.sent = s]
      BY <3>1, <3>2
    <3>5. Written(d, w) \in DiskType
      BY <3>4 DEF DiskType
    <3>6. /\ Written(d, w).sent = s /\ Written(d, w).accepted = d.accepted
          /\ Written(d, w).cursor = d.cursor /\ Written(d, w).passed = d.passed
          /\ Written(d, w).invalid = d.invalid /\ Written(d, w).resolved = d.resolved
      BY <3>4 DEF DiskType
    <3>. QED
      BY <2>1, <3>3, <3>5, <3>6 DEF Written1
  <2>. QED
    BY <2>2, <2>3
<1>2. CASE w \in [op : {"accept"}, msg : Party \X (1 .. Shares)]
  <2>1. w.op = "accept" /\ w.msg \in Party \X (1 .. Shares)
    BY <1>2
  <2>2. Written(d, w) = [d EXCEPT !.accepted = @ \cup {w.msg}]
    BY <2>1 DEF Written
  <2>3. Written(d, w) \in DiskType
    BY <2>1, <2>2 DEF DiskType
  <2>4. /\ Written(d, w).sent = d.sent /\ Written(d, w).accepted = d.accepted \cup {w.msg}
        /\ Written(d, w).cursor = d.cursor /\ Written(d, w).passed = d.passed
        /\ Written(d, w).invalid = d.invalid /\ Written(d, w).resolved = d.resolved
    BY <2>2 DEF DiskType
  <2>. QED
    BY <2>1, <2>3, <2>4 DEF Written1
<1>3. CASE w \in [op : {"cursor"}, msg : CursorType]
  <2>1. w.op = "cursor" /\ w.msg \in CursorType
    BY <1>3
  <2>2. Written(d, w) = [d EXCEPT !.cursor = w.msg, !.passed = @ \cup PassedBy(w.msg)]
    BY <2>1 DEF Written
  <2>3. PassedBy(w.msg) \subseteq Required
    BY DEF PassedBy
  <2>4. Written(d, w) \in DiskType
    BY <2>1, <2>2, <2>3 DEF DiskType
  <2>5. /\ Written(d, w).sent = d.sent /\ Written(d, w).accepted = d.accepted
        /\ Written(d, w).cursor = w.msg /\ Written(d, w).passed = d.passed \cup PassedBy(w.msg)
        /\ Written(d, w).invalid = d.invalid /\ Written(d, w).resolved = d.resolved
    BY <2>2 DEF DiskType
  <2>. QED
    BY <2>1, <2>4, <2>5 DEF Written1
<1>4. CASE w \in [op : {"invalid"}, msg : Party]
  <2>1. w.op = "invalid" /\ w.msg \in Party
    BY <1>4
  <2>2. Written(d, w) = [d EXCEPT !.accepted = @ \cup {<<w.msg, Shares>>},
                                  !.invalid = @ \cup {w.msg}]
    BY <2>1 DEF Written
  <2>3. <<w.msg, Shares>> \in Party \X (1 .. Shares)
    BY <2>1, RoundFacts
  <2>4. Written(d, w) \in DiskType
    <3>1. PICK a \in Party \X (1 .. Shares) : a = <<w.msg, Shares>>
      BY <2>3
    <3>2. d.accepted \cup {a} \in SUBSET (Party \X (1 .. Shares))
      BY <1>0
    <3>3. d.invalid \cup {w.msg} \in SUBSET Party
      BY <1>0, <2>1
    <3>4. Written(d, w) = [d EXCEPT !.accepted = @ \cup {a}, !.invalid = @ \cup {w.msg}]
      BY <2>2, <3>1
    <3>. QED
      BY <3>2, <3>3, <3>4 DEF DiskType
  <2>5. /\ Written(d, w).sent = d.sent
        /\ Written(d, w).accepted = d.accepted \cup {<<w.msg, Shares>>}
        /\ Written(d, w).cursor = d.cursor /\ Written(d, w).passed = d.passed
        /\ Written(d, w).invalid = d.invalid \cup {w.msg} /\ Written(d, w).resolved = d.resolved
    BY <2>2 DEF DiskType
  <2>. QED
    BY <2>1, <2>4, <2>5 DEF Written1
<1>5. CASE w \in [op : {"resolve"}, msg : {0}]
  <2>1. w.op = "resolve"
    BY <1>5
  <2>2. Written(d, w) = [d EXCEPT !.resolved = TRUE]
    BY <2>1 DEF Written
  <2>3. Written(d, w) \in DiskType
    BY <2>2 DEF DiskType
  <2>4. /\ Written(d, w).sent = d.sent /\ Written(d, w).accepted = d.accepted
        /\ Written(d, w).cursor = d.cursor /\ Written(d, w).passed = d.passed
        /\ Written(d, w).invalid = d.invalid /\ Written(d, w).resolved = TRUE
    BY <2>2 DEF DiskType
  <2>. QED
    BY <2>1, <2>3, <2>4 DEF Written1
<1>. QED
  BY <1>1, <1>2, <1>3, <1>4, <1>5 DEF Write

\* One write more adds its own effect to that of the writes before it.
LEMMA EffectStep ==
  ASSUME NEW d \in DiskType, NEW e \in DiskType, NEW ws \in Seq(Write), NEW k \in Nat,
         k < Len(ws), Effect(d, e, ws, k)
  PROVE  LET f == Written(e, ws[k + 1]) IN f \in DiskType /\ Effect(d, f, ws, k + 1)
<1>1. ws[k + 1] \in Write
  BY SeqFacts
<1>2. PICK f : f = Written(e, ws[k + 1])
  OBVIOUS
<1>3. f \in DiskType /\ Written1(ws[k + 1], e, f)
  BY <1>1, <1>2, WrittenFacts
<1>4. 1 .. (k + 1) = (1 .. k) \cup {k + 1}
  OBVIOUS
<1>5. PICK w : w = ws[k + 1]
  OBVIOUS
<1>6. /\ \A m : SentIn(ws, k + 1, m) <=> SentIn(ws, k, m) \/ (w.op = "send" /\ w.msg = m)
      /\ \A s : InvalidIn(ws, k + 1, s) <=> InvalidIn(ws, k, s) \/ (w.op = "invalid" /\ w.msg = s)
      /\ ResolvedIn(ws, k + 1) <=> ResolvedIn(ws, k) \/ w.op = "resolve"
      /\ \A x : PassedIn(ws, k + 1, x) <=>
                  PassedIn(ws, k, x) \/ (w.op = "cursor" /\ x \in PassedBy(w.msg))
      /\ \A c : CursorIn(ws, k + 1, c) <=> CursorIn(ws, k, c) \/ (w.op = "cursor" /\ w.msg = c)
  BY <1>4, <1>5, Zenon DEF SentIn, InvalidIn, ResolvedIn, PassedIn, CursorIn
<1>7. \A a : AcceptedIn(ws, k + 1, a) <=>
               \/ AcceptedIn(ws, k, a)
               \/ w.op = "accept" /\ w.msg = a
               \/ w.op = "invalid" /\ a = <<w.msg, Shares>>
  BY <1>4, <1>5 DEF AcceptedIn
<1>8. Effect(d, f, ws, k + 1)
  BY <1>3, <1>5, <1>6, <1>7, Zenon DEF Effect, Written1
<1>. QED
  BY <1>2, <1>3, <1>8

\* What WrittenTo does, by induction over the writes.
LEMMA WrittenToFacts ==
  ASSUME NEW d \in DiskType, NEW ws \in Seq(Write)
  PROVE  WrittenTo(d, ws) \in DiskType /\ Effect(d, WrittenTo(d, ws), ws, Len(ws))
<1> DEFINE step == [x \in (1 .. Len(ws)) \X DiskType |-> Written(x[2], ws[x[1]])]
           Table(g) == g = [k \in 0 .. Len(ws) |-> IF k = 0 THEN d ELSE Written(g[k - 1], ws[k])]
<1>1. Len(ws) \in Nat /\ \A k \in 1 .. Len(ws) : ws[k] \in Write
  BY SeqFacts
<1>2. step \in [(1 .. Len(ws)) \X DiskType -> DiskType]
  BY <1>1, WrittenFacts
<1>3. PICK g : g \in [0 .. Len(ws) -> DiskType] /\ Chain(g, Len(ws), d, step)
  <2> HIDE DEF step
  <2>. QED
    BY <1>1, <1>2, ChainExists
<1>4. Table(g)
  <2>1. \A k \in 0 .. Len(ws) : k # 0 => k \in 1 .. Len(ws) /\ k - 1 \in 0 .. Len(ws)
    BY <1>1
  <2>2. \A k \in 0 .. Len(ws) : k # 0 => step[<<k, g[k - 1]>>] = Written(g[k - 1], ws[k])
    BY <1>3, <2>1
  <2> HIDE DEF step
  <2>. QED
    BY <1>3, <2>2 DEF Chain
<1>5. PICK h : Table(h) /\ WrittenTo(d, ws) = h[Len(ws)]
  <2>1. WrittenTo(d, ws) = (CHOOSE x : Table(x))[Len(ws)]
    BY DEF WrittenTo
  <2> HIDE DEF Table
  <2>. QED
    BY <1>4, <2>1
<1>6. h[0] = d /\ \A k \in 0 .. Len(ws) : k < Len(ws) => h[k + 1] = Written(h[k], ws[k + 1])
  <2>1. 0 \in 0 .. Len(ws)
    BY <1>1
  <2>2. \A k \in 0 .. Len(ws) : k < Len(ws) =>
           k + 1 \in 0 .. Len(ws) /\ k + 1 # 0 /\ (k + 1) - 1 = k
    BY <1>1
  <2>. QED
    BY <1>5, <2>1, <2>2
<1> HIDE DEF step, Table
<1> DEFINE P == {k \in 0 .. Len(ws) : h[k] \in DiskType /\ Effect(d, h[k], ws, k)}
<1>7. 0 \in P
  <2>1. 0 \in 0 .. Len(ws)
    BY <1>1
  <2>2. Effect(d, d, ws, 0)
    <3>1. \A n \in 1 .. 0 : FALSE
      OBVIOUS
    <3>. QED
      BY <3>1, Zenon DEF Effect, SentIn, AcceptedIn, InvalidIn, ResolvedIn, PassedIn, CursorIn
  <2>. QED
    BY <1>6, <2>1, <2>2
<1>8. ASSUME NEW k \in 0 .. Len(ws), k \in P, k < Len(ws) PROVE k + 1 \in P
  <2>1. k + 1 \in 0 .. Len(ws) /\ k \in Nat
    BY <1>1, <1>8
  <2>2. PICK e \in DiskType : e = h[k] /\ Effect(d, e, ws, k)
    BY <1>8
  <2>3. PICK f : f = Written(e, ws[k + 1])
    OBVIOUS
  <2>4. f \in DiskType /\ Effect(d, f, ws, k + 1)
    BY <1>8, <2>1, <2>2, <2>3, EffectStep
  <2>5. f = h[k + 1]
    BY <1>6, <1>8, <2>2, <2>3
  <2>. QED
    BY <2>1, <2>4, <2>5
<1>9. Len(ws) \in P
  <2> HIDE DEF P
  <2>. QED
    BY <1>1, <1>7, <1>8, ChainInduction
<1>. QED
  BY <1>5, <1>9

(***************************************************************************)
(* What is sent along the way, and what of it goes to a party.             *)
(***************************************************************************)
Filtered(g, n, kept, value) ==
  g = [k \in 0 .. n |-> IF k = 0 THEN <<>>
                        ELSE IF k \in kept THEN Append(g[k - 1], value[k]) ELSE g[k - 1]]

Holds(s, kept, value) == \A m : m \in ToSet(s) <=> \E k \in kept : value[k] = m

\* A subsequence built along the numbers exists ...
LEMMA FilterExists ==
  ASSUME NEW n \in Nat, NEW V, NEW kept \in SUBSET (1 .. n), NEW value,
         \A k \in kept : value[k] \in V
  PROVE  \E g : Filtered(g, n, kept, value)
<1> DEFINE step == [x \in (1 .. n) \X Seq(V) |->
                      IF x[1] \in kept THEN Append(x[2], value[x[1]]) ELSE x[2]]
<1>1. step \in [(1 .. n) \X Seq(V) -> Seq(V)]
  <2>1. \A k \in 1 .. n, s \in Seq(V) : k \in kept => Append(s, value[k]) \in Seq(V)
    BY AppendSet
  <2>. QED
    BY <2>1
<1>2. <<>> \in Seq(V)
  BY EmptySeq
<1>3. PICK g : g \in [0 .. n -> Seq(V)] /\ Chain(g, n, <<>>, step)
  <2> HIDE DEF step
  <2>. QED
    BY <1>1, <1>2, ChainExists
<1>4. \A k \in 0 .. n : k # 0 => k \in 1 .. n /\ k - 1 \in 0 .. n
  OBVIOUS
<1>5. \A k \in 0 .. n : k # 0 =>
        step[<<k, g[k - 1]>>] = IF k \in kept THEN Append(g[k - 1], value[k]) ELSE g[k - 1]
  BY <1>3, <1>4
<1> HIDE DEF step
<1>. QED
  BY <1>3, <1>5 DEF Chain, Filtered

\* ... and holds the values of the places that are kept, no others.
LEMMA FilterFacts ==
  ASSUME NEW n \in Nat, NEW V, NEW kept \in SUBSET (1 .. n), NEW value,
         \A k \in kept : value[k] \in V, NEW g, Filtered(g, n, kept, value)
  PROVE  g[n] \in Seq(V) /\ Holds(g[n], kept, value)
<1>1. g[0] = <<>>
  BY DEF Filtered
<1>2. ASSUME NEW k \in 0 .. n, k < n
      PROVE  g[k + 1] = IF k + 1 \in kept THEN Append(g[k], value[k + 1]) ELSE g[k]
  <2>1. k + 1 \in 0 .. n /\ k + 1 # 0 /\ (k + 1) - 1 = k
    BY <1>2
  <2>. QED
    BY <2>1 DEF Filtered
<1> DEFINE Upto(k, s) == s \in Seq(V) /\ \A m : m \in ToSet(s) <=> \E j \in kept : j <= k /\ value[j] = m
           P == {k \in 0 .. n : Upto(k, g[k])}
<1>3. 0 \in P
  <2>1. <<>> \in Seq(V) /\ ToSet(<<>>) = {}
    BY EmptySeq DEF ToSet
  <2>2. \A j \in kept : ~ (j <= 0)
    OBVIOUS
  <2>3. Upto(0, g[0])
    BY <1>1, <2>1, <2>2
  <2>4. 0 \in 0 .. n
    OBVIOUS
  <2> HIDE DEF Upto
  <2>. QED
    BY <2>3, <2>4
<1>4. ASSUME NEW k \in 0 .. n, k \in P, k < n PROVE k + 1 \in P
  <2>1. Upto(k, g[k])
    BY <1>4
  <2>2. \A j \in kept : j <= k + 1 <=> j <= k \/ j = k + 1
    OBVIOUS
  <2>3. CASE k + 1 \in kept
    <3>1. /\ g[k + 1] = Append(g[k], value[k + 1]) /\ value[k + 1] \in V
          /\ g[k] \in Seq(V)
      BY <1>2, <1>4, <2>1, <2>3
    <3>2. /\ g[k + 1] \in Seq(V)
          /\ \A m : m \in ToSet(g[k + 1]) <=> m \in ToSet(g[k]) \/ m = value[k + 1]
      BY <3>1, AppendSet
    <3>3. Upto(k + 1, g[k + 1])
      BY <2>1, <2>2, <2>3, <3>2
    <3>. QED
      BY <1>4, <3>3
  <2>4. CASE k + 1 \notin kept
    <3>1. g[k + 1] = g[k]
      BY <1>2, <1>4, <2>4
    <3>2. Upto(k + 1, g[k + 1])
      BY <2>1, <2>2, <2>4, <3>1
    <3>. QED
      BY <1>4, <3>2
  <2>. QED
    BY <2>3, <2>4
<1>5. n \in P
  <2> HIDE DEF P
  <2>. QED
    BY <1>3, <1>4, ChainInduction
<1>. QED
  BY <1>5 DEF Holds

\* An iteration queues the messages of its send writes, no others.
LEMMA SendsFacts ==
  ASSUME NEW ws \in Seq(Write)
  PROVE  /\ Sends(ws) \in Seq(Envelope)
         /\ \A m : m \in ToSet(Sends(ws)) <=>
              \E n \in 1 .. Len(ws) : ws[n].op = "send" /\ ws[n].msg = m
<1> DEFINE kept == {n \in 1 .. Len(ws) : ws[n].op = "send"}
           value == [n \in 1 .. Len(ws) |-> ws[n].msg]
           Table(g) == g = [k \in 0 .. Len(ws) |->
                              IF k = 0 THEN <<>>
                              ELSE IF ws[k].op = "send" THEN Append(g[k - 1], ws[k].msg)
                                   ELSE g[k - 1]]
<1>1. Len(ws) \in Nat /\ \A n \in 1 .. Len(ws) : ws[n] \in Write
  BY SeqFacts
<1>2. \A n \in kept : value[n] \in Envelope
  <2>1. \A w \in Write : w.op = "send" => w.msg \in Envelope
    BY DEF Write
  <2>. QED
    BY <1>1, <2>1
<1>3. \A k \in 0 .. Len(ws) : k # 0 => /\ k \in kept <=> ws[k].op = "send"
                                       /\ value[k] = ws[k].msg
  BY <1>1
<1>4. \A g : Table(g) <=> Filtered(g, Len(ws), kept, value)
  <2> SUFFICES ASSUME NEW g PROVE Table(g) <=> Filtered(g, Len(ws), kept, value)
    OBVIOUS
  <2> DEFINE a == [k \in 0 .. Len(ws) |->
                              IF k = 0 THEN <<>>
                              ELSE IF ws[k].op = "send" THEN Append(g[k - 1], ws[k].msg)
                                   ELSE g[k - 1]]
             b == [k \in 0 .. Len(ws) |->
                     IF k = 0 THEN <<>>
                     ELSE IF k \in kept THEN Append(g[k - 1], value[k]) ELSE g[k - 1]]
  <2>1. a = b
    <3> HIDE DEF kept, value
    <3>. QED
      BY <1>3
  <2>. QED
    BY <2>1 DEF Filtered
<1>5. kept \in SUBSET (1 .. Len(ws))
  OBVIOUS
<1>6. Sends(ws) = (CHOOSE g : Table(g))[Len(ws)]
  BY DEF Sends
<1>7. \A m : (\E k \in kept : value[k] = m) <=>
               \E n \in 1 .. Len(ws) : ws[n].op = "send" /\ ws[n].msg = m
  OBVIOUS
<1> HIDE DEF kept, value, Table
<1>8. PICK g : Filtered(g, Len(ws), kept, value)
  BY <1>1, <1>2, <1>5, FilterExists
<1>9. PICK h : Table(h) /\ Sends(ws) = h[Len(ws)]
  BY <1>4, <1>6, <1>8
<1>10. Filtered(h, Len(ws), kept, value)
  BY <1>4, <1>9
<1>11. h[Len(ws)] \in Seq(Envelope)
       /\ \A m : m \in ToSet(h[Len(ws)]) <=> \E k \in kept : value[k] = m
  <2>1. PICK n \in Nat : n = Len(ws)
    BY <1>1
  <2>2. PICK V : V = Envelope
    OBVIOUS
  <2>3. kept \in SUBSET (1 .. n) /\ (\A k \in kept : value[k] \in V) /\ Filtered(h, n, kept, value)
    BY <1>2, <1>5, <1>10, <2>1, <2>2
  <2>4. h[n] \in Seq(V)
    BY <2>3, FilterFacts
  <2>5. Holds(h[n], kept, value)
    BY <2>3, FilterFacts
  <2>. QED
    BY <2>1, <2>2, <2>4, <2>5 DEF Holds
<1>. QED
  BY <1>7, <1>9, <1>11

\* A receiver is given the rounds of the messages that are for it, no others.
LEMMA RoundsToFacts ==
  ASSUME NEW ms \in Seq(Envelope), NEW q
  PROVE  /\ RoundsTo(ms, q) \in Seq(Number)
         /\ \A i : i \in ToSet(RoundsTo(ms, q)) <=>
              \E n \in 1 .. Len(ms) : q \in ms[n].to /\ ms[n].round = i
<1> DEFINE kept == {n \in 1 .. Len(ms) : q \in ms[n].to}
           value == [n \in 1 .. Len(ms) |-> ms[n].round]
           Table(g) == g = [k \in 0 .. Len(ms) |->
                              IF k = 0 THEN <<>>
                              ELSE IF q \in ms[k].to THEN Append(g[k - 1], ms[k].round)
                                   ELSE g[k - 1]]
<1>1. Len(ms) \in Nat /\ \A n \in 1 .. Len(ms) : ms[n] \in Envelope
  BY SeqFacts
<1>2. \A n \in kept : value[n] \in Number
  BY <1>1 DEF Envelope
<1>3. \A k \in 0 .. Len(ms) : k # 0 => /\ k \in kept <=> q \in ms[k].to
                                       /\ value[k] = ms[k].round
  BY <1>1
<1>4. \A g : Table(g) <=> Filtered(g, Len(ms), kept, value)
  <2> SUFFICES ASSUME NEW g PROVE Table(g) <=> Filtered(g, Len(ms), kept, value)
    OBVIOUS
  <2> DEFINE a == [k \in 0 .. Len(ms) |->
                              IF k = 0 THEN <<>>
                              ELSE IF q \in ms[k].to THEN Append(g[k - 1], ms[k].round)
                                   ELSE g[k - 1]]
             b == [k \in 0 .. Len(ms) |->
                     IF k = 0 THEN <<>>
                     ELSE IF k \in kept THEN Append(g[k - 1], value[k]) ELSE g[k - 1]]
  <2>1. a = b
    <3> HIDE DEF kept, value
    <3>. QED
      BY <1>3
  <2>. QED
    BY <2>1 DEF Filtered
<1>5. kept \in SUBSET (1 .. Len(ms))
  OBVIOUS
<1>6. RoundsTo(ms, q) = (CHOOSE g : Table(g))[Len(ms)]
  BY DEF RoundsTo
<1>7. \A m : (\E k \in kept : value[k] = m) <=>
               \E n \in 1 .. Len(ms) : q \in ms[n].to /\ ms[n].round = m
  OBVIOUS
<1> HIDE DEF kept, value, Table
<1>8. PICK g : Filtered(g, Len(ms), kept, value)
  BY <1>1, <1>2, <1>5, FilterExists
<1>9. PICK h : Table(h) /\ RoundsTo(ms, q) = h[Len(ms)]
  BY <1>4, <1>6, <1>8
<1>10. Filtered(h, Len(ms), kept, value)
  BY <1>4, <1>9
<1>11. h[Len(ms)] \in Seq(Number)
       /\ \A m : m \in ToSet(h[Len(ms)]) <=> \E k \in kept : value[k] = m
  <2>1. PICK n \in Nat : n = Len(ms)
    BY <1>1
  <2>2. PICK V : V = Number
    OBVIOUS
  <2>3. kept \in SUBSET (1 .. n) /\ (\A k \in kept : value[k] \in V) /\ Filtered(h, n, kept, value)
    BY <1>2, <1>5, <1>10, <2>1, <2>2
  <2>4. h[n] \in Seq(V)
    BY <2>3, FilterFacts
  <2>5. Holds(h[n], kept, value)
    BY <2>3, FilterFacts
  <2>. QED
    BY <2>1, <2>2, <2>4, <2>5 DEF Holds
<1>. QED
  BY <1>7, <1>9, <1>11

(***************************************************************************)
(* An iteration: some prefix of its writes is on the disk, and its process *)
(* is gone, or where it was, or behind them all.                           *)
(***************************************************************************)
Leaves(ws, k, before, after, me) ==
  /\ \A m \in ToSet(me.outbound) : SentIn(ws, k, m)
  /\ \/ ~me.up /\ ~me.busy /\ me.inbox = NoMessages
     \/ me.up = before.up /\ ~me.busy /\ me.at = before.at /\ me.inbox = before.inbox
     \/ k = Len(ws) /\ me.up = after.up /\ me.busy = after.busy /\ me.at = after.at
        /\ me.inbox = after.inbox

\* The memory of a session that resumes.
LEMMA ProcessFacts ==
  ASSUME NEW i \in Round, NEW sent \in BOOLEAN, NEW ms \in Seq(Envelope)
  PROVE  /\ Process(i, sent, ms) \in ProcessType
         /\ Process(i, sent, ms).up /\ Process(i, sent, ms).at = i
         /\ Process(i, sent, ms).inbox = NoMessages /\ Process(i, sent, ms).outbound = ms
<1>1. NoMessages \in [Party -> Seq(Number)]
  BY EmptySeq DEF NoMessages
<1>. QED
  BY <1>1 DEF Process, ProcessType

\* The memory of a process that is down.
LEMMA DownFacts ==
  Down \in ProcessType /\ ~Down.up /\ ~Down.busy /\ Down.inbox = NoMessages /\ Down.outbound = <<>>
<1>1. 1 \in Round
  BY RoundFacts DEF Round
<1>2. <<>> \in Seq(Envelope)
  BY EmptySeq
<1>3. Process(1, FALSE, <<>>) \in ProcessType /\ Process(1, FALSE, <<>>).inbox = NoMessages
      /\ Process(1, FALSE, <<>>).outbound = <<>>
  BY <1>1, <1>2, ProcessFacts
<1>. QED
  BY <1>3 DEF Down, ProcessType

\* Joining to an empty queue.
LEMMA EmptyPrefix ==
  ASSUME NEW s \in Seq(Envelope)
  PROVE  <<>> \o s = s
  BY ConcatEmptySeq

\* The effect of a prefix of the writes is the effect of the writes so far.
LEMMA EffectOfPrefix ==
  ASSUME NEW d, NEW e, NEW ws, NEW done, NEW k, \A n \in 1 .. k : done[n] = ws[n],
         Effect(d, e, done, k)
  PROVE  Effect(d, e, ws, k)
<1>1. /\ \A m : SentIn(done, k, m) <=> SentIn(ws, k, m)
      /\ \A a : AcceptedIn(done, k, a) <=> AcceptedIn(ws, k, a)
      /\ \A s : InvalidIn(done, k, s) <=> InvalidIn(ws, k, s)
      /\ ResolvedIn(done, k) <=> ResolvedIn(ws, k)
      /\ \A x : PassedIn(done, k, x) <=> PassedIn(ws, k, x)
      /\ \A c : CursorIn(done, k, c) <=> CursorIn(ws, k, c)
  BY DEF SentIn, AcceptedIn, InvalidIn, ResolvedIn, PassedIn, CursorIn
<1>. QED
  BY <1>1, Zenon DEF Effect

\* An iteration leaves a disk on which some prefix of its writes has taken effect: all of
\* them with the memory it meant to leave, or fewer with no memory or the memory from before.
LEMMA PerformFacts ==
  ASSUME NEW p \in Party, disk \in [Party -> DiskType], session \in [Party -> ProcessType],
         faults \in 0 .. MaxFaults, NEW ws \in Seq(Write),
         NEW before \in ProcessType, NEW after \in ProcessType,
         before.outbound = <<>>, after.outbound = <<>>, Perform(p, ws, before, after)
  PROVE  \E k \in 0 .. Len(ws), e \in DiskType, me \in ProcessType :
           /\ Effect(disk[p], e, ws, k)
           /\ Leaves(ws, k, before, after, me)
           /\ disk' = [disk EXCEPT ![p] = e] /\ session' = [session EXCEPT ![p] = me]
           /\ link' = link /\ refused' = refused /\ faults' \in 0 .. MaxFaults
<1>1. Len(ws) \in Nat /\ disk[p] \in DiskType /\ MaxFaults \in Nat
  BY SeqFacts, SetupAssumption
<1>2. link' = link /\ refused' = refused
  BY DEF Perform
<1>3. CASE /\ disk' = [disk EXCEPT ![p] = WrittenTo(@, ws)]
           /\ session' = [session EXCEPT ![p] = [after EXCEPT !.outbound = @ \o Sends(ws)]]
           /\ UNCHANGED faults
  <2>1. PICK e \in DiskType : e = WrittenTo(disk[p], ws) /\ Effect(disk[p], e, ws, Len(ws))
    BY <1>1, WrittenToFacts
  <2>2. PICK out \in Seq(Envelope) : out = Sends(ws)
    BY SendsFacts
  <2>3. \A m \in ToSet(out) : SentIn(ws, Len(ws), m)
    BY <2>2, SendsFacts DEF SentIn
  <2>4. after.outbound \o Sends(ws) = out
    BY <2>2, EmptyPrefix
  <2>5. PICK me : me = [after EXCEPT !.outbound = out]
    OBVIOUS
  <2>6. me \in ProcessType /\ me.outbound = out /\ me.up = after.up /\ me.busy = after.busy
        /\ me.at = after.at /\ me.inbox = after.inbox
    BY <2>5 DEF ProcessType
  <2>7. Leaves(ws, Len(ws), before, after, me)
    BY <2>3, <2>6 DEF Leaves
  <2>8. disk' = [disk EXCEPT ![p] = e] /\ session' = [session EXCEPT ![p] = me]
    BY <1>3, <2>1, <2>4, <2>5
  <2>9. Len(ws) \in 0 .. Len(ws) /\ faults' \in 0 .. MaxFaults
    BY <1>1, <1>3
  <2>. QED
    BY <1>2, <2>1, <2>6, <2>7, <2>8, <2>9
<1>4. CASE \E k \in 0 .. (Len(ws) - 1) :
             LET done == SubSeq(ws, 1, k) IN
             /\ faults < MaxFaults
             /\ faults' = faults + 1
             /\ disk' = [disk EXCEPT ![p] = WrittenTo(@, done)]
             /\ \E left \in {Down, [before EXCEPT !.busy = FALSE,
                                                  !.outbound = @ \o Sends(done)]} :
                  session' = [session EXCEPT ![p] = left]
  <2>1. PICK k \in 0 .. (Len(ws) - 1) :
             /\ faults < MaxFaults
             /\ faults' = faults + 1
             /\ disk' = [disk EXCEPT ![p] = WrittenTo(@, SubSeq(ws, 1, k))]
             /\ \E left \in {Down, [before EXCEPT !.busy = FALSE,
                                                  !.outbound = @ \o Sends(SubSeq(ws, 1, k))]} :
                  session' = [session EXCEPT ![p] = left]
    BY <1>4
  <2>2. PICK done : done = SubSeq(ws, 1, k)
    OBVIOUS
  <2>3. /\ k \in 0 .. Len(ws) /\ done \in Seq(Write) /\ Len(done) = k
        /\ \A n \in 1 .. k : done[n] = ws[n]
    <3>1. k \in Nat /\ 1 \in 1 .. (Len(ws) + 1) /\ k \in 0 .. Len(ws)
      BY <1>1
    <3>2. done \in Seq(Write) /\ Len(done) = k /\ \A n \in 1 .. k : done[n] = ws[n]
      BY <1>1, <2>2, <3>1, SubSeqProperties
    <3>. QED
      BY <3>1, <3>2
  <2>4. PICK e \in DiskType : e = WrittenTo(disk[p], done) /\ Effect(disk[p], e, done, k)
    BY <1>1, <2>3, WrittenToFacts
  <2>5. Effect(disk[p], e, ws, k)
    BY <2>3, <2>4, EffectOfPrefix
  <2>6. PICK out \in Seq(Envelope) : out = Sends(done)
    BY <2>3, SendsFacts
  <2>7. \A m \in ToSet(out) : SentIn(ws, k, m)
    <3>1. \A m \in ToSet(out) : \E n \in 1 .. Len(done) : done[n].op = "send" /\ done[n].msg = m
      BY <2>3, <2>6, SendsFacts
    <3>. QED
      BY <2>3, <3>1 DEF SentIn
  <2>8. before.outbound \o Sends(done) = out
    BY <2>6, EmptyPrefix
  <2>9. PICK me \in {Down, [before EXCEPT !.busy = FALSE, !.outbound = out]} :
          session' = [session EXCEPT ![p] = me]
    BY <2>1, <2>2, <2>8
  <2>10. me \in ProcessType /\ Leaves(ws, k, before, after, me)
    <3>1. CASE me = Down
      <4>1. ToSet(<<>>) = {}
        BY DEF ToSet
      <4>. QED
        BY <3>1, <4>1, DownFacts DEF Leaves
    <3>2. CASE me = [before EXCEPT !.busy = FALSE, !.outbound = out]
      <4>1. me \in ProcessType /\ me.outbound = out /\ me.up = before.up /\ ~me.busy
            /\ me.at = before.at /\ me.inbox = before.inbox
        BY <3>2 DEF ProcessType
      <4>. QED
        BY <2>7, <4>1 DEF Leaves
    <3>. QED
      BY <2>9, <3>1, <3>2
  <2>11. disk' = [disk EXCEPT ![p] = e] /\ faults' \in 0 .. MaxFaults
    BY <1>1, <2>1, <2>2, <2>4
  <2>. QED
    BY <1>2, <2>3, <2>5, <2>9, <2>10, <2>11
<1>. QED
  BY <1>3, <1>4 DEF Perform

(***************************************************************************)
(* A disk only grows, but for its cursor.                                  *)
(***************************************************************************)
LEMMA DiskGrows ==
  ASSUME NEW d, NEW e, NEW ws, NEW k, Effect(d, e, ws, k)
  PROVE  /\ \A i : Has(d, i) => Has(e, i)
         /\ \A i : Whole(d, i) => Whole(e, i)
         /\ \A i : WholeBelow(d, i) => WholeBelow(e, i)
<1>1. \A m : m \in ToSet(d.sent) => m \in ToSet(e.sent)
  BY DEF Effect
<1>2. \A a : a \in d.accepted => a \in e.accepted
  BY DEF Effect
<1>3. \A i : Has(d, i) => Has(e, i)
  BY <1>1 DEF Has
<1>4. \A i : Whole(d, i) => Whole(e, i)
  BY <1>2 DEF Whole
<1>. QED
  BY <1>3, <1>4 DEF WholeBelow

\* What an iteration needs: writes that keep the disk sound wherever they stop, of messages
\* it was given, and a process that stands where the disk lets it.
SafeWrites(p, ws) ==
  /\ ws \in Seq(Write)
  /\ \A n \in 1 .. Len(ws) :
       /\ ws[n].op = "send" => ws[n].msg \in Mine[p]
       /\ ws[n].op = "accept" => Has(disk[ws[n].msg[1]], ws[n].msg[2])
       /\ ws[n].op = "invalid" => Has(disk[ws[n].msg], Shares)
  /\ \A k \in 0 .. Len(ws), e \in DiskType :
       Effect(disk[p], e, ws, k) => CursorIsEarned(e) /\ BoundFirst(e) /\ ResolvedIsWhole(p, e)

SafeProcess(p, me) ==
  /\ me \in ProcessType /\ me.up /\ me.outbound = <<>>
  /\ \A s \in Party : ToSet(me.inbox[s]) \subseteq ToSet(session[p].inbox[s])

\* An iteration keeps the invariant when every disk it may leave behind is sound, and it
\* moves on only behind rounds that its last write has made whole.
LEMMA IterationKeepsInv ==
  ASSUME SessionInv, NEW p \in Party, NEW ws, NEW before, NEW after, SafeWrites(p, ws),
         SafeProcess(p, before), SafeProcess(p, after), before.at = session[p].at,
         session[p].up,
         \A e \in DiskType : Effect(disk[p], e, ws, Len(ws)) =>
           WholeBelow(e, after.at) /\ (after.at = SetupComplete => e.resolved),
         Perform(p, ws, before, after)
  PROVE  SessionInv'
<1>1. /\ disk \in [Party -> DiskType] /\ session \in [Party -> ProcessType]
      /\ link \in [Party -> [Party -> Seq(Number)]]
      /\ faults \in 0 .. MaxFaults /\ refused \subseteq Party
  BY DEF SessionInv, StateType
<1>2. ws \in Seq(Write) /\ before \in ProcessType /\ after \in ProcessType
      /\ before.outbound = <<>> /\ after.outbound = <<>>
  BY DEF SafeWrites, SafeProcess
<1>3. PICK k \in 0 .. Len(ws), e \in DiskType, me \in ProcessType :
        /\ Effect(disk[p], e, ws, k)
        /\ Leaves(ws, k, before, after, me)
        /\ disk' = [disk EXCEPT ![p] = e] /\ session' = [session EXCEPT ![p] = me]
        /\ link' = link /\ refused' = refused /\ faults' \in 0 .. MaxFaults
  BY <1>1, <1>2, PerformFacts
<1>4. disk'[p] = e /\ session'[p] = me
      /\ \A q \in Party \ {p} : disk'[q] = disk[q] /\ session'[q] = session[q]
  BY <1>1, <1>3
<1>5. StateType'
  BY <1>1, <1>3 DEF StateType
<1>6. SoundDisk(p, e)
  <2>1. CursorIsEarned(e) /\ BoundFirst(e) /\ ResolvedIsWhole(p, e)
    BY <1>3 DEF SafeWrites
  <2>2. OwnMessages(p, e)
    <3>1. \A m : m \in ToSet(e.sent) <=> m \in ToSet(disk[p].sent) \/ SentIn(ws, k, m)
      BY <1>3 DEF Effect
    <3>2. \A m \in ToSet(disk[p].sent) : m \in Mine[p]
      BY DEF SessionInv, SoundDisk, OwnMessages
    <3>3. \A n \in 1 .. k : n \in 1 .. Len(ws)
      BY <1>2, <1>3, SeqFacts
    <3>4. \A m : SentIn(ws, k, m) => m \in Mine[p]
      BY <3>3 DEF SafeWrites, SentIn
    <3>. QED
      BY <3>1, <3>2, <3>4 DEF OwnMessages
  <2>. QED
    BY <2>1, <2>2 DEF SoundDisk
<1>7. SoundProcess(e, me)
  <2>1. ToSet(me.outbound) \subseteq ToSet(e.sent)
    BY <1>3 DEF Leaves, Effect
  <2>2. CASE ~me.up /\ ~me.busy
    BY <2>1, <2>2 DEF SoundProcess
  <2>3. CASE me.up = before.up /\ ~me.busy /\ me.at = before.at
    <3>1. WholeBelow(disk[p], me.at) /\ (me.at = SetupComplete => disk[p].resolved)
      BY <2>3 DEF SessionInv, SoundProcess
    <3>2. WholeBelow(e, me.at)
      BY <1>3, <3>1, DiskGrows
    <3>3. disk[p].resolved => e.resolved
      BY <1>3, Zenon DEF Effect
    <3>. QED
      BY <2>1, <2>3, <3>1, <3>2, <3>3 DEF SoundProcess
  <2>4. CASE k = Len(ws) /\ me.up = after.up /\ me.busy = after.busy /\ me.at = after.at
    <3>1. WholeBelow(e, me.at) /\ (me.at = SetupComplete => e.resolved)
      BY <1>3, <2>4
    <3>. QED
      BY <2>1, <2>4, <3>1 DEF SoundProcess, SafeProcess
  <2>. QED
    BY <1>3, <2>2, <2>3, <2>4 DEF Leaves
<1>8. \A q \in Party : SoundDisk(q, disk'[q]) /\ SoundProcess(disk'[q], session'[q])
  BY <1>4, <1>6, <1>7 DEF SessionInv
<1>9. ASSUME NEW q \in Party, NEW s \in Party PROVE Heard(q, s)'
  <2>1. \A i : Has(disk[s], i) => Has(disk'[s], i)
    BY <1>3, <1>4, DiskGrows
  <2>2. ToSet(session'[q].inbox[s]) \subseteq ToSet(session[q].inbox[s])
    <3>1. CASE q = p
      <4>1. \/ me.inbox = NoMessages \/ me.inbox = before.inbox \/ me.inbox = after.inbox
        BY <1>3 DEF Leaves
      <4>2. ToSet(NoMessages[s]) = {}
        BY DEF NoMessages, ToSet
      <4>. QED
        BY <1>4, <3>1, <4>1, <4>2 DEF SafeProcess
    <3>2. CASE q # p
      BY <1>4, <3>2
    <3>. QED
      BY <3>1, <3>2
  <2>3. ASSUME NEW i \in 1 .. Shares, <<s, i>> \in disk'[q].accepted PROVE Has(disk[s], i)
    <3>1. CASE <<s, i>> \in disk[q].accepted
      BY <3>1 DEF SessionInv, Heard
    <3>2. CASE <<s, i>> \notin disk[q].accepted
      <4>1. q = p
        BY <1>4, <2>3, <3>2
      <4>2. AcceptedIn(ws, k, <<s, i>>)
        BY <1>3, <1>4, <2>3, <3>2, <4>1 DEF Effect
      <4>3. \A n \in 1 .. k : n \in 1 .. Len(ws)
        BY <1>2, <1>3, SeqFacts
      <4>4. PICK n \in 1 .. Len(ws) :
              \/ ws[n].op = "accept" /\ ws[n].msg = <<s, i>>
              \/ ws[n].op = "invalid" /\ <<s, i>> = <<ws[n].msg, Shares>>
        BY <4>2, <4>3 DEF AcceptedIn
      <4>. QED
        BY <4>4 DEF SafeWrites
    <3>. QED
      BY <3>1, <3>2
  <2>. QED
    BY <1>3, <2>1, <2>2, <2>3 DEF SessionInv, Heard
<1>. QED
  BY <1>5, <1>8, <1>9 DEF SessionInv

(***************************************************************************)
(* The parts of a sound disk, write by write.                              *)
(***************************************************************************)
\* What each kind of write is.
LEMMA WriteOps ==
  /\ \A m \in Envelope : Send(m) \in Write /\ Send(m).op = "send" /\ Send(m).msg = m
  /\ \A s \in Party, i \in 1 .. Shares :
       AcceptLine(s, i) \in Write /\ AcceptLine(s, i).op = "accept" /\ AcceptLine(s, i).msg = <<s, i>>
  /\ \A c \in CursorType : Mark(c) \in Write /\ Mark(c).op = "cursor" /\ Mark(c).msg = c
  /\ \A s \in Party : /\ AcceptInvalid(s) \in Write /\ AcceptInvalid(s).op = "invalid"
                      /\ AcceptInvalid(s).msg = s
  /\ Resolve \in Write /\ Resolve.op = "resolve"
  BY DEF Write, Send, AcceptLine, Mark, AcceptInvalid, Resolve

\* Everything whole below a round is whole below an earlier one.
LEMMA WholeBelowLess ==
  ASSUME NEW d, NEW i \in Int, NEW j \in Int, i <= j, WholeBelow(d, j)
  PROVE  WholeBelow(d, i)
<1>1. \A n \in Late : n \in Int
  BY RoundFacts DEF Late, Precommits, Coins
<1>. QED
  BY <1>1 DEF WholeBelow

\* A cursor of a round claims at most what is below the round, a collected one the round too;
\* those of the audits and the consistency records claim what is below the commitments.
LEMMA CursorOfFacts ==
  ASSUME NEW i \in 1 .. Consistency, NEW state \in {"Sent", "Waiting", "Collected"}
  PROVE  LET c == CursorOf(i, state) IN
         /\ c \in CursorType /\ c.name # "certified" /\ "certified" \notin PassedBy(c)
         /\ c.name = "residue" => c.round # 0
         /\ Reached(c) \in Int /\ Reached(c) <= i + 1
         /\ state # "Collected" => Reached(c) <= i
         /\ i \in {Audits, Consistency} /\ state # "Collected" => Reached(c) = Commitments
<1> DEFINE c == CursorOf(i, state)
<1>1. CASE i \in Residues
  <2>1. c.round = i /\ c.state = state /\ c.name = "residue" /\ c = Cursor(i, state, "residue")
    <3>1. NameOf(i) = "residue"
      BY <1>1, RoundFacts DEF NameOf, Residues, Precommits, Coins
    <3>. QED
      BY <1>1, <3>1 DEF CursorOf, Cursor
  <2>2. i \in 0 .. NResidues /\ i # 0
    BY <1>1, RoundFacts DEF Residues
  <2>3. Reached(c) = 1
    BY <2>1 DEF Reached
  <2>4. c \in CursorType
    BY <2>1, <2>2 DEF CursorType, SubPhase, Cursor
  <2>. QED
    BY <2>1, <2>2, <2>3, <2>4, RoundFacts DEF PassedBy
<1>2. CASE i \notin Residues
  <2>1. i \in Precommits \cup Coins \cup {Commitments, Audits, Consistency}
    BY <1>2, RoundFacts DEF Residues, Precommits, Coins
  <2>2. c.round = 0 /\ c.state = state /\ c.name = NameOf(i) /\ c = Cursor(0, state, NameOf(i))
    BY <1>2 DEF CursorOf, Cursor
  <2>3. 0 \in 0 .. NResidues
    BY RoundFacts
  <2>4. CASE i \in Precommits
    <3>1. NameOf(i) = "precommit"
      BY <1>2, <2>4, RoundFacts DEF NameOf, Precommits, Coins
    <3>2. Reached(c) = 1
      BY <2>2, <3>1 DEF Reached
    <3>3. i \notin {Audits, Consistency} /\ Reached(c) <= i
      BY <2>4, <3>2, RoundFacts DEF Precommits
    <3>. QED
      BY <2>2, <2>3, <3>1, <3>2, <3>3 DEF PassedBy, CursorType, SubPhase, Cursor
  <2>5. CASE i \in Coins
    <3>1. NameOf(i) = "coin"
      BY <1>2, <2>5, RoundFacts DEF NameOf, Coins, Precommits
    <3>2. Reached(c) = LastPrecommit + 1
      BY <2>2, <3>1 DEF Reached
    <3>. QED
      BY <2>2, <2>3, <2>5, <3>1, <3>2, RoundFacts DEF PassedBy, CursorType, SubPhase, Cursor, Coins
  <2>6. CASE i = Commitments
    <3>1. NameOf(i) = "commitments"
      BY <1>2, <2>6, RoundFacts DEF NameOf, Coins, Precommits
    <3>2. Reached(c) = Commitments
      BY <2>2, <3>1 DEF Reached
    <3>. QED
      BY <2>2, <2>3, <2>6, <3>1, <3>2, RoundFacts DEF PassedBy, CursorType, SubPhase, Cursor
  <2>7. CASE i = Audits
    <3>1. NameOf(i) = "audits"
      BY <1>2, <2>7, RoundFacts DEF NameOf, Coins, Precommits
    <3>2. Reached(c) = IF state = "Collected" THEN Consistency ELSE Commitments
      BY <2>2, <3>1 DEF Reached
    <3>. QED
      BY <2>2, <2>3, <2>7, <3>1, <3>2, RoundFacts DEF PassedBy, CursorType, SubPhase, Cursor
  <2>8. CASE i = Consistency
    <3>1. NameOf(i) = "consistency"
      BY <1>2, <2>8, RoundFacts DEF NameOf, Coins, Precommits
    <3>2. Reached(c) = Commitments
      BY <2>2, <3>1 DEF Reached
    <3>. QED
      BY <2>2, <2>3, <2>8, <3>1, <3>2, RoundFacts DEF PassedBy, CursorType, SubPhase, Cursor
  <2>. QED
    BY <2>1, <2>4, <2>5, <2>6, <2>7, <2>8
<1>. QED
  BY <1>1, <1>2

\* A cursor stays earned when every cursor written is.
LEMMA CursorKept ==
  ASSUME NEW d, NEW e, NEW ws, NEW k, Effect(d, e, ws, k), CursorIsEarned(d),
         \A n \in 1 .. k : ws[n].op = "cursor" =>
           /\ WholeBelow(e, Reached(ws[n].msg))
           /\ ws[n].msg.name = "residue" => ws[n].msg.round # 0
           /\ ws[n].msg.name = "certified" => e.resolved
  PROVE  CursorIsEarned(e)
<1>1. CASE e.cursor = d.cursor
  <2>1. WholeBelow(e, Reached(e.cursor))
    BY <1>1, DiskGrows DEF CursorIsEarned
  <2>2. d.resolved => e.resolved
    BY Zenon DEF Effect
  <2>. QED
    BY <1>1, <2>1, <2>2, Zenon DEF CursorIsEarned
<1>2. CASE CursorIn(ws, k, e.cursor)
  BY <1>2, Zenon DEF CursorIn, CursorIsEarned
<1>. QED
  BY <1>1, <1>2 DEF Effect

\* The order of binding and release is kept by writes that release no coin and no delivery.
LEMMA BoundKept ==
  ASSUME NEW d, NEW e, NEW ws, NEW k, Effect(d, e, ws, k), BoundFirst(d),
         \A n \in 1 .. k : ws[n].op = "send" => ws[n].msg.round \notin Coins \cup {Shares}
  PROVE  BoundFirst(e)
<1>1. \A m : m \in ToSet(e.sent) <=> m \in ToSet(d.sent) \/ SentIn(ws, k, m)
  BY DEF Effect
<1>2. \A m : SentIn(ws, k, m) => m.round \notin Coins \cup {Shares}
  BY DEF SentIn
<1>3. \A i \in Coins \cup {Shares} : Has(e, i) => Has(d, i)
  BY <1>1, <1>2 DEF Has
<1>4. \A i : Has(d, i) => Has(e, i)
  BY DiskGrows
<1>5. \A i : WholeBelow(d, i) => WholeBelow(e, i)
  BY DiskGrows
<1>. QED
  BY <1>3, <1>4, <1>5 DEF BoundFirst

\* A resolution stays justified under writes that neither resolve, nor certify, nor find a
\* delivery invalid.
LEMMA ResolvedKept ==
  ASSUME NEW d, NEW e, NEW ws, NEW k, NEW p, Effect(d, e, ws, k), ResolvedIsWhole(p, d),
         \A n \in 1 .. k : /\ ws[n].op \notin {"resolve", "invalid"}
                           /\ ws[n].op = "cursor" => "certified" \notin PassedBy(ws[n].msg)
  PROVE  ResolvedIsWhole(p, e)
<1>1. ~ResolvedIn(ws, k) /\ ~PassedIn(ws, k, "certified") /\ \A s : ~InvalidIn(ws, k, s)
  BY DEF ResolvedIn, PassedIn, InvalidIn
<1>2. e.resolved <=> d.resolved
  BY <1>1, Zenon DEF Effect
<1>3. "certified" \in e.passed => "certified" \in d.passed
  BY <1>1 DEF Effect
<1>4. e.invalid = d.invalid
  BY <1>1 DEF Effect
<1>5. \A a : a \in d.accepted => a \in e.accepted
  BY DEF Effect
<1>6. \A i : WholeBelow(d, i) => WholeBelow(e, i)
  BY DiskGrows
<1>7. HasDeliveries(p, d) => HasDeliveries(p, e)
  BY <1>5 DEF HasDeliveries
<1>. QED
  BY <1>2, <1>3, <1>4, <1>5, <1>6, <1>7, Zenon DEF ResolvedIsWhole

(***************************************************************************)
(* Sending.                                                                *)
(***************************************************************************)
\* The parts of the invariant for one party.
LEMMA InvFacts ==
  ASSUME SessionInv, NEW p \in Party
  PROVE  /\ disk \in [Party -> DiskType] /\ session \in [Party -> ProcessType]
         /\ disk[p] \in DiskType /\ session[p] \in ProcessType
         /\ SoundDisk(p, disk[p]) /\ SoundProcess(disk[p], session[p])
         /\ \A s \in Party : Heard(p, s)
  BY DEF SessionInv, StateType

\* A session inside advance() is up, has nothing queued, and everything below it is whole.
LEMMA WorksFacts ==
  ASSUME SessionInv, NEW p \in Party, NEW rounds, Works(p, rounds)
  PROVE  /\ session[p].up /\ session[p].at \in rounds /\ session[p].at \in Round
         /\ session[p].at \in Int /\ session[p].outbound = <<>>
         /\ WholeBelow(disk[p], session[p].at) /\ SafeProcess(p, session[p])
<1>1. session[p].at \in Round /\ Round \subseteq Int
  BY InvFacts, RoundFacts DEF Round, ProcessType
<1>. QED
  BY <1>1, InvFacts DEF Works, SoundProcess, SafeProcess

\* The messages a party may send, and their rounds.
LEMMA MessageFacts ==
  ASSUME NEW p \in Party
  PROVE  /\ \A i \in 1 .. Consistency : /\ Broadcast(p, i) \in Envelope /\ Broadcast(p, i) \in Mine[p]
                                        /\ Broadcast(p, i).round = i
         /\ \A q \in Party \ {p} : /\ Message(p, Shares, {q}) \in Envelope
                                   /\ Message(p, Shares, {q}) \in Mine[p]
                                   /\ Message(p, Shares, {q}).round = Shares
         /\ Broadcast(p, Complaint) \in Envelope /\ Broadcast(p, Complaint) \in Mine[p]
         /\ Broadcast(p, Complaint).round = Complaint
         /\ \A m \in Mine[p] : m.round \in Number /\ m.from = p
<1>1. (1 .. Consistency) \cup {Shares, Complaint} \subseteq Number
  BY RoundFacts DEF Number
<1>2. \A i \in Number, q \in Party : /\ Message(p, i, Party) \in Envelope
                                     /\ Message(p, i, {q}) \in Envelope
  BY DEF Message, Envelope
<1>3. \A i, to : Message(p, i, to).round = i /\ Message(p, i, to).from = p
  BY DEF Message
<1>4. Mine[p] = {Broadcast(p, i) : i \in 1..Consistency}
                   \cup {Message(p, Shares, {q}) : q \in Party \ {p}}
                   \cup {Broadcast(p, Complaint)}
  BY DEF Mine
<1>5. ASSUME NEW i \in 1 .. Consistency
      PROVE  Broadcast(p, i) \in Envelope /\ Broadcast(p, i) \in Mine[p] /\ Broadcast(p, i).round = i
  BY <1>1, <1>2, <1>3, <1>4 DEF Broadcast
<1>6. ASSUME NEW q \in Party \ {p}
      PROVE  /\ Message(p, Shares, {q}) \in Envelope /\ Message(p, Shares, {q}) \in Mine[p]
             /\ Message(p, Shares, {q}).round = Shares
  BY <1>1, <1>2, <1>3, <1>4
<1>7. /\ Broadcast(p, Complaint) \in Envelope /\ Broadcast(p, Complaint) \in Mine[p]
      /\ Broadcast(p, Complaint).round = Complaint
  BY <1>1, <1>2, <1>3, <1>4 DEF Broadcast
<1>8. ASSUME NEW m \in Mine[p] PROVE m.round \in Number /\ m.from = p
  <2>1. CASE \E i \in 1 .. Consistency : m = Broadcast(p, i)
    BY <1>1, <1>3, <2>1 DEF Broadcast
  <2>2. CASE \E q \in Party \ {p} : m = Message(p, Shares, {q})
    BY <1>1, <1>3, <2>2
  <2>3. CASE m = Broadcast(p, Complaint)
    BY <1>1, <1>3, <2>3 DEF Broadcast
  <2>. QED
    BY <1>4, <2>1, <2>2, <2>3
<1>. QED
  BY <1>5, <1>6, <1>7, <1>8

\* SendRound: the first coin leaves when every precommitment is in the log.
LEMMA SendRoundStep ==
  ASSUME SessionInv, NEW p \in Party, SendRound(p)
  PROVE  SessionInv'
<1> DEFINE me == session[p]
           d == disk[p]
           i == me.at
           m == Broadcast(p, i)
           c == CursorOf(i, "Sent")
           ws == <<Send(m), Mark(c)>>
           after == [me EXCEPT !.sent = TRUE]
<1>1. Works(p, OwnSend) /\ Perform(p, ws, me, after)
  BY DEF SendRound
<1>2. /\ me.up /\ i \in OwnSend /\ i \in Int /\ SafeProcess(p, me) /\ WholeBelow(d, i)
      /\ SoundDisk(p, d) /\ d \in DiskType /\ me \in ProcessType
  BY <1>1, WorksFacts, InvFacts
<1>3. i \in 1 .. Consistency /\ i # Shares /\ i < Commitments
      /\ \A n \in Coins : n > LastPrecommit
  BY <1>2, RoundFacts DEF OwnSend, Residues, Precommits, Coins
<1>4. m \in Envelope /\ m \in Mine[p] /\ m.round = i
  BY <1>3, MessageFacts
<1>5. /\ c \in CursorType /\ "certified" \notin PassedBy(c) /\ c.name # "certified"
      /\ c.name = "residue" => c.round # 0
      /\ Reached(c) \in Int /\ Reached(c) <= i
  BY <1>3, CursorOfFacts
<1> HIDE DEF c, m
<1>6. /\ Send(m) \in Write /\ Send(m).op = "send" /\ Send(m).msg = m
      /\ Mark(c) \in Write /\ Mark(c).op = "cursor" /\ Mark(c).msg = c
  BY <1>4, <1>5, WriteOps
<1>7. ws \in Seq(Write) /\ Len(ws) = 2 /\ ws[1] = Send(m) /\ ws[2] = Mark(c)
  BY <1>6
<1> HIDE DEF ws
<1>8. \A n \in 1 .. 2 : n = 1 \/ n = 2
  OBVIOUS
<1>9. ASSUME NEW k \in 0 .. Len(ws), NEW e \in DiskType, Effect(d, e, ws, k)
      PROVE  CursorIsEarned(e) /\ BoundFirst(e) /\ ResolvedIsWhole(p, e)
  <2>1. \A n \in 1 .. k : n = 1 \/ n = 2
    BY <1>7
  <2>2. WholeBelow(e, i) /\ WholeBelow(e, Reached(c))
    BY <1>2, <1>5, <1>9, DiskGrows, WholeBelowLess
  <2>3. CursorIsEarned(e)
    BY <1>2, <1>5, <1>6, <1>7, <1>9, <2>1, <2>2, CursorKept DEF SoundDisk
  <2>4. ResolvedIsWhole(p, e)
    BY <1>2, <1>5, <1>6, <1>7, <1>9, <2>1, ResolvedKept DEF SoundDisk
  <2>5. BoundFirst(e)
    <3>1. \A x : x \in ToSet(e.sent) => x \in ToSet(d.sent) \/ x = m
      BY <1>6, <1>7, <1>9, <2>1 DEF Effect, SentIn
    <3>2. \A j : Has(e, j) => Has(d, j) \/ j = i
      BY <1>4, <3>1 DEF Has
    <3>3. BoundFirst(d) /\ \A j : (Has(d, j) => Has(e, j)) /\ (WholeBelow(d, j) => WholeBelow(e, j))
      BY <1>2, <1>9, DiskGrows DEF SoundDisk
    <3>4. i \in Coins => WholeBelow(e, LastPrecommit + 1)
      BY <1>2, <1>3, <2>2, RoundFacts, WholeBelowLess
    <3>. QED
      BY <1>3, <3>2, <3>3, <3>4 DEF BoundFirst
  <2>. QED
    BY <2>3, <2>4, <2>5
<1>10. SafeWrites(p, ws)
  <2>1. \A n \in 1 .. Len(ws) : /\ ws[n].op = "send" => ws[n].msg \in Mine[p]
                                /\ ws[n].op = "accept" => Has(disk[ws[n].msg[1]], ws[n].msg[2])
                                /\ ws[n].op = "invalid" => Has(disk[ws[n].msg], Shares)
    BY <1>4, <1>6, <1>7, <1>8
  <2>. QED
    BY <1>7, <1>9, <2>1 DEF SafeWrites
<1>11. SafeProcess(p, after) /\ after.at = i /\ i # SetupComplete
  <2>1. SafeProcess(p, after) /\ after.at = i
    BY <1>2 DEF SafeProcess, ProcessType
  <2>. QED
    BY <1>3, <2>1, RoundFacts
<1>12. \A e \in DiskType : Effect(d, e, ws, Len(ws)) =>
         WholeBelow(e, after.at) /\ (after.at = SetupComplete => e.resolved)
  BY <1>2, <1>11, DiskGrows
<1> HIDE DEF after
<1>. QED
  BY <1>1, <1>2, <1>10, <1>11, <1>12, IterationKeepsInv

\* Wait: a Waiting cursor claims no more than the round it waits for.
LEMMA WaitStep ==
  ASSUME SessionInv, NEW p \in Party, NEW rounds, Works(p, rounds), SetupComplete \notin rounds,
         NEW c \in CursorType,
         Reached(c) \in Int, Reached(c) <= session[p].at, c.name # "certified",
         "certified" \notin PassedBy(c), c.name = "residue" => c.round # 0, Wait(p, c)
  PROVE  SessionInv'
<1> DEFINE me == session[p]
           d == disk[p]
           ws == <<Mark(c)>>
           after == [me EXCEPT !.busy = FALSE]
<1>1. Perform(p, ws, me, after)
  BY DEF Wait
<1>2. /\ me.up /\ me.at \in rounds /\ me.at \in Int /\ SafeProcess(p, me) /\ WholeBelow(d, me.at)
      /\ SoundDisk(p, d) /\ d \in DiskType /\ me \in ProcessType
  BY WorksFacts, InvFacts
<1>3. Mark(c) \in Write /\ Mark(c).op = "cursor" /\ Mark(c).msg = c
  BY WriteOps
<1>4. ws \in Seq(Write) /\ Len(ws) = 1 /\ ws[1] = Mark(c)
  BY <1>3
<1> HIDE DEF ws
<1>5. ASSUME NEW k \in 0 .. Len(ws), NEW e \in DiskType, Effect(d, e, ws, k)
      PROVE  CursorIsEarned(e) /\ BoundFirst(e) /\ ResolvedIsWhole(p, e)
  <2>1. \A n \in 1 .. k : n = 1
    BY <1>4
  <2>2. WholeBelow(e, Reached(c))
    BY <1>2, <1>5, DiskGrows, WholeBelowLess
  <2>3. CursorIsEarned(e)
    BY <1>2, <1>3, <1>4, <1>5, <2>1, <2>2, CursorKept DEF SoundDisk
  <2>4. ResolvedIsWhole(p, e)
    BY <1>2, <1>3, <1>4, <1>5, <2>1, ResolvedKept DEF SoundDisk
  <2>5. BoundFirst(e)
    BY <1>2, <1>3, <1>4, <1>5, <2>1, BoundKept DEF SoundDisk
  <2>. QED
    BY <2>3, <2>4, <2>5
<1>6. SafeWrites(p, ws)
  BY <1>3, <1>4, <1>5 DEF SafeWrites
<1>7. SafeProcess(p, after) /\ after.at = me.at /\ me.at # SetupComplete
  BY <1>2 DEF SafeProcess, ProcessType
<1>8. \A e \in DiskType : Effect(d, e, ws, Len(ws)) =>
         WholeBelow(e, after.at) /\ (after.at = SetupComplete => e.resolved)
  BY <1>2, <1>7, DiskGrows
<1> HIDE DEF after
<1>. QED
  BY <1>1, <1>2, <1>6, <1>7, <1>8, IterationKeepsInv

\* A finite set as a sequence: CHOOSE finds one, as there is a bijection with 1 .. n.
LEMMA Enumerated ==
  ASSUME NEW S, IsFiniteSet(S)
  PROVE  /\ SetToSeq(S) \in [1 .. Cardinality(S) -> S] /\ IsInjective(SetToSeq(S))
         /\ Cardinality(S) \in Nat /\ SetToSeq(S) \in Seq(S)
         /\ DOMAIN SetToSeq(S) = 1 .. Cardinality(S)
<1>1. Cardinality(S) \in Nat
  BY FS_CardinalityType
<1>2. PICK f : f \in Bijection(1 .. Cardinality(S), S)
  BY FS_CardinalityType DEF ExistsBijection
<1>3. f \in [1 .. Cardinality(S) -> S] /\ IsInjective(f)
  BY <1>2 DEF Bijection, Injection, IsInjective
<1>4. SetToSeq(S) \in [1 .. Cardinality(S) -> S] /\ IsInjective(SetToSeq(S))
  BY <1>3 DEF SetToSeq
<1>. QED
  BY <1>1, <1>4

\* The writes of finalize, place by place.
LEMMA FinalWritesAre ==
  ASSUME NEW p \in Party, NEW to \in Seq(Party \ {p})
  PROVE  LET ws == FinalWrites(p, to) IN
         /\ ws \in Seq(Write) /\ Len(ws) = 5 + Len(to) /\ Len(to) \in Nat
         /\ ws[1] = Send(Broadcast(p, Commitments)) /\ ws[2] = Send(Broadcast(p, Audits))
         /\ ws[3] = Mark(CursorOf(Audits, "Sent")) /\ ws[4] = Send(Broadcast(p, Consistency))
         /\ ws[5] = Mark(CursorOf(Consistency, "Sent"))
         /\ \A n \in 6 .. Len(ws) : to[n - 5] \in Party \ {p}
                                    /\ ws[n] = Send(Message(p, Shares, {to[n - 5]}))
<1>1. {Commitments, Audits, Consistency} \subseteq 1 .. Consistency
  BY RoundFacts
<1>2. \A i \in {Commitments, Audits, Consistency} : Send(Broadcast(p, i)) \in Write
  BY <1>1, MessageFacts, WriteOps
<1>3. \A i \in {Audits, Consistency} : Mark(CursorOf(i, "Sent")) \in Write
  BY <1>1, CursorOfFacts, WriteOps
<1>4. PICK head : head = <<Send(Broadcast(p, Commitments)), Send(Broadcast(p, Audits)),
                          Mark(CursorOf(Audits, "Sent")), Send(Broadcast(p, Consistency)),
                          Mark(CursorOf(Consistency, "Sent"))>>
  OBVIOUS
<1>5. /\ head \in Seq(Write) /\ Len(head) = 5
      /\ head[1] = Send(Broadcast(p, Commitments)) /\ head[2] = Send(Broadcast(p, Audits))
      /\ head[3] = Mark(CursorOf(Audits, "Sent")) /\ head[4] = Send(Broadcast(p, Consistency))
      /\ head[5] = Mark(CursorOf(Consistency, "Sent"))
  BY <1>2, <1>3, <1>4
<1>6. /\ Len(to) \in Nat /\ DOMAIN to = 1 .. Len(to)
      /\ \A n \in 1 .. Len(to) : to[n] \in Party \ {p}
  BY SeqFacts
<1>7. PICK tail : tail = Deliveries(p, to)
  OBVIOUS
<1>8. /\ tail = [n \in 1 .. Len(to) |-> Send(Message(p, Shares, {to[n]}))]
      /\ \A n \in 1 .. Len(to) : Send(Message(p, Shares, {to[n]})) \in Write
  BY <1>6, <1>7, MessageFacts, WriteOps DEF Deliveries
<1>9. tail \in Seq(Write) /\ Len(tail) = Len(to)
  BY <1>6, <1>8
<1>10. FinalWrites(p, to) = head \o tail
  BY <1>4, <1>7 DEF FinalWrites
<1>11. /\ head \o tail \in Seq(Write) /\ Len(head \o tail) = 5 + Len(to)
       /\ \A n \in 1 .. (5 + Len(to)) :
            (head \o tail)[n] = IF n <= 5 THEN head[n] ELSE tail[n - 5]
  <2>1. PICK n \in Nat : n = Len(to)
    BY <1>6
  <2>2. tail \in Seq(Write) /\ Len(tail) = n
    BY <1>9, <2>1
  <2>3. /\ head \o tail \in Seq(Write) /\ Len(head \o tail) = Len(head) + Len(tail)
        /\ \A i \in 1 .. (Len(head) + Len(tail)) :
             (head \o tail)[i] = IF i <= Len(head) THEN head[i] ELSE tail[i - Len(head)]
    BY <1>5, <2>2, ConcatProperties
  <2>. QED
    BY <1>5, <2>1, <2>2, <2>3
<1>12. \A n \in 6 .. (5 + Len(to)) : n \in 1 .. (5 + Len(to)) /\ ~(n <= 5) /\ n - 5 \in 1 .. Len(to)
  BY <1>6
<1>13. \A n \in 6 .. (5 + Len(to)) : to[n - 5] \in Party \ {p}
                                    /\ (head \o tail)[n] = Send(Message(p, Shares, {to[n - 5]}))
  BY <1>6, <1>8, <1>11, <1>12
<1>14. \A n \in 1 .. 5 : (head \o tail)[n] = head[n]
  BY <1>6, <1>11
<1>. QED
  BY <1>5, <1>6, <1>10, <1>11, <1>13, <1>14

\* Finalize: a delivery is behind the three broadcasts in the order of the writes, so on a
\* disk that holds a delivery it finds them.
LEMMA FinalizeStep ==
  ASSUME SessionInv, NEW p \in Party, Finalize(p)
  PROVE  SessionInv'
<1> DEFINE me == session[p]
           d == disk[p]
           to == SetToSeq(Party \ {p})
           ws == FinalWrites(p, to)
           before == [me EXCEPT !.prepared = FALSE]
           after == [me EXCEPT !.prepared = FALSE, !.sent = TRUE, !.busy = FALSE]
<1>1. Works(p, {Commitments})
  BY DEF Finalize
<1>2. /\ me.up /\ me.at = Commitments /\ SafeProcess(p, me) /\ WholeBelow(d, Commitments)
      /\ SoundDisk(p, d) /\ d \in DiskType /\ me \in ProcessType
  BY <1>1, WorksFacts, InvFacts
<1>3. CASE Perform(p, ws, before, after)
  <2>1. to \in Seq(Party \ {p})
    BY SetupAssumption, FS_Subset, Enumerated
  <2>2. /\ ws \in Seq(Write) /\ Len(ws) = 5 + Len(to) /\ Len(to) \in Nat
        /\ ws[1] = Send(Broadcast(p, Commitments)) /\ ws[2] = Send(Broadcast(p, Audits))
        /\ ws[3] = Mark(CursorOf(Audits, "Sent")) /\ ws[4] = Send(Broadcast(p, Consistency))
        /\ ws[5] = Mark(CursorOf(Consistency, "Sent"))
        /\ \A n \in 6 .. Len(ws) : to[n - 5] \in Party \ {p}
                                   /\ ws[n] = Send(Message(p, Shares, {to[n - 5]}))
    BY <2>1, FinalWritesAre
  <2> HIDE DEF ws, to
  <2>3. {Commitments, Audits, Consistency} \subseteq 1 .. Consistency
    BY RoundFacts
  <2>4. \A i \in {Commitments, Audits, Consistency} :
          /\ Send(Broadcast(p, i)).op = "send" /\ Send(Broadcast(p, i)).msg = Broadcast(p, i)
          /\ Broadcast(p, i) \in Mine[p] /\ Broadcast(p, i).round = i
    BY <2>3, MessageFacts, WriteOps
  <2>5. ASSUME NEW q \in Party \ {p}
        PROVE  /\ Send(Message(p, Shares, {q})).op = "send"
               /\ Send(Message(p, Shares, {q})).msg = Message(p, Shares, {q})
               /\ Message(p, Shares, {q}) \in Mine[p] /\ Message(p, Shares, {q}).round = Shares
    <3>1. PICK m : m = Message(p, Shares, {q})
      OBVIOUS
    <3>2. m \in Envelope /\ m \in Mine[p] /\ m.round = Shares
      BY <3>1, MessageFacts
    <3>3. Send(m).op = "send" /\ Send(m).msg = m
      BY <3>2, WriteOps
    <3>. QED
      BY <3>1, <3>2, <3>3
  <2>6. \A i \in {Audits, Consistency} :
          LET c == CursorOf(i, "Sent") IN
          /\ Mark(c).op = "cursor" /\ Mark(c).msg = c /\ "certified" \notin PassedBy(c)
          /\ c.name # "certified" /\ Reached(c) = Commitments
          /\ c.name = "residue" => c.round # 0
    BY <2>3, CursorOfFacts, WriteOps
  <2>7. ASSUME NEW n \in 1 .. Len(ws)
        PROVE  \/ n = 3 /\ ws[n].op = "cursor" /\ ws[n].msg = CursorOf(Audits, "Sent")
               \/ n = 5 /\ ws[n].op = "cursor" /\ ws[n].msg = CursorOf(Consistency, "Sent")
               \/ /\ ws[n].op = "send" /\ ws[n].msg \in Mine[p]
                  /\ \/ n <= 5 /\ ws[n].msg.round \in {Commitments, Audits, Consistency}
                     \/ n > 5 /\ ws[n].msg.round = Shares
    <3>1. n = 1 \/ n = 2 \/ n = 3 \/ n = 4 \/ n = 5 \/ n \in 6 .. Len(ws)
      BY <2>2
    <3>2. CASE n \in {1, 2, 4}
      BY <2>2, <2>4, <3>2
    <3>3. CASE n = 3 \/ n = 5
      BY <2>2, <2>6, <3>3
    <3>4. CASE n \in 6 .. Len(ws)
      <4>1. PICK q \in Party \ {p} : ws[n] = Send(Message(p, Shares, {q}))
        BY <2>2, <3>4
      <4>2. ws[n].op = "send" /\ ws[n].msg \in Mine[p] /\ ws[n].msg.round = Shares
        BY <2>5, <4>1
      <4>3. n > 5
        BY <3>4
      <4>. QED
        BY <4>2, <4>3
    <3>. QED
      BY <3>1, <3>2, <3>3, <3>4
  <2>8. ASSUME NEW k \in 0 .. Len(ws), NEW e \in DiskType, Effect(d, e, ws, k)
        PROVE  CursorIsEarned(e) /\ BoundFirst(e) /\ ResolvedIsWhole(p, e)
    <3>1. \A n \in 1 .. k : n \in 1 .. Len(ws)
      BY <2>2
    <3>2. WholeBelow(e, Commitments)
      BY <1>2, <2>8, DiskGrows
    <3>3. CursorIsEarned(e)
      <4>1. \A n \in 1 .. k : ws[n].op = "cursor" =>
              /\ Reached(ws[n].msg) = Commitments /\ ws[n].msg.name # "certified"
              /\ ws[n].msg.name = "residue" => ws[n].msg.round # 0
        BY <2>6, <2>7, <3>1
      <4>. QED
        BY <1>2, <2>8, <3>2, <4>1, CursorKept DEF SoundDisk
    <3>4. ResolvedIsWhole(p, e)
      <4>1. \A n \in 1 .. k : /\ ws[n].op \notin {"resolve", "invalid"}
                              /\ ws[n].op = "cursor" => "certified" \notin PassedBy(ws[n].msg)
        BY <2>6, <2>7, <3>1
      <4>. QED
        BY <1>2, <2>8, <4>1, ResolvedKept DEF SoundDisk
    <3>5. BoundFirst(e)
      <4>1. \A x : x \in ToSet(e.sent) <=> x \in ToSet(d.sent) \/ SentIn(ws, k, x)
        BY <2>8 DEF Effect
      <4>2. \A j : (Has(d, j) => Has(e, j)) /\ (WholeBelow(d, j) => WholeBelow(e, j))
        BY <2>8, DiskGrows
      <4>3. \A i \in Coins : Has(e, i) => Has(d, i)
        <5>1. \A i \in Coins : i \notin {Commitments, Audits, Consistency, Shares}
          BY RoundFacts DEF Coins
        <5>2. \A x : SentIn(ws, k, x) => x.round \in {Commitments, Audits, Consistency, Shares}
          BY <2>7, <3>1 DEF SentIn
        <5>. QED
          BY <4>1, <5>1, <5>2 DEF Has
      <4>4. CASE k > 5
        <5>1. 1 \in 1 .. k /\ 2 \in 1 .. k /\ 4 \in 1 .. k
          BY <2>2, <4>4
        <5>2. \A i \in {Commitments, Audits, Consistency} : SentIn(ws, k, Broadcast(p, i))
          BY <2>2, <2>4, <5>1 DEF SentIn
        <5>3. \A i \in {Commitments, Audits, Consistency} : Has(e, i)
          BY <2>4, <4>1, <5>2 DEF Has
        <5>. QED
          BY <1>2, <3>2, <4>2, <4>3, <5>3 DEF BoundFirst, SoundDisk
      <4>5. CASE ~(k > 5)
        <5>1. Shares \notin {Commitments, Audits, Consistency}
          BY RoundFacts
        <5>2. \A n \in 1 .. k : ~(n > 5)
          BY <2>2, <4>5
        <5>3. \A x : SentIn(ws, k, x) => x.round # Shares
          BY <2>7, <3>1, <5>1, <5>2 DEF SentIn
        <5>4. Has(e, Shares) => Has(d, Shares)
          BY <4>1, <5>3 DEF Has
        <5>. QED
          BY <1>2, <4>2, <4>3, <5>4 DEF BoundFirst, SoundDisk
      <4>. QED
        BY <4>4, <4>5
    <3>. QED
      BY <3>3, <3>4, <3>5
  <2>9. SafeWrites(p, ws)
    <3>1. \A n \in 1 .. Len(ws) :
            /\ ws[n].op = "send" => ws[n].msg \in Mine[p]
            /\ ws[n].op # "accept" /\ ws[n].op # "invalid"
      BY <2>7
    <3>. QED
      BY <2>2, <2>8, <3>1 DEF SafeWrites
  <2>10. SafeProcess(p, before) /\ before.at = Commitments
    BY <1>2 DEF SafeProcess, ProcessType
  <2>11. SafeProcess(p, after) /\ after.at = Commitments
    BY <1>2 DEF SafeProcess, ProcessType
  <2>12. \A e \in DiskType : Effect(d, e, ws, Len(ws)) =>
           WholeBelow(e, after.at) /\ (after.at = SetupComplete => e.resolved)
    BY <1>2, <2>11, RoundFacts, DiskGrows
  <2> HIDE DEF before, after
  <2>. QED
    BY <1>2, <1>3, <2>9, <2>10, <2>11, <2>12, IterationKeepsInv
<1>4. CASE Perform(p, <<>>, me, [me EXCEPT !.busy = FALSE])
  <2> DEFINE idle == [me EXCEPT !.busy = FALSE]
  <2>1. SafeProcess(p, idle) /\ idle.at = Commitments
    BY <1>2 DEF SafeProcess, ProcessType
  <2>2. PICK none : none = <<>>
    OBVIOUS
  <2>3. none \in Seq(Write) /\ Len(none) = 0
    BY <2>2, EmptySeq
  <2>4. \A n \in 1 .. 0 : FALSE
    OBVIOUS
  <2>5. ASSUME NEW e \in DiskType, Effect(d, e, none, 0)
        PROVE  CursorIsEarned(e) /\ BoundFirst(e) /\ ResolvedIsWhole(p, e)
    BY <1>2, <2>4, <2>5, CursorKept, BoundKept, ResolvedKept DEF SoundDisk
  <2>6. SafeWrites(p, none)
    <3>1. \A k \in 0 .. 0 : k = 0
      OBVIOUS
    <3>. QED
      BY <2>3, <2>4, <2>5, <3>1 DEF SafeWrites
  <2>7. \A e \in DiskType : Effect(d, e, none, 0) =>
          WholeBelow(e, idle.at) /\ (idle.at = SetupComplete => e.resolved)
    BY <1>2, <2>1, RoundFacts, DiskGrows
  <2> HIDE DEF idle
  <2>. QED
    BY <1>2, <1>4, <2>1, <2>2, <2>3, <2>6, <2>7, IterationKeepsInv DEF idle
<1>. QED
  BY <1>3, <1>4 DEF Finalize

(***************************************************************************)
(* Collecting.                                                             *)
(***************************************************************************)
LEMMA LeastNumber ==
  ASSUME NEW S \in SUBSET Nat, S # {}
  PROVE  \E n \in S : \A m \in S : n <= m
<1>1. SUFFICES ASSUME \A n \in S : \E m \in S : ~(n <= m) PROVE FALSE
  OBVIOUS
<1> DEFINE P == {k \in Nat : \A m \in S : k <= m}
<1>2. 0 \in P
  OBVIOUS
<1>3. ASSUME NEW k \in P PROVE k + 1 \in P
  <2>1. k \notin S
    BY <1>1
  <2>. QED
    BY <2>1
<1>4. P = Nat
  <2> HIDE DEF P
  <2>1. P \in SUBSET Nat
    BY DEF P
  <2>. QED
    BY <1>2, <1>3, <2>1, SetInduction
<1>5. PICK m \in S : TRUE
  OBVIOUS
<1>6. m + 1 \in P
  <2> HIDE DEF P
  <2>. QED
    BY <1>4
<1>. QED
  BY <1>5, <1>6

IsJoin(u, V, s, t, n) ==
  /\ u \in Seq(V) /\ Len(u) = Len(s) + n /\ Len(s) \in Nat
  /\ \A i \in 1 .. Len(s) : u[i] = s[i]
  /\ \A i \in 1 .. n : u[Len(s) + i] = t[i]

\* The places of two sequences joined.
LEMMA Joined ==
  ASSUME NEW V, NEW s \in Seq(V), NEW t \in Seq(V), NEW n \in Nat, Len(t) = n
  PROVE  IsJoin(s \o t, V, s, t, n)
<1>1. Len(s) \in Nat
  BY SeqFacts
<1>2. /\ s \o t \in Seq(V) /\ Len(s \o t) = Len(s) + Len(t)
      /\ \A i \in 1 .. (Len(s) + Len(t)) :
           (s \o t)[i] = IF i <= Len(s) THEN s[i] ELSE t[i - Len(s)]
  BY ConcatProperties
<1>3. \A i \in 1 .. Len(s) : i \in 1 .. (Len(s) + Len(t)) /\ i <= Len(s)
  BY <1>1
<1>4. \A i \in 1 .. n : /\ Len(s) + i \in 1 .. (Len(s) + Len(t)) /\ ~(Len(s) + i <= Len(s))
                        /\ (Len(s) + i) - Len(s) = i
  BY <1>1
<1>. QED
  BY <1>1, <1>2, <1>3, <1>4 DEF IsJoin

\* Everything behind a joined sequence is in one of its parts.
LEMMA JoinedPlaces ==
  ASSUME NEW l \in Nat, NEW n \in Nat, NEW i \in 1 .. (l + n)
  PROVE  i \in 1 .. l \/ \E j \in 1 .. n : i = l + j
<1>1. i \in 1 .. l \/ (i - l \in 1 .. n /\ i = l + (i - l))
  OBVIOUS
<1>. QED
  BY <1>1

\* Which numbers are rounds, and of which kind.
LEMMA NumberFacts ==
  /\ \A i \in Number : i \in Int /\ i >= 1
  /\ \A i \in 1 .. Shares : i \in Number
  /\ \A i \in Late : i \in 1 .. Consistency /\ i \notin Residues /\ i < Shares
  /\ \A i \in 1 .. Consistency : i \in Residues \/ i \in Late
  /\ Residues \subseteq 1 .. Shares
<1>1. \A i \in 1 .. Consistency : i \in Residues \/ i \in Late
  BY RoundFacts DEF Residues, Late, Precommits, Coins
<1>2. \A i \in Late : i \in 1 .. Consistency /\ i \notin Residues /\ i < Shares
  BY RoundFacts DEF Residues, Late, Precommits, Coins
<1>. QED
  BY <1>1, <1>2, RoundFacts DEF Number, Residues

\* A message that is taken is from a sender of the round, is in the log of that sender, and
\* is of this round unless this is a residue round.
LEMMA TakenFacts ==
  ASSUME SessionInv, NEW p \in Party, NEW s \in Party, session[p].at \in 1 .. Shares
  PROVE  /\ Taken(p, s) # 0 =>
              /\ Positions(p, s) # {} /\ s \in Senders(p, session[p].at)
              /\ Chosen(p, s) \in 1 .. Len(session[p].inbox[s])
              /\ Taken(p, s) = session[p].inbox[s][Chosen(p, s)]
              /\ Taken(p, s) \in 1 .. Shares /\ Has(disk[s], Taken(p, s))
              /\ session[p].at \notin Residues => Taken(p, s) = session[p].at
         /\ s \in Senders(p, session[p].at) /\ Positions(p, s) # {} => Taken(p, s) # 0
<1> DEFINE me == session[p]
           box == me.inbox[s]
           n == Chosen(p, s)
<1>1. box \in Seq(Number)
  BY InvFacts DEF ProcessType
<1>2. DOMAIN box = 1 .. Len(box) /\ Len(box) \in Nat /\ \A i \in 1 .. Len(box) : box[i] \in Number
  BY <1>1, SeqFacts
<1>3. ASSUME Positions(p, s) # {}
      PROVE  n \in 1 .. Len(box) /\ Fits(me.at, box[n])
  <2>1. Positions(p, s) \in SUBSET Nat
    BY <1>2 DEF Positions
  <2>2. \E i \in Positions(p, s) : \A m \in Positions(p, s) : i <= m
    BY <1>3, <2>1, LeastNumber
  <2>3. n \in Positions(p, s)
    BY <2>2 DEF Chosen
  <2>. QED
    BY <1>2, <2>3 DEF Positions
<1>4. ASSUME Taken(p, s) # 0
      PROVE  s \in Senders(p, me.at) /\ Positions(p, s) # {} /\ Taken(p, s) = box[n]
  BY <1>4 DEF Taken
<1>5. ASSUME Taken(p, s) # 0
      PROVE  /\ Taken(p, s) \in 1 .. Shares /\ Has(disk[s], Taken(p, s))
             /\ me.at \notin Residues => Taken(p, s) = me.at
  <2>1. n \in 1 .. Len(box) /\ Fits(me.at, Taken(p, s)) /\ Taken(p, s) = box[n]
    BY <1>3, <1>4, <1>5
  <2>2. Taken(p, s) \in ToSet(box)
    BY <1>2, <2>1 DEF ToSet
  <2>3. Has(disk[s], Taken(p, s))
    BY <2>2 DEF SessionInv, Heard
  <2>4. CASE me.at \in Residues
    BY <2>1, <2>3, <2>4, NumberFacts DEF Fits
  <2>5. CASE me.at \notin Residues
    BY <2>1, <2>3, <2>5 DEF Fits
  <2>. QED
    BY <2>4, <2>5
<1>6. ASSUME s \in Senders(p, me.at), Positions(p, s) # {}
      PROVE  Taken(p, s) # 0
  <2>1. Taken(p, s) = box[n]
    BY <1>6 DEF Taken
  <2>2. box[n] \in Number
    BY <1>2, <1>3, <1>6
  <2>3. 0 \notin Number
    BY NumberFacts
  <2>. QED
    BY <2>1, <2>2, <2>3
<1>. QED
  BY <1>3, <1>4, <1>5, <1>6

\* Taking messages out leaves only messages that were there.
LEMMA WithoutFacts ==
  ASSUME SessionInv, NEW p \in Party, session[p].at \in 1 .. Shares
  PROVE  /\ Without(p) \in [Party -> Seq(Number)]
         /\ \A s \in Party : ToSet(Without(p)[s]) \subseteq ToSet(session[p].inbox[s])
<1>1. ASSUME NEW s \in Party
      PROVE  /\ Without(p)[s] \in Seq(Number)
             /\ ToSet(Without(p)[s]) \subseteq ToSet(session[p].inbox[s])
  <2> DEFINE box == session[p].inbox[s]
             n == Chosen(p, s)
  <2>1. box \in Seq(Number) /\ Len(box) \in Nat /\ DOMAIN box = 1 .. Len(box)
    BY InvFacts, SeqFacts DEF ProcessType
  <2>2. CASE Taken(p, s) = 0
    BY <2>1, <2>2 DEF Without
  <2>3. CASE Taken(p, s) # 0
    <3>1. n \in 1 .. Len(box)
      BY <2>3, TakenFacts
    <3>2. Without(p)[s] = SubSeq(box, 1, n - 1) \o SubSeq(box, n + 1, Len(box))
      BY <2>3 DEF Without, RemoveAt
    <3>3. PICK a : a = SubSeq(box, 1, n - 1)
      OBVIOUS
    <3>4. PICK b : b = SubSeq(box, n + 1, Len(box))
      OBVIOUS
    <3> HIDE DEF n, box
    <3>5. /\ a \in Seq(Number) /\ Len(a) = n - 1 /\ \A i \in 1 .. (n - 1) : a[i] = box[i]
      <4>1. 1 \in 1 .. (Len(box) + 1) /\ n - 1 \in 0 .. Len(box) /\ n - 1 \in (1 - 1) .. Len(box)
        BY <2>1, <3>1
      <4>2. a \in Seq(Number) /\ Len(a) = (n - 1) - 1 + 1
            /\ \A i \in 1 .. ((n - 1) - 1 + 1) : a[i] = box[1 + i - 1]
        BY <2>1, <3>3, <4>1, SubSeqProperties
      <4>3. (n - 1) - 1 + 1 = n - 1 /\ \A i \in 1 .. (n - 1) : 1 + i - 1 = i
        BY <2>1, <3>1
      <4>. QED
        BY <4>2, <4>3
    <3>6. /\ b \in Seq(Number) /\ Len(b) = Len(box) - n
          /\ \A i \in 1 .. (Len(box) - n) : b[i] = box[n + i]
      <4>1. /\ n + 1 \in 1 .. (Len(box) + 1) /\ Len(box) \in ((n + 1) - 1) .. Len(box)
        BY <2>1, <3>1
      <4>2. /\ b \in Seq(Number) /\ Len(b) = Len(box) - (n + 1) + 1
            /\ \A i \in 1 .. (Len(box) - (n + 1) + 1) : b[i] = box[(n + 1) + i - 1]
        BY <2>1, <3>4, <4>1, SubSeqProperties
      <4>3. Len(box) - (n + 1) + 1 = Len(box) - n
            /\ \A i \in 1 .. (Len(box) - n) : (n + 1) + i - 1 = n + i
        BY <2>1, <3>1
      <4>. QED
        BY <4>2, <4>3
    <3>7. Len(box) - n \in Nat
      BY <2>1, <3>1
    <3>8. /\ a \o b \in Seq(Number) /\ Len(a \o b) = (n - 1) + (Len(box) - n)
          /\ \A i \in 1 .. (n - 1) : (a \o b)[i] = box[i]
          /\ \A i \in 1 .. (Len(box) - n) : (a \o b)[(n - 1) + i] = box[n + i]
      <4>1. PICK l \in Nat : l = Len(box) - n
        BY <3>7
      <4>2. Len(b) = l /\ b \in Seq(Number)
        BY <3>6, <4>1
      <4>3. /\ a \o b \in Seq(Number) /\ Len(a \o b) = Len(a) + l
            /\ \A i \in 1 .. Len(a) : (a \o b)[i] = a[i]
            /\ \A i \in 1 .. l : (a \o b)[Len(a) + i] = b[i]
        <5>1. IsJoin(a \o b, Number, a, b, l)
          BY <3>5, <4>2, Joined
        <5>. QED
          BY <5>1 DEF IsJoin
      <4>. QED
        BY <3>5, <3>6, <4>1, <4>3
    <3>9. \A i \in DOMAIN (a \o b) : (a \o b)[i] \in ToSet(box)
      <4>1. DOMAIN (a \o b) = 1 .. ((n - 1) + (Len(box) - n))
        BY <3>8, SeqFacts
      <4> SUFFICES ASSUME NEW i \in 1 .. ((n - 1) + (Len(box) - n)) PROVE (a \o b)[i] \in ToSet(box)
        BY <4>1
      <4>2. n - 1 \in Nat
        BY <3>1
      <4>3. CASE i \in 1 .. (n - 1)
        <5>1. i \in 1 .. Len(box)
          BY <2>1, <3>1, <4>3
        <5>. QED
          BY <2>1, <3>8, <4>3, <5>1 DEF ToSet
      <4>4. CASE \E j \in 1 .. (Len(box) - n) : i = (n - 1) + j
        <5>1. PICK j \in 1 .. (Len(box) - n) : i = (n - 1) + j
          BY <4>4
        <5>2. n + j \in 1 .. Len(box)
          BY <2>1, <3>1
        <5>. QED
          BY <2>1, <3>8, <5>1, <5>2 DEF ToSet
      <4>. QED
        BY <3>7, <4>2, <4>3, <4>4, JoinedPlaces
    <3>10. Without(p)[s] = a \o b
      BY <3>2, <3>3, <3>4 DEF box, n
    <3>. QED
      BY <3>8, <3>9, <3>10 DEF ToSet, box
  <2>. QED
    BY <2>2, <2>3
<1>. QED
  BY <1>1 DEF Without

\* The log lines are those of the messages taken, in whatever order.
LEMMA LogsFacts ==
  ASSUME SessionInv, NEW p \in Party, session[p].at \in 1 .. Shares, NEW logs \in Logs(p)
  PROVE  /\ logs \in Seq(Write)
         /\ \A n \in 1 .. Len(logs) : \E s \in Party :
              Taken(p, s) # 0 /\ logs[n] = AcceptLine(s, Taken(p, s))
         /\ \A s \in Party : Taken(p, s) # 0 =>
              \E n \in 1 .. Len(logs) : logs[n] = AcceptLine(s, Taken(p, s))
<1> DEFINE from == {s \in Party : Taken(p, s) # 0}
<1>1. PICK o \in [1 .. Cardinality(from) -> from] :
        IsInjective(o) /\ logs = [n \in DOMAIN o |-> AcceptLine(o[n], Taken(p, o[n]))]
  BY DEF Logs
<1>2. IsFiniteSet(from) /\ Cardinality(from) \in Nat
  BY SetupAssumption, FS_Subset, FS_CardinalityType
<1>3. o \in Injection(1 .. Cardinality(from), from)
  BY <1>1 DEF Injection, IsInjective
<1>4. IsFiniteSet(1 .. Cardinality(from)) /\ Cardinality(1 .. Cardinality(from)) = Cardinality(from)
  BY <1>2, FS_Interval
<1>5. o \in Surjection(1 .. Cardinality(from), from)
  BY <1>2, <1>3, <1>4, FS_Injection
<1>6. \A s \in from : \E n \in 1 .. Cardinality(from) : o[n] = s
  BY <1>5 DEF Surjection
<1>7. \A s \in from : Taken(p, s) \in 1 .. Shares
  BY TakenFacts
<1>8. /\ logs = [n \in 1 .. Cardinality(from) |-> AcceptLine(o[n], Taken(p, o[n]))]
      /\ \A n \in 1 .. Cardinality(from) : o[n] \in from
  BY <1>1
<1>9. \A s \in from : AcceptLine(s, Taken(p, s)) \in Write
  BY <1>7, WriteOps
<1>10. logs \in [1 .. Cardinality(from) -> Write]
  BY <1>8, <1>9
<1>11. logs \in Seq(Write) /\ Len(logs) = Cardinality(from)
  <2>1. PICK n \in Nat : n = Cardinality(from)
    BY <1>2
  <2>2. logs \in [1 .. n -> Write]
    BY <1>10, <2>1
  <2>3. logs \in Seq(Write) /\ Len(logs) = n
    BY <2>2
  <2>. QED
    BY <2>1, <2>3
<1>. QED
  BY <1>6, <1>8, <1>11

\* What is taken out of the inbox, and how it is logged.
LEMMA CollectFacts ==
  ASSUME SessionInv, NEW p \in Party, NEW rounds, Works(p, rounds), rounds \subseteq 1 .. Shares
  PROVE  LET rest == [session[p] EXCEPT !.inbox = Without(p)] IN
         /\ SafeProcess(p, rest) /\ rest.at = session[p].at
         /\ \A i \in Round, sent \in BOOLEAN :
              /\ SafeProcess(p, [rest EXCEPT !.at = i, !.sent = sent])
              /\ [rest EXCEPT !.at = i, !.sent = sent].at = i
              /\ SafeProcess(p, [rest EXCEPT !.at = i]) /\ [rest EXCEPT !.at = i].at = i
         /\ SafeProcess(p, [rest EXCEPT !.busy = FALSE])
         /\ [rest EXCEPT !.busy = FALSE].at = session[p].at
<1> DEFINE rest == [session[p] EXCEPT !.inbox = Without(p)]
<1>1. /\ session[p].at \in 1 .. Shares /\ SafeProcess(p, session[p])
      /\ session[p] \in ProcessType
  BY WorksFacts, InvFacts
<1>2. PICK box \in [Party -> Seq(Number)] :
        box = Without(p) /\ \A s \in Party : ToSet(box[s]) \subseteq ToSet(session[p].inbox[s])
  BY <1>1, WithoutFacts
<1>3. rest = [session[p] EXCEPT !.inbox = box]
  BY <1>2
<1>4. /\ rest \in ProcessType /\ rest.inbox = box /\ rest.at = session[p].at
      /\ rest.up = session[p].up /\ rest.outbound = session[p].outbound
  BY <1>1, <1>3 DEF ProcessType
<1> HIDE DEF rest
<1>5. SafeProcess(p, rest)
  BY <1>1, <1>2, <1>4 DEF SafeProcess
<1>6. ASSUME NEW i \in Round, NEW sent \in BOOLEAN
      PROVE  /\ SafeProcess(p, [rest EXCEPT !.at = i, !.sent = sent])
             /\ [rest EXCEPT !.at = i, !.sent = sent].at = i
  BY <1>5 DEF SafeProcess, ProcessType
<1>7. ASSUME NEW i \in Round
      PROVE  SafeProcess(p, [rest EXCEPT !.at = i]) /\ [rest EXCEPT !.at = i].at = i
  BY <1>5 DEF SafeProcess, ProcessType
<1>8. SafeProcess(p, [rest EXCEPT !.busy = FALSE]) /\ [rest EXCEPT !.busy = FALSE].at = rest.at
  BY <1>5 DEF SafeProcess, ProcessType
<1>. QED
  BY <1>4, <1>5, <1>6, <1>7, <1>8 DEF rest

\* CollectRound: behind the log lines of all senders the round is whole; a residue round may
\* have taken other coefficients, but residues are not among what must be whole.
LEMMA CollectRoundStep ==
  ASSUME SessionInv, NEW p \in Party, CollectRound(p)
  PROVE  SessionInv'
<1> DEFINE me == session[p]
           d == disk[p]
           i == me.at
           rest == [me EXCEPT !.inbox = Without(p)]
           c == CursorOf(i, "Collected")
           idle == [rest EXCEPT !.busy = FALSE]
           next == [rest EXCEPT !.at = @ + 1, !.sent = FALSE]
<1>1. Works(p, 1 .. Consistency)
  BY DEF CollectRound
<1>2. /\ me.up /\ i \in 1 .. Consistency /\ i \in Int /\ SafeProcess(p, me) /\ WholeBelow(d, i)
      /\ SoundDisk(p, d) /\ d \in DiskType /\ me \in ProcessType
  BY <1>1, WorksFacts, InvFacts
<1>3. i \in 1 .. Shares /\ i + 1 \in Round /\ i + 1 # SetupComplete /\ i # Shares
      /\ SetupComplete \notin 1 .. Consistency /\ 1 .. Consistency \subseteq 1 .. Shares
      /\ i # SetupComplete
  BY <1>2, RoundFacts DEF Round
<1>4. CASE Wait(p, CursorOf(i, "Waiting"))
  <2>1. LET w == CursorOf(i, "Waiting") IN
        /\ w \in CursorType /\ w.name # "certified" /\ "certified" \notin PassedBy(w)
        /\ w.name = "residue" => w.round # 0
        /\ Reached(w) \in Int /\ Reached(w) <= i
    BY <1>2, CursorOfFacts
  <2>2. PICK w \in CursorType : w = CursorOf(i, "Waiting")
    BY <2>1
  <2>. QED
    BY <1>1, <1>3, <1>4, <2>1, <2>2, WaitStep
<1>5. CASE /\ Arrived(p)
           /\ \E logs \in Logs(p) :
                Perform(p, Append(logs, Mark(c)), rest,
                        IF \A s \in Party : Taken(p, s) \in {0, i} THEN next ELSE idle)
  <2>1. PICK logs \in Logs(p) :
                Perform(p, Append(logs, Mark(c)), rest,
                        IF \A s \in Party : Taken(p, s) \in {0, i} THEN next ELSE idle)
    BY <1>5
  <2>2. /\ c \in CursorType /\ c.name # "certified" /\ "certified" \notin PassedBy(c)
        /\ c.name = "residue" => c.round # 0
        /\ Reached(c) \in Int /\ Reached(c) <= i + 1
    BY <1>2, CursorOfFacts
  <2>3. Mark(c) \in Write /\ Mark(c).op = "cursor" /\ Mark(c).msg = c
    BY <2>2, WriteOps
  <2> HIDE DEF c
  <2>4. /\ logs \in Seq(Write)
        /\ \A n \in 1 .. Len(logs) : \E s \in Party :
             Taken(p, s) # 0 /\ logs[n] = AcceptLine(s, Taken(p, s))
        /\ \A s \in Party : Taken(p, s) # 0 =>
             \E n \in 1 .. Len(logs) : logs[n] = AcceptLine(s, Taken(p, s))
    BY <1>3, LogsFacts
  <2>5. PICK l \in Nat : l = Len(logs)
    BY <2>4, SeqFacts
  <2>6. PICK ws : ws = Append(logs, Mark(c))
    OBVIOUS
  <2>7. /\ ws \in Seq(Write) /\ Len(ws) = l + 1 /\ ws[l + 1] = Mark(c)
        /\ \A n \in 1 .. l : ws[n] = logs[n]
    BY <2>3, <2>4, <2>5, <2>6, AppendProperties
  <2>8. ASSUME NEW s \in Party, Taken(p, s) # 0
        PROVE  /\ Taken(p, s) \in 1 .. Shares /\ Has(disk[s], Taken(p, s))
               /\ i \notin Residues => Taken(p, s) = i
               /\ AcceptLine(s, Taken(p, s)).op = "accept"
               /\ AcceptLine(s, Taken(p, s)).msg = <<s, Taken(p, s)>>
    BY <1>3, <2>8, TakenFacts, WriteOps
  <2>9. \A n \in 1 .. l : ws[n].op = "accept" /\ Has(disk[ws[n].msg[1]], ws[n].msg[2])
    BY <2>4, <2>5, <2>7, <2>8
  <2>10. \A n \in 1 .. (l + 1) : n \in 1 .. l \/ n = l + 1
    OBVIOUS
  <2>11. ASSUME NEW k \in 0 .. Len(ws), k = l + 1, NEW e \in DiskType, Effect(d, e, ws, k)
         PROVE  WholeBelow(e, i + 1)
    <3>1. WholeBelow(e, i)
      BY <1>2, <2>11, DiskGrows
    <3>2. ASSUME i \in Late, NEW s \in Party PROVE <<s, i>> \in e.accepted
      <4>1. s \in Senders(p, i) /\ Positions(p, s) # {}
        BY <1>3, <1>5 DEF Arrived, Senders
      <4>2. Taken(p, s) # 0
        BY <1>3, <4>1, TakenFacts
      <4>3. Taken(p, s) = i
        BY <2>8, <3>2, <4>2, NumberFacts
      <4>4. PICK n \in 1 .. l : logs[n] = AcceptLine(s, i)
        BY <2>4, <2>5, <4>2, <4>3
      <4>5. n \in 1 .. k /\ ws[n].op = "accept" /\ ws[n].msg = <<s, i>>
        BY <2>7, <2>8, <2>11, <4>2, <4>3, <4>4
      <4>6. AcceptedIn(ws, k, <<s, i>>)
        BY <4>5 DEF AcceptedIn
      <4>. QED
        BY <2>11, <4>6 DEF Effect
    <3>3. \A j \in Late : j \in Int
      BY NumberFacts
    <3>. QED
      BY <1>2, <3>1, <3>2, <3>3 DEF WholeBelow, Whole
  <2>12. ASSUME NEW k \in 0 .. Len(ws), NEW e \in DiskType, Effect(d, e, ws, k)
         PROVE  CursorIsEarned(e) /\ BoundFirst(e) /\ ResolvedIsWhole(p, e)
    <3>1. \A n \in 1 .. k : n \in 1 .. l \/ (n = l + 1 /\ k = l + 1)
      BY <2>7
    <3>2. CursorIsEarned(e)
      <4>1. ASSUME NEW n \in 1 .. k, ws[n].op = "cursor"
            PROVE  /\ WholeBelow(e, Reached(ws[n].msg))
                   /\ ws[n].msg.name = "residue" => ws[n].msg.round # 0
                   /\ ws[n].msg.name = "certified" => e.resolved
        <5>1. k = l + 1 /\ ws[n].msg = c
          BY <2>3, <2>7, <2>9, <3>1, <4>1
        <5>2. WholeBelow(e, i + 1)
          BY <2>11, <2>12, <5>1
        <5>. QED
          BY <1>2, <2>2, <5>1, <5>2, WholeBelowLess
      <4>. QED
        BY <1>2, <2>12, <4>1, CursorKept DEF SoundDisk
    <3>3. ResolvedIsWhole(p, e)
      <4>1. \A n \in 1 .. k : /\ ws[n].op \notin {"resolve", "invalid"}
                              /\ ws[n].op = "cursor" => "certified" \notin PassedBy(ws[n].msg)
        BY <2>2, <2>3, <2>7, <2>9, <3>1
      <4>. QED
        BY <1>2, <2>12, <4>1, ResolvedKept DEF SoundDisk
    <3>4. BoundFirst(e)
      <4>1. \A n \in 1 .. k : ws[n].op # "send"
        BY <2>3, <2>7, <2>9, <3>1
      <4>. QED
        BY <1>2, <2>12, <4>1, BoundKept DEF SoundDisk
    <3>. QED
      BY <3>2, <3>3, <3>4
  <2>13. SafeWrites(p, ws)
    <3>1. \A n \in 1 .. Len(ws) : /\ ws[n].op \notin {"send", "invalid"}
                                  /\ ws[n].op = "accept" => Has(disk[ws[n].msg[1]], ws[n].msg[2])
      BY <2>3, <2>7, <2>9, <2>10
    <3>. QED
      BY <2>7, <2>12, <3>1 DEF SafeWrites
  <2>14. /\ SafeProcess(p, rest) /\ rest.at = i
         /\ SafeProcess(p, idle) /\ idle.at = i
         /\ SafeProcess(p, next) /\ next.at = i + 1
    <3>1. /\ SafeProcess(p, rest) /\ rest.at = i
          /\ SafeProcess(p, [rest EXCEPT !.at = i + 1, !.sent = FALSE])
          /\ [rest EXCEPT !.at = i + 1, !.sent = FALSE].at = i + 1
          /\ SafeProcess(p, idle) /\ idle.at = i
      BY <1>1, <1>3, CollectFacts
    <3>2. next = [rest EXCEPT !.at = i + 1, !.sent = FALSE]
      BY <3>1
    <3>. QED
      BY <3>1, <3>2
  <2>15. \A e \in DiskType : Effect(d, e, ws, Len(ws)) => WholeBelow(e, i + 1) /\ WholeBelow(e, i)
    <3>1. l + 1 \in 0 .. Len(ws) /\ Len(ws) = l + 1
      BY <2>7
    <3>. QED
      BY <1>2, <2>11, <3>1, WholeBelowLess
  <2> HIDE DEF rest, idle, next
  <2>16. PICK after \in {idle, next} : Perform(p, ws, rest, after)
    BY <2>1, <2>6
  <2>17. SafeProcess(p, after) /\ after.at # SetupComplete /\ after.at \in {i, i + 1}
    BY <1>3, <2>14, <2>16
  <2>. QED
    BY <1>2, <2>13, <2>14, <2>15, <2>16, <2>17, IterationKeepsInv
<1>. QED
  BY <1>4, <1>5 DEF CollectRound

\* A cursor without a position claims everything below the deliveries, at most.
LEMMA PlainCursor ==
  ASSUME NEW name \in {"shares", "verified", "complaints", "resolution", "certified", "unnamed"},
         NEW state \in {"Sent", "Waiting", "Collected"}
  PROVE  LET c == Cursor(0, state, name) IN
         /\ c \in CursorType /\ c.name = name /\ Mark(c) \in Write
         /\ Mark(c).op = "cursor" /\ Mark(c).msg = c
         /\ Reached(c) \in Int /\ Reached(c) <= Shares
         /\ "certified" \in PassedBy(c) => name = "certified"
<1> DEFINE c == Cursor(0, state, name)
<1>1. c.name = name /\ c.state = state /\ c.round = 0
  BY DEF Cursor
<1>2. c \in CursorType
  BY RoundFacts DEF Cursor, CursorType, SubPhase
<1>3. Mark(c) \in Write /\ Mark(c).op = "cursor" /\ Mark(c).msg = c
  BY <1>2, WriteOps
<1>4. Reached(c) = 1 \/ Reached(c) = Shares
  BY <1>1 DEF Reached
<1>5. "certified" \in PassedBy(c) => name = "certified"
  BY <1>1 DEF PassedBy
<1>. QED
  BY <1>1, <1>2, <1>3, <1>4, <1>5, RoundFacts

\* The marks of the last phase, which may be written when the deliveries are looked at.
Plain(w) == /\ w \in Write /\ w.op = "cursor" /\ w.msg.name # "residue"
            /\ Reached(w.msg) \in Int /\ Reached(w.msg) <= Shares

\* The cursors of the deliveries, of a complaint and of the certificate are of that kind.
LEMMA PlainMarks ==
  /\ \A n \in {"shares", "verified"} :
       LET w == Mark(Cursor(0, "Collected", n)) IN
       Plain(w) /\ w.msg.name # "certified" /\ "certified" \notin PassedBy(w.msg)
  /\ \A n \in {"complaints", "unnamed"} :
       LET w == Mark(Cursor(0, "Sent", n)) IN
       Plain(w) /\ w.msg.name # "certified" /\ "certified" \notin PassedBy(w.msg)
  /\ \A n \in {"resolution", "certified"} : Plain(Mark(Cursor(0, "Collected", n)))
<1>1. ASSUME NEW n \in {"shares", "verified"}
      PROVE  LET w == Mark(Cursor(0, "Collected", n)) IN
             Plain(w) /\ w.msg.name # "certified" /\ "certified" \notin PassedBy(w.msg)
  BY PlainCursor DEF Plain
<1>2. ASSUME NEW n \in {"complaints", "unnamed"}
      PROVE  LET w == Mark(Cursor(0, "Sent", n)) IN
             Plain(w) /\ w.msg.name # "certified" /\ "certified" \notin PassedBy(w.msg)
  BY PlainCursor DEF Plain
<1>3. ASSUME NEW n \in {"resolution", "certified"}
      PROVE  Plain(Mark(Cursor(0, "Collected", n)))
  BY PlainCursor DEF Plain
<1>. QED
  BY <1>1, <1>2, <1>3

\* The writes behind the log lines of the deliveries, place by place.
LEMMA VerifiedAre ==
  ASSUME NEW x \in Seq(Write), NEW n \in Nat, Len(x) = n
  PROVE  LET v == Verified(x) IN
         /\ v \in Seq(Write) /\ Len(v) = n + 3
         /\ v[1] = Mark(Cursor(0, "Collected", "shares"))
         /\ v[2] = Mark(Cursor(0, "Collected", "verified"))
         /\ \A i \in 1 .. n : v[2 + i] = x[i]
         /\ v[n + 3] = Mark(Cursor(0, "Sent", "complaints"))
<1>1. PICK a \in Write : a = Mark(Cursor(0, "Collected", "shares"))
  BY PlainMarks DEF Plain
<1>2. PICK b \in Write : b = Mark(Cursor(0, "Collected", "verified"))
  BY PlainMarks DEF Plain
<1>3. PICK c \in Write : c = Mark(Cursor(0, "Sent", "complaints"))
  BY PlainMarks DEF Plain
<1>4. PICK s : s = <<a, b>>
  OBVIOUS
<1>5. s \in Seq(Write) /\ Len(s) = 2 /\ s[1] = a /\ s[2] = b
  BY <1>4
<1>6. PICK y : y = s \o x
  OBVIOUS
<1>7. /\ y \in Seq(Write) /\ Len(y) = 2 + n /\ y[1] = a /\ y[2] = b
      /\ \A i \in 1 .. n : y[2 + i] = x[i]
  <2>1. IsJoin(y, Write, s, x, n)
    BY <1>5, <1>6, Joined
  <2>2. 1 \in 1 .. 2 /\ 2 \in 1 .. 2
    OBVIOUS
  <2>. QED
    BY <1>5, <2>1, <2>2 DEF IsJoin
<1>8. PICK t : t = <<c>>
  OBVIOUS
<1>9. t \in Seq(Write) /\ Len(t) = 1 /\ t[1] = c
  BY <1>8
<1>10. PICK v : v = y \o t
  OBVIOUS
<1>11. IsJoin(v, Write, y, t, 1)
  BY <1>7, <1>9, <1>10, Joined
<1>12. /\ v \in Seq(Write) /\ Len(v) = n + 3 /\ v[n + 3] = c /\ v[1] = a /\ v[2] = b
       /\ \A i \in 1 .. n : v[2 + i] = x[i]
  <2>1. \A i \in 1 .. n : 2 + i \in 1 .. (2 + n)
    OBVIOUS
  <2>2. 1 \in 1 .. (2 + n) /\ 2 \in 1 .. (2 + n) /\ 1 \in 1 .. 1 /\ (2 + n) + 1 = n + 3
    OBVIOUS
  <2>3. /\ v \in Seq(Write) /\ Len(v) = Len(y) + 1
        /\ \A i \in 1 .. Len(y) : v[i] = y[i] /\ \A j \in 1 .. 1 : v[Len(y) + j] = t[j]
    BY <1>7, <1>11, <2>2 DEF IsJoin
  <2>. QED
    BY <1>7, <1>9, <2>1, <2>2, <2>3
<1>13. Verified(x) = v
  BY <1>1, <1>2, <1>3, <1>4, <1>6, <1>8, <1>10 DEF Verified
<1>. QED
  BY <1>1, <1>2, <1>3, <1>12, <1>13

\* The writes behind the log lines of the deliveries: when all are valid ...
LEMMA CertifiedWrites ==
  ASSUME NEW logs \in Seq(Write), NEW l \in Nat, Len(logs) = l
  PROVE  LET ws == logs \o Verified(<<>>) \o CertifyWrites IN
         /\ ws \in Seq(Write) /\ Len(ws) = l + 6
         /\ \A n \in 1 .. l : ws[n] = logs[n]
         /\ \A j \in {1, 2, 3} : /\ Plain(ws[l + j]) /\ ws[l + j].msg.name # "certified"
                                 /\ "certified" \notin PassedBy(ws[l + j].msg)
         /\ ws[l + 4] = Resolve
         /\ \A j \in {5, 6} : Plain(ws[l + j])
<1>1. PICK none : none = <<>>
  OBVIOUS
<1>2. none \in Seq(Write) /\ Len(none) = 0
  BY <1>1, EmptySeq
<1>3. PICK v : v = Verified(none)
  OBVIOUS
<1>4. /\ v \in Seq(Write) /\ Len(v) = 3
      /\ v[1] = Mark(Cursor(0, "Collected", "shares"))
      /\ v[2] = Mark(Cursor(0, "Collected", "verified"))
      /\ v[3] = Mark(Cursor(0, "Sent", "complaints"))
  <2>1. PICK n \in Nat : n = 0
    OBVIOUS
  <2>2. Len(none) = n
    BY <1>2, <2>1
  <2>3. /\ v \in Seq(Write) /\ Len(v) = n + 3
        /\ v[1] = Mark(Cursor(0, "Collected", "shares"))
        /\ v[2] = Mark(Cursor(0, "Collected", "verified"))
        /\ v[n + 3] = Mark(Cursor(0, "Sent", "complaints"))
    BY <1>2, <1>3, <2>2, VerifiedAre
  <2>. QED
    BY <2>1, <2>3
<1>5. PICK u : u = logs \o v
  OBVIOUS
<1>6. /\ u \in Seq(Write) /\ Len(u) = l + 3 /\ \A n \in 1 .. l : u[n] = logs[n]
      /\ \A j \in 1 .. 3 : u[l + j] = v[j]
  <2>1. IsJoin(u, Write, logs, v, 3)
    BY <1>4, <1>5, Joined
  <2>. QED
    BY <2>1 DEF IsJoin
<1>7. PICK b \in Write : b = Mark(Cursor(0, "Collected", "resolution")) /\ Plain(b)
  BY PlainMarks DEF Plain
<1>8. PICK c \in Write : c = Mark(Cursor(0, "Collected", "certified")) /\ Plain(c)
  BY PlainMarks DEF Plain
<1>9. PICK t : t = <<Resolve, b, c>>
  OBVIOUS
<1>10. t \in Seq(Write) /\ Len(t) = 3 /\ t[1] = Resolve /\ t[2] = b /\ t[3] = c
  BY <1>9, WriteOps
<1>11. CertifyWrites = t
  BY <1>7, <1>8, <1>9 DEF CertifyWrites
<1>12. PICK ws : ws = u \o t
  OBVIOUS
<1>13. /\ ws \in Seq(Write) /\ Len(ws) = (l + 3) + 3 /\ \A n \in 1 .. (l + 3) : ws[n] = u[n]
       /\ \A j \in 1 .. 3 : ws[(l + 3) + j] = t[j]
  <2>1. IsJoin(ws, Write, u, t, 3)
    BY <1>6, <1>10, <1>12, Joined
  <2>. QED
    BY <1>6, <2>1 DEF IsJoin
<1>14. /\ \A n \in 1 .. l : n \in 1 .. (l + 3)
       /\ \A j \in {1, 2, 3} : j \in 1 .. 3 /\ l + j \in 1 .. (l + 3)
       /\ (l + 3) + 3 = l + 6 /\ (l + 3) + 1 = l + 4 /\ (l + 3) + 2 = l + 5
       /\ 1 \in {1, 2, 3} /\ 2 \in {1, 2, 3} /\ 3 \in {1, 2, 3}
  OBVIOUS
<1>15. /\ \A n \in 1 .. l : ws[n] = logs[n]
       /\ \A j \in {1, 2, 3} : ws[l + j] = v[j]
       /\ ws[l + 4] = Resolve /\ ws[l + 5] = b /\ ws[l + 6] = c /\ Len(ws) = l + 6
  BY <1>6, <1>10, <1>13, <1>14
<1>16. \A j \in {1, 2, 3} : /\ Plain(v[j]) /\ v[j].msg.name # "certified"
                            /\ "certified" \notin PassedBy(v[j].msg)
  BY <1>4, PlainMarks
<1>17. \A j \in {1, 2, 3} : /\ Plain(ws[l + j]) /\ ws[l + j].msg.name # "certified"
                            /\ "certified" \notin PassedBy(ws[l + j].msg)
  BY <1>15, <1>16
<1>18. \A j \in {5, 6} : Plain(ws[l + j])
  BY <1>7, <1>8, <1>15
<1>19. logs \o Verified(<<>>) \o CertifyWrites = ws
  BY <1>1, <1>3, <1>5, <1>11, <1>12
<1>. QED
  BY <1>13, <1>15, <1>17, <1>18, <1>19

\* ... and when some are not.
WithComplaint(p, logs) == logs \o Verified(Complain(p))

\* ... and when one is not.
LEMMA ComplaintWrites ==
  ASSUME NEW p \in Party, NEW logs \in Seq(Write), NEW l \in Nat, Len(logs) = l,
         NEW ws, ws = WithComplaint(p, logs)
  PROVE  /\ ws \in Seq(Write) /\ Len(ws) = l + 5
         /\ \A n \in 1 .. l : ws[n] = logs[n]
         /\ \A j \in {1, 2, 4, 5} : /\ Plain(ws[l + j]) /\ ws[l + j].msg.name # "certified"
                                    /\ "certified" \notin PassedBy(ws[l + j].msg)
         /\ ws[l + 3] = Send(Broadcast(p, Complaint))
<1>1. PICK a \in Write : a = Send(Broadcast(p, Complaint))
  BY MessageFacts, WriteOps
<1>2. PICK b \in Write : b = Mark(Cursor(0, "Sent", "unnamed"))
  BY PlainMarks DEF Plain
<1>3. PICK x : x = <<a, b>>
  OBVIOUS
<1>4. x \in Seq(Write) /\ Len(x) = 2 /\ x[1] = a /\ x[2] = b
  BY <1>3
<1>5. Complain(p) = x
  BY <1>1, <1>2, <1>3 DEF Complain
<1>6. PICK v : v = Verified(x)
  OBVIOUS
<1>7. /\ v \in Seq(Write) /\ Len(v) = 5
      /\ v[1] = Mark(Cursor(0, "Collected", "shares"))
      /\ v[2] = Mark(Cursor(0, "Collected", "verified"))
      /\ v[3] = a /\ v[4] = b
      /\ v[5] = Mark(Cursor(0, "Sent", "complaints"))
  <2>1. 2 \in Nat /\ 2 + 3 = 5 /\ 1 \in 1 .. 2 /\ 2 \in 1 .. 2 /\ 2 + 1 = 3 /\ 2 + 2 = 4
    OBVIOUS
  <2>2. /\ v \in Seq(Write) /\ Len(v) = 2 + 3
        /\ v[1] = Mark(Cursor(0, "Collected", "shares"))
        /\ v[2] = Mark(Cursor(0, "Collected", "verified"))
        /\ \A i \in 1 .. 2 : v[2 + i] = x[i]
        /\ v[2 + 3] = Mark(Cursor(0, "Sent", "complaints"))
    BY <1>4, <1>6, <2>1, VerifiedAre
  <2>3. v[2 + 1] = x[1] /\ v[2 + 2] = x[2]
    BY <2>1, <2>2
  <2>. QED
    BY <1>4, <2>1, <2>2, <2>3
<1>8. ws = logs \o v
  BY <1>5, <1>6 DEF WithComplaint
<1>9. /\ ws \in Seq(Write) /\ Len(ws) = l + 5 /\ \A n \in 1 .. l : ws[n] = logs[n]
      /\ \A j \in 1 .. 5 : ws[l + j] = v[j]
  <2>1. IsJoin(ws, Write, logs, v, 5)
    BY <1>7, <1>8, Joined
  <2>. QED
    BY <2>1 DEF IsJoin
<1>10. \A j \in {1, 2, 4, 5} : /\ Plain(v[j]) /\ v[j].msg.name # "certified"
                               /\ "certified" \notin PassedBy(v[j].msg)
  BY <1>2, <1>7, PlainMarks
<1>11. \A j \in {1, 2, 4, 5} : ws[l + j] = v[j]
  <2>1. \A j \in {1, 2, 4, 5} : j \in 1 .. 5
    OBVIOUS
  <2>. QED
    BY <1>9, <2>1
<1>12. ws[l + 3] = a
  BY <1>7, <1>9
<1>13. \A j \in {1, 2, 4, 5} : /\ Plain(ws[l + j]) /\ ws[l + j].msg.name # "certified"
                               /\ "certified" \notin PassedBy(ws[l + j].msg)
  BY <1>10, <1>11
<1>. QED
  BY <1>1, <1>9, <1>12, <1>13

\* The deliveries that were taken are those of everyone else, and all are logged.
LEMMA DeliveryLogs ==
  ASSUME SessionInv, NEW p \in Party, session[p].at = Shares, Arrived(p), NEW logs \in Logs(p)
  PROVE  /\ logs \in Seq(Write)
         /\ \A n \in 1 .. Len(logs) : \E s \in Party \ {p} : logs[n] = AcceptLine(s, Shares)
         /\ \A s \in Party \ {p} :
              /\ Has(disk[s], Shares)
              /\ AcceptLine(s, Shares).op = "accept" /\ AcceptLine(s, Shares).msg = <<s, Shares>>
              /\ \E n \in 1 .. Len(logs) : logs[n] = AcceptLine(s, Shares)
<1>1. Shares \in 1 .. Shares /\ Shares \notin Residues /\ Senders(p, Shares) = Party \ {p}
  BY RoundFacts DEF Residues, Senders
<1>2. /\ logs \in Seq(Write)
      /\ \A n \in 1 .. Len(logs) : \E s \in Party :
           Taken(p, s) # 0 /\ logs[n] = AcceptLine(s, Taken(p, s))
      /\ \A s \in Party : Taken(p, s) # 0 =>
           \E n \in 1 .. Len(logs) : logs[n] = AcceptLine(s, Taken(p, s))
  BY <1>1, LogsFacts
<1>3. ASSUME NEW s \in Party, Taken(p, s) # 0
      PROVE  s \in Party \ {p} /\ Taken(p, s) = Shares /\ Has(disk[s], Shares)
  BY <1>1, <1>3, TakenFacts
<1>4. ASSUME NEW s \in Party \ {p} PROVE Taken(p, s) # 0
  BY <1>1, TakenFacts DEF Arrived
<1>5. ASSUME NEW s \in Party
      PROVE  AcceptLine(s, Shares).op = "accept" /\ AcceptLine(s, Shares).msg = <<s, Shares>>
  BY <1>1, WriteOps
<1>. QED
  BY <1>2, <1>3, <1>4, <1>5

\* VerifyShares without an invalid delivery: the resolution is behind the lines of all
\* deliveries, and the log holds no invalid one, as a delivery's verdict is settled by its line.
LEMMA CertifyStep ==
  ASSUME SessionInv, NEW p \in Party, Works(p, {Shares}), Arrived(p), NEW logs \in Logs(p),
         {} \in Verdicts(p), NEW rest, rest = [session[p] EXCEPT !.inbox = Without(p)],
         Perform(p, logs \o Verified(<<>>) \o CertifyWrites, rest, [rest EXCEPT !.at = SetupComplete])
  PROVE  SessionInv'
<1> DEFINE d == disk[p]
           after == [rest EXCEPT !.at = SetupComplete]
<1>1. /\ session[p].up /\ session[p].at = Shares /\ WholeBelow(d, Shares)
      /\ SoundDisk(p, d) /\ d \in DiskType
  BY WorksFacts, InvFacts
<1>2. /\ logs \in Seq(Write)
      /\ \A n \in 1 .. Len(logs) : \E s \in Party \ {p} : logs[n] = AcceptLine(s, Shares)
      /\ \A s \in Party \ {p} :
           /\ Has(disk[s], Shares)
           /\ AcceptLine(s, Shares).op = "accept" /\ AcceptLine(s, Shares).msg = <<s, Shares>>
           /\ \E n \in 1 .. Len(logs) : logs[n] = AcceptLine(s, Shares)
  BY <1>1, DeliveryLogs
<1>3. PICK l \in Nat : l = Len(logs)
  BY <1>2, SeqFacts
<1>4. PICK ws : ws = logs \o Verified(<<>>) \o CertifyWrites
  OBVIOUS
<1>5. /\ ws \in Seq(Write) /\ Len(ws) = l + 6
      /\ \A n \in 1 .. l : ws[n] = logs[n]
      /\ \A j \in {1, 2, 3} : /\ Plain(ws[l + j]) /\ ws[l + j].msg.name # "certified"
                              /\ "certified" \notin PassedBy(ws[l + j].msg)
      /\ ws[l + 4] = Resolve
      /\ \A j \in {5, 6} : Plain(ws[l + j])
  BY <1>2, <1>3, <1>4, CertifiedWrites
<1>6. \A n \in 1 .. l : ws[n].op = "accept" /\ Has(disk[ws[n].msg[1]], ws[n].msg[2])
  BY <1>2, <1>3, <1>5
<1>7. ws[l + 4].op = "resolve"
  BY <1>5, WriteOps
<1>8. \A n \in 1 .. (l + 6) : \/ n \in 1 .. l \/ n = l + 4
                              \/ (\E j \in {1, 2, 3} : n = l + j) \/ (\E j \in {5, 6} : n = l + j)
  OBVIOUS
\* What each write is, wherever it is.
<1>9. ASSUME NEW n \in 1 .. (l + 6)
      PROVE  /\ ws[n].op \in {"accept", "cursor", "resolve"}
             /\ ws[n].op = "accept" => Has(disk[ws[n].msg[1]], ws[n].msg[2])
             /\ ws[n].op = "resolve" => n = l + 4
             /\ ws[n].op = "cursor" => /\ Plain(ws[n])
                                       /\ n > l + 4 \/ /\ ws[n].msg.name # "certified"
                                                       /\ "certified" \notin PassedBy(ws[n].msg)
  <2>1. CASE n \in 1 .. l
    BY <1>6, <2>1
  <2>2. CASE n = l + 4
    BY <1>7, <2>2
  <2>3. CASE \E j \in {1, 2, 3} : n = l + j
    <3>1. ws[n].op = "cursor" /\ Plain(ws[n]) /\ ws[n].msg.name # "certified"
          /\ "certified" \notin PassedBy(ws[n].msg)
      BY <1>5, <2>3 DEF Plain
    <3>. QED
      BY <3>1
  <2>4. CASE \E j \in {5, 6} : n = l + j
    <3>1. ws[n].op = "cursor" /\ Plain(ws[n])
      BY <1>5, <2>4 DEF Plain
    <3>2. n > l + 4
      BY <2>4
    <3>. QED
      BY <3>1, <3>2
  <2>. QED
    BY <1>8, <2>1, <2>2, <2>3, <2>4
<1>10. d.invalid = {}
  <2>1. ASSUME NEW s \in d.invalid PROVE FALSE
    <3>1. s \in Party /\ <<s, Shares>> \in d.accepted
      BY <1>1 DEF SoundDisk, ResolvedIsWhole, DiskType
    <3>. QED
      BY <3>1 DEF Verdicts
  <2>. QED
    BY <2>1
<1>11. ASSUME NEW k \in 0 .. Len(ws), NEW e \in DiskType, Effect(d, e, ws, k)
       PROVE  CursorIsEarned(e) /\ BoundFirst(e) /\ ResolvedIsWhole(p, e)
              /\ (k > l + 3 => e.resolved)
  <2>1. k \in Int /\ \A n \in 1 .. k : n \in 1 .. (l + 6)
    BY <1>5
  <2>2. WholeBelow(e, Shares)
    BY <1>1, <1>11, DiskGrows
  <2>3. k > l + 3 => e.resolved
    <3>1. ASSUME k > l + 3 PROVE l + 4 \in 1 .. k
      BY <2>1, <3>1
    <3>2. k > l + 3 => ResolvedIn(ws, k)
      BY <1>7, <3>1 DEF ResolvedIn
    <3>. QED
      BY <1>11, <3>2, Zenon DEF Effect
  <2>4. CursorIsEarned(e)
    <3>1. ASSUME NEW n \in 1 .. k, ws[n].op = "cursor"
          PROVE  /\ WholeBelow(e, Reached(ws[n].msg))
                 /\ ws[n].msg.name = "residue" => ws[n].msg.round # 0
                 /\ ws[n].msg.name = "certified" => e.resolved
      <4>1. Plain(ws[n]) /\ (n > l + 4 \/ ws[n].msg.name # "certified")
        BY <1>9, <2>1, <3>1
      <4>2. Reached(ws[n].msg) \in Int /\ Reached(ws[n].msg) <= Shares
            /\ ws[n].msg.name # "residue"
        BY <4>1 DEF Plain
      <4>3. WholeBelow(e, Reached(ws[n].msg))
        BY <2>2, <4>2, RoundFacts, WholeBelowLess
      <4>4. n > l + 4 => k > l + 3
        BY <2>1
      <4>. QED
        BY <2>3, <4>1, <4>2, <4>3, <4>4
    <3>. QED
      BY <1>1, <1>11, <3>1, CursorKept DEF SoundDisk
  <2>5. BoundFirst(e)
    <3>1. \A n \in 1 .. k : ws[n].op # "send"
      BY <1>9, <2>1
    <3>. QED
      BY <1>1, <1>11, <3>1, BoundKept DEF SoundDisk
  <2>6. ResolvedIsWhole(p, e)
    <3>1. CASE k > l + 3
      <4>1. e.resolved
        BY <2>3, <3>1
      <4>2. e.invalid = {}
        <5>1. \A n \in 1 .. k : ws[n].op # "invalid"
          BY <1>9, <2>1
        <5>2. \A s : ~InvalidIn(ws, k, s)
          BY <5>1 DEF InvalidIn
        <5>. QED
          BY <1>10, <1>11, <5>2 DEF Effect
      <4>3. ASSUME NEW s \in Party \ {p} PROVE <<s, Shares>> \in e.accepted
        <5>1. PICK n \in 1 .. l : ws[n].op = "accept" /\ ws[n].msg = <<s, Shares>>
          BY <1>2, <1>3, <1>5
        <5>2. n \in 1 .. k
          BY <2>1, <3>1
        <5>3. AcceptedIn(ws, k, <<s, Shares>>)
          BY <5>1, <5>2 DEF AcceptedIn
        <5>. QED
          BY <1>11, <5>3 DEF Effect
      <4>. QED
        BY <2>2, <4>1, <4>2, <4>3 DEF ResolvedIsWhole, HasDeliveries
    <3>2. CASE ~(k > l + 3)
      <4>1. ASSUME NEW n \in 1 .. k
            PROVE  /\ ws[n].op \notin {"resolve", "invalid"}
                   /\ ws[n].op = "cursor" => "certified" \notin PassedBy(ws[n].msg)
        <5>1. ~(n > l + 4) /\ n # l + 4
          BY <2>1, <3>2
        <5>. QED
          BY <1>9, <2>1, <5>1
      <4>. QED
        BY <1>1, <1>11, <4>1, ResolvedKept DEF SoundDisk
    <3>. QED
      BY <3>1, <3>2
  <2>. QED
    BY <2>3, <2>4, <2>5, <2>6
<1>12. SafeWrites(p, ws)
  <2>1. \A n \in 1 .. Len(ws) : /\ ws[n].op \notin {"send", "invalid"}
                                /\ ws[n].op = "accept" => Has(disk[ws[n].msg[1]], ws[n].msg[2])
    BY <1>5, <1>9
  <2>. QED
    BY <1>5, <1>11, <2>1 DEF SafeWrites
<1>13. /\ SafeProcess(p, rest) /\ rest.at = Shares
       /\ SafeProcess(p, after) /\ after.at = SetupComplete
  <2>1. {Shares} \subseteq 1 .. Shares /\ SetupComplete \in Round
    BY RoundFacts DEF Round
  <2>2. /\ SafeProcess(p, rest) /\ rest.at = session[p].at
        /\ \A i \in Round : SafeProcess(p, [rest EXCEPT !.at = i]) /\ [rest EXCEPT !.at = i].at = i
    <3> DEFINE taken == [session[p] EXCEPT !.inbox = Without(p)]
    <3>1. /\ SafeProcess(p, taken) /\ taken.at = session[p].at
          /\ \A i \in Round : SafeProcess(p, [taken EXCEPT !.at = i]) /\ [taken EXCEPT !.at = i].at = i
      BY <2>1, CollectFacts
    <3>2. rest = taken
      OBVIOUS
    <3> HIDE DEF taken
    <3>. QED
      BY <3>1, <3>2
  <2>. QED
    BY <1>1, <2>1, <2>2
<1>14. \A e \in DiskType : Effect(d, e, ws, Len(ws)) =>
         WholeBelow(e, after.at) /\ (after.at = SetupComplete => e.resolved)
  <2> SUFFICES ASSUME NEW e \in DiskType, Effect(d, e, ws, Len(ws))
               PROVE  WholeBelow(e, SetupComplete) /\ e.resolved
    BY <1>13
  <2>1. Len(ws) \in 0 .. Len(ws) /\ Len(ws) > l + 3
    BY <1>5
  <2>2. e.resolved
    BY <1>11, <2>1
  <2>3. WholeBelow(e, Shares)
    BY <1>1, DiskGrows
  <2>4. WholeBelow(e, SetupComplete)
    BY <2>3, NumberFacts DEF WholeBelow
  <2>. QED
    BY <2>2, <2>4
<1>15. Perform(p, ws, rest, after)
  BY <1>4
<1> HIDE DEF after
<1>. QED
  BY <1>1, <1>12, <1>13, <1>14, <1>15, IterationKeepsInv

\* VerifyShares with an invalid delivery: nothing is resolved, and no resolution was there
\* before, as it would have had every delivery valid.
LEMMA ComplainStep ==
  ASSUME SessionInv, NEW p \in Party, Works(p, {Shares}), Arrived(p), NEW logs \in Logs(p),
         NEW invalid \in Verdicts(p), invalid # {},
         NEW rest, rest = [session[p] EXCEPT !.inbox = Without(p)],
         Perform(p, Delivered(logs, invalid) \o Verified(Complain(p)), rest,
                 [rest EXCEPT !.busy = FALSE])
  PROVE  SessionInv'
<1> DEFINE d == disk[p]
           after == [rest EXCEPT !.busy = FALSE]
<1>1. /\ session[p].up /\ session[p].at = Shares /\ WholeBelow(d, Shares)
      /\ SoundDisk(p, d) /\ d \in DiskType
  BY WorksFacts, InvFacts
<1>2. /\ logs \in Seq(Write)
      /\ \A n \in 1 .. Len(logs) : \E s \in Party \ {p} : logs[n] = AcceptLine(s, Shares)
      /\ \A s \in Party \ {p} :
           /\ Has(disk[s], Shares)
           /\ AcceptLine(s, Shares).op = "accept" /\ AcceptLine(s, Shares).msg = <<s, Shares>>
           /\ \E n \in 1 .. Len(logs) : logs[n] = AcceptLine(s, Shares)
  BY <1>1, DeliveryLogs
<1>3. PICK l \in Nat : l = Len(logs)
  BY <1>2, SeqFacts
<1>4. PICK lines : lines = Delivered(logs, invalid)
  OBVIOUS
\* A line of an invalid delivery is one of a party that did send it.
<1>5. ASSUME NEW n \in 1 .. l
      PROVE  \/ /\ lines[n].op = "accept" /\ Has(disk[lines[n].msg[1]], lines[n].msg[2])
                /\ lines[n] \in Write
             \/ /\ lines[n].op = "invalid" /\ lines[n].msg \in Party \ {p}
                /\ Has(disk[lines[n].msg], Shares) /\ lines[n] \in Write
  <2>1. PICK s \in Party \ {p} : logs[n] = AcceptLine(s, Shares)
    BY <1>2, <1>3
  <2>2. /\ logs[n].op = "accept" /\ logs[n].msg = <<s, Shares>> /\ logs[n].msg[1] = s
        /\ logs[n].msg[2] = Shares /\ Has(disk[s], Shares) /\ logs[n] \in Write
    <3>1. logs[n] \in Write
      BY <1>2, <1>3, SeqFacts
    <3>. QED
      BY <1>2, <2>1, <3>1
  <2>3. DOMAIN logs = 1 .. l
    BY <1>2, <1>3, SeqFacts
  <2>4. lines[n] = IF s \in invalid THEN AcceptInvalid(s) ELSE logs[n]
    BY <1>4, <2>2, <2>3 DEF Delivered
  <2>5. AcceptInvalid(s) \in Write /\ AcceptInvalid(s).op = "invalid" /\ AcceptInvalid(s).msg = s
    BY WriteOps
  <2>. QED
    BY <2>2, <2>4, <2>5
<1>6. lines \in Seq(Write) /\ Len(lines) = l
  <2>1. lines = [n \in 1 .. l |-> lines[n]]
    <3>1. DOMAIN logs = 1 .. l
      BY <1>2, <1>3, SeqFacts
    <3>. QED
      BY <1>4, <3>1 DEF Delivered
  <2>2. \A n \in 1 .. l : lines[n] \in Write
    BY <1>5
  <2>. QED
    BY <2>1, <2>2
<1>7. PICK ws : ws = WithComplaint(p, lines)
  OBVIOUS
<1>8. /\ ws \in Seq(Write) /\ Len(ws) = l + 5
      /\ \A n \in 1 .. l : ws[n] = lines[n]
      /\ \A j \in {1, 2, 4, 5} : /\ Plain(ws[l + j]) /\ ws[l + j].msg.name # "certified"
                                 /\ "certified" \notin PassedBy(ws[l + j].msg)
      /\ ws[l + 3] = Send(Broadcast(p, Complaint))
  BY <1>6, <1>7, ComplaintWrites
<1>9. PICK m \in Envelope : m = Broadcast(p, Complaint) /\ m \in Mine[p] /\ m.round = Complaint
  BY MessageFacts
<1>10. ws[l + 3].op = "send" /\ ws[l + 3].msg = m
  BY <1>8, <1>9, WriteOps
<1>11. Complaint \notin Coins \cup {Shares}
  BY RoundFacts DEF Coins
<1>12. \A n \in 1 .. (l + 5) : n \in 1 .. l \/ n = l + 3 \/ \E j \in {1, 2, 4, 5} : n = l + j
  OBVIOUS
<1>13. ASSUME NEW n \in 1 .. (l + 5)
       PROVE  \/ ws[n].op = "accept" /\ Has(disk[ws[n].msg[1]], ws[n].msg[2])
              \/ ws[n].op = "invalid" /\ ws[n].msg \in Party \ {p} /\ Has(disk[ws[n].msg], Shares)
              \/ ws[n].op = "send" /\ ws[n].msg = m
              \/ /\ ws[n].op = "cursor" /\ Plain(ws[n]) /\ ws[n].msg.name # "certified"
                 /\ "certified" \notin PassedBy(ws[n].msg)
  <2>1. CASE n \in 1 .. l
    BY <1>5, <1>8, <2>1
  <2>2. CASE n = l + 3
    BY <1>10, <2>2
  <2>3. CASE \E j \in {1, 2, 4, 5} : n = l + j
    BY <1>8, <2>3 DEF Plain
  <2>. QED
    BY <1>12, <2>1, <2>2, <2>3
<1>14. ~d.resolved
  <2>1. PICK s \in invalid : s \in Party \ {p}
    BY DEF Verdicts
  <2>2. <<s, Shares>> \in d.accepted => s \in d.invalid
    BY <2>1 DEF Verdicts
  <2>. QED
    BY <1>1, <2>1, <2>2 DEF SoundDisk, ResolvedIsWhole, HasDeliveries
<1>15. ASSUME NEW k \in 0 .. Len(ws), NEW e \in DiskType, Effect(d, e, ws, k)
       PROVE  CursorIsEarned(e) /\ BoundFirst(e) /\ ResolvedIsWhole(p, e)
  <2>1. k \in Int /\ \A n \in 1 .. k : n \in 1 .. (l + 5)
    BY <1>8
  <2>2. WholeBelow(e, Shares)
    BY <1>1, <1>15, DiskGrows
  <2>3. CursorIsEarned(e)
    <3>1. ASSUME NEW n \in 1 .. k, ws[n].op = "cursor"
          PROVE  /\ WholeBelow(e, Reached(ws[n].msg))
                 /\ ws[n].msg.name = "residue" => ws[n].msg.round # 0
                 /\ ws[n].msg.name = "certified" => e.resolved
      <4>1. Plain(ws[n]) /\ ws[n].msg.name # "certified"
        BY <1>13, <2>1, <3>1
      <4>2. Reached(ws[n].msg) \in Int /\ Reached(ws[n].msg) <= Shares
            /\ ws[n].msg.name # "residue"
        BY <4>1 DEF Plain
      <4>3. WholeBelow(e, Reached(ws[n].msg))
        BY <2>2, <4>2, RoundFacts, WholeBelowLess
      <4>. QED
        BY <4>1, <4>2, <4>3
    <3>. QED
      BY <1>1, <1>15, <3>1, CursorKept DEF SoundDisk
  <2>4. BoundFirst(e)
    <3>1. \A n \in 1 .. k : ws[n].op = "send" => ws[n].msg.round \notin Coins \cup {Shares}
      BY <1>9, <1>11, <1>13, <2>1
    <3>. QED
      BY <1>1, <1>15, <3>1, BoundKept DEF SoundDisk
  <2>5. ResolvedIsWhole(p, e)
    <3>1. ~ResolvedIn(ws, k) /\ ~PassedIn(ws, k, "certified")
      <4>1. \A n \in 1 .. k : /\ ws[n].op # "resolve"
                              /\ ws[n].op = "cursor" => "certified" \notin PassedBy(ws[n].msg)
        BY <1>13, <2>1
      <4>. QED
        BY <4>1 DEF ResolvedIn, PassedIn
    <3>2. ~e.resolved
      BY <1>14, <1>15, <3>1, Zenon DEF Effect
    <3>3. "certified" \notin e.passed
      <4>1. "certified" \notin d.passed
        BY <1>1, <1>14 DEF SoundDisk, ResolvedIsWhole
      <4>. QED
        BY <1>15, <3>1, <4>1 DEF Effect
    <3>4. \A s : InvalidIn(ws, k, s) => s # p /\ AcceptedIn(ws, k, <<s, Shares>>)
      BY <1>13, <2>1 DEF InvalidIn, AcceptedIn
    <3>5. ResolvedIsWhole(p, d)
      BY <1>1 DEF SoundDisk
    <3>6. ASSUME NEW s \in e.invalid PROVE s # p /\ <<s, Shares>> \in e.accepted
      <4>1. s \in d.invalid \/ InvalidIn(ws, k, s)
        BY <1>15, <3>6 DEF Effect
      <4>2. CASE s \in d.invalid
        BY <1>15, <3>5, <4>2 DEF Effect, ResolvedIsWhole
      <4>3. CASE InvalidIn(ws, k, s)
        BY <1>15, <3>4, <4>3 DEF Effect
      <4>. QED
        BY <4>1, <4>2, <4>3
    <3>. QED
      BY <3>2, <3>3, <3>6 DEF ResolvedIsWhole
  <2>. QED
    BY <2>3, <2>4, <2>5
<1>16. SafeWrites(p, ws)
  <2>1. \A n \in 1 .. Len(ws) :
          /\ ws[n].op = "send" => ws[n].msg \in Mine[p]
          /\ ws[n].op = "accept" => Has(disk[ws[n].msg[1]], ws[n].msg[2])
          /\ ws[n].op = "invalid" => Has(disk[ws[n].msg], Shares)
    BY <1>8, <1>9, <1>13
  <2>. QED
    BY <1>8, <1>15, <2>1 DEF SafeWrites
<1>17. /\ SafeProcess(p, rest) /\ rest.at = Shares
       /\ SafeProcess(p, after) /\ after.at = Shares
  <2>1. {Shares} \subseteq 1 .. Shares
    BY RoundFacts
  <2>. QED
    BY <1>1, <2>1, CollectFacts
<1>18. \A e \in DiskType : Effect(d, e, ws, Len(ws)) =>
         WholeBelow(e, after.at) /\ (after.at = SetupComplete => e.resolved)
  BY <1>1, <1>17, RoundFacts, DiskGrows
<1>19. Perform(p, ws, rest, after)
  BY <1>4, <1>7 DEF WithComplaint
<1> HIDE DEF after
<1>. QED
  BY <1>1, <1>16, <1>17, <1>18, <1>19, IterationKeepsInv

\* VerifyShares, in all its outcomes.
LEMMA VerifySharesStep ==
  ASSUME SessionInv, NEW p \in Party, VerifyShares(p)
  PROVE  SessionInv'
<1> DEFINE rest == [session[p] EXCEPT !.inbox = Without(p)]
<1>1. Works(p, {Shares})
  BY DEF VerifyShares
<1>2. CASE Wait(p, Cursor(0, "Waiting", "unnamed"))
  <2>1. PICK c \in CursorType : /\ c = Cursor(0, "Waiting", "unnamed") /\ c.name = "unnamed"
                                /\ "certified" \notin PassedBy(c)
    BY PlainCursor
  <2>2. Reached(c) = 1
    BY <2>1 DEF Reached
  <2>3. session[p].at = Shares /\ SetupComplete \notin {Shares} /\ 1 <= Shares
    BY <1>1, WorksFacts, RoundFacts
  <2>. QED
    BY <1>1, <1>2, <2>1, <2>2, <2>3, WaitStep
<1>3. CASE /\ Arrived(p)
           /\ \E logs \in Logs(p), invalid \in Verdicts(p) :
                IF invalid = {}
                THEN Perform(p, logs \o Verified(<<>>) \o CertifyWrites, rest, [rest EXCEPT !.at = SetupComplete])
                ELSE Perform(p, Delivered(logs, invalid) \o Verified(Complain(p)), rest,
                             [rest EXCEPT !.busy = FALSE])
  <2>1. PICK logs \in Logs(p), invalid \in Verdicts(p) :
          IF invalid = {}
          THEN Perform(p, logs \o Verified(<<>>) \o CertifyWrites, rest, [rest EXCEPT !.at = SetupComplete])
          ELSE Perform(p, Delivered(logs, invalid) \o Verified(Complain(p)), rest,
                       [rest EXCEPT !.busy = FALSE])
    BY <1>3
  <2>2. CASE invalid = {}
    BY <1>1, <1>3, <2>1, <2>2, CertifyStep
  <2>3. CASE invalid # {}
    BY <1>1, <1>3, <2>1, <2>3, ComplainStep
  <2>. QED
    BY <2>2, <2>3
<1>. QED
  BY <1>2, <1>3 DEF VerifyShares

(***************************************************************************)
(* The application, crashes and restarts: only memories and links change.  *)
(***************************************************************************)
LEMMA ConcatSet ==
  ASSUME NEW V, NEW s \in Seq(V), NEW t \in Seq(V)
  PROVE  s \o t \in Seq(V) /\ \A m : m \in ToSet(s \o t) => m \in ToSet(s) \/ m \in ToSet(t)
<1>1. PICK n \in Nat : n = Len(t)
  BY SeqFacts
<1>2. PICK u : u = s \o t
  OBVIOUS
<1>3. /\ u \in Seq(V) /\ Len(u) = Len(s) + n /\ Len(s) \in Nat
      /\ \A i \in 1 .. Len(s) : u[i] = s[i] /\ \A j \in 1 .. n : u[Len(s) + j] = t[j]
  <2>1. IsJoin(u, V, s, t, n)
    BY <1>1, <1>2, Joined
  <2>. QED
    BY <2>1 DEF IsJoin
<1>4. DOMAIN u = 1 .. (Len(s) + n) /\ DOMAIN s = 1 .. Len(s) /\ DOMAIN t = 1 .. n
  BY <1>1, <1>3, SeqFacts
<1>5. ASSUME NEW i \in 1 .. (Len(s) + n) PROVE u[i] \in ToSet(s) \/ u[i] \in ToSet(t)
  <2>1. i \in 1 .. Len(s) \/ \E j \in 1 .. n : i = Len(s) + j
    BY <1>3, JoinedPlaces
  <2>2. CASE i \in 1 .. Len(s)
    BY <1>3, <1>4, <2>2 DEF ToSet
  <2>3. CASE \E j \in 1 .. n : i = Len(s) + j
    <3>1. PICK j \in 1 .. n : i = Len(s) + j
      BY <2>3
    <3>2. j \in DOMAIN t /\ u[i] = t[j]
      <4>1. u[Len(s) + j] = t[j]
        <5>1. CASE Len(s) = 0
          <6>1. n = Len(t) /\ j \in 1 .. Len(t)
            BY <1>1
          <6>. QED
            BY <1>1, <1>2, <5>1, Joined DEF IsJoin
        <5>2. CASE Len(s) # 0
          <6>1. 1 \in 1 .. Len(s)
            BY <1>3, <5>2
          <6>. QED
            BY <1>3, <6>1
        <5>. QED
          BY <5>1, <5>2
      <4>. QED
        BY <1>4, <3>1, <4>1
    <3>. QED
      BY <3>2 DEF ToSet
  <2>. QED
    BY <2>1, <2>2, <2>3
<1>6. \A m : m \in ToSet(u) => m \in ToSet(s) \/ m \in ToSet(t)
  BY <1>4, <1>5 DEF ToSet
<1>. QED
  BY <1>2, <1>3, <1>6

\* A step that writes to no disk keeps the invariant when the session it leaves is sound and
\* nothing new is heard that is not in the log of its sender.
LEMMA MemoryStep ==
  ASSUME SessionInv, NEW p \in Party, NEW me \in ProcessType,
         session' = [session EXCEPT ![p] = me], disk' = disk,
         refused' \subseteq Party, faults' \in 0 .. MaxFaults,
         link' \in [Party -> [Party -> Seq(Number)]],
         SoundProcess(disk[p], me),
         \A s \in Party : \A i \in ToSet(me.inbox[s]) : Has(disk[s], i),
         \A q, s \in Party : \A i \in ToSet(link'[s][q]) : Has(disk[s], i)
  PROVE  SessionInv'
<1>1. session \in [Party -> ProcessType]
  BY InvFacts
<1>2. /\ session'[p] = me /\ \A q \in Party \ {p} : session'[q] = session[q]
      /\ session' \in [Party -> ProcessType]
  BY <1>1
<1>3. StateType'
  BY <1>2 DEF SessionInv, StateType
<1>4. \A q \in Party : SoundDisk(q, disk'[q]) /\ SoundProcess(disk'[q], session'[q])
  BY <1>2 DEF SessionInv
<1>5. ASSUME NEW q \in Party, NEW s \in Party PROVE Heard(q, s)'
  <2>1. \A i \in ToSet(session'[q].inbox[s]) : Has(disk[s], i)
    BY <1>2 DEF SessionInv, Heard
  <2>2. \A i \in 1 .. Shares : <<s, i>> \in disk[q].accepted => Has(disk[s], i)
    BY DEF SessionInv, Heard
  <2>. QED
    BY <2>1, <2>2 DEF Heard
<1>. QED
  BY <1>3, <1>4, <1>5 DEF SessionInv

\* Where links stay as they are.
LEMMA LinksHeard ==
  ASSUME SessionInv
  PROVE  /\ \A q, s \in Party : \A i \in ToSet(link[s][q]) : Has(disk[s], i)
         /\ \A q, s \in Party : \A i \in ToSet(session[q].inbox[s]) : Has(disk[s], i)
         /\ link \in [Party -> [Party -> Seq(Number)]]
         /\ refused \subseteq Party /\ faults \in 0 .. MaxFaults
  BY DEF SessionInv, Heard, StateType

\* Return: only the flag of the call changes.
LEMMA ReturnStep ==
  ASSUME SessionInv, NEW p \in Party, Return(p)
  PROVE  SessionInv'
<1>1. PICK me : me = [session[p] EXCEPT !.busy = FALSE]
  OBVIOUS
<1>2. session[p] \in ProcessType /\ SoundProcess(disk[p], session[p])
  BY InvFacts
<1>3. /\ me \in ProcessType /\ me.inbox = session[p].inbox /\ ~me.busy /\ me.at = session[p].at
      /\ me.up = session[p].up /\ me.outbound = session[p].outbound
  BY <1>1, <1>2 DEF ProcessType
<1>4. session' = [session EXCEPT ![p] = me]
  BY <1>1 DEF Return
<1>5. disk' = disk /\ link' = link /\ refused' = refused /\ faults' = faults
  BY DEF Return
<1>6. SoundProcess(disk[p], me)
  BY <1>2, <1>3 DEF SoundProcess
<1>. QED
  BY <1>3, <1>4, <1>5, <1>6, LinksHeard, MemoryStep

\* Crash: the memory is lost, and nothing else is.
LEMMA CrashStep ==
  ASSUME SessionInv, NEW p \in Party, Crash(p)
  PROVE  SessionInv'
<1>1. session' = [session EXCEPT ![p] = Down] /\ disk' = disk /\ link' = link /\ refused' = refused
  BY DEF Crash
<1>2. faults' \in 0 .. MaxFaults
  BY LinksHeard, SetupAssumption DEF Crash
<1>3. ToSet(<<>>) = {}
  BY DEF ToSet
<1>4. SoundProcess(disk[p], Down)
  BY <1>3, DownFacts DEF SoundProcess
<1>5. \A s \in Party : Down.inbox[s] = <<>>
  BY DownFacts DEF NoMessages
<1>. QED
  BY <1>1, <1>2, <1>3, <1>4, <1>5, DownFacts, LinksHeard, MemoryStep

\* Route: what is queued is in the log of the sender.
LEMMA RouteStep ==
  ASSUME SessionInv, NEW p \in Party, Route(p)
  PROVE  SessionInv'
<1>1. PICK me : me = [session[p] EXCEPT !.outbound = <<>>]
  OBVIOUS
<1>2. session[p] \in ProcessType /\ SoundProcess(disk[p], session[p])
  BY InvFacts
<1>3. /\ me \in ProcessType /\ me.inbox = session[p].inbox /\ me.busy = session[p].busy
      /\ me.at = session[p].at /\ me.up = session[p].up /\ me.outbound = <<>>
  <2>1. <<>> \in Seq(Envelope)
    BY EmptySeq
  <2>. QED
    BY <1>1, <1>2, <2>1 DEF ProcessType
<1>4. session' = [session EXCEPT ![p] = me]
  BY <1>1 DEF Route
<1>5. disk' = disk /\ refused' = refused /\ faults' = faults
  BY DEF Route
<1>6. SoundProcess(disk[p], me)
  <2>1. ToSet(<<>>) = {}
    BY DEF ToSet
  <2>. QED
    BY <1>2, <1>3, <2>1 DEF SoundProcess
<1>7. PICK out \in Seq(Envelope) : out = session[p].outbound
  BY <1>2 DEF ProcessType
<1>8. link' = [link EXCEPT ![p] = [q \in Party |-> @[q] \o RoundsTo(out, q)]]
  BY <1>7 DEF Route
<1>9. ASSUME NEW q \in Party
      PROVE  /\ link'[p][q] \in Seq(Number)
             /\ \A i \in ToSet(link'[p][q]) : Has(disk[p], i)
  <2>1. PICK more : more = RoundsTo(out, q)
    OBVIOUS
  <2>2. more \in Seq(Number) /\ link[p][q] \in Seq(Number)
    BY <2>1, RoundsToFacts, LinksHeard
  <2>3. link'[p][q] = link[p][q] \o more
    BY <1>8, <2>1, LinksHeard
  <2>4. ASSUME NEW i \in ToSet(more) PROVE Has(disk[p], i)
    <3>1. PICK k \in 1 .. Len(out) : out[k].round = i
      BY <2>1, RoundsToFacts
    <3>2. out[k] \in ToSet(out)
      <4>1. DOMAIN out = 1 .. Len(out)
        BY SeqFacts
      <4>. QED
        BY <4>1 DEF ToSet
    <3>. QED
      BY <1>2, <1>7, <3>1, <3>2 DEF SoundProcess, Has
  <2>5. PICK old \in Seq(Number) : old = link[p][q]
    BY <2>2
  <2>6. PICK u : u = old \o more
    OBVIOUS
  <2>7. u \in Seq(Number) /\ \A m : m \in ToSet(u) => m \in ToSet(old) \/ m \in ToSet(more)
    BY <2>2, <2>6, ConcatSet
  <2>8. link'[p][q] = u
    BY <2>3, <2>5, <2>6
  <2>9. \A i \in ToSet(old) : Has(disk[p], i)
    BY <2>5, LinksHeard
  <2>. QED
    BY <2>4, <2>7, <2>8, <2>9
<1>10. \A s \in Party \ {p}, q \in Party : link'[s][q] = link[s][q]
  BY <1>8, LinksHeard
<1>11. link' \in [Party -> [Party -> Seq(Number)]]
  <2>1. link'[p] = [q \in Party |-> link'[p][q]]
    BY <1>8, LinksHeard
  <2>2. PICK row \in [Party -> Seq(Number)] : row = link'[p]
    BY <1>9, <2>1
  <2>3. link' = [link EXCEPT ![p] = row]
    BY <1>8, <2>2, LinksHeard
  <2>. QED
    BY <2>3, LinksHeard
<1>12. \A q, s \in Party : \A i \in ToSet(link'[s][q]) : Has(disk[s], i)
  BY <1>9, <1>10, LinksHeard
<1>. QED
  BY <1>3, <1>4, <1>5, <1>6, <1>11, <1>12, LinksHeard, MemoryStep

\* Handle: what was on a link is in the inbox.
LEMMA HandleStep ==
  ASSUME SessionInv, NEW s \in Party, NEW p \in Party, Handle(s, p)
  PROVE  SessionInv'
<1>1. PICK ms \in Seq(Number) : ms = link[s][p]
  BY LinksHeard
<1>2. ms # <<>>
  BY <1>1 DEF Handle
<1>3. PICK box \in [Party -> Seq(Number)] : box = session[p].inbox
  BY InvFacts DEF ProcessType
<1>4. PICK i : i = Head(ms)
  OBVIOUS
<1>5. i \in Number /\ i \in ToSet(ms) /\ Tail(ms) \in Seq(Number)
      /\ \A m : m \in ToSet(Tail(ms)) => m \in ToSet(ms)
  <2>1. /\ Head(ms) \in Number /\ Head(ms) = ms[1] /\ Tail(ms) \in Seq(Number)
        /\ Len(Tail(ms)) = Len(ms) - 1
        /\ \A n \in 1 .. Len(Tail(ms)) : Tail(ms)[n] = ms[n + 1]
    BY <1>2, HeadTailProperties
  <2>2. Len(ms) \in Nat /\ Len(ms) # 0 /\ DOMAIN ms = 1 .. Len(ms)
    BY <1>2, SeqFacts, EmptySeq
  <2>3. 1 \in 1 .. Len(ms) /\ DOMAIN Tail(ms) = 1 .. (Len(ms) - 1)
    BY <2>1, <2>2, SeqFacts
  <2>4. \A n \in 1 .. (Len(ms) - 1) : n + 1 \in 1 .. Len(ms) /\ Tail(ms)[n] = ms[n + 1]
    BY <2>1, <2>2
  <2>5. PICK t : t = Tail(ms)
    OBVIOUS
  <2>6. t \in Seq(Number) /\ DOMAIN t = 1 .. (Len(ms) - 1)
        /\ \A n \in 1 .. (Len(ms) - 1) : n + 1 \in 1 .. Len(ms) /\ t[n] = ms[n + 1]
    BY <2>1, <2>3, <2>4, <2>5
  <2>7. \A m : m \in ToSet(t) => m \in ToSet(ms)
    BY <2>2, <2>6 DEF ToSet
  <2>8. i = ms[1] /\ i \in Number
    BY <1>4, <2>1
  <2>9. i \in ToSet(ms)
    BY <2>2, <2>3, <2>8 DEF ToSet
  <2>. QED
    BY <2>5, <2>6, <2>7, <2>8, <2>9
<1>6. PICK more : more = Append(box[s], i)
  OBVIOUS
<1>7. more \in Seq(Number) /\ \A m : m \in ToSet(more) <=> m \in ToSet(box[s]) \/ m = i
  BY <1>3, <1>5, <1>6, AppendSet
<1>8. PICK inbox \in [Party -> Seq(Number)] : inbox = [box EXCEPT ![s] = more]
  BY <1>3, <1>7
<1>9. PICK me : me = [session[p] EXCEPT !.inbox = inbox, !.busy = TRUE]
  OBVIOUS
<1>10. session[p] \in ProcessType /\ SoundProcess(disk[p], session[p]) /\ session[p].up
  BY InvFacts DEF Handle, Idle
<1>11. /\ me \in ProcessType /\ me.inbox = inbox /\ me.at = session[p].at /\ me.up
       /\ me.outbound = session[p].outbound
  BY <1>9, <1>10 DEF ProcessType
<1>12. session' = [session EXCEPT ![p] = me]
  BY <1>1, <1>3, <1>4, <1>6, <1>8, <1>9, InvFacts DEF Handle, ProcessType
<1>13. SoundProcess(disk[p], me)
  BY <1>10, <1>11 DEF SoundProcess
<1>14. disk' = disk /\ refused' = refused /\ faults' = faults
       /\ link' = [link EXCEPT ![s][p] = Tail(ms)]
  BY <1>1 DEF Handle
<1>15. /\ link' \in [Party -> [Party -> Seq(Number)]]
       /\ \A q, r \in Party : link'[r][q] = IF r = s /\ q = p THEN Tail(ms) ELSE link[r][q]
  BY <1>5, <1>14, LinksHeard
<1>16. \A q, r \in Party : \A j \in ToSet(link'[r][q]) : Has(disk[r], j)
  BY <1>1, <1>5, <1>15, LinksHeard
<1>17. \A r \in Party : \A j \in ToSet(me.inbox[r]) : Has(disk[r], j)
  <2> SUFFICES ASSUME NEW r \in Party, NEW j \in ToSet(inbox[r]) PROVE Has(disk[r], j)
    BY <1>11
  <2>1. CASE r = s /\ j = i
    BY <1>1, <1>5, <2>1, LinksHeard
  <2>2. CASE j \in ToSet(box[r])
    BY <1>3, <2>2, LinksHeard
  <2>3. r = s => inbox[r] = more
    BY <1>8
  <2>4. r # s => inbox[r] = box[r]
    BY <1>8
  <2>. QED
    BY <1>7, <2>1, <2>2, <2>3, <2>4
<1>. QED
  BY <1>11, <1>12, <1>13, <1>14, <1>15, <1>16, <1>17, LinksHeard, MemoryStep

(***************************************************************************)
(* Restart.                                                                *)
(***************************************************************************)
LEMMA FirstOpenFacts ==
  ASSUME NEW p, NEW a \in Nat, NEW b \in Nat, a <= b, b + 1 \in Round
  PROVE  /\ FirstOpen(p, a .. b) \in a .. (b + 1)
         /\ \A j \in a .. b : j < FirstOpen(p, a .. b) => Everyone(p, j)
<1> DEFINE rounds == a .. b
           last == CHOOSE n \in Round : n - 1 \in rounds /\ n \notin rounds
           IsFirst(i) == /\ i \in rounds => ~Everyone(p, i)
                         /\ \A j \in rounds : j < i => Everyone(p, j)
<1>1. last = b + 1
  <2>1. (b + 1) - 1 \in rounds /\ b + 1 \notin rounds
    OBVIOUS
  <2>2. last - 1 \in rounds /\ last \notin rounds /\ last \in Round
    BY <2>1
  <2>3. Round \subseteq Int
    BY DEF Round
  <2>4. \A n \in Int : n - 1 \in a .. b /\ n \notin a .. b => n = b + 1
    OBVIOUS
  <2> HIDE DEF last
  <2>. QED
    BY <2>2, <2>3, <2>4
<1>2. \E i \in rounds \cup {last} : IsFirst(i)
  <2> DEFINE S == {j \in a .. b : ~Everyone(p, j)} \cup {b + 1}
  <2>1. S \in SUBSET Nat /\ S # {}
    OBVIOUS
  <2>2. PICK i \in S : \A m \in S : i <= m
    <3> HIDE DEF S
    <3>. QED
      BY <2>1, LeastNumber
  <2>3. i \in a .. (b + 1)
    OBVIOUS
  <2>4. \A j \in a .. b : j < i => Everyone(p, j)
    <3> SUFFICES ASSUME NEW j \in a .. b, j < i, ~Everyone(p, j) PROVE FALSE
      OBVIOUS
    <3>1. j \in S
      OBVIOUS
    <3>. QED
      BY <2>2, <2>3, <3>1
  <2>5. i \in rounds => ~Everyone(p, i)
    OBVIOUS
  <2>6. i \in rounds \cup {last}
    BY <1>1, <2>3
  <2>. QED
    BY <2>4, <2>5, <2>6
<1>3. FirstOpen(p, rounds) = CHOOSE i \in rounds \cup {last} : IsFirst(i)
  BY DEF FirstOpen
<1>4. FirstOpen(p, rounds) \in rounds \cup {last} /\ IsFirst(FirstOpen(p, rounds))
  <2> HIDE DEF IsFirst, last
  <2>. QED
    BY <1>2, <1>3
<1> HIDE DEF last
<1>. QED
  BY <1>1, <1>4

\* The rounds with a check, by where they stand.
LEMMA LateBelow ==
  ASSUME NEW j \in Late
  PROVE  /\ j \in Int /\ j > NResidues /\ j < Shares
         /\ j <= LastPrecommit => j \in Precommits
         /\ j < Commitments => j <= LastPrecommit \/ j \in Coins
         /\ j < Audits => j <= Commitments
         /\ j < Consistency => j <= Audits
  BY RoundFacts DEF Late, Precommits, Coins

\* resume_phase_from_logs: whatever cursor was on disk when the process died, everything
\* below the round in which it resumes is whole, by the claim of the cursor, by the rounds
\* FirstOpen passed over, or by the commitments Resumes asks for.
LEMMA PhaseFacts ==
  ASSUME SessionInv, NEW p \in Party, Resumes(p)
  PROVE  LET at == PhaseFromLogs(p).at IN
         /\ at \in Round /\ PhaseFromLogs(p).sent \in BOOLEAN
         /\ WholeBelow(disk[p], at)
         /\ at = SetupComplete => disk[p].resolved
<1> DEFINE d == disk[p]
           c == d.cursor
           collected == c.state = "Collected"
           at == PhaseFromLogs(p).at
           Fine == /\ at \in Round /\ PhaseFromLogs(p).sent \in BOOLEAN /\ WholeBelow(d, at)
                   /\ at = SetupComplete => d.resolved
<1> SUFFICES Fine
  OBVIOUS
<1>1. d \in DiskType /\ SoundDisk(p, d) /\ c \in CursorType /\ c.name \in SubPhase
      /\ c.round \in 0 .. NResidues
  BY InvFacts DEF DiskType, CursorType
<1>2. WholeBelow(d, Reached(c)) /\ ResolvedIsWhole(p, d)
      /\ (c.name = "residue" => c.round # 0) /\ (c.name = "certified" => d.resolved)
  BY <1>1 DEF SoundDisk, CursorIsEarned
<1>4. \A i : Everyone(p, i) <=> Whole(d, i)
  BY DEF Everyone, Whole
<1>5. at \in {Audits, Consistency, Shares} => Whole(d, Commitments)
  BY <1>4 DEF Resumes
<1>6. \A i \in 0 .. (NResidues + 1) : WholeBelow(d, i)
  BY RoundFacts, LateBelow DEF WholeBelow
<1>7. Round = 1 .. SetupComplete
  BY DEF Round
<1>8. CASE c.name \in {"none", "unnamed"} /\ ~Certified(p)
  <2>1. PhaseFromLogs(p).at = 1 /\ PhaseFromLogs(p).sent \in BOOLEAN
    BY <1>8 DEF PhaseFromLogs, At
  <2>2. 1 \in Round /\ 1 # SetupComplete /\ WholeBelow(d, 1)
    BY <1>6, <1>7, RoundFacts
  <2>. QED
    BY <2>1, <2>2
<1>9. CASE Certified(p)
  <2>1. d.resolved
    BY <1>2, <1>9 DEF Certified
  <2>2. WholeBelow(d, SetupComplete)
    BY <1>2, <2>1, LateBelow DEF ResolvedIsWhole, WholeBelow
  <2>3. SetupComplete \in Round
    BY <1>7, RoundFacts
  <2>4. PhaseFromLogs(p).at \in {1, SetupComplete} /\ PhaseFromLogs(p).sent \in BOOLEAN
    BY <1>9 DEF PhaseFromLogs, At
  <2>5. 1 \in Round /\ WholeBelow(d, 1)
    BY <1>6, <1>7, RoundFacts
  <2>. QED
    BY <2>1, <2>2, <2>3, <2>4, <2>5
<1>10. CASE c.name = "residue" /\ ~Certified(p)
  <2>1. PhaseFromLogs(p).at \in {c.round, c.round + 1} /\ PhaseFromLogs(p).sent \in BOOLEAN
    BY <1>10 DEF PhaseFromLogs, At
  <2>2. \A i \in {c.round, c.round + 1} : i \in Round /\ i # SetupComplete /\ WholeBelow(d, i)
    BY <1>1, <1>2, <1>6, <1>7, <1>10, RoundFacts
  <2>. QED
    BY <2>1, <2>2
<1>11. CASE c.name = "precommit" /\ ~Certified(p)
  <2> DEFINE i == FirstOpen(p, Precommits)
  <2>1. PhaseFromLogs(p).at = i /\ PhaseFromLogs(p).sent \in BOOLEAN
    BY <1>11 DEF PhaseFromLogs, At
  <2>2. i \in (NResidues + 1) .. (LastPrecommit + 1) /\ \A j \in Precommits : j < i => Whole(d, j)
    <3>1. NResidues + 1 \in Nat /\ LastPrecommit \in Nat /\ NResidues + 1 <= LastPrecommit
          /\ LastPrecommit + 1 \in Round
      BY <1>7, RoundFacts
    <3>. QED
      BY <1>4, <3>1, FirstOpenFacts DEF Precommits
  <2> HIDE DEF i
  <2>3. i \in Round /\ i # SetupComplete
    BY <1>7, <2>2, RoundFacts
  <2>4. WholeBelow(d, i)
    <3>1. \A j \in Late : j < i => j \in Precommits
      BY <2>2, LateBelow, RoundFacts
    <3>. QED
      BY <2>2, <3>1 DEF WholeBelow
  <2>. QED
    BY <2>1, <2>3, <2>4
<1>12. CASE c.name = "coin" /\ ~Certified(p)
  <2> DEFINE i == FirstOpen(p, Coins)
  <2>1. PhaseFromLogs(p).at = i /\ PhaseFromLogs(p).sent \in BOOLEAN
    BY <1>12 DEF PhaseFromLogs, At
  <2>2. i \in (LastPrecommit + 1) .. Commitments /\ \A j \in Coins : j < i => Whole(d, j)
    <3>1. LastPrecommit + 1 \in Nat /\ Commitments - 1 \in Nat /\ LastPrecommit + 1 <= Commitments - 1
          /\ (Commitments - 1) + 1 \in Round /\ (Commitments - 1) + 1 = Commitments
      BY <1>7, RoundFacts
    <3>2. PICK b \in Nat : b = Commitments - 1
      BY <3>1
    <3>3. /\ FirstOpen(p, (LastPrecommit + 1) .. b) \in (LastPrecommit + 1) .. (b + 1)
          /\ \A j \in (LastPrecommit + 1) .. b :
               j < FirstOpen(p, (LastPrecommit + 1) .. b) => Everyone(p, j)
      BY <3>1, <3>2, FirstOpenFacts
    <3>. QED
      BY <1>4, <3>1, <3>2, <3>3 DEF Coins
  <2> HIDE DEF i
  <2>3. i \in Round /\ i # SetupComplete /\ i \in Int
    BY <1>7, <2>2, RoundFacts
  <2>4. WholeBelow(d, LastPrecommit + 1)
    BY <1>2, <1>12 DEF Reached
  <2>5. WholeBelow(d, i)
    <3>1. \A j \in Late : j < i => j < LastPrecommit + 1 \/ j \in Coins
      BY <2>2, LateBelow, RoundFacts
    <3>. QED
      BY <2>2, <2>4, <3>1 DEF WholeBelow
  <2>. QED
    BY <2>1, <2>3, <2>5
<1>13. ASSUME WholeBelow(d, Commitments), Whole(d, Commitments)
       PROVE  WholeBelow(d, Audits)
  BY <1>13, LateBelow, RoundFacts DEF WholeBelow
<1>14. /\ Commitments \in Round /\ Audits \in Round /\ Consistency \in Round /\ Shares \in Round
       /\ SetupComplete \notin {Commitments, Audits, Consistency, Shares}
  BY <1>7, RoundFacts
<1>15. CASE c.name = "commitments" /\ ~Certified(p)
  <2>1. PhaseFromLogs(p).at \in {Commitments, Audits} /\ PhaseFromLogs(p).sent \in BOOLEAN
    BY <1>15 DEF PhaseFromLogs, At
  <2>2. WholeBelow(d, Commitments)
    BY <1>2, <1>15 DEF Reached
  <2>. QED
    BY <1>5, <1>13, <1>14, <2>1, <2>2
<1>16. CASE c.name = "audits" /\ ~Certified(p)
  <2>1. /\ PhaseFromLogs(p).at = IF collected THEN Consistency ELSE Audits
        /\ PhaseFromLogs(p).sent \in BOOLEAN
    BY <1>16 DEF PhaseFromLogs, At
  <2>2. WholeBelow(d, IF collected THEN Consistency ELSE Commitments)
    BY <1>2, <1>16 DEF Reached
  <2>. QED
    BY <1>5, <1>13, <1>14, <2>1, <2>2
<1>17. CASE c.name = "consistency" /\ ~Certified(p)
  <2>1. PhaseFromLogs(p).at = Audits /\ PhaseFromLogs(p).sent \in BOOLEAN
    BY <1>17 DEF PhaseFromLogs, At
  <2>2. WholeBelow(d, Commitments)
    BY <1>2, <1>17 DEF Reached
  <2>. QED
    BY <1>5, <1>13, <1>14, <2>1, <2>2
<1>18. CASE c.name \in {"shares", "verified", "complaints", "resolution"} /\ ~Certified(p)
  <2>1. PhaseFromLogs(p).at = Shares /\ PhaseFromLogs(p).sent \in BOOLEAN
    BY <1>18 DEF PhaseFromLogs, At
  <2>2. WholeBelow(d, Shares)
    BY <1>2, <1>18 DEF Reached
  <2>. QED
    BY <1>14, <2>1, <2>2
<1>19. c.name = "certified" => Certified(p)
  BY DEF Certified
<1>20. c.name \in {"none", "unnamed", "residue", "precommit", "coin", "commitments", "audits",
                   "consistency", "shares", "verified", "complaints", "resolution", "certified"}
  BY <1>1 DEF SubPhase
<1> HIDE DEF Fine, c, d, at, collected
<1>. QED
  BY <1>8, <1>9, <1>10, <1>11, <1>12, <1>15, <1>16, <1>17, <1>18, <1>19, <1>20

\* Resume: the session starts in that round, with the messages of its log queued.
LEMMA ResumeStep ==
  ASSUME SessionInv, NEW p \in Party, Resume(p)
  PROVE  SessionInv'
<1>1. disk' = disk /\ link' = link /\ faults' = faults
  BY DEF Resume
<1>2. CASE Resumes(p)
  <2>1. PICK i \in Round, sent \in BOOLEAN :
          /\ i = PhaseFromLogs(p).at /\ sent = PhaseFromLogs(p).sent
          /\ WholeBelow(disk[p], i)
          /\ i = SetupComplete => disk[p].resolved
    BY <1>2, PhaseFacts
  <2>2. PICK out \in Seq(Envelope) : out = disk[p].sent
    BY InvFacts DEF DiskType
  <2>3. PICK me \in ProcessType :
          me = Process(i, sent, out) /\ me.up /\ me.at = i /\ me.inbox = NoMessages /\ me.outbound = out
    BY ProcessFacts
  <2>4. session' = [session EXCEPT ![p] = me] /\ refused' = refused
    BY <1>2, <2>1, <2>2, <2>3 DEF Resume, Replay
  <2>5. SoundProcess(disk[p], me)
    BY <2>1, <2>2, <2>3 DEF SoundProcess
  <2>6. \A s \in Party : me.inbox[s] = <<>>
    BY <2>3 DEF NoMessages
  <2>7. ToSet(<<>>) = {}
    BY DEF ToSet
  <2>. QED
    BY <1>1, <2>3, <2>4, <2>5, <2>6, <2>7, LinksHeard, MemoryStep
<1>3. CASE ~Resumes(p)
  <2>1. session' = session /\ refused' = refused \cup {p}
    BY <1>3 DEF Resume
  <2>2. refused' \subseteq Party
    BY <2>1, LinksHeard
  <2>3. PICK me \in ProcessType : me = session[p]
    BY InvFacts
  <2>4. session' = [session EXCEPT ![p] = me]
    BY <2>1, <2>3, InvFacts
  <2>5. SoundProcess(disk[p], me)
    BY <2>3, InvFacts
  <2>. QED
    BY <1>1, <2>2, <2>3, <2>4, <2>5, LinksHeard, MemoryStep
<1>. QED
  BY <1>2, <1>3

(***************************************************************************)
(* The invariant, and what it says.                                        *)
(***************************************************************************)
LEMMA InitInv ==
  ASSUME DkgInit
  PROVE  SessionInv
<1>1. Cursor(0, "Sent", "none") \in CursorType /\ Cursor(0, "Sent", "none").name = "none"
  BY RoundFacts DEF Cursor, CursorType, SubPhase
<1>2. PICK c \in CursorType : c = Cursor(0, "Sent", "none") /\ c.name = "none"
  BY <1>1
<1>3. /\ EmptyDisk \in DiskType /\ EmptyDisk.sent = <<>> /\ EmptyDisk.accepted = {}
      /\ EmptyDisk.cursor = c /\ EmptyDisk.passed = {} /\ EmptyDisk.invalid = {}
      /\ ~EmptyDisk.resolved
  <2>1. <<>> \in Seq(Envelope)
    BY EmptySeq
  <2>. QED
    BY <1>2, <2>1 DEF EmptyDisk, DiskType
<1>4. ToSet(<<>>) = {}
  BY DEF ToSet
<1>5. 1 \in Round /\ 1 # SetupComplete
  BY RoundFacts DEF Round
<1>6. PICK me \in ProcessType :
        me = Process(1, FALSE, <<>>) /\ me.at = 1 /\ me.up /\ me.inbox = NoMessages
        /\ me.outbound = <<>>
  <2>1. <<>> \in Seq(Envelope)
    BY EmptySeq
  <2>. QED
    BY <1>5, <2>1, ProcessFacts
<1>7. WholeBelow(EmptyDisk, 1)
  BY LateBelow, RoundFacts DEF WholeBelow
<1>8. ASSUME NEW p \in Party PROVE SoundDisk(p, EmptyDisk)
  <2>1. \A i : ~Has(EmptyDisk, i)
    BY <1>3, <1>4 DEF Has
  <2>2. Reached(c) = 1
    BY <1>2 DEF Reached
  <2>3. OwnMessages(p, EmptyDisk) /\ BoundFirst(EmptyDisk) /\ ResolvedIsWhole(p, EmptyDisk)
    BY <1>3, <1>4, <2>1 DEF OwnMessages, BoundFirst, ResolvedIsWhole
  <2>4. CursorIsEarned(EmptyDisk)
    BY <1>2, <1>3, <1>7, <2>2 DEF CursorIsEarned
  <2>. QED
    BY <2>3, <2>4 DEF SoundDisk
<1>9. SoundProcess(EmptyDisk, me)
  BY <1>4, <1>5, <1>6, <1>7 DEF SoundProcess
<1>10. /\ disk = [p \in Party |-> EmptyDisk] /\ session = [p \in Party |-> me]
       /\ link = [s \in Party |-> NoMessages] /\ refused = {} /\ faults = 0
  BY <1>6 DEF DkgInit
<1>11. NoMessages \in [Party -> Seq(Number)] /\ \A s \in Party : NoMessages[s] = <<>>
  BY EmptySeq DEF NoMessages
<1>12. StateType
  <2>1. disk \in [Party -> DiskType] /\ session \in [Party -> ProcessType]
    BY <1>3, <1>10
  <2>2. link \in [Party -> [Party -> Seq(Number)]]
    BY <1>10, <1>11
  <2>3. refused \subseteq Party /\ faults \in 0 .. MaxFaults
    BY <1>10, SetupAssumption
  <2>. QED
    BY <2>1, <2>2, <2>3 DEF StateType
<1>13. ASSUME NEW p \in Party, NEW s \in Party PROVE Heard(p, s)
  <2>1. /\ link[s][p] = <<>> /\ session[p].inbox[s] = <<>> /\ disk[p].accepted = {}
    BY <1>3, <1>6, <1>10, <1>11
  <2>. QED
    BY <1>4, <2>1 DEF Heard
<1>. QED
  BY <1>8, <1>9, <1>10, <1>12, <1>13 DEF SessionInv

\* One step per action.
LEMMA NextInv ==
  ASSUME SessionInv, [DkgNext]_dkgVars
  PROVE  SessionInv'
<1>1. CASE UNCHANGED dkgVars
  BY <1>1 DEF dkgVars, SessionInv, StateType, Heard
<1>2. ASSUME NEW p \in Party, Advance(p) PROVE SessionInv'
  BY <1>2, ReturnStep, SendRoundStep, FinalizeStep, CollectRoundStep, VerifySharesStep DEF Advance
<1>3. ASSUME NEW p \in Party, Route(p) PROVE SessionInv'
  BY <1>3, RouteStep
<1>4. ASSUME NEW p \in Party, NEW s \in Party, Handle(s, p) PROVE SessionInv'
  BY <1>4, HandleStep
<1>5. ASSUME NEW p \in Party, Crash(p) PROVE SessionInv'
  BY <1>5, CrashStep
<1>6. ASSUME NEW p \in Party, Resume(p) PROVE SessionInv'
  BY <1>6, ResumeStep
<1>. QED
  BY <1>1, <1>2, <1>3, <1>4, <1>5, <1>6 DEF DkgNext, Progress

\* The invariant holds in every reachable state.
LEMMA SpecInv == DkgSpec => []SessionInv
<1>1. DkgInit => SessionInv
  BY InitInv
<1>2. SessionInv /\ [DkgNext]_dkgVars => SessionInv'
  BY NextInv
<1>. QED
  BY <1>1, <1>2, PTL DEF DkgSpec

\* Released, of the properties, is what the invariant says of the log.
LEMMA ReleasedIsHas ==
  ASSUME SessionInv, NEW p \in Party
  PROVE  \A i : Released(p, i) <=> Has(disk[p], i)
<1>1. disk[p].sent \in Seq(Envelope)
  BY InvFacts DEF DiskType
<1>. QED
  BY <1>1 DEF Released, Has, ToSet

(* The records stay in their domains, and a session sends, replays and keeps messages    *)
(* of its own party and of existing rounds only, over any number of crashes and failed   *)
(* appends: what the session queues is in its wire log, which only its own send calls    *)
(* write.                                                                                *)
THEOREM DkgTypeCorrect == DkgSpec => []DkgTypeOK
<1>1. SessionInv => DkgTypeOK
  <2> SUFFICES ASSUME SessionInv PROVE DkgTypeOK
    OBVIOUS
  <2>1. ASSUME NEW p \in Party
        PROVE  /\ ToSet(disk[p].sent) \subseteq Mine[p]
               /\ disk[p].accepted \subseteq Party \X (1..Shares)
               /\ disk[p].cursor \in [round : 0..NResidues, name : SubPhase,
                                      state : {"Sent", "Waiting", "Collected"}]
               /\ disk[p].passed \subseteq Required /\ disk[p].invalid \subseteq Party \ {p}
               /\ disk[p].resolved \in BOOLEAN
               /\ ToSet(session[p].outbound) \subseteq Mine[p]
               /\ session[p].at \in Round
               /\ session[p].busy => session[p].up
    <3>1. /\ disk[p] \in DiskType /\ session[p] \in ProcessType
          /\ SoundDisk(p, disk[p]) /\ SoundProcess(disk[p], session[p])
      BY InvFacts
    <3>2. ToSet(disk[p].sent) \subseteq Mine[p] /\ p \notin disk[p].invalid
      BY <3>1 DEF SoundDisk, OwnMessages, ResolvedIsWhole
    <3>3. ToSet(session[p].outbound) \subseteq Mine[p] /\ (session[p].busy => session[p].up)
      BY <3>1, <3>2 DEF SoundProcess
    <3>. QED
      BY <3>1, <3>2, <3>3 DEF DiskType, ProcessType, CursorType
  <2>2. ASSUME NEW p \in Party, NEW s \in Party
        PROVE  ToSet(session[p].inbox[s]) \cup ToSet(link[s][p]) \subseteq (1..Shares) \cup {Complaint}
    <3>1. session[p].inbox[s] \in Seq(Number) /\ link[s][p] \in Seq(Number)
      BY InvFacts, LinksHeard DEF ProcessType
    <3>2. \A x \in Seq(Number) : ToSet(x) \subseteq Number
      BY SeqFacts DEF ToSet
    <3>. QED
      BY <3>1, <3>2 DEF Number
  <2>. QED
    BY <2>1, <2>2, LinksHeard DEF DkgTypeOK
<1>. QED
  BY <1>1, SpecInv, PTL

(* No party releases a share of a public coin before its log holds everyone's            *)
(* precommitments, nor a private delivery before its commitments, audit and consistency  *)
(* records are on its disk and it knows every coin, wherever advance() was cut and       *)
(* whatever was run again after a restart: the release order a native DKG rests on.      *)
THEOREM BindingComesFirstCorrect == DkgSpec => []BindingComesFirst
<1>1. SessionInv => BindingComesFirst
  <2> SUFFICES ASSUME SessionInv, NEW p \in Party
               PROVE  /\ (\E i \in Coins : Released(p, i)) =>
                           \A i \in Precommits : Everyone(p, i) /\ \A q \in Party : Released(q, i)
                      /\ Released(p, Shares) =>
                           /\ \A i \in {Commitments, Audits, Consistency} : Released(p, i)
                           /\ \A i \in Coins : Everyone(p, i)
    BY DEF BindingComesFirst, CoinsFollowPrecommitments, SharesFollowCommitments
  <2>1. BoundFirst(disk[p])
    BY InvFacts DEF SoundDisk
  <2>2. \A i : Everyone(p, i) <=> Whole(disk[p], i)
    BY DEF Everyone, Whole
  <2>3. ASSUME NEW i \in Precommits
        PROVE  i \in Late /\ i < LastPrecommit + 1 /\ i \in 1 .. Shares
    BY RoundFacts DEF Late, Precommits
  <2>4. ASSUME NEW i \in Coins PROVE i \in Late /\ i < Commitments
    BY RoundFacts DEF Late, Coins
  <2>5. ASSUME \E i \in Coins : Released(p, i), NEW i \in Precommits
        PROVE  Everyone(p, i) /\ \A q \in Party : Released(q, i)
    <3>1. Everyone(p, i)
      BY <2>1, <2>2, <2>3, <2>5, ReleasedIsHas DEF BoundFirst, WholeBelow
    <3>2. ASSUME NEW q \in Party PROVE Released(q, i)
      BY <2>3, <3>1, InvFacts, ReleasedIsHas DEF Heard, Everyone
    <3>. QED
      BY <3>1, <3>2
  <2>6. ASSUME Released(p, Shares)
        PROVE  /\ \A i \in {Commitments, Audits, Consistency} : Released(p, i)
               /\ \A i \in Coins : Everyone(p, i)
    BY <2>1, <2>2, <2>4, <2>6, ReleasedIsHas DEF BoundFirst, WholeBelow
  <2>. QED
    BY <2>5, <2>6
<1>. QED
  BY <1>1, SpecInv, PTL

(* A session that calls its setup complete, and a party whose cursors pass the release   *)
(* gate, has every precommitment, coin, commitment, audit and consistency record, every  *)
(* delivery to it, all valid, and the resolution in its log: neither a crash in the      *)
(* middle of an iteration nor resume_phase_from_logs jumps over a check.                 *)
THEOREM CompleteIsWholeCorrect == DkgSpec => []CompleteIsWhole
<1>1. SessionInv => CompleteIsWhole
  <2> SUFFICES ASSUME SessionInv, NEW p \in Party,
                      (session[p].up /\ session[p].at = SetupComplete) \/ MayRelease(p)
               PROVE  /\ disk[p].resolved /\ disk[p].invalid = {}
                      /\ \A i \in Precommits \cup Coins : Everyone(p, i)
                      /\ \A i \in {Commitments, Audits, Consistency} : Everyone(p, i)
                      /\ \A s \in Party \ {p} : <<s, Shares>> \in disk[p].accepted
    BY DEF CompleteIsWhole
  <2>1. ResolvedIsWhole(p, disk[p]) /\ SoundProcess(disk[p], session[p])
    BY InvFacts DEF SoundDisk
  <2>2. MayRelease(p) => "certified" \in disk[p].passed
    BY DEF MayRelease, Required, SubPhase
  <2>3. disk[p].resolved
    BY <2>1, <2>2 DEF ResolvedIsWhole, SoundProcess
  <2>4. HasDeliveries(p, disk[p]) /\ disk[p].invalid = {} /\ WholeBelow(disk[p], Shares)
    BY <2>1, <2>3 DEF ResolvedIsWhole
  <2>5. \A i \in Late : Everyone(p, i)
    BY <2>4, LateBelow DEF WholeBelow, Whole, Everyone
  <2>. QED
    BY <2>3, <2>4, <2>5 DEF Late, HasDeliveries
<1>. QED
  BY <1>1, SpecInv, PTL

-----------------------------------------------------------------------------
(***************************************************************************)
(* II. Power2Round.                                                        *)
(***************************************************************************)

(***************************************************************************)
(* Division.                                                               *)
(***************************************************************************)
LEMMA MulBound ==
  ASSUME NEW b \in Int, NEW n \in Int, b > 0, n >= 1
  PROVE  b * n >= b
  BY SMT

LEMMA DivFacts ==
  ASSUME NEW x \in Int, NEW b \in Int, b > 0
  PROVE  /\ x \div b \in Int /\ x % b \in Int
         /\ x = b * (x \div b) + (x % b)
         /\ x % b >= 0 /\ x % b < b
  BY SMT

LEMMA NotBelow ==
  ASSUME NEW b \in Int, NEW q \in Int, NEW r \in Int, NEW p \in Int, NEW s \in Int,
         b > 0, b * q + r = b * p + s, 0 <= r, s < b
  PROVE  q <= p
  <1>1. SUFFICES ASSUME q - p >= 1 PROVE FALSE
    BY SMT
  <1>2. b * (q - p) >= b
    BY <1>1, MulBound
  <1>3. b * (q - p) = s - r
    BY SMT
  <1> QED
    BY <1>2, <1>3, SMT

\* There is one quotient, and one remainder.
LEMMA DivMod ==
  ASSUME NEW b \in Int, NEW q \in Int, NEW r \in Int, b > 0, 0 <= r, r < b
  PROVE  (b * q + r) \div b = q /\ (b * q + r) % b = r
  <1> DEFINE x == b * q + r
  <1>1. /\ x \in Int /\ x \div b \in Int /\ x % b \in Int
        /\ b * q + r = b * (x \div b) + (x % b) /\ x % b >= 0 /\ x % b < b
    BY DivFacts
  <1> HIDE DEF x
  <1>2. q <= x \div b /\ x \div b <= q
    BY <1>1, NotBelow
  <1>3. q = x \div b
    BY <1>1, <1>2, SMT
  <1>4. r = x % b
    BY <1>1, <1>3, SMT
  <1> QED
    BY <1>3, <1>4 DEF x

LEMMA ModSmall ==
  ASSUME NEW b \in Int, NEW r \in Int, 0 <= r, r < b
  PROVE  r % b = r
  <1>1. (b * 0 + r) % b = r
    BY DivMod
  <1> QED
    BY <1>1, SMT

\* A sum of two residues is reduced by one subtraction at most.
LEMMA ModSum ==
  ASSUME NEW b \in Int, NEW x \in 0 .. b - 1, NEW y \in 0 .. b - 1
  PROVE  (x + y) % b = IF x + y < b THEN x + y ELSE x + y - b
  <1>1. CASE x + y < b
    BY <1>1, ModSmall
  <1>2. CASE x + y >= b
    <2>1. (b * 1 + (x + y - b)) % b = x + y - b
      BY <1>2, DivMod
    <2>2. b * 1 + (x + y - b) = x + y
      BY SMT
    <2> QED
      BY <1>2, <2>1, <2>2
  <1> QED
    BY <1>1, <1>2

\* Residues that differ by a multiple of the modulus are equal.
LEMMA ModEqual ==
  ASSUME NEW b \in Int, NEW x \in 0 .. b - 1, NEW y \in 0 .. b - 1, (x - y) % b = 0
  PROVE  x = y
  <1> DEFINE d == (x - y) \div b
  <1>1. d \in Int /\ x - y = b * d
    BY DivFacts
  <1> HIDE DEF d
  <1>2. b * d + y = b * 0 + x
    BY <1>1, SMT
  <1>3. d <= 0
    BY <1>1, <1>2, NotBelow
  <1>4. b * 0 + x = b * d + y
    BY <1>2
  <1>5. 0 <= d
    BY <1>1, <1>4, NotBelow
  <1>6. d = 0
    BY <1>1, <1>3, <1>5
  <1> QED
    BY <1>1, <1>6, SMT

(***************************************************************************)
(* The moduli, the recovery from a good mask and the rounding.             *)
(***************************************************************************)
LEMMA Moduli ==
  /\ Q \in Int /\ Q > 0 /\ Q <= 2 ^ Width /\ 2 ^ Width \in Int
  /\ 2 ^ (D - 1) \in Int /\ 2 ^ D \in Int /\ 2 ^ (D - 1) > 0
  /\ 2 ^ D = 2 * 2 ^ (D - 1)
  /\ Q + 2 ^ (D - 1) <= 2 ^ Width + 1
  BY PowerAssumption DEF Q

LEMMA InputFacts ==
  ASSUME input \in Inputs
  PROVE  /\ input.t \in 0 .. Q - 1 /\ input.value \in 0 .. Q - 1
         /\ input.bits \in 0 .. 2 ^ Width - 1 /\ input.restarts \in Nat
  BY InputAssumption

LEMMA MaskedRange ==
  ASSUME input \in Inputs
  PROVE  MaskedC \in 0 .. Q - 1
  <1>1. input.t + input.value \in Int
    BY InputFacts, Moduli
  <1> QED
    BY <1>1, Moduli, DivFacts DEF MaskedC

LEMMA WrapRange ==
  ASSUME NEW c
  PROVE  Wrap(c) \in {0, 1}
  BY DEF Wrap, Bit

LEMMA RecoveredRange ==
  ASSUME input \in Inputs, NEW c \in 0 .. Q - 1, NEW w \in {0, 1}
  PROVE  Recovered(c, w) \in 0 .. 2 ^ Width - 1
  <1>1. c + w * Q - input.bits \in Int
    BY InputFacts, Moduli
  <1>2. 2 ^ Width > 0 /\ 2 ^ Width \in Int
    BY Moduli
  <1> QED
    BY <1>1, <1>2, DivFacts DEF Recovered

LEMMA GoodRecovery ==
  ASSUME input \in Inputs, GoodMask
  PROVE  Recovered(MaskedC, Wrap(MaskedC)) = input.t
  <1> DEFINE t == input.t
             a == input.value
  <1>1. t \in 0 .. Q - 1 /\ a \in 0 .. Q - 1 /\ input.bits = a
    BY InputFacts DEF GoodMask
  <1>2. MaskedC = IF t + a < Q THEN t + a ELSE t + a - Q
    BY <1>1, Moduli, ModSum DEF MaskedC
  <1>3. Wrap(MaskedC) = IF t + a < Q THEN 0 ELSE 1
    BY <1>1, <1>2, Moduli DEF Wrap, Bit
  <1>4. MaskedC + Wrap(MaskedC) * Q - a = t
    BY <1>1, <1>2, <1>3, Moduli
  <1>5. t % 2 ^ Width = t
    BY <1>1, Moduli, ModSmall
  <1> QED
    BY <1>1, <1>4, <1>5 DEF Recovered

\* Adding 2^(D-1) - 1 and dropping D bits is Power2Round, and does not overflow.
LEMMA Rounding ==
  ASSUME NEW t \in 0 .. Q - 1
  PROVE  ((t + 2 ^ (D - 1) - 1) % (2 ^ Width)) \div (2 ^ D) = Power2RoundHigh(t)
  <1> DEFINE h == 2 ^ (D - 1)
             k == t \div (2 ^ D)
             low == t % (2 ^ D)
  <1>1. h \in Int /\ h > 0 /\ 2 ^ D = 2 * h /\ t \in Int
    BY Moduli
  <1>2. /\ k \in Int /\ low \in Int
        /\ t = (2 * h) * k + low /\ low >= 0 /\ low < 2 * h
    <2>1. 2 ^ D \in Int /\ 2 ^ D > 0
      BY <1>1
    <2> QED
      BY <1>1, <2>1, DivFacts
  <1>3. (t + h - 1) % (2 ^ Width) = t + h - 1
    <2>1. t + h - 1 \in Int /\ 0 <= t + h - 1 /\ t + h - 1 < 2 ^ Width
      BY <1>1, Moduli
    <2> QED
      BY <2>1, Moduli, ModSmall
  <1>4. Power2RoundHigh(t) = (t - (IF low > h THEN low - 2 * h ELSE low)) \div (2 * h)
    BY <1>1 DEF Power2RoundHigh
  <1> HIDE DEF h, k, low
  <1>5. CASE low > h
    <2>1. ((2 * h) * (k + 1) + (low - h - 1)) \div (2 * h) = k + 1
      BY <1>1, <1>2, <1>5, DivMod
    <2>2. ((2 * h) * (k + 1) + 0) \div (2 * h) = k + 1
      BY <1>1, <1>2, DivMod
    <2>3. (2 * h) * (k + 1) + (low - h - 1) = t + h - 1
      BY <1>1, <1>2, SMT
    <2>4. (2 * h) * (k + 1) + 0 = t - (low - 2 * h)
      BY <1>1, <1>2, SMT
    <2>5. (t + h - 1) \div (2 * h) = k + 1
      BY <2>1, <2>3
    <2>6. Power2RoundHigh(t) = k + 1
      BY <2>2, <2>4, <1>4, <1>5
    <2> QED
      BY <2>5, <2>6, <1>1, <1>3 DEF h
  <1>6. CASE low <= h
    <2>1. ((2 * h) * k + (low + h - 1)) \div (2 * h) = k
      BY <1>1, <1>2, <1>6, DivMod
    <2>2. ((2 * h) * k + 0) \div (2 * h) = k
      BY <1>1, <1>2, DivMod
    <2>3. (2 * h) * k + (low + h - 1) = t + h - 1
      BY <1>1, <1>2, SMT
    <2>4. (2 * h) * k + 0 = t - low
      BY <1>1, <1>2, SMT
    <2>5. (t + h - 1) \div (2 * h) = k
      BY <2>1, <2>3
    <2>6. Power2RoundHigh(t) = k
      BY <2>2, <2>4, <1>4, <1>6, <1>1, <1>2
    <2> QED
      BY <2>5, <2>6, <1>1, <1>3 DEF h
  <1> QED
    BY <1>1, <1>2, <1>5, <1>6

(***************************************************************************)
(* Partial functions.                                                      *)
(***************************************************************************)
LEMMA WithFacts ==
  ASSUME NEW f, NEW x, NEW v
  PROVE  /\ DOMAIN With(f, x, v) = DOMAIN f \cup {x}
         /\ With(f, x, v)[x] = v
         /\ \A y \in DOMAIN f : y # x => With(f, x, v)[y] = f[y]
  BY DEF With

LEMMA DropFacts ==
  ASSUME NEW f, NEW names
  PROVE  /\ DOMAIN Drop(f, names) = DOMAIN f \ names
         /\ \A y \in DOMAIN f \ names : Drop(f, names)[y] = f[y]
  BY DEF Drop, Restrict

(***************************************************************************)
(* Types.                                                                  *)
(***************************************************************************)
LEMMA CountFacts == \A kind \in Residuals : Count(kind) \in Nat \ {0}
  BY CountAssumption DEF Count, Residuals

LEMMA TypeInit == Init => TypeOK
  BY InputFacts, CountFacts DEF Init, TypeOK, Stages, OpenMaskedValues

LEMMA ResultIsHandle ==
  ASSUME NEW ph \in Layered \cup {"c_checked"}
  PROVE  Result(ph) \in Handles
  BY DEF Result, Handles, Layered

LEMMA TypeStep == TypeOK /\ [Next]_vars => TypeOK'
  <1> SUFFICES ASSUME TypeOK, [Next]_vars PROVE TypeOK'
    OBVIOUS
  <1> USE DEF TypeOK
  <1>1. ASSUME NEW ph \in Phases, Drive(ph) PROVE TypeOK'
    <2>1. DOMAIN log' \subseteq Phases
      BY <1>1 DEF Drive, With
    <2>2. DOMAIN held' \subseteq Handles
      BY <1>1, DropFacts DEF Drive
    <2>3. running' \subseteq Layered /\ marked' \subseteq Phases
      BY <1>1 DEF Drive
    <2>4. UNCHANGED <<input, passed, stage, cursors, crashes>>
      BY <1>1 DEF Drive
    <2> QED
      BY <2>1, <2>2, <2>3, <2>4
  <1>2. ASSUME NEW ph \in Layered \cup {"c_checked"}, Collect(ph) PROVE TypeOK'
    <2>1. DOMAIN held' \subseteq Handles
      BY <1>2, ResultIsHandle DEF Collect, With
    <2>2. marked' \subseteq Phases
      BY <1>2 DEF Collect, Phases
    <2>3. UNCHANGED <<input, log, running, passed, stage, cursors, crashes>>
      BY <1>2 DEF Collect
    <2> QED
      BY <2>1, <2>2, <2>3
  <1>3. ASSUME CollectC PROVE TypeOK'
    <2>1. DOMAIN held' \subseteq Handles
      BY <1>3 DEF CollectC, Handles, With
    <2>2. marked' \subseteq Phases
      BY <1>3 DEF CollectC, Phases
    <2>3. stage' \in Stages /\ cursors' \subseteq Stages
      BY <1>3 DEF CollectC, Accept, Stages
    <2>4. UNCHANGED <<input, log, running, passed, crashes>>
      BY <1>3 DEF CollectC
    <2> QED
      BY <2>1, <2>2, <2>3, <2>4
  <1>4. ASSUME NEW kind \in Residuals, NEW from, NEW to \in Stages, CollectAll(kind, from, to)
        PROVE  TypeOK'
    <2>1. PICK k \in 0 .. Count(kind) : passed' = [passed EXCEPT ![kind] = k]
      BY <1>4 DEF CollectAll
    <2>2. /\ passed' \in [Residuals -> Nat]
          /\ \A other \in Residuals : passed'[other] <= Count(other)
      BY <2>1, CountFacts
    <2>3. stage' \in Stages /\ cursors' \subseteq Stages
      BY <1>4 DEF CollectAll, Accept
    <2>4. UNCHANGED <<input, log, held, running, marked, crashes>>
      BY <1>4 DEF CollectAll
    <2> QED
      BY <2>2, <2>3, <2>4 DEF Count
  <1>5. ASSUME Certify PROVE TypeOK'
    <2>1. marked' \subseteq Phases
      BY <1>5 DEF Certify, Phases
    <2>2. stage' \in Stages /\ cursors' \subseteq Stages
      BY <1>5 DEF Certify, Accept, Stages
    <2>3. UNCHANGED <<input, log, held, running, passed, crashes>>
      BY <1>5 DEF Certify
    <2> QED
      BY <2>1, <2>2, <2>3
  <1>6. ASSUME Restart PROVE TypeOK'
    <2>1. crashes' \in 0 .. input.restarts
      BY <1>6, InputFacts DEF Restart
    <2>2. stage' \in Stages
      BY <1>6 DEF Restart
    <2>3. /\ DOMAIN held' = {} /\ running' = {} /\ marked' = {}
          /\ passed' \in [Residuals -> Nat]
          /\ \A kind \in Residuals : passed'[kind] <= Count(kind)
      BY <1>6, CountFacts DEF Restart
    <2>4. UNCHANGED <<input, log, cursors>>
      BY <1>6 DEF Restart
    <2> QED
      BY <2>1, <2>2, <2>3, <2>4 DEF Count
  <1>7. CASE UNCHANGED vars
    BY <1>7 DEF vars, Count
  <1> QED
    <2>1. "canonical" \in Residuals /\ "add_residual" \in Residuals
      BY DEF Residuals
    <2>2. AddRoundConstant \in Stages /\ OpenT1Bits \in Stages
      BY DEF Stages
    <2> QED
      BY <1>1, <1>2, <1>3, <1>4, <1>5, <1>6, <1>7, <2>1, <2>2 DEF Next

\* What is driven, held and collected are phases and handles, and the driver is at
\* a stage or complete, never in the middle of the certification.
THEOREM TypeCorrect == Spec => []TypeOK
  BY TypeInit, TypeStep, PTL DEF Spec

(***************************************************************************)
(* What the driver has moved on.                                           *)
(***************************************************************************)
StageInv(s) ==
  /\ s > OpenMaskedValues => "c" \in DOMAIN log
  /\ s > RecoverCanonicalBits => AllZero("canonical")
  /\ s > AddRoundConstant => AllZero("add_residual")
  /\ s > OpenT1Bits => "t1" \in DOMAIN log

OutputInv == outputs # {} => "t1" \in DOMAIN log /\ outputs = {log["t1"]} /\ StateOwned

LEMMA EarnedParts ==
  DriverIsEarned <=> (\A s \in cursors \cup {stage} : StageInv(s)) /\ OutputInv
  BY DEF DriverIsEarned, StageInv, OutputInv

\* The log only grows, and what it gives stays.
Grows ==
  /\ input' = input
  /\ DOMAIN log \subseteq DOMAIN log'
  /\ \A ph \in DOMAIN log : log'[ph] = log[ph]

LEMMA LogGrows == [Next]_vars => Grows
  <1> SUFFICES ASSUME [Next]_vars PROVE Grows
    OBVIOUS
  <1>1. ASSUME NEW ph \in Phases, Drive(ph) PROVE Grows
    BY <1>1 DEF Drive, With, Grows
  <1>2. ASSUME UNCHANGED <<input, log>> PROVE Grows
    BY <1>2 DEF Grows
  <1> QED
    BY <1>1, <1>2
    DEF Next, Collect, CollectC, CollectAll, Certify, Restart, vars

LEMMA StageKept ==
  ASSUME Grows, NEW s, StageInv(s)
  PROVE  StageInv(s)'
  BY DEF Grows, StageInv, AllZero, Count

LEMMA OutputKept ==
  ASSUME Grows, OutputInv, UNCHANGED outputs
  PROVE  OutputInv'
  BY DEF Grows, OutputInv, StateOwned

LEMMA EarnedInit == Init => DriverIsEarned
  BY DEF Init, DriverIsEarned, OpenMaskedValues, RecoverCanonicalBits, AddRoundConstant, OpenT1Bits

LEMMA AcceptEarned ==
  ASSUME NEW from, NEW to, Accept(from, to), Grows, StageInv(to)',
         \A s \in cursors \cup {stage} : StageInv(s)
  PROVE  \A s \in (cursors \cup {stage})' : StageInv(s)'
  BY StageKept DEF Accept

LEMMA StayEarned ==
  ASSUME stage' \in cursors \cup {stage}, UNCHANGED cursors, Grows,
         \A s \in cursors \cup {stage} : StageInv(s)
  PROVE  \A s \in (cursors \cup {stage})' : StageInv(s)'
  BY StageKept

LEMMA EarnedStep == DriverIsEarned /\ [Next]_vars => DriverIsEarned'
  <1> SUFFICES ASSUME DriverIsEarned, [Next]_vars PROVE DriverIsEarned'
    OBVIOUS
  <1> DEFINE All == \A s \in cursors \cup {stage} : StageInv(s)
             Moved == \A s \in (cursors \cup {stage})' : StageInv(s)'
  <1>1. All /\ OutputInv /\ Grows
    BY EarnedParts, LogGrows
  <1>2. SUFFICES Moved /\ OutputInv'
    BY DEF DriverIsEarned, StageInv, OutputInv
  <1>3. ASSUME UNCHANGED <<stage, cursors, outputs>> PROVE Moved /\ OutputInv'
    BY <1>1, <1>3, StayEarned, OutputKept
  <1>4. ASSUME CollectC PROVE Moved /\ OutputInv'
    <2>1. OutputInv'
      BY <1>1, <1>4, OutputKept DEF CollectC
    <2>2. CASE Accept(OpenMaskedValues, RecoverCanonicalBits)
      <3>1. StageInv(RecoverCanonicalBits)'
        BY <1>1, <1>4
        DEF CollectC, May, StageInv, Grows, OpenMaskedValues, RecoverCanonicalBits,
            AddRoundConstant, OpenT1Bits
      <3> QED
        BY <1>1, <2>1, <2>2, <3>1, AcceptEarned
    <2>3. CASE UNCHANGED <<stage, cursors>>
      BY <1>1, <2>1, <2>3, StayEarned
    <2> QED
      BY <1>4, <2>2, <2>3 DEF CollectC
  <1>5. ASSUME CollectAll("canonical", RecoverCanonicalBits, AddRoundConstant)
        PROVE  Moved /\ OutputInv'
    <2>1. OutputInv'
      BY <1>1, <1>5, OutputKept DEF CollectAll
    <2>2. CASE /\ Accept(RecoverCanonicalBits, AddRoundConstant)
               /\ "canonical" \in DOMAIN log
               /\ \A i \in 1 .. Count("canonical") : IsZero("canonical", i)
      <3>1. StageInv(AddRoundConstant)'
        <4>1. StageInv(RecoverCanonicalBits)
          BY <1>1, <2>2 DEF Accept
        <4>2. "c" \in DOMAIN log'
          BY <1>1, <4>1 DEF StageInv, Grows, OpenMaskedValues, RecoverCanonicalBits
        <4>3. AllZero("canonical")'
          BY <1>1, <2>2 DEF Grows, AllZero, IsZero, Count
        <4> QED
          BY <4>2, <4>3
          DEF StageInv, OpenMaskedValues, RecoverCanonicalBits, AddRoundConstant, OpenT1Bits
      <3> QED
        BY <1>1, <2>1, <2>2, <3>1, AcceptEarned
    <2>3. CASE UNCHANGED <<stage, cursors>>
      BY <1>1, <2>1, <2>3, StayEarned
    <2>4. "canonical" \in Residuals
      BY DEF Residuals
    <2> QED
      BY <1>5, <2>2, <2>3, <2>4, CountFacts DEF CollectAll
  <1>6. ASSUME CollectAll("add_residual", AddRoundConstant, OpenT1Bits)
        PROVE  Moved /\ OutputInv'
    <2>1. OutputInv'
      BY <1>1, <1>6, OutputKept DEF CollectAll
    <2>2. CASE /\ Accept(AddRoundConstant, OpenT1Bits)
               /\ "add_residual" \in DOMAIN log
               /\ \A i \in 1 .. Count("add_residual") : IsZero("add_residual", i)
      <3>1. StageInv(OpenT1Bits)'
        <4>1. StageInv(AddRoundConstant)'
          BY <1>1, <2>2, StageKept DEF Accept
        <4>2. AllZero("add_residual")'
          BY <1>1, <2>2 DEF Grows, AllZero, IsZero, Count
        <4> QED
          BY <4>1, <4>2
          DEF StageInv, OpenMaskedValues, RecoverCanonicalBits, AddRoundConstant, OpenT1Bits
      <3> QED
        BY <1>1, <2>1, <2>2, <3>1, AcceptEarned
    <2>3. CASE UNCHANGED <<stage, cursors>>
      BY <1>1, <2>1, <2>3, StayEarned
    <2>4. "add_residual" \in Residuals
      BY DEF Residuals
    <2> QED
      BY <1>6, <2>2, <2>3, <2>4, CountFacts DEF CollectAll
  <1>7. ASSUME Certify PROVE Moved /\ OutputInv'
    <2>1. "t1" \in DOMAIN log /\ log' = log
      BY <1>7 DEF Certify, May
    <2>2. CASE UNCHANGED <<stage, cursors, outputs>>
      BY <1>1, <2>2, StayEarned, OutputKept
    <2>3. CASE /\ Accept(OpenT1Bits, Complete)
               /\ outputs' = outputs \cup
                    (IF OpeningsAllowed /\ StateOwned THEN {log["t1"]} ELSE {})
      <3>1. StageInv(Complete)'
        <4>1. StageInv(OpenT1Bits)'
          BY <1>1, <2>3, StageKept DEF Accept
        <4> QED
          BY <2>1, <4>1
          DEF StageInv, OpenMaskedValues, RecoverCanonicalBits, AddRoundConstant, OpenT1Bits,
              Complete
      <3>2. Moved
        BY <1>1, <2>3, <3>1, AcceptEarned
      <3>3. OutputInv'
        <4>1. StateOwned' = StateOwned
          BY <2>1 DEF StateOwned
        <4> QED
          BY <1>1, <2>1, <2>3, <4>1 DEF OutputInv
      <3> QED
        BY <3>2, <3>3
    <2> QED
      BY <1>7, <2>2, <2>3 DEF Certify
  <1>8. ASSUME Restart PROVE Moved /\ OutputInv'
    <2>1. stage' \in cursors \cup {stage} /\ UNCHANGED <<cursors, outputs>>
      BY <1>8 DEF Restart
    <2> QED
      BY <1>1, <2>1, StayEarned, OutputKept
  <1>9. ASSUME NEW ph \in Phases, Drive(ph) PROVE UNCHANGED <<stage, cursors, outputs>>
    BY <1>9 DEF Drive
  <1>10. ASSUME NEW ph \in Layered \cup {"c_checked"}, Collect(ph)
         PROVE  UNCHANGED <<stage, cursors, outputs>>
    BY <1>10 DEF Collect
  <1>11. CASE UNCHANGED vars
    BY <1>3, <1>11 DEF vars
  <1> QED
    BY <1>3, <1>4, <1>5, <1>6, <1>7, <1>8, <1>9, <1>10, <1>11 DEF Next

\* Every stage of the driver, over restarts from any cursor, has its phases in the
\* log and its residuals zero, and the only output is the opened t1.
THEOREM DriverIsEarnedCorrect == Spec => []DriverIsEarned
  BY EarnedInit, EarnedStep, PTL DEF Spec

(***************************************************************************)
(* What every phase gives and every handle stands for, in every life.      *)
(***************************************************************************)
R0 == Recovered(MaskedC, Wrap(MaskedC))
S0 == (R0 + 2 ^ (D - 1) - 1) % (2 ^ Width)

Given(ph) ==
  CASE ph \in {"c", "c_checked"} -> MaskedC
    [] ph = "wrap" -> Wrap(MaskedC)
    [] ph = "recover" -> R0
    [] ph = "less" -> Bit(R0 < Q)
    [] ph = "zero_less" -> 1 - Bit(R0 < Q)
    [] ph = "zero_equal" -> (R0 - input.t) % Q
    [] ph = "add" -> S0
    [] ph = "t1" -> S0 \div (2 ^ D)
    [] OTHER -> 0

Stands(h) ==
  CASE h = "c" -> MaskedC
    [] h = "wrap" -> Wrap(MaskedC)
    [] h = "r" -> R0
    [] h = "lt" -> Bit(R0 < Q)
    [] h = "s" -> S0

LogInv == \A ph \in DOMAIN log : log[ph] = Given(ph)
HeldInv == \A h \in DOMAIN held : held[h] = Stands(h)

\* The equality is asserted behind a recovery.
PathInv ==
  /\ "r" \in DOMAIN held => "recover" \in DOMAIN log
  /\ "zero_equal" \in DOMAIN log => "recover" \in DOMAIN log

ValueInv == LogInv /\ HeldInv /\ PathInv

LEMMA ValueInit == Init => ValueInv
  BY DEF Init, ValueInv, LogInv, HeldInv, PathInv

LEMMA OperandIsGiven ==
  ASSUME HeldInv, NEW ph \in Phases, Needs(ph) \subseteq DOMAIN held
  PROVE  Operand(ph) = Given(ph)
  <1>1. CASE ph \in {"c", "c_checked"}
    BY <1>1 DEF Operand, Given
  <1>2. CASE ph = "wrap"
    BY <1>2 DEF HeldInv, Needs, Operand, Given, Stands
  <1>3. CASE ph = "recover"
    BY <1>3 DEF HeldInv, Needs, Operand, Given, Stands, R0
  <1>4. CASE ph = "less"
    BY <1>4 DEF HeldInv, Needs, Operand, Given, Stands
  <1>5. CASE ph = "zero_less"
    BY <1>5 DEF HeldInv, Needs, Operand, Given, Stands
  <1>6. CASE ph = "zero_equal"
    BY <1>6 DEF HeldInv, Needs, Operand, Given, Stands
  <1>7. CASE ph = "add"
    BY <1>7 DEF HeldInv, Needs, Operand, Given, Stands, S0
  <1>8. CASE ph = "t1"
    BY <1>8 DEF HeldInv, Needs, Operand, Given, Stands
  <1>9. CASE ph \in Residuals \cup {"product"}
    BY <1>9 DEF Operand, Given, Residuals
  <1> QED
    BY <1>1, <1>2, <1>3, <1>4, <1>5, <1>6, <1>7, <1>8, <1>9
    DEF Phases, Layered, Assertions

LEMMA ResultStands ==
  ASSUME NEW ph \in Layered \cup {"c", "c_checked"}
  PROVE  Given(ph) = Stands(Result(ph))
  BY DEF Given, Stands, Result, Layered

LEMMA InputKept ==
  ASSUME input' = input
  PROVE  /\ \A ph \in Phases : Given(ph)' = Given(ph)
         /\ \A h \in Handles : Stands(h)' = Stands(h)
  <1>1. MaskedC' = MaskedC
    BY DEF MaskedC
  <1>2. Wrap(MaskedC)' = Wrap(MaskedC)
    BY <1>1 DEF Wrap
  <1>3. R0' = R0
    BY <1>1, <1>2 DEF R0, Recovered
  <1>4. S0' = S0
    BY <1>3 DEF S0
  <1> QED
    BY <1>1, <1>2, <1>3, <1>4 DEF Given, Stands

LEMMA ValueStep == TypeOK /\ ValueInv /\ [Next]_vars => ValueInv'
  <1> SUFFICES ASSUME TypeOK, ValueInv, [Next]_vars PROVE ValueInv'
    OBVIOUS
  <1>1. Grows /\ input' = input
    BY LogGrows DEF Grows
  <1>2. DOMAIN log \subseteq Phases /\ DOMAIN held \subseteq Handles
    BY DEF TypeOK
  <1>3. DOMAIN log' \subseteq Phases /\ DOMAIN held' \subseteq Handles
    BY TypeStep DEF TypeOK
  <1>4. ASSUME NEW ph \in Phases, Drive(ph) PROVE ValueInv'
    <2>1. \A x \in DOMAIN log' : log'[x] = Given(x)
      BY <1>4, OperandIsGiven DEF Drive, With, ValueInv, LogInv
    <2>2. \A h \in DOMAIN held' : h \in DOMAIN held /\ held'[h] = held[h]
      BY <1>4 DEF Drive, Drop, Restrict
    <2>3. LogInv'
      BY <1>1, <1>3, <2>1, InputKept DEF LogInv
    <2>4. HeldInv'
      BY <1>1, <1>3, <2>2, InputKept DEF ValueInv, HeldInv
    <2>5. PathInv'
      <3>1. "r" \in DOMAIN held' => "recover" \in DOMAIN log'
        BY <1>1, <2>2 DEF Grows, ValueInv, PathInv
      <3>2. "zero_equal" \in DOMAIN log' => "recover" \in DOMAIN log'
        <4>1. CASE "zero_equal" \in DOMAIN log
          BY <1>1, <4>1 DEF Grows, ValueInv, PathInv
        <4>2. CASE "zero_equal" \notin DOMAIN log /\ ph = "zero_equal"
          BY <1>1, <1>4, <4>2 DEF Drive, Needs, Grows, ValueInv, PathInv
        <4>3. CASE "zero_equal" \notin DOMAIN log /\ ph # "zero_equal"
          BY <1>4, <4>3 DEF Drive, With
        <4> QED
          BY <4>1, <4>2, <4>3
      <3> QED
        BY <3>1, <3>2 DEF PathInv
    <2> QED
      BY <2>3, <2>4, <2>5 DEF ValueInv
  <1>5. ASSUME log' = log, UNCHANGED held PROVE ValueInv'
    BY <1>1, <1>2, <1>5, InputKept DEF ValueInv, LogInv, HeldInv, PathInv
  <1>6. ASSUME NEW ph \in Layered \cup {"c", "c_checked"}, ph \in DOMAIN log,
               log' = log, held' = With(held, Result(ph), log[ph])
        PROVE  ValueInv'
    <2>1. log[ph] = Stands(Result(ph))
      BY <1>6, ResultStands DEF ValueInv, LogInv
    <2>2. \A h \in DOMAIN held' : held'[h] = Stands(h)
      BY <1>6, <2>1 DEF With, ValueInv, HeldInv
    <2>3. LogInv' /\ HeldInv'
      BY <1>1, <1>2, <1>3, <1>6, <2>2, InputKept DEF ValueInv, LogInv, HeldInv
    <2>4. Result(ph) = "r" => ph = "recover"
      BY DEF Result, Layered
    <2>5. PathInv'
      BY <1>6, <2>4 DEF With, ValueInv, PathInv
    <2> QED
      BY <2>3, <2>5 DEF ValueInv
  <1>7. ASSUME NEW ph \in Layered \cup {"c_checked"}, Collect(ph) PROVE ValueInv'
    BY <1>6, <1>7 DEF Collect, May
  <1>8. ASSUME CollectC PROVE ValueInv'
    <2>1. Result("c") = "c"
      BY DEF Result
    <2>2. "c" \in DOMAIN log /\ log' = log
      BY <1>8 DEF CollectC, May
    <2>3. CASE held' = With(held, "c", log["c"])
      BY <1>6, <2>1, <2>2, <2>3
    <2>4. CASE UNCHANGED held
      BY <1>5, <2>2, <2>4
    <2> QED
      BY <1>8, <2>3, <2>4 DEF CollectC
  <1>9. ASSUME Restart PROVE ValueInv'
    <2>1. log' = log /\ DOMAIN held' = {}
      BY <1>9 DEF Restart
    <2> QED
      BY <1>1, <1>2, <2>1, InputKept DEF ValueInv, LogInv, HeldInv, PathInv
  <1>10. CASE \/ CollectAll("canonical", RecoverCanonicalBits, AddRoundConstant)
              \/ CollectAll("add_residual", AddRoundConstant, OpenT1Bits)
              \/ Certify
              \/ UNCHANGED vars
    BY <1>5, <1>10 DEF CollectAll, Certify, vars
  <1> QED
    BY <1>4, <1>7, <1>8, <1>9, <1>10 DEF Next

(***************************************************************************)
(* The result.                                                             *)
(***************************************************************************)
LEMMA R0Range ==
  ASSUME TypeOK
  PROVE  R0 \in 0 .. 2 ^ Width - 1
  BY MaskedRange, WrapRange, RecoveredRange DEF TypeOK, R0

\* With a good mask R is t, and every assertion passes.
LEMMA GoodPasses ==
  ASSUME TypeOK, ValueInv, GoodMask
  PROVE  R0 = input.t /\ \A a \in Assertions \cap DOMAIN log : Passes(a)
  <1>1. R0 = input.t /\ input.t \in 0 .. Q - 1
    BY GoodRecovery, InputFacts DEF TypeOK, R0
  <1>2. Given("zero_less") = 0
    <2>1. R0 < Q
      BY <1>1, Moduli
    <2> QED
      BY <2>1 DEF Given, Bit
  <1>3. Given("zero_equal") = 0
    <2>1. R0 - input.t = 0
      BY <1>1, Moduli
    <2>2. 0 % Q = 0
      BY Moduli, ModSmall
    <2> QED
      BY <2>1, <2>2 DEF Given
  <1> QED
    BY <1>1, <1>2, <1>3 DEF ValueInv, LogInv, Passes, Assertions

\* If the assertions pass R is t, whatever the mask.
LEMMA CheckedIsSound ==
  ASSUME TypeOK, ValueInv, Checked
  PROVE  R0 = input.t /\ "recover" \in DOMAIN log
  <1>1. /\ "zero_less" \in DOMAIN log /\ log["zero_less"] = 0
        /\ "zero_equal" \in DOMAIN log /\ log["zero_equal"] = 0
    BY DEF Checked, Passes, Assertions
  <1>2. 1 - Bit(R0 < Q) = 0 /\ (R0 - input.t) % Q = 0
    BY <1>1 DEF ValueInv, LogInv, Given
  <1>3. R0 < Q
    BY <1>2 DEF Bit
  <1>4. R0 \in 0 .. Q - 1 /\ input.t \in 0 .. Q - 1
    BY <1>3, R0Range, InputFacts, Moduli DEF TypeOK
  <1>5. R0 = input.t
    BY <1>2, <1>4, Moduli, ModEqual
  <1> QED
    BY <1>1, <1>5 DEF ValueInv, PathInv

LEMMA RightResult ==
  ASSUME TypeOK, ValueInv, DriverIsEarned
  PROVE  T1IsPower2Round
  <1>1. GoodMask => \A a \in Assertions \cap DOMAIN log : Passes(a)
    BY GoodPasses
  <1>2. Checked => log["recover"] = input.t
    BY CheckedIsSound DEF ValueInv, LogInv, Given
  <1>3. ASSUME "t1" \in DOMAIN log, GoodMask \/ Checked
        PROVE  /\ log["t1"] = Power2RoundHigh(input.t)
               /\ outputs \subseteq {Power2RoundHigh(input.t)}
    <2>1. R0 = input.t
      BY <1>3, GoodPasses, CheckedIsSound
    <2>2. log["t1"] = S0 \div (2 ^ D)
      BY <1>3 DEF ValueInv, LogInv, Given
    <2>3. S0 \div (2 ^ D) = Power2RoundHigh(input.t)
      BY <2>1, InputFacts, Rounding DEF TypeOK, S0
    <2> QED
      BY <2>2, <2>3 DEF DriverIsEarned
  <1> QED
    BY <1>1, <1>2, <1>3 DEF T1IsPower2Round

\* Whatever the application calls in whatever order, over restarts: t1 is the high
\* part of t if the mask is good or the assertions have passed, and good masks pass.
THEOREM T1IsPower2RoundCorrect == Spec => []T1IsPower2Round
  BY TypeInit, TypeStep, EarnedInit, EarnedStep, ValueInit, ValueStep, RightResult, PTL DEF Spec
=============================================================================
