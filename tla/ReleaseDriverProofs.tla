------------------------- MODULE ReleaseDriverProofs -------------------------
(***************************************************************************)
(* For any sessions, any order of them in a batch, and any number of       *)
(* failed calls, failed appends and crashes: the types of the release      *)
(* drivers, CertifiedIsComplete, RecordsAreExact, and that session ids     *)
(* keep the promise of OneTimeTokens.                                      *)
(*                                                                         *)
(* The argument turns on what a driver knows of its id.  Its copy of the   *)
(* registry is the file's at the start, and afterwards only the call under *)
(* way reserves: so an id that passes for new is new in the file, and was  *)
(* never certified.  The rest follows a finish through its appends: what   *)
(* is full before the reservation is full at certification, and what is    *)
(* certified comes before its cursor and its entry.                        *)
(***************************************************************************)
EXTENDS ReleaseDriver, TLAPS

(***************************************************************************)
(* The inductive invariant.                                                *)
(***************************************************************************)
Full(m) == m.stage = "Done" /\ m.values = {"Z", "Hint"}

\* Only full inventories are installed, and the certified cursor is the last.
DriversInv ==
  \A s \in Sessions :
    /\ driver[s].installed # NoMasks => Full(driver[s].installed)
    /\ driver[s].cursor # "ReleaseTokenCertified"

\* What a call goes by.
CallInv ==
  /\ call.pc = "-" <=> call.op \in {"idle", "collect", "install"}
  /\ call.op = "install" => Full(batch.mask)
  /\ call.op = "collect" => \A s \in Sessions : driver[s].phase # "none"
  /\ call.op = "finish" =>
       /\ driver[Current].phase # "none"
       /\ call.pc \in {"reserve", "certify"} => Full(Masks(driver[Current]))
  /\ call.op = "finishFused" =>
       /\ call.pc # "abort"
       /\ All({"ReadyToCertify"})
       /\ call.pc = "certify" => Full(driver[Current].installed)

\* What a call has written so far.
CertifiedInv ==
  /\ \A s \in Sessions : certified[s] > 0 => s \in registry
  /\ call.pc = "certify" => Current \in registry /\ certified[Current] = 0
  /\ call.pc \in {"cursor", "log"} => certified[Current] > 0

WrittenInv ==
  /\ call.op = "finish" /\ call.pc = "log" => cursorFile[Current] = "ReleaseTokenCertified"
  /\ call.op = "finishFused" =>
       \A i \in 1 .. call.at - 1 : cursorFile[Batch[i]] = "ReleaseTokenCertified"

\* The call under way has come to the registry with s.
Reserving(s) ==
  \/ call.op = "finish" /\ Current = s /\ call.pc # "reserve"
  \/ call.op = "finishFused" /\ \E i \in 1 .. call.at :
       Batch[i] = s /\ (i = call.at => call.pc # "reserve")

\* A driver knows of its id in the registry, unless it is the one that put it there.
KnownInv ==
  \A s \in Sessions :
    driver[s].phase # "none" /\ s \in registry => driver[s].known \/ Reserving(s)

IInv ==
  /\ TypeOK /\ DriversInv /\ CallInv /\ CertifiedInv /\ WrittenInv /\ KnownInv
  /\ RecordsAreEarned /\ CertifiedIsComplete

(***************************************************************************)
(* Sessions, circuits and cursors.                                         *)
(***************************************************************************)
LEMMA BatchFacts ==
  /\ Len(Batch) \in Nat \ {0}
  /\ \A i \in 1 .. Len(Batch) : Batch[i] \in Sessions
  /\ \A s \in Sessions : At(s) \in 1 .. Len(Batch) /\ Batch[At(s)] = s
<1>1. Batch \in Seq(Sessions) /\ \E s : s \in Sessions
  BY ReleaseAssumption
<1>2. Len(Batch) \in Nat /\ \A i \in 1 .. Len(Batch) : Batch[i] \in Sessions
  BY <1>1
<1>3. \A s \in Sessions : \E i \in 1 .. Len(Batch) : Batch[i] = s
  BY ReleaseAssumption
<1>4. Len(Batch) # 0
  BY <1>1, <1>2, <1>3
<1>. QED
  BY <1>2, <1>3, <1>4 DEF At

LEMMA Positions ==
  ASSUME NEW n \in Nat, NEW a \in 1 .. n
  PROVE  /\ a \in 1 .. a
         /\ \A i \in 1 .. a : i \in 1 .. a + 1 /\ i # a + 1
         /\ \A i \in 1 .. a - 1 : i \in 1 .. n
         /\ \A i \in 1 .. (a + 1) - 1 : i \in 1 .. a - 1 \/ i = a
         /\ a < n => a + 1 \in 1 .. n
  OBVIOUS

LEMMA CurrentFacts ==
  ASSUME TypeOK
  PROVE  call.at \in 1 .. Len(Batch) /\ Current \in Sessions
  BY BatchFacts DEF TypeOK, CallState, Current

LEMMA CircuitsAreFour ==
  /\ Circuits = <<"masked_broadcast", "carry_compare", "cef_correction", "bcc">>
  /\ Len(Circuits) = 4 /\ \A i \in 1 .. Len(Circuits) : Circuits[i] \in AllCircuits
<1>1. Circuits = <<"masked_broadcast", "carry_compare", "cef_correction", "bcc">>
  BY DEF Circuits
<1>2. Len(Circuits) = 4 /\ DOMAIN Circuits = 1 .. 4
  BY <1>1
<1>3. \A i \in DOMAIN Circuits : Circuits[i] \in AllCircuits
  BY DEF AllCircuits, Range
<1>. QED
  BY <1>1, <1>2, <1>3

LEMMA CircuitDoneType ==
  ASSUME NEW done \in SUBSET AllCircuits
  PROVE  CircuitDone(done) \in SUBSET AllCircuits
<1> DEFINE left == {i \in 1 .. Len(Circuits) : Circuits[i] \notin done}
           first == CHOOSE i \in left : \A k \in left : i <= k
<1>1. CASE left = {}
  BY <1>1 DEF CircuitDone
<1>2. CASE left # {}
  <2>1. left \subseteq {1, 2, 3, 4}
    BY CircuitsAreFour
  <2>2. \E i \in left : \A k \in left : i <= k
    <3> HIDE DEF left
    <3>1. \A k \in left : k \in {1, 2, 3, 4}
      BY <2>1
    <3>2. CASE 1 \in left
      <4>1. \A k \in left : 1 <= k
        BY <3>1
      <4>. QED
        BY <3>2, <4>1
    <3>3. CASE 1 \notin left /\ 2 \in left
      <4>1. \A k \in left : 2 <= k
        BY <3>1, <3>3
      <4>. QED
        BY <3>3, <4>1
    <3>4. CASE 1 \notin left /\ 2 \notin left /\ 3 \in left
      <4>1. \A k \in left : 3 <= k
        BY <3>1, <3>4
      <4>. QED
        BY <3>4, <4>1
    <3>5. CASE 1 \notin left /\ 2 \notin left /\ 3 \notin left
      <4>1. 4 \in left
        BY <1>2, <3>1, <3>5
      <4>2. \A k \in left : 4 <= k
        BY <3>1, <3>5
      <4>. QED
        BY <4>1, <4>2
    <3>. QED
      BY <3>2, <3>3, <3>4, <3>5
  <2>3. first \in left
    <3> HIDE DEF left
    <3>. QED
      BY <2>2
  <2>4. CircuitDone(done) = done \cup {Circuits[first]}
    BY <1>2 DEF CircuitDone
  <2> HIDE DEF first
  <2>. QED
    BY <2>3, <2>4, CircuitsAreFour
<1>. QED
  BY <1>1, <1>2

LEMMA MaskTypes ==
  /\ NoMasks \in MaskState /\ FreshMasks \in MaskState /\ NoMasks.stage = "none"
  /\ NoDriver \in DriverState /\ NoDriver.phase = "none" /\ NoDriver.installed = NoMasks
  /\ NoDriver.cursor = "none"
  /\ NoBatch \in BatchState
  /\ Idle \in CallState /\ Idle.op = "idle" /\ Idle.pc = "-"
<1>1. NoMasks \in MaskState /\ FreshMasks \in MaskState /\ NoMasks.stage = "none"
  BY DEF NoMasks, FreshMasks, MaskState
<1>2. /\ NoDriver \in DriverState /\ NoDriver.phase = "none" /\ NoDriver.installed = NoMasks
      /\ NoDriver.cursor = "none"
  BY <1>1 DEF NoDriver, DriverState
<1>3. NoBatch \in BatchState
  BY <1>1 DEF NoBatch, BatchState
<1>4. Idle \in CallState /\ Idle.op = "idle" /\ Idle.pc = "-"
  BY BatchFacts DEF Idle, CallState
<1>. QED
  BY <1>1, <1>2, <1>3, <1>4

LEMMA DriverTypes ==
  ASSUME NEW d \in DriverState
  PROVE  /\ d.private \in SUBSET AllCircuits /\ d.mask \in MaskState
         /\ d.installed \in MaskState /\ d.known \in BOOLEAN
         /\ d.cursor \in CursorPhase \cup {"none"}
  BY DEF DriverState

LEMMA FaultsKept ==
  ASSUME TypeOK, Fault \/ UNCHANGED faults
  PROVE  faults' \in 0 .. MaxFaults
<1>1. MaxFaults \in Nat /\ faults \in 0 .. MaxFaults
  BY ReleaseAssumption DEF TypeOK
<1>2. faults' = faults \/ (faults < MaxFaults /\ faults' = faults + 1)
  BY DEF Fault
<1>. QED
  BY <1>1, <1>2

LEMMA PersistFacts ==
  ASSUME TypeOK, NEW s \in Sessions, NEW memory, NEW phase \in CursorPhase, NEW o,
         Persist(s, memory, phase, o)
  PROVE  /\ cursorFile' \in [Sessions -> CursorPhase \cup {"none"}]
         /\ faults' \in 0 .. MaxFaults
         /\ \A t \in Sessions : cursorFile'[t] \in
              {cursorFile[t], IF t = s THEN phase ELSE cursorFile[t]}
<1>1. cursorFile \in [Sessions -> CursorPhase \cup {"none"}]
  BY DEF TypeOK
<1>2. faults' \in 0 .. MaxFaults
  BY FaultsKept DEF Persist, Charge
<1>3. cursorFile' = [cursorFile EXCEPT ![s] =
                       IF memory = phase \/ o = "failed" THEN cursorFile[s] ELSE phase]
  BY DEF Persist
<1>. QED
  BY <1>1, <1>2, <1>3

(***************************************************************************)
(* Steps after which no finish is under way: the drivers that are left     *)
(* know of their ids, and no record of certification is new unless earned. *)
(***************************************************************************)
LEMMA RestStep ==
  ASSUME IInv, TypeOK', call'.pc = "-", call'.op \in {"idle", "collect", "install"},
         call'.op = "install" => Full(batch'.mask),
         call'.op = "collect" => \A s \in Sessions : driver'[s].phase # "none",
         certified' = certified, behind' = behind, registry \subseteq registry',
         \A s \in Sessions : cursorFile'[s] = "ReleaseTokenCertified" \/ s \in releaseLog' =>
           certified[s] > 0 /\ s \in registry,
         \A s \in Sessions :
           /\ driver'[s].installed # NoMasks => Full(driver'[s].installed)
           /\ driver'[s].cursor # "ReleaseTokenCertified"
           /\ driver'[s].phase # "none" /\ s \in registry' => driver'[s].known
  PROVE  IInv'
<1>1. DriversInv' /\ KnownInv'
  BY DEF DriversInv, KnownInv, Full
<1>2. CallInv' /\ WrittenInv'
  BY DEF CallInv, WrittenInv, Full
<1>3. CertifiedInv'
  BY DEF IInv, CertifiedInv
<1>4. RecordsAreEarned' /\ CertifiedIsComplete'
  BY DEF IInv, RecordsAreEarned, CertifiedIsComplete
<1>. QED
  BY <1>1, <1>2, <1>3, <1>4 DEF IInv

\* Between calls, or in a loop of the batch.
Resting == call.pc = "-"

\* A step of one driver: d is the driver afterwards.
LEMMA DriverStep ==
  ASSUME IInv, Resting, NEW s \in Sessions, NEW d \in DriverState,
         driver' = [driver EXCEPT ![s] = d],
         d.installed # NoMasks => Full(d.installed), d.cursor # "ReleaseTokenCertified",
         d.phase # "none" /\ s \in registry => d.known,
         NEW phase \in CursorPhase \ {"ReleaseTokenCertified"},
         cursorFile' \in [Sessions -> CursorPhase \cup {"none"}],
         \A t \in Sessions : cursorFile'[t] \in {cursorFile[t], phase},
         faults' \in 0 .. MaxFaults, batch' = batch, call' \in CallState,
         call'.pc = "-", call'.op \in {"idle", "collect", "install"},
         call'.op = "install" => call.op = "install",
         call'.op = "collect" => call.op = "collect" /\ d.phase # "none",
         UNCHANGED <<registry, releaseLog>>, UNCHANGED history
  PROVE  IInv'
<1>1. TypeOK /\ DriversInv /\ CallInv /\ KnownInv /\ RecordsAreEarned
  BY DEF IInv
<1>2. /\ registry' = registry /\ releaseLog' = releaseLog /\ certified' = certified
      /\ behind' = behind /\ returned' = returned
  BY DEF history
<1>3. driver' \in [Sessions -> DriverState]
  BY <1>1 DEF TypeOK
<1>4. TypeOK'
  BY <1>1, <1>2, <1>3 DEF TypeOK
<1>5. \A t \in Sessions : driver[t].phase # "none" /\ t \in registry => driver[t].known
  BY <1>1 DEF KnownInv, Reserving, CallInv, Resting
<1>6. ASSUME NEW t \in Sessions
      PROVE  /\ driver'[t].installed # NoMasks => Full(driver'[t].installed)
             /\ driver'[t].cursor # "ReleaseTokenCertified"
             /\ driver'[t].phase # "none" /\ t \in registry' => driver'[t].known
  <2>1. CASE t = s
    <3>1. driver'[t] = d
      BY <1>1, <2>1 DEF TypeOK
    <3>. QED
      BY <1>2, <2>1, <3>1
  <2>2. CASE t # s
    <3>1. driver'[t] = driver[t]
      BY <1>1, <2>2 DEF TypeOK
    <3>. QED
      BY <1>1, <1>2, <1>5, <3>1 DEF DriversInv
  <2>. QED
    BY <2>1, <2>2
<1>7. \A t \in Sessions : cursorFile'[t] = "ReleaseTokenCertified" \/ t \in releaseLog' =>
        certified[t] > 0 /\ t \in registry
  BY <1>1, <1>2 DEF RecordsAreEarned
<1>8. /\ call'.op = "install" => Full(batch'.mask)
      /\ call'.op = "collect" => \A t \in Sessions : driver'[t].phase # "none"
  BY <1>1 DEF CallInv, TypeOK
<1>. QED
  BY <1>2, <1>4, <1>6, <1>7, <1>8, RestStep

LEMMA StartStep ==
  ASSUME IInv, NEW s \in Sessions, NEW o \in Outcome, Start(s, o)
  PROVE  IInv'
<1> DEFINE d == IF o = "ok" THEN Started(s) ELSE NoDriver
<1>1. TypeOK /\ CallInv
  BY DEF IInv
<1>2. /\ call.op = "idle" /\ Persist(s, cursorFile[s], "TranscriptComplete", o)
      /\ driver' = [driver EXCEPT ![s] = d] /\ batch' = batch /\ call' = call
      /\ UNCHANGED <<registry, releaseLog>> /\ UNCHANGED history
  BY DEF Start
<1>3. "TranscriptComplete" \in CursorPhase \ {"ReleaseTokenCertified"}
  BY DEF CursorPhase
<1>4. /\ d \in DriverState /\ d.installed = NoMasks /\ d.cursor # "ReleaseTokenCertified"
      /\ d.phase # "none" /\ s \in registry => d.known
  <2>1. CASE o = "ok"
    <3> DEFINE known == s \in registry
    <3>1. d = [phase |-> "PrivateRuntime", private |-> {}, mask |-> NoMasks,
               installed |-> NoMasks, known |-> known, cursor |-> "TranscriptComplete"]
      BY <2>1 DEF Started, NoDriver
    <3>2. known \in BOOLEAN /\ (s \in registry => known)
      OBVIOUS
    <3> HIDE DEF d, known
    <3>3. /\ d.phase = "PrivateRuntime" /\ d.installed = NoMasks /\ d.known = known
          /\ d.cursor = "TranscriptComplete"
      BY <3>1
    <3>4. d \in DriverState
      BY <3>1, <3>2, MaskTypes DEF DriverState, CursorPhase
    <3>. QED
      BY <3>2, <3>3, <3>4
  <2>2. CASE o # "ok"
    BY <2>2, MaskTypes
  <2>. QED
    BY <2>1, <2>2
<1> HIDE DEF d
<1>5. /\ cursorFile' \in [Sessions -> CursorPhase \cup {"none"}]
      /\ faults' \in 0 .. MaxFaults
      /\ \A t \in Sessions : cursorFile'[t] \in {cursorFile[t], "TranscriptComplete"}
  BY <1>1, <1>2, <1>3, PersistFacts
<1>6. call \in CallState /\ Resting
  BY <1>1, <1>2 DEF TypeOK, CallInv, Resting
<1>7. call'.pc = "-" /\ call'.op = "idle"
  BY <1>2, <1>6 DEF Resting
<1>. QED
  BY <1>2, <1>3, <1>4, <1>5, <1>6, <1>7, DriverStep

LEMMA CollectPrivateStep ==
  ASSUME IInv, NEW s \in Sessions, NEW o \in Outcome, CollectPrivate(s, o)
  PROVE  IInv'
<1> DEFINE done == CircuitDone(driver[s].private)
           c == [driver[s] EXCEPT !.private = done]
           e == [driver[s] EXCEPT !.private = done, !.cursor = "PrivateRuntimeComplete"]
           f == [driver[s] EXCEPT !.private = done, !.cursor = "PrivateRuntimeComplete",
                                  !.phase = "StrictMasks", !.mask = FreshMasks]
<1>1. TypeOK /\ CallInv /\ DriversInv /\ KnownInv
  BY DEF IInv
<1>2. /\ call.op = "idle" /\ driver[s].phase = "PrivateRuntime" /\ batch' = batch /\ call' = call
      /\ UNCHANGED <<registry, releaseLog>> /\ UNCHANGED history
      /\ \/ /\ Persist(s, driver[s].cursor, "PrivateRuntimeComplete", o)
            /\ driver' = [driver EXCEPT ![s] = e] \/ driver' = [driver EXCEPT ![s] = f]
         \/ /\ UNCHANGED <<cursorFile, faults>>
            /\ driver' = [driver EXCEPT ![s] = c]
  <2>1. driver \in [Sessions -> DriverState]
    BY <1>1 DEF TypeOK
  <2>2. CASE IsDone(done)
    BY <2>2 DEF CollectPrivate
  <2>3. CASE ~IsDone(done)
    <3>1. driver' = [driver EXCEPT ![s].private = done]
      BY <2>3 DEF CollectPrivate
    <3>2. driver' = [driver EXCEPT ![s] = c]
      BY <2>1, <3>1
    <3>. QED
      BY <2>3, <3>2 DEF CollectPrivate
  <2>. QED
    BY <2>2, <2>3
<1>3. /\ driver[s] \in DriverState /\ done \in SUBSET AllCircuits
      /\ driver[s].installed # NoMasks => Full(driver[s].installed)
      /\ driver[s].cursor # "ReleaseTokenCertified"
      /\ s \in registry => driver[s].known
  <2>1. driver[s] \in DriverState
    BY <1>1 DEF TypeOK
  <2>2. done \in SUBSET AllCircuits
    BY <2>1, DriverTypes, CircuitDoneType
  <2>3. s \in registry => driver[s].known
    BY <1>1, <1>2 DEF KnownInv, Reserving
  <2>. QED
    BY <1>1, <2>1, <2>2, <2>3 DEF DriversInv
<1> HIDE DEF done
<1>4. /\ c \in DriverState /\ c.installed = driver[s].installed /\ c.cursor = driver[s].cursor
      /\ c.known = driver[s].known
  BY <1>3 DEF DriverState
<1>5. /\ e \in DriverState /\ e.installed = driver[s].installed
      /\ e.cursor = "PrivateRuntimeComplete" /\ e.known = driver[s].known
  BY <1>3 DEF DriverState, CursorPhase
<1>6. /\ f \in DriverState /\ f.installed = driver[s].installed
      /\ f.cursor = "PrivateRuntimeComplete" /\ f.known = driver[s].known
  BY <1>3, MaskTypes DEF DriverState, CursorPhase
<1> HIDE DEF c, e, f
<1>7. PICK d \in DriverState :
        /\ driver' = [driver EXCEPT ![s] = d]
        /\ d.installed # NoMasks => Full(d.installed)
        /\ d.cursor # "ReleaseTokenCertified"
        /\ s \in registry => d.known
  BY <1>2, <1>3, <1>4, <1>5, <1>6
<1>8. "PrivateRuntimeComplete" \in CursorPhase \ {"ReleaseTokenCertified"}
  BY DEF CursorPhase
<1>9. /\ cursorFile' \in [Sessions -> CursorPhase \cup {"none"}]
      /\ faults' \in 0 .. MaxFaults
      /\ \A t \in Sessions : cursorFile'[t] \in {cursorFile[t], "PrivateRuntimeComplete"}
  BY <1>1, <1>2, <1>8, PersistFacts DEF TypeOK
<1>10. /\ call \in CallState /\ Resting /\ call'.pc = "-" /\ call'.op = "idle"
       /\ call' \in CallState
  BY <1>1, <1>2 DEF TypeOK, CallInv, Resting
<1>. QED
  BY <1>2, <1>7, <1>8, <1>9, <1>10, DriverStep

\* A step of a driver that goes on.
LEMMA ProgressStep ==
  ASSUME IInv, Resting, NEW s \in Sessions, driver[s].phase # "none", NEW d \in DriverState,
         driver' = [driver EXCEPT ![s] = d], d.known = driver[s].known, d.phase # "none",
         d.installed # NoMasks => Full(d.installed), d.cursor # "ReleaseTokenCertified",
         NEW phase \in CursorPhase \ {"ReleaseTokenCertified"}, NEW o,
         \/ Persist(s, driver[s].cursor, phase, o)
         \/ cursorFile' = cursorFile /\ (Fault \/ UNCHANGED faults),
         batch' = batch, call' \in CallState,
         call'.pc = "-", call'.op \in {"idle", call.op},
         UNCHANGED <<registry, releaseLog>>, UNCHANGED history
  PROVE  IInv'
<1>1. TypeOK /\ CallInv /\ KnownInv
  BY DEF IInv
<1>2. d.phase # "none" /\ s \in registry => d.known
  BY <1>1 DEF KnownInv, Reserving, Resting, CallInv
<1>3. /\ cursorFile' \in [Sessions -> CursorPhase \cup {"none"}]
      /\ faults' \in 0 .. MaxFaults
      /\ \A t \in Sessions : cursorFile'[t] \in {cursorFile[t], phase}
  <2>1. CASE Persist(s, driver[s].cursor, phase, o)
    <3>1. phase \in CursorPhase
      OBVIOUS
    <3>2. /\ cursorFile' \in [Sessions -> CursorPhase \cup {"none"}]
          /\ faults' \in 0 .. MaxFaults
          /\ \A t \in Sessions : cursorFile'[t] \in
               {cursorFile[t], IF t = s THEN phase ELSE cursorFile[t]}
      BY <1>1, <2>1, <3>1, PersistFacts
    <3>. QED
      BY <3>2
  <2>2. CASE cursorFile' = cursorFile /\ (Fault \/ UNCHANGED faults)
    BY <1>1, <2>2, FaultsKept DEF TypeOK
  <2>. QED
    BY <2>1, <2>2
<1>4. call'.op \in {"idle", "collect", "install"}
  BY <1>1 DEF CallInv, Resting
<1>. QED
  BY <1>2, <1>3, <1>4, DriverStep

LEMMA MasksStep ==
  ASSUME IInv, NEW s \in Sessions, NEW m \in MaskState,
         FailMasks(s, m) \/ \E o \in Outcome : CollectMasks(s, m, o)
  PROVE  IInv'
<1> DEFINE c == [driver[s] EXCEPT !.mask = m]
           e == [driver[s] EXCEPT !.mask = m, !.cursor = "StrictMasksComplete"]
           f == [driver[s] EXCEPT !.mask = m, !.cursor = "StrictMasksComplete",
                                  !.phase = "ReadyToCertify"]
<1>1. TypeOK /\ CallInv /\ DriversInv
  BY DEF IInv
<1>2. /\ call.op = "idle" /\ driver[s].phase = "StrictMasks" /\ batch' = batch /\ call' = call
      /\ UNCHANGED <<registry, releaseLog>> /\ UNCHANGED history
      /\ \/ /\ \E o : Persist(s, driver[s].cursor, "StrictMasksComplete", o)
            /\ driver' = [driver EXCEPT ![s] = e] \/ driver' = [driver EXCEPT ![s] = f]
         \/ /\ cursorFile' = cursorFile /\ (Fault \/ UNCHANGED faults)
            /\ driver' = [driver EXCEPT ![s] = c]
  <2>1. driver \in [Sessions -> DriverState]
    BY <1>1 DEF TypeOK
  <2>2. driver' = [driver EXCEPT ![s].mask = m] => driver' = [driver EXCEPT ![s] = c]
    BY <2>1
  <2>3. CASE FailMasks(s, m)
    BY <2>2, <2>3 DEF FailMasks
  <2>4. CASE \E o \in Outcome : CollectMasks(s, m, o)
    BY <2>2, <2>4 DEF CollectMasks
  <2>. QED
    BY <2>3, <2>4
<1>3. /\ driver[s] \in DriverState
      /\ driver[s].installed # NoMasks => Full(driver[s].installed)
      /\ driver[s].cursor # "ReleaseTokenCertified"
  BY <1>1 DEF TypeOK, DriversInv
<1>4. /\ c \in DriverState /\ c.installed = driver[s].installed /\ c.cursor = driver[s].cursor
      /\ c.known = driver[s].known /\ c.phase = driver[s].phase
  BY <1>3 DEF DriverState
<1>5. /\ e \in DriverState /\ e.installed = driver[s].installed
      /\ e.cursor = "StrictMasksComplete" /\ e.known = driver[s].known
      /\ e.phase = driver[s].phase
  BY <1>3 DEF DriverState, CursorPhase
<1>6. /\ f \in DriverState /\ f.installed = driver[s].installed
      /\ f.cursor = "StrictMasksComplete" /\ f.known = driver[s].known
      /\ f.phase = "ReadyToCertify"
  BY <1>3 DEF DriverState, CursorPhase
<1> HIDE DEF c, e, f
<1>7. PICK d \in DriverState :
        /\ driver' = [driver EXCEPT ![s] = d]
        /\ d.installed # NoMasks => Full(d.installed)
        /\ d.cursor # "ReleaseTokenCertified"
        /\ d.known = driver[s].known /\ d.phase # "none"
  BY <1>2, <1>3, <1>4, <1>5, <1>6
<1>8. "StrictMasksComplete" \in CursorPhase \ {"ReleaseTokenCertified"}
  BY DEF CursorPhase
<1>9. PICK o : \/ Persist(s, driver[s].cursor, "StrictMasksComplete", o)
               \/ cursorFile' = cursorFile /\ (Fault \/ UNCHANGED faults)
  BY <1>2
<1>10. /\ call \in CallState /\ Resting /\ call'.pc = "-" /\ call'.op = "idle"
       /\ call' \in CallState
  BY <1>1, <1>2 DEF TypeOK, CallInv, Resting
<1>. QED
  BY <1>2, <1>7, <1>8, <1>9, <1>10, ProgressStep

LEMMA NextDriverFacts ==
  ASSUME TypeOK, NEW o
  PROVE  /\ NextDriver(o) \in CallState /\ NextDriver(o).op \in {"idle", call.op}
         /\ NextDriver(o).pc \in {"-", call.pc}
<1>1. call \in CallState /\ call.at \in 1 .. Len(Batch) /\ Len(Batch) \in Nat
  BY BatchFacts, CurrentFacts DEF TypeOK
<1>2. CASE o = "ok" /\ call.at < Len(Batch)
  <2>1. NextDriver(o) = [call EXCEPT !.at = call.at + 1]
    BY <1>2 DEF NextDriver
  <2>2. call.at + 1 \in 1 .. Len(Batch)
    BY <1>1, <1>2
  <2>. QED
    BY <1>1, <2>1, <2>2 DEF CallState
<1>3. CASE ~(o = "ok" /\ call.at < Len(Batch))
  BY <1>3, MaskTypes DEF NextDriver
<1>. QED
  BY <1>2, <1>3

LEMMA LoopStep ==
  ASSUME IInv, NEW o \in Outcome, CollectFusedNext(o) \/ InstallNext(o)
  PROVE  IInv'
<1> DEFINE s == Current
           b == [driver[s] EXCEPT !.cursor = "PrivateRuntimeComplete", !.phase = "StrictMasks"]
           c == [driver[s] EXCEPT !.cursor = "PrivateRuntimeComplete"]
           e == [driver[s] EXCEPT !.mask = NoMasks, !.installed = batch.mask,
                                  !.cursor = "StrictMasksComplete", !.phase = "ReadyToCertify"]
           f == [driver[s] EXCEPT !.mask = NoMasks, !.installed = batch.mask,
                                  !.cursor = "StrictMasksComplete"]
<1>1. TypeOK /\ CallInv /\ DriversInv /\ s \in Sessions
  BY CurrentFacts DEF IInv
<1>2. /\ call.op \in {"collect", "install"} /\ driver[s].phase # "none"
      /\ batch' = batch /\ call' = NextDriver(o)
      /\ UNCHANGED <<registry, releaseLog>> /\ UNCHANGED history
      /\ \/ /\ Persist(s, driver[s].cursor, "PrivateRuntimeComplete", o)
            /\ driver' = [driver EXCEPT ![s] = b] \/ driver' = [driver EXCEPT ![s] = c]
         \/ /\ Persist(s, driver[s].cursor, "StrictMasksComplete", o)
            /\ Full(batch.mask)
            /\ driver' = [driver EXCEPT ![s] = e] \/ driver' = [driver EXCEPT ![s] = f]
  <2>1. CASE CollectFusedNext(o)
    BY <1>1, <2>1 DEF CollectFusedNext, CallInv
  <2>2. CASE InstallNext(o)
    BY <1>1, <2>2 DEF InstallNext, CallInv
  <2>. QED
    BY <2>1, <2>2
<1>3. /\ driver[s] \in DriverState /\ batch.mask \in MaskState
      /\ driver[s].installed # NoMasks => Full(driver[s].installed)
  BY <1>1 DEF TypeOK, DriversInv, BatchState
<1> HIDE DEF s
<1>4. /\ b \in DriverState /\ b.installed = driver[s].installed
      /\ b.cursor = "PrivateRuntimeComplete" /\ b.known = driver[s].known /\ b.phase # "none"
  BY <1>3 DEF DriverState, CursorPhase
<1>5. /\ c \in DriverState /\ c.installed = driver[s].installed
      /\ c.cursor = "PrivateRuntimeComplete" /\ c.known = driver[s].known /\ c.phase # "none"
  BY <1>2, <1>3 DEF DriverState, CursorPhase
<1>6. /\ e \in DriverState /\ e.installed = batch.mask
      /\ e.cursor = "StrictMasksComplete" /\ e.known = driver[s].known /\ e.phase # "none"
  BY <1>3, MaskTypes DEF DriverState, CursorPhase
<1>7. /\ f \in DriverState /\ f.installed = batch.mask
      /\ f.cursor = "StrictMasksComplete" /\ f.known = driver[s].known /\ f.phase # "none"
  BY <1>2, <1>3, MaskTypes DEF DriverState, CursorPhase
<1> HIDE DEF b, c, e, f
<1>8. PICK d \in DriverState :
        /\ driver' = [driver EXCEPT ![s] = d]
        /\ d.installed # NoMasks => Full(d.installed)
        /\ d.cursor # "ReleaseTokenCertified"
        /\ d.known = driver[s].known /\ d.phase # "none"
  BY <1>2, <1>3, <1>4, <1>5, <1>6, <1>7
<1>9. PICK phase \in CursorPhase \ {"ReleaseTokenCertified"} :
        Persist(s, driver[s].cursor, phase, o)
  BY <1>2 DEF CursorPhase
<1>10. /\ Resting /\ call' \in CallState /\ call'.pc = "-" /\ call'.op \in {"idle", call.op}
  BY <1>1, <1>2, NextDriverFacts DEF CallInv, Resting
<1>. QED
  BY <1>1, <1>2, <1>8, <1>9, <1>10, ProgressStep

\* Steps of the batch driver that leave the drivers alone.
LEMMA BatchStep ==
  ASSUME IInv, Resting, driver' = driver, batch' \in BatchState, call' \in CallState,
         call'.pc = "-", call'.op \in {"idle", "collect", "install"},
         call'.op = "install" => Full(batch'.mask),
         call'.op = "collect" => \A s \in Sessions : driver[s].phase # "none",
         UNCHANGED <<cursorFile, registry, releaseLog>>, UNCHANGED history,
         Fault \/ UNCHANGED faults
  PROVE  IInv'
<1>1. TypeOK /\ DriversInv /\ CallInv /\ KnownInv /\ RecordsAreEarned
  BY DEF IInv
<1>2. /\ registry' = registry /\ releaseLog' = releaseLog /\ cursorFile' = cursorFile
      /\ certified' = certified /\ behind' = behind /\ returned' = returned
  BY DEF history
<1>3. TypeOK'
  BY <1>1, <1>2, FaultsKept DEF TypeOK
<1>4. \A s \in Sessions :
        /\ driver'[s].installed # NoMasks => Full(driver'[s].installed)
        /\ driver'[s].cursor # "ReleaseTokenCertified"
        /\ driver'[s].phase # "none" /\ s \in registry' => driver'[s].known
  BY <1>1, <1>2 DEF DriversInv, KnownInv, Reserving, CallInv, Resting
<1>5. \A s \in Sessions : cursorFile'[s] = "ReleaseTokenCertified" \/ s \in releaseLog' =>
        certified[s] > 0 /\ s \in registry
  BY <1>1, <1>2 DEF RecordsAreEarned
<1>. QED
  BY <1>2, <1>3, <1>4, <1>5, RestStep

LEMMA BatchStateFacts ==
  ASSUME TypeOK
  PROVE  /\ [NoBatch EXCEPT !.state = "batch"] \in BatchState
         /\ [batch EXCEPT !.state = "running"] \in BatchState
         /\ [batch EXCEPT !.private = CircuitDone(batch.private)] \in BatchState
         /\ \A m \in MaskState : [batch EXCEPT !.mask = m] \in BatchState
         /\ \A op \in {"idle", "collect", "install"} :
              [op |-> op, at |-> 1, pc |-> "-"] \in CallState
<1>1. batch \in BatchState /\ NoBatch \in BatchState
  BY MaskTypes DEF TypeOK
<1>2. CircuitDone(batch.private) \in SUBSET AllCircuits
  BY <1>1, CircuitDoneType DEF BatchState
<1>3. \A done \in SUBSET AllCircuits : [batch EXCEPT !.private = done] \in BatchState
  BY <1>1 DEF BatchState
<1>4. \A op \in {"idle", "collect", "install"} : [op |-> op, at |-> 1, pc |-> "-"] \in CallState
  <2>1. 1 \in 1 .. Len(Batch)
    BY BatchFacts
  <2>. QED
    BY <2>1 DEF CallState
<1>5. /\ [NoBatch EXCEPT !.state = "batch"] \in BatchState
      /\ [batch EXCEPT !.state = "running"] \in BatchState
      /\ \A m \in MaskState : [batch EXCEPT !.mask = m] \in BatchState
  BY <1>1 DEF BatchState
<1>. QED
  BY <1>2, <1>3, <1>4, <1>5

LEMMA BatchSteps ==
  ASSUME IInv,
         \/ NewBatch \/ IntoDrivers \/ StartFused \/ CollectFused \/ Install \/ InstallRefused
         \/ \E m \in MaskState : BatchMasks(m)
  PROVE  IInv'
<1>1. TypeOK /\ CallInv
  BY DEF IInv
<1>2. /\ call.op \in {"idle", "install"} /\ Resting /\ driver' = driver
      /\ UNCHANGED <<cursorFile, registry, releaseLog>> /\ UNCHANGED history
      /\ Fault \/ UNCHANGED faults
  <2>1. call.op \in {"idle", "install"} => Resting
    BY <1>1 DEF CallInv, Resting
  <2>. QED
    BY <2>1 DEF NewBatch, IntoDrivers, StartFused, CollectFused, Install, InstallRefused,
                BatchMasks, BatchUnchanged
<1>3. batch' \in BatchState
  <2>1. CASE CollectFused
    BY <1>1, <2>1, BatchStateFacts DEF CollectFused
  <2>2. CASE \E m \in MaskState : BatchMasks(m)
    BY <1>1, <2>2, BatchStateFacts DEF BatchMasks
  <2>3. CASE Install \/ InstallRefused
    BY <1>1, <2>3 DEF TypeOK, Install, InstallRefused
  <2>4. CASE NewBatch \/ IntoDrivers \/ StartFused
    BY <1>1, <2>4, BatchStateFacts, MaskTypes DEF NewBatch, IntoDrivers, StartFused
  <2>. QED
    BY <2>1, <2>2, <2>3, <2>4
<1>4. /\ call' \in CallState /\ call'.pc = "-" /\ call'.op \in {"idle", "collect", "install"}
      /\ call'.op = "install" => Full(batch'.mask)
      /\ call'.op = "collect" => \A s \in Sessions : driver[s].phase # "none"
  <2>1. call \in CallState /\ (call.op = "idle" => call.pc = "-")
    BY <1>1 DEF TypeOK, CallInv
  <2>2. CASE CollectFused
    <3>1. call' = [op |-> "collect", at |-> 1, pc |-> "-"] \/ call' = Idle
      BY <2>2 DEF CollectFused
    <3>2. \A s \in Sessions : driver[s].phase # "none"
      BY <2>2 DEF CollectFused, All
    <3>. QED
      BY <1>1, <3>1, <3>2, BatchStateFacts, MaskTypes
  <2>3. CASE Install
    BY <1>1, <2>3, BatchStateFacts DEF Install, Full
  <2>4. CASE InstallRefused
    BY <2>4, MaskTypes DEF InstallRefused
  <2>5. CASE \/ NewBatch \/ IntoDrivers \/ StartFused
             \/ \E m \in MaskState : BatchMasks(m)
    BY <2>1, <2>5 DEF NewBatch, IntoDrivers, StartFused, BatchMasks
  <2>. QED
    BY <2>2, <2>3, <2>4, <2>5
<1>. QED
  BY <1>2, <1>3, <1>4, BatchStep

(***************************************************************************)
(* The end of a call, and a crash: what it owned is gone.                  *)
(***************************************************************************)
LEMMA EndStep ==
  ASSUME IInv, NEW gone \in SUBSET Sessions,
         driver' = [s \in Sessions |-> IF s \in gone THEN NoDriver ELSE driver[s]],
         batch' \in {batch, NoBatch}, call' = Idle,
         \A s \in Sessions \ gone : ~Reserving(s) /\ (s \in registry' => s \in registry),
         cursorFile' \in [Sessions -> CursorPhase \cup {"none"}],
         registry \subseteq registry', registry' \subseteq Sessions,
         releaseLog' \subseteq Sessions, returned' \subseteq Sessions,
         \A s \in Sessions : cursorFile'[s] = "ReleaseTokenCertified" \/ s \in releaseLog' =>
           certified[s] > 0 /\ s \in registry,
         certified' = certified, behind' = behind, faults' \in 0 .. MaxFaults
  PROVE  IInv'
<1>1. TypeOK /\ DriversInv /\ KnownInv
  BY DEF IInv
<1>2. \A s \in Sessions : driver'[s] = NoDriver \/ (s \notin gone /\ driver'[s] = driver[s])
  OBVIOUS
<1>3. driver' \in [Sessions -> DriverState]
  <2>1. \A s \in Sessions : driver[s] \in DriverState
    BY <1>1 DEF TypeOK
  <2>. QED
    BY <2>1, MaskTypes
<1>4. TypeOK'
  BY <1>1, <1>3, MaskTypes DEF TypeOK
<1>5. \A s \in Sessions :
        /\ driver'[s].installed # NoMasks => Full(driver'[s].installed)
        /\ driver'[s].cursor # "ReleaseTokenCertified"
        /\ driver'[s].phase # "none" /\ s \in registry' => driver'[s].known
  BY <1>1, <1>2, MaskTypes DEF DriversInv, KnownInv
<1>6. call'.op = "idle" /\ call'.pc = "-"
  BY MaskTypes
<1>. QED
  BY <1>4, <1>5, <1>6, RestStep

LEMMA CrashStep ==
  ASSUME IInv, Crash
  PROVE  IInv'
<1>1. TypeOK /\ RecordsAreEarned
  BY DEF IInv
<1>2. /\ driver' = [s \in Sessions |-> IF s \in Sessions THEN NoDriver ELSE driver[s]]
      /\ batch' = NoBatch /\ call' = Idle /\ Fault
      /\ cursorFile' = cursorFile /\ registry' = registry /\ releaseLog' = releaseLog
      /\ certified' = certified /\ behind' = behind /\ returned' = returned
  BY DEF Crash, history
<1>3. faults' \in 0 .. MaxFaults
  BY <1>1, <1>2, FaultsKept
<1>4. \A s \in Sessions : cursorFile'[s] = "ReleaseTokenCertified" \/ s \in releaseLog' =>
        certified[s] > 0 /\ s \in registry
  BY <1>1, <1>2 DEF RecordsAreEarned
<1>5. Sessions \in SUBSET Sessions
  OBVIOUS
<1>. QED
  BY <1>1, <1>2, <1>3, <1>4, <1>5, EndStep DEF TypeOK

\* Only what a call owns has it come to the registry with.
LEMMA OthersDoNotReserve ==
  ASSUME IInv, call.op \in {"finish", "finishFused"}
  PROVE  Owned \in SUBSET Sessions /\ Current \in Owned /\ \A s \in Sessions \ Owned : ~Reserving(s)
<1>1. TypeOK
  BY DEF IInv
<1>. QED
  BY <1>1, CurrentFacts DEF Owned, Reserving

LEMMA EndCallStep ==
  ASSUME IInv, call.op \in {"finish", "finishFused"}, EndCall,
         cursorFile' \in [Sessions -> CursorPhase \cup {"none"}],
         registry' \in {registry, registry \cup {Current}},
         releaseLog' \subseteq Sessions, returned' \subseteq Sessions,
         \A s \in Sessions : cursorFile'[s] = "ReleaseTokenCertified" \/ s \in releaseLog' =>
           certified[s] > 0 /\ s \in registry,
         certified' = certified, behind' = behind, faults' \in 0 .. MaxFaults
  PROVE  IInv'
<1>1. TypeOK
  BY DEF IInv
<1>2. /\ Owned \in SUBSET Sessions /\ Current \in Owned
      /\ \A s \in Sessions \ Owned : ~Reserving(s)
  BY OthersDoNotReserve
<1>3. /\ driver' = [s \in Sessions |-> IF s \in Owned THEN NoDriver ELSE driver[s]]
      /\ batch' = NoBatch /\ call' = Idle
  BY DEF EndCall
<1>4. /\ registry \subseteq registry' /\ registry' \subseteq Sessions
      /\ \A s \in Sessions \ Owned : s \in registry' => s \in registry
  BY <1>1, <1>2, CurrentFacts DEF TypeOK
<1>. QED
  BY <1>2, <1>3, <1>4, EndStep

LEMMA AbortStep ==
  ASSUME IInv, NEW o \in Outcome, Abort(o)
  PROVE  IInv'
<1>1. TypeOK /\ CallInv /\ RecordsAreEarned
  BY DEF IInv
<1>2. /\ call.pc = "abort" /\ Persist(Current, driver[Current].cursor, "Aborted", o)
      /\ driver' = [driver EXCEPT ![Current] = NoDriver] /\ call' = Idle
      /\ registry' = registry /\ releaseLog' = releaseLog /\ batch' = batch
      /\ certified' = certified /\ behind' = behind /\ returned' = returned
  BY DEF Abort, history
<1>3. call.op = "finish" /\ Current \in Sessions
  BY <1>1, <1>2, CurrentFacts DEF CallInv, TypeOK, CallState
<1>4. /\ cursorFile' \in [Sessions -> CursorPhase \cup {"none"}]
      /\ faults' \in 0 .. MaxFaults
      /\ \A t \in Sessions : cursorFile'[t] = cursorFile[t] \/ cursorFile'[t] = "Aborted"
  <2>1. "Aborted" \in CursorPhase
    BY DEF CursorPhase
  <2>2. /\ cursorFile' \in [Sessions -> CursorPhase \cup {"none"}]
        /\ faults' \in 0 .. MaxFaults
        /\ \A t \in Sessions : cursorFile'[t] \in
             {cursorFile[t], IF t = Current THEN "Aborted" ELSE cursorFile[t]}
    BY <1>1, <1>2, <1>3, <2>1, PersistFacts
  <2>. QED
    BY <2>2
<1>5. \A s \in Sessions : cursorFile'[s] = "ReleaseTokenCertified" \/ s \in releaseLog' =>
        certified[s] > 0 /\ s \in registry
  BY <1>1, <1>2, <1>4 DEF RecordsAreEarned
<1>6. driver' = [s \in Sessions |-> IF s \in {Current} THEN NoDriver ELSE driver[s]]
  BY <1>1, <1>2, <1>3 DEF TypeOK
<1>7. \A s \in Sessions \ {Current} : ~Reserving(s)
  BY <1>3, OthersDoNotReserve DEF Owned
<1>8. /\ {Current} \in SUBSET Sessions /\ registry' \subseteq Sessions
      /\ releaseLog' \subseteq Sessions /\ returned' \subseteq Sessions
  BY <1>1, <1>2, <1>3 DEF TypeOK
<1>. QED
  BY <1>2, <1>4, <1>5, <1>6, <1>7, <1>8, EndStep

(***************************************************************************)
(* The steps of a finish: what it has written behind it, and what it has   *)
(* in hand.                                                                *)
(***************************************************************************)
LEMMA FinishEarlyStep ==
  ASSUME IInv, NEW s \in Sessions, FinishEarly(s)
  PROVE  IInv'
<1>1. TypeOK /\ KnownInv /\ call.op = "idle" /\ driver[s].phase # "none"
  BY DEF IInv, FinishEarly, MayFinish
<1>2. /\ call' = [op |-> "finish", at |-> At(s), pc |-> "abort"]
      /\ UNCHANGED <<cursorFile, registry, releaseLog, driver, batch, faults>>
      /\ UNCHANGED history
  BY DEF FinishEarly
<1>3. call' \in CallState /\ call'.op = "finish" /\ call'.pc = "abort" /\ Current' = s
  BY <1>2, BatchFacts DEF CallState, Current
<1>4. TypeOK'
  BY <1>1, <1>2, <1>3 DEF TypeOK, history
<1>5. CallInv' /\ WrittenInv'
  BY <1>1, <1>2, <1>3 DEF CallInv, WrittenInv
<1>6. KnownInv'
  BY <1>1, <1>2, <1>3 DEF KnownInv, Reserving
<1>7. DriversInv' /\ CertifiedInv' /\ RecordsAreEarned' /\ CertifiedIsComplete'
  BY <1>2, <1>3 DEF IInv, DriversInv, CertifiedInv, RecordsAreEarned, CertifiedIsComplete, Full,
     history
<1>. QED
  BY <1>4, <1>5, <1>6, <1>7 DEF IInv

\* A finish begins: every driver knows of its id.
LEMMA BeginStep ==
  ASSUME IInv, call.op = "idle", call' \in CallState, call'.pc = "reserve",
         \/ /\ call'.op = "finish" /\ driver[Current'].phase # "none"
            /\ Full(Masks(driver[Current']))
         \/ call'.op = "finishFused" /\ call'.at = 1 /\ All({"ReadyToCertify"}),
         UNCHANGED <<cursorFile, registry, releaseLog, driver, batch, faults>>,
         UNCHANGED history
  PROVE  IInv'
<1>1. TypeOK /\ KnownInv
  BY DEF IInv
<1>2. TypeOK'
  BY <1>1 DEF TypeOK, history
<1>3. CallInv'
  BY DEF CallInv, All, Full, Masks, Current
<1>4. WrittenInv' /\ CertifiedInv'
  BY DEF WrittenInv, IInv, CertifiedInv, history
<1>5. KnownInv'
  BY <1>1 DEF KnownInv, Reserving
<1>6. DriversInv' /\ RecordsAreEarned' /\ CertifiedIsComplete'
  BY DEF IInv, DriversInv, RecordsAreEarned, CertifiedIsComplete, Full, history
<1>. QED
  BY <1>2, <1>3, <1>4, <1>5, <1>6 DEF IInv

LEMMA FinishStep ==
  ASSUME IInv, NEW s \in Sessions, Finish(s)
  PROVE  IInv'
<1>1. TypeOK /\ RecordsAreEarned /\ call.op = "idle" /\ driver[s].phase # "none"
  BY DEF IInv, Finish, MayFinish
<1>2. CASE HasMasks(driver[s])
  <2>1. /\ call' = [op |-> "finish", at |-> At(s), pc |-> "reserve"]
        /\ UNCHANGED <<cursorFile, registry, releaseLog, driver, batch, faults>>
        /\ UNCHANGED history
    BY <1>2 DEF Finish
  <2>2. call' \in CallState /\ call'.op = "finish" /\ call'.pc = "reserve" /\ Current' = s
    BY <2>1, BatchFacts DEF CallState, Current
  <2>3. Full(Masks(driver[s]))
    BY <1>2 DEF HasMasks, Full
  <2>. QED
    BY <1>1, <2>1, <2>2, <2>3, BeginStep
<1>3. CASE ~HasMasks(driver[s])
  <2>1. /\ driver' = [driver EXCEPT ![s] = NoDriver] /\ call' = call /\ batch' = batch
        /\ cursorFile' = cursorFile /\ registry' = registry /\ releaseLog' = releaseLog
        /\ faults' = faults /\ UNCHANGED history
    BY <1>3 DEF Finish
  <2>2. NoDriver \in DriverState /\ NoDriver.installed = NoMasks
        /\ NoDriver.cursor # "ReleaseTokenCertified" /\ NoDriver.phase = "none"
    BY MaskTypes
  <2>3. Resting /\ call \in CallState /\ call'.pc = "-" /\ call'.op = "idle"
    BY <1>1, <2>1 DEF IInv, CallInv, Resting, TypeOK
  <2>4. "Aborted" \in CursorPhase \ {"ReleaseTokenCertified"}
    BY DEF CursorPhase
  <2>. QED
    BY <1>1, <2>1, <2>2, <2>3, <2>4, DriverStep DEF TypeOK
<1>. QED
  BY <1>2, <1>3

LEMMA FinishFusedStep ==
  ASSUME IInv, FinishFused
  PROVE  IInv'
<1>1. TypeOK /\ RecordsAreEarned /\ call.op = "idle" /\ KnownInv
  BY DEF IInv, FinishFused
<1>2. /\ UNCHANGED <<cursorFile, registry, releaseLog, faults>> /\ UNCHANGED history
  BY DEF FinishFused, BatchUnchanged
<1>3. CASE batch.state = "running" /\ IsDone(batch.private) /\ All({"ReadyToCertify"})
  <2>1. /\ call' = [op |-> "finishFused", at |-> 1, pc |-> "reserve"]
        /\ UNCHANGED <<driver, batch>>
    BY <1>3 DEF FinishFused
  <2>2. /\ call' \in CallState /\ call'.op = "finishFused" /\ call'.pc = "reserve"
        /\ call'.at = 1
    BY <2>1, BatchFacts DEF CallState
  <2>. QED
    BY <1>1, <1>2, <1>3, <2>1, <2>2, BeginStep
<1>4. CASE ~(batch.state = "running" /\ IsDone(batch.private) /\ All({"ReadyToCertify"}))
  <2>1. EndCall
    BY <1>4 DEF FinishFused
  <2>2. /\ driver' = [s \in Sessions |-> IF s \in Sessions THEN NoDriver ELSE driver[s]]
        /\ batch' = NoBatch /\ call' = Idle
    BY <1>1, <2>1 DEF EndCall, Owned
  <2>3. \A s \in Sessions : cursorFile'[s] = "ReleaseTokenCertified" \/ s \in releaseLog' =>
          certified[s] > 0 /\ s \in registry
    BY <1>1, <1>2 DEF RecordsAreEarned
  <2>4. Sessions \in SUBSET Sessions
    OBVIOUS
  <2>. QED
    BY <1>1, <1>2, <2>2, <2>3, <2>4, EndStep DEF TypeOK, history
<1>. QED
  BY <1>3, <1>4

\* finish of one driver goes on to the Aborted cursor.
LEMMA GiveUpStep ==
  ASSUME IInv, call.op = "finish", call.pc \in {"reserve", "certify"},
         call' = [call EXCEPT !.pc = "abort"], UNCHANGED <<driver, batch>>,
         registry' \in {registry, registry \cup {Current}},
         UNCHANGED <<cursorFile, releaseLog>>, UNCHANGED history, faults' \in 0 .. MaxFaults
  PROVE  IInv'
<1>1. TypeOK /\ CallInv /\ CertifiedInv /\ KnownInv /\ RecordsAreEarned /\ Current \in Sessions
  BY CurrentFacts DEF IInv
<1>2. call \in CallState
  BY <1>1 DEF TypeOK
<1>3. /\ call' \in CallState /\ call'.op = "finish" /\ call'.pc = "abort" /\ call'.at = call.at
  BY <1>2 DEF CallState
<1>4. Current' = Current
  BY <1>3 DEF Current
<1>5. TypeOK'
  BY <1>1, <1>3 DEF TypeOK, history
<1>6. CallInv' /\ WrittenInv'
  BY <1>1, <1>3, <1>4 DEF CallInv, WrittenInv
<1>7. KnownInv'
  BY <1>1, <1>3, <1>4 DEF KnownInv, Reserving
<1>8. CertifiedInv' /\ RecordsAreEarned'
  BY <1>1, <1>3 DEF CertifiedInv, RecordsAreEarned, history
<1>9. DriversInv' /\ CertifiedIsComplete'
  BY DEF IInv, DriversInv, CertifiedIsComplete, Full, history
<1>. QED
  BY <1>5, <1>6, <1>7, <1>8, <1>9 DEF IInv

LEMMA CertifyEndsStep ==
  ASSUME IInv, call.op \in {"finish", "finishFused"}, call.pc \in {"reserve", "certify"}, GiveUp,
         registry' \in {registry, registry \cup {Current}},
         UNCHANGED <<cursorFile, releaseLog>>, UNCHANGED history, faults' \in 0 .. MaxFaults
  PROVE  IInv'
<1>1. TypeOK /\ RecordsAreEarned
  BY DEF IInv
<1>2. CASE call.op = "finish"
  <2>1. call' = [call EXCEPT !.pc = "abort"] /\ UNCHANGED <<driver, batch>>
    BY <1>2 DEF GiveUp
  <2>. QED
    BY <1>2, <2>1, GiveUpStep
<1>3. CASE call.op = "finishFused"
  <2>1. EndCall
    BY <1>3 DEF GiveUp
  <2>2. \A s \in Sessions : cursorFile'[s] = "ReleaseTokenCertified" \/ s \in releaseLog' =>
          certified[s] > 0 /\ s \in registry
    BY <1>1 DEF RecordsAreEarned
  <2>3. /\ cursorFile' \in [Sessions -> CursorPhase \cup {"none"}]
        /\ releaseLog' \subseteq Sessions /\ returned' \subseteq Sessions
        /\ certified' = certified /\ behind' = behind
    BY <1>1 DEF TypeOK, history
  <2>. QED
    BY <2>1, <2>2, <2>3, EndCallStep
<1>. QED
  BY <1>2, <1>3

\* A finish is under way wherever a call is between two of its appends.
LEMMA FinishFacts ==
  ASSUME IInv, call.pc # "-"
  PROVE  call.op \in {"finish", "finishFused"}
  BY DEF IInv, TypeOK, CallInv, CallState

LEMMA CertifyFailsStep ==
  ASSUME IInv, CertifyRefused \/ CertifyReuse \/ CertifyWithoutMasks
  PROVE  IInv'
<1>1. TypeOK
  BY DEF IInv
<1>2. call.pc \in {"reserve", "certify"} /\ GiveUp /\ registry' = registry
      /\ UNCHANGED <<cursorFile, releaseLog>> /\ UNCHANGED history
  BY DEF CertifyRefused, CertifyReuse, CertifyWithoutMasks
<1>3. faults' \in 0 .. MaxFaults
  BY <1>1, FaultsKept DEF CertifyRefused, CertifyReuse, CertifyWithoutMasks, TypeOK
<1>. QED
  BY <1>2, <1>3, FinishFacts, CertifyEndsStep

LEMMA ReserveStep ==
  ASSUME IInv, NEW o \in Outcome, Reserve(o)
  PROVE  IInv'
<1>1. TypeOK /\ DriversInv /\ CallInv /\ CertifiedInv /\ WrittenInv /\ KnownInv /\ RecordsAreEarned
  BY DEF IInv
<1>2. /\ call.pc = "reserve" /\ ~driver[Current].known
      /\ call.op = "finishFused" => driver[Current].installed # NoMasks
      /\ registry' = IF o = "failed" THEN registry ELSE registry \cup {Current}
      /\ Charge(o) /\ UNCHANGED <<cursorFile, releaseLog>> /\ UNCHANGED history
  BY DEF Reserve, MayReserve
<1>3. call.op \in {"finish", "finishFused"} /\ Current \in Sessions
      /\ call.at \in 1 .. Len(Batch)
  BY <1>1, <1>2, FinishFacts, CurrentFacts
<1>4. faults' \in 0 .. MaxFaults
  BY <1>1, <1>2, FaultsKept DEF Charge, TypeOK
<1>5. CASE o # "ok"
  <2>1. GiveUp
    BY <1>5 DEF Reserve
  <2>. QED
    BY <1>2, <1>3, <1>4, <2>1, CertifyEndsStep
<1>6. CASE o = "ok"
  <2>1. call' = [call EXCEPT !.pc = "certify"] /\ UNCHANGED <<driver, batch>>
        /\ registry' = registry \cup {Current}
    BY <1>2, <1>6 DEF Reserve
  <2>2. call' \in CallState /\ call'.op = call.op /\ call'.at = call.at /\ call'.pc = "certify"
    BY <1>1, <2>1 DEF TypeOK, CallState
  <2>3. Current' = Current
    BY <2>2 DEF Current
  <2>4. TypeOK'
    BY <1>1, <1>2, <1>3, <1>4, <2>1, <2>2 DEF TypeOK, history
  <2>5. CallInv'
    <3>1. call.op = "finishFused" => Full(driver[Current].installed)
      BY <1>1, <1>2, <1>3 DEF DriversInv
    <3>. QED
      BY <1>1, <1>2, <1>3, <2>1, <2>2, <2>3, <3>1 DEF CallInv, All
  <2>6. ~Reserving(Current)
    <3>1. CASE call.op = "finish"
      BY <1>2, <3>1 DEF Reserving
    <3>2. CASE call.op = "finishFused"
      <4>1. \A i \in 1 .. call.at : Batch[i] = Current => i = call.at
        <5>1. \A i, k \in 1 .. Len(Batch) : Batch[i] = Batch[k] => i = k
          BY ReleaseAssumption
        <5>2. Len(Batch) \in Nat /\ call.at \in 1 .. Len(Batch)
          BY <1>3, BatchFacts
        <5>. QED
          BY <5>1, <5>2 DEF Current
      <4>. QED
        BY <1>2, <3>2, <4>1 DEF Reserving
    <3>. QED
      BY <1>3, <3>1, <3>2
  <2>7. driver[Current].phase # "none"
    BY <1>1, <1>3 DEF CallInv, All
  <2>8. Current \notin registry
    BY <1>1, <1>2, <1>3, <2>6, <2>7 DEF KnownInv
  <2>9. CertifiedInv'
    <3>1. certified[Current] = 0
      <4>1. certified[Current] \in Nat
        BY <1>1, <1>3 DEF TypeOK
      <4>. QED
        BY <1>1, <1>3, <2>8, <4>1 DEF CertifiedInv
    <3>. QED
      BY <1>1, <1>2, <1>3, <2>1, <2>2, <2>3, <3>1 DEF CertifiedInv, history
  <2>10. WrittenInv'
    BY <1>1, <1>2, <1>3, <2>2, <2>3 DEF WrittenInv
  <2>11. KnownInv'
    <3>1. \A s \in Sessions : Reserving(s) => Reserving(s)'
      BY <1>2, <1>3, <2>2, <2>3 DEF Reserving
    <3>2. Reserving(Current)'
      <4>1. call'.at \in 1 .. call'.at /\ Batch[call'.at] = Current'
        <5>1. call.at \in 1 .. call.at
          BY <1>3, BatchFacts, Positions
        <5>. QED
          BY <2>2, <5>1 DEF Current
      <4>. QED
        BY <1>3, <2>2, <2>3, <4>1 DEF Reserving
    <3>. QED
      BY <1>1, <2>1, <2>3, <3>1, <3>2 DEF KnownInv
  <2>12. DriversInv' /\ RecordsAreEarned' /\ CertifiedIsComplete'
    BY <1>2, <2>1 DEF IInv, DriversInv, RecordsAreEarned, CertifiedIsComplete, Full, history
  <2>. QED
    BY <2>4, <2>5, <2>9, <2>10, <2>11, <2>12 DEF IInv
<1>. QED
  BY <1>5, <1>6

LEMMA CertifyStep ==
  ASSUME IInv, Certify
  PROVE  IInv'
<1>1. TypeOK /\ DriversInv /\ CallInv /\ CertifiedInv /\ WrittenInv /\ KnownInv /\ RecordsAreEarned
      /\ CertifiedIsComplete
  BY DEF IInv
<1> DEFINE proof == Proof(Current)
           masks == Masks(driver[Current])
<1>2. /\ call.pc = "certify" /\ IsDone(proof)
      /\ certified' = [certified EXCEPT ![Current] = @ + 1]
      /\ behind' = [behind EXCEPT ![Current] = [private |-> proof, mask |-> masks]]
      /\ call' = [call EXCEPT !.pc = AfterCertify]
      /\ UNCHANGED <<cursorFile, registry, releaseLog, driver, batch, returned, faults>>
  BY DEF Certify
<1>3. call.op \in {"finish", "finishFused"} /\ Current \in Sessions
  BY <1>1, <1>2, FinishFacts, CurrentFacts
<1>4. call' \in CallState /\ call'.op = call.op /\ call'.at = call.at
      /\ call'.pc = AfterCertify /\ AfterCertify \in {"cursor", "log"}
  BY <1>1, <1>2 DEF TypeOK, CallState, AfterCertify
<1>5. Current' = Current
  BY <1>4 DEF Current
<1>6. proof = AllCircuits
  BY <1>2 DEF IsDone
<1>7. masks \in MaskState /\ Full(masks)
  <2>1. driver[Current] \in DriverState
    BY <1>1, <1>3 DEF TypeOK
  <2>2. Full(NoMasks) = FALSE
    BY MaskTypes DEF Full
  <2>3. masks \in MaskState
    BY <2>1 DEF Masks, DriverState
  <2>. QED
    BY <1>1, <1>2, <1>3, <2>2, <2>3 DEF CallInv, Masks
<1>8. certified[Current] = 0 /\ Current \in registry
  BY <1>1, <1>2 DEF CertifiedInv
<1>9. \A s \in Sessions :
        /\ certified'[s] = IF s = Current THEN 1 ELSE certified[s]
        /\ behind'[s] = IF s = Current THEN [private |-> proof, mask |-> masks] ELSE behind[s]
  BY <1>1, <1>2, <1>3, <1>8 DEF TypeOK
<1>10. TypeOK'
  <2>1. certified' \in [Sessions -> Nat]
    BY <1>1, <1>2, <1>8, <1>9 DEF TypeOK
  <2>2. [private |-> proof, mask |-> masks] \in Proofs
    BY <1>6, <1>7 DEF Proofs
  <2> HIDE DEF proof, masks
  <2>3. behind' \in [Sessions -> Proofs]
    BY <1>1, <1>2, <2>2 DEF TypeOK
  <2>. QED
    BY <1>1, <1>2, <1>4, <2>1, <2>3 DEF TypeOK
<1>11. CertifiedIsComplete'
  <2> HIDE DEF proof, masks
  <2>1. masks.values = {"Z", "Hint"}
    BY <1>7 DEF Full
  <2>2. ASSUME NEW s \in Sessions, certified'[s] > 0
        PROVE  behind'[s].private = AllCircuits /\ behind'[s].mask.values = {"Z", "Hint"}
    <3>1. CASE s = Current
      BY <1>6, <1>9, <2>1, <3>1
    <3>2. CASE s # Current
      BY <1>1, <1>9, <2>2, <3>2 DEF CertifiedIsComplete
    <3>. QED
      BY <3>1, <3>2
  <2>. QED
    BY <2>2 DEF CertifiedIsComplete
<1>12. CertifiedInv' /\ RecordsAreEarned'
  BY <1>1, <1>2, <1>3, <1>4, <1>5, <1>8, <1>9 DEF CertifiedInv, RecordsAreEarned
<1>13. CallInv'
  BY <1>1, <1>2, <1>3, <1>4, <1>5 DEF CallInv, All
<1>14. WrittenInv' /\ DriversInv'
  BY <1>1, <1>2, <1>3, <1>4, <1>5 DEF WrittenInv, DriversInv, Full, AfterCertify
<1>15. KnownInv'
  <2>1. \A s \in Sessions : Reserving(s) => Reserving(s)'
    BY <1>2, <1>3, <1>4, <1>5 DEF Reserving
  <2>. QED
    BY <1>1, <1>2, <2>1 DEF KnownInv
<1>. QED
  BY <1>10, <1>11, <1>12, <1>13, <1>14, <1>15 DEF IInv

(***************************************************************************)
(* The records behind certification.                                       *)
(***************************************************************************)
LEMMA CursorFacts ==
  ASSUME IInv, NEW o \in Outcome, PersistCertified(o)
  PROVE  /\ call.pc = "cursor" /\ call.op \in {"finish", "finishFused"}
         /\ Current \in Sessions /\ call.at \in 1 .. Len(Batch)
         /\ cursorFile' \in [Sessions -> CursorPhase \cup {"none"}]
         /\ faults' \in 0 .. MaxFaults
         /\ \A s \in Sessions : cursorFile'[s] \in
              {cursorFile[s], IF s = Current THEN "ReleaseTokenCertified" ELSE cursorFile[s]}
         /\ o = "ok" => cursorFile'[Current] = "ReleaseTokenCertified"
         /\ \A s \in Sessions : cursorFile'[s] = "ReleaseTokenCertified" \/ s \in releaseLog' =>
              certified[s] > 0 /\ s \in registry
         /\ registry' = registry /\ releaseLog' = releaseLog
         /\ certified' = certified /\ behind' = behind
<1>1. TypeOK /\ DriversInv /\ CertifiedInv /\ RecordsAreEarned
  BY DEF IInv
<1>2. /\ call.pc = "cursor"
      /\ Persist(Current, driver[Current].cursor, "ReleaseTokenCertified", o)
      /\ registry' = registry /\ releaseLog' = releaseLog
      /\ certified' = certified /\ behind' = behind
  BY DEF PersistCertified
<1>3. call.op \in {"finish", "finishFused"}
      /\ Current \in Sessions /\ call.at \in 1 .. Len(Batch)
  BY <1>1, <1>2, FinishFacts, CurrentFacts
<1>4. driver[Current].cursor # "ReleaseTokenCertified"
  BY <1>1, <1>3 DEF DriversInv
<1>5. /\ cursorFile' \in [Sessions -> CursorPhase \cup {"none"}]
      /\ faults' \in 0 .. MaxFaults
      /\ \A s \in Sessions : cursorFile'[s] \in
           {cursorFile[s], IF s = Current THEN "ReleaseTokenCertified" ELSE cursorFile[s]}
      /\ o = "ok" => cursorFile'[Current] = "ReleaseTokenCertified"
  <2>1. "ReleaseTokenCertified" \in CursorPhase
    BY DEF CursorPhase
  <2>2. /\ cursorFile' \in [Sessions -> CursorPhase \cup {"none"}]
        /\ faults' \in 0 .. MaxFaults
        /\ \A s \in Sessions : cursorFile'[s] \in
             {cursorFile[s], IF s = Current THEN "ReleaseTokenCertified" ELSE cursorFile[s]}
    BY <1>1, <1>2, <1>3, <2>1, PersistFacts
  <2>3. o = "ok" => cursorFile'[Current] = "ReleaseTokenCertified"
    BY <1>1, <1>2, <1>3, <1>4 DEF Persist, TypeOK
  <2>. QED
    BY <2>2, <2>3
<1>6. certified[Current] > 0 /\ Current \in registry
  BY <1>1, <1>2, <1>3 DEF CertifiedInv
<1>7. \A s \in Sessions : cursorFile'[s] = "ReleaseTokenCertified" \/ s \in releaseLog' =>
        certified[s] > 0 /\ s \in registry
  BY <1>1, <1>2, <1>5, <1>6 DEF RecordsAreEarned
<1>. QED
  BY <1>2, <1>3, <1>5, <1>7

LEMMA PersistCertifiedEndsStep ==
  ASSUME IInv, (\E o \in Outcome : PersistCertifiedFails(o)) \/ PersistCertifiedReturns
  PROVE  IInv'
<1>1. PICK o \in Outcome : PersistCertified(o)
  BY DEF PersistCertifiedFails, PersistCertifiedReturns, Outcome
<1>2. TypeOK /\ EndCall
  BY DEF IInv, PersistCertifiedFails, PersistCertifiedReturns
<1>3. /\ call.op \in {"finish", "finishFused"} /\ registry' = registry /\ releaseLog' = releaseLog
      /\ cursorFile' \in [Sessions -> CursorPhase \cup {"none"}]
      /\ faults' \in 0 .. MaxFaults
      /\ \A s \in Sessions : cursorFile'[s] = "ReleaseTokenCertified" \/ s \in releaseLog' =>
           certified[s] > 0 /\ s \in registry
      /\ certified' = certified /\ behind' = behind
  BY <1>1, CursorFacts
<1>4. returned' \subseteq Sessions /\ releaseLog' \subseteq Sessions
  BY <1>2, <1>3, OthersDoNotReserve
     DEF TypeOK, PersistCertifiedFails, PersistCertifiedReturns
<1>. QED
  BY <1>2, <1>3, <1>4, EndCallStep

\* A step of a finish over the same drivers and the same registry.
LEMMA OnwardStep ==
  ASSUME IInv, call.op \in {"finish", "finishFused"}, call.pc \notin {"reserve", "certify"},
         call' \in CallState, call'.op = call.op,
         \/ call'.at = call.at /\ call'.pc \in {"cursor", "log"} /\ certified[Current] > 0
         \/ /\ call.op = "finishFused" /\ call'.pc = "reserve" /\ call'.at = call.at + 1
            /\ cursorFile'[Current] = "ReleaseTokenCertified",
         call'.op = "finish" /\ call'.pc = "log" =>
           cursorFile'[Current] = "ReleaseTokenCertified",
         cursorFile' \in [Sessions -> CursorPhase \cup {"none"}],
         \A s \in Sessions : cursorFile[s] = "ReleaseTokenCertified" =>
           cursorFile'[s] = "ReleaseTokenCertified",
         \A s \in Sessions : cursorFile'[s] = "ReleaseTokenCertified" \/ s \in releaseLog' =>
           certified[s] > 0 /\ s \in registry,
         releaseLog' \subseteq Sessions, faults' \in 0 .. MaxFaults,
         UNCHANGED <<registry, driver, batch>>, UNCHANGED history
  PROVE  IInv'
<1>1. TypeOK /\ DriversInv /\ CallInv /\ CertifiedInv /\ WrittenInv /\ KnownInv
  BY DEF IInv
<1>2. /\ call.at \in 1 .. Len(Batch) /\ call'.at \in 1 .. Len(Batch) /\ Len(Batch) \in Nat
      /\ \A i \in 1 .. Len(Batch) : Batch[i] \in Sessions
  BY <1>1, CurrentFacts, BatchFacts DEF CallState
<1>3. TypeOK'
  BY <1>1 DEF TypeOK, history
<1>4. CertifiedInv' /\ RecordsAreEarned'
  BY <1>1 DEF CertifiedInv, RecordsAreEarned, Current, history
<1>5. CallInv'
  BY <1>1 DEF CallInv, All, Current
<1>6. WrittenInv'
  <2>1. CASE call.op = "finish"
    BY <1>1, <1>2, <2>1 DEF WrittenInv, Current
  <2>2. CASE call.op = "finishFused"
    <3>1. \A i \in 1 .. call.at - 1 : cursorFile'[Batch[i]] = "ReleaseTokenCertified"
      <4>1. SUFFICES ASSUME NEW i \in 1 .. call.at - 1
                     PROVE  cursorFile'[Batch[i]] = "ReleaseTokenCertified"
        OBVIOUS
      <4>2. cursorFile[Batch[i]] = "ReleaseTokenCertified"
        BY <1>1, <2>2 DEF WrittenInv
      <4>3. i \in 1 .. Len(Batch)
        BY <1>2, Positions
      <4>. QED
        BY <1>2, <4>2, <4>3
    <3>2. \A i \in 1 .. call'.at - 1 : cursorFile'[Batch[i]] = "ReleaseTokenCertified"
      <4>1. CASE call'.at = call.at
        BY <3>1, <4>1
      <4>2. CASE call'.at = call.at + 1 /\ cursorFile'[Current] = "ReleaseTokenCertified"
        <5>1. \A i \in 1 .. call'.at - 1 : i \in 1 .. call.at - 1 \/ i = call.at
          BY <1>2, <4>2, Positions
        <5>2. cursorFile'[Batch[call.at]] = "ReleaseTokenCertified"
          BY <4>2 DEF Current
        <5>. QED
          BY <3>1, <5>1, <5>2
      <4>. QED
        BY <4>1, <4>2
    <3>. QED
      BY <2>2, <3>2 DEF WrittenInv
  <2>. QED
    BY <2>1, <2>2
<1>7. KnownInv'
  <2>1. \A s \in Sessions : Reserving(s) => Reserving(s)'
    <3>1. CASE call.op = "finish"
      BY <3>1 DEF Reserving, Current
    <3>2. CASE call.op = "finishFused"
      <4>1. SUFFICES ASSUME NEW s \in Sessions, NEW i \in 1 .. call.at, Batch[i] = s
                     PROVE  Reserving(s)'
        BY <3>2 DEF Reserving
      <4>2. i \in 1 .. call'.at /\ (i = call'.at => call'.pc # "reserve")
        <5>1. CASE call'.at = call.at /\ call'.pc \in {"cursor", "log"}
          BY <5>1
        <5>2. CASE call'.at = call.at + 1
          <6>1. i \in 1 .. call.at + 1 /\ i # call.at + 1
            BY <1>2, Positions
          <6>. QED
            BY <5>2, <6>1
        <5>. QED
          BY <5>1, <5>2
      <4>. QED
        BY <3>2, <4>1, <4>2 DEF Reserving
    <3>. QED
      BY <3>1, <3>2
  <2>. QED
    BY <1>1, <2>1 DEF KnownInv
<1>8. DriversInv' /\ CertifiedIsComplete'
  BY DEF IInv, DriversInv, CertifiedIsComplete, Full, history
<1>. QED
  BY <1>3, <1>4, <1>5, <1>6, <1>7, <1>8 DEF IInv

LEMMA PersistCertifiedGoesOnStep ==
  ASSUME IInv, PersistCertifiedGoesOn
  PROVE  IInv'
<1>1. TypeOK /\ CertifiedInv
  BY DEF IInv
<1>2. /\ PersistCertified("ok") /\ (call.op = "finish" \/ call.at < Len(Batch))
      /\ call' = IF call.op = "finish"
                   THEN [call EXCEPT !.pc = "log"]
                   ELSE [call EXCEPT !.pc = "reserve", !.at = call.at + 1]
      /\ UNCHANGED <<registry, driver, batch>> /\ UNCHANGED history
  BY DEF PersistCertifiedGoesOn, PersistCertified, history
<1>3. "ok" \in Outcome
  BY DEF Outcome
<1>4. /\ call.pc = "cursor" /\ call.op \in {"finish", "finishFused"}
      /\ Current \in Sessions /\ call.at \in 1 .. Len(Batch)
      /\ cursorFile' \in [Sessions -> CursorPhase \cup {"none"}]
      /\ faults' \in 0 .. MaxFaults
      /\ \A s \in Sessions : cursorFile'[s] \in
           {cursorFile[s], IF s = Current THEN "ReleaseTokenCertified" ELSE cursorFile[s]}
      /\ cursorFile'[Current] = "ReleaseTokenCertified"
      /\ \A s \in Sessions : cursorFile'[s] = "ReleaseTokenCertified" \/ s \in releaseLog' =>
           certified[s] > 0 /\ s \in registry
      /\ releaseLog' \subseteq Sessions
  BY <1>1, <1>2, <1>3, CursorFacts DEF TypeOK
<1>5. certified[Current] > 0
  BY <1>1, <1>4 DEF CertifiedInv
<1>6. call \in CallState /\ Len(Batch) \in Nat
  BY <1>1, BatchFacts DEF TypeOK
<1>7. \A s \in Sessions : cursorFile[s] = "ReleaseTokenCertified" =>
        cursorFile'[s] = "ReleaseTokenCertified"
  BY <1>4
<1>8. CASE call.op = "finish"
  <2>1. call' = [call EXCEPT !.pc = "log"]
    BY <1>2, <1>8
  <2>2. call' \in CallState /\ call'.op = call.op /\ call'.at = call.at /\ call'.pc = "log"
    BY <1>6, <2>1 DEF CallState
  <2>. QED
    BY <1>2, <1>4, <1>5, <1>7, <1>8, <2>2, OnwardStep
<1>9. CASE call.op = "finishFused"
  <2>1. call' = [call EXCEPT !.pc = "reserve", !.at = call.at + 1] /\ call.at < Len(Batch)
    BY <1>2, <1>9
  <2>2. call.at + 1 \in 1 .. Len(Batch)
    BY <1>4, <1>6, <2>1, Positions
  <2>3. call' \in CallState /\ call'.op = call.op /\ call'.at = call.at + 1
        /\ call'.pc = "reserve"
    BY <1>6, <2>1, <2>2 DEF CallState
  <2>. QED
    BY <1>2, <1>4, <1>7, <1>9, <2>3, OnwardStep
<1>. QED
  BY <1>4, <1>8, <1>9

LEMMA AppendLogStep ==
  ASSUME IInv, NEW o \in Outcome, AppendLog(o)
  PROVE  IInv'
<1>1. TypeOK /\ CertifiedInv /\ RecordsAreEarned
  BY DEF IInv
<1>2. /\ call.pc = "log"
      /\ releaseLog' = IF o = "failed" THEN releaseLog ELSE releaseLog \cup {Current}
      /\ Charge(o) /\ cursorFile' = cursorFile /\ registry' = registry
      /\ certified' = certified /\ behind' = behind
      /\ returned' = IF o = "ok" /\ call.op = "finish" THEN returned \cup {Current} ELSE returned
  BY DEF AppendLog
<1>3. call.op \in {"finish", "finishFused"} /\ Current \in Sessions
  BY <1>1, <1>2, FinishFacts, CurrentFacts
<1>4. faults' \in 0 .. MaxFaults
  BY <1>1, <1>2, FaultsKept DEF Charge
<1>5. certified[Current] > 0 /\ Current \in registry
  BY <1>1, <1>2, <1>3 DEF CertifiedInv
<1>6. \A s \in Sessions : cursorFile'[s] = "ReleaseTokenCertified" \/ s \in releaseLog' =>
        certified[s] > 0 /\ s \in registry
  BY <1>1, <1>2, <1>3, <1>5 DEF RecordsAreEarned
<1>7. /\ cursorFile' \in [Sessions -> CursorPhase \cup {"none"}]
      /\ releaseLog' \subseteq Sessions /\ returned' \subseteq Sessions
  BY <1>1, <1>2, <1>3 DEF TypeOK
<1>8. CASE o = "ok" /\ call.op = "finishFused"
  <2>1. call' = [call EXCEPT !.pc = "cursor"] /\ UNCHANGED <<driver, batch>>
    BY <1>8 DEF AppendLog
  <2>2. call' \in CallState /\ call'.op = call.op /\ call'.at = call.at /\ call'.pc = "cursor"
    BY <1>1, <2>1 DEF TypeOK, CallState
  <2>3. returned' = returned
    BY <1>2, <1>8
  <2>. QED
    BY <1>2, <1>3, <1>4, <1>5, <1>6, <1>7, <1>8, <2>1, <2>2, <2>3, OnwardStep DEF history
<1>9. CASE ~(o = "ok" /\ call.op = "finishFused")
  <2>1. EndCall
    BY <1>9 DEF AppendLog
  <2>. QED
    BY <1>2, <1>3, <1>4, <1>6, <1>7, <2>1, EndCallStep
<1>. QED
  BY <1>8, <1>9

(***************************************************************************)
(* The invariant of the specification.                                     *)
(***************************************************************************)
LEMMA InitInv == Init => IInv
<1> SUFFICES ASSUME Init PROVE IInv
  OBVIOUS
<1>1. TypeOK
  <2>1. MaxFaults \in Nat /\ 0 \in 0 .. MaxFaults
    BY ReleaseAssumption
  <2>2. [private |-> {}, mask |-> NoMasks] \in Proofs
    BY MaskTypes DEF Proofs
  <2>. QED
    BY <2>1, <2>2, MaskTypes DEF Init, TypeOK
<1>2. /\ call.op = "idle" /\ call.pc = "-"
      /\ \A s \in Sessions :
           driver[s] = NoDriver /\ certified[s] = 0 /\ cursorFile[s] = "none"
      /\ registry = {} /\ releaseLog = {}
  BY MaskTypes DEF Init
<1>3. DriversInv /\ CallInv /\ CertifiedInv /\ WrittenInv
  BY <1>2, MaskTypes DEF DriversInv, CallInv, CertifiedInv, WrittenInv
<1>4. KnownInv /\ RecordsAreEarned /\ CertifiedIsComplete
  BY <1>2 DEF KnownInv, RecordsAreEarned, CertifiedIsComplete
<1>. QED
  BY <1>1, <1>3, <1>4 DEF IInv

LEMMA NextInv ==
  ASSUME IInv, [Next]_vars
  PROVE  IInv'
<1>1. ASSUME NEW s \in Sessions,
             \/ \E o \in Outcome : Start(s, o) \/ CollectPrivate(s, o)
             \/ \E m \in MaskState : FailMasks(s, m) \/ \E o \in Outcome : CollectMasks(s, m, o)
             \/ FinishEarly(s) \/ Finish(s)
      PROVE  IInv'
  BY <1>1, StartStep, CollectPrivateStep, MasksStep, FinishEarlyStep, FinishStep
<1>2. CASE CertifyRefused \/ CertifyReuse \/ CertifyWithoutMasks \/ Certify
  BY <1>2, CertifyFailsStep, CertifyStep
<1>3. CASE PersistCertifiedReturns \/ PersistCertifiedGoesOn
  BY <1>3, PersistCertifiedEndsStep, PersistCertifiedGoesOnStep
<1>4. ASSUME NEW o \in Outcome,
             \/ Reserve(o) \/ Abort(o) \/ PersistCertifiedFails(o) \/ AppendLog(o)
             \/ CollectFusedNext(o) \/ InstallNext(o)
      PROVE  IInv'
  BY <1>4, ReserveStep, AbortStep, PersistCertifiedEndsStep, AppendLogStep, LoopStep
<1>5. CASE \/ NewBatch \/ IntoDrivers \/ StartFused \/ CollectFused
           \/ Install \/ InstallRefused \/ FinishFused
           \/ \E m \in MaskState : BatchMasks(m)
  BY <1>5, BatchSteps, FinishFusedStep
<1>6. CASE Crash
  BY <1>6, CrashStep
<1>7. CASE UNCHANGED vars
  <2>1. UNCHANGED <<cursorFile, registry, releaseLog, driver, batch, call, faults>>
        /\ UNCHANGED history
    BY <1>7 DEF vars, history
  <2>2. TypeOK' /\ DriversInv' /\ RecordsAreEarned' /\ CertifiedIsComplete'
    BY <2>1 DEF IInv, TypeOK, DriversInv, RecordsAreEarned, CertifiedIsComplete, Full, history
  <2>3. CallInv' /\ CertifiedInv' /\ WrittenInv' /\ KnownInv'
    BY <2>1 DEF IInv, CallInv, CertifiedInv, WrittenInv, KnownInv, Reserving, Full, Masks, All,
                Current, history
  <2>. QED
    BY <2>2, <2>3 DEF IInv
<1>. QED
  BY <1>1, <1>2, <1>3, <1>4, <1>5, <1>6, <1>7 DEF Next

LEMMA IInvCorrect == Spec => []IInv
<1>1. IInv /\ [Next]_vars => IInv'
  BY NextInv
<1>. QED
  BY <1>1, InitInv, PTL DEF Spec

(***************************************************************************)
(* The theorems.                                                           *)
(***************************************************************************)

\* The cursor log, the registry and the release log, the drivers and the batch in memory
\* and the call under way stay what their types say; no loop runs past its batch.
THEOREM TypeCorrect == Spec => []TypeOK
<1>1. IInv => TypeOK
  BY DEF IInv
<1>. QED
  BY <1>1, IInvCorrect, PTL

\* A token has passed certification only with all its private circuits complete and both
\* masks generated, alone or in a batch, after failed, repeated and abandoned steps.
THEOREM CertifiedIsCompleteCorrect == Spec => []CertifiedIsComplete
<1>1. IInv => CertifiedIsComplete
  BY DEF IInv
<1>. QED
  BY <1>1, IInvCorrect, PTL

\* The calls that return a token: what they have written, with the last append of each.
LEMMA ReturnedStep ==
  ASSUME IInv, Next, NEW s \in returned' \ returned
  PROVE  cursorFile'[s] = "ReleaseTokenCertified"
<1>1. TypeOK /\ CallInv /\ WrittenInv
  BY DEF IInv
<1>2. CASE PersistCertifiedReturns
  <2>1. "ok" \in Outcome /\ PersistCertified("ok") /\ (call.op = "finish" \/ call.at = Len(Batch))
        /\ s \in Owned
    BY <1>2 DEF PersistCertifiedReturns, Outcome
  <2>2. /\ call.op \in {"finish", "finishFused"} /\ Current \in Sessions
        /\ call.at \in 1 .. Len(Batch)
        /\ \A t \in Sessions : cursorFile'[t] \in
             {cursorFile[t], IF t = Current THEN "ReleaseTokenCertified" ELSE cursorFile[t]}
        /\ cursorFile'[Current] = "ReleaseTokenCertified"
    BY <2>1, CursorFacts
  <2>3. CASE call.op = "finish"
    BY <2>1, <2>2, <2>3 DEF Owned
  <2>4. CASE call.op = "finishFused"
    <3>1. s \in Sessions /\ call.at = Len(Batch)
      BY <2>1, <2>4 DEF Owned
    <3>2. At(s) \in 1 .. Len(Batch) /\ Batch[At(s)] = s /\ Len(Batch) \in Nat
      BY <3>1, BatchFacts
    <3>3. CASE At(s) = call.at
      BY <2>2, <3>2, <3>3 DEF Current
    <3>4. CASE At(s) # call.at
      <4>1. At(s) \in 1 .. call.at - 1
        BY <3>1, <3>2, <3>4
      <4>2. cursorFile[s] = "ReleaseTokenCertified"
        BY <1>1, <2>4, <3>2, <4>1 DEF WrittenInv
      <4>. QED
        BY <2>2, <3>1, <4>2
    <3>. QED
      BY <3>3, <3>4
  <2>. QED
    BY <2>2, <2>3, <2>4
<1>3. ASSUME NEW o \in Outcome, AppendLog(o) PROVE cursorFile'[s] = "ReleaseTokenCertified"
  BY <1>1, <1>3 DEF AppendLog, WrittenInv
<1>4. CASE returned' = returned
  BY <1>4
<1>5. \/ returned' = returned \/ PersistCertifiedReturns
      \/ \E o \in Outcome : AppendLog(o)
  BY DEF Next, Start, CollectPrivate, FailMasks, CollectMasks, FinishEarly, Finish,
     CertifyRefused, CertifyReuse, CertifyWithoutMasks, Certify, PersistCertifiedGoesOn, Reserve,
     Abort, PersistCertifiedFails, CollectFusedNext, InstallNext, NewBatch, IntoDrivers,
     StartFused, CollectFused, Install, InstallRefused, FinishFused, BatchMasks, Crash,
     BatchUnchanged, history
<1>. QED
  BY <1>2, <1>3, <1>4, <1>5

\* The certified cursor and the release log never get ahead of certification and of the
\* durable reservation, and a call that returns a token leaves the certified cursor behind.
THEOREM RecordsAreExactCorrect == Spec => RecordsAreExact
<1>1. IInv => RecordsAreEarned
  BY DEF IInv
<1>2. IInv /\ [Next]_vars =>
        [\A s \in returned' \ returned : cursorFile'[s] = "ReleaseTokenCertified"]_vars
  BY ReturnedStep
<1>3. Spec => []RecordsAreEarned
  BY <1>1, IInvCorrect, PTL
<1>4. Spec => ReturnedIsRecorded
  BY <1>2, IInvCorrect, PTL DEF Spec, ReturnedIsRecorded
<1>. QED
  BY <1>3, <1>4 DEF RecordsAreExact

\* The append to the registry burns, certification uses; nothing else touches either.
LEMMA StepsImplement ==
  ASSUME IInv, [Next]_vars
  PROVE  [Promise!Next]_(Promise!vars)
<1>1. CASE registry' = registry /\ certified' = certified
  BY <1>1 DEF Promise!vars
<1>2. ASSUME NEW o \in Outcome, Reserve(o) PROVE [Promise!Next]_(Promise!vars)
  <2>1. Current \in Sessions /\ certified' = certified
        /\ registry' \in {registry, registry \cup {Current}}
    BY <1>2, CurrentFacts DEF IInv, Reserve, history
  <2>. QED
    BY <2>1 DEF Promise!Next, Promise!Burn, Promise!vars
<1>3. CASE Certify
  <2>1. /\ Current \in Sessions /\ Current \in registry /\ certified[Current] = 0
        /\ certified \in [Sessions -> Nat] /\ registry' = registry
        /\ certified' = [certified EXCEPT ![Current] = @ + 1]
    BY <1>3, CurrentFacts DEF IInv, Certify, CertifiedInv, TypeOK
  <2>2. certified' = [t \in Sessions |-> IF t \in {Current} THEN 1 ELSE certified[t]]
    <3>1. certified' = [certified EXCEPT ![Current] = 1]
      BY <2>1
    <3>. QED
      BY <2>1, <3>1
  <2>3. Promise!Use({Current})
    BY <2>1, <2>2 DEF Promise!Use
  <2>. QED
    BY <2>1, <2>3 DEF Promise!Next
<1>4. \/ registry' = registry /\ certified' = certified
      \/ \E o \in Outcome : Reserve(o)
      \/ Certify
  BY DEF Next, vars, Start, CollectPrivate, FailMasks, CollectMasks, FinishEarly, Finish,
     CertifyRefused, CertifyReuse, CertifyWithoutMasks, PersistCertifiedReturns,
     PersistCertifiedGoesOn, PersistCertified, Abort, PersistCertifiedFails, AppendLog,
     CollectFusedNext, InstallNext, NewBatch, IntoDrivers,
     StartFused, CollectFused, Install, InstallRefused, FinishFused, BatchMasks, Crash,
     BatchUnchanged, history
<1>. QED
  BY <1>1, <1>2, <1>3, <1>4

\* Session ids keep the promise about tokens: an id is durably reserved and then passes
\* certification at most once, alone or in a batch, through crashes and failed appends.
THEOREM ImplementsPromiseCorrect == Spec => ImplementsPromise
<1>1. Init => Promise!Init
  BY DEF Init, Promise!Init
<1>2. IInv /\ [Next]_vars => [Promise!Next]_(Promise!vars)
  BY StepsImplement
<1>. QED
  BY <1>1, <1>2, IInvCorrect, PTL DEF Spec, Promise!Spec, ImplementsPromise
==============================================================================
