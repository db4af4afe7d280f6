---------------------------- MODULE ReleaseDriver ----------------------------
(***************************************************************************)
(* One party's release drivers (talus-mpc/src/local.rs): after the         *)
(* commit/open transcript a driver runs the private certification          *)
(* circuits, generates the canonical masks of strict signing, certifies a  *)
(* token and appends the public release log, with a durable cursor behind  *)
(* it; a batch driver runs the circuits and the masks of several tokens at *)
(* once.                                                                   *)
(*                                                                         *)
(* Driving a step sends messages; what arrived decides what a collect      *)
(* returns.  So drives are no actions, a collect that waits is no step,    *)
(* and a collect that returns may advance or fail.  Every durable append   *)
(* is a step of its own and succeeds ("ok"), writes nothing ("failed"), or *)
(* writes its line and reports an error ("unsynced").                      *)
(***************************************************************************)
EXTENDS Naturals, Sequences, Functions

CONSTANTS
  Sessions,   \* preprocessing session ids
  Batch,      \* their order in a batch driver
  MaxFaults   \* bound: failed calls, failed appends and crashes

ASSUME ReleaseAssumption ==
  /\ Sessions # {}
  /\ Batch \in Seq(Sessions)
  /\ \A s \in Sessions : \E i \in 1 .. Len(Batch) : Batch[i] = s
  /\ \A i, k \in 1 .. Len(Batch) : Batch[i] = Batch[k] => i = k
  /\ MaxFaults \in Nat

VARIABLES
  cursorFile,  \* the last phase in each session's cursor log
  registry,    \* ids in the file of the session registry
  releaseLog,  \* ids with an entry in the release log
  driver,      \* the release driver of each session, in memory
  batch,       \* the batch driver and the fused mask generation, in memory
  call,        \* the call under way, between two of its appends
  certified,   \* history: how many tokens of an id passed certification
  behind,      \* history: what stood behind the first of them
  returned,    \* history: ids whose token a call returned
  faults

vars == <<cursorFile, registry, releaseLog, driver, batch, call,
          certified, behind, returned, faults>>

CursorPhase ==
  {"TranscriptComplete", "PrivateRuntimeComplete", "StrictMasksComplete",
   "ReleaseTokenCertified", "Aborted"}

\* The private circuits of certification, in the order in which they run; a driver
\* and a batch have one set of each, and hold which are done.
Circuits == <<"masked_broadcast", "carry_compare", "cef_correction", "bcc">>
AllCircuits == Range(Circuits)

\* Both mask values and, as history, whether the check that they lie below q
\* has passed.
MaskState ==
  [stage : {"none", "ZBits", "HintBits", "QCheck", "Done"},
   values : SUBSET {"Z", "Hint"}, asserted : BOOLEAN]

NoMasks == [stage |-> "none", values |-> {}, asserted |-> FALSE]
FreshMasks == [NoMasks EXCEPT !.stage = "ZBits"]

DriverState ==
  [phase : {"none", "PrivateRuntime", "StrictMasks", "ReadyToCertify"},
   private : SUBSET AllCircuits,        \* private_state
   mask : MaskState,                    \* mask_state
   installed : MaskState,               \* fused_mask_inventory
   known : BOOLEAN,                     \* the registry's copy holds the id
   cursor : CursorPhase \cup {"none"}]  \* the last cursor in the store's memory

NoDriver ==
  [phase |-> "none", private |-> {}, mask |-> NoMasks, installed |-> NoMasks,
   known |-> FALSE, cursor |-> "none"]

BatchState ==
  [state : {"apart", "batch", "running"}, private : SUBSET AllCircuits, mask : MaskState]

CallState ==
  [op : {"idle", "collect", "install", "finish", "finishFused"}, at : 1 .. Len(Batch),
   pc : {"-", "reserve", "certify", "cursor", "log", "abort"}]

\* What stands behind a certified token.
Proofs == [private : SUBSET AllCircuits, mask : MaskState]

NoBatch == [state |-> "apart", private |-> {}, mask |-> NoMasks]
Idle == [op |-> "idle", at |-> 1, pc |-> "-"]

TypeOK ==
  /\ cursorFile \in [Sessions -> CursorPhase \cup {"none"}]
  /\ registry \subseteq Sessions
  /\ releaseLog \subseteq Sessions
  /\ driver \in [Sessions -> DriverState]
  /\ batch \in BatchState
  /\ call \in CallState
  /\ certified \in [Sessions -> Nat]
  /\ behind \in [Sessions -> Proofs]
  /\ returned \subseteq Sessions
  /\ faults \in 0 .. MaxFaults

Init ==
  /\ cursorFile = [s \in Sessions |-> "none"]
  /\ registry = {} /\ releaseLog = {}
  /\ driver = [s \in Sessions |-> NoDriver]
  /\ batch = NoBatch
  /\ call = Idle
  /\ certified = [s \in Sessions |-> 0]
  /\ behind = [s \in Sessions |-> [private |-> {}, mask |-> NoMasks]]
  /\ returned = {}
  /\ faults = 0

Outcome == {"ok", "failed", "unsynced"}
Fault == faults < MaxFaults /\ faults' = faults + 1
Charge(o) == IF o = "ok" THEN UNCHANGED faults ELSE Fault

history == <<certified, behind, returned>>

(***************************************************************************)
(* persist_release_cursor of the file store: the memory first, where the   *)
(* cursor that is already the last one is no write, then the file.         *)
(***************************************************************************)
Persist(s, memory, phase, o) ==
  /\ memory = phase => o = "ok"
  /\ cursorFile' = [cursorFile EXCEPT ![s] =
       IF memory = phase \/ o = "failed" THEN @ ELSE phase]
  /\ Charge(o)

(***************************************************************************)
(* PreprocessingReleaseDriver::start on a completed session, over a cursor *)
(* store and a registry opened just before.  No earlier cursor is read.    *)
(***************************************************************************)
\* mutant: without the registry's file
StartedForgetful(s) ==
  [NoDriver EXCEPT !.phase = "PrivateRuntime", !.cursor = "TranscriptComplete"]

Started(s) ==
  [NoDriver EXCEPT !.phase = "PrivateRuntime", !.known = s \in registry,
                   !.cursor = "TranscriptComplete"]

Start(s, o) ==
  /\ call.op = "idle" /\ batch.state = "apart" /\ driver[s].phase = "none"
  /\ Persist(s, cursorFile[s], "TranscriptComplete", o)
  /\ driver' = [driver EXCEPT ![s] = IF o = "ok" THEN Started(s) ELSE NoDriver]
  /\ UNCHANGED <<registry, releaseLog, batch, call>> /\ UNCHANGED history

(***************************************************************************)
(* collect_private_circuit_handles_step collects for the first circuit     *)
(* that is not done, or again for the last: the layer that completes it.   *)
(* A collect that fails leaves the set as it is, and is no step.           *)
(***************************************************************************)
\* mutant: a pair of circuits is taken for all of them
IsDoneOfTwo(done) == {"masked_broadcast", "carry_compare"} \subseteq done
IsDone(done) == done = AllCircuits

CircuitDone(done) ==
  LET left == {i \in 1 .. Len(Circuits) : Circuits[i] \notin done} IN
  IF left = {} THEN done
  ELSE done \cup {Circuits[CHOOSE i \in left : \A k \in left : i <= k]}

(***************************************************************************)
(* collect_runtime_step in the private phase.                              *)
(***************************************************************************)
CollectPrivate(s, o) ==
  /\ call.op = "idle" /\ driver[s].phase = "PrivateRuntime"
  /\ LET done == CircuitDone(driver[s].private) IN
     IF IsDone(done)
       THEN /\ Persist(s, driver[s].cursor, "PrivateRuntimeComplete", o)
            /\ driver' = [driver EXCEPT ![s] =
                 IF o = "ok"
                   THEN [@ EXCEPT !.private = done, !.cursor = "PrivateRuntimeComplete",
                                  !.phase = "StrictMasks", !.mask = FreshMasks]
                   ELSE [@ EXCEPT !.private = done, !.cursor = "PrivateRuntimeComplete"]]
       ELSE /\ o = "ok"
            /\ driver' = [driver EXCEPT ![s].private = done]
            /\ UNCHANGED <<cursorFile, faults>>
  /\ UNCHANGED <<registry, releaseLog, batch, call>> /\ UNCHANGED history

(***************************************************************************)
(* collect_strict_signing_canonical_mask_generation_step.  The phase is    *)
(* taken out of the state, with Done in its place, and put back on the     *)
(* paths that return Ok; an error leaves Done behind.                      *)
(***************************************************************************)
Collected(m) ==
  CASE m.stage = "ZBits" -> {m, [m EXCEPT !.stage = "HintBits", !.values = {"Z"}]}
    [] m.stage = "HintBits" -> {m, [m EXCEPT !.stage = "QCheck", !.values = {"Z", "Hint"}]}
    [] m.stage = "QCheck" -> {m, [m EXCEPT !.stage = "Done", !.asserted = TRUE]}
    [] m.stage = "Done" -> {m}
    [] OTHER -> {}

\* The values of the hint mask are stored before the last calls that may fail.
Failed(m) ==
  CASE m.stage \in {"ZBits", "QCheck"} -> {[m EXCEPT !.stage = "Done"]}
    [] m.stage = "HintBits" ->
         {[m EXCEPT !.stage = "Done", !.values = v] : v \in {{"Z"}, {"Z", "Hint"}}}
    [] OTHER -> {}

\* collect_runtime_step in the mask phase.
CollectMasks(s, m, o) ==
  /\ call.op = "idle" /\ driver[s].phase = "StrictMasks"
  /\ m \in Collected(driver[s].mask)
  /\ IF m.stage = "Done"
       THEN /\ Persist(s, driver[s].cursor, "StrictMasksComplete", o)
            /\ driver' = [driver EXCEPT ![s] =
                 IF o = "ok"
                   THEN [@ EXCEPT !.mask = m, !.cursor = "StrictMasksComplete",
                                  !.phase = "ReadyToCertify"]
                   ELSE [@ EXCEPT !.mask = m, !.cursor = "StrictMasksComplete"]]
       ELSE /\ o = "ok"
            /\ driver' = [driver EXCEPT ![s].mask = m]
            /\ UNCHANGED <<cursorFile, faults>>
  /\ UNCHANGED <<registry, releaseLog, batch, call>> /\ UNCHANGED history

FailMasks(s, m) ==
  /\ call.op = "idle" /\ driver[s].phase = "StrictMasks"
  /\ m \in Failed(driver[s].mask)
  /\ Fault
  /\ driver' = [driver EXCEPT ![s].mask = m]
  /\ UNCHANGED <<cursorFile, registry, releaseLog, batch, call>> /\ UNCHANGED history

(***************************************************************************)
(* finish of one driver, which it consumes.                                *)
(***************************************************************************)
Current == Batch[call.at]
At(s) == CHOOSE i \in 1 .. Len(Batch) : Batch[i] = s

\* The inventory a driver certifies with; without both values there is none.
Masks(d) == IF d.installed # NoMasks THEN d.installed ELSE d.mask
\* mutant: the values are not looked at
HasMasksDone(d) == Masks(d).stage = "Done"
HasMasks(d) == Masks(d).stage = "Done" /\ Masks(d).values = {"Z", "Hint"}

MayFinish(s) == call.op = "idle" /\ batch.state = "apart" /\ driver[s].phase # "none"

\* Not ready, or its circuits ran in a batch: the Aborted cursor follows.
FinishEarly(s) ==
  /\ MayFinish(s)
  /\ driver[s].phase # "ReadyToCertify" \/ ~IsDone(driver[s].private)
  /\ call' = [op |-> "finish", at |-> At(s), pc |-> "abort"]
  /\ UNCHANGED <<cursorFile, registry, releaseLog, driver, batch, faults>>
  /\ UNCHANGED history

Finish(s) ==
  /\ MayFinish(s)
  /\ driver[s].phase = "ReadyToCertify" /\ IsDone(driver[s].private)
  /\ IF HasMasks(driver[s])
       THEN /\ call' = [op |-> "finish", at |-> At(s), pc |-> "reserve"]
            /\ UNCHANGED driver
       ELSE /\ driver' = [driver EXCEPT ![s] = NoDriver]
            /\ UNCHANGED call
  /\ UNCHANGED <<cursorFile, registry, releaseLog, batch, faults>> /\ UNCHANGED history

(***************************************************************************)
(* Certification reserves the id and then checks the openings; both the    *)
(* checks before the reservation and those behind it may fail.             *)
(***************************************************************************)
\* finish owns its driver, finish of a batch all of them and its tokens so far.
Owned == IF call.op = "finish" THEN {Current} ELSE Sessions

EndCall ==
  /\ driver' = [s \in Sessions |-> IF s \in Owned THEN NoDriver ELSE driver[s]]
  /\ batch' = NoBatch
  /\ call' = Idle

AfterCertify == IF call.op = "finish" THEN "cursor" ELSE "log"

\* After an error finish of one driver goes on to the Aborted cursor.
GiveUp ==
  IF call.op = "finish"
    THEN call' = [call EXCEPT !.pc = "abort"] /\ UNCHANGED <<driver, batch>>
    ELSE EndCall

\* A check fails, before the reservation or behind it.
CertifyRefused ==
  /\ call.pc \in {"reserve", "certify"}
  /\ Fault
  /\ GiveUp
  /\ UNCHANGED <<cursorFile, registry, releaseLog>> /\ UNCHANGED history

CertifyReuse ==
  /\ call.pc = "reserve" /\ driver[Current].known
  /\ GiveUp
  /\ UNCHANGED <<cursorFile, registry, releaseLog, faults>> /\ UNCHANGED history

\* In a batch the inventory is looked for first.
CertifyWithoutMasks ==
  /\ call.pc = "reserve" /\ call.op = "finishFused"
  /\ driver[Current].installed = NoMasks
  /\ GiveUp
  /\ UNCHANGED <<cursorFile, registry, releaseLog, faults>> /\ UNCHANGED history

MayReserve(s) ==
  /\ ~driver[s].known
  /\ call.op = "finishFused" => driver[s].installed # NoMasks

\* The append to the registry; after an error of it the id may be in the file.
Reserve(o) ==
  /\ call.pc = "reserve" /\ MayReserve(Current)
  /\ registry' = IF o = "failed" THEN registry ELSE registry \cup {Current}
  /\ Charge(o)
  /\ IF o = "ok"
       THEN call' = [call EXCEPT !.pc = "certify"] /\ UNCHANGED <<driver, batch>>
       ELSE GiveUp
  /\ UNCHANGED <<cursorFile, releaseLog>> /\ UNCHANGED history

\* The circuits whose outputs certification asks for: the driver's own, or those of
\* the batch, which give every token of it a proof.
DriverProof(s) == driver[s].private
BatchProof(s) == batch.private
Proof(s) == IF call.op = "finish" THEN DriverProof(s) ELSE BatchProof(s)

Certify ==
  /\ call.pc = "certify" /\ IsDone(Proof(Current))
  /\ certified' = [certified EXCEPT ![Current] = @ + 1]
  /\ behind' = [behind EXCEPT ![Current] =
       [private |-> Proof(Current), mask |-> Masks(driver[Current])]]
  /\ call' = [call EXCEPT !.pc = AfterCertify]
  /\ UNCHANGED <<cursorFile, registry, releaseLog, driver, batch, returned, faults>>

Abort(o) ==
  /\ call.pc = "abort"
  /\ Persist(Current, driver[Current].cursor, "Aborted", o)
  /\ driver' = [driver EXCEPT ![Current] = NoDriver]
  /\ call' = Idle
  /\ UNCHANGED <<registry, releaseLog, batch>> /\ UNCHANGED history

(***************************************************************************)
(* The certified cursor and the log entry: finish writes the cursor, and   *)
(* finish_and_append_token_log the entry behind it; a batch writes the     *)
(* entry and the cursor behind it, token by token.                         *)
(***************************************************************************)
\* mutant: the error is not looked at
PersistCertifiedIgnoringErrors(o) ==
  /\ call.pc = "cursor"
  /\ \E r \in Outcome : Persist(Current, driver[Current].cursor, "ReleaseTokenCertified", r)
  /\ UNCHANGED <<registry, releaseLog, certified, behind>>

PersistCertified(o) ==
  /\ call.pc = "cursor"
  /\ Persist(Current, driver[Current].cursor, "ReleaseTokenCertified", o)
  /\ UNCHANGED <<registry, releaseLog, certified, behind>>

PersistCertifiedFails(o) ==
  /\ o # "ok" /\ PersistCertified(o)
  /\ EndCall
  /\ UNCHANGED returned

PersistCertifiedReturns ==
  /\ call.op = "finish" \/ call.at = Len(Batch)
  /\ PersistCertified("ok")
  /\ EndCall
  /\ returned' = returned \cup Owned

PersistCertifiedGoesOn ==
  /\ call.op = "finish" \/ call.at < Len(Batch)
  /\ PersistCertified("ok")
  /\ call' = IF call.op = "finish"
                THEN [call EXCEPT !.pc = "log"]
                ELSE [call EXCEPT !.pc = "reserve", !.at = @ + 1]
  /\ UNCHANGED <<driver, batch, returned>>

AppendLog(o) ==
  /\ call.pc = "log"
  /\ releaseLog' = IF o = "failed" THEN releaseLog ELSE releaseLog \cup {Current}
  /\ Charge(o)
  /\ IF o = "ok" /\ call.op = "finishFused"
       THEN call' = [call EXCEPT !.pc = "cursor"] /\ UNCHANGED <<driver, batch>>
       ELSE EndCall
  /\ returned' = IF o = "ok" /\ call.op = "finish" THEN returned \cup {Current} ELSE returned
  /\ UNCHANGED <<cursorFile, registry, certified, behind>>

(***************************************************************************)
(* The batch driver.  The fused mask generation is the application's; it   *)
(* may keep a copy of the inventories and install them again.              *)
(***************************************************************************)
BatchUnchanged == UNCHANGED <<cursorFile, registry, releaseLog, faults>> /\ UNCHANGED history

All(phases) == \A s \in Sessions : driver[s].phase \in phases

NewBatch ==
  /\ call.op = "idle" /\ batch.state = "apart" /\ ~\E s \in Sessions : driver[s].phase = "none"
  /\ batch' = [NoBatch EXCEPT !.state = "batch"]
  /\ UNCHANGED <<driver, call>> /\ BatchUnchanged

IntoDrivers ==
  /\ call.op = "idle" /\ batch.state # "apart"
  /\ batch' = NoBatch
  /\ UNCHANGED <<driver, call>> /\ BatchUnchanged

StartFused ==
  /\ call.op = "idle" /\ batch.state = "batch" /\ All({"PrivateRuntime"})
  /\ batch' = [batch EXCEPT !.state = "running"]
  /\ UNCHANGED <<driver, call>> /\ BatchUnchanged

\* collect_fused_private_runtime_step: one set of circuits for all the tokens.
CollectFused ==
  /\ call.op = "idle" /\ batch.state = "running" /\ All({"PrivateRuntime"})
  /\ batch' = [batch EXCEPT !.private = CircuitDone(@)]
  /\ call' = IF IsDone(batch'.private) THEN [op |-> "collect", at |-> 1, pc |-> "-"] ELSE Idle
  /\ UNCHANGED driver /\ BatchUnchanged

\* A loop over the drivers that ends with the first error.
NextDriver(o) ==
  IF o = "ok" /\ call.at < Len(Batch) THEN [call EXCEPT !.at = @ + 1] ELSE Idle

CollectFusedNext(o) ==
  /\ call.op = "collect"
  /\ Persist(Current, driver[Current].cursor, "PrivateRuntimeComplete", o)
  /\ driver' = [driver EXCEPT ![Current] =
       IF o = "ok"
         THEN [@ EXCEPT !.cursor = "PrivateRuntimeComplete", !.phase = "StrictMasks"]
         ELSE [@ EXCEPT !.cursor = "PrivateRuntimeComplete"]]
  /\ call' = NextDriver(o)
  /\ UNCHANGED <<registry, releaseLog, batch>> /\ UNCHANGED history

\* Start, collect and fail a step of the fused mask generation.
BatchMasks(m) ==
  /\ call.op = "idle" /\ batch.state # "apart"
  /\ \/ m = FreshMasks /\ UNCHANGED faults
     \/ m \in Collected(batch.mask) /\ UNCHANGED faults
     \/ m \in Failed(batch.mask) /\ Fault
  /\ batch' = [batch EXCEPT !.mask = m]
  /\ UNCHANGED <<cursorFile, registry, releaseLog, driver, call>> /\ UNCHANGED history

\* install_fused_strict_mask_inventories of a finished generation.
Install ==
  /\ call.op = "idle" /\ batch.state # "apart"
  /\ batch.mask.stage = "Done" /\ batch.mask.values = {"Z", "Hint"}
  /\ call' = [op |-> "install", at |-> 1, pc |-> "-"]
  /\ UNCHANGED <<driver, batch>> /\ BatchUnchanged

\* mutant: past the last driver
InstallNextTooFar(o) ==
  /\ call.op = "install"
  /\ driver[Current].phase \in {"StrictMasks", "ReadyToCertify"}
  /\ Persist(Current, driver[Current].cursor, "StrictMasksComplete", o)
  /\ call' = [call EXCEPT !.at = @ + 1]
  /\ UNCHANGED <<registry, releaseLog, driver, batch>> /\ UNCHANGED history

InstallNext(o) ==
  /\ call.op = "install"
  /\ driver[Current].phase \in {"StrictMasks", "ReadyToCertify"}
  /\ Persist(Current, driver[Current].cursor, "StrictMasksComplete", o)
  /\ driver' = [driver EXCEPT ![Current] =
       IF o = "ok"
         THEN [@ EXCEPT !.mask = NoMasks, !.installed = batch.mask,
                        !.cursor = "StrictMasksComplete", !.phase = "ReadyToCertify"]
         ELSE [@ EXCEPT !.mask = NoMasks, !.installed = batch.mask,
                        !.cursor = "StrictMasksComplete"]]
  /\ call' = NextDriver(o)
  /\ UNCHANGED <<registry, releaseLog, batch>> /\ UNCHANGED history

InstallRefused ==
  /\ call.op = "install" /\ driver[Current].phase = "PrivateRuntime"
  /\ call' = Idle
  /\ UNCHANGED <<driver, batch>> /\ BatchUnchanged

\* finish_fused_private_and_append_token_log consumes the batch, refused or not.
FinishFused ==
  /\ call.op = "idle" /\ batch.state # "apart"
  /\ IF batch.state = "running" /\ IsDone(batch.private) /\ All({"ReadyToCertify"})
       THEN /\ call' = [op |-> "finishFused", at |-> 1, pc |-> "reserve"]
            /\ UNCHANGED <<driver, batch>>
       ELSE EndCall
  /\ BatchUnchanged

Crash ==
  /\ \E s \in Sessions : driver[s].phase # "none"
  /\ Fault
  /\ driver' = [s \in Sessions |-> NoDriver]
  /\ batch' = NoBatch
  /\ call' = Idle
  /\ UNCHANGED <<cursorFile, registry, releaseLog>> /\ UNCHANGED history

(***************************************************************************)
(* The specification.                                                      *)
(***************************************************************************)
Next ==
  \/ \E s \in Sessions :
       \/ \E o \in Outcome : Start(s, o) \/ CollectPrivate(s, o)
       \/ \E m \in MaskState : FailMasks(s, m) \/ \E o \in Outcome : CollectMasks(s, m, o)
       \/ FinishEarly(s) \/ Finish(s)
  \/ CertifyRefused \/ CertifyReuse \/ CertifyWithoutMasks \/ Certify
  \/ PersistCertifiedReturns \/ PersistCertifiedGoesOn
  \/ \E o \in Outcome :
       \/ Reserve(o) \/ Abort(o) \/ PersistCertifiedFails(o) \/ AppendLog(o)
       \/ CollectFusedNext(o) \/ InstallNext(o)
  \/ NewBatch \/ IntoDrivers \/ StartFused \/ CollectFused
  \/ Install \/ InstallRefused \/ FinishFused
  \/ \E m \in MaskState : BatchMasks(m)
  \/ Crash

Spec == Init /\ [][Next]_vars

(***************************************************************************)
(* Properties.                                                             *)
(***************************************************************************)

\* A token has passed certification only with all its private circuits complete -
\* the masked broadcast, the carry comparison, the correction and the boundary
\* check - and both masks generated, also when a step before it failed, was repeated,
\* or was done in a batch.
CertifiedIsComplete ==
  \A s \in Sessions : certified[s] > 0 =>
    behind[s].private = AllCircuits /\ behind[s].mask.values = {"Z", "Hint"}

\* What a restart reads as a certified token was one: neither the cursor nor
\* the release log gets ahead of certification and of the durable reservation.
RecordsAreEarned ==
  \A s \in Sessions :
    cursorFile[s] = "ReleaseTokenCertified" \/ s \in releaseLog =>
      certified[s] > 0 /\ s \in registry

\* A call that returns a token leaves the certified cursor durable behind it.
ReturnedIsRecorded ==
  [][\A s \in returned' \ returned : cursorFile'[s] = "ReleaseTokenCertified"]_vars

\* The records of certification neither get ahead of it nor stay behind it.
RecordsAreExact == []RecordsAreEarned /\ ReturnedIsRecorded

\* Session ids are one-time like tokens: an id is durably reserved and then
\* passes certification at most once, alone or in a batch, over restarts.
Promise == INSTANCE OneTimeTokens
             WITH Tokens <- Sessions, Batches <- {{s} : s \in Sessions},
                  burnt <- registry, uses <- certified

ImplementsPromise == Promise!Spec

\* "Returns true after both z and hint canonical-mask inventories have been
\* generated and certified" (the masks' is_done): a token's masks have passed
\* the check that they lie below q.  No run checks it: it fails where a step of
\* the masks fails and is collected again (README, known divergences).
MasksAreCertified == \A s \in Sessions : certified[s] > 0 => behind[s].mask.asserted
=============================================================================
