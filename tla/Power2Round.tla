----------------------------- MODULE Power2Round -----------------------------
(***************************************************************************)
(* Power2Round of a shared vector (talus-dkg/src/power2round.rs): the      *)
(* circuit state that holds the handles of one party, the cursored runtime *)
(* under it, the driver that counts the stages and the release gates of    *)
(* the vector runtime, over restarts.                                      *)
(*                                                                         *)
(* Seen by one party while the others keep step: a collect finds all       *)
(* messages of a phase this party has driven, or waits.  A handle stands   *)
(* for the secret it shares, one lane for all.  A circuit is one phase     *)
(* here, its layers being those of BitCircuits, and the calls for the bits *)
(* of a vector are made together.  Under a label that is in the wire log   *)
(* the logged message is sent again (SentOnce of PhaseRuntime), so that    *)
(* what a phase was first driven with is what it gives, in every life.     *)
(*                                                                         *)
(* The application calls in any order.  It also broadcasts residuals of    *)
(* its own, all of which should be zero, and on these the driver moves.    *)
(***************************************************************************)
EXTENDS Integers, Sequences, Functions

CONSTANTS
  Low, Width,  \* q = 2^Width - 2^Low + 1
  D,           \* the bits that Power2Round drops
  NCanonical,  \* residuals of the canonical recovery,
  NAdd,        \* and of the addition
  Inputs       \* [t, value, bits, wrong, restarts]: the secret, its mask, the number
               \* the mask bits are those of, the residuals that are not zero, and
               \* how often the party restarts, a bound

ASSUME WidthAssumption == D \in Nat \ {0} /\ Low \in Nat /\ Width \in Nat /\ D <= Low + 1 /\ Low < Width

\* Arithmetic of powers, which follows.
ASSUME PowerAssumption ==
  /\ 2 ^ (D - 1) \in Nat \ {0} /\ 2 ^ D = 2 * 2 ^ (D - 1)
  /\ 2 ^ (D - 1) <= 2 ^ Low /\ 2 ^ Low \in Nat \ {0}
  /\ 2 ^ Low < 2 ^ Width /\ 2 ^ Width \in Nat
ASSUME CountAssumption == NCanonical \in Nat \ {0} /\ NAdd \in Nat \ {0}

Q == 2 ^ Width - 2 ^ Low + 1

Residuals == {"canonical", "add_residual"}
Count(kind) == IF kind = "canonical" THEN NCanonical ELSE NAdd
Residual == {<<kind, i>> : kind \in Residuals, i \in 1 .. (NCanonical + NAdd)}

ASSUME InputAssumption ==
  \A x \in Inputs :
    /\ x.t \in 0 .. Q - 1 /\ x.value \in 0 .. Q - 1 /\ x.bits \in 0 .. 2 ^ Width - 1
    /\ x.wrong \subseteq Residual /\ x.restarts \in Nat

\* The circuits of several layers, the assertions and the openings.  That the bits
\* of R are bits is asserted too; here they are, and of that check only the product
\* is left, which a gate looks for.
Layered == {"wrap", "recover", "less", "add"}
Assertions == {"zero_less", "zero_equal"}
Phases == Layered \cup Assertions \cup Residuals \cup {"c", "c_checked", "product", "t1"}

\* ProductionPower2RoundDriverPhase: the index of the next one.  The masks are
\* there, and the certification follows the opening of t1 in the same call.
OpenMaskedValues == 1
RecoverCanonicalBits == 2
AddRoundConstant == 3
OpenT1Bits == 4
Complete == 6
Stages == {OpenMaskedValues, RecoverCanonicalBits, AddRoundConstant, OpenT1Bits, Complete}

VARIABLES
  input,
  log,      \* durable: the phases driven, and what each gives
  held,     \* the handles of ProductionPower2RoundRuntimeCircuitState
  running,  \* the circuits started in this life
  marked,   \* the phases collected in this life: mark_completed
  passed,   \* and the residuals of each kind, the first so many of them
  stage,    \* next_phase_index of the driver
  cursors,  \* durable: the stages a cursor may have been persisted of
  outputs,  \* history: the values of t1 that left with evidence
  crashes   \* history

vars == <<input, log, held, running, marked, passed, stage, cursors, outputs, crashes>>

Init ==
  /\ input \in Inputs
  /\ log = <<>> /\ held = <<>>
  /\ running = {} /\ marked = {}
  /\ passed = [kind \in Residuals |-> 0]
  /\ stage = OpenMaskedValues /\ cursors = {OpenMaskedValues}
  /\ outputs = {}
  /\ crashes = 0

Bit(condition) == IF condition THEN 1 ELSE 0

(***************************************************************************)
(* What a phase computes from the handles it needs.                        *)
(***************************************************************************)
Needs(ph) ==
  CASE ph = "wrap" -> {"c"}
    [] ph = "recover" -> {"c", "wrap"}
    [] ph \in {"product", "less", "zero_equal", "add"} -> {"r"}
    [] ph = "zero_less" -> {"lt"}
    [] ph = "t1" -> {"s"}
    [] OTHER -> {}

\* C = t + A is opened, by a phase of its own or by the generic opening.
MaskedC == (input.t + input.value) % Q

\* [A > C] for the number A that the mask bits give.  (Mutant: or equal.)
WrapOrEqual(c) == Bit(input.bits >= c)
Wrap(c) == Bit(input.bits > c)

\* R = C + q [A > C] - A; the highest borrow is not looked at.
Recovered(c, wrap) == (c + wrap * Q - input.bits) % (2 ^ Width)

Operand(ph) ==
  CASE ph \in {"c", "c_checked"} -> MaskedC
    [] ph = "wrap" -> Wrap(held["c"])
    [] ph = "recover" -> Recovered(held["c"], held["wrap"])
    [] ph = "less" -> Bit(held["r"] < Q)
    [] ph = "zero_less" -> 1 - held["lt"]
    [] ph = "zero_equal" -> (held["r"] - input.t) % Q
    [] ph = "add" -> (held["r"] + 2 ^ (D - 1) - 1) % (2 ^ Width)
    [] ph = "t1" -> held["s"] \div (2 ^ D)
    [] OTHER -> 0

With(f, x, v) == [y \in DOMAIN f \cup {x} |-> IF y = x THEN v ELSE f[y]]
Drop(f, names) == Restrict(f, DOMAIN f \ names)

(***************************************************************************)
(* The start_ and drive_ calls.  The start of a circuit forgets its last   *)
(* result; started again, it stops at the first layer that it has          *)
(* collected, and has no result in this life.                              *)
(***************************************************************************)
Forgets(ph) ==
  CASE ph = "recover" -> {"r"}
    [] ph = "less" -> {"lt"}
    [] ph = "add" -> {"s"}
    [] OTHER -> {}

Drive(ph) ==
  /\ Needs(ph) \subseteq DOMAIN held
  /\ log' = IF ph \in DOMAIN log THEN log ELSE With(log, ph, Operand(ph))
  /\ held' = Drop(held, Forgets(ph))
  /\ running' = running \cup (Layered \cap {ph})
  /\ \/ UNCHANGED marked
     \/ ph \in running /\ marked' = marked \cup {ph}
  /\ UNCHANGED <<input, passed, stage, cursors, outputs, crashes>>

(***************************************************************************)
(* The collect_ calls of the circuit state.  Every phase is collected at   *)
(* most once in a life, and a circuit only by a state that has started it. *)
(* The verdict of an assertion goes to the application and is not kept.    *)
(***************************************************************************)
Passes(ph) == log[ph] = 0

May(ph) ==
  /\ ph \in DOMAIN log
  /\ ph \notin marked
  /\ ph \in Layered => ph \in running

Result(ph) ==
  CASE ph \in {"c", "c_checked"} -> "c"
    [] ph = "wrap" -> "wrap"
    [] ph = "recover" -> "r"
    [] ph = "less" -> "lt"
    [] ph = "add" -> "s"

Collect(ph) ==
  /\ May(ph)
  /\ marked' = marked \cup {ph}
  /\ held' = With(held, Result(ph), log[ph])
  /\ UNCHANGED <<input, log, running, passed, stage, cursors, outputs, crashes>>

\* The driver takes a phase.  (Mutant: it goes one phase on.)
AcceptOne(from, to) ==
  /\ stage = from
  /\ stage' = from + 1
  /\ cursors' = cursors \cup {from + 1}

Accept(from, to) ==
  /\ stage = from
  /\ stage' = to
  /\ cursors' = cursors \cup {to}

\* collect_masked_c_opening: the values are kept if the driver takes them, which
\* it does once.
CollectC ==
  /\ May("c")
  /\ marked' = marked \cup {"c"}
  /\ \/ /\ Accept(OpenMaskedValues, RecoverCanonicalBits)
        /\ held' = With(held, "c", log["c"])
     \/ /\ stage # OpenMaskedValues
        /\ UNCHANGED <<held, stage, cursors>>
  /\ UNCHANGED <<input, log, running, passed, outputs, crashes>>

(***************************************************************************)
(* drive_collect_power2round_canonical_recovery_all_vec_and_advance and    *)
(* drive_collect_power2round_add4095_all_vec_and_advance.  A call goes     *)
(* through the residuals in their order and stops at the first that waits  *)
(* or is not zero; whatever it has passed is collected, so that in this    *)
(* life no call gets through again.                                        *)
(***************************************************************************)
\* (Mutant: all values are taken for zero.)
IsZeroAlways(kind, i) == i \in 1 .. Count(kind)
IsZero(kind, i) == <<kind, i>> \notin input.wrong

CollectAll(kind, from, to) ==
  /\ kind \in DOMAIN log
  /\ passed[kind] = 0
  /\ \E k \in 0 .. Count(kind) :
       /\ \A i \in 1 .. k - 1 : IsZero(kind, i)
       /\ passed' = [passed EXCEPT ![kind] = k]
       /\ \/ /\ k = Count(kind) /\ IsZero(kind, k)
             /\ Accept(from, to)
          \/ /\ k = Count(kind) /\ IsZero(kind, k) => stage # from
             /\ UNCHANGED <<stage, cursors>>
  /\ UNCHANGED <<input, log, held, running, marked, outputs, crashes>>

(***************************************************************************)
(* drive_collect_power2round_t1_bits_and_certify of the vector runtime:    *)
(* the bits, the driver, then the two gates.  The driver is complete even  *)
(* if a gate refuses, and gives no other output.                           *)
(***************************************************************************)
\* ensure_power2round_wire_log_openings_allowed_for_release
OpeningsAllowed == "c_checked" \notin DOMAIN log

\* ensure_power2round_state_owned_nonlinear_wire_log_for_release
StateOwned ==
  /\ {"wrap", "less"} \cap DOMAIN log # {}
  /\ {"recover", "product", "add"} \subseteq DOMAIN log

Certify ==
  /\ May("t1")
  /\ marked' = marked \cup {"t1"}
  /\ \/ /\ Accept(OpenT1Bits, Complete)
        /\ outputs' = outputs \cup (IF OpeningsAllowed /\ StateOwned THEN {log["t1"]} ELSE {})
     \/ UNCHANGED <<stage, cursors, outputs>>  \* out of order, or a bit is missing
  /\ UNCHANGED <<input, log, held, running, passed, crashes>>

(***************************************************************************)
(* A restart with a new circuit state and a driver that starts behind the  *)
(* masks or at the last cursor the application has persisted.              *)
(***************************************************************************)
Restart ==
  /\ crashes < input.restarts
  /\ crashes' = crashes + 1
  /\ held' = <<>>
  /\ running' = {} /\ marked' = {}
  /\ passed' = [kind \in Residuals |-> 0]
  /\ stage' \in cursors
  /\ UNCHANGED <<input, log, cursors, outputs>>

Next ==
  \/ \E ph \in Phases : Drive(ph)
  \/ \E ph \in Layered \cup {"c_checked"} : Collect(ph)
  \/ CollectC
  \/ CollectAll("canonical", RecoverCanonicalBits, AddRoundConstant)
  \/ CollectAll("add_residual", AddRoundConstant, OpenT1Bits)
  \/ Certify
  \/ Restart

Spec == Init /\ [][Next]_vars

(***************************************************************************)
(* Properties                                                              *)
(***************************************************************************)
Handles == {"c", "wrap", "r", "lt", "s"}

TypeOK ==
  /\ input \in Inputs
  /\ DOMAIN log \subseteq Phases
  /\ DOMAIN held \subseteq Handles
  /\ running \subseteq Layered
  /\ marked \subseteq Phases
  /\ passed \in [Residuals -> Nat] /\ \A kind \in Residuals : passed[kind] <= Count(kind)
  /\ stage \in Stages
  /\ cursors \subseteq Stages
  /\ crashes \in 0 .. input.restarts

GoodMask == input.bits = input.value
Checked == Assertions \subseteq DOMAIN log /\ \A a \in Assertions : Passes(a)

\* Power2Round of FIPS 204: r0 is r mod+- 2^d, and r1 the rest.
Power2RoundHigh(r) ==
  LET low == r % (2 ^ D)
      r0 == IF low > 2 ^ (D - 1) THEN low - 2 ^ D ELSE low
  IN (r - r0) \div (2 ^ D)

\* Good masks pass every assertion, and lanes that pass all of them were recovered
\* exactly whatever the masks: in both cases t1 is the high part of t, in whatever
\* order the calls were made, over restarts, and in what leaves with evidence.
T1IsPower2Round ==
  /\ GoodMask => \A a \in Assertions \cap DOMAIN log : Passes(a)
  /\ Checked => log["recover"] = input.t
  /\ "t1" \in DOMAIN log /\ (GoodMask \/ Checked) =>
       log["t1"] = Power2RoundHigh(input.t) /\ outputs \subseteq {Power2RoundHigh(input.t)}

AllZero(kind) ==
  kind \in DOMAIN log /\ \A i \in 1 .. Count(kind) : <<kind, i>> \notin input.wrong

\* Every stage that the driver reaches, in this life or from a cursor of an earlier
\* one, has its phases in the durable log, its residuals zero; and there is at most
\* one output, the opened t1, behind the circuits of the state.
DriverIsEarned ==
  /\ \A s \in cursors \cup {stage} :
       /\ s > OpenMaskedValues => "c" \in DOMAIN log
       /\ s > RecoverCanonicalBits => AllZero("canonical")
       /\ s > AddRoundConstant => AllZero("add_residual")
       /\ s > OpenT1Bits => "t1" \in DOMAIN log
  /\ outputs # {} => "t1" \in DOMAIN log /\ outputs = {log["t1"]} /\ StateOwned
=============================================================================
