---------------------------- MODULE MCStrictWire ----------------------------
(***************************************************************************)
(* Two signers and two slots.  The inbound messages hold a second body of  *)
(* one sender and a second phase of the other; the second slot may be      *)
(* heard of before the first is complete.                                  *)
(***************************************************************************)
EXTENDS StrictWire

CONSTANTS p1, p2, prepare, bound

Message(slot, phase, sender, body) ==
  [slot |-> slot, phase |-> phase, sender |-> sender, body |-> body]

MCSigners == {p1, p2}
MCSlotOrder == <<prepare, bound>>
MCInbound == {Message(prepare, 1, p1, "a"), Message(prepare, 1, p1, "b"),
              Message(prepare, 1, p2, "a"), Message(prepare, 2, p2, "a"),
              Message(bound, 1, p1, "a"), Message(bound, 1, p2, "a")}
MCOutbound == {Message(prepare, 1, p1, "out"), Message(bound, 2, p1, "out")}

\* Every outcome but a line cut right behind its first accepted hash.
WholeLineOutcomes == AllOutcomes \ {"shortened"}
EveryOutcome == AllOutcomes
=============================================================================
