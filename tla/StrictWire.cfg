SPECIFICATION Spec
CONSTANTS
  p1 = p1
  p2 = p2
  prepare = prepare
  bound = bound
  NoCursor = NoCursor
  NoSlot = NoSlot
  Signers <- MCSigners
  SlotOrder <- MCSlotOrder
  Inbound <- MCInbound
  Outbound <- MCOutbound
  Outcomes <- WholeLineOutcomes
INVARIANTS
  TypeOK
  HeardOnce
  SlotsAreWhole
CHECK_DEADLOCK FALSE
