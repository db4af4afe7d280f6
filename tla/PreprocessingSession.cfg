SPECIFICATION FairSpec
CONSTANTS
  good = good
  other = other
  bad = bad
  Setups <- MCSetups
  Payloads <- MCPayloads
  Usable <- MCUsable
  Input <- MCInput
INVARIANTS
  TypeOK
  BoundBeforeOpen
  TokensAgree
PROPERTIES
  EveryoneFinishes
CHECK_DEADLOCK FALSE
