SPECIFICATION Spec
CONSTANTS
  Slots = {c1, c2}
  NoSlot = NoSlot
  MaxBots = 2
INVARIANTS RemovalLeavesNoOwner
