SPECIFICATION Spec
CONSTANTS
  Owners = {o1, o2}
  LifeMod = 5
  MaxChanges = 4
CHECK_DEADLOCK FALSE
PROPERTIES RespawnWaits
