SPECIFICATION Spec
CONSTANTS
  QueueLimit = 1
  ListSize = 2
  Delay <- Delays
  DEATHMILLIS = 1
  GameLimit = 3
  MaxTime = 4
  MaxStamp = 1
  MaxLives = 2
INVARIANTS QueueOfThisLife RateOfFire OneBlastPerRocket
