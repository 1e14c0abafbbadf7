SPECIFICATION MatchSpec
CONSTANTS
  Humans = {h1, h2, h3}
  Rulers = {h1}
  Nobody = Nobody
  Maps = {m1}
  MaxDemos = 1
  Owners = {o1, o2}
  LifeMod = 5
  MaxChanges = 3
CHECK_DEADLOCK FALSE
INVARIANTS OldAnswersAreRefused WaitsForSomething ClosedAsksForMap OneDemoPerMatch
PROPERTIES TheDeadComeBack MatchesFollow
