SPECIFICATION ServerSpec
CONSTANTS
  Sqlite = FALSE
  HasRedis = TRUE
  Tables = 3
  UsersTable = 2
  MaxFaults = 4
  MaxTurns = 3
  Name = {"a", "b", "c"}
  Seed = "a"
  MaxVersion = 3
  MaxBuilds = 3
  MaxMishaps = 2
  Scripts = FALSE
INVARIANTS
  OneSaverOpen
  ServesCompleteSchema
  EveryFileIsFound
  RowsTellTheTruth
  WrittenThenIndexed
PROPERTY ServerReturns
CHECK_DEADLOCK FALSE
