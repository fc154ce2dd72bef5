SPECIFICATION FairSpec
CONSTANT Scenarios <- LifeScenarios
CHECK_DEADLOCK FALSE
INVARIANTS LedgerExact HardwareOutlivesWork TouchedOnlyInRace
PROPERTIES ShutdownEnds
