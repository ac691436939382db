SPECIFICATION FairSpec
CONSTANTS
  Runs = {1, 2}
  Cycles = {1, 2}
  MaxCommands = 1
  MaxFaults = 1
  MaxCrashes = 1
INVARIANTS ChangeIsRecorded NewRunIsQuiet SealedIsQuiet LatestVerifies
PROPERTIES ImplementsGovernedRuns EveryProcessEnds
