SPECIFICATION Spec
CONSTANTS
  Runs = {1, 2}
  Cycles = {1}
  MaxCommands = 0
  MaxFaults = 0
  MaxCrashes = 0
INVARIANT MismatchDiscoverable
