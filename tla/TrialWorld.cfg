CONSTANT Config <- MCConfig
SPECIFICATION RolloutSpec
INVARIANTS QueriesAreExact TrialValidates Balanced RewardsBelong
CHECK_DEADLOCK FALSE
