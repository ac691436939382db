CONSTANT Retries = 2
SPECIFICATION FairSpec
INVARIANTS OneRootAtATime SuccessIsEarned
PROPERTY StopEndsRun
CHECK_DEADLOCK FALSE
