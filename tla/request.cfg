SPECIFICATION FairSpec
INVARIANTS ListedUntilConcluded FailureStands
PROPERTIES ConcludesAsPromised LargeIsConcluded
CHECK_DEADLOCK FALSE
