SPECIFICATION FairSpec
CONSTANT Faults <- BadProofs
INVARIANTS OpensAfterInitiator BlameIsTrue ReachableWhileOpen
PROPERTIES ClosedForGood TeardownIsReported EstablishmentEnds BothEndsClose
CHECK_DEADLOCK FALSE
