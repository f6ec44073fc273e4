CONSTANT Preempt = FALSE
SPECIFICATION FairSpec
INVARIANTS TypeOK StatusKept
PROPERTIES  FlashReverts
