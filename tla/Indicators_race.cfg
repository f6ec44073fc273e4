CONSTANT Preempt = TRUE
SPECIFICATION Spec
INVARIANT FailureShown
