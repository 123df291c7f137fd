SPECIFICATION Spec
CONSTANT Calls <- MCCalls
INVARIANT StagingIntact
