SPECIFICATION Spec
CONSTANT Calls <- MCCalls
INVARIANT RstdIntact
