SPECIFICATION Spec
INVARIANT AscCovered
INVARIANT FreedOnlyQuiet
INVARIANT ObligationKept
INVARIANT RetryFrees
