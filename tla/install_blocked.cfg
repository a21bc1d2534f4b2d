SPECIFICATION Spec
INVARIANT AttemptCanFollow
