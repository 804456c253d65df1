SPECIFICATION Spec
CONSTANT Queries = {total, pods}
INVARIANT FailureIsReported
SYMMETRY QuerySymmetry
CHECK_DEADLOCK FALSE
