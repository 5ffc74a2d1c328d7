CONSTANT Samples <- FittingSamples
SPECIFICATION Spec
INVARIANT TruncationExposed
