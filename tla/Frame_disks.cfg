CONSTANT Samples <- DiskSamples
SPECIFICATION Spec
INVARIANT DisksArrive
