CONSTANTS
    a = a
    b = b
    Keys <- MCKeys
    Modulus = 5
    WrapWindow = 2
    GapThreshold = 1
    FirstSeqs = {3}
    MaxSends = 3
    MaxCapture = 3
    MaxRuns = 2
SYMMETRY KeySymmetry
SPECIFICATION Spec
INVARIANTS AnalysisStable MissingExact LateFramesFlagged
