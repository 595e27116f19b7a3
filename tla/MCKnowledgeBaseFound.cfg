SPECIFICATION Spec
CONSTANTS
    Runs = {r1, r2, r3}
    Confidences = {1, 2}
    MaxTopK = 2
    MaxCalls = 1
INVARIANTS
    FoundCasesAreAnswered
