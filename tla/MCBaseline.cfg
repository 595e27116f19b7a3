SPECIFICATION Spec
CONSTANTS
    e1 = e1
    e2 = e2
    Cases <- MCCases
    Dirs <- MCDirs
    HandArguments <- MCHandArguments
    ScriptCases <- MCScriptCases
    JudgeFailures = {0, 1}
    MaxInvocations = 2
    N = 2
INVARIANTS
    TypeOK
    FirstSessionIsEchoed
    ComparisonAgrees
    ResultsOnDisk
    CheckedRunsAreComplete
PROPERTIES
    NothingIsRepeated
    InvocationEnds
    ScriptEnds
