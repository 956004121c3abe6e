\* Two commands, any of nine command lines, that would name the same result file.
CONSTANTS
    p1 = p1
    p2 = p2
    prov1 = prov1
    Absent = Absent
    Foreign = Foreign
    Procs <- TwoProcs
    Providers <- OneProvider
    Requests <- SomeRequests
SYMMETRY ProcSymmetry
SPECIFICATION Spec
INVARIANTS ResultTruthful ResultWritten ClaimBeforeMutation OnlyCheckedRuns ExitsClean
CHECK_DEADLOCK FALSE
