\* Two processes share a mirror; git outlives a killed harness, or does not.
CONSTANTS
    p1 = p1
    p2 = p2
    m1 = m1
    ref1 = ref1
    ref2 = ref2
    c1 = c1
    c2 = c2
    NoProc = NoProc
    NoCommit = NoCommit
    Procs <- TwoProcs
    Mirrors <- OneMirror
    MirrorOf <- SameMirror
    Refs <- TwoRefs
    RefOf <- FirstOther
    Commits <- TwoCommits
SPECIFICATION FairSpec
INVARIANTS RightCommit CommitNotPruned FetchHasOrigin NoCheckoutLeak
PROPERTY EveryPrepareEnds
CHECK_DEADLOCK FALSE
