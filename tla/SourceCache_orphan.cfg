\* Is every write to the mirror serialized, as the documentation of the package says?
CONSTANTS
    p1 = p1
    p2 = p2
    m1 = m1
    ref1 = ref1
    ref2 = ref2
    c1 = c1
    c2 = c2
    NoProc = NoProc
    NoCommit = NoCommit
    Procs <- TwoProcs
    Mirrors <- OneMirror
    MirrorOf <- SameMirror
    Refs <- TwoRefs
    RefOf <- FirstOther
    Commits <- TwoCommits
SPECIFICATION Spec
PROPERTY FetchesSerialized
CHECK_DEADLOCK FALSE
