---------------------------- MODULE MCSourceCache ----------------------------
(* An instance of SourceCache for TLC: two processes of one repository that  *)
(* want different refs.                                                      *)
EXTENDS SourceCache

CONSTANTS p1, p2, m1, ref1, ref2, c1, c2

TwoProcs == {p1, p2}
OneMirror == {m1}
SameMirror == [p \in Procs |-> m1]
TwoRefs == {ref1, ref2}
FirstOther == [p \in Procs |-> IF p = p1 THEN ref1 ELSE ref2]
TwoCommits == {c1, c2}
=============================================================================
