----------------------------- MODULE MCDirectRun -----------------------------
(* Instances of DirectRun for TLC: two runs that ask for the same sandbox    *)
(* name, the second of which keeps its sandbox, or one run alone.            *)
EXTENDS DirectRun

CONSTANTS r1, r2, n1

TwoRuns == {r1, r2}
OneRun == {r1}
OneName == {n1}
SameName == [r \in Runs |-> n1]
KeepSecond == {r2}
NoRuns == {}
=============================================================================
