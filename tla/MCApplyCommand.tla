--------------------------- MODULE MCApplyCommand ---------------------------
(* Instances of ApplyCommand for TLC.                                        *)
EXTENDS ApplyCommand, TLC

CONSTANTS p1, p2, prov1

TwoProcs == {p1, p2}
OneProvider == {prov1}
ProcSymmetry == Permutations(Procs)

Execution ==
    [mode |-> "execute", result |-> TRUE, hasRun |-> TRUE, inference |-> FALSE,
     refs |-> Providers, source |-> TRUE, content |-> FALSE, keep |-> FALSE]

\* Executions of workflows with and without a source, a result file, a run, an
\* inference route; and the modes that execute nothing, once with the flag they
\* do not allow.
SomeRequests ==
    {Execution,
     [Execution EXCEPT !.source = FALSE, !.refs = {}, !.content = TRUE, !.keep = TRUE],
     [Execution EXCEPT !.result = FALSE, !.source = FALSE],
     [Execution EXCEPT !.hasRun = FALSE, !.source = FALSE],
     [Execution EXCEPT !.inference = TRUE],
     [Execution EXCEPT !.mode = "setupOnly", !.result = FALSE],
     [Execution EXCEPT !.mode = "dryRun", !.result = FALSE],
     [Execution EXCEPT !.mode = "render", !.result = FALSE],
     [Execution EXCEPT !.mode = "render"]}
=============================================================================
