---------------------------- MODULE MCWorkflowPlan ----------------------------
(* Instances of WorkflowPlan for TLC: workflows with every combination of a   *)
(* few parts, and one whose only part is a policy.                            *)
EXTENDS WorkflowPlan

CONSTANTS prov1

OneProvider == {prov1}

PolicyOnly ==
    [image |-> "none", providers |-> {}, inference |-> NoProvider, extras |-> TRUE,
     tty |-> FALSE, keep |-> FALSE, agent |-> FALSE, source |-> FALSE,
     payloads |-> 0, outputs |-> <<>>]

SomeWorkflows ==
    {PolicyOnly} \cup
    {[image |-> i, providers |-> p, inference |-> f, extras |-> FALSE, tty |-> FALSE,
      keep |-> k, agent |-> a, source |-> s, payloads |-> n, outputs |-> o] :
        i \in {"none", "workflow"}, p \in {{}, {prov1}}, f \in {NoProvider, prov1},
        k \in BOOLEAN, a \in BOOLEAN, s \in BOOLEAN, n \in {0, 2},
        o \in {<<>>, <<"optional", "required">>}}
=============================================================================
