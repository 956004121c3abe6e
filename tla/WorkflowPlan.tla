---------------------------- MODULE WorkflowPlan ----------------------------
(***************************************************************************)
(* What a plan says and what apply then does.  A workflow is resolved      *)
(* (loadWorkflow), the gateway's state is read in several calls            *)
(* (plan.ReadCurrentState), a plan is built from both (plan.Build), and    *)
(* apply, after its checks, prepares a request from the same workflow      *)
(* (buildRunRequest) and runs it (run.Run).  ApplyCommand has the errors,  *)
(* the signals and the result file of the same path; here the contents     *)
(* matter: the actions of the plan's groups, and the calls that are made.  *)
(***************************************************************************)
EXTENDS Naturals, Sequences

CONSTANTS
    Workflows,   \* workflow files, after interpolation (see below)
    Providers,   \* provider names
    NoProvider   \* no inference provider: inference is not configured

\* The image "none" is the empty string.  Payloads are counted; an output is
\* required or not.  extras stands for a policy or environment variables.
WorkflowType(images) ==
    [image : images, providers : SUBSET Providers, inference : Providers \cup {NoProvider},
     extras : BOOLEAN, tty : BOOLEAN, keep : BOOLEAN, agent : BOOLEAN, source : BOOLEAN,
     payloads : Nat, outputs : Seq({"required", "optional"})]

ASSUME PlanAssumption ==
    /\ NoProvider \notin Providers
    /\ Workflows \subseteq WorkflowType({"none", "workflow"})

VARIABLES
    command,  \* "plan", "dryRun" (apply --dry-run), "setup" (--setup-only), "apply"
    flags,    \* overrides: agent and terminal; and whether HARNESS_OS_IMAGE is set
    pc,
    workflow, \* resolvedWorkflow.Desired
    current,  \* the snapshot of the gateway's state
    planned,  \* the plan's groups
    request,  \* the run request
    item,     \* the next upload or download
    calls,    \* the sandbox calls made, in order
    gateway,  \* the providers the gateway has
    always,   \* those it has had ever since the command started
    sometime  \* those it has had at some time since

vars == <<command, flags, pc, workflow, current, planned, request, item, calls,
          gateway, always, sometime>>

DryRun == command \in {"plan", "dryRun"}

-----------------------------------------------------------------------------
(* config and cmd/workflow.go                                              *)

ProviderReferences(w) == w.providers \cup ({w.inference} \ {NoProvider})

InferenceConfigured(w) == w.inference # NoProvider

RunConfigured(w) ==
    \/ w.image # "none" \/ w.providers # {} \/ w.extras \/ w.tty \/ w.keep
    \/ w.agent \/ w.source \/ w.payloads > 0 \/ w.outputs # <<>>

\* A changed form: the default only replaces the image of the workflow.
Bug_SandboxImage(w, environment) ==
    IF RunConfigured(w) /\ environment /\ w.image # "none" THEN "environment" ELSE w.image

\* resolveSandboxImage, for workflows that declare a run.
SandboxImage(w, environment) ==
    CASE ~RunConfigured(w) -> w.image
      [] RunConfigured(w) /\ environment -> "environment"
      [] RunConfigured(w) /\ ~environment -> IF w.image = "none" THEN "default" ELSE w.image

\* apply's overrides come before the defaults.
Resolved(w) ==
    LET o == [w EXCEPT !.agent = @ \/ flags.agent, !.tty = @ \/ flags.tty]
    IN  [o EXCEPT !.image = SandboxImage(o, flags.image)]

-----------------------------------------------------------------------------
(* plan.Build                                                              *)

Call(op, what, index) == [op |-> op, what |-> what, index |-> index]
When(condition, call) == IF condition THEN <<call>> ELSE <<>>

TargetAction(cur) ==
    CASE ~cur.inspected -> "not-inspected"
      [] cur.inspected /\ cur.reachable -> "validate"
      [] cur.inspected /\ ~cur.reachable -> "login-required"

\* A changed form: providers that could not be listed are taken for missing.
Bug_ProviderAction(cur, name) == IF name \in cur.providers THEN "noop" ELSE "missing"

ProviderAction(cur, name) ==
    CASE ~cur.known -> "not-inspected"
      [] cur.known /\ name \in cur.providers -> "noop"
      [] cur.known /\ name \notin cur.providers -> "missing"

InferenceAction(cur) ==
    CASE cur.inference = "incapable" -> "validate"
      [] cur.inference = "absent" -> "create"
      [] cur.inference = "differs" -> "update"
      [] cur.inference = "matches" -> "noop"

\* Each payload has either a source or a content, and is listed by one of them.
Uploads(w) ==
    When(w.source, Call("upload", "source", 0))
    \o [i \in 1..w.payloads |-> Call("upload", "payload", i)]

Downloads(w) == [i \in 1..Len(w.outputs) |-> Call("download", "output", i)]

\* A changed form: the uploads are listed after the command that needs them.
Bug_RunGroup(w) ==
    When(w.image # "none", Call("create", w.image, 0))
    \o When(w.agent, Call("execute", "agent", 0))
    \o Uploads(w)
    \o Downloads(w)
    \o When(w.image # "none" /\ ~w.keep, Call("delete", w.image, 0))

RunGroup(w) ==
    When(w.image # "none", Call("create", w.image, 0))
    \o Uploads(w)
    \o When(w.agent, Call("execute", "agent", 0))
    \o Downloads(w)
    \o When(w.image # "none" /\ ~w.keep, Call("delete", w.image, 0))

\* plan's own notion of a workflow with a run, after the image default.
HasRunConfig(w) ==
    w.image # "none" \/ w.source \/ w.payloads > 0 \/ w.outputs # <<>> \/ w.agent

Build(w, cur) ==
    [target |-> TargetAction(cur),
     providers |-> [name \in ProviderReferences(w) |-> ProviderAction(cur, name)],
     inference |-> IF InferenceConfigured(w) THEN InferenceAction(cur) ELSE "none",
     run |-> IF HasRunConfig(w) THEN RunGroup(w) ELSE <<>>]

-----------------------------------------------------------------------------
Uninspected ==
    [inspected |-> FALSE, reachable |-> FALSE, known |-> FALSE, providers |-> {},
     inference |-> "incapable"]

NoPlan == [target |-> "none", providers |-> <<>>, inference |-> "none", run |-> <<>>]

NoRequest == [image |-> "none", uploads |-> <<>>, command |-> FALSE, downloads |-> <<>>,
              keep |-> FALSE]

Ended == {"shown", "refused", "failed", "succeeded", "nothing"}

TypeOK ==
    /\ command \in {"plan", "dryRun", "setup", "apply"}
    /\ flags \in [agent : BOOLEAN, tty : BOOLEAN, image : BOOLEAN]
    /\ pc \in {"load", "connect", "health", "providers", "inference", "build",
               "preflight", "verify", "prepare", "create", "upload", "execute",
               "download", "downloadFailed", "cleanup", "cleanupFailed"} \cup Ended
    /\ workflow \in WorkflowType({"none", "workflow", "environment", "default"})
    /\ current \in [inspected : BOOLEAN, reachable : BOOLEAN, known : BOOLEAN,
                    providers : SUBSET Providers,
                    inference : {"incapable", "absent", "differs", "matches"}]
    /\ planned.target \in {"none", "not-inspected", "validate", "login-required"}
    /\ planned.inference \in {"none", "validate", "create", "update", "noop"}
    /\ item \in Nat
    /\ gateway \subseteq Providers
    /\ always \subseteq gateway
    /\ gateway \subseteq sometime

Init ==
    /\ command \in {"plan", "dryRun", "setup", "apply"}
    /\ flags \in [agent : IF command = "plan" THEN {FALSE} ELSE BOOLEAN,
                  tty : IF command = "plan" THEN {FALSE} ELSE BOOLEAN,
                  image : BOOLEAN]
    /\ pc = "load"
    /\ workflow \in Workflows
    /\ current = Uninspected
    /\ planned = NoPlan
    /\ request = NoRequest
    /\ item = 1
    /\ calls = <<>>
    /\ gateway \in SUBSET Providers
    /\ always = gateway
    /\ sometime = gateway

input == <<command, flags>>
history == <<gateway, always, sometime>>
execution == <<request, item, calls>>

Step(from, to) == pc = from /\ pc' = to

LoadWorkflow ==
    /\ Step("load", "connect")
    /\ workflow' = Resolved(workflow)
    /\ UNCHANGED <<input, current, planned, execution, history>>

-----------------------------------------------------------------------------
(* connectAndBuildPlan and plan.ReadCurrentState                           *)

Connect ==
    /\ Step("connect", "health")
    /\ current' = [Uninspected EXCEPT !.inspected = TRUE]
    /\ UNCHANGED <<input, workflow, planned, execution, history>>

\* A read-only command goes on without a client.
ConnectFails ==
    /\ Step("connect", IF DryRun THEN "build" ELSE "refused")
    /\ UNCHANGED <<input, workflow, current, planned, execution, history>>

ReadHealth ==
    /\ Step("health", "providers")
    /\ \E healthy \in BOOLEAN : current' = [current EXCEPT !.reachable = healthy]
    /\ UNCHANGED <<input, workflow, planned, execution, history>>

ReadProviders ==
    /\ Step("providers", IF InferenceConfigured(workflow) THEN "inference" ELSE "build")
    /\ current' = [current EXCEPT !.providers = gateway, !.known = TRUE]
    /\ UNCHANGED <<input, workflow, planned, execution, history>>

\* A changed form: the target stays reachable when its providers cannot be read.
Bug_Unavailable ==
    /\ \/ Step("health", "build")
       \/ Step("providers", "build")
    /\ UNCHANGED current

\* ErrUnavailable or ErrUnauthenticated from Health or Providers.
Unavailable ==
    /\ \/ Step("health", "build")
       \/ Step("providers", "build")
    /\ current' = [current EXCEPT !.reachable = FALSE]

ReadUnavailable ==
    /\ Unavailable
    /\ UNCHANGED <<input, workflow, planned, execution, history>>

\* A transient failure leaves the route unknown; the target stays reachable.
ReadInference ==
    /\ Step("inference", "build")
    /\ \E route \in {"incapable", "absent", "differs", "matches"} :
          current' = [current EXCEPT !.inference = route]
    /\ UNCHANGED <<input, workflow, planned, execution, history>>

\* Any other error of a read, in any mode.
ReadFails ==
    /\ \/ Step("health", "refused")
       \/ Step("providers", "refused")
       \/ Step("inference", "refused")
    /\ UNCHANGED <<input, workflow, current, planned, execution, history>>

BuildPlan ==
    /\ Step("build", IF DryRun THEN "shown" ELSE "preflight")
    /\ planned' = Build(workflow, current)
    /\ UNCHANGED <<input, workflow, current, execution, history>>

-----------------------------------------------------------------------------
(* executeResolvedWorkflow up to the request                               *)

\* Reachability, preflightPlan, and the refusal of inference routes.
PlanIsClean ==
    /\ current.reachable
    /\ planned.target # "login-required"
    /\ \A name \in DOMAIN planned.providers : planned.providers[name] # "missing"
    /\ planned.inference # "validate"
    /\ ~InferenceConfigured(workflow)

Preflight ==
    /\ Step("preflight", IF PlanIsClean THEN "verify" ELSE "refused")
    /\ UNCHANGED <<input, workflow, current, planned, execution, history>>

\* GetProvider for every reference: ApplyCommand has them one by one.
VerifyProviders ==
    /\ \/ Step("verify", "prepare") /\ ProviderReferences(workflow) \subseteq gateway
       \/ Step("verify", "refused")
    /\ UNCHANGED <<input, workflow, current, planned, execution, history>>

NothingToRun ==
    /\ command = "setup" \/ ~RunConfigured(workflow)
    /\ Step("prepare", "nothing")
    /\ UNCHANGED <<input, workflow, current, planned, execution, history>>

\* The checkout first, then the payloads, staged on the host or not.
RequestUploads(w) ==
    When(w.source, Call("upload", "source", 0))
    \o [i \in 1..w.payloads |-> Call("upload", "payload", i)]

BuildRunRequest ==
    /\ command = "apply" /\ RunConfigured(workflow)
    /\ Step("prepare", "create")
    /\ request' = [image |-> workflow.image, uploads |-> RequestUploads(workflow),
                   command |-> workflow.agent, downloads |-> workflow.outputs,
                   keep |-> workflow.keep]
    /\ UNCHANGED <<input, workflow, current, planned, item, calls, history>>

\* A local image, a failing checkout, an unreadable payload or policy, no
\* --output-dir for the outputs.
BuildFails ==
    /\ command = "apply" /\ RunConfigured(workflow)
    /\ Step("prepare", "refused")
    /\ UNCHANGED <<input, workflow, current, planned, execution, history>>

-----------------------------------------------------------------------------
(* run.Run                                                                 *)

Make(call) == calls' = Append(calls, call)
afterRequest == <<input, workflow, current, planned, request, history>>

\* CreateSandbox; WaitSandboxReady may still fail, or the reply be an error.
CreateSandbox ==
    /\ \/ Step("create", "upload") \/ Step("create", "cleanupFailed")
       \/ Step("create", "failed")
    /\ Make(Call("create", request.image, 0))
    /\ UNCHANGED <<item, afterRequest>>

UploadPath ==
    /\ item <= Len(request.uploads)
    /\ Make(request.uploads[item])
    /\ \/ Step("upload", "upload") /\ item' = item + 1
       \/ Step("upload", "cleanupFailed") /\ UNCHANGED item
    /\ UNCHANGED afterRequest

ExecSandbox ==
    /\ item > Len(request.uploads)
    /\ IF request.command
         THEN /\ \/ Step("upload", "download") \/ Step("upload", "downloadFailed")
              /\ Make(Call("execute", "agent", 0))
         ELSE Step("upload", "download") /\ UNCHANGED calls
    /\ item' = 1
    /\ UNCHANGED afterRequest

\* A failed download, or a required one that is missing, fails the run and
\* does not keep it from trying the others.
DownloadPath ==
    /\ item <= Len(request.downloads)
    /\ \/ Step("download", "download") \/ Step("download", "downloadFailed")
       \/ Step("downloadFailed", "downloadFailed")
    /\ Make(Call("download", "output", item))
    /\ item' = item + 1
    /\ UNCHANGED afterRequest

DownloadsDone ==
    /\ item > Len(request.downloads)
    /\ \/ Step("download", "cleanup")
       \/ Step("downloadFailed", "cleanupFailed")
    /\ UNCHANGED <<item, calls, afterRequest>>

\* The deferred delete, unless the sandbox is kept.
Cleanup ==
    /\ \/ Step("cleanup", "succeeded")
       \/ Step("cleanup", "failed") /\ ~request.keep
       \/ Step("cleanupFailed", "failed")
    /\ IF request.keep THEN UNCHANGED calls ELSE Make(Call("delete", request.image, 0))
    /\ UNCHANGED <<item, afterRequest>>

-----------------------------------------------------------------------------
\* Others add and remove providers.
ChangeProviders ==
    /\ pc \notin Ended
    /\ gateway' \in SUBSET Providers
    /\ always' = always \cap gateway'
    /\ sometime' = sometime \cup gateway'
    /\ UNCHANGED <<input, pc, workflow, current, planned, execution>>

Read == Connect \/ ConnectFails \/ ReadHealth \/ ReadProviders \/ ReadUnavailable
        \/ ReadInference \/ ReadFails \/ BuildPlan
Check == Preflight \/ VerifyProviders \/ NothingToRun \/ BuildRunRequest \/ BuildFails
Run == CreateSandbox \/ UploadPath \/ ExecSandbox \/ DownloadPath \/ DownloadsDone
       \/ Cleanup

Next == LoadWorkflow \/ Read \/ Check \/ Run \/ ChangeProviders

Spec == Init /\ [][Next]_vars

-----------------------------------------------------------------------------
(* Properties                                                              *)

\* "apply never executes a value absent from its plan" (workflow.go:25-26): every
\* sandbox call, of runs that fail half way too, is in the plan, in its order.
PlannedInOrder ==
    /\ \A i \in DOMAIN calls : \E k \in DOMAIN planned.run : planned.run[k] = calls[i]
    /\ \A i, j \in DOMAIN calls, k, l \in DOMAIN planned.run :
          i < j /\ planned.run[k] = calls[i] /\ planned.run[l] = calls[j] => k < l

\* A run that succeeds has done all the plan says, although the plan and the
\* request are derived from the workflow separately, and from different notions
\* of a workflow that declares a run (plan.hasRunConfig, cmd.runConfigured).
SuccessIsPlan == pc = "succeeded" => calls = planned.run

\* No sandbox is touched unless the plan of the same command shows a reachable
\* target and every provider as found: a state that could not be read, which
\* preflightPlan itself lets pass, stops the command as well.
PlanGatesRun ==
    calls # <<>> =>
        /\ planned.target = "validate"
        /\ \A name \in DOMAIN planned.providers : planned.providers[name] = "noop"
        /\ planned.inference = "none"

\* "it must not be rendered as a confirmed missing provider" (connect_plan.go:15):
\* however the reads fail and whatever changes meanwhile, a provider that was
\* there all along is never shown as missing, nor one that never was as found.
ShownAsSeen ==
    \A name \in DOMAIN planned.providers :
        /\ planned.providers[name] = "missing" => name \notin always
        /\ planned.providers[name] = "noop" => name \in sometime
=============================================================================
