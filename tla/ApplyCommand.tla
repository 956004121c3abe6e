---------------------------- MODULE ApplyCommand ----------------------------
(***************************************************************************)
(* harness workflow apply (runner/cmd): from the command line to the exit  *)
(* code and the result file.  A command claims its result file, loads the  *)
(* workflow, reads the gateway's state, checks the plan and the providers, *)
(* prepares the uploads on the host, and hands over to run.Run; deferred   *)
(* calls then remove what was prepared, close the client and write the     *)
(* result.  Run is modelled by what the other steps see of it (SandboxRun  *)
(* has its inside): it creates a sandbox, ends with some errors, and       *)
(* deletes.  Several commands may name one result file, providers come and *)
(* go at the gateway, and a command may be signalled or killed.            *)
(***************************************************************************)
EXTENDS Integers

CONSTANTS
    Procs,      \* harness processes
    Requests,   \* the command lines with their workflows (see below)
    Providers,  \* providers the gateway may have
    Absent,     \* the result file does not exist
    Foreign     \* the result file was there before, written by somebody else

\* A request: the mode (execution, --dry-run, --output or --setup-only),
\* whether there is a --result-file, and what the workflow declares.
RequestType ==
    [mode : {"execute", "dryRun", "render", "setupOnly"}, result : BOOLEAN,
     hasRun : BOOLEAN, inference : BOOLEAN, refs : SUBSET Providers,
     source : BOOLEAN, content : BOOLEAN, keep : BOOLEAN]

ASSUME ApplyAssumption ==
    /\ Requests \subseteq RequestType
    /\ Absent \notin Procs
    /\ Foreign \notin Procs
    /\ Absent # Foreign

VARIABLES
    pc,        \* pc[p]: where p is
    req,       \* req[p]: the command line of p
    ctx,       \* ctx[p]: "live", or "cancelled" by a signal
    err,       \* err[p]: the parts of the error returned so far
    phase,     \* phase[p]: applyResult.Phase
    seen,      \* seen[p]: "none", or whether the gateway was reachable
    snapshot,  \* snapshot[p]: the providers the plan was built from
    verified,  \* verified[p]: the providers GetProvider has found
    staged,    \* staged[p]: the host directories buildRunRequest made
    commit,    \* commit[p]: applyResult.SourceCommit, "none" or "known"
    client,    \* client[p]: the gateway connection, "none", "open" or "closed"
    sandbox,   \* sandbox[p]: p's sandbox, "none", "up" or "deleted"
    providers, \* the providers the gateway has
    file       \* the result file: who made it, and its contents

vars == <<pc, req, ctx, err, phase, seen, snapshot, verified, staged, commit,
          client, sandbox, providers, file>>

Ended == {"exited", "killed"}
Steps == {"start", "load", "connect", "readState", "planned", "verify", "source",
          "payloads", "outputs", "reconcile", "execute", "creating", "running",
          "deleting", "cleanup", "close", "finish"} \cup Ended
Phases == {"load", "plan", "preflight", "prepare", "reconcile", "execute", "complete"}
Errors == {"other", "canceled", "deadline", "write"}
Statuses == {"succeeded", "failed", "cancelled", "timed_out"}

TypeOK ==
    /\ pc \in [Procs -> Steps]
    /\ req \in [Procs -> Requests]
    /\ ctx \in [Procs -> {"live", "cancelled"}]
    /\ err \in [Procs -> SUBSET Errors]
    /\ phase \in [Procs -> Phases]
    /\ seen \in [Procs -> {"none", "reachable", "unreachable"}]
    /\ snapshot \in [Procs -> SUBSET Providers]
    /\ verified \in [Procs -> SUBSET Providers]
    /\ staged \in [Procs -> SUBSET {"checkout", "content"}]
    /\ commit \in [Procs -> {"none", "known"}]
    /\ client \in [Procs -> {"none", "open", "closed"}]
    /\ sandbox \in [Procs -> {"none", "up", "deleted"}]
    /\ providers \subseteq Providers
    /\ file \in [by : Procs \cup {Absent, Foreign},
                 status : Statuses \cup {"empty", "torn"},
                 phase : Phases, commit : {"none", "known"}]

NewFile(who) == [by |-> who, status |-> "empty", phase |-> "load", commit |-> "none"]

Init ==
    /\ pc = [p \in Procs |-> "start"]
    /\ req \in [Procs -> Requests]
    /\ ctx = [p \in Procs |-> "live"]
    /\ err = [p \in Procs |-> {}]
    /\ phase = [p \in Procs |-> "load"]
    /\ seen = [p \in Procs |-> "none"]
    /\ snapshot = [p \in Procs |-> {}]
    /\ verified = [p \in Procs |-> {}]
    /\ staged = [p \in Procs |-> {}]
    /\ commit = [p \in Procs |-> "none"]
    /\ client = [p \in Procs |-> "none"]
    /\ sandbox = [p \in Procs |-> "none"]
    /\ providers \in SUBSET Providers
    /\ file \in {NewFile(Absent), NewFile(Foreign)}

Goto(p, step) == pc' = [pc EXCEPT ![p] = step]
Step(p, from, to) == pc[p] = from /\ Goto(p, to)
SetPhase(p, name) == phase' = [phase EXCEPT ![p] = name]

\* The ways a call can fail: a cancelled context is one of them.
Failures(p) == {"other", "deadline"} \cup IF ctx[p] = "cancelled" THEN {"canceled"} ELSE {}
AddError(p, part) == err' = [err EXCEPT ![p] = @ \cup {part}]

\* The command returns from step "from" with an error; the deferred calls that
\* are registered by then begin at step "to".
Return(p, from, to) == Step(p, from, to) /\ \E e \in Failures(p) : AddError(p, e)

plan == <<seen, snapshot>>
prepared == <<staged, commit>>
gateway == <<sandbox, providers>>
-----------------------------------------------------------------------------
(* Changed forms of definitions below: bugs the properties must tell apart *)

\* The result file is opened without O_EXCL.
Bug_StartApplyResult(p) ==
    /\ req[p].result /\ req[p].mode = "execute"
    /\ Step(p, "start", "load")
    /\ file' = NewFile(p)
    /\ UNCHANGED <<req, ctx, err, phase, plan, verified, prepared, client, gateway>>

\* The result is only finished once the workflow has been loaded.
Bug_LoadFails(p) ==
    /\ Step(p, "load", "exited")
    /\ AddError(p, "other")
    /\ UNCHANGED <<req, ctx, phase, plan, verified, prepared, client, gateway, file>>

\* A cancelled context is looked at before the error.
Bug_Status(p) ==
    CASE ctx[p] = "cancelled" -> "cancelled"
      [] ctx[p] = "live" /\ err[p] = {} -> "succeeded"
      [] ctx[p] = "live" /\ "deadline" \in err[p] -> "timed_out"
      [] OTHER -> "failed"

\* A provider the plan has seen is not looked up again.
Bug_VerifyDone(p) ==
    /\ req[p].refs \subseteq snapshot[p] \cup verified[p]
    /\ Step(p, "verify", IF req[p].mode = "execute" THEN "source" ELSE "reconcile")
    /\ SetPhase(p, "prepare")
    /\ UNCHANGED <<req, ctx, err, plan, verified, prepared, client, gateway, file>>

\* A failure while the request is built returns without the cleanup.
Bug_BuildFails(p) ==
    /\ pc[p] \in {"source", "payloads", "outputs"}
    /\ Goto(p, "close")
    /\ AddError(p, "other")
    /\ UNCHANGED <<req, ctx, phase, plan, verified, prepared, client, gateway, file>>

-----------------------------------------------------------------------------
(* run: the flags, the result file, the workflow                           *)

\* --result-file together with a mode that executes nothing.
RejectFlags(p) ==
    /\ req[p].result /\ req[p].mode # "execute"
    /\ Step(p, "start", "exited")
    /\ AddError(p, "other")
    /\ UNCHANGED <<req, ctx, phase, plan, verified, prepared, client, gateway, file>>

\* O_CREATE | O_EXCL: the file is this command's, or nobody's.
StartApplyResult(p) ==
    /\ req[p].result /\ req[p].mode = "execute"
    /\ file.by = Absent
    /\ Step(p, "start", "load")
    /\ file' = NewFile(p)
    /\ UNCHANGED <<req, ctx, err, phase, plan, verified, prepared, client, gateway>>

StartApplyResultFails(p) ==
    /\ req[p].result /\ req[p].mode = "execute"
    /\ Step(p, "start", "exited")
    /\ AddError(p, "other")
    /\ UNCHANGED <<req, ctx, phase, plan, verified, prepared, client, gateway, file>>

NoResultFile(p) ==
    /\ ~req[p].result
    /\ Step(p, "start", "load")
    /\ UNCHANGED <<req, ctx, err, phase, plan, verified, prepared, client, gateway, file>>

LoadWorkflow(p) ==
    /\ req[p].mode # "render"
    /\ req[p].result => req[p].hasRun
    /\ Step(p, "load", "connect")
    /\ SetPhase(p, "plan")
    /\ UNCHANGED <<req, ctx, err, plan, verified, prepared, client, gateway, file>>

\* The workflow does not load, or has no run to report on.
LoadFails(p) ==
    /\ Step(p, "load", "finish")
    /\ AddError(p, "other")
    /\ UNCHANGED <<req, ctx, phase, plan, verified, prepared, client, gateway, file>>

RenderWorkflow(p) ==
    /\ req[p].mode = "render"
    /\ Step(p, "load", "finish")
    /\ UNCHANGED <<req, ctx, err, phase, plan, verified, prepared, client, gateway, file>>

-----------------------------------------------------------------------------
(* connectAndBuildPlan                                                     *)

Connect(p) ==
    /\ Step(p, "connect", "readState")
    /\ client' = [client EXCEPT ![p] = "open"]
    /\ UNCHANGED <<req, ctx, err, phase, plan, verified, prepared, gateway, file>>

ConnectFails(p) ==
    /\ req[p].mode # "dryRun"
    /\ Return(p, "connect", "finish")
    /\ UNCHANGED <<req, ctx, phase, plan, verified, prepared, client, gateway, file>>

\* A dry run plans without a client.
PlanOffline(p) ==
    /\ req[p].mode = "dryRun"
    /\ Step(p, "connect", "planned")
    /\ UNCHANGED <<req, ctx, err, phase, plan, verified, prepared, client, gateway, file>>

\* Health and Providers; a gateway that cannot be reached is not an error.
ReadCurrentState(p) ==
    /\ Step(p, "readState", "planned")
    /\ \/ /\ ctx[p] = "live"
          /\ seen' = [seen EXCEPT ![p] = "reachable"]
          /\ snapshot' = [snapshot EXCEPT ![p] = providers]
       \/ /\ seen' = [seen EXCEPT ![p] = "unreachable"]
          /\ UNCHANGED snapshot
    /\ UNCHANGED <<req, ctx, err, phase, verified, prepared, client, gateway, file>>

ReadStateFails(p) ==
    /\ Return(p, "readState", "finish")
    /\ client' = [client EXCEPT ![p] = "closed"]
    /\ UNCHANGED <<req, ctx, phase, plan, verified, prepared, gateway, file>>

-----------------------------------------------------------------------------
(* executeResolvedWorkflow, up to the run                                  *)

RenderPlan(p) ==
    /\ req[p].mode = "dryRun"
    /\ Step(p, "planned", "close")
    /\ \/ UNCHANGED err
       \/ AddError(p, "other")
    /\ UNCHANGED <<req, ctx, phase, plan, verified, prepared, client, gateway, file>>

PlanIsClean(p) ==
    /\ seen[p] = "reachable"
    /\ req[p].refs \subseteq snapshot[p]
    /\ ~req[p].inference

PreflightPlan(p) ==
    /\ req[p].mode # "dryRun"
    /\ PlanIsClean(p)
    /\ Step(p, "planned", "verify")
    /\ SetPhase(p, "preflight")
    /\ UNCHANGED <<req, ctx, err, plan, verified, prepared, client, gateway, file>>

PreflightFails(p) ==
    /\ req[p].mode # "dryRun"
    /\ ~PlanIsClean(p)
    /\ Step(p, "planned", "close")
    /\ SetPhase(p, "preflight")
    /\ AddError(p, "other")
    /\ UNCHANGED <<req, ctx, plan, verified, prepared, client, gateway, file>>

\* GetProvider of one more reference.
VerifyProvider(p, ref) ==
    /\ ref \in req[p].refs \ verified[p]
    /\ ref \in providers
    /\ ctx[p] = "live"
    /\ pc[p] = "verify"
    /\ verified' = [verified EXCEPT ![p] = @ \cup {ref}]
    /\ UNCHANGED <<pc, req, ctx, err, phase, plan, prepared, client, gateway, file>>

VerifyFails(p) ==
    /\ ~(req[p].refs \subseteq verified[p])
    /\ Return(p, "verify", "close")
    /\ UNCHANGED <<req, ctx, phase, plan, verified, prepared, client, gateway, file>>

WillRun(p) == req[p].mode = "execute" /\ req[p].hasRun

VerifyDone(p) ==
    /\ req[p].refs \subseteq verified[p]
    /\ Step(p, "verify", IF WillRun(p) THEN "source" ELSE "reconcile")
    /\ SetPhase(p, "prepare")
    /\ UNCHANGED <<req, ctx, err, plan, verified, prepared, client, gateway, file>>

-----------------------------------------------------------------------------
(* buildRunRequest                                                         *)

\* cloneRepo: Cache.Prepare of SourceCache.  It takes no context.
PrepareSource(p) ==
    /\ Step(p, "source", "payloads")
    /\ staged' = [staged EXCEPT ![p] = @ \cup IF req[p].source THEN {"checkout"} ELSE {}]
    /\ UNCHANGED <<req, ctx, err, phase, plan, verified, commit, client, gateway, file>>

StagePayloads(p) ==
    /\ Step(p, "payloads", "outputs")
    /\ staged' = [staged EXCEPT ![p] = @ \cup IF req[p].content THEN {"content"} ELSE {}]
    /\ UNCHANGED <<req, ctx, err, phase, plan, verified, commit, client, gateway, file>>

\* The commit is recorded only once the whole request has been built.
PolicyAndOutputs(p) ==
    /\ Step(p, "outputs", "reconcile")
    /\ commit' = [commit EXCEPT ![p] = IF req[p].source THEN "known" ELSE "none"]
    /\ UNCHANGED <<req, ctx, err, phase, plan, verified, staged, client, gateway, file>>

\* fail: what has been prepared is removed before the error is returned.
BuildFails(p) ==
    /\ \/ Step(p, "source", "close")
       \/ Step(p, "payloads", "close")
       \/ Step(p, "outputs", "close")
    /\ AddError(p, "other")
    /\ staged' = [staged EXCEPT ![p] = {}]
    /\ UNCHANGED <<req, ctx, phase, plan, verified, commit, client, gateway, file>>

-----------------------------------------------------------------------------
(* The run                                                                 *)

\* --setup-only, or a workflow that declares no run, ends here.
NothingToRun(p) ==
    /\ ~WillRun(p)
    /\ Step(p, "reconcile", "close")
    /\ SetPhase(p, "reconcile")
    /\ UNCHANGED <<req, ctx, err, plan, verified, prepared, client, gateway, file>>

BeginRun(p) ==
    /\ WillRun(p)
    /\ Step(p, "reconcile", "execute")
    /\ SetPhase(p, "execute")
    /\ UNCHANGED <<req, ctx, err, plan, verified, prepared, client, gateway, file>>

\* The gateway may create the sandbox or not, whatever the reply will be.
SendCreate(p) ==
    /\ ctx[p] = "live"
    /\ Step(p, "execute", "creating")
    /\ sandbox' \in {sandbox, [sandbox EXCEPT ![p] = "up"]}
    /\ UNCHANGED <<req, ctx, err, phase, plan, verified, prepared, client, providers, file>>

CreateReturns(p) ==
    /\ sandbox[p] = "up"
    /\ Step(p, "creating", "running")
    /\ UNCHANGED <<req, ctx, err, phase, plan, verified, prepared, client, gateway, file>>

CreateFails(p) ==
    /\ Return(p, "creating", "cleanup") \/ Return(p, "execute", "cleanup")
    /\ UNCHANGED <<req, ctx, phase, plan, verified, prepared, client, gateway, file>>

\* Everything between the create and the delete, with any errors.
RunEnds(p) ==
    /\ Step(p, "running", IF req[p].keep THEN "cleanup" ELSE "deleting")
    /\ \/ UNCHANGED err
       \/ \E e \in Failures(p) : AddError(p, e)
    /\ UNCHANGED <<req, ctx, phase, plan, verified, prepared, client, gateway, file>>

DeleteSandbox(p) ==
    /\ Step(p, "deleting", "cleanup")
    /\ sandbox' = [sandbox EXCEPT ![p] = "deleted"]
    /\ UNCHANGED <<req, ctx, err, phase, plan, verified, prepared, client, providers, file>>

\* The cleanup context is never cancelled, but it has a deadline.
DeleteFails(p) ==
    /\ Step(p, "deleting", "cleanup")
    /\ \E e \in {"other", "deadline"} : AddError(p, e)
    /\ UNCHANGED <<req, ctx, phase, plan, verified, prepared, client, gateway, file>>

-----------------------------------------------------------------------------
(* The deferred calls                                                      *)

CleanUp(p) ==
    /\ Step(p, "cleanup", "close")
    /\ staged' = [staged EXCEPT ![p] = {}]
    /\ UNCHANGED <<req, ctx, err, phase, plan, verified, commit, client, gateway, file>>

CloseClient(p) ==
    /\ Step(p, "close", "finish")
    /\ client' = [client EXCEPT ![p] = IF @ = "open" THEN "closed" ELSE @]
    /\ UNCHANGED <<req, ctx, err, phase, plan, verified, prepared, gateway, file>>

Status(p) ==
    CASE err[p] = {} -> "succeeded"
      [] "deadline" \in err[p] -> "timed_out"
      [] /\ err[p] # {} /\ "deadline" \notin err[p]
         /\ "canceled" \in err[p] \/ ctx[p] = "cancelled" -> "cancelled"
      [] OTHER -> "failed"

Result(p) == [by |-> p, status |-> Status(p), commit |-> commit[p],
              phase |-> IF err[p] = {} THEN "complete" ELSE phase[p]]

NoFinish(p) ==
    /\ ~req[p].result
    /\ Step(p, "finish", "exited")
    /\ UNCHANGED <<req, ctx, err, phase, plan, verified, prepared, client, gateway, file>>

Finish(p) ==
    /\ req[p].result
    /\ Step(p, "finish", "exited")
    /\ file' = Result(p)
    /\ UNCHANGED <<req, ctx, err, phase, plan, verified, prepared, client, gateway>>

\* The encoder fails half way, or Close fails after it.
FinishFails(p) ==
    /\ req[p].result
    /\ Step(p, "finish", "exited")
    /\ AddError(p, "write")
    /\ file' \in {Result(p), [Result(p) EXCEPT !.status = "torn"]}
    /\ UNCHANGED <<req, ctx, phase, plan, verified, prepared, client, gateway>>

-----------------------------------------------------------------------------
(* The environment                                                         *)

Signal(p) ==
    /\ pc[p] \notin Ended
    /\ ctx[p] = "live"
    /\ ctx' = [ctx EXCEPT ![p] = "cancelled"]
    /\ UNCHANGED <<pc, req, err, phase, plan, verified, prepared, client, gateway, file>>

Kill(p) ==
    /\ pc[p] \notin Ended
    /\ Goto(p, "killed")
    /\ UNCHANGED <<req, ctx, err, phase, plan, verified, prepared, client, gateway, file>>

\* Providers are managed by others: the plan's snapshot may be stale.
ChangeProviders ==
    /\ providers' \in SUBSET Providers
    /\ UNCHANGED <<pc, req, ctx, err, phase, plan, verified, prepared, client, sandbox, file>>

-----------------------------------------------------------------------------
Begin(p) == \/ RejectFlags(p) \/ StartApplyResult(p) \/ StartApplyResultFails(p)
            \/ NoResultFile(p) \/ LoadWorkflow(p) \/ LoadFails(p) \/ RenderWorkflow(p)
ConnectAndPlan(p) == \/ Connect(p) \/ ConnectFails(p) \/ PlanOffline(p)
                     \/ ReadCurrentState(p) \/ ReadStateFails(p)
Preflight(p) == \/ RenderPlan(p) \/ PreflightPlan(p) \/ PreflightFails(p)
                \/ VerifyFails(p) \/ VerifyDone(p)
                \/ \E ref \in Providers : VerifyProvider(p, ref)
BuildRunRequest(p) == \/ PrepareSource(p) \/ StagePayloads(p) \/ PolicyAndOutputs(p)
                      \/ BuildFails(p)
Execute(p) == \/ NothingToRun(p) \/ BeginRun(p) \/ SendCreate(p) \/ CreateReturns(p)
              \/ CreateFails(p) \/ RunEnds(p) \/ DeleteSandbox(p) \/ DeleteFails(p)
Deferred(p) == CleanUp(p) \/ CloseClient(p) \/ NoFinish(p) \/ Finish(p) \/ FinishFails(p)

CommandStep(p) == \/ Begin(p) \/ ConnectAndPlan(p) \/ Preflight(p)
                  \/ BuildRunRequest(p) \/ Execute(p) \/ Deferred(p)

Next ==
    \/ \E p \in Procs : CommandStep(p) \/ Signal(p) \/ Kill(p)
    \/ ChangeProviders

Spec == Init /\ [][Next]_vars

-----------------------------------------------------------------------------
(* Properties                                                              *)

\* What the result file says of a command is what happened: "succeeded"
\* exactly when nothing but the writing of the file itself went wrong, the
\* deferred delete and cleanups included; "cancelled" only after a signal; and
\* a signalled command that failed is never reported as plainly "failed".
ResultTruthful ==
    file.by \in Procs /\ file.status \in Statuses =>
        LET p == file.by IN
        /\ pc[p] = "exited"
        /\ file.status = "succeeded" <=> err[p] \subseteq {"write"}
        /\ file.status = "cancelled" => ctx[p] = "cancelled"
        /\ file.status = "failed" => ctx[p] = "live"

\* A command that claimed the result file never ends by itself without having
\* written to it, and exit code 0 means that the file is complete and names
\* the commit the run was given.
ResultWritten ==
    \A p \in Procs : pc[p] = "exited" /\ req[p].result =>
        /\ file.by = p => file.status # "empty"
        /\ err[p] = {} =>
              file = [by |-> p, status |-> "succeeded", phase |-> "complete",
                      commit |-> IF req[p].source THEN "known" ELSE "none"]

\* "Refuse overwrites and symlinks before making any gateway mutations"
\* (apply_result.go:33): a command with a result file that has touched a
\* sandbox owns the file, even when another command names the same path.
ClaimBeforeMutation ==
    \A p \in Procs : sandbox[p] # "none" /\ req[p].result => file.by = p

\* A sandbox is only ever asked for by an executing command with a run, after
\* every provider it references was seen both when the plan was made and
\* afterwards; dry runs and --setup-only never touch a sandbox.
OnlyCheckedRuns ==
    \A p \in Procs : sandbox[p] # "none" =>
        /\ req[p].mode = "execute" /\ req[p].hasRun /\ ~req[p].inference
        /\ req[p].refs \subseteq snapshot[p] \cap verified[p]

\* However a command ends, unless killed, nothing it prepared on the host is
\* left, its client is closed, and an exit code 0 means its sandbox is gone or
\* kept by request.
ExitsClean ==
    \A p \in Procs : pc[p] = "exited" =>
        /\ staged[p] = {}
        /\ client[p] # "open"
        /\ err[p] = {} /\ sandbox[p] = "up" => req[p].keep
=============================================================================
