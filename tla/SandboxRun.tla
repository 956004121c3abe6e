----------------------------- MODULE SandboxRun -----------------------------
(***************************************************************************)
(* The sandbox lifecycle of runner/internal/run/runner.go (Run): several   *)
(* harness processes, each executing one workflow run against one gateway  *)
(* that keys sandboxes by name.  A run creates its sandbox, waits for it,  *)
(* uploads, executes the agent, downloads the outputs and, in a deferred   *)
(* call, deletes the sandbox.                                              *)
(*                                                                         *)
(* The create and delete calls are modelled as a request, its effect at    *)
(* the gateway and its reply, since a caller that stops waiting (a lost    *)
(* reply, a cancelled or expired context) leaves the request behind.  A    *)
(* run may be cancelled by a signal (main.go), or killed, at any point.    *)
(***************************************************************************)
EXTENDS Integers

CONSTANTS
    Runs,            \* harness processes
    Names,           \* sandbox names of the gateway workspace
    NameOf,          \* the sandbox name of each run
    NoRun,           \* the owner of a name that is free
    KeepRuns,        \* runs with sandbox.keep
    AgentRuns,       \* runs with an agent command
    NumUploads,      \* len(req.Uploads)
    NumDownloads,    \* len(req.Downloads)
    Required         \* the downloads that are required

ASSUME RunsAssumption ==
    /\ NoRun \notin Runs
    /\ NameOf \in [Runs -> Names]
    /\ KeepRuns \subseteq Runs
    /\ AgentRuns \subseteq Runs
    /\ NumUploads \in Nat
    /\ NumDownloads \in Nat
    /\ Required \subseteq 1..NumDownloads

VARIABLES
    pc,        \* pc[r]: where run r is in Run
    ctx,       \* ctx[r]: "live", or "cancelled" once a signal has arrived
    item,      \* item[r]: the upload or download run r is about to do
    runErr,    \* runErr[r]: the parts of the error Run will return
    dlCtx,     \* dlCtx[r]: "run", or "own" when the downloads have their own context
    got,       \* got[r]: the downloads installed on the host
    ranIn,     \* ranIn[r]: whose sandbox the agent command ran in
    rpc,       \* rpc[r]: the state at the gateway of r's create or delete
    owner      \* owner[n]: the run that created the sandbox named n

vars == <<pc, ctx, item, runErr, dlCtx, got, ranIn, rpc, owner>>

Steps == {"start", "creating", "waiting", "uploading", "agent", "collect",
          "downloading", "cleanup", "deleting", "returned", "killed"}
Ended == {"returned", "killed"}
ErrorParts == {"create", "wait", "upload", "agent", "download", "delete"}
RpcStates == {"idle", "creating", "created", "refused",
              "deleting", "deleted", "missing"}

TypeOK ==
    /\ pc \in [Runs -> Steps]
    /\ ctx \in [Runs -> {"live", "cancelled"}]
    /\ item \in [Runs -> Nat \ {0}]
    /\ runErr \in [Runs -> SUBSET ErrorParts]
    /\ dlCtx \in [Runs -> {"run", "own"}]
    /\ got \in [Runs -> SUBSET (1..NumDownloads)]
    /\ ranIn \in [Runs -> Runs \cup {NoRun}]
    /\ rpc \in [Runs -> RpcStates]
    /\ owner \in [Names -> Runs \cup {NoRun}]

Init ==
    /\ pc = [r \in Runs |-> "start"]
    /\ ctx = [r \in Runs |-> "live"]
    /\ item = [r \in Runs |-> 1]
    /\ runErr = [r \in Runs |-> {}]
    /\ dlCtx = [r \in Runs |-> "run"]
    /\ got = [r \in Runs |-> {}]
    /\ ranIn = [r \in Runs |-> NoRun]
    /\ rpc = [r \in Runs |-> "idle"]
    /\ owner = [n \in Names |-> NoRun]

\* Whether a call that names r's sandbox finds one, whoever created it.
Exists(r) == owner[NameOf[r]] # NoRun

Goto(r, step) == pc' = [pc EXCEPT ![r] = step]
AddError(r, part) == runErr' = [runErr EXCEPT ![r] = @ \cup {part}]

NextDownload(r) == item' = [item EXCEPT ![r] = @ + 1]

-----------------------------------------------------------------------------
(* Changed forms of actions below: bugs the properties must tell from them *)

\* An "already exists" answer is taken for success.
Bug_CreateReturns(r) ==
    /\ pc[r] = "creating"
    /\ rpc[r] \in {"created", "refused"}
    /\ Goto(r, "waiting")
    /\ rpc' = [rpc EXCEPT ![r] = "idle"]
    /\ UNCHANGED <<ctx, item, runErr, dlCtx, got, ranIn, owner>>

\* The delete is deferred before the error of CreateSandbox is looked at.
Bug_CreateFails(r) ==
    /\ pc[r] = "creating"
    /\ rpc[r] = "refused"
    /\ Goto(r, "cleanup")
    /\ AddError(r, "create")
    /\ UNCHANGED <<ctx, item, dlCtx, got, ranIn, rpc, owner>>

\* The delete is deferred only after WaitSandboxReady.
Bug_WaitFails(r) ==
    /\ pc[r] = "waiting"
    /\ Goto(r, "returned")
    /\ AddError(r, "wait")
    /\ UNCHANGED <<ctx, item, dlCtx, got, ranIn, rpc, owner>>

\* A missing output is skipped whether or not it is required.
Bug_DownloadMissing(r) ==
    /\ pc[r] = "downloading"
    /\ item[r] <= NumDownloads
    /\ Exists(r)
    /\ NextDownload(r)
    /\ UNCHANGED <<pc, ctx, runErr, dlCtx, got, ranIn, rpc, owner>>

\* The first failed download ends the collection.
Bug_DownloadFails(r) ==
    /\ pc[r] = "downloading"
    /\ item[r] <= NumDownloads
    /\ Goto(r, "cleanup")
    /\ AddError(r, "download")
    /\ UNCHANGED <<ctx, item, dlCtx, got, ranIn, rpc, owner>>

\* The delete request is sent and its reply not waited for.
Bug_DeleteReturns(r) ==
    /\ pc[r] = "deleting"
    /\ Goto(r, "returned")
    /\ UNCHANGED <<ctx, item, runErr, dlCtx, got, ranIn, rpc, owner>>

\* The cleanup context has no timeout: only the gateway's answer ends it.
Bug_DeleteFails(r) ==
    /\ pc[r] = "deleting"
    /\ rpc[r] = "missing"
    /\ Goto(r, "returned")
    /\ AddError(r, "delete")
    /\ UNCHANGED <<ctx, item, dlCtx, got, ranIn, rpc, owner>>

-----------------------------------------------------------------------------
(* CreateSandbox                                                           *)

\* The request leaves for the gateway.
CreateSandbox(r) ==
    /\ pc[r] = "start"
    /\ Goto(r, "creating")
    /\ rpc' = [rpc EXCEPT ![r] = "creating"]
    /\ UNCHANGED <<ctx, item, runErr, dlCtx, got, ranIn, owner>>

\* The policy does not decode, or the call fails before anything is sent.
CreateNotSent(r) ==
    /\ pc[r] = "start"
    /\ Goto(r, "returned")
    /\ AddError(r, "create")
    /\ UNCHANGED <<ctx, item, dlCtx, got, ranIn, rpc, owner>>

\* The gateway executes the request, whether or not r still waits for it: it
\* creates the sandbox if the name is free, or refuses.
GatewayCreate(r) ==
    /\ rpc[r] = "creating"
    /\ \/ /\ ~Exists(r)
          /\ owner' = [owner EXCEPT ![NameOf[r]] = r]
          /\ rpc' = [rpc EXCEPT ![r] = "created"]
       \/ /\ rpc' = [rpc EXCEPT ![r] = "refused"]
          /\ UNCHANGED owner
    /\ UNCHANGED <<pc, ctx, item, runErr, dlCtx, got, ranIn>>

CreateReturns(r) ==
    /\ pc[r] = "creating"
    /\ rpc[r] = "created"
    /\ Goto(r, "waiting")
    /\ rpc' = [rpc EXCEPT ![r] = "idle"]
    /\ UNCHANGED <<ctx, item, runErr, dlCtx, got, ranIn, owner>>

\* The gateway refused, or the reply is lost, or ctx is cancelled.  Run
\* returns before it has registered the deferred delete.
CreateFails(r) ==
    /\ pc[r] = "creating"
    /\ Goto(r, "returned")
    /\ AddError(r, "create")
    /\ UNCHANGED <<ctx, item, dlCtx, got, ranIn, rpc, owner>>

-----------------------------------------------------------------------------
(* WaitSandboxReady, UploadPath, and the agent command                     *)

WaitSandboxReady(r) ==
    /\ pc[r] = "waiting"
    /\ Exists(r)
    /\ Goto(r, "uploading")
    /\ item' = [item EXCEPT ![r] = 1]
    /\ UNCHANGED <<ctx, runErr, dlCtx, got, ranIn, rpc, owner>>

WaitFails(r) ==
    /\ pc[r] = "waiting"
    /\ Goto(r, "cleanup")
    /\ AddError(r, "wait")
    /\ UNCHANGED <<ctx, item, dlCtx, got, ranIn, rpc, owner>>

UploadPath(r) ==
    /\ pc[r] = "uploading"
    /\ item[r] <= NumUploads
    /\ Exists(r)
    /\ item' = [item EXCEPT ![r] = @ + 1]
    /\ UNCHANGED <<pc, ctx, runErr, dlCtx, got, ranIn, rpc, owner>>

\* The first failed upload ends the run: no agent command, no downloads.
UploadFails(r) ==
    /\ pc[r] = "uploading"
    /\ item[r] <= NumUploads
    /\ Goto(r, "cleanup")
    /\ AddError(r, "upload")
    /\ UNCHANGED <<ctx, item, dlCtx, got, ranIn, rpc, owner>>

UploadsDone(r) ==
    /\ pc[r] = "uploading"
    /\ item[r] > NumUploads
    /\ Goto(r, IF r \in AgentRuns THEN "agent" ELSE "collect")
    /\ UNCHANGED <<ctx, item, runErr, dlCtx, got, ranIn, rpc, owner>>

\* The command runs to its end, with status 0 or another one.
ExecSandbox(r) ==
    /\ pc[r] = "agent"
    /\ Exists(r)
    /\ ranIn' = [ranIn EXCEPT ![r] = owner[NameOf[r]]]
    /\ Goto(r, "collect")
    /\ \/ UNCHANGED runErr
       \/ AddError(r, "agent")
    /\ UNCHANGED <<ctx, item, dlCtx, got, rpc, owner>>

\* The command does not start, or the stream to it breaks while it runs.
ExecFails(r) ==
    /\ pc[r] = "agent"
    /\ ranIn' = [ranIn EXCEPT ![r] = owner[NameOf[r]]]
    /\ Goto(r, "collect")
    /\ AddError(r, "agent")
    /\ UNCHANGED <<ctx, item, dlCtx, got, rpc, owner>>

-----------------------------------------------------------------------------
(* DownloadPath, for every output                                          *)

\* The context of all the downloads is chosen once, before the first.
CollectOutputs(r) ==
    /\ pc[r] = "collect"
    /\ IF NumDownloads = 0
         THEN /\ Goto(r, "cleanup")
              /\ UNCHANGED <<item, dlCtx>>
         ELSE /\ Goto(r, "downloading")
              /\ item' = [item EXCEPT ![r] = 1]
              /\ dlCtx' = [dlCtx EXCEPT ![r] =
                    IF runErr[r] # {} \/ ctx[r] = "cancelled" THEN "own" ELSE "run"]
    /\ UNCHANGED <<ctx, runErr, got, ranIn, rpc, owner>>

DownloadPath(r) ==
    /\ pc[r] = "downloading"
    /\ item[r] <= NumDownloads
    /\ Exists(r)
    /\ got' = [got EXCEPT ![r] = @ \cup {item[r]}]
    /\ NextDownload(r)
    /\ UNCHANGED <<pc, ctx, runErr, dlCtx, ranIn, rpc, owner>>

\* The path is missing in the sandbox: skipped when the output is optional.
DownloadMissing(r) ==
    /\ pc[r] = "downloading"
    /\ item[r] <= NumDownloads
    /\ Exists(r)
    /\ NextDownload(r)
    /\ IF item[r] \in Required
         THEN AddError(r, "download")
         ELSE UNCHANGED runErr
    /\ UNCHANGED <<pc, ctx, dlCtx, got, ranIn, rpc, owner>>

\* Any other failure is joined to the error, and the next download goes on.
DownloadFails(r) ==
    /\ pc[r] = "downloading"
    /\ item[r] <= NumDownloads
    /\ NextDownload(r)
    /\ AddError(r, "download")
    /\ UNCHANGED <<pc, ctx, dlCtx, got, ranIn, rpc, owner>>

DownloadsDone(r) ==
    /\ pc[r] = "downloading"
    /\ item[r] > NumDownloads
    /\ Goto(r, "cleanup")
    /\ UNCHANGED <<ctx, item, runErr, dlCtx, got, ranIn, rpc, owner>>

-----------------------------------------------------------------------------
(* The deferred DeleteSandbox, on a context of its own                     *)

KeepSandbox(r) ==
    /\ pc[r] = "cleanup"
    /\ r \in KeepRuns
    /\ Goto(r, "returned")
    /\ UNCHANGED <<ctx, item, runErr, dlCtx, got, ranIn, rpc, owner>>

DeleteSandbox(r) ==
    /\ pc[r] = "cleanup"
    /\ r \notin KeepRuns
    /\ Goto(r, "deleting")
    /\ rpc' = [rpc EXCEPT ![r] = "deleting"]
    /\ UNCHANGED <<ctx, item, runErr, dlCtx, got, ranIn, owner>>

\* The call fails before anything is sent (it cannot be authenticated).
DeleteNotSent(r) ==
    /\ pc[r] = "cleanup"
    /\ r \notin KeepRuns
    /\ Goto(r, "returned")
    /\ AddError(r, "delete")
    /\ UNCHANGED <<ctx, item, dlCtx, got, ranIn, rpc, owner>>

\* The gateway deletes by name, whether or not r still waits.
GatewayDelete(r) ==
    /\ rpc[r] = "deleting"
    /\ rpc' = [rpc EXCEPT ![r] = IF Exists(r) THEN "deleted" ELSE "missing"]
    /\ owner' = [owner EXCEPT ![NameOf[r]] = NoRun]
    /\ UNCHANGED <<pc, ctx, item, runErr, dlCtx, got, ranIn>>

DeleteReturns(r) ==
    /\ pc[r] = "deleting"
    /\ rpc[r] = "deleted"
    /\ Goto(r, "returned")
    /\ UNCHANGED <<ctx, item, runErr, dlCtx, got, ranIn, rpc, owner>>

\* Not found, a transport failure, or the two minutes have passed.
DeleteFails(r) ==
    /\ pc[r] = "deleting"
    /\ Goto(r, "returned")
    /\ AddError(r, "delete")
    /\ UNCHANGED <<ctx, item, dlCtx, got, ranIn, rpc, owner>>

-----------------------------------------------------------------------------
(* The environment                                                         *)

\* SIGINT or SIGTERM; a later signal finds the context already cancelled.
Signal(r) ==
    /\ pc[r] \notin Ended
    /\ ctx[r] = "live"
    /\ ctx' = [ctx EXCEPT ![r] = "cancelled"]
    /\ UNCHANGED <<pc, item, runErr, dlCtx, got, ranIn, rpc, owner>>

\* SIGKILL, as sent by timeout -k when the grace period is over.
Kill(r) ==
    /\ pc[r] \notin Ended
    /\ Goto(r, "killed")
    /\ UNCHANGED <<ctx, item, runErr, dlCtx, got, ranIn, rpc, owner>>

\* Somebody deletes a sandbox by name, outside any run.
ExternalDelete(n) ==
    /\ owner[n] # NoRun
    /\ owner' = [owner EXCEPT ![n] = NoRun]
    /\ UNCHANGED <<pc, ctx, item, runErr, dlCtx, got, ranIn, rpc>>

-----------------------------------------------------------------------------
Create(r) == CreateSandbox(r) \/ CreateNotSent(r) \/ CreateReturns(r) \/ CreateFails(r)
Prepare(r) == \/ WaitSandboxReady(r) \/ WaitFails(r)
              \/ UploadPath(r) \/ UploadFails(r) \/ UploadsDone(r)
Agent(r) == ExecSandbox(r) \/ ExecFails(r)
Collect(r) == \/ CollectOutputs(r) \/ DownloadPath(r) \/ DownloadMissing(r)
              \/ DownloadFails(r) \/ DownloadsDone(r)
Cleanup(r) == \/ KeepSandbox(r) \/ DeleteSandbox(r) \/ DeleteNotSent(r)
              \/ DeleteReturns(r) \/ DeleteFails(r)

RunStep(r) == Create(r) \/ Prepare(r) \/ Agent(r) \/ Collect(r) \/ Cleanup(r)
GatewayStep(r) == GatewayCreate(r) \/ GatewayDelete(r)

Next == \E r \in Runs : RunStep(r) \/ GatewayStep(r) \/ Signal(r) \/ Kill(r)

Spec == Init /\ [][Next]_vars

\* The same runs, on a gateway where somebody else deletes sandboxes too.
OpenNext == Next \/ \E n \in Names : ExternalDelete(n)

OpenSpec == Init /\ [][OpenNext]_vars

\* A call on a cancelled context, and a call on a cleanup context, which has
\* two minutes, returns: the run moves on.  Nothing bounds a call on a live
\* context, and nothing makes the gateway answer.
Bounded(r) == \/ ctx[r] = "cancelled"
              \/ dlCtx[r] = "own"
              \/ pc[r] \in {"cleanup", "deleting"}

-----------------------------------------------------------------------------
(* Properties                                                              *)

\* A run that has returned leaves its sandbox on the gateway only when the
\* workflow keeps it, when creating it was reported as failed (the reply was
\* lost) or when deleting it was reported as failed.  This is the deferred
\* delete of runner.go: no early return of Run escapes it.
OnlyReportedLeaks ==
    \A r \in Runs :
        pc[r] = "returned" /\ owner[NameOf[r]] = r
            => r \in KeepRuns \/ runErr[r] \cap {"create", "delete"} # {}

\* The agent command only ever runs in the sandbox its own run created, even
\* when two runs ask for the same name.
AgentInOwnSandbox == \A r \in Runs : ranIn[r] \in {NoRun, r}

\* Run returns nil only if the agent command has run, every required output is
\* on the host, and the sandbox is gone unless kept.
SuccessIsComplete ==
    \A r \in Runs :
        pc[r] = "returned" /\ runErr[r] = {} =>
            /\ r \in AgentRuns => ranIn[r] # NoRun
            /\ Required \subseteq got[r]
            /\ owner[NameOf[r]] = r => r \in KeepRuns

\* A sandbox disappears only by the delete of the run that created it: a run
\* that lost the race for a name never deletes the winner's sandbox.
DeletesOnlyOwn ==
    [][\A n \in Names : owner[n] # NoRun /\ owner'[n] # owner[n]
           => owner'[n] = NoRun /\ rpc[owner[n]] = "deleting"]_vars

\* "Downloads happen before the sandbox cleanup step, including when the
\* agent fails" (docs/workflow-format.md): once the agent ran, the run asks
\* for the deletion only after it has tried every output.
OutputsBeforeDelete ==
    [][\A r \in Runs :
         rpc[r] # "deleting" /\ rpc'[r] = "deleting" /\ ranIn[r] # NoRun
            => NumDownloads = 0 \/ item[r] = NumDownloads + 1]_vars

\* A signal ends the run: whatever it was doing, a cancelled run returns (or
\* is killed), with the gateway answering or not.
CancelledRunEnds ==
    \A r \in Runs : ctx[r] = "cancelled" ~> pc[r] \in Ended

-----------------------------------------------------------------------------
(* The promise this implements                                             *)

OutcomeOf(r) ==
    CASE pc[r] = "killed" -> "killed"
      [] pc[r] = "returned" /\ runErr[r] = {} -> "succeeded"
      [] pc[r] = "returned" /\ runErr[r] # {} -> "failed"
      [] OTHER -> "pending"

Lease == INSTANCE SandboxLease
            WITH lease <- owner, outcome <- [r \in Runs |-> OutcomeOf(r)]

\* Run implements SandboxLease when nobody else deletes sandboxes.
ImplementsLease == Lease!LeaseSpec
=============================================================================
