------------------------------ MODULE DirectRun ------------------------------
(***************************************************************************)
(* Sandbox runs over a direct connection (sdkclient/direct.go): before the *)
(* first call New asks the OIDC issuer for its metadata and for a token,   *)
(* and every later call to the gateway carries that token, or one that     *)
(* replaces it once it has expired.                                        *)
(*                                                                         *)
(* The token source keeps the context New was called with, the command's   *)
(* signal context (main.go), and not the context of the call that needs    *)
(* the token: after a signal no token can be had any more, not even for    *)
(* the deferred delete, whose own context is alive.                        *)
(*                                                                         *)
(* The steps of Run are those of SandboxRun.  A step for which the gateway *)
(* has to accept a call also needs a token; the failures of SandboxRun are *)
(* possible with and without one.  A run over a direct connection is hence *)
(* a run of SandboxRun by construction, and what SandboxRun promises is    *)
(* checked here; what is new is the delete that is never sent.             *)
(***************************************************************************)
EXTENDS SandboxRun

CONSTANT IssuerFails   \* whether the issuer may refuse to renew a token

ASSUME DirectAssumption == IssuerFails \in BOOLEAN

VARIABLES
    stage,  \* stage[r]: how far New has come
    token   \* token[r]: the token that r's token source holds

directVars == <<pc, ctx, item, runErr, dlCtx, got, ranIn, rpc, owner, stage, token>>

Stages == {"connecting", "discovered", "connected"}
Tokens == {"none", "fresh", "expired"}

DirectTypeOK ==
    /\ TypeOK
    /\ stage \in [Runs -> Stages]
    /\ token \in [Runs -> Tokens]

DirectInit ==
    /\ Init
    /\ stage = [r \in Runs |-> "connecting"]
    /\ token = [r \in Runs |-> "none"]

-----------------------------------------------------------------------------
(* New: discovery and the initial token                                    *)

\* The issuer publishes its own name and an HTTPS token endpoint.
Discover(r) ==
    /\ pc[r] = "start"
    /\ stage[r] = "connecting"
    /\ ctx[r] = "live"
    /\ stage' = [stage EXCEPT ![r] = "discovered"]
    /\ UNCHANGED <<vars, token>>

RequestToken(r) ==
    /\ pc[r] = "start"
    /\ stage[r] = "discovered"
    /\ ctx[r] = "live"
    /\ stage' = [stage EXCEPT ![r] = "connected"]
    /\ token' = [token EXCEPT ![r] = "fresh"]
    /\ UNCHANGED vars

\* An endpoint that is not HTTPS, a missing secret, client or audience, the
\* metadata of another issuer, an issuer that refuses, a cancelled context.
ConnectFails(r) ==
    /\ stage[r] # "connected"
    /\ CreateNotSent(r)
    /\ UNCHANGED <<stage, token>>

-----------------------------------------------------------------------------
(* The token of a call                                                     *)

\* A changed form: the first token is used to the end of the run.
Bug_CannotAuthenticate(r) == token[r] = "expired"

\* ReuseTokenSource renews an expired token on the context of New.
CannotAuthenticate(r) ==
    /\ token[r] = "expired"
    /\ ctx[r] = "cancelled" \/ IssuerFails

Authenticate(r) ==
    \/ /\ token[r] = "fresh"
       /\ UNCHANGED token
    \/ /\ token[r] = "expired"
       /\ ctx[r] = "live"
       /\ token' = [token EXCEPT ![r] = "fresh"]

TokenExpires(r) ==
    /\ token[r] = "fresh"
    /\ pc[r] \notin Ended
    /\ token' = [token EXCEPT ![r] = "expired"]
    /\ UNCHANGED <<vars, stage>>

\* The deferred delete without a token: nothing is sent, the error is joined.
CleanupNotAuthenticated(r) ==
    /\ CannotAuthenticate(r)
    /\ DeleteNotSent(r)
    /\ UNCHANGED <<stage, token>>

-----------------------------------------------------------------------------
\* The steps in which the gateway accepts a call of r.
Call(r) ==
    \/ CreateSandbox(r) \/ WaitSandboxReady(r) \/ UploadPath(r) \/ ExecSandbox(r)
    \/ DownloadPath(r) \/ DownloadMissing(r) \/ DeleteSandbox(r)

AuthenticatedCall(r) ==
    /\ stage[r] = "connected"
    /\ Call(r)
    /\ Authenticate(r)
    /\ UNCHANGED stage

\* Failures, replies to calls made, and steps that make no call.
OtherStep(r) ==
    /\ stage[r] = "connected"
    /\ \/ CreateNotSent(r) \/ CreateReturns(r) \/ CreateFails(r)
       \/ WaitFails(r) \/ UploadFails(r) \/ UploadsDone(r) \/ ExecFails(r)
       \/ CollectOutputs(r) \/ DownloadFails(r) \/ DownloadsDone(r)
       \/ KeepSandbox(r) \/ DeleteReturns(r) \/ DeleteFails(r)
    /\ UNCHANGED <<stage, token>>

Connect(r) == Discover(r) \/ RequestToken(r) \/ ConnectFails(r)
DirectStep(r) ==
    Connect(r) \/ AuthenticatedCall(r) \/ CleanupNotAuthenticated(r) \/ OtherStep(r)

Environment ==
    /\ \E r \in Runs : GatewayStep(r) \/ Signal(r) \/ Kill(r)
    /\ UNCHANGED <<stage, token>>

DirectNext ==
    \/ \E r \in Runs : DirectStep(r) \/ TokenExpires(r)
    \/ Environment

DirectSpec == DirectInit /\ [][DirectNext]_directVars

\* The issuer is asked with a client that gives up after thirty seconds, so
\* that Bounded still says which steps come to an end.
FairDirectSpec ==
    DirectSpec /\ \A r \in Runs : WF_directVars(Bounded(r) /\ DirectStep(r))

-----------------------------------------------------------------------------
(* Properties                                                              *)

\* "The CLI owns sandbox execution and deletion, including normal
\* cancellation" (docs/ci.md): a run that is not kept and whose sandbox was
\* created asks the gateway to delete it before it returns.
CleanupReachesGateway ==
    \A r \in Runs :
        pc[r] = "returned" /\ r \notin KeepRuns /\ "create" \notin runErr[r]
            => rpc[r] # "idle"

\* What the code does keep of that: with an issuer that answers, only a signal
\* lets a run return without having asked for the deletion.  A token that
\* expires while the agent works is renewed in time for the delete.
OnlySignalCutsCleanup ==
    \A r \in Runs :
        pc[r] = "returned" /\ r \notin KeepRuns /\ "create" \notin runErr[r] /\ rpc[r] = "idle"
            => ctx[r] = "cancelled" \/ IssuerFails
=============================================================================
