---------------------------- MODULE SandboxLease ----------------------------
(***************************************************************************)
(* What a sandbox run promises, without saying how: a run acquires the     *)
(* lease on its sandbox name only while nobody holds it, gives back its    *)
(* own lease and nobody else's, and reports success only after it has      *)
(* given the lease back (or was told to keep the sandbox).  A run that     *)
(* fails, or is killed, may leave its lease behind.                        *)
(*                                                                         *)
(* SandboxRun, the translation of runner/internal/run/runner.go, is shown  *)
(* to implement this specification.                                        *)
(***************************************************************************)
CONSTANTS Runs,     \* the harness processes
          Names,    \* sandbox names in the gateway workspace
          NameOf,   \* the name a run asks for
          KeepRuns, \* the runs whose workflow sets sandbox.keep
          NoRun     \* nobody holds the lease

VARIABLES lease,    \* lease[n] is the run whose sandbox is named n, or NoRun
          outcome   \* outcome[r]: "pending", "succeeded", "failed" or "killed"

leaseVars == <<lease, outcome>>

LeaseInit ==
    /\ lease = [n \in Names |-> NoRun]
    /\ outcome = [r \in Runs |-> "pending"]

\* The gateway creates the sandbox.  The creation may take effect after the
\* run that asked for it has given up, but never after it has succeeded.
Acquire(r) ==
    /\ lease[NameOf[r]] = NoRun
    /\ outcome[r] # "succeeded"
    /\ lease' = [lease EXCEPT ![NameOf[r]] = r]
    /\ UNCHANGED outcome

\* The gateway deletes the sandbox of a run that was not told to keep it.
Release(r) ==
    /\ r \notin KeepRuns
    /\ lease[NameOf[r]] = r
    /\ lease' = [lease EXCEPT ![NameOf[r]] = NoRun]
    /\ UNCHANGED outcome

Succeed(r) ==
    /\ outcome[r] = "pending"
    /\ (lease[NameOf[r]] = r) <=> (r \in KeepRuns)
    /\ outcome' = [outcome EXCEPT ![r] = "succeeded"]
    /\ UNCHANGED lease

Fail(r) ==
    /\ outcome[r] = "pending"
    /\ outcome' = [outcome EXCEPT ![r] = "failed"]
    /\ UNCHANGED lease

Die(r) ==
    /\ outcome[r] = "pending"
    /\ outcome' = [outcome EXCEPT ![r] = "killed"]
    /\ UNCHANGED lease

LeaseNext ==
    \E r \in Runs : Acquire(r) \/ Release(r) \/ Succeed(r) \/ Fail(r) \/ Die(r)

LeaseSpec == LeaseInit /\ [][LeaseNext]_leaseVars
=============================================================================
