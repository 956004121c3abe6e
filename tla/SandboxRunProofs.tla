-------------------------- MODULE SandboxRunProofs --------------------------
(***************************************************************************)
(* Proofs about SandboxRun and DirectRun, for any number of runs, names,   *)
(* uploads and downloads.  Everything rests on what the state of a run's   *)
(* last create or delete call says about who owns the name, and on which   *)
(* calls a run can have outstanding at each step.  One part of that,       *)
(* OpenInv, holds even when others delete sandboxes; the rest, IInv, when  *)
(* nobody does.  The steps of DirectRun are steps of SandboxRun, so that   *)
(* all of it holds over a direct connection too, whenever tokens expire    *)
(* and whatever the issuer answers.                                        *)
(***************************************************************************)
EXTENDS DirectRun, TLAPS

\* The steps at which a run holds its sandbox and has no call outstanding.
Holding == {"waiting", "uploading", "agent", "collect", "downloading", "cleanup"}

\* A sandbox bears the name its run asked for.
OwnersNamed == \A n \in Names : owner[n] # NoRun => NameOf[owner[n]] = n

\* The steps of r and the state of its last call agree.
CallsMatch ==
    \A r \in Runs :
        /\ pc[r] = "start" => rpc[r] = "idle"
        /\ pc[r] = "creating" => rpc[r] \in {"creating", "created", "refused"}
        /\ pc[r] \in Holding => rpc[r] = "idle"
        /\ pc[r] = "deleting" => rpc[r] \in {"deleting", "deleted", "missing"}
        /\ rpc[r] \in {"deleting", "deleted", "missing"} => r \notin KeepRuns
        /\ rpc[r] \in {"creating", "created", "refused"} =>
              pc[r] \in {"creating", "returned", "killed"}

\* When r cannot own its name.
Disowned ==
    \A r \in Runs :
        /\ pc[r] = "start" => owner[NameOf[r]] # r
        /\ rpc[r] \in {"creating", "refused", "deleted", "missing"} => owner[NameOf[r]] # r

\* When r owns it.
Owned ==
    \A r \in Runs :
        /\ pc[r] \in Holding => owner[NameOf[r]] = r
        /\ rpc[r] \in {"created", "deleting"} => owner[NameOf[r]] = r

\* How Run returned.
ReturnsExplained ==
    \A r \in Runs : pc[r] = "returned" =>
        \/ "create" \in runErr[r]
        \/ "delete" \in runErr[r] /\ rpc[r] \in {"idle", "deleting", "deleted", "missing"}
        \/ r \in KeepRuns /\ rpc[r] = "idle"
        \/ rpc[r] = "deleted"

Reported == CallsMatch /\ Disowned /\ ReturnsExplained
Holds == OwnersNamed /\ Owned /\ AgentInOwnSandbox

OpenInv == TypeOK /\ Reported
IInv == OpenInv /\ Holds

-----------------------------------------------------------------------------
LEMMA InitTypeOK == Init => TypeOK
BY RunsAssumption DEF Init, TypeOK, Steps, ErrorParts, RpcStates

\* Every step, external deletions included, keeps the types.
LEMMA NextTypeOK == TypeOK /\ [OpenNext]_vars => TypeOK'
<1> SUFFICES ASSUME TypeOK, [OpenNext]_vars
             PROVE  TypeOK'
  OBVIOUS
<1> USE RunsAssumption DEF TypeOK, Steps, ErrorParts, RpcStates, Goto, AddError, Exists
<1>1. ASSUME NEW r \in Runs, CreateSandbox(r)
      PROVE  TypeOK'
  BY <1>1 DEF CreateSandbox
<1>2. ASSUME NEW r \in Runs, CreateNotSent(r)
      PROVE  TypeOK'
  BY <1>2 DEF CreateNotSent
<1>3. ASSUME NEW r \in Runs, GatewayCreate(r)
      PROVE  TypeOK'
  BY <1>3 DEF GatewayCreate
<1>4. ASSUME NEW r \in Runs, CreateReturns(r)
      PROVE  TypeOK'
  BY <1>4 DEF CreateReturns
<1>5. ASSUME NEW r \in Runs, CreateFails(r)
      PROVE  TypeOK'
  BY <1>5 DEF CreateFails
<1>6. ASSUME NEW r \in Runs, WaitSandboxReady(r)
      PROVE  TypeOK'
  BY <1>6 DEF WaitSandboxReady
<1>7. ASSUME NEW r \in Runs, WaitFails(r)
      PROVE  TypeOK'
  BY <1>7 DEF WaitFails
<1>8. ASSUME NEW r \in Runs, UploadPath(r)
      PROVE  TypeOK'
  BY <1>8 DEF UploadPath
<1>9. ASSUME NEW r \in Runs, UploadFails(r)
      PROVE  TypeOK'
  BY <1>9 DEF UploadFails
<1>10. ASSUME NEW r \in Runs, UploadsDone(r)
      PROVE  TypeOK'
  BY <1>10 DEF UploadsDone
<1>11. ASSUME NEW r \in Runs, ExecSandbox(r)
      PROVE  TypeOK'
  BY <1>11 DEF ExecSandbox
<1>12. ASSUME NEW r \in Runs, ExecFails(r)
      PROVE  TypeOK'
  BY <1>12 DEF ExecFails
<1>13. ASSUME NEW r \in Runs, CollectOutputs(r)
      PROVE  TypeOK'
  BY <1>13 DEF CollectOutputs
<1>14. ASSUME NEW r \in Runs, DownloadPath(r)
      PROVE  TypeOK'
  BY <1>14 DEF DownloadPath, NextDownload
<1>15. ASSUME NEW r \in Runs, DownloadMissing(r)
      PROVE  TypeOK'
  BY <1>15 DEF DownloadMissing, NextDownload
<1>16. ASSUME NEW r \in Runs, DownloadFails(r)
      PROVE  TypeOK'
  BY <1>16 DEF DownloadFails, NextDownload
<1>17. ASSUME NEW r \in Runs, DownloadsDone(r)
      PROVE  TypeOK'
  BY <1>17 DEF DownloadsDone
<1>18. ASSUME NEW r \in Runs, KeepSandbox(r)
      PROVE  TypeOK'
  BY <1>18 DEF KeepSandbox
<1>19. ASSUME NEW r \in Runs, DeleteSandbox(r)
      PROVE  TypeOK'
  BY <1>19 DEF DeleteSandbox
<1>20. ASSUME NEW r \in Runs, GatewayDelete(r)
      PROVE  TypeOK'
  BY <1>20 DEF GatewayDelete
<1>21. ASSUME NEW r \in Runs, DeleteReturns(r)
      PROVE  TypeOK'
  BY <1>21 DEF DeleteReturns
<1>22. ASSUME NEW r \in Runs, DeleteNotSent(r)
      PROVE  TypeOK'
  BY <1>22 DEF DeleteNotSent
<1>23. ASSUME NEW r \in Runs, DeleteFails(r)
      PROVE  TypeOK'
  BY <1>23 DEF DeleteFails
<1>24. ASSUME NEW r \in Runs, Signal(r)
      PROVE  TypeOK'
  BY <1>24 DEF Signal
<1>25. ASSUME NEW r \in Runs, Kill(r)
      PROVE  TypeOK'
  BY <1>25 DEF Kill
<1>26. ASSUME NEW n \in Names, ExternalDelete(n)
      PROVE  TypeOK'
  BY <1>26 DEF ExternalDelete
<1>27. CASE UNCHANGED vars
  BY <1>27 DEF vars
<1>28. QED
  BY <1>1, <1>2, <1>3, <1>4, <1>5, <1>6, <1>7, <1>8, <1>9, <1>10, <1>11, <1>12,
     <1>13, <1>14, <1>15, <1>16, <1>17, <1>18, <1>19, <1>20, <1>21, <1>22, <1>23, <1>24,
     <1>25, <1>26, <1>27
     DEF OpenNext, Next, RunStep, GatewayStep, Create, Prepare, Agent, Collect, Cleanup

\* The state always has its types.
THEOREM TypeCorrect == Spec => []TypeOK
<1>1. [Next]_vars => [OpenNext]_vars
  BY DEF OpenNext
<1>2. QED
  BY <1>1, InitTypeOK, NextTypeOK, PTL DEF Spec

-----------------------------------------------------------------------------
LEMMA InitIInv == Init => IInv
<1> SUFFICES ASSUME Init PROVE IInv
  OBVIOUS
<1>1. TypeOK
  BY InitTypeOK
<1>2. QED
  BY <1>1, RunsAssumption DEF Init, IInv, OpenInv, Reported, Holds, OwnersNamed,
     CallsMatch, Disowned, Owned, ReturnsExplained, AgentInOwnSandbox, Holding

\* Every step, external deletions included, keeps what it says of the calls.
LEMMA NextOpenInv == OpenInv /\ [OpenNext]_vars => OpenInv'
<1> SUFFICES ASSUME OpenInv, [OpenNext]_vars
             PROVE  OpenInv'
  OBVIOUS
<1>0. TypeOK /\ TypeOK' /\ Reported
  BY NextTypeOK DEF OpenInv
<1> USE <1>0, RunsAssumption
    DEF TypeOK, Steps, ErrorParts, RpcStates, Goto, AddError, Exists, Holding,
        Reported, CallsMatch, Disowned, ReturnsExplained
<1>1. ASSUME NEW r \in Runs, CreateSandbox(r)
      PROVE  Reported'
  BY <1>1 DEF CreateSandbox
<1>2. ASSUME NEW r \in Runs, CreateNotSent(r)
      PROVE  Reported'
  BY <1>2 DEF CreateNotSent
<1>3. ASSUME NEW r \in Runs, GatewayCreate(r)
      PROVE  Reported'
  BY <1>3 DEF GatewayCreate
<1>4. ASSUME NEW r \in Runs, CreateReturns(r)
      PROVE  Reported'
  BY <1>4 DEF CreateReturns
<1>5. ASSUME NEW r \in Runs, CreateFails(r)
      PROVE  Reported'
  BY <1>5 DEF CreateFails
<1>6. ASSUME NEW r \in Runs, WaitSandboxReady(r)
      PROVE  Reported'
  BY <1>6 DEF WaitSandboxReady
<1>7. ASSUME NEW r \in Runs, WaitFails(r)
      PROVE  Reported'
  BY <1>7 DEF WaitFails
<1>8. ASSUME NEW r \in Runs, UploadPath(r)
      PROVE  Reported'
  BY <1>8 DEF UploadPath
<1>9. ASSUME NEW r \in Runs, UploadFails(r)
      PROVE  Reported'
  BY <1>9 DEF UploadFails
<1>10. ASSUME NEW r \in Runs, UploadsDone(r)
      PROVE  Reported'
  BY <1>10 DEF UploadsDone
<1>11. ASSUME NEW r \in Runs, ExecSandbox(r)
      PROVE  Reported'
  BY <1>11 DEF ExecSandbox
<1>12. ASSUME NEW r \in Runs, ExecFails(r)
      PROVE  Reported'
  BY <1>12 DEF ExecFails
<1>13. ASSUME NEW r \in Runs, CollectOutputs(r)
      PROVE  Reported'
  BY <1>13 DEF CollectOutputs
<1>14. ASSUME NEW r \in Runs, DownloadPath(r)
      PROVE  Reported'
  BY <1>14 DEF DownloadPath, NextDownload
<1>15. ASSUME NEW r \in Runs, DownloadMissing(r)
      PROVE  Reported'
  BY <1>15 DEF DownloadMissing, NextDownload
<1>16. ASSUME NEW r \in Runs, DownloadFails(r)
      PROVE  Reported'
  BY <1>16 DEF DownloadFails, NextDownload
<1>17. ASSUME NEW r \in Runs, DownloadsDone(r)
      PROVE  Reported'
  BY <1>17 DEF DownloadsDone
<1>18. ASSUME NEW r \in Runs, KeepSandbox(r)
      PROVE  Reported'
  BY <1>18 DEF KeepSandbox
<1>19. ASSUME NEW r \in Runs, DeleteSandbox(r)
      PROVE  Reported'
  BY <1>19 DEF DeleteSandbox
<1>20. ASSUME NEW r \in Runs, GatewayDelete(r)
      PROVE  Reported'
  BY <1>20 DEF GatewayDelete
<1>21. ASSUME NEW r \in Runs, DeleteReturns(r)
      PROVE  Reported'
  BY <1>21 DEF DeleteReturns
<1>22. ASSUME NEW r \in Runs, DeleteNotSent(r)
      PROVE  Reported'
  BY <1>22 DEF DeleteNotSent
<1>23. ASSUME NEW r \in Runs, DeleteFails(r)
      PROVE  Reported'
  BY <1>23 DEF DeleteFails
<1>24. ASSUME NEW r \in Runs, Signal(r)
      PROVE  Reported'
  BY <1>24 DEF Signal
<1>25. ASSUME NEW r \in Runs, Kill(r)
      PROVE  Reported'
  BY <1>25 DEF Kill
<1>26. ASSUME NEW n \in Names, ExternalDelete(n)
      PROVE  Reported'
  BY <1>26 DEF ExternalDelete
<1>27. ASSUME UNCHANGED vars
      PROVE  Reported'
  BY <1>27 DEF vars
<1>28. Reported'
  <2> HIDE <1>0, RunsAssumption DEF Reported
  <2> QED
    BY <1>1, <1>2, <1>3, <1>4, <1>5, <1>6, <1>7, <1>8, <1>9, <1>10, <1>11, <1>12,
       <1>13, <1>14, <1>15, <1>16, <1>17, <1>18, <1>19, <1>20, <1>21, <1>22, <1>23, <1>24,
       <1>25, <1>26, <1>27
       DEF OpenNext, Next, RunStep, GatewayStep, Create, Prepare, Agent, Collect, Cleanup
<1>29. QED
  BY <1>0, <1>28 DEF OpenInv

\* When nobody else deletes sandboxes, every step keeps the invariant.
LEMMA NextIInv == IInv /\ [Next]_vars => IInv'
<1> SUFFICES ASSUME IInv, [Next]_vars
             PROVE  IInv'
  OBVIOUS
<1>0. OpenInv /\ OpenInv' /\ Holds
  BY NextOpenInv DEF IInv, OpenNext
<1> USE <1>0, RunsAssumption
    DEF OpenInv, TypeOK, Steps, ErrorParts, RpcStates, Goto, AddError, Exists, Holding,
        Reported, CallsMatch, Disowned, Holds, OwnersNamed, Owned, AgentInOwnSandbox
<1>1. ASSUME NEW r \in Runs, CreateSandbox(r)
      PROVE  Holds'
  BY <1>1 DEF CreateSandbox
<1>2. ASSUME NEW r \in Runs, CreateNotSent(r)
      PROVE  Holds'
  BY <1>2 DEF CreateNotSent
<1>3. ASSUME NEW r \in Runs, GatewayCreate(r)
      PROVE  Holds'
  BY <1>3 DEF GatewayCreate
<1>4. ASSUME NEW r \in Runs, CreateReturns(r)
      PROVE  Holds'
  BY <1>4 DEF CreateReturns
<1>5. ASSUME NEW r \in Runs, CreateFails(r)
      PROVE  Holds'
  BY <1>5 DEF CreateFails
<1>6. ASSUME NEW r \in Runs, WaitSandboxReady(r)
      PROVE  Holds'
  BY <1>6 DEF WaitSandboxReady
<1>7. ASSUME NEW r \in Runs, WaitFails(r)
      PROVE  Holds'
  BY <1>7 DEF WaitFails
<1>8. ASSUME NEW r \in Runs, UploadPath(r)
      PROVE  Holds'
  BY <1>8 DEF UploadPath
<1>9. ASSUME NEW r \in Runs, UploadFails(r)
      PROVE  Holds'
  BY <1>9 DEF UploadFails
<1>10. ASSUME NEW r \in Runs, UploadsDone(r)
      PROVE  Holds'
  BY <1>10 DEF UploadsDone
<1>11. ASSUME NEW r \in Runs, ExecSandbox(r)
      PROVE  Holds'
  BY <1>11 DEF ExecSandbox
<1>12. ASSUME NEW r \in Runs, ExecFails(r)
      PROVE  Holds'
  BY <1>12 DEF ExecFails
<1>13. ASSUME NEW r \in Runs, CollectOutputs(r)
      PROVE  Holds'
  BY <1>13 DEF CollectOutputs
<1>14. ASSUME NEW r \in Runs, DownloadPath(r)
      PROVE  Holds'
  BY <1>14 DEF DownloadPath, NextDownload
<1>15. ASSUME NEW r \in Runs, DownloadMissing(r)
      PROVE  Holds'
  BY <1>15 DEF DownloadMissing, NextDownload
<1>16. ASSUME NEW r \in Runs, DownloadFails(r)
      PROVE  Holds'
  BY <1>16 DEF DownloadFails, NextDownload
<1>17. ASSUME NEW r \in Runs, DownloadsDone(r)
      PROVE  Holds'
  BY <1>17 DEF DownloadsDone
<1>18. ASSUME NEW r \in Runs, KeepSandbox(r)
      PROVE  Holds'
  BY <1>18 DEF KeepSandbox
<1>19. ASSUME NEW r \in Runs, DeleteSandbox(r)
      PROVE  Holds'
  BY <1>19 DEF DeleteSandbox
<1>20. ASSUME NEW r \in Runs, GatewayDelete(r)
      PROVE  Holds'
  BY <1>20 DEF GatewayDelete
<1>21. ASSUME NEW r \in Runs, DeleteReturns(r)
      PROVE  Holds'
  BY <1>21 DEF DeleteReturns
<1>22. ASSUME NEW r \in Runs, DeleteNotSent(r)
      PROVE  Holds'
  BY <1>22 DEF DeleteNotSent
<1>23. ASSUME NEW r \in Runs, DeleteFails(r)
      PROVE  Holds'
  BY <1>23 DEF DeleteFails
<1>24. ASSUME NEW r \in Runs, Signal(r)
      PROVE  Holds'
  BY <1>24 DEF Signal
<1>25. ASSUME NEW r \in Runs, Kill(r)
      PROVE  Holds'
  BY <1>25 DEF Kill
<1>26. ASSUME UNCHANGED vars
      PROVE  Holds'
  BY <1>26 DEF vars
<1>27. Holds'
  <2> HIDE <1>0, RunsAssumption DEF Holds
  <2> QED
    BY <1>1, <1>2, <1>3, <1>4, <1>5, <1>6, <1>7, <1>8, <1>9, <1>10, <1>11, <1>12,
       <1>13, <1>14, <1>15, <1>16, <1>17, <1>18, <1>19, <1>20, <1>21, <1>22, <1>23, <1>24,
       <1>25, <1>26
       DEF Next, RunStep, GatewayStep, Create, Prepare, Agent, Collect, Cleanup
<1>28. QED
  BY <1>0, <1>27 DEF IInv

\* What IInv says, for the whole of a behaviour.
LEMMA IInvHolds == Spec => []IInv
BY InitIInv, NextIInv, PTL DEF Spec

\* However many runs compete for a name, the agent command of each only ever
\* runs in the sandbox that run created.
THEOREM AgentIsolation == Spec => []AgentInOwnSandbox
<1>1. IInv => AgentInOwnSandbox
  BY DEF IInv, Holds
<1>2. QED
  BY IInvHolds, <1>1, PTL

\* A returned run leaves a sandbox behind only on request or with an error
\* that says so, even on a gateway where others delete sandboxes.
THEOREM NoSilentLeak == OpenSpec => []OnlyReportedLeaks
<1>1. Init => OpenInv
  BY InitIInv DEF IInv
<1>2. OpenInv => OnlyReportedLeaks
  BY DEF OpenInv, Reported, OnlyReportedLeaks, ReturnsExplained, Disowned
<1>3. QED
  BY <1>1, <1>2, NextOpenInv, PTL DEF OpenSpec

-----------------------------------------------------------------------------
(* What a run has done by the time it cleans up                            *)

Cleaning == {"cleanup", "deleting"}

Done == {"collect", "downloading", "cleanup", "deleting", "returned"}

Collected ==
    \A r \in Runs :
        /\ ranIn[r] # NoRun => pc[r] \in Done \/ pc[r] = "killed"
        /\ pc[r] = "downloading" => item[r] <= NumDownloads + 1
        /\ pc[r] \in Cleaning /\ ranIn[r] # NoRun =>
              NumDownloads = 0 \/ item[r] = NumDownloads + 1
        /\ runErr[r] = {} =>
              /\ r \in AgentRuns /\ pc[r] \in Done => ranIn[r] # NoRun
              /\ pc[r] = "downloading" => \A d \in Required : d < item[r] => d \in got[r]
              /\ pc[r] = "returned" \/ pc[r] \in Cleaning => \A d \in Required : d \in got[r]

CInv == TypeOK /\ Collected

LEMMA ErrorAdded ==
    ASSUME TypeOK, NEW r \in Runs, NEW part \in ErrorParts, AddError(r, part)
    PROVE  /\ runErr'[r] # {}
           /\ \A q \in Runs \ {r} : runErr'[q] = runErr[q]
BY DEF TypeOK, AddError

LEMMA InitCInv == Init => CInv
BY InitTypeOK, RunsAssumption DEF Init, CInv, Collected, Cleaning, Done

LEMMA NextItem ==
    ASSUME NEW i \in Int
    PROVE  \A d \in Required : d < i + 1 => d = i \/ d < i
BY RunsAssumption

LEMMA NextCInv == CInv /\ [OpenNext]_vars => CInv'
<1> SUFFICES ASSUME CInv, [OpenNext]_vars
             PROVE  CInv'
  OBVIOUS
<1>0. TypeOK /\ TypeOK' /\ Collected
  BY NextTypeOK DEF CInv
<1> USE <1>0, RunsAssumption
    DEF TypeOK, Steps, RpcStates, Goto, Exists, Cleaning, Done, Collected
<1> DEFINE Fails(r) == /\ runErr'[r] # {}
                       /\ \A q \in Runs \ {r} : runErr'[q] = runErr[q]
<1>100. ASSUME NEW r \in Runs, NEW part \in ErrorParts, AddError(r, part)
      PROVE  Fails(r)
  BY <1>100, ErrorAdded
<1>1. ASSUME NEW r \in Runs, CreateSandbox(r)
      PROVE  Collected'
  BY <1>1 DEF CreateSandbox
<1>2. ASSUME NEW r \in Runs, CreateNotSent(r)
      PROVE  Collected'
  <2>1. Fails(r)
    BY <1>2, <1>100 DEF CreateNotSent, ErrorParts
  <2>2. QED
    BY <1>2, <2>1 DEF CreateNotSent
<1>3. ASSUME NEW r \in Runs, GatewayCreate(r)
      PROVE  Collected'
  BY <1>3 DEF GatewayCreate
<1>4. ASSUME NEW r \in Runs, CreateReturns(r)
      PROVE  Collected'
  BY <1>4 DEF CreateReturns
<1>5. ASSUME NEW r \in Runs, CreateFails(r)
      PROVE  Collected'
  <2>1. Fails(r)
    BY <1>5, <1>100 DEF CreateFails, ErrorParts
  <2>2. QED
    BY <1>5, <2>1 DEF CreateFails
<1>6. ASSUME NEW r \in Runs, WaitSandboxReady(r)
      PROVE  Collected'
  BY <1>6 DEF WaitSandboxReady
<1>7. ASSUME NEW r \in Runs, WaitFails(r)
      PROVE  Collected'
  <2>1. Fails(r)
    BY <1>7, <1>100 DEF WaitFails, ErrorParts
  <2>2. QED
    BY <1>7, <2>1 DEF WaitFails
<1>8. ASSUME NEW r \in Runs, UploadPath(r)
      PROVE  Collected'
  BY <1>8 DEF UploadPath
<1>9. ASSUME NEW r \in Runs, UploadFails(r)
      PROVE  Collected'
  <2>1. Fails(r)
    BY <1>9, <1>100 DEF UploadFails, ErrorParts
  <2>2. QED
    BY <1>9, <2>1 DEF UploadFails
<1>10. ASSUME NEW r \in Runs, UploadsDone(r)
      PROVE  Collected'
  BY <1>10 DEF UploadsDone
<1>11. ASSUME NEW r \in Runs, ExecSandbox(r)
      PROVE  Collected'
  <2>1. Fails(r) \/ runErr' = runErr
    BY <1>11, <1>100 DEF ExecSandbox, ErrorParts
  <2>2. QED
    BY <1>11, <2>1 DEF ExecSandbox
<1>12. ASSUME NEW r \in Runs, ExecFails(r)
      PROVE  Collected'
  <2>1. Fails(r)
    BY <1>12, <1>100 DEF ExecFails, ErrorParts
  <2>2. QED
    BY <1>12, <2>1 DEF ExecFails
<1>13. ASSUME NEW r \in Runs, CollectOutputs(r)
      PROVE  Collected'
  BY <1>13 DEF CollectOutputs
<1>14. ASSUME NEW r \in Runs, DownloadPath(r)
      PROVE  Collected'
  <2>1. /\ pc' = pc /\ ranIn' = ranIn /\ runErr' = runErr
        /\ item[r] \in Int /\ item[r] <= NumDownloads
        /\ item' = [item EXCEPT ![r] = item[r] + 1]
        /\ got' = [got EXCEPT ![r] = got[r] \cup {item[r]}]
        /\ pc[r] = "downloading"
    BY <1>14 DEF DownloadPath, NextDownload
  <2>2. \A d \in Required : d < item[r] + 1 => d = item[r] \/ d < item[r]
    BY <2>1, NextItem
  <2>3. \A q \in Runs : got[q] \subseteq got'[q]
    BY <2>1
  <2>4. \A q \in Runs \ {r} : item'[q] = item[q]
    BY <2>1
  <2>5. item[r] \in got'[r] /\ item'[r] = item[r] + 1
    BY <2>1
  <2>6. QED
    BY <2>1, <2>2, <2>3, <2>4, <2>5
<1>15. ASSUME NEW r \in Runs, DownloadMissing(r)
      PROVE  Collected'
  <2>1. /\ pc' = pc /\ ranIn' = ranIn /\ got' = got
        /\ item[r] \in Int /\ item[r] <= NumDownloads
        /\ item' = [item EXCEPT ![r] = item[r] + 1]
        /\ pc[r] = "downloading"
    BY <1>15 DEF DownloadMissing, NextDownload
  <2>2. CASE item[r] \in Required
    <3>1. Fails(r)
      <4>1. AddError(r, "download")
        BY <1>15, <2>2 DEF DownloadMissing
      <4>2. QED
        BY <4>1, <1>100 DEF ErrorParts
    <3>2. QED
      BY <2>1, <3>1
  <2>3. CASE item[r] \notin Required
    <3>1. runErr' = runErr
      BY <1>15, <2>3 DEF DownloadMissing
    <3>2. \A d \in Required : d < item[r] + 1 => d = item[r] \/ d < item[r]
      BY <2>1, NextItem
    <3>3. QED
      BY <2>1, <2>3, <3>1, <3>2
  <2>4. QED
    BY <2>2, <2>3
<1>16. ASSUME NEW r \in Runs, DownloadFails(r)
      PROVE  Collected'
  <2>1. Fails(r)
    BY <1>16, <1>100 DEF DownloadFails, ErrorParts
  <2>2. QED
    BY <1>16, <2>1 DEF DownloadFails, NextDownload
<1>17. ASSUME NEW r \in Runs, DownloadsDone(r)
      PROVE  Collected'
  BY <1>17 DEF DownloadsDone
<1>18. ASSUME NEW r \in Runs, KeepSandbox(r)
      PROVE  Collected'
  BY <1>18 DEF KeepSandbox
<1>19. ASSUME NEW r \in Runs, DeleteSandbox(r)
      PROVE  Collected'
  BY <1>19 DEF DeleteSandbox
<1>20. ASSUME NEW r \in Runs, GatewayDelete(r)
      PROVE  Collected'
  BY <1>20 DEF GatewayDelete
<1>21. ASSUME NEW r \in Runs, DeleteReturns(r)
      PROVE  Collected'
  BY <1>21 DEF DeleteReturns
<1>22. ASSUME NEW r \in Runs, DeleteNotSent(r)
      PROVE  Collected'
  <2>1. Fails(r)
    BY <1>22, <1>100 DEF DeleteNotSent, ErrorParts
  <2>2. QED
    BY <1>22, <2>1 DEF DeleteNotSent
<1>23. ASSUME NEW r \in Runs, DeleteFails(r)
      PROVE  Collected'
  <2>1. Fails(r)
    BY <1>23, <1>100 DEF DeleteFails, ErrorParts
  <2>2. QED
    BY <1>23, <2>1 DEF DeleteFails
<1>24. ASSUME NEW r \in Runs, Signal(r)
      PROVE  Collected'
  BY <1>24 DEF Signal
<1>25. ASSUME NEW r \in Runs, Kill(r)
      PROVE  Collected'
  BY <1>25 DEF Kill
<1>26. ASSUME NEW n \in Names, ExternalDelete(n)
      PROVE  Collected'
  BY <1>26 DEF ExternalDelete
<1>27. ASSUME UNCHANGED vars
      PROVE  Collected'
  BY <1>27 DEF vars
<1>28. Collected'
  <2> HIDE <1>0, RunsAssumption DEF Collected, Fails
  <2> QED
    BY <1>1, <1>2, <1>3, <1>4, <1>5, <1>6, <1>7, <1>8, <1>9, <1>10, <1>11, <1>12,
       <1>13, <1>14, <1>15, <1>16, <1>17, <1>18, <1>19, <1>20, <1>21, <1>22, <1>23, <1>24,
       <1>25, <1>26, <1>27
       DEF OpenNext, Next, RunStep, GatewayStep, Create, Prepare, Agent, Collect, Cleanup
<1>29. QED
  BY <1>0, <1>28 DEF CInv

\* Success means that every part of the run was done, whatever the schedule and
\* whoever else deletes sandboxes.
THEOREM SuccessComplete == OpenSpec => []SuccessIsComplete
<1>1. Init => OpenInv
  BY InitIInv DEF IInv
<1>2. OpenInv /\ CInv => SuccessIsComplete
  BY DEF OpenInv, Reported, ReturnsExplained, Disowned, CInv, Collected, Done, SuccessIsComplete
<1>3. QED
  BY <1>1, <1>2, InitCInv, NextCInv, NextOpenInv, PTL DEF OpenSpec

\* A run that asks for its sandbox to be deleted has tried every output first.
THEOREM OutputsCollectedFirst == OpenSpec => OutputsBeforeDelete
<1> DEFINE Tried == \A r \in Runs :
                      rpc[r] # "deleting" /\ rpc'[r] = "deleting" /\ ranIn[r] # NoRun
                         => NumDownloads = 0 \/ item[r] = NumDownloads + 1
<1>1. CInv /\ [OpenNext]_vars => [Tried]_vars
  <2> SUFFICES ASSUME CInv, OpenNext, NEW r \in Runs,
                      rpc[r] # "deleting", rpc'[r] = "deleting", ranIn[r] # NoRun
               PROVE  NumDownloads = 0 \/ item[r] = NumDownloads + 1
    OBVIOUS
  <2>1. DeleteSandbox(r) => pc[r] = "cleanup"
    BY DEF DeleteSandbox
  <2>2. ASSUME NEW q \in Runs, q # r \/ ~DeleteSandbox(q), RunStep(q)
        PROVE  FALSE
    BY <2>2 DEF CInv, TypeOK, RunStep, Create, CreateSandbox, CreateNotSent, CreateReturns,
       CreateFails, Prepare, WaitSandboxReady, WaitFails, UploadPath, UploadFails,
       UploadsDone, Agent, ExecSandbox, ExecFails, Collect, CollectOutputs, DownloadPath,
       DownloadMissing, DownloadFails, DownloadsDone, Cleanup, KeepSandbox, DeleteSandbox,
       DeleteNotSent, DeleteReturns, DeleteFails
  <2>3. ASSUME NEW q \in Runs, GatewayStep(q) \/ Signal(q) \/ Kill(q)
        PROVE  FALSE
    BY <2>3 DEF CInv, TypeOK, GatewayStep, GatewayCreate, GatewayDelete, Signal, Kill
  <2>4. ASSUME NEW n \in Names, ExternalDelete(n)
        PROVE  FALSE
    BY <2>4 DEF ExternalDelete
  <2>5. DeleteSandbox(r)
    BY <2>2, <2>3, <2>4 DEF OpenNext, Next
  <2>6. QED
    BY <2>1, <2>5 DEF CInv, Collected, Cleaning
<1>2. QED
  BY <1>1, InitCInv, NextCInv, PTL DEF OpenSpec, OutputsBeforeDelete

-----------------------------------------------------------------------------
(* Why every run ends: it goes forward, and from item to item while it copies *)

\* The way through Run, and how many items are copied at a step of it.
PlaceInRun ==
    [start |-> 0, creating |-> 1, waiting |-> 2, uploading |-> 3, agent |-> 4, collect |-> 5,
     downloading |-> 6, cleanup |-> 7, deleting |-> 8, returned |-> 9, killed |-> 9]
ItemsAt == [uploading |-> NumUploads, downloading |-> NumDownloads]

\* r has come to a later step, or stays at one that copies and is done with an
\* item of it.
Onward(r) ==
    \/ PlaceInRun[pc'[r]] > PlaceInRun[pc[r]]
    \/ /\ pc'[r] = pc[r]
       /\ pc[r] \in {"uploading", "downloading"}
       /\ item[r] <= ItemsAt[pc[r]]
       /\ item'[r] = item[r] + 1

\* Run repeats nothing: it never comes back to a step, and copies each item
\* once, however its calls fail, whatever the gateway does, and wherever others
\* delete sandboxes or signals arrive.  What can keep a run from ending is only
\* a call that never returns.
THEOREM RunGoesForward ==
    OpenSpec => [][\A r \in Runs : <<pc[r], item[r]>>' # <<pc[r], item[r]>> => Onward(r)]_vars
<1>1. TypeOK /\ [OpenNext]_vars
        => [\A r \in Runs : <<pc[r], item[r]>>' # <<pc[r], item[r]>> => Onward(r)]_vars
  <2> SUFFICES ASSUME TypeOK, OpenNext, NEW r \in Runs,
                      pc'[r] # pc[r] \/ item'[r] # item[r]
               PROVE  Onward(r)
    OBVIOUS
  <2> USE RunsAssumption DEF TypeOK, Goto, Onward, PlaceInRun, ItemsAt
  <2>1. ASSUME NEW q \in Runs, Create(q) \/ Agent(q) \/ Cleanup(q) PROVE Onward(r)
    BY <2>1 DEF Create, CreateSandbox, CreateNotSent, CreateReturns, CreateFails,
                Agent, ExecSandbox, ExecFails, Cleanup, KeepSandbox, DeleteSandbox,
                DeleteNotSent, DeleteReturns, DeleteFails
  <2>2. ASSUME NEW q \in Runs, Prepare(q) PROVE Onward(r)
    BY <2>2 DEF Prepare, WaitSandboxReady, WaitFails, UploadPath, UploadFails, UploadsDone
  <2>3. ASSUME NEW q \in Runs, Collect(q) PROVE Onward(r)
    BY <2>3 DEF Collect, CollectOutputs, DownloadPath, DownloadMissing, DownloadFails,
                DownloadsDone, NextDownload
  <2>4. ASSUME NEW q \in Runs, GatewayStep(q) \/ Signal(q) PROVE Onward(r)
    BY <2>4 DEF GatewayStep, GatewayCreate, GatewayDelete, Signal
  <2>5. ASSUME NEW q \in Runs, Kill(q) PROVE Onward(r)
    BY <2>5 DEF Kill, Steps, Ended
  <2>6. ASSUME NEW n \in Names, ExternalDelete(n) PROVE Onward(r)
    BY <2>6 DEF ExternalDelete
  <2> QED
    BY <2>1, <2>2, <2>3, <2>4, <2>5, <2>6 DEF OpenNext, Next, RunStep
<1>2. OpenSpec => []TypeOK
  BY InitTypeOK, NextTypeOK, PTL DEF OpenSpec
<1> QED
  BY <1>1, <1>2, PTL DEF OpenSpec

-----------------------------------------------------------------------------
(* Run keeps the promise of SandboxLease                                   *)

\* The steps inside Run, which neither the gateway nor the caller sees.
InnerStep(r) ==
    \/ CreateSandbox(r) \/ CreateReturns(r) \/ Prepare(r) \/ Agent(r) \/ Collect(r)
    \/ DeleteSandbox(r) \/ Signal(r)

LEMMA InnerStepStutters ==
    ASSUME TypeOK, NEW r \in Runs, InnerStep(r)
    PROVE  UNCHANGED Lease!leaseVars
<1>1. owner' = owner
  BY DEF InnerStep, CreateSandbox, CreateReturns, Prepare, WaitSandboxReady, WaitFails,
         UploadPath, UploadFails, UploadsDone, Agent, ExecSandbox, ExecFails, Collect,
         CollectOutputs, DownloadPath, DownloadMissing, DownloadFails, DownloadsDone,
         DeleteSandbox, Signal
<1>2. /\ pc[r] \notin Ended
      /\ pc' = pc \/ \E step \in Steps \ Ended : pc' = [pc EXCEPT ![r] = step]
  BY DEF InnerStep, CreateSandbox, CreateReturns, Prepare, WaitSandboxReady, WaitFails,
         UploadPath, UploadFails, UploadsDone, Agent, ExecSandbox, ExecFails, Collect,
         CollectOutputs, DownloadPath, DownloadMissing, DownloadFails, DownloadsDone,
         DeleteSandbox, Signal, Goto, Steps, Ended
<1>3. runErr' = runErr \/ \E part \in ErrorParts : AddError(r, part)
  BY DEF InnerStep, CreateSandbox, CreateReturns, Prepare, WaitSandboxReady, WaitFails,
         UploadPath, UploadFails, UploadsDone, Agent, ExecSandbox, ExecFails, Collect,
         CollectOutputs, DownloadPath, DownloadMissing, DownloadFails, DownloadsDone,
         DeleteSandbox, Signal, ErrorParts
<1>4. ASSUME NEW q \in Runs
      PROVE  OutcomeOf(q)' = OutcomeOf(q)
  <2>1. CASE q = r
    BY <2>1, <1>2 DEF OutcomeOf, TypeOK, Ended
  <2>2. CASE q # r
    <3>1. pc'[q] = pc[q] /\ runErr'[q] = runErr[q]
      BY <2>2, <1>2, <1>3 DEF TypeOK, AddError
    <3>2. QED
      BY <3>1 DEF OutcomeOf
  <2>3. QED
    BY <2>1, <2>2
<1>5. [q \in Runs |-> OutcomeOf(q)]' = [q \in Runs |-> OutcomeOf(q)]
  BY <1>4
<1>6. QED
  BY <1>1, <1>5 DEF Lease!leaseVars

\* When only r's outcome changes, the mapped outcome changes at r alone.
LEMMA OutcomeSteps ==
    ASSUME TypeOK, NEW r \in Runs, NEW out,
           \A q \in Runs \ {r} : pc'[q] = pc[q] /\ runErr'[q] = runErr[q],
           OutcomeOf(r)' = out
    PROVE  [q \in Runs |-> OutcomeOf(q)]'
             = [[q \in Runs |-> OutcomeOf(q)] EXCEPT ![r] = out]
<1>1. \A q \in Runs \ {r} : OutcomeOf(q)' = OutcomeOf(q)
  BY DEF OutcomeOf
<1>2. QED
  BY <1>1

\* A run that returns an error, whatever it leaves behind.
FailStep(r) == \/ CreateNotSent(r) \/ CreateFails(r)
               \/ DeleteNotSent(r) \/ DeleteFails(r)

LEMMA FailStepFails ==
    ASSUME TypeOK, NEW r \in Runs, FailStep(r)
    PROVE  Lease!Fail(r)
<1>1. /\ owner' = owner
      /\ pc[r] \notin Ended
      /\ pc' = [pc EXCEPT ![r] = "returned"]
      /\ \E part \in ErrorParts : runErr' = [runErr EXCEPT ![r] = @ \cup {part}]
  BY DEF FailStep, CreateNotSent, CreateFails, DeleteNotSent, DeleteFails, Goto, AddError, Ended, ErrorParts
<1>2. \A q \in Runs \ {r} : pc'[q] = pc[q] /\ runErr'[q] = runErr[q]
  BY <1>1 DEF TypeOK
<1>3. OutcomeOf(r)' = "failed"
  BY <1>1 DEF OutcomeOf, TypeOK
<1>4. OutcomeOf(r) = "pending"
  BY <1>1 DEF OutcomeOf, Ended
<1>5. QED
  BY <1>1, <1>2, <1>3, <1>4, OutcomeSteps DEF Lease!Fail

\* A run that returns through the deferred delete: kept, or deleted in time.
LEMMA ReturnStepEnds ==
    ASSUME IInv, NEW r \in Runs, KeepSandbox(r) \/ DeleteReturns(r)
    PROVE  Lease!Succeed(r) \/ Lease!Fail(r)
<1>1. /\ owner' = owner
      /\ runErr' = runErr
      /\ pc[r] \notin Ended
      /\ pc' = [pc EXCEPT ![r] = "returned"]
      /\ (owner[NameOf[r]] = r) <=> (r \in KeepRuns)
  BY DEF KeepSandbox, DeleteReturns, Goto, Ended, IInv, OpenInv, Reported, Holds,
         Disowned, Owned, CallsMatch, Holding
<1>2. \A q \in Runs \ {r} : pc'[q] = pc[q] /\ runErr'[q] = runErr[q]
  BY <1>1 DEF IInv, OpenInv, TypeOK
<1>3. OutcomeOf(r) = "pending"
  BY <1>1 DEF OutcomeOf, Ended
<1>4. TypeOK
  BY DEF IInv, OpenInv
<1>5. CASE runErr[r] = {}
  <2>1. OutcomeOf(r)' = "succeeded"
    BY <1>1, <1>4, <1>5 DEF OutcomeOf, TypeOK
  <2>2. QED
    BY <1>1, <1>2, <1>3, <1>4, <2>1, OutcomeSteps DEF Lease!Succeed
<1>6. CASE runErr[r] # {}
  <2>1. OutcomeOf(r)' = "failed"
    BY <1>1, <1>4, <1>6 DEF OutcomeOf, TypeOK
  <2>2. QED
    BY <1>1, <1>2, <1>3, <1>4, <2>1, OutcomeSteps DEF Lease!Fail
<1>7. QED
  BY <1>5, <1>6

LEMMA KillDies == ASSUME TypeOK, NEW r \in Runs, Kill(r) PROVE Lease!Die(r)
<1>1. /\ owner' = owner
      /\ runErr' = runErr
      /\ pc[r] \notin Ended
      /\ pc' = [pc EXCEPT ![r] = "killed"]
  BY DEF Kill, Goto
<1>2. \A q \in Runs \ {r} : pc'[q] = pc[q] /\ runErr'[q] = runErr[q]
  BY <1>1 DEF TypeOK
<1>3. OutcomeOf(r) = "pending" /\ OutcomeOf(r)' = "killed"
  BY <1>1 DEF OutcomeOf, Ended, TypeOK
<1>4. QED
  BY <1>1, <1>2, <1>3, OutcomeSteps DEF Lease!Die

\* The gateway acts for a run whatever the run is doing by then.
LEMMA GatewayStepMoves ==
    ASSUME IInv, NEW r \in Runs, GatewayStep(r)
    PROVE  Lease!Acquire(r) \/ Lease!Release(r) \/ UNCHANGED Lease!leaseVars
<1>1. pc' = pc /\ runErr' = runErr
  BY DEF GatewayStep, GatewayCreate, GatewayDelete
<1>2. [q \in Runs |-> OutcomeOf(q)]' = [q \in Runs |-> OutcomeOf(q)]
  BY <1>1 DEF OutcomeOf
<1>3. CASE GatewayCreate(r)
  <2>1. [q \in Runs |-> OutcomeOf(q)][r] # "succeeded"
    <3>1. pc[r] \in {"creating", "killed"} \/ (pc[r] = "returned" /\ runErr[r] # {})
      BY <1>3 DEF GatewayCreate, IInv, OpenInv, Reported, CallsMatch, ReturnsExplained
    <3>2. OutcomeOf(r) # "succeeded"
      BY <3>1 DEF OutcomeOf
    <3>3. QED
      BY <3>2
  <2>2. \/ owner[NameOf[r]] = NoRun /\ owner' = [owner EXCEPT ![NameOf[r]] = r]
        \/ owner' = owner
    BY <1>3 DEF GatewayCreate, Exists
  <2>3. QED
    BY <1>2, <2>1, <2>2 DEF Lease!Acquire, Lease!leaseVars
<1>4. CASE GatewayDelete(r)
  <2>1. r \notin KeepRuns /\ owner[NameOf[r]] = r
    BY <1>4 DEF GatewayDelete, IInv, OpenInv, Reported, Holds, CallsMatch, Owned
  <2>2. QED
    BY <1>2, <1>4, <2>1 DEF GatewayDelete, Lease!Release
<1>5. QED
  BY <1>3, <1>4 DEF GatewayStep

LEMMA StepRefines == IInv /\ [Next]_vars => [Lease!LeaseNext]_(Lease!leaseVars)
<1> SUFFICES ASSUME IInv, [Next]_vars
             PROVE  Lease!LeaseNext \/ UNCHANGED Lease!leaseVars
  OBVIOUS
<1>1. ASSUME NEW r \in Runs, InnerStep(r)
      PROVE  UNCHANGED Lease!leaseVars
  BY <1>1, InnerStepStutters DEF IInv, OpenInv
<1>2. ASSUME NEW r \in Runs, FailStep(r)
      PROVE  Lease!LeaseNext
  BY <1>2, FailStepFails DEF IInv, OpenInv, Lease!LeaseNext
<1>3. ASSUME NEW r \in Runs, KeepSandbox(r) \/ DeleteReturns(r)
      PROVE  Lease!LeaseNext
  BY <1>3, ReturnStepEnds DEF Lease!LeaseNext
<1>4. ASSUME NEW r \in Runs, Kill(r)
      PROVE  Lease!LeaseNext
  BY <1>4, KillDies DEF IInv, OpenInv, Lease!LeaseNext
<1>5. ASSUME NEW r \in Runs, GatewayStep(r)
      PROVE  Lease!LeaseNext \/ UNCHANGED Lease!leaseVars
  BY <1>5, GatewayStepMoves DEF Lease!LeaseNext
<1>6. ASSUME UNCHANGED vars
      PROVE  UNCHANGED Lease!leaseVars
  BY <1>6 DEF vars, Lease!leaseVars, OutcomeOf
<1>7. ASSUME NEW r \in Runs, RunStep(r) \/ GatewayStep(r) \/ Signal(r) \/ Kill(r)
      PROVE  \/ InnerStep(r) \/ FailStep(r) \/ KeepSandbox(r) \/ DeleteReturns(r)
             \/ Kill(r) \/ GatewayStep(r)
  BY <1>7 DEF InnerStep, FailStep, RunStep, Create, Cleanup
<1>8. QED
  BY <1>1, <1>2, <1>3, <1>4, <1>5, <1>6, <1>7 DEF Next

\* Any number of concurrent runs keeps the promise of SandboxLease: the lease
\* on a name is exclusive, given back by its holder alone, and given back
\* before the holder reports success.
THEOREM RunImplementsLease == Spec => ImplementsLease
<1>1. Init => Lease!LeaseInit
  BY DEF Init, Lease!LeaseInit, OutcomeOf
<1>2. IInv /\ [Next]_vars => [Lease!LeaseNext]_(Lease!leaseVars)
  BY StepRefines
<1>3. QED
  BY <1>1, <1>2, IInvHolds, PTL DEF Spec, ImplementsLease, Lease!LeaseSpec

\* A sandbox is deleted only on behalf of the run that created it.
THEOREM OwnDeletes == Spec => DeletesOnlyOwn
<1> DEFINE OwnDelete == \A n \in Names : owner[n] # NoRun /\ owner'[n] # owner[n]
                           => owner'[n] = NoRun /\ rpc[owner[n]] = "deleting"
<1>1. IInv /\ [Next]_vars => [OwnDelete]_vars
  <2> SUFFICES ASSUME IInv, Next
               PROVE  OwnDelete
    OBVIOUS
  <2>1. ASSUME NEW r \in Runs, GatewayCreate(r)
        PROVE  OwnDelete
    BY <2>1 DEF GatewayCreate, Exists, IInv, OpenInv, TypeOK
  <2>2. ASSUME NEW r \in Runs, GatewayDelete(r)
        PROVE  OwnDelete
    BY <2>2 DEF GatewayDelete, IInv, OpenInv, TypeOK, Reported, Holds, Owned
  <2>3. ASSUME owner' = owner
        PROVE  OwnDelete
    BY <2>3
  <2>4. ASSUME NEW r \in Runs, RunStep(r) \/ Signal(r) \/ Kill(r)
        PROVE  owner' = owner
    BY <2>4 DEF RunStep, Create, CreateSandbox, CreateNotSent, CreateReturns, CreateFails,
       Prepare, WaitSandboxReady, WaitFails, UploadPath, UploadFails, UploadsDone,
       Agent, ExecSandbox, ExecFails, Collect, CollectOutputs, DownloadPath,
       DownloadMissing, DownloadFails, DownloadsDone, Cleanup, KeepSandbox,
       DeleteSandbox, DeleteNotSent, DeleteReturns, DeleteFails, Signal, Kill
  <2>5. QED
    BY <2>1, <2>2, <2>3, <2>4 DEF Next, GatewayStep
<1>2. QED
  BY <1>1, IInvHolds, PTL DEF Spec, DeletesOnlyOwn

-----------------------------------------------------------------------------
(* Direct connections                                                      *)

LEMMA InitDirectTypeOK == DirectInit => DirectTypeOK
BY InitTypeOK DEF DirectInit, DirectTypeOK, Stages, Tokens

LEMMA CallIsRunStep ==
    ASSUME NEW r \in Runs, Call(r)
    PROVE  RunStep(r)
BY DEF Call, RunStep, Create, Prepare, Agent, Collect, Cleanup

LEMMA OtherIsRunStep ==
    ASSUME NEW r \in Runs, OtherStep(r)
    PROVE  RunStep(r)
BY DEF OtherStep, RunStep, Create, Prepare, Agent, Collect, Cleanup

\* What a run does by itself is a step of Run, or unseen by it.
LEMMA DirectStepIsRunStep ==
    ASSUME NEW r \in Runs, DirectStep(r)
    PROVE  RunStep(r) \/ UNCHANGED vars
<1>1. CASE Connect(r)
  BY <1>1 DEF Connect, Discover, RequestToken, ConnectFails, RunStep, Create
<1>2. CASE AuthenticatedCall(r)
  BY <1>2, CallIsRunStep DEF AuthenticatedCall
<1>3. CASE CleanupNotAuthenticated(r)
  BY <1>3 DEF CleanupNotAuthenticated, RunStep, Cleanup
<1>4. CASE OtherStep(r)
  BY <1>4, OtherIsRunStep
<1>5. QED
  BY <1>1, <1>2, <1>3, <1>4 DEF DirectStep

LEMMA DirectNextRefines == [DirectNext]_directVars => [Next]_vars
<1> SUFFICES ASSUME [DirectNext]_directVars
             PROVE  Next \/ UNCHANGED vars
  OBVIOUS
<1>1. ASSUME NEW r \in Runs, DirectStep(r)
      PROVE  Next \/ UNCHANGED vars
  BY <1>1, DirectStepIsRunStep DEF Next
<1>2. ASSUME NEW r \in Runs, TokenExpires(r)
      PROVE  UNCHANGED vars
  BY <1>2 DEF TokenExpires
<1>3. CASE Environment
  BY <1>3 DEF Environment, Next
<1>4. CASE UNCHANGED directVars
  BY <1>4 DEF directVars, vars
<1>5. QED
  BY <1>1, <1>2, <1>3, <1>4 DEF DirectNext

\* The stage and the token keep their types.
LEMMA StageAndTokenTyped ==
    ASSUME DirectTypeOK, [DirectNext]_directVars
    PROVE  /\ stage' \in [Runs -> Stages]
           /\ token' \in [Runs -> Tokens]
<1>1. ASSUME NEW r \in Runs, Connect(r)
      PROVE  /\ stage' \in [Runs -> Stages]
             /\ token' \in [Runs -> Tokens]
  BY <1>1 DEF Connect, Discover, RequestToken, ConnectFails, DirectTypeOK, Stages, Tokens
<1>2. ASSUME NEW r \in Runs, AuthenticatedCall(r)
      PROVE  /\ stage' \in [Runs -> Stages]
             /\ token' \in [Runs -> Tokens]
  BY <1>2 DEF AuthenticatedCall, Authenticate, DirectTypeOK, Tokens
<1>3. ASSUME NEW r \in Runs, CleanupNotAuthenticated(r) \/ OtherStep(r)
      PROVE  UNCHANGED <<stage, token>>
  BY <1>3 DEF CleanupNotAuthenticated, OtherStep
<1>4. ASSUME NEW r \in Runs, TokenExpires(r)
      PROVE  /\ stage' \in [Runs -> Stages]
             /\ token' \in [Runs -> Tokens]
  BY <1>4 DEF TokenExpires, DirectTypeOK, Tokens
<1>5. ASSUME Environment \/ UNCHANGED directVars
      PROVE  UNCHANGED <<stage, token>>
  BY <1>5 DEF Environment, directVars
<1>6. QED
  BY <1>1, <1>2, <1>3, <1>4, <1>5 DEF DirectNext, DirectStep, DirectTypeOK

\* The state always has its types.
THEOREM DirectTypeCorrect == DirectSpec => []DirectTypeOK
<1>1. DirectTypeOK /\ [DirectNext]_directVars => DirectTypeOK'
  BY StageAndTokenTyped, DirectNextRefines, NextTypeOK DEF DirectTypeOK, OpenNext
<1>2. QED
  BY InitDirectTypeOK, <1>1, PTL DEF DirectSpec

\* DirectRun adds guards to the steps of SandboxRun and hides nothing of them:
\* what holds of every behaviour of SandboxRun, open or not, holds here.
LEMMA DirectStepsAreRunSteps == DirectSpec => Spec /\ OpenSpec
<1>1. DirectInit => Init
  BY DEF DirectInit
<1>2. [Next]_vars => [OpenNext]_vars
  BY DEF OpenNext
<1>3. QED
  BY <1>1, <1>2, DirectNextRefines, PTL DEF DirectSpec, Spec, OpenSpec

\* Nor do expiring tokens let a run leave a sandbox behind without saying so.
THEOREM DirectNoSilentLeak == DirectSpec => []OnlyReportedLeaks
BY DirectStepsAreRunSteps, NoSilentLeak, PTL

\* A run over a direct connection that returns nil has done all of its work,
\* however often its token expired.
THEOREM DirectSuccessComplete == DirectSpec => []SuccessIsComplete
BY DirectStepsAreRunSteps, SuccessComplete, PTL

\* Over a direct connection too, a run asks for the deletion of its sandbox
\* only after it has tried every output.
THEOREM DirectOutputsCollectedFirst == DirectSpec => OutputsBeforeDelete
BY DirectStepsAreRunSteps, OutputsCollectedFirst, PTL

-----------------------------------------------------------------------------
\* The calls of r that are answered or under way, by step: enough of CallsMatch
\* to say what a returned run has sent.
SentMatches ==
    \A r \in Runs :
        /\ pc[r] = "deleting" => rpc[r] \in {"deleting", "deleted", "missing"}
        /\ rpc[r] \in {"deleting", "deleted", "missing"} => pc[r] \in {"deleting", "returned", "killed"}

SInv == DirectTypeOK /\ SentMatches /\ OnlySignalCutsCleanup

LEMMA InitSInv == DirectInit => SInv
<1> SUFFICES ASSUME DirectInit PROVE SInv
  OBVIOUS
<1>1. DirectTypeOK
  BY InitDirectTypeOK
<1>2. QED
  BY <1>1, RunsAssumption DEF DirectInit, Init, SInv, SentMatches, OnlySignalCutsCleanup

LEMMA NextSInv == SInv /\ [DirectNext]_directVars => SInv'
<1> SUFFICES ASSUME SInv, [DirectNext]_directVars
             PROVE  SInv'
  OBVIOUS
<1>0. DirectTypeOK /\ DirectTypeOK'
  BY StageAndTokenTyped, DirectNextRefines, NextTypeOK DEF DirectTypeOK, SInv, OpenNext
<1> DEFINE Sent == SentMatches /\ OnlySignalCutsCleanup
<1> USE <1>0, RunsAssumption
    DEF DirectTypeOK, TypeOK, Steps, Ended, ErrorParts, RpcStates, Goto, AddError,
        SInv, SentMatches, OnlySignalCutsCleanup
<1>1. ASSUME NEW r \in Runs, Connect(r)
      PROVE  Sent'
  BY <1>1 DEF Connect, Discover, RequestToken, ConnectFails, CreateNotSent, vars
<1>2. ASSUME NEW r \in Runs, CleanupNotAuthenticated(r)
      PROVE  Sent'
  BY <1>2 DEF CleanupNotAuthenticated, CannotAuthenticate, DeleteNotSent
<1>3. ASSUME NEW r \in Runs, \/ CreateSandbox(r) \/ CreateNotSent(r)
                             \/ CreateReturns(r) \/ CreateFails(r)
      PROVE  Sent'
  <2>1. CASE CreateSandbox(r)
    BY <2>1 DEF CreateSandbox
  <2>2. CASE CreateNotSent(r)
    BY <2>2 DEF CreateNotSent
  <2>3. CASE CreateReturns(r)
    BY <2>3 DEF CreateReturns
  <2>4. CASE CreateFails(r)
    BY <2>4 DEF CreateFails
  <2> QED
    BY <1>3, <2>1, <2>2, <2>3, <2>4
<1>4. ASSUME NEW r \in Runs, Prepare(r)
      PROVE  Sent'
  <2>1. CASE WaitSandboxReady(r)
    BY <2>1 DEF WaitSandboxReady
  <2>2. CASE WaitFails(r)
    BY <2>2 DEF WaitFails
  <2>3. CASE UploadPath(r)
    BY <2>3 DEF UploadPath
  <2>4. CASE UploadFails(r)
    BY <2>4 DEF UploadFails
  <2>5. CASE UploadsDone(r)
    BY <2>5 DEF UploadsDone
  <2> QED
    BY <1>4, <2>1, <2>2, <2>3, <2>4, <2>5 DEF Prepare
<1>5. ASSUME NEW r \in Runs, Agent(r) \/ Collect(r)
      PROVE  Sent'
  <2>1. CASE ExecSandbox(r)
    BY <2>1 DEF ExecSandbox
  <2>2. CASE ExecFails(r)
    BY <2>2 DEF ExecFails
  <2>3. CASE CollectOutputs(r)
    BY <2>3 DEF CollectOutputs
  <2>4. CASE DownloadPath(r)
    BY <2>4 DEF DownloadPath, NextDownload
  <2>5. CASE DownloadMissing(r)
    BY <2>5 DEF DownloadMissing, NextDownload
  <2>6. CASE DownloadFails(r)
    BY <2>6 DEF DownloadFails, NextDownload
  <2>7. CASE DownloadsDone(r)
    BY <2>7 DEF DownloadsDone
  <2> QED
    BY <1>5, <2>1, <2>2, <2>3, <2>4, <2>5, <2>6, <2>7 DEF Agent, Collect
<1>6. ASSUME NEW r \in Runs, \/ KeepSandbox(r) \/ DeleteSandbox(r)
                             \/ DeleteReturns(r) \/ DeleteFails(r)
      PROVE  Sent'
  <2>1. CASE KeepSandbox(r)
    BY <2>1 DEF KeepSandbox
  <2>2. CASE DeleteSandbox(r)
    BY <2>2 DEF DeleteSandbox
  <2>3. CASE DeleteReturns(r)
    BY <2>3 DEF DeleteReturns
  <2>4. CASE DeleteFails(r)
    BY <2>4 DEF DeleteFails
  <2> QED
    BY <1>6, <2>1, <2>2, <2>3, <2>4
<1>7. ASSUME NEW r \in Runs, GatewayStep(r)
      PROVE  Sent'
  BY <1>7 DEF GatewayStep, GatewayCreate, GatewayDelete
<1>8. ASSUME NEW r \in Runs, Signal(r) \/ Kill(r)
      PROVE  Sent'
  BY <1>8 DEF Signal, Kill
<1>9. ASSUME UNCHANGED <<pc, ctx, runErr, rpc>>
      PROVE  Sent'
  BY <1>9
<1>10. Sent'
  <2> HIDE <1>0, RunsAssumption DEF Sent
  <2>1. ASSUME NEW r \in Runs, AuthenticatedCall(r) \/ OtherStep(r)
        PROVE  Sent'
    BY <2>1, <1>3, <1>4, <1>5, <1>6
       DEF AuthenticatedCall, Call, OtherStep, Prepare, Agent, Collect
  <2>2. CASE Environment
    BY <2>2, <1>7, <1>8 DEF Environment
  <2>3. ASSUME NEW r \in Runs, TokenExpires(r)
        PROVE  Sent'
    BY <2>3, <1>9 DEF TokenExpires, vars
  <2>4. CASE UNCHANGED directVars
    BY <2>4, <1>9 DEF directVars
  <2>5. QED
    BY <1>1, <1>2, <2>1, <2>2, <2>3, <2>4 DEF DirectNext, DirectStep
<1>11. QED
  BY <1>0, <1>10

\* With an issuer that answers, a run whose sandbox was created and is not kept
\* asks for its deletion unless a signal has arrived.
THEOREM SignalAloneCutsCleanup == DirectSpec => []OnlySignalCutsCleanup
<1>1. SInv => OnlySignalCutsCleanup
  BY DEF SInv
<1>2. QED
  BY InitSInv, NextSInv, <1>1, PTL DEF DirectSpec
=============================================================================
