-------------------------- MODULE ApplyCommandProofs --------------------------
(***************************************************************************)
(* Theorems about ApplyCommand, for any number of commands, command lines  *)
(* and providers.                                                          *)
(***************************************************************************)
EXTENDS ApplyCommand, TLAPS

\* Whatever the errors, the result file gets one of the four words.
LEMMA StatusIsWord == \A p : Status(p) \in Statuses
  BY DEF Status, Statuses

LEMMA InitTypes == Init => TypeOK
  BY ApplyAssumption
  DEF Init, TypeOK, Steps, Ended, Phases, Errors, Statuses, NewFile, RequestType

LEMMA StepTypes == TypeOK /\ [Next]_vars => TypeOK'
<1> SUFFICES ASSUME TypeOK, [Next]_vars PROVE TypeOK'
  OBVIOUS
<1> USE DEF TypeOK, Steps, Ended, Phases, Errors, Goto, Step, SetPhase, AddError,
            Failures, Return, plan, prepared, gateway
<1>1. ASSUME NEW p \in Procs, Begin(p) PROVE TypeOK'
  BY <1>1 DEF Begin, RejectFlags, StartApplyResult, StartApplyResultFails, NoResultFile,
              LoadWorkflow, LoadFails, RenderWorkflow, NewFile
<1>2. ASSUME NEW p \in Procs, ConnectAndPlan(p) PROVE TypeOK'
  BY <1>2 DEF ConnectAndPlan, Connect, ConnectFails, PlanOffline, ReadCurrentState, ReadStateFails
<1>3. ASSUME NEW p \in Procs, Preflight(p) PROVE TypeOK'
  BY <1>3 DEF Preflight, RenderPlan, PreflightPlan, PreflightFails, VerifyFails, VerifyDone,
              VerifyProvider
<1>4. ASSUME NEW p \in Procs, BuildRunRequest(p) PROVE TypeOK'
  BY <1>4 DEF BuildRunRequest, PrepareSource, StagePayloads, PolicyAndOutputs, BuildFails
<1>5. ASSUME NEW p \in Procs, Execute(p) PROVE TypeOK'
  BY <1>5 DEF Execute, NothingToRun, BeginRun, SendCreate, CreateReturns, CreateFails,
              RunEnds, DeleteSandbox, DeleteFails
<1>6. ASSUME NEW p \in Procs, Deferred(p) PROVE TypeOK'
  <2>1. CASE CleanUp(p) \/ CloseClient(p) \/ NoFinish(p)
    BY <2>1 DEF CleanUp, CloseClient, NoFinish
  <2>2. Result(p) \in [by : Procs, status : Statuses, phase : Phases, commit : {"none", "known"}]
    BY StatusIsWord DEF Result
  <2>3. CASE Finish(p)
    BY <2>2, <2>3 DEF Finish
  <2>4. CASE FinishFails(p)
    BY <2>2, <2>4 DEF FinishFails
  <2> QED
    BY <1>6, <2>1, <2>3, <2>4 DEF Deferred
<1>7. ASSUME NEW p \in Procs, Signal(p) \/ Kill(p) PROVE TypeOK'
  BY <1>7 DEF Signal, Kill
<1>8. CASE ChangeProviders
  BY <1>8 DEF ChangeProviders
<1>9. CASE UNCHANGED vars
  BY <1>9 DEF vars
<1> QED
  BY <1>1, <1>2, <1>3, <1>4, <1>5, <1>6, <1>7, <1>8, <1>9 DEF Next, CommandStep

\* The variables always have their types.
THEOREM TypeCorrect == Spec => []TypeOK
<1>1. Init => TypeOK
  BY InitTypes
<1>2. TypeOK /\ [Next]_vars => TypeOK'
  BY StepTypes
<1> QED
  BY <1>1, <1>2, PTL DEF Spec

-----------------------------------------------------------------------------
(* The result file, the checks, what is left on the host                   *)

Building == {"source", "payloads", "outputs"}
InRun == {"execute", "creating", "running", "deleting", "cleanup"}
BeforeRun == {"start", "load", "connect", "readState", "planned", "verify", "reconcile"} \cup Building

\* A command with a result file passes its start, and touches a sandbox, only
\* as the owner of the file.
Claimed(p) ==
    /\ pc[p] \in BeforeRun => sandbox[p] = "none"
    /\ pc[p] = "start" => file.by # p
    /\ file.by = p => req[p].result
    /\ req[p].result /\ pc[p] # "start" /\ (pc[p] \notin Ended \/ sandbox[p] # "none")
          => file.by = p

\* What has been checked by the time p is at a step, and stays so.
Checked(p) ==
    LET running == pc[p] \in InRun \/ sandbox[p] # "none" IN
    /\ pc[p] \in {"verify", "reconcile"} \cup Building \/ running
          => req[p].refs \subseteq snapshot[p] /\ ~req[p].inference
    /\ pc[p] \in {"reconcile"} \cup Building \/ running => req[p].refs \subseteq verified[p]
    /\ pc[p] \in Building \/ running => WillRun(p)

\* What p has on the host at a step, and what its sandbox owes.
Tidy(p) ==
    /\ pc[p] \notin Building \cup InRun \cup {"reconcile", "killed"} => staged[p] = {}
    /\ pc[p] = "reconcile" /\ ~WillRun(p) => staged[p] = {}
    /\ pc[p] \in {"start", "load", "connect", "finish", "exited"} => client[p] # "open"
    /\ pc[p] \in {"cleanup", "close", "finish", "exited"} /\ err[p] = {} /\ sandbox[p] = "up"
          => req[p].keep

Safe == \A p \in Procs : Claimed(p) /\ Checked(p) /\ Tidy(p)

\* The facts of the failing steps that the rest of the proofs need.
LEMMA WrittenByOwner == ASSUME NEW p, FinishFails(p) PROVE file'.by = p
<1>1. CASE file' = Result(p)
  BY <1>1 DEF Result
<1>2. CASE file' = [Result(p) EXCEPT !.status = "torn"]
  BY <1>2 DEF Result
<1> QED
  BY <1>1, <1>2 DEF FinishFails

LEMMA FailureAdds ==
  ASSUME NEW p \in Procs, TypeOK, \E e \in Errors : AddError(p, e)
  PROVE  err'[p] # {} /\ \A q \in Procs \ {p} : err'[q] = err[q]
  BY DEF TypeOK, AddError

LEMMA InitSafe == Init => Safe
<1> SUFFICES ASSUME Init, NEW p \in Procs PROVE Claimed(p) /\ Checked(p) /\ Tidy(p)
  BY DEF Safe
<1>1. file.by # p
  BY ApplyAssumption DEF Init, NewFile
<1>2. /\ pc[p] = "start" /\ sandbox[p] = "none"
      /\ staged[p] = {} /\ client[p] = "none"
  BY DEF Init
<1> QED
  BY <1>1, <1>2 DEF Claimed, Checked, Tidy, BeforeRun, Building, InRun, Ended

LEMMA StepSafe == TypeOK /\ Safe /\ [Next]_vars => Safe'
<1> SUFFICES ASSUME TypeOK, Safe, [Next]_vars PROVE Safe'
  OBVIOUS
<1> USE ApplyAssumption
    DEF TypeOK, Safe, Claimed, Checked, Tidy, BeforeRun, Building, InRun, Ended, WillRun,
        Goto, Step, SetPhase, AddError, Return, plan, prepared, gateway
<1>1. ASSUME NEW p \in Procs, Begin(p) PROVE Safe'
  BY <1>1 DEF Begin, RejectFlags, StartApplyResult, StartApplyResultFails, NoResultFile,
              LoadWorkflow, LoadFails, RenderWorkflow, NewFile
<1>2. ASSUME NEW p \in Procs, ConnectAndPlan(p) PROVE Safe'
  BY <1>2 DEF ConnectAndPlan, Connect, ConnectFails, PlanOffline, ReadCurrentState, ReadStateFails
<1>3. ASSUME NEW p \in Procs, Preflight(p) PROVE Safe'
  BY <1>3 DEF Preflight, RenderPlan, PreflightPlan, PreflightFails, VerifyFails, VerifyDone,
              VerifyProvider, PlanIsClean
<1>4. ASSUME NEW p \in Procs, BuildRunRequest(p) PROVE Safe'
  BY <1>4 DEF BuildRunRequest, PrepareSource, StagePayloads, PolicyAndOutputs, BuildFails
<1>5. ASSUME NEW p \in Procs, Execute(p) PROVE Safe'
  <2>1. CASE NothingToRun(p) \/ BeginRun(p)
    BY <2>1 DEF NothingToRun, BeginRun
  <2>2. CASE SendCreate(p)
    BY <2>2 DEF SendCreate
  <2>3. CASE CreateReturns(p)
    BY <2>3 DEF CreateReturns
  <2>4. CASE CreateFails(p)
    <3>1. /\ pc[p] \in {"execute", "creating"}
          /\ pc' = [pc EXCEPT ![p] = "cleanup"]
          /\ UNCHANGED <<req, ctx, phase, plan, verified, prepared, client, gateway, file>>
      BY <2>4 DEF CreateFails
    <3>2. \E e \in Errors : AddError(p, e)
      BY <2>4 DEF CreateFails, Failures, Errors
    <3>3. err'[p] # {} /\ \A q \in Procs \ {p} : err'[q] = err[q]
      BY <3>2, FailureAdds
    <3> HIDE DEF AddError
    <3> QED
      BY <3>1, <3>3
  <2>5. CASE RunEnds(p)
    BY <2>5 DEF RunEnds
  <2>6. CASE DeleteSandbox(p)
    BY <2>6 DEF DeleteSandbox
  <2>7. CASE DeleteFails(p)
    <3>1. err'[p] # {} /\ \A q \in Procs \ {p} : err'[q] = err[q]
      BY <2>7 DEF DeleteFails
    <3> HIDE DEF AddError
    <3> QED
      BY <2>7, <3>1 DEF DeleteFails
  <2> QED
    BY <1>5, <2>1, <2>2, <2>3, <2>4, <2>5, <2>6, <2>7 DEF Execute
<1>6. ASSUME NEW p \in Procs, Deferred(p) PROVE Safe'
  <2>1. CASE CleanUp(p)
    BY <2>1 DEF CleanUp
  <2>2. CASE CloseClient(p)
    BY <2>2 DEF CloseClient
  <2>3. CASE NoFinish(p)
    BY <2>3 DEF NoFinish
  <2>4. CASE Finish(p)
    BY <2>4 DEF Finish, Result
  <2>5. CASE FinishFails(p)
    <3>1. file'.by = p
      BY <2>5, WrittenByOwner
    <3>2. err'[p] # {} /\ \A q \in Procs \ {p} : err'[q] = err[q]
      BY <2>5 DEF FinishFails
    <3> HIDE DEF AddError
    <3> QED
      BY <2>5, <3>1, <3>2 DEF FinishFails
  <2> QED
    BY <1>6, <2>1, <2>2, <2>3, <2>4, <2>5 DEF Deferred
<1>7. ASSUME NEW p \in Procs, Signal(p) \/ Kill(p) PROVE Safe'
  BY <1>7 DEF Signal, Kill
<1>8. CASE ChangeProviders
  BY <1>8 DEF ChangeProviders
<1>9. CASE UNCHANGED vars
  BY <1>9 DEF vars
<1> QED
  BY <1>1, <1>2, <1>3, <1>4, <1>5, <1>6, <1>7, <1>8, <1>9 DEF Next, CommandStep

-----------------------------------------------------------------------------
(* What the result file says                                               *)

Known(p) == IF req[p].source THEN "known" ELSE "none"

\* What p has to report at a step: its errors, and the commit of its source.
Recorded(p) ==
    /\ "write" \in err[p] => pc[p] = "exited"
    /\ "canceled" \in err[p] => ctx[p] = "cancelled"
    /\ req[p].result /\ pc[p] \notin {"start"} \cup Ended => req[p].mode = "execute"
    /\ req[p].result /\ pc[p] \notin {"start", "load", "finish"} \cup Ended => req[p].hasRun
    /\ req[p].result /\ err[p] = {} /\ pc[p] \in {"reconcile", "close", "finish"} \cup InRun
          => commit[p] = Known(p)

\* What the status of a written file means for its command.
Truth(p) ==
    /\ file.status # "empty"
    /\ file.status \in Statuses =>
          /\ file.status = "succeeded" <=> err[p] \subseteq {"write"}
          /\ file.status = "cancelled" => ctx[p] = "cancelled"
          /\ file.status = "failed" => ctx[p] = "live"

\* The file of p is empty until p has exited by itself, and true from then on.
Told(p) ==
    /\ file.by = p /\ pc[p] # "exited" => file.status = "empty"
    /\ file.by = p /\ pc[p] = "exited" => Truth(p)
    /\ pc[p] = "exited" /\ req[p].result /\ err[p] = {} =>
          file = [by |-> p, status |-> "succeeded", phase |-> "complete", commit |-> Known(p)]

Honest == \A p \in Procs : Recorded(p) /\ Told(p)

LEMMA StatusTells ==
  ASSUME NEW p \in Procs, TypeOK, Recorded(p), pc[p] = "finish"
  PROVE  /\ Status(p) = "succeeded" <=> err[p] = {}
         /\ Status(p) = "cancelled" => ctx[p] = "cancelled"
         /\ Status(p) = "failed" => ctx[p] = "live"
         /\ "write" \notin err[p]
  BY DEF TypeOK, Recorded, Status

\* A step in which p fails adds an error, never "write", and "canceled" only
\* after a signal.
Failed(p) ==
    /\ err'[p] # {}
    /\ "write" \in err'[p] => "write" \in err[p]
    /\ "canceled" \in err'[p] => "canceled" \in err[p] \/ ctx[p] = "cancelled"
    /\ \A q \in Procs \ {p} : err'[q] = err[q]

LEMMA FailureIsFailed ==
  ASSUME NEW p \in Procs, TypeOK, NEW e \in Failures(p), AddError(p, e)
  PROVE  Failed(p)
  BY DEF TypeOK, AddError, Failures, Failed

\* A file that p is about to write is p's, and nobody else has reported success.
LEMMA OwnerFinishes ==
  ASSUME NEW p \in Procs, Safe, Honest, req[p].result, pc[p] = "finish"
  PROVE  /\ file.by = p
         /\ \A q \in Procs \ {p} : ~(pc[q] = "exited" /\ req[q].result /\ err[q] = {})
<1>1. file.by = p
  BY DEF Safe, Claimed, Ended
<1>2. ASSUME NEW q \in Procs \ {p}, pc[q] = "exited", req[q].result, err[q] = {}
      PROVE  FALSE
  <2>1. file = [by |-> q, status |-> "succeeded", phase |-> "complete", commit |-> Known(q)]
    BY <1>2 DEF Honest, Told
  <2> QED
    BY <1>1, <2>1
<1> QED
  BY <1>1, <1>2

LEMMA InitHonest == Init => Honest
<1> SUFFICES ASSUME Init, NEW p \in Procs PROVE Recorded(p) /\ Told(p)
  BY DEF Honest
<1>1. file.by # p
  BY ApplyAssumption DEF Init, NewFile
<1>2. pc[p] = "start" /\ err[p] = {}
  BY DEF Init
<1> QED
  BY <1>1, <1>2 DEF Recorded, Told, InRun, Ended

LEMMA StepHonest == TypeOK /\ Safe /\ Honest /\ [Next]_vars => Honest'
<1> SUFFICES ASSUME TypeOK, Safe, Honest, [Next]_vars PROVE Honest'
  OBVIOUS
<1> USE ApplyAssumption
    DEF TypeOK, Honest, Recorded, Told, Truth, Known, Building, InRun, Ended, WillRun,
        Goto, Step, SetPhase, AddError, Failures, Failed, Return, plan, prepared, gateway
<1>1. ASSUME NEW p \in Procs, Begin(p) PROVE Honest'
  <2>1. CASE RejectFlags(p)
    <3>1. \E e \in Failures(p) : AddError(p, e)
      BY <2>1 DEF RejectFlags
    <3>2. Failed(p)
      BY <3>1, FailureIsFailed
    <3> HIDE DEF AddError, Failures
    <3> QED
      BY <2>1, <3>2 DEF RejectFlags, Safe, Claimed
  <2>2. CASE StartApplyResult(p)
    BY <2>2 DEF StartApplyResult, NewFile
  <2>3. CASE StartApplyResultFails(p)
    <3>1. \E e \in Failures(p) : AddError(p, e)
      BY <2>3 DEF StartApplyResultFails
    <3>2. Failed(p)
      BY <3>1, FailureIsFailed
    <3> HIDE DEF AddError, Failures
    <3> QED
      BY <2>3, <3>2 DEF StartApplyResultFails, Safe, Claimed
  <2>4. CASE NoResultFile(p)
    BY <2>4 DEF NoResultFile, Safe, Claimed
  <2>5. CASE LoadWorkflow(p)
    BY <2>5 DEF LoadWorkflow
  <2>6. CASE LoadFails(p)
    <3>1. \E e \in Failures(p) : AddError(p, e)
      BY <2>6 DEF LoadFails
    <3>2. Failed(p)
      BY <3>1, FailureIsFailed
    <3> HIDE DEF AddError, Failures
    <3> QED
      BY <2>6, <3>2 DEF LoadFails
  <2>7. CASE RenderWorkflow(p)
    BY <2>7 DEF RenderWorkflow
  <2> QED
    BY <1>1, <2>1, <2>2, <2>3, <2>4, <2>5, <2>6, <2>7 DEF Begin
<1>2. ASSUME NEW p \in Procs, ConnectAndPlan(p) PROVE Honest'
  <2>1. CASE Connect(p)
    BY <2>1 DEF Connect
  <2>2. CASE ConnectFails(p)
    BY <2>2 DEF ConnectFails
  <2>3. CASE PlanOffline(p)
    BY <2>3 DEF PlanOffline
  <2>4. CASE ReadCurrentState(p)
    BY <2>4 DEF ReadCurrentState
  <2>5. CASE ReadStateFails(p)
    BY <2>5 DEF ReadStateFails
  <2> QED
    BY <1>2, <2>1, <2>2, <2>3, <2>4, <2>5 DEF ConnectAndPlan
<1>3. ASSUME NEW p \in Procs, Preflight(p) PROVE Honest'
  <2>1. CASE RenderPlan(p)
    BY <2>1 DEF RenderPlan
  <2>2. CASE PreflightPlan(p)
    BY <2>2 DEF PreflightPlan
  <2>3. CASE PreflightFails(p)
    <3>1. \E e \in Failures(p) : AddError(p, e)
      BY <2>3 DEF PreflightFails
    <3>2. Failed(p)
      BY <3>1, FailureIsFailed
    <3> HIDE DEF AddError, Failures
    <3> QED
      BY <2>3, <3>2 DEF PreflightFails
  <2>4. CASE VerifyFails(p)
    <3>1. \E e \in Failures(p) : AddError(p, e)
      BY <2>4 DEF VerifyFails
    <3>2. Failed(p)
      BY <3>1, FailureIsFailed
    <3> HIDE DEF AddError, Failures
    <3> QED
      BY <2>4, <3>2 DEF VerifyFails
  <2>5. CASE VerifyDone(p)
    BY <2>5 DEF VerifyDone
  <2>6. CASE \E ref \in Providers : VerifyProvider(p, ref)
    BY <2>6 DEF VerifyProvider
  <2> QED
    BY <1>3, <2>1, <2>2, <2>3, <2>4, <2>5, <2>6 DEF Preflight
<1>4. ASSUME NEW p \in Procs, BuildRunRequest(p) PROVE Honest'
  <2>1. CASE PrepareSource(p)
    BY <2>1 DEF PrepareSource
  <2>2. CASE StagePayloads(p)
    BY <2>2 DEF StagePayloads
  <2>3. CASE PolicyAndOutputs(p)
    BY <2>3 DEF PolicyAndOutputs
  <2>4. CASE BuildFails(p)
    <3>1. \E e \in Failures(p) : AddError(p, e)
      BY <2>4 DEF BuildFails
    <3>2. Failed(p)
      BY <3>1, FailureIsFailed
    <3> HIDE DEF AddError, Failures
    <3> QED
      BY <2>4, <3>2 DEF BuildFails
  <2> QED
    BY <1>4, <2>1, <2>2, <2>3, <2>4 DEF BuildRunRequest
<1>5. ASSUME NEW p \in Procs, Execute(p) PROVE Honest'
  <2>1. CASE NothingToRun(p) \/ BeginRun(p)
    BY <2>1 DEF NothingToRun, BeginRun
  <2>2. CASE SendCreate(p)
    BY <2>2 DEF SendCreate
  <2>3. CASE CreateReturns(p)
    BY <2>3 DEF CreateReturns
  <2>4. CASE CreateFails(p)
    BY <2>4 DEF CreateFails
  <2>5. CASE RunEnds(p)
    BY <2>5 DEF RunEnds
  <2>6. CASE DeleteSandbox(p)
    BY <2>6 DEF DeleteSandbox
  <2>7. CASE DeleteFails(p)
    BY <2>7 DEF DeleteFails
  <2> QED
    BY <1>5, <2>1, <2>2, <2>3, <2>4, <2>5, <2>6, <2>7 DEF Execute
<1>6. ASSUME NEW p \in Procs, Deferred(p) PROVE Honest'
  <2>1. CASE CleanUp(p)
    BY <2>1 DEF CleanUp
  <2>2. CASE CloseClient(p)
    BY <2>2 DEF CloseClient
  <2>3. CASE NoFinish(p)
    BY <2>3 DEF NoFinish, Safe, Claimed
  <2>4. CASE Finish(p)
    <3>1. /\ pc[p] = "finish" /\ req[p].result
          /\ pc' = [pc EXCEPT ![p] = "exited"]
          /\ UNCHANGED <<req, ctx, err, commit>>
      BY <2>4 DEF Finish
    <3>2. /\ file'.by = p /\ file'.status = Status(p) /\ file'.commit = commit[p]
          /\ file'.phase = IF err[p] = {} THEN "complete" ELSE phase[p]
          /\ file' = [by |-> p, status |-> file'.status, phase |-> file'.phase,
                      commit |-> file'.commit]
      BY <2>4 DEF Finish, Result
    <3>3. Truth(p)'
      BY <3>1, <3>2, StatusTells, StatusIsWord DEF Statuses
    <3>4. err[p] = {} => commit[p] = Known(p)
      BY <3>1
    <3>5. Told(p)'
      BY <3>1, <3>2, <3>3, <3>4, StatusTells
    <3>6. \A q \in Procs \ {p} : Told(q)'
      BY <3>1, <3>2, OwnerFinishes
    <3>7. \A q \in Procs : Recorded(q)'
      BY <3>1
    <3> QED
      BY <3>5, <3>6, <3>7
  <2>5. CASE FinishFails(p)
    <3>1. /\ pc[p] = "finish" /\ req[p].result
          /\ pc' = [pc EXCEPT ![p] = "exited"]
          /\ err' = [err EXCEPT ![p] = err[p] \cup {"write"}]
          /\ UNCHANGED <<req, ctx, commit>>
      BY <2>5 DEF FinishFails
    <3>2. file'.by = p /\ file'.status \in {Status(p), "torn"}
      <4>1. CASE file' = Result(p)
        BY <4>1 DEF Result
      <4>2. CASE file' = [Result(p) EXCEPT !.status = "torn"]
        BY <4>2 DEF Result
      <4> QED
        BY <2>5, <4>1, <4>2 DEF FinishFails
    <3>3. /\ err'[p] # {} /\ (err'[p] \subseteq {"write"} <=> err[p] = {})
          /\ "canceled" \in err'[p] => "canceled" \in err[p]
          /\ \A q \in Procs \ {p} : err'[q] = err[q]
      BY <3>1, StatusTells
    <3>4. Truth(p)'
      BY <3>1, <3>2, <3>3, StatusTells, StatusIsWord DEF Statuses
    <3>5. Told(p)'
      BY <3>1, <3>2, <3>3, <3>4
    <3>6. \A q \in Procs \ {p} : Told(q)'
      BY <3>1, <3>2, <3>3, OwnerFinishes
    <3>7. \A q \in Procs : Recorded(q)'
      BY <3>1, <3>3
    <3> QED
      BY <3>5, <3>6, <3>7
  <2> QED
    BY <1>6, <2>1, <2>2, <2>3, <2>4, <2>5 DEF Deferred
<1>7. ASSUME NEW p \in Procs, Signal(p) \/ Kill(p) PROVE Honest'
  BY <1>7 DEF Signal, Kill
<1>8. CASE ChangeProviders
  BY <1>8 DEF ChangeProviders
<1>9. CASE UNCHANGED vars
  BY <1>9 DEF vars
<1> QED
  BY <1>1, <1>2, <1>3, <1>4, <1>5, <1>6, <1>7, <1>8, <1>9 DEF Next, CommandStep

-----------------------------------------------------------------------------
LEMMA Invariant == Spec => [](TypeOK /\ Safe /\ Honest)
<1>1. Init => TypeOK /\ Safe /\ Honest
  BY InitTypes, InitSafe, InitHonest
<1>2. TypeOK /\ Safe /\ Honest /\ [Next]_vars => (TypeOK /\ Safe /\ Honest)'
  BY StepTypes, StepSafe, StepHonest
<1> QED
  BY <1>1, <1>2, PTL DEF Spec

\* A command with a result file that has touched a sandbox owns the file
\* (apply_result.go:33), however many commands name the same path.
THEOREM FileClaimed == Spec => []ClaimBeforeMutation
<1>1. Safe => ClaimBeforeMutation
  BY DEF Safe, Claimed, ClaimBeforeMutation, BeforeRun
<1> QED
  BY <1>1, Invariant, PTL

\* Only a checked execution ever asks for a sandbox, whatever happens to the
\* providers between the plan, their verification and the run.
THEOREM SandboxAfterChecks == Spec => []OnlyCheckedRuns
<1>1. TypeOK /\ Safe => OnlyCheckedRuns
  BY DEF TypeOK, Safe, Checked, OnlyCheckedRuns, WillRun
<1> QED
  BY <1>1, Invariant, PTL

\* A command that ends by itself leaves nothing on the host, and exits with 0
\* only if its sandbox is gone or kept by request.
THEOREM EndsClean == Spec => []ExitsClean
<1>1. TypeOK /\ Safe => ExitsClean
  BY DEF TypeOK, Safe, Tidy, ExitsClean, Building, InRun
<1> QED
  BY <1>1, Invariant, PTL

\* The result file says what happened, the deferred calls included.
THEOREM FileTellsTruth == Spec => []ResultTruthful
<1>1. TypeOK /\ Honest => ResultTruthful
  BY DEF Honest, Told, Truth, ResultTruthful, Statuses
<1> QED
  BY <1>1, Invariant, PTL

\* A command never exits without having written to the file it claimed, and
\* exit code 0 means that the file is complete.
THEOREM FileIsWritten == Spec => []ResultWritten
<1>1. Honest => ResultWritten
  BY DEF Honest, Told, Truth, Known, ResultWritten
<1> QED
  BY <1>1, Invariant, PTL
=============================================================================
