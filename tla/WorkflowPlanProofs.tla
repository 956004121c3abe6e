-------------------------- MODULE WorkflowPlanProofs --------------------------
(***************************************************************************)
(* Theorems about WorkflowPlan, for any workflows and providers: what a    *)
(* plan shows is what was seen, no sandbox is touched without it, and the  *)
(* calls of a run are those of the plan, in its order.                     *)
(***************************************************************************)
EXTENDS WorkflowPlan, SequenceTheorems, TLAPS

Loading == {"load", "connect"}
Reading == {"health", "providers", "inference", "build"}
Planned == {"preflight", "verify", "prepare", "create", "upload", "download",
            "downloadFailed", "cleanup", "cleanupFailed", "shown", "failed",
            "succeeded", "nothing"}
Checked == Planned \ {"preflight", "shown"}
Running == {"upload", "download", "downloadFailed", "cleanup", "cleanupFailed",
            "failed", "succeeded"}

CurrentType == [inspected : BOOLEAN, reachable : BOOLEAN, known : BOOLEAN,
                providers : SUBSET Providers,
                inference : {"incapable", "absent", "differs", "matches"}]

\* The snapshot was taken between the start of the command and now, and a
\* reachable target had its providers listed by the time the plan is built.
Snapshot ==
    /\ current \in CurrentType
    /\ gateway \subseteq Providers /\ always \subseteq gateway /\ gateway \subseteq sometime
    /\ current.known => always \subseteq current.providers /\ current.providers \subseteq sometime
    /\ pc = "health" \/ current.reachable => current.inspected
    /\ pc \notin Loading \cup {"health", "providers", "refused"} =>
          (current.reachable => current.known)
    /\ pc = "load" \/ pc = "connect" => current = Uninspected

\* The plan is built once, from what the rest of the command goes by.
FromPlan ==
    /\ pc \in Loading \cup Reading \cup Planned \cup {"refused"}
    /\ pc \in Loading \cup Reading => planned = NoPlan
    /\ pc \in Planned => planned = Build(workflow, current)
    /\ pc = "refused" => planned = NoPlan \/ planned = Build(workflow, current)
    /\ pc \in Checked => PlanIsClean
    /\ pc \notin Running => calls = <<>>

PlanInv == Snapshot /\ FromPlan

-----------------------------------------------------------------------------
LEMMA InitPlanInv == Init => PlanInv
<1> SUFFICES ASSUME Init PROVE PlanInv
  OBVIOUS
<1>1. Uninspected \in CurrentType /\ ~Uninspected.known /\ ~Uninspected.reachable
  BY DEF Uninspected, CurrentType
<1> QED
  BY <1>1 DEF Init, PlanInv, Snapshot, FromPlan, Loading, Reading, Planned, Checked, Running

\* The steps that read keep the snapshot's promise.
LEMMA NextSnapshot == PlanInv /\ [Next]_vars => Snapshot'
<1> SUFFICES ASSUME PlanInv, [Next]_vars PROVE Snapshot'
  OBVIOUS
<1> USE DEF PlanInv, Snapshot, CurrentType, Loading, Step
<1>1. CASE LoadWorkflow
  BY <1>1 DEF LoadWorkflow, history
<1>2. CASE Connect
  BY <1>2 DEF Connect, Uninspected, history
<1>3. CASE ConnectFails
  <2>1. current = Uninspected /\ ~Uninspected.reachable
    BY <1>3 DEF ConnectFails, Uninspected
  <2>2. pc' \in {"build", "refused"} /\ UNCHANGED <<current, history>>
    BY <1>3 DEF ConnectFails
  <2> QED
    BY <2>1, <2>2 DEF history
<1>4. CASE ReadHealth
  BY <1>4 DEF ReadHealth, history
<1>5. CASE ReadProviders
  BY <1>5 DEF ReadProviders, history
<1>6. CASE ReadUnavailable
  BY <1>6 DEF ReadUnavailable, Unavailable, history
<1>7. CASE ReadInference
  BY <1>7 DEF ReadInference, history
<1>8. CASE ReadFails
  BY <1>8 DEF ReadFails, history
<1>9. CASE BuildPlan
  BY <1>9 DEF BuildPlan, history
<1>10. CASE Check
  BY <1>10 DEF Check, Preflight, VerifyProviders, NothingToRun, BuildRunRequest, BuildFails, history
<1>11. CASE Run
  BY <1>11 DEF Run, CreateSandbox, UploadPath, ExecSandbox, DownloadPath, DownloadsDone,
               Cleanup, afterRequest, history
<1>12. CASE ChangeProviders
  BY <1>12 DEF ChangeProviders
<1>13. CASE UNCHANGED vars
  BY <1>13 DEF vars
<1> QED
  BY <1>1, <1>2, <1>3, <1>4, <1>5, <1>6, <1>7, <1>8, <1>9, <1>10, <1>11, <1>12, <1>13
     DEF Next, Read

LEMMA NextFromPlan == PlanInv /\ [Next]_vars => FromPlan'
<1> SUFFICES ASSUME PlanInv, [Next]_vars PROVE FromPlan'
  OBVIOUS
<1> USE DEF PlanInv, FromPlan, Loading, Reading, Planned, Checked, Running, Step
<1>1. CASE LoadWorkflow
  BY <1>1 DEF LoadWorkflow, execution
<1>2. CASE Connect \/ ConnectFails \/ ReadHealth \/ ReadProviders \/ ReadUnavailable
           \/ ReadInference \/ ReadFails
  BY <1>2 DEF Connect, ConnectFails, ReadHealth, ReadProviders, ReadUnavailable, Unavailable,
              ReadInference, ReadFails, execution
<1>3. CASE BuildPlan
  BY <1>3 DEF BuildPlan, execution
<1>4. ASSUME UNCHANGED <<workflow, current, planned>>
      PROVE  PlanIsClean' = PlanIsClean /\ Build(workflow, current)' = Build(workflow, current)
  BY <1>4 DEF PlanIsClean, Build
<1>5. CASE Check
  BY <1>4, <1>5 DEF Check, Preflight, VerifyProviders, NothingToRun, BuildRunRequest,
                    BuildFails, execution
<1>6. CASE Run
  BY <1>4, <1>6 DEF Run, CreateSandbox, UploadPath, ExecSandbox, DownloadPath, DownloadsDone,
                    Cleanup, Make, afterRequest
<1>7. CASE ChangeProviders
  BY <1>4, <1>7 DEF ChangeProviders, execution
<1>8. CASE UNCHANGED vars
  BY <1>4, <1>8 DEF vars
<1> QED
  BY <1>1, <1>2, <1>3, <1>5, <1>6, <1>7, <1>8 DEF Next, Read

LEMMA PlanInvHolds == Spec => []PlanInv
<1>1. PlanInv /\ [Next]_vars => PlanInv'
  BY NextSnapshot, NextFromPlan DEF PlanInv
<1> QED
  BY <1>1, InitPlanInv, PTL DEF Spec

-----------------------------------------------------------------------------
LEMMA BuildProviders ==
    ASSUME NEW w, NEW cur
    PROVE  /\ DOMAIN Build(w, cur).providers = ProviderReferences(w)
           /\ \A name \in ProviderReferences(w) :
                 Build(w, cur).providers[name] = ProviderAction(cur, name)
BY DEF Build

\* A provider that was there all along is never shown as missing, nor one that
\* never was as found, for any schedule of failing reads and changing providers.
THEOREM PlanShowsSeen == Spec => []ShownAsSeen
<1>1. PlanInv => ShownAsSeen
  <2> SUFFICES ASSUME PlanInv, NEW name \in DOMAIN planned.providers
               PROVE  /\ planned.providers[name] = "missing" => name \notin always
                      /\ planned.providers[name] = "noop" => name \in sometime
    BY DEF ShownAsSeen
  <2>1. CASE planned = NoPlan
    BY <2>1 DEF NoPlan
  <2>2. CASE planned = Build(workflow, current)
    <3>1. planned.providers[name] = ProviderAction(current, name)
      BY <2>2, BuildProviders
    <3> QED
      BY <3>1 DEF ProviderAction, PlanInv, Snapshot, CurrentType
  <2> QED
    BY <2>1, <2>2 DEF PlanInv, FromPlan, Loading, Reading, Planned
<1> QED
  BY <1>1, PlanInvHolds, PTL

\* A sandbox is touched only when the plan shows a reachable target and every
\* provider as found.
THEOREM PlanBeforeRun == Spec => []PlanGatesRun
<1>1. PlanInv => PlanGatesRun
  <2> SUFFICES ASSUME PlanInv, calls # <<>>
               PROVE  /\ planned.target = "validate"
                      /\ \A name \in DOMAIN planned.providers :
                            planned.providers[name] = "noop"
                      /\ planned.inference = "none"
    BY DEF PlanGatesRun
  <2>1. /\ planned = Build(workflow, current) /\ PlanIsClean
        /\ current.reachable => current.known /\ current.inspected
        /\ current \in CurrentType
    BY DEF PlanInv, Snapshot, FromPlan, Loading, Reading, Planned, Checked, Running
  <2>2. current.reachable /\ ~InferenceConfigured(workflow)
    BY <2>1 DEF PlanIsClean
  <2>3. planned.target = "validate" /\ planned.inference = "none"
    BY <2>1, <2>2 DEF Build, TargetAction
  <2>4. ASSUME NEW name \in DOMAIN planned.providers
        PROVE  planned.providers[name] = "noop"
    <3>1. planned.providers[name] # "missing"
      BY <2>1 DEF PlanIsClean
    <3>2. planned.providers[name] = ProviderAction(current, name)
      BY <2>1, BuildProviders
    <3> QED
      BY <2>1, <2>2, <3>1, <3>2 DEF ProviderAction
  <2> QED
    BY <2>3, <2>4
<1> QED
  BY <1>1, PlanInvHolds, PTL

-----------------------------------------------------------------------------
(* The calls                                                               *)

Images == {"none", "workflow", "environment", "default"}

\* Where the run of a plan changes from one kind of call to the next.
NumUploads(w) == (IF w.source THEN 1 ELSE 0) + w.payloads
BeforeDownloads(w) == 1 + NumUploads(w) + (IF w.agent THEN 1 ELSE 0)
BeforeDelete(w) == BeforeDownloads(w) + Len(w.outputs)
Total(w) == BeforeDelete(w) + (IF w.keep THEN 0 ELSE 1)

First(m) == [i \in 1..m |-> planned.run[i]]

\* The calls of a run that goes well are the first of its plan; a run that
\* fails goes on with the deletion, the plan's last.
Progress ==
    /\ pc = "create" => calls = <<>> /\ item = 1
    /\ pc = "upload" => item \in 1 .. NumUploads(workflow) + 1 /\ calls = First(item)
    /\ pc \in {"download", "downloadFailed"} =>
          /\ item \in 1 .. Len(workflow.outputs) + 1
          /\ calls = First(BeforeDownloads(workflow) + item - 1)
    /\ pc = "cleanup" => calls = First(BeforeDelete(workflow))
    /\ pc = "cleanupFailed" => \E m \in 1 .. BeforeDelete(workflow) : calls = First(m)
    /\ pc = "succeeded" => calls = First(Total(workflow))
    /\ pc = "failed" =>
          \E m \in 1 .. BeforeDelete(workflow) :
              \/ calls = First(m)
              \/ /\ ~workflow.keep
                 /\ calls = Append(First(m), planned.run[Total(workflow)])

\* The run that is carried out is the one that was planned.
Requested ==
    /\ command \in {"plan", "dryRun", "setup", "apply"}
    /\ flags \in [agent : BOOLEAN, tty : BOOLEAN, image : BOOLEAN]
    /\ workflow \in WorkflowType(Images)
    /\ item \in Nat
    /\ pc # "load" /\ RunConfigured(workflow) => workflow.image # "none"
    /\ pc \in Running \cup {"create"} =>
          /\ RunConfigured(workflow)
          /\ request = [image |-> workflow.image, uploads |-> RequestUploads(workflow),
                        command |-> workflow.agent, downloads |-> workflow.outputs,
                        keep |-> workflow.keep]
    /\ pc \notin Running => item = 1

CallsMade == Requested /\ Progress

-----------------------------------------------------------------------------
LEMMA Numbers ==
    ASSUME NEW w \in WorkflowType(Images)
    PROVE  /\ NumUploads(w) \in Nat /\ BeforeDownloads(w) \in Nat /\ BeforeDelete(w) \in Nat
           /\ Len(w.outputs) \in Nat /\ w.payloads \in Nat /\ Total(w) \in Nat
           /\ w.source \in BOOLEAN /\ w.agent \in BOOLEAN /\ w.keep \in BOOLEAN
           /\ NumUploads(w) = IF w.source THEN 1 + w.payloads ELSE w.payloads
           /\ BeforeDownloads(w) = IF w.agent THEN NumUploads(w) + 2 ELSE NumUploads(w) + 1
           /\ BeforeDelete(w) = BeforeDownloads(w) + Len(w.outputs)
           /\ Total(w) = IF w.keep THEN BeforeDelete(w) ELSE BeforeDelete(w) + 1
<1>1. /\ w.payloads \in Nat /\ w.outputs \in Seq({"required", "optional"})
      /\ w.source \in BOOLEAN /\ w.agent \in BOOLEAN /\ w.keep \in BOOLEAN
  BY DEF WorkflowType
<1>2. Len(w.outputs) \in Nat
  BY <1>1
<1>3. NumUploads(w) \in Nat /\ NumUploads(w) = IF w.source THEN 1 + w.payloads ELSE w.payloads
  BY <1>1 DEF NumUploads
<1>4. /\ BeforeDownloads(w) \in Nat
      /\ BeforeDownloads(w) = IF w.agent THEN NumUploads(w) + 2 ELSE NumUploads(w) + 1
  BY <1>1, <1>3 DEF BeforeDownloads
<1>5. BeforeDelete(w) \in Nat /\ BeforeDelete(w) = BeforeDownloads(w) + Len(w.outputs)
  BY <1>2, <1>4 DEF BeforeDelete
<1>6. Total(w) \in Nat /\ Total(w) = IF w.keep THEN BeforeDelete(w) ELSE BeforeDelete(w) + 1
  BY <1>1, <1>5 DEF Total
<1> QED
  BY <1>1, <1>2, <1>3, <1>4, <1>5, <1>6

CallType == [op : {"create", "upload", "execute", "download", "delete"},
             what : Images \cup {"source", "payload", "agent", "output"}, index : Nat]

\* Where a call stands in the run of a plan.
Position(w, call) ==
    CASE call.op = "create" -> 1
      [] call.op = "upload" -> IF w.source THEN 2 + call.index ELSE 1 + call.index
      [] call.op = "execute" -> BeforeDownloads(w)
      [] call.op = "download" -> BeforeDownloads(w) + call.index
      [] call.op = "delete" -> Total(w)

LEMMA CallFields ==
    ASSUME NEW op, NEW what, NEW index
    PROVE  Call(op, what, index).op = op /\ Call(op, what, index).index = index
BY DEF Call

LEMMA WhenShape ==
    ASSUME NEW condition \in BOOLEAN, NEW call \in CallType
    PROVE  /\ When(condition, call) \in Seq(CallType)
           /\ Len(When(condition, call)) = IF condition THEN 1 ELSE 0
           /\ condition => When(condition, call)[1] = call
BY DEF When

LEMMA UploadsShape ==
    ASSUME NEW w \in WorkflowType(Images)
    PROVE  /\ Uploads(w) \in Seq(CallType)
           /\ Len(Uploads(w)) = NumUploads(w)
           /\ \A k \in 1 .. NumUploads(w) : Position(w, Uploads(w)[k]) = 1 + k
           /\ RequestUploads(w) = Uploads(w)
<1> DEFINE first == When(w.source, Call("upload", "source", 0))
           rest == [i \in 1..w.payloads |-> Call("upload", "payload", i)]
<1>1. /\ w.source \in BOOLEAN /\ w.payloads \in Nat /\ NumUploads(w) \in Nat
      /\ NumUploads(w) = IF w.source THEN 1 + w.payloads ELSE w.payloads
  BY Numbers
<1>2. Call("upload", "source", 0) \in CallType
  BY DEF Call, CallType
<1>3. /\ first \in Seq(CallType) /\ Len(first) = IF w.source THEN 1 ELSE 0
      /\ w.source => first[1] = Call("upload", "source", 0)
  BY <1>1, <1>2, WhenShape
<1>4. \A i \in 1..w.payloads : Call("upload", "payload", i) \in CallType
  BY <1>1 DEF Call, CallType
<1>5. rest \in Seq(CallType) /\ Len(rest) = w.payloads
  BY <1>1, <1>4, IsASeq
<1>6. Uploads(w) = first \o rest /\ RequestUploads(w) = first \o rest
  BY DEF Uploads, RequestUploads
<1>7. \A i \in 1..w.payloads : rest[i] = Call("upload", "payload", i)
  BY <1>1
<1> HIDE DEF first, rest
<1>8. /\ first \o rest \in Seq(CallType) /\ Len(first \o rest) = Len(first) + Len(rest)
      /\ \A i \in 1 .. Len(first) + Len(rest) :
            (first \o rest)[i] = IF i <= Len(first) THEN first[i] ELSE rest[i - Len(first)]
  BY <1>3, <1>5, ConcatProperties
<1>9. ASSUME NEW k \in 1 .. NumUploads(w)
      PROVE  Position(w, (first \o rest)[k]) = 1 + k
  <2>1. CASE w.source = TRUE
    <3>1. (first \o rest)[k] = IF k <= 1 THEN Call("upload", "source", 0)
                               ELSE Call("upload", "payload", k - 1)
      BY <1>1, <1>3, <1>5, <1>7, <1>8, <2>1
    <3>2. (first \o rest)[k].op = "upload" /\ (first \o rest)[k].index = k - 1
      BY <3>1, CallFields
    <3> QED
      BY <2>1, <3>2 DEF Position
  <2>2. CASE w.source = FALSE
    <3>1. (first \o rest)[k] = Call("upload", "payload", k)
      BY <1>1, <1>3, <1>5, <1>7, <1>8, <2>2
    <3> QED
      BY <2>2, <3>1, CallFields DEF Position
  <2> QED
    BY <1>1, <2>1, <2>2
<1>10. Len(first) + Len(rest) = NumUploads(w)
  BY <1>1, <1>3, <1>5
<1> QED
  BY <1>6, <1>8, <1>9, <1>10

LEMMA JoinedAt ==
    ASSUME NEW S, NEW s \in Seq(S), NEW t \in Seq(S)
    PROVE  /\ s \o t \in Seq(S) /\ Len(s \o t) = Len(s) + Len(t)
           /\ \A i \in 1 .. Len(s) : (s \o t)[i] = s[i]
           /\ \A i \in 1 .. Len(t) : (s \o t)[Len(s) + i] = t[i]
<1>1. /\ s \o t \in Seq(S) /\ Len(s \o t) = Len(s) + Len(t)
      /\ \A i \in 1 .. Len(s) + Len(t) : (s \o t)[i] = IF i <= Len(s) THEN s[i] ELSE t[i - Len(s)]
  BY ConcatProperties
<1>2. Len(s) \in Nat /\ Len(t) \in Nat
  BY LenProperties
<1>3. \A i \in 1 .. Len(s) : (s \o t)[i] = s[i]
  BY <1>1, <1>2
<1>4. ASSUME NEW i \in 1 .. Len(t) PROVE (s \o t)[Len(s) + i] = t[i]
  <2>1. Len(s) + i \in 1 .. Len(s) + Len(t) /\ ~(Len(s) + i <= Len(s)) /\ (Len(s) + i) - Len(s) = i
    BY <1>2
  <2> QED
    BY <1>1, <2>1
<1> QED
  BY <1>1, <1>3, <1>4

\* g is these five sequences, one after the other.
IsJoined(g, S, a, b, c, d, e) ==
    /\ g \in Seq(S) /\ Len(g) = Len(a) + Len(b) + Len(c) + Len(d) + Len(e)
    /\ \A i \in 1 .. Len(a) : g[i] = a[i]
    /\ \A i \in 1 .. Len(b) : g[Len(a) + i] = b[i]
    /\ \A i \in 1 .. Len(c) : g[Len(a) + Len(b) + i] = c[i]
    /\ \A i \in 1 .. Len(d) : g[Len(a) + Len(b) + Len(c) + i] = d[i]
    /\ \A i \in 1 .. Len(e) : g[Len(a) + Len(b) + Len(c) + Len(d) + i] = e[i]

LEMMA FiveParts ==
    ASSUME NEW S, NEW a \in Seq(S), NEW b \in Seq(S), NEW c \in Seq(S), NEW d \in Seq(S),
           NEW e \in Seq(S), NEW g, g = (((a \o b) \o c) \o d) \o e
    PROVE  IsJoined(g, S, a, b, c, d, e)
<1> DEFINE ab == a \o b
           abc == ab \o c
           abcd == abc \o d
<1>0. /\ Len(a) \in Nat /\ Len(b) \in Nat /\ Len(c) \in Nat /\ Len(d) \in Nat /\ Len(e) \in Nat
      /\ g = abcd \o e
  BY LenProperties
<1>1. /\ ab \in Seq(S) /\ Len(ab) = Len(a) + Len(b)
      /\ \A i \in 1 .. Len(a) : ab[i] = a[i]
      /\ \A i \in 1 .. Len(b) : ab[Len(a) + i] = b[i]
  BY JoinedAt
<1> HIDE DEF ab
<1>2. /\ abc \in Seq(S) /\ Len(abc) = Len(ab) + Len(c)
      /\ \A i \in 1 .. Len(ab) : abc[i] = ab[i]
      /\ \A i \in 1 .. Len(c) : abc[Len(ab) + i] = c[i]
  <2>1. ab \in Seq(S)
    BY <1>1
  <2> QED
    BY <2>1, JoinedAt
<1> HIDE DEF abc
<1>3. /\ abcd \in Seq(S) /\ Len(abcd) = Len(abc) + Len(d)
      /\ \A i \in 1 .. Len(abc) : abcd[i] = abc[i]
      /\ \A i \in 1 .. Len(d) : abcd[Len(abc) + i] = d[i]
  <2>1. abc \in Seq(S)
    BY <1>2
  <2> QED
    BY <2>1, JoinedAt
<1> HIDE DEF abcd
<1>4. /\ g \in Seq(S) /\ Len(g) = Len(abcd) + Len(e)
      /\ \A i \in 1 .. Len(abcd) : g[i] = abcd[i]
      /\ \A i \in 1 .. Len(e) : g[Len(abcd) + i] = e[i]
  <2>1. abcd \in Seq(S)
    BY <1>3
  <2>2. g = abcd \o e
    BY <1>0
  <2> QED
    BY <2>1, <2>2, JoinedAt
<1>5. /\ Len(ab) = Len(a) + Len(b) /\ Len(abc) = Len(a) + Len(b) + Len(c)
      /\ Len(abcd) = Len(a) + Len(b) + Len(c) + Len(d)
  BY <1>0, <1>1, <1>2, <1>3
<1>6. ASSUME NEW i \in 1 .. Len(a) PROVE g[i] = a[i]
  <2>1. i \in 1 .. Len(ab) /\ i \in 1 .. Len(abc) /\ i \in 1 .. Len(abcd)
    BY <1>0, <1>5
  <2> QED
    BY <2>1, <1>1, <1>2, <1>3, <1>4
<1>7. ASSUME NEW i \in 1 .. Len(b) PROVE g[Len(a) + i] = b[i]
  <2>1. /\ Len(a) + i \in 1 .. Len(ab) /\ Len(a) + i \in 1 .. Len(abc)
        /\ Len(a) + i \in 1 .. Len(abcd)
    BY <1>0, <1>5
  <2> QED
    BY <2>1, <1>1, <1>2, <1>3, <1>4
<1>8. ASSUME NEW i \in 1 .. Len(c) PROVE g[Len(ab) + i] = c[i]
  BY <1>0, <1>2, <1>3, <1>4, <1>5, SMTT(60)
<1>9. ASSUME NEW i \in 1 .. Len(d) PROVE g[Len(abc) + i] = d[i]
  BY <1>0, <1>3, <1>4, <1>5
<1> QED
  BY <1>4, <1>5, <1>6, <1>7, <1>8, <1>9 DEF IsJoined

\* The run of a plan, call by call.
LEMMA RunShape ==
    ASSUME NEW w \in WorkflowType(Images), w.image # "none", NEW g, g = RunGroup(w)
    PROVE  /\ g \in Seq(CallType) /\ Len(g) = Total(w)
           /\ g[1] = Call("create", w.image, 0)
           /\ \A k \in 1 .. NumUploads(w) : g[1 + k] = RequestUploads(w)[k]
           /\ w.agent => g[BeforeDownloads(w)] = Call("execute", "agent", 0)
           /\ \A k \in 1 .. Len(w.outputs) :
                 g[BeforeDownloads(w) + k] = Call("download", "output", k)
           /\ ~w.keep => g[Total(w)] = Call("delete", w.image, 0)
<1> DEFINE c == When(w.image # "none", Call("create", w.image, 0))
           u == Uploads(w)
           x == When(w.agent, Call("execute", "agent", 0))
           d == Downloads(w)
           e == When(w.image # "none" /\ ~w.keep, Call("delete", w.image, 0))
<1>1. w.image \in Images
  BY DEF WorkflowType
<1>2. /\ Call("create", w.image, 0) \in CallType /\ Call("execute", "agent", 0) \in CallType
      /\ Call("delete", w.image, 0) \in CallType
  BY <1>1 DEF Call, CallType
<1>3. c \in Seq(CallType) /\ Len(c) = 1 /\ c[1] = Call("create", w.image, 0)
  BY <1>2, WhenShape
<1>4. /\ x \in Seq(CallType) /\ Len(x) = IF w.agent THEN 1 ELSE 0
      /\ w.agent => x[1] = Call("execute", "agent", 0)
  BY <1>2, Numbers, WhenShape
<1>5. /\ e \in Seq(CallType) /\ Len(e) = IF w.keep THEN 0 ELSE 1
      /\ ~w.keep => e[1] = Call("delete", w.image, 0)
  <2>1. (w.image # "none" /\ ~w.keep) \in BOOLEAN /\ w.keep \in BOOLEAN
    BY Numbers
  <2> QED
    BY <1>2, <2>1, WhenShape
<1>6. /\ d \in Seq(CallType) /\ Len(d) = Len(w.outputs)
      /\ \A k \in 1 .. Len(w.outputs) : d[k] = Call("download", "output", k)
  <2>1. d = [i \in 1 .. Len(w.outputs) |-> Call("download", "output", i)]
    BY DEF Downloads
  <2>2. Len(w.outputs) \in Nat
    BY Numbers
  <2>3. \A k \in 1 .. Len(w.outputs) : Call("download", "output", k) \in CallType
    BY <2>2 DEF Call, CallType
  <2>4. [i \in 1 .. Len(w.outputs) |-> Call("download", "output", i)] \in Seq(CallType)
    BY <2>2, <2>3, IsASeq
  <2> QED
    BY <2>1, <2>2, <2>4, LenProperties
<1>7. /\ u \in Seq(CallType) /\ Len(u) = NumUploads(w)
      /\ \A k \in 1 .. NumUploads(w) : u[k] = RequestUploads(w)[k]
  BY UploadsShape
<1>8. g = (((c \o u) \o x) \o d) \o e
  BY DEF RunGroup
<1> HIDE DEF c, u, x, d, e
<1>9. /\ NumUploads(w) \in Nat /\ BeforeDownloads(w) \in Nat /\ BeforeDelete(w) \in Nat
      /\ Len(w.outputs) \in Nat /\ Total(w) \in Nat /\ w.agent \in BOOLEAN /\ w.keep \in BOOLEAN
      /\ BeforeDownloads(w) = IF w.agent THEN NumUploads(w) + 2 ELSE NumUploads(w) + 1
      /\ BeforeDelete(w) = BeforeDownloads(w) + Len(w.outputs)
      /\ Total(w) = IF w.keep THEN BeforeDelete(w) ELSE BeforeDelete(w) + 1
  BY Numbers
<1>10. /\ g \in Seq(CallType) /\ Len(g) = Len(c) + Len(u) + Len(x) + Len(d) + Len(e)
       /\ \A i \in 1 .. Len(c) : g[i] = c[i]
       /\ \A i \in 1 .. Len(u) : g[Len(c) + i] = u[i]
       /\ \A i \in 1 .. Len(x) : g[Len(c) + Len(u) + i] = x[i]
       /\ \A i \in 1 .. Len(d) : g[Len(c) + Len(u) + Len(x) + i] = d[i]
       /\ \A i \in 1 .. Len(e) : g[Len(c) + Len(u) + Len(x) + Len(d) + i] = e[i]
  <2>1. /\ c \in Seq(CallType) /\ u \in Seq(CallType) /\ x \in Seq(CallType)
        /\ d \in Seq(CallType) /\ e \in Seq(CallType)
    BY <1>3, <1>4, <1>5, <1>6, <1>7
  <2>2. IsJoined(g, CallType, c, u, x, d, e)
    BY <1>8, <2>1, FiveParts
  <2> QED
    BY <2>2 DEF IsJoined
<1>11. /\ Len(c) + Len(u) = 1 + NumUploads(w)
       /\ Len(c) + Len(u) + Len(x) = BeforeDownloads(w)
       /\ Len(c) + Len(u) + Len(x) + Len(d) = BeforeDelete(w)
       /\ Len(g) = Total(w)
  BY <1>3, <1>4, <1>5, <1>6, <1>7, <1>9, <1>10
<1>12. g[1] = Call("create", w.image, 0)
  BY <1>3, <1>10
<1>13. \A k \in 1 .. NumUploads(w) : g[1 + k] = RequestUploads(w)[k]
  BY <1>3, <1>7, <1>10
<1>14. w.agent => g[BeforeDownloads(w)] = Call("execute", "agent", 0)
  <2> SUFFICES ASSUME w.agent PROVE g[BeforeDownloads(w)] = Call("execute", "agent", 0)
    OBVIOUS
  <2>1. Len(x) = 1 /\ x[1] = Call("execute", "agent", 0)
    BY <1>4
  <2>2. BeforeDownloads(w) = Len(c) + Len(u) + 1
    BY <1>11, <2>1
  <2> QED
    BY <1>10, <2>1, <2>2
<1>15. \A k \in 1 .. Len(w.outputs) : g[BeforeDownloads(w) + k] = Call("download", "output", k)
  BY <1>6, <1>10, <1>11, ZenonT(60)
<1>16. ~w.keep => g[Total(w)] = Call("delete", w.image, 0)
  <2> SUFFICES ASSUME ~w.keep PROVE g[Total(w)] = Call("delete", w.image, 0)
    OBVIOUS
  <2>1. Len(e) = 1 /\ e[1] = Call("delete", w.image, 0)
    BY <1>5
  <2>2. Total(w) = Len(c) + Len(u) + Len(x) + Len(d) + 1
    BY <1>10, <1>11, <2>1
  <2> QED
    BY <1>10, <2>1, <2>2
<1> QED
  BY <1>10, <1>11, <1>12, <1>13, <1>14, <1>15, <1>16

\* No call stands twice in a plan.
LEMMA PositionOfCall ==
    ASSUME NEW w \in WorkflowType(Images), w.image # "none", NEW i \in 1 .. Total(w)
    PROVE  Position(w, RunGroup(w)[i]) = i
<1> SUFFICES ASSUME NEW g, g = RunGroup(w)
             PROVE  Position(w, g[i]) = i
  OBVIOUS
<1>1. /\ g[1] = Call("create", w.image, 0)
      /\ \A k \in 1 .. NumUploads(w) : g[1 + k] = RequestUploads(w)[k]
      /\ w.agent => g[BeforeDownloads(w)] = Call("execute", "agent", 0)
      /\ \A k \in 1 .. Len(w.outputs) : g[BeforeDownloads(w) + k] = Call("download", "output", k)
      /\ ~w.keep => g[Total(w)] = Call("delete", w.image, 0)
  BY RunShape
<1>2. /\ NumUploads(w) \in Nat /\ BeforeDownloads(w) \in Nat /\ BeforeDelete(w) \in Nat
      /\ Len(w.outputs) \in Nat /\ Total(w) \in Nat /\ w.agent \in BOOLEAN /\ w.keep \in BOOLEAN
      /\ BeforeDownloads(w) = IF w.agent THEN NumUploads(w) + 2 ELSE NumUploads(w) + 1
      /\ BeforeDelete(w) = BeforeDownloads(w) + Len(w.outputs)
      /\ Total(w) = IF w.keep THEN BeforeDelete(w) ELSE BeforeDelete(w) + 1
  BY Numbers
<1>3. CASE i = 1
  <2>1. g[i].op = "create"
    BY <1>1, <1>3, CallFields
  <2> QED
    BY <1>3, <2>1 DEF Position
<1>4. CASE i \in 2 .. 1 + NumUploads(w)
  <2> DEFINE k == i - 1
  <2>1. k \in 1 .. NumUploads(w) /\ 1 + k = i
    BY <1>2, <1>4
  <2> HIDE DEF k
  <2>2. g[i] = Uploads(w)[k]
    BY <1>1, <2>1, UploadsShape
  <2>3. Position(w, Uploads(w)[k]) = 1 + k
    BY <2>1, UploadsShape
  <2> QED
    BY <2>1, <2>2, <2>3
<1>5. CASE w.agent /\ i = BeforeDownloads(w)
  <2>1. g[i] = Call("execute", "agent", 0)
    BY <1>1, <1>5
  <2>2. g[i].op = "execute"
    BY <2>1, CallFields
  <2>3. Position(w, g[i]) = BeforeDownloads(w)
    BY <2>2 DEF Position
  <2> QED
    BY <1>5, <2>3
<1>6. CASE i \in BeforeDownloads(w) + 1 .. BeforeDelete(w)
  <2> DEFINE k == i - BeforeDownloads(w)
  <2>1. k \in 1 .. Len(w.outputs) /\ BeforeDownloads(w) + k = i
    BY <1>2, <1>6, SMTT(60)
  <2> HIDE DEF k
  <2>2. g[i] = Call("download", "output", k)
    BY <1>1, <2>1
  <2>3. g[i].op = "download" /\ g[i].index = k
    BY <2>2, CallFields
  <2>4. Position(w, g[i]) = BeforeDownloads(w) + g[i].index
    BY <2>3 DEF Position
  <2> QED
    BY <2>1, <2>3, <2>4
<1>7. CASE ~w.keep /\ i = Total(w)
  <2>1. g[i].op = "delete"
    BY <1>1, <1>7, CallFields
  <2>2. Position(w, g[i]) = Total(w)
    BY <2>1 DEF Position
  <2> QED
    BY <1>7, <2>2
<1>8. \/ i = 1
      \/ i \in 2 .. 1 + NumUploads(w)
      \/ w.agent /\ i = BeforeDownloads(w)
      \/ i \in BeforeDownloads(w) + 1 .. BeforeDelete(w)
      \/ ~w.keep /\ i = Total(w)
  BY <1>2
<1> QED
  BY <1>3, <1>4, <1>5, <1>6, <1>7, <1>8

-----------------------------------------------------------------------------
LEMMA FirstMore ==
    ASSUME NEW f, NEW m \in Nat
    PROVE  Append([i \in 1..m |-> f[i]], f[m + 1]) = [i \in 1 .. m + 1 |-> f[i]]
<1> DEFINE S == {f[i] : i \in 1 .. m + 1}
           s == [i \in 1..m |-> f[i]]
           t == [i \in 1 .. m + 1 |-> f[i]]
<1>1. \A i \in 1 .. m + 1 : f[i] \in S
  OBVIOUS
<1> HIDE DEF S
<1>2. s \in Seq(S) /\ Len(s) = m /\ t \in Seq(S) /\ Len(t) = m + 1 /\ f[m + 1] \in S
  <2>1. s \in Seq(S)
    BY <1>1, IsASeq
  <2>2. t \in Seq(S)
    BY <1>1, IsASeq
  <2> QED
    BY <1>1, <2>1, <2>2
<1>3. \A i \in 1 .. m + 1 : t[i] = f[i]
  OBVIOUS
<1>4. \A i \in 1 .. m : s[i] = f[i]
  OBVIOUS
<1> HIDE DEF s, t
<1>5. /\ Append(s, f[m + 1]) \in Seq(S) /\ Len(Append(s, f[m + 1])) = m + 1
      /\ \A i \in 1 .. m : Append(s, f[m + 1])[i] = s[i]
      /\ Append(s, f[m + 1])[m + 1] = f[m + 1]
  BY <1>2, AppendProperties
<1>6. \A i \in 1 .. m + 1 : Append(s, f[m + 1])[i] = t[i]
  BY <1>3, <1>4, <1>5
<1>7. Append(s, f[m + 1]) = t
  BY <1>2, <1>5, <1>6, SeqEqual
<1> QED
  BY <1>7 DEF s, t

\* The run of the plan while it is carried out.
LEMMA RunOfPlan ==
    ASSUME PlanInv, CallsMade, pc \in Running \cup {"create"}
    PROVE  planned.run = RunGroup(workflow) /\ workflow.image # "none"
<1>1. workflow.image # "none" /\ planned = Build(workflow, current)
  BY DEF PlanInv, FromPlan, CallsMade, Requested, Planned, Running
<1> QED
  BY <1>1 DEF Build, HasRunConfig

LEMMA InitCallsMade == Init => CallsMade
<1> SUFFICES ASSUME Init PROVE CallsMade
  OBVIOUS
<1>1. WorkflowType({"none", "workflow"}) \subseteq WorkflowType(Images)
  BY DEF WorkflowType, Images
<1>2. workflow \in WorkflowType(Images)
  BY <1>1, PlanAssumption DEF Init
<1>3. command \in {"plan", "dryRun", "setup", "apply"}
  BY DEF Init
<1>4. flags \in [agent : BOOLEAN, tty : BOOLEAN, image : BOOLEAN]
  BY DEF Init
<1>5. pc = "load" /\ item = 1
  BY DEF Init
<1> QED
  BY <1>2, <1>3, <1>4, <1>5 DEF CallsMade, Requested, Progress, Running

\* What loadWorkflow makes of a workflow.
LEMMA ResolvedType ==
    ASSUME NEW w \in WorkflowType(Images), flags \in [agent : BOOLEAN, tty : BOOLEAN, image : BOOLEAN]
    PROVE  /\ Resolved(w) \in WorkflowType(Images)
           /\ RunConfigured(Resolved(w)) => Resolved(w).image # "none"
<1> DEFINE o == [w EXCEPT !.agent = @ \/ flags.agent, !.tty = @ \/ flags.tty]
           image == SandboxImage(o, flags.image)
           r == [o EXCEPT !.image = image]
<1>1. o \in WorkflowType(Images)
  BY DEF WorkflowType
<1>2. Resolved(w) = r
  BY DEF Resolved
<1> HIDE DEF o
<1>3. image \in Images
  BY <1>1 DEF SandboxImage, WorkflowType, Images
<1>4. RunConfigured(o) => image # "none"
  BY <1>1 DEF SandboxImage
<1>5. ~RunConfigured(o) => image = o.image
  BY DEF SandboxImage
<1> HIDE DEF image
<1>6. r \in WorkflowType(Images) /\ r.image = image
  BY <1>1, <1>3 DEF WorkflowType
<1>7. RunConfigured(r) /\ image = "none" => FALSE
  <2> SUFFICES ASSUME RunConfigured(r), image = "none" PROVE FALSE
    OBVIOUS
  <2>1. ~RunConfigured(o) /\ o.image = "none"
    BY <1>4, <1>5
  <2>2. r = o
    BY <1>1, <2>1 DEF WorkflowType
  <2> QED
    BY <2>1, <2>2
<1> QED
  BY <1>2, <1>6, <1>7

\* Steps that leave the workflow, the plan, the request and the calls alone.
LEMMA CallsKept ==
    ASSUME CallsMade, pc' \notin Running \cup {"create"}, pc # "load", item = 1,
           UNCHANGED <<command, flags, workflow, item>>
    PROVE  CallsMade'
BY DEF CallsMade, Requested, Progress, Running

LEMMA RunCallsMade ==
    ASSUME PlanInv, CallsMade, Run
    PROVE  CallsMade'
<1> DEFINE g == planned.run
           w == workflow
<1>1. /\ UNCHANGED <<command, flags, workflow, planned, request>>
      /\ pc \in Running \cup {"create"} /\ pc' \in Running
  BY DEF Run, CreateSandbox, UploadPath, ExecSandbox, DownloadPath, DownloadsDone, Cleanup,
         afterRequest, input, Step, Running
<1>2. w.image # "none" /\ g = RunGroup(w) /\ w \in WorkflowType(Images) /\ item \in Nat
  BY <1>1, RunOfPlan DEF CallsMade, Requested
<1>3. /\ g[1] = Call("create", w.image, 0)
      /\ \A k \in 1 .. NumUploads(w) : g[1 + k] = RequestUploads(w)[k]
      /\ w.agent => g[BeforeDownloads(w)] = Call("execute", "agent", 0)
      /\ \A k \in 1 .. Len(w.outputs) : g[BeforeDownloads(w) + k] = Call("download", "output", k)
      /\ ~w.keep => g[Total(w)] = Call("delete", w.image, 0)
  BY <1>2, RunShape
<1>4. /\ NumUploads(w) \in Nat /\ BeforeDownloads(w) \in Nat /\ BeforeDelete(w) \in Nat
      /\ Len(w.outputs) \in Nat /\ Total(w) \in Nat /\ w.agent \in BOOLEAN /\ w.keep \in BOOLEAN
      /\ BeforeDownloads(w) = IF w.agent THEN NumUploads(w) + 2 ELSE NumUploads(w) + 1
      /\ BeforeDelete(w) = BeforeDownloads(w) + Len(w.outputs)
      /\ Total(w) = IF w.keep THEN BeforeDelete(w) ELSE BeforeDelete(w) + 1
  BY <1>2, Numbers
<1>5. /\ request.image = w.image /\ request.uploads = RequestUploads(w)
      /\ request.command = w.agent /\ request.downloads = w.outputs /\ request.keep = w.keep
      /\ Len(RequestUploads(w)) = NumUploads(w)
  <2>1. Len(RequestUploads(w)) = NumUploads(w)
    BY <1>2, UploadsShape
  <2> QED
    BY <1>1, <2>1 DEF CallsMade, Requested
<1>6. \A m : First(m)' = First(m)
  BY <1>1 DEF First
<1>7. \A m \in Nat : Append(First(m), g[m + 1]) = First(m + 1)
  BY FirstMore DEF First
<1>8. ASSUME item' \in Nat, Progress' PROVE CallsMade'
  BY <1>1, <1>8 DEF CallsMade, Requested, Running
<1>9. Progress
  BY DEF CallsMade
<1>10. First(1) = <<g[1]>>
  BY DEF First
<1> HIDE DEF g
<1>11. CASE CreateSandbox
  <2>1. /\ calls' = First(1) /\ item' = 1 /\ pc' \in {"upload", "cleanupFailed", "failed"}
    BY <1>3, <1>5, <1>9, <1>10, <1>11 DEF CreateSandbox, Make, Step, Progress
  <2>2. 1 \in 1 .. NumUploads(w) + 1 /\ 1 \in 1 .. BeforeDelete(w)
    BY <1>4
  <2>3. Progress'
    BY <1>1, <1>6, <2>1, <2>2 DEF Progress
  <2> QED
    BY <1>8, <2>1, <2>3
<1>12. CASE UploadPath
  <2>1. /\ pc = "upload" /\ item \in 1 .. NumUploads(w) /\ calls = First(item)
        /\ calls' = Append(First(item), g[1 + item])
        /\ \/ pc' = "upload" /\ item' = item + 1
           \/ pc' = "cleanupFailed" /\ item' = item
    BY <1>2, <1>3, <1>4, <1>5, <1>9, <1>12 DEF UploadPath, Make, Step, Progress
  <2>2. /\ item + 1 \in 1 .. NumUploads(w) + 1 /\ item + 1 \in 1 .. BeforeDelete(w)
        /\ item \in Nat /\ 1 + item = item + 1
    BY <1>4, <2>1
  <2>3. calls' = First(item + 1)
    BY <1>7, <2>1, <2>2
  <2>4. Progress'
    BY <1>1, <1>6, <2>1, <2>2, <2>3 DEF Progress
  <2> QED
    BY <1>8, <2>1, <2>2, <2>4
<1>13. CASE ExecSandbox
  <2>1. /\ pc = "upload" /\ item = NumUploads(w) + 1 /\ calls = First(item) /\ item' = 1
        /\ pc' \in {"download", "downloadFailed"}
        /\ calls' = IF w.agent THEN Append(calls, Call("execute", "agent", 0)) ELSE calls
    BY <1>2, <1>4, <1>5, <1>9, <1>13 DEF ExecSandbox, Make, Step, Progress
  <2>2. calls' = First(BeforeDownloads(w))
    <3>1. CASE w.agent
      <4>1. BeforeDownloads(w) = item + 1
        BY <1>4, <2>1, <3>1
      <4>2. Call("execute", "agent", 0) = g[item + 1]
        BY <1>3, <3>1, <4>1
      <4> QED
        BY <1>2, <1>7, <2>1, <3>1, <4>1, <4>2
    <3>2. CASE ~w.agent
      BY <1>4, <2>1, <3>2
    <3> QED
      BY <3>1, <3>2
  <2>3. 1 \in 1 .. Len(w.outputs) + 1 /\ BeforeDownloads(w) + 1 - 1 = BeforeDownloads(w)
    BY <1>4
  <2>4. Progress'
    BY <1>1, <1>6, <2>1, <2>2, <2>3 DEF Progress
  <2> QED
    BY <1>8, <2>1, <2>4
<1>14. CASE DownloadPath
  <2> DEFINE m == BeforeDownloads(w) + item - 1
  <2>1. /\ pc \in {"download", "downloadFailed"} /\ item \in 1 .. Len(w.outputs)
        /\ calls = First(m)
        /\ calls' = Append(calls, g[BeforeDownloads(w) + item])
        /\ pc' \in {"download", "downloadFailed"} /\ item' = item + 1
    BY <1>2, <1>3, <1>4, <1>5, <1>9, <1>14, SMTT(60) DEF DownloadPath, Make, Step, Progress
  <2>2. /\ m \in Nat /\ m + 1 = BeforeDownloads(w) + item
        /\ item + 1 \in 1 .. Len(w.outputs) + 1
        /\ BeforeDownloads(w) + (item + 1) - 1 = m + 1
    <3> DEFINE b == BeforeDownloads(w)
               l == Len(w.outputs)
    <3>1. b \in Nat /\ b >= 1 /\ l \in Nat /\ item \in 1..l
      BY <1>4, <2>1
    <3> HIDE DEF b, l
    <3>2. /\ b + item - 1 \in Nat /\ (b + item - 1) + 1 = b + item
          /\ item + 1 \in 1 .. l + 1 /\ b + (item + 1) - 1 = (b + item - 1) + 1
      BY <3>1
    <3> QED
      BY <3>2 DEF b, l
  <2> HIDE DEF m
  <2>3. calls' = First(m + 1)
    BY <1>7, <2>1, <2>2
  <2>4. Progress'
    BY <1>1, <1>6, <2>1, <2>2, <2>3 DEF Progress
  <2> QED
    BY <1>2, <1>8, <2>1, <2>4
<1>15. CASE DownloadsDone
  <2>1. /\ pc \in {"download", "downloadFailed"} /\ item = Len(w.outputs) + 1
        /\ calls = First(BeforeDownloads(w) + item - 1) /\ calls' = calls
        /\ pc' \in {"cleanup", "cleanupFailed"} /\ item' = item
    BY <1>2, <1>4, <1>5, <1>9, <1>15, SMTT(60) DEF DownloadsDone, Step, Progress
  <2>2. BeforeDownloads(w) + item - 1 = BeforeDelete(w) /\ BeforeDelete(w) \in 1 .. BeforeDelete(w)
    <3>1. BeforeDownloads(w) + (Len(w.outputs) + 1) - 1 = BeforeDelete(w)
      BY <1>4
    <3>2. BeforeDelete(w) >= 1
      BY <1>4
    <3> QED
      BY <1>4, <2>1, <3>1, <3>2
  <2>3. Progress'
    BY <1>1, <1>6, <2>1, <2>2 DEF Progress
  <2> QED
    BY <1>2, <1>8, <2>1, <2>3
<1>16. CASE Cleanup
  <2>1. /\ item' = item
        /\ \/ pc = "cleanup" /\ pc' = "succeeded"
           \/ pc = "cleanup" /\ pc' = "failed"
           \/ pc = "cleanupFailed" /\ pc' = "failed"
        /\ calls' = IF w.keep THEN calls ELSE Append(calls, Call("delete", w.image, 0))
    BY <1>4, <1>5, <1>16 DEF Cleanup, Make, Step
  <2>2. PICK m \in 1 .. BeforeDelete(w) :
           calls = First(m) /\ (pc = "cleanup" => m = BeforeDelete(w))
    <3>1. CASE pc = "cleanup"
      <4>1. BeforeDelete(w) \in 1 .. BeforeDelete(w)
        BY <1>4
      <4> QED
        BY <1>9, <3>1, <4>1 DEF Progress
    <3> QED
      BY <1>9, <2>1, <3>1 DEF Progress
  <2>3. CASE w.keep
    <3>1. calls' = First(m) /\ Total(w) = BeforeDelete(w)
      BY <1>4, <2>1, <2>2, <2>3
    <3>2. Progress'
      BY <1>1, <1>6, <2>1, <2>2, <3>1 DEF Progress
    <3> QED
      BY <1>2, <1>8, <2>1, <3>2
  <2>4. CASE ~w.keep
    <3>1. calls' = Append(First(m), g[Total(w)]) /\ Total(w) = BeforeDelete(w) + 1
      BY <1>3, <1>4, <2>1, <2>2, <2>4
    <3>2. pc = "cleanup" => calls' = First(Total(w))
      BY <1>4, <1>7, <2>2, <3>1
    <3>3. Progress'
      BY <1>1, <1>6, <2>1, <2>2, <2>4, <3>1, <3>2 DEF Progress, g
    <3> QED
      BY <1>2, <1>8, <2>1, <3>3
  <2> QED
    BY <1>4, <2>3, <2>4
<1> QED
  BY <1>11, <1>12, <1>13, <1>14, <1>15, <1>16 DEF Run

LEMMA NextCallsMade == PlanInv /\ CallsMade /\ [Next]_vars => CallsMade'
<1> SUFFICES ASSUME PlanInv, CallsMade, [Next]_vars PROVE CallsMade'
  OBVIOUS
<1> DEFINE w == workflow
           Typed == /\ command \in {"plan", "dryRun", "setup", "apply"}
                    /\ flags \in [agent : BOOLEAN, tty : BOOLEAN, image : BOOLEAN]
                    /\ workflow \in WorkflowType(Images) /\ item \in Nat
<1>0. Typed
  BY DEF CallsMade, Requested
<1>1. CASE LoadWorkflow
  <2>1. /\ workflow' \in WorkflowType(Images)
        /\ RunConfigured(workflow)' => workflow'.image # "none"
    <3>1. workflow' = Resolved(workflow) /\ RunConfigured(workflow)' = RunConfigured(workflow')
      BY <1>1 DEF LoadWorkflow, RunConfigured
    <3> QED
      BY <1>0, <3>1, ResolvedType
  <2>2. pc = "load" /\ pc' = "connect" /\ UNCHANGED <<command, flags, item>>
    BY <1>1 DEF LoadWorkflow, Step, input, execution
  <2> QED
    BY <2>1, <2>2 DEF CallsMade, Requested, Progress, Running
<1>2. CASE Read
  <2>1. /\ UNCHANGED <<command, flags, workflow, item>>
        /\ pc' \notin Running \cup {"create"} /\ pc # "load" /\ pc \notin Running
    BY <1>2 DEF Read, Connect, ConnectFails, ReadHealth, ReadProviders, ReadUnavailable,
                Unavailable, ReadInference, ReadFails, BuildPlan, Step, input, execution, Running
  <2>2. item = 1
    BY <2>1 DEF CallsMade, Requested
  <2> QED
    BY <2>1, <2>2, CallsKept
<1>3. CASE Preflight \/ VerifyProviders \/ NothingToRun \/ BuildFails
  <2>1. /\ UNCHANGED <<command, flags, workflow, item>>
        /\ pc' \notin Running \cup {"create"} /\ pc # "load" /\ pc \notin Running
    BY <1>3 DEF Preflight, VerifyProviders, NothingToRun, BuildFails, Step, input, execution,
                Running
  <2>2. item = 1
    BY <2>1 DEF CallsMade, Requested
  <2> QED
    BY <2>1, <2>2, CallsKept
<1>4. CASE BuildRunRequest
  <2>1. /\ UNCHANGED <<command, flags, workflow, item, calls>> /\ pc = "prepare" /\ pc' = "create"
        /\ RunConfigured(workflow)
        /\ request' = [image |-> workflow.image, uploads |-> RequestUploads(workflow),
                       command |-> workflow.agent, downloads |-> workflow.outputs,
                       keep |-> workflow.keep]
    BY <1>4 DEF BuildRunRequest, Step, input
  <2>2. item = 1
    BY <2>1 DEF CallsMade, Requested, Progress, Running
  <2>3. RunConfigured(workflow)' = RunConfigured(workflow)
        /\ RequestUploads(workflow)' = RequestUploads(workflow)
    BY <2>1 DEF RunConfigured, RequestUploads
  <2>4. calls = <<>>
    BY <2>1 DEF PlanInv, FromPlan, Running
  <2> QED
    BY <2>1, <2>2, <2>3, <2>4 DEF CallsMade, Requested, Progress, Running
<1>5. CASE Run
  BY <1>5, RunCallsMade
<1>6. CASE ChangeProviders \/ UNCHANGED vars
  <2>1. UNCHANGED <<command, flags, pc, workflow, planned, request, item, calls>>
    BY <1>6 DEF ChangeProviders, vars, input, execution
  <2>2. \A m : First(m)' = First(m)
    BY <2>1 DEF First
  <2>3. Requested'
    BY <2>1 DEF CallsMade, Requested
  <2>4. Progress'
    BY <2>1, <2>2 DEF CallsMade, Progress
  <2> QED
    BY <2>3, <2>4 DEF CallsMade
<1> QED
  BY <1>1, <1>2, <1>3, <1>4, <1>5, <1>6 DEF Next, Check

LEMMA CallsMadeHolds == Spec => [](PlanInv /\ CallsMade)
<1>1. PlanInv /\ CallsMade /\ [Next]_vars => (PlanInv /\ CallsMade)'
  BY NextSnapshot, NextFromPlan, NextCallsMade DEF PlanInv
<1>2. Init => PlanInv /\ CallsMade
  BY InitPlanInv, InitCallsMade
<1> QED
  BY <1>1, <1>2, PTL DEF Spec

-----------------------------------------------------------------------------
\* However far a run got and however it ended, its calls stand in the plan in
\* the order they were made: the first of the plan, and perhaps its last.
LEMMA PlaceOfCalls ==
    ASSUME PlanInv, CallsMade, calls # <<>>
    PROVE  /\ planned.run = RunGroup(workflow) /\ workflow.image # "none"
           /\ workflow \in WorkflowType(Images)
           /\ \E m \in 1 .. Total(workflow) :
                 \/ calls = First(m)
                 \/ /\ m < Total(workflow)
                    /\ calls = Append(First(m), planned.run[Total(workflow)])
<1> DEFINE w == workflow
<1>1. pc \in Running
  BY DEF PlanInv, FromPlan
<1>2. planned.run = RunGroup(w) /\ w.image # "none" /\ w \in WorkflowType(Images) /\ item \in Nat
  BY <1>1, RunOfPlan DEF CallsMade, Requested
<1>3. /\ NumUploads(w) \in Nat /\ BeforeDownloads(w) \in Nat /\ BeforeDelete(w) \in Nat
      /\ Len(w.outputs) \in Nat /\ Total(w) \in Nat /\ w.agent \in BOOLEAN /\ w.keep \in BOOLEAN
      /\ BeforeDownloads(w) = IF w.agent THEN NumUploads(w) + 2 ELSE NumUploads(w) + 1
      /\ BeforeDelete(w) = BeforeDownloads(w) + Len(w.outputs)
      /\ Total(w) = IF w.keep THEN BeforeDelete(w) ELSE BeforeDelete(w) + 1
  BY <1>2, Numbers
<1>4. Progress
  BY DEF CallsMade
<1>5. BeforeDelete(w) \in 1 .. Total(w) /\ Total(w) \in 1 .. Total(w)
  BY <1>3
<1>6. CASE pc = "upload"
  <2>1. item \in 1 .. Total(w)
    BY <1>2, <1>3, <1>4, <1>6 DEF Progress
  <2> QED
    BY <1>2, <1>4, <1>6, <2>1 DEF Progress
<1>7. CASE pc \in {"download", "downloadFailed"}
  <2>1. item \in 1 .. Len(w.outputs) + 1 /\ calls = First(BeforeDownloads(w) + item - 1)
    BY <1>4, <1>7 DEF Progress
  <2> DEFINE k == item - 1
  <2>2. k \in 0 .. Len(w.outputs) /\ BeforeDownloads(w) + item - 1 = BeforeDownloads(w) + k
    BY <1>2, <1>3, <2>1
  <2> HIDE DEF k
  <2>3. BeforeDownloads(w) + k \in 1 .. Total(w)
    BY <1>3, <2>2, SMTT(60)
  <2> QED
    BY <1>2, <2>1, <2>2, <2>3
<1>8. CASE pc \in {"cleanup", "succeeded"}
  BY <1>2, <1>4, <1>5, <1>8 DEF Progress
<1>9. CASE pc = "cleanupFailed"
  <2>1. PICK m \in 1 .. BeforeDelete(w) : calls = First(m)
    BY <1>4, <1>9 DEF Progress
  <2>2. m \in 1 .. Total(w)
    BY <1>3, <2>1
  <2> QED
    BY <1>2, <2>1, <2>2
<1>10. CASE pc = "failed"
  <2>1. PICK m \in 1 .. BeforeDelete(w) :
              \/ calls = First(m)
              \/ ~w.keep /\ calls = Append(First(m), planned.run[Total(w)])
    BY <1>4, <1>10 DEF Progress
  <2>2. m \in 1 .. Total(w) /\ (~w.keep => m < Total(w))
    BY <1>3, <2>1
  <2> QED
    BY <1>2, <2>1, <2>2
<1> QED
  BY <1>1, <1>6, <1>7, <1>8, <1>9, <1>10 DEF Running

\* Every call that is made stands in the plan, in the plan's order, for any
\* workflow and wherever the run fails.
THEOREM CallsFollowPlan == Spec => []PlannedInOrder
<1>1. PlanInv /\ CallsMade => PlannedInOrder
  <2> SUFFICES ASSUME PlanInv, CallsMade PROVE PlannedInOrder
    OBVIOUS
  <2>1. CASE calls = <<>>
    BY <2>1 DEF PlannedInOrder
  <2>2. CASE calls # <<>>
    <3> DEFINE total == Total(workflow)
               g == planned.run
    <3>1. /\ g = RunGroup(workflow) /\ workflow.image # "none" /\ workflow \in WorkflowType(Images)
          /\ \E m \in 1 .. total :
                calls = First(m) \/ (m < total /\ calls = Append(First(m), g[total]))
      BY <2>2, PlaceOfCalls
    <3>2. total \in Nat /\ g \in Seq(CallType) /\ Len(g) = total /\ DOMAIN g = 1 .. total
      BY <3>1, RunShape, Numbers
    <3>3. \A i \in 1 .. total : Position(workflow, g[i]) = i
      BY <3>1, PositionOfCall
    <3> HIDE DEF total, g
    <3>4. PICK m \in 1 .. total :
             calls = First(m) \/ (m < total /\ calls = Append(First(m), g[total]))
      BY <3>1
    <3>5. First(m) = [i \in 1..m |-> g[i]] /\ \A i \in 1..m : g[i] \in CallType
      BY <3>2, <3>4 DEF First, g
    <3>6. \E places \in [DOMAIN calls -> 1 .. total] :
             /\ \A i \in DOMAIN calls : calls[i] = g[places[i]]
             /\ \A i, j \in DOMAIN calls : i < j => places[i] < places[j]
      <4>1. CASE calls = First(m)
        <5> DEFINE places == [i \in 1..m |-> i]
        <5>1. DOMAIN calls = 1..m /\ \A i \in 1..m : calls[i] = g[i]
          BY <3>5, <4>1
        <5>2. places \in [DOMAIN calls -> 1 .. total]
          BY <3>2, <3>4, <5>1
        <5>3. \A i \in DOMAIN calls : calls[i] = g[places[i]]
          BY <5>1
        <5>4. \A i, j \in DOMAIN calls : i < j => places[i] < places[j]
          BY <5>1
        <5> QED
          BY <5>2, <5>3, <5>4
      <4>2. CASE m < total /\ calls = Append(First(m), g[total])
        <5>1. First(m) \in Seq(CallType) /\ Len(First(m)) = m /\ g[total] \in CallType
          <6>1. m \in Nat /\ \A i \in 1..m : g[i] \in CallType
            BY <3>4, <3>5
          <6>2. [i \in 1..m |-> g[i]] \in Seq(CallType)
            BY <6>1, IsASeq
          <6>3. g[total] \in CallType
            BY <3>2, <3>4
          <6> QED
            BY <3>5, <6>1, <6>2, <6>3
        <5>2. /\ DOMAIN calls = 1 .. m + 1
              /\ \A i \in 1 .. m : calls[i] = g[i]
              /\ calls[m + 1] = g[total]
          BY <3>5, <4>2, <5>1, AppendProperties
        <5> DEFINE places == [i \in 1 .. m + 1 |-> IF i <= m THEN i ELSE total]
        <5>3. places \in [DOMAIN calls -> 1 .. total]
          BY <3>2, <3>4, <5>2
        <5>4. \A i \in DOMAIN calls : calls[i] = g[places[i]]
          BY <3>2, <3>4, <5>2
        <5>5. \A i, j \in DOMAIN calls : i < j => places[i] < places[j]
          BY <3>2, <3>4, <4>2, <5>2
        <5> QED
          BY <5>3, <5>4, <5>5
      <4> QED
        BY <3>4, <4>1, <4>2
    <3>7. PICK places \in [DOMAIN calls -> 1 .. total] :
             /\ \A i \in DOMAIN calls : calls[i] = g[places[i]]
             /\ \A i, j \in DOMAIN calls : i < j => places[i] < places[j]
      BY <3>6
    <3>8. \A i \in DOMAIN calls, k \in DOMAIN g : g[k] = calls[i] => k = places[i]
      BY <3>2, <3>3, <3>7
    <3> QED
      BY <3>2, <3>7, <3>8 DEF PlannedInOrder, g
  <2> QED
    BY <2>1, <2>2
<1> QED
  BY <1>1, CallsMadeHolds, PTL

\* A run that succeeds has made exactly the calls of its plan.
THEOREM SuccessMeansPlan == Spec => []SuccessIsPlan
<1>1. PlanInv /\ CallsMade => SuccessIsPlan
  <2> SUFFICES ASSUME PlanInv, CallsMade, pc = "succeeded" PROVE calls = planned.run
    BY DEF SuccessIsPlan
  <2>1. /\ planned.run = RunGroup(workflow) /\ workflow.image # "none"
        /\ workflow \in WorkflowType(Images) /\ calls = First(Total(workflow))
    BY RunOfPlan DEF CallsMade, Requested, Progress, Running
  <2>2. planned.run \in Seq(CallType) /\ Len(planned.run) = Total(workflow)
    BY <2>1, RunShape
  <2>3. planned.run = [i \in 1 .. Total(workflow) |-> planned.run[i]]
    BY <2>2, LenProperties
  <2> QED
    BY <2>1, <2>3 DEF First
<1> QED
  BY <1>1, CallsMadeHolds, PTL

\* The types of the model, whatever happens.
THEOREM TypeCorrect == Spec => []TypeOK
<1>1. PlanInv /\ CallsMade => TypeOK
  <2> SUFFICES ASSUME PlanInv, CallsMade PROVE TypeOK
    OBVIOUS
  <2>1. pc \in Loading \cup Reading \cup Planned \cup {"refused"}
    BY DEF PlanInv, FromPlan
  <2>2. planned = NoPlan \/ planned = Build(workflow, current)
    BY <2>1 DEF PlanInv, FromPlan
  <2>3. /\ planned.target \in {"none", "not-inspected", "validate", "login-required"}
        /\ planned.inference \in {"none", "validate", "create", "update", "noop"}
    BY <2>2 DEF NoPlan, Build, TargetAction, InferenceAction, PlanInv, Snapshot, CurrentType
  <2> QED
    BY <2>1, <2>3 DEF TypeOK, PlanInv, Snapshot, CallsMade, Requested, CurrentType, Images,
                      Loading, Reading, Planned, Ended
<1> QED
  BY <1>1, CallsMadeHolds, PTL
=============================================================================
