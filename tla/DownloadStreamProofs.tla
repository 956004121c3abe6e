------------------------ MODULE DownloadStreamProofs ------------------------
(***************************************************************************)
(* Theorems about DownloadStream, for archives, padding and windows of any *)
(* size: what is installed is complete, and no goroutine outlives the      *)
(* call.  The argument counts the units between the parties and ties the   *)
(* way each party ended to the way the party before it did.                *)
(***************************************************************************)
EXTENDS DownloadStream, TLAPS

USE StreamAssumption
USE DEF Terminator, Total, Exits, Outcomes, RemoteEnded, CopierEnded, Returned,
        channel, pipe, copying, extracting, waiting

\* Every unit is sent, taken and consumed in this order; the copier holds at
\* most one.
Units ==
    /\ consumed \in 0..Terminator
    /\ extractor = "reading" => consumed < Terminator
    /\ extractor = "error" => consumed > 0
    /\ taken <= sent
    /\ taken = IF copier \in {"writing", "broken"} THEN consumed + 1 ELSE consumed

\* How the remote, the copier and the pipe ended, and what follows from it.
Endings ==
    /\ remote = "zero" => sent = Total
    /\ remote = "missing" => sent = 0
    /\ copier = "ended" => taken = sent /\ RemoteEnded
    /\ copier = "broken" => reader # "open"
    /\ reader = "closed" => extractor = "ok"
    /\ reader = "error" <=> extractor = "error"
    /\ waiter \in {"copiers", "done"} => RemoteEnded
    /\ waiter = "done" => CopierEnded /\ waitErr = WaitResult
    /\ writer = "closed" => waiter = "done" \/ main \in {"startFailed", "failed"}
    /\ extractor = "ok" /\ remote \in {"running", "zero"} => consumed = Terminator

\* The order in which the parties start and DownloadPath goes on.
Progress ==
    /\ main = "begin" => extractor = "none"
    /\ main \in {"begin", "start", "startFailed"} =>
          remote = "none" /\ copier = "none" /\ waiter = "none"
    /\ main \in {"begin", "start"} => writer = "open"
    /\ main \in {"extract", "wait"} /\ writer = "closed" => waiter = "done"
    /\ main = "wait" => extractor \in {"ok", "error"}
    /\ main = "installed" => remote = "zero" /\ consumed = Terminator /\ extractor = "ok"
    /\ main = "start" => extractor = "reading"
    /\ remote = "none" => sent = 0 /\ copier = "none" /\ waiter = "none"
    /\ Returned => remote # "running"
    /\ NotFoundIsMissing
    /\ NoGoroutineLeft

IInv == TypeOK /\ Units /\ Endings /\ Progress

LEMMA InitIInv == Init => IInv
  BY DEF Init, IInv, TypeOK, Units, Endings, Progress, NotFoundIsMissing,
       NoGoroutineLeft

LEMMA NextTypeOK == IInv /\ [Next]_vars => TypeOK'
<1> SUFFICES ASSUME IInv, [Next]_vars PROVE TypeOK'
  OBVIOUS
<1> USE DEF IInv, TypeOK, Units
<1>1. CASE Session
  BY <1>1 DEF Session, OpenFails, OpenSession, StartFails, StartFailedReturns, Start
<1>2. CASE RemoteSends \/ RemoteExits \/ ConnectionLost \/ Cancel
  BY <1>2 DEF RemoteSends, RemoteExits, ConnectionLost, Cancel
<1>3. CASE Copier
  BY <1>3 DEF Copier, CopierReads, CopierAtEOF, CopierBreaks
<1>4. CASE Extractor
  BY <1>4 DEF Extractor, ExtractUnit, RejectEntry, HandOver, ExtractorAtEOF, EndOfArchive
<1>5. CASE Waiter
  BY <1>5 DEF Waiter, WaitExitStatus, WaitCopiers, WaitResult, CloseWriter, Endings
<1>6. CASE Extracted \/ Return
  BY <1>6 DEF Extracted, CloseReader, Return
<1>7. CASE UNCHANGED vars
  BY <1>7 DEF vars
<1> QED
  BY <1>1, <1>2, <1>3, <1>4, <1>5, <1>6, <1>7 DEF Next, Main

LEMMA NextUnits == IInv /\ [Next]_vars => Units'
<1> SUFFICES ASSUME IInv, [Next]_vars PROVE Units'
  OBVIOUS
<1> USE DEF IInv, TypeOK, Units
<1>1. CASE Session
  BY <1>1 DEF Session, OpenFails, OpenSession, StartFails, StartFailedReturns, Start,
       Progress
<1>2. CASE RemoteSends \/ RemoteExits \/ ConnectionLost \/ Cancel
  BY <1>2 DEF RemoteSends, RemoteExits, ConnectionLost, Cancel
<1>3. CASE Copier
  BY <1>3 DEF Copier, CopierReads, CopierAtEOF, CopierBreaks
<1>4. CASE Extractor
  BY <1>4 DEF Extractor, ExtractUnit, RejectEntry, HandOver, ExtractorAtEOF, EndOfArchive
<1>5. CASE Waiter
  BY <1>5 DEF Waiter, WaitExitStatus, WaitCopiers
<1>6. CASE Extracted \/ Return
  BY <1>6 DEF Extracted, Return
<1>7. CASE UNCHANGED vars
  BY <1>7 DEF vars
<1> QED
  BY <1>1, <1>2, <1>3, <1>4, <1>5, <1>6, <1>7 DEF Next, Main

\* The extractor sees the end of the stream early only if the remote failed: a
\* remote that exited with 0 had sent everything, and the copier passed it on.
LEMMA EarlyEOF == IInv /\ ExtractorAtEOF => remote \notin {"running", "zero"}
<1> SUFFICES ASSUME IInv, ExtractorAtEOF, remote \in {"running", "zero"} PROVE FALSE
  OBVIOUS
<1> USE DEF IInv, TypeOK, ExtractorAtEOF
<1>1. waiter = "done"
  BY DEF Endings, Progress, NoGoroutineLeft
<1>2. remote = "zero" /\ CopierEnded
  BY <1>1 DEF Endings
<1>3. copier = "ended"
  BY <1>2 DEF Endings
<1> QED BY <1>2, <1>3 DEF Endings, Units

LEMMA NextEndings == IInv /\ [Next]_vars => Endings'
<1> SUFFICES ASSUME IInv, [Next]_vars PROVE Endings'
  OBVIOUS
<1> USE DEF IInv, TypeOK, Units, Endings, WaitResult
<1>1. CASE Session
  BY <1>1 DEF Session, OpenFails, OpenSession, StartFails, StartFailedReturns, Start,
       Progress
<1>2. CASE RemoteSends \/ RemoteExits \/ ConnectionLost \/ Cancel
  BY <1>2 DEF RemoteSends, RemoteExits, ConnectionLost, Cancel
<1>3. CASE Copier
  BY <1>3 DEF Copier, CopierReads, CopierAtEOF, CopierBreaks
<1>4. CASE ExtractUnit \/ RejectEntry
  BY <1>4 DEF ExtractUnit, RejectEntry, HandOver
<1>5. CASE ExtractorAtEOF
  BY <1>5, EarlyEOF DEF ExtractorAtEOF, EndOfArchive
<1>6. CASE Waiter
  BY <1>6 DEF Waiter, WaitExitStatus, WaitCopiers, CloseWriter
<1>7. CASE Extracted
  BY <1>7 DEF Extracted, CloseReader, Progress
<1>8. CASE Return
  BY <1>8 DEF Return
<1>9. CASE UNCHANGED vars
  BY <1>9 DEF vars
<1> QED
  BY <1>1, <1>2, <1>3, <1>4, <1>5, <1>6, <1>7, <1>8, <1>9 DEF Next, Main, Extractor

LEMMA NextProgress == IInv /\ [Next]_vars => Progress'
<1> SUFFICES ASSUME IInv, [Next]_vars PROVE Progress'
  OBVIOUS
<1> USE DEF IInv, TypeOK, Progress, NotFoundIsMissing, NoGoroutineLeft
<1>1. CASE Session
  BY <1>1 DEF Session, OpenFails, OpenSession, StartFails, StartFailedReturns, Start,
       Endings
<1>2. CASE RemoteSends \/ RemoteExits \/ ConnectionLost \/ Cancel
  BY <1>2 DEF RemoteSends, RemoteExits, ConnectionLost, Cancel
<1>3. CASE Copier
  BY <1>3 DEF Copier, CopierReads, CopierAtEOF, CopierBreaks
<1>4. CASE Extractor
  BY <1>4 DEF Extractor, ExtractUnit, RejectEntry, HandOver, ExtractorAtEOF,
       EndOfArchive, Units
<1>5. CASE Waiter
  BY <1>5 DEF Waiter, WaitExitStatus, WaitCopiers, CloseWriter
<1>6. CASE Extracted
  BY <1>6 DEF Extracted, CloseReader
<1>7. CASE Return
  BY <1>7 DEF Return, Endings, Units, WaitResult
<1>8. CASE UNCHANGED vars
  BY <1>8 DEF vars
<1> QED
  BY <1>1, <1>2, <1>3, <1>4, <1>5, <1>6, <1>7, <1>8 DEF Next, Main

LEMMA IInvHolds == Spec => []IInv
<1>1. IInv /\ [Next]_vars => IInv'
  BY NextTypeOK, NextUnits, NextEndings, NextProgress DEF IInv
<1> QED BY <1>1, InitIInv, PTL DEF Spec

\* The variables of the download always have their types.
THEOREM TypeCorrect == Spec => []TypeOK
<1>1. IInv => TypeOK
  BY DEF IInv
<1> QED BY <1>1, IInvHolds, PTL

\* Whatever the sizes of the archive and the window, and however the parties
\* interleave and fail, only a complete archive of a successful tar is
\* installed.
THEOREM OnlyCompleteInstalled == Spec => []InstalledIsComplete
<1>1. IInv => InstalledIsComplete
  BY DEF IInv, Progress, InstalledIsComplete
<1> QED BY <1>1, IInvHolds, PTL

\* ErrNotFound means missing, and missing always becomes ErrNotFound.
THEOREM NotFoundExact == Spec => []NotFoundIsMissing
<1>1. IInv => NotFoundIsMissing
  BY DEF IInv, Progress
<1> QED BY <1>1, IInvHolds, PTL

\* DownloadPath leaves no goroutine behind.
THEOREM GoroutinesJoined == Spec => []NoGoroutineLeft
<1>1. IInv => NoGoroutineLeft
  BY DEF IInv, Progress
<1> QED BY <1>1, IInvHolds, PTL

-----------------------------------------------------------------------------
(* Why a download ends.  Fairness and ENABLED are beyond the prover, but not *)
(* what a termination argument needs besides: every step leads further, and  *)
(* somebody can take one.                                                    *)

MainSteps == IF main = "begin" THEN 0 ELSE IF main = "start" THEN 1
             ELSE IF main \in {"startFailed", "extract"} THEN 2 ELSE IF main = "wait" THEN 3 ELSE 4
CtxSteps == IF ctx = "live" THEN 0 ELSE 1
RemoteSteps == IF remote = "none" THEN 0 ELSE IF remote = "running" THEN 1 ELSE 2
CopierSteps == IF copier = "none" THEN 0 ELSE IF CopierEnded THEN 2 ELSE 1
ExtractorSteps == IF extractor = "none" THEN 0 ELSE IF extractor = "reading" THEN 1 ELSE 2
WaiterSteps == IF waiter = "none" THEN 0 ELSE IF waiter = "exitStatus" THEN 1
               ELSE IF waiter = "copiers" THEN 2 ELSE 3

\* How far the parties have come, each on a way that never leads back.
LocalSteps == MainSteps + CtxSteps + WaiterSteps
StreamSteps == RemoteSteps + CopierSteps + ExtractorSteps
UnitSteps == sent + taken + consumed

StepsTaken == LocalSteps + StreamSteps + UnitSteps

\* The parties' ways have 4, 1, 2, 2, 2 and 3 steps, and each unit is sent,
\* taken and consumed once.
MostSteps == 3 * Total + 14

\* A party of this process can step: the guards of Main, Copier, Extractor and
\* Waiter.
PartyCanStep ==
    \/ main \in {"begin", "start"}
    \/ main \in {"startFailed", "extract"} /\ extractor \in {"ok", "error"}
    \/ main = "wait" /\ waiter = "done"
    \/ copier = "reading" /\ (taken < sent \/ RemoteEnded)
    \/ copier = "writing" /\ (reader # "open" \/ extractor = "reading")
    \/ extractor = "reading" /\ copier # "writing" /\ writer = "closed"
    \/ waiter = "exitStatus" /\ RemoteEnded
    \/ waiter = "copiers" /\ CopierEnded

\* tar can write, or has written everything and can exit.
RemoteCanStep == remote = "running" /\ (sent = Total \/ sent - taken < Window)

\* None of three numbers has shrunk, or one of them has grown.
NoLess(a, b, c, d, e, f) == d >= a /\ e >= b /\ f >= c
More(a, b, c, d, e, f) == d > a \/ e > b \/ f > c

\* Then their sum has not shrunk, or has grown.
LEMMA SumGrows ==
    ASSUME NEW a \in Nat, NEW b \in Nat, NEW c \in Nat, NEW d \in Nat, NEW e \in Nat, NEW f \in Nat,
           NoLess(a, b, c, d, e, f)
    PROVE  /\ a + b + c \in Nat /\ d + e + f \in Nat /\ d + e + f >= a + b + c
           /\ More(a, b, c, d, e, f) => d + e + f > a + b + c
BY DEF NoLess, More

\* Nobody goes back, and somebody goes further.
NoneBack ==
    /\ NoLess(MainSteps, CtxSteps, WaiterSteps, MainSteps', CtxSteps', WaiterSteps')
    /\ NoLess(RemoteSteps, CopierSteps, ExtractorSteps, RemoteSteps', CopierSteps', ExtractorSteps')
    /\ NoLess(sent, taken, consumed, sent', taken', consumed')
OneFurther ==
    \/ More(MainSteps, CtxSteps, WaiterSteps, MainSteps', CtxSteps', WaiterSteps')
    \/ More(RemoteSteps, CopierSteps, ExtractorSteps, RemoteSteps', CopierSteps', ExtractorSteps')
    \/ More(sent, taken, consumed, sent', taken', consumed')

\* That is enough for the whole.
LEMMA StepsAdd == TypeOK /\ TypeOK' /\ NoneBack /\ OneFurther => StepsTaken' > StepsTaken
<1> SUFFICES ASSUME TypeOK, TypeOK', NoneBack, OneFurther PROVE StepsTaken' > StepsTaken
  OBVIOUS
<1>1. /\ MainSteps \in Nat /\ CtxSteps \in Nat /\ WaiterSteps \in Nat
      /\ MainSteps' \in Nat /\ CtxSteps' \in Nat /\ WaiterSteps' \in Nat
  BY DEF MainSteps, CtxSteps, WaiterSteps
<1>2. /\ RemoteSteps \in Nat /\ CopierSteps \in Nat /\ ExtractorSteps \in Nat
      /\ RemoteSteps' \in Nat /\ CopierSteps' \in Nat /\ ExtractorSteps' \in Nat
  BY DEF RemoteSteps, CopierSteps, ExtractorSteps
<1>3. /\ sent \in Nat /\ taken \in Nat /\ consumed \in Nat
      /\ sent' \in Nat /\ taken' \in Nat /\ consumed' \in Nat
  BY DEF TypeOK
<1>4. /\ LocalSteps \in Nat /\ LocalSteps' \in Nat /\ LocalSteps' >= LocalSteps
      /\ More(MainSteps, CtxSteps, WaiterSteps, MainSteps', CtxSteps', WaiterSteps') => LocalSteps' > LocalSteps
  BY <1>1, SumGrows DEF NoneBack, LocalSteps
<1>5. /\ StreamSteps \in Nat /\ StreamSteps' \in Nat /\ StreamSteps' >= StreamSteps
      /\ More(RemoteSteps, CopierSteps, ExtractorSteps, RemoteSteps', CopierSteps', ExtractorSteps')
            => StreamSteps' > StreamSteps
  BY <1>2, SumGrows DEF NoneBack, StreamSteps
<1>6. /\ UnitSteps \in Nat /\ UnitSteps' \in Nat /\ UnitSteps' >= UnitSteps
      /\ More(sent, taken, consumed, sent', taken', consumed') => UnitSteps' > UnitSteps
  BY <1>3, SumGrows DEF NoneBack, UnitSteps
<1> HIDE DEF LocalSteps, StreamSteps, UnitSteps
<1>7. NoLess(LocalSteps, StreamSteps, UnitSteps, LocalSteps', StreamSteps', UnitSteps')
  BY <1>4, <1>5, <1>6 DEF NoLess
<1>8. More(LocalSteps, StreamSteps, UnitSteps, LocalSteps', StreamSteps', UnitSteps')
  BY <1>4, <1>5, <1>6 DEF OneFurther, More
<1> QED
  BY <1>4, <1>5, <1>6, <1>7, <1>8, SumGrows DEF StepsTaken

\* Every action takes some party further.
LEMMA StepAdvances == IInv /\ Next => StepsTaken' > StepsTaken
<1> SUFFICES ASSUME IInv, Next PROVE StepsTaken' > StepsTaken
  OBVIOUS
<1>0. TypeOK /\ TypeOK'
  BY NextTypeOK DEF IInv
<1>1. /\ UNCHANGED main => MainSteps' >= MainSteps
      /\ UNCHANGED ctx => CtxSteps' >= CtxSteps
      /\ UNCHANGED waiter => WaiterSteps' >= WaiterSteps
      /\ UNCHANGED remote => RemoteSteps' >= RemoteSteps
      /\ UNCHANGED copier => CopierSteps' >= CopierSteps
      /\ UNCHANGED extractor => ExtractorSteps' >= ExtractorSteps
      /\ UNCHANGED sent => sent' >= sent
      /\ UNCHANGED taken => taken' >= taken
      /\ UNCHANGED consumed => consumed' >= consumed
  BY <1>0 DEF TypeOK, MainSteps, CtxSteps, WaiterSteps, RemoteSteps, CopierSteps, ExtractorSteps
<1>2. CASE OpenFails \/ StartFails \/ StartFailedReturns \/ Extracted \/ Return
  <2>1. MainSteps' > MainSteps /\ MainSteps' >= MainSteps
    BY <1>0, <1>2 DEF OpenFails, StartFails, StartFailedReturns, Extracted, Return, MainSteps, TypeOK
  <2>2. UNCHANGED <<ctx, waiter, remote, copier, extractor, sent, taken, consumed>>
    BY <1>2 DEF OpenFails, StartFails, StartFailedReturns, Extracted, Return
  <2>3. NoneBack /\ OneFurther
    BY <1>1, <2>1, <2>2 DEF NoneBack, OneFurther, NoLess, More
  <2> QED
    BY <1>0, <2>3, StepsAdd
<1>3. CASE OpenSession
  <2>1. MainSteps' > MainSteps /\ MainSteps' >= MainSteps /\ ExtractorSteps' >= ExtractorSteps
    BY <1>0, <1>3 DEF OpenSession, MainSteps, ExtractorSteps, IInv, Progress
  <2>2. UNCHANGED <<ctx, waiter, remote, copier, sent, taken, consumed>>
    BY <1>3 DEF OpenSession
  <2>3. NoneBack /\ OneFurther
    BY <1>1, <2>1, <2>2 DEF NoneBack, OneFurther, NoLess, More
  <2> QED
    BY <1>0, <2>3, StepsAdd
<1>4. CASE Start
  <2>1. /\ MainSteps' > MainSteps /\ MainSteps' >= MainSteps /\ RemoteSteps' >= RemoteSteps
        /\ CopierSteps' >= CopierSteps /\ WaiterSteps' >= WaiterSteps
    BY <1>0, <1>4 DEF Start, MainSteps, RemoteSteps, CopierSteps, WaiterSteps, IInv, Progress
  <2>2. UNCHANGED <<ctx, extractor, sent, taken, consumed>>
    BY <1>4 DEF Start
  <2>3. NoneBack /\ OneFurther
    BY <1>1, <2>1, <2>2 DEF NoneBack, OneFurther, NoLess, More
  <2> QED
    BY <1>0, <2>3, StepsAdd
<1>5. CASE RemoteSends
  <2>1. sent' > sent /\ sent' >= sent
    BY <1>0, <1>5 DEF RemoteSends, TypeOK
  <2>2. UNCHANGED <<main, ctx, waiter, remote, copier, extractor, taken, consumed>>
    BY <1>5 DEF RemoteSends
  <2>3. NoneBack /\ OneFurther
    BY <1>1, <2>1, <2>2 DEF NoneBack, OneFurther, NoLess, More
  <2> QED
    BY <1>0, <2>3, StepsAdd
<1>6. CASE RemoteExits \/ ConnectionLost
  <2>1. RemoteSteps' > RemoteSteps /\ RemoteSteps' >= RemoteSteps
    BY <1>0, <1>6 DEF RemoteExits, ConnectionLost, RemoteSteps
  <2>2. UNCHANGED <<main, ctx, waiter, copier, extractor, sent, taken, consumed>>
    BY <1>6 DEF RemoteExits, ConnectionLost
  <2>3. NoneBack /\ OneFurther
    BY <1>1, <2>1, <2>2 DEF NoneBack, OneFurther, NoLess, More
  <2> QED
    BY <1>0, <2>3, StepsAdd
<1>7. CASE Cancel
  <2>1. CtxSteps' > CtxSteps /\ CtxSteps' >= CtxSteps
    BY <1>0, <1>7 DEF Cancel, CtxSteps
  <2>2. UNCHANGED <<main, waiter, remote, copier, extractor, sent, taken, consumed>>
    BY <1>7 DEF Cancel
  <2>3. NoneBack /\ OneFurther
    BY <1>1, <2>1, <2>2 DEF NoneBack, OneFurther, NoLess, More
  <2> QED
    BY <1>0, <2>3, StepsAdd
<1>8. CASE CopierReads
  <2>1. taken' > taken /\ taken' >= taken /\ CopierSteps' >= CopierSteps
    BY <1>0, <1>8 DEF CopierReads, CopierSteps, TypeOK
  <2>2. UNCHANGED <<main, ctx, waiter, remote, extractor, sent, consumed>>
    BY <1>8 DEF CopierReads
  <2>3. NoneBack /\ OneFurther
    BY <1>1, <2>1, <2>2 DEF NoneBack, OneFurther, NoLess, More
  <2> QED
    BY <1>0, <2>3, StepsAdd
<1>9. CASE CopierAtEOF \/ CopierBreaks
  <2>1. CopierSteps' > CopierSteps /\ CopierSteps' >= CopierSteps
    BY <1>0, <1>9 DEF CopierAtEOF, CopierBreaks, CopierSteps
  <2>2. UNCHANGED <<main, ctx, waiter, remote, extractor, sent, taken, consumed>>
    BY <1>9 DEF CopierAtEOF, CopierBreaks
  <2>3. NoneBack /\ OneFurther
    BY <1>1, <2>1, <2>2 DEF NoneBack, OneFurther, NoLess, More
  <2> QED
    BY <1>0, <2>3, StepsAdd
<1>10. CASE ExtractUnit \/ RejectEntry
  <2>1. consumed' > consumed /\ consumed' >= consumed /\ CopierSteps' >= CopierSteps /\ ExtractorSteps' >= ExtractorSteps
    BY <1>0, <1>10 DEF ExtractUnit, RejectEntry, HandOver, CopierSteps, ExtractorSteps, TypeOK
  <2>2. UNCHANGED <<main, ctx, waiter, remote, sent, taken>>
    BY <1>10 DEF ExtractUnit, RejectEntry, HandOver
  <2>3. NoneBack /\ OneFurther
    BY <1>1, <2>1, <2>2 DEF NoneBack, OneFurther, NoLess, More
  <2> QED
    BY <1>0, <2>3, StepsAdd
<1>11. CASE ExtractorAtEOF
  <2>1. ExtractorSteps' > ExtractorSteps /\ ExtractorSteps' >= ExtractorSteps
    BY <1>0, <1>11 DEF ExtractorAtEOF, EndOfArchive, ExtractorSteps
  <2>2. UNCHANGED <<main, ctx, waiter, remote, copier, sent, taken, consumed>>
    BY <1>11 DEF ExtractorAtEOF, EndOfArchive
  <2>3. NoneBack /\ OneFurther
    BY <1>1, <2>1, <2>2 DEF NoneBack, OneFurther, NoLess, More
  <2> QED
    BY <1>0, <2>3, StepsAdd
<1>12. CASE WaitExitStatus \/ WaitCopiers
  <2>1. WaiterSteps' > WaiterSteps /\ WaiterSteps' >= WaiterSteps
    BY <1>0, <1>12 DEF WaitExitStatus, WaitCopiers, WaiterSteps
  <2>2. UNCHANGED <<main, ctx, remote, copier, extractor, sent, taken, consumed>>
    BY <1>12 DEF WaitExitStatus, WaitCopiers
  <2>3. NoneBack /\ OneFurther
    BY <1>1, <2>1, <2>2 DEF NoneBack, OneFurther, NoLess, More
  <2> QED
    BY <1>0, <2>3, StepsAdd
<1> QED
  BY <1>2, <1>3, <1>4, <1>5, <1>6, <1>7, <1>8, <1>9, <1>10, <1>11, <1>12
     DEF Next, Main, Session, Copier, Extractor, Waiter

\* No download goes on for ever: every step, whoever takes it, leads further on
\* a way of at most MostSteps steps.
THEOREM DownloadIsBounded == Spec => [](StepsTaken \in 0 .. MostSteps) /\ [][StepsTaken' > StepsTaken]_vars
<1>1. IInv => StepsTaken \in 0 .. MostSteps
  <2> SUFFICES ASSUME TypeOK PROVE StepsTaken \in 0 .. MostSteps
    BY DEF IInv
  <2>1. LocalSteps \in 0 .. 8 /\ StreamSteps \in 0 .. 6
    BY DEF LocalSteps, StreamSteps, MainSteps, CtxSteps, WaiterSteps, RemoteSteps, CopierSteps, ExtractorSteps
  <2>2. UnitSteps \in 0 .. 3 * Total
    BY DEF TypeOK, UnitSteps
  <2> QED
    BY <2>1, <2>2 DEF StepsTaken, MostSteps
<1>2. IInv /\ [Next]_vars => [StepsTaken' > StepsTaken]_vars
  BY StepAdvances
<1> QED
  BY <1>1, <1>2, IInvHolds, PTL DEF Spec

\* What has been started by then, and which ends of the pipe are closed.
Running ==
    /\ main = "startFailed" => extractor # "none" /\ writer = "closed"
    /\ main \in {"extract", "wait"} =>
          /\ remote # "none" /\ copier # "none" /\ extractor # "none" /\ waiter # "none"
          /\ waiter = "done" => writer = "closed"
    /\ main = "wait" => reader # "open"

\* Who has been started is known at every point of a download.
LEMMA RunningHolds == Spec => []Running
<1>1. Init => Running
  BY DEF Init, Running
<1>2. IInv /\ Running /\ [Next]_vars => Running'
  <2> SUFFICES ASSUME IInv, Running, [Next]_vars PROVE Running'
    OBVIOUS
  <2> USE DEF Running
  <2>1. CASE Session
    BY <2>1 DEF Session, OpenFails, OpenSession, StartFails, StartFailedReturns, Start, IInv, Progress
  <2>2. CASE RemoteSends \/ RemoteExits \/ ConnectionLost \/ Cancel
    BY <2>2 DEF RemoteSends, RemoteExits, ConnectionLost, Cancel
  <2>3. CASE Copier
    BY <2>3 DEF Copier, CopierReads, CopierAtEOF, CopierBreaks
  <2>4. CASE Extractor
    BY <2>4 DEF Extractor, ExtractUnit, RejectEntry, HandOver, ExtractorAtEOF, EndOfArchive
  <2>5. CASE Waiter
    BY <2>5 DEF Waiter, WaitExitStatus, WaitCopiers, CloseWriter
  <2>6. CASE Extracted \/ Return
    BY <2>6 DEF Extracted, CloseReader, Return
  <2>7. CASE UNCHANGED vars
    BY <2>7 DEF vars
  <2> QED
    BY <2>1, <2>2, <2>3, <2>4, <2>5, <2>6, <2>7 DEF Next, Main
<1> QED
  BY <1>1, <1>2, IInvHolds, PTL DEF Spec

\* Nor does it stop half way, unless the remote command keeps it waiting: the
\* goroutines never wait for each other only, and once the remote has ended (as
\* it has when a cancelled context has broken the tunnel) one of them can step.
THEOREM OnlyRemoteKeepsWaiting == Spec => [](~Returned => PartyCanStep \/ remote = "running")
<1>1. IInv /\ Running => (~Returned => PartyCanStep \/ remote = "running")
  <2> SUFFICES ASSUME IInv, Running, ~Returned, remote # "running" PROVE PartyCanStep
    OBVIOUS
  <2>1. main \in {"begin", "start", "startFailed", "extract", "wait"}
    BY DEF IInv, TypeOK
  <2>2. CASE main \in {"begin", "start"}
    BY <2>2 DEF PartyCanStep
  <2>3. CASE main = "startFailed"
    BY <2>3 DEF IInv, TypeOK, Progress, Running, PartyCanStep
  <2>4. CASE main = "extract"
    BY <2>4 DEF IInv, TypeOK, Running, PartyCanStep
  <2>5. CASE main = "wait"
    BY <2>5 DEF IInv, TypeOK, Running, PartyCanStep
  <2> QED
    BY <2>1, <2>2, <2>3, <2>4, <2>5
<1> QED
  BY <1>1, IInvHolds, RunningHolds, PTL

\* And if every entry so far was accepted, and the padding fits the window and
\* what the copier holds, then the remote is not kept waiting either: the state
\* in which both sides wait needs a refused entry.
THEOREM AcceptedGoesOn ==
    Padding <= Window + 1 =>
        (Spec => [](~Returned /\ extractor # "error" => PartyCanStep \/ RemoteCanStep))
<1> SUFFICES ASSUME Padding <= Window + 1
             PROVE  Spec => [](~Returned /\ extractor # "error" => PartyCanStep \/ RemoteCanStep)
  OBVIOUS
<1>1. ASSUME IInv, Running, ~Returned, extractor # "error", remote = "running", ~PartyCanStep
      PROVE  sent = Total \/ sent - taken < Window
  <2>1. main \in {"extract", "wait"} /\ copier \in {"reading", "broken"}
    BY <1>1 DEF IInv, TypeOK, Endings, Progress, Running, PartyCanStep
  <2>2. CASE copier = "reading"
    <3>1. sent = taken
      BY <1>1, <2>2 DEF IInv, TypeOK, Units, PartyCanStep
    <3> QED
      BY <1>1, <3>1 DEF IInv, TypeOK
  <2>3. CASE copier = "broken"
    <3>1. extractor = "ok"
      BY <1>1, <2>1, <2>3 DEF IInv, TypeOK, Endings, Running
    <3>2. taken = Terminator + 1
      BY <1>1, <2>3, <3>1 DEF IInv, Units, Endings
    <3> QED
      BY <1>1, <3>2 DEF IInv, TypeOK
  <2> QED
    BY <2>1, <2>2, <2>3
<1>2. IInv /\ Running /\ (~Returned => PartyCanStep \/ remote = "running")
        => (~Returned /\ extractor # "error" => PartyCanStep \/ RemoteCanStep)
  BY <1>1 DEF RemoteCanStep
<1> QED
  BY <1>2, OnlyRemoteKeepsWaiting, IInvHolds, RunningHolds, PTL
=============================================================================
