---------------------- MODULE InteractiveSessionProofs ----------------------
(***************************************************************************)
(* Theorems about InteractiveSession, for any amount of input, any room in *)
(* the stream and any number of resizes.                                   *)
(***************************************************************************)
EXTENDS InteractiveSession, TLAPS

\* What the pump knows when it stops: a nil result means that the output has
\* reached its end with nothing left in the stream, and so does an exit code;
\* and an input goroutine that nobody waits for any more has ended.
SessionInv ==
    /\ TypeOK
    /\ atStdin <= typed
    /\ main = "open" => input = "none" /\ command = "none"
    /\ main \in {"open", "pump"} => outcome = "none"
    /\ output = "eof" => outStream = 0 /\ command # "running"
    /\ main = "stopping" /\ outcome = "none" => output = "eof"
    /\ main = "exitCode" => output = "eof"
    /\ outcome = "code" => main = "returned" /\ output = "eof"
    /\ ~inputRead => InputDone
    /\ inputIsFile /\ main \in {"exitCode", "returned"} => input = "none" \/ InputDone

LEMMA InitSession == Init => SessionInv
  BY SessionAssumption DEF Init, SessionInv, TypeOK, InputDone, InputResults, OutputResults

LEMMA NextSession == SessionInv /\ [Next]_vars => SessionInv'
<1> SUFFICES ASSUME SessionInv, [Next]_vars PROVE SessionInv'
  OBVIOUS
<1> USE SessionAssumption
    DEF SessionInv, TypeOK, InputDone, InputResults, OutputResults, user, stream, pump
<1>1. CASE OpenFails
  BY <1>1 DEF OpenFails
<1>2. CASE ExecInteractive
  BY <1>2 DEF ExecInteractive
<1>3. CASE ExitCode
  BY <1>3 DEF ExitCode
<1>4. CASE InputStopped
  BY <1>4 DEF InputStopped
<1>5. CASE PumpContext
  BY <1>5 DEF PumpContext, StopInput
<1>6. CASE PumpOutput
  BY <1>6 DEF PumpOutput, StopInput
<1>7. CASE PumpInput
  BY <1>7 DEF PumpInput
<1>8. CASE PumpResize
  BY <1>8 DEF PumpResize, StopInput
<1>9. CASE CopyOutput
  BY <1>9 DEF CopyOutput
<1>10. CASE OutputEnds
  BY <1>10 DEF OutputEnds
<1>11. CASE StdoutFails
  BY <1>11 DEF StdoutFails
<1>12. CASE CheckContext
  BY <1>12 DEF CheckContext
<1>13. CASE PollInput
  BY <1>13 DEF PollInput
<1>14. CASE StdinEnds
  BY <1>14 DEF StdinEnds
<1>15. CASE WriteInput
  <2>1. CASE command = "running" /\ inStream < InRoom
    <3>1. inStream + 1 \in 0..InRoom
      BY <2>1
    <3>2. /\ input' = "checking" /\ inStream' = inStream + 1 /\ input = "writing"
          /\ UNCHANGED <<inputIsFile, main, outcome, pumpCtx, inputRead, ctx, output, command,
                         typed, atStdin, outStream, resizes>>
      BY <1>15, <2>1 DEF WriteInput
    <3> QED
      BY <3>1, <3>2
  <2>2. CASE ~(command = "running" /\ inStream < InRoom)
    BY <1>15, <2>2 DEF WriteInput
  <2> QED
    BY <2>1, <2>2
<1>16. CASE Type
  BY <1>16 DEF Type
<1>17. CASE Answer
  BY <1>17 DEF Answer
<1>18. CASE CommandExits \/ StreamBreaks
  BY <1>18 DEF CommandExits, StreamBreaks
<1>19. CASE Signal
  BY <1>19 DEF Signal
<1>20. CASE UNCHANGED vars
  BY <1>20 DEF vars
<1> QED
  BY <1>1, <1>2, <1>3, <1>4, <1>5, <1>6, <1>7, <1>8, <1>9, <1>10, <1>11, <1>12, <1>13,
     <1>14, <1>15, <1>16, <1>17, <1>18, <1>19, <1>20
     DEF Next, Main, Output, Input

LEMMA SessionHolds == Spec => []SessionInv
  BY InitSession, NextSession, PTL DEF Spec

\* The variables always have their types.
THEOREM TypeCorrect == Spec => []TypeOK
<1>1. SessionInv => TypeOK
  BY DEF SessionInv
<1> QED
  BY <1>1, SessionHolds, PTL

\* An exit code is reported only after the end of the output, whatever the
\* user types, the window does and the stream holds.
THEOREM CodeAfterOutput == Spec => []ExitCodeAfterOutput
<1>1. SessionInv => ExitCodeAfterOutput
  BY DEF SessionInv, ExitCodeAfterOutput
<1> QED
  BY <1>1, SessionHolds, PTL

\* No goroutine reads the process's stdin once runInteractive has returned.
THEOREM StdinGivenBack == Spec => []StdinReleased
<1>1. SessionInv => StdinReleased
  BY DEF SessionInv, StdinReleased, InputDone
<1> QED
  BY <1>1, SessionHolds, PTL
=============================================================================
