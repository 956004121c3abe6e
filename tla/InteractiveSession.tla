------------------------- MODULE InteractiveSession -------------------------
(***************************************************************************)
(* runInteractive and its pump (run/terminal.go): a terminal joined to a   *)
(* command in the sandbox.  One goroutine copies the session's output to   *)
(* stdout, one polls stdin and writes it to the session, and the pump      *)
(* selects among the end of either, a window resize and the context.       *)
(*                                                                         *)
(* The session is external: a stream with flow control in both directions, *)
(* opened on the run's context (not on the pump's), to a command that      *)
(* answers every chunk of input with a chunk of output.                    *)
(***************************************************************************)
EXTENDS Integers

CONSTANTS
    MaxTyped,     \* bound: chunks the user types
    InRoom,       \* input chunks the stream holds before a write blocks
    OutRoom,      \* output chunks it holds before the command blocks
    MaxResizes    \* bound: window size changes

ASSUME SessionAssumption ==
    /\ MaxTyped \in Nat /\ MaxResizes \in Nat
    /\ InRoom \in Nat \ {0} /\ OutRoom \in Nat \ {0}

VARIABLES
    inputIsFile, \* whether stdin is an *os.File, as in production
    main,     \* "open", "pump", "stopping", "exitCode" or "returned"
    outcome,  \* what the pump returns, or the exit code
    ctx,      \* the run's context: "live" or "cancelled"
    pumpCtx,  \* the pump's context
    output,   \* the output goroutine, and its result
    input,    \* the input goroutine, and its result
    inputRead, \* whether the pump still selects on inputDone
    command,  \* the remote command: "none", "running", "exited", "broken"
    typed,    \* chunks typed so far
    atStdin,  \* chunks at stdin that nobody has read yet
    inStream, \* input chunks in the stream
    outStream,\* output chunks in the stream
    resizes   \* window size changes so far

vars == <<inputIsFile, main, outcome, ctx, pumpCtx, output, input, inputRead, command,
          typed, atStdin, inStream, outStream, resizes>>

OutputResults == {"eof", "failed"}
InputResults == {"eof", "canceled", "failed"}

TypeOK ==
    /\ inputIsFile \in BOOLEAN
    /\ main \in {"open", "pump", "stopping", "exitCode", "returned"}
    /\ outcome \in {"none", "output", "input", "resize", "context", "open", "code"}
    /\ ctx \in {"live", "cancelled"}
    /\ pumpCtx \in {"live", "cancelled"}
    /\ output \in {"none", "copying"} \cup OutputResults
    /\ input \in {"none", "checking", "polling", "writing"} \cup InputResults
    /\ inputRead \in BOOLEAN
    /\ command \in {"none", "running", "exited", "broken"}
    /\ typed \in 0..MaxTyped
    /\ atStdin \in 0..MaxTyped
    /\ inStream \in 0..InRoom
    /\ outStream \in 0..OutRoom
    /\ resizes \in 0..MaxResizes

Init ==
    /\ inputIsFile \in BOOLEAN
    /\ main = "open" /\ outcome = "none"
    /\ ctx = "live" /\ pumpCtx = "live"
    /\ output = "none" /\ input = "none" /\ inputRead = TRUE
    /\ command = "none"
    /\ typed = 0 /\ atStdin = 0 /\ inStream = 0 /\ outStream = 0 /\ resizes = 0

user == <<inputIsFile, typed, atStdin>>
stream == <<inStream, outStream>>
pump == <<main, outcome, pumpCtx, inputRead>>

InputDone == input \in InputResults

-----------------------------------------------------------------------------
(* Changed forms of definitions below: bugs the properties must tell apart *)

\* The pump cancels the input goroutine and does not wait for it.
Bug_StopInput(why) ==
    /\ pumpCtx' = "cancelled"
    /\ outcome' = why
    /\ main' = IF why = "none" THEN "exitCode" ELSE "returned"

\* The end of the input ends the session.
Bug_PumpInput ==
    /\ main = "pump"
    /\ InputDone
    /\ inputRead
    /\ inputRead' = FALSE
    /\ main' = IF input = "eof" THEN "exitCode" ELSE "returned"
    /\ outcome' = IF input = "eof" THEN "none" ELSE "input"
    /\ UNCHANGED <<ctx, pumpCtx, output, input, command, user, stream, resizes>>

\* The input goroutine polls again without looking at the context.
Bug_CheckContext ==
    /\ input = "checking"
    /\ input' = "polling"
    /\ UNCHANGED <<pump, ctx, output, command, user, stream, resizes>>

\* Input is written to the session without waiting for room.
Bug_WriteInput ==
    /\ input = "writing"
    /\ \/ /\ command = "running"
          /\ input' = "checking"
          /\ inStream' = inStream + 1
       \/ /\ command \in {"exited", "broken"}
          /\ input' = "failed"
          /\ UNCHANGED inStream
    /\ UNCHANGED <<pump, ctx, output, command, user, outStream, resizes>>

-----------------------------------------------------------------------------
(* runInteractive                                                          *)

\* Raw mode, the window size or the session cannot be had.
OpenFails ==
    /\ main = "open"
    /\ main' = "returned"
    /\ outcome' = "open"
    /\ UNCHANGED <<ctx, pumpCtx, output, input, inputRead, command, user, stream, resizes>>

ExecInteractive ==
    /\ main = "open"
    /\ ctx = "live"
    /\ main' = "pump"
    /\ output' = "copying"
    /\ input' = "checking"
    /\ command' = "running"
    /\ UNCHANGED <<outcome, ctx, pumpCtx, inputRead, user, stream, resizes>>

\* session.ExitCode, and the deferred Close and Restore.
ExitCode ==
    /\ main = "exitCode"
    /\ main' = "returned"
    /\ outcome' = "code"
    /\ UNCHANGED <<ctx, pumpCtx, output, input, inputRead, command, user, stream, resizes>>

-----------------------------------------------------------------------------
(* pumpInteractiveSession                                                  *)

\* cancel, and wait for the input goroutine when stdin is a file whose result
\* has not been received yet; then the pump returns "why" ("none" for nil).
StopInput(why) ==
    /\ pumpCtx' = "cancelled"
    /\ outcome' = why
    /\ main' = IF inputIsFile /\ inputRead THEN "stopping"
               ELSE IF why = "none" THEN "exitCode" ELSE "returned"

InputStopped ==
    /\ main = "stopping"
    /\ InputDone
    /\ main' = IF outcome = "none" THEN "exitCode" ELSE "returned"
    /\ UNCHANGED <<outcome, ctx, pumpCtx, output, input, inputRead, command, user, stream,
                   resizes>>

PumpContext ==
    /\ main = "pump"
    /\ ctx = "cancelled"
    /\ StopInput("context")
    /\ UNCHANGED <<ctx, output, input, inputRead, command, user, stream, resizes>>

PumpOutput ==
    /\ main = "pump"
    /\ output \in OutputResults
    /\ StopInput(IF output = "eof" THEN "none" ELSE "output")
    /\ UNCHANGED <<ctx, output, input, inputRead, command, user, stream, resizes>>

\* The end of the input is not the end of the session; a failure to write it
\* is, whatever the command's exit code.
PumpInput ==
    /\ main = "pump"
    /\ InputDone
    /\ inputRead
    /\ inputRead' = FALSE
    /\ IF input = "eof"
         THEN UNCHANGED <<main, outcome>>
         ELSE main' = "returned" /\ outcome' = "input"
    /\ UNCHANGED <<ctx, pumpCtx, output, input, command, user, stream, resizes>>

PumpResize ==
    /\ main = "pump"
    /\ resizes < MaxResizes
    /\ resizes' = resizes + 1
    /\ \/ UNCHANGED <<main, outcome, pumpCtx>>
       \/ StopInput("resize")
    /\ UNCHANGED <<ctx, output, input, inputRead, command, user, stream>>

-----------------------------------------------------------------------------
(* The output goroutine: io.Copy(stdout, session)                          *)

CopyOutput ==
    /\ output = "copying"
    /\ outStream > 0
    /\ outStream' = outStream - 1
    /\ UNCHANGED <<pump, ctx, output, input, command, user, inStream, resizes>>

OutputEnds ==
    /\ output = "copying"
    /\ \/ command = "exited" /\ outStream = 0 /\ output' = "eof"
       \/ command = "broken" /\ output' = "failed"
    /\ UNCHANGED <<pump, ctx, input, command, user, stream, resizes>>

\* stdout cannot be written, for instance because its reader is gone.
StdoutFails ==
    /\ output = "copying"
    /\ outStream > 0
    /\ output' = "failed"
    /\ UNCHANGED <<pump, ctx, input, command, user, stream, resizes>>

-----------------------------------------------------------------------------
(* The input goroutine: copyInteractiveFile                                *)

\* A plain reader is copied without looking at the context.
CheckContext ==
    /\ input = "checking"
    /\ input' = IF inputIsFile /\ pumpCtx = "cancelled" THEN "canceled" ELSE "polling"
    /\ UNCHANGED <<pump, ctx, output, command, user, stream, resizes>>

\* The poll finds input, or times out after 100 ms.
PollInput ==
    /\ input = "polling"
    /\ IF atStdin > 0
         THEN input' = "writing" /\ atStdin' = atStdin - 1
         ELSE inputIsFile /\ input' = "checking" /\ UNCHANGED atStdin
    /\ UNCHANGED <<pump, ctx, output, command, inputIsFile, typed, stream, resizes>>

\* stdin is at its end, or closed, or broken.
StdinEnds ==
    /\ input = "polling"
    /\ input' \in {"eof", "failed"}
    /\ UNCHANGED <<pump, ctx, output, command, user, stream, resizes>>

\* session.Write waits for room in the stream, and fails when that has ended.
WriteInput ==
    /\ input = "writing"
    /\ \/ /\ command = "running" /\ inStream < InRoom
          /\ input' = "checking"
          /\ inStream' = inStream + 1
       \/ /\ command \in {"exited", "broken"}
          /\ input' = "failed"
          /\ UNCHANGED inStream
    /\ UNCHANGED <<pump, ctx, output, command, user, outStream, resizes>>

-----------------------------------------------------------------------------
(* The user, the command and the stream                                    *)

Type ==
    /\ typed < MaxTyped
    /\ typed' = typed + 1
    /\ atStdin' = atStdin + 1
    /\ UNCHANGED <<inputIsFile, pump, ctx, output, input, command, stream, resizes>>

Answer ==
    /\ command = "running"
    /\ inStream > 0 /\ outStream < OutRoom
    /\ inStream' = inStream - 1
    /\ outStream' = outStream + 1
    /\ UNCHANGED <<pump, ctx, output, input, command, user, resizes>>

CommandExits ==
    /\ command = "running"
    /\ command' = "exited"
    /\ UNCHANGED <<pump, ctx, output, input, user, stream, resizes>>

\* The connection is lost, or the run's context is cancelled.
StreamBreaks ==
    /\ command \in {"running", "exited"}
    /\ command' = "broken"
    /\ UNCHANGED <<pump, ctx, output, input, user, stream, resizes>>

Signal ==
    /\ main # "returned"
    /\ ctx = "live"
    /\ ctx' = "cancelled"
    /\ pumpCtx' = "cancelled"
    /\ UNCHANGED <<main, outcome, output, input, inputRead, command, user, stream, resizes>>

-----------------------------------------------------------------------------
Main == OpenFails \/ ExecInteractive \/ ExitCode \/ InputStopped
        \/ PumpContext \/ PumpOutput \/ PumpInput
Output == CopyOutput \/ OutputEnds
Input == CheckContext \/ PollInput \/ WriteInput

Next == Main \/ PumpResize \/ Output \/ StdoutFails \/ Input \/ StdinEnds
        \/ Type \/ Answer \/ CommandExits \/ StreamBreaks \/ Signal

Spec == Init /\ [][Next]_vars

\* The goroutines run, a select with several ready cases takes each of them
\* sometimes, the command answers when it can, and cancelling the run's
\* context breaks the stream.
FairSpec ==
    /\ Spec
    /\ WF_vars(Main)
    /\ WF_vars(Output)
    /\ WF_vars(Input)
    /\ WF_vars(Answer)
    /\ WF_vars(ctx = "cancelled" /\ StreamBreaks)

-----------------------------------------------------------------------------
(* Properties                                                              *)

\* An exit code is only reported once the command has exited and everything it
\* wrote has reached stdout (the pump returns nil only after the output's EOF).
ExitCodeAfterOutput ==
    outcome = "code" => output = "eof" /\ outStream = 0

\* When runInteractive returns, no goroutine of it still reads the process's
\* stdin (stopInput waits for copyInteractiveFile on every path).
StdinReleased ==
    main = "returned" /\ inputIsFile => input \in {"none"} \cup InputResults

\* A signal ends the session, even while input is stuck in the stream.
CancelledReturns == ctx = "cancelled" ~> main = "returned"

\* "Poll bounds that read wait so pump cancellation always releases the
\* goroutine" (terminal.go:143).
CancellationReleases ==
    inputIsFile /\ pumpCtx = "cancelled" ~> input \in {"none"} \cup InputResults
=============================================================================
