--------------------------- MODULE DownloadStream ---------------------------
(***************************************************************************)
(* DownloadPath (sdkclient/download.go): a tar archive streamed from the   *)
(* sandbox through four concurrent parties.  The remote tar writes into an *)
(* SSH channel with a flow-control window; the SSH library's copier moves  *)
(* data from the channel into an io.Pipe; the extractor goroutine reads    *)
(* the archive from the pipe; the waiter goroutine waits for the remote    *)
(* command and its copier; DownloadPath itself waits for the extractor,    *)
(* closes the read end, and waits for the waiter.                          *)
(*                                                                         *)
(* The archive is a sequence of units: 1..NumEntries are entries, the next *)
(* one is the terminator, and Padding more follow, which tar writes to     *)
(* fill its block and the extractor never reads.  The SSH library, the     *)
(* pipe and the remote are external.                                       *)
(***************************************************************************)
EXTENDS Integers

CONSTANTS
    NumEntries,   \* archive units before the terminator
    Padding,      \* units after the terminator
    Window,       \* units the SSH channel holds before the sender blocks
    MayReject     \* whether the extractor may refuse an entry

ASSUME StreamAssumption ==
    /\ NumEntries \in Nat
    /\ Padding \in Nat
    /\ Window \in Nat \ {0}
    /\ MayReject \in BOOLEAN

Terminator == NumEntries + 1

Total == Terminator + Padding

VARIABLES
    main,      \* where DownloadPath is, at the end with its outcome
    ctx,       \* "live", or "cancelled"
    remote,    \* "none", "running", how the command exited, or "lost"
    sent,      \* units the remote has put into the channel
    copier,    \* the stdout copier of the SSH session
    taken,     \* units the copier has taken out of the channel
    extractor, \* the goroutine of extractDownloadTar, and its result
    consumed,  \* units the extractor has read
    reader,    \* the read end of the pipe: "open", or how it was closed
    writer,    \* the write end of the pipe: "open" or "closed"
    waiter,    \* the goroutine of Session.Wait
    waitErr    \* what Session.Wait returned

vars == <<main, ctx, remote, sent, copier, taken, extractor, consumed, reader,
          writer, waiter, waitErr>>

Exits == {"zero", "missing", "other"}
Outcomes == {"installed", "notFound", "failed"}

TypeOK ==
    /\ main \in {"begin", "start", "startFailed", "extract", "wait"} \cup Outcomes
    /\ ctx \in {"live", "cancelled"}
    /\ remote \in {"none", "running", "lost"} \cup Exits
    /\ sent \in 0..Total
    /\ copier \in {"none", "reading", "writing", "ended", "broken"}
    /\ taken \in 0..Total
    /\ extractor \in {"none", "reading", "ok", "error"}
    /\ consumed \in 0..Total
    /\ reader \in {"open", "error", "closed"}
    /\ writer \in {"open", "closed"}
    /\ waiter \in {"none", "exitStatus", "copiers", "done"}
    /\ waitErr \in {"none", "nil", "closedPipe", "error", "lost"} \cup Exits

Init ==
    /\ main = "begin"
    /\ ctx = "live"
    /\ remote = "none"
    /\ sent = 0
    /\ copier = "none"
    /\ taken = 0
    /\ extractor = "none"
    /\ consumed = 0
    /\ reader = "open"
    /\ writer = "open"
    /\ waiter = "none"
    /\ waitErr = "none"

channel == <<remote, sent>>
pipe == <<reader, writer>>
copying == <<copier, taken>>
extracting == <<extractor, consumed>>
waiting == <<waiter, waitErr>>

CopierEnded == copier \in {"ended", "broken"}
RemoteEnded == remote \in Exits \cup {"lost"}
Returned == main \in Outcomes

-----------------------------------------------------------------------------
(* Changed forms of definitions below: bugs the properties must tell apart *)

\* The error of the copier hides the exit status.
Bug_WaitResult ==
    IF copier = "broken" THEN "closedPipe"
    ELSE IF remote = "zero" THEN "nil" ELSE remote

\* DownloadPath returns on an extraction error without waiting for Wait.
Bug_Extracted ==
    /\ main = "extract"
    /\ extractor \in {"ok", "error"}
    /\ main' = IF extractor = "ok" THEN "wait" ELSE "failed"
    /\ reader' = IF reader = "open" THEN "closed" ELSE reader
    /\ UNCHANGED <<ctx, channel, copying, extracting, writer, waiting>>

\* An empty stream is not an archive.
Bug_EndOfArchive == {"error"}

\* The write end is left open when the remote command is over.
Bug_CloseWriter == UNCHANGED writer

\* The read end is not closed after a complete archive.
Bug_CloseReader == UNCHANGED reader

-----------------------------------------------------------------------------
(* The session                                                             *)

\* The paths are refused, the destination exists, or there is no session.
OpenFails ==
    /\ main = "begin"
    /\ main' = "failed"
    /\ UNCHANGED <<ctx, channel, copying, extracting, pipe, waiting>>

\* openSSHSession succeeds, and the extractor goroutine starts.
OpenSession ==
    /\ main = "begin"
    /\ ctx = "live"
    /\ main' = "start"
    /\ extractor' = "reading"
    /\ UNCHANGED <<ctx, channel, copying, consumed, pipe, waiting>>

StartFails ==
    /\ main = "start"
    /\ main' = "startFailed"
    /\ writer' = "closed"
    /\ UNCHANGED <<ctx, channel, copying, extracting, reader, waiting>>

StartFailedReturns ==
    /\ main = "startFailed"
    /\ extractor \in {"ok", "error"}
    /\ main' = "failed"
    /\ UNCHANGED <<ctx, channel, copying, extracting, pipe, waiting>>

\* Session.Start, and the waiter goroutine.
Start ==
    /\ main = "start"
    /\ main' = "extract"
    /\ remote' = "running"
    /\ copier' = "reading"
    /\ waiter' = "exitStatus"
    /\ UNCHANGED <<ctx, sent, taken, extracting, pipe, waitErr>>

-----------------------------------------------------------------------------
(* The remote command and the network                                      *)

RemoteSends ==
    /\ remote = "running"
    /\ sent < Total
    /\ sent - taken < Window
    /\ sent' = sent + 1
    /\ UNCHANGED <<main, ctx, remote, copying, extracting, pipe, waiting>>

\* tar exits with 0 once it has written everything; the shell exits before tar
\* when the path is missing; anything else can happen at any time.
RemoteExits ==
    /\ remote = "running"
    /\ \/ sent = Total /\ remote' = "zero"
       \/ sent = 0 /\ remote' = "missing"
       \/ remote' = "other"
    /\ UNCHANGED <<main, ctx, sent, copying, extracting, pipe, waiting>>

ConnectionLost ==
    /\ remote = "running"
    /\ remote' = "lost"
    /\ UNCHANGED <<main, ctx, sent, copying, extracting, pipe, waiting>>

Cancel ==
    /\ ctx = "live"
    /\ ~Returned
    /\ ctx' = "cancelled"
    /\ UNCHANGED <<main, channel, copying, extracting, pipe, waiting>>

-----------------------------------------------------------------------------
(* The SSH library's copier and the pipe                                   *)

CopierReads ==
    /\ copier = "reading"
    /\ taken < sent
    /\ copier' = "writing"
    /\ taken' = taken + 1
    /\ UNCHANGED <<main, ctx, channel, extracting, pipe, waiting>>

CopierAtEOF ==
    /\ copier = "reading"
    /\ taken = sent
    /\ RemoteEnded
    /\ copier' = "ended"
    /\ UNCHANGED <<main, ctx, channel, taken, extracting, pipe, waiting>>

\* A write to a pipe whose read end is closed fails.
CopierBreaks ==
    /\ copier = "writing"
    /\ reader # "open"
    /\ copier' = "broken"
    /\ UNCHANGED <<main, ctx, channel, taken, extracting, pipe, waiting>>

-----------------------------------------------------------------------------
(* extractDownloadTar                                                      *)

\* The pipe hands one unit over; the copier goes back to the channel.
HandOver ==
    /\ extractor = "reading"
    /\ copier = "writing"
    /\ reader = "open"
    /\ copier' = "reading"
    /\ consumed' = consumed + 1
    /\ UNCHANGED <<main, ctx, channel, taken, writer, waiting>>

ExtractUnit ==
    /\ HandOver
    /\ extractor' = IF consumed' = Terminator THEN "ok" ELSE "reading"
    /\ UNCHANGED reader

\* An entry that is unsafe, a link, too much, or cannot be written.
RejectEntry ==
    /\ MayReject
    /\ consumed < NumEntries
    /\ HandOver
    /\ extractor' = "error"
    /\ reader' = "error"

\* What tar.Reader makes of an early end of the stream: nothing at all is an
\* empty archive; between two entries it is taken for the end, else it is an
\* unexpected EOF.
EndOfArchive == IF consumed = 0 THEN {"ok"} ELSE {"ok", "error"}

ExtractorAtEOF ==
    /\ extractor = "reading"
    /\ copier # "writing"
    /\ writer = "closed"
    /\ extractor' \in EndOfArchive
    /\ reader' = IF extractor' = "error" THEN "error" ELSE reader
    /\ UNCHANGED <<main, ctx, channel, copying, consumed, writer, waiting>>

-----------------------------------------------------------------------------
(* The waiter goroutine: Session.Wait, then the write end is closed        *)

WaitExitStatus ==
    /\ waiter = "exitStatus"
    /\ RemoteEnded
    /\ waiter' = "copiers"
    /\ UNCHANGED <<main, ctx, channel, copying, extracting, pipe, waitErr>>

\* Wait returns the exit error before an error of the copier.
WaitResult ==
    IF remote # "zero" THEN remote
    ELSE IF copier = "ended" THEN "nil"
    ELSE IF reader = "closed" THEN "closedPipe" ELSE "error"

CloseWriter == writer' = "closed"

WaitCopiers ==
    /\ waiter = "copiers"
    /\ CopierEnded
    /\ waiter' = "done"
    /\ waitErr' = WaitResult
    /\ CloseWriter
    /\ UNCHANGED <<main, ctx, channel, copying, extracting, reader>>

-----------------------------------------------------------------------------
(* DownloadPath after the goroutines have started                          *)

\* CloseWithError keeps the first error.
CloseReader == reader' = IF reader = "open" THEN "closed" ELSE reader

Extracted ==
    /\ main = "extract"
    /\ extractor \in {"ok", "error"}
    /\ main' = "wait"
    /\ CloseReader
    /\ UNCHANGED <<ctx, channel, copying, extracting, writer, waiting>>

\* Only an exit status for a missing path becomes ErrNotFound.
Return ==
    /\ main = "wait"
    /\ waiter = "done"
    /\ \/ extractor = "error" /\ main' = "failed"
       \/ extractor = "ok" /\ waitErr = "missing" /\ main' = "notFound"
       \/ extractor = "ok" /\ waitErr \in {"lost", "other", "error"} /\ main' = "failed"
       \/ extractor = "ok" /\ waitErr \in {"nil", "closedPipe"}
             /\ main' \in {"installed", "failed"}
    /\ UNCHANGED <<ctx, channel, copying, extracting, pipe, waiting>>

-----------------------------------------------------------------------------
Session == OpenFails \/ OpenSession \/ StartFails \/ StartFailedReturns \/ Start
Copier == CopierReads \/ CopierAtEOF \/ CopierBreaks
Extractor == ExtractUnit \/ RejectEntry \/ ExtractorAtEOF
Waiter == WaitExitStatus \/ WaitCopiers
Main == Session \/ Extracted \/ Return

Next == Main \/ RemoteSends \/ RemoteExits \/ ConnectionLost \/ Cancel
        \/ Copier \/ Extractor \/ Waiter

Spec == Init /\ [][Next]_vars

\* The goroutines run, and cancelling the context breaks the tunnel.
LocalFairness ==
    /\ WF_vars(Main)
    /\ WF_vars(Copier)
    /\ WF_vars(Extractor)
    /\ WF_vars(Waiter)
    /\ WF_vars(ctx = "cancelled" /\ ConnectionLost)

\* Beyond that, tar writes when it can and exits when it has written all.
RemoteFairness == WF_vars(RemoteSends) /\ WF_vars(sent = Total /\ RemoteExits)

CancelSpec == Spec /\ LocalFairness
FairSpec == Spec /\ LocalFairness /\ RemoteFairness

-----------------------------------------------------------------------------
(* Properties                                                              *)

\* An output is installed on the host only when the remote tar has exited with
\* 0 and its whole archive has been read: neither a broken connection, nor a
\* tar that failed after the terminator, nor the copier's own closed pipe is
\* mistaken for success.
InstalledIsComplete ==
    main = "installed" => remote = "zero" /\ consumed = Terminator

\* ErrNotFound, which lets Run skip an optional output, is returned exactly
\* when the remote command exited because the path was missing.
NotFoundIsMissing == Returned => (main = "notFound" <=> remote = "missing")

\* When DownloadPath returns, none of its goroutines still runs (and none
\* writes to the staging directory that is being removed).
NoGoroutineLeft ==
    Returned => /\ extractor \in {"none", "ok", "error"}
                /\ waiter \in {"none", "done"}
                /\ copier \in {"none", "ended", "broken"}

\* A cancelled download returns, whatever the remote does.
CancelledReturns == ctx = "cancelled" ~> Returned

\* Closing the pipe after extraction, "neither side waits for the other
\* indefinitely" (download.go:82): while the remote does its part, a started
\* download returns.
NeitherSideWaits == main = "extract" ~> Returned

\* That holds of every download whose entries are all accepted: closing the
\* read end frees a tar that still pads its last block, as long as the padding
\* fits the window.
AcceptedReturns ==
    RemoteFairness => (main = "extract" ~> Returned \/ extractor = "error")
=============================================================================
