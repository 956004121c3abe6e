# Verification of harness-openshell

`harness` is a Go command line that runs one workflow in an OpenShell sandbox: it
reads a workflow file, checks it against the gateway, checks out a git source on
the host, creates a sandbox, uploads, runs an agent, downloads outputs, deletes
the sandbox and writes a result file. This directory holds TLA+ models of that
code, TLC configurations that check them on small instances, and theorems that
TLAPS checks for every value of the constants. Everything is translated from the
source; paths below are relative to the repository.

## 1. Inventory

| Component | State | Operations | Talks to |
|---|---|---|---|
| Sandbox run (`runner/internal/run/runner.go`) | position in `Run`, the collected errors, the downloads' context | create, wait, upload, exec or interactive session, download, deferred delete | the gateway, by name; `main.go`'s signal context |
| Apply command (`runner/cmd/apply_service.go`, `connect_plan.go`, `workflow_apply.go`) | mode, snapshot of the gateway, staged directories, client, deferred calls | load, connect, plan, preflight, verify, build the request, execute, clean up | `run.Run`, the source cache, the result file, the gateway |
| Result file (`runner/cmd/apply_result.go`) | one JSON file on the host | claim (`O_EXCL`), `setPhase`, `finish` | other commands that name the same path |
| Source cache (`runner/internal/source`) | per repository a bare mirror, its `FETCH_HEAD`, its lock file; per run a checkout | `Prepare`, `fetchIntoCheckout`, `ensureMirror`, `fetchRef` | git, the remote, other processes through the mirror |
| Download stream (`sdkclient/download.go`, `ssh_session.go`) | four concurrent parties, an `io.Pipe`, an SSH window | `DownloadPath`, `extractDownloadTar` | the remote `tar` |
| Outputs on the host (`sdkclient/download.go` around the stream) | the output directory, the staging directory | check of the destination, `MkdirAll`, staging, `installDownloadTree` entry by entry | other processes in the same directory |
| Interactive session (`runner/internal/run/terminal.go`) | pump, output and input goroutines, terminal mode | `runInteractive`, `pumpInteractiveSession`, `copyInteractiveFile` | stdin/stdout of the process, a duplex stream to the command |
| Upload stream (`sdkclient/upload.go`) | a tar writer into an SSH session | `UploadPath` | the remote `tar` |
| Current state and plan (`runner/internal/plan`) | a snapshot of providers, inference route, sandbox | `ReadCurrentState`, `Build` | the gateway |
| Inference reconcile (`runner/internal/reconcile`) | the gateway's inference route | read, compare, set | the gateway |
| Configuration and interpolation (`runner/internal/config`) | none | `Parse`, `expand`, `Resolve` with its checks | environment |
| Target and authentication (`openshell/target.go`, `sdkclient/{gateway,direct,auth,client}.go`) | the connection, and the token of a direct one | resolve, discover the issuer, request and renew a token | environment, gateway files, the OIDC issuer |
| Wrappers (`scripts/run-task.sh`, `pr-review*.sh`) | workspace, `created_workspace`, timers | create the workspace, run harness under `timeout`, trap, clean up | harness, by signals and exit codes |
| Rendering and redaction (`cmd/output.go`, `plan_redaction.go`, ...) | none | format | stdout |

What is hard in this code, and what makes it correct:

- **Sandbox run.** Requests whose reply is lost, two runs with one sandbox name,
  early returns around a deferred delete, and a signal or a kill at any moment.
  Correct means: a sandbox is left behind only by request or with a reported
  error; nobody uses or deletes another run's sandbox; success means that all
  was done; outputs are tried before the delete; a cancelled run ends.
- **Direct connection.** Every call needs a token that expires while the agent
  works, and the source of tokens has a context of its own. Correct means: what
  holds of a run holds however often its token expires, and no run ends without
  asking for the deletion of a sandbox it does not keep.
- **Apply command and result file.** An outcome that is only known after the
  deferred calls, a file other processes name too, providers that change between
  plan and use. Correct means: the file says what happened; it is claimed before
  anything is mutated; only checked executions reach the gateway; nothing is
  left on the host.
- **Plan.** Several reads of a gateway that changes and fails, and two pieces of
  code that derive the plan and the run from one workflow. Correct means: the
  plan shows what was seen, and a run does what its plan shows.
- **Source cache.** Processes that share one `FETCH_HEAD`, prunes by a peer,
  crashes inside the creation of the mirror, a flock that dies with its holder
  while its git child may not. Correct means: every write to the mirror is
  serialized, each process gets the commit its own fetch was answered, and never
  blocks its peers.
- **Download stream.** Four parties that wait for each other through a pipe and
  a flow-control window, and three errors that may describe one event. Correct
  means: only complete archives are installed, "not found" is exact, no
  goroutine outlives the call, the call returns.
- **Outputs on the host.** Destinations that are nested, or that another process
  creates after the check. Correct means: nothing that exists is replaced; a
  success has every entry of the tree it was sent, each made by itself, and
  whatever else lies in the directory is of another process or of a nested output;
  a refusal has a cause outside.
- **Configuration.** One scanner for references that the documentation describes
  in a sentence, and checks that are made in `Resolve`, again in
  `buildRunRequest`, and again by the client, for outputs when the agent has run.
  Correct means: a string has one meaning, and what is accepted early is not
  refused late (but for a NUL in an upload destination, see "Disagreements").
- **Target.** Four sources for a connection, combined in two places. Correct
  means: the first that is there decides, and parts of two are never mixed.
- **Redaction.** Values that contain each other, or what the plan puts between the
  strings it joins. Correct means: no interpolated value is shown, and no part of
  one except where a value reaches across such a joint.
- **Interactive session.** A select among four events, and an input goroutine
  that must let go of stdin. Correct means: exit codes follow the output, stdin
  is released, a signal ends the session.

`PROJECT.json` lists every hazard at the line where it bites, with the properties
that would catch it or the reason why none does.

## 2. Modules

| Module | Models | Extends / instantiates |
|---|---|---|
| `SandboxLease` | abstract: exclusive leases on sandbox names | |
| `SandboxRun` | `Run`, several at once, and the gateway's part of create and delete | `INSTANCE SandboxLease` |
| `DirectRun` | the same runs over direct connections, whose tokens expire | `SandboxRun` |
| `SandboxRunProofs` | theorems about the two | `DirectRun` |
| `ApplyCommand` | `workflow apply` from flags to exit code, and the result file | |
| `ApplyCommandProofs` | theorems | `ApplyCommand` |
| `WorkflowPlan` | the plan (reads, `plan.Build`) and what apply derives and does from the same workflow | |
| `WorkflowPlanProofs` | theorems | `WorkflowPlan` |
| `WorkflowText` | operators on strings: `expand`, path cleaning, redaction | |
| `WorkflowTextProofs` | theorems: what the operators on strings compute | `WorkflowText` |
| `WorkflowDocument` | operators on documents: `Resolve`, the target, what is shown, the run request | `WorkflowText` |
| `OutputInstall` | the downloads of a run on the host's file system | |
| `WorkflowFiles` | one command on one document, from the file to the installed outputs | `WorkflowDocument`, `OutputInstall` |
| `WorkflowFilesProofs` | theorems about `OutputInstall` and `WorkflowFiles` | `WorkflowFiles`, `WorkflowTextProofs` |
| `SourceCache` | `Cache.Prepare` by several processes | |
| `SourceCacheProofs` | theorems | `SourceCache` |
| `DownloadStream` | `DownloadPath` and its goroutines | |
| `DownloadStreamProofs` | theorems | `DownloadStream` |
| `InteractiveSession` | `runInteractive`, the pump and its goroutines | |
| `InteractiveSessionProofs` | theorems | `InteractiveSession` |
| `MC*` | model values and definitions for the configurations | the module of that name |

The components meet at narrow interfaces. Two compositions are literal:
`DirectRun` adds the token to the steps of `SandboxRun`, whose properties are
checked there, and `WorkflowFiles` hands the request it derives from a document to
`OutputInstall`. The others are by abstraction: `ApplyCommand` sees `Run` as "asks
for a sandbox, ends with some errors, deletes" (the steps of `SandboxLease`), and
the checkout as a directory it removes; `SandboxRun` sees a download as found,
missing or failed (the outcomes of `DownloadStream` and `OutputInstall`), and the
agent step as succeeding or failing.

### How state and actions correspond to the code

- **SandboxRun.** `pc[r]` is the position in `Run`; `runErr[r]` the parts of
  `runErr`; `item[r]` the loop variable of uploads, then downloads; `dlCtx[r]`
  whether line 70 took a context of its own; `rpc[r]` the create or delete
  request as the gateway has it, and `owner` the gateway's sandboxes by name. Each
  call that can fail is an action for its success and one for its failure, so
  that a lost reply (`CreateFails` after `GatewayCreate`, or before it) needs no
  special case. `Signal` cancels the context (`main.go:42`), `Kill` is SIGKILL.
  `Next` has the runs and the gateway; `OpenNext` adds somebody who deletes
  sandboxes by name, for the theorems that hold even then. `SandboxLease` is a
  promise for the first only. The module has no run of its own: `direct_run` takes
  each of its actions.
- **DirectRun.** `stage[r]` says how far `New` has come (discovery, first token),
  `token[r]` whether the token source holds none, a fresh or an expired one. The
  steps for which the gateway must accept a call (`Call`) authenticate; the
  token source renews with the context it was made with (`direct.go:99`), so that
  an expired token cannot be replaced once the command was signalled
  (`CannotAuthenticate`), nor while the issuer refuses (`IssuerFails`). By the way
  they are written its steps are steps of `SandboxRun` or of the token, so that it
  says nothing new that they are; what it adds is when a call cannot be sent.
- **ApplyCommand.** `pc[p]` runs through `runApply`, `loadWorkflow`,
  `connectAndBuildPlan`, `executeResolvedWorkflow` and the deferred calls in the
  reverse order of their registration; `err[p]` keeps what `finish` distinguishes
  (`context.Canceled`, `context.DeadlineExceeded`, anything else, and its own
  write error); `phase[p]` is `applyResult.Phase`; `file` the result file.
- **WorkflowPlan.** `workflow` is the desired object after `loadWorkflow`,
  `current` the snapshot (each read an action, with its three kinds of failure),
  `planned` the plan's groups, `request` what `buildRunRequest` makes, `calls` the
  sandbox calls in the order they are made. Plan and request are translated from
  their own code, so that comparing them says something. `always` and `sometime`
  are history: the providers that were there all along, or at all.
- **WorkflowText.** A string is a sequence of tokens; those the code looks for
  (`$`, `{`, `}`, `/`, `\`, `.`, `..`, a NUL), those that the plan joins with (a
  space, a comma, a semicolon) and the characters around the word of the marker
  `<redacted>` stand alone, anything else is a word.
  `Expand` is the scanner of `expand`, piece by piece (`PieceAt`); `Segments`,
  `Clean` and `BelowSandbox` are what the checks use of `path`; `Redact` is
  `strings.ReplaceAll`. `Readings` and `MeaningOf` say independently, by cutting a
  string in every legal way, what the comment above `expandStrict` means.
- **WorkflowDocument.** A document is how its file parses (`form`), its strings by
  path (`text`) and its optional outputs. `ResolveErrors` has the checks of
  `Resolve`; `WorkflowTarget` and `ResolveDirectTarget` are the two halves of the
  choice of a connection; `Desired` the overrides and defaults of `loadWorkflow`;
  `RedactedPlan` and `RedactedWorkflow` what is shown: `PlanDetails` has the strings
  that the plan joins, token by token as they are redacted, and for each its
  `edges`, the tokens that stand next to a string of the document. `Refusals`,
  `Uploads` and `Downloads` are what `buildRunRequest` makes, and `UploadTarget`
  what the client makes of a destination, its refusals included.
- **WorkflowFiles.** `pc` follows one command through these operators to its end;
  `shown` and `request` keep what it showed and asked for.
- **OutputInstall.** `fs` maps each existing path to what it is and to the download
  that made it (0: another process). `step`, `n`, `tree` and `at` are the position
  in the loop of `Run`, in `DownloadPath` and in `installDownloadTree`; mkdir and
  link are steps of their own, between which others create paths.
- **SourceCache.** `holder` is the flock, `mirror`, `fetchHead` and `objects` the
  mirror, `head` and `dirs` the checkouts. git is external and modelled by what
  the code relies on: a fetch empties `FETCH_HEAD`, later writes the remote's
  answer to its first line, and may prune what nothing refers to. Any git command
  on the mirror (`git init`, `git remote`, `git fetch`) may outlive a harness that is
  killed: `orphans[p]` is the step of such a command and `OrphanStep` its end, which
  comes whenever it does, outside any window. `disturbed` is history: the processes
  in whose window such a command wrote to the mirror.
- **DownloadStream.** The archive is a row of units: entries, the terminator,
  and the padding `tar` writes after it. `sent - taken` is what the SSH window
  holds; `reader` and `writer` the two ends of the pipe; `waitErr` what
  `Session.Wait` returned.
- **InteractiveSession.** `main` is `runInteractive` with its pump, `pumpCtx` the
  derived context, `inputRead` the channel variable the pump sets to nil,
  `inStream` and `outStream` the two directions of the session.

Definitions named `Bug_...` are not part of any specification: each is a changed
form of the definition it is named after, the kind of mistake its property is
meant to notice.

## 3. Runs

| Run | Question | Instance | States |
|---|---|---|---|
| `direct_run` | Are leases exclusive, leaks reported, successes complete, outputs tried before the delete, however often tokens expire? Is `SandboxLease` implemented? Does every signalled run end? Can anything but a signal keep the delete from being sent? | two runs, one name, the second run keeps its sandbox; one upload, a required and an optional output; signals, kills, lost replies, tokens that expire | 130,032 |
| `direct_cancel` | Is the sandbox deleted after a signal, as the documentation says? | one run, an issuer that always answers | expected violation |
| `workflow_files` | Has each string one meaning, is a connection made from one source, is nothing interpolated shown (of plans: no value as a whole, and no part but in torn strings), can what `Resolve` accepts be carried out, is nothing on the host replaced? | five families of documents, two outputs, another process that creates paths | 61,831 |
| `plan_torn` | Is nothing of an interpolated value shown in a plan, as the documentation says? | the display family of the documents | expected violation |
| `apply_shared` | Is the result file claimed before mutation, and does it tell the truth? Do only checked executions touch a sandbox, and is nothing left on the host? | two commands, any of nine command lines (every mode; with and without run, source, inference, result file, keep), one result file, a provider that comes and goes, signals and kills; processes are symmetric | 1.7 million |
| `plan_forecast` | Does a run make the calls its plan shows, in that order, and only if the plan shows a usable gateway? Does the plan show what was seen? | 257 workflows, every command, overrides, one provider that comes and goes | 584,894 |
| `cache_shared` | Does each process get its own commit, unless a git without its harness wrote past it? Does a dead or failed process ever block another? | two processes, one mirror, two refs, two commits, kills that take git along or leave it running | 34,036 |
| `cache_orphan` | Is every write to the mirror under the lock, as a comment says? | the same | expected violation |
| `download_safety` | Are only complete archives installed; do cancelled downloads, and those whose entries are accepted, return? | four entries, two units of padding, window of two, an extractor that may refuse | 1,640 |
| `download_rejected` | Does it also return when the extractor refuses? | the same, with a remote that does its part | expected violation |
| `session_terminal` | Exit code after the output, stdin released, signals end the session | three chunks typed, one fits each direction, stdin a file or a reader | 37,064 |
| `session_stuck` | Does cancelling the pump release the input goroutine, as a comment says? | four chunks typed | expected violation |

### Bounds

- Two runs, one name: races for a name are between the run that holds it and one
  that wants it, and names do not interact. One upload and two outputs (one
  required, one optional) show every branch of both loops, including an error in
  the first and a success in the second. Tokens may expire at any time and as often
  as they are renewed.
- Two commands, nine command lines: the result file has one claimant and one
  rival, and each line takes a different way through `executeResolvedWorkflow`.
- Workflows of `WorkflowPlan` combine image, provider, inference, keep, agent,
  source, no or two payloads, and no or two outputs (one required): two items show
  the order, and the rest of the plan does not depend on how many there are.
- The names of `workflow_files` are all strings of up to five tokens over `$`,
  `{`, `}`, a set and an unset variable, and a few longer ones: five tokens hold a
  reference behind a dollar sign, and the longer ones two references behind a
  pair. Payload destinations are all strings of up to four tokens over `/`, `..`
  and a word, and some with a backslash, a dot or a NUL. Two outputs and ten
  destinations contain equal, nested and differently written paths; a tree is a
  file or a directory with a file, and the other process creates one path, or one
  of two below it: one that the directory has too and one that it has not.
  Interpolated values are words and pairs of words, so that one can be a part, the
  beginning or the end of another; a third variable holds a word, or what the plan
  puts between strings or a part of that: a space and a word, or two words around
  a comma and a space. So both a whole joint and a part of one tear, and the
  exemption `MayTear` of `PlanShowsNoInterpolation` occurs: it is what `plan_torn`
  finds.
- Two processes, one mirror: one in the locked window or past it with a result to
  use, and one that enters or that was killed and left its git behind. Two refs let
  a peer overwrite `FETCH_HEAD` with another answer, two commits let it be a
  different one and let a push happen in between. The theorems hold for any number
  of processes and mirrors.
- A window unit stands for the whole 2 MiB of an SSH channel's window divided by
  `Window`, so an archive of seven units is several windows long. `Padding` does
  not exceed `Window` in these runs: `tar` pads to 10 KiB, far below the window.
- Streams of an interactive session hold one chunk each way; what matters is that
  they can be full. Typed chunks exceed what stdin, goroutine and stream hold
  together, so that a write does block. `MaxResizes` bounds window size changes,
  which do nothing but end the session when they fail.
- `MaxTyped`, `MaxResizes`, `NumUploads`, `NumDownloads`, `NumEntries` and
  `Padding` are the only bounds on behaviours, and all are constants; `Inputs`,
  `Trees` and `Foreign` are the sets `workflow_files` takes its documents from.
- Deadlock is not checked, because every one of these programs ends: its last
  states have no successors.

### Fairness, and why the code justifies it

- `DirectRun` (`FairDirectSpec`): steps of a run whose context is cancelled, or
  which runs on its own two-minute context (delete, and the downloads after an
  agent failure), are weakly fair (`Bounded`): such a call returns because its
  context ends it, and the renewal of a token because the HTTP client gives up
  after thirty seconds. Nothing is assumed of a live run, and nothing of the
  gateway. `SandboxRun` needs no fairness of its own.
- `SourceCache`: a live process that can go on goes on. A process waiting for the
  flock can go on only while the flock is free; weak fairness is enough, since
  each process takes it once. That git ends is an assumption: the code sets no
  timeout on it, which is listed as a hazard. Nothing is assumed of the git of a
  dead process.
- `DownloadStream`: the goroutines and the library's copier run, and cancelling
  the context ends the tunnel (`CancelSpec`). Only `AcceptedReturns` and
  `NeitherSideWaits` assume in addition that `tar` writes while there is room and
  exits when it is done.
- `InteractiveSession`: goroutines run, Go's select takes a case that stays
  ready, cancelling the run's context breaks the stream, and a command answers
  input while it can.

### Disagreements between code and text

- `download_rejected`: after an extraction error `DownloadPath` waits for
  `Session.Wait` (`download.go:91`), which waits for the exit status of a `tar`
  blocked on a full window; the comment at lines 81-82 says that neither side
  waits indefinitely. Cancelling the context frees it (`CancelledReturns`).
- `session_stuck`: an input goroutine blocked in `session.Write`
  (`terminal.go:168`) is not released by the pump's cancellation, contrary to
  lines 143-144; a signal, which ends the run's context, does release it.
- `direct_cancel`: `docs/ci.md:203-204` says that the CLI owns the deletion of the
  sandbox, "including normal cancellation", and `runner.go:30` gives the delete a
  live context. The token source of a direct connection keeps the cancelled one
  (`direct.go:99`): when the token has expired at the time of the delete, it
  cannot be renewed and nothing is sent. The run reports an error, so that
  `OnlyReportedLeaks` holds all the same.
- `plan_torn`: `docs/workflow-format.md:95-96` and the repository's
  `README.md:244-245` say that interpolated values are redacted from what is
  displayed, and `plan_test.go:216-218` that they never leak into any plan format.
  `redactPlanString` (`plan_redaction.go:113`) replaces them one after the other
  in strings that `plan.Build` has joined. A value that contains a part of what is
  between two of these strings (", ", "/", "args: ", ...) can end one string of
  the document and begin the next, whose own value then no longer matches, so that
  the rest of it is shown. What does hold is that only joined strings of which a
  value contains a token at a joint are affected (`PlanShowsNoInterpolation`), and
  that no value is shown as a whole (`PlanShowsNoValue`); both are theorems. A
  rendered workflow is redacted string by string and has no such case
  (`DocumentShowsNoInterpolation`).
- `cache_orphan`: `cache.go:13-14` says that every write to the mirror is serialized
  under its lock. The lock goes with the harness that is killed, and git goes on: its
  fetch writes `FETCH_HEAD` and may prune while the next process has the lock.
  Followed further (18 steps), the next process reads the dead one's commit and
  runs on a checkout of another ref, or misses its own commit. `RightCommit` and
  `CommitNotPruned` exempt the processes that this happens to (`disturbed`), and no
  others.

Three remarks that are not runs: the first is an imprecision of the text, and for
the other two no text promises the contrary.

- `docs/workflow-format.md:42-43` says that `OPENSHELL_*` variables take precedence
  over the document's target; the variables of a direct connection
  (`OPENSHELL_GATEWAY_ENDPOINT` and the OIDC ones) come after it, which is what
  `TargetByPrecedence` states.
- Half a `git init` makes every later `Prepare` of that repository fail: `isGitDir`
  looks only for `HEAD`, so that a directory in which git died before it wrote the
  rest is taken for a mirror, and no step repairs it. The comment at
  `mirror.go:84-87` promises recovery only for a repository that was created and has
  no origin (`FetchHasOrigin`). The model has the other half as `mirror = "partial"`.
- A NUL in the destination of an upload passes `Resolve` (`env.go:257-280`) and
  `buildRunRequest`, and is refused by `uploadTarget` (`upload.go:61-66`) when the
  sandbox is already running. `RequestFollowsDocument` says that this is the only
  destination for which that happens.

## 4. Proofs

All theorems hold for any number of processes, names, mirrors, refs, commits,
outputs, chunks and archive lengths, whatever else the constants are, unless a
hypothesis is named. The constants' assumptions are types, and for `WorkflowFiles`
two more: a document has finitely many strings, and the entries of its lists are
numbered from 1 (they are YAML sequences, two of them of strings), and `Names` has
the names of the outputs that are installed.

**SandboxRunProofs** has three invariants, for two environments.

- `OpenInv` is inductive even when others delete sandboxes: `CallsMatch` says
  which state the gateway's part of a call has at each step of `Run`, `Disowned`
  when a run cannot own its name, `ReturnsExplained` in which of four ways a run
  returned. `NoSilentLeak` (`OnlyReportedLeaks`) follows for `OpenSpec`.
- `IInv` adds `Holds`, for the runs and the gateway alone: a run in a step after
  `CreateReturns` owns its name, and so does one whose delete is under way. None
  of the properties is inductive without it, since nothing else excludes a delete
  that hits another run's sandbox. It gives `AgentIsolation`
  (`AgentInOwnSandbox`), `OwnDeletes` (`DeletesOnlyOwn`), and the step of the
  refinement `RunImplementsLease` (`ImplementsLease`): every action is one step of
  `SandboxLease` or a stutter under `lease <- owner`, `outcome <- OutcomeOf`.
- `CInv` follows what has been collected: an error-free run in its downloads has
  every required output before `item[r]`. It gives `SuccessComplete`
  (`SuccessIsComplete`) and `OutputsCollectedFirst` (`OutputsBeforeDelete`), both
  for `OpenSpec`.

`RunGoesForward` needs only the types: a run never comes back to a step, and where
it copies it takes each item once, so that only a call that never returns can keep
it from ending.

The second half is about `DirectRun`, whose steps are steps of `SandboxRun` as they
are written (`DirectStepsAreRunSteps`, a lemma), so that `DirectNoSilentLeak`,
`DirectSuccessComplete` and `DirectOutputsCollectedFirst` are the theorems about
runs read over a direct connection. `SignalAloneCutsCleanup`
(`OnlySignalCutsCleanup`) is what it has of its own; it needs `SInv`, which adds when
a delete can have been sent.

**ApplyCommandProofs.** `Safe` has for each command what it has claimed, checked
and still to remove at each point; `FileClaimed` (`ClaimBeforeMutation`),
`SandboxAfterChecks` (`OnlyCheckedRuns`) and `EndsClean` (`ExitsClean`) follow.
`Honest` relates the errors collected so far to the result in memory and to the
file, and gives `FileTellsTruth` (`ResultTruthful`) and `FileIsWritten`
(`ResultWritten`); the other commands matter only through the exclusive claim.

**WorkflowPlanProofs.** `Snapshot` bounds what the command has read by the
providers that were there all along and those that were there at all; `FromPlan`
says that the plan is built once from that and the calls come after it.
`PlanShowsSeen` (`ShownAsSeen`) and `PlanBeforeRun` (`PlanGatesRun`) follow.
`CallsMade` adds what has been requested (`Requested`), and that the calls made so
far are the first ones of the plan, as many as `pc` and `item` say (`Progress`).
`CallsFollowPlan` (`PlannedInOrder`), `SuccessMeansPlan` (`SuccessIsPlan`) and
`TypeCorrect` follow; the calls are compared with the plan position by position,
so that no induction over them is needed.

**WorkflowTextProofs** says what the recursive functions of `WorkflowText` compute,
for strings of every length over any tokens. The induction theorems of the library
take operators as parameters, which the provers cannot instantiate; here the sets
are data instead. A set of naturals has a least member (`LeastMember`, from the
library's `WFMin`), hence induction over a set of positions (`Induction`,
`DownInduction`), hence a function that follows a recursion from left to right or
from right to left exists (`Recursion`, `DownRecursion`), and the recursive
functions of the model are that function. From this the module proves

- the defining equations of `Segments`, `Join`, `Counted`, `Expand`, `Readings`
  and `MeaningOf`;
- `CleanKeeps`: cleaning a path keeps the segments that count and the leading
  slash, hence what was checked before it holds after it;
- `ExpandIsMeaning`: a string can be cut into pieces in exactly one legal way, and
  the scanner of `expand` writes what this cut means and reports what it misses;
- `RedactAllHides`: nothing is left of a value. `Redact` is a scan that skips a
  match and copies everything else (`RedactScans`). It leaves alone a string that
  is shorter than what is looked for or as long and different (`LongerNowhere`),
  and replaces an equal one as a whole (`RedactWhole`). A finite set of values can be sorted
  (`OrderExists`, by induction over its cardinality), so that `LongestFirst` is an
  order: the values before one are longer or as long, leave it alone, and those
  after it meet only what has replaced it;
- `RedactAllRemoves`: no value that the marker could not complete stands in what is
  left, whatever the values are and wherever in the string they stood. A
  match in the result of one replacement would have stood there before
  (`StoodBefore`), so that a value that has been removed never comes back;
- `RedactAllAround`: a token that is in no value parts what is redacted, so that
  strings joined by it are redacted one by one (`HiddenAround`, `JoinStays`).

**WorkflowFilesProofs** has first the downloads alone. `InstallReplacesNothing`
(`NothingReplaced`) holds step by step, because mkdir and link only ever add a
path. `InstallInvariant` adds to the types which downloads can have an outcome,
and that the entries installed so far are in place and made by this download. This
gives the first half of `InstalledOutputsAreWhole` (`InstalledWhole`), kept
because of what the first theorem says of every step. The second half, about what
else lies in an installed directory, and `TakenDestinations`
(`CollisionsExplained`) need `Provenance`: every path that exists is another
process's, or an ancestor or an entry of the destination of a download that has
begun. It is a theorem of `DistinctSpec`, the downloads of requests without two
equal destinations.

Then the commands. `Computed` is the inductive invariant: the variables of a
command are, at each point, functions of its input. What remains is about those
functions:

- `ExpansionIsExact` (`ExpansionExact`) from `ExpandIsMeaning`;
- `TargetChosen` (`TargetByPrecedence`): the two halves of the choice, in
  `loadWorkflow` and in `New`, taken together;
- `CommandInstalls`: `FilesSpec => DistinctSpec`. The step that matters is
  `CollectOutputs`: two outputs that pass `Resolve` have different cleaned
  destinations, and equal segments would give equal cleaned paths
  (`SameSegmentsSameClean`). `CommandReplacesNothing`, `CommandInstallsWhole` and
  `CommandCollisions` are the theorems about downloads read through it. TLC cannot
  evaluate `DistinctSpec`, which ranges over all sequences of paths; it checks the
  three properties on `FilesSpec` instead;
- `ResolvedIsCarriedOut` (`RequestFollowsDocument`): the checks of `Resolve` imply
  those of `buildRunRequest` and of the client but for the image, the submodules,
  the output directory and a NUL in an upload destination, and `UploadLands`
  follows a payload through `uploadTarget`;
- `DocumentShowsLiterals` (`DocumentShowsNoInterpolation`): only a string whose
  source has no dollar sign is shown, `expand` leaves such a string alone
  (`LiteralExpands`), and the flags, settings and defaults that may have taken its
  place are not interpolated;
- `PlanShowsLiterals` (`PlanShowsNoInterpolation`): a string of the plan is written
  by the program, or a string of the document without a dollar sign, or an
  interpolated value (`FieldHides`), or such strings with the program's tokens
  between them (`DetailHides`). The first two have no interpolated token, of the
  third nothing is left, and where no value contains one of the `edges` the fourth
  is redacted part by part. The order matters only for the third; the changed form
  that starts with the shortest value violates the property in `workflow_files`;
- `PlanShowsNoSecret` (`PlanShowsNoValue`) has no such exemption: it is
  `RedactAllRemoves` for every string of the plan, torn or not. Values with an
  angle bracket, and the marker's own word, are excepted, because a replacement
  may complete them (words are atoms here, so that a value which is a part of the
  word `redacted` is outside the model);
- `CommandStaysInside` reads `Provenance` for commands: whatever a command creates
  belongs to the destination of one of its outputs, whatever the sandbox sends.

**SourceCacheProofs.** `FlockExcludes` (`MutualExclusion`) follows from
`HolderInv`: a process in the window holds the flock. `OriginBeforeFetch`
(`FetchHasOrigin`) follows a process through the creation of a mirror that others
may have left half made, `CheckoutsRemoved` (`NoCheckoutLeak`) is `DirInv`. All of
this holds while the git of dead processes goes on writing. `CheckoutAtAnswer`
(`RightCommit`) and `CommitSurvivesPrune` (`CommitNotPruned`) are about the processes
past which it did not write: `AnswerInv` follows each of these from its fetch to its
checkout: `FETCH_HEAD`, then `commit[p]`, then `head[p]` is `answered[p]`, and it is
in the object store. `OthersKeepAnswer` is where the flock matters: steps of other
living processes do not disturb it. A command that outlived its harness either
leaves the mirror's answer alone or marks the process as disturbed
(`OrphansKeepAnswer`). Two theorems are
about waiting: `OnlyTheLivingHold`, since the kernel gives a dead process's flock
back, and `PrepareGoesForward`: a process has at most twelve steps.

**DownloadStreamProofs.** `OnlyCompleteInstalled` (`InstalledIsComplete`),
`NotFoundExact` (`NotFoundIsMissing`) and `GoroutinesJoined` (`NoGoroutineLeft`).
`IInv` has `Units` (what is consumed was taken, what was taken was sent),
`Endings` (how each party can have ended, given the others) and `Progress` (which
parties exist at each point of `DownloadPath`). The lemma `EarlyEOF` is the heart:
an end of the stream before the terminator implies that the remote did not exit
with 0.

Three more theorems say why a download ends. `DownloadIsBounded`: `StepsTaken` counts
how far each party has come and which units were sent, taken and consumed; every
step, one of the remote or a cancellation included, adds to it, and it never passes
`3 * Total + 14`. `OnlyRemoteKeepsWaiting`: while `DownloadPath` has not returned, a
party can step (`PartyCanStep`, the guards of the parties' actions) or the remote
command still runs. `AcceptedGoesOn`: where the window has room for the padding, the
remote can be stuck only after an entry was refused. Both follow from `IInv` and
from `Running`, which says who has been started.

**InteractiveSessionProofs.** `SessionInv` says which of the three goroutines can
be where; it gives `CodeAfterOutput` (`ExitCodeAfterOutput`) and `StdinGivenBack`
(`StdinReleased`).

**Only model-checked.** Liveness: `CancelledRunEnds`, `EveryPrepareEnds`, and
`CancelledReturns` and `AcceptedReturns`, which are out of the prover's reach. Of
their arguments the half without fairness and ENABLED is proved, as
`RunGoesForward`, `PrepareGoesForward` with `OnlyTheLivingHold`, and
`DownloadIsBounded` with `OnlyRemoteKeepsWaiting` and `AcceptedGoesOn`; that a
party which can step does is what the runs check under the fairness stated. Every
invariant and every other action property of the passing runs is a theorem. The types of
`WorkflowPlan` and of the other modules whose `TypeCorrect` names no property of a
run are proved and not checked by a run of their own.

## 5. Not modelled

- **Inference reconcile.** Unreachable in this version: every inference call of
  the client returns `errManagedInferenceRemoved`, and `preflightPlan` refuses a
  workflow that has a route (which `WorkflowPlan`, `ApplyCommand` and
  `WorkflowFiles` have).
- **Review and task wrappers** (`scripts/`). What is hard in them is bash's: traps,
  job control and `timeout`. The repository does not define these; the kill that
  `timeout` sends is `Kill` of `SandboxRun`.
- **Upload stream.** `writeTar` is sequential code without shared state; an upload
  is one step that succeeds or fails, and lands where `UploadTarget` says.
- **Registrations.** Reading a registration's files and credentials (`gateway.go`,
  `auth.go`) is a sequence of checks that ends in a connection or an error.
- **Rendering.** The layout of tables, YAML and JSON; the warning on stderr of a
  plan that is made offline (`connect_plan.go:32`), which is not redacted and not
  part of `shown`.
- **Details.** The contents of files and messages; `path.Clean` on paths with a
  `..` segment, which the checks refuse before it matters; retries inside the
  OpenShell SDK; a failure to remove a staged directory in `ApplyCommand`
  (`SourceCache` has it as `kept`); the limits on the size of a download, whose
  excess is one of the entries the extractor refuses; the stderr stream of SSH
  sessions; terminal modes.
- **Test fakes, container images and CI workflows** are not part of the running
  system.
