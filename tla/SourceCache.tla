----------------------------- MODULE SourceCache -----------------------------
(***************************************************************************)
(* Cache.Prepare of runner/internal/source: harness processes on one host  *)
(* that share, per repository, a bare mirror, and build from it a checkout *)
(* of their own.  The mirror is updated, and the wanted commit copied out  *)
(* of it, under an exclusive flock; the rest runs without the lock.        *)
(*                                                                         *)
(* git is external: a fetch empties FETCH_HEAD when it starts and appends  *)
(* what the remote answered when it ends, possibly pruning what nothing    *)
(* refers to any more.  A process may be killed at any step; the kernel    *)
(* then drops its flock.  Its git child dies with it or, when only the     *)
(* harness was killed, runs on and still writes to the mirror, outside any *)
(* window (Go opens the lock file close-on-exec, so that the child does    *)
(* not hold the flock).                                                    *)
(***************************************************************************)
EXTENDS Integers

CONSTANTS
    Procs,       \* processes that call Prepare, once each
    Mirrors,     \* canonical repository URLs, hashed into mirror paths
    MirrorOf,    \* the repository of each process
    Refs,        \* branches and tags
    RefOf,       \* the ref each process wants
    Commits,
    NoProc,      \* nobody holds the flock
    NoCommit     \* no commit: an empty FETCH_HEAD, an unborn HEAD

ASSUME CacheAssumption ==
    /\ NoProc \notin Procs
    /\ NoCommit \notin Commits
    /\ MirrorOf \in [Procs -> Mirrors]
    /\ RefOf \in [Procs -> Refs]

VARIABLES
    pc,         \* pc[p]: where p is in Prepare
    holder,     \* holder[m]: the process that holds the flock on <mirror>.lock
    mirror,     \* mirror[m]: "absent", "partial", "bare" (no origin yet) or "ready"
    fetchHead,  \* fetchHead[m]: the first line of the mirror's FETCH_HEAD
    objects,    \* objects[m]: the commits in the mirror's object store
    tip,        \* tip[ref]: what the remote's ref points to
    answered,   \* answered[p]: what the remote answered p's fetch (history)
    commit,     \* commit[p]: the result of fetchRef
    head,       \* head[p]: the HEAD of p's checkout
    dirs,       \* the processes whose run directory exists
    kept,       \* the processes whose run directory could not be removed
    orphans,    \* orphans[p]: the step of p whose git outlived p, or "none"
    disturbed   \* the processes an orphaned fetch wrote past in their window (history)

vars == <<pc, holder, mirror, fetchHead, objects, tip, answered, commit, head,
          dirs, kept, orphans, disturbed>>

Locked == {"ensure", "origin", "fetch", "fetching", "resolve", "makeDir", "copy",
           "unlock", "failing"}
Unlocked == {"checkout", "submodules", "removing"}
Finished == {"done", "failed", "dead"}

TypeOK ==
    /\ pc \in [Procs -> {"idle", "prepared"} \cup Locked \cup Unlocked \cup Finished]
    /\ holder \in [Mirrors -> Procs \cup {NoProc}]
    /\ mirror \in [Mirrors -> {"absent", "partial", "bare", "ready"}]
    /\ fetchHead \in [Mirrors -> Commits \cup {NoCommit}]
    /\ objects \in [Mirrors -> SUBSET Commits]
    /\ tip \in [Refs -> Commits]
    /\ answered \in [Procs -> Commits \cup {NoCommit}]
    /\ commit \in [Procs -> Commits \cup {NoCommit}]
    /\ head \in [Procs -> Commits \cup {NoCommit}]
    /\ dirs \subseteq Procs
    /\ kept \subseteq Procs
    /\ orphans \in [Procs -> {"none", "ensure", "origin", "fetching"}]
    /\ disturbed \subseteq Procs

Init ==
    /\ pc = [p \in Procs |-> "idle"]
    /\ holder = [m \in Mirrors |-> NoProc]
    /\ mirror = [m \in Mirrors |-> "absent"]
    /\ fetchHead = [m \in Mirrors |-> NoCommit]
    /\ objects = [m \in Mirrors |-> {}]
    /\ tip \in [Refs -> Commits]
    /\ answered = [p \in Procs |-> NoCommit]
    /\ commit = [p \in Procs |-> NoCommit]
    /\ head = [p \in Procs |-> NoCommit]
    /\ dirs = {}
    /\ kept = {}
    /\ orphans = [p \in Procs |-> "none"]
    /\ disturbed = {}

Step(p, from, to) == pc[p] = from /\ pc' = [pc EXCEPT ![p] = to]

repo == <<mirror, fetchHead, objects>>
run == <<answered, commit, head>>
disk == <<dirs, kept>>
strays == <<orphans, disturbed>>

-----------------------------------------------------------------------------
(* Changed forms of actions below: bugs the properties must tell from them *)

\* The origin is configured only when the mirror has just been created.
Bug_EnsureMirror(p) ==
    /\ IF mirror[MirrorOf[p]] = "absent"
         THEN Step(p, "ensure", "origin") /\ mirror' = [mirror EXCEPT ![MirrorOf[p]] = "bare"]
         ELSE Step(p, "ensure", "fetch") /\ UNCHANGED mirror
    /\ UNCHANGED <<holder, fetchHead, objects, tip, run, disk, strays>>

\* The lock is dropped after the fetch, before the commit is copied.
Bug_MakeCheckout(p) ==
    /\ Step(p, "makeDir", "copy")
    /\ holder' = [holder EXCEPT ![MirrorOf[p]] = NoProc]
    /\ dirs' = dirs \cup {p}
    /\ UNCHANGED <<repo, tip, run, kept, strays>>

\* A failure under the lock skips the unlock.
Bug_UnlockFailed(p) ==
    /\ Step(p, "failing", "removing")
    /\ UNCHANGED <<holder, repo, tip, run, disk, strays>>

\* A failing git command returns without removing the run directory.
Bug_Fails(p) ==
    /\ \/ Step(p, "checkout", "failed")
       \/ Step(p, "submodules", "failed")
    /\ UNCHANGED <<holder, repo, tip, run, disk, strays>>

\* The ref is asked of the remote again instead of read from FETCH_HEAD.
Bug_ResolveFetchHead(p) ==
    /\ Step(p, "resolve", "makeDir")
    /\ commit' = [commit EXCEPT ![p] = tip[RefOf[p]]]
    /\ UNCHANGED <<holder, repo, tip, answered, head, disk, strays>>

-----------------------------------------------------------------------------
(* fetchIntoCheckout: everything up to "unlock" holds the flock            *)

\* The repository name is invalid, or the lock file cannot be opened or locked.
Reject(p) ==
    /\ Step(p, "idle", "failed")
    /\ UNCHANGED <<holder, repo, tip, run, disk, strays>>

LockMirror(p) ==
    /\ Step(p, "idle", "ensure")
    /\ holder[MirrorOf[p]] = NoProc
    /\ holder' = [holder EXCEPT ![MirrorOf[p]] = p]
    /\ UNCHANGED <<repo, tip, run, disk, strays>>

EnsureMirror(p) ==
    /\ Step(p, "ensure", "origin")
    /\ mirror' = [mirror EXCEPT ![MirrorOf[p]] = IF @ = "absent" THEN "bare" ELSE @]
    /\ UNCHANGED <<holder, fetchHead, objects, tip, run, disk, strays>>

\* git remote works in any repository, but not in half of one.
EnsureOrigin(p) ==
    /\ Step(p, "origin", "fetch")
    /\ mirror[MirrorOf[p]] \in {"bare", "ready"}
    /\ mirror' = [mirror EXCEPT ![MirrorOf[p]] = "ready"]
    /\ UNCHANGED <<holder, fetchHead, objects, tip, run, disk, strays>>

FetchStarts(p) ==
    /\ Step(p, "fetch", "fetching")
    /\ mirror[MirrorOf[p]] = "ready"
    /\ fetchHead' = [fetchHead EXCEPT ![MirrorOf[p]] = NoCommit]
    /\ UNCHANGED <<holder, mirror, objects, tip, run, disk, strays>>

\* git appends to FETCH_HEAD, of which only the first line is read, and may
\* prune the commits that nothing in the mirror refers to.
WriteMirror(m, c) ==
    /\ fetchHead' = [fetchHead EXCEPT ![m] = IF @ = NoCommit THEN c ELSE @]
    /\ \E prune \in BOOLEAN :
          objects' = [objects EXCEPT ![m] = IF prune THEN {c, fetchHead[m]} \cap Commits
                                                     ELSE @ \cup {c}]

FetchEnds(p) ==
    /\ Step(p, "fetching", "resolve")
    /\ WriteMirror(MirrorOf[p], tip[RefOf[p]])
    /\ answered' = [answered EXCEPT ![p] = tip[RefOf[p]]]
    /\ UNCHANGED <<holder, mirror, tip, commit, head, disk, strays>>

ResolveFetchHead(p) ==
    /\ Step(p, "resolve", "makeDir")
    /\ fetchHead[MirrorOf[p]] # NoCommit
    /\ commit' = [commit EXCEPT ![p] = fetchHead[MirrorOf[p]]]
    /\ UNCHANGED <<holder, repo, tip, answered, head, disk, strays>>

MakeCheckout(p) ==
    /\ Step(p, "makeDir", "copy")
    /\ dirs' = dirs \cup {p}
    /\ UNCHANGED <<holder, repo, tip, run, kept, strays>>

CopyCommit(p) ==
    /\ Step(p, "copy", "unlock")
    /\ commit[p] \in objects[MirrorOf[p]]
    /\ UNCHANGED <<holder, repo, tip, run, disk, strays>>

Unlock(p) ==
    /\ Step(p, "unlock", "checkout")
    /\ holder' = [holder EXCEPT ![MirrorOf[p]] = NoProc]
    /\ UNCHANGED <<repo, tip, run, disk, strays>>

\* An interrupted git init leaves a HEAD, which is all isGitDir looks for, and
\* possibly nothing else of a repository.
HalfInit(p) ==
    IF pc[p] = "ensure" /\ mirror[MirrorOf[p]] = "absent"
      THEN {mirror, [mirror EXCEPT ![MirrorOf[p]] = "partial"]}
      ELSE {mirror}

\* Any git command or file operation under the lock may fail.
FailsLocked(p) ==
    /\ pc[p] \in Locked \ {"unlock", "failing"}
    /\ pc' = [pc EXCEPT ![p] = "failing"]
    /\ dirs' \in {dirs, IF pc[p] = "makeDir" THEN dirs \cup {p} ELSE dirs}
    /\ mirror' \in HalfInit(p)
    /\ UNCHANGED <<holder, fetchHead, objects, tip, run, kept, strays>>

\* The deferred unlock runs before Prepare removes the run directory.
UnlockFailed(p) ==
    /\ Step(p, "failing", "removing")
    /\ holder' = [holder EXCEPT ![MirrorOf[p]] = NoProc]
    /\ UNCHANGED <<repo, tip, run, disk, strays>>

-----------------------------------------------------------------------------
(* The rest of Prepare, and the Cleanup it returns                         *)

CheckoutFetchHead(p) ==
    /\ Step(p, "checkout", "submodules")
    /\ head' = [head EXCEPT ![p] = commit[p]]
    /\ UNCHANGED <<holder, repo, tip, answered, commit, disk, strays>>

\* The submodules are updated and HEAD is resolved into Prepared.Commit.
FinishPrepare(p) ==
    /\ Step(p, "submodules", "prepared")
    /\ UNCHANGED <<holder, repo, tip, run, disk, strays>>

Fails(p) ==
    /\ \/ Step(p, "checkout", "removing")
       \/ Step(p, "submodules", "removing")
    /\ UNCHANGED <<holder, repo, tip, run, disk, strays>>

\* os.RemoveAll of the run directory, after a failure or when the run is over.
RemoveRunDir(p) ==
    /\ \/ Step(p, "removing", "failed")
       \/ Step(p, "prepared", "done")
    /\ \/ dirs' = dirs \ {p} /\ UNCHANGED kept
       \/ kept' = kept \cup {p} /\ UNCHANGED dirs
    /\ UNCHANGED <<holder, repo, tip, run, strays>>

-----------------------------------------------------------------------------
(* The environment                                                         *)

\* A push moves a ref of the remote.
Push(ref, c) ==
    /\ tip' = [tip EXCEPT ![ref] = c]
    /\ UNCHANGED <<pc, holder, repo, run, disk, strays>>

\* The commands of p's step that write to the mirror: git init, run only when
\* there is no mirror, git remote and git fetch.
WritesMirror(p) ==
    \/ pc[p] \in {"origin", "fetching"}
    \/ pc[p] = "ensure" /\ mirror[MirrorOf[p]] = "absent"

Kill(p) ==
    /\ pc[p] \notin Finished
    /\ pc' = [pc EXCEPT ![p] = "dead"]
    /\ holder' = [m \in Mirrors |-> IF holder[m] = p THEN NoProc ELSE holder[m]]
    /\ \/ UNCHANGED orphans
       \/ WritesMirror(p) /\ orphans' = [orphans EXCEPT ![p] = pc[p]]
    /\ mirror' \in HalfInit(p)
    /\ UNCHANGED <<fetchHead, objects, tip, run, disk, disturbed>>

\* What outlived a killed process ends, whoever holds the flock by then.
OrphanEnds(p, step) ==
    /\ orphans[p] = step
    /\ orphans' = [orphans EXCEPT ![p] = "none"]
    /\ UNCHANGED <<pc, holder, tip, run, disk>>

OrphanInitEnds(p) ==
    /\ OrphanEnds(p, "ensure")
    /\ mirror' = [mirror EXCEPT ![MirrorOf[p]] = IF @ = "ready" THEN @ ELSE "bare"]
    /\ UNCHANGED <<fetchHead, objects, disturbed>>

OrphanRemoteEnds(p) ==
    /\ OrphanEnds(p, "origin")
    /\ mirror' = [mirror EXCEPT ![MirrorOf[p]] = IF @ = "bare" THEN "ready" ELSE @]
    /\ UNCHANGED <<fetchHead, objects, disturbed>>

OrphanFetchEnds(p) ==
    /\ OrphanEnds(p, "fetching")
    /\ WriteMirror(MirrorOf[p], tip[RefOf[p]])
    /\ disturbed' = disturbed \cup
          {q \in Procs : pc[q] \in Locked /\ MirrorOf[q] = MirrorOf[p]}
    /\ UNCHANGED mirror

-----------------------------------------------------------------------------
LockedStep(p) ==
    \/ EnsureMirror(p) \/ EnsureOrigin(p) \/ FetchStarts(p) \/ FetchEnds(p)
    \/ ResolveFetchHead(p) \/ MakeCheckout(p) \/ CopyCommit(p) \/ Unlock(p)
    \/ FailsLocked(p) \/ UnlockFailed(p)

PrepareStep(p) ==
    \/ LockMirror(p) \/ LockedStep(p)
    \/ CheckoutFetchHead(p) \/ FinishPrepare(p) \/ Fails(p) \/ RemoveRunDir(p)

OrphanStep(p) == OrphanInitEnds(p) \/ OrphanRemoteEnds(p) \/ OrphanFetchEnds(p)

Next ==
    \/ \E p \in Procs : Reject(p) \/ PrepareStep(p) \/ Kill(p) \/ OrphanStep(p)
    \/ \E ref \in Refs, c \in Commits : Push(ref, c)

Spec == Init /\ [][Next]_vars

\* git commands end, and the kernel hands the flock to a waiter: a process
\* that can go on goes on.  No other bound exists: Prepare takes no context,
\* and a process that waits for the flock waits until it is free.
FairSpec == Spec /\ \A p \in Procs : WF_vars(PrepareStep(p))

-----------------------------------------------------------------------------
(* Properties                                                              *)

\* The flock admits one process at a time to the window in which the mirror
\* is updated and read (lockMirror).
MutualExclusion ==
    \A p, q \in Procs :
        pc[p] \in Locked /\ pc[q] \in Locked /\ MirrorOf[p] = MirrorOf[q] => p = q

\* The checkout handed to the run, and reported as Prepared.Commit, is what
\* the remote answered this process's own fetch of its own ref, although all
\* processes of a repository go through the same FETCH_HEAD.  Only a git fetch
\* that outlived its harness can break this, by writing in the middle of the
\* window (FetchesSerialized).
RightCommit ==
    \A p \in Procs \ disturbed :
        pc[p] \in {"prepared", "done"} => head[p] = answered[p]

\* A fetch of a peer never prunes the commit that is about to be copied
\* (fetchIntoCheckout keeps the lock across both), with the same exception.
CommitNotPruned ==
    \A p \in Procs \ disturbed : pc[p] = "copy" => commit[p] \in objects[MirrorOf[p]]

\* A fetch only starts in a mirror that has an origin, also "after a crash
\* that left the bare repo created but the remote unconfigured" (ensureMirror,
\* mirror.go:86-87), and after one in the middle of git init.  It does not say
\* that a fetch can start: a git init that died may have left half a mirror,
\* which nobody completes, and every later Prepare of that repository fails.
FetchHasOrigin == \A p \in Procs : pc[p] = "fetch" => mirror[MirrorOf[p]] = "ready"

\* "The mirror is the only shared state; every write to it is serialized under a
\* per-mirror file lock" (cache.go:13-14): what a process has fetched changes
\* under its lock by its own steps only.  A fetch that outlived its harness
\* changes it all the same.
FetchesSerialized ==
    [][\A p \in Procs :
         LET m == MirrorOf[p] IN
         pc[p] \in Locked /\ <<fetchHead[m], objects[m]>>' # <<fetchHead[m], objects[m]>>
            => pc'[p] # pc[p]]_vars

\* A process that ends by itself leaves its run directory behind only if it
\* could not be removed (TestPrepareBadRefNoLeak).
NoCheckoutLeak == \A p \in dirs : pc[p] \in {"done", "failed"} => p \in kept

\* A killed or failing process never blocks its peers: every Prepare ends.
EveryPrepareEnds == \A p \in Procs : pc[p] = "idle" ~> pc[p] \in Finished
=============================================================================
