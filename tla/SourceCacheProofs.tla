-------------------------- MODULE SourceCacheProofs --------------------------
(***************************************************************************)
(* Theorems about SourceCache: the flock excludes, and every checkout is   *)
(* at the commit the remote answered, unless a git that outlived another   *)
(* harness wrote past it.  The argument follows one process through its    *)
(* locked window: what it left in FETCH_HEAD and in the object store stays *)
(* there, since nobody else is in a window of the same mirror.             *)
(***************************************************************************)
EXTENDS SourceCache, TLAPS

USE DEF Step, repo, run, disk, strays, OrphanEnds

LEMMA InitTypeOK == Init => TypeOK
  BY DEF Init, TypeOK

LEMMA WriteTypeOK ==
    ASSUME TypeOK, NEW m \in Mirrors, NEW c \in Commits, WriteMirror(m, c)
    PROVE  /\ fetchHead' \in [Mirrors -> Commits \cup {NoCommit}]
           /\ objects' \in [Mirrors -> SUBSET Commits]
  BY DEF TypeOK, WriteMirror

LEMMA NextTypeOK == TypeOK /\ [Next]_vars => TypeOK'
<1> SUFFICES ASSUME TypeOK, [Next]_vars PROVE TypeOK'
  OBVIOUS
<1> USE CacheAssumption DEF TypeOK, Locked, Unlocked, Finished
<1>1. ASSUME NEW p \in Procs, Reject(p) PROVE TypeOK'
  BY <1>1 DEF Reject
<1>2. ASSUME NEW p \in Procs, LockMirror(p) PROVE TypeOK'
  BY <1>2 DEF LockMirror
<1>3. ASSUME NEW p \in Procs, EnsureMirror(p) PROVE TypeOK'
  BY <1>3 DEF EnsureMirror
<1>4. ASSUME NEW p \in Procs, EnsureOrigin(p) PROVE TypeOK'
  BY <1>4 DEF EnsureOrigin
<1>5. ASSUME NEW p \in Procs, FetchStarts(p) PROVE TypeOK'
  BY <1>5 DEF FetchStarts
<1>6. ASSUME NEW p \in Procs, FetchEnds(p) PROVE TypeOK'
  <2>1. MirrorOf[p] \in Mirrors /\ tip[RefOf[p]] \in Commits
    OBVIOUS
  <2>2. /\ fetchHead' \in [Mirrors -> Commits \cup {NoCommit}]
        /\ objects' \in [Mirrors -> SUBSET Commits]
    BY <1>6, <2>1, WriteTypeOK DEF FetchEnds
  <2> QED BY <1>6, <2>1, <2>2 DEF FetchEnds
<1>7. ASSUME NEW p \in Procs, ResolveFetchHead(p) PROVE TypeOK'
  BY <1>7 DEF ResolveFetchHead
<1>8. ASSUME NEW p \in Procs, MakeCheckout(p) PROVE TypeOK'
  BY <1>8 DEF MakeCheckout
<1>9. ASSUME NEW p \in Procs, CopyCommit(p) PROVE TypeOK'
  BY <1>9 DEF CopyCommit
<1>10. ASSUME NEW p \in Procs, Unlock(p) PROVE TypeOK'
  BY <1>10 DEF Unlock
<1>11. ASSUME NEW p \in Procs, FailsLocked(p) PROVE TypeOK'
  BY <1>11 DEF FailsLocked, HalfInit
<1>12. ASSUME NEW p \in Procs, UnlockFailed(p) PROVE TypeOK'
  BY <1>12 DEF UnlockFailed
<1>13. ASSUME NEW p \in Procs, CheckoutFetchHead(p) PROVE TypeOK'
  BY <1>13 DEF CheckoutFetchHead
<1>14. ASSUME NEW p \in Procs, FinishPrepare(p) PROVE TypeOK'
  BY <1>14 DEF FinishPrepare
<1>15. ASSUME NEW p \in Procs, Fails(p) PROVE TypeOK'
  BY <1>15 DEF Fails
<1>16. ASSUME NEW p \in Procs, RemoveRunDir(p) PROVE TypeOK'
  BY <1>16 DEF RemoveRunDir
<1>17. ASSUME NEW p \in Procs, Kill(p) PROVE TypeOK'
  <2>1. orphans' \in [Procs -> {"none", "ensure", "origin", "fetching"}]
    BY <1>17 DEF Kill, WritesMirror
  <2> QED BY <1>17, <2>1 DEF Kill, HalfInit
<1>18. ASSUME NEW p \in Procs, OrphanStep(p) PROVE TypeOK'
  <2>1. CASE OrphanInitEnds(p)
    BY <2>1 DEF OrphanInitEnds
  <2>2. CASE OrphanRemoteEnds(p)
    BY <2>2 DEF OrphanRemoteEnds
  <2>3. CASE OrphanFetchEnds(p)
    <3>1. MirrorOf[p] \in Mirrors /\ tip[RefOf[p]] \in Commits
      OBVIOUS
    <3>2. /\ fetchHead' \in [Mirrors -> Commits \cup {NoCommit}]
          /\ objects' \in [Mirrors -> SUBSET Commits]
      BY <2>3, <3>1, WriteTypeOK DEF OrphanFetchEnds
    <3> QED BY <2>3, <3>2 DEF OrphanFetchEnds
  <2> QED BY <1>18, <2>1, <2>2, <2>3 DEF OrphanStep
<1>19. ASSUME NEW ref \in Refs, NEW c \in Commits, Push(ref, c) PROVE TypeOK'
  BY <1>19 DEF Push
<1>20. CASE UNCHANGED vars
  BY <1>20 DEF vars
<1> QED
  BY <1>1, <1>2, <1>3, <1>4, <1>5, <1>6, <1>7, <1>8, <1>9, <1>10, <1>11, <1>12,
     <1>13, <1>14, <1>15, <1>16, <1>17, <1>18, <1>19, <1>20
     DEF Next, PrepareStep, LockedStep

\* The variables of the cache always have their types.
THEOREM TypeCorrect == Spec => []TypeOK
  BY InitTypeOK, NextTypeOK, PTL DEF Spec

-----------------------------------------------------------------------------
\* A process in the locked window is the holder of its mirror's flock: what
\* makes MutualExclusion inductive.
HolderInv == \A p \in Procs : pc[p] \in Locked => holder[MirrorOf[p]] = p

LEMMA NextHolderInv == TypeOK /\ HolderInv /\ [Next]_vars => HolderInv'
<1> SUFFICES ASSUME TypeOK, HolderInv, [Next]_vars,
                    NEW q \in Procs, pc'[q] \in Locked
             PROVE  holder'[MirrorOf[q]] = q
  BY DEF HolderInv
<1> USE CacheAssumption DEF TypeOK, HolderInv, Locked, Finished
<1>1. ASSUME NEW p \in Procs, LockMirror(p) PROVE holder'[MirrorOf[q]] = q
  BY <1>1 DEF LockMirror
<1>2. ASSUME NEW p \in Procs, Unlock(p) \/ UnlockFailed(p)
      PROVE holder'[MirrorOf[q]] = q
  BY <1>2 DEF Unlock, UnlockFailed
<1>3. ASSUME NEW p \in Procs, Kill(p) PROVE holder'[MirrorOf[q]] = q
  BY <1>3 DEF Kill
<1>4. ASSUME NEW p \in Procs,
             \/ EnsureMirror(p) \/ EnsureOrigin(p) \/ FetchStarts(p) \/ FetchEnds(p)
             \/ ResolveFetchHead(p) \/ MakeCheckout(p) \/ CopyCommit(p)
             \/ FailsLocked(p)
      PROVE holder'[MirrorOf[q]] = q
  BY <1>4 DEF EnsureMirror, EnsureOrigin, FetchStarts, FetchEnds, ResolveFetchHead,
              MakeCheckout, CopyCommit, FailsLocked
<1>5. ASSUME NEW p \in Procs,
             \/ Reject(p) \/ CheckoutFetchHead(p) \/ FinishPrepare(p) \/ Fails(p)
             \/ RemoveRunDir(p)
      PROVE holder'[MirrorOf[q]] = q
  BY <1>5 DEF Reject, CheckoutFetchHead, FinishPrepare, Fails, RemoveRunDir
<1>6. ASSUME NEW p \in Procs, OrphanStep(p) PROVE holder'[MirrorOf[q]] = q
  BY <1>6 DEF OrphanStep, OrphanInitEnds, OrphanRemoteEnds, OrphanFetchEnds
<1>7. ASSUME NEW ref \in Refs, NEW c \in Commits, Push(ref, c)
      PROVE holder'[MirrorOf[q]] = q
  BY <1>7 DEF Push
<1>8. CASE UNCHANGED vars
  BY <1>8 DEF vars
<1> QED
  BY <1>1, <1>2, <1>3, <1>4, <1>5, <1>6, <1>7, <1>8 DEF Next, PrepareStep, LockedStep

\* The flock excludes, for any number of processes and mirrors, whether git
\* survives its harness or not.
THEOREM FlockExcludes == Spec => []MutualExclusion
<1>1. Init => HolderInv
  BY DEF Init, HolderInv, Locked
<1>2. HolderInv => MutualExclusion
  BY DEF HolderInv, MutualExclusion
<1> QED
  BY <1>1, <1>2, TypeCorrect, NextHolderInv, PTL DEF Spec

-----------------------------------------------------------------------------
\* What process p has put into its mirror and taken out of it, at each point
\* of its window: the strengthening that makes RightCommit inductive.
FollowsAnswer(p) ==
    LET m == MirrorOf[p] IN
    /\ pc[p] = "fetching" => fetchHead[m] = NoCommit
    /\ pc[p] = "resolve" => fetchHead[m] = answered[p] /\ answered[p] \in objects[m]
    /\ pc[p] \in {"makeDir", "copy"} => commit[p] = answered[p] /\ commit[p] \in objects[m]
    /\ pc[p] \in {"unlock", "checkout"} => commit[p] = answered[p]
    /\ pc[p] \in {"submodules", "prepared", "done"} => head[p] = answered[p]

AnswerInv == \A p \in Procs \ disturbed : FollowsAnswer(p)

\* A step that leaves q's own state and q's mirror alone keeps FollowsAnswer(q).
LEMMA OthersKeepAnswer ==
    ASSUME TypeOK, HolderInv, NEW p \in Procs, NEW q \in Procs \ {p},
           FollowsAnswer(q), Reject(p) \/ PrepareStep(p) \/ Kill(p)
    PROVE  FollowsAnswer(q)'
<1> USE CacheAssumption DEF TypeOK
<1>1. FollowsAnswer(q) /\ pc[q] = pc'[q] /\ answered'[q] = answered[q]
      /\ commit'[q] = commit[q] /\ head'[q] = head[q]
  <2>2. CASE LockedStep(p)
    BY <2>2 DEF LockedStep, EnsureMirror, EnsureOrigin, FetchStarts, FetchEnds,
         ResolveFetchHead, MakeCheckout, CopyCommit, Unlock, FailsLocked, UnlockFailed
  <2>3. CASE ~LockedStep(p)
    BY <2>3 DEF PrepareStep, Reject, LockMirror, CheckoutFetchHead,
         FinishPrepare, Fails, RemoveRunDir, Kill
  <2> QED BY <2>2, <2>3
<1>2. CASE FetchStarts(p) \/ FetchEnds(p)
  <2>1. pc[p] \in Locked
    BY <1>2 DEF FetchStarts, FetchEnds, Locked
  <2>2. CASE pc[q] \in Locked
    <3>1. MirrorOf[q] # MirrorOf[p]
      BY <2>1, <2>2 DEF HolderInv
    <3>2. fetchHead'[MirrorOf[q]] = fetchHead[MirrorOf[q]]
          /\ objects'[MirrorOf[q]] = objects[MirrorOf[q]]
      BY <1>2, <3>1 DEF FetchStarts, FetchEnds, WriteMirror
    <3> QED BY <1>1, <3>2 DEF FollowsAnswer
  <2>3. CASE pc[q] \notin Locked
    BY <1>1, <2>3 DEF FollowsAnswer, Locked
  <2> QED BY <2>2, <2>3
<1>3. CASE ~(FetchStarts(p) \/ FetchEnds(p))
  <2>1. fetchHead' = fetchHead /\ objects' = objects
    BY <1>3 DEF PrepareStep, LockedStep, EnsureMirror, EnsureOrigin, ResolveFetchHead,
         MakeCheckout, CopyCommit, Unlock, FailsLocked, UnlockFailed, Reject,
         LockMirror, CheckoutFetchHead, FinishPrepare, Fails, RemoveRunDir, Kill
  <2> QED BY <1>1, <2>1 DEF FollowsAnswer
<1> QED BY <1>2, <1>3

\* A step of p keeps FollowsAnswer(p).
LEMMA OwnAnswer ==
    ASSUME TypeOK, NEW p \in Procs, FollowsAnswer(p),
           Reject(p) \/ PrepareStep(p) \/ Kill(p)
    PROVE  FollowsAnswer(p)'
<1> USE CacheAssumption DEF TypeOK
<1>1. CASE FetchStarts(p)
  BY <1>1 DEF FetchStarts, FollowsAnswer
<1>2. CASE FetchEnds(p)
  <2> DEFINE m == MirrorOf[p]
             c == tip[RefOf[p]]
  <2>1. fetchHead[m] = NoCommit /\ m \in Mirrors /\ c \in Commits
    BY <1>2 DEF FetchEnds, FollowsAnswer
  <2>2. fetchHead'[m] = c
    BY <1>2, <2>1 DEF FetchEnds, WriteMirror
  <2>3. c \in objects'[m]
    BY <1>2, <2>1 DEF FetchEnds, WriteMirror
  <2>4. answered'[p] = c
    BY <1>2 DEF FetchEnds
  <2>5. pc'[p] = "resolve"
    BY <1>2 DEF FetchEnds
  <2> QED BY <2>2, <2>3, <2>4, <2>5 DEF FollowsAnswer
<1>3. CASE ResolveFetchHead(p)
  BY <1>3 DEF ResolveFetchHead, FollowsAnswer
<1>4. CASE MakeCheckout(p) \/ CopyCommit(p) \/ Unlock(p)
  BY <1>4 DEF MakeCheckout, CopyCommit, Unlock, FollowsAnswer
<1>5. CASE CheckoutFetchHead(p) \/ FinishPrepare(p) \/ RemoveRunDir(p)
  BY <1>5 DEF CheckoutFetchHead, FinishPrepare, RemoveRunDir, FollowsAnswer
<1>6. CASE \/ Reject(p) \/ LockMirror(p) \/ EnsureMirror(p) \/ EnsureOrigin(p)
           \/ FailsLocked(p) \/ UnlockFailed(p) \/ Fails(p)
  BY <1>6 DEF Reject, LockMirror, EnsureMirror, EnsureOrigin, FailsLocked,
       UnlockFailed, Fails, FollowsAnswer
<1>7. CASE Kill(p)
  BY <1>7 DEF Kill, FollowsAnswer
<1> QED
  BY <1>1, <1>2, <1>3, <1>4, <1>5, <1>6, <1>7 DEF PrepareStep, LockedStep

\* An orphaned fetch writes past those it finds in their window, and nobody else
\* looks at what it writes.
LEMMA OrphansKeepAnswer ==
    ASSUME TypeOK, NEW p \in Procs, OrphanStep(p),
           NEW q \in Procs \ disturbed', FollowsAnswer(q)
    PROVE  FollowsAnswer(q)'
<1> USE CacheAssumption DEF TypeOK
<1>1. pc' = pc /\ answered' = answered /\ commit' = commit /\ head' = head
  BY DEF OrphanStep, OrphanInitEnds, OrphanRemoteEnds, OrphanFetchEnds
<1>2. CASE OrphanInitEnds(p) \/ OrphanRemoteEnds(p)
  <2>1. fetchHead' = fetchHead /\ objects' = objects
    BY <1>2 DEF OrphanInitEnds, OrphanRemoteEnds
  <2> QED BY <1>1, <2>1 DEF FollowsAnswer
<1>3. CASE OrphanFetchEnds(p)
  <2>1. pc[q] \notin Locked \/ MirrorOf[q] # MirrorOf[p]
    BY <1>3 DEF OrphanFetchEnds
  <2>2. CASE pc[q] \notin Locked
    BY <1>1, <2>2 DEF FollowsAnswer, Locked
  <2>3. CASE MirrorOf[q] # MirrorOf[p]
    <3>1. fetchHead'[MirrorOf[q]] = fetchHead[MirrorOf[q]]
          /\ objects'[MirrorOf[q]] = objects[MirrorOf[q]]
      BY <1>3, <2>3 DEF OrphanFetchEnds, WriteMirror
    <3> QED BY <1>1, <3>1 DEF FollowsAnswer
  <2> QED BY <2>1, <2>2, <2>3
<1> QED BY <1>2, <1>3 DEF OrphanStep

\* Who has been disturbed stays so.
LEMMA DisturbedStays ==
    ASSUME [Next]_vars
    PROVE  disturbed \subseteq disturbed'
<1>1. ASSUME NEW p \in Procs, Reject(p) \/ PrepareStep(p) \/ Kill(p)
      PROVE  disturbed' = disturbed
  BY <1>1 DEF PrepareStep, LockedStep, Reject, LockMirror, EnsureMirror, EnsureOrigin,
       FetchStarts, FetchEnds, ResolveFetchHead, MakeCheckout, CopyCommit, Unlock,
       FailsLocked, UnlockFailed, CheckoutFetchHead, FinishPrepare, Fails, RemoveRunDir, Kill
<1>2. ASSUME NEW p \in Procs, OrphanStep(p) PROVE disturbed \subseteq disturbed'
  BY <1>2 DEF OrphanStep, OrphanInitEnds, OrphanRemoteEnds, OrphanFetchEnds
<1>3. ASSUME NEW ref \in Refs, NEW c \in Commits, Push(ref, c) PROVE disturbed' = disturbed
  BY <1>3 DEF Push
<1> QED BY <1>1, <1>2, <1>3 DEF Next, vars

LEMMA NextAnswerInv == TypeOK /\ HolderInv /\ AnswerInv /\ [Next]_vars => AnswerInv'
<1> SUFFICES ASSUME TypeOK, HolderInv, AnswerInv, [Next]_vars,
                    NEW q \in Procs \ disturbed'
             PROVE  FollowsAnswer(q)'
  BY DEF AnswerInv
<1>0. FollowsAnswer(q)
  BY DisturbedStays DEF AnswerInv
<1>1. ASSUME NEW p \in Procs, Reject(p) \/ PrepareStep(p) \/ Kill(p)
      PROVE  FollowsAnswer(q)'
  <2>1. CASE p = q
    BY <1>0, <1>1, <2>1, OwnAnswer
  <2>2. CASE p # q
    BY <1>0, <1>1, <2>2, OthersKeepAnswer
  <2> QED BY <2>1, <2>2
<1>2. ASSUME NEW p \in Procs, OrphanStep(p) PROVE FollowsAnswer(q)'
  BY <1>0, <1>2, OrphansKeepAnswer
<1>3. ASSUME NEW ref \in Refs, NEW c \in Commits, Push(ref, c) PROVE FollowsAnswer(q)'
  BY <1>0, <1>3 DEF Push, FollowsAnswer
<1>4. CASE UNCHANGED vars
  BY <1>0, <1>4 DEF vars, FollowsAnswer
<1> QED BY <1>1, <1>2, <1>3, <1>4 DEF Next

LEMMA AnswerInvHolds == Spec => []AnswerInv
<1>1. Init => HolderInv
  BY DEF Init, HolderInv, Locked
<1>2. Init => AnswerInv
  BY DEF Init, AnswerInv, FollowsAnswer
<1> QED
  BY <1>1, <1>2, TypeCorrect, NextHolderInv, NextAnswerInv, PTL DEF Spec

\* Every checkout is at the commit the remote answered for the process's own
\* ref: the shared FETCH_HEAD never leaks the ref of a peer, whatever is killed,
\* pushed or pruned meanwhile, but through a fetch that outlived its harness and
\* wrote in the middle of the window.
THEOREM CheckoutAtAnswer == Spec => []RightCommit
<1>1. AnswerInv => RightCommit
  BY DEF AnswerInv, FollowsAnswer, RightCommit
<1> QED BY <1>1, AnswerInvHolds, PTL

\* The commit to be copied out of the mirror is still there, with the same
\* exception.
THEOREM CommitSurvivesPrune == Spec => []CommitNotPruned
<1>1. AnswerInv => CommitNotPruned
  BY DEF AnswerInv, FollowsAnswer, CommitNotPruned
<1> QED BY <1>1, AnswerInvHolds, PTL

-----------------------------------------------------------------------------
\* No step takes the origin away from a mirror again, not even one outside the
\* flock: FetchHasOrigin is inductive by itself.
LEMMA OriginStays == TypeOK /\ [Next]_vars =>
    \A m \in Mirrors : mirror[m] = "ready" => mirror'[m] = "ready"
<1> SUFFICES ASSUME TypeOK, [Next]_vars, NEW m \in Mirrors, mirror[m] = "ready"
             PROVE  mirror'[m] = "ready"
  OBVIOUS
<1>1. ASSUME NEW p \in Procs, EnsureMirror(p) \/ EnsureOrigin(p)
      PROVE  mirror'[m] = "ready"
  BY <1>1 DEF EnsureMirror, EnsureOrigin, TypeOK
<1>2. ASSUME NEW p \in Procs, FailsLocked(p) \/ Kill(p)
      PROVE  mirror'[m] = "ready"
  BY <1>2 DEF FailsLocked, Kill, HalfInit, TypeOK
<1>3. ASSUME NEW p \in Procs,
             \/ Reject(p) \/ LockMirror(p) \/ FetchStarts(p) \/ FetchEnds(p)
             \/ ResolveFetchHead(p) \/ MakeCheckout(p) \/ CopyCommit(p) \/ Unlock(p)
             \/ UnlockFailed(p) \/ CheckoutFetchHead(p) \/ FinishPrepare(p) \/ Fails(p)
             \/ RemoveRunDir(p)
      PROVE  mirror'[m] = "ready"
  BY <1>3 DEF Reject, LockMirror, FetchStarts, FetchEnds, ResolveFetchHead, MakeCheckout,
       CopyCommit, Unlock, UnlockFailed, CheckoutFetchHead, FinishPrepare, Fails,
       RemoveRunDir
<1>6. ASSUME NEW p \in Procs, OrphanStep(p) PROVE mirror'[m] = "ready"
  BY <1>6 DEF OrphanStep, OrphanInitEnds, OrphanRemoteEnds, OrphanFetchEnds, TypeOK
<1>4. ASSUME NEW ref \in Refs, NEW c \in Commits, Push(ref, c)
      PROVE  mirror'[m] = "ready"
  BY <1>4 DEF Push
<1>5. CASE UNCHANGED vars
  BY <1>5 DEF vars
<1> QED
  BY <1>1, <1>2, <1>3, <1>4, <1>5, <1>6 DEF Next, PrepareStep, LockedStep

\* A process reaches its fetch only by EnsureOrigin.
LEMMA FetchAfterOrigin ==
    ASSUME TypeOK, [Next]_vars, NEW p \in Procs, pc[p] # "fetch", pc'[p] = "fetch"
    PROVE  mirror'[MirrorOf[p]] = "ready"
<1> USE CacheAssumption DEF TypeOK
<1>1. ASSUME NEW q \in Procs, ~EnsureOrigin(q), Reject(q) \/ PrepareStep(q) \/ Kill(q) \/ OrphanStep(q)
      PROVE  FALSE
  BY <1>1 DEF PrepareStep, LockedStep, Reject, LockMirror, EnsureMirror, FetchStarts, FetchEnds,
       ResolveFetchHead, MakeCheckout, CopyCommit, Unlock, FailsLocked, UnlockFailed,
       CheckoutFetchHead, FinishPrepare, Fails, RemoveRunDir, Kill, OrphanStep,
       OrphanInitEnds, OrphanRemoteEnds, OrphanFetchEnds
<1>2. ASSUME NEW ref \in Refs, NEW c \in Commits, Push(ref, c)
      PROVE  FALSE
  BY <1>2 DEF Push
<1>3. PICK q \in Procs : EnsureOrigin(q)
  BY <1>1, <1>2 DEF Next, vars
<1>4. q = p
  BY <1>3 DEF EnsureOrigin
<1> QED
  BY <1>3, <1>4 DEF EnsureOrigin

\* No fetch starts in a mirror without an origin, however many processes died
\* while they created the mirror.
THEOREM OriginBeforeFetch == Spec => []FetchHasOrigin
<1>1. Init => FetchHasOrigin
  BY DEF Init, FetchHasOrigin
<1>2. TypeOK /\ FetchHasOrigin /\ [Next]_vars => FetchHasOrigin'
  BY OriginStays, FetchAfterOrigin, CacheAssumption DEF FetchHasOrigin, TypeOK
<1> QED
  BY <1>1, <1>2, TypeCorrect, PTL DEF Spec

-----------------------------------------------------------------------------
\* A run directory belongs to a process that has begun, and that has tried to
\* remove it when it has ended by itself.
DirInv ==
    \A p \in dirs :
        /\ pc[p] # "idle"
        /\ pc[p] \in {"done", "failed"} => p \in kept

LEMMA NextDirInv == TypeOK /\ DirInv /\ [Next]_vars => DirInv'
<1> SUFFICES ASSUME TypeOK, DirInv, [Next]_vars PROVE DirInv'
  OBVIOUS
<1> USE DEF TypeOK, DirInv, Locked
<1>1. ASSUME NEW p \in Procs, Reject(p) PROVE DirInv'
  BY <1>1 DEF Reject
<1>2. ASSUME NEW p \in Procs, LockMirror(p) PROVE DirInv'
  BY <1>2 DEF LockMirror
<1>3. ASSUME NEW p \in Procs, EnsureMirror(p) PROVE DirInv'
  BY <1>3 DEF EnsureMirror
<1>4. ASSUME NEW p \in Procs, EnsureOrigin(p) PROVE DirInv'
  BY <1>4 DEF EnsureOrigin
<1>5. ASSUME NEW p \in Procs, FetchStarts(p) PROVE DirInv'
  BY <1>5 DEF FetchStarts
<1>6. ASSUME NEW p \in Procs, FetchEnds(p) PROVE DirInv'
  BY <1>6 DEF FetchEnds
<1>7. ASSUME NEW p \in Procs, ResolveFetchHead(p) PROVE DirInv'
  BY <1>7 DEF ResolveFetchHead
<1>8. ASSUME NEW p \in Procs, MakeCheckout(p) PROVE DirInv'
  BY <1>8 DEF MakeCheckout
<1>9. ASSUME NEW p \in Procs, CopyCommit(p) PROVE DirInv'
  BY <1>9 DEF CopyCommit
<1>10. ASSUME NEW p \in Procs, Unlock(p) PROVE DirInv'
  BY <1>10 DEF Unlock
<1>11. ASSUME NEW p \in Procs, FailsLocked(p) PROVE DirInv'
  BY <1>11 DEF FailsLocked
<1>12. ASSUME NEW p \in Procs, UnlockFailed(p) PROVE DirInv'
  BY <1>12 DEF UnlockFailed
<1>13. ASSUME NEW p \in Procs, CheckoutFetchHead(p) PROVE DirInv'
  BY <1>13 DEF CheckoutFetchHead
<1>14. ASSUME NEW p \in Procs, FinishPrepare(p) PROVE DirInv'
  BY <1>14 DEF FinishPrepare
<1>15. ASSUME NEW p \in Procs, Fails(p) PROVE DirInv'
  BY <1>15 DEF Fails
<1>16. ASSUME NEW p \in Procs, RemoveRunDir(p) PROVE DirInv'
  BY <1>16 DEF RemoveRunDir
<1>17. ASSUME NEW p \in Procs, Kill(p) PROVE DirInv'
  BY <1>17 DEF Kill
<1>18. ASSUME NEW p \in Procs, OrphanStep(p) PROVE DirInv'
  BY <1>18 DEF OrphanStep, OrphanInitEnds, OrphanRemoteEnds, OrphanFetchEnds
<1>19. ASSUME NEW ref \in Refs, NEW c \in Commits, Push(ref, c) PROVE DirInv'
  BY <1>19 DEF Push
<1>20. CASE UNCHANGED vars
  BY <1>20 DEF vars
<1> QED
  BY <1>1, <1>2, <1>3, <1>4, <1>5, <1>6, <1>7, <1>8, <1>9, <1>10, <1>11, <1>12,
     <1>13, <1>14, <1>15, <1>16, <1>17, <1>18, <1>19, <1>20
     DEF Next, PrepareStep, LockedStep

\* A process that ends by itself leaves no checkout that it could remove.
THEOREM CheckoutsRemoved == Spec => []NoCheckoutLeak
<1>1. Init => DirInv
  BY DEF Init, DirInv
<1>2. DirInv => NoCheckoutLeak
  BY DEF DirInv, NoCheckoutLeak
<1> QED
  BY <1>1, <1>2, TypeCorrect, NextDirInv, PTL DEF Spec

-----------------------------------------------------------------------------
(* Why every Prepare ends: a process goes forward, and waits for nothing but *)
(* a lock whose holder can go on.                                            *)

\* Who holds a flock is alive and in the locked window of that mirror.
LivingHolder ==
    \A m \in Mirrors : holder[m] # NoProc => pc[holder[m]] \in Locked /\ MirrorOf[holder[m]] = m

\* Only LockMirror takes a flock; every way out of the window gives it back.
LEMMA NextLivingHolder == TypeOK /\ HolderInv /\ LivingHolder /\ [Next]_vars => LivingHolder'
<1> SUFFICES ASSUME TypeOK, HolderInv, LivingHolder, [Next]_vars,
                    NEW m \in Mirrors, holder'[m] # NoProc
             PROVE  pc'[holder'[m]] \in Locked /\ MirrorOf[holder'[m]] = m
  BY DEF LivingHolder
<1> USE CacheAssumption DEF TypeOK, HolderInv, LivingHolder, Locked, Finished
<1> DEFINE Goal == pc'[holder'[m]] \in Locked /\ MirrorOf[holder'[m]] = m
<1>1. ASSUME NEW p \in Procs, LockMirror(p) PROVE Goal
  BY <1>1 DEF LockMirror, Step
<1>2. ASSUME NEW p \in Procs, Unlock(p) \/ UnlockFailed(p) PROVE Goal
  BY <1>2 DEF Unlock, UnlockFailed, Step
<1>3. ASSUME NEW p \in Procs, Kill(p) PROVE Goal
  BY <1>3 DEF Kill
<1>4. ASSUME NEW p \in Procs,
             \/ EnsureMirror(p) \/ EnsureOrigin(p) \/ FetchStarts(p) \/ FetchEnds(p)
             \/ ResolveFetchHead(p) \/ MakeCheckout(p) \/ CopyCommit(p)
             \/ FailsLocked(p)
      PROVE Goal
  BY <1>4 DEF EnsureMirror, EnsureOrigin, FetchStarts, FetchEnds, ResolveFetchHead,
              MakeCheckout, CopyCommit, FailsLocked, Step
<1>5. ASSUME NEW p \in Procs,
             \/ Reject(p) \/ CheckoutFetchHead(p) \/ FinishPrepare(p) \/ Fails(p)
             \/ RemoveRunDir(p)
      PROVE Goal
  BY <1>5 DEF Reject, CheckoutFetchHead, FinishPrepare, Fails, RemoveRunDir, Step
<1>6. ASSUME NEW p \in Procs, OrphanStep(p) PROVE Goal
  BY <1>6 DEF OrphanStep, OrphanInitEnds, OrphanRemoteEnds, OrphanFetchEnds
<1>7. ASSUME NEW ref \in Refs, NEW c \in Commits, Push(ref, c) PROVE Goal
  BY <1>7 DEF Push
<1>8. CASE UNCHANGED vars
  BY <1>8 DEF vars
<1> QED
  BY <1>1, <1>2, <1>3, <1>4, <1>5, <1>6, <1>7, <1>8 DEF Next, PrepareStep, LockedStep

\* A flock is held by a live process in its window only, wherever processes fail
\* or are killed, whether their git survives or not: waiting for it is waiting
\* for a process that can go on (any step of the window may fail and unlock).
THEOREM OnlyTheLivingHold == Spec => []LivingHolder
<1>1. Init => LivingHolder
  BY DEF Init, LivingHolder
<1>2. Init => HolderInv
  BY DEF Init, HolderInv, Locked
<1> QED
  BY <1>1, <1>2, NextHolderInv, NextLivingHolder, TypeCorrect, PTL DEF Spec

\* The way of a process through Prepare.
Position ==
    [idle |-> 0, ensure |-> 1, origin |-> 2, fetch |-> 3, fetching |-> 4, resolve |-> 5,
     makeDir |-> 6, copy |-> 7, unlock |-> 8, failing |-> 8, checkout |-> 9, submodules |-> 10,
     prepared |-> 11, removing |-> 11, done |-> 12, failed |-> 12, dead |-> 12]

\* A process never comes back to a step: nothing is retried, so that a Prepare
\* has at most twelve steps, whatever the other processes do.
THEOREM PrepareGoesForward ==
    Spec => [][\A p \in Procs : pc'[p] # pc[p] => Position[pc'[p]] > Position[pc[p]]]_vars
<1>1. TypeOK /\ [Next]_vars
        => [\A p \in Procs : pc'[p] # pc[p] => Position[pc'[p]] > Position[pc[p]]]_vars
  <2> SUFFICES ASSUME TypeOK, Next, NEW q \in Procs, pc'[q] # pc[q]
               PROVE  Position[pc'[q]] > Position[pc[q]]
    OBVIOUS
  <2> USE DEF Position, TypeOK, Step
  <2>1. ASSUME NEW p \in Procs, LockedStep(p) PROVE Position[pc'[q]] > Position[pc[q]]
    BY <2>1 DEF LockedStep, EnsureMirror, EnsureOrigin, FetchStarts, FetchEnds, ResolveFetchHead,
         MakeCheckout, CopyCommit, Unlock, FailsLocked, UnlockFailed, Locked
  <2>2. ASSUME NEW p \in Procs,
               \/ Reject(p) \/ LockMirror(p) \/ CheckoutFetchHead(p) \/ FinishPrepare(p)
               \/ Fails(p) \/ RemoveRunDir(p)
        PROVE  Position[pc'[q]] > Position[pc[q]]
    BY <2>2 DEF Reject, LockMirror, CheckoutFetchHead, FinishPrepare, Fails, RemoveRunDir
  <2>3. ASSUME NEW p \in Procs, Kill(p) PROVE Position[pc'[q]] > Position[pc[q]]
    BY <2>3 DEF Kill, Locked, Unlocked, Finished
  <2>4. ASSUME NEW p \in Procs, OrphanStep(p) PROVE Position[pc'[q]] > Position[pc[q]]
    BY <2>4 DEF OrphanStep, OrphanInitEnds, OrphanRemoteEnds, OrphanFetchEnds
  <2>5. ASSUME NEW ref \in Refs, NEW c \in Commits, Push(ref, c) PROVE Position[pc'[q]] > Position[pc[q]]
    BY <2>5 DEF Push
  <2> QED
    BY <2>1, <2>2, <2>3, <2>4, <2>5 DEF Next, PrepareStep
<1> QED
  BY <1>1, TypeCorrect, PTL DEF Spec
=============================================================================
