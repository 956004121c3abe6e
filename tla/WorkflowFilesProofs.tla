------------------------- MODULE WorkflowFilesProofs -------------------------
(***************************************************************************)
(* Proofs about WorkflowFiles and OutputInstall, for every set of          *)
(* documents, flags and environments, all trees and all foreign paths.     *)
(* First the downloads alone: nothing is replaced, what is reported as     *)
(* installed is whole, and a destination is taken only by somebody else or *)
(* by a nested output.  Then the commands: what they compute is a function *)
(* of their input, and their downloads are those of OutputInstall.         *)
(***************************************************************************)
EXTENDS WorkflowFiles, WorkflowTextProofs

\* What exists stays what it is.
Kept == \A p \in DOMAIN fs : p \in DOMAIN fs' /\ fs'[p] = fs[p]

InstallStep == (\E requested \in Seq(Paths) : StartDownloads(requested)) \/ InstallNext

\* Only paths that are not there are ever added.
LEMMA Grows == ASSUME NEW path, NEW entry, path \notin DOMAIN fs, Add(path, entry)
               PROVE  Kept
  BY DEF Add, Kept

\* No step of DownloadPath, Run or another process changes what exists.
LEMMA StepKeeps == InstallStep => Kept
<1> SUFFICES ASSUME InstallStep PROVE Kept
  OBVIOUS
<1>1. CASE MakeParent
  <2>1. PICK p \in Ancestors(Dst) \ DOMAIN fs : Add(p, Entry("dir", n))
    BY <1>1 DEF MakeParent
  <2> QED
    BY <2>1, Grows
<1>2. CASE InstallEntry
  BY <1>2, Grows DEF InstallEntry
<1>3. ASSUME NEW p \in Foreign, ForeignCreate(p)
      PROVE  Kept
  BY <1>3, Grows DEF ForeignCreate
<1>4. ASSUME fs' = fs
      PROVE  Kept
  BY <1>4 DEF Kept
<1> QED
  BY <1>1, <1>2, <1>3, <1>4
  DEF InstallStep, InstallNext, DownloadPath, StartDownloads, CheckDestination, DestinationExists,
      DestinationFails, MakeStaging, Receive, SourceMissing, StreamFails, EntryExists, InstallFails, Installed

\* installDownloadTree (download.go 147-184) and MkdirAll: no step of a
\* download, or of anybody else, changes or removes what exists.
THEOREM InstallReplacesNothing == InstallSpec => NothingReplaced
<1>1. [InstallStep]_installVars => [Kept]_fs
  BY StepKeeps DEF installVars
<1> QED
  BY <1>1, PTL DEF InstallSpec, InstallStep, NothingReplaced, Kept

-----------------------------------------------------------------------------
(* What is installed is whole                                              *)

\* The first half of InstalledWhole, which needs no request of its own.
AllInPlace == \A k \in DOMAIN outcome : outcome[k] = "installed" => EntriesInPlace(k)

\* A download under way has no outcome yet, nor have those after it.
Progress ==
    /\ step \notin {"idle", "done"} => n \in DOMAIN downloads
    /\ \A k \in DOMAIN downloads : k >= n => outcome[k] = "pending"
    /\ step = "idle" => downloads = <<>>
    /\ DOMAIN received = DOMAIN downloads

\* Entry e of tree t is at its place below destination d, made by download k.
InPlace(t, e, d, k) ==
    d \o t[e].path \in DOMAIN fs /\ fs[d \o t[e].path] = Entry(t[e].kind, k)

\* The entries of the staged tree up to at are in place.
PartInstalled ==
    step = "install" =>
        /\ tree \in Trees /\ received[n] = tree /\ at <= Len(tree)
        /\ \A e \in 1 .. at : InPlace(tree, e, Dst, n)

InstallInv == InstallTypeOK /\ Progress /\ PartInstalled /\ AllInPlace

\* The invariant holds before the first download.
LEMMA InstallInitInv == InstallInit => InstallInv
<1> SUFFICES ASSUME InstallInit PROVE InstallInv
  OBVIOUS
<1>1. downloads \in Seq(Paths) /\ DOMAIN downloads = {}
  BY DEF InstallInit
<1>2. \A p \in DOMAIN fs : fs[p].kind \in Kinds /\ fs[p].by \in Nat
  BY DEF InstallInit, Kinds, Entry
<1>3. outcome \in [DOMAIN downloads -> Outcomes]
  BY <1>1 DEF InstallInit
<1>0. InstallTypeOK
  BY <1>1, <1>2, <1>3 DEF InstallInit, InstallTypeOK, Steps
<1>4. Progress /\ PartInstalled /\ AllInPlace
  BY <1>1 DEF InstallInit, Progress, PartInstalled, AllInPlace, EntriesInPlace
<1> QED
  BY <1>0, <1>4 DEF InstallInv

\* A download that returns changes no outcome but its own.
LEMMA ReturnsKeepsOthers ==
  ASSUME InstallInv, step \notin {"idle", "done"}, NEW result \in Outcomes, Returns(result),
         UNCHANGED <<received, at, fs>>,
         result = "installed" => step = "install" /\ at = Len(tree)
  PROVE  InstallInv'
<1> USE DEF InstallInv
<1>0. n \in DOMAIN downloads /\ n \in Nat /\ at \in Nat
  BY DEF Progress, InstallTypeOK
<1>1. n \in 1 .. Len(downloads) /\ downloads \in Seq(Paths)
  BY <1>0 DEF InstallTypeOK
<1>r. /\ UNCHANGED <<downloads, tree>> /\ n' = n + 1 /\ staging' = FALSE
      /\ step' = IF n = Len(downloads) THEN "done" ELSE "check"
  BY DEF Returns
<1>o. /\ outcome' \in [DOMAIN downloads -> Outcomes]
      /\ outcome'[n] = result
      /\ \A k \in DOMAIN downloads : k # n => outcome'[k] = outcome[k]
      /\ DOMAIN outcome = DOMAIN downloads
  BY <1>0 DEF Returns, InstallTypeOK
<1>2. InstallTypeOK'
  <2>1. step' \in Steps /\ n' \in Nat /\ at' \in Nat /\ staging' \in BOOLEAN
    <3>1. step' \in Steps
      BY <1>r, Zenon DEF Steps
    <3>2. n' \in Nat /\ at' \in Nat
      BY <1>0, <1>r
    <3> QED
      BY <3>1, <3>2, <1>r
  <2>4. \A p \in DOMAIN fs' : fs'[p].kind \in Kinds /\ fs'[p].by \in Nat
    BY DEF InstallTypeOK
  <2> QED
    BY <1>1, <1>r, <1>o, <2>1, <2>4 DEF InstallTypeOK
<1>3. Progress'
  BY <1>1, <1>r, <1>o DEF Progress
<1>4. PartInstalled'
  BY <1>r DEF PartInstalled
<1>5. AllInPlace'
  <2> SUFFICES ASSUME NEW k \in DOMAIN outcome, outcome'[k] = "installed",
                      NEW e \in DOMAIN received[k]
               PROVE  InPlace(received[k], e, downloads[k], k)
    BY <1>r, <1>o DEF AllInPlace, EntriesInPlace, InPlace
  <2>1. CASE k = n
    <3>1. result = "installed" /\ received[n] = tree /\ tree \in Trees
      BY <2>1, <1>o DEF PartInstalled
    <3>2. e \in 1 .. at
      BY <2>1, <3>1, InstallAssumption DEF InstallAssumption
    <3> QED
      BY <2>1, <3>1, <3>2 DEF PartInstalled, Dst
  <2>2. CASE k # n
    BY <2>2, <1>o DEF AllInPlace, EntriesInPlace, InPlace
  <2> QED
    BY <2>1, <2>2
<1> QED
  BY <1>2, <1>3, <1>4, <1>5

\* A step that only makes paths, and may count an entry as installed.
LEMMA GrowthKeepsWhole ==
  ASSUME InstallInv, Kept, UNCHANGED <<downloads, n, outcome, received>>
  PROVE  AllInPlace'
  BY DEF InstallInv, AllInPlace, EntriesInPlace, Kept, InstallTypeOK

\* An element of a sequence.
LEMMA Element == ASSUME NEW S, NEW s \in Seq(S), NEW i \in 1 .. Len(s)
                 PROVE  s[i] \in S
  OBVIOUS

\* Every step keeps the invariant.
LEMMA InstallStepInv == InstallInv /\ [InstallStep]_installVars => InstallInv'
<1> SUFFICES ASSUME InstallInv, [InstallStep]_installVars PROVE InstallInv'
  OBVIOUS
<1>1. ASSUME NEW requested \in Seq(Paths), StartDownloads(requested)
      PROVE  InstallInv'
  <2>1. InstallTypeOK'
    BY <1>1 DEF InstallInv, InstallTypeOK, StartDownloads, Steps, Outcomes
  <2>2. Progress' /\ PartInstalled'
    BY <1>1 DEF InstallInv, InstallTypeOK, StartDownloads, Progress, PartInstalled
  <2>3. AllInPlace'
    BY <1>1 DEF InstallInv, InstallTypeOK, StartDownloads, AllInPlace, EntriesInPlace
  <2> QED
    BY <2>1, <2>2, <2>3 DEF InstallInv
<1>2. ASSUME DestinationExists \/ DestinationFails \/ SourceMissing \/ StreamFails
             \/ EntryExists \/ InstallFails \/ Installed
      PROVE  InstallInv'
  BY <1>2, ReturnsKeepsOthers
  DEF DestinationExists, DestinationFails, SourceMissing, StreamFails, EntryExists, InstallFails,
      Installed, Outcomes
<1>3. ASSUME CheckDestination \/ MakeStaging
      PROVE  InstallInv'
  BY <1>3 DEF CheckDestination, MakeStaging, InstallInv, InstallTypeOK, Progress, PartInstalled,
              AllInPlace, EntriesInPlace, Steps
<1>4. CASE MakeParent
  <2>1. PICK p \in Ancestors(Dst) \ DOMAIN fs : Add(p, Entry("dir", n))
    BY <1>4 DEF MakeParent
  <2>2. Kept
    BY <2>1, Grows
  <2>3. InstallTypeOK'
    BY <1>4, <2>1 DEF MakeParent, InstallInv, InstallTypeOK, Add, Entry, Kinds
  <2>4. Progress' /\ PartInstalled'
    BY <1>4 DEF MakeParent, InstallInv, Progress, PartInstalled
  <2>5. AllInPlace'
    BY <1>4, <2>2, GrowthKeepsWhole DEF MakeParent
  <2> QED
    BY <2>3, <2>4, <2>5 DEF InstallInv
<1>5. ASSUME NEW sent \in Trees, Receive(sent)
      PROVE  InstallInv'
  <2>1. n \in DOMAIN downloads /\ outcome[n] = "pending"
    BY <1>5 DEF Receive, InstallInv, InstallTypeOK, Progress
  <2>0. sent \in Seq([path : Paths, kind : Kinds])
    BY <1>5, InstallAssumption DEF InstallAssumption
  <2>2. InstallTypeOK'
    BY <1>5 DEF Receive, InstallInv, InstallTypeOK, Steps
  <2>3. Progress' /\ PartInstalled'
    BY <1>5, <2>0, <2>1 DEF Receive, InstallInv, InstallTypeOK, Progress, PartInstalled
  <2>4. AllInPlace'
    BY <1>5, <2>1 DEF Receive, InstallInv, InstallTypeOK, Progress, AllInPlace, EntriesInPlace
  <2> QED
    BY <2>2, <2>3, <2>4 DEF InstallInv
<1>6. CASE InstallEntry
  <2>1. Kept
    BY <1>6, Grows DEF InstallEntry
  <2>0. tree \in Seq([path : Paths, kind : Kinds])
    BY <1>6, InstallAssumption DEF InstallAssumption, InstallEntry, InstallInv, PartInstalled
  <2>n. at \in Nat /\ n \in Nat /\ at < Len(tree) /\ tree \in Trees
    BY <1>6 DEF InstallEntry, InstallInv, InstallTypeOK, PartInstalled
  <2>i. at + 1 \in 1 .. Len(tree) /\ at + 1 \in DOMAIN tree
    BY <2>0, <2>n
  <2>e. tree[at + 1] \in [path : Paths, kind : Kinds]
    BY <2>0, <2>i, Element
  <2>2. tree \in Trees /\ at + 1 \in DOMAIN tree /\ tree[at + 1].kind \in Kinds
    BY <2>n, <2>i, <2>e
  <2>3. InstallTypeOK'
    BY <1>6, <2>2 DEF InstallEntry, InstallInv, InstallTypeOK, Add, Entry
  <2>4. Progress'
    BY <1>6 DEF InstallEntry, InstallInv, Progress
  <2>5. PartInstalled'
    <3>1. ASSUME NEW e \in 1 .. at' PROVE InPlace(tree, e, Dst, n)'
      <4>1. CASE e = at + 1
        BY <1>6, <4>1 DEF InstallEntry, Add, Target, Dst, InPlace
      <4>2. CASE e # at + 1
        BY <1>6, <2>1, <4>2 DEF InstallEntry, InstallInv, InstallTypeOK, PartInstalled, InPlace, Kept, Dst
      <4> QED
        BY <4>1, <4>2
    <3> QED
      BY <1>6, <2>2, <3>1 DEF InstallEntry, InstallInv, InstallTypeOK, PartInstalled
  <2>6. AllInPlace'
    BY <1>6, <2>1, GrowthKeepsWhole DEF InstallEntry
  <2> QED
    BY <2>3, <2>4, <2>5, <2>6 DEF InstallInv
<1>7. ASSUME NEW p \in Foreign, ForeignCreate(p)
      PROVE  InstallInv'
  <2>1. Kept
    BY <1>7, Grows DEF ForeignCreate
  <2>2. InstallTypeOK'
    BY <1>7 DEF ForeignCreate, InstallInv, InstallTypeOK, Add, Entry
  <2>3. Progress'
    BY <1>7 DEF ForeignCreate, InstallInv, Progress
  <2>4. PartInstalled'
    BY <1>7, <2>1 DEF ForeignCreate, InstallInv, PartInstalled, InPlace, Kept, Dst
  <2>5. AllInPlace'
    BY <1>7, <2>1, GrowthKeepsWhole DEF ForeignCreate
  <2> QED
    BY <2>2, <2>3, <2>4, <2>5 DEF InstallInv
<1>8. CASE UNCHANGED installVars
  BY <1>8 DEF installVars, InstallInv, InstallTypeOK, Progress, PartInstalled, AllInPlace, EntriesInPlace, InPlace, Dst
<1> QED
  BY <1>1, <1>2, <1>3, <1>4, <1>5, <1>6, <1>7, <1>8 DEF InstallStep, InstallNext, DownloadPath

\* What InstallInv says, for the whole of a behaviour: the types, what each
\* point of DownloadPath knows, and that what is installed so far is its own.
THEOREM InstallInvariant == InstallSpec => []InstallInv
  BY InstallInitInv, InstallStepInv, PTL DEF InstallSpec, InstallStep

\* DownloadPath (download.go 28-123, 147-184): the type of the state.
THEOREM InstallTypeCorrect == InstallSpec => []InstallTypeOK
  BY InstallInvariant, PTL DEF InstallInv

-----------------------------------------------------------------------------
(* Why a destination is taken                                              *)

Distinct(requested) ==
    \A j, k \in DOMAIN requested : requested[j] = requested[k] => j = k

\* The downloads of a request without two outputs of one destination: what
\* Resolve leaves of a workflow.
DistinctStart == \E requested \in Seq(Paths) : Distinct(requested) /\ StartDownloads(requested)

DistinctSpec ==
    /\ InstallInit
    /\ [][DistinctStart \/ InstallNext]_installVars

\* Whose a path is: a download makes the way to its destination, and then
\* only what lies there, none of it before its own time.
Owned(p) ==
    /\ p \in Paths
    /\ fs[p].by # 0 =>
          /\ fs[p].by \in DOMAIN downloads /\ fs[p].by <= n
          /\ Above(p, downloads[fs[p].by]) \/ downloads[fs[p].by] \in Prefixes(p)
    /\ step = "check" => fs[p].by < n
    /\ step \in {"parents", "receive"} /\ fs[p].by = n => Above(p, Dst)
    /\ step = "install" /\ fs[p].by = n =>
          Above(p, Dst) \/ \E e \in 1 .. at : p = Dst \o tree[e].path

Provenance == Distinct(downloads) /\ \A p \in DOMAIN fs : Owned(p)

\* A prefix of a path is the path up to some length.
LEMMA PrefixMeans ==
    ASSUME NEW p \in Paths, NEW q \in Paths
    PROVE  /\ q \in Prefixes(p) <=> Len(q) <= Len(p) /\ \A i \in 1 .. Len(q) : q[i] = p[i]
           /\ Above(q, p) <=> Len(q) < Len(p) /\ \A i \in 1 .. Len(q) : q[i] = p[i]
<1>1. Len(p) \in Nat /\ Len(q) \in Nat /\ \A i \in 1 .. Len(p) : p[i] \in Names
  BY DEF Paths
<1>2. ASSUME NEW k \in 0 .. Len(p)
      PROVE  /\ SubSeq(p, 1, k) \in Paths /\ Len(SubSeq(p, 1, k)) = k
             /\ \A i \in 1 .. k : SubSeq(p, 1, k)[i] = p[i]
  <2>1. k \in Nat /\ \A i \in 1..k : p[i] \in Names
    BY <1>1
  <2>2. /\ SubSeq(p, 1, k) \in Seq(Names)
        /\ Len(SubSeq(p, 1, k)) = IF 1 <= k THEN k - 1 + 1 ELSE 0
        /\ \A i \in 1 .. k - 1 + 1 : SubSeq(p, 1, k)[i] = p[1 + i - 1]
    BY <2>1, SubSeqProperties
  <2> QED
    BY <2>1, <2>2 DEF Paths
<1>3. ASSUME Len(q) <= Len(p), \A i \in 1 .. Len(q) : q[i] = p[i]
      PROVE  q = SubSeq(p, 1, Len(q)) /\ Len(q) \in 0 .. Len(p)
  <2>1. Len(q) \in 0 .. Len(p)
    BY <1>1, <1>3
  <2> QED
    BY <1>1, <1>2, <1>3, <2>1, SeqEqual DEF Paths
<1>4. q \in Prefixes(p) <=> Len(q) <= Len(p) /\ \A i \in 1 .. Len(q) : q[i] = p[i]
  BY <1>1, <1>2, <1>3 DEF Prefixes
<1>5. Above(q, p) <=> Len(q) < Len(p) /\ \A i \in 1 .. Len(q) : q[i] = p[i]
  <2>1. ASSUME Above(q, p)
        PROVE  Len(q) < Len(p) /\ \A i \in 1 .. Len(q) : q[i] = p[i]
    <3>1. PICK k \in 0 .. Len(p) - 1 : q = SubSeq(p, 1, k)
      BY <2>1 DEF Above, Ancestors
    <3>2. k \in 0 .. Len(p) /\ k < Len(p)
      BY <1>1
    <3> QED
      BY <1>2, <3>1, <3>2
  <2>2. ASSUME Len(q) < Len(p), \A i \in 1 .. Len(q) : q[i] = p[i]
        PROVE  Above(q, p)
    <3>1. q = SubSeq(p, 1, Len(q)) /\ Len(q) \in 0 .. Len(p) - 1
      BY <1>1, <1>3, <2>2
    <3> QED
      BY <3>1 DEF Above, Ancestors
  <2> QED
    BY <2>1, <2>2
<1> QED
  BY <1>4, <1>5

\* What lies below a destination.
LEMMA BelowMeans ==
    ASSUME NEW d \in Paths, NEW q \in Paths
    PROVE  /\ d \o q \in Paths /\ d \in Prefixes(d \o q) /\ ~Above(d \o q, d)
           /\ Len(d \o q) = Len(d) + Len(q)
           /\ \A i \in 1 .. Len(q) : (d \o q)[Len(d) + i] = q[i]
<1>1. /\ d \o q \in Seq(Names) /\ Len(d \o q) = Len(d) + Len(q)
      /\ \A i \in 1 .. Len(d) + Len(q) : (d \o q)[i] = IF i <= Len(d) THEN d[i] ELSE q[i - Len(d)]
  BY ConcatProperties DEF Paths
<1>2. Len(d) \in Nat /\ Len(q) \in Nat
  BY DEF Paths
<1>3. \A i \in 1 .. Len(d) : d[i] = (d \o q)[i]
  BY <1>1, <1>2
<1>4. ASSUME NEW i \in 1 .. Len(q) PROVE (d \o q)[Len(d) + i] = q[i]
  <2>1. Len(d) + i \in 1 .. Len(d) + Len(q) /\ ~(Len(d) + i <= Len(d)) /\ (Len(d) + i) - Len(d) = i
    BY <1>2
  <2> QED
    BY <1>1, <2>1
<1>5. d \o q \in Paths
  BY <1>1 DEF Paths
<1>6. Len(d) <= Len(d \o q) /\ ~(Len(d \o q) < Len(d))
  BY <1>1, <1>2
<1> QED
  BY <1>1, <1>3, <1>4, <1>5, <1>6, PrefixMeans

\* Different paths of a tree are different below a destination.
LEMMA BelowInjective ==
    ASSUME NEW d \in Paths, NEW q \in Paths, NEW r \in Paths, d \o q = d \o r
    PROVE  q = r
<1>1. /\ Len(d) \in Nat /\ Len(q) \in Nat /\ Len(r) \in Nat
      /\ Len(d) + Len(q) = Len(d) + Len(r)
  BY BelowMeans DEF Paths
<1>2. Len(q) = Len(r)
  BY <1>1
<1>3. \A i \in 1 .. Len(q) : q[i] = r[i]
  BY <1>2, BelowMeans
<1> QED
  BY <1>2, <1>3, SeqEqual DEF Paths

\* Two paths on the way to a third are nested.
LEMMA PrefixesNested ==
    ASSUME NEW p \in Paths, NEW q \in Paths, NEW r \in Paths,
           q \in Prefixes(p), r \in Prefixes(p), q # r
    PROVE  Above(q, r) \/ Above(r, q)
<1>1. /\ Len(q) <= Len(p) /\ \A i \in 1 .. Len(q) : q[i] = p[i]
      /\ Len(r) <= Len(p) /\ \A i \in 1 .. Len(r) : r[i] = p[i]
      /\ Len(q) \in Nat /\ Len(r) \in Nat /\ Len(p) \in Nat
  BY PrefixMeans DEF Paths
<1>2. CASE Len(q) = Len(r)
  BY <1>1, <1>2, SeqEqual DEF Paths
<1>3. CASE Len(q) < Len(r)
  <2>1. \A i \in 1 .. Len(q) : q[i] = r[i]
    BY <1>1, <1>3
  <2> QED
    BY <1>3, <2>1, PrefixMeans
<1>4. CASE Len(r) < Len(q)
  <2>1. \A i \in 1 .. Len(r) : r[i] = q[i]
    BY <1>1, <1>4
  <2> QED
    BY <1>4, <2>1, PrefixMeans
<1> QED
  BY <1>1, <1>2, <1>3, <1>4

\* A path above a prefix is above the whole.
LEMMA AboveThroughPrefix ==
    ASSUME NEW p \in Paths, NEW q \in Paths, NEW r \in Paths, q \in Prefixes(p), Above(p, r)
    PROVE  Above(q, r)
<1>1. /\ Len(q) <= Len(p) /\ \A i \in 1 .. Len(q) : q[i] = p[i]
      /\ Len(p) < Len(r) /\ \A i \in 1 .. Len(p) : p[i] = r[i]
      /\ Len(q) \in Nat /\ Len(r) \in Nat /\ Len(p) \in Nat
  BY PrefixMeans DEF Paths
<1>2. Len(q) < Len(r) /\ \A i \in 1 .. Len(q) : q[i] = r[i]
  BY <1>1
<1> QED
  BY <1>2, PrefixMeans

\* What CollisionsExplained says of one download.
Explained(k) ==
    \/ \E p \in DOMAIN fs : fs[p].by = 0 /\ downloads[k] \in Prefixes(p)
    \/ \E j \in 1 .. k - 1 :
          Above(downloads[j], downloads[k]) \/ Above(downloads[k], downloads[j])

CollisionInv == InstallInv /\ Provenance /\ CollisionsExplained

\* The download at work, and its destination.
LEMMA AtWork ==
    ASSUME InstallInv, step \notin {"idle", "done"}
    PROVE  /\ n \in DOMAIN downloads /\ n \in Nat /\ n # 0 /\ Dst \in Paths
           /\ DOMAIN downloads = 1 .. Len(downloads) /\ Len(downloads) \in Nat
           /\ \A k \in DOMAIN downloads : downloads[k] \in Paths
           /\ DOMAIN outcome = DOMAIN downloads
BY DEF InstallInv, InstallTypeOK, Progress, Dst

\* A path at or below the destination that this download did not make.
LEMMA TakenExplained ==
    ASSUME InstallInv, Provenance, step \notin {"idle", "done"},
           NEW p \in DOMAIN fs, Dst \in Prefixes(p), fs[p].by # n
    PROVE  Explained(n)
<1>1. /\ n \in DOMAIN downloads /\ n \in Nat /\ Dst = downloads[n] /\ Dst \in Paths /\ p \in Paths
      /\ DOMAIN downloads = 1 .. Len(downloads) /\ Len(downloads) \in Nat
      /\ \A k \in DOMAIN downloads : downloads[k] \in Paths
  BY AtWork DEF Dst, Provenance, Owned
<1>2. CASE fs[p].by = 0
  BY <1>1, <1>2 DEF Explained
<1>3. CASE fs[p].by # 0
  <2> DEFINE j == fs[p].by
  <2>1. /\ j \in DOMAIN downloads /\ j <= n /\ j # n
        /\ Above(p, downloads[j]) \/ downloads[j] \in Prefixes(p)
    BY <1>3 DEF Provenance, Owned
  <2>2. j \in 1 .. n - 1 /\ downloads[j] # Dst /\ downloads[j] \in Paths
    BY <1>1, <2>1 DEF Provenance, Owned, Distinct
  <2> HIDE DEF j
  <2>3. Above(downloads[j], Dst) \/ Above(Dst, downloads[j])
    <3>1. CASE Above(p, downloads[j])
      BY <1>1, <2>2, <3>1, AboveThroughPrefix
    <3>2. CASE downloads[j] \in Prefixes(p)
      BY <1>1, <2>2, <3>2, PrefixesNested
    <3> QED
      BY <2>1, <3>1, <3>2
  <2> QED
    BY <1>1, <2>2, <2>3 DEF Explained
<1> QED
  BY <1>2, <1>3

\* An explanation stays one.
LEMMA ExplanationStays ==
    ASSUME NEW k, Explained(k), Kept, UNCHANGED downloads
    PROVE  Explained(k)'
BY DEF Explained, Kept

\* The property, with its explanation named.
LEMMA CollisionsMean == CollisionsExplained <=> \A k \in DOMAIN outcome : outcome[k] = "exists" => Explained(k)
BY DEF CollisionsExplained, Explained

\* A step that adds only paths, and no outcome, explains as much as before.
LEMMA SameOutcomes ==
    ASSUME CollisionsExplained, Kept, UNCHANGED <<downloads, outcome>>
    PROVE  CollisionsExplained'
<1>1. \A k : Explained(k) => Explained(k)'
  BY ExplanationStays
<1>2. \A k \in DOMAIN outcome : outcome[k] = "exists" => Explained(k)'
  BY <1>1, CollisionsMean
<1> QED
  BY <1>2 DEF CollisionsExplained, Explained

\* So does a download that returns, if its own outcome is explained.
LEMMA ReturnsExplained ==
    ASSUME CollisionInv, step \notin {"idle", "done"}, NEW result \in Outcomes, Returns(result),
           UNCHANGED fs, result = "exists" => Explained(n)
    PROVE  Provenance' /\ CollisionsExplained'
<1> USE DEF CollisionInv
<1>1. /\ n \in DOMAIN downloads /\ n \in Nat /\ DOMAIN outcome = DOMAIN downloads
      /\ DOMAIN downloads = 1 .. Len(downloads) /\ Len(downloads) \in Nat
  BY AtWork
<1>2. /\ UNCHANGED <<downloads, fs>> /\ n' = n + 1 /\ step' \in {"check", "done"}
      /\ outcome' = [outcome EXCEPT ![n] = result]
  BY DEF Returns
<1>3. Provenance'
  <2>1. ASSUME NEW p \in DOMAIN fs
        PROVE  /\ p \in Paths
               /\ fs[p].by # 0 =>
                     /\ fs[p].by \in DOMAIN downloads /\ fs[p].by <= n + 1
                     /\ Above(p, downloads[fs[p].by]) \/ downloads[fs[p].by] \in Prefixes(p)
               /\ fs[p].by < n + 1
    BY <1>1, <2>1 DEF Provenance, Owned
  <2> QED
    BY <1>2, <2>1 DEF Provenance, Owned
<1>4. ASSUME NEW k \in DOMAIN outcome, outcome'[k] = "exists"
      PROVE  Explained(k)'
  <2>1. Explained(k)
    BY <1>1, <1>2, <1>4, CollisionsMean
  <2> QED
    BY <1>2, <2>1, ExplanationStays DEF Kept
<1> QED
  BY <1>2, <1>3, <1>4 DEF CollisionsExplained, Explained

\* The invariant holds before the first download.
LEMMA InitCollisionInv == InstallInit => CollisionInv
<1> SUFFICES ASSUME InstallInit PROVE CollisionInv
  OBVIOUS
<1>1. /\ DOMAIN downloads = {} /\ DOMAIN outcome = {} /\ step = "idle"
      /\ \A p \in DOMAIN fs : p = <<>> /\ fs[p].by = 0
  BY DEF InstallInit, Entry
<1>2. <<>> \in Paths
  BY DEF Paths
<1> QED
  BY <1>1, <1>2, InstallInitInv DEF CollisionInv, Provenance, Owned, Distinct, CollisionsExplained

\* A step that makes one path, the outcomes being as before.
LEMMA GrowthExplained ==
    ASSUME CollisionInv, NEW path \in Paths, path \notin DOMAIN fs, NEW kind, NEW by,
           Add(path, Entry(kind, by)), UNCHANGED <<downloads, n, outcome>>
    PROVE  /\ CollisionsExplained'
           /\ DOMAIN fs' = DOMAIN fs \cup {path} /\ fs'[path].by = by
           /\ \A p \in DOMAIN fs : fs'[p] = fs[p]
<1>1. /\ DOMAIN fs' = DOMAIN fs \cup {path} /\ fs'[path].by = by
      /\ \A p \in DOMAIN fs : fs'[p] = fs[p]
  BY DEF Add, Entry
<1> QED
  BY <1>1, SameOutcomes DEF CollisionInv, Kept

\* Every step keeps it, if the destinations differ.
LEMMA NextCollisionInv ==
    CollisionInv /\ [DistinctStart \/ InstallNext]_installVars => CollisionInv'
<1> SUFFICES ASSUME CollisionInv, [DistinctStart \/ InstallNext]_installVars
             PROVE  Provenance' /\ CollisionsExplained'
  BY InstallStepInv DEF CollisionInv, DistinctStart, InstallStep
<1> USE DEF CollisionInv
<1>1. ASSUME NEW requested \in Seq(Paths), Distinct(requested), StartDownloads(requested)
      PROVE  Provenance' /\ CollisionsExplained'
  <2>1. /\ step = "idle" /\ downloads' = requested /\ n' = 1 /\ step' \in {"check", "done"}
        /\ UNCHANGED fs /\ \A k \in DOMAIN requested : outcome'[k] = "pending"
        /\ DOMAIN outcome' = DOMAIN requested
    BY <1>1 DEF StartDownloads
  <2>2. \A p \in DOMAIN fs : fs[p].by = 0 /\ p \in Paths
    BY <2>1 DEF InstallInv, Progress, Provenance, Owned
  <2> QED
    BY <1>1, <2>1, <2>2 DEF Provenance, Owned, CollisionsExplained, Distinct
<1>2. CASE DestinationExists
  <2>1. step = "check" /\ Dst \in DOMAIN fs /\ Returns("exists") /\ UNCHANGED fs
    BY <1>2 DEF DestinationExists
  <2>2. Dst \in Prefixes(Dst) /\ fs[Dst].by # n
    <3>1. n \in Nat /\ Dst \in Paths /\ Len(Dst) \in Nat
      BY <2>1, AtWork DEF Paths
    <3>2. Dst \in Prefixes(Dst)
      BY <3>1, PrefixMeans
    <3> QED
      BY <2>1, <3>1, <3>2 DEF Provenance, Owned
  <2>3. Explained(n)
    BY <2>1, <2>2, TakenExplained
  <2> QED
    BY <2>1, <2>3, ReturnsExplained DEF Outcomes
<1>3. CASE DestinationFails \/ SourceMissing \/ StreamFails \/ InstallFails \/ Installed
  BY <1>3, ReturnsExplained
     DEF DestinationFails, SourceMissing, StreamFails, InstallFails, Installed, Outcomes
<1>4. CASE CheckDestination \/ MakeStaging
  <2>1. /\ UNCHANGED <<downloads, n, outcome, fs>>
        /\ \/ step = "check" /\ step' = "parents"
           \/ step = "parents" /\ step' = "receive"
    BY <1>4 DEF CheckDestination, MakeStaging
  <2>2. n \in Nat
    BY <2>1, AtWork
  <2>3. CollisionsExplained'
    BY <2>1, SameOutcomes DEF Kept
  <2>4. ASSUME NEW p \in DOMAIN fs PROVE Owned(p)'
    <3>1. fs[p].by \in Nat /\ Owned(p)
      BY DEF InstallInv, InstallTypeOK, Provenance
    <3>2. CASE step = "check"
      BY <2>1, <2>2, <3>1, <3>2 DEF Owned
    <3>3. CASE step = "parents"
      BY <2>1, <2>2, <3>1, <3>3 DEF Owned, Dst
    <3> QED
      BY <2>1, <3>2, <3>3
  <2> QED
    BY <2>1, <2>3, <2>4 DEF Provenance
<1>5. CASE MakeParent
  <2>1. PICK p \in Ancestors(Dst) \ DOMAIN fs : Add(p, Entry("dir", n))
    BY <1>5 DEF MakeParent
  <2>2. step = "parents" /\ UNCHANGED <<downloads, step, n, outcome>>
    BY <1>5 DEF MakeParent
  <2>3. /\ n \in DOMAIN downloads /\ n \in Nat /\ n # 0 /\ Dst \in Paths
    BY <2>2, AtWork
  <2>4. p \in Paths /\ Above(p, Dst)
    BY <2>3 DEF Ancestors, Above, Paths
  <2>5. /\ CollisionsExplained'
        /\ DOMAIN fs' = DOMAIN fs \cup {p} /\ fs'[p].by = n
        /\ \A q \in DOMAIN fs : fs'[q] = fs[q]
    BY <2>1, <2>2, <2>4, GrowthExplained
  <2> QED
    BY <2>2, <2>3, <2>4, <2>5 DEF Provenance, Owned, Dst
<1>6. ASSUME NEW sent \in Trees, Receive(sent)
      PROVE  Provenance' /\ CollisionsExplained'
  <2>1. UNCHANGED <<downloads, n, outcome, fs>> /\ step = "receive" /\ step' = "install"
    BY <1>6 DEF Receive
  <2>2. CollisionsExplained'
    BY <2>1, SameOutcomes DEF Kept
  <2> QED
    BY <2>1, <2>2 DEF Provenance, Owned, Dst
<1>7. ASSUME step = "install", at < Len(tree)
      PROVE  /\ n \in DOMAIN downloads /\ n \in Nat /\ n # 0 /\ Dst \in Paths /\ Target \in Paths
             /\ Dst \in Prefixes(Target) /\ ~Above(Target, Dst) /\ at \in Nat
             /\ \A e \in 1 .. at : Target # Dst \o tree[e].path
  <2>1. /\ tree \in Trees /\ tree \in Seq([path : Paths, kind : Kinds]) /\ at \in Nat
        /\ \A k, l \in DOMAIN tree : tree[k].path = tree[l].path => k = l
    BY <1>7, InstallAssumption DEF InstallInv, InstallTypeOK, PartInstalled
  <2>2. at + 1 \in DOMAIN tree /\ \A e \in 1 .. at : e \in DOMAIN tree /\ e # at + 1
    BY <1>7, <2>1
  <2>3. ASSUME NEW e \in DOMAIN tree PROVE tree[e].path \in Paths
    <3>1. e \in 1 .. Len(tree)
      BY <2>1
    <3>2. tree[e] \in [path : Paths, kind : Kinds]
      BY <2>1, <3>1, Element
    <3> QED
      BY <3>2
  <2>4. n \in DOMAIN downloads /\ n \in Nat /\ n # 0 /\ Dst \in Paths
    BY <1>7, AtWork
  <2>5. Target \in Paths /\ Dst \in Prefixes(Target) /\ ~Above(Target, Dst)
    BY <2>2, <2>3, <2>4, BelowMeans DEF Target
  <2>6. ASSUME NEW e \in 1 .. at PROVE Target # Dst \o tree[e].path
    BY <2>1, <2>2, <2>3, <2>4, BelowInjective DEF Target
  <2> QED
    BY <2>1, <2>4, <2>5, <2>6
<1>8. CASE InstallEntry
  <2>1. /\ step = "install" /\ at < Len(tree) /\ Target \notin DOMAIN fs /\ at' = at + 1
        /\ Add(Target, Entry(tree[at + 1].kind, n))
        /\ UNCHANGED <<downloads, step, n, tree, outcome>>
    BY <1>8 DEF InstallEntry
  <2>2. /\ n \in DOMAIN downloads /\ n \in Nat /\ n # 0 /\ Target \in Paths /\ at \in Nat
        /\ Dst \in Prefixes(Target)
    BY <1>7, <2>1
  <2>3. /\ CollisionsExplained'
        /\ DOMAIN fs' = DOMAIN fs \cup {Target} /\ fs'[Target].by = n
        /\ \A q \in DOMAIN fs : fs'[q] = fs[q]
    BY <2>1, <2>2, GrowthExplained
  <2>4. at + 1 \in 1 .. at + 1 /\ \A e \in 1 .. at : e \in 1 .. at + 1
    BY <2>2
  <2>5. Provenance'
    <3>1. ASSUME NEW q \in DOMAIN fs PROVE Owned(q)'
      <4>1. fs[q].by = n => Above(q, Dst) \/ \E e \in 1 .. at + 1 : q = Dst \o tree[e].path
        BY <2>1, <2>4 DEF Provenance, Owned
      <4> QED
        BY <2>1, <2>3, <4>1 DEF Provenance, Owned, Dst
    <3>2. ASSUME NEW q \in Paths, q = Target, fs'[q].by = n PROVE Owned(q)'
      <4>1. q = Dst \o tree[at + 1].path
        BY <3>2 DEF Target
      <4>2. UNCHANGED <<downloads, step, n, tree>> /\ step = "install" /\ at' = at + 1
        BY <2>1
      <4>3. downloads[n] \in Prefixes(q)
        BY <2>2, <3>2 DEF Dst
      <4>4. \E e \in 1 .. at' : q = downloads[n] \o tree[e].path
        BY <2>4, <4>1, <4>2 DEF Dst
      <4>5. n <= n
        BY <2>2
      <4> HIDE DEF Prefixes
      <4> QED
        BY <2>2, <3>2, <4>2, <4>3, <4>4, <4>5 DEF Owned, Dst
    <3>3. downloads' = downloads /\ Distinct(downloads)
      BY <2>1 DEF Provenance
    <3>4. DOMAIN fs' = DOMAIN fs \cup {Target} /\ fs'[Target].by = n /\ Target \in Paths
      BY <2>2, <2>3
    <3>5. ASSUME NEW q \in DOMAIN fs' PROVE Owned(q)'
      <4>1. CASE q \in DOMAIN fs
        BY <3>1, <4>1
      <4>2. CASE q = Target
        BY <3>2, <3>4, <4>2
      <4> QED
        BY <3>4, <4>1, <4>2
    <3> QED
      BY <3>3, <3>5 DEF Provenance
  <2> QED
    BY <2>3, <2>5
<1>9. CASE EntryExists
  <2>1. /\ step = "install" /\ at < Len(tree) /\ Target \in DOMAIN fs /\ Returns("exists")
        /\ UNCHANGED fs
    BY <1>9 DEF EntryExists
  <2>2. fs[Target].by # n /\ Dst \in Prefixes(Target)
    BY <1>7, <2>1 DEF Provenance, Owned
  <2>3. Explained(n)
    BY <2>1, <2>2, TakenExplained
  <2> QED
    BY <2>1, <2>3, ReturnsExplained DEF Outcomes
<1>10. ASSUME NEW p \in Foreign, ForeignCreate(p)
       PROVE  Provenance' /\ CollisionsExplained'
  <2>1. PICK kind \in Kinds : Add(p, Entry(kind, 0))
    BY <1>10 DEF ForeignCreate
  <2>2. /\ p \in Paths /\ p \notin DOMAIN fs
        /\ UNCHANGED <<downloads, step, n, tree, at, outcome>>
    BY <1>10, InstallAssumption DEF ForeignCreate
  <2>3. /\ CollisionsExplained'
        /\ DOMAIN fs' = DOMAIN fs \cup {p} /\ fs'[p].by = 0
        /\ \A q \in DOMAIN fs : fs'[q] = fs[q]
    BY <2>1, <2>2, GrowthExplained
  <2>4. step \notin {"idle", "done"} => n \in Nat /\ n # 0
    BY AtWork
  <2>5. ASSUME NEW q \in DOMAIN fs PROVE Owned(q)'
    BY <2>2, <2>3 DEF Provenance, Owned, Dst
  <2>6. Owned(p)'
    <3>1. step = "check" => 0 < n
      BY <2>4
    <3> QED
      BY <2>2, <2>3, <2>4, <3>1 DEF Owned
  <2> QED
    BY <2>2, <2>3, <2>5, <2>6 DEF Provenance
<1>11. CASE UNCHANGED installVars
  <2>1. UNCHANGED <<downloads, step, n, tree, at, outcome, fs>>
    BY <1>11 DEF installVars
  <2>2. CollisionsExplained'
    BY <2>1, SameOutcomes DEF Kept
  <2> QED
    BY <2>1, <2>2 DEF Provenance, Owned, Dst
<1> QED
  BY <1>1, <1>2, <1>3, <1>4, <1>5, <1>6, <1>8, <1>9, <1>10, <1>11
     DEF DistinctStart, InstallNext, DownloadPath

\* With no two outputs of one destination, a destination is found taken only
\* by the work of another process or of an earlier output nested with it, for
\* any number of outputs, whatever trees they are and wherever others write.
THEOREM TakenDestinations == DistinctSpec => []CollisionsExplained
<1>1. CollisionInv => CollisionsExplained
  BY DEF CollisionInv
<1> QED
  BY <1>1, InitCollisionInv, NextCollisionInv, PTL DEF DistinctSpec

-----------------------------------------------------------------------------
(* What else is in an installed directory                                  *)

\* Of the paths at or below an installed output, those that its own download
\* made are the entries it was sent.
OwnEntries ==
    \A k \in DOMAIN outcome : outcome[k] = "installed" =>
        \A p \in DOMAIN fs : fs[p].by = k /\ downloads[k] \in Prefixes(p) =>
            PlaceOf(p, downloads[k], received[k])

WholeInv == CollisionInv /\ OwnEntries

LEMMA InitWholeInv == InstallInit => WholeInv
<1>1. InstallInit => OwnEntries
  BY DEF InstallInit, OwnEntries
<1> QED
  BY <1>1, InitCollisionInv DEF WholeInv

\* A download that returns as installed has made the whole tree, and nothing
\* else at or below its destination.
LEMMA ReturnsOwnEntries ==
    ASSUME WholeInv, step \notin {"idle", "done"}, NEW result \in Outcomes, Returns(result),
           UNCHANGED <<received, fs>>,
           result = "installed" => step = "install" /\ at = Len(tree)
    PROVE  OwnEntries'
<1> USE DEF WholeInv, CollisionInv
<1>1. /\ n \in DOMAIN downloads /\ DOMAIN outcome = DOMAIN downloads /\ Dst = downloads[n] /\ Dst \in Paths
  BY AtWork DEF Dst
<1>2. UNCHANGED <<downloads, received, fs>> /\ outcome' = [outcome EXCEPT ![n] = result]
  BY DEF Returns
<1>3. ASSUME NEW k \in DOMAIN outcome, outcome'[k] = "installed", NEW p \in DOMAIN fs,
             fs[p].by = k, downloads[k] \in Prefixes(p)
      PROVE  PlaceOf(p, downloads[k], received[k])
  <2>1. CASE k = n
    <3>1. step = "install" /\ at = Len(tree) /\ received[n] = tree /\ tree \in Seq([path : Paths, kind : Kinds])
      BY <1>1, <1>2, <1>3, <2>1, InstallAssumption DEF InstallInv, PartInstalled
    <3>2. ~Above(p, Dst)
      <4>1. p \in Paths
        BY DEF Provenance, Owned
      <4>2. Len(Dst) <= Len(p) /\ Len(p) \in Nat /\ Len(Dst) \in Nat
        BY <1>1, <1>3, <2>1, <4>1, PrefixMeans DEF Paths
      <4> QED
        BY <1>1, <4>1, <4>2, PrefixMeans
    <3>3. \E e \in 1 .. at : p = Dst \o tree[e].path
      BY <1>3, <2>1, <3>1, <3>2 DEF Provenance, Owned
    <3>4. DOMAIN received[n] = 1 .. at
      BY <3>1
    <3> QED
      BY <1>1, <2>1, <3>1, <3>3, <3>4 DEF PlaceOf
  <2>2. CASE k # n
    <3>1. outcome[k] = "installed"
      BY <1>1, <1>2, <1>3, <2>2
    <3> QED
      BY <1>3, <3>1 DEF OwnEntries
  <2> QED
    BY <2>1, <2>2
<1>4. DOMAIN outcome' = DOMAIN outcome
  BY <1>2
<1> QED
  BY <1>2, <1>3, <1>4 DEF OwnEntries

\* A path that is added belongs to the download under way or to nobody.
LEMMA GrowthOwnEntries ==
    ASSUME WholeInv, step \notin {"idle", "done"}, NEW path, path \notin DOMAIN fs, NEW kind,
           NEW by \in {0, n}, Add(path, Entry(kind, by)), UNCHANGED <<downloads, outcome, received>>
    PROVE  OwnEntries'
<1>1. /\ DOMAIN fs' = DOMAIN fs \cup {path} /\ fs'[path].by = by
      /\ \A p \in DOMAIN fs : fs'[p] = fs[p]
  BY DEF Add, Entry
<1>2. \A k \in DOMAIN outcome : outcome[k] = "installed" => k # 0 /\ k # n
  <2>1. n \in DOMAIN downloads /\ DOMAIN outcome = 1 .. Len(downloads) /\ outcome[n] = "pending"
    BY AtWork DEF WholeInv, CollisionInv, InstallInv, Progress
  <2> QED
    BY <2>1
<1> QED
  BY <1>1, <1>2 DEF WholeInv, OwnEntries

LEMMA NextWholeInv == WholeInv /\ [DistinctStart \/ InstallNext]_installVars => WholeInv'
<1> SUFFICES ASSUME WholeInv, [DistinctStart \/ InstallNext]_installVars
             PROVE  OwnEntries'
  BY NextCollisionInv DEF WholeInv
<1>1. CASE DistinctStart
  BY <1>1 DEF DistinctStart, StartDownloads, OwnEntries
<1>2. CASE DestinationExists \/ DestinationFails \/ SourceMissing \/ StreamFails
           \/ EntryExists \/ InstallFails \/ Installed
  BY <1>2, ReturnsOwnEntries
     DEF DestinationExists, DestinationFails, SourceMissing, StreamFails, EntryExists, InstallFails,
         Installed, Outcomes
<1>3. CASE CheckDestination \/ MakeStaging \/ UNCHANGED installVars
  BY <1>3 DEF CheckDestination, MakeStaging, installVars, WholeInv, OwnEntries
<1>4. ASSUME NEW sent \in Trees, Receive(sent)
      PROVE  OwnEntries'
  <2>1. n \in DOMAIN downloads /\ outcome[n] = "pending" /\ DOMAIN received = DOMAIN downloads
        /\ DOMAIN outcome = DOMAIN downloads
    BY <1>4, AtWork DEF Receive, WholeInv, CollisionInv, InstallInv, Progress
  <2>2. UNCHANGED <<downloads, outcome, fs>> /\ \A k \in DOMAIN received : k # n => received'[k] = received[k]
    BY <1>4 DEF Receive
  <2> QED
    BY <2>1, <2>2 DEF WholeInv, OwnEntries
<1>5. CASE MakeParent
  <2>1. PICK p \in Ancestors(Dst) \ DOMAIN fs : Add(p, Entry("dir", n))
    BY <1>5 DEF MakeParent
  <2> QED
    BY <1>5, <2>1, GrowthOwnEntries DEF MakeParent
<1>6. CASE InstallEntry
  BY <1>6, GrowthOwnEntries DEF InstallEntry
<1>7. ASSUME NEW p \in Foreign, ForeignCreate(p)
      PROVE  OwnEntries'
  <2>1. PICK kind \in Kinds : Add(p, Entry(kind, 0))
    BY <1>7 DEF ForeignCreate
  <2>2. CASE step = "idle"
    BY <1>7, <2>2 DEF ForeignCreate, WholeInv, CollisionInv, InstallInv, InstallTypeOK, Progress, OwnEntries
  <2> QED
    BY <1>7, <2>1, <2>2, GrowthOwnEntries DEF ForeignCreate
<1> QED
  BY <1>1, <1>2, <1>3, <1>4, <1>5, <1>6, <1>7 DEF InstallNext, DownloadPath

\* What another download made there is the work of a nested output.
LEMMA WholeInvInstalled == WholeInv => InstalledWhole
<1> SUFFICES ASSUME WholeInv, NEW k \in DOMAIN outcome, outcome[k] = "installed"
             PROVE  EntriesInPlace(k) /\ ExtrasExplained(k)
  BY DEF InstalledWhole
<1> USE DEF WholeInv, CollisionInv
<1>1. EntriesInPlace(k)
  BY DEF InstallInv, AllInPlace
<1>2. ASSUME NEW p \in DOMAIN fs, downloads[k] \in Prefixes(p), fs[p].by # 0
      PROVE  \/ fs[p].by = k /\ PlaceOf(p, downloads[k], received[k])
             \/ /\ fs[p].by # k
                /\ \/ Above(downloads[fs[p].by], downloads[k])
                   \/ Above(downloads[k], downloads[fs[p].by])
  <2>1. CASE fs[p].by = k
    BY <1>2, <2>1 DEF OwnEntries
  <2>2. CASE fs[p].by # k
    <3> DEFINE j == fs[p].by
    <3>1. /\ j \in DOMAIN downloads /\ p \in Paths
          /\ Above(p, downloads[j]) \/ downloads[j] \in Prefixes(p)
      BY <1>2 DEF Provenance, Owned
    <3>2. downloads[j] # downloads[k] /\ downloads[j] \in Paths /\ downloads[k] \in Paths
      <4>1. k \in DOMAIN downloads /\ \A i \in DOMAIN downloads : downloads[i] \in Paths
        BY DEF InstallInv, InstallTypeOK
      <4> QED
        BY <2>2, <3>1, <4>1 DEF Provenance, Distinct
    <3> HIDE DEF j
    <3>3. CASE Above(p, downloads[j])
      <4>1. Above(downloads[k], downloads[j])
        BY <1>2, <3>1, <3>2, <3>3, AboveThroughPrefix
      <4> QED
        BY <2>2, <4>1 DEF j
    <3>4. CASE downloads[j] \in Prefixes(p)
      <4>1. Above(downloads[j], downloads[k]) \/ Above(downloads[k], downloads[j])
        BY <1>2, <3>1, <3>2, <3>4, PrefixesNested
      <4> QED
        BY <2>2, <4>1 DEF j
    <3> QED
      BY <3>1, <3>3, <3>4
  <2> QED
    BY <2>1, <2>2
<1> QED
  BY <1>1, <1>2 DEF ExtrasExplained

\* DownloadPath returns nil only after the last entry of the tree it received
\* was made by its own mkdir or link, whatever others did meanwhile; what else
\* is in an installed directory another process put there, or an output nested
\* with this one.
THEOREM InstalledOutputsAreWhole == DistinctSpec => []InstalledWhole
  BY InitWholeInv, NextWholeInv, WholeInvInstalled, PTL DEF DistinctSpec

-----------------------------------------------------------------------------
(* The values of a command are functions of its input                      *)

Connecting == {"connected", "running", "collecting"}
Finished == {"desired", "offline", "done"} \cup Connecting

Resolved == ResolvedText(Doc, Env)
WantedTarget == WorkflowTarget(Resolved, input.flags, Env)
Wanted == Desired(Doc, Resolved, WantedTarget, input.flags, Env)

\* How far the command has come, and what it has computed on the way: every
\* value is a function of the document, the flags and the environment.
Computed ==
    /\ input \in Inputs
    /\ pc \in {"start", "loaded", "resolved", "failed"} \cup Finished
    /\ pc \notin {"start", "failed"} => Parses(Doc)
    /\ pc \in {"start", "loaded"} => errors = {}
    /\ pc \notin {"start", "loaded"} /\ Parses(Doc) => errors = ResolveErrors(Doc, Env)
    /\ pc \in {"resolved"} \cup Finished => errors = {}
    /\ pc = "resolved" => text = Resolved
    /\ pc \in Finished => text = Wanted /\ target = WantedTarget
    /\ pc \in Connecting => connection = ResolveDirectTarget(target, Env)
    /\ pc \in {"running", "collecting"} => input.command = "apply"
    /\ pc \in {"running", "collecting"} =>
          \E sourceIsFile \in BOOLEAN :
             request = [uploads |-> Uploads(text, sourceIsFile), downloads |-> Downloads(Doc, text)]
    /\ shown # {} /\ input.command = "show" => pc = "done" /\ shown = RedactedWorkflow(text, Doc.text)
    /\ shown # {} /\ input.command = "plan" =>
          pc = "done" /\ \E reached \in BOOLEAN : shown = RedactedPlan(text, Doc.text, reached)
    /\ refusals # {} =>
          pc = "failed" /\ errors = {} /\ Parses(Doc) /\ text = Wanted /\ refusals = Refusals(text, input.flags)

\* Nothing is computed at first.
LEMMA InitComputed == FilesInit => Computed
  BY DEF FilesInit, Computed, Finished, Connecting

\* Every handler computes its values from those before it.
LEMMA NextComputed == Computed /\ [FilesNext]_filesVars => Computed'
<1> SUFFICES ASSUME Computed, [FilesNext]_filesVars PROVE Computed'
  OBVIOUS
<1> USE DEF Computed, Finished, Connecting
<1>1. CASE Load
  BY <1>1 DEF Load, Doc, Env
<1>2. CASE LoadFails
  BY <1>2 DEF LoadFails, Doc, Env
<1>3. CASE Resolve
  BY <1>3 DEF Resolve, Doc, Env, Resolved
<1>4. CASE ResolveFails
  BY <1>4 DEF ResolveFails, Doc, Env
<1>5. CASE LoadWorkflow
  BY <1>5 DEF LoadWorkflow, Doc, Env, Resolved, WantedTarget, Wanted
<1>6. CASE RenderWorkflow
  BY <1>6 DEF RenderWorkflow, Doc, Env, Resolved, WantedTarget, Wanted
<1>7. CASE Connect
  BY <1>7 DEF Connect, Doc, Env, Resolved, WantedTarget, Wanted
<1>8. CASE ConnectFails
  BY <1>8 DEF ConnectFails, Doc, Env, Resolved, WantedTarget, Wanted
<1>9. CASE RenderPlan
  BY <1>9 DEF RenderPlan, Doc, Env, Resolved, WantedTarget, Wanted
<1>10. CASE PreflightFails
  BY <1>10 DEF PreflightFails, Doc, Env, Resolved, WantedTarget, Wanted
<1>11. CASE BuildRunRequest
  BY <1>11 DEF BuildRunRequest, CanApply, Doc, Env, Resolved, WantedTarget, Wanted
<1>12. CASE BuildFails
  BY <1>12 DEF BuildFails, CanApply, Doc, Env, Resolved, WantedTarget, Wanted
<1>13. CASE CollectOutputs
  BY <1>13 DEF CollectOutputs, Doc, Env, Resolved, WantedTarget, Wanted
<1>14. CASE RunFails
  BY <1>14 DEF RunFails, Doc, Env, Resolved, WantedTarget, Wanted
<1>15. CASE Collect \/ UNCHANGED filesVars
  BY <1>15 DEF Collect, filesVars, documentVars, Doc, Env, Resolved, WantedTarget, Wanted
<1> QED
  BY <1>1, <1>2, <1>3, <1>4, <1>5, <1>6, <1>7, <1>8, <1>9, <1>10, <1>11, <1>12, <1>13, <1>14, <1>15
     DEF FilesNext

-----------------------------------------------------------------------------
(* The target                                                              *)

RegistrationPaths ==
    {<<"registration", "endpoint">>, <<"oidc", "issuer">>, <<"oidc", "clientId">>, <<"oidc", "audience">>}

\* What loadWorkflow may set in the resolved document.
Set ==
    {<<"target", "gateway">>, <<"target", "workspace">>, <<"name">>, <<"agent", "type">>,
     <<"sandbox", "image">>}

\* Overrides and defaults leave every other string alone.
LEMMA PathKept ==
    ASSUME NEW path, path \notin Set
    PROVE  /\ path \in DOMAIN Wanted <=> path \in DOMAIN Doc.text
           /\ path \in DOMAIN Doc.text => Wanted[path] = Resolved[path]
<1> DEFINE overridden == Overridden(Resolved, WantedTarget, input.flags)
<1>1. /\ path \in DOMAIN overridden <=> path \in DOMAIN Doc.text
      /\ path \in DOMAIN Doc.text => overridden[path] = Resolved[path]
  BY DEF Overridden, Set, Resolved, ResolvedText
<1>2. path # <<"sandbox", "image">>
  BY DEF Set
<1> HIDE DEF overridden
<1>3. Wanted = IF RunConfigured(Doc, overridden)
               THEN [p \in DOMAIN overridden \cup {<<"sandbox", "image">>} |->
                       IF p = <<"sandbox", "image">>
                       THEN ResolveField(Value(Env, <<"HARNESS_OS_IMAGE">>), At(Resolved, <<"sandbox", "image">>), DefaultImage)
                       ELSE overridden[p]]
               ELSE overridden
  BY DEF Wanted, Desired, overridden
<1> QED
  BY <1>1, <1>2, <1>3

\* Nor do they touch the registration.
LEMMA RegistrationKept ==
    ASSUME NEW path \in RegistrationPaths, path \in DOMAIN Doc.text
    PROVE  Wanted[path] = Resolved[path]
<1>1. path \notin Set
  BY DEF RegistrationPaths, Set
<1> QED
  BY <1>1, PathKept

\* A registration that Resolve lets pass is complete.
LEMMA RegistrationComplete ==
    ASSUME ResolveErrors(Doc, Env) = {}, <<"registration", "endpoint">> \in DOMAIN Doc.text
    PROVE  \A path \in RegistrationPaths :
              path \in DOMAIN Doc.text /\ Resolved[path] # <<>> /\ At(Resolved, path) = Resolved[path]
<1> DEFINE expanded == [p \in DOMAIN Doc.text |-> Expand(Doc.text[p], Usable(Env)).out]
<1>1. RegistrationErrors(expanded) = {}
  BY DEF ResolveErrors
<1>2. \A path \in RegistrationPaths : At(expanded, path) # <<>>
  BY <1>1 DEF RegistrationErrors, RegistrationPaths
<1>3. \A path \in RegistrationPaths : path \in DOMAIN Doc.text /\ expanded[path] # <<>>
  BY <1>2 DEF At
<1>4. \A path \in RegistrationPaths : path[1] # "outputs"
  BY DEF RegistrationPaths
<1> HIDE DEF expanded
<1>5. DOMAIN Resolved = DOMAIN Doc.text
  BY DEF Resolved, ResolvedText
<1>6. \A path \in DOMAIN Doc.text : path[1] # "outputs" => Resolved[path] = expanded[path]
  BY DEF Resolved, ResolvedText, expanded
<1> QED
  BY <1>3, <1>4, <1>5, <1>6 DEF At

\* What the document says of its gateway, once its references are expanded.
Documented ==
    IF <<"target", "gateway">> \in DOMAIN Doc.text
    THEN Expand(Doc.text[<<"target", "gateway">>], Usable(Env)).out ELSE <<>>

\* The gateway of the resolved document is the one documented.
LEMMA DocumentedGateway == At(Resolved, <<"target", "gateway">>) = Documented
BY DEF At, Resolved, ResolvedText, Documented

\* loadWorkflow, ResolveTarget and New together follow the precedence.
LEMMA ConnectsByPrecedence ==
    ASSUME Computed, pc \in Connecting
    PROVE  TargetByPrecedence
<1> DEFINE named == ResolveField(input.flags.gateway, Value(Env, <<"OPENSHELL_GATEWAY">>), <<>>)
           registered == <<"registration", "endpoint">> \in DOMAIN Doc.text
           external == input.flags.gateway # <<>> \/ Value(Env, <<"OPENSHELL_GATEWAY">>) # <<>>
           registration == [part \in DOMAIN NoDirect |->
               IF part = "endpoint" THEN text[<<"registration", part>>] ELSE text[<<"oidc", part>>]]
           Is(gateway, direct) == connection.gateway = gateway /\ connection.direct = direct
<1>1. /\ target = WantedTarget /\ connection = ResolveDirectTarget(target, Env) /\ text = Wanted
      /\ ResolveErrors(Doc, Env) = {}
  BY DEF Computed, Connecting, Finished
<1>2. named # <<>> <=> external
  BY DEF ResolveField
<1>3. /\ target.gateway = IF external THEN named ELSE Documented
      /\ ~(registered /\ ~external) => target.direct = NoDirect
  BY <1>1, DocumentedGateway DEF WantedTarget, WorkflowTarget, ResolveField, Resolved, ResolvedText
<1>4. ASSUME registered, ~external PROVE target.direct = registration /\ registration # NoDirect
  <2>1. \A path \in RegistrationPaths : At(Resolved, path) = text[path] /\ text[path] # <<>>
                                        /\ Resolved[path] = text[path]
    BY <1>1, <1>4, RegistrationComplete, RegistrationKept
  <2>2. target.direct = [endpoint |-> Resolved[<<"registration", "endpoint">>],
                         issuer |-> At(Resolved, <<"oidc", "issuer">>),
                         clientId |-> At(Resolved, <<"oidc", "clientId">>),
                         audience |-> At(Resolved, <<"oidc", "audience">>)]
    BY <1>1, <1>4 DEF WantedTarget, WorkflowTarget, Resolved, ResolvedText
  <2>3. DOMAIN NoDirect = {"endpoint", "issuer", "clientId", "audience"}
    BY DEF NoDirect
  <2>4. target.direct = registration
    BY <2>1, <2>2, <2>3 DEF RegistrationPaths
  <2>5. registration["endpoint"] # <<>> /\ NoDirect["endpoint"] = <<>>
    BY <2>1, <2>3 DEF RegistrationPaths, NoDirect
  <2> QED
    BY <2>4, <2>5
<1>5. target = [gateway |-> target.gateway, workspace |-> target.workspace, direct |-> target.direct]
  BY <1>1 DEF WantedTarget, WorkflowTarget
<1>6. IF target.direct = NoDirect /\ target.gateway = <<>> /\ Complete(EnvDirect(Env))
      THEN Is(<<>>, EnvDirect(Env)) ELSE Is(target.gateway, target.direct)
  BY <1>1, <1>5 DEF ResolveDirectTarget
<1> HIDE DEF registered, external, registration
<1>7. external => Is(named, NoDirect)
  <2> SUFFICES ASSUME external PROVE Is(named, NoDirect)
    OBVIOUS
  <2>1. target.gateway = named /\ target.gateway # <<>> /\ target.direct = NoDirect
    BY <1>2, <1>3
  <2> HIDE DEF named
  <2> QED
    BY <2>1, <1>6
<1>8. ~external /\ registered => Is(Documented, registration)
  BY <1>3, <1>4, <1>6
<1>9. ~external /\ ~registered /\ Documented # <<>> => Is(Documented, NoDirect)
  BY <1>3, <1>6
<1>10. ~external /\ ~registered /\ Documented = <<>> =>
          Is(<<>>, IF Complete(EnvDirect(Env)) THEN EnvDirect(Env) ELSE NoDirect)
  BY <1>3, <1>6
<1> HIDE DEF Is
<1>11. /\ named # <<>> => Is(named, NoDirect)
       /\ named = <<>> /\ registered => Is(Documented, registration)
       /\ named = <<>> /\ ~registered /\ Documented # <<>> => Is(Documented, NoDirect)
       /\ named = <<>> /\ ~registered /\ Documented = <<>> =>
             Is(<<>>, IF Complete(EnvDirect(Env)) THEN EnvDirect(Env) ELSE NoDirect)
  BY <1>2, <1>7, <1>8, <1>9, <1>10
<1> QED
  BY <1>11, Zenon DEF TargetByPrecedence, Documented, Is, registered, registration, named

\* The gateway that a command connects to, and its credentials, come from the
\* first of flag, environment, document and active registration that is there
\* (loadWorkflow, ResolveTarget, New), for every document, all flags and every
\* environment, and never from two of them.
THEOREM TargetChosen == FilesSpec => []TargetByPrecedence
<1>1. Computed => TargetByPrecedence
  BY ConnectsByPrecedence DEF TargetByPrecedence, Connecting
<1> QED
  BY <1>1, InitComputed, NextComputed, PTL DEF FilesSpec

-----------------------------------------------------------------------------
(* The request                                                             *)

\* The last of a nonempty set of positions.
LEMMA GreatestPosition ==
    ASSUME NEW size \in Nat, NEW T \in SUBSET (1 .. size), T # {}
    PROVE  \E m \in T : \A k \in T : k <= m
<1> DEFINE U == {size - k : k \in T}
<1>1. U \in SUBSET Nat /\ U # {}
  <2>1. \A k \in T : size - k \in Nat
    <3> SUFFICES ASSUME NEW k \in T PROVE size - k \in Nat
      OBVIOUS
    <3>1. k \in 1 .. size
      OBVIOUS
    <3> QED
      BY <3>1
  <2> QED
    BY <2>1
<1> HIDE DEF U
<1>2. PICK u \in U : \A v \in U : u <= v
  BY <1>1, LeastMember
<1>3. PICK m \in T : u = size - m
  BY <1>2 DEF U
<1>4. ASSUME NEW k \in T PROVE k <= m
  <2>1. size - k \in U
    BY DEF U
  <2>2. size - m <= size - k
    BY <1>2, <1>3, <2>1
  <2> QED
    BY <2>2
<1> QED
  BY <1>4

\* The name that an upload gets when its destination is a directory.
Bases == {<<"repository">>, <<"source-base">>, <<"payload-file">>}

\* One name more is directly below.
LEMMA LandsBelow ==
    ASSUME NEW X, NEW asked \in Seq(X), NEW b
    PROVE  asked \o <<b>> # <<>> /\ SubSeq(asked \o <<b>>, 1, Len(asked \o <<b>>) - 1) = asked
<1> DEFINE Y == X \cup {b}
           l == asked \o <<b>>
           f == SubSeq(l, 1, Len(l) - 1)
<1>1. asked \in Seq(Y) /\ <<b>> \in Seq(Y) /\ Len(asked) \in Nat /\ Len(<<b>>) = 1
  OBVIOUS
<1> HIDE DEF Y
<1>2. l \in Seq(Y) /\ Len(l) = Len(asked) + 1 /\ \A i \in 1 .. Len(asked) : l[i] = asked[i]
  BY <1>1, ConcatProperties
<1> HIDE DEF l
<1>3. f \in Seq(Y) /\ Len(f) = Len(asked) /\ \A i \in 1 .. Len(asked) : f[i] = l[i]
  <2>1. 1 \in 1 .. Len(l) + 1 /\ Len(l) - 1 \in 0 .. Len(l) /\ Len(l) - 1 = Len(asked) /\ \A i \in 1 .. Len(asked) : l[i] \in Y
    BY <1>1, <1>2
  <2> QED
    BY <1>1, <1>2, <2>1
<1>4. f = asked
  BY <1>1, <1>2, <1>3, SeqEqual
<1>5. l # <<>>
  BY <1>1, <1>2
<1> QED
  BY <1>4, <1>5 DEF f, l

\* What is before and what is after a position.
LEMMA CutAround ==
    ASSUME NEW S, NEW d \in Seq(S), NEW k \in 2 .. Len(d) - 1
    PROVE  LET a == SubSeq(d, 1, k - 1)
               b == SubSeq(d, k + 1, Len(d))
           IN  /\ a \in Seq(S) /\ Len(a) = k - 1 /\ \A i \in 1 .. k - 1 : a[i] = d[i]
               /\ b \in Seq(S) /\ Len(b) = Len(d) - k /\ \A i \in 1 .. Len(d) - k : b[i] = d[k + i]
<1> DEFINE size == Len(d)
           a == SubSeq(d, 1, k - 1)
           b == SubSeq(d, k + 1, size)
<1>1. size \in Nat /\ k \in 2 .. size - 1
  OBVIOUS
<1>2. /\ 1 \in 1 .. size /\ k - 1 \in 1 .. size /\ k + 1 \in 1 .. size /\ size \in k + 1 .. size
      /\ k - 1 - 1 + 1 = k - 1 /\ size - (k + 1) + 1 = size - k
  <2> HIDE DEF size
  <2> QED
    BY <1>1
<1>3. a \in Seq(S) /\ Len(a) = k - 1 - 1 + 1 /\ \A i \in 1 .. k - 1 - 1 + 1 : a[i] = d[1 + i - 1]
  BY <1>2, SubSeqFacts
<1>4. b \in Seq(S) /\ Len(b) = size - (k + 1) + 1 /\ \A i \in 1 .. size - (k + 1) + 1 : b[i] = d[k + 1 + i - 1]
  BY <1>2, SubSeqFacts
<1>5. (\A i \in 1 .. k - 1 : 1 + i - 1 = i) /\ \A i \in 1 .. size - k : k + 1 + i - 1 = k + i
  <2> HIDE DEF size
  <2> QED
    BY <1>1
<1> HIDE DEF a, b, size
<1>6. a \in Seq(S) /\ Len(a) = k - 1 /\ \A i \in 1 .. k - 1 : a[i] = d[i]
  BY <1>2, <1>3, <1>5
<1>7. b \in Seq(S) /\ Len(b) = size - k /\ \A i \in 1 .. size - k : b[i] = d[k + i]
  BY <1>2, <1>4, <1>5
<1> QED
  BY <1>6, <1>7 DEF a, b, size

\* An upload that is accepted lands at the path it asks for, or directly below.
LEMMA PlaceLands ==
    ASSUME NEW S, "/" \in S, NEW d \in Seq(S), NEW fileLike \in BOOLEAN, NEW base \in Bases
    PROVE  LandsAt(UploadPlace(d, fileLike, base), PathSegments(d))
<1> DEFINE asked == PathSegments(d)
           size == Len(d)
           slashes == {i \in DOMAIN d : d[i] = "/"}
           slash == CHOOSE i \in slashes : \A j \in slashes : j <= i
           inside == slash \notin {1, size} /\ SubSeq(d, 1, slash - 1) # <<"/">>
           a == SubSeq(d, 1, slash - 1)
           b == SubSeq(d, slash + 1, size)
           upload == UploadPlace(d, fileLike, base)
<1>1. size \in Nat /\ DOMAIN d = 1 .. size /\ asked \in Seq(Word(S)) /\ asked \in Seq(Seq(S))
  BY PathWords, WordsTyped
<1>2. CASE fileLike /\ slashes = {}
  <2>1. upload = [directory |-> <<".">>, name |-> d]
    BY <1>2 DEF UploadPlace
  <2>2. PathSegments(<<".">>) = <<>>
    <3>1. <<".">> \in Seq({"."} \ Slash)
      BY DEF Slash
    <3> QED
      BY <3>1, PathOfWord
  <2>5. upload.directory = <<".">> /\ upload.name = d
    BY <2>1
  <2> HIDE DEF upload
  <2>3. Lands(upload) = <<>> \o asked
    BY <2>5, <2>2 DEF Lands
  <2>4. <<>> \o asked = asked
    BY <1>1
  <2> QED
    BY <2>3, <2>4 DEF LandsAt, upload
<1>3. CASE fileLike /\ slashes # {} /\ inside
  <2>1. upload = [directory |-> a, name |-> b]
    BY <1>3 DEF UploadPlace
  <2>2. slash \in 1 .. size /\ d[slash] = "/"
    <3>1. slashes \in SUBSET (1 .. size)
      BY <1>1
    <3> HIDE DEF slashes, size
    <3>2. \E i \in slashes : \A j \in slashes : j <= i
      BY <1>1, <1>3, <3>1, GreatestPosition
    <3>3. slash \in slashes
      BY <3>2
    <3> QED
      BY <3>1, <3>3 DEF slashes
  <2> HIDE DEF slash
  <2>3. /\ a \in Seq(S) /\ Len(a) = slash - 1 /\ \A i \in 1 .. slash - 1 : a[i] = d[i]
        /\ b \in Seq(S) /\ Len(b) = size - slash /\ \A i \in 1 .. size - slash : b[i] = d[slash + i]
    <3>0. slash # 1 /\ slash # size
      BY <1>3
    <3>1. size \in Nat /\ size = Len(d)
      BY <1>1
    <3> HIDE DEF size
    <3>2. slash \in 2 .. size - 1
      BY <2>2, <3>0, <3>1
    <3>3. slash \in 2 .. Len(d) - 1 /\ size = Len(d)
      BY <3>1, <3>2
    <3> QED
      BY <3>3, CutAround
  <2>4. d = a \o <<"/">> \o b
    <3> DEFINE m == <<"/">>
               am == a \o m
               e == am \o b
    <3>1. m \in Seq(S) /\ Len(m) = 1 /\ m[1] = "/"
      OBVIOUS
    <3> HIDE DEF a, b, m
    <3>2. /\ am \in Seq(S) /\ Len(am) = slash
          /\ \A i \in 1 .. slash : am[i] = IF i <= slash - 1 THEN a[i] ELSE m[i - (slash - 1)]
      <4>1. /\ am \in Seq(S) /\ Len(am) = Len(a) + 1
            /\ \A i \in 1 .. Len(a) + 1 : am[i] = IF i <= Len(a) THEN a[i] ELSE m[i - Len(a)]
        <5>1. a \in Seq(S) /\ m \in Seq(S)
          BY <2>3, <3>1
        <5>2. /\ am \in Seq(S) /\ Len(am) = Len(a) + Len(m)
              /\ \A i \in 1 .. Len(a) + Len(m) : am[i] = IF i <= Len(a) THEN a[i] ELSE m[i - Len(a)]
          BY <5>1, ConcatProperties
        <5> QED
          BY <3>1, <5>2
      <4>2. Len(a) + 1 = slash /\ Len(a) = slash - 1
        BY <2>2, <2>3
      <4> QED
        BY <4>1, <4>2
    <3> HIDE DEF am
    <3>3. /\ e \in Seq(S) /\ Len(e) = size
          /\ \A i \in 1 .. size : e[i] = IF i <= slash THEN am[i] ELSE b[i - slash]
      <4>1. /\ e \in Seq(S) /\ Len(e) = Len(am) + Len(b)
            /\ \A i \in 1 .. Len(am) + Len(b) : e[i] = IF i <= Len(am) THEN am[i] ELSE b[i - Len(am)]
        BY <2>3, <3>2, ConcatProperties, ZenonT(60)
      <4>2. Len(am) + Len(b) = size /\ Len(am) = slash
        BY <1>1, <2>2, <2>3, <3>2
      <4> QED
        BY <4>1, <4>2
    <3> HIDE DEF e
    <3>4. ASSUME NEW i \in 1 .. size PROVE e[i] = d[i]
      <4>1. CASE i < slash
        <5>1. i \in 1 .. slash /\ i \in 1 .. slash - 1 /\ i <= slash - 1 /\ i <= slash
          BY <1>1, <2>2, <4>1
        <5>2. am[i] = a[i] /\ a[i] = d[i] /\ e[i] = am[i]
          BY <2>3, <3>2, <3>3, <5>1
        <5> QED
          BY <5>2
      <4>2. CASE i = slash
        <5>1. i \in 1 .. slash /\ ~(i <= slash - 1) /\ i - (slash - 1) = 1 /\ i <= slash
          BY <1>1, <2>2, <4>2
        <5>2. am[i] = m[1] /\ e[i] = am[i]
          BY <3>2, <3>3, <5>1
        <5> QED
          BY <2>2, <3>1, <4>2, <5>2
      <4>3. CASE i > slash
        <5>1. i - slash \in 1 .. size - slash /\ ~(i <= slash) /\ slash + (i - slash) = i
          BY <1>1, <2>2, <4>3
        <5>2. e[i] = b[i - slash] /\ b[i - slash] = d[slash + (i - slash)]
          BY <2>3, <3>3, <5>1
        <5> QED
          BY <5>1, <5>2
      <4> QED
        BY <1>1, <2>2, <4>1, <4>2, <4>3
    <3>5. Len(d) = size /\ Len(e) = Len(d) /\ \A i \in 1 .. Len(d) : e[i] = d[i]
      BY <3>3, <3>4
    <3> HIDE DEF size
    <3>6. e = d
      BY <3>3, <3>5, SeqEqual
    <3> QED
      BY <3>6 DEF e, am, m
  <2>5. PathsAdd(a, b)
    <3> HIDE DEF a, b
    <3> QED
      BY <2>3, PathConcat
  <2>6. asked = PathSegments(a) \o PathSegments(b)
    BY <2>4, <2>5 DEF PathsAdd
  <2> QED
    BY <2>1, <2>6 DEF LandsAt, Lands
<1>4. CASE ~(fileLike /\ slashes = {}) /\ ~(fileLike /\ slashes # {} /\ inside)
  <2>1. upload = [directory |-> d, name |-> base]
    BY <1>4 DEF UploadPlace
  <2>2. PathSegments(base) = <<base>>
    <3>1. ASSUME NEW name \in {"repository", "source-base", "payload-file"} PROVE PathSegments(<<name>>) = <<<<name>>>>
      <4>1. <<name>> \in Seq({name} \ Slash) /\ <<name>> # <<>> /\ <<name>> # <<".">>
        BY DEF Slash
      <4> QED
        BY <4>1, PathOfWord
    <3>2. \E name \in {"repository", "source-base", "payload-file"} : base = <<name>>
      BY DEF Bases
    <3> QED
      BY <3>1, <3>2
  <2> HIDE DEF asked
  <2>3. asked \o <<base>> # <<>> /\ SubSeq(asked \o <<base>>, 1, Len(asked \o <<base>>) - 1) = asked
    BY <1>1, LandsBelow
  <2>5. upload.directory = d /\ upload.name = base
    BY <2>1
  <2> HIDE DEF upload
  <2>4. Lands(upload) = asked \o <<base>>
    BY <2>2, <2>5 DEF Lands, asked
  <2> QED
    BY <2>3, <2>4 DEF LandsAt, asked, upload
<1> QED
  BY <1>2, <1>3, <1>4

LEMMA EmptyDirectory == NoUpload.directory = <<>>
  BY DEF NoUpload

\* The directory of an upload is never empty.
LEMMA PlaceGiven ==
    ASSUME NEW S, "/" \in S, NEW d \in Seq(S), d # <<>>, NEW fileLike \in BOOLEAN, NEW base
    PROVE  UploadPlace(d, fileLike, base) # NoUpload
<1> DEFINE size == Len(d)
           slashes == {i \in DOMAIN d : d[i] = "/"}
           slash == CHOOSE i \in slashes : \A j \in slashes : j <= i
           a == SubSeq(d, 1, slash - 1)
           directory == UploadPlace(d, fileLike, base).directory
<1>1. CASE slashes # {} /\ slash \notin {1, size}
  <2>1. slashes \in SUBSET (1 .. size) /\ size \in Nat
    OBVIOUS
  <2>2. slash \in slashes
    <3> HIDE DEF slashes, size
    <3>1. \E i \in slashes : \A j \in slashes : j <= i
      BY <1>1, <2>1, GreatestPosition
    <3> QED
      BY <3>1
  <2>3. slash \in 2 .. Len(d) - 1
    <3>1. slash \in 1 .. size /\ slash # 1 /\ slash # size
      BY <1>1, <2>1, <2>2
    <3> HIDE DEF slash, slashes, size
    <3>2. slash \in 2 .. size - 1
      BY <2>1, <3>1
    <3> QED
      BY <3>2 DEF size
  <2> HIDE DEF slash
  <2>4. Len(a) = slash - 1 /\ a \in Seq(S)
    BY <2>3, CutAround
  <2>5. a # <<>>
    BY <2>3, <2>4
  <2>6. directory \in {<<".">>, a, d}
    BY DEF UploadPlace, slash
  <2>7. directory # <<>>
    <3> HIDE DEF a, directory
    <3>1. <<".">> # <<>>
      OBVIOUS
    <3> QED
      BY <2>5, <2>6, <3>1
  <2> QED
    BY <2>7, EmptyDirectory
<1>2. CASE slashes = {} \/ slash \in {1, size}
  <2>1. directory \in {<<".">>, d}
    BY <1>2 DEF UploadPlace
  <2>2. directory # <<>>
    <3> HIDE DEF directory
    <3>1. <<".">> # <<>>
      OBVIOUS
    <3> QED
      BY <2>1, <3>1
  <2> QED
    BY <2>2, EmptyDirectory
<1> QED
  BY <1>1, <1>2

\* An upload is refused for a NUL, or lands where it was asked for.
LEMMA UploadLands ==
    ASSUME NEW S, "/" \in S, NEW d \in Seq(S), d # <<>>, NEW fileLike \in BOOLEAN, NEW base \in Bases
    PROVE  CarriedOut(UploadTarget(d, fileLike, base), d)
<1>1. CASE Occurs("NUL", d)
  BY <1>1 DEF CarriedOut, UploadTarget
<1>2. CASE ~Occurs("NUL", d)
  <2>1. UploadTarget(d, fileLike, base) = UploadPlace(d, fileLike, base)
    BY <1>2 DEF UploadTarget
  <2> QED
    BY <1>2, <2>1, PlaceLands, PlaceGiven DEF CarriedOut
<1> QED
  BY <1>1, <1>2

-----------------------------------------------------------------------------
(* What is resolved                                                        *)

Token == STRING \cup {"/", "."}

\* Documents and environments are made of strings.
LEMMA ValuesTyped ==
    ASSUME Computed
    PROVE  /\ InputType(input)
           /\ \A path \in DOMAIN Doc.text : Doc.text[path] \in Seq(Token)
           /\ EnvOver(Usable(Env), Token)
<1>1. InputType(input)
  BY InputAssumption DEF Computed
<1>2. Seq(STRING) \subseteq Seq(Token)
  <2>1. STRING \subseteq Token
    BY DEF Token
  <2> QED
    BY <2>1, SeqMonotonic
<1>3. \A path \in DOMAIN Doc.text : Doc.text[path] \in Seq(Token)
  BY <1>1, <1>2 DEF InputType, Doc
<1>4. EnvOver(Usable(Env), Token)
  BY <1>1, <1>2 DEF InputType, Env, EnvOver, Usable
<1> QED
  BY <1>1, <1>3, <1>4

\* What is computed is what the documentation of expand says.
LEMMA ExpandedExactly ==
    ASSUME Computed
    PROVE  ExpansionExact
<1> SUFFICES ASSUME pc \notin {"start", "loaded"}, Parses(Doc), NEW path \in DOMAIN Doc.text
             PROVE  \E reading \in Readings(Doc.text[path]) :
                        /\ Cardinality(Readings(Doc.text[path])) = 1
                        /\ MissingIn(reading, Usable(Env)) # {} <=> path \in Unresolved(Doc, Env)
                        /\ path \in Unresolved(Doc, Env) => path \in errors
                        /\ pc = "resolved" /\ path[1] # "outputs" =>
                             text[path] = MeaningOf(reading, Usable(Env))
  BY DEF ExpansionExact
<1> DEFINE value == Doc.text[path]
           env == Usable(Env)
<1>1. value \in Seq(Token) /\ EnvOver(env, Token)
  BY ValuesTyped
<1>2. PICK reading \in Seq(Seq(Token)) :
         /\ Readings(value) = {reading}
         /\ Expand(value, env).out = MeaningOf(reading, env)
         /\ Expand(value, env).missing = MissingIn(reading, env)
  <2> HIDE DEF value, env
  <2> QED
    BY <1>1, ExpandIsMeaning
<1>3. Cardinality(Readings(value)) = 1
  BY <1>2, FS_Singleton
<1>4. path \in Unresolved(Doc, Env) <=> MissingIn(reading, env) # {}
  BY <1>2 DEF Unresolved
<1>5. errors = ResolveErrors(Doc, Env) /\ (pc = "resolved" => text = Resolved)
  BY DEF Computed
<1>6. path \in Unresolved(Doc, Env) => path \in errors
  BY <1>5 DEF ResolveErrors
<1>7. pc = "resolved" /\ path[1] # "outputs" => text[path] = MeaningOf(reading, env)
  BY <1>2, <1>5 DEF Resolved, ResolvedText
<1> QED
  BY <1>2, <1>3, <1>4, <1>6, <1>7

\* expand (env.go) takes from left to right what the comment above it
\* describes, for every string and every environment: a string can be read in
\* one way only, a reference that expands to nothing is an error of its field,
\* and the resolved field is what the reading means.
THEOREM ExpansionIsExact == FilesSpec => []ExpansionExact
  BY ExpandedExactly, InitComputed, NextComputed, PTL DEF FilesSpec

-----------------------------------------------------------------------------
(* The outputs of a document that Resolve lets pass                        *)

Lists == {"outputs", "payloads"}

\* Overrides and defaults leave the outputs and payloads alone.
LEMMA ListKept ==
    ASSUME NEW list \in Lists
    PROVE  /\ Indices(Wanted, list) = Indices(Doc.text, list)
           /\ \A i, part : /\ <<list, i, part>> \in DOMAIN Wanted <=> <<list, i, part>> \in DOMAIN Doc.text
                           /\ <<list, i, part>> \in DOMAIN Doc.text =>
                                Wanted[<<list, i, part>>] = Resolved[<<list, i, part>>]
<1>1. \A path : path[1] = list => path \notin Set
  BY DEF Set, Lists
<1>2. \A path : path[1] = list => (path \in DOMAIN Wanted <=> path \in DOMAIN Doc.text)
  BY <1>1, PathKept
<1>3. \A path : path[1] = list /\ path \in DOMAIN Doc.text => Wanted[path] = Resolved[path]
  BY <1>1, PathKept
<1>4. Indices(Wanted, list) = Indices(Doc.text, list)
  BY <1>2 DEF Indices
<1>5. \A i, part : <<list, i, part>>[1] = list
  OBVIOUS
<1> QED
  BY <1>2, <1>3, <1>4, <1>5

\* The string at a path once its references are expanded, before it is cleaned.
Expanded(path) == Expand(Doc.text[path], Usable(Env)).out

OutputPath(i, part) == <<"outputs", i, part>>

\* The expanded strings are strings.
LEMMA ExpandedTyped ==
    ASSUME Computed, NEW path \in DOMAIN Doc.text
    PROVE  Expanded(path) \in Seq(Token)
<1> DEFINE value == Doc.text[path]
           env == Usable(Env)
<1>1. value \in Seq(Token) /\ EnvOver(env, Token)
  BY ValuesTyped
<1> HIDE DEF value, env
<1>2. Expand(value, env) \in Scanned(Token)
  BY <1>1, ExpandTyped
<1> QED
  BY <1>2 DEF Scanned, Expanded, value, env

\* Both parts of an output are there and valid as they were expanded.
LEMMA OutputValid ==
    ASSUME ResolveErrors(Doc, Env) = {}, NEW i \in Indices(Doc.text, "outputs")
    PROVE  /\ OutputPath(i, "source") \in DOMAIN Doc.text
           /\ OutputPath(i, "destination") \in DOMAIN Doc.text
           /\ ValidOutputSource(Expanded(OutputPath(i, "source")))
           /\ ValidOutputDestination(Expanded(OutputPath(i, "destination")))
           /\ Resolved[OutputPath(i, "source")] = Clean(Expanded(OutputPath(i, "source")))
           /\ Resolved[OutputPath(i, "destination")] = Clean(Expanded(OutputPath(i, "destination")))
<1> DEFINE expanded == [p \in DOMAIN Doc.text |-> Expand(Doc.text[p], Usable(Env)).out]
<1>1. OutputErrors(expanded) = {}
  BY DEF ResolveErrors
<1>2. Indices(expanded, "outputs") = Indices(Doc.text, "outputs")
  BY DEF Indices
<1>3. \A p \in DOMAIN Doc.text : expanded[p] = Expanded(p)
  BY DEF Expanded
<1>4. DOMAIN expanded = DOMAIN Doc.text
  OBVIOUS
<1> HIDE DEF expanded
<1>5. /\ ValidOutputSource(At(expanded, OutputPath(i, "source")))
      /\ ValidOutputDestination(At(expanded, OutputPath(i, "destination")))
  BY <1>1, <1>2 DEF OutputErrors, OutputPath
<1>6. /\ OutputPath(i, "source") \in DOMAIN Doc.text
      /\ OutputPath(i, "destination") \in DOMAIN Doc.text
  BY <1>4, <1>5 DEF At, ValidOutputSource, ValidOutputDestination
<1>7. \A part : OutputPath(i, part)[1] = "outputs"
  BY DEF OutputPath
<1>8. \A part : OutputPath(i, part) \in DOMAIN Doc.text =>
         Resolved[OutputPath(i, part)] = Clean(Expanded(OutputPath(i, part)))
  BY <1>7 DEF Resolved, ResolvedText, Expanded
<1> QED
  BY <1>3, <1>4, <1>5, <1>6, <1>8 DEF At

\* The cleaned path is decided by its segments.
LEMMA SameSegmentsSameClean ==
    ASSUME NEW s, NEW t, ~IsAbsolute(s), ~IsAbsolute(t), PathSegments(s) = PathSegments(t)
    PROVE  Clean(s) = Clean(t)
BY DEF Clean

\* Two outputs that Resolve lets pass have different cleaned destinations.
LEMMA DestinationsDiffer ==
    ASSUME Computed, ResolveErrors(Doc, Env) = {},
           NEW i \in Indices(Doc.text, "outputs"), NEW j \in Indices(Doc.text, "outputs"), j < i
    PROVE  PathSegments(Resolved[OutputPath(j, "destination")])
             # PathSegments(Resolved[OutputPath(i, "destination")])
<1> DEFINE expanded == [p \in DOMAIN Doc.text |-> Expand(Doc.text[p], Usable(Env)).out]
           s == Expanded(OutputPath(j, "destination"))
           t == Expanded(OutputPath(i, "destination"))
<1>1. OutputErrors(expanded) = {}
  BY DEF ResolveErrors
<1>2. Indices(expanded, "outputs") = Indices(Doc.text, "outputs")
  BY DEF Indices
<1>3. At(expanded, <<"outputs", j, "destination">>) = s /\ At(expanded, <<"outputs", i, "destination">>) = t
  BY OutputValid DEF At, Expanded, OutputPath
<1>4. ValidOutputDestination(s) /\ ValidOutputDestination(t)
  BY OutputValid
<1>5. s \in Seq(Token) /\ t \in Seq(Token)
  BY OutputValid, ExpandedTyped
<1> HIDE DEF expanded, s, t
<1>6. Clean(s) # Clean(t)
  <2>1. i \notin DuplicateDestinations(expanded)
    BY <1>1 DEF OutputErrors
  <2> QED
    BY <1>2, <1>3, <1>4, <2>1 DEF DuplicateDestinations
<1>7. PathSegments(s) # PathSegments(t)
  BY <1>4, <1>6, SameSegmentsSameClean DEF ValidOutputDestination
<1>8. PathSegments(Clean(s)) = PathSegments(s) /\ PathSegments(Clean(t)) = PathSegments(t)
  <2>1. "/" \in Token /\ "." \in Token
    BY DEF Token
  <2> QED
    BY <1>5, <2>1, CleanKeeps
<1>9. /\ Resolved[OutputPath(j, "destination")] = Clean(s)
      /\ Resolved[OutputPath(i, "destination")] = Clean(t)
  BY OutputValid DEF s, t
<1> QED
  BY <1>7, <1>8, <1>9

\* What CollectOutputs asks for.
Asked == [i \in DOMAIN request.downloads |-> request.downloads[i].dst]

\* Run is asked for paths below the output directory, each of them once.
LEMMA AskedOnce ==
    ASSUME Computed, pc = "running"
    PROVE  Asked \in Seq(Paths) /\ Distinct(Asked)
<1> DEFINE outputs == Indices(Doc.text, "outputs")
           Landing(i) == PathSegments(Resolved[OutputPath(i, "destination")])
<1>1. /\ input \in Inputs /\ input.command = "apply" /\ ResolveErrors(Doc, Env) = {} /\ text = Wanted
      /\ request.downloads = Downloads(Doc, text)
  BY DEF Computed, Finished, Connecting
<1>2. Indices(text, "outputs") = outputs
  BY <1>1, ListKept DEF Lists
<1>3. \A i \in outputs : OutputPath(i, "destination") \in DOMAIN Doc.text
  BY <1>1, OutputValid
<1>4. \A i \in outputs : text[OutputPath(i, "destination")] = Resolved[OutputPath(i, "destination")]
  BY <1>1, <1>3, ListKept DEF Lists, OutputPath
<1>5. Asked = [i \in outputs |-> Landing(i)]
  BY <1>1, <1>2, <1>4 DEF Asked, Downloads, OutputPath
<1>6. \A i \in outputs : Landing(i) \in Paths
  <2>1. \A i \in outputs : At(Resolved, OutputPath(i, "destination")) = Resolved[OutputPath(i, "destination")]
    BY <1>3 DEF At, Resolved, ResolvedText
  <2>2. \A i \in outputs : PathSegments(At(Resolved, OutputPath(i, "destination"))) \in Paths
    BY <1>1, NamesAssumption DEF Resolved, Doc, Env, OutputPath
  <2> QED
    BY <2>1, <2>2
<1>7. IsFiniteSet(outputs) /\ outputs = 1 .. Cardinality(outputs)
  BY ValuesTyped DEF InputType, Numbered, Doc
<1>8. Cardinality(outputs) \in Nat
  BY <1>7, FS_CardinalityType
<1>9. \A i, j \in outputs : j < i => Landing(j) # Landing(i)
  BY <1>1, DestinationsDiffer
<1> HIDE DEF outputs, Landing
<1>10. Asked \in Seq(Paths)
  BY <1>5, <1>6, <1>7, <1>8
<1>11. \A i, j \in outputs : i # j => Landing(j) # Landing(i)
  <2> SUFFICES ASSUME NEW i \in outputs, NEW j \in outputs, i # j PROVE Landing(j) # Landing(i)
    OBVIOUS
  <2>1. i \in Nat /\ j \in Nat
    BY <1>7, <1>8
  <2>2. i < j \/ j < i
    BY <2>1
  <2> QED
    BY <1>9, <2>2
<1> QED
  BY <1>5, <1>10, <1>11 DEF Distinct

-----------------------------------------------------------------------------
(* The downloads of a command are those of OutputInstall                   *)

\* Every step of a command is one of OutputInstall, or unseen by it.
LEMMA StepInstalls ==
    ASSUME Computed, [FilesNext]_filesVars
    PROVE  [DistinctStart \/ InstallNext]_installVars
<1>1. CASE CollectOutputs
  <2>1. Asked \in Seq(Paths) /\ Distinct(Asked) /\ StartDownloads(Asked)
    BY <1>1, AskedOnce DEF CollectOutputs, Asked
  <2> QED
    BY <2>1 DEF DistinctStart
<1>2. CASE Collect
  BY <1>2 DEF Collect
<1>3. ASSUME UNCHANGED installVars PROVE [DistinctStart \/ InstallNext]_installVars
  BY <1>3
<1> QED
  BY <1>1, <1>2, <1>3
  DEF FilesNext, filesVars, installVars, Load, LoadFails, Resolve, ResolveFails, LoadWorkflow, RenderWorkflow,
      Connect, ConnectFails, RenderPlan, PreflightFails, BuildRunRequest, BuildFails, RunFails

\* Every behaviour of a command (the downloads of run.Run) is one of
\* OutputInstall with different destinations: Resolve (env.go 279-309) has
\* refused every document of which two outputs end at one path, however the
\* paths are written and whatever their references expand to.
THEOREM CommandInstalls == FilesSpec => DistinctSpec
<1>1. FilesInit => InstallInit
  BY DEF FilesInit
<1> QED
  BY <1>1, InitComputed, NextComputed, StepInstalls, PTL DEF FilesSpec, DistinctSpec

\* Nothing below the output directory is ever replaced by a command.
THEOREM CommandReplacesNothing == FilesSpec => NothingReplaced
<1>1. DistinctStart => \E requested \in Seq(Paths) : StartDownloads(requested)
  BY DEF DistinctStart
<1>2. [DistinctStart \/ InstallNext]_installVars => [Kept]_fs
  BY <1>1, StepKeeps DEF InstallStep, installVars
<1> QED
  BY <1>2, CommandInstalls, PTL DEF DistinctSpec, NothingReplaced, Kept

\* A command that reports an output has installed all of it, by itself.
THEOREM CommandInstallsWhole == FilesSpec => []InstalledWhole
  BY CommandInstalls, InstalledOutputsAreWhole, PTL

\* An output of a command fails for a taken destination only if somebody else
\* took it, or another output of the document lies above or below it.
THEOREM CommandCollisions == FilesSpec => []CollisionsExplained
  BY CommandInstalls, TakenDestinations, PTL

\* Whatever a command creates on the host lies at, below or on the way to the
\* destination of one of its own outputs, whatever trees the sandbox sends.
THEOREM CommandStaysInside == FilesSpec => [](\A p \in DOMAIN fs : Owned(p))
<1>1. CollisionInv => \A p \in DOMAIN fs : Owned(p)
  BY DEF CollisionInv, Provenance
<1> QED
  BY <1>1, CommandInstalls, InitCollisionInv, NextCollisionInv, PTL DEF DistinctSpec

-----------------------------------------------------------------------------
(* The request follows the document                                        *)

\* A string without a token.
LEMMA Without ==
    ASSUME NEW S, NEW s \in Seq(S), NEW token
    PROVE  s \in Seq(S \ {token}) <=> ~Occurs(token, s)
<1>1. Len(s) \in Nat /\ DOMAIN s = 1 .. Len(s) /\ \A i \in 1 .. Len(s) : s[i] \in S
  OBVIOUS
<1>2. ASSUME ~Occurs(token, s) PROVE s \in Seq(S \ {token})
  <2>1. \A i \in 1 .. Len(s) : s[i] \in S \ {token}
    BY <1>1, <1>2 DEF Occurs
  <2>2. s = [i \in 1 .. Len(s) |-> s[i]]
    BY <1>1
  <2> QED
    BY <1>1, <2>1, <2>2
<1>3. ASSUME s \in Seq(S \ {token}) PROVE ~Occurs(token, s)
  BY <1>1, <1>3 DEF Occurs
<1> QED
  BY <1>2, <1>3

\* What Resolve accepts as the source of an output, sandboxRelativePath accepts
\* when it is cleaned.
LEMMA CleanSourceDownloadable ==
    ASSUME NEW v \in Seq(Token), ValidOutputSource(v)
    PROVE  Downloadable(Clean(v))
<1> DEFINE S == Token \ {"NUL"}
<1>1. "/" \in S /\ "." \in S /\ S \subseteq Token
  BY DEF Token
<1>2. v \in Seq(S)
  BY Without DEF ValidOutputSource
<1>3. ~HasTraversal(v) /\ BelowSandbox(v)
  BY DEF ValidOutputSource
<1>4. Clean(v) \in Seq(S) /\ PathSegments(Clean(v)) = PathSegments(v) /\ (IsAbsolute(Clean(v)) <=> IsAbsolute(v))
  <2> HIDE DEF S
  <2> QED
    BY <1>1, <1>2, CleanKeeps
<1>5. ~Occurs("NUL", Clean(v))
  <2>1. Seq(S) \subseteq Seq(Token)
    <3> HIDE DEF S
    <3> QED
      BY <1>1, SeqMonotonic
  <2>2. Clean(v) \in Seq(Token)
    BY <1>4, <2>1
  <2> QED
    BY <1>4, <2>2, Without
<1>6. ~HasTraversal(Clean(v))
  <2> HIDE DEF S
  <2> QED
    BY <1>1, <1>2, <1>3, CleanHasNoTraversal
<1> QED
  BY <1>3, <1>4, <1>5, <1>6 DEF Downloadable, BelowSandbox

\* A valid destination is a path below the output directory, and not the
\* directory.
LEMMA CleanDestinationBelow ==
    ASSUME NEW v \in Seq(Token), ValidOutputDestination(v)
    PROVE  PathSegments(Clean(v)) # <<>> /\ ~Occurs(<<"..">>, PathSegments(Clean(v)))
<1>1. "/" \in Token /\ "." \in Token
  BY DEF Token
<1>2. PathSegments(Clean(v)) = PathSegments(v)
  BY <1>1, CleanKeeps
<1>3. PathSegments(v) # <<>>
  BY DEF ValidOutputDestination, Clean
<1>4. ~Occurs(<<"..">>, PathSegments(v))
  BY <1>1, NoTraversalInPath DEF ValidOutputDestination
<1> QED
  BY <1>2, <1>3, <1>4

\* The parts of outputs and payloads, which may be left out, are those that
\* were resolved.
LEMMA PartsKept ==
    ASSUME NEW list \in Lists, NEW i, NEW part
    PROVE  At(Wanted, <<list, i, part>>) = At(Resolved, <<list, i, part>>)
<1>1. <<list, i, part>> \in DOMAIN Resolved <=> <<list, i, part>> \in DOMAIN Doc.text
  BY DEF Resolved, ResolvedText
<1> QED
  BY <1>1, ListKept DEF At

\* A payload has a destination and one of source and content, as it was
\* expanded and so also when the request is built.
LEMMA PayloadValid ==
    ASSUME ResolveErrors(Doc, Env) = {}, NEW i \in Indices(Doc.text, "payloads")
    PROVE  LET Payload(part) == At(Wanted, <<"payloads", i, part>>)
           IN  /\ Payload("destination") # <<>>
               /\ (Payload("source") # <<>>) # (Payload("content") # <<>>)
<1> DEFINE expanded == [p \in DOMAIN Doc.text |-> Expand(Doc.text[p], Usable(Env)).out]
           Payload(part) == At(Wanted, <<"payloads", i, part>>)
<1>1. PayloadErrors(expanded) = {}
  BY DEF ResolveErrors
<1>2. Indices(expanded, "payloads") = Indices(Doc.text, "payloads")
  BY DEF Indices
<1>3. \A part : Payload(part) = At(expanded, <<"payloads", i, part>>)
  <2> SUFFICES ASSUME NEW part PROVE Payload(part) = At(expanded, <<"payloads", i, part>>)
    OBVIOUS
  <2>1. Payload(part) = At(Resolved, <<"payloads", i, part>>)
    BY PartsKept DEF Lists
  <2>2. <<"payloads", i, part>>[1] # "outputs"
    OBVIOUS
  <2> QED
    BY <2>1, <2>2 DEF At, Resolved, ResolvedText
<1> HIDE DEF expanded
<1>4. /\ At(expanded, <<"payloads", i, "destination">>) # <<>>
      /\ (At(expanded, <<"payloads", i, "source">>) # <<>>) # (At(expanded, <<"payloads", i, "content">>) # <<>>)
  BY <1>1, <1>2 DEF PayloadErrors
<1> QED
  BY <1>3, <1>4

\* The checks that buildRunRequest repeats after Resolve never fail.
LEMMA RefusedOnlyFor ==
    ASSUME Computed
    PROVE  refusals \subseteq {"image", "submodules", "outputDir"}
<1> SUFFICES ASSUME refusals # {} PROVE refusals \subseteq {"image", "submodules", "outputDir"}
  OBVIOUS
<1>1. ResolveErrors(Doc, Env) = {} /\ text = Wanted /\ refusals = Refusals(text, input.flags)
  BY DEF Computed
<1>2. "payloads" \notin refusals
  <2>1. Indices(text, "payloads") = Indices(Doc.text, "payloads")
    BY <1>1, ListKept DEF Lists
  <2>2. \A i \in Indices(text, "payloads") :
           /\ At(text, <<"payloads", i, "destination">>) # <<>>
           /\ (At(text, <<"payloads", i, "source">>) # <<>>) # (At(text, <<"payloads", i, "content">>) # <<>>)
    BY <1>1, <2>1, PayloadValid
  <2> QED
    BY <1>1, <2>2 DEF Refusals
<1>3. "escape" \notin refusals
  <2>1. Indices(text, "outputs") = Indices(Doc.text, "outputs")
    BY <1>1, ListKept DEF Lists
  <2>2. ASSUME NEW i \in Indices(text, "outputs")
        PROVE  ~Occurs(<<"..">>, PathSegments(At(text, <<"outputs", i, "destination">>)))
    <3> DEFINE v == Expanded(OutputPath(i, "destination"))
    <3>1. /\ OutputPath(i, "destination") \in DOMAIN Doc.text
          /\ ValidOutputDestination(v)
          /\ Resolved[OutputPath(i, "destination")] = Clean(v)
      BY <1>1, <2>1, <2>2, OutputValid
    <3>2. v \in Seq(Token)
      BY <3>1, ExpandedTyped
    <3> HIDE DEF v
    <3>3. At(text, <<"outputs", i, "destination">>) = Clean(v)
      BY <1>1, <3>1, PartsKept DEF At, Lists, OutputPath, Resolved, ResolvedText
    <3> QED
      BY <3>1, <3>2, <3>3, CleanDestinationBelow
  <2> QED
    BY <1>1, <2>2 DEF Refusals
<1>4. refusals \subseteq {"image", "submodules", "payloads", "outputDir", "escape"}
  BY <1>1 DEF Refusals
<1> QED
  BY <1>2, <1>3, <1>4

\* The client's check of a source passes after that of Resolve.
LEMMA DownloadsAccepted ==
    ASSUME Computed, pc = "running", NEW i \in DOMAIN request.downloads
    PROVE  Downloadable(request.downloads[i].src) /\ request.downloads[i].dst # <<>>
<1> DEFINE source == Expanded(OutputPath(i, "source"))
           destination == Expanded(OutputPath(i, "destination"))
<1>1. ResolveErrors(Doc, Env) = {} /\ text = Wanted /\ request.downloads = Downloads(Doc, text)
  BY DEF Computed, Finished, Connecting
<1>2. i \in Indices(Doc.text, "outputs") /\ i \in Indices(text, "outputs")
  BY <1>1, ListKept DEF Downloads, Lists
<1>3. /\ OutputPath(i, "source") \in DOMAIN Doc.text /\ OutputPath(i, "destination") \in DOMAIN Doc.text
      /\ ValidOutputSource(source) /\ ValidOutputDestination(destination)
      /\ Resolved[OutputPath(i, "source")] = Clean(source)
      /\ Resolved[OutputPath(i, "destination")] = Clean(destination)
  BY <1>1, <1>2, OutputValid
<1>4. source \in Seq(Token) /\ destination \in Seq(Token)
  BY <1>3, ExpandedTyped
<1> HIDE DEF source, destination
<1>5. text[OutputPath(i, "source")] = Clean(source) /\ text[OutputPath(i, "destination")] = Clean(destination)
  BY <1>1, <1>3, ListKept DEF Lists, OutputPath
<1>6. /\ request.downloads[i].src = Clean(source)
      /\ request.downloads[i].dst = PathSegments(Clean(destination))
  BY <1>1, <1>2, <1>5 DEF Downloads, OutputPath
<1> QED
  BY <1>3, <1>4, <1>6, CleanSourceDownloadable, CleanDestinationBelow

\* A payload is refused for a NUL, or lands at its destination.
LEMMA PayloadLands ==
    ASSUME NEW t, NEW i, At(t, <<"payloads", i, "destination">>) \in Seq(Token),
           At(t, <<"payloads", i, "destination">>) # <<>>, NEW sourceIsFile \in BOOLEAN
    PROVE  CarriedOut(PayloadUpload(t, i, sourceIsFile), At(t, <<"payloads", i, "destination">>))
<1> DEFINE d == At(t, <<"payloads", i, "destination">>)
<1>1. "/" \in Token
  BY DEF Token
<1>2. <<"source-base">> \in Bases /\ <<"payload-file">> \in Bases
  BY DEF Bases
<1>3. \/ PayloadUpload(t, i, sourceIsFile) = UploadTarget(d, sourceIsFile, <<"source-base">>)
      \/ PayloadUpload(t, i, sourceIsFile) = UploadTarget(d, TRUE, <<"payload-file">>)
  BY DEF PayloadUpload
<1> HIDE DEF d
<1>4. /\ CarriedOut(UploadTarget(d, sourceIsFile, <<"source-base">>), d)
      /\ CarriedOut(UploadTarget(d, TRUE, <<"payload-file">>), d)
  BY <1>1, <1>2, UploadLands DEF d
<1> QED
  BY <1>3, <1>4 DEF d

\* The payloads are the last of the uploads.
LEMMA PayloadsLast ==
    ASSUME NEW t, NEW sourceIsFile, NEW c \in Nat, Indices(t, "payloads") = 1 .. c, NEW i \in 1 .. c
    PROVE  Uploads(t, sourceIsFile)[Len(Uploads(t, sourceIsFile)) - c + i] = PayloadUpload(t, i, sourceIsFile)
<1> DEFINE a == IF At(t, <<"source", "repo">>) = <<>> THEN <<>> ELSE <<SourceUpload(t)>>
           b == [k \in 1 .. c |-> PayloadUpload(t, k, sourceIsFile)]
           X == {SourceUpload(t)} \cup {PayloadUpload(t, k, sourceIsFile) : k \in 1 .. c}
<1>1. Uploads(t, sourceIsFile) = a \o b
  BY DEF Uploads
<1>2. b[i] = PayloadUpload(t, i, sourceIsFile)
  OBVIOUS
<1>3. a \in Seq(X) /\ b \in Seq(X) /\ Len(b) = c
  <2>1. <<>> \in Seq(X) /\ <<SourceUpload(t)>> \in Seq(X)
    OBVIOUS
  <2>2. \A k \in 1 .. c : PayloadUpload(t, k, sourceIsFile) \in X
    OBVIOUS
  <2> HIDE DEF X
  <2> QED
    BY <2>1, <2>2
<1> HIDE DEF a, b, X
<1>4. Len(a \o b) = Len(a) + Len(b) /\ Len(a) \in Nat
  <2>1. Len(a) \in Nat
    BY <1>3
  <2>2. Len(a \o b) = Len(a) + Len(b)
    BY <1>3
  <2> QED
    BY <2>1, <2>2
<1>5. (a \o b)[Len(a) + i] = b[i]
  <2>1. Len(a) + i \in 1 .. Len(a) + Len(b) /\ Len(a) + i > Len(a) /\ Len(a) + i - Len(a) = i
    BY <1>3, <1>4
  <2> QED
    BY <1>3, <2>1, ConcatProperties
<1>6. Len(a \o b) - c + i = Len(a) + i
  BY <1>3, <1>4
<1> QED
  BY <1>1, <1>2, <1>5, <1>6

\* So are the payloads of the request.
LEMMA UploadsLand ==
    ASSUME Computed, pc = "running", NEW i \in Indices(text, "payloads")
    PROVE  CarriedOut(request.uploads[Len(request.uploads) - Cardinality(Indices(text, "payloads")) + i],
                      text[<<"payloads", i, "destination">>])
<1> DEFINE c == Cardinality(Indices(text, "payloads"))
           path == <<"payloads", i, "destination">>
<1>1. ResolveErrors(Doc, Env) = {} /\ text = Wanted
  BY DEF Computed, Finished, Connecting
<1>2. PICK sourceIsFile \in BOOLEAN : request.uploads = Uploads(text, sourceIsFile)
  BY DEF Computed
<1>3. Indices(text, "payloads") = Indices(Doc.text, "payloads")
  BY <1>1, ListKept DEF Lists
<1>4. Indices(text, "payloads") = 1 .. c /\ IsFiniteSet(Indices(text, "payloads"))
  BY <1>3, ValuesTyped DEF InputType, Numbered, Doc
<1>5. c \in Nat
  BY <1>4, FS_CardinalityType
<1>6. At(text, path) # <<>>
  BY <1>1, <1>3, PayloadValid
<1>7. path \in DOMAIN text /\ At(text, path) = text[path]
  BY <1>6 DEF At
<1>8. text[path] \in Seq(Token)
  <2>1. path \in DOMAIN Doc.text /\ text[path] = Resolved[path]
    BY <1>1, <1>7, ListKept DEF Lists
  <2>2. path[1] # "outputs"
    OBVIOUS
  <2>3. Resolved[path] = Expanded(path)
    BY <2>1, <2>2 DEF Resolved, ResolvedText, Expanded
  <2> QED
    BY <2>1, <2>3, ExpandedTyped
<1>9. CarriedOut(PayloadUpload(text, i, sourceIsFile), text[path])
  BY <1>6, <1>7, <1>8, PayloadLands
<1> HIDE DEF c, path
<1>10. Uploads(text, sourceIsFile)[Len(Uploads(text, sourceIsFile)) - c + i] = PayloadUpload(text, i, sourceIsFile)
  BY <1>4, <1>5, PayloadsLast
<1> QED
  BY <1>2, <1>9, <1>10 DEF c, path

\* And so is the repository, the first of them.
LEMMA SourceLands ==
    ASSUME Computed, pc = "running", At(text, <<"source", "repo">>) # <<>>
    PROVE  CarriedOut(request.uploads[1], SourceDestination(text))
<1> DEFINE d == SourceDestination(text)
           path == <<"source", "destination">>
           T == Token \cup {"sandbox"}
<1>1. ResolveErrors(Doc, Env) = {} /\ text = Wanted
  BY DEF Computed, Finished, Connecting
<1>2. PICK sourceIsFile \in BOOLEAN : request.uploads = Uploads(text, sourceIsFile)
  BY DEF Computed
<1>3. d \in Seq(T) /\ d # <<>>
  <2>1. CASE At(text, path) = <<>>
    <3>1. d = <<"/", "sandbox">>
      BY <2>1 DEF SourceDestination
    <3>2. "/" \in T /\ "sandbox" \in T
      BY DEF Token
    <3> QED
      BY <3>1, <3>2
  <2>2. CASE At(text, path) # <<>>
    <3>1. path \in DOMAIN text /\ d = text[path] /\ d # <<>>
      BY <2>2 DEF At, SourceDestination
    <3>2. path \notin Set
      BY DEF Set
    <3>3. path \in DOMAIN Doc.text /\ text[path] = Resolved[path]
      BY <1>1, <3>1, <3>2, PathKept
    <3>4. path[1] # "outputs"
      OBVIOUS
    <3>5. Resolved[path] = Expanded(path)
      BY <3>3, <3>4 DEF Resolved, ResolvedText, Expanded
    <3>6. d \in Seq(Token)
      BY <3>1, <3>3, <3>5, ExpandedTyped
    <3> HIDE DEF d
    <3> QED
      BY <3>1, <3>6
  <2> QED
    BY <2>1, <2>2
<1>4. CarriedOut(SourceUpload(text), d)
  <2>1. "/" \in T /\ <<"repository">> \in Bases
    BY DEF Token, Bases
  <2> HIDE DEF d, T
  <2>2. CarriedOut(UploadTarget(d, FALSE, <<"repository">>), d)
    BY <1>3, <2>1, UploadLands
  <2> QED
    BY <2>2 DEF SourceUpload, d
<1>5. request.uploads[1] = SourceUpload(text)
  <2> DEFINE c == Cardinality(Indices(text, "payloads"))
             b == [i \in 1 .. c |-> PayloadUpload(text, i, sourceIsFile)]
             X == {SourceUpload(text)} \cup {PayloadUpload(text, i, sourceIsFile) : i \in 1 .. c}
  <2>1. Indices(text, "payloads") = 1 .. c /\ c \in Nat
    <3>1. Indices(text, "payloads") = Indices(Doc.text, "payloads")
      BY <1>1, ListKept DEF Lists
    <3>2. Numbered(Doc.text, "payloads")
      BY ValuesTyped DEF InputType, Doc
    <3> QED
      BY <3>1, <3>2, FS_CardinalityType DEF Numbered
  <2>2. request.uploads = <<SourceUpload(text)>> \o b
    BY <1>2, <2>1 DEF Uploads
  <2> HIDE DEF c
  <2>3. b \in Seq(X) /\ <<SourceUpload(text)>> \in Seq(X)
    <3>1. SourceUpload(text) \in X /\ \A i \in 1 .. c : PayloadUpload(text, i, sourceIsFile) \in X
      OBVIOUS
    <3> HIDE DEF X
    <3> QED
      BY <2>1, <3>1
  <2> HIDE DEF b, X
  <2> QED
    BY <2>2, <2>3, ConcatProperties
<1> QED
  BY <1>4, <1>5

\* The four parts of the property.
LEMMA ComputedFollows == ASSUME Computed PROVE RequestFollowsDocument
BY RefusedOnlyFor, DownloadsAccepted, UploadsLand, SourceLands DEF RequestFollowsDocument

\* A document that Resolve (env.go) lets pass can be carried out but for a NUL,
\* for all its strings and every environment: buildRunRequest refuses it for its
\* image, its submodules or a missing output directory only, the client's own
\* check accepts every source when the agent has run, no output is the output
\* directory itself, and uploadTarget (upload.go 60-84) refuses the repository
\* or a payload exactly when there is a NUL in its destination: every other one
\* lands where it was asked for.
THEOREM ResolvedIsCarriedOut == FilesSpec => []RequestFollowsDocument
  BY ComputedFollows, InitComputed, NextComputed, PTL DEF FilesSpec

-----------------------------------------------------------------------------
(* What is shown of a document                                             *)

\* A string over the tokens that occur in it.
LEMMA RangeTyped ==
    ASSUME NEW S, NEW s \in Seq(S), NEW R, Range(s) \subseteq R
    PROVE  s \in Seq(R)
<1>1. Len(s) \in Nat /\ DOMAIN s = 1 .. Len(s) /\ s = [i \in 1 .. Len(s) |-> s[i]]
  OBVIOUS
<1>2. \A i \in 1 .. Len(s) : s[i] \in R
  BY <1>1 DEF Range
<1> QED
  BY <1>1, <1>2

\* The strings that are shown without having been referred to are written.
LEMMA WrittenStrings ==
    ASSUME Computed
    PROVE  /\ \A path \in DOMAIN Doc.text : Doc.text[path] \in Seq(Written)
           /\ \A flag \in {"gateway", "workspace", "name", "agent"} : input.flags[flag] \in Seq(Written)
           /\ \A name \in Settings : Value(Env, name) \in Seq(Written)
           /\ DefaultImage \in Seq(Written)
           /\ Marker \in Seq(Written) /\ <<>> \in Seq(Written)
<1>1. InputType(input)
  BY ValuesTyped
<1>2. ASSUME NEW path \in DOMAIN Doc.text PROVE Doc.text[path] \in Seq(Written)
  <2>1. Doc.text[path] \in Seq(STRING)
    BY <1>1 DEF InputType, Doc
  <2>2. Range(Doc.text[path]) \subseteq Written
    BY DEF Written
  <2> QED
    BY <2>1, <2>2, RangeTyped
<1>3. ASSUME NEW flag \in {"gateway", "workspace", "name", "agent"} PROVE input.flags[flag] \in Seq(Written)
  <2>1. input.flags[flag] \in Seq(STRING)
    BY <1>1 DEF InputType
  <2>2. Range(input.flags[flag]) \subseteq Written
    BY DEF Written
  <2> QED
    BY <2>1, <2>2, RangeTyped
<1>4. ASSUME NEW name \in Settings PROVE Value(Env, name) \in Seq(Written)
  <2>1. EnvOver(Env, STRING)
    BY <1>1 DEF InputType, Env, EnvOver
  <2>2. Value(Env, name) \in Seq(STRING)
    BY <2>1, ValueTyped
  <2>3. Range(Value(Env, name)) \subseteq Written
    BY DEF Written
  <2> QED
    BY <2>2, <2>3, RangeTyped
<1>5. DefaultImage \in Seq(Written)
  <2>1. DefaultImage \in Seq({"ghcr.io", "/", "base"})
    BY DEF DefaultImage
  <2>2. Range(DefaultImage) \subseteq Written
    BY DEF Written
  <2> QED
    BY <2>1, <2>2, RangeTyped
<1>6. Marker \in Seq(Written) /\ <<>> \in Seq(Written)
  <2>1. MarkTokens \subseteq Written
    BY DEF Written
  <2> HIDE DEF Written
  <2> QED
    BY <2>1, MarkerTyped
<1> QED
  BY <1>2, <1>3, <1>4, <1>5, <1>6

\* What has no dollar sign in the document has no interpolated token when it
\* is resolved.
LEMMA LiteralResolved ==
    ASSUME Computed, NEW path, ~Occurs("$", At(Doc.text, path))
    PROVE  At(Resolved, path) \in Seq(Written)
<1>1. CASE path \notin DOMAIN Doc.text
  BY <1>1, WrittenStrings DEF At, Resolved, ResolvedText
<1>2. CASE path \in DOMAIN Doc.text
  <2> DEFINE value == Doc.text[path]
             env == Usable(Env)
             out == Expand(value, env).out
  <2>1. value \in Seq(Token) /\ EnvOver(env, Token) /\ value \in Seq(Written) /\ ~Occurs("$", value)
    BY <1>2, ValuesTyped, WrittenStrings DEF At
  <2>2. At(Resolved, path) = IF path[1] = "outputs" THEN Clean(out) ELSE out
    BY <1>2 DEF At, Resolved, ResolvedText
  <2> HIDE DEF value, env, out
  <2>3. out \in Seq(Written)
    BY <2>1, LiteralExpands DEF out
  <2>4. Clean(out) \in Seq(Written)
    <3>1. "/" \in Written /\ "." \in Written
      BY DEF Written
    <3> QED
      BY <2>3, <3>1, CleanKeeps
  <2> QED
    BY <2>2, <2>3, <2>4
<1> QED
  BY <1>1, <1>2

\* resolveField chooses one of its values.
LEMMA FieldTyped ==
    ASSUME NEW S, NEW a \in Seq(S), NEW b \in Seq(S), NEW c \in Seq(S)
    PROVE  ResolveField(a, b, c) \in Seq(S)
BY DEF ResolveField

\* The overrides and defaults bring only written tokens with them.
LEMMA WantedTyped ==
    ASSUME Computed, NEW R, Written \subseteq R, NEW path \in DOMAIN Wanted, At(Resolved, path) \in Seq(R)
    PROVE  Wanted[path] \in Seq(R)
<1> DEFINE overridden == Overridden(Resolved, WantedTarget, input.flags)
           value == At(Resolved, path)
           W == Seq(R)
           image == <<"sandbox", "image">>
<1>1. value \in W
  OBVIOUS
<1>2. /\ \A flag \in {"gateway", "workspace", "name", "agent"} : input.flags[flag] \in W
      /\ \A name \in Settings : Value(Env, name) \in W
      /\ DefaultImage \in W
  <2>1. Seq(Written) \subseteq W
    BY SeqMonotonic
  <2> QED
    BY <2>1, WrittenStrings
<1>3. ASSUME path \in DOMAIN overridden PROVE overridden[path] \in W
  <2>1. /\ input.flags.gateway \in W /\ input.flags.workspace \in W /\ input.flags.name \in W
        /\ input.flags.agent \in W
    BY <1>2
  <2>2. Value(Env, <<"OPENSHELL_GATEWAY">>) \in W /\ Value(Env, <<"OPENSHELL_WORKSPACE">>) \in W
    BY <1>2 DEF Settings
  <2> HIDE DEF W
  <2>3. CASE path = <<"target", "gateway">>
    <3>1. overridden[path] = ResolveField(input.flags.gateway, Value(Env, <<"OPENSHELL_GATEWAY">>), value)
      BY <1>3, <2>3 DEF Overridden, WantedTarget, WorkflowTarget
    <3> HIDE DEF overridden, value
    <3> QED
      BY <1>1, <2>1, <2>2, <3>1, FieldTyped DEF W
  <2>4. CASE path = <<"target", "workspace">>
    <3>1. overridden[path] = ResolveField(input.flags.workspace, Value(Env, <<"OPENSHELL_WORKSPACE">>), value)
      BY <1>3, <2>4 DEF Overridden, WantedTarget, WorkflowTarget
    <3> HIDE DEF overridden, value
    <3> QED
      BY <1>1, <2>1, <2>2, <3>1, FieldTyped DEF W
  <2>5. CASE path = <<"name">>
    <3>1. overridden[path] = IF input.flags.name # <<>> THEN input.flags.name ELSE value
      BY <1>3, <2>5 DEF Overridden
    <3> QED
      BY <1>1, <2>1, <3>1
  <2>6. CASE path = <<"agent", "type">>
    <3>1. overridden[path] = IF input.flags.agent # <<>> THEN input.flags.agent ELSE value
      BY <1>3, <2>6 DEF Overridden
    <3> QED
      BY <1>1, <2>1, <3>1
  <2>7. CASE path \notin {<<"target", "gateway">>, <<"target", "workspace">>, <<"name">>, <<"agent", "type">>}
    <3>1. overridden[path] = value
      BY <1>3, <2>7 DEF Overridden, At
    <3> QED
      BY <1>1, <3>1
  <2> QED
    BY <2>3, <2>4, <2>5, <2>6, <2>7
<1>4. ASSUME path = image
      PROVE  ResolveField(Value(Env, <<"HARNESS_OS_IMAGE">>), value, DefaultImage) \in W
  <2>1. Value(Env, <<"HARNESS_OS_IMAGE">>) \in W
    BY <1>2 DEF Settings
  <2> HIDE DEF value
  <2> QED
    BY <1>1, <1>2, <2>1, FieldTyped
<1> HIDE DEF overridden, W
<1>5. Wanted = IF RunConfigured(Doc, overridden)
               THEN [p \in DOMAIN overridden \cup {image} |->
                       IF p = image
                       THEN ResolveField(Value(Env, <<"HARNESS_OS_IMAGE">>), At(Resolved, image), DefaultImage)
                       ELSE overridden[p]]
               ELSE overridden
  BY DEF Wanted, Desired, overridden
<1>6. \/ path \in DOMAIN overridden /\ Wanted[path] = overridden[path]
      \/ /\ path = image
         /\ Wanted[path] = ResolveField(Value(Env, <<"HARNESS_OS_IMAGE">>), value, DefaultImage)
  BY <1>5
<1> QED
  BY <1>3, <1>4, <1>6 DEF W

\* So a string without a dollar sign in the document has no interpolated token.
LEMMA LiteralWanted ==
    ASSUME Computed, NEW path \in DOMAIN Wanted, ~Occurs("$", At(Doc.text, path))
    PROVE  Wanted[path] \in Seq(Written)
  BY LiteralResolved, WantedTyped

\* All that redactedWorkflow lets through was written by somebody.
LEMMA ShownIsWritten ==
    ASSUME Computed, input.command = "show", NEW s \in shown
    PROVE  s \in Seq(Written)
<1>1. text = Wanted /\ shown = RedactedWorkflow(text, Doc.text)
  BY DEF Computed, Finished
<1>2. PICK path \in DOMAIN Wanted :
         s = IF path[1] = "env" \/ Occurs("$", At(Doc.text, path)) THEN Marker ELSE Wanted[path]
  BY <1>1 DEF RedactedWorkflow
<1> QED
  BY <1>2, LiteralWanted, WrittenStrings

\* redactedWorkflow (workflow_apply.go) for every document and environment: a
\* string that is shown was written by the author, the caller or the program,
\* because only strings without a dollar sign are shown and expand leaves
\* those alone, and the flags and settings that replace them are not
\* interpolated.
THEOREM DocumentShowsLiterals == FilesSpec => []DocumentShowsNoInterpolation
<1>1. Computed => DocumentShowsNoInterpolation
  <2> SUFFICES ASSUME Computed, input.command = "show", NEW s \in shown, NEW token \in Interpolated
               PROVE  ~Occurs(token, s)
    BY DEF DocumentShowsNoInterpolation, ShowsNone
  <2>1. s \in Seq(Written)
    BY ShownIsWritten
  <2>2. token \notin Written
    BY DEF Interpolated
  <2> HIDE DEF Written
  <2> QED
    BY <2>1, <2>2 DEF Occurs
<1> QED
  BY <1>1, InitComputed, NextComputed, PTL DEF FilesSpec

-----------------------------------------------------------------------------
(* What is shown of a plan                                                 *)

\* All tokens, and those that interpolation need not have brought.
AllTokens == Token \cup Written
Clear == AllTokens \ Interpolated

\* What redactedPlan replaces.
Concealed == InterpolatedValues(Wanted, Doc.text)

Hides(s) == s \in Hidden(AllTokens, Concealed, Clear)

\* Written tokens are clear.
LEMMA WrittenClear ==
    /\ MarkTokens \subseteq Clear /\ Clear \in SUBSET AllTokens /\ Seq(Written) \subseteq Seq(Clear)
    /\ \A token \in Written : token \in Clear
<1>1. MarkTokens \subseteq Written
  BY DEF Written
<1>2. Written \subseteq Clear
  BY DEF Clear, AllTokens, Interpolated
<1> HIDE DEF Written
<1>3. Clear \in SUBSET AllTokens
  BY DEF Clear
<1> HIDE DEF Clear
<1>4. Seq(Written) \subseteq Seq(Clear)
  BY <1>2, SeqMonotonic
<1> QED
  BY <1>1, <1>2, <1>3, <1>4

\* The strings that are planned with are made of tokens.
LEMMA WantedOverTokens ==
    ASSUME Computed, NEW path \in DOMAIN Wanted
    PROVE  Wanted[path] \in Seq(AllTokens)
<1>1. Token \subseteq AllTokens /\ Written \subseteq AllTokens
  BY DEF AllTokens
<1>2. At(Resolved, path) \in Seq(Token)
  <2>1. CASE path \notin DOMAIN Doc.text
    <3>1. At(Resolved, path) = <<>> /\ <<>> \in Seq(Token)
      BY <2>1 DEF At, Resolved, ResolvedText
    <3> QED
      BY <3>1
  <2>2. CASE path \in DOMAIN Doc.text
    <3> DEFINE out == Expanded(path)
    <3>1. out \in Seq(Token)
      BY <2>2, ExpandedTyped
    <3>2. At(Resolved, path) = IF path[1] = "outputs" THEN Clean(out) ELSE out
      BY <2>2 DEF At, Resolved, ResolvedText, Expanded
    <3> HIDE DEF out
    <3>3. Clean(out) \in Seq(Token)
      <4>1. "/" \in Token /\ "." \in Token
        BY DEF Token
      <4> QED
        BY <3>1, <4>1, CleanKeeps
    <3> QED
      BY <3>1, <3>2, <3>3
  <2> QED
    BY <2>1, <2>2
<1>3. Seq(Token) \subseteq Seq(AllTokens)
  BY <1>1, SeqMonotonic
<1> HIDE DEF AllTokens
<1> QED
  BY <1>1, <1>2, <1>3, WantedTyped

\* The interpolated values are finitely many nonempty strings.
LEMMA ConcealedValues == ASSUME Computed PROVE Values(Concealed, AllTokens)
<1> DEFINE D == DOMAIN Wanted
           P == {q \in D : q[1] \notin {"registration", "oidc"} /\ Occurs("$", At(Doc.text, q)) /\ Wanted[q] # <<>>}
<1>1. Concealed = {Wanted[q] : q \in P}
  BY DEF Concealed, InterpolatedValues
<1>2. IsFiniteSet(DOMAIN Doc.text)
  BY ValuesTyped DEF InputType, Doc
<1>3. IsFiniteSet(Set)
  <2>1. Set = ((((({} \cup {<<"target", "gateway">>}) \cup {<<"target", "workspace">>}) \cup {<<"name">>})
                 \cup {<<"agent", "type">>}) \cup {<<"sandbox", "image">>})
    BY DEF Set
  <2> QED
    BY <2>1, FS_EmptySet, FS_AddElement
<1>4. D \subseteq DOMAIN Doc.text \cup Set
  BY PathKept
<1>5. IsFiniteSet(DOMAIN Doc.text \cup Set)
  BY <1>2, <1>3, FS_Union
<1>6. IsFiniteSet(P)
  <2>1. P \in SUBSET (DOMAIN Doc.text \cup Set)
    BY <1>4
  <2> HIDE DEF P
  <2> QED
    BY <1>5, <2>1, FS_Subset
<1>7. IsFiniteSet(Concealed)
  <2> DEFINE f == [q \in P |-> Wanted[q]]
  <2>1. f \in Surjection(P, Concealed)
    BY <1>1 DEF Surjection
  <2> HIDE DEF f, P
  <2> QED
    BY <1>6, <2>1, FS_Surjection DEF ExistsSurjection
<1>8. Concealed \in SUBSET Secrets(AllTokens)
  BY <1>1, WantedOverTokens DEF Secrets
<1> QED
  BY <1>7, <1>8 DEF Values

\* What is written is hidden as it stands.
LEMMA WrittenHides == ASSUME Computed, NEW s \in Seq(Written) PROVE Hides(s)
<1>1. s \in Seq(Clear)
  BY WrittenClear
<1> QED
  BY <1>1, WrittenClear, ConcealedValues, HiddenWritten DEF Hides

\* A string of the document that interpolation has changed is one of the
\* values, and any other is written.
LEMMA FieldHides ==
    ASSUME Computed, NEW path, path[1] \notin {"registration", "oidc"}
    PROVE  Hides(At(Wanted, path))
<1>1. CASE path \notin DOMAIN Wanted \/ At(Wanted, path) = <<>>
  <2>1. At(Wanted, path) = <<>> /\ <<>> \in Seq(Written)
    BY <1>1, WrittenStrings DEF At
  <2> QED
    BY <2>1, WrittenHides
<1>2. CASE path \in DOMAIN Wanted /\ ~Occurs("$", At(Doc.text, path))
  <2>1. At(Wanted, path) \in Seq(Written)
    BY <1>2, LiteralWanted DEF At
  <2> QED
    BY <2>1, WrittenHides
<1>3. CASE path \in DOMAIN Wanted /\ Occurs("$", At(Doc.text, path)) /\ At(Wanted, path) # <<>>
  <2>1. At(Wanted, path) \in Concealed
    BY <1>3 DEF At, Concealed, InterpolatedValues
  <2> QED
    BY <2>1, WrittenClear, ConcealedValues, HiddenValue DEF Hides
<1> QED
  BY <1>1, <1>2, <1>3

\* A set of strings with everything that is written and every field of the
\* document that a plan may show.
HasFields(H) ==
    /\ H \in SUBSET Seq(AllTokens)
    /\ Seq(Written) \subseteq H
    /\ \A path : path[1] \notin {"registration", "oidc"} => At(Wanted, path) \in H

\* Strings of the set stay in it when they are joined by one of the edges.
Closed(H, edges) == \A edge \in edges : \A p, q \in H : p \o <<edge>> \o q \in H

\* What stands next to the fields is written.
LEMMA EdgesWritten ==
    /\ \A edge \in {Space, Comma, Semicolon, "/"} : edge \in Written /\ edge \in AllTokens
    /\ \A word \in PlanWords : word \in Written /\ word \in AllTokens
    /\ "gateway" \in PlanWords /\ "v" \in PlanWords /\ "gateway not inspected" \in PlanWords
    /\ "sandbox providers:" \in PlanWords /\ "args:" \in PlanWords /\ "host output:" \in PlanWords
    /\ "config only" \in PlanWords
<1>1. \A edge \in {Space, Comma, Semicolon, "/"} : edge \in Written
  BY DEF Written
<1>2. PlanWords \subseteq Written
  BY DEF Written
<1>3. /\ "gateway" \in PlanWords /\ "v" \in PlanWords /\ "gateway not inspected" \in PlanWords
      /\ "sandbox providers:" \in PlanWords /\ "args:" \in PlanWords /\ "host output:" \in PlanWords
      /\ "config only" \in PlanWords
  BY DEF PlanWords
<1> QED
  BY <1>1, <1>2, <1>3 DEF AllTokens

\* Strings of one, two and three tokens, and three strings.
LEMMA ShortStrings ==
    ASSUME NEW S, NEW t \in S, NEW u \in S
    PROVE  <<t>> \in Seq(S) /\ <<t, u>> \in Seq(S) /\ <<>> \in Seq(S) /\ <<t>> \o <<u>> = <<t, u>>
<1>1. <<t>> \in Seq(S) /\ <<t, u>> \in Seq(S) /\ <<>> \in Seq(S)
  OBVIOUS
<1>2. <<t>> \o <<u>> = <<t, u>>
  <2> DEFINE x == <<t>>
             y == <<u>>
             z == <<t, u>>
  <2>1. /\ x \in Seq(S) /\ y \in Seq(S) /\ z \in Seq(S) /\ Len(x) = 1 /\ Len(y) = 1 /\ Len(z) = 2
        /\ x[1] = t /\ y[1] = u /\ z[1] = t /\ z[2] = u
    OBVIOUS
  <2> HIDE DEF x, y, z
  <2>2. x \o y \in Seq(S) /\ Len(x \o y) = 2 /\ (x \o y)[1] = t /\ (x \o y)[2] = u
    BY <2>1, ConcatProperties
  <2>3. \A i \in 1 .. 2 : (x \o y)[i] = z[i]
    BY <2>1, <2>2
  <2>4. x \o y = z
    BY <2>1, <2>2, <2>3, SeqEqual
  <2> QED
    BY <2>4 DEF x, y, z
<1> QED
  BY <1>1, <1>2

LEMMA ThreeTokens ==
    ASSUME NEW S, NEW a \in S, NEW b \in S, NEW c \in S
    PROVE  <<a>> \o <<b, c>> = <<a, b, c>>
<1> DEFINE x == <<a>>
           y == <<b, c>>
           z == <<a, b, c>>
<1>1. /\ x \in Seq(S) /\ y \in Seq(S) /\ z \in Seq(S) /\ Len(x) = 1 /\ Len(y) = 2 /\ Len(z) = 3
      /\ x[1] = a /\ y[1] = b /\ y[2] = c /\ z[1] = a /\ z[2] = b /\ z[3] = c
  OBVIOUS
<1> HIDE DEF x, y, z
<1>2. /\ x \o y \in Seq(S) /\ Len(x \o y) = 3
      /\ (x \o y)[1] = a /\ (x \o y)[2] = b /\ (x \o y)[3] = c
  <2>1. /\ x \o y \in Seq(S) /\ Len(x \o y) = Len(x) + Len(y)
        /\ \A i \in 1 .. Len(x) : (x \o y)[i] = x[i]
        /\ \A i \in 1 .. Len(y) : (x \o y)[Len(x) + i] = y[i]
    BY <1>1, Prepended, ConcatProperties
  <2>2. 1 \in 1 .. Len(x) /\ 1 \in 1 .. Len(y) /\ 2 \in 1 .. Len(y) /\ Len(x) + 1 = 2 /\ Len(x) + 2 = 3
        /\ Len(x) + Len(y) = 3
    BY <1>1
  <2> QED
    BY <1>1, <2>1, <2>2
<1>3. \A i \in 1 .. 3 : (x \o y)[i] = z[i]
  BY <1>1, <1>2
<1>4. x \o y = z
  BY <1>1, <1>2, <1>3, SeqEqual
<1> QED
  BY <1>4 DEF x, y, z

LEMMA ThreeStrings ==
    ASSUME NEW S, NEW a \in Seq(S), NEW b \in Seq(S), NEW c \in Seq(S)
    PROVE  (a \o b) \o c = a \o (b \o c)
BY ConcatAssociative

\* A word of the program is a string of the set.
LEMMA WordStays ==
    ASSUME NEW H, HasFields(H), NEW word \in Written
    PROVE  <<word>> \in H /\ <<>> \in H
<1>1. <<word>> \in Seq(Written) /\ <<>> \in Seq(Written)
  BY ShortStrings
<1> QED
  BY <1>1 DEF HasFields

\* So is a string of it with an edge before it, and with a word before that.
LEMMA LeadStays ==
    ASSUME NEW H, HasFields(H), NEW edge \in Written, Closed(H, {edge}), NEW q \in H, NEW word \in Written
    PROVE  <<edge>> \o q \in H /\ <<word, edge>> \o q \in H
<1>1. <<>> \in H /\ <<word>> \in H
  BY WordStays
<1>2. <<>> \o <<edge>> \o q \in H /\ <<word>> \o <<edge>> \o q \in H
  BY <1>1 DEF Closed
<1>3. <<>> \o <<edge>> \o q = <<edge>> \o q
  <2>1. q \in Seq(AllTokens)
    BY DEF HasFields
  <2> QED
    BY <2>1
<1>4. <<word>> \o <<edge>> = <<word, edge>>
  BY ShortStrings
<1> QED
  BY <1>2, <1>3, <1>4

\* The lists whose elements are strings.
StringLists == {"providers", "args"}

\* A list of strings, in the document and in what is planned with.
LEMMA ListStays ==
    ASSUME Computed, NEW H, HasFields(H), NEW list \in StringLists
    PROVE  Listed(Wanted, list) \in Seq(H)
<1> DEFINE c == Cardinality(Indices(Doc.text, list))
<1>1. \A path : path[1] = list => path \notin Set
  BY DEF Set, StringLists
<1>2. \A path : path[1] = list => (path \in DOMAIN Wanted <=> path \in DOMAIN Doc.text)
  BY <1>1, PathKept
<1>3. Indices(Wanted, list) = Indices(Doc.text, list)
  BY <1>2 DEF Indices
<1>4. Numbered(Doc.text, list) /\ OfStrings(Doc.text, list)
  BY ValuesTyped DEF InputType, Doc, StringLists
<1>5. Indices(Wanted, list) = 1 .. c /\ c \in Nat
  BY <1>3, <1>4, FS_CardinalityType DEF Numbered
<1>6. ASSUME NEW i \in 1 .. c PROVE Wanted[<<list, i>>] \in H
  <2>1. PICK path \in DOMAIN Doc.text : path[1] = list /\ path[2] = i
    BY <1>3, <1>5 DEF Indices
  <2>2. path = <<list, i>>
    BY <1>4, <2>1 DEF OfStrings
  <2>3. <<list, i>> \in DOMAIN Wanted /\ <<list, i>>[1] = list /\ list \notin {"registration", "oidc"}
    BY <1>2, <2>1, <2>2 DEF StringLists
  <2>4. At(Wanted, <<list, i>>) = Wanted[<<list, i>>]
    BY <2>3 DEF At
  <2> QED
    BY <2>3, <2>4 DEF HasFields
<1>7. Listed(Wanted, list) = [i \in 1 .. c |-> Wanted[<<list, i>>]]
  BY <1>5 DEF Listed
<1> HIDE DEF c
<1> QED
  BY <1>5, <1>6, <1>7

\* A list of providers or arguments, joined and named.
LEMMA ListingStays ==
    ASSUME Computed, NEW H, HasFields(H), Closed(H, {Space, Comma}), NEW list \in StringLists, NEW word \in Written
    PROVE  <<word, Space>> \o Listing(Listed(Wanted, list)) \in H
<1> DEFINE parts == Listed(Wanted, list)
<1>1. parts \in Seq(H)
  BY ListStays
<1> HIDE DEF parts
<1>2. Space \in Written /\ Comma \in AllTokens /\ Closed(H, {Space}) /\ \A p, q \in H : p \o <<Comma>> \o q \in H
  BY EdgesWritten DEF Closed
<1>3. Spaced(parts) \in Seq(H)
  <2>1. Len(parts) \in Nat /\ DOMAIN parts = 1 .. Len(parts) /\ \A i \in 1 .. Len(parts) : parts[i] \in H
    <3> HIDE DEF Closed
    <3> QED
      BY <1>1
  <2>2. \A i \in 1 .. Len(parts) : <<Space>> \o parts[i] \in H
    BY <1>2, <2>1, LeadStays
  <2>3. Spaced(parts) = [i \in 1 .. Len(parts) |-> IF i = 1 THEN parts[i] ELSE <<Space>> \o parts[i]]
    BY <2>1 DEF Spaced
  <2> QED
    BY <2>1, <2>2, <2>3
<1>4. H \in SUBSET Seq(AllTokens) /\ <<>> \in H
  BY <1>2, WordStays DEF HasFields
<1>5. Listing(parts) \in H
  BY <1>2, <1>3, <1>4, JoinStays DEF Listing
<1> QED
  BY <1>2, <1>5, LeadStays DEF parts

\* The description of the inference settings, with either part left out.
LEMMA InferenceStays ==
    ASSUME NEW H, HasFields(H), Closed(H, {"/", Semicolon})
    PROVE  InferenceDetail(Wanted) \in H
<1> DEFINE provider == At(Wanted, <<"inference", "provider">>)
           model == At(Wanted, <<"inference", "model">>)
           both == IF provider # <<>> /\ model # <<>> THEN provider \o <<"/">> \o model ELSE provider \o model
<1>1. provider \in H /\ model \in H
  <2>1. /\ <<"inference", "provider">>[1] \notin {"registration", "oidc"}
        /\ <<"inference", "model">>[1] \notin {"registration", "oidc"}
    OBVIOUS
  <2> QED
    BY <2>1 DEF HasFields
<1>2. InferenceDetail(Wanted) = both \o <<Semicolon, Space, "config only">>
  BY DEF InferenceDetail
<1> HIDE DEF provider, model
<1>3. provider \o <<"/">> \o model \in H
  BY <1>1 DEF Closed
<1>4. provider = <<>> \/ model = <<>> => provider \o model = provider \/ provider \o model = model
  <2>1. provider \in Seq(AllTokens) /\ model \in Seq(AllTokens)
    BY <1>1 DEF HasFields
  <2> QED
    BY <2>1, ConcatEmptySeq
<1>5. both \in H
  BY <1>1, <1>3, <1>4
<1> HIDE DEF both
<1>6. <<Space, "config only">> \in H
  <2>1. Space \in Written /\ "config only" \in Written
    BY EdgesWritten
  <2>2. <<Space, "config only">> \in Seq(Written)
    BY <2>1, ShortStrings
  <2> QED
    BY <2>2 DEF HasFields
<1>7. both \o <<Semicolon>> \o <<Space, "config only">> \in H
  BY <1>5, <1>6 DEF Closed
<1>8. both \o <<Semicolon>> \o <<Space, "config only">> = both \o <<Semicolon, Space, "config only">>
  <2>1. both \in Seq(AllTokens)
    BY <1>5 DEF HasFields
  <2>2. <<Semicolon>> \o <<Space, "config only">> = <<Semicolon, Space, "config only">>
    <3>1. \A a, b, c \in AllTokens : <<a>> \o <<b, c>> = <<a, b, c>>
      BY ThreeTokens
    <3>2. Semicolon \in AllTokens /\ Space \in AllTokens /\ "config only" \in AllTokens
      BY EdgesWritten DEF AllTokens
    <3> QED
      BY <3>1, <3>2
  <2>3. <<Semicolon>> \in Seq(AllTokens) /\ <<Space, "config only">> \in Seq(AllTokens)
    <3>1. <<Space, "config only">> \in Seq(AllTokens)
      BY <1>6 DEF HasFields
    <3>2. Semicolon \in AllTokens
      BY EdgesWritten
    <3> QED
      BY <3>1, <3>2, ShortStrings
  <2>4. (both \o <<Semicolon>>) \o <<Space, "config only">> = both \o (<<Semicolon>> \o <<Space, "config only">>)
    <3> DEFINE remark == <<Space, "config only">>
    <3>1. remark \in Seq(AllTokens) /\ <<Semicolon>> \in Seq(AllTokens)
      BY <2>3
    <3> HIDE DEF remark
    <3>2. (both \o <<Semicolon>>) \o remark = both \o (<<Semicolon>> \o remark)
      BY <2>1, <3>1, ThreeStrings
    <3> QED
      BY <3>2 DEF remark
  <2> QED
    BY <2>2, <2>4
<1> QED
  BY <1>2, <1>7, <1>8

\* Every description of a plan is put together from fields and written words by
\* its edges.
LEMMA DetailStays ==
    ASSUME Computed, NEW reached \in BOOLEAN, NEW detail \in PlanDetails(Wanted, reached),
           NEW H, HasFields(H), Closed(H, detail.edges)
    PROVE  detail.whole \in H
<1>0. \A e, w : Detail(e, w).edges = e /\ Detail(e, w).whole = w
  BY DEF Detail
<1> DEFINE gateway == At(Wanted, <<"target", "gateway">>)
<1>1. CASE detail = Detail({Space}, <<"gateway", Space>> \o gateway \o <<Space, "v">>)
  <2>1. Closed(H, {Space}) /\ detail.whole = <<"gateway", Space>> \o gateway \o <<Space, "v">>
    BY <1>0, <1>1
  <2>2. gateway \in H
    <3>1. <<"target", "gateway">>[1] \notin {"registration", "oidc"}
      OBVIOUS
    <3> QED
      BY <3>1 DEF HasFields
  <2> HIDE DEF gateway
  <2>3. <<"v">> \in H /\ Space \in Written /\ "gateway" \in Written
    BY EdgesWritten, WordStays
  <2>4. gateway \o <<Space>> \o <<"v">> \in H
    BY <2>1, <2>2, <2>3 DEF Closed
  <2>5. <<"gateway", Space>> \o (gateway \o <<Space>> \o <<"v">>) \in H
    BY <2>1, <2>3, <2>4, LeadStays
  <2> DEFINE lead == <<"gateway", Space>>
             version == <<Space, "v">>
  <2>6. gateway \in Seq(AllTokens) /\ lead \in Seq(AllTokens) /\ version \in Seq(AllTokens)
        /\ <<Space>> \in Seq(AllTokens) /\ <<"v">> \in Seq(AllTokens) /\ <<Space>> \o <<"v">> = version
    <3>1. "gateway" \in AllTokens /\ Space \in AllTokens /\ "v" \in AllTokens
      BY EdgesWritten DEF AllTokens
    <3>2. gateway \in Seq(AllTokens)
      BY <2>2 DEF HasFields
    <3> QED
      BY <3>1, <3>2, ShortStrings
  <2>7. gateway \o <<Space>> \o <<"v">> = gateway \o version
    BY <2>6, ThreeStrings
  <2>8. lead \o (gateway \o version) = lead \o gateway \o version
    BY <2>6, ThreeStrings
  <2> QED
    BY <2>1, <2>5, <2>7, <2>8
<1>2. CASE detail = Detail({}, <<"gateway not inspected">>)
  <2>1. "gateway not inspected" \in Written /\ detail.whole = <<"gateway not inspected">>
    BY <1>0, <1>2, EdgesWritten
  <2> QED
    BY <2>1, WordStays
<1>3. CASE detail = Detail({Space, Comma}, <<"sandbox providers:", Space>> \o Listing(Listed(Wanted, "providers")))
  <2>1. "providers" \in StringLists /\ "sandbox providers:" \in Written
    BY EdgesWritten DEF StringLists
  <2>2. Closed(H, {Space, Comma}) /\ detail.whole = <<"sandbox providers:", Space>> \o Listing(Listed(Wanted, "providers"))
    BY <1>0, <1>3
  <2> QED
    BY <2>1, <2>2, ListingStays
<1>4. CASE detail = Detail({Space, Comma}, <<"args:", Space>> \o Listing(Listed(Wanted, "args")))
  <2>1. "args" \in StringLists /\ "args:" \in Written
    BY EdgesWritten DEF StringLists
  <2>2. Closed(H, {Space, Comma}) /\ detail.whole = <<"args:", Space>> \o Listing(Listed(Wanted, "args"))
    BY <1>0, <1>4
  <2> QED
    BY <2>1, <2>2, ListingStays
<1>5. CASE detail = Detail({"/", Semicolon}, InferenceDetail(Wanted))
  BY <1>0, <1>5, InferenceStays
<1>6. ASSUME NEW i, detail = Detail({Space}, <<"host output:", Space>> \o At(Wanted, OutputPath(i, "destination")))
      PROVE  detail.whole \in H
  <2>1. /\ Closed(H, {Space})
        /\ detail.whole = <<"host output:", Space>> \o At(Wanted, OutputPath(i, "destination"))
    BY <1>0, <1>6
  <2>2. OutputPath(i, "destination")[1] \notin {"registration", "oidc"}
    BY DEF OutputPath
  <2>3. At(Wanted, OutputPath(i, "destination")) \in H
    BY <2>2 DEF HasFields
  <2>4. Space \in Written /\ "host output:" \in Written
    BY EdgesWritten
  <2> QED
    BY <2>1, <2>3, <2>4, LeadStays
<1> QED
  BY <1>1, <1>2, <1>3, <1>4, <1>5, <1>6 DEF PlanDetails, OutputPath

\* Every name of a plan is a field.
LEMMA NameStays ==
    ASSUME NEW name \in PlanNames(Wanted), NEW H, HasFields(H)
    PROVE  name \in H
<1>1. \E path : path[1] \notin {"registration", "oidc"} /\ name = At(Wanted, path)
  <2>1. CASE name \in {At(Wanted, path) : path \in {<<"target", "gateway">>, <<"target", "workspace">>,
                         <<"sandbox", "image">>, <<"source", "repo">>, <<"agent", "type">>}}
    BY <2>1
  <2>2. CASE name \in ProviderNames(Wanted)
    <3>1. CASE name = At(Wanted, <<"inference", "provider">>)
      <4>1. <<"inference", "provider">>[1] \notin {"registration", "oidc"}
        OBVIOUS
      <4> QED
        BY <3>1, <4>1
    <3>2. CASE name # At(Wanted, <<"inference", "provider">>)
      <4>1. PICK path \in DOMAIN Wanted : path[1] = "providers" /\ name = Wanted[path]
        BY <2>2, <3>2 DEF ProviderNames
      <4>2. path[1] \notin {"registration", "oidc"} /\ name = At(Wanted, path)
        BY <4>1 DEF At
      <4> QED
        BY <4>2
    <3> QED
      BY <3>1, <3>2
  <2>3. ASSUME NEW i, NEW list \in Lists, NEW part, name = At(Wanted, <<list, i, part>>)
        PROVE  \E path : path[1] \notin {"registration", "oidc"} /\ name = At(Wanted, path)
    <3>1. <<list, i, part>>[1] \notin {"registration", "oidc"}
      BY DEF Lists
    <3> QED
      BY <2>3, <3>1
  <2>4. \/ name \in {At(Wanted, path) : path \in {<<"target", "gateway">>, <<"target", "workspace">>,
                       <<"sandbox", "image">>, <<"source", "repo">>, <<"agent", "type">>}}
        \/ name \in ProviderNames(Wanted)
        \/ \E i : \E list \in Lists : \E part : name = At(Wanted, <<list, i, part>>)
    BY DEF PlanNames, Lists
  <2> QED
    BY <2>1, <2>2, <2>3, <2>4
<1> QED
  BY <1>1 DEF HasFields

\* What redaction hides is such a set; a detail that is whole does not leave it.
HiddenStrings == Hidden(AllTokens, Concealed, Clear)
Whole(detail) == \A edge \in detail.edges, value \in Concealed : ~Occurs(edge, value)

LEMMA HiddenHasFields == ASSUME Computed PROVE HasFields(HiddenStrings)
<1>1. HiddenStrings \in SUBSET Seq(AllTokens)
  BY DEF HiddenStrings, Hidden
<1>2. \A s \in Seq(Written) : s \in HiddenStrings
  BY WrittenHides DEF Hides, HiddenStrings
<1>3. \A path : path[1] \notin {"registration", "oidc"} => At(Wanted, path) \in HiddenStrings
  BY FieldHides DEF Hides, HiddenStrings
<1> QED
  BY <1>1, <1>2, <1>3 DEF HasFields

LEMMA WholeIsClosed ==
    ASSUME Computed, NEW detail, Whole(detail), detail.edges \subseteq {Space, Comma, Semicolon, "/"}
    PROVE  Closed(HiddenStrings, detail.edges)
<1> SUFFICES ASSUME NEW edge \in detail.edges, NEW p \in HiddenStrings, NEW q \in HiddenStrings
             PROVE  p \o <<edge>> \o q \in HiddenStrings
  BY DEF Closed
<1>1. edge \in Clear /\ MarkTokens \subseteq AllTokens
  BY WrittenClear, EdgesWritten
<1>2. \A value \in Concealed : ~Occurs(edge, value)
  BY DEF Whole
<1> QED
  BY <1>1, <1>2, WrittenClear, ConcealedValues, HiddenAround DEF HiddenStrings

\* The edges of a plan's descriptions.
LEMMA EdgesOf ==
    ASSUME NEW reached \in BOOLEAN, NEW detail \in PlanDetails(Wanted, reached)
    PROVE  detail.edges \subseteq {Space, Comma, Semicolon, "/"}
<1>1. \A e, w : Detail(e, w).edges = e
  BY DEF Detail
<1>2. \E e \in {{}, {Space}, {Space, Comma}, {"/", Semicolon}} : \E w : detail = Detail(e, w)
  BY DEF PlanDetails
<1> QED
  BY <1>1, <1>2

\* redactedPlan (plan_redaction.go) for every document and environment: with
\* the longest value first, no part of an interpolated value is left in a name
\* or description of the plan, unless a value tears the description: one that
\* contains a token that stands there next to a string of the document.
THEOREM PlanShowsLiterals == FilesSpec => []PlanShowsNoInterpolation
<1>1. Computed => PlanShowsNoInterpolation
  <2> SUFFICES ASSUME Computed, input.command = "plan", NEW s \in shown, ~MayTear(s), NEW token \in Interpolated
               PROVE  ~Occurs(token, s)
    BY DEF PlanShowsNoInterpolation
  <2>1. text = Wanted
    BY DEF Computed, Finished
  <2>2. PICK reached \in BOOLEAN : shown = RedactedPlan(text, Doc.text, reached)
    BY DEF Computed
  <2>3. PICK x \in PlanStrings(Wanted, reached) : s = RedactAll(x, Concealed)
    BY <2>1, <2>2 DEF RedactedPlan, Concealed
  <2>4. Hides(x)
    <3>1. CASE x \in PlanNames(Wanted)
      BY <3>1, HiddenHasFields, NameStays DEF Hides, HiddenStrings
    <3>2. CASE x \notin PlanNames(Wanted)
      <4>1. PICK detail \in PlanDetails(Wanted, reached) : x = detail.whole
        BY <2>3, <3>2 DEF PlanStrings
      <4>2. Whole(detail)
        BY <2>1, <2>3, <4>1 DEF MayTear, Whole, Concealed
      <4>3. Closed(HiddenStrings, detail.edges)
        BY <4>1, <4>2, EdgesOf, WholeIsClosed
      <4> QED
        BY <4>1, <4>3, HiddenHasFields, DetailStays DEF Hides, HiddenStrings
    <3> QED
      BY <3>1, <3>2
  <2>5. s \in Seq(Clear)
    BY <2>3, <2>4 DEF Hides, Hidden
  <2>6. token \notin Clear
    BY DEF Clear
  <2> HIDE DEF Clear
  <2> QED
    BY <2>5, <2>6 DEF Occurs
<1> QED
  BY <1>1, InitComputed, NextComputed, PTL DEF FilesSpec

\* Every string of a plan is one of tokens, torn or not.
LEMMA PlanTyped ==
    ASSUME Computed, NEW reached \in BOOLEAN, NEW s \in PlanStrings(Wanted, reached)
    PROVE  s \in Seq(AllTokens)
<1>1. HasFields(Seq(AllTokens))
  <2>1. \A path : path[1] \notin {"registration", "oidc"} => At(Wanted, path) \in Seq(AllTokens)
    BY HiddenHasFields DEF HasFields
  <2>2. Seq(Written) \subseteq Seq(AllTokens)
    BY HiddenHasFields DEF HasFields
  <2> QED
    BY <2>1, <2>2 DEF HasFields
<1>2. \A edge \in AllTokens : \A p, q \in Seq(AllTokens) : p \o <<edge>> \o q \in Seq(AllTokens)
  <2> HIDE DEF AllTokens
  <2> QED
    OBVIOUS
<1>3. CASE s \in PlanNames(Wanted)
  BY <1>1, <1>3, NameStays
<1>4. ASSUME NEW detail \in PlanDetails(Wanted, reached), s = detail.whole PROVE s \in Seq(AllTokens)
  <2>1. Closed(Seq(AllTokens), detail.edges)
    BY <1>2, EdgesOf, EdgesWritten DEF Closed
  <2> QED
    BY <1>1, <1>4, <2>1, DetailStays
<1> QED
  BY <1>3, <1>4 DEF PlanStrings

\* redactedPlan (plan_redaction.go) for every document and environment, and for
\* every string of the plan, torn or not: no interpolated value stands in it as a
\* whole, except for values that the marker can complete.
THEOREM PlanShowsNoSecret == FilesSpec => []PlanShowsNoValue
<1>1. Computed => PlanShowsNoValue
  <2> SUFFICES ASSUME Computed, input.command = "plan", NEW s \in shown,
                      NEW value \in InterpolatedValues(text, Doc.text), Unmarked(value)
               PROVE  \A i \in DOMAIN s : ~Matches(s, i, value)
    BY DEF PlanShowsNoValue
  <2>1. text = Wanted
    BY DEF Computed, Finished
  <2>2. PICK reached \in BOOLEAN : shown = RedactedPlan(text, Doc.text, reached)
    BY DEF Computed
  <2>3. PICK x \in PlanStrings(Wanted, reached) : s = RedactAll(x, Concealed)
    BY <2>1, <2>2 DEF RedactedPlan, Concealed
  <2>4. x \in Seq(AllTokens) /\ value \in Concealed
    BY <2>1, <2>3, PlanTyped DEF Concealed
  <2>5. MarkTokens \subseteq AllTokens
    BY WrittenClear
  <2>6. NowhereIn(s, value) /\ s \in Seq(AllTokens)
    BY <2>3, <2>4, <2>5, ConcealedValues, RedactAllRemoves, RedactAllTyped
  <2>7. DOMAIN s = 1 .. Len(s)
    BY <2>6
  <2> QED
    BY <2>6, <2>7 DEF NowhereIn
<1> QED
  BY <1>1, InitComputed, NextComputed, PTL DEF FilesSpec
==============================================================================
