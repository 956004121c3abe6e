---------------------------- MODULE OutputInstall ----------------------------
(***************************************************************************)
(* The downloads of a run on the host's file system (run.Run, and          *)
(* sdkclient/download.go around the stream that DownloadStream models).    *)
(* For each output in turn DownloadPath looks whether the destination      *)
(* exists, makes its parents and a staging directory next to it, receives  *)
(* the tree into the staging directory, and installs it entry by entry     *)
(* with mkdir and link, which never replace anything.  Meanwhile other     *)
(* processes create paths below the same output directory.                 *)
(*                                                                         *)
(* A path is the sequence of names below the output directory, which is    *)
(* <<>>.  The harness may be killed at any time: since the specification   *)
(* has no fairness, every behaviour may stop anywhere.                     *)
(***************************************************************************)
EXTENDS Naturals, Sequences

CONSTANTS
    Names,       \* file names
    Trees,       \* what an output may be in the sandbox
    Foreign      \* the paths that other processes may create

Paths == Seq(Names)
Kinds == {"dir", "file"}

\* A tree lists its entries in the order of their installation.
ASSUME InstallAssumption ==
    /\ \A t \in Trees :
          /\ t \in Seq([path : Paths, kind : Kinds])
          /\ \A k, l \in DOMAIN t : t[k].path = t[l].path => k = l
    /\ Foreign \subseteq Paths

VARIABLES
    downloads,  \* downloads[k]: the destination of the k-th download
    step,       \* where DownloadPath is
    n,          \* the download
    tree,       \* the staged tree
    at,         \* how many of its entries are installed
    staging,    \* whether the staging directory exists
    outcome,    \* outcome[k]: how the k-th download ended
    received,   \* received[k]: the tree it was sent
    fs          \* the existing paths: what each is, and which download made it (0: another process)

installVars == <<downloads, step, n, tree, at, staging, outcome, received, fs>>

Steps == {"idle", "check", "parents", "receive", "install", "done"}
Outcomes == {"pending", "installed", "missing", "exists", "failed"}

Entry(kind, by) == [kind |-> kind, by |-> by]

InstallTypeOK ==
    /\ downloads \in Seq(Paths) /\ step \in Steps
    /\ n \in Nat /\ at \in Nat /\ staging \in BOOLEAN
    /\ outcome \in [DOMAIN downloads -> Outcomes]
    /\ \A p \in DOMAIN fs : fs[p].kind \in Kinds /\ fs[p].by \in Nat

InstallInit ==
    /\ downloads = <<>> /\ step = "idle" /\ n = 0
    /\ tree = <<>> /\ at = 0 /\ staging = FALSE
    /\ outcome = <<>> /\ received = <<>>
    /\ fs = [p \in {<<>>} |-> Entry("dir", 0)]

-----------------------------------------------------------------------------
Dst == downloads[n]

Prefixes(p) == {SubSeq(p, 1, k) : k \in 0 .. Len(p)}
Ancestors(p) == {SubSeq(p, 1, k) : k \in 0 .. Len(p) - 1}

\* A file where a directory is needed (ENOTDIR).
Blocked(p) == \E a \in Ancestors(p) \cap DOMAIN fs : fs[a].kind = "file"

Add(path, entry) ==
    fs' = [p \in DOMAIN fs \cup {path} |-> IF p = path THEN entry ELSE fs[p]]

\* Run starts to collect the outputs.
StartDownloads(requested) ==
    /\ step = "idle"
    /\ downloads' = requested
    /\ outcome' = [k \in DOMAIN requested |-> "pending"]
    /\ received' = [k \in DOMAIN requested |-> <<>>]
    /\ n' = 1
    /\ step' = IF requested = <<>> THEN "done" ELSE "check"
    /\ UNCHANGED <<tree, at, staging, fs>>

\* DownloadPath returns: the deferred RemoveAll has taken the staging
\* directory, and Run goes on with the next download whatever the result.
Returns(result) ==
    /\ outcome' = [outcome EXCEPT ![n] = result]
    /\ staging' = FALSE
    /\ n' = n + 1
    /\ step' = IF n = Len(downloads) THEN "done" ELSE "check"
    /\ UNCHANGED <<downloads, tree>>

CheckDestination ==
    /\ step = "check"
    /\ Dst \notin DOMAIN fs /\ ~Blocked(Dst)
    /\ step' = "parents"
    /\ UNCHANGED <<downloads, n, tree, at, staging, outcome, received, fs>>

DestinationExists ==
    /\ step = "check"
    /\ Dst \in DOMAIN fs
    /\ Returns("exists")
    /\ UNCHANGED <<at, received, fs>>

\* Lstat or MkdirAll meets a file, or fails otherwise.
DestinationFails ==
    /\ \/ step = "check" /\ Dst \notin DOMAIN fs
       \/ step = "parents"
    /\ Returns("failed")
    /\ UNCHANGED <<at, received, fs>>

\* os.MkdirAll makes one missing directory at a time, the outermost first.
MakeParent ==
    /\ step = "parents"
    /\ ~Blocked(Dst)
    /\ \E p \in Ancestors(Dst) \ DOMAIN fs :
          /\ Ancestors(p) \subseteq DOMAIN fs
          /\ Add(p, Entry("dir", n))
    /\ UNCHANGED <<downloads, step, n, tree, at, staging, outcome, received>>

MakeStaging ==
    /\ step = "parents"
    /\ Ancestors(Dst) \subseteq DOMAIN fs /\ ~Blocked(Dst)
    /\ staging' = TRUE
    /\ step' = "receive"
    /\ UNCHANGED <<downloads, n, tree, at, outcome, received, fs>>

-----------------------------------------------------------------------------
(* The stream, and the installation of what it brought                     *)

Receive(sent) ==
    /\ step = "receive"
    /\ tree' = sent /\ at' = 0
    /\ received' = [received EXCEPT ![n] = sent]
    /\ step' = "install"
    /\ UNCHANGED <<downloads, n, staging, outcome, fs>>

\* A missing path is an error only if the output is required (Run).
SourceMissing ==
    /\ step = "receive"
    /\ Returns("missing")
    /\ UNCHANGED <<at, received, fs>>

StreamFails ==
    /\ step = "receive"
    /\ Returns("failed")
    /\ UNCHANGED <<at, received, fs>>

Target == Dst \o tree[at + 1].path

\* A changed form: os.Rename, which takes the place of an existing file.
Bug_InstallEntry ==
    /\ step = "install" /\ at < Len(tree)
    /\ ~Blocked(Target)
    /\ Target \in DOMAIN fs => fs[Target].kind = "file"
    /\ Add(Target, Entry(tree[at + 1].kind, n))
    /\ at' = at + 1
    /\ UNCHANGED <<downloads, step, n, tree, staging, outcome, received>>

\* Mkdir or Link of the next entry, which was not there.
InstallEntry ==
    /\ step = "install" /\ at < Len(tree)
    /\ ~Blocked(Target)
    /\ Target \notin DOMAIN fs
    /\ Add(Target, Entry(tree[at + 1].kind, n))
    /\ at' = at + 1
    /\ UNCHANGED <<downloads, step, n, tree, staging, outcome, received>>

\* A changed form: an entry that exists is taken for installed.
Bug_EntryExists ==
    /\ step = "install" /\ at < Len(tree)
    /\ Target \in DOMAIN fs
    /\ at' = at + 1
    /\ UNCHANGED <<downloads, step, n, tree, staging, outcome, received, fs>>

EntryExists ==
    /\ step = "install" /\ at < Len(tree)
    /\ Target \in DOMAIN fs
    /\ Returns("exists")
    /\ UNCHANGED <<at, received, fs>>

\* Mkdir, Link, or the removal of the staged entry after a Link that worked:
\* what is installed so far stays.
InstallFails ==
    /\ step = "install"
    /\ Returns("failed")
    /\ UNCHANGED <<at, received, fs>>

Installed ==
    /\ step = "install" /\ at = Len(tree)
    /\ Returns("installed")
    /\ UNCHANGED <<at, received, fs>>

\* Another process makes a file or a directory below the output directory.
ForeignCreate(p) ==
    /\ step # "done"
    /\ p \notin DOMAIN fs
    /\ \E kind \in Kinds : Add(p, Entry(kind, 0))
    /\ Ancestors(p) \subseteq DOMAIN fs /\ ~Blocked(p)
    /\ UNCHANGED <<downloads, step, n, tree, at, staging, outcome, received>>

DownloadPath ==
    \/ CheckDestination \/ DestinationExists \/ DestinationFails
    \/ MakeParent \/ MakeStaging
    \/ (\E sent \in Trees : Receive(sent)) \/ SourceMissing \/ StreamFails
    \/ InstallEntry \/ EntryExists \/ InstallFails \/ Installed

InstallNext ==
    \/ DownloadPath
    \/ \E p \in Foreign : ForeignCreate(p)

\* The downloads of any request at all.
InstallSpec ==
    /\ InstallInit
    /\ [][(\E requested \in Seq(Paths) : StartDownloads(requested)) \/ InstallNext]_installVars

-----------------------------------------------------------------------------
(* Properties                                                              *)

\* "Without replacing a path that appeared after the initial destination
\* check": whatever exists below the output directory stays what it is, and
\* whose it is, whichever steps of other processes come between.
NothingReplaced ==
    [][\A p \in DOMAIN fs : p \in DOMAIN fs' /\ fs'[p] = fs[p]]_fs

\* p lies on the way to q, and is not q.
Above(p, q) == p \in Ancestors(q)

\* The k-th download has put every entry of the tree it was sent in place.
EntriesInPlace(k) ==
    \A e \in DOMAIN received[k] :
        LET p == downloads[k] \o received[k][e].path
        IN  p \in DOMAIN fs /\ fs[p] = Entry(received[k][e].kind, k)

\* p is the place of an entry of a tree that is sent to the path d.
PlaceOf(p, d, sent) == \E e \in DOMAIN sent : p = d \o sent[e].path

\* Whatever else is at or below its destination was made by another process,
\* or by an output whose destination is nested with this one.
ExtrasExplained(k) ==
    \A p \in DOMAIN fs : downloads[k] \in Prefixes(p) =>
        \/ fs[p].by = 0
        \/ fs[p].by = k /\ PlaceOf(p, downloads[k], received[k])
        \/ LET j == fs[p].by
           IN  j # k /\ (Above(downloads[j], downloads[k]) \/ Above(downloads[k], downloads[j]))

\* An output that is reported as installed is all there, every entry made by
\* its own mkdir or link: a success never counts an entry that somebody else
\* made.  A directory may hold more, for anybody can write into it once it is
\* there, but of the harness's own files only those of nested outputs.
InstalledWhole ==
    \A k \in DOMAIN outcome : outcome[k] = "installed" => EntriesInPlace(k) /\ ExtrasExplained(k)

\* A download is refused because its destination is taken only if another
\* process made something there, or an earlier output is nested with it:
\* Resolve has seen to it that no two outputs have one destination.
CollisionsExplained ==
    \A k \in DOMAIN outcome : outcome[k] = "exists" =>
        \/ \E p \in DOMAIN fs : fs[p].by = 0 /\ downloads[k] \in Prefixes(p)
        \/ \E j \in 1 .. k - 1 :
              \/ Above(downloads[j], downloads[k])
              \/ Above(downloads[k], downloads[j])
=============================================================================
