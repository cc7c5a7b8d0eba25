------------------------------ MODULE SyncRun ------------------------------
(***************************************************************************)
(* One sync deployment, run after run (internal/uploader/sync.go): what    *)
(* the manifest says, what is on the server, and what an edit of the local *)
(* tree, a failure at any point of a run or a kill makes of the two.       *)
(*                                                                         *)
(* Content is its hash.  A path is one the plan may hold; Above gives the   *)
(* directories it lies in.  Names that foldPath maps to the same key are    *)
(* one directory entry on a server whose file system ignores case.  The    *)
(* setup is the server and the project a behaviour is about; it never      *)
(* changes.                                                                *)
(***************************************************************************)
EXTENDS Integers, FiniteSets

CONSTANTS
    Paths,        \* relative paths a tree, the manifest or the server may hold
    Hashes,       \* contents
    Above,        \* the strict ancestors of a path
    FoldPath,     \* foldPath, as a representative path of the key
    Setups,       \* the setups (see SyncAssumption)
    MaxRuns       \* bound: runs

Absent == "absent"
Dir == "dir"
Foreign == "foreign"

\* What may happen besides a request that is refused: a failed request took
\* effect all the same, the run is killed, a manifest write fails, the manifest is
\* there and cannot be read, an emptied directory is not removed, somebody else
\* puts a file on the server, the server replaces a file in two steps and an upload,
\* or the write of the manifest, stops between them (Publish says when).
AllFaults == {"lost", "kill", "write", "read", "prune", "foreign", "window"}

\* A setup: the local trees that are ever deployed, whether the server ignores
\* case, and what may happen.
ASSUME SyncAssumption ==
    /\ \A s \in Setups :
        /\ DOMAIN s = {"trees", "insensitive", "faults"}
        /\ \A t \in s.trees : t \in [Paths -> Hashes \cup {Absent}]
        /\ s.insensitive \in BOOLEAN /\ s.faults \subseteq AllFaults
    /\ Above \in [Paths -> SUBSET Paths]
    /\ FoldPath \in [Paths -> Paths]
    /\ {Absent, Dir, Foreign} \cap Hashes = {}
    /\ MaxRuns \in Nat

\* No server can hold a tree with two files for one directory entry of its own.
ASSUME TreesFit ==
    \A s \in Setups : s.insensitive =>
        \A t \in s.trees, p, q \in Paths :
            t[p] # Absent /\ t[q] # Absent /\ FoldPath[p] = FoldPath[q] => p = q

\* Paths: the directories of a path are a chain from the top down to it, and foldPath
\* folds a path name by name, so that two paths with one key have the same number of
\* names (a name that NFKC would give a slash is left aside).
ASSUME PathsAssumption ==
    /\ IsFiniteSet(Paths)
    /\ \A p \in Paths : p \notin Above[p] /\ \A d \in Above[p] : Above[d] \subseteq Above[p]
    /\ \A p \in Paths : \A d, e \in Above[p] : d = e \/ d \in Above[e] \/ e \in Above[d]
    /\ \A p, q \in Paths : FoldPath[p] = FoldPath[q] =>
          \A d \in Above[p] : \E e \in Above[q] : FoldPath[d] = FoldPath[e]

\* No file of a local tree is a directory of another.
ASSUME TreesNest ==
    \A s \in Setups : \A t \in s.trees, p, q \in Paths :
        t[p] # Absent /\ t[q] # Absent => p \notin Above[q]

VARIABLES
    setup,
    local,     \* the local tree
    disk,      \* what the server holds under the target
    manifest,  \* .easysftp-manifest.json; all Absent when there is none
    pc,        \* where executeSync is
    old,       \* the manifest this run read
    todo,      \* the requests of the current phase that were not started
    completed, \* uploads that were acknowledged
    preDeleted, deleted, \* deletes that were acknowledged, before and after the upload
    failed,    \* a request of the current phase failed
    faulty,    \* something failed in this run that could have succeeded
    runs,
    tried,     \* history: trees deployed since the manifest was last known to be true
    unsure,    \* history: since then something happened that no manifest records
    kept,      \* history: since then a recovery manifest kept entries it had deleted
    forgot,    \* history: some run could not read the manifest, or lost it
    stray      \* history: an empty directory was left behind that no manifest accounts for

phase == <<todo, failed, faulty>>
progress == <<completed, preDeleted, deleted>>
history == <<tried, unsure, kept, forgot, stray>>
vars == <<setup, local, disk, manifest, pc, old, phase, progress, runs, history>>

Trees == setup.trees
Faults == setup.faults

Resting == {"idle", "done", "failed", "killed"}
Working == {"preDelete", "clear", "mkdirs", "upload", "delete", "prune", "write", "recover", "keep"}

TypeOK ==
    /\ setup \in Setups
    /\ local \in Trees
    /\ disk \in [Paths -> Hashes \cup {Absent, Dir, Foreign}]
    /\ manifest \in [Paths -> Hashes \cup {Absent}]
    /\ pc \in Resting \cup Working
    /\ old \in [Paths -> Hashes \cup {Absent}]
    /\ todo \in SUBSET Paths
    /\ completed \in SUBSET Paths /\ preDeleted \in SUBSET Paths /\ deleted \in SUBSET Paths
    /\ failed \in BOOLEAN /\ faulty \in BOOLEAN
    /\ runs \in 0 .. MaxRuns
    /\ tried \in SUBSET Trees
    /\ unsure \in BOOLEAN /\ kept \in BOOLEAN /\ forgot \in BOOLEAN /\ stray \in BOOLEAN

Empty == [p \in Paths |-> Absent]

Init ==
    /\ setup \in Setups
    /\ local \in Trees
    /\ disk = Empty
    /\ manifest = Empty
    /\ pc = "idle"
    /\ old = Empty
    /\ todo = {}
    /\ completed = {} /\ preDeleted = {} /\ deleted = {}
    /\ failed = FALSE /\ faulty = FALSE
    /\ runs = 0
    /\ tried = {} /\ unsure = FALSE /\ kept = FALSE /\ forgot = FALSE /\ stray = FALSE

-----------------------------------------------------------------------------
(* The file system of the server. *)

Entry(p) == IF setup.insensitive THEN FoldPath[p] ELSE p

At(p) == disk[Entry(p)]

IsFile(c) == c \in Hashes \cup {Foreign}

\* A directory nothing is in.
IsEmpty(d) == \A q \in Paths : d \in Above[q] => At(q) = Absent
EmptyDirs == {d \in Paths : At(d) = Dir /\ IsEmpty(d)}

\* A directory can be made: no file under its name or above it.
Makeable(d) == \A e \in Above[d] \cup {d} : ~IsFile(At(e))

\* The file p can be created: its directories are there, and none has its name.
Creatable(p) == /\ At(p) # Dir
                /\ \A d \in Above[p] : At(d) = Dir

\* Remove: pkg/sftp turns it into a RemoveDirectory on a directory.  A file that
\* is already gone is fine.
Removable(p) == At(p) = Dir => IsEmpty(p)

Put(S, c) == [e \in Paths |-> IF \E p \in S : e = Entry(p) THEN c ELSE disk[e]]

-----------------------------------------------------------------------------
(* What a run computes from the manifest it read and the local tree. *)

Planned == {p \in Paths : local[p] # Absent}

\* Mutant: a planned file that the manifest lists is taken as unchanged.
UploadNewOnly(m) == {p \in Planned : m[p] = Absent}
Upload(m) == {p \in Planned : m[p] # local[p]}

\* Mutant: everything on the server that the plan does not hold is stale.
ToDeleteListed(m) == {p \in Paths : IsFile(At(p)) /\ local[p] = Absent}
ToDelete(m) == {p \in Paths : m[p] # Absent /\ local[p] = Absent}

\* collidingDeletes: a stale file where the plan needs a directory, below a planned
\* file, or under another spelling of one.
Colliding(m) ==
    {p \in ToDelete(m) : \E f \in Planned :
        p \in Above[f] \/ f \in Above[p] \/ FoldPath[p] = FoldPath[f]}

Rest(m) == ToDelete(m) \ Colliding(m)

\* clearCollideParents: the directories from a colliding entry up to the nearest
\* planned file above it.
Tops(p) == {t \in Above[p] \cap Planned : \A u \in Above[p] \cap Planned : t \notin Above[u]}
CollideDirs(m) ==
    UNION {{d \in Above[p] : \E t \in Tops(p) : d = t \/ t \in Above[d]} : p \in Colliding(m)}

\* dirsForFiles
DirsForFiles(S) == UNION {Above[p] : p \in S}

\* Mutant: what the server lists is recorded.
MergedManifestListed(done, gone) ==
    [p \in Paths |-> IF p \in gone THEN Absent
                     ELSE IF p \in done THEN local[p] ELSE disk[p]]
\* mergedManifest
MergedManifest(done, gone) ==
    [p \in Paths |-> IF p \in gone THEN Absent
                     ELSE IF p \in done THEN local[p] ELSE old[p]]

\* Mutant: the colliding entries that went are dropped here too.
CollisionLiveDropped == MergedManifest({}, preDeleted)
\* recoveryCollisionLive
CollisionLive == MergedManifest({}, {})

-----------------------------------------------------------------------------
(* executeSync *)

Enter(label, work) == pc' = label /\ todo' = work /\ failed' = FALSE

\* What the run does next with the manifest m: room is made, or the upload starts.
FirstPhase(m) ==
    IF Colliding(m) # {} THEN Enter("preDelete", Colliding(m))
                         ELSE Enter("mkdirs", DirsForFiles(Upload(m)))

\* readManifest, hashPlanFiles, the plan and the reservation.  A manifest that
\* cannot be read counts as a first sync; an error before the first request that
\* changes anything ends the run with the target untouched.
StartRun ==
    /\ pc \in Resting /\ runs < MaxRuns
    /\ runs' = runs + 1
    /\ tried' = tried \cup {local}
    /\ \/ old' = manifest /\ UNCHANGED forgot
       \/ "read" \in Faults /\ old' = Empty /\ forgot' = TRUE
    /\ completed' = {} /\ preDeleted' = {} /\ deleted' = {}
    /\ \/ FirstPhase(old') /\ faulty' = FALSE
       \/ Enter("failed", {}) /\ faulty' = TRUE
    /\ UNCHANGED <<setup, local, disk, manifest, unsure, kept, stray>>

\* A request that changes the server to effect, when it can: carried out and
\* acknowledged, ...
Done(can, effect) ==
    /\ can /\ disk' = effect
    /\ UNCHANGED <<failed, faulty, unsure>>

\* ... refused because it cannot be carried out, or failed for any other reason.
Fails(can, effect) ==
    /\ \/ ~can /\ UNCHANGED <<disk, faulty, unsure>>
       \/ faulty' = TRUE /\ UNCHANGED <<disk, unsure>>
       \/ can /\ "lost" \in Faults /\ faulty' = TRUE /\ disk' = effect /\ unsure' = TRUE
    /\ failed' = TRUE

\* deleteRemoteFiles over the colliding entries.
PreDelete(p) ==
    /\ pc = "preDelete" /\ p \in todo
    /\ todo' = todo \ {p}
    /\ \/ Done(Removable(p), Put({p}, Absent)) /\ preDeleted' = preDeleted \cup {p}
       \/ Fails(Removable(p), Put({p}, Absent)) /\ UNCHANGED preDeleted
    /\ UNCHANGED <<setup, local, manifest, pc, old, completed, deleted, runs, tried, kept, forgot, stray>>

\* runBounded returns: nothing is left to start, or something failed.  Then the
\* entries that did go leave the manifest, and the directories they emptied stay.
EndPreDelete ==
    /\ pc = "preDelete"
    /\ \/ failed /\ Enter("recover", {}) /\ stray' = (stray \/ EmptyDirs # {})
       \/ ~failed /\ todo = {} /\ Enter("clear", CollideDirs(old)) /\ UNCHANGED stray
    /\ UNCHANGED <<setup, local, disk, manifest, old, progress, runs, tried, unsure, kept, forgot, faulty>>

\* One directory of clearCollideParents, deepest first: removed or already gone, ...
ClearDir(d) ==
    /\ pc = "clear" /\ d \in todo
    /\ \A c \in todo : d \notin Above[c]
    /\ LET gone == At(d) = Absent \/ (At(d) = Dir /\ IsEmpty(d)) IN
       \/ Done(gone, Put({d}, Absent)) /\ todo' = todo \ {d} /\ UNCHANGED pc
       \/ \* ... or the run ends with a recovery manifest that keeps the entries.
          Fails(gone, Put({d}, Absent)) /\ todo' = {} /\ pc' = "keep"
    /\ UNCHANGED <<setup, local, manifest, old, progress, runs, tried, kept, forgot, stray>>

EndClear ==
    /\ pc = "clear" /\ todo = {}
    /\ Enter("mkdirs", DirsForFiles(Upload(old)))
    /\ UNCHANGED <<setup, local, disk, manifest, old, progress, runs, history, faulty>>

\* createRemoteDirs, one MkdirAll.
CreateDir(d) ==
    /\ pc = "mkdirs" /\ d \in todo
    /\ todo' = todo \ {d}
    /\ LET all == Put(Above[d] \cup {d}, Dir) IN
       Done(Makeable(d), all) \/ Fails(Makeable(d), all)
    /\ UNCHANGED <<setup, local, manifest, pc, old, progress, runs, tried, kept, forgot, stray>>

EndMkdirs ==
    /\ pc = "mkdirs"
    /\ \/ failed /\ Enter("recover", {})
       \/ ~failed /\ todo = {} /\ Enter("upload", Upload(old))
    /\ UNCHANGED <<setup, local, disk, manifest, old, progress, runs, history, faulty>>

\* The live file was moved aside, and the upload got no further.
Stranded(p) ==
    /\ "window" \in Faults /\ IsFile(At(p))
    /\ disk' = Put({p}, Absent)
    /\ failed' = TRUE /\ faulty' = TRUE /\ unsure' = TRUE

\* uploadFiles: one file.
UploadFile(p) ==
    /\ pc = "upload" /\ p \in todo
    /\ todo' = todo \ {p}
    /\ \/ Done(Creatable(p), Put({p}, local[p])) /\ completed' = completed \cup {p}
       \/ Fails(Creatable(p), Put({p}, local[p])) /\ UNCHANGED completed
       \/ Stranded(p) /\ UNCHANGED completed
    /\ UNCHANGED <<setup, local, manifest, pc, old, preDeleted, deleted, runs, tried, kept, forgot, stray>>

EndUpload ==
    /\ pc = "upload"
    /\ \/ failed /\ Enter("recover", {})
       \/ ~failed /\ todo = {} /\ Enter("delete", Rest(old))
    /\ UNCHANGED <<setup, local, disk, manifest, old, progress, runs, history, faulty>>

\* deleteRemoteFiles over the rest.
Delete(p) ==
    /\ pc = "delete" /\ p \in todo
    /\ todo' = todo \ {p}
    /\ \/ Done(Removable(p), Put({p}, Absent)) /\ deleted' = deleted \cup {p}
       \/ Fails(Removable(p), Put({p}, Absent)) /\ UNCHANGED deleted
    /\ UNCHANGED <<setup, local, manifest, pc, old, completed, preDeleted, runs, tried, kept, forgot, stray>>

EndDelete ==
    /\ pc = "delete"
    /\ \/ failed /\ Enter("recover", {})
       \/ ~failed /\ todo = {} /\ Enter("prune", DirsForFiles(deleted))
    /\ UNCHANGED <<setup, local, disk, manifest, old, progress, runs, history, faulty>>

\* pruneEmptyDirs, children before parents and best effort: a directory goes when
\* it is empty and the request, or the budget, does not stand in the way.
PruneEmptyDir(d) ==
    /\ pc = "prune" /\ d \in todo
    /\ \A c \in todo : d \notin Above[c]
    /\ todo' = todo \ {d}
    /\ \/ At(d) = Dir /\ IsEmpty(d) /\ disk' = Put({d}, Absent)
       \/ ~(At(d) = Dir /\ IsEmpty(d)) /\ UNCHANGED disk
       \/ "prune" \in Faults /\ UNCHANGED disk
    /\ UNCHANGED <<setup, local, manifest, pc, old, progress, failed, faulty, runs, history>>

EndPrune ==
    /\ pc = "prune" /\ todo = {}
    /\ Enter("write", {})
    /\ UNCHANGED <<setup, local, disk, manifest, old, progress, runs, history, faulty>>

\* What a write of the manifest m that was cut short leaves: the manifest before it,
\* the new one or, between the two renames of a server that replaces a file in two
\* steps, none.
CutShort(m) ==
    \/ manifest' \in {manifest, m} /\ UNCHANGED forgot
    \/ "window" \in Faults /\ manifest' = Empty /\ forgot' = TRUE

\* The outcome of replacing the manifest by m: replaced, or failed.
WriteManifest(m, success) ==
    /\ \/ manifest' = m /\ pc' = success /\ UNCHANGED <<faulty, unsure, forgot>>
       \/ /\ "write" \in Faults
          /\ CutShort(m) /\ pc' = "failed"
          /\ faulty' = TRUE /\ unsure' = TRUE
    /\ UNCHANGED <<todo, failed>>

\* The manifest of a complete run is the local tree.
WriteLocal ==
    /\ pc = "write"
    /\ WriteManifest(local, "done")
    /\ UNCHANGED <<setup, local, disk, old, progress, runs, tried, kept, stray>>

\* recoveryFilesGone, and the recovery of a failed upload or delete phase.
WriteRecoveryManifest ==
    /\ pc = "recover"
    /\ WriteManifest(MergedManifest(completed, preDeleted \cup deleted), "failed")
    /\ UNCHANGED <<setup, local, disk, old, progress, runs, tried, kept, stray>>

\* recoveryCollisionLive
WriteKeepingManifest ==
    /\ pc = "keep"
    /\ WriteManifest(CollisionLive, "failed")
    /\ kept' = TRUE
    /\ UNCHANGED <<setup, local, disk, old, progress, runs, tried, stray>>

-----------------------------------------------------------------------------
(* Around the runs. *)

\* A kill, in the middle of replacing the manifest too.
Kill ==
    /\ "kill" \in Faults /\ pc \in Working
    /\ pc' = "killed" /\ unsure' = TRUE
    /\ \/ UNCHANGED <<manifest, forgot>>
       \/ pc = "write" /\ CutShort(local)
       \/ pc = "recover" /\ CutShort(MergedManifest(completed, preDeleted \cup deleted))
       \/ pc = "keep" /\ CutShort(CollisionLive)
    /\ UNCHANGED <<setup, local, disk, old, phase, progress, runs, tried, kept, stray>>

\* A run that cannot read the manifest uploads files that it lists, and on a server that
\* replaces them in two steps may leave one of them aside.
NoneAside == ~forgot \/ ~({"window", "read"} \subseteq Faults)

\* A successful run that started from a trustworthy manifest leaves one.
Trustworthy == (~unsure /\ ~kept) \/ (Cardinality(tried) = 1 /\ NoneAside)

\* The next tree to deploy.
Edit ==
    /\ pc \in Resting /\ runs < MaxRuns
    /\ local' \in Trees \ {local}
    /\ IF pc = "done" /\ Trustworthy
       THEN /\ tried' = {} /\ unsure' = FALSE /\ kept' = FALSE /\ UNCHANGED forgot
            /\ stray' = (EmptyDirs # {})
       ELSE UNCHANGED history
    /\ pc' = "idle"
    /\ UNCHANGED <<setup, disk, manifest, old, phase, progress, runs>>

\* Somebody else puts a file where nothing is.
PutForeign(p) ==
    /\ "foreign" \in Faults /\ pc \in Resting /\ runs < MaxRuns
    /\ At(p) = Absent /\ Makeable(p)
    /\ disk' = [Put(Above[p], Dir) EXCEPT ![Entry(p)] = Foreign]
    /\ UNCHANGED <<setup, local, manifest, pc, old, phase, progress, runs, history>>

Ended == pc \in Resting /\ runs = MaxRuns /\ UNCHANGED vars

Next ==
    \/ StartRun
    \/ \E p \in Paths : PreDelete(p) \/ ClearDir(p) \/ CreateDir(p) \/ UploadFile(p)
                        \/ Delete(p) \/ PruneEmptyDir(p)
    \/ EndPreDelete \/ EndClear \/ EndMkdirs \/ EndUpload \/ EndDelete \/ EndPrune
    \/ WriteLocal \/ WriteRecoveryManifest \/ WriteKeepingManifest
    \/ Kill \/ Edit
    \/ \E p \in Paths : PutForeign(p)
    \/ Ended

Spec == Init /\ [][Next]_vars

-----------------------------------------------------------------------------
(* Properties. *)

\* The server holds the local tree ...
Deployed == \A p \in Planned : At(p) = local[p]

\* ... and no other file that a sync put there.
NoLeftover == \A e \in Paths : disk[e] \in Hashes => \E p \in Planned : Entry(p) = e

\* A green sync is a mirror, after any number of failed, killed and half-recorded
\* runs of the same tree, and after orderly failures of other trees as well: no
\* file is skipped as unchanged that is not there and, if no run found the manifest
\* unreadable or lost it between the two renames of its replacement, none is left
\* over ("A missing or corrupt manifest degrades safely to upload everything, delete
\* nothing": executeSync, collidingDeletes, mergedManifest, readManifest).
GreenMeansMirror ==
    pc = "done" /\ Trustworthy => Deployed /\ (forgot \/ NoLeftover)

\* What somebody else put on the server is still there after a run, unless the
\* tree has a file of that name, as long as the manifest is trustworthy
\* ("Only files listed in the manifest are ever deleted").
ForeignSurvives ==
    [][\A e \in Paths :
        disk[e] = Foreign /\ ~unsure /\ ~kept =>
            disk'[e] = Foreign \/ \E p \in Planned : Entry(p) = e]_vars

\* No directory has a second spelling that the server takes for the same name:
\* collidingDeletes folds whole paths only, and does not see that a file "A" is in
\* the way of "a/b".
OneSpellingPerDir ==
    \A q \in Paths : \A d \in Above[q], e \in Paths : Entry(e) = Entry(d) => e = d

\* A retry succeeds once nothing fails any more, as long as every run got to write
\* its manifest and nobody else uses the target: no run fails on something an
\* earlier run of the same tree left behind, although requests of it failed with
\* effect, unless that is an empty directory which was there before the tree was
\* first deployed, or whose last file went in a pre-delete that another file's
\* removal failed (recoveryFilesGone drops the file, so clearCollideParents never
\* meets the directory again).  recoveryCollisionLive, clearCollideParents:
\* "the retry's pre-pass ... removes the directory that stayed behind".
RetrySucceeds ==
    /\ pc = "failed" /\ ~faulty
    /\ ~stray /\ OneSpellingPerDir /\ Faults \subseteq {"lost", "prune", "window"}
    => Cardinality(tried) > 1

\* mergedManifest: "the manifest keeps matching what is really on the server":
\* after a failed run whose manifest was written and whose requests were all
\* answered, the next green run is a mirror whatever was edited in between.
FailureIsRecorded == pc = "done" /\ ~unsure => Deployed
=============================================================================
