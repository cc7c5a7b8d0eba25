----------------------------- MODULE SyncProofs -----------------------------
(***************************************************************************)
(* Sync, for every set of paths, contents, trees and setups and any number *)
(* of runs: what the manifest may be relied on for after every kind of     *)
(* failure, hence what a green run shows, what a sync never touches and    *)
(* why a retry succeeds.                                                   *)
(***************************************************************************)
EXTENDS SyncRun, FiniteSetTheorems, WellFoundedInduction, TLAPS

InRun == pc \in Working

Listings == [Paths -> Hashes \cup {Absent}]
Disks == [Paths -> Hashes \cup {Absent, Dir, Foreign}]

\* The directory entry of every path.
Entries == [p \in Paths |-> Entry(p)]

\* The manifest that would be true now: the one the run read, with the requests that
\* were acknowledged.
Live == MergedManifest(completed, preDeleted \cup deleted)

\* What is, or will be, on record.
Recorded == IF InRun THEN Live ELSE manifest

-----------------------------------------------------------------------------
(* A listing m (a manifest or a tree) and a server's files d, under the    *)
(* entries ent.                                                            *)

\* No two files of a listing are one directory entry.
OneNameEach(ent, m) ==
    \A p, q \in Paths : m[p] # Absent /\ m[q] # Absent /\ ent[p] = ent[q] => p = q

\* Every file m lists is on the server ...
IsTrue(ent, d, m) == \A p \in Paths : m[p] # Absent => d[ent[p]] = m[p]

\* ... and it lists every file that a sync put there.
Covers(ent, d, m) ==
    \A e \in Paths : d[e] \in Hashes => \E p \in Paths : m[p] # Absent /\ ent[p] = e

\* What a run of the tree t would skip as unchanged is there ...
SkipsRightly(ent, d, t, m) ==
    \A p \in Paths : t[p] # Absent /\ m[p] = t[p] => d[ent[p]] = t[p]

\* ... and what it would neither delete nor overwrite is not.
LeavesNothing(ent, d, t, m) ==
    \A e \in Paths : d[e] \in Hashes =>
        \E p \in Paths : (m[p] # Absent \/ t[p] # Absent) /\ ent[p] = e

-----------------------------------------------------------------------------
(* The inductive invariant. *)

\* Where a run is in its plan.
RunShape ==
    InRun =>
        /\ local \in tried
        /\ old = manifest \/ (old = Empty /\ forgot /\ "read" \in Faults)
        /\ completed \subseteq Upload(old)
        /\ preDeleted \subseteq Colliding(old) /\ deleted \subseteq Rest(old)
        /\ pc = "preDelete" =>
              /\ todo \subseteq Colliding(old) \ preDeleted
              /\ failed \/ todo \cup preDeleted = Colliding(old)
        /\ pc \notin {"preDelete", "recover"} => preDeleted = Colliding(old)
        /\ pc \in {"preDelete", "clear", "keep", "mkdirs"} => completed = {}
        /\ completed # {} => preDeleted = Colliding(old)
        /\ pc = "upload" =>
              /\ todo \subseteq Upload(old) \ completed
              /\ failed \/ todo \cup completed = Upload(old)
        /\ pc \in {"delete", "prune", "write"} => completed = Upload(old)
        /\ pc \in {"preDelete", "clear", "keep", "mkdirs", "upload"} => deleted = {}
        /\ pc = "delete" =>
              /\ todo \subseteq Rest(old) \ deleted
              /\ failed \/ todo \cup deleted = Rest(old)
        /\ pc \in {"prune", "write"} => deleted = Rest(old)

OneName == OneNameEach(Entries, manifest) /\ (InRun => OneNameEach(Entries, old))

\* As long as everything was recorded, the record is true, whatever was deployed.
Clean ==
    ~unsure /\ ~kept =>
        IsTrue(Entries, disk, Recorded) /\ (forgot \/ Covers(Entries, disk, Recorded))

\* What the tree t needs of the listing m.
Serves(t, m) ==
    SkipsRightly(Entries, disk, t, m) /\ (forgot \/ LeavesNothing(Entries, disk, t, m))

\* As long as one tree was deployed, the record serves that tree, whatever happened.
SameTree ==
    /\ tried = {} => ~unsure /\ ~kept
    /\ NoneAside => \A t \in tried : tried = {t} => Serves(t, manifest) /\ Serves(t, Recorded)

WellDone == pc = "done" => manifest = local /\ local \in tried

Inv ==
    /\ TypeOK /\ IsFiniteSet(tried)
    /\ RunShape /\ OneName /\ Clean /\ SameTree /\ WellDone

-----------------------------------------------------------------------------
(* Facts about listings, entries and files. *)

LEMMA Kinds ==
    /\ \A c \in Hashes : c # Absent /\ c # Dir /\ c # Foreign
    /\ Absent # Dir /\ Absent # Foreign /\ Dir # Foreign
  BY SyncAssumption DEF Absent, Dir, Foreign

\* A change of directories, or of what is no sync's file, is none to a listing.
LEMMA FilesUntouched ==
    ASSUME Entries \in [Paths -> Paths], disk \in Disks, disk' \in Disks,
           NEW m \in Listings, NEW t \in Listings,
           \A e \in Paths : disk[e] \in Hashes \/ disk'[e] \in Hashes => disk'[e] = disk[e]
    PROVE  /\ IsTrue(Entries, disk, m) => IsTrue(Entries, disk', m)
           /\ Covers(Entries, disk, m) => Covers(Entries, disk', m)
           /\ SkipsRightly(Entries, disk, t, m) => SkipsRightly(Entries, disk', t, m)
           /\ LeavesNothing(Entries, disk, t, m) => LeavesNothing(Entries, disk', t, m)
<1>1. \A p \in Paths : (m[p] # Absent => m[p] \in Hashes) /\ (t[p] # Absent => t[p] \in Hashes)
  BY DEF Listings
<1>2. IsTrue(Entries, disk, m) => IsTrue(Entries, disk', m)
  BY <1>1 DEF IsTrue
<1>3. Covers(Entries, disk, m) => Covers(Entries, disk', m)
  BY DEF Covers
<1>4. SkipsRightly(Entries, disk, t, m) => SkipsRightly(Entries, disk', t, m)
  BY <1>1 DEF SkipsRightly
<1>5. LeavesNothing(Entries, disk, t, m) => LeavesNothing(Entries, disk', t, m)
  BY DEF LeavesNothing
<1> QED
  BY <1>2, <1>3, <1>4, <1>5

\* The entry of a listed file is emptied, and the file taken off the list.
LEMMA FileRemoved ==
    ASSUME Entries \in [Paths -> Paths], disk \in Disks, disk' \in Disks,
           NEW m \in Listings, NEW m2 \in Listings, NEW p \in Paths,
           disk' = [disk EXCEPT ![Entries[p]] = Absent], m2 = [m EXCEPT ![p] = Absent],
           m[p] # Absent, OneNameEach(Entries, m)
    PROVE  /\ IsTrue(Entries, disk, m) => IsTrue(Entries, disk', m2)
           /\ Covers(Entries, disk, m) => Covers(Entries, disk', m2)
<1>1. \A e \in Paths : disk'[e] = IF e = Entries[p] THEN Absent ELSE disk[e]
  BY DEF Disks
<1>2. \A q \in Paths : m2[q] = IF q = p THEN Absent ELSE m[q]
  BY DEF Listings
<1>3. ASSUME IsTrue(Entries, disk, m), NEW q \in Paths, m2[q] # Absent PROVE disk'[Entries[q]] = m2[q]
  <2>1. q # p /\ m2[q] = m[q] /\ disk[Entries[q]] = m[q]
    BY <1>2, <1>3 DEF IsTrue
  <2>2. Entries[q] # Entries[p]
    BY <2>1, <1>3 DEF OneNameEach
  <2> QED
    BY <1>1, <2>1, <2>2
<1>4. ASSUME Covers(Entries, disk, m), NEW e \in Paths, disk'[e] \in Hashes
      PROVE  \E q \in Paths : m2[q] # Absent /\ Entries[q] = e
  <2>1. e # Entries[p] /\ disk[e] \in Hashes
    BY <1>1, <1>4, Kinds
  <2>2. PICK q \in Paths : m[q] # Absent /\ Entries[q] = e
    BY <2>1, <1>4 DEF Covers
  <2> QED
    BY <2>1, <2>2, <1>2
<1> QED
  BY <1>3, <1>4 DEF IsTrue, Covers

\* A file is put under the entry of a path, and listed.
LEMMA FileWritten ==
    ASSUME Entries \in [Paths -> Paths], disk \in Disks, disk' \in Disks,
           NEW m \in Listings, NEW m2 \in Listings, NEW p \in Paths, NEW h \in Hashes,
           disk' = [disk EXCEPT ![Entries[p]] = h], m2 = [m EXCEPT ![p] = h],
           OneNameEach(Entries, m2)
    PROVE  /\ IsTrue(Entries, disk, m) => IsTrue(Entries, disk', m2)
           /\ Covers(Entries, disk, m) => Covers(Entries, disk', m2)
<1>1. \A e \in Paths : disk'[e] = IF e = Entries[p] THEN h ELSE disk[e]
  BY DEF Disks
<1>2. \A q \in Paths : m2[q] = IF q = p THEN h ELSE m[q]
  BY DEF Listings
<1>3. m2[p] = h /\ h # Absent
  BY <1>2, Kinds
<1>4. ASSUME IsTrue(Entries, disk, m), NEW q \in Paths, m2[q] # Absent PROVE disk'[Entries[q]] = m2[q]
  <2>1. CASE q = p
    BY <2>1, <1>1, <1>3
  <2>2. CASE q # p
    <3>1. m2[q] = m[q] /\ disk[Entries[q]] = m[q]
      BY <1>2, <1>4, <2>2 DEF IsTrue
    <3>2. Entries[q] # Entries[p]
      BY <1>3, <1>4, <2>2 DEF OneNameEach
    <3> QED
      BY <1>1, <3>1, <3>2
  <2> QED
    BY <2>1, <2>2
<1>5. ASSUME Covers(Entries, disk, m), NEW e \in Paths, disk'[e] \in Hashes
      PROVE  \E q \in Paths : m2[q] # Absent /\ Entries[q] = e
  <2>1. CASE e = Entries[p]
    BY <2>1, <1>3
  <2>2. CASE e # Entries[p]
    <3>1. PICK q \in Paths : m[q] # Absent /\ Entries[q] = e
      BY <1>1, <1>5, <2>2 DEF Covers
    <3> QED
      BY <1>2, <1>3, <3>1
  <2> QED
    BY <2>1, <2>2
<1> QED
  BY <1>4, <1>5 DEF IsTrue, Covers

\* The entry of a file is emptied that no run of t takes for unchanged, and m2 is m without
\* the file, or m.
LEMMA EntryEmptied ==
    ASSUME Entries \in [Paths -> Paths], disk \in Disks, disk' \in Disks,
           NEW t \in Listings, NEW m \in Listings, NEW m2 \in Listings, NEW p \in Paths,
           disk' = [disk EXCEPT ![Entries[p]] = Absent],
           m2 = m \/ m2 = [m EXCEPT ![p] = Absent],
           \A q \in Paths : t[q] # Absent /\ m[q] = t[q] => Entries[q] # Entries[p]
    PROVE  /\ SkipsRightly(Entries, disk, t, m) => SkipsRightly(Entries, disk', t, m2)
           /\ LeavesNothing(Entries, disk, t, m) => LeavesNothing(Entries, disk', t, m2)
<1>1. \A e \in Paths : disk'[e] = IF e = Entries[p] THEN Absent ELSE disk[e]
  BY DEF Disks
<1>2. \A q \in Paths : q # p => m2[q] = m[q]
  BY DEF Listings
<1>3. ASSUME SkipsRightly(Entries, disk, t, m), NEW q \in Paths, t[q] # Absent, m2[q] = t[q]
      PROVE  disk'[Entries[q]] = t[q]
  <2>1. m[q] = t[q]
    <3>1. CASE q = p
      BY <1>3, <3>1 DEF Listings
    <3>2. CASE q # p
      BY <1>2, <1>3, <3>2
    <3> QED
      BY <3>1, <3>2
  <2>2. disk[Entries[q]] = t[q] /\ Entries[q] # Entries[p] /\ Entries[q] \in Paths
    BY <1>3, <2>1 DEF SkipsRightly
  <2> QED
    BY <1>1, <2>2
<1>4. ASSUME LeavesNothing(Entries, disk, t, m), NEW e \in Paths, disk'[e] \in Hashes
      PROVE  \E q \in Paths : (m2[q] # Absent \/ t[q] # Absent) /\ Entries[q] = e
  <2>1. e # Entries[p] /\ disk[e] \in Hashes
    BY <1>1, <1>4, Kinds
  <2>2. PICK q \in Paths : (m[q] # Absent \/ t[q] # Absent) /\ Entries[q] = e
    BY <2>1, <1>4 DEF LeavesNothing
  <2> QED
    BY <2>1, <2>2, <1>2
<1> QED
  BY <1>3, <1>4 DEF SkipsRightly, LeavesNothing

\* A planned file is put on the server, and m2 is m with it, or m.
LEMMA PlannedWritten ==
    ASSUME Entries \in [Paths -> Paths], disk \in Disks, disk' \in Disks,
           NEW t \in Listings, NEW m \in Listings, NEW m2 \in Listings, NEW p \in Paths,
           disk' = [disk EXCEPT ![Entries[p]] = t[p]], t[p] # Absent, OneNameEach(Entries, t),
           m2 = m \/ m2 = [m EXCEPT ![p] = t[p]]
    PROVE  /\ SkipsRightly(Entries, disk, t, m) => SkipsRightly(Entries, disk', t, m2)
           /\ LeavesNothing(Entries, disk, t, m) => LeavesNothing(Entries, disk', t, m2)
<1>1. \A e \in Paths : disk'[e] = IF e = Entries[p] THEN t[p] ELSE disk[e]
  BY DEF Disks
<1>2. /\ \A q \in Paths : q # p => m2[q] = m[q]
      /\ \A q \in Paths : m[q] # Absent => m2[q] # Absent
  BY DEF Listings
<1>3. ASSUME SkipsRightly(Entries, disk, t, m), NEW q \in Paths, t[q] # Absent, m2[q] = t[q]
      PROVE  disk'[Entries[q]] = t[q]
  <2>1. CASE q = p
    BY <2>1, <1>1
  <2>2. CASE q # p
    BY <1>1, <1>2, <1>3, <2>2 DEF SkipsRightly, OneNameEach
  <2> QED
    BY <2>1, <2>2
<1>4. ASSUME LeavesNothing(Entries, disk, t, m), NEW e \in Paths, disk'[e] \in Hashes
      PROVE  \E q \in Paths : (m2[q] # Absent \/ t[q] # Absent) /\ Entries[q] = e
  <2>1. CASE e = Entries[p]
    BY <2>1
  <2>2. CASE e # Entries[p]
    <3>1. PICK q \in Paths : (m[q] # Absent \/ t[q] # Absent) /\ Entries[q] = e
      BY <1>1, <1>4, <2>2 DEF LeavesNothing
    <3> QED
      BY <3>1, <1>2
  <2> QED
    BY <2>1, <2>2
<1> QED
  BY <1>3, <1>4 DEF SkipsRightly, LeavesNothing

-----------------------------------------------------------------------------
(* Facts about the state of a run. *)

LEMMA EntryFacts ==
    ASSUME TypeOK
    PROVE  /\ \A p \in Paths : Entry(p) \in Paths
           /\ Entries \in [Paths -> Paths]
           /\ \A p \in Paths : Entries[p] = Entry(p)
<1>1. \A p \in Paths : Entry(p) \in Paths
  BY SyncAssumption DEF Entry
<1> QED
  BY <1>1 DEF Entries

LEMMA EntriesStay ==
    ASSUME setup' = setup PROVE Entries' = Entries
  BY DEF Entries, Entry

\* What a Put does to the server.
LEMMA PutFacts ==
    ASSUME TypeOK, NEW S \in SUBSET Paths, NEW c \in Hashes \cup {Absent, Dir, Foreign}
    PROVE  /\ Put(S, c) \in Disks
           /\ \A e \in Paths : Put(S, c)[e] = IF \E p \in S : e = Entry(p) THEN c ELSE disk[e]
  BY DEF Put, TypeOK, Disks

\* Put on one path.
LEMMA PutOne ==
    ASSUME TypeOK, NEW p \in Paths, NEW c \in Hashes \cup {Absent, Dir, Foreign}
    PROVE  Put({p}, c) = [disk EXCEPT ![Entries[p]] = c]
<1>1. Entries[p] = Entry(p) /\ Entry(p) \in Paths
  BY EntryFacts
<1>2. \A e \in Paths : (\E q \in {p} : e = Entry(q)) <=> e = Entry(p)
  OBVIOUS
<1>3. disk \in [Paths -> Hashes \cup {Absent, Dir, Foreign}]
  BY DEF TypeOK
<1> QED
  BY <1>1, <1>2, <1>3 DEF Put

\* A tree has one file for an entry.
LEMMA TreeNames ==
    ASSUME TypeOK
    PROVE  local \in Listings /\ OneNameEach(Entries, local)
<1>1. setup \in Setups /\ local \in setup.trees
  BY DEF TypeOK, Trees
<1>2. local \in Listings
  BY <1>1, SyncAssumption DEF Listings
<1>3. ASSUME NEW p \in Paths, NEW q \in Paths, local[p] # Absent, local[q] # Absent,
             Entries[p] = Entries[q]
      PROVE  p = q
  <2>1. Entry(p) = Entry(q)
    BY <1>3, EntryFacts
  <2>2. CASE setup.insensitive
    BY <1>1, <1>3, <2>1, <2>2, TreesFit DEF Entry
  <2>3. CASE ~setup.insensitive
    BY <2>1, <2>3 DEF Entry
  <2> QED
    BY <2>2, <2>3
<1> QED
  BY <1>2, <1>3 DEF OneNameEach

\* The parts of a plan.
LEMMA PlanFacts ==
    ASSUME TypeOK, NEW m \in Listings
    PROVE  /\ Upload(m) \in SUBSET Paths /\ Colliding(m) \in SUBSET Paths
           /\ Rest(m) \in SUBSET Paths
           /\ \A p \in Upload(m) : local[p] \in Hashes /\ local[p] # Absent
           /\ \A p \in Paths : p \notin Upload(m) /\ local[p] # Absent => m[p] = local[p]
           /\ \A p \in Colliding(m) \cup Rest(m) :
                local[p] = Absent /\ m[p] # Absent /\ m[p] \in Hashes
           /\ \A p \in Paths : local[p] = Absent /\ m[p] # Absent => p \in Colliding(m) \cup Rest(m)
           /\ Colliding(m) \cap Rest(m) = {}
<1>1. local \in Listings
  BY TreeNames
<1> QED
  BY <1>1 DEF Listings, Upload, Planned, Colliding, Rest, ToDelete

\* A stale file under the name of a planned one is in the way of the upload.
LEMMA SameNameCollides ==
    ASSUME TypeOK, NEW m \in Listings, NEW p \in Paths, NEW q \in Paths,
           m[p] # Absent, local[p] = Absent, local[q] # Absent, Entries[p] = Entries[q]
    PROVE  p \in Colliding(m)
<1>1. Entry(p) = Entry(q)
  BY EntryFacts
<1>2. FoldPath[p] = FoldPath[q]
  BY <1>1 DEF Entry
<1> QED
  BY <1>2 DEF Colliding, ToDelete, Planned

LEMMA PlanStays ==
    ASSUME local' = local, old' = old
    PROVE  /\ Upload(old)' = Upload(old)
           /\ Colliding(old)' = Colliding(old)
           /\ Rest(old)' = Rest(old)
  BY DEF Upload, Planned, Colliding, Rest, ToDelete

LEMMA DirsFacts ==
    ASSUME TypeOK, NEW m \in Listings, NEW S \in SUBSET Paths
    PROVE  CollideDirs(m) \in SUBSET Paths /\ DirsForFiles(S) \in SUBSET Paths
<1>1. \A p \in Paths : Above[p] \in SUBSET Paths
  BY SyncAssumption
<1>2. Colliding(m) \in SUBSET Paths
  BY PlanFacts
<1> QED
  BY <1>1, <1>2 DEF CollideDirs, DirsForFiles

LEMMA MergedFacts ==
    ASSUME TypeOK, NEW done, NEW gone
    PROVE  /\ MergedManifest(done, gone) \in Listings
           /\ \A p \in Paths : MergedManifest(done, gone)[p] =
                IF p \in gone THEN Absent ELSE IF p \in done THEN local[p] ELSE old[p]
<1>1. local \in Listings /\ old \in Listings
  BY TreeNames DEF TypeOK, Listings
<1> QED
  BY <1>1 DEF MergedManifest, Listings

-----------------------------------------------------------------------------
(* Types. *)

LEMMA InitTyped ==
    Init => TypeOK
<1> SUFFICES ASSUME Init PROVE TypeOK
  OBVIOUS
<1>1. Empty \in [Paths -> Hashes \cup {Absent}]
  BY DEF Empty
<1>2. Empty \in [Paths -> Hashes \cup {Absent, Dir, Foreign}]
  BY DEF Empty
<1>3. 0 \in 0 .. MaxRuns
  BY SyncAssumption
<1> QED
  BY <1>1, <1>2, <1>3 DEF Init, TypeOK, Resting, Trees


LEMMA RequestTyped ==
    ASSUME TypeOK, NEW S \in SUBSET Paths, NEW c \in Hashes \cup {Absent, Dir, Foreign},
           NEW can, Done(can, Put(S, c)) \/ Fails(can, Put(S, c))
    PROVE  disk' \in Disks /\ failed' \in BOOLEAN /\ faulty' \in BOOLEAN /\ unsure' \in BOOLEAN
<1>1. Put(S, c) \in Disks /\ disk \in Disks
  BY PutFacts DEF TypeOK, Disks
<1>2. failed \in BOOLEAN /\ faulty \in BOOLEAN /\ unsure \in BOOLEAN
  BY DEF TypeOK
<1> QED
  BY <1>1, <1>2 DEF Done, Fails

\* A write cut short leaves a manifest, the empty one included.
LEMMA CutTyped ==
    ASSUME TypeOK, NEW m \in Listings, CutShort(m)
    PROVE  manifest' \in Listings /\ forgot' \in BOOLEAN
<1>1. manifest \in Listings /\ forgot \in BOOLEAN /\ Empty \in Listings
  BY DEF TypeOK, Listings, Empty
<1> QED
  BY <1>1 DEF CutShort

LEMMA WriteTyped ==
    ASSUME TypeOK, NEW m \in Listings, NEW success \in Resting, WriteManifest(m, success)
    PROVE  /\ manifest' \in Listings /\ pc' \in Resting
           /\ faulty' \in BOOLEAN /\ unsure' \in BOOLEAN /\ forgot' \in BOOLEAN
           /\ todo' = todo /\ failed' = failed
<1>1. faulty \in BOOLEAN /\ unsure \in BOOLEAN /\ forgot \in BOOLEAN
  BY DEF TypeOK
<1>2. CutShort(m) => manifest' \in Listings /\ forgot' \in BOOLEAN
  BY CutTyped
<1> QED
  BY <1>1, <1>2 DEF WriteManifest, Resting

LEMMA StepTyped ==
    TypeOK /\ [Next]_vars => TypeOK'
<1> SUFFICES ASSUME TypeOK, [Next]_vars PROVE TypeOK'
  OBVIOUS
<1> DEFINE Same == setup' = setup /\ local' = local
<1>T. /\ setup \in Setups /\ local \in Trees /\ disk \in Disks /\ manifest \in Listings
      /\ pc \in Resting \cup Working /\ old \in Listings /\ todo \in SUBSET Paths
      /\ completed \in SUBSET Paths /\ preDeleted \in SUBSET Paths /\ deleted \in SUBSET Paths
      /\ failed \in BOOLEAN /\ faulty \in BOOLEAN /\ runs \in 0 .. MaxRuns
      /\ tried \in SUBSET Trees
      /\ unsure \in BOOLEAN /\ kept \in BOOLEAN /\ forgot \in BOOLEAN /\ stray \in BOOLEAN
  BY DEF TypeOK, Disks, Listings
<1>L. setup' = setup => Trees' = Trees
  BY DEF Trees
<1>W. \A l \in {"preDelete", "clear", "mkdirs", "upload", "delete", "prune", "write",
                "recover", "keep", "done", "failed", "killed", "idle"} :
        l \in Resting \cup Working
  BY DEF Resting, Working
<1>P. /\ Upload(old) \in SUBSET Paths /\ Colliding(old) \in SUBSET Paths
      /\ Rest(old) \in SUBSET Paths /\ CollideDirs(old) \in SUBSET Paths
      /\ DirsForFiles(Upload(old)) \in SUBSET Paths /\ DirsForFiles(deleted) \in SUBSET Paths
  BY <1>T, PlanFacts, DirsFacts
<1>M. /\ MergedManifest(completed, preDeleted \cup deleted) \in Listings
      /\ CollisionLive \in Listings /\ local \in Listings
  BY MergedFacts, TreeNames DEF CollisionLive
<1> USE DEF Listings, Disks
<1>1. CASE StartRun
  <2>1. Empty \in Listings
    BY DEF Empty
  <2>2. old' \in Listings /\ forgot' \in BOOLEAN
    BY <1>1, <1>T, <2>1 DEF StartRun
  <2>3. runs' \in 0 .. MaxRuns
    BY <1>1, <1>T, SyncAssumption DEF StartRun
  <2>4. PICK m \in Listings : m = old'
    BY <2>2
  <2>5. Colliding(m) \in SUBSET Paths /\ DirsForFiles(Upload(m)) \in SUBSET Paths
    BY PlanFacts, DirsFacts
  <2>6. FirstPhase(m) \/ Enter("failed", {})
    BY <1>1, <2>4 DEF StartRun
  <2>7. todo' \in SUBSET Paths /\ pc' \in Resting \cup Working /\ failed' \in BOOLEAN
    BY <2>5, <2>6, <1>W DEF FirstPhase, Enter
  <2>8. /\ completed' = {} /\ preDeleted' = {} /\ deleted' = {} /\ faulty' \in BOOLEAN
        /\ tried' = tried \cup {local} /\ setup' = setup /\ local' = local /\ disk' = disk
        /\ manifest' = manifest /\ unsure' = unsure /\ kept' = kept /\ stray' = stray
    BY <1>1 DEF StartRun
  <2> QED
    BY <1>T, <1>L, <2>2, <2>3, <2>7, <2>8 DEF TypeOK
<1>2. ASSUME NEW p \in Paths, PreDelete(p) PROVE TypeOK'
  <2>1. disk' \in Disks /\ failed' \in BOOLEAN /\ faulty' \in BOOLEAN /\ unsure' \in BOOLEAN
    BY <1>2, RequestTyped DEF PreDelete
  <2>2. /\ todo' \in SUBSET Paths /\ preDeleted' \in SUBSET Paths
        /\ setup' = setup /\ local' = local /\ manifest' = manifest /\ pc' = pc /\ old' = old
        /\ completed' = completed /\ deleted' = deleted /\ runs' = runs /\ tried' = tried
        /\ kept' = kept /\ forgot' = forgot /\ stray' = stray
    BY <1>2, <1>T DEF PreDelete
  <2> QED
    BY <1>T, <1>L, <2>1, <2>2 DEF TypeOK
<1>3. ASSUME NEW d \in Paths, ClearDir(d) PROVE TypeOK'
  <2>1. disk' \in Disks /\ failed' \in BOOLEAN /\ faulty' \in BOOLEAN /\ unsure' \in BOOLEAN
    <3> DEFINE gone == At(d) = Absent \/ (At(d) = Dir /\ IsEmpty(d))
    <3>1. Done(gone, Put({d}, Absent)) \/ Fails(gone, Put({d}, Absent))
      BY <1>3 DEF ClearDir
    <3> HIDE DEF gone
    <3> QED
      BY <3>1, RequestTyped
  <2>2. /\ todo' \in SUBSET Paths /\ pc' \in Resting \cup Working
        /\ setup' = setup /\ local' = local /\ manifest' = manifest /\ old' = old
        /\ completed' = completed /\ preDeleted' = preDeleted /\ deleted' = deleted
        /\ runs' = runs /\ tried' = tried
        /\ kept' = kept /\ forgot' = forgot /\ stray' = stray
    BY <1>3, <1>T, <1>W DEF ClearDir, progress
  <2> QED
    BY <1>T, <1>L, <2>1, <2>2 DEF TypeOK
<1>4. ASSUME NEW d \in Paths, CreateDir(d) PROVE TypeOK'
  <2>1. Above[d] \cup {d} \in SUBSET Paths
    BY SyncAssumption
  <2>2. disk' \in Disks /\ failed' \in BOOLEAN /\ faulty' \in BOOLEAN /\ unsure' \in BOOLEAN
    BY <1>4, <2>1, RequestTyped DEF CreateDir
  <2>3. /\ todo' \in SUBSET Paths /\ pc' = pc
        /\ setup' = setup /\ local' = local /\ manifest' = manifest /\ old' = old
        /\ completed' = completed /\ preDeleted' = preDeleted /\ deleted' = deleted
        /\ runs' = runs /\ tried' = tried
        /\ kept' = kept /\ forgot' = forgot /\ stray' = stray
    BY <1>4, <1>T DEF CreateDir, progress
  <2> QED
    BY <1>T, <1>L, <2>2, <2>3 DEF TypeOK
<1>5. ASSUME NEW p \in Paths, UploadFile(p) PROVE TypeOK'
  <2>1. local[p] \in Hashes \cup {Absent}
    BY TreeNames
  <2>2. disk' \in Disks /\ failed' \in BOOLEAN /\ faulty' \in BOOLEAN /\ unsure' \in BOOLEAN
    <3>1. Put({p}, Absent) \in Disks
      BY PutFacts
    <3> QED
      BY <1>5, <2>1, <3>1, RequestTyped DEF UploadFile, Stranded
  <2>3. /\ todo' \in SUBSET Paths /\ completed' \in SUBSET Paths
        /\ setup' = setup /\ local' = local /\ manifest' = manifest /\ pc' = pc /\ old' = old
        /\ preDeleted' = preDeleted /\ deleted' = deleted /\ runs' = runs /\ tried' = tried
        /\ kept' = kept /\ forgot' = forgot /\ stray' = stray
    BY <1>5, <1>T DEF UploadFile
  <2> QED
    BY <1>T, <1>L, <2>2, <2>3 DEF TypeOK
<1>6. ASSUME NEW p \in Paths, Delete(p) PROVE TypeOK'
  <2>1. disk' \in Disks /\ failed' \in BOOLEAN /\ faulty' \in BOOLEAN /\ unsure' \in BOOLEAN
    BY <1>6, RequestTyped DEF Delete
  <2>2. /\ todo' \in SUBSET Paths /\ deleted' \in SUBSET Paths
        /\ setup' = setup /\ local' = local /\ manifest' = manifest /\ pc' = pc /\ old' = old
        /\ completed' = completed /\ preDeleted' = preDeleted /\ runs' = runs /\ tried' = tried
        /\ kept' = kept /\ forgot' = forgot /\ stray' = stray
    BY <1>6, <1>T DEF Delete
  <2> QED
    BY <1>T, <1>L, <2>1, <2>2 DEF TypeOK
<1>7. ASSUME NEW d \in Paths, PruneEmptyDir(d) PROVE TypeOK'
  <2>1. Put({d}, Absent) \in Disks
    BY PutFacts
  <2>2. disk' \in Disks /\ todo' \in SUBSET Paths
    BY <1>7, <1>T, <2>1 DEF PruneEmptyDir
  <2>3. /\ setup' = setup /\ local' = local /\ manifest' = manifest /\ pc' = pc /\ old' = old
        /\ completed' = completed /\ preDeleted' = preDeleted /\ deleted' = deleted
        /\ failed' = failed /\ faulty' = faulty /\ unsure' = unsure
        /\ runs' = runs /\ tried' = tried
        /\ kept' = kept /\ forgot' = forgot /\ stray' = stray
    BY <1>7 DEF PruneEmptyDir, progress, history
  <2> QED
    BY <1>T, <1>L, <2>2, <2>3 DEF TypeOK
<1>8. CASE EndPreDelete \/ EndClear \/ EndMkdirs \/ EndUpload \/ EndDelete \/ EndPrune
  <2>1. todo' \in SUBSET Paths /\ pc' \in Resting \cup Working /\ failed' \in BOOLEAN
    BY <1>8, <1>P, <1>W
       DEF EndPreDelete, EndClear, EndMkdirs, EndUpload, EndDelete, EndPrune, Enter
  <2>2. /\ setup' = setup /\ local' = local /\ disk' = disk /\ manifest' = manifest /\ old' = old
        /\ completed' = completed /\ preDeleted' = preDeleted /\ deleted' = deleted
        /\ faulty' = faulty /\ unsure' = unsure /\ runs' = runs /\ tried' = tried
        /\ kept' = kept /\ forgot' = forgot
    BY <1>8 DEF EndPreDelete, EndClear, EndMkdirs, EndUpload, EndDelete, EndPrune,
                progress, history
  <2>3. stray' \in BOOLEAN
    <3>1. (stray \/ EmptyDirs # {}) \in BOOLEAN /\ stray \in BOOLEAN
      BY <1>T DEF TypeOK
    <3> QED
      BY <1>8, <3>1 DEF EndPreDelete, EndClear, EndMkdirs, EndUpload, EndDelete, EndPrune, history
  <2> QED
    BY <1>T, <1>L, <2>1, <2>2, <2>3 DEF TypeOK
<1>9. CASE WriteLocal \/ WriteRecoveryManifest \/ WriteKeepingManifest
  <2>1. PICK m \in Listings, success \in Resting : WriteManifest(m, success)
    BY <1>9, <1>M DEF WriteLocal, WriteRecoveryManifest, WriteKeepingManifest, Resting
  <2>2. /\ manifest' \in Listings /\ pc' \in Resting
        /\ faulty' \in BOOLEAN /\ unsure' \in BOOLEAN /\ forgot' \in BOOLEAN
        /\ todo' = todo /\ failed' = failed
    BY <2>1, WriteTyped
  <2>3. /\ setup' = setup /\ local' = local /\ disk' = disk /\ old' = old
        /\ completed' = completed /\ preDeleted' = preDeleted /\ deleted' = deleted
        /\ runs' = runs /\ tried' = tried
        /\ kept' \in BOOLEAN /\ stray' = stray
    BY <1>9, <1>T DEF WriteLocal, WriteRecoveryManifest, WriteKeepingManifest, progress
  <2> QED
    BY <1>T, <1>L, <2>2, <2>3 DEF TypeOK
<1>10. CASE Kill
  <2>1. manifest' \in Listings /\ forgot' \in BOOLEAN
    BY <1>10, <1>M, <1>T, CutTyped DEF Kill
  <2> QED
    BY <1>10, <1>T, <1>L, <1>W, <2>1 DEF Kill, TypeOK, phase, progress
<1>11. CASE Edit
  <2>1. /\ tried' \in SUBSET Trees /\ unsure' \in BOOLEAN /\ kept' \in BOOLEAN
        /\ forgot' \in BOOLEAN /\ stray' \in BOOLEAN
    BY <1>11, <1>T DEF Edit, history
  <2>2. /\ local' \in Trees /\ pc' \in Resting \cup Working
        /\ setup' = setup /\ disk' = disk /\ manifest' = manifest /\ old' = old
        /\ todo' = todo /\ failed' = failed /\ faulty' = faulty
        /\ completed' = completed /\ preDeleted' = preDeleted /\ deleted' = deleted
        /\ runs' = runs
    BY <1>11, <1>W DEF Edit, phase, progress
  <2> QED
    BY <1>T, <1>L, <2>1, <2>2 DEF TypeOK
<1>12. ASSUME NEW p \in Paths, PutForeign(p) PROVE TypeOK'
  <2>1. Above[p] \in SUBSET Paths
    BY SyncAssumption
  <2>2. Put(Above[p], Dir) \in Disks
    BY <2>1, PutFacts
  <2>3. disk' \in Disks
    BY <1>12, <2>2 DEF PutForeign
  <2>4. UNCHANGED <<setup, local, manifest, pc, old, phase, progress, runs, history>>
    BY <1>12 DEF PutForeign
  <2> QED
    BY <1>T, <1>L, <2>3, <2>4 DEF TypeOK, phase, progress, history
<1>13. CASE UNCHANGED vars
  BY <1>13, <1>T, <1>L DEF vars, phase, progress, history, TypeOK
<1> QED
  BY <1>1, <1>2, <1>3, <1>4, <1>5, <1>6, <1>7, <1>8, <1>9, <1>10, <1>11, <1>12, <1>13
     DEF Next, Ended

\* Every variable keeps its type.
THEOREM TypeCorrect == Spec => []TypeOK
  BY InitTyped, StepTyped, PTL DEF Spec

-----------------------------------------------------------------------------
(* Where a run is in its plan. *)

\* What a phase starts with.
\* A behaviour is about one setup.
LEMMA SetupStays ==
    ASSUME [Next]_vars
    PROVE  setup' = setup /\ Faults' = Faults
<1>1. setup' = setup
  BY DEF Next, Ended, vars, StartRun, PreDelete, ClearDir, CreateDir, UploadFile, Delete,
         PruneEmptyDir, EndPreDelete, EndClear, EndMkdirs, EndUpload, EndDelete, EndPrune,
         WriteLocal, WriteRecoveryManifest, WriteKeepingManifest, Kill, Edit, PutForeign
<1> QED
  BY <1>1 DEF Faults

LEMMA PlanPicked ==
    ASSUME local' = local, NEW m \in Listings, old' = m
    PROVE  /\ Upload(old)' = Upload(m)
           /\ Colliding(old)' = Colliding(m)
           /\ Rest(old)' = Rest(m)
  BY DEF Upload, Planned, Colliding, Rest, ToDelete

LEMMA ShapeKept ==
    ASSUME TypeOK, RunShape, [Next]_vars
    PROVE  RunShape'
<1>W. /\ \A l \in {"preDelete", "clear", "mkdirs", "upload", "delete", "prune", "write",
                   "recover", "keep"} : l \in Working
      /\ \A l \in Resting : l \notin Working
      /\ \A l \in {"done", "failed", "killed", "idle"} : l \in Resting
  BY DEF Resting, Working
<1>F. Faults' = Faults
  BY SetupStays
<1>L. old \in Listings
  BY DEF TypeOK, Listings
<1>P. /\ Upload(old) \in SUBSET Paths /\ Colliding(old) \in SUBSET Paths
      /\ Rest(old) \in SUBSET Paths /\ Colliding(old) \cap Rest(old) = {}
  BY <1>L, PlanFacts
<1>S. local' = local /\ old' = old =>
        /\ Upload(old)' = Upload(old) /\ Colliding(old)' = Colliding(old)
        /\ Rest(old)' = Rest(old)
  BY PlanStays
<1>1. CASE StartRun
  <2>1. Empty \in Listings
    BY DEF Empty, Listings
  <2>2. manifest \in Listings
    BY DEF TypeOK, Listings
  <2>3. old' \in Listings /\ (old' = manifest \/ (old' = Empty /\ forgot' /\ "read" \in Faults))
    BY <1>1, <2>1, <2>2 DEF StartRun
  <2>4. PICK m \in Listings : m = old'
    BY <2>3
  <2>5. /\ local' = local /\ manifest' = manifest /\ tried' = tried \cup {local}
        /\ completed' = {} /\ preDeleted' = {} /\ deleted' = {}
        /\ FirstPhase(m) \/ Enter("failed", {})
    BY <1>1, <2>4 DEF StartRun
  <2>6. /\ Upload(old)' = Upload(m) /\ Colliding(old)' = Colliding(m) /\ Rest(old)' = Rest(m)
    BY <2>4, <2>5, PlanPicked
  <2>7. \/ pc' = "preDelete" /\ todo' = Colliding(m) /\ ~failed'
        \/ pc' = "mkdirs" /\ Colliding(m) = {}
        \/ pc' = "failed"
    BY <2>5 DEF FirstPhase, Enter
  <2>8. Empty' = Empty
    BY DEF Empty
  <2> QED
    BY <1>W, <1>F, <2>3, <2>5, <2>6, <2>7, <2>8 DEF RunShape, InRun
<1>2. ASSUME NEW p \in Paths, PreDelete(p) PROVE RunShape'
  <2>1. /\ pc = "preDelete" /\ p \in todo /\ todo' = todo \ {p} /\ pc' = pc
        /\ \/ preDeleted' = preDeleted \cup {p} /\ failed' = failed
           \/ preDeleted' = preDeleted /\ failed'
        /\ local' = local /\ manifest' = manifest /\ old' = old /\ completed' = completed
        /\ deleted' = deleted /\ tried' = tried /\ forgot' = forgot
    BY <1>2 DEF PreDelete, Done, Fails
  <2>2. Empty' = Empty
    BY DEF Empty
  <2>3. /\ todo \subseteq Colliding(old) \ preDeleted /\ preDeleted \subseteq Colliding(old)
        /\ failed \/ todo \cup preDeleted = Colliding(old)
    BY <2>1, <1>W DEF RunShape, InRun
  <2>4. /\ todo' \subseteq Colliding(old) \ preDeleted' /\ preDeleted' \subseteq Colliding(old)
        /\ failed' \/ todo' \cup preDeleted' = Colliding(old)
    <3>1. CASE preDeleted' = preDeleted \cup {p} /\ failed' = failed
      BY <2>1, <2>3, <3>1
    <3>2. CASE preDeleted' = preDeleted /\ failed'
      BY <2>1, <2>3, <3>2
    <3> QED
      BY <2>1, <3>1, <3>2
  <2> QED
    BY <1>W, <1>F, <1>S, <2>1, <2>2, <2>4 DEF RunShape, InRun
<1>3. ASSUME NEW d \in Paths, ClearDir(d) \/ CreateDir(d) \/ PruneEmptyDir(d) PROVE RunShape'
  <2>1. /\ \/ pc = "clear" /\ pc' \in {"clear", "keep"}
           \/ pc = "mkdirs" /\ pc' = pc
           \/ pc = "prune" /\ pc' = pc
        /\ local' = local /\ manifest' = manifest /\ old' = old /\ completed' = completed
        /\ preDeleted' = preDeleted /\ deleted' = deleted /\ tried' = tried /\ forgot' = forgot
    BY <1>3 DEF ClearDir, CreateDir, PruneEmptyDir, progress, history
  <2>2. Empty' = Empty
    BY DEF Empty
  <2> QED
    BY <1>W, <1>F, <1>S, <2>1, <2>2 DEF RunShape, InRun
<1>4. ASSUME NEW p \in Paths, UploadFile(p) PROVE RunShape'
  <2>1. /\ pc = "upload" /\ p \in todo /\ todo' = todo \ {p} /\ pc' = pc
        /\ \/ completed' = completed \cup {p} /\ failed' = failed
           \/ completed' = completed /\ failed'
        /\ local' = local /\ manifest' = manifest /\ old' = old /\ preDeleted' = preDeleted
        /\ deleted' = deleted /\ tried' = tried /\ forgot' = forgot
    BY <1>4 DEF UploadFile, Done, Fails, Stranded
  <2>2. Empty' = Empty
    BY DEF Empty
  <2>3. /\ todo \subseteq Upload(old) \ completed /\ completed \subseteq Upload(old)
        /\ failed \/ todo \cup completed = Upload(old)
    BY <2>1, <1>W DEF RunShape, InRun
  <2>4. /\ todo' \subseteq Upload(old) \ completed' /\ completed' \subseteq Upload(old)
        /\ failed' \/ todo' \cup completed' = Upload(old)
    <3>1. CASE completed' = completed \cup {p} /\ failed' = failed
      BY <2>1, <2>3, <3>1
    <3>2. CASE completed' = completed /\ failed'
      BY <2>1, <2>3, <3>2
    <3> QED
      BY <2>1, <3>1, <3>2
  <2> QED
    BY <1>W, <1>F, <1>S, <2>1, <2>2, <2>4 DEF RunShape, InRun
<1>5. ASSUME NEW p \in Paths, Delete(p) PROVE RunShape'
  <2>1. /\ pc = "delete" /\ p \in todo /\ todo' = todo \ {p} /\ pc' = pc
        /\ \/ deleted' = deleted \cup {p} /\ failed' = failed
           \/ deleted' = deleted /\ failed'
        /\ local' = local /\ manifest' = manifest /\ old' = old /\ preDeleted' = preDeleted
        /\ completed' = completed /\ tried' = tried /\ forgot' = forgot
    BY <1>5 DEF Delete, Done, Fails
  <2>2. Empty' = Empty
    BY DEF Empty
  <2>3. /\ todo \subseteq Rest(old) \ deleted /\ deleted \subseteq Rest(old)
        /\ failed \/ todo \cup deleted = Rest(old)
    BY <2>1, <1>W DEF RunShape, InRun
  <2>4. /\ todo' \subseteq Rest(old) \ deleted' /\ deleted' \subseteq Rest(old)
        /\ failed' \/ todo' \cup deleted' = Rest(old)
    <3>1. CASE deleted' = deleted \cup {p} /\ failed' = failed
      BY <2>1, <2>3, <3>1
    <3>2. CASE deleted' = deleted /\ failed'
      BY <2>1, <2>3, <3>2
    <3> QED
      BY <2>1, <3>1, <3>2
  <2> QED
    BY <1>W, <1>F, <1>S, <2>1, <2>2, <2>4 DEF RunShape, InRun
<1>6. CASE EndPreDelete \/ EndClear \/ EndMkdirs \/ EndUpload \/ EndDelete \/ EndPrune
  <2>1. /\ local' = local /\ manifest' = manifest /\ old' = old /\ completed' = completed
        /\ preDeleted' = preDeleted /\ deleted' = deleted /\ tried' = tried /\ forgot' = forgot
    BY <1>6 DEF EndPreDelete, EndClear, EndMkdirs, EndUpload, EndDelete, EndPrune,
                progress, history
  <2>2. \/ pc \in {"preDelete", "mkdirs", "upload", "delete"} /\ pc' = "recover"
        \/ pc = "preDelete" /\ ~failed /\ todo = {} /\ pc' = "clear"
        \/ pc = "clear" /\ pc' = "mkdirs"
        \/ pc = "mkdirs" /\ pc' = "upload" /\ todo' = Upload(old)
        \/ pc = "upload" /\ ~failed /\ todo = {} /\ pc' = "delete" /\ todo' = Rest(old)
        \/ pc = "delete" /\ ~failed /\ todo = {} /\ pc' = "prune"
        \/ pc = "prune" /\ pc' = "write"
    BY <1>6 DEF EndPreDelete, EndClear, EndMkdirs, EndUpload, EndDelete, EndPrune, Enter
  <2>3. Empty' = Empty
    BY DEF Empty
  <2>4. InRun
    BY <1>W, <2>2 DEF InRun
  <2> QED
    BY <1>W, <1>F, <1>S, <2>1, <2>2, <2>3, <2>4 DEF RunShape, InRun
<1>7. CASE WriteLocal \/ WriteRecoveryManifest \/ WriteKeepingManifest \/ Kill \/ Edit
  <2>1. pc' \in Resting
    BY <1>7, <1>W DEF WriteLocal, WriteRecoveryManifest, WriteKeepingManifest, WriteManifest,
                      Kill, Edit
  <2> QED
    BY <2>1, <1>W DEF RunShape, InRun
<1>8. CASE (\E p \in Paths : PutForeign(p)) \/ Ended
  <2>1. pc' \in Resting
    BY <1>8 DEF PutForeign, Ended, vars
  <2> QED
    BY <2>1, <1>W DEF RunShape, InRun
<1>9. CASE UNCHANGED vars
  <2>1. /\ local' = local /\ manifest' = manifest /\ old' = old /\ completed' = completed
        /\ preDeleted' = preDeleted /\ deleted' = deleted /\ tried' = tried /\ forgot' = forgot
        /\ pc' = pc /\ todo' = todo /\ failed' = failed
    BY <1>9 DEF vars, phase, progress, history
  <2>2. Empty' = Empty
    BY DEF Empty
  <2> QED
    BY <1>F, <1>S, <2>1, <2>2 DEF RunShape, InRun
<1> QED
  BY <1>1, <1>2, <1>3, <1>4, <1>5, <1>6, <1>7, <1>8, <1>9 DEF Next

-----------------------------------------------------------------------------
(* What the manifest may be relied on for. *)

LEMMA RecordedFacts ==
    ASSUME TypeOK
    PROVE  /\ manifest \in Listings /\ old \in Listings /\ local \in Listings
           /\ Live \in Listings /\ Recorded \in Listings
           /\ disk \in Disks
           /\ \A t \in tried : t \in Listings
           /\ \A q \in Paths : Live[q] = IF q \in preDeleted \cup deleted THEN Absent
                                         ELSE IF q \in completed THEN local[q] ELSE old[q]
<1>1. manifest \in Listings /\ old \in Listings /\ disk \in Disks
  BY DEF TypeOK, Listings, Disks
<1>2. local \in Listings
  BY TreeNames
<1>3. /\ Live \in Listings
      /\ \A q \in Paths : Live[q] = IF q \in preDeleted \cup deleted THEN Absent
                                    ELSE IF q \in completed THEN local[q] ELSE old[q]
  BY MergedFacts DEF Live
<1>4. \A t \in tried : t \in Listings
  BY SyncAssumption DEF TypeOK, Trees, Listings
<1> QED
  BY <1>1, <1>2, <1>3, <1>4 DEF Recorded

\* No merged manifest of a run names an entry twice: what was uploaded is of the tree,
\* and wherever a stale file has the name of a planned one, it went first.
LEMMA LiveNames ==
    ASSUME TypeOK, RunShape, OneName, InRun,
           NEW done \in SUBSET Upload(old), NEW gone \in SUBSET Paths,
           done # {} => Colliding(old) \subseteq gone
    PROVE  OneNameEach(Entries, MergedManifest(done, gone))
<1>1. PICK m2 : m2 = MergedManifest(done, gone)
  OBVIOUS
<1>2. \A x \in Paths :
        m2[x] = IF x \in gone THEN Absent ELSE IF x \in done THEN local[x] ELSE old[x]
  BY <1>1, MergedFacts
<1>3. old \in Listings
  BY RecordedFacts
<1>4. OneNameEach(Entries, old) /\ OneNameEach(Entries, local)
  BY TreeNames DEF OneName
<1>5. \A x \in done : local[x] # Absent
  BY <1>3, PlanFacts
<1>6. ASSUME NEW x \in Paths, NEW y \in Paths, x \in done,
             m2[x] # Absent, m2[y] # Absent, Entries[x] = Entries[y]
      PROVE  x = y
  <2>1. local[x] # Absent /\ y \notin gone
    BY <1>2, <1>5, <1>6
  <2>2. local[y] # Absent
    <3>1. CASE y \in done
      BY <1>5, <3>1
    <3>2. CASE y \notin done
      <4>1. old[y] # Absent
        BY <1>2, <1>6, <2>1, <3>2
      <4>2. local[y] = Absent => y \in Colliding(old)
        BY <1>3, <1>6, <2>1, <4>1, SameNameCollides
      <4> QED
        BY <4>2, <1>6, <2>1
    <3> QED
      BY <3>1, <3>2
  <2> QED
    BY <1>4, <1>6, <2>1, <2>2 DEF OneNameEach
<1>7. ASSUME NEW p \in Paths, NEW q \in Paths,
             m2[p] # Absent, m2[q] # Absent, Entries[p] = Entries[q]
      PROVE  p = q
  <2>1. CASE p \in done \/ q \in done
    BY <1>6, <1>7, <2>1
  <2>2. CASE p \notin done /\ q \notin done
    <3>1. old[p] # Absent /\ old[q] # Absent
      BY <1>2, <1>7, <2>2
    <3> QED
      BY <1>4, <1>7, <3>1 DEF OneNameEach
  <2> QED
    BY <2>1, <2>2
<1> QED
  BY <1>1, <1>7 DEF OneNameEach

\* A file a run is about to delete is listed, and no file that the tree needs and that
\* is on record has its entry.
LEMMA StaleTodo ==
    ASSUME TypeOK, RunShape, OneName, NEW p \in todo, pc \in {"preDelete", "delete"}
    PROVE  /\ p \in Paths /\ local[p] = Absent
           /\ Live[p] # Absent /\ Live[p] = old[p] /\ p \notin completed
           /\ \A q \in Paths :
                local[q] # Absent /\ (Live[q] = local[q] \/ manifest[q] = local[q])
                    => Entries[q] # Entries[p]
<1>1. InRun
  BY DEF InRun, Working
<1>2. manifest \in Listings /\ old \in Listings /\ local \in Listings
  BY RecordedFacts
<1>3. p \in Colliding(old) \cup Rest(old) /\ p \notin preDeleted \cup deleted
  <2>1. CASE pc = "preDelete"
    <3>1. p \in Colliding(old) \ preDeleted /\ deleted = {}
      BY <1>1, <2>1 DEF RunShape
    <3> QED
      BY <3>1
  <2>2. CASE pc = "delete"
    <3>1. p \in Rest(old) \ deleted /\ preDeleted \subseteq Colliding(old)
      BY <1>1, <2>2 DEF RunShape
    <3> QED
      BY <1>2, <3>1, PlanFacts
  <2> QED
    BY <2>1, <2>2
<1>4. p \in Paths /\ local[p] = Absent /\ old[p] # Absent
  BY <1>2, <1>3, PlanFacts
<1>5. p \notin completed
  <2>1. completed \subseteq Upload(old)
    BY <1>1 DEF RunShape
  <2> QED
    BY <2>1, <1>2, <1>4, PlanFacts
<1>6. Live[p] = old[p]
  BY <1>3, <1>4, <1>5, RecordedFacts
<1>7. old = manifest
  <2>1. old = manifest \/ old = Empty
    BY <1>1 DEF RunShape
  <2> QED
    BY <2>1, <1>4 DEF Empty
<1>8. ASSUME NEW q \in Paths, local[q] # Absent, Live[q] = local[q] \/ manifest[q] = local[q],
             Entries[q] = Entries[p]
      PROVE  FALSE
  <2>1. CASE pc = "preDelete"
    <3>1. completed = {} /\ OneNameEach(Entries, old)
      BY <1>1, <2>1 DEF RunShape, OneName
    <3>2. old[q] # Absent
      BY <1>7, <1>8, <3>1, RecordedFacts
    <3> QED
      BY <3>1, <3>2, <1>4, <1>8 DEF OneNameEach
  <2>2. CASE pc = "delete"
    <3>1. p \in Rest(old)
      BY <1>1, <2>2 DEF RunShape
    <3>2. p \in Colliding(old)
      BY <1>2, <1>4, <1>8, SameNameCollides
    <3> QED
      BY <3>1, <3>2, <1>2, PlanFacts
  <2> QED
    BY <2>1, <2>2
<1> QED
  BY <1>4, <1>5, <1>6, <1>8

\* A step that changes no synced file and puts nothing else on record than what was
\* there or what happened.
LEMMA QuietStep ==
    ASSUME TypeOK, TypeOK', Clean, SameTree, setup' = setup,
           \A e \in Paths : disk[e] \in Hashes \/ disk'[e] \in Hashes => disk'[e] = disk[e],
           manifest' = manifest \/ manifest' = Recorded,
           Recorded' = Recorded \/ (Recorded' = manifest /\ (unsure' \/ kept')),
           unsure => unsure', kept => kept', forgot' = forgot, tried' = tried,
           tried # {} \/ (unsure' = unsure /\ kept' = kept)
    PROVE  Clean' /\ SameTree'
<1>1. /\ Entries \in [Paths -> Paths] /\ Entries' = Entries
      /\ disk \in Disks /\ disk' \in Disks
      /\ manifest \in Listings /\ Recorded \in Listings
  BY EntryFacts, EntriesStay, RecordedFacts DEF TypeOK, Disks
<1>2. \A t \in tried : t \in Listings
  BY RecordedFacts
<1>3. ASSUME ~unsure', ~kept'
      PROVE  /\ IsTrue(Entries', disk', Recorded')
             /\ forgot' \/ Covers(Entries', disk', Recorded')
  <2>1. Recorded' = Recorded /\ ~unsure /\ ~kept
    BY <1>3
  <2>2. IsTrue(Entries, disk, Recorded) /\ (forgot \/ Covers(Entries, disk, Recorded))
    BY <2>1 DEF Clean
  <2> QED
    BY <1>1, <2>1, <2>2, FilesUntouched
<1>4. Clean'
  BY <1>3 DEF Clean
<1>0. NoneAside' = NoneAside
  BY DEF NoneAside, Faults
<1>5. ASSUME NoneAside, NEW t \in tried, tried = {t}, NEW m \in {manifest, Recorded}
      PROVE  /\ SkipsRightly(Entries, disk', t, m)
             /\ forgot \/ LeavesNothing(Entries, disk', t, m)
  <2>1. /\ SkipsRightly(Entries, disk, t, m)
        /\ forgot \/ LeavesNothing(Entries, disk, t, m)
    BY <1>5 DEF SameTree, Serves
  <2> QED
    BY <1>1, <1>2, <1>5, <2>1, FilesUntouched
<1>6. manifest' \in {manifest, Recorded} /\ Recorded' \in {manifest, Recorded}
  OBVIOUS
<1>7. ASSUME NoneAside', NEW t \in tried', tried' = {t}
      PROVE  Serves(t, manifest)' /\ Serves(t, Recorded)'
  BY <1>0, <1>1, <1>5, <1>6, <1>7 DEF Serves
<1>8. tried' = {} => ~unsure' /\ ~kept'
  BY DEF SameTree
<1> QED
  BY <1>4, <1>7, <1>8 DEF SameTree

\* A delete, acknowledged or not.
LEMMA DeleteStep ==
    ASSUME TypeOK, TypeOK', RunShape, OneName, Clean, SameTree,
           NEW p \in Paths, PreDelete(p) \/ Delete(p)
    PROVE  Clean' /\ SameTree'
<1>1. /\ p \in todo /\ pc \in {"preDelete", "delete"} /\ pc' = pc /\ setup' = setup
      /\ local' = local /\ manifest' = manifest /\ old' = old /\ completed' = completed
      /\ kept' = kept /\ forgot' = forgot /\ tried' = tried
  BY DEF PreDelete, Delete
<1>2. \/ /\ disk' = Put({p}, Absent) /\ unsure' = unsure
         /\ preDeleted' \cup deleted' = preDeleted \cup deleted \cup {p}
      \/ /\ disk' = disk /\ unsure' = unsure
         /\ preDeleted' = preDeleted /\ deleted' = deleted
      \/ /\ disk' = Put({p}, Absent) /\ unsure'
         /\ preDeleted' = preDeleted /\ deleted' = deleted
  BY DEF PreDelete, Delete, Done, Fails
<1>3. InRun /\ Recorded = Live /\ Recorded' = Live'
  BY <1>1 DEF InRun, Working, Recorded
<1>4. /\ local \in Listings /\ manifest \in Listings /\ Live \in Listings /\ Recorded' \in Listings
      /\ disk \in Disks /\ disk' \in Disks
      /\ Entries \in [Paths -> Paths] /\ Entries' = Entries
  <2>1. Recorded' \in Listings
    <3>1. old' \in Listings /\ local' \in Listings
      BY <1>1, RecordedFacts
    <3> QED
      BY <1>3, <3>1 DEF Live, MergedManifest, Listings
  <2>2. disk' \in Disks
    BY DEF TypeOK, Disks
  <2> QED
    BY <1>1, <2>1, <2>2, RecordedFacts, EntryFacts, EntriesStay
<1>5. /\ local[p] = Absent /\ Live[p] # Absent
      /\ \A q \in Paths :
            local[q] # Absent /\ (Live[q] = local[q] \/ manifest[q] = local[q])
                => Entries[q] # Entries[p]
  BY <1>1, StaleTodo
<1>6. local \in tried
  BY <1>3 DEF RunShape
<1>7. \/ preDeleted' = preDeleted /\ deleted' = deleted /\ Live' = Live
      \/ /\ preDeleted' \cup deleted' = preDeleted \cup deleted \cup {p}
         /\ Live' = [Live EXCEPT ![p] = Absent]
  <2>1. CASE preDeleted' = preDeleted /\ deleted' = deleted
    BY <1>1, <2>1 DEF Live, MergedManifest
  <2>2. CASE preDeleted' \cup deleted' = preDeleted \cup deleted \cup {p}
    <3>1. Live' = [q \in Paths |-> IF q \in preDeleted \cup deleted \cup {p} THEN Absent
                                   ELSE IF q \in completed THEN local[q] ELSE old[q]]
      BY <1>1, <2>2 DEF Live, MergedManifest
    <3>2. Live = [q \in Paths |-> IF q \in preDeleted \cup deleted THEN Absent
                                  ELSE IF q \in completed THEN local[q] ELSE old[q]]
      BY DEF Live, MergedManifest
    <3> QED
      BY <2>2, <3>1, <3>2
  <2> QED
    BY <1>2, <2>1, <2>2
<1>8. CASE disk' = disk /\ unsure' = unsure /\ preDeleted' = preDeleted /\ deleted' = deleted
  <2>1. Recorded' = Recorded
    BY <1>1, <1>3, <1>8 DEF Live, MergedManifest
  <2> QED
    BY <1>1, <1>8, <2>1, QuietStep
<1>9. CASE disk' = Put({p}, Absent)
  <2>1. disk' = [disk EXCEPT ![Entries[p]] = Absent]
    BY <1>9, PutOne
  <2>2. ASSUME ~unsure', ~kept'
        PROVE  /\ IsTrue(Entries, disk', Live')
               /\ forgot \/ Covers(Entries, disk', Live')
    <3>1. CASE preDeleted' \cup deleted' = preDeleted \cup deleted \cup {p} /\ unsure' = unsure
      <4>1. Live' = [Live EXCEPT ![p] = Absent]
        BY <1>7, <3>1, <1>5, RecordedFacts
      <4>2. /\ IsTrue(Entries, disk, Live)
            /\ forgot \/ Covers(Entries, disk, Live)
        BY <1>1, <1>3, <2>2, <3>1 DEF Clean
      <4>3. OneNameEach(Entries, Live)
        <5>1. /\ completed \in SUBSET Upload(old)
              /\ completed # {} => Colliding(old) \subseteq preDeleted \cup deleted
              /\ preDeleted \cup deleted \in SUBSET Paths
          BY <1>3 DEF RunShape, TypeOK
        <5> QED
          BY <1>3, <5>1, LiveNames DEF Live
      <4> QED
        BY <1>3, <1>4, <1>5, <2>1, <4>1, <4>2, <4>3, FileRemoved
    <3>2. CASE unsure'
      BY <2>2, <3>2
    <3>3. CASE disk' = disk /\ unsure' = unsure /\ preDeleted' = preDeleted /\ deleted' = deleted
      <4>1. Clean'
        BY <1>8, <3>3
      <4> QED
        BY <1>1, <1>3, <1>4, <2>2, <4>1 DEF Clean
    <3> QED
      BY <1>2, <3>1, <3>2, <3>3
  <2>3. Clean'
    BY <1>1, <1>3, <1>4, <2>2 DEF Clean
  <2>4. ASSUME NoneAside, tried = {local}
        PROVE  /\ SkipsRightly(Entries, disk', local, manifest)
               /\ SkipsRightly(Entries, disk', local, Live')
               /\ \/ forgot
                  \/ /\ LeavesNothing(Entries, disk', local, manifest)
                     /\ LeavesNothing(Entries, disk', local, Live')
    <3>1. Serves(local, manifest) /\ Serves(local, Live)
      BY <1>3, <1>6, <2>4 DEF SameTree
    <3>2. /\ SkipsRightly(Entries, disk', local, manifest)
          /\ forgot \/ LeavesNothing(Entries, disk', local, manifest)
      BY <1>4, <1>5, <2>1, <3>1, EntryEmptied DEF Serves
    <3>3. Live' = Live \/ Live' = [Live EXCEPT ![p] = Absent]
      BY <1>7
    <3>4. /\ SkipsRightly(Entries, disk', local, Live')
          /\ forgot \/ LeavesNothing(Entries, disk', local, Live')
      BY <1>3, <1>4, <1>5, <2>1, <3>1, <3>3, EntryEmptied DEF Serves
    <3> QED
      BY <3>2, <3>4
  <2>5. ASSUME NoneAside', NEW t \in tried', tried' = {t}
        PROVE  Serves(t, manifest)' /\ Serves(t, Recorded)'
    <3>0. NoneAside
      BY <1>1, <2>5 DEF NoneAside, Faults
    <3>1. t = local /\ tried = {local}
      BY <1>1, <1>6, <2>5
    <3> QED
      BY <1>1, <1>3, <1>4, <2>4, <3>0, <3>1 DEF Serves
  <2>6. tried' # {}
    BY <1>1, <1>6
  <2> QED
    BY <2>3, <2>5, <2>6 DEF SameTree
<1> QED
  BY <1>2, <1>8, <1>9

\* An upload, acknowledged or not.
LEMMA UploadStep ==
    ASSUME TypeOK, TypeOK', RunShape, OneName, Clean, SameTree,
           NEW p \in Paths, UploadFile(p)
    PROVE  Clean' /\ SameTree'
<1>1. /\ p \in todo /\ pc = "upload" /\ pc' = pc /\ setup' = setup
      /\ local' = local /\ manifest' = manifest /\ old' = old
      /\ preDeleted' = preDeleted /\ deleted' = deleted
      /\ kept' = kept /\ forgot' = forgot /\ tried' = tried
  BY DEF UploadFile
<1>2. \/ disk' = Put({p}, local[p]) /\ unsure' = unsure /\ completed' = completed \cup {p}
      \/ disk' = disk /\ unsure' = unsure /\ completed' = completed
      \/ disk' = Put({p}, local[p]) /\ unsure' /\ completed' = completed
      \/ Stranded(p) /\ completed' = completed
  BY DEF UploadFile, Done, Fails
<1>3. InRun /\ Recorded = Live /\ Recorded' = Live'
  BY <1>1 DEF InRun, Working, Recorded
<1>4. /\ local \in Listings /\ old \in Listings /\ manifest \in Listings /\ Live \in Listings
      /\ Recorded' \in Listings
      /\ disk \in Disks /\ disk' \in Disks
      /\ Entries \in [Paths -> Paths] /\ Entries' = Entries
  <2>1. Recorded' \in Listings
    <3>1. old' \in Listings /\ local' \in Listings
      BY <1>1, RecordedFacts
    <3> QED
      BY <1>3, <3>1 DEF Live, MergedManifest, Listings
  <2>2. disk' \in Disks
    BY DEF TypeOK, Disks
  <2> QED
    BY <1>1, <2>1, <2>2, RecordedFacts, EntryFacts, EntriesStay
<1>5. /\ todo \subseteq Upload(old) \ completed /\ completed \subseteq Upload(old)
      /\ preDeleted = Colliding(old) /\ deleted = {} /\ local \in tried
  BY <1>1, <1>3 DEF RunShape
<1>6. p \in Upload(old) /\ local[p] \in Hashes /\ local[p] # Absent
  BY <1>1, <1>4, <1>5, PlanFacts
<1>7. p \notin preDeleted \cup deleted
  BY <1>4, <1>5, <1>6, PlanFacts
<1>8. \/ completed' = completed /\ Live' = Live
      \/ completed' = completed \cup {p} /\ Live' = [Live EXCEPT ![p] = local[p]]
  <2>1. CASE completed' = completed
    BY <1>1, <2>1 DEF Live, MergedManifest
  <2>2. CASE completed' = completed \cup {p}
    <3>1. Live' = [q \in Paths |-> IF q \in preDeleted \cup deleted THEN Absent
                                   ELSE IF q \in completed \cup {p} THEN local[q] ELSE old[q]]
      BY <1>1, <2>2 DEF Live, MergedManifest
    <3>2. Live = [q \in Paths |-> IF q \in preDeleted \cup deleted THEN Absent
                                  ELSE IF q \in completed THEN local[q] ELSE old[q]]
      BY DEF Live, MergedManifest
    <3> QED
      BY <1>7, <2>2, <3>1, <3>2
  <2> QED
    BY <1>2, <2>1, <2>2
<1>9. CASE disk' = disk /\ unsure' = unsure /\ completed' = completed
  <2>1. Recorded' = Recorded
    BY <1>1, <1>3, <1>9 DEF Live, MergedManifest
  <2> QED
    BY <1>1, <1>9, <2>1, QuietStep
<1>11. CASE Stranded(p) /\ completed' = completed
  <2>1. disk' = [disk EXCEPT ![Entries[p]] = Absent] /\ unsure' /\ "window" \in Faults
    BY <1>11, PutOne DEF Stranded
  <2>2. Recorded' = Live
    BY <1>1, <1>3, <1>11 DEF Live, MergedManifest
  <2>3. Clean'
    BY <2>1 DEF Clean
  <2>4. ASSUME NoneAside, tried = {local}, NEW m \in {manifest, Live}
        PROVE  /\ SkipsRightly(Entries, disk', local, m)
               /\ forgot \/ LeavesNothing(Entries, disk', local, m)
    <3>1. /\ Serves(local, manifest) /\ Serves(local, Live)
          /\ ~forgot \/ "read" \notin Faults
      BY <1>3, <1>5, <2>1, <2>4 DEF SameTree, NoneAside
    <3>2. manifest = old /\ p \notin completed
      BY <1>1, <1>3, <1>5, <3>1 DEF RunShape
    <3>3. manifest[p] # local[p] /\ Live[p] # local[p]
      BY <1>6, <1>7, <3>2, RecordedFacts DEF Upload
    <3>4. OneNameEach(Entries, local)
      BY TreeNames
    <3>5. \A q \in Paths : local[q] # Absent /\ m[q] = local[q] => Entries[q] # Entries[p]
      BY <1>6, <3>3, <3>4 DEF OneNameEach
    <3>6. /\ SkipsRightly(Entries, disk, local, m)
          /\ forgot \/ LeavesNothing(Entries, disk, local, m)
          /\ m \in Listings
      BY <1>4, <2>4, <3>1 DEF Serves
    <3> QED
      BY <1>4, <2>1, <3>5, <3>6, EntryEmptied
  <2>5. ASSUME NoneAside', NEW t \in tried', tried' = {t}
        PROVE  Serves(t, manifest)' /\ Serves(t, Recorded)'
    <3>1. NoneAside /\ t = local /\ tried = {local}
      BY <1>1, <1>5, <2>5 DEF NoneAside, Faults
    <3> QED
      BY <1>1, <1>4, <2>2, <2>4, <3>1 DEF Serves
  <2>6. tried' # {}
    BY <1>1, <1>5
  <2> QED
    BY <2>3, <2>5, <2>6 DEF SameTree
<1>10. CASE disk' = Put({p}, local[p])
  <2>1. disk' = [disk EXCEPT ![Entries[p]] = local[p]]
    BY <1>6, <1>10, PutOne
  <2>2. ASSUME ~unsure', ~kept'
        PROVE  /\ IsTrue(Entries, disk', Live')
               /\ forgot \/ Covers(Entries, disk', Live')
    <3>1. CASE completed' = completed \cup {p} /\ unsure' = unsure
      <4>1. Live' = MergedManifest(completed \cup {p}, preDeleted \cup deleted)
        BY <1>1, <3>1 DEF Live, MergedManifest
      <4>2. /\ IsTrue(Entries, disk, Live)
            /\ forgot \/ Covers(Entries, disk, Live)
        BY <1>1, <1>3, <2>2, <3>1 DEF Clean
      <4>3. OneNameEach(Entries, Live')
        <5>1. /\ completed \cup {p} \in SUBSET Upload(old)
              /\ Colliding(old) \subseteq preDeleted \cup deleted
              /\ preDeleted \cup deleted \in SUBSET Paths
          BY <1>5, <1>6 DEF TypeOK
        <5> QED
          BY <1>3, <4>1, <5>1, LiveNames
      <4>4. Live' = [Live EXCEPT ![p] = local[p]]
        <5>1. Live = [q \in Paths |-> IF q \in preDeleted \cup deleted THEN Absent
                                      ELSE IF q \in completed THEN local[q] ELSE old[q]]
          BY DEF Live, MergedManifest
        <5>2. Live' = [q \in Paths |-> IF q \in preDeleted \cup deleted THEN Absent
                                       ELSE IF q \in completed \cup {p} THEN local[q] ELSE old[q]]
          BY <4>1 DEF MergedManifest
        <5> QED
          BY <1>7, <5>1, <5>2
      <4> QED
        BY <1>3, <1>4, <1>6, <2>1, <4>2, <4>3, <4>4, FileWritten
    <3>2. CASE unsure'
      BY <2>2, <3>2
    <3>3. CASE disk' = disk /\ unsure' = unsure /\ completed' = completed
      <4>1. Clean'
        BY <1>9, <3>3
      <4> QED
        BY <1>1, <1>3, <1>4, <2>2, <4>1 DEF Clean
    <3>4. CASE Stranded(p)
      BY <2>2, <3>4 DEF Stranded
    <3> QED
      BY <1>2, <3>1, <3>2, <3>3, <3>4
  <2>3. Clean'
    BY <1>1, <1>3, <1>4, <2>2 DEF Clean
  <2>4. ASSUME NoneAside, tried = {local}
        PROVE  /\ SkipsRightly(Entries, disk', local, manifest)
               /\ SkipsRightly(Entries, disk', local, Live')
               /\ \/ forgot
                  \/ /\ LeavesNothing(Entries, disk', local, manifest)
                     /\ LeavesNothing(Entries, disk', local, Live')
    <3>1. Serves(local, manifest) /\ Serves(local, Live)
      BY <1>3, <1>5, <2>4 DEF SameTree
    <3>2. OneNameEach(Entries, local)
      BY TreeNames
    <3>3. /\ SkipsRightly(Entries, disk', local, manifest)
          /\ forgot \/ LeavesNothing(Entries, disk', local, manifest)
      BY <1>4, <1>6, <2>1, <3>1, <3>2, PlannedWritten DEF Serves
    <3>4. Live' = Live \/ Live' = [Live EXCEPT ![p] = local[p]]
      BY <1>8
    <3>5. /\ SkipsRightly(Entries, disk', local, Live')
          /\ forgot \/ LeavesNothing(Entries, disk', local, Live')
      BY <1>3, <1>4, <1>6, <2>1, <3>1, <3>2, <3>4, PlannedWritten DEF Serves
    <3> QED
      BY <3>3, <3>5
  <2>5. ASSUME NoneAside', NEW t \in tried', tried' = {t}
        PROVE  Serves(t, manifest)' /\ Serves(t, Recorded)'
    <3>0. NoneAside
      BY <1>1, <2>5 DEF NoneAside, Faults
    <3>1. t = local /\ tried = {local}
      BY <1>1, <1>5, <2>5
    <3> QED
      BY <1>1, <1>3, <1>4, <2>4, <3>0, <3>1 DEF Serves
  <2>6. tried' # {}
    BY <1>1, <1>5
  <2> QED
    BY <2>3, <2>5, <2>6 DEF SameTree
<1> QED
  BY <1>2, <1>9, <1>10, <1>11

\* A run that starts relies on the manifest, or on nothing.
LEMMA StartStep ==
    ASSUME TypeOK, Clean, SameTree, StartRun
    PROVE  Clean' /\ SameTree'
<1>1. /\ setup' = setup /\ local' = local /\ disk' = disk /\ manifest' = manifest
      /\ unsure' = unsure /\ kept' = kept /\ tried' = tried \cup {local}
      /\ completed' = {} /\ preDeleted' = {} /\ deleted' = {}
      /\ \/ old' = manifest /\ forgot' = forgot
         \/ old' = Empty /\ forgot'
  BY DEF StartRun
<1>2. Entries' = Entries
  BY <1>1, EntriesStay
<1>3. Recorded = manifest /\ manifest \in Listings
  BY RecordedFacts DEF StartRun, Recorded, InRun, Resting, Working
<1>4. Recorded' = manifest \/ (Recorded' = Empty /\ forgot')
  <2>1. Live' = old'
    <3>1. Live' = [p \in Paths |-> old'[p]]
      BY <1>1 DEF Live, MergedManifest
    <3> QED
      BY <1>1, <1>3, <3>1 DEF Listings, Empty
  <2> QED
    BY <1>1, <2>1 DEF Recorded
<1>5. forgot => forgot'
  BY <1>1
<1>6. ASSUME ~unsure', ~kept'
      PROVE  /\ IsTrue(Entries', disk', Recorded')
             /\ forgot' \/ Covers(Entries', disk', Recorded')
  <2>1. IsTrue(Entries, disk, manifest) /\ (forgot \/ Covers(Entries, disk, manifest))
    BY <1>1, <1>3, <1>6 DEF Clean
  <2>2. IsTrue(Entries, disk, Empty)
    BY DEF IsTrue, Empty
  <2> QED
    BY <1>1, <1>2, <1>4, <1>5, <2>1, <2>2
<1>7. ASSUME NoneAside', NEW t \in tried', tried' = {t}
      PROVE  Serves(t, manifest)' /\ Serves(t, Recorded)'
  <2>0. NoneAside
    BY <1>1, <1>7 DEF NoneAside, Faults
  <2>1. /\ SkipsRightly(Entries, disk, t, manifest)
        /\ forgot \/ LeavesNothing(Entries, disk, t, manifest)
    <3>1. CASE tried = {}
      <4>1. IsTrue(Entries, disk, manifest) /\ (forgot \/ Covers(Entries, disk, manifest))
        BY <1>3, <3>1 DEF SameTree, Clean
      <4>2. SkipsRightly(Entries, disk, t, manifest)
        BY <4>1 DEF IsTrue, SkipsRightly
      <4>3. Covers(Entries, disk, manifest) => LeavesNothing(Entries, disk, t, manifest)
        BY DEF Covers, LeavesNothing
      <4> QED
        BY <4>1, <4>2, <4>3
    <3>2. CASE tried # {}
      <4>1. t \in tried /\ tried = {t}
        BY <1>1, <1>7, <3>2
      <4> QED
        BY <2>0, <4>1 DEF SameTree, Serves
    <3> QED
      BY <3>1, <3>2
  <2>2. SkipsRightly(Entries, disk, t, Empty)
    BY DEF SkipsRightly, Empty
  <2> QED
    BY <1>1, <1>2, <1>4, <1>5, <2>1, <2>2 DEF Serves
<1>8. tried' # {}
  BY <1>1
<1> QED
  BY <1>6, <1>7, <1>8 DEF Clean, SameTree

\* A green run shows what it claims.
LEMMA InvMirror ==
    ASSUME Inv
    PROVE  GreenMeansMirror
<1> SUFFICES ASSUME pc = "done", Trustworthy PROVE Deployed /\ (forgot \/ NoLeftover)
  BY DEF GreenMeansMirror
<1>1. /\ manifest = local /\ local \in tried /\ Recorded = local
      /\ \A p \in Paths : Entries[p] = Entry(p)
  BY EntryFacts DEF Inv, WellDone, Recorded, InRun, Working
<1>2. CASE ~unsure /\ ~kept
  <2>1. IsTrue(Entries, disk, local) /\ (forgot \/ Covers(Entries, disk, local))
    BY <1>1, <1>2 DEF Inv, Clean
  <2> QED
    BY <1>1, <2>1 DEF IsTrue, Covers, Deployed, NoLeftover, Planned, At
<1>3. CASE Cardinality(tried) = 1 /\ NoneAside
  <2>1. tried = {local}
    BY <1>1, <1>3, FS_Singleton DEF Inv
  <2>2. Serves(local, local)
    BY <1>1, <1>3, <2>1 DEF Inv, SameTree
  <2> QED
    BY <1>1, <2>2 DEF Serves, SkipsRightly, LeavesNothing, Deployed, NoLeftover, Planned, At
<1> QED
  BY <1>2, <1>3 DEF Trustworthy

\* Editing the tree after a green run starts a new account.
LEMMA EditStep ==
    ASSUME Inv, TypeOK', Edit
    PROVE  Clean' /\ SameTree'
<1>1. /\ setup' = setup /\ disk' = disk /\ manifest' = manifest /\ forgot' = forgot
      /\ pc \in Resting /\ pc' = "idle" /\ forgot' = forgot
  BY DEF Edit, history
<1>2. Recorded = manifest /\ Recorded' = manifest /\ Entries' = Entries
  BY <1>1, EntriesStay DEF Recorded, InRun, Resting, Working
<1>3. CASE pc = "done" /\ Trustworthy
  <2>1. tried' = {} /\ ~unsure' /\ ~kept'
    BY <1>3 DEF Edit
  <2>2. Deployed /\ (forgot \/ NoLeftover) /\ manifest = local
    BY <1>3, InvMirror DEF GreenMeansMirror, Inv, WellDone
  <2>3. \A p \in Paths : Entries[p] = Entry(p)
    BY EntryFacts DEF Inv
  <2>4. IsTrue(Entries, disk, manifest)
    BY <2>2, <2>3 DEF Deployed, IsTrue, Planned, At
  <2>5. NoLeftover => Covers(Entries, disk, manifest)
    BY <2>2, <2>3 DEF NoLeftover, Covers, Planned
  <2> QED
    BY <1>1, <1>2, <2>1, <2>2, <2>4, <2>5 DEF Clean, SameTree
<1>4. CASE ~(pc = "done" /\ Trustworthy)
  <2>1. tried' = tried /\ unsure' = unsure /\ kept' = kept
    BY <1>4 DEF Edit, history
  <2> QED
    BY <1>1, <1>2, <2>1, QuietStep DEF Inv
<1> QED
  BY <1>3, <1>4

\* A request on directories leaves every file of a sync where it is.
LEMMA DirsTouchNoFile ==
    ASSUME TypeOK, NEW S \in SUBSET Paths, NEW c \in {Absent, Dir},
           \A p \in S : ~IsFile(At(p))
    PROVE  \A e \in Paths : disk[e] \in Hashes \cup {Foreign} \/ Put(S, c)[e] \in Hashes \cup {Foreign}
                => Put(S, c)[e] = disk[e]
<1> SUFFICES ASSUME NEW e \in Paths,
                    disk[e] \in Hashes \cup {Foreign} \/ Put(S, c)[e] \in Hashes \cup {Foreign}
             PROVE  Put(S, c)[e] = disk[e]
  OBVIOUS
<1>1. Put(S, c)[e] = IF \E p \in S : e = Entry(p) THEN c ELSE disk[e]
  BY PutFacts
<1>2. CASE \E p \in S : e = Entry(p)
  <2>1. disk[e] \notin Hashes \cup {Foreign}
    BY <1>2 DEF IsFile, At
  <2>2. Put(S, c)[e] \notin Hashes \cup {Foreign}
    BY <1>1, <1>2, Kinds
  <2> QED
    BY <2>1, <2>2
<1>3. CASE ~\E p \in S : e = Entry(p)
  BY <1>1, <1>3
<1> QED
  BY <1>2, <1>3

LEMMA DirStep ==
    ASSUME TypeOK,
           \E d \in Paths : ClearDir(d) \/ CreateDir(d) \/ PruneEmptyDir(d)
    PROVE  \A e \in Paths : disk[e] \in Hashes \cup {Foreign} \/ disk'[e] \in Hashes \cup {Foreign}
                => disk'[e] = disk[e]
<1>1. PICK d \in Paths : ClearDir(d) \/ CreateDir(d) \/ PruneEmptyDir(d)
  OBVIOUS
<1>2. disk' = disk \/ (disk' = Put({d}, Absent) /\ (At(d) = Absent \/ At(d) = Dir))
      \/ (disk' = Put(Above[d] \cup {d}, Dir) /\ Makeable(d))
  <2>1. CASE ClearDir(d)
    BY <2>1 DEF ClearDir, Done, Fails
  <2>2. CASE CreateDir(d)
    BY <2>2 DEF CreateDir, Done, Fails
  <2>3. CASE PruneEmptyDir(d)
    BY <2>3 DEF PruneEmptyDir
  <2> QED
    BY <1>1, <2>1, <2>2, <2>3
<1>3. CASE disk' = Put({d}, Absent) /\ (At(d) = Absent \/ At(d) = Dir)
  <2>1. \A p \in {d} : ~IsFile(At(p))
    BY <1>3, Kinds DEF IsFile
  <2> QED
    BY <1>3, <2>1, DirsTouchNoFile
<1>4. CASE disk' = Put(Above[d] \cup {d}, Dir) /\ Makeable(d)
  <2>1. \A p \in Above[d] \cup {d} : ~IsFile(At(p))
    BY <1>4 DEF Makeable
  <2>2. Above[d] \cup {d} \in SUBSET Paths
    BY SyncAssumption
  <2> QED
    BY <1>4, <2>1, <2>2, DirsTouchNoFile
<1> QED
  BY <1>2, <1>3, <1>4

LEMMA ForeignStep ==
    ASSUME TypeOK, NEW p \in Paths, PutForeign(p)
    PROVE  /\ \A e \in Paths : disk[e] \in Hashes \/ disk'[e] \in Hashes => disk'[e] = disk[e]
           /\ \A e \in Paths : disk[e] = Foreign => disk'[e] = Foreign
<1>1. Above[p] \in SUBSET Paths
  BY SyncAssumption
<1>2. \A q \in Above[p] : ~IsFile(At(q))
  BY DEF PutForeign, Makeable
<1>3. Put(Above[p], Dir) \in Disks
  BY <1>1, PutFacts
<1>4. \A e \in Paths : disk[e] \in Hashes \cup {Foreign} \/ Put(Above[p], Dir)[e] \in Hashes \cup {Foreign}
        => Put(Above[p], Dir)[e] = disk[e]
  BY <1>1, <1>2, DirsTouchNoFile
<1>5. /\ disk' = [Put(Above[p], Dir) EXCEPT ![Entry(p)] = Foreign]
      /\ disk[Entry(p)] = Absent
  BY DEF PutForeign, At
<1>6. \A e \in Paths : disk'[e] = IF e = Entry(p) THEN Foreign ELSE Put(Above[p], Dir)[e]
  BY <1>3, <1>5 DEF Disks
<1>7. ASSUME NEW e \in Paths, disk[e] \in Hashes \/ disk'[e] \in Hashes PROVE disk'[e] = disk[e]
  <2>1. e # Entry(p)
    BY <1>5, <1>6, <1>7, Kinds
  <2> QED
    BY <1>4, <1>6, <1>7, <2>1
<1>8. ASSUME NEW e \in Paths, disk[e] = Foreign PROVE disk'[e] = Foreign
  BY <1>4, <1>6, <1>8
<1> QED
  BY <1>7, <1>8

\* A run that got to its last write has the tree on record.
LEMMA CompleteRun ==
    ASSUME TypeOK, RunShape, pc = "write"
    PROVE  Live = local
<1>1. /\ InRun /\ completed = Upload(old) /\ preDeleted = Colliding(old) /\ deleted = Rest(old)
  BY DEF InRun, Working, RunShape
<1>2. old \in Listings /\ local \in Listings /\ Live \in Listings
  BY RecordedFacts
<1>3. ASSUME NEW q \in Paths PROVE Live[q] = local[q]
  <2>1. CASE local[q] = Absent
    <3>1. q \notin Upload(old)
      BY <1>2, <2>1, PlanFacts
    <3>2. old[q] = Absent \/ q \in Colliding(old) \cup Rest(old)
      BY <1>2, <2>1, PlanFacts
    <3> QED
      BY <1>1, <2>1, <3>1, <3>2, RecordedFacts
  <2>2. CASE local[q] # Absent
    <3>1. q \notin Colliding(old) \cup Rest(old)
      BY <1>2, <2>2, PlanFacts
    <3>2. q \in Upload(old) \/ old[q] = local[q]
      BY <1>2, <2>2, PlanFacts
    <3> QED
      BY <1>1, <3>1, <3>2, RecordedFacts
  <2> QED
    BY <2>1, <2>2
<1> QED
  BY <1>2, <1>3 DEF Listings

\* Every manifest a run may write is the record, or the one that is there.
LEMMA WrittenManifest ==
    ASSUME TypeOK, RunShape, OneName, InRun
    PROVE  /\ pc = "write" => local = Live
           /\ pc = "keep" => CollisionLive = manifest \/ CollisionLive = Live
           /\ OneNameEach(Entries, Live)
<1>1. ASSUME pc = "keep" PROVE CollisionLive = manifest \/ CollisionLive = Live
  <2>1. CollisionLive = old
    BY RecordedFacts DEF CollisionLive, MergedManifest, Listings
  <2>2. CASE old = manifest
    BY <2>1, <2>2
  <2>3. CASE old = Empty
    <3>1. completed = {} /\ preDeleted \subseteq Colliding(old) /\ deleted = {}
      BY <1>1 DEF RunShape
    <3>2. Colliding(old) = {}
      BY <2>3 DEF Colliding, ToDelete, Empty
    <3> QED
      BY <3>1, <3>2 DEF CollisionLive, Live
  <2> QED
    BY <2>2, <2>3 DEF RunShape
<1>2. OneNameEach(Entries, Live)
  <2>1. /\ completed \in SUBSET Upload(old)
        /\ completed # {} => Colliding(old) \subseteq preDeleted \cup deleted
        /\ preDeleted \cup deleted \in SUBSET Paths
    BY DEF RunShape, TypeOK
  <2> QED
    BY <2>1, LiveNames DEF Live
<1> QED
  BY <1>1, <1>2, CompleteRun

\* The end of a run: a manifest is written, or not, or the run is killed.
LEMMA EndStep ==
    ASSUME TypeOK, TypeOK', RunShape, OneName, Clean, SameTree,
           WriteLocal \/ WriteRecoveryManifest \/ WriteKeepingManifest \/ Kill
    PROVE  /\ Clean' /\ SameTree' /\ OneName'
           /\ pc' = "done" => manifest' = local /\ local \in tried
<1>1. /\ InRun /\ pc' \in Resting /\ setup' = setup /\ disk' = disk /\ local' = local
      /\ tried' = tried
      /\ unsure' = unsure \/ unsure'
      /\ kept' = kept \/ kept'
  BY DEF WriteLocal, WriteRecoveryManifest, WriteKeepingManifest, WriteManifest, Kill,
         InRun, Working, Resting
<1>2. local \in tried
  BY <1>1 DEF RunShape
<1>3. Recorded = Live /\ Recorded' = manifest' /\ Entries' = Entries
  BY <1>1, EntriesStay DEF Recorded, InRun, Resting, Working
<1>4. \/ manifest' = Live /\ forgot' = forgot
      \/ manifest' = manifest /\ forgot' = forgot /\ (unsure' \/ kept')
      \/ manifest' = Empty /\ forgot' /\ unsure'
  <2>1. pc = "write" => Live = local
    BY CompleteRun
  <2>2. pc = "keep" => CollisionLive = manifest \/ CollisionLive = Live
    BY <1>1, WrittenManifest
  <2>3. CASE WriteLocal
    BY <2>1, <2>3 DEF WriteLocal, WriteManifest, CutShort
  <2>4. CASE WriteRecoveryManifest
    BY <2>4 DEF WriteRecoveryManifest, WriteManifest, CutShort, Live
  <2>5. CASE WriteKeepingManifest
    BY <2>2, <2>5 DEF WriteKeepingManifest, WriteManifest, CutShort
  <2>6. CASE Kill
    BY <2>1, <2>2, <2>6 DEF Kill, CutShort, Live
  <2> QED
    BY <2>3, <2>4, <2>5, <2>6
<1>5. \A e \in Paths : disk[e] \in Hashes \/ disk'[e] \in Hashes => disk'[e] = disk[e]
  BY <1>1
<1>6. Clean' /\ SameTree'
  <2>1. CASE forgot' = forgot /\ (manifest' = Live \/ (manifest' = manifest /\ (unsure' \/ kept')))
    BY <1>1, <1>2, <1>3, <1>5, <2>1, QuietStep
  <2>2. CASE manifest' = Empty /\ forgot' /\ unsure'
    <3>1. \A t \in tried : SkipsRightly(Entries, disk, t, Empty)
      BY DEF SkipsRightly, Empty
    <3>2. tried' # {}
      BY <1>1, <1>2
    <3> QED
      BY <1>1, <1>3, <2>2, <3>1, <3>2 DEF Clean, SameTree, Serves
  <2> QED
    BY <1>4, <2>1, <2>2
<1>7. OneName'
  <2>1. OneNameEach(Entries, manifest) /\ OneNameEach(Entries, Live)
    BY <1>1, WrittenManifest DEF OneName
  <2>2. OneNameEach(Entries, Empty)
    BY DEF OneNameEach, Empty
  <2>3. ~InRun'
    BY <1>1 DEF InRun, Resting, Working
  <2> QED
    BY <1>3, <1>4, <2>1, <2>2, <2>3 DEF OneName
<1>8. ASSUME pc' = "done" PROVE manifest' = local
  BY <1>8 DEF WriteLocal, WriteRecoveryManifest, WriteKeepingManifest, WriteManifest, Kill
<1> QED
  BY <1>2, <1>6, <1>7, <1>8

-----------------------------------------------------------------------------
(* The invariant. *)

LEMMA InitInv ==
    Init => Inv
<1> SUFFICES ASSUME Init PROVE Inv
  OBVIOUS
<1>1. TypeOK
  BY InitTyped
<1>2. pc = "idle" /\ manifest = Empty /\ disk = Empty /\ tried = {} /\ ~unsure /\ ~kept
  BY DEF Init
<1>3. ~InRun /\ Recorded = Empty
  BY <1>2 DEF InRun, Working, Recorded
<1>4. OneName
  BY <1>2, <1>3 DEF OneName, OneNameEach, Empty
<1>5. IsTrue(Entries, disk, Empty) /\ Covers(Entries, disk, Empty)
  BY <1>2, Kinds DEF IsTrue, Covers, Empty
<1> QED
  BY <1>1, <1>2, <1>3, <1>4, <1>5, FS_EmptySet
     DEF Inv, RunShape, Clean, SameTree, WellDone

\* The steps inside a run and around one that put nothing on record.
LEMMA NamesAndEnd ==
    ASSUME OneName, WellDone, setup' = setup, manifest' = manifest,
           pc' # "done" \/ (pc' = pc /\ local' = local /\ tried' = tried),
           InRun' => InRun /\ old' = old
    PROVE  OneName' /\ WellDone'
<1>1. Entries' = Entries
  BY EntriesStay
<1>2. OneName'
  BY <1>1 DEF OneName
<1> QED
  BY <1>2 DEF WellDone

LEMMA StepInv ==
    Inv /\ [Next]_vars => Inv'
<1> SUFFICES ASSUME Inv, [Next]_vars PROVE Inv'
  OBVIOUS
<1>T. /\ TypeOK /\ TypeOK' /\ RunShape /\ RunShape'
      /\ OneName /\ Clean /\ SameTree /\ WellDone /\ IsFiniteSet(tried)
  BY StepTyped, ShapeKept DEF Inv
<1>W. /\ \A l \in {"preDelete", "clear", "mkdirs", "upload", "delete", "prune", "write",
                   "recover", "keep"} : l \in Working /\ l # "done"
      /\ \A l \in Resting : l \notin Working
      /\ \A l \in {"done", "failed", "killed", "idle"} : l \in Resting
  BY DEF Resting, Working
<1>F. ASSUME tried' = tried \/ tried' = {} \/ tried' = tried \cup {local}
      PROVE  IsFiniteSet(tried')
  BY <1>T, <1>F, FS_EmptySet, FS_AddElement
<1> SUFFICES Clean' /\ SameTree' /\ OneName' /\ WellDone' /\ IsFiniteSet(tried')
  BY <1>T DEF Inv
<1>1. CASE StartRun
  <2>1. /\ setup' = setup /\ manifest' = manifest /\ pc' # "done"
        /\ old' = manifest \/ old' = Empty
        /\ tried' = tried \cup {local}
    BY <1>1 DEF StartRun, FirstPhase, Enter
  <2>2. OneNameEach(Entries, Empty)
    BY DEF OneNameEach, Empty
  <2>3. Entries' = Entries
    BY <2>1, EntriesStay
  <2>4. OneName' /\ WellDone'
    BY <1>T, <2>1, <2>2, <2>3 DEF OneName, WellDone
  <2> QED
    BY <1>1, <1>T, <1>F, <2>1, <2>4, StartStep
<1>2. ASSUME NEW p \in Paths, PreDelete(p) \/ Delete(p) \/ UploadFile(p)
      PROVE  Clean' /\ SameTree' /\ OneName' /\ WellDone' /\ IsFiniteSet(tried')
  <2>1. /\ setup' = setup /\ manifest' = manifest /\ old' = old /\ pc' = pc /\ tried' = tried
        /\ local' = local
    BY <1>2 DEF PreDelete, Delete, UploadFile
  <2>2. InRun' => InRun
    BY <2>1 DEF InRun
  <2>3. OneName' /\ WellDone'
    BY <1>T, <2>1, <2>2, NamesAndEnd
  <2>4. Clean' /\ SameTree'
    BY <1>2, <1>T, DeleteStep, UploadStep
  <2> QED
    BY <1>F, <2>1, <2>3, <2>4
<1>3. ASSUME NEW d \in Paths, ClearDir(d) \/ CreateDir(d) \/ PruneEmptyDir(d)
      PROVE  Clean' /\ SameTree' /\ OneName' /\ WellDone' /\ IsFiniteSet(tried')
  <2>1. /\ setup' = setup /\ manifest' = manifest /\ old' = old /\ tried' = tried
        /\ local' = local /\ completed' = completed /\ preDeleted' = preDeleted
        /\ deleted' = deleted /\ kept' = kept /\ forgot' = forgot
        /\ pc \in {"clear", "mkdirs", "prune"} /\ pc' \in {"clear", "mkdirs", "prune", "keep"}
        /\ unsure' = unsure \/ unsure'
    BY <1>3 DEF ClearDir, CreateDir, PruneEmptyDir, Done, Fails, progress, history
  <2>2. InRun /\ InRun' /\ pc' # "done"
    BY <2>1, <1>W DEF InRun
  <2>3. Recorded' = Recorded
    BY <2>1, <2>2 DEF Recorded, Live, MergedManifest
  <2>4. \A e \in Paths : disk[e] \in Hashes \/ disk'[e] \in Hashes => disk'[e] = disk[e]
    BY <1>3, <1>T, DirStep
  <2>5. tried # {}
    BY <1>T, <2>2 DEF RunShape
  <2>6. Clean' /\ SameTree'
    BY <1>T, <2>1, <2>3, <2>4, <2>5, QuietStep
  <2>7. OneName' /\ WellDone'
    BY <1>T, <2>1, <2>2, NamesAndEnd
  <2> QED
    BY <1>F, <2>1, <2>6, <2>7
<1>4. CASE EndPreDelete \/ EndClear \/ EndMkdirs \/ EndUpload \/ EndDelete \/ EndPrune
  <2>1. /\ setup' = setup /\ disk' = disk /\ manifest' = manifest /\ old' = old
        /\ local' = local /\ completed' = completed /\ preDeleted' = preDeleted
        /\ deleted' = deleted
        /\ tried' = tried /\ unsure' = unsure /\ kept' = kept /\ forgot' = forgot
    BY <1>4 DEF EndPreDelete, EndClear, EndMkdirs, EndUpload, EndDelete, EndPrune,
                progress, history
  <2>2. /\ pc \in {"preDelete", "clear", "mkdirs", "upload", "delete", "prune"}
        /\ pc' \in {"recover", "clear", "mkdirs", "upload", "delete", "prune", "write"}
    BY <1>4 DEF EndPreDelete, EndClear, EndMkdirs, EndUpload, EndDelete, EndPrune, Enter
  <2>3. InRun /\ InRun' /\ pc' # "done"
    BY <2>2, <1>W DEF InRun
  <2>4. Recorded' = Recorded
    BY <2>1, <2>3 DEF Recorded, Live, MergedManifest
  <2>5. Clean' /\ SameTree'
    BY <1>T, <2>1, <2>4, QuietStep
  <2>6. OneName' /\ WellDone'
    BY <1>T, <2>1, <2>3, NamesAndEnd
  <2> QED
    BY <1>F, <2>1, <2>5, <2>6
<1>5. CASE WriteLocal \/ WriteRecoveryManifest \/ WriteKeepingManifest \/ Kill
  <2>1. tried' = tried /\ local' = local
    BY <1>5 DEF WriteLocal, WriteRecoveryManifest, WriteKeepingManifest, Kill
  <2>2. /\ Clean' /\ SameTree' /\ OneName'
        /\ pc' = "done" => manifest' = local /\ local \in tried
    BY <1>5, <1>T, EndStep
  <2> QED
    BY <1>F, <2>1, <2>2 DEF WellDone
<1>6. CASE Edit
  <2>1. /\ setup' = setup /\ manifest' = manifest /\ pc' = "idle"
        /\ tried' = tried \/ tried' = {}
    BY <1>6 DEF Edit, history
  <2>2. ~InRun' /\ pc' # "done"
    BY <2>1 DEF InRun, Working
  <2>3. OneName' /\ WellDone'
    BY <1>T, <2>1, <2>2, NamesAndEnd
  <2> QED
    BY <1>6, <1>T, <1>F, <2>1, <2>3, EditStep
<1>7. ASSUME NEW p \in Paths, PutForeign(p)
      PROVE  Clean' /\ SameTree' /\ OneName' /\ WellDone' /\ IsFiniteSet(tried')
  <2>1. /\ setup' = setup /\ manifest' = manifest /\ old' = old /\ local' = local /\ pc' = pc
        /\ tried' = tried /\ unsure' = unsure /\ kept' = kept /\ forgot' = forgot
        /\ pc \in Resting
    BY <1>7 DEF PutForeign, history
  <2>2. ~InRun /\ ~InRun'
    BY <2>1, <1>W DEF InRun
  <2>3. Recorded' = Recorded
    BY <2>1, <2>2 DEF Recorded
  <2>4. \A e \in Paths : disk[e] \in Hashes \/ disk'[e] \in Hashes => disk'[e] = disk[e]
    BY <1>7, <1>T, ForeignStep
  <2>5. Clean' /\ SameTree'
    BY <1>T, <2>1, <2>3, <2>4, QuietStep
  <2>6. OneName' /\ WellDone'
    BY <1>T, <2>1, <2>2, NamesAndEnd
  <2> QED
    BY <1>F, <2>1, <2>5, <2>6
<1>8. CASE UNCHANGED vars
  <2>1. /\ setup' = setup /\ disk' = disk /\ manifest' = manifest /\ old' = old
        /\ local' = local /\ pc' = pc /\ completed' = completed /\ preDeleted' = preDeleted
        /\ deleted' = deleted
        /\ tried' = tried /\ unsure' = unsure /\ kept' = kept /\ forgot' = forgot
    BY <1>8 DEF vars, progress, history
  <2>2. InRun' = InRun /\ Recorded' = Recorded
    BY <2>1 DEF Recorded, Live, MergedManifest, InRun
  <2>3. Clean' /\ SameTree'
    BY <1>T, <2>1, <2>2, QuietStep
  <2>4. OneName' /\ WellDone'
    BY <1>T, <2>1, <2>2, NamesAndEnd
  <2> QED
    BY <1>F, <2>1, <2>3, <2>4
<1> QED
  BY <1>1, <1>2, <1>3, <1>4, <1>5, <1>6, <1>7, <1>8 DEF Next, Ended

LEMMA SpecInv == Spec => []Inv
  BY InitInv, StepInv, PTL DEF Spec

\* A green sync is a mirror of the local tree: after any number of failed, killed and
\* half-recorded runs of the same tree, and after orderly failures of other trees, no
\* file is skipped that is not there and none is left over (executeSync,
\* collidingDeletes, mergedManifest, readManifest).
THEOREM GreenIsMirror == Spec => []GreenMeansMirror
<1>1. Inv => GreenMeansMirror
  BY InvMirror
<1> QED
  BY <1>1, SpecInv, PTL

-----------------------------------------------------------------------------
(* What a run never touches. *)

LEMMA ForeignStays ==
    ASSUME Inv, [Next]_vars, NEW e \in Paths, disk[e] = Foreign, ~unsure, ~kept
    PROVE  disk'[e] = Foreign \/ \E p \in Planned : Entry(p) = e
<1>1. ASSUME NEW p \in Paths, PreDelete(p) \/ Delete(p) PROVE disk'[e] = Foreign
  <2>1. /\ p \in todo /\ pc \in {"preDelete", "delete"}
        /\ disk' = disk \/ disk' = Put({p}, Absent)
    BY <1>1 DEF PreDelete, Delete, Done, Fails
  <2>2. Live[p] # Absent /\ Recorded = Live /\ InRun
    BY <2>1, StaleTodo DEF Inv, Recorded, InRun, Working
  <2>3. disk[Entries[p]] = Live[p]
    BY <2>2 DEF Inv, Clean, IsTrue
  <2>4. Live[p] \in Hashes
    BY <2>2, RecordedFacts DEF Inv, Listings
  <2>5. Entries[p] # e
    BY <2>3, <2>4, Kinds
  <2>6. Put({p}, Absent) = [disk EXCEPT ![Entries[p]] = Absent] /\ disk \in Disks
    BY PutOne, RecordedFacts DEF Inv
  <2> QED
    BY <2>1, <2>5, <2>6 DEF Disks
<1>2. ASSUME NEW d \in Paths, ClearDir(d) \/ CreateDir(d) \/ PruneEmptyDir(d)
      PROVE  disk'[e] = Foreign
  BY <1>2, DirStep DEF Inv
<1>3. ASSUME NEW p \in Paths, UploadFile(p)
      PROVE  disk'[e] = Foreign \/ \E q \in Planned : Entry(q) = e
  <2>1. /\ p \in todo /\ pc = "upload"
        /\ disk' = disk \/ disk' = Put({p}, local[p]) \/ disk' = Put({p}, Absent)
    BY <1>3 DEF UploadFile, Done, Fails, Stranded
  <2>2. p \in Upload(old)
    BY <2>1 DEF Inv, RunShape, InRun, Working
  <2>3. p \in Planned /\ local[p] \in Hashes
    BY <2>2, RecordedFacts, PlanFacts DEF Inv, Upload, Planned
  <2>4. /\ Put({p}, local[p]) = [disk EXCEPT ![Entries[p]] = local[p]] /\ disk \in Disks
        /\ Put({p}, Absent) = [disk EXCEPT ![Entries[p]] = Absent]
        /\ Entries[p] = Entry(p)
    BY <2>3, PutOne, RecordedFacts, EntryFacts DEF Inv
  <2> QED
    BY <2>1, <2>3, <2>4 DEF Disks
<1>4. ASSUME NEW p \in Paths, PutForeign(p) PROVE disk'[e] = Foreign
  BY <1>4, ForeignStep DEF Inv
<1>5. ASSUME disk' = disk PROVE disk'[e] = Foreign
  BY <1>5
<1> QED
  BY <1>1, <1>2, <1>3, <1>4, <1>5
     DEF Next, Ended, vars, StartRun, EndPreDelete, EndClear, EndMkdirs, EndUpload, EndDelete,
         EndPrune, WriteLocal, WriteRecoveryManifest, WriteKeepingManifest, Kill, Edit

\* What somebody else put on the server is there after every step, unless the tree has a
\* file of that name, as long as the manifest is trustworthy ("Only files listed in the
\* manifest are ever deleted").
THEOREM ForeignKept == Spec => ForeignSurvives
<1>1. Inv /\ [Next]_vars =>
        [\A e \in Paths :
            disk[e] = Foreign /\ ~unsure /\ ~kept =>
                disk'[e] = Foreign \/ \E p \in Planned : Entry(p) = e]_vars
  BY ForeignStays
<1> QED
  BY <1>1, SpecInv, PTL DEF Spec, ForeignSurvives

\* A planned file whose content is the one that the run's manifest lists: executeSync counts
\* it as unchanged.
Unchanged == {p \in Planned : old[p] = local[p]}

\* Nothing a run does is under the entry of an unchanged file that is there.
LEMMA UnchangedStays ==
    ASSUME Inv, [Next]_vars, InRun, NEW p \in Unchanged, IsFile(At(p))
    PROVE  disk'[Entry(p)] = At(p)
<1>1. /\ TypeOK /\ p \in Paths /\ local[p] # Absent /\ old[p] = local[p]
      /\ \A q \in Paths : Entries[q] = Entry(q) /\ Entry(q) \in Paths
      /\ At(p) = disk[Entry(p)] /\ disk \in Disks
  BY EntryFacts, RecordedFacts DEF Inv, Unchanged, Planned, At
<1>2. OneNameEach(Entries, old) /\ OneNameEach(Entries, local)
  BY TreeNames DEF Inv, OneName
<1>3. ASSUME NEW q \in Paths, PreDelete(q) \/ Delete(q) PROVE disk'[Entry(p)] = At(p)
  <2>1. q \in todo /\ pc \in {"preDelete", "delete"} /\ (disk' = disk \/ disk' = Put({q}, Absent))
    BY <1>3 DEF PreDelete, Delete, Done, Fails
  <2>2. local[q] = Absent /\ old[q] # Absent
    BY <2>1, StaleTodo DEF Inv
  <2>3. Entries[q] # Entries[p]
    BY <1>1, <1>2, <2>2 DEF OneNameEach
  <2>4. Put({q}, Absent) = [disk EXCEPT ![Entries[q]] = Absent]
    BY <1>1, PutOne
  <2> QED
    BY <1>1, <2>1, <2>3, <2>4 DEF Disks
<1>4. ASSUME NEW d \in Paths, ClearDir(d) \/ CreateDir(d) \/ PruneEmptyDir(d)
      PROVE  disk'[Entry(p)] = At(p)
  BY <1>1, <1>4, DirStep DEF IsFile
<1>5. ASSUME NEW q \in Paths, UploadFile(q) PROVE disk'[Entry(p)] = At(p)
  <2>1. /\ q \in todo /\ pc = "upload"
        /\ disk' = disk \/ disk' = Put({q}, local[q]) \/ disk' = Put({q}, Absent)
    BY <1>5 DEF UploadFile, Done, Fails, Stranded
  <2>2. q \in Upload(old)
    BY <2>1 DEF Inv, RunShape
  <2>3. local[q] \in Hashes /\ local[q] # Absent /\ q # p
    BY <1>1, <2>2, RecordedFacts, PlanFacts DEF Upload
  <2>4. Entries[q] # Entries[p]
    BY <1>1, <1>2, <2>3 DEF OneNameEach
  <2>5. /\ Put({q}, local[q]) = [disk EXCEPT ![Entries[q]] = local[q]]
        /\ Put({q}, Absent) = [disk EXCEPT ![Entries[q]] = Absent]
    BY <1>1, <2>3, PutOne
  <2> QED
    BY <1>1, <2>1, <2>4, <2>5 DEF Disks
<1>6. \A q \in Paths : ~PutForeign(q)
  BY DEF PutForeign, InRun, Resting, Working
<1>7. ASSUME disk' = disk PROVE disk'[Entry(p)] = At(p)
  BY <1>1, <1>7
<1> QED
  BY <1>3, <1>4, <1>5, <1>6, <1>7
     DEF Next, Ended, vars, StartRun, EndPreDelete, EndClear, EndMkdirs, EndUpload, EndDelete,
         EndPrune, WriteLocal, WriteRecoveryManifest, WriteKeepingManifest, Kill, Edit

\* A file that is to stay as it is stays on the server throughout a run: no delete of
\* another spelling, no directory that is cleared, made or pruned and no upload comes under
\* its name, trusted manifest or not (executeSync, collidingDeletes).
THEOREM UnchangedKept ==
    Spec => [][\A p \in Unchanged : InRun /\ IsFile(At(p)) => disk'[Entry(p)] = At(p)]_vars
<1>1. Inv /\ [Next]_vars =>
        [\A p \in Unchanged : InRun /\ IsFile(At(p)) => disk'[Entry(p)] = At(p)]_vars
  BY UnchangedStays
<1> QED
  BY <1>1, SpecInv, PTL DEF Spec

-----------------------------------------------------------------------------
(* Why a retry succeeds. *)

\* Every manifest is written, nobody else uses the target, and directories have one
\* spelling.
Quiet == Faults \subseteq {"lost", "prune", "window"} /\ OneSpellingPerDir

\* What the next step of a run may take for listed: until the room for the plan is made,
\* all the run read.
OnBooks == IF pc \in {"preDelete", "clear", "keep"} THEN old ELSE Recorded

\* No listed path is a directory on the server d, and none lies below a file.
ClearOfFiles(ent, d, m) ==
    \A p \in Paths : m[p] # Absent =>
        d[ent[p]] # Dir /\ \A x \in Above[p] : ~IsFile(d[ent[x]])

\* A path at or below a file of the tree t.
InTheWay(t, q) == \E f \in Paths : t[f] # Absent /\ (f = q \/ f \in Above[q])

\* Every directory in the way of t has an entry of m below it.
DirsListed(ent, d, t, m) ==
    \A q \in Paths : d[ent[q]] = Dir /\ InTheWay(t, q) =>
        \E p \in Paths : m[p] # Absent /\ q \in Above[p]

OnlyOurs == ~forgot /\ \A e \in Paths : disk[e] # Foreign

BooksClear == ClearOfFiles(Entries, disk, OnBooks)

\* As long as one tree was deployed, every directory in its way can be found from the
\* books.
DirsKnown ==
    ~stray => \A t \in Trees : tried \subseteq {t} => DirsListed(Entries, disk, t, OnBooks)

\* What the phases of a run have done so far.
RoomMade ==
    /\ pc = "clear" =>
          /\ todo \subseteq CollideDirs(old)
          /\ \A d \in CollideDirs(old) : d \notin todo => disk[Entries[d]] = Absent
    /\ pc = "mkdirs" =>
          /\ todo \subseteq DirsForFiles(Upload(old))
          /\ failed \/ \A d \in DirsForFiles(Upload(old)) : d \notin todo => disk[Entries[d]] = Dir
    /\ pc = "upload" => failed \/ \A d \in DirsForFiles(Upload(old)) : disk[Entries[d]] = Dir

\* No run of the one tree has failed but for a request that could have succeeded.
NothingBlocks ==
    ~stray /\ ~faulty /\ (\E t \in Trees : tried \subseteq {t}) =>
        pc \notin {"recover", "keep", "failed"} /\ (InRun => ~failed)

RetryInv == OnlyOurs /\ BooksClear /\ DirsKnown /\ RoomMade /\ NothingBlocks

\* A set of paths has one that is above no other.
LEMMA DeepestPath ==
    ASSUME NEW S \in SUBSET Paths, S # {}
    PROVE  \E q \in S : \A r \in S : q \notin Above[r]
<1> DEFINE N == Cardinality(Paths)
           Height(q) == N - Cardinality(Above[q])
           H == {Height(q) : q \in S}
<1>1. IsFiniteSet(Paths) /\ N \in Nat
  BY PathsAssumption, FS_CardinalityType
<1>2. \A q \in Paths : /\ IsFiniteSet(Above[q]) /\ Cardinality(Above[q]) \in Nat
                       /\ Cardinality(Above[q]) <= N
  <2> TAKE q \in Paths
  <2>1. Above[q] \in SUBSET Paths
    BY SyncAssumption
  <2> QED
    BY <1>1, <2>1, FS_Subset, FS_CardinalityType
<1> HIDE DEF N
<1>3. H \subseteq Nat /\ H # {}
  BY <1>1, <1>2
<1> HIDE DEF H
<1>4. IsWellFoundedOn(OpToRel(<, Nat), Nat)
  BY NatLessThanWellFounded
<1>5. PICK m \in H : \A k \in H : ~ (<<k, m>> \in OpToRel(<, Nat))
  BY <1>3, <1>4, WFMin
<1>6. \A k \in H : ~ (k < m)
  BY <1>3, <1>5 DEF OpToRel
<1>7. PICK q \in S : m = Height(q)
  BY DEF H
<1>8. ASSUME NEW r \in S, q \in Above[r] PROVE FALSE
  <2>1. Above[q] \cup {q} \in SUBSET Above[r] /\ q \notin Above[q]
    BY <1>8, PathsAssumption
  <2>2. Cardinality(Above[q] \cup {q}) = Cardinality(Above[q]) + 1
    BY <1>2, <2>1, FS_AddElement
  <2>3. Cardinality(Above[q]) + 1 <= Cardinality(Above[r])
    BY <1>2, <2>1, <2>2, FS_Subset
  <2>4. Height(r) \in H
    BY DEF H
  <2>5. Height(r) < Height(q)
    BY <1>1, <1>2, <2>3
  <2> QED
    BY <1>6, <1>7, <2>4, <2>5
<1> QED
  BY <1>8

\* On a quiet server a directory has its entry for itself, and two names of one entry lie in
\* the same directories.
LEMMA QuietNames ==
    ASSUME TypeOK, Quiet
    PROVE  /\ \A q \in Paths : \A d \in Above[q], e \in Paths : Entries[e] = Entries[d] => e = d
           /\ \A p, q \in Paths : Entries[p] = Entries[q] => Above[p] = Above[q]
<1>1. ASSUME NEW q \in Paths, NEW d \in Above[q], NEW e \in Paths, Entries[e] = Entries[d]
      PROVE  e = d
  <2>1. d \in Paths
    BY SyncAssumption
  <2> QED
    BY <1>1, <2>1, EntryFacts DEF Quiet, OneSpellingPerDir
<1>2. ASSUME NEW p \in Paths, NEW q \in Paths, Entries[p] = Entries[q], NEW d \in Above[p]
      PROVE  d \in Above[q]
  <2>0. d \in Paths /\ Above[q] \in SUBSET Paths
    BY SyncAssumption
  <2>1. Entry(p) = Entry(q)
    BY <1>2, EntryFacts
  <2>2. CASE setup.insensitive
    <3>1. FoldPath[p] = FoldPath[q]
      BY <2>1, <2>2 DEF Entry
    <3>2. PICK e \in Above[q] : FoldPath[d] = FoldPath[e]
      BY <3>1, PathsAssumption
    <3>3. Entries[d] = Entries[e]
      BY <2>0, <2>2, <3>2 DEF Entries, Entry
    <3>4. d = e
      BY <1>1, <2>0, <3>3
    <3> QED
      BY <3>4
  <2>3. CASE ~setup.insensitive
    BY <2>1, <2>3 DEF Entry
  <2> QED
    BY <2>2, <2>3
<1>3. ASSUME NEW p \in Paths, NEW q \in Paths, Entries[p] = Entries[q]
      PROVE  Above[p] = Above[q]
  <2>1. Above[p] \subseteq Above[q] /\ Above[q] \subseteq Above[p]
    BY <1>2, <1>3
  <2> QED
    BY <2>1
<1> QED
  BY <1>1, <1>3

\* Below a directory that is not empty, and whose directories are not, is a file.
LEMMA FileBelow ==
    ASSUME TypeOK, OnlyOurs, EmptyDirs = {}, NEW d \in Paths, disk[Entries[d]] = Dir
    PROVE  \E q \in Paths : d \in Above[q] /\ disk[Entries[q]] \in Hashes
<1> DEFINE S == {q \in Paths : d \in Above[q] /\ At(q) # Absent}
<1>1. \A q \in Paths : At(q) = disk[Entries[q]] /\ Entries[q] \in Paths
  BY EntryFacts DEF At
<1>2. \A x \in Paths : At(x) = Dir => \E q \in Paths : x \in Above[q] /\ At(q) # Absent
  BY DEF EmptyDirs, IsEmpty
<1>3. S # {}
  BY <1>1, <1>2
<1>4. PICK q \in S : \A r \in S : q \notin Above[r]
  BY <1>3, DeepestPath
<1>5. At(q) # Dir
  <2> SUFFICES ASSUME At(q) = Dir PROVE FALSE
    OBVIOUS
  <2>1. PICK r \in Paths : q \in Above[r] /\ At(r) # Absent
    BY <1>2
  <2>2. d \in Above[r]
    BY <2>1, PathsAssumption
  <2> QED
    BY <1>4, <2>1, <2>2
<1>6. At(q) \in Hashes \cup {Absent, Dir, Foreign} /\ At(q) # Foreign
  BY <1>1 DEF TypeOK, OnlyOurs
<1> QED
  BY <1>1, <1>4, <1>5, <1>6

\* The files of a tree are nested in no other of its files.
LEMMA TreeFacts ==
    ASSUME TypeOK, NEW t \in Trees
    PROVE  /\ t \in Listings
           /\ \A p, q \in Paths : t[p] # Absent /\ t[q] # Absent => p \notin Above[q]
<1>1. setup \in Setups /\ t \in setup.trees
  BY DEF TypeOK, Trees
<1> QED
  BY <1>1, SyncAssumption, TreesNest DEF Listings

\* When no directory is empty, the listed files lead to all that are in the way.
LEMMA NoneEmptyAllListed ==
    ASSUME TypeOK, Quiet, OnlyOurs, EmptyDirs = {}, NEW t \in Trees, NEW m \in Listings,
           LeavesNothing(Entries, disk, t, m)
    PROVE  DirsListed(Entries, disk, t, m)
<1> SUFFICES ASSUME NEW q \in Paths, disk[Entries[q]] = Dir, InTheWay(t, q)
             PROVE  \E p \in Paths : m[p] # Absent /\ q \in Above[p]
  BY DEF DirsListed
<1>1. PICK f \in Paths : t[f] # Absent /\ (f = q \/ f \in Above[q])
  BY DEF InTheWay
<1>2. PICK r \in Paths : q \in Above[r] /\ disk[Entries[r]] \in Hashes
  BY FileBelow
<1>3. PICK p \in Paths : (m[p] # Absent \/ t[p] # Absent) /\ Entries[p] = Entries[r]
  BY <1>2, EntryFacts DEF LeavesNothing
<1>4. Above[p] = Above[r]
  BY <1>3, QuietNames
<1>5. q \in Above[p] /\ f \in Above[p]
  BY <1>1, <1>2, <1>4, PathsAssumption
<1>6. t[p] = Absent
  BY <1>1, <1>5, TreeFacts
<1> QED
  BY <1>3, <1>5, <1>6

-----------------------------------------------------------------------------
(* What a run of the one tree meets. *)

\* The one tree is the run's, and whatever the server has is on record or planned.
LEMMA OneTree ==
    ASSUME Inv, OnlyOurs, InRun, NEW t \in Trees, tried \subseteq {t}
    PROVE  t = local /\ tried = {local} /\ LeavesNothing(Entries, disk, local, Live)
<1>1. local \in tried
  BY DEF Inv, RunShape
<1>2. t = local /\ tried = {local}
  BY <1>1
<1>3. Serves(local, Recorded) /\ Recorded = Live
  BY <1>1, <1>2 DEF Inv, SameTree, Recorded, NoneAside, OnlyOurs
<1> QED
  BY <1>2, <1>3 DEF Serves, OnlyOurs

\* Once the colliding entries are gone, nothing on record is above or below a planned file.
LEMMA LiveApart ==
    ASSUME Inv, InRun, preDeleted = Colliding(old),
           NEW p \in Paths, NEW f \in Paths, Live[p] # Absent, local[f] # Absent
    PROVE  f \notin Above[p] /\ p \notin Above[f]
<1>1. CASE local[p] # Absent
  <2>1. local \in Trees
    BY DEF Inv, TypeOK
  <2> QED
    BY <1>1, <2>1, TreeFacts DEF Inv
<1>2. CASE local[p] = Absent
  <2>1. old \in Listings /\ p \notin preDeleted \cup deleted
    BY RecordedFacts DEF Inv
  <2>2. old[p] # Absent
    BY <1>2, RecordedFacts DEF Inv
  <2>3. p \notin Colliding(old)
    BY <2>1
  <2> QED
    BY <1>2, <2>2, <2>3 DEF Colliding, ToDelete, Planned
<1> QED
  BY <1>1, <1>2

\* Then no file is below a planned one, nor where the plan needs a directory ...
LEMMA NoFileInTheWay ==
    ASSUME Inv, Quiet, OnlyOurs, InRun, NEW t \in Trees, tried \subseteq {t},
           preDeleted = Colliding(old),
           NEW d \in Paths, NEW f \in Paths, local[f] # Absent, f \in Above[d] \/ d \in Above[f]
    PROVE  ~IsFile(disk[Entries[d]])
<1> SUFFICES ASSUME disk[Entries[d]] \in Hashes PROVE FALSE
  BY EntryFacts DEF IsFile, OnlyOurs, Inv
<1>1. PICK p \in Paths : (Live[p] # Absent \/ local[p] # Absent) /\ Entries[p] = Entries[d]
  BY OneTree, EntryFacts DEF LeavesNothing, Inv
<1>2. f \in Above[p] \/ p \in Above[f]
  <2>1. CASE f \in Above[d]
    BY <1>1, <2>1, QuietNames DEF Inv
  <2>2. CASE d \in Above[f]
    BY <1>1, <2>2, QuietNames DEF Inv
  <2> QED
    BY <2>1, <2>2
<1>3. local \in Trees
  BY DEF Inv, TypeOK
<1> QED
  BY <1>1, <1>2, <1>3, LiveApart, TreeFacts DEF Inv

\* ... and no directory at or below a planned file.
LEMMA NoDirInTheWay ==
    ASSUME Inv, InRun, preDeleted = Colliding(old),
           DirsListed(Entries, disk, local, Live), NEW q \in Paths, InTheWay(local, q)
    PROVE  disk[Entries[q]] # Dir
<1> SUFFICES ASSUME disk[Entries[q]] = Dir PROVE FALSE
  OBVIOUS
<1>1. PICK f \in Paths : local[f] # Absent /\ (f = q \/ f \in Above[q])
  BY DEF InTheWay
<1>2. PICK p \in Paths : Live[p] # Absent /\ q \in Above[p]
  BY DEF DirsListed
<1>3. f \in Above[p]
  BY <1>1, <1>2, PathsAssumption
<1> QED
  BY <1>1, <1>2, <1>3, LiveApart

\* The directories of a colliding entry, from a planned file down, are those that are
\* cleared.
LEMMA ClearedDirs ==
    ASSUME TypeOK, NEW m \in Listings
    PROVE  /\ \A d \in CollideDirs(m) : \E p \in Colliding(m), f \in Planned :
                 d \in Above[p] /\ (f = d \/ f \in Above[d])
           /\ \A p \in Colliding(m), f \in Planned : \A d \in Above[p] :
                 f = d \/ f \in Above[d] => d \in CollideDirs(m)
<1>1. ASSUME NEW d \in CollideDirs(m)
      PROVE  \E p \in Colliding(m), f \in Planned : d \in Above[p] /\ (f = d \/ f \in Above[d])
  BY DEF CollideDirs, Tops
<1>2. ASSUME NEW p \in Colliding(m), NEW f \in Planned, NEW d \in Above[p],
             f = d \/ f \in Above[d]
      PROVE  d \in CollideDirs(m)
  <2>1. p \in Paths /\ f \in Paths /\ local[f] # Absent /\ local \in Trees
    BY PlanFacts DEF Planned, TypeOK
  <2>2. d \in Paths
    BY <2>1, SyncAssumption
  <2>3. f \in Above[p]
    BY <1>2, <2>1, PathsAssumption
  <2>4. \A u \in Above[p] \cap Planned : f \notin Above[u]
    BY <2>1, TreeFacts DEF Planned
  <2>5. f \in Tops(p)
    BY <2>3, <2>4 DEF Tops
  <2> QED
    BY <1>2, <2>5 DEF CollideDirs
<1> QED
  BY <1>1, <1>2

\* A stale file is no directory, so its removal is possible.
LEMMA CanRemove ==
    ASSUME Inv, BooksClear, NEW p \in todo, pc \in {"preDelete", "delete"}
    PROVE  Removable(p)
<1>1. p \in Paths /\ Live[p] # Absent /\ Live[p] = old[p]
  BY StaleTodo DEF Inv
<1>2. OnBooks[p] # Absent
  BY <1>1 DEF OnBooks, Recorded, InRun, Working
<1>3. disk[Entries[p]] # Dir
  BY <1>1, <1>2 DEF BooksClear, ClearOfFiles
<1> QED
  BY <1>1, <1>3, EntryFacts DEF Removable, At, Inv

\* A directory that is to be cleared has nothing in it.
LEMMA CanClear ==
    ASSUME Inv, Quiet, RetryInv, ~stray, NEW t \in Trees, tried \subseteq {t},
           pc = "clear", NEW d \in todo, \A c \in todo : d \notin Above[c]
    PROVE  At(d) = Absent \/ (At(d) = Dir /\ IsEmpty(d))
<1>1. /\ TypeOK /\ InRun /\ old \in Listings /\ OnBooks = old /\ preDeleted = Colliding(old)
      /\ d \in CollideDirs(old)
      /\ \A c \in CollideDirs(old) : c \notin todo => disk[Entries[c]] = Absent
  BY RecordedFacts DEF Inv, RunShape, InRun, Working, OnBooks, RetryInv, RoomMade
<1>2. t = local
  BY <1>1, OneTree DEF RetryInv
<1>3. PICK p \in Colliding(old), f \in Planned : d \in Above[p] /\ (f = d \/ f \in Above[d])
  BY <1>1, ClearedDirs
<1>4. /\ p \in Paths /\ f \in Paths /\ d \in Paths /\ local[f] # Absent /\ old[p] # Absent
      /\ \A q \in Paths : At(q) = disk[Entries[q]] /\ Entries[q] \in Paths
  BY <1>1, <1>3, PlanFacts, EntryFacts, SyncAssumption DEF Planned, At
<1>5. ~IsFile(At(d))
  BY <1>1, <1>3, <1>4 DEF RetryInv, BooksClear, ClearOfFiles
<1>6. \A q \in Paths : At(q) \in {Absent, Dir} \/ IsFile(At(q))
  BY <1>1, <1>4 DEF TypeOK, IsFile
<1>7. ASSUME NEW q \in Paths, d \in Above[q] PROVE At(q) = Absent
  <2>1. f \in Above[q]
    BY <1>3, <1>4, <1>7, PathsAssumption
  <2>2. ~IsFile(At(q))
    BY <1>1, <1>4, <2>1, NoFileInTheWay DEF RetryInv
  <2>3. ASSUME At(q) = Dir PROVE FALSE
    <3>1. InTheWay(local, q)
      BY <1>4, <2>1 DEF InTheWay
    <3>2. PICK r \in Paths : old[r] # Absent /\ q \in Above[r]
      BY <1>1, <1>2, <1>4, <2>3, <3>1 DEF RetryInv, DirsKnown, DirsListed
    <3>3. f \in Above[r]
      BY <1>4, <2>1, <3>2, PathsAssumption
    <3>4. local[r] = Absent
      BY <1>1, <1>2, <1>4, <3>3, TreeFacts
    <3>5. r \in Colliding(old)
      BY <1>3, <3>2, <3>3, <3>4 DEF Colliding, ToDelete
    <3>6. q \in CollideDirs(old)
      BY <1>1, <1>3, <2>1, <3>2, <3>5, ClearedDirs
    <3>7. q \notin todo
      BY <1>7
    <3> QED
      BY <1>1, <1>4, <2>3, <3>6, <3>7, Kinds
  <2> QED
    BY <1>6, <2>2, <2>3
<1> QED
  BY <1>4, <1>5, <1>6, <1>7 DEF IsEmpty

\* A directory of the plan can be made.
LEMMA CanMake ==
    ASSUME Inv, Quiet, RetryInv, NEW t \in Trees, tried \subseteq {t},
           pc = "mkdirs", NEW d \in todo
    PROVE  Makeable(d)
<1>1. TypeOK /\ InRun /\ old \in Listings /\ preDeleted = Colliding(old) /\ OnlyOurs
  BY RecordedFacts DEF Inv, RunShape, InRun, Working, RetryInv
<1>2. PICK p \in Upload(old) : d \in Above[p]
  BY DEF RetryInv, RoomMade, DirsForFiles
<1>3. p \in Paths /\ local[p] # Absent
  BY <1>1, <1>2, PlanFacts
<1>4. \A e \in Above[d] \cup {d} : e \in Paths /\ e \in Above[p]
  BY <1>2, <1>3, PathsAssumption, SyncAssumption
<1>5. \A e \in Above[d] \cup {d} : ~IsFile(disk[Entries[e]])
  BY <1>1, <1>3, <1>4, NoFileInTheWay
<1> QED
  BY <1>1, <1>4, <1>5, EntryFacts DEF Makeable, At

\* A file of the plan can be created.
LEMMA CanCreate ==
    ASSUME Inv, Quiet, RetryInv, ~stray, NEW t \in Trees, tried \subseteq {t},
           pc = "upload", ~failed, NEW p \in todo
    PROVE  Creatable(p)
<1>1. TypeOK /\ InRun /\ old \in Listings /\ preDeleted = Colliding(old) /\ OnBooks = Live
  BY RecordedFacts DEF Inv, RunShape, InRun, Working, OnBooks, Recorded
<1>2. p \in Upload(old)
  BY <1>1 DEF Inv, RunShape
<1>3. p \in Paths /\ local[p] # Absent
  BY <1>1, <1>2, PlanFacts
<1>4. t = local
  BY <1>1, OneTree DEF RetryInv
<1>5. DirsListed(Entries, disk, local, Live)
  BY <1>1, <1>4 DEF RetryInv, DirsKnown
<1>6. InTheWay(local, p)
  BY <1>3 DEF InTheWay
<1>7. disk[Entries[p]] # Dir
  BY <1>1, <1>3, <1>5, <1>6, NoDirInTheWay
<1>8. \A d \in Above[p] : d \in Paths /\ disk[Entries[d]] = Dir
  BY <1>2, <1>3, SyncAssumption DEF RetryInv, RoomMade, DirsForFiles
<1> QED
  BY <1>1, <1>3, <1>7, <1>8, EntryFacts DEF Creatable, At

-----------------------------------------------------------------------------
(* The steps. *)

\* The setup never changes, nor what is read off it.
LEMMA ServerStays ==
    ASSUME setup' = setup
    PROVE  Entries' = Entries /\ Trees' = Trees /\ Faults' = Faults /\ Quiet' = Quiet
  BY EntriesStay DEF Trees, Faults, Quiet, OneSpellingPerDir, Entry

\* What is removed is in nobody's way, and a shorter list claims less.
LEMMA ShrinkKeeps ==
    ASSUME Inv, Inv', \A e \in Paths : disk'[e] = disk[e] \/ disk'[e] = Absent,
           NEW m, NEW m2, \A p \in Paths : m2[p] # Absent => m[p] # Absent
    PROVE  /\ ClearOfFiles(Entries, disk, m) => ClearOfFiles(Entries, disk', m2)
           /\ \A t : DirsListed(Entries, disk, t, m) => DirsListed(Entries, disk', t, m)
           /\ OnlyOurs /\ ~forgot' => OnlyOurs'
<1>1. \A p \in Paths : Entries[p] \in Paths /\ Above[p] \in SUBSET Paths
  BY EntryFacts, SyncAssumption DEF Inv
<1>2. Absent # Dir /\ ~IsFile(Absent) /\ Absent # Foreign
  BY Kinds DEF IsFile
<1>3. ASSUME ClearOfFiles(Entries, disk, m), NEW p \in Paths, m2[p] # Absent
      PROVE  disk'[Entries[p]] # Dir /\ \A x \in Above[p] : ~IsFile(disk'[Entries[x]])
  <2>1. disk[Entries[p]] # Dir /\ \A x \in Above[p] : ~IsFile(disk[Entries[x]])
    BY <1>3 DEF ClearOfFiles
  <2>2. disk'[Entries[p]] # Dir
    BY <1>1, <1>2, <2>1
  <2>3. ASSUME NEW x \in Above[p] PROVE ~IsFile(disk'[Entries[x]])
    <3>1. Entries[x] \in Paths /\ ~IsFile(disk[Entries[x]])
      BY <1>1, <2>1
    <3>2. disk'[Entries[x]] = disk[Entries[x]] \/ disk'[Entries[x]] = Absent
      BY <3>1
    <3> QED
      BY <1>2, <3>1, <3>2
  <2> QED
    BY <2>2, <2>3
<1>4. ASSUME NEW t, DirsListed(Entries, disk, t, m) PROVE DirsListed(Entries, disk', t, m)
  BY <1>1, <1>2, <1>4 DEF DirsListed
<1>5. OnlyOurs /\ ~forgot' => OnlyOurs'
  BY <1>2 DEF OnlyOurs
<1> QED
  BY <1>3, <1>4, <1>5 DEF ClearOfFiles

\* A step that only removes, and leaves the books or crosses out what is in nobody's way.
LEMMA BooksKept ==
    ASSUME Inv, Inv', Quiet, RetryInv, setup' = setup, tried' = tried, forgot' = forgot,
           \A e \in Paths : disk'[e] = disk[e] \/ disk'[e] = Absent,
           OnBooks' = OnBooks, ~stray' => ~stray
    PROVE  OnlyOurs' /\ BooksClear' /\ DirsKnown'
<1>1. Entries' = Entries /\ Trees' = Trees
  BY ServerStays
<1>2. ~forgot
  BY DEF RetryInv, OnlyOurs
<1>3. BooksClear'
  BY <1>1, ShrinkKeeps DEF RetryInv, BooksClear
<1>4. DirsKnown'
  BY <1>1, ShrinkKeeps DEF RetryInv, DirsKnown
<1> QED
  BY <1>2, <1>3, <1>4, ShrinkKeeps DEF RetryInv

\* The record stays with what it is made from.
LEMMA RecordStays ==
    ASSUME local' = local, old' = old, manifest' = manifest, completed' = completed,
           preDeleted' = preDeleted, deleted' = deleted
    PROVE  /\ Live' = Live
           /\ Upload(old)' = Upload(old) /\ Colliding(old)' = Colliding(old)
           /\ CollideDirs(old)' = CollideDirs(old)
           /\ DirsForFiles(Upload(old))' = DirsForFiles(Upload(old))
<1>1. Colliding(old)' = Colliding(old) /\ Upload(old)' = Upload(old)
  BY PlanStays
<1>2. CollideDirs(old)' = CollideDirs(old)
  BY <1>1 DEF CollideDirs, Tops, Planned
<1> QED
  BY <1>1, <1>2 DEF Live, MergedManifest, DirsForFiles

\* A run starts with what is on record, and nothing has failed yet.
LEMMA StartKeeps ==
    ASSUME Inv, Inv', Quiet, RetryInv, StartRun
    PROVE  RetryInv'
<1>1. /\ setup' = setup /\ local' = local /\ disk' = disk /\ manifest' = manifest
      /\ old' = manifest /\ forgot' = forgot /\ stray' = stray /\ tried' = tried \cup {local}
      /\ completed' = {} /\ preDeleted' = {} /\ deleted' = {} /\ pc \in Resting
  BY DEF StartRun, Quiet
<1>2. manifest \in Listings
  BY RecordedFacts DEF Inv
<1>3. \/ pc' = "preDelete" /\ ~failed'
      \/ pc' = "mkdirs" /\ ~failed' /\ todo' = DirsForFiles(Upload(manifest))
      \/ pc' = "failed" /\ faulty'
  BY <1>1 DEF StartRun, FirstPhase, Enter
<1>4. DirsForFiles(Upload(old))' = DirsForFiles(Upload(manifest))
  BY <1>1 DEF DirsForFiles, Upload, Planned
<1>5. Live' = manifest
  BY <1>1, <1>2 DEF Live, MergedManifest, Listings
<1>6. OnBooks' = manifest /\ OnBooks = manifest
  BY <1>1, <1>3, <1>5 DEF OnBooks, Recorded, InRun, Resting, Working
<1>7. Entries' = Entries /\ Trees' = Trees
  BY <1>1, ServerStays
<1>8. OnlyOurs' /\ BooksClear'
  BY <1>1, <1>6, <1>7 DEF RetryInv, OnlyOurs, BooksClear
<1>9. DirsKnown'
  BY <1>1, <1>6, <1>7 DEF RetryInv, DirsKnown
<1>10. RoomMade'
  BY <1>3, <1>4 DEF RoomMade
<1>11. NothingBlocks'
  BY <1>3 DEF NothingBlocks
<1> QED
  BY <1>8, <1>9, <1>10, <1>11 DEF RetryInv

\* What a delete or a cleared directory does to the server.
LEMMA OneRemoved ==
    ASSUME Inv, NEW p \in Paths, disk' = disk \/ disk' = Put({p}, Absent)
    PROVE  \A e \in Paths : disk'[e] = disk[e] \/ disk'[e] = Absent
  BY PutFacts DEF Inv

\* A colliding entry goes: the books still hold it, so its directories are found.
LEMMA PreDeleteKeeps ==
    ASSUME Inv, Inv', Quiet, RetryInv, NEW p \in Paths, PreDelete(p)
    PROVE  RetryInv'
<1>1. /\ setup' = setup /\ local' = local /\ old' = old /\ forgot' = forgot /\ stray' = stray
      /\ tried' = tried /\ pc = "preDelete" /\ pc' = pc /\ p \in todo
      /\ disk' = disk \/ disk' = Put({p}, Absent)
  BY DEF PreDelete, Done, Fails
<1>2. OnBooks' = OnBooks
  BY <1>1 DEF OnBooks
<1>3. OnlyOurs' /\ BooksClear' /\ DirsKnown'
  BY <1>1, <1>2, OneRemoved, BooksKept
<1>4. RoomMade'
  BY <1>1 DEF RoomMade
<1>5. Removable(p)
  BY <1>1, CanRemove DEF RetryInv
<1>6. faulty' \/ (faulty' = faulty /\ failed' = failed)
  BY <1>5 DEF PreDelete, Done, Fails
<1>7. NothingBlocks'
  BY <1>1, <1>6, ServerStays DEF RetryInv, NothingBlocks, InRun, Working
<1> QED
  BY <1>3, <1>4, <1>7 DEF RetryInv

\* A directory is cleared, and nothing but the request itself can fail.
LEMMA ClearKeeps ==
    ASSUME Inv, Inv', Quiet, RetryInv, NEW d \in Paths, ClearDir(d)
    PROVE  RetryInv'
<1> DEFINE gone == At(d) = Absent \/ (At(d) = Dir /\ IsEmpty(d))
<1>1. /\ setup' = setup /\ local' = local /\ old' = old /\ forgot' = forgot /\ stray' = stray
      /\ manifest' = manifest /\ completed' = completed /\ preDeleted' = preDeleted
      /\ deleted' = deleted
      /\ tried' = tried /\ pc = "clear" /\ d \in todo /\ \A c \in todo : d \notin Above[c]
  BY DEF ClearDir, progress
<1>2. \/ Done(gone, Put({d}, Absent)) /\ todo' = todo \ {d} /\ pc' = pc
      \/ Fails(gone, Put({d}, Absent)) /\ pc' = "keep"
  BY DEF ClearDir
<1>3. disk' = disk \/ disk' = Put({d}, Absent)
  BY <1>2 DEF Done, Fails
<1>4. OnBooks' = OnBooks
  BY <1>1, <1>2 DEF OnBooks
<1>5. OnlyOurs' /\ BooksClear' /\ DirsKnown'
  BY <1>1, <1>3, <1>4, OneRemoved, BooksKept
<1>6. RoomMade'
  <2>1. CASE Done(gone, Put({d}, Absent)) /\ todo' = todo \ {d} /\ pc' = pc
    <3>1. disk' = Put({d}, Absent) /\ Entries' = Entries
      BY <1>1, <2>1, ServerStays DEF Done
    <3>2. /\ todo \subseteq CollideDirs(old)
          /\ \A c \in CollideDirs(old) : c \notin todo => disk[Entries[c]] = Absent
      BY <1>1 DEF RetryInv, RoomMade
    <3>3. old \in Listings /\ TypeOK
      BY RecordedFacts DEF Inv
    <3>4. CollideDirs(old) \in SUBSET Paths
      BY <3>3, DirsFacts
    <3>5. ASSUME NEW c \in CollideDirs(old), c \notin todo' PROVE disk'[Entries[c]] = Absent
      <4>1. Entries[c] \in Paths /\ Entries[d] = Entry(d)
        BY <3>3, <3>4, EntryFacts
      <4>2. CASE c = d
        BY <3>1, <3>3, <4>1, <4>2, PutFacts
      <4>3. CASE c # d
        <5>1. disk[Entries[c]] = Absent
          BY <2>1, <3>2, <3>5, <4>3
        <5> QED
          BY <4>1, <5>1, <1>3, OneRemoved
      <4> QED
        BY <4>2, <4>3
    <3>6. CollideDirs(old)' = CollideDirs(old)
      BY <1>1, RecordStays
    <3> QED
      BY <1>1, <2>1, <3>1, <3>2, <3>5, <3>6 DEF RoomMade
  <2>2. CASE Fails(gone, Put({d}, Absent)) /\ pc' = "keep"
    BY <2>2 DEF RoomMade
  <2> QED
    BY <1>2, <2>1, <2>2
<1>7. NothingBlocks'
  <2> SUFFICES ASSUME ~stray', ~faulty', NEW t \in Trees, tried \subseteq {t}
               PROVE  pc' \notin {"recover", "keep", "failed"} /\ ~failed'
    BY <1>1, ServerStays DEF NothingBlocks
  <2>1. gone
    BY <1>1, CanClear
  <2>2. failed' = failed /\ faulty' = faulty /\ pc' = pc
    BY <1>2, <2>1 DEF Done, Fails
  <2> QED
    BY <1>1, <2>2 DEF RetryInv, NothingBlocks, InRun, Working
<1> QED
  BY <1>5, <1>6, <1>7 DEF RetryInv

\* An empty directory goes, or stays.
LEMMA PruneKeeps ==
    ASSUME Inv, Inv', Quiet, RetryInv, NEW d \in Paths, PruneEmptyDir(d)
    PROVE  RetryInv'
<1>1. /\ setup' = setup /\ local' = local /\ old' = old /\ forgot' = forgot /\ stray' = stray
      /\ manifest' = manifest /\ completed' = completed /\ preDeleted' = preDeleted
      /\ deleted' = deleted /\ failed' = failed /\ faulty' = faulty
      /\ tried' = tried /\ pc = "prune" /\ pc' = pc
      /\ disk' = disk \/ disk' = Put({d}, Absent)
  BY DEF PruneEmptyDir, progress, history
<1>2. OnBooks' = OnBooks
  BY <1>1, RecordStays DEF OnBooks, Recorded, InRun
<1>3. OnlyOurs' /\ BooksClear' /\ DirsKnown'
  BY <1>1, <1>2, OneRemoved, BooksKept
<1>4. RoomMade' /\ NothingBlocks'
  BY <1>1, ServerStays DEF RetryInv, RoomMade, NothingBlocks, InRun
<1> QED
  BY <1>3, <1>4 DEF RetryInv

\* A stale file goes, which is in nobody's way.
LEMMA DeleteKeeps ==
    ASSUME Inv, Inv', Quiet, RetryInv, NEW p \in Paths, Delete(p)
    PROVE  RetryInv'
<1>1. /\ setup' = setup /\ local' = local /\ old' = old /\ forgot' = forgot /\ stray' = stray
      /\ completed' = completed /\ preDeleted' = preDeleted
      /\ deleted' = deleted \/ deleted' = deleted \cup {p}
      /\ tried' = tried /\ pc = "delete" /\ pc' = pc /\ p \in todo
      /\ disk' = disk \/ disk' = Put({p}, Absent)
  BY DEF Delete, Done, Fails
<1>2. /\ InRun /\ OnBooks = Live /\ OnBooks' = Live'
      /\ Entries' = Entries /\ Trees' = Trees
  BY <1>1, ServerStays DEF OnBooks, Recorded, InRun, Working
<1>3. \A e \in Paths : disk'[e] = disk[e] \/ disk'[e] = Absent
  BY <1>1, OneRemoved
<1>4. \A q \in Paths : Live'[q] = Live[q] \/ (q = p /\ Live'[q] = Absent)
  BY <1>1 DEF Live, MergedManifest
<1>5. OnlyOurs' /\ BooksClear'
  <2>1. \A q \in Paths : Live'[q] # Absent => Live[q] # Absent
    BY <1>4
  <2>2. ClearOfFiles(Entries, disk', Live') /\ OnlyOurs'
    BY <1>1, <1>2, <1>3, <2>1, ShrinkKeeps DEF RetryInv, BooksClear, OnlyOurs
  <2> QED
    BY <1>2, <2>2 DEF BooksClear
<1>6. ASSUME ~stray, NEW t \in Trees, tried \subseteq {t}
      PROVE  DirsListed(Entries, disk', t, Live')
  <2>1. t = local /\ TypeOK /\ old \in Listings /\ p \in Rest(old) /\ OnlyOurs
    BY <1>1, <1>2, <1>6, OneTree, RecordedFacts DEF RetryInv, Inv, RunShape
  <2>2. DirsListed(Entries, disk', t, Live)
    BY <1>2, <1>3, <1>6, ShrinkKeeps DEF RetryInv, DirsKnown
  <2> SUFFICES ASSUME NEW q \in Paths, disk'[Entries[q]] = Dir, InTheWay(t, q)
               PROVE  \E r \in Paths : Live'[r] # Absent /\ q \in Above[r]
    BY DEF DirsListed
  <2>3. PICK r \in Paths : Live[r] # Absent /\ q \in Above[r]
    BY <2>2 DEF DirsListed
  <2>4. ASSUME r = p PROVE FALSE
    <3>1. PICK f \in Paths : local[f] # Absent /\ (f = q \/ f \in Above[q])
      BY <2>1 DEF InTheWay
    <3>2. f \in Above[p]
      BY <2>3, <2>4, <3>1, PathsAssumption
    <3>3. p \in ToDelete(old) /\ p \notin Colliding(old)
      BY <2>1 DEF Rest
    <3> QED
      BY <3>1, <3>2, <3>3 DEF Colliding, Planned
  <2> QED
    BY <1>4, <2>3, <2>4
<1>7. DirsKnown'
  BY <1>1, <1>2, <1>6 DEF DirsKnown
<1>8. RoomMade'
  BY <1>1 DEF RoomMade
<1>9. Removable(p)
  BY <1>1, CanRemove DEF RetryInv
<1>10. faulty' \/ (faulty' = faulty /\ failed' = failed)
  BY <1>9 DEF Delete, Done, Fails
<1>11. NothingBlocks'
  BY <1>1, <1>2, <1>10 DEF RetryInv, NothingBlocks, InRun
<1> QED
  BY <1>5, <1>7, <1>8, <1>11 DEF RetryInv

\* Directories of the plan appear: none of them has the name of a listed file.
LEMMA CreateKeeps ==
    ASSUME Inv, Inv', Quiet, RetryInv, NEW d \in Paths, CreateDir(d)
    PROVE  RetryInv'
<1> DEFINE made == Above[d] \cup {d}
<1>1. /\ setup' = setup /\ local' = local /\ old' = old /\ forgot' = forgot /\ stray' = stray
      /\ manifest' = manifest /\ completed' = completed /\ preDeleted' = preDeleted
      /\ deleted' = deleted
      /\ tried' = tried /\ pc = "mkdirs" /\ pc' = pc /\ d \in todo /\ todo' = todo \ {d}
      /\ \/ Done(Makeable(d), Put(made, Dir))
         \/ Fails(Makeable(d), Put(made, Dir))
  BY DEF CreateDir, progress
<1>2. /\ InRun /\ TypeOK /\ old \in Listings /\ OnBooks = Live /\ OnBooks' = Live
      /\ preDeleted = Colliding(old)
      /\ Entries' = Entries /\ Trees' = Trees
      /\ todo \subseteq DirsForFiles(Upload(old))
      /\ failed \/ \A c \in DirsForFiles(Upload(old)) : c \notin todo => disk[Entries[c]] = Dir
  BY <1>1, ServerStays, RecordStays, RecordedFacts
     DEF OnBooks, Recorded, InRun, Working, Inv, RunShape, RetryInv, RoomMade
<1>3. PICK u \in Upload(old) : d \in Above[u]
  BY <1>1, <1>2 DEF DirsForFiles
<1>4. u \in Paths /\ local[u] # Absent
  BY <1>2, <1>3, PlanFacts
<1>5. \A x \in made : x \in Paths /\ x \in Above[u]
  BY <1>3, <1>4, PathsAssumption, SyncAssumption
<1>6. \A e \in Paths : disk'[e] = disk[e] \/ (disk'[e] = Dir /\ \E x \in made : e = Entries[x])
  <2>1. disk' = disk \/ disk' = Put(made, Dir)
    BY <1>1 DEF Done, Fails
  <2>2. made \in SUBSET Paths
    BY <1>5
  <2> QED
    BY <1>2, <1>5, <2>1, <2>2, PutFacts, EntryFacts
<1>7. \A p \in Paths : Entries[p] \in Paths /\ Above[p] \in SUBSET Paths
  BY <1>2, EntryFacts, SyncAssumption
<1>8. \A p \in Paths : \A x \in made : Entries[p] = Entries[x] => p = x
  BY <1>2, <1>4, <1>5, QuietNames
<1>9. ~IsFile(Dir) /\ Dir # Foreign
  BY Kinds DEF IsFile
<1>10. OnlyOurs'
  BY <1>1, <1>6, <1>9 DEF RetryInv, OnlyOurs
<1>11. BooksClear'
  <2>1. ASSUME NEW p \in Paths, Live[p] # Absent PROVE disk'[Entries[p]] # Dir
    <3>1. disk[Entries[p]] # Dir
      BY <1>2, <2>1 DEF RetryInv, BooksClear, ClearOfFiles
    <3>2. \A x \in made : p # x
      BY <1>2, <1>4, <1>5, <2>1, LiveApart
    <3> QED
      BY <1>6, <1>7, <1>8, <3>1, <3>2
  <2>2. ASSUME NEW p \in Paths, Live[p] # Absent, NEW x \in Above[p]
        PROVE  ~IsFile(disk'[Entries[x]])
    <3>1. ~IsFile(disk[Entries[x]]) /\ Entries[x] \in Paths
      BY <1>2, <1>7, <2>2 DEF RetryInv, BooksClear, ClearOfFiles
    <3>2. disk'[Entries[x]] = disk[Entries[x]] \/ disk'[Entries[x]] = Dir
      BY <1>6, <3>1
    <3> QED
      BY <1>9, <3>1, <3>2
  <2> QED
    BY <1>2, <2>1, <2>2 DEF BooksClear, ClearOfFiles
<1>12. ASSUME ~stray, NEW t \in Trees, tried \subseteq {t}
       PROVE  DirsListed(Entries, disk', t, Live)
  <2>1. t = local /\ DirsListed(Entries, disk, t, Live)
    BY <1>2, <1>12, OneTree DEF RetryInv, DirsKnown
  <2>2. ASSUME NEW q \in Paths, disk'[Entries[q]] = Dir, InTheWay(t, q)
        PROVE  disk[Entries[q]] = Dir
    <3> SUFFICES ASSUME NEW x \in made, Entries[q] = Entries[x] PROVE FALSE
      BY <1>6, <1>7, <2>2
    <3>1. q \in Above[u]
      BY <1>5, <1>8
    <3>2. PICK f \in Paths : local[f] # Absent /\ (f = q \/ f \in Above[q])
      BY <2>1, <2>2 DEF InTheWay
    <3>3. f \in Above[u]
      BY <1>4, <3>1, <3>2, PathsAssumption
    <3> QED
      BY <1>2, <1>4, <1>12, <2>1, <3>2, <3>3, TreeFacts
  <2> QED
    BY <2>1, <2>2 DEF DirsListed
<1>13. DirsKnown'
  BY <1>1, <1>2, <1>12 DEF DirsKnown
<1>14. RoomMade'
  <2>1. ASSUME ~failed', NEW c \in DirsForFiles(Upload(old)), c \notin todo'
        PROVE  disk'[Entries[c]] = Dir
    <3>1. disk' = Put(made, Dir) /\ ~failed
      BY <1>1, <2>1 DEF Done, Fails
    <3>2. c \in Paths /\ made \in SUBSET Paths
      BY <1>2, <1>5, DirsFacts, PlanFacts
    <3>3. CASE c = d
      BY <1>2, <1>7, <3>1, <3>2, <3>3, PutFacts, EntryFacts
    <3>4. CASE c # d
      <4>1. disk[Entries[c]] = Dir
        BY <1>1, <1>2, <2>1, <3>1, <3>4
      <4> QED
        BY <1>6, <1>7, <3>2, <4>1
    <3> QED
      BY <3>3, <3>4
  <2>2. DirsForFiles(Upload(old))' = DirsForFiles(Upload(old))
    BY <1>1, RecordStays
  <2> QED
    BY <1>1, <1>2, <2>1, <2>2 DEF RoomMade
<1>15. NothingBlocks'
  <2> SUFFICES ASSUME ~stray', ~faulty', NEW t \in Trees, tried \subseteq {t}
               PROVE  ~failed'
    BY <1>1, <1>2 DEF NothingBlocks
  <2>1. Makeable(d)
    BY <1>1, CanMake
  <2>2. failed' = failed /\ faulty' = faulty
    BY <1>1, <2>1 DEF Done, Fails
  <2> QED
    BY <1>1, <1>2, <2>2 DEF RetryInv, NothingBlocks
<1> QED
  BY <1>10, <1>11, <1>13, <1>14, <1>15 DEF RetryInv

\* A planned file appears, in directories that are there.
LEMMA UploadKeeps ==
    ASSUME Inv, Inv', Quiet, RetryInv, NEW p \in Paths, UploadFile(p)
    PROVE  RetryInv'
<1>1. /\ setup' = setup /\ local' = local /\ old' = old /\ forgot' = forgot /\ stray' = stray
      /\ manifest' = manifest /\ preDeleted' = preDeleted /\ deleted' = deleted
      /\ tried' = tried /\ pc = "upload" /\ pc' = pc /\ p \in todo
      /\ \/ Done(Creatable(p), Put({p}, local[p])) /\ completed' = completed \cup {p}
         \/ Fails(Creatable(p), Put({p}, local[p])) /\ completed' = completed
         \/ Stranded(p) /\ completed' = completed
  BY DEF UploadFile
<1>2. /\ InRun /\ TypeOK /\ old \in Listings /\ OnBooks = Live /\ OnBooks' = Live'
      /\ preDeleted = Colliding(old) /\ p \in Upload(old)
      /\ Entries' = Entries /\ Trees' = Trees
      /\ failed \/ \A c \in DirsForFiles(Upload(old)) : disk[Entries[c]] = Dir
  BY <1>1, ServerStays, RecordedFacts
     DEF OnBooks, Recorded, InRun, Working, Inv, RunShape, RetryInv, RoomMade
<1>3. local[p] \in Hashes /\ local[p] # Absent /\ local[p] # Dir /\ local[p] # Foreign
  BY <1>2, PlanFacts, Kinds
<1>4. \A q \in Paths : Entries[q] \in Paths /\ Above[q] \in SUBSET Paths
  BY <1>2, EntryFacts, SyncAssumption
<1>5. \A e \in Paths :
        \/ disk'[e] = disk[e]
        \/ e = Entries[p] /\ disk'[e] = local[p] /\ Creatable(p)
        \/ e = Entries[p] /\ disk'[e] = Absent /\ Stranded(p)
  <2>1. CASE disk' = disk \/ (disk' = Put({p}, local[p]) /\ Creatable(p))
    BY <1>2, <1>3, <2>1, PutFacts, EntryFacts
  <2>2. CASE Stranded(p)
    <3>1. disk' = Put({p}, Absent)
      BY <2>2 DEF Stranded
    <3> QED
      BY <1>2, <2>2, <3>1, PutFacts, EntryFacts
  <2> QED
    BY <1>1, <2>1, <2>2 DEF Done, Fails
<1>6. \A q \in Paths : \A x \in Above[q] : Entries[x] = Entries[p] => x = p
  BY <1>2, QuietNames
<1>7. /\ \A q \in Paths : Live[q] # Absent => Live'[q] # Absent
      /\ \A q \in Paths : Live'[q] # Absent => Live[q] # Absent \/ (q = p /\ p \in completed')
  BY <1>1, <1>3 DEF Live, MergedManifest
<1>8. OnlyOurs'
  BY <1>1, <1>3, <1>5, Kinds DEF RetryInv, OnlyOurs
<1>9. BooksClear'
  <2>1. ASSUME NEW q \in Paths, Live[q] # Absent
        PROVE  disk'[Entries[q]] # Dir /\ \A x \in Above[q] : ~IsFile(disk'[Entries[x]])
    <3>1. disk[Entries[q]] # Dir /\ \A x \in Above[q] : ~IsFile(disk[Entries[x]])
      BY <1>2, <2>1 DEF RetryInv, BooksClear, ClearOfFiles
    <3>2. \A x \in Above[q] : x # p
      BY <1>2, <1>3, <2>1, LiveApart
    <3> QED
      BY <1>3, <1>4, <1>5, <1>6, <3>1, <3>2, Kinds DEF IsFile
  <2>2. ASSUME Live[p] = Absent, Live'[p] # Absent
        PROVE  disk'[Entries[p]] # Dir /\ \A x \in Above[p] : ~IsFile(disk'[Entries[x]])
    <3>1. p \in completed'
      BY <1>7, <2>2
    <3>2. completed' # completed
      BY <1>1, <2>2 DEF Live, MergedManifest
    <3>3. Creatable(p) /\ disk' = Put({p}, local[p])
      BY <1>1, <3>2 DEF Done
    <3>4. disk'[Entries[p]] = local[p]
      BY <1>2, <1>3, <1>4, <3>3, PutFacts, EntryFacts
    <3>5. \A x \in Above[p] : disk[Entries[x]] = Dir /\ Entries[x] # Entries[p]
      BY <1>2, <1>4, <1>6, <3>3, EntryFacts, PathsAssumption DEF Creatable, At
    <3>6. \A x \in Above[p] : disk'[Entries[x]] = Dir
      BY <1>4, <1>5, <3>5
    <3> QED
      BY <1>3, <3>4, <3>6, Kinds DEF IsFile
  <2> QED
    BY <1>2, <1>7, <2>1, <2>2 DEF BooksClear, ClearOfFiles
<1>10. ASSUME ~stray, NEW t \in Trees, tried \subseteq {t}
       PROVE  DirsListed(Entries, disk', t, Live')
  <2>1. DirsListed(Entries, disk, t, Live)
    BY <1>2, <1>10 DEF RetryInv, DirsKnown
  <2>2. \A q \in Paths : disk'[Entries[q]] = Dir => disk[Entries[q]] = Dir
    BY <1>3, <1>4, <1>5, Kinds
  <2> QED
    BY <1>7, <2>1, <2>2 DEF DirsListed
<1>11. DirsKnown'
  BY <1>1, <1>2, <1>10 DEF DirsKnown
<1>12. RoomMade'
  <2>1. ASSUME ~failed', NEW c \in DirsForFiles(Upload(old)) PROVE disk'[Entries[c]] = Dir
    <3>1. ~failed /\ disk[Entries[c]] = Dir
      BY <1>1, <1>2, <2>1 DEF Done, Fails, Stranded
    <3>2. PICK u \in Upload(old) : c \in Above[u]
      BY DEF DirsForFiles
    <3>3. u \in Paths /\ local[u] # Absent /\ local \in Trees
      BY <1>2, <3>2, PlanFacts DEF TypeOK
    <3>4. c # p
      BY <1>2, <1>3, <3>2, <3>3, TreeFacts
    <3>5. Entries[c] # Entries[p] /\ Entries[c] \in Paths
      BY <1>4, <1>6, <3>2, <3>3, <3>4
    <3> QED
      BY <1>5, <3>1, <3>5
  <2>2. DirsForFiles(Upload(old))' = DirsForFiles(Upload(old))
    <3>1. Upload(old)' = Upload(old)
      BY <1>1, PlanStays
    <3> QED
      BY <3>1 DEF DirsForFiles
  <2> QED
    BY <1>1, <1>2, <2>1, <2>2 DEF RoomMade
<1>13. NothingBlocks'
  <2> SUFFICES ASSUME ~stray', ~faulty', NEW t \in Trees, tried \subseteq {t}
               PROVE  ~failed'
    BY <1>1, <1>2 DEF NothingBlocks
  <2>1. faulty \/ ~failed
    BY <1>1, <1>2 DEF RetryInv, NothingBlocks
  <2>2. ~faulty
    BY <1>1 DEF Done, Fails, Stranded
  <2>3. Creatable(p)
    BY <1>1, <2>1, <2>2, CanCreate
  <2> QED
    BY <1>1, <2>1, <2>2, <2>3 DEF Done, Fails, Stranded
<1> QED
  BY <1>8, <1>9, <1>11, <1>12, <1>13 DEF RetryInv

\* The end of the pre-delete and of the clearing, where the books change.
LEMMA EndPreDeleteKeeps ==
    ASSUME Inv, Inv', Quiet, RetryInv, EndPreDelete
    PROVE  RetryInv'
<1>1. /\ setup' = setup /\ local' = local /\ old' = old /\ forgot' = forgot /\ disk' = disk
      /\ manifest' = manifest /\ completed' = completed /\ preDeleted' = preDeleted
      /\ deleted' = deleted /\ faulty' = faulty
      /\ tried' = tried /\ pc = "preDelete"
      /\ \/ failed /\ pc' = "recover" /\ stray' = (stray \/ EmptyDirs # {})
         \/ ~failed /\ pc' = "clear" /\ todo' = CollideDirs(old) /\ stray' = stray
  BY DEF EndPreDelete, Enter, progress
<1>2. /\ InRun /\ TypeOK /\ Live \in Listings /\ OnBooks = old /\ Entries' = Entries
      /\ Trees' = Trees /\ completed = {} /\ Live' = Live
      /\ CollideDirs(old)' = CollideDirs(old)
  BY <1>1, ServerStays, RecordStays, RecordedFacts DEF OnBooks, InRun, Working, Inv, RunShape
<1>3. CASE failed /\ pc' = "recover" /\ stray' = (stray \/ EmptyDirs # {})
  <2>1. OnBooks' = Live
    BY <1>2, <1>3 DEF OnBooks, Recorded, InRun, Working
  <2>2. \A p \in Paths : Live[p] # Absent => old[p] # Absent
    BY <1>2, RecordedFacts
  <2>3. OnlyOurs' /\ BooksClear'
    BY <1>1, <1>2, <2>1, <2>2, ShrinkKeeps DEF RetryInv, BooksClear, OnlyOurs
  <2>4. ASSUME ~stray', NEW t \in Trees, tried \subseteq {t}
        PROVE  DirsListed(Entries, disk, t, Live)
    BY <1>2, <1>3, <2>4, OneTree, NoneEmptyAllListed DEF RetryInv
  <2>5. DirsKnown'
    BY <1>1, <1>2, <2>1, <2>4 DEF DirsKnown
  <2>6. ~stray' => ~stray
    BY <1>3
  <2>7. RoomMade' /\ NothingBlocks'
    BY <1>1, <1>2, <1>3, <2>6 DEF RetryInv, RoomMade, NothingBlocks
  <2> QED
    BY <2>3, <2>5, <2>7 DEF RetryInv
<1>4. CASE ~failed /\ pc' = "clear" /\ todo' = CollideDirs(old) /\ stray' = stray
  <2>1. OnBooks' = OnBooks
    BY <1>1, <1>2, <1>4 DEF OnBooks
  <2>2. OnlyOurs' /\ BooksClear' /\ DirsKnown'
    BY <1>1, <1>4, <2>1, BooksKept
  <2>3. RoomMade'
    BY <1>2, <1>4 DEF RoomMade
  <2>4. ~failed'
    BY <1>1, <1>4 DEF EndPreDelete, Enter
  <2>5. NothingBlocks'
    BY <1>4, <2>4 DEF NothingBlocks
  <2> QED
    BY <2>2, <2>3, <2>5 DEF RetryInv
<1> QED
  BY <1>1, <1>3, <1>4

\* The room is made: no directory is left in the way, with or without the colliding
\* entries on the books.
LEMMA EndClearKeeps ==
    ASSUME Inv, Inv', Quiet, RetryInv, EndClear
    PROVE  RetryInv'
<1>1. /\ setup' = setup /\ local' = local /\ old' = old /\ forgot' = forgot /\ disk' = disk
      /\ manifest' = manifest /\ completed' = completed /\ preDeleted' = preDeleted
      /\ deleted' = deleted /\ faulty' = faulty /\ stray' = stray
      /\ tried' = tried /\ pc = "clear" /\ todo = {}
      /\ pc' = "mkdirs" /\ todo' = DirsForFiles(Upload(old)) /\ ~failed'
  BY DEF EndClear, Enter, progress, history
<1>2. /\ InRun /\ TypeOK /\ old \in Listings /\ OnBooks = old /\ OnBooks' = Live
      /\ Entries' = Entries /\ Trees' = Trees /\ completed = {}
      /\ DirsForFiles(Upload(old))' = DirsForFiles(Upload(old))
  BY <1>1, ServerStays, RecordStays, RecordedFacts
     DEF OnBooks, Recorded, InRun, Working, Inv, RunShape
<1>3. \A p \in Paths : Live[p] # Absent => old[p] # Absent
  BY <1>2, RecordedFacts
<1>4. OnlyOurs' /\ BooksClear'
  BY <1>1, <1>2, <1>3, ShrinkKeeps DEF RetryInv, BooksClear, OnlyOurs
<1>5. ASSUME ~stray, NEW t \in Trees, tried \subseteq {t}
      PROVE  DirsListed(Entries, disk, t, Live)
  <2> SUFFICES ASSUME NEW q \in Paths, disk[Entries[q]] = Dir, InTheWay(t, q) PROVE FALSE
    BY DEF DirsListed
  <2>1. t = local /\ DirsListed(Entries, disk, t, old)
    BY <1>2, <1>5, OneTree DEF RetryInv, DirsKnown
  <2>2. PICK f \in Paths : local[f] # Absent /\ (f = q \/ f \in Above[q])
    BY <2>1 DEF InTheWay
  <2>3. PICK p \in Paths : old[p] # Absent /\ q \in Above[p]
    BY <2>1 DEF DirsListed
  <2>4. f \in Above[p]
    BY <2>2, <2>3, PathsAssumption
  <2>5. local[p] = Absent
    BY <1>2, <1>5, <2>1, <2>2, <2>4, TreeFacts
  <2>6. p \in Colliding(old) /\ f \in Planned
    BY <2>2, <2>3, <2>4, <2>5 DEF Colliding, ToDelete, Planned
  <2>7. q \in CollideDirs(old)
    BY <1>2, <2>2, <2>3, <2>6, ClearedDirs
  <2>8. disk[Entries[q]] = Absent
    BY <1>1, <2>7 DEF RetryInv, RoomMade
  <2> QED
    BY <2>8, Kinds
<1>6. DirsKnown'
  BY <1>1, <1>2, <1>5 DEF DirsKnown
<1>7. RoomMade' /\ NothingBlocks'
  BY <1>1, <1>2 DEF RoomMade, NothingBlocks
<1> QED
  BY <1>4, <1>6, <1>7 DEF RetryInv

\* The steps from phase to phase, which change neither the server nor the books.
LEMMA PhaseKeeps ==
    ASSUME Inv, Inv', Quiet, RetryInv, EndMkdirs \/ EndUpload \/ EndDelete \/ EndPrune
    PROVE  RetryInv'
<1>1. /\ setup' = setup /\ local' = local /\ old' = old /\ forgot' = forgot /\ disk' = disk
      /\ manifest' = manifest /\ completed' = completed /\ preDeleted' = preDeleted
      /\ deleted' = deleted /\ faulty' = faulty /\ stray' = stray /\ tried' = tried
      /\ pc \in {"mkdirs", "upload", "delete", "prune"}
      /\ \/ failed /\ pc' = "recover"
         \/ pc' \in {"upload", "delete", "prune", "write"} /\ ~failed'
  BY DEF EndMkdirs, EndUpload, EndDelete, EndPrune, Enter, progress, history
<1>2. /\ InRun /\ OnBooks = Live /\ OnBooks' = Live /\ Entries' = Entries /\ Trees' = Trees
      /\ DirsForFiles(Upload(old))' = DirsForFiles(Upload(old))
  BY <1>1, ServerStays, RecordStays DEF OnBooks, Recorded, InRun, Working
<1>3. OnlyOurs' /\ BooksClear' /\ DirsKnown'
  BY <1>1, <1>2, BooksKept
<1>4. RoomMade'
  <2>1. ASSUME pc' = "upload"
        PROVE  \A d \in DirsForFiles(Upload(old)) : disk[Entries[d]] = Dir
    <3>1. pc = "mkdirs" /\ ~failed /\ todo = {}
      BY <2>1 DEF EndMkdirs, EndUpload, EndDelete, EndPrune, Enter
    <3> QED
      BY <3>1 DEF RetryInv, RoomMade
  <2> QED
    BY <1>1, <1>2, <2>1 DEF RoomMade
<1>5. NothingBlocks'
  BY <1>1, <1>2 DEF RetryInv, NothingBlocks
<1> QED
  BY <1>3, <1>4, <1>5 DEF RetryInv

\* The end of a run: what is written is what the books say.
LEMMA WriteKeeps ==
    ASSUME Inv, Inv', Quiet, RetryInv,
           WriteLocal \/ WriteRecoveryManifest \/ WriteKeepingManifest
    PROVE  RetryInv'
<1>1. "write" \notin Faults
  BY DEF Quiet
<1>2. /\ setup' = setup /\ forgot' = forgot /\ disk' = disk /\ stray' = stray /\ tried' = tried
  BY <1>1 DEF WriteLocal, WriteRecoveryManifest, WriteKeepingManifest, WriteManifest
<1>3. /\ faulty' = faulty /\ pc' \in {"done", "failed"}
      /\ pc' = "failed" => pc \in {"recover", "keep"}
  BY <1>1 DEF WriteLocal, WriteRecoveryManifest, WriteKeepingManifest, WriteManifest
<1>4. OnBooks' = manifest' /\ InRun
  BY <1>3 DEF OnBooks, Recorded, InRun, Working, WriteLocal, WriteRecoveryManifest,
              WriteKeepingManifest
<1>5. manifest' = OnBooks
  <2>1. CASE WriteLocal
    <3>1. pc = "write" /\ manifest' = local
      BY <1>1, <2>1 DEF WriteLocal, WriteManifest
    <3>2. Live = local
      BY <3>1, CompleteRun DEF Inv
    <3> QED
      BY <3>1, <3>2 DEF OnBooks, Recorded, InRun, Working
  <2>2. CASE WriteRecoveryManifest
    <3>1. pc = "recover" /\ manifest' = Live
      BY <1>1, <2>2 DEF WriteRecoveryManifest, WriteManifest, Live
    <3> QED
      BY <3>1 DEF OnBooks, Recorded, InRun, Working
  <2>3. CASE WriteKeepingManifest
    <3>1. pc = "keep" /\ manifest' = CollisionLive
      BY <1>1, <2>3 DEF WriteKeepingManifest, WriteManifest
    <3>2. CollisionLive = old
      BY RecordedFacts DEF CollisionLive, MergedManifest, Listings, Inv
    <3> QED
      BY <3>1, <3>2 DEF OnBooks
  <2> QED
    BY <2>1, <2>2, <2>3
<1>6. OnlyOurs' /\ BooksClear' /\ DirsKnown'
  BY <1>2, <1>4, <1>5, BooksKept
<1>7. RoomMade'
  BY <1>3 DEF RoomMade
<1>8. ~InRun' /\ Trees' = Trees
  BY <1>2, <1>3, ServerStays DEF InRun, Working
<1>9. NothingBlocks'
  BY <1>2, <1>3, <1>8 DEF RetryInv, NothingBlocks
<1> QED
  BY <1>6, <1>7, <1>9 DEF RetryInv

\* A new tree: the account starts anew after a green run, and then no empty directory is
\* overlooked.
LEMMA EditKeeps ==
    ASSUME Inv, Inv', Quiet, RetryInv, Edit
    PROVE  RetryInv'
<1>1. /\ setup' = setup /\ disk' = disk /\ manifest' = manifest /\ forgot' = forgot
      /\ pc \in Resting /\ pc' = "idle"
  BY DEF Edit, history
<1>2. OnBooks = manifest /\ OnBooks' = manifest /\ ~InRun'
  BY <1>1 DEF OnBooks, Recorded, InRun, Resting, Working
<1>3. Entries' = Entries /\ Trees' = Trees
  BY <1>1, ServerStays
<1>4. CASE pc = "done" /\ Trustworthy
  <2>1. ~unsure' /\ ~kept' /\ stray' = (EmptyDirs # {}) /\ ~forgot /\ Recorded' = manifest
    BY <1>1, <1>2, <1>4 DEF Edit, RetryInv, OnlyOurs, Recorded
  <2>2. Covers(Entries, disk, manifest)
    BY <1>1, <1>3, <2>1 DEF Inv, Clean
  <2>3. ASSUME ~stray', NEW t \in Trees
        PROVE  DirsListed(Entries, disk, t, manifest)
    <3>1. LeavesNothing(Entries, disk, t, manifest)
      BY <2>2 DEF Covers, LeavesNothing
    <3>2. manifest \in Listings /\ TypeOK
      BY RecordedFacts DEF Inv
    <3> QED
      BY <2>1, <2>3, <3>1, <3>2, NoneEmptyAllListed DEF RetryInv
  <2>4. DirsKnown'
    BY <1>1, <1>2, <1>3, <2>3 DEF DirsKnown
  <2> QED
    BY <1>1, <1>2, <1>3, <2>4
       DEF RetryInv, OnlyOurs, BooksClear, RoomMade, NothingBlocks
<1>5. CASE ~(pc = "done" /\ Trustworthy)
  <2>1. tried' = tried /\ stray' = stray
    BY <1>5 DEF Edit, history
  <2>2. OnlyOurs' /\ BooksClear' /\ DirsKnown'
    BY <1>1, <1>2, <2>1, BooksKept
  <2> QED
    BY <1>1, <1>2, <2>2 DEF RetryInv, RoomMade, NothingBlocks
<1> QED
  BY <1>4, <1>5

\* Nothing is there at first.
LEMMA InitRetry ==
    ASSUME Init
    PROVE  RetryInv
<1>1. /\ pc = "idle" /\ \A p \in Paths : disk[p] = Absent /\ manifest[p] = Absent
      /\ ~forgot
  BY DEF Init, Empty
<1>2. TypeOK
  BY InitTyped
<1>3. OnBooks = manifest /\ ~InRun
  BY <1>1 DEF OnBooks, Recorded, InRun, Working
<1>4. \A p \in Paths : disk[Entries[p]] # Dir /\ disk[p] # Foreign
  BY <1>1, <1>2, EntryFacts, Kinds
<1> QED
  BY <1>1, <1>3, <1>4
     DEF RetryInv, OnlyOurs, BooksClear, ClearOfFiles, DirsKnown, DirsListed, RoomMade,
         NothingBlocks

\* Every step.
LEMMA StepRetry ==
    ASSUME Inv, Inv', Quiet => RetryInv, [Next]_vars
    PROVE  (Quiet => RetryInv)'
<1>1. setup' = setup
  BY SetupStays
<1> SUFFICES ASSUME Quiet PROVE RetryInv'
  BY <1>1, ServerStays
<1>2. CASE StartRun
  BY <1>2, StartKeeps
<1>3. ASSUME NEW p \in Paths,
             PreDelete(p) \/ ClearDir(p) \/ CreateDir(p) \/ UploadFile(p) \/ Delete(p)
             \/ PruneEmptyDir(p)
      PROVE  RetryInv'
  BY <1>3, PreDeleteKeeps, ClearKeeps, CreateKeeps, UploadKeeps, DeleteKeeps, PruneKeeps
<1>4. CASE EndPreDelete
  BY <1>4, EndPreDeleteKeeps
<1>5. CASE EndClear
  BY <1>5, EndClearKeeps
<1>6. CASE EndMkdirs \/ EndUpload \/ EndDelete \/ EndPrune
  BY <1>6, PhaseKeeps
<1>7. CASE WriteLocal \/ WriteRecoveryManifest \/ WriteKeepingManifest
  BY <1>7, WriteKeeps
<1>8. CASE Edit
  BY <1>8, EditKeeps
<1>9. ~Kill /\ \A p \in Paths : ~PutForeign(p)
  BY DEF Kill, PutForeign, Quiet
<1>10. CASE UNCHANGED vars
  <2>1. /\ setup' = setup /\ local' = local /\ disk' = disk /\ manifest' = manifest
        /\ pc' = pc /\ old' = old /\ todo' = todo /\ failed' = failed /\ faulty' = faulty
        /\ completed' = completed /\ preDeleted' = preDeleted /\ deleted' = deleted
        /\ tried' = tried /\ forgot' = forgot /\ stray' = stray
    BY <1>10 DEF vars, phase, progress, history
  <2>2. OnBooks' = OnBooks
    BY <2>1, RecordStays DEF OnBooks, Recorded, InRun
  <2>3. OnlyOurs' /\ BooksClear' /\ DirsKnown'
    BY <2>1, <2>2, BooksKept
  <2>4. RoomMade' /\ NothingBlocks'
    BY <2>1, ServerStays, RecordStays DEF RetryInv, RoomMade, NothingBlocks, InRun
  <2> QED
    BY <2>3, <2>4 DEF RetryInv
<1> QED
  BY <1>2, <1>3, <1>4, <1>5, <1>6, <1>7, <1>8, <1>9, <1>10 DEF Next, Ended

\* Why that is enough.
LEMMA InvRetry ==
    ASSUME Inv, Quiet => RetryInv
    PROVE  RetrySucceeds
<1> SUFFICES ASSUME pc = "failed", ~faulty, ~stray, Quiet, ~ (Cardinality(tried) > 1)
             PROVE  FALSE
  BY DEF RetrySucceeds, Quiet
<1>1. IsFiniteSet(tried) /\ tried \in SUBSET Trees /\ local \in Trees
  BY DEF Inv, TypeOK
<1>2. Cardinality(tried) \in Nat
  BY <1>1, FS_CardinalityType
<1>3. \E t \in Trees : tried \subseteq {t}
  <2>1. CASE Cardinality(tried) = 0
    <3>1. tried = {}
      BY <1>1, <2>1, FS_EmptySet
    <3> QED
      BY <1>1, <3>1
  <2>2. CASE Cardinality(tried) = 1
    <3>1. PICK t : tried = {t}
      BY <1>1, <2>2, FS_Singleton
    <3> QED
      BY <1>1, <3>1
  <2> QED
    BY <1>2, <2>1, <2>2
<1> QED
  BY <1>3 DEF RetryInv, NothingBlocks

\* A retry succeeds: once nothing fails any more, no run fails on what an earlier run of the
\* same tree left behind, whatever requests of it failed, with or without effect, and in
\* whatever phase (recoveryCollisionLive keeps the entries that lead clearCollideParents to
\* the directories that stayed; recoveryFilesGone drops those that are gone).
THEOREM RetriesSucceed == Spec => []RetrySucceeds
<1>1. Init => (Quiet => RetryInv)
  BY InitRetry
<1>2. Inv /\ Inv' /\ (Quiet => RetryInv) /\ [Next]_vars => (Quiet => RetryInv)'
  BY StepRetry
<1>3. Inv /\ (Quiet => RetryInv) => RetrySucceeds
  BY InvRetry
<1> QED
  BY <1>1, <1>2, <1>3, SpecInv, PTL DEF Spec
=============================================================================
