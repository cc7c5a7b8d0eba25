---------------------------- MODULE DeleteBudget ----------------------------
(***************************************************************************)
(* safety.max_deletes: the run-wide budget (deleteBudget, remote.go) and   *)
(* the removals that are charged to it, deployment after deployment: the   *)
(* sweep of a clean deployment, the collision pre-pass, the delete sweep   *)
(* and the prune of a sync (delete.go, sync.go, uploader.go).              *)
(*                                                                         *)
(* Removals of one batch run concurrently.  A request may be refused, and  *)
(* its connection may drop before or after the server carried it out; then *)
(* session.do runs the operation again or, its reconnects spent, fails.    *)
(***************************************************************************)
EXTENDS Integers, FiniteSets

CONSTANTS
    Limit,       \* safety.max_deletes, 0 for no limit
    Last,        \* the run's deployments are 1 .. Last
    Clean,       \* those whose mode is clean; the others are sync
    Files, Dirs, \* the remote entries the run sets out to remove
    In,          \* the deployment of an entry
    Colliding,   \* stale files the upload must replace, removed before it
    Turned,      \* directories the plan turns into files, cleared before it
    Depth        \* the depth of a directory's path

Entries == Files \cup Dirs
Deployments == 1 .. Last

\* What the constants stand for: the hypothesis of the theorems about them.
BudgetAssumption ==
    /\ Limit \in Nat /\ Last \in Nat \ {0}
    /\ Clean \subseteq Deployments
    /\ IsFiniteSet(Files) /\ IsFiniteSet(Dirs) /\ Files \cap Dirs = {}
    /\ In \in [Entries -> Deployments]
    /\ Colliding \subseteq {e \in Files : In[e] \notin Clean}
    /\ Turned \subseteq {e \in Dirs : In[e] \notin Clean}
    /\ Depth \in [Dirs -> Nat]

VARIABLES
    spent,     \* deleteBudget.spent
    there,     \* the entries that exist on the server
    removed,   \* history: the entries this run removed
    lost,      \* history: removals carried out whose answer never arrived
    cur,       \* the deployment being executed
    phase,     \* where executeSync or executeOverlayOrClean is
    state,     \* of an entry's worker
    failing    \* a file of the batch could not be deleted

vars == <<spent, there, removed, lost, cur, phase, state, failing>>

Phases == {"reserve", "preDelete", "collide", "sweep", "prune", "done", "failed"}

TypeOK ==
    /\ spent \in Nat
    /\ there \in SUBSET Entries /\ removed \in SUBSET Entries
    /\ lost \in Nat
    /\ cur \in Deployments
    /\ phase \in Phases
    /\ state \in [Entries -> {"idle", "busy", "done", "skipped"}]
    /\ failing \in BOOLEAN

\* Entries a manifest lists may be gone from the server already.
Init ==
    /\ spent = 0
    /\ there \in SUBSET Entries
    /\ removed = {}
    /\ lost = 0
    /\ cur = 1 /\ phase = "reserve"
    /\ state = [e \in Entries |-> "idle"]
    /\ failing = FALSE

-----------------------------------------------------------------------------
(* The batches of a deployment. *)

OfCur(S) == {e \in S : In[e] = cur}

Work(p) ==
    CASE p = "preDelete" -> OfCur(Colliding)
      [] p = "collide"   -> OfCur(Turned)
      [] p = "sweep"     -> OfCur(Files \ Colliding)
      [] p = "prune"     -> OfCur(Dirs \ Turned)
      [] OTHER           -> {}

\* What reserve is asked for: the listing of a clean, the stale files of a sync.
Batch == IF cur \in Clean THEN OfCur(Entries) ELSE OfCur(Files)

AfterReserve == IF cur \in Clean THEN "sweep" ELSE "preDelete"

NextPhase(p) ==
    CASE p = "preDelete" -> "collide"
      [] p = "collide"   -> "sweep"
      [] p = "sweep"     -> "prune"
      [] OTHER           -> "reserve"

Finish(e) == state' = [state EXCEPT ![e] = "done"]

-----------------------------------------------------------------------------
(* deleteBudget *)

NoRoom(n) == Limit > 0 /\ spent + n > Limit

Reserve ==
    /\ phase = "reserve"
    /\ LET n == Cardinality(Batch) IN
       IF NoRoom(n)
       THEN phase' = "failed" /\ UNCHANGED spent
       ELSE phase' = AfterReserve /\ spent' = spent + n
    /\ UNCHANGED <<there, removed, lost, cur, state, failing>>

SpentAll == Limit > 0 /\ spent >= Limit

Refund == spent' = IF spent > 0 THEN spent - 1 ELSE spent

\* The prune of a clean was reserved and passes a nil budget.
TakesCharge(e) == In[e] \notin Clean
GiveBack(e) == IF TakesCharge(e) THEN Refund ELSE UNCHANGED spent

-----------------------------------------------------------------------------
(* deleteRemoteFiles: one file, every rerun of its Remove included. *)

\* The file is gone, by this run or before it: both count as deleted.
FileDeleted(e) ==
    /\ phase \in {"preDelete", "sweep"} /\ e \in Work(phase) /\ state[e] = "idle"
    /\ there' = there \ {e}
    /\ removed' = removed \cup ({e} \cap there)
    /\ Finish(e)
    /\ UNCHANGED <<spent, lost, cur, phase, failing>>

\* The server refuses, or the connection is gone for good, the file with it or
\* not; a batch that has failed starts no further file.
FileFailed(e) ==
    /\ phase \in {"preDelete", "sweep"} /\ e \in Work(phase) /\ state[e] = "idle"
    /\ \/ UNCHANGED <<there, removed>>
       \/ /\ e \in there
          /\ there' = there \ {e} /\ removed' = removed \cup {e}
    /\ Finish(e)
    /\ failing' = TRUE
    /\ UNCHANGED <<spent, lost, cur, phase>>

-----------------------------------------------------------------------------
(* removeRemoteDirs and clearCollideParents: one directory. *)

\* Deeper levels first; the collision pre-pass takes one directory at a time.
MayStart(e) ==
    /\ phase \in {"collide", "prune"} /\ e \in Work(phase) /\ state[e] = "idle"
    /\ \A d \in Work(phase) : Depth[d] > Depth[e] => state[d] \in {"done", "skipped"}
    /\ phase = "collide" => \A d \in Work(phase) : state[d] # "busy"

\* take
StartDir(e) ==
    /\ MayStart(e) /\ ~failing
    /\ ~(TakesCharge(e) /\ SpentAll)
    /\ spent' = IF TakesCharge(e) THEN spent + 1 ELSE spent
    /\ state' = [state EXCEPT ![e] = "busy"]
    /\ UNCHANGED <<there, removed, lost, cur, phase, failing>>

\* take found the budget spent: the prune leaves the directory, the collision
\* pre-pass refuses the run.
SkipDir(e) ==
    /\ MayStart(e) /\ ~failing
    /\ TakesCharge(e) /\ SpentAll
    /\ state' = [state EXCEPT ![e] = "skipped"]
    /\ failing' = (phase = "collide")
    /\ UNCHANGED <<spent, there, removed, lost, cur, phase>>

DirRemoved(e) ==
    /\ e \in Dirs /\ state[e] = "busy"
    /\ e \in there
    /\ there' = there \ {e} /\ removed' = removed \cup {e}
    /\ Finish(e)
    /\ UNCHANGED <<spent, lost, cur, phase, failing>>

\* Already gone: the charge comes back.
DirGone(e) ==
    /\ e \in Dirs /\ state[e] = "busy"
    /\ e \notin there
    /\ GiveBack(e)
    /\ Finish(e)
    /\ UNCHANGED <<there, removed, lost, cur, phase, failing>>

\* Not empty, or refused: the prune takes its charge back, the collision pre-pass
\* fails the run and keeps it.
DirRefused(e) ==
    /\ e \in Dirs /\ state[e] = "busy"
    /\ e \in there
    /\ IF phase = "collide" THEN UNCHANGED spent ELSE GiveBack(e)
    /\ failing' = (phase = "collide")
    /\ Finish(e)
    /\ UNCHANGED <<there, removed, lost, cur, phase>>

\* The connection drops.  The prune's operation runs again, or fails with its
\* charge given back; the collision pre-pass keeps the error in rmErr, which do
\* never sees, and fails the run.
DirLost(e) ==
    /\ e \in Dirs /\ state[e] = "busy"
    /\ \/ UNCHANGED <<there, removed, lost>>
       \/ /\ e \in there
          /\ there' = there \ {e} /\ removed' = removed \cup {e}
          /\ lost' = lost + 1
    /\ \/ phase = "prune" /\ UNCHANGED <<spent, state, failing>>
       \/ phase = "prune" /\ GiveBack(e) /\ Finish(e) /\ UNCHANGED failing
       \/ phase = "collide" /\ UNCHANGED spent /\ Finish(e) /\ failing' = TRUE
    /\ UNCHANGED <<cur, phase>>

-----------------------------------------------------------------------------
(* The end of a batch: every worker has returned, or the batch has failed and *)
(* only those in flight had to.                                              *)

\* The deployment being executed is the run's last one.
AtLast == cur = Last

EndBatch ==
    /\ phase \in {"preDelete", "collide", "sweep", "prune"}
    /\ \A e \in Work(phase) : state[e] # "busy"
    /\ \/ /\ failing
          /\ phase' = "failed" /\ UNCHANGED cur
       \/ /\ ~failing
          /\ \A e \in Work(phase) : state[e] # "idle"
          /\ IF phase = "prune" /\ AtLast
             THEN phase' = "done" /\ UNCHANGED cur
             ELSE /\ phase' = NextPhase(phase)
                  /\ cur' = IF phase = "prune" THEN cur + 1 ELSE cur
    /\ UNCHANGED <<spent, there, removed, lost, state, failing>>

\* An error outside the removals ends the run once those in flight have returned:
\* a cancelled context, a failed scan before a reservation, a failed upload before
\* the sweep.  Nothing more is removed.
Stop ==
    /\ phase \notin {"done", "failed"}
    /\ \A e \in Entries : state[e] # "busy"
    /\ phase' = "failed"
    /\ UNCHANGED <<spent, there, removed, lost, cur, state, failing>>

Ended == phase \in {"done", "failed"} /\ UNCHANGED vars

Next ==
    \/ Reserve
    \/ \E e \in Files : FileDeleted(e) \/ FileFailed(e)
    \/ \E e \in Dirs : StartDir(e) \/ SkipDir(e)
    \/ \E e \in Dirs : DirRemoved(e) \/ DirGone(e) \/ DirRefused(e) \/ DirLost(e)
    \/ EndBatch \/ Stop
    \/ Ended

Spec == Init /\ [][Next]_vars

-----------------------------------------------------------------------------
(* Properties. *)

\* docs/configuration.md:194: safety.max_deletes is "the most remote entries, files
\* and directories together, the whole run may remove (0 = unlimited, the default)".
\* A pruned directory whose removal was carried out while its answer was lost is
\* refunded (delete.go:131), and the next take removes one entry too many.
MaxDeletesHolds == Limit > 0 => Cardinality(removed) <= Limit

\* What the budget does guarantee: the limit is exceeded at most by the removals
\* whose answer a dropped connection swallowed.
RemovesWithinLimit == Limit > 0 => Cardinality(removed) <= Limit + lost
=============================================================================
