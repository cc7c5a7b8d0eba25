----------------------------- MODULE AutoCache -----------------------------
(***************************************************************************)
(* The tuning cache file as the runs on one runner share it: opened and    *)
(* read at the start of a run (uploader/autocache.go, openAutoCache),      *)
(* confirmed against the link the run has measured, and written back at    *)
(* the end under a lock file (internal/autocache/store.go).                *)
(*                                                                         *)
(* A step is one operation on the file system, together with what the run  *)
(* does by itself until the next one.  Days pass with now.                 *)
(***************************************************************************)
EXTENDS CacheRecords

CONSTANTS
    Procs,       \* the jobs that share the cache file
    Deploys,     \* what a job deploys: pairs of a server and a size
    Outcomes,    \* what a run can learn: RTT, settings, a throughput, a ceiling
    None,        \* no job
    Left,        \* a job that was killed, as far as its lock file tells
    MaxRuns,     \* bound: runs of all jobs together
    Horizon,     \* bound: days
    Faults       \* what may happen besides: "io", "kill"

ASSUME AutoCacheAssumption ==
    /\ None \notin Procs /\ Left \notin Procs /\ None # Left
    /\ Deploys \in [Procs -> SUBSET (Targets \X Works)]
    /\ Outcomes \subseteq [rtt: Rtts, settings: Settings, measured: BOOLEAN,
                            ceiling: Ceilings \cup {0}]
    /\ MaxRuns \in Nat /\ Horizon \in Nat

VARIABLES
    file,   \* the cache file: whether Load can use it, and the records it holds
    lock,   \* the lock file: the job that created it, None when there is none
            \* and Left when its creator was killed
    stale,  \* the lock file is older than lockStale
    now,    \* the day
    pc, runs,
    seen,   \* autoCache.candidate: the record that passed Lookup, or nothing
    obs,    \* the observation being written back
    at,     \* the time of the write-back
    store,  \* the updated records, on their way to the file
    origin, \* history: the workload and RTT of the last run that measured a target
    leans,  \* history: write-backs of runs that reused that measurement
    idle,   \* history: write-backs since a run found a target's ceiling
    stolen  \* history: some job has removed the lock file of a job at work

run == <<runs, seen, obs, at, store>>
past == <<origin, leans, idle>>
vars == <<file, lock, stale, now, pc, run, past, stolen>>

Holding == {"load", "save", "unlock"}
PCs == {"idle", "connect", "lock", "steal"} \cup Holding

\* Load: a file that is missing, empty or not to be understood is an empty store ...
LoadedRecords == IF file.usable THEN file.recs ELSE <<>>

\* ... and so is one that ReadFile fails on this time.
Readable == {LoadedRecords} \cup {<<>> : x \in {"io"} \cap Faults}

NoObs == CHOOSE o \in ObservationType : TRUE

\* Records an earlier generation of easySFTP left behind.
OldRecord(t) ==
    [FreshRecord([NoObs EXCEPT !.target = t, !.measured = TRUE], 0) EXCEPT !.policy = 1]

Init ==
    /\ file \in {[usable |-> FALSE, recs |-> <<>>]}
               \cup {[usable |-> TRUE, recs |-> <<OldRecord(t)>>] : t \in Targets}
    /\ lock = None /\ stale = FALSE
    /\ now = 0
    /\ pc = [p \in Procs |-> "idle"]
    /\ runs = 0
    /\ seen = [p \in Procs |-> <<>>]
    /\ obs = [p \in Procs |-> NoObs]
    /\ at = [p \in Procs |-> 0]
    /\ store = [p \in Procs |-> <<>>]
    /\ origin = [t \in Targets |-> <<NoObs.work, NoObs.rtt>>]
    /\ leans = [t \in Targets |-> 0]
    /\ idle = [t \in Targets |-> 0]
    /\ stolen = FALSE

TypeOK ==
    /\ file \in [usable: BOOLEAN, recs: Seq(RecordType)]
    /\ Len(file.recs) <= MaxRecords
    /\ lock \in Procs \cup {None, Left}
    /\ stale \in BOOLEAN
    /\ now \in 0 .. Horizon
    /\ pc \in [Procs -> PCs]
    /\ runs \in 0 .. MaxRuns
    /\ seen \in [Procs -> Seq(RecordType)]
    /\ obs \in [Procs -> ObservationType]
    /\ at \in [Procs -> 0 .. Horizon]
    /\ store \in [Procs -> Seq(RecordType)]
    /\ origin \in [Targets -> Works \X Rtts]
    /\ leans \in [Targets -> Nat]
    /\ idle \in [Targets -> Nat]
    /\ stolen \in BOOLEAN

Goto(p, label) == pc' = [pc EXCEPT ![p] = label]

\* The run's locals go out of scope.
Forget(p) ==
    /\ seen' = [seen EXCEPT ![p] = <<>>]
    /\ obs' = [obs EXCEPT ![p] = NoObs]
    /\ at' = [at EXCEPT ![p] = 0]
    /\ store' = [store EXCEPT ![p] = <<>>]

Return(p) == Goto(p, "idle") /\ Forget(p)

-----------------------------------------------------------------------------
(* A run, from its start to its observation. *)

\* openAutoCache and lookup: the file is read once, before the network.
Open(p) ==
    /\ pc[p] = "idle" /\ runs < MaxRuns
    /\ runs' = runs + 1
    /\ \E d \in Deploys[p], recs \in Readable :
        /\ obs' = [obs EXCEPT ![p] = [NoObs EXCEPT !.target = d[1], !.work = d[2]]]
        /\ seen' = [seen EXCEPT ![p] = Lookup(recs, d[1], d[2], now)]
    /\ Goto(p, "connect")
    /\ UNCHANGED <<file, lock, stale, now, at, store, past, stolen>>

\* newSession fails: Run returns before there is anything to save.
ConnectFails(p) ==
    /\ pc[p] = "connect"
    /\ Return(p)
    /\ UNCHANGED <<file, lock, stale, now, runs, past, stolen>>

\* confirm against the measured round-trip time, the deployments, and then
\* cacheObservation: a refusal or a step taken back is a ceiling of the run's own,
\* a run held at an inherited one says so.  The write-back takes its time here.
Deploy(p) ==
    /\ pc[p] = "connect"
    /\ \E o \in Outcomes :
        LET hit == seen[p] # <<>> /\ Validate(seen[p][1], o.rtt)
            inherited == hit /\ seen[p][1].ceiling > 0
        IN  obs' = [obs EXCEPT ![p] = [@ EXCEPT !.rtt = o.rtt, !.settings = o.settings,
                        !.measured = o.measured, !.reused = hit, !.ceiling = o.ceiling,
                        !.untested = (o.ceiling = 0 /\ inherited)]]
    /\ at' = [at EXCEPT ![p] = now]
    /\ seen' = [seen EXCEPT ![p] = <<>>]
    /\ Goto(p, "lock")
    /\ UNCHANGED <<file, lock, stale, now, runs, store, past, stolen>>

-----------------------------------------------------------------------------
(* lockPollLoop. *)

\* Mutant: the create is not exclusive.
LockFreeAlways(p) == TRUE
\* O_CREATE with O_EXCL.
LockFree(p) == lock = None

TryLock(p) ==
    /\ pc[p] = "lock"
    /\ LockFree(p)
    /\ lock' = p /\ stale' = FALSE
    /\ Goto(p, "load")
    /\ UNCHANGED <<file, now, run, past, stolen>>

\* The lock file that is there is old enough to have been left by a dead process ...
SeeStale(p) ==
    /\ pc[p] = "lock"
    /\ lock # None /\ stale
    /\ Goto(p, "steal")
    /\ UNCHANGED <<file, lock, stale, now, run, past, stolen>>

\* ... and whatever lock file is there by now is removed: the name has been judged, not
\* the file, so it may be the lock of a job that has just found the old one gone.
Steal(p) ==
    /\ pc[p] = "steal"
    /\ lock' = None /\ stale' = FALSE
    /\ stolen' = (stolen \/ lock \in Procs)
    /\ Goto(p, "lock")
    /\ UNCHANGED <<file, now, run, past>>

\* Mutant: the lock is waited for without a deadline.
GiveUpNever(p) == FALSE
\* lockWait has passed: a warning, and the run is over.
GiveUp(p) ==
    /\ pc[p] = "lock"
    /\ lock # None /\ ~stale
    /\ Return(p)
    /\ UNCHANGED <<file, lock, stale, now, runs, past, stolen>>

\* The directory or the lock file cannot be created, or the pid not written.
LockFails(p) ==
    /\ "io" \in Faults
    /\ pc[p] = "lock" /\ lock = None
    /\ Return(p)
    /\ UNCHANGED <<file, lock, stale, now, runs, past, stolen>>

-----------------------------------------------------------------------------
(* UpdateFile, under the lock. *)

LoadUpdate(p) ==
    /\ pc[p] = "load"
    /\ \E recs \in Readable :
        /\ store' = [store EXCEPT ![p] = Update(recs, obs[p], at[p])]
        /\ Goto(p, IF Update(recs, obs[p], at[p]) = recs THEN "unlock" ELSE "save")
    /\ UNCHANGED <<file, lock, stale, now, runs, seen, obs, at, past, stolen>>

\* The history of the observation's target: who measured it last, how often that
\* was reused since, and how long ago a ceiling was found.
Remember(o) ==
    /\ origin' = IF o.measured THEN [origin EXCEPT ![o.target] = <<o.work, o.rtt>>] ELSE origin
    /\ leans' = [leans EXCEPT ![o.target] = IF o.measured THEN 0 ELSE IF o.reused THEN @ + 1 ELSE @]
    /\ idle' = [idle EXCEPT ![o.target] = IF o.ceiling > 0 THEN 0 ELSE @ + 1]

\* saveUnlocked: a temporary sibling and a rename.
Rename(p) ==
    /\ pc[p] = "save"
    /\ file' = [usable |-> TRUE, recs |-> store[p]]
    /\ Remember(obs[p])
    /\ Goto(p, "unlock")
    /\ Forget(p)
    /\ UNCHANGED <<lock, stale, now, runs, stolen>>

SaveFails(p) ==
    /\ "io" \in Faults
    /\ pc[p] = "save"
    /\ Goto(p, "unlock")
    /\ UNCHANGED <<file, lock, stale, now, run, past, stolen>>

\* The deferred Remove of the lock file.
Unlock(p) ==
    /\ pc[p] = "unlock"
    /\ lock' = None /\ stale' = FALSE
    /\ Return(p)
    /\ UNCHANGED <<file, now, runs, past, stolen>>

-----------------------------------------------------------------------------
(* The world. *)

\* The process is killed: its lock file stays, and the job's next run starts from
\* nothing.  (Killed before it has a lock, it is as good as a run that gave up.)
Kill(p) ==
    /\ "kill" \in Faults
    /\ pc[p] \in Holding
    /\ Return(p)
    /\ lock' = IF lock = p THEN Left ELSE lock
    /\ UNCHANGED <<file, stale, now, runs, past, stolen>>

\* lockStale passes.  A holder is done in milliseconds, so it was killed.
LockAges ==
    /\ lock = Left /\ ~stale
    /\ stale' = TRUE
    /\ UNCHANGED <<file, lock, now, pc, run, past, stolen>>

Day ==
    /\ now < Horizon
    /\ now' = now + 1
    /\ UNCHANGED <<file, lock, stale, pc, run, past, stolen>>

Ended ==
    /\ runs = MaxRuns /\ \A p \in Procs : pc[p] = "idle"
    /\ UNCHANGED vars

WriteBack(p) ==
    \/ TryLock(p) \/ SeeStale(p) \/ Steal(p) \/ GiveUp(p) \/ LockFails(p)
    \/ LoadUpdate(p) \/ Rename(p) \/ SaveFails(p) \/ Unlock(p)

Step(p) == Open(p) \/ ConnectFails(p) \/ Deploy(p) \/ WriteBack(p)

Next == (\E p \in Procs : Step(p) \/ Kill(p)) \/ LockAges \/ Day \/ Ended

Spec == Init /\ [][Next]_vars

\* A write-back goes on by itself: the next poll, the deadline, the next system call.
\* Nothing says that a job runs again, or that a killed one is ever cleaned up after.
FairSpec == Spec /\ \A p \in Procs : WF_vars(WriteBack(p))

-----------------------------------------------------------------------------
(* Properties. *)

\* The records this easySFTP wrote.
Current == {r \in {LoadedRecords[i] : i \in DOMAIN LoadedRecords} : r.policy = PolicyVersion}

\* A throughput stays with the workload and the round-trip time of the run that
\* measured it, however many runs reuse or merely rewrite the record, are killed or
\* fail to read it (Update's "replaced only by a new measurement, and never merely by a
\* newer run").  Not so once a stale lock was removed twice and a job at work lost its
\* own that way: nothing keeps two write-backs apart from then on.
AnchorStays ==
    stolen \/ \A r \in Current : r.stream => <<r.work, r.rtt>> = origin[r.target]

\* Likewise one measurement serves at most MaxReuse runs that wrote back, runs that
\* read the record at the same time included (Record.Reused, Lookup, stillTrusted).
MeasurementIsSpent ==
    stolen \/ \A r \in Current : r.stream => leans[r.target] <= MaxReuse

\* Likewise a ceiling nobody has met again is gone after MaxCeilingCarry write-backs.
CeilingExpires ==
    stolen \/ \A r \in Current : r.ceiling > 0 => idle[r.target] <= MaxCeilingCarry

\* The abstract cache: one write-back after the other.
Serial == INSTANCE SerialCache WITH recs <- LoadedRecords
SerialUpdates == Serial!Spec

\* No lock, left behind or contended, keeps a run from ending: the cache is
\* "never the deploy" (withStoreLock).
RunEnds == \A p \in Procs : pc[p] = "lock" ~> pc[p] = "idle"
=============================================================================
