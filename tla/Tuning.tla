------------------------------- MODULE Tuning -------------------------------
(***************************************************************************)
(* Automatic tuning of one run: the plan of each deployment's transfer     *)
(* (uploader/tuning.go, autotune.Plan), the runtime controller that moves  *)
(* the number of connections while files are uploaded                      *)
(* (autotune/controller.go), what the pool makes of it (session.setSpread, *)
(* noteDialFailure), and what the run tells the next one                   *)
(* (cacheObservation).                                                     *)
(*                                                                         *)
(* The cost model is not evaluated: its answer is any number its clamps    *)
(* allow.  A throughput is a member of Rates.  Session has the dialing of  *)
(* the pool in detail.                                                     *)
(***************************************************************************)
EXTENDS Naturals, Sequences, FiniteSets

CONSTANTS
    Sizes,           \* the files of each deployment, in order
    MaxConnections, MaxConcurrency, MinSamples,
    Rates,           \* what a window can measure, in bytes per second; 0 is nothing
    Inherited,       \* ceilings an earlier run may have left; 0 is none
    Pins             \* values of advanced.connections; 0 is auto

ASSUME TuningAssumption ==
    /\ Sizes \in Seq(Nat) /\ Inherited \subseteq Nat /\ Rates \subseteq Nat
    /\ MaxConnections \in Nat \ {0} /\ MaxConcurrency \in Nat \ {0} /\ MinSamples \in Nat \ {0}
    /\ Pins \subseteq 0 .. MaxConnections

Least(a, b) == IF a <= b THEN a ELSE b
Most(a, b) == IF a <= b THEN b ELSE a

VARIABLES
    pinned,      \* tuning.fixed.Connections
    ceiling,     \* tuning.ceiling, restored from the cache
    effective,   \* tuning.effective.Connections
    final,       \* tuning.finalSpread
    stepsBack,   \* tuning.spreadDown
    spread, conns, refused,    \* the session: its spread, its slots, a refusal
    round,       \* the deployment being run, 0 before the first
    started, done, retried,    \* its transfer: files handed out, files finished, a retry
    ctl,         \* where the controller is
    cur, from, pending,        \* Controller.current, pendingFrom, pendingRate
    base,        \* the finished files at the last accepted observation
    obs          \* the observation handed to the cache at the end of the run

config == <<pinned, ceiling>>
tune == <<effective, final, stepsBack>>
pool == <<spread, conns, refused>>
transfer == <<round, started, done, retried>>
controller == <<ctl, cur, from, pending, base>>
vars == <<config, tune, pool, transfer, controller, obs>>

Total == IF round \in DOMAIN Sizes THEN Sizes[round] ELSE 0
\* tuning.workers and planConcurrency: as many workers as files, capped.
Concurrency == Most(1, Least(Total, MaxConcurrency))
\* tuning.poolCeiling
Slots == IF pinned > 0 THEN pinned ELSE MaxConnections

NoObs == [ceiling |-> 0, untested |-> FALSE]

Init ==
    /\ pinned \in Pins /\ ceiling \in Inherited
    /\ effective = 1 /\ final = 0 /\ stepsBack = 0
    /\ spread = 1 /\ conns = [s \in 0 .. (MaxConnections - 1) |-> IF s = 0 THEN "own" ELSE "none"]
    /\ refused = FALSE
    /\ round = 0 /\ started = 0 /\ done = 0 /\ retried = FALSE
    /\ ctl = "stopped" /\ cur = 1 /\ from = 0 /\ pending = 0 /\ base = 0
    /\ obs = NoObs

TypeOK ==
    /\ pinned \in Pins /\ ceiling \in Inherited
    /\ effective \in 1 .. MaxConnections /\ final \in 0 .. MaxConnections
    /\ stepsBack \in 0 .. Len(Sizes)
    /\ spread \in 1 .. MaxConnections
    /\ conns \in [0 .. (MaxConnections - 1) -> {"none", "own", "shared"}]
    /\ refused \in BOOLEAN /\ retried \in BOOLEAN
    /\ round \in 0 .. Len(Sizes) + 1
    /\ done <= started /\ started <= Total
    /\ ctl \in {"observe", "apply", "stopped"}
    /\ cur \in 1 .. MaxConnections /\ from \in 0 .. MaxConnections
    /\ pending \in Rates \cup {0} /\ base <= done
    /\ obs \in [ceiling: 0 .. MaxConnections, untested: BOOLEAN]

-----------------------------------------------------------------------------
(* The inherited ceiling and the spread. *)

\* Mutant: nothing an earlier run found is remembered where the spread moves.
ClampUnbounded(n) == n
\* clampLocked: a number the user wrote is never clamped.
Clamp(n) == IF pinned > 0 \/ ceiling = 0 THEN n ELSE Least(n, ceiling)

\* session.setSpread, and the value it returns.
Granted(n) ==
    LET m == Clamp(Least(Most(n, 1), Slots))
    IN  IF refused /\ m > spread THEN spread ELSE m
SetSpread(n) == spread' = Granted(n)

-----------------------------------------------------------------------------
(* uploadFiles. *)

\* planConnections behind its clamps; one file, or a set that is not settled yet
\* (skip_unchanged), gets one connection.
Plans(uploads, workers) ==
    IF uploads <= 1 THEN {1} ELSE 1 .. Least(MaxConnections, Least(uploads, workers))

\* NewController: nothing to watch when the number is pinned or at its maximum, one
\* file is in flight, or every file has its connection from the start.
Watches(start, workers, items) ==
    pinned = 0 /\ start < MaxConnections /\ workers > 1 /\ workers < items

\* Mutant: the deployment waits for the controller without telling it to stop.
QuietForgotten == ctl = "stopped"
\* The deferred stop of the controller: a change it is applying is finished first.
Quiet == ctl # "apply"

\* planFor, setSpread and startTuningController for the next deployment.
Begin ==
    /\ done = Total /\ Quiet /\ round < Len(Sizes)
    /\ round' = round + 1
    /\ started' = 0 /\ done' = 0 /\ retried' = FALSE
    /\ LET files == Sizes[round + 1]
           workers == Most(1, Least(files, MaxConcurrency))
       IN  \E plan \in IF pinned > 0 THEN {pinned} ELSE Plans(files, workers) :
            LET start == Clamp(plan)
            IN  /\ final' = start
                /\ effective' = Most(effective, start)
                /\ SetSpread(start)
                /\ cur' = start
                /\ ctl' = IF Watches(start, workers, files) THEN "observe" ELSE "stopped"
    /\ from' = 0 /\ pending' = 0 /\ base' = 0
    /\ UNCHANGED <<config, stepsBack, conns, refused, obs>>

\* Mutant: the first connection is not counted.
OpenSlotsExtra == Cardinality({s \in DOMAIN conns \ {0} : conns[s] = "own"})
\* openSlots: the connections up to the first slot nobody reached.
OpenSlots ==
    Cardinality({s \in DOMAIN conns : conns[s] = "own" /\ \A t \in 0 .. s : conns[t] # "none"})

\* A worker takes a file and, with it, its connection: the slot of the file's
\* index, dialed if nobody did.  The first refusal pulls the spread back to what is
\* open, when easySFTP chose it, and the slot falls back to the first connection.
\* (Dials of two slots at once are in Session.)
Start ==
    /\ started < Total /\ started - done < Concurrency
    /\ started' = started + 1
    /\ LET slot == started % spread
       IN  \/ conns[slot] # "none" /\ UNCHANGED pool
          \/ /\ conns[slot] = "none" /\ ~refused
             /\ conns' = [conns EXCEPT ![slot] = "own"]
             /\ UNCHANGED <<spread, refused>>
          \/ /\ conns[slot] = "none"
             /\ refused' = TRUE
             /\ spread' = IF pinned = 0 /\ ~refused THEN OpenSlots ELSE spread
             /\ conns' = [conns EXCEPT ![slot] = "shared"]
    /\ UNCHANGED <<config, tune, round, done, retried, controller, obs>>

\* uploadProgress.upload and skip.
Finish ==
    /\ done < started
    /\ done' = done + 1
    /\ UNCHANGED <<config, tune, pool, round, started, retried, controller, obs>>

\* uploadProgress.failed: an upload is tried again.
Retry ==
    /\ done < started /\ ~retried
    /\ retried' = TRUE
    /\ UNCHANGED <<config, tune, pool, round, started, done, controller, obs>>

-----------------------------------------------------------------------------
(* Controller.Observe, called every tuningInterval. *)

Remaining == Total - done

\* Mutant: every file that has not finished counts (issue #217).
QueuedUnfinished == Remaining
\* queued: the files no worker has taken yet.
Queued == IF Remaining > Concurrency THEN Remaining - Concurrency ELSE 0

\* The report closes a window: enough files, and by chance enough time and bytes.
Eligible == done - base >= MinSamples

Stop == ctl' = "stopped" /\ UNCHANGED <<cur, from, pending, base>>

\* A refusal or a retry ends the growth.
StopEarly ==
    /\ ctl = "observe" /\ (refused \/ retried)
    /\ Stop
    /\ UNCHANGED <<config, tune, pool, transfer, obs>>

\* rate < pendingRate * improvementBand
NoBetter(rate) == pending > 0 /\ 100 * rate < 105 * pending

\* reject: put the spread back, and settle.
Reject(rate) ==
    /\ rate > 0 /\ NoBetter(rate)
    /\ cur' = from /\ from' = 0 /\ pending' = 0 /\ ctl' = "apply" /\ base' = done

\* The step paid, or there was none to judge, and this is as wide as it gets.
Content(rate) ==
    /\ rate = 0 \/ ~NoBetter(rate)
    /\ base' = done
    /\ UNCHANGED cur
    /\ IF rate = 0 THEN UNCHANGED <<ctl, from, pending>>
       ELSE /\ from' = 0 /\ pending' = 0
            /\ ctl' = IF pending > 0 /\ cur >= MaxConnections THEN "stopped" ELSE ctl

\* Another step: the plan of what is left, at most double, no wider than the files
\* that are waiting.
Widen(rate) ==
    /\ rate > 0 /\ ~NoBetter(rate)
    /\ cur < MaxConnections /\ Queued > cur
    /\ \E want \in Plans(Remaining, MaxConcurrency) :
        LET grown == Least(Least(want, 2 * cur), Least(Concurrency, Queued))
        IN  grown > cur /\ cur' = grown
    /\ from' = cur /\ pending' = rate /\ base' = done /\ ctl' = "apply"

Observe ==
    /\ ctl = "observe" /\ ~refused /\ ~retried
    /\ Eligible
    /\ \E rate \in Rates : Reject(rate) \/ Content(rate) \/ Widen(rate)
    /\ UNCHANGED <<config, tune, pool, transfer, obs>>

\* Mutant: the controller goes on after it took a step back.
AfterChangeOn == "observe"
\* A step back is the last change of a deployment.
AfterChange == IF from = 0 THEN "stopped" ELSE "observe"

\* setSpread and applied, in the controller's goroutine.
Apply ==
    /\ ctl = "apply"
    /\ SetSpread(cur)
    /\ final' = Granted(cur)
    /\ effective' = Most(effective, final')
    /\ stepsBack' = stepsBack + (IF from = 0 THEN 1 ELSE 0)
    /\ ctl' = AfterChange
    /\ UNCHANGED <<config, conns, refused, transfer, cur, from, pending, base, obs>>

-----------------------------------------------------------------------------
(* The end of the run. *)

\* cacheObservation
Observation ==
    IF refused THEN [ceiling |-> OpenSlots, untested |-> FALSE]
    ELSE IF stepsBack > 0 THEN [ceiling |-> Most(final, 1), untested |-> FALSE]
    ELSE [ceiling |-> 0, untested |-> ceiling > 0]

\* The deferred write-back, with the transfer and its controller gone.
Report ==
    /\ Quiet
    /\ obs' = Observation
    /\ round' = Len(Sizes) + 1
    /\ started' = 0 /\ done' = 0 /\ retried' = FALSE
    /\ ctl' = "stopped" /\ base' = 0 /\ cur' = 1 /\ from' = 0 /\ pending' = 0
    /\ UNCHANGED <<config, tune, pool>>

Succeed == round = Len(Sizes) /\ done = Total /\ Report

\* A deployment fails, before its transfer or in it, or the run is interrupted.
Fail == round <= Len(Sizes) /\ Report

Next == Begin \/ Start \/ Finish \/ Retry \/ StopEarly \/ Observe \/ Apply \/ Succeed \/ Fail

Spec == Init /\ [][Next]_vars

\* Transfers end, the controller applies what it decided, and Run goes on.
FairSpec == Spec /\ WF_vars(Begin) /\ WF_vars(Start) /\ WF_vars(Finish)
                 /\ WF_vars(Apply) /\ WF_vars(Succeed)

-----------------------------------------------------------------------------
(* Properties. *)

\* A growth step has files to carry when it is decided: at least as many as it has
\* connections are still waiting for a worker (Controller.queued, issue #217).  Workers
\* may take some of them before the step is applied.
GrowthIsCashed ==
    [][Observe /\ cur' > cur => Total - started >= cur']_vars

\* An automatic run stays within the ceiling it inherited: the connections it hands
\* files to and the ones it opens (session.setSpread: "never exceeds a ceiling an
\* earlier run against this server left behind").  The ceiling it reports is at most
\* the widest spread it ran with, so a chain of runs can only lower it until it expires
\* (cacheObservation).
CeilingHolds ==
    /\ pinned = 0 /\ ceiling > 0 =>
        /\ spread <= ceiling /\ effective <= ceiling
        /\ Cardinality({s \in DOMAIN conns : conns[s] = "own"}) <= ceiling
    /\ obs.ceiling <= effective

\* At most one step back per deployment, nothing after it, and every step at most a
\* doubling (reject: "a second one would be the start of an oscillation").
Policy == INSTANCE SpreadPolicy WITH
    MaxWidth <- MaxConnections,
    width <- cur,
    back <- IF ctl = "stopped" THEN 0 ELSE from,
    phase <- IF ctl = "stopped" \/ (ctl = "apply" /\ from = 0) THEN "settled"
             ELSE IF from > 0 THEN "judging" ELSE "watching"
FollowsPolicy == Policy!Spec

\* The run ends, whatever the controller is doing (the function that
\* startTuningController returns).
RunReports == <>(round = Len(Sizes) + 1)
=============================================================================
