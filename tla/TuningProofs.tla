---------------------------- MODULE TuningProofs ----------------------------
(***************************************************************************)
(* The runtime controller and the connections of a run, for every sequence *)
(* of deployments, every cap on connections and workers, every inherited   *)
(* ceiling and every throughput the windows can measure: types, the        *)
(* ceiling, the growth that always has files to carry, and the policy of   *)
(* at most one step back per deployment.                                   *)
(***************************************************************************)
EXTENDS Tuning, FiniteSetTheorems, TLAPS

\* Every number is in its range; the worker count bounds the files in flight.
Typed ==
    /\ TypeOK
    /\ started \in Nat /\ done \in Nat /\ base \in Nat
    /\ started - done <= Concurrency

\* The first connection is always there, and a slot is looked at only below the
\* widest spread so far.
SlotsInUse ==
    /\ conns[0] = "own"
    /\ \A s \in DOMAIN conns : conns[s] # "none" => s < effective
    /\ spread <= effective /\ final <= effective

\* The controller stands behind numbers the ceiling allows, judges a step by the
\* rate before it, and judges only steps that went up.
StepsKnown ==
    /\ pending > 0 <=> from > 0
    /\ from > 0 => from < cur
    /\ ctl # "stopped" => pinned = 0

\* One step back at most for each deployment that began.
StepsCounted ==
    /\ stepsBack <= round
    /\ ctl # "stopped" => stepsBack < round /\ round \in DOMAIN Sizes

\* Nothing an automatic run did went over the ceiling it inherited.
UnderCeiling == pinned = 0 /\ ceiling > 0 => effective <= ceiling

Reported == obs.ceiling <= effective

Inv == Typed /\ SlotsInUse /\ StepsKnown /\ StepsCounted /\ UnderCeiling /\ Reported

-----------------------------------------------------------------------------
(* Numbers. *)

\* The deployments have sizes, and a transfer has at least one worker.
LEMMA Counted ==
    ASSUME round \in 0 .. (Len(Sizes) + 1)
    PROVE  /\ Total \in Nat /\ Concurrency \in Nat /\ Concurrency >= 1
           /\ Concurrency <= MaxConcurrency /\ Len(Sizes) \in Nat
           /\ round \in DOMAIN Sizes <=> round \in 1 .. Len(Sizes)
<1>1. Len(Sizes) \in Nat /\ DOMAIN Sizes = 1 .. Len(Sizes) /\ \A i \in DOMAIN Sizes : Sizes[i] \in Nat
  BY TuningAssumption
<1>2. Total \in Nat
  BY <1>1 DEF Total
<1> QED BY <1>1, <1>2, TuningAssumption DEF Concurrency, Most, Least

\* A clamp only lowers, never below one, and to the ceiling when the run is automatic.
LEMMA Clamped ==
    ASSUME TypeOK, NEW n \in 1 .. MaxConnections
    PROVE  /\ Clamp(n) \in 1 .. MaxConnections /\ Clamp(n) <= n
           /\ pinned = 0 /\ ceiling > 0 => Clamp(n) <= ceiling
           /\ pinned > 0 => Clamp(n) = n
BY TuningAssumption DEF TypeOK, Clamp, Least

\* What the pool grants is a number of connections it may have, and no more than was
\* asked for or is there already.
LEMMA GrantedFacts ==
    ASSUME TypeOK, NEW n \in 1 .. MaxConnections
    PROVE  /\ Granted(n) \in 1 .. MaxConnections
           /\ Granted(n) <= n \/ Granted(n) = spread
           /\ pinned = 0 /\ ceiling > 0 => Granted(n) <= ceiling \/ Granted(n) = spread
<1> DEFINE k == Least(Most(n, 1), Slots)
<1>1. k \in 1 .. MaxConnections /\ k <= n
  BY TuningAssumption DEF TypeOK, Least, Most, Slots
<1>2. /\ Clamp(k) \in 1 .. MaxConnections /\ Clamp(k) <= k
      /\ pinned = 0 /\ ceiling > 0 => Clamp(k) <= ceiling
  BY <1>1, Clamped
<1>3. Granted(n) = IF refused /\ Clamp(k) > spread THEN spread ELSE Clamp(k)
  BY DEF Granted
<1> HIDE DEF k
<1> QED BY <1>1, <1>2, <1>3, TuningAssumption DEF TypeOK

\* The connections that are open lie below the widest spread there was.
LEMMA OpenBelow ==
    ASSUME TypeOK, SlotsInUse
    PROVE  /\ OpenSlots \in 1 .. MaxConnections /\ OpenSlots <= effective
           /\ Cardinality({s \in DOMAIN conns : conns[s] = "own"}) <= effective
<1> DEFINE own == {s \in DOMAIN conns : conns[s] = "own"}
           prefix == {s \in DOMAIN conns : conns[s] = "own" /\ \A t \in 0 .. s : conns[t] # "none"}
<1>1. effective \in Nat /\ effective >= 1 /\ effective <= MaxConnections /\ DOMAIN conns = 0 .. (MaxConnections - 1)
  BY TuningAssumption DEF TypeOK
<1>2. own \subseteq 0 .. (effective - 1) /\ prefix \subseteq 0 .. (effective - 1) /\ {0} \subseteq prefix
  BY <1>1, TuningAssumption DEF SlotsInUse
<1>3. IsFiniteSet(0 .. (effective - 1)) /\ Cardinality(0 .. (effective - 1)) = effective
  BY <1>1, FS_Interval
<1>4. /\ Cardinality(own) <= effective
      /\ IsFiniteSet(prefix) /\ Cardinality(prefix) <= effective
  <2> HIDE DEF own, prefix
  <2>1. Cardinality(own) <= Cardinality(0 .. (effective - 1))
    BY <1>2, <1>3, FS_Subset
  <2>2. IsFiniteSet(prefix) /\ Cardinality(prefix) <= Cardinality(0 .. (effective - 1))
    BY <1>2, <1>3, FS_Subset
  <2> QED BY <2>1, <2>2, <1>3
<1>5. Cardinality({0}) = 1 /\ Cardinality({0}) <= Cardinality(prefix) /\ Cardinality(prefix) \in Nat
  BY <1>2, <1>4, FS_Singleton, FS_Subset, FS_CardinalityType
<1>6. OpenSlots = Cardinality(prefix)
  BY DEF OpenSlots
<1> HIDE DEF own, prefix
<1> QED BY <1>1, <1>4, <1>5, <1>6, TuningAssumption DEF own

\* A plan is a number of connections the run may have.
LEMMA PlansFacts ==
    ASSUME NEW uploads \in Nat, NEW workers \in Nat, workers >= 1, NEW p \in Plans(uploads, workers)
    PROVE  p \in 1 .. MaxConnections
BY TuningAssumption DEF Plans, Least

-----------------------------------------------------------------------------
(* One lemma for each action. *)

\* At the start there is one connection and no transfer.
LEMMA InitInv == Init => Inv
<1> SUFFICES ASSUME Init PROVE Inv
  OBVIOUS
<1>1. round \in 0 .. (Len(Sizes) + 1) /\ round = 0 /\ Len(Sizes) \in Nat
  BY TuningAssumption DEF Init
<1>2. Total \in Nat /\ Concurrency \in Nat /\ Concurrency >= 1
  BY <1>1, Counted
<1>3. conns \in [0 .. (MaxConnections - 1) -> {"none", "own", "shared"}]
  BY DEF Init
<1>4. TypeOK
  <2>1. pinned \in Pins /\ ceiling \in Inherited /\ refused \in BOOLEAN /\ retried \in BOOLEAN
    BY DEF Init
  <2>2. obs \in [ceiling: 0 .. MaxConnections, untested: BOOLEAN]
    BY TuningAssumption DEF Init, NoObs
  <2> QED BY <2>1, <2>2, <1>1, <1>2, <1>3, TuningAssumption DEF Init, TypeOK
<1>5. SlotsInUse
  BY TuningAssumption DEF Init, SlotsInUse
<1> QED BY <1>1, <1>2, <1>4, <1>5, TuningAssumption
        DEF Inv, Typed, StepsKnown, StepsCounted, UnderCeiling, Reported, Init, NoObs

\* A deployment begins at rest, with the connections its plan is allowed.
LEMMA BeginInv ==
    ASSUME Inv, Begin
    PROVE  Inv'
<1> USE DEF Inv, Typed
<1>1. Len(Sizes) \in Nat /\ round' \in 1 .. Len(Sizes) /\ round' = round + 1 /\ round' \in DOMAIN Sizes
  BY Counted, TuningAssumption DEF Begin, TypeOK
<1> DEFINE files == Sizes[round + 1]
           workers == Most(1, Least(files, MaxConcurrency))
<1>2. files \in Nat /\ workers \in Nat /\ workers >= 1
  BY <1>1, TuningAssumption DEF Most, Least
<1>3. PICK plan \in (IF pinned > 0 THEN {pinned} ELSE Plans(files, workers)) :
         /\ final' = Clamp(plan) /\ cur' = Clamp(plan)
         /\ effective' = Most(effective, Clamp(plan))
         /\ spread' = Granted(Clamp(plan))
         /\ ctl' = IF Watches(Clamp(plan), workers, files) THEN "observe" ELSE "stopped"
  BY DEF Begin, SetSpread
<1>4. plan \in 1 .. MaxConnections
  <2>1. CASE pinned > 0
    BY <2>1, <1>3, TuningAssumption DEF TypeOK
  <2>2. CASE ~(pinned > 0)
    BY <2>2, <1>2, <1>3, PlansFacts
  <2> QED BY <2>1, <2>2
<1> DEFINE start == Clamp(plan)
<1>5. /\ start \in 1 .. MaxConnections /\ (pinned = 0 /\ ceiling > 0 => start <= ceiling)
      /\ Granted(start) \in 1 .. MaxConnections
      /\ Granted(start) <= start \/ Granted(start) = spread
  BY <1>4, Clamped, GrantedFacts
<1>6. effective' \in 1 .. MaxConnections /\ effective' >= effective /\ effective' >= start
      /\ effective' \in {effective, start}
  BY <1>3, <1>5, TuningAssumption DEF TypeOK, Most
<1>7. Total' \in Nat /\ Concurrency' \in Nat /\ Concurrency' >= 1
  <2>1. Total' = Sizes[round']
    BY <1>1 DEF Total
  <2> QED BY <2>1, <1>1, TuningAssumption DEF Concurrency, Most, Least
<1> HIDE DEF files, workers
<1>8. TypeOK'
  <2>1. /\ pinned' \in Pins /\ ceiling' \in Inherited /\ refused' \in BOOLEAN /\ retried' \in BOOLEAN
        /\ conns' \in [0 .. (MaxConnections - 1) -> {"none", "own", "shared"}]
        /\ obs' \in [ceiling: 0 .. MaxConnections, untested: BOOLEAN]
        /\ stepsBack' \in 0 .. Len(Sizes)
    BY DEF Begin, TypeOK, config
  <2>2. /\ effective' \in 1 .. MaxConnections /\ final' \in 0 .. MaxConnections
        /\ spread' \in 1 .. MaxConnections /\ cur' \in 1 .. MaxConnections
        /\ ctl' \in {"observe", "apply", "stopped"}
    BY <1>3, <1>5, <1>6, TuningAssumption
  <2>3. /\ started' = 0 /\ done' = 0 /\ base' = 0 /\ from' = 0 /\ pending' = 0
    BY DEF Begin
  <2>4. round' \in 0 .. (Len(Sizes) + 1)
    BY <1>1
  <2> QED BY <2>1, <2>2, <2>3, <2>4, <1>7, TuningAssumption DEF TypeOK
<1>9. Typed'
  BY <1>7, <1>8 DEF Begin
<1>10. SlotsInUse'
  <2>1. conns' = conns /\ DOMAIN conns = 0 .. (MaxConnections - 1)
    BY DEF Begin, TypeOK
  <2>2. \A s \in DOMAIN conns' : conns'[s] # "none" => s < effective'
    BY <2>1, <1>6, TuningAssumption DEF SlotsInUse, TypeOK
  <2>3. spread' <= effective' /\ final' <= effective'
    BY <1>3, <1>5, <1>6, TuningAssumption DEF SlotsInUse, TypeOK
  <2> QED BY <2>1, <2>2, <2>3 DEF SlotsInUse
<1>11. StepsKnown'
  BY <1>3, TuningAssumption DEF Begin, StepsKnown, Watches, config, TypeOK
<1>12. StepsCounted'
  BY <1>1 DEF Begin, StepsCounted, TypeOK
<1>13. UnderCeiling'
  BY <1>5, <1>6 DEF Begin, UnderCeiling, config
<1>14. Reported'
  BY <1>6, TuningAssumption DEF Begin, Reported, TypeOK
<1> QED BY <1>9, <1>10, <1>11, <1>12, <1>13, <1>14

\* A file takes a slot below the spread; a refusal takes the spread back to what is
\* open.
LEMMA StartInv ==
    ASSUME Inv, Start
    PROVE  Inv'
<1> USE DEF Inv, Typed
<1>1. /\ Total \in Nat /\ Concurrency \in Nat /\ Concurrency >= 1
      /\ OpenSlots \in 1 .. MaxConnections /\ OpenSlots <= effective
  BY Counted, OpenBelow DEF TypeOK
<1> DEFINE slot == started % spread
<1>2. /\ spread \in Nat /\ spread >= 1 /\ spread <= MaxConnections /\ started \in Nat
      /\ spread <= effective /\ effective \in 1 .. MaxConnections
  BY TuningAssumption DEF TypeOK, SlotsInUse
<1>3. slot \in 0 .. (MaxConnections - 1) /\ slot < spread
  BY <1>2, TuningAssumption
<1>4. /\ \/ conns' = conns
         \/ conns[slot] = "none" /\ conns' \in {[conns EXCEPT ![slot] = "own"], [conns EXCEPT ![slot] = "shared"]}
      /\ spread' \in {spread, OpenSlots}
      /\ refused' \in BOOLEAN
  BY DEF Start, pool, TypeOK
<1>5. /\ started' = started + 1 /\ started < Total /\ started - done < Concurrency
      /\ UNCHANGED <<config, tune, round, done, retried, controller, obs>>
  BY DEF Start
<1> HIDE DEF slot
<1>6. conns' \in [0 .. (MaxConnections - 1) -> {"none", "own", "shared"}]
  BY <1>3, <1>4 DEF TypeOK
<1>7. Total' = Total /\ Concurrency' = Concurrency
  BY <1>5 DEF Total, Concurrency
<1>8. Typed'
  <2>1. spread' \in 1 .. MaxConnections
    BY <1>1, <1>4 DEF TypeOK
  <2>2. started' <= Total' /\ done' <= started' /\ started' \in Nat /\ started' - done' <= Concurrency'
    BY <1>1, <1>2, <1>5, <1>7 DEF TypeOK
  <2> QED BY <2>1, <2>2, <1>4, <1>5, <1>6 DEF TypeOK, config, tune, controller
<1>9. SlotsInUse'
  <2>1. conns[0] = "own" /\ conns'[0] = "own"
    BY <1>3, <1>4, TuningAssumption DEF SlotsInUse, TypeOK
  <2>2. \A s \in DOMAIN conns' : conns'[s] # "none" => s < effective'
    BY <1>2, <1>3, <1>4, <1>5, TuningAssumption DEF SlotsInUse, TypeOK, tune
  <2>3. spread' <= effective' /\ final' <= effective'
    BY <1>1, <1>2, <1>4, <1>5 DEF SlotsInUse, tune
  <2> QED BY <2>1, <2>2, <2>3 DEF SlotsInUse
<1>10. StepsKnown' /\ StepsCounted' /\ UnderCeiling' /\ Reported'
  BY <1>5 DEF StepsKnown, StepsCounted, UnderCeiling, Reported, config, tune, controller
<1> QED BY <1>8, <1>9, <1>10

\* A finished file, or a retry, moves nothing the controller or the pool decided.
LEMMA FinishInv ==
    ASSUME Inv, Finish \/ Retry
    PROVE  Inv'
<1> USE DEF Inv, Typed
<1>1. Total \in Nat /\ Concurrency \in Nat
  BY Counted DEF TypeOK
<1>2. /\ UNCHANGED <<config, tune, pool, round, started, controller, obs>>
      /\ done < started /\ done' \in {done, done + 1} /\ retried' \in BOOLEAN
  BY DEF Finish, Retry, TypeOK
<1>3. Total' = Total /\ Concurrency' = Concurrency
  BY <1>2 DEF Total, Concurrency
<1>4. TypeOK'
  BY <1>1, <1>2, <1>3 DEF TypeOK, config, tune, pool, controller
<1>5. Typed'
  <2>1. started' = started /\ base' = base
    BY <1>2 DEF controller
  <2>2. done' = done \/ done' = done + 1
    BY <1>2
  <2>3. done' \in Nat /\ started - done' <= Concurrency
    BY <1>1, <2>2
  <2> QED BY <1>3, <1>4, <2>1, <2>3
<1>6. SlotsInUse' /\ StepsKnown' /\ StepsCounted' /\ UnderCeiling' /\ Reported'
  BY <1>2 DEF SlotsInUse, StepsKnown, StepsCounted, UnderCeiling, Reported, config, tune, pool, controller
<1> QED BY <1>5, <1>6

\* The controller settles.
LEMMA StopEarlyInv ==
    ASSUME Inv, StopEarly
    PROVE  Inv'
<1> USE DEF Inv, Typed
<1>1. /\ UNCHANGED <<config, tune, pool, transfer, obs, cur, from, pending, base>>
      /\ ctl' = "stopped"
  BY DEF StopEarly, Stop
<1>2. Total' = Total /\ Concurrency' = Concurrency
  BY <1>1 DEF Total, Concurrency, transfer
<1>3. TypeOK'
  BY <1>1, <1>2 DEF TypeOK, config, tune, pool, transfer
<1>4. Typed'
  BY <1>1, <1>2, <1>3 DEF transfer
<1>5. SlotsInUse' /\ StepsKnown' /\ StepsCounted' /\ UnderCeiling' /\ Reported'
  BY <1>1 DEF SlotsInUse, StepsKnown, StepsCounted, UnderCeiling, Reported, config, tune, pool, transfer
<1> QED BY <1>4, <1>5

\* What a window's verdict can be: the step taken back, nothing more, or another step,
\* at most double and with files waiting for it.
LEMMA Verdicts ==
    ASSUME Inv, Observe
    PROVE  /\ ctl = "observe" /\ base' = done /\ UNCHANGED <<config, tune, pool, transfer, obs>>
           /\ \/ from > 0 /\ cur' = from /\ from' = 0 /\ pending' = 0 /\ ctl' = "apply"
              \/ UNCHANGED <<cur, ctl, from, pending>>
              \/ cur' = cur /\ from' = 0 /\ pending' = 0
                    /\ (ctl' = ctl \/ (ctl' = "stopped" /\ from > 0))
              \/ /\ cur' \in (cur + 1) .. MaxConnections /\ cur' <= 2 * cur /\ cur' <= Queued
                 /\ from' = cur /\ pending' \in Rates /\ pending' > 0 /\ ctl' = "apply"
<1> USE DEF Inv, Typed
<1>1. PICK rate \in Rates : Reject(rate) \/ Content(rate) \/ Widen(rate)
  BY DEF Observe
<1>2. rate \in Nat /\ pending \in Nat /\ from \in Nat /\ cur \in 1 .. MaxConnections
  BY TuningAssumption DEF TypeOK
<1>3. ctl = "observe" /\ UNCHANGED <<config, tune, pool, transfer, obs>>
  BY DEF Observe
<1>4. pending > 0 <=> from > 0
  BY DEF StepsKnown
<1>5. CASE Reject(rate)
  BY <1>2, <1>3, <1>4, <1>5 DEF Reject, NoBetter
<1>6. CASE Content(rate)
  <2>1. CASE rate = 0
    BY <2>1, <1>3, <1>6 DEF Content
  <2>2. CASE rate # 0
    BY <2>2, <1>2, <1>3, <1>4, <1>6 DEF Content
  <2> QED BY <2>1, <2>2
<1>7. CASE Widen(rate)
  <2>1. /\ Total \in Nat /\ Concurrency \in Nat /\ Concurrency >= 1
    BY Counted DEF TypeOK
  <2>2. Remaining \in Nat /\ Queued \in Nat
    BY <2>1 DEF TypeOK, Remaining, Queued
  <2>3. PICK want \in Plans(Remaining, MaxConcurrency) :
           /\ cur' = Least(Least(want, 2 * cur), Least(Concurrency, Queued))
           /\ cur' > cur
    BY <1>7 DEF Widen
  <2>4. want \in 1 .. MaxConnections
    BY <2>2, <2>3, PlansFacts, TuningAssumption
  <2>5. cur' \in (cur + 1) .. MaxConnections /\ cur' <= 2 * cur /\ cur' <= Queued
    BY <1>2, <2>1, <2>2, <2>3, <2>4, TuningAssumption DEF Least
  <2> QED BY <1>2, <1>3, <1>7, <2>5 DEF Widen
<1> QED BY <1>1, <1>5, <1>6, <1>7

\* A verdict stays within the caps and remembers where it came from.
LEMMA ObserveInv ==
    ASSUME Inv, Observe
    PROVE  Inv'
<1> USE DEF Inv, Typed
<1>1. Total' = Total /\ Concurrency' = Concurrency /\ Total \in Nat
  BY Counted, Verdicts DEF Total, Concurrency, transfer, TypeOK
<1>2. /\ cur \in 1 .. MaxConnections /\ from \in 0 .. MaxConnections /\ pending \in Rates \cup {0}
      /\ MaxConnections \in Nat /\ done \in Nat
  BY TuningAssumption DEF TypeOK
<1>3. /\ cur' \in 1 .. MaxConnections /\ from' \in 0 .. MaxConnections /\ pending' \in Rates \cup {0}
      /\ ctl' \in {"observe", "apply", "stopped"}
      /\ base' = done /\ UNCHANGED <<config, tune, pool, transfer, obs>>
  BY <1>2, Verdicts
<1>4. TypeOK'
  BY <1>1, <1>2, <1>3 DEF TypeOK, config, tune, pool, transfer
<1>5. Typed'
  BY <1>1, <1>3, <1>4 DEF transfer
<1>6. StepsKnown'
  BY <1>2, Verdicts DEF StepsKnown, config
<1>7. StepsCounted'
  BY Verdicts DEF StepsCounted, tune, transfer
<1>8. SlotsInUse' /\ UnderCeiling' /\ Reported'
  BY <1>3 DEF SlotsInUse, UnderCeiling, Reported, config, tune, pool, transfer
<1> QED BY <1>5, <1>6, <1>7, <1>8

\* The pool makes of a decision what the ceiling and a refusal leave of it.
LEMMA ApplyInv ==
    ASSUME Inv, Apply
    PROVE  Inv'
<1> USE DEF Inv, Typed
<1>1. /\ ctl = "apply" /\ spread' = Granted(cur) /\ final' = Granted(cur)
      /\ effective' = Most(effective, Granted(cur))
      /\ stepsBack' = stepsBack + (IF from = 0 THEN 1 ELSE 0)
      /\ ctl' = IF from = 0 THEN "stopped" ELSE "observe"
      /\ UNCHANGED <<config, conns, refused, transfer, cur, from, pending, base, obs>>
  BY DEF Apply, SetSpread, AfterChange
<1>2. /\ Granted(cur) \in 1 .. MaxConnections
      /\ pinned = 0 /\ ceiling > 0 => Granted(cur) <= ceiling \/ Granted(cur) = spread
  BY GrantedFacts DEF TypeOK
<1>3. effective' \in 1 .. MaxConnections /\ effective' >= effective /\ effective' >= Granted(cur)
      /\ effective' \in {effective, Granted(cur)}
  BY <1>1, <1>2, TuningAssumption DEF TypeOK, Most
<1>4. Total' = Total /\ Concurrency' = Concurrency
  BY <1>1 DEF Total, Concurrency, transfer
<1>5. stepsBack \in Nat /\ round \in Nat /\ Len(Sizes) \in Nat /\ round <= Len(Sizes)
      /\ stepsBack < round
  BY <1>1, Counted DEF StepsCounted, TypeOK
<1>6. TypeOK'
  <2>1. stepsBack' \in 0 .. Len(Sizes)
    BY <1>1, <1>5
  <2>2. /\ pinned' \in Pins /\ ceiling' \in Inherited /\ refused' \in BOOLEAN /\ retried' \in BOOLEAN
        /\ conns' \in [0 .. (MaxConnections - 1) -> {"none", "own", "shared"}]
        /\ obs' \in [ceiling: 0 .. MaxConnections, untested: BOOLEAN]
        /\ round' \in 0 .. (Len(Sizes) + 1) /\ done' <= started' /\ started' <= Total'
        /\ cur' \in 1 .. MaxConnections /\ from' \in 0 .. MaxConnections
        /\ pending' \in Rates \cup {0} /\ base' <= done'
    BY <1>1, <1>4 DEF TypeOK, config, transfer
  <2>3. /\ effective' \in 1 .. MaxConnections /\ final' \in 0 .. MaxConnections
        /\ spread' \in 1 .. MaxConnections /\ ctl' \in {"observe", "apply", "stopped"}
    BY <1>1, <1>2, <1>3, TuningAssumption
  <2> QED BY <2>1, <2>2, <2>3 DEF TypeOK
<1>7. Typed'
  BY <1>1, <1>4, <1>6 DEF transfer
<1>8. SlotsInUse'
  <2>1. \A s \in DOMAIN conns' : conns'[s] # "none" => s < effective'
    BY <1>1, <1>3, TuningAssumption DEF SlotsInUse, TypeOK
  <2> QED BY <2>1, <1>1, <1>3 DEF SlotsInUse
<1>9. StepsKnown'
  BY <1>1 DEF StepsKnown, config
<1>10. StepsCounted'
  <2>1. CASE from = 0
    BY <2>1, <1>1, <1>5 DEF StepsCounted, transfer
  <2>2. CASE from # 0
    BY <2>2, <1>1, <1>5 DEF StepsCounted, transfer
  <2> QED BY <2>1, <2>2
<1>11. UnderCeiling'
  BY <1>1, <1>2, <1>3, TuningAssumption DEF UnderCeiling, SlotsInUse, TypeOK, config
<1>12. Reported'
  BY <1>1, <1>3, TuningAssumption DEF Reported, TypeOK
<1> QED BY <1>7, <1>8, <1>9, <1>10, <1>11, <1>12

\* The run reports a number it ran with.
LEMMA ReportInv ==
    ASSUME Inv, Report, round <= Len(Sizes)
    PROVE  Inv'
<1> USE DEF Inv, Typed
<1>1. Len(Sizes) \in Nat /\ round' = Len(Sizes) + 1 /\ DOMAIN Sizes = 1 .. Len(Sizes)
  BY TuningAssumption DEF Report
<1>2. Total' = 0
  BY <1>1 DEF Total
<1>3. Concurrency' >= 1 /\ Concurrency' \in Nat
  BY <1>2, TuningAssumption DEF Concurrency, Most, Least
<1>4. /\ UNCHANGED <<config, tune, pool>> /\ obs' = Observation
      /\ started' = 0 /\ done' = 0 /\ retried' = FALSE /\ ctl' = "stopped"
      /\ base' = 0 /\ cur' = 1 /\ from' = 0 /\ pending' = 0
  BY DEF Report
<1>5. OpenSlots \in 1 .. MaxConnections /\ OpenSlots <= effective
  BY OpenBelow
<1>6. obs' \in [ceiling: 0 .. MaxConnections, untested: BOOLEAN] /\ obs'.ceiling <= effective
  <2>1. /\ final \in 0 .. MaxConnections /\ effective \in 1 .. MaxConnections /\ final <= effective
        /\ (ceiling > 0) \in BOOLEAN
    BY DEF TypeOK, SlotsInUse
  <2>2. Most(final, 1) \in 1 .. MaxConnections /\ Most(final, 1) <= effective
    BY <2>1, TuningAssumption DEF Most
  <2>3. CASE refused
    BY <2>3, <1>4, <1>5 DEF Observation
  <2>4. CASE ~refused /\ stepsBack > 0
    BY <2>4, <2>2, <1>4 DEF Observation
  <2>5. CASE ~refused /\ ~(stepsBack > 0)
    BY <2>5, <2>1, <1>4, TuningAssumption DEF Observation
  <2> QED BY <2>3, <2>4, <2>5
<1>7. TypeOK'
  <2>1. round' \in 0 .. (Len(Sizes) + 1)
    BY <1>1
  <2>2. cur' \in 1 .. MaxConnections /\ from' \in 0 .. MaxConnections
    BY <1>4, TuningAssumption
  <2>3. /\ pinned' \in Pins /\ ceiling' \in Inherited /\ refused' \in BOOLEAN
        /\ conns' \in [0 .. (MaxConnections - 1) -> {"none", "own", "shared"}]
        /\ effective' \in 1 .. MaxConnections /\ final' \in 0 .. MaxConnections
        /\ stepsBack' \in 0 .. Len(Sizes) /\ spread' \in 1 .. MaxConnections
    BY <1>4 DEF TypeOK, config, tune, pool
  <2>4. retried' \in BOOLEAN /\ ctl' \in {"observe", "apply", "stopped"} /\ pending' \in Rates \cup {0}
    BY <1>4
  <2>5. done' <= started' /\ started' <= Total' /\ base' <= done'
    <3>1. done' = 0 /\ started' = 0 /\ base' = 0
      BY <1>4
    <3> QED BY <3>1, <1>2
  <2> QED BY <2>1, <2>2, <2>3, <2>4, <2>5, <1>6 DEF TypeOK
<1>8. Typed'
  BY <1>3, <1>4, <1>7
<1>9. SlotsInUse' /\ StepsKnown' /\ UnderCeiling'
  BY <1>4 DEF SlotsInUse, StepsKnown, UnderCeiling, config, tune, pool
<1>10. StepsCounted'
  BY <1>1, <1>4 DEF StepsCounted, tune, TypeOK
<1>11. Reported'
  BY <1>4, <1>6 DEF Reported, tune
<1> QED BY <1>8, <1>9, <1>10, <1>11

\* Every step preserves the invariant.
LEMMA NextInv ==
    ASSUME Inv, [Next]_vars
    PROVE  Inv'
<1>1. CASE Begin
  BY <1>1, BeginInv
<1>2. CASE Start
  BY <1>2, StartInv
<1>3. CASE Finish \/ Retry
  BY <1>3, FinishInv
<1>4. CASE StopEarly
  BY <1>4, StopEarlyInv
<1>5. CASE Observe
  BY <1>5, ObserveInv
<1>6. CASE Apply
  BY <1>6, ApplyInv
<1>7. CASE Succeed
  <2>1. Len(Sizes) \in Nat
    BY TuningAssumption
  <2> QED BY <2>1, <1>7, ReportInv DEF Succeed
<1>8. CASE Fail
  BY <1>8, ReportInv DEF Fail
<1>9. CASE UNCHANGED vars
  <2> USE DEF vars, config, tune, pool, transfer, controller
  <2>1. Total' = Total /\ Concurrency' = Concurrency
    BY <1>9 DEF Total, Concurrency
  <2>2. Typed'
    BY <2>1, <1>9 DEF Inv, Typed, TypeOK
  <2>3. SlotsInUse' /\ StepsKnown' /\ StepsCounted' /\ UnderCeiling' /\ Reported'
    BY <1>9 DEF Inv, SlotsInUse, StepsKnown, StepsCounted, UnderCeiling, Reported
  <2> QED BY <2>2, <2>3 DEF Inv
<1> QED BY <1>1, <1>2, <1>3, <1>4, <1>5, <1>6, <1>7, <1>8, <1>9 DEF Next

\* The inductive invariant holds throughout.
LEMMA InvHolds == Spec => []Inv
<1>1. Init => Inv
  BY InitInv
<1>2. Inv /\ [Next]_vars => Inv'
  BY NextInv
<1> QED BY <1>1, <1>2, PTL DEF Spec

-----------------------------------------------------------------------------
(* Theorems. *)

\* Every number of the run stays in its range: connections and spreads between one and
\* the maximum, no more files finished than started, at most one step back for each
\* deployment (uploader/tuning.go, autotune/controller.go).
THEOREM TypeCorrect == Spec => []TypeOK
<1>1. Inv => TypeOK
  BY DEF Inv, Typed
<1> QED BY <1>1, InvHolds, PTL

\* The inherited ceiling bounds the spread, the widest number reported and the
\* connections that are open, whatever the plans, the verdicts and the refusals; and
\* the ceiling handed to the cache is no more than the run had (session.setSpread,
\* clampLocked, cacheObservation).
THEOREM CeilingRespected == Spec => []CeilingHolds
<1>1. Inv => CeilingHolds
  <2> SUFFICES ASSUME Inv PROVE CeilingHolds
    OBVIOUS
  <2> DEFINE open == Cardinality({s \in DOMAIN conns : conns[s] = "own"})
  <2>1. open <= effective
    BY OpenBelow DEF Inv, Typed
  <2>2. open \in Nat /\ spread \in Nat /\ effective \in Nat /\ ceiling \in Nat
    <3>1. IsFiniteSet(0 .. (MaxConnections - 1)) /\ {s \in DOMAIN conns : conns[s] = "own"} \subseteq 0 .. (MaxConnections - 1)
      BY FS_Interval, TuningAssumption DEF Inv, Typed, TypeOK
    <3>2. open \in Nat
      BY <3>1, FS_Subset, FS_CardinalityType
    <3> QED BY <3>2, TuningAssumption DEF Inv, Typed, TypeOK
  <2> HIDE DEF open
  <2>3. pinned = 0 /\ ceiling > 0 => spread <= ceiling /\ effective <= ceiling /\ open <= ceiling
    BY <2>1, <2>2 DEF Inv, SlotsInUse, UnderCeiling
  <2> QED BY <2>3 DEF Inv, Reported, CeilingHolds, open
<1> QED BY <1>1, InvHolds, PTL

\* A growth step, when decided, leaves at least as many files waiting for a worker as it has
\* connections: the files in flight never outnumber the workers, and queued takes the
\* workers off what is left (Controller.queued, issue #217).
THEOREM GrowthCashed == Spec => GrowthIsCashed
<1>1. ASSUME Inv, Observe, cur' > cur
      PROVE  Total - started >= cur'
  <2>1. Total \in Nat /\ Concurrency \in Nat /\ started \in Nat /\ done \in Nat
        /\ started - done <= Concurrency /\ cur \in Nat /\ cur >= 1 /\ from \in Nat
    BY <1>1, Counted, TuningAssumption DEF Inv, Typed, TypeOK
  <2>2. cur' \in Nat /\ cur' <= Queued
    BY <1>1, <2>1, Verdicts DEF Inv, StepsKnown
  <2>3. Total - started >= cur'
    BY <1>1, <2>1, <2>2 DEF Queued, Remaining
  <2> QED BY <2>3
<1>2. Inv => (Observe /\ cur' > cur => Total - started >= cur')
  BY <1>1
<1> QED BY <1>2, InvHolds, PTL DEF GrowthIsCashed

\* The controller, whatever it measures and whenever the transfer, a refusal or the
\* end of the run interrupts it, follows the policy: steps at most double, at most one
\* step back per deployment and nothing after it (autotune/controller.go: Observe,
\* reject, and startTuningController).
THEOREM PolicyFollowed == Spec => FollowsPolicy
<1>1. Init => Policy!Fresh(round, IF ctl = "stopped" \/ (ctl = "apply" /\ from = 0) THEN "settled"
                               ELSE IF from > 0 THEN "judging" ELSE "watching",
                         cur, IF ctl = "stopped" THEN 0 ELSE from)
  BY TuningAssumption DEF Init, Policy!Fresh
<1>2. ASSUME Inv, [Next]_vars
      PROVE  [Policy!Next]_(Policy!vars)
  <2> USE DEF Inv, Typed
  <2>0. /\ cur \in 1 .. MaxConnections /\ from \in 0 .. MaxConnections /\ MaxConnections \in Nat
        /\ round \in Nat /\ Len(Sizes) \in Nat
    BY <1>2, TuningAssumption DEF TypeOK
  <2>1. CASE Begin
    <3>1. Inv'
      BY <1>2, NextInv
    <3>2. round' = round + 1 /\ ctl' \in {"observe", "stopped"} /\ from' = 0 /\ cur' \in 1 .. MaxConnections
      BY <2>1, <3>1 DEF Begin, TypeOK
    <3>3. Policy!NextDeployment
      BY <2>0, <3>2 DEF Policy!NextDeployment, Policy!Fresh
    <3> QED BY <3>3 DEF Policy!Next
  <2>2. CASE Start \/ Finish \/ Retry
    BY <2>2 DEF Start, Finish, Retry, controller, Policy!vars
  <2>3. CASE StopEarly
    <3>1. ctl = "observe" /\ ctl' = "stopped" /\ UNCHANGED <<round, cur, from>>
      BY <2>3 DEF StopEarly, Stop, transfer
    <3>2. Policy!Keep \/ Policy!Settle
      BY <3>1, <2>0 DEF Policy!Keep, Policy!Settle
    <3> QED BY <3>2 DEF Policy!Next
  <2>4. CASE Observe
    <3>1. /\ ctl = "observe" /\ UNCHANGED round
          /\ \/ from > 0 /\ cur' = from /\ from' = 0 /\ ctl' = "apply"
             \/ UNCHANGED <<cur, ctl, from>>
             \/ cur' = cur /\ from' = 0 /\ (ctl' = ctl \/ (ctl' = "stopped" /\ from > 0))
             \/ /\ cur' \in (cur + 1) .. MaxConnections /\ cur' <= 2 * cur
                /\ from' = cur /\ ctl' = "apply"
      BY <1>2, <2>4, Verdicts DEF transfer
    <3>2. CASE from > 0 /\ cur' = from /\ from' = 0 /\ ctl' = "apply"
      BY <3>1, <3>2, <2>0 DEF Policy!Next, Policy!TakeBack
    <3>3. CASE UNCHANGED <<cur, ctl, from>>
      BY <3>1, <3>3 DEF Policy!vars
    <3>4. CASE cur' = cur /\ from' = 0 /\ (ctl' = ctl \/ (ctl' = "stopped" /\ from > 0))
      BY <3>1, <3>4, <2>0 DEF Policy!Next, Policy!Keep, Policy!vars
    <3>5. CASE cur' \in (cur + 1) .. MaxConnections /\ cur' <= 2 * cur /\ from' = cur /\ ctl' = "apply"
      BY <3>1, <3>5, <2>0 DEF Policy!Next, Policy!Grow
    <3> QED BY <3>1, <3>2, <3>3, <3>4, <3>5
  <2>5. CASE Apply
    <3>1. ctl = "apply" /\ ctl' = (IF from = 0 THEN "stopped" ELSE "observe") /\ UNCHANGED <<round, cur, from>>
      BY <2>5 DEF Apply, AfterChange, transfer
    <3> QED BY <3>1, <2>0 DEF Policy!vars
  <2>6. CASE Succeed \/ Fail
    <3>1. round <= Len(Sizes) /\ Report
      BY <2>6, <2>0 DEF Succeed, Fail
    <3>2. round' = Len(Sizes) + 1 /\ ctl' = "stopped" /\ from' = 0 /\ cur' = 1
      BY <3>1 DEF Report
    <3>3. Policy!NextDeployment
      BY <2>0, <3>1, <3>2 DEF Policy!NextDeployment, Policy!Fresh
    <3> QED BY <3>3 DEF Policy!Next
  <2>7. CASE UNCHANGED vars
    BY <2>7 DEF vars, transfer, controller, Policy!vars
  <2> QED BY <1>2, <2>1, <2>2, <2>3, <2>4, <2>5, <2>6, <2>7 DEF Next
<1> QED BY <1>1, <1>2, InvHolds, PTL DEF Spec, FollowsPolicy, Policy!Spec
=============================================================================
