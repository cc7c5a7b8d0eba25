---------------------------- MODULE CacheRecords ----------------------------
(***************************************************************************)
(* The document of the tuning cache and the rules its records live by      *)
(* (internal/autocache/autocache.go): what a run may reuse, and what it    *)
(* leaves behind.  A store is the sequence of its records, most recently   *)
(* used first.  A workload is reduced to its size, which stands for the    *)
(* features of similar: each of them is judged by withinBand.              *)
(***************************************************************************)
EXTENDS Naturals, Sequences

CONSTANTS
    Targets,         \* fingerprints of host, port, user and jump host
    Works,           \* sizes of a run's plan
    Rtts,            \* round-trip times; 0 was not measured
    Settings,        \* what a run ran with, recorded for the reader
    Ceilings,        \* connection ceilings a run can find for itself
    MaxRecords, MaxAge, MaxReuse, MaxCeilingCarry

ASSUME CacheAssumption ==
    /\ Targets # {} /\ Works # {} /\ Rtts # {} /\ Settings # {}
    /\ Works \subseteq Nat /\ Rtts \subseteq Nat /\ Ceilings \subseteq Nat \ {0}
    /\ MaxRecords \in Nat \ {0}
    /\ MaxAge \in Nat /\ MaxReuse \in Nat /\ MaxCeilingCarry \in Nat

\* autotune.PolicyVersion, and the generation of an older easySFTP.
PolicyVersion == 2
Policies == {1, PolicyVersion}

\* Record: stream says whether the anchor carries a throughput.
RecordType == [target: Targets, policy: Policies, measuredAt: Nat, reused: Nat,
               work: Works, rtt: Rtts, stream: BOOLEAN, settings: Settings,
               ceiling: Ceilings \cup {0}, carried: Nat]

\* Observation: what a finished run has to say about its server.
ObservationType == [target: Targets, work: Works, rtt: Rtts, settings: Settings,
                    measured: BOOLEAN, reused: BOOLEAN,
                    ceiling: Ceilings \cup {0}, untested: BOOLEAN]

\* withinBand with the band of the file count, the byte total and the RTT.
WithinBand(a, b) == a = b \/ (a > 0 /\ b > 0 /\ a <= 2 * b /\ b <= 2 * a)

\* find: the first record of a target, or nothing.
Find(recs, t) ==
    LET hits == {i \in DOMAIN recs : recs[i].target = t}
    IN  IF hits = {} THEN <<>> ELSE <<recs[CHOOSE i \in hits : \A j \in hits : i <= j]>>

\* The gates of Lookup that do not depend on the run being planned.
StillTrusted(r, at) ==
    /\ r.policy = PolicyVersion
    /\ at <= r.measuredAt + MaxAge
    /\ r.reused < MaxReuse

\* Lookup: the candidates (none or one) that survive the gates a run can check
\* before it has a connection.
Lookup(recs, t, work, at) ==
    LET found == Find(recs, t)
    IN  IF found # <<>> /\ StillTrusted(found[1], at) /\ WithinBand(work, found[1].work)
        THEN found ELSE <<>>

\* Validate: the record against the round-trip time the run has just measured.
Validate(r, rtt) == rtt > 0 /\ r.rtt > 0 /\ WithinBand(rtt, r.rtt)

-----------------------------------------------------------------------------
(* Update: one finished run folded into the store. *)

FreshRecord(obs, at) ==
    [target |-> obs.target, policy |-> PolicyVersion, measuredAt |-> at, reused |-> 0,
     work |-> obs.work, rtt |-> obs.rtt, stream |-> obs.measured,
     settings |-> obs.settings, ceiling |-> 0, carried |-> 0]

\* Mutant: the reuse count is not carried with the anchor (issue #225).
AnchorUncounted(old, obs, at) ==
    IF ~obs.measured /\ StillTrusted(old, at)
    THEN [FreshRecord(obs, at) EXCEPT !.measuredAt = old.measuredAt, !.work = old.work,
            !.rtt = old.rtt, !.stream = old.stream]
    ELSE FreshRecord(obs, at)
\* A standing anchor is replaced only by a new measurement.
Anchor(old, obs, at) ==
    IF ~obs.measured /\ StillTrusted(old, at)
    THEN [FreshRecord(obs, at) EXCEPT !.measuredAt = old.measuredAt, !.work = old.work,
            !.rtt = old.rtt, !.stream = old.stream,
            !.reused = old.reused + (IF obs.reused THEN 1 ELSE 0)]
    ELSE FreshRecord(obs, at)

\* Mutant: an untested ceiling is carried without being counted.
CarryCeilingUncounted(rec, old, obs) ==
    IF obs.ceiling > 0 THEN [rec EXCEPT !.ceiling = obs.ceiling]
    ELSE IF obs.untested /\ old.ceiling > 0 /\ old.carried < MaxCeilingCarry
    THEN [rec EXCEPT !.ceiling = old.ceiling, !.carried = old.carried]
    ELSE rec
\* The ceiling has a life of its own.
CarryCeiling(rec, old, obs) ==
    IF obs.ceiling > 0 THEN [rec EXCEPT !.ceiling = obs.ceiling]
    ELSE IF obs.untested /\ old.ceiling > 0 /\ old.carried < MaxCeilingCarry
    THEN [rec EXCEPT !.ceiling = old.ceiling, !.carried = old.carried + 1]
    ELSE rec

\* The record a run leaves for its target: found is none or one record.
NewRecord(found, obs, at) ==
    IF found = <<>>
    THEN [FreshRecord(obs, at) EXCEPT !.ceiling = obs.ceiling]
    ELSE CarryCeiling(Anchor(found[1], obs, at), found[1], obs)

\* The records of every other target, in their order.
Others(recs, t) ==
    LET kept[i \in 0 .. Len(recs)] ==
            IF i = 0 THEN <<>>
            ELSE IF recs[i].target = t THEN kept[i - 1]
            ELSE Append(kept[i - 1], recs[i])
    IN  kept[Len(recs)]

\* Mutant: the tail is never dropped.
PutUnbounded(recs, rec) == <<rec>> \o Others(recs, rec.target)
\* put: to the front, the tail past MaxRecords dropped.
Put(recs, rec) ==
    LET kept == <<rec>> \o Others(recs, rec.target)
    IN  IF Len(kept) > MaxRecords THEN SubSeq(kept, 1, MaxRecords) ELSE kept

\* A run that learned nothing leaves the store, and the file, alone.
Update(recs, obs, at) ==
    LET found == Find(recs, obs.target)
        rec == NewRecord(found, obs, at)
    IN  IF found = <<rec>> THEN recs ELSE Put(recs, rec)
=============================================================================
