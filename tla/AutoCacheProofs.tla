-------------------------- MODULE AutoCacheProofs --------------------------
(***************************************************************************)
(* The tuning cache, for every set of jobs, servers, sizes and outcomes,   *)
(* with kills, failing reads and failing writes: types, and what the       *)
(* write-backs keep true of the records until a job that saw a stale lock  *)
(* removes the lock of a job at work instead (stolen).  That happens: two  *)
(* jobs see the lock of a killed run, and the slower one removes the lock  *)
(* the faster has taken since.                                             *)
(***************************************************************************)
EXTENDS AutoCache, SequenceTheorems, WellFoundedInduction, TLAPS

\* Types; a store on its way to the file has room in it, and no observation is from
\* the future.
Typed ==
    /\ TypeOK
    /\ \A p \in Procs : Len(store[p]) <= MaxRecords /\ at[p] <= now

\* The lock belongs to the job that acts under it, and ages only when it was left.
Exclusive ==
    /\ stolen \/ \A p \in Procs : pc[p] \in Holding => lock = p
    /\ stale => lock = Left

\* What is about to be written is one merge into what the file holds now, or into the
\* empty store when the file could not be read.
Fresh ==
    \A p \in Procs : pc[p] = "save" =>
        \E L \in {LoadedRecords, <<>>} : store[p] = Update(L, obs[p], at[p]) /\ store[p] # L

\* A record counts at least the runs that leaned on it.
Counted(r) ==
    /\ r.policy = PolicyVersion =>
        /\ r.reused <= MaxReuse
        /\ r.stream => <<r.work, r.rtt>> = origin[r.target] /\ leans[r.target] <= r.reused
    /\ r.ceiling > 0 => idle[r.target] <= r.carried /\ r.carried <= MaxCeilingCarry

RecordsCounted == \A i \in DOMAIN LoadedRecords : Counted(LoadedRecords[i])

Inv == Typed /\ Exclusive /\ (stolen \/ (Fresh /\ RecordsCounted))

-----------------------------------------------------------------------------
(* Sets of numbers, and the records of a store. *)

\* A set with 0 and every successor of its numbers has every number.
LEMMA SetInduction ==
    ASSUME NEW T, 0 \in T, \A n \in Nat : n \in T => n + 1 \in T
    PROVE  Nat \subseteq T
<1> SUFFICES ASSUME Nat \ T # {} PROVE FALSE
  OBVIOUS
<1>1. IsWellFoundedOn(OpToRel(<, Nat), Nat)
  BY NatLessThanWellFounded
<1>2. PICK m \in Nat \ T : \A k \in Nat \ T : ~ (<<k, m>> \in OpToRel(<, Nat))
  BY <1>1, WFMin
<1>3. \A k \in Nat \ T : ~ (k < m)
  BY <1>2 DEF OpToRel
<1>4. m \in Nat /\ m # 0
  OBVIOUS
<1>5. m - 1 \in Nat /\ m - 1 < m /\ (m - 1) + 1 = m
  BY <1>4
<1>6. m - 1 \in T
  BY <1>3, <1>5
<1>7. m \in T
  BY <1>5, <1>6
<1> QED BY <1>7

\* A set of numbers has a least one.
LEMMA LeastOf ==
    ASSUME NEW H, H \subseteq Nat, H # {}
    PROVE  \E i \in H : \A j \in H : i <= j
<1>1. IsWellFoundedOn(OpToRel(<, Nat), Nat)
  BY NatLessThanWellFounded
<1>2. PICK m \in H : \A k \in H : ~ (<<k, m>> \in OpToRel(<, Nat))
  BY <1>1, WFMin
<1>3. \A k \in H : ~ (k < m)
  BY <1>2 DEF OpToRel
<1>4. \A k \in H : k \in Nat
  OBVIOUS
<1>5. \A k \in H : m <= k
  BY <1>3, <1>4
<1> QED BY <1>5

\* find answers with nothing, or with a record of the store that has the target.
LEMMA FindFacts ==
    ASSUME NEW recs \in Seq(RecordType), NEW t
    PROVE  \/ Find(recs, t) = <<>>
           \/ \E i \in DOMAIN recs : Find(recs, t) = <<recs[i]>> /\ recs[i].target = t
<1> DEFINE hits == {i \in DOMAIN recs : recs[i].target = t}
           first == CHOOSE i \in hits : \A j \in hits : i <= j
<1>1. Find(recs, t) = IF hits = {} THEN <<>> ELSE <<recs[first]>>
  BY DEF Find
<1>2. ASSUME hits # {} PROVE first \in hits
  <2>1. hits \subseteq Nat
    OBVIOUS
  <2> HIDE DEF hits
  <2>2. \E i \in hits : \A j \in hits : i <= j
    BY <1>2, <2>1, LeastOf
  <2> QED BY <2>2
<1> QED BY <1>1, <1>2

\* The loop of put keeps records of the store, and none of the target.
LEMMA OthersFacts ==
    ASSUME NEW recs \in Seq(RecordType), NEW t
    PROVE  /\ Others(recs, t) \in Seq(RecordType)
           /\ \A i \in DOMAIN Others(recs, t) :
                \E j \in DOMAIN recs : Others(recs, t)[i] = recs[j] /\ recs[j].target # t
<1> DEFINE n == Len(recs)
           Keep(g, i) == IF i = 0 THEN <<>>
                         ELSE IF recs[i].target = t THEN g[i - 1]
                         ELSE Append(g[i - 1], recs[i])
           kept == CHOOSE g : g = [i \in 0 .. n |-> Keep(g, i)]
           Good(s) == /\ s \in Seq(RecordType)
                      /\ \A i \in DOMAIN s :
                            \E j \in DOMAIN recs : s[i] = recs[j] /\ recs[j].target # t
<1>1. Others(recs, t) = kept[n]
  BY DEF Others
<1>2. n \in Nat /\ DOMAIN recs = 1 .. n /\ \A i \in 1 .. n : recs[i] \in RecordType
  OBVIOUS
<1>3. \A m \in 0 .. n : \E g : g = [i \in 0 .. m |-> Keep(g, i)]
  <2> DEFINE T == {m \in Nat : m <= n => \E g : g = [i \in 0 .. m |-> Keep(g, i)]}
  <2>1. 0 \in T
    <3> DEFINE g == [i \in 0 .. 0 |-> <<>>]
    <3>1. \A i \in 0 .. 0 : Keep(g, i) = <<>>
      OBVIOUS
    <3> HIDE DEF Keep
    <3>2. g = [i \in 0 .. 0 |-> Keep(g, i)]
      BY <3>1
    <3> HIDE DEF g
    <3> QED BY <3>2
  <2>2. ASSUME NEW m \in Nat, m \in T PROVE m + 1 \in T
    <3> SUFFICES ASSUME m + 1 <= n
                 PROVE  \E g : g = [i \in 0 .. (m + 1) |-> Keep(g, i)]
      <4> HIDE DEF Keep, n
      <4> QED OBVIOUS
    <3>1. PICK h : h = [i \in 0 .. m |-> Keep(h, i)]
      BY <1>2, <2>2
    <3> DEFINE g == [i \in 0 .. (m + 1) |-> IF i <= m THEN h[i] ELSE Keep(h, m + 1)]
    <3>2. \A i \in 0 .. m : g[i] = h[i] /\ h[i] = Keep(h, i)
      <4>1. \A i \in 0 .. m : h[i] = Keep(h, i)
        BY <3>1
      <4> HIDE DEF Keep
      <4> QED BY <4>1
    <3>3. \A i \in 0 .. (m + 1) : g[i] = Keep(g, i)
      <4> SUFFICES ASSUME NEW i \in 0 .. (m + 1) PROVE g[i] = Keep(g, i)
        OBVIOUS
      <4>1. i # 0 => i - 1 \in 0 .. m
        OBVIOUS
      <4>2. i # 0 => g[i - 1] = h[i - 1]
        BY <3>2, <4>1
      <4>3. Keep(g, i) = Keep(h, i)
        <5> HIDE DEF g
        <5> QED BY <4>2
      <4>4. g[i] = Keep(h, i)
        <5>1. CASE i <= m
          <6>1. i \in 0 .. m
            BY <5>1
          <6> HIDE DEF Keep, g
          <6> QED BY <3>2, <6>1
        <5>2. CASE ~ (i <= m)
          <6>1. i = m + 1
            BY <5>2
          <6> HIDE DEF Keep
          <6> QED BY <5>2, <6>1
        <5> QED BY <5>1, <5>2
      <4> HIDE DEF Keep, g
      <4> QED BY <4>3, <4>4
    <3>4. g = [i \in 0 .. (m + 1) |-> Keep(g, i)]
      <4> HIDE DEF Keep
      <4> QED BY <3>3
    <3> HIDE DEF g, Keep
    <3> QED BY <3>4
  <2> HIDE DEF T
  <2>3. Nat \subseteq T
    BY <2>1, <2>2, SetInduction
  <2> USE DEF T
  <2> HIDE DEF Keep
  <2> QED BY <1>2, <2>3
<1>4. kept = [i \in 0 .. n |-> Keep(kept, i)]
  <2>1. \E g : g = [i \in 0 .. n |-> Keep(g, i)]
    BY <1>2, <1>3
  <2> HIDE DEF Keep
  <2> QED BY <2>1
<1> HIDE DEF kept
<1>5. \A m \in 0 .. n : Good(kept[m])
  <2> DEFINE T == {m \in Nat : m <= n => Good(kept[m])}
  <2>1. 0 \in T
    <3>1. kept[0] = <<>>
      BY <1>2, <1>4
    <3>2. Good(<<>>)
      OBVIOUS
    <3> HIDE DEF Good
    <3> QED BY <3>1, <3>2
  <2>2. ASSUME NEW m \in Nat, m \in T PROVE m + 1 \in T
    <3> SUFFICES ASSUME m + 1 <= n PROVE Good(kept[m + 1])
      OBVIOUS
    <3>1. Good(kept[m])
      BY <1>2, <2>2
    <3>2. kept[m + 1] = IF recs[m + 1].target = t THEN kept[m] ELSE Append(kept[m], recs[m + 1])
      <4>1. m + 1 \in 0 .. n /\ m + 1 # 0 /\ (m + 1) - 1 = m
        BY <1>2
      <4> QED BY <1>4, <4>1
    <3>3. m + 1 \in DOMAIN recs /\ recs[m + 1] \in RecordType
      BY <1>2
    <3>4. CASE recs[m + 1].target = t
      BY <3>1, <3>2, <3>4
    <3>5. CASE recs[m + 1].target # t
      <4> DEFINE s == kept[m]
                 r == recs[m + 1]
      <4>1. s \in Seq(RecordType) /\ Append(s, r) \in Seq(RecordType) /\ kept[m + 1] = Append(s, r)
        BY <3>1, <3>2, <3>3, <3>5
      <4>2. ASSUME NEW i \in DOMAIN Append(s, r)
            PROVE  \E j \in DOMAIN recs : Append(s, r)[i] = recs[j] /\ recs[j].target # t
        <5>1. i \in 1 .. (Len(s) + 1) /\ Len(s) \in Nat
          BY <4>1, <4>2
        <5>2. CASE i = Len(s) + 1
          BY <3>3, <3>5, <4>1, <5>2
        <5>3. CASE i # Len(s) + 1
          <6>1. i \in DOMAIN s /\ Append(s, r)[i] = s[i]
            BY <4>1, <5>1, <5>3
          <6> QED BY <3>1, <6>1
        <5> QED BY <5>2, <5>3
      <4> QED BY <4>1, <4>2
    <3> QED BY <3>4, <3>5
  <2> HIDE DEF T
  <2>3. Nat \subseteq T
    BY <2>1, <2>2, SetInduction
  <2> USE DEF T
  <2> HIDE DEF Good
  <2> QED BY <1>2, <2>3
<1>6. n \in 0 .. n
  BY <1>2
<1> HIDE DEF n
<1> QED BY <1>1, <1>5, <1>6

\* A record that find answers with is one of the store's.
Found(recs, t, old) == \E i \in DOMAIN recs : recs[i] = old /\ old.target = t

\* What a run leaves for its target: its own measurement, or the one that stands with
\* the reuse counted; and a ceiling it met, or the one it was held at counted once more.
LEMMA NewRecordFacts ==
    ASSUME NEW recs \in Seq(RecordType), NEW o \in ObservationType, NEW d \in Nat,
           NEW rec, rec = NewRecord(Find(recs, o.target), o, d)
    PROVE  /\ rec \in RecordType /\ rec.target = o.target /\ rec.policy = PolicyVersion
           /\ \/ /\ rec.stream = o.measured /\ rec.work = o.work /\ rec.rtt = o.rtt /\ rec.reused = 0
              \/ /\ ~o.measured
                 /\ \E old \in RecordType :
                      /\ Found(recs, o.target, old) /\ StillTrusted(old, d)
                      /\ rec.stream = old.stream /\ rec.work = old.work /\ rec.rtt = old.rtt
                      /\ rec.reused = old.reused + (IF o.reused THEN 1 ELSE 0)
           /\ \/ rec.ceiling = o.ceiling /\ rec.carried = 0
              \/ rec.ceiling = 0
              \/ /\ o.ceiling = 0
                 /\ \E old \in RecordType :
                      /\ Found(recs, o.target, old)
                      /\ old.ceiling > 0 /\ old.carried < MaxCeilingCarry
                      /\ rec.ceiling = old.ceiling /\ rec.carried = old.carried + 1
<1> DEFINE found == Find(recs, o.target)
           fresh == FreshRecord(o, d)
<1>1. /\ o.target \in Targets /\ o.work \in Works /\ o.rtt \in Rtts /\ o.settings \in Settings
      /\ o.measured \in BOOLEAN /\ o.reused \in BOOLEAN /\ o.ceiling \in Ceilings \cup {0}
  BY DEF ObservationType
<1>5. o.ceiling \in Nat
  <2>1. Ceilings \cup {0} \subseteq Nat
    BY CacheAssumption
  <2>2. o.ceiling \in Ceilings \cup {0}
    BY <1>1
  <2> HIDE DEF found, fresh
  <2> QED BY <2>1, <2>2
<1>2. /\ fresh \in RecordType /\ fresh.target = o.target /\ fresh.policy = PolicyVersion
      /\ fresh.stream = o.measured /\ fresh.work = o.work /\ fresh.rtt = o.rtt /\ fresh.reused = 0
      /\ fresh.ceiling = 0 /\ fresh.carried = 0
  BY <1>1 DEF FreshRecord, RecordType, Policies, PolicyVersion
<1> HIDE DEF fresh
<1>3. CASE found = <<>>
  <2>1. rec = [fresh EXCEPT !.ceiling = o.ceiling]
    BY <1>3 DEF NewRecord, fresh
  <2> QED BY <1>1, <1>2, <2>1 DEF RecordType
<1>4. CASE found # <<>>
  <2>1. PICK old \in RecordType : found = <<old>> /\ Found(recs, o.target, old)
    BY <1>4, FindFacts DEF Found
  <2> DEFINE anchor == Anchor(old, o, d)
  <2>2. rec = CarryCeiling(anchor, old, o)
    BY <1>4, <2>1 DEF NewRecord
  <2>3. /\ old.reused \in Nat /\ old.measuredAt \in Nat /\ old.work \in Works /\ old.rtt \in Rtts
        /\ old.stream \in BOOLEAN /\ old.ceiling \in Ceilings \cup {0} /\ old.carried \in Nat
    BY DEF RecordType
  <2>4. /\ anchor \in RecordType /\ anchor.target = o.target /\ anchor.policy = PolicyVersion
        /\ anchor.ceiling = 0 /\ anchor.carried = 0
        /\ \/ anchor.stream = o.measured /\ anchor.work = o.work /\ anchor.rtt = o.rtt /\ anchor.reused = 0
           \/ /\ ~o.measured /\ StillTrusted(old, d)
              /\ anchor.stream = old.stream /\ anchor.work = old.work /\ anchor.rtt = old.rtt
              /\ anchor.reused = old.reused + (IF o.reused THEN 1 ELSE 0)
    <3>1. CASE ~o.measured /\ StillTrusted(old, d)
      <4> DEFINE count == old.reused + (IF o.reused THEN 1 ELSE 0)
      <4>1. count \in Nat
        BY <2>3
      <4> HIDE DEF count
      <4>2. anchor = [fresh EXCEPT !.measuredAt = old.measuredAt, !.work = old.work,
                        !.rtt = old.rtt, !.stream = old.stream, !.reused = count]
        BY <3>1 DEF Anchor, fresh, count
      <4> HIDE DEF anchor
      <4>3. anchor \in RecordType
        BY <1>2, <2>3, <4>1, <4>2 DEF RecordType
      <4>4. /\ anchor.target = o.target /\ anchor.policy = PolicyVersion
            /\ anchor.ceiling = 0 /\ anchor.carried = 0
            /\ anchor.stream = old.stream /\ anchor.work = old.work /\ anchor.rtt = old.rtt
            /\ anchor.reused = count
        BY <1>2, <4>2 DEF RecordType
      <4> QED BY <3>1, <4>3, <4>4 DEF count
    <3>2. CASE ~ (~o.measured /\ StillTrusted(old, d))
      <4>1. anchor = fresh
        BY <3>2 DEF Anchor, fresh
      <4> HIDE DEF anchor
      <4> QED BY <1>2, <4>1
    <3> QED BY <3>1, <3>2
  <2> HIDE DEF anchor
  <2>5. /\ rec \in RecordType
        /\ rec.target = anchor.target /\ rec.policy = anchor.policy /\ rec.stream = anchor.stream
        /\ rec.work = anchor.work /\ rec.rtt = anchor.rtt /\ rec.reused = anchor.reused
        /\ \/ rec.ceiling = o.ceiling /\ rec.carried = 0
           \/ rec.ceiling = 0
           \/ /\ o.ceiling = 0 /\ old.ceiling > 0 /\ old.carried < MaxCeilingCarry
              /\ rec.ceiling = old.ceiling /\ rec.carried = old.carried + 1
    <3>1. CASE o.ceiling > 0
      <4>1. rec = [anchor EXCEPT !.ceiling = o.ceiling]
        BY <2>2, <3>1 DEF CarryCeiling
      <4> QED BY <1>1, <2>4, <4>1 DEF RecordType
    <3>2. CASE ~(o.ceiling > 0) /\ o.untested /\ old.ceiling > 0 /\ old.carried < MaxCeilingCarry
      <4>1. rec = [anchor EXCEPT !.ceiling = old.ceiling, !.carried = old.carried + 1]
        BY <2>2, <3>2 DEF CarryCeiling
      <4>2. o.ceiling = 0
        BY <1>5, <3>2
      <4>3. rec \in RecordType
        <5>1. old.carried + 1 \in Nat
          BY <2>3
        <5> QED BY <2>3, <2>4, <4>1, <5>1 DEF RecordType
      <4>4. /\ rec.target = anchor.target /\ rec.policy = anchor.policy /\ rec.stream = anchor.stream
            /\ rec.work = anchor.work /\ rec.rtt = anchor.rtt /\ rec.reused = anchor.reused
            /\ rec.ceiling = old.ceiling /\ rec.carried = old.carried + 1
        BY <2>4, <4>1 DEF RecordType
      <4> QED BY <3>2, <4>2, <4>3, <4>4
    <3>3. CASE ~(o.ceiling > 0) /\ ~(o.untested /\ old.ceiling > 0 /\ old.carried < MaxCeilingCarry)
      <4>1. rec = anchor
        BY <2>2, <3>3 DEF CarryCeiling
      <4> QED BY <2>4, <4>1
    <3> QED BY <3>1, <3>2, <3>3
  <2> QED BY <2>1, <2>4, <2>5
<1> QED BY <1>3, <1>4

LEMMA NewRecordIsOne ==
    ASSUME NEW recs \in Seq(RecordType), NEW o \in ObservationType, NEW d \in Nat
    PROVE  /\ NewRecord(Find(recs, o.target), o, d) \in RecordType
           /\ NewRecord(Find(recs, o.target), o, d).target = o.target
           /\ NewRecord(Find(recs, o.target), o, d).policy = PolicyVersion
<1>1. PICK rec : rec = NewRecord(Find(recs, o.target), o, d)
  OBVIOUS
<1>2. rec \in RecordType /\ rec.target = o.target /\ rec.policy = PolicyVersion
  BY <1>1, NewRecordFacts
<1> QED BY <1>1, <1>2

\* A store after one merge: typed, no larger than it may be, and made of the run's
\* record and of records of other targets that were there before.
LEMMA UpdateFacts ==
    ASSUME NEW recs \in Seq(RecordType), Len(recs) <= MaxRecords,
           NEW o \in ObservationType, NEW d \in Nat
    PROVE  /\ Update(recs, o, d) \in Seq(RecordType) /\ Len(Update(recs, o, d)) <= MaxRecords
           /\ Update(recs, o, d) # recs =>
                \A i \in DOMAIN Update(recs, o, d) :
                    \/ Update(recs, o, d)[i] = NewRecord(Find(recs, o.target), o, d)
                    \/ \E j \in DOMAIN recs :
                         Update(recs, o, d)[i] = recs[j] /\ recs[j].target # o.target
<1> DEFINE rec == NewRecord(Find(recs, o.target), o, d)
           others == Others(recs, rec.target)
           kept == <<rec>> \o others
           put == IF Len(kept) > MaxRecords THEN SubSeq(kept, 1, MaxRecords) ELSE kept
<1>1. Update(recs, o, d) = IF Find(recs, o.target) = <<rec>> THEN recs ELSE put
  BY DEF Update, Put
<1>2. rec \in RecordType /\ rec.target = o.target
  BY NewRecordFacts
<1>3. /\ others \in Seq(RecordType)
      /\ \A i \in DOMAIN others : \E j \in DOMAIN recs : others[i] = recs[j] /\ recs[j].target # o.target
  BY <1>2, OthersFacts
<1>4. MaxRecords \in Nat /\ MaxRecords >= 1
  BY CacheAssumption
<1> HIDE DEF rec, others
<1>5. /\ kept \in Seq(RecordType) /\ Len(kept) = Len(others) + 1 /\ kept[1] = rec
      /\ \A i \in 2 .. Len(kept) : i - 1 \in DOMAIN others /\ kept[i] = others[i - 1]
  <2>1. <<rec>> \in Seq(RecordType) /\ Len(<<rec>>) = 1 /\ <<rec>>[1] = rec
    BY <1>2
  <2> QED BY <1>3, <2>1
<1> HIDE DEF kept
<1>6. /\ put \in Seq(RecordType) /\ Len(put) <= MaxRecords
      /\ \A i \in DOMAIN put : i \in 1 .. Len(kept) /\ put[i] = kept[i]
  <2>1. CASE Len(kept) > MaxRecords
    <3>1. put = SubSeq(kept, 1, MaxRecords)
      BY <2>1
    <3>2. /\ put \in Seq(RecordType) /\ Len(put) = MaxRecords
          /\ \A i \in 1 .. MaxRecords : put[i] = kept[i]
      BY <1>4, <1>5, <2>1, <3>1, SubSeqProperties
    <3> HIDE DEF put
    <3> QED BY <1>4, <1>5, <2>1, <3>2
  <2>2. CASE ~ (Len(kept) > MaxRecords)
    <3>1. put = kept
      BY <2>2
    <3> HIDE DEF put
    <3> QED BY <1>4, <1>5, <2>2, <3>1
  <2> QED BY <2>1, <2>2
<1> HIDE DEF put
<1>7. \A i \in DOMAIN put :
         \/ put[i] = rec
         \/ \E j \in DOMAIN recs : put[i] = recs[j] /\ recs[j].target # o.target
  <2> SUFFICES ASSUME NEW i \in DOMAIN put
               PROVE  \/ put[i] = rec
                      \/ \E j \in DOMAIN recs : put[i] = recs[j] /\ recs[j].target # o.target
    OBVIOUS
  <2>1. i \in 1 .. Len(kept) /\ put[i] = kept[i]
    BY <1>6
  <2>2. CASE i = 1
    BY <1>5, <2>1, <2>2
  <2>3. CASE i # 1
    <3>1. i \in 2 .. Len(kept)
      BY <1>5, <2>1, <2>3
    <3> QED BY <1>3, <1>5, <2>1, <3>1
  <2> QED BY <2>2, <2>3
<1>8. CASE Find(recs, o.target) = <<rec>>
  BY <1>1, <1>8
<1>9. CASE Find(recs, o.target) # <<rec>>
  <2>1. Update(recs, o, d) = put
    BY <1>1, <1>9
  <2> QED BY <2>1, <1>6, <1>7 DEF rec
<1> QED BY <1>8, <1>9

-----------------------------------------------------------------------------
(* Types. *)

\* There is an observation, and an old record for every target.
LEMMA Observations ==
    /\ NoObs \in ObservationType
    /\ \A t \in Targets :
         OldRecord(t) \in RecordType /\ OldRecord(t).policy = 1 /\ OldRecord(t).ceiling = 0
<1>1. ObservationType # {}
  <2>1. PICK t \in Targets, w \in Works, r \in Rtts, s \in Settings : TRUE
    BY CacheAssumption
  <2>2. [target |-> t, work |-> w, rtt |-> r, settings |-> s, measured |-> FALSE,
          reused |-> FALSE, ceiling |-> 0, untested |-> FALSE] \in ObservationType
    BY DEF ObservationType
  <2> QED BY <2>2
<1>2. NoObs \in ObservationType
  BY <1>1 DEF NoObs
<1>3. ASSUME NEW t \in Targets
      PROVE  OldRecord(t) \in RecordType /\ OldRecord(t).policy = 1 /\ OldRecord(t).ceiling = 0
  <2> DEFINE o == [NoObs EXCEPT !.target = t, !.measured = TRUE]
             r == FreshRecord(o, 0)
  <2>1. o \in ObservationType
    BY <1>2 DEF ObservationType
  <2> HIDE DEF o
  <2>2. r \in RecordType /\ r.ceiling = 0
    BY <2>1 DEF FreshRecord, ObservationType, RecordType, Policies, PolicyVersion
  <2>3. OldRecord(t) = [r EXCEPT !.policy = 1]
    BY DEF OldRecord, o
  <2> HIDE DEF r
  <2> QED BY <2>2, <2>3 DEF RecordType, Policies
<1> QED BY <1>2, <1>3

\* What Load returns is a store.
LEMMA LoadedFacts ==
    ASSUME TypeOK
    PROVE  LoadedRecords \in Seq(RecordType) /\ Len(LoadedRecords) <= MaxRecords
BY CacheAssumption DEF TypeOK, LoadedRecords

\* What a run reads is what Load returns, or an empty store: a store either way.
LEMMA ReadFacts ==
    ASSUME TypeOK
    PROVE  /\ Readable \subseteq {LoadedRecords, <<>>}
           /\ \A L \in {LoadedRecords, <<>>} : L \in Seq(RecordType) /\ Len(L) <= MaxRecords
<1>1. Readable \subseteq {LoadedRecords, <<>>}
  BY DEF Readable
<1>2. LoadedRecords \in Seq(RecordType) /\ Len(LoadedRecords) <= MaxRecords
  BY LoadedFacts
<1>3. <<>> \in Seq(RecordType) /\ Len(<<>>) <= MaxRecords
  BY CacheAssumption
<1> QED BY <1>1, <1>2, <1>3, Zenon

\* What a run may reuse are records.
LEMMA LookupFacts ==
    ASSUME NEW recs \in Seq(RecordType), NEW t, NEW w, NEW d
    PROVE  Lookup(recs, t, w, d) \in Seq(RecordType)
<1>1. Find(recs, t) \in Seq(RecordType)
  <2>1. CASE Find(recs, t) = <<>>
    BY <2>1
  <2>2. CASE \E i \in DOMAIN recs : Find(recs, t) = <<recs[i]>>
    BY <2>2
  <2> QED BY <2>1, <2>2, FindFacts
<1>2. Lookup(recs, t, w, d) = Find(recs, t) \/ Lookup(recs, t, w, d) = <<>>
  BY DEF Lookup
<1>3. <<>> \in Seq(RecordType)
  OBVIOUS
<1> QED BY <1>1, <1>2, <1>3, Zenon

\* The types hold at the start.
LEMMA InitTyped == Init => Typed
<1> SUFFICES ASSUME Init PROVE Typed
  OBVIOUS
<1>1. file \in [usable: BOOLEAN, recs: Seq(RecordType)] /\ Len(file.recs) <= MaxRecords
  <2>1. CASE file = [usable |-> FALSE, recs |-> <<>>]
    BY <2>1, CacheAssumption
  <2>2. CASE \E t \in Targets : file = [usable |-> TRUE, recs |-> <<OldRecord(t)>>]
    <3>1. PICK t \in Targets : file = [usable |-> TRUE, recs |-> <<OldRecord(t)>>]
      BY <2>2
    <3>2. <<OldRecord(t)>> \in Seq(RecordType) /\ Len(<<OldRecord(t)>>) = 1
      BY Observations
    <3> QED BY <3>1, <3>2, CacheAssumption
  <2> QED BY <2>1, <2>2 DEF Init
<1>2. NoObs.work \in Works /\ NoObs.rtt \in Rtts
  BY Observations DEF ObservationType
<1>3. /\ obs \in [Procs -> ObservationType] /\ origin \in [Targets -> Works \X Rtts]
      /\ seen \in [Procs -> Seq(RecordType)] /\ store \in [Procs -> Seq(RecordType)]
  BY <1>2, Observations DEF Init
<1>4. pc \in [Procs -> PCs] /\ at \in [Procs -> 0 .. Horizon] /\ now \in 0 .. Horizon /\ runs \in 0 .. MaxRuns
  BY AutoCacheAssumption DEF Init, PCs
<1>5. TypeOK
  BY <1>1, <1>3, <1>4 DEF Init, TypeOK
<1>6. \A p \in Procs : Len(store[p]) <= MaxRecords /\ at[p] <= now
  BY CacheAssumption DEF Init
<1> QED BY <1>5, <1>6 DEF Typed

\* A job's locals, forgotten or not, are typed.
LEMMA ForgetTyped ==
    ASSUME Typed, NEW p \in Procs, Forget(p), now' = now
    PROVE  /\ seen' \in [Procs -> Seq(RecordType)] /\ obs' \in [Procs -> ObservationType]
           /\ at' \in [Procs -> 0 .. Horizon] /\ store' \in [Procs -> Seq(RecordType)]
           /\ \A q \in Procs : Len(store'[q]) <= MaxRecords /\ at'[q] <= now'
<1> USE DEF Typed, TypeOK
<1>1. seen' \in [Procs -> Seq(RecordType)] /\ store' \in [Procs -> Seq(RecordType)]
  BY DEF Forget
<1>2. obs' \in [Procs -> ObservationType]
  BY Observations DEF Forget
<1>3. at' \in [Procs -> 0 .. Horizon]
  BY AutoCacheAssumption DEF Forget
<1>4. ASSUME NEW q \in Procs
      PROVE  Len(store'[q]) <= MaxRecords /\ at'[q] <= now'
  <2>1. store'[q] = <<>> \/ store'[q] = store[q]
    BY DEF Forget
  <2>2. Len(store'[q]) <= MaxRecords
    BY <2>1, CacheAssumption
  <2>3. at'[q] = 0 \/ at'[q] = at[q]
    BY DEF Forget
  <2> QED BY <2>2, <2>3, AutoCacheAssumption
<1>5. \A q \in Procs : Len(store'[q]) <= MaxRecords /\ at'[q] <= now'
  BY <1>4
<1> QED BY <1>1, <1>2, <1>3, <1>5

\* The steps that leave the file, the day and the history alone.
LEMMA LocalTyped ==
    ASSUME Typed, NEW p \in Procs,
           \/ ConnectFails(p) \/ TryLock(p) \/ SeeStale(p) \/ Steal(p) \/ GiveUp(p)
           \/ LockFails(p) \/ SaveFails(p) \/ Unlock(p) \/ Kill(p)
    PROVE  Typed'
<1>1. pc' \in [Procs -> PCs]
  BY DEF Typed, TypeOK, ConnectFails, TryLock, SeeStale, Steal, GiveUp, LockFails, SaveFails,
         Unlock, Kill, Goto, Return, PCs, Holding
<1>2. UNCHANGED <<file, now, runs, past>>
  BY DEF ConnectFails, TryLock, SeeStale, Steal, GiveUp, LockFails, SaveFails, Unlock, Kill, run
<1>3. lock' \in Procs \cup {None, Left} /\ stale' \in BOOLEAN /\ stolen' \in BOOLEAN
  BY DEF Typed, TypeOK, ConnectFails, TryLock, SeeStale, Steal, GiveUp, LockFails, SaveFails, Unlock, Kill
<1>4. Forget(p) \/ UNCHANGED <<seen, obs, at, store>>
  BY DEF ConnectFails, TryLock, SeeStale, Steal, GiveUp, LockFails, SaveFails, Unlock, Kill, Return, run
<1>5. /\ seen' \in [Procs -> Seq(RecordType)] /\ obs' \in [Procs -> ObservationType]
      /\ at' \in [Procs -> 0 .. Horizon] /\ store' \in [Procs -> Seq(RecordType)]
      /\ \A q \in Procs : Len(store'[q]) <= MaxRecords /\ at'[q] <= now'
  <2>1. CASE Forget(p)
    BY <1>2, <2>1, ForgetTyped
  <2>2. CASE UNCHANGED <<seen, obs, at, store>>
    BY <1>2, <2>2 DEF Typed, TypeOK
  <2> QED BY <1>4, <2>1, <2>2
<1> QED BY <1>1, <1>2, <1>3, <1>5 DEF Typed, TypeOK, past

\* A run opens the cache: what it deploys is its observation, what it found a record.
LEMMA OpenTyped ==
    ASSUME Typed, NEW p \in Procs, Open(p)
    PROVE  Typed'
<1>1. PICK d \in Deploys[p], L \in Readable :
         /\ obs' = [obs EXCEPT ![p] = [NoObs EXCEPT !.target = d[1], !.work = d[2]]]
         /\ seen' = [seen EXCEPT ![p] = Lookup(L, d[1], d[2], now)]
  BY DEF Open
<1>2. d[1] \in Targets /\ d[2] \in Works
  BY AutoCacheAssumption
<1>3. obs' \in [Procs -> ObservationType]
  <2>1. [NoObs EXCEPT !.target = d[1], !.work = d[2]] \in ObservationType
    BY <1>2, Observations DEF ObservationType
  <2> QED BY <1>1, <2>1 DEF Typed, TypeOK
<1>4. seen' \in [Procs -> Seq(RecordType)]
  <2>1. L \in Seq(RecordType)
    BY ReadFacts DEF Typed
  <2> QED BY <1>1, <2>1, LookupFacts DEF Typed, TypeOK
<1>5. pc' \in [Procs -> PCs] /\ runs' \in 0 .. MaxRuns
  BY AutoCacheAssumption DEF Open, Goto, Typed, TypeOK, PCs
<1>6. UNCHANGED <<file, lock, stale, now, at, store, past, stolen>>
  BY DEF Open
<1> QED BY <1>3, <1>4, <1>5, <1>6 DEF Typed, TypeOK, past

\* The run is over: its observation is complete, and dated.
LEMMA DeployTyped ==
    ASSUME Typed, NEW p \in Procs, Deploy(p)
    PROVE  Typed'
<1> USE DEF Typed, TypeOK
<1>1. PICK o \in Outcomes, hit \in BOOLEAN, untested \in BOOLEAN :
         obs' = [obs EXCEPT ![p] = [@ EXCEPT !.rtt = o.rtt, !.settings = o.settings,
                    !.measured = o.measured, !.reused = hit, !.ceiling = o.ceiling,
                    !.untested = untested]]
  <2>1. PICK o \in Outcomes :
          LET hit == seen[p] # <<>> /\ Validate(seen[p][1], o.rtt)
              inherited == hit /\ seen[p][1].ceiling > 0
          IN  obs' = [obs EXCEPT ![p] = [@ EXCEPT !.rtt = o.rtt, !.settings = o.settings,
                        !.measured = o.measured, !.reused = hit, !.ceiling = o.ceiling,
                        !.untested = (o.ceiling = 0 /\ inherited)]]
    BY DEF Deploy
  <2> DEFINE hit == seen[p] # <<>> /\ Validate(seen[p][1], o.rtt)
             untested == o.ceiling = 0 /\ hit /\ seen[p][1].ceiling > 0
  <2>2. hit \in BOOLEAN /\ untested \in BOOLEAN
    BY DEF Validate
  <2>3. (o.ceiling = 0 /\ (hit /\ seen[p][1].ceiling > 0)) = untested
    OBVIOUS
  <2> QED BY <2>1, <2>2, <2>3
<1>2. o.rtt \in Rtts /\ o.settings \in Settings /\ o.measured \in BOOLEAN /\ o.ceiling \in Ceilings \cup {0}
  BY AutoCacheAssumption
<1>3. obs' \in [Procs -> ObservationType]
  <2> DEFINE new == [obs[p] EXCEPT !.rtt = o.rtt, !.settings = o.settings,
                        !.measured = o.measured, !.reused = hit, !.ceiling = o.ceiling,
                        !.untested = untested]
  <2>1. obs[p] \in ObservationType
    OBVIOUS
  <2>2. new \in ObservationType
    BY <1>2, <2>1 DEF ObservationType
  <2>3. obs' = [obs EXCEPT ![p] = new]
    BY <1>1
  <2> HIDE DEF new
  <2> QED BY <2>2, <2>3
<1>4. at' = [at EXCEPT ![p] = now] /\ seen' = [seen EXCEPT ![p] = <<>>]
      /\ UNCHANGED <<file, lock, stale, now, runs, store, past, stolen>>
  BY DEF Deploy
<1>5. pc' \in [Procs -> PCs]
  BY DEF Deploy, Goto, PCs
<1>6. /\ at' \in [Procs -> 0 .. Horizon] /\ \A q \in Procs : at'[q] <= now'
      /\ seen' \in [Procs -> Seq(RecordType)]
  BY <1>4, AutoCacheAssumption
<1> QED BY <1>3, <1>4, <1>5, <1>6 DEF past

\* The store that is about to be written is one.
LEMMA LoadTyped ==
    ASSUME Typed, NEW p \in Procs, LoadUpdate(p)
    PROVE  Typed'
<1> USE DEF Typed, TypeOK
<1>0. PICK L \in Readable : store' = [store EXCEPT ![p] = Update(L, obs[p], at[p])]
  BY DEF LoadUpdate
<1> DEFINE new == Update(L, obs[p], at[p])
<1>1. obs[p] \in ObservationType /\ at[p] \in Nat
  OBVIOUS
<1>2. new \in Seq(RecordType) /\ Len(new) <= MaxRecords
  BY <1>1, ReadFacts, UpdateFacts
<1>3. store' = [store EXCEPT ![p] = new]
      /\ UNCHANGED <<file, lock, stale, now, runs, seen, obs, at, past, stolen>>
  BY <1>0 DEF LoadUpdate
<1>4. pc' \in [Procs -> PCs]
  BY DEF LoadUpdate, Goto, PCs, Holding
<1> HIDE DEF new
<1>5. store' \in [Procs -> Seq(RecordType)] /\ \A q \in Procs : Len(store'[q]) <= MaxRecords
  BY <1>2, <1>3
<1> QED BY <1>3, <1>4, <1>5 DEF past

\* The rename puts it in place.
LEMMA RenameTyped ==
    ASSUME Typed, NEW p \in Procs, Rename(p)
    PROVE  Typed'
<1>1. /\ file' = [usable |-> TRUE, recs |-> store[p]]
      /\ Remember(obs[p]) /\ Forget(p) /\ UNCHANGED <<lock, stale, now, runs, stolen>>
  BY DEF Rename
<1>2. file' \in [usable: BOOLEAN, recs: Seq(RecordType)] /\ Len(file'.recs) <= MaxRecords
  BY <1>1 DEF Typed, TypeOK
<1>3. pc' \in [Procs -> PCs]
  BY DEF Rename, Goto, PCs, Holding, Typed, TypeOK
<1>4. obs[p] \in ObservationType
  BY DEF Typed, TypeOK
<1>5. /\ obs[p].target \in Targets /\ obs[p].work \in Works /\ obs[p].rtt \in Rtts
  BY <1>4 DEF ObservationType
<1>6. origin' \in [Targets -> Works \X Rtts]
  BY <1>1, <1>5 DEF Remember, Typed, TypeOK
<1>7. leans' \in [Targets -> Nat] /\ idle' \in [Targets -> Nat]
  <2> DEFINE t == obs[p].target
             lean == IF obs[p].measured THEN 0 ELSE IF obs[p].reused THEN leans[t] + 1 ELSE leans[t]
             wait == IF obs[p].ceiling > 0 THEN 0 ELSE idle[t] + 1
  <2>1. leans[t] \in Nat /\ idle[t] \in Nat
    BY <1>5 DEF Typed, TypeOK
  <2>2. lean \in Nat /\ wait \in Nat
    BY <2>1
  <2>3. leans' = [leans EXCEPT ![t] = lean] /\ idle' = [idle EXCEPT ![t] = wait]
    BY <1>1 DEF Remember
  <2> HIDE DEF lean, wait
  <2> QED BY <2>2, <2>3 DEF Typed, TypeOK
<1>8. /\ seen' \in [Procs -> Seq(RecordType)] /\ obs' \in [Procs -> ObservationType]
      /\ at' \in [Procs -> 0 .. Horizon] /\ store' \in [Procs -> Seq(RecordType)]
      /\ \A q \in Procs : Len(store'[q]) <= MaxRecords /\ at'[q] <= now'
  BY <1>1, ForgetTyped
<1> QED BY <1>1, <1>2, <1>3, <1>6, <1>7, <1>8 DEF Typed, TypeOK

\* Every step keeps the types, whatever happens to the lock.
LEMMA NextTyped ==
    ASSUME Typed, [Next]_vars
    PROVE  Typed'
<1>1. ASSUME NEW p \in Procs, Step(p) \/ Kill(p) PROVE Typed'
  BY <1>1, LocalTyped, OpenTyped, DeployTyped, LoadTyped, RenameTyped DEF Step, WriteBack
<1>2. CASE LockAges
  BY <1>2 DEF LockAges, run, past, Typed, TypeOK
<1>3. CASE Day
  BY <1>3, AutoCacheAssumption DEF Day, run, past, Typed, TypeOK
<1>4. CASE UNCHANGED vars
  BY <1>4 DEF vars, run, past, Typed, TypeOK
<1>5. CASE Ended
  BY <1>4, <1>5 DEF Ended
<1> QED BY <1>1, <1>2, <1>3, <1>4, <1>5 DEF Next

-----------------------------------------------------------------------------
(* One merge after the other. *)

\* A theft is never forgotten.
LEMMA NextStolen ==
    ASSUME stolen, [Next]_vars
    PROVE  stolen'
BY DEF Next, Step, WriteBack, Kill, Open, ConnectFails, Deploy, TryLock, SeeStale, Steal, GiveUp,
       LockFails, LoadUpdate, Rename, SaveFails, Unlock, LockAges, Day, Ended, vars

\* Whoever acts under the lock owns it, until one is stolen.
LEMMA NextExclusive ==
    ASSUME Typed, Exclusive, [Next]_vars
    PROVE  Exclusive'
<1> USE DEF Exclusive, Holding
<1>1. pc \in [Procs -> PCs] /\ None \notin Procs /\ Left \notin Procs /\ None # Left
  BY AutoCacheAssumption DEF Typed, TypeOK
<1>2. ASSUME NEW p \in Procs, Open(p) \/ ConnectFails(p) \/ Deploy(p) \/ GiveUp(p) \/ LockFails(p)
                                \/ SeeStale(p)
      PROVE  Exclusive'
  <2>1. \E l \in {"connect", "idle", "lock", "steal"} : pc' = [pc EXCEPT ![p] = l]
    BY <1>2 DEF Open, ConnectFails, Deploy, GiveUp, LockFails, SeeStale, Goto, Return
  <2>2. UNCHANGED <<lock, stale, stolen>>
    BY <1>2 DEF Open, ConnectFails, Deploy, GiveUp, LockFails, SeeStale
  <2> QED BY <1>1, <2>1, <2>2
<1>3. ASSUME NEW p \in Procs, LoadUpdate(p) \/ Rename(p) \/ SaveFails(p)
      PROVE  Exclusive'
  <2>1. \E l \in {"save", "unlock"} : pc' = [pc EXCEPT ![p] = l]
    BY <1>3 DEF LoadUpdate, Rename, SaveFails, Goto
  <2>2. UNCHANGED <<lock, stale, stolen>> /\ pc[p] \in Holding
    BY <1>3 DEF LoadUpdate, Rename, SaveFails
  <2> QED BY <1>1, <2>1, <2>2
<1>4. ASSUME NEW p \in Procs, TryLock(p)
      PROVE  Exclusive'
  BY <1>1, <1>4 DEF TryLock, LockFree, Goto
<1>5. ASSUME NEW p \in Procs, Steal(p)
      PROVE  Exclusive'
  <2>1. CASE stolen'
    BY <1>5, <2>1 DEF Steal
  <2>2. CASE ~stolen'
    <3>1. ~stolen /\ lock \notin Procs
      BY <1>5, <2>2 DEF Steal, Typed, TypeOK
    <3>2. \A q \in Procs : pc[q] \notin Holding
      BY <1>1, <3>1
    <3> QED BY <1>1, <1>5, <3>2 DEF Steal, Goto
  <2> QED BY <2>1, <2>2
<1>6. ASSUME NEW p \in Procs, Unlock(p)
      PROVE  Exclusive'
  BY <1>1, <1>6 DEF Unlock, Return, Goto
<1>7. ASSUME NEW p \in Procs, Kill(p)
      PROVE  Exclusive'
  BY <1>1, <1>7 DEF Kill, Return, Goto
<1>8. CASE LockAges
  BY <1>8 DEF LockAges
<1>9. CASE Day \/ Ended \/ UNCHANGED vars
  BY <1>9 DEF Day, Ended, vars
<1> QED BY <1>2, <1>3, <1>4, <1>5, <1>6, <1>7, <1>8, <1>9 DEF Next, Step, WriteBack

\* Nobody writes between a job's read of the file and its rename.
LEMMA NextFresh ==
    ASSUME Typed, Exclusive, ~stolen, Fresh, [Next]_vars
    PROVE  Fresh'
<1>1. pc \in [Procs -> PCs] /\ store \in [Procs -> Seq(RecordType)]
  BY DEF Typed, TypeOK
<1>2. ASSUME UNCHANGED file, NEW p \in Procs,
             \A q \in Procs \ {p} : pc'[q] = pc[q] /\ store'[q] = store[q] /\ obs'[q] = obs[q] /\ at'[q] = at[q],
             pc'[p] # "save"
      PROVE  Fresh'
  BY <1>2 DEF Fresh, LoadedRecords
<1>3. ASSUME NEW p \in Procs, Step(p) \/ Kill(p), ~LoadUpdate(p), ~Rename(p)
      PROVE  Fresh'
  <2>1. \E l \in PCs \ {"save"} : pc' = [pc EXCEPT ![p] = l]
    BY <1>3 DEF Step, WriteBack, Kill, Open, ConnectFails, Deploy, TryLock, SeeStale, Steal, GiveUp, LockFails,
                SaveFails, Unlock, Goto, Return, PCs, Holding
  <2>2. UNCHANGED file
    BY <1>3 DEF Step, WriteBack, Kill, Open, ConnectFails, Deploy, TryLock, SeeStale, Steal, GiveUp, LockFails,
                SaveFails, Unlock
  <2>3. \A q \in Procs \ {p} : store'[q] = store[q] /\ obs'[q] = obs[q] /\ at'[q] = at[q]
    BY <1>3 DEF Step, WriteBack, Kill, Open, ConnectFails, Deploy, TryLock, SeeStale, Steal, GiveUp, LockFails,
                SaveFails, Unlock, Return, Forget, run, Typed, TypeOK
  <2> QED BY <1>1, <1>2, <2>1, <2>2, <2>3
<1>4. ASSUME NEW p \in Procs, LoadUpdate(p)
      PROVE  Fresh'
  <2>1. PICK L \in Readable :
         /\ store' = [store EXCEPT ![p] = Update(L, obs[p], at[p])]
         /\ pc' = [pc EXCEPT ![p] = IF Update(L, obs[p], at[p]) = L THEN "unlock" ELSE "save"]
    BY <1>4 DEF LoadUpdate, Goto
  <2>2. UNCHANGED <<file, obs, at>> /\ LoadedRecords' = LoadedRecords
    BY <1>4 DEF LoadUpdate, LoadedRecords
  <2>3. store'[p] = Update(L, obs[p], at[p]) /\ \A q \in Procs \ {p} : store'[q] = store[q]
    BY <1>1, <2>1
  <2>4. pc'[p] = "save" => store'[p] # L
    BY <1>1, <2>1
  <2>5. \A q \in Procs \ {p} : pc'[q] = pc[q]
    BY <1>1, <2>1
  <2>6. L \in {LoadedRecords, <<>>}
    BY DEF Readable
  <2> QED BY <2>2, <2>3, <2>4, <2>5, <2>6 DEF Fresh
<1>5. ASSUME NEW p \in Procs, Rename(p)
      PROVE  Fresh'
  <2>1. pc' = [pc EXCEPT ![p] = "unlock"] /\ pc[p] = "save"
    BY <1>5 DEF Rename, Goto
  <2>2. \A q \in Procs : pc'[q] # "save"
    BY <1>1, <2>1 DEF Exclusive, Holding
  <2> QED BY <2>2 DEF Fresh
<1>6. CASE LockAges \/ Day \/ Ended \/ UNCHANGED vars
  <2>1. UNCHANGED <<file, pc, store, obs, at>>
    BY <1>6 DEF LockAges, Day, Ended, vars, run
  <2> QED BY <2>1 DEF Fresh, LoadedRecords
<1> QED BY <1>3, <1>4, <1>5, <1>6 DEF Next

\* The records that a write-back leaves count the history right.
LEMMA NextCounted ==
    ASSUME Typed, Fresh, RecordsCounted, [Next]_vars
    PROVE  RecordsCounted'
<1>1. CASE UNCHANGED <<file, past>>
  BY <1>1 DEF RecordsCounted, Counted, LoadedRecords, past
<1>2. ASSUME NEW p \in Procs, Rename(p)
      PROVE  RecordsCounted'
  <2> DEFINE o == obs[p]
             d == at[p]
             t == o.target
  <2>0. PICK L \in {LoadedRecords, <<>>} : store[p] = Update(L, o, d) /\ store[p] # L
    BY <1>2 DEF Rename, Fresh
  <2>1. /\ o \in ObservationType /\ d \in Nat /\ L \in Seq(RecordType) /\ Len(L) <= MaxRecords
    <3>1. o \in ObservationType /\ d \in Nat
      BY DEF Typed, TypeOK
    <3>2. L \in Seq(RecordType) /\ Len(L) <= MaxRecords
      BY ReadFacts DEF Typed
    <3> QED BY <3>1, <3>2
  <2>2. LoadedRecords' = Update(L, o, d) /\ Update(L, o, d) # L
    BY <1>2, <2>0 DEF Rename, LoadedRecords
  <2>13. \A i \in DOMAIN L : Counted(L[i])
    BY DEF RecordsCounted
  <2>3. /\ t \in Targets /\ o.measured \in BOOLEAN /\ o.reused \in BOOLEAN /\ o.ceiling \in Nat
    <3>1. Ceilings \cup {0} \subseteq Nat
      BY CacheAssumption
    <3> QED BY <2>1, <3>1 DEF ObservationType
  <2>4. /\ \A u \in Targets \ {t} : origin'[u] = origin[u] /\ leans'[u] = leans[u] /\ idle'[u] = idle[u]
        /\ origin'[t] = IF o.measured THEN <<o.work, o.rtt>> ELSE origin[t]
        /\ leans'[t] = IF o.measured THEN 0 ELSE IF o.reused THEN leans[t] + 1 ELSE leans[t]
        /\ idle'[t] = IF o.ceiling > 0 THEN 0 ELSE idle[t] + 1
    BY <1>2, <2>3 DEF Rename, Remember, Typed, TypeOK
  <2> HIDE DEF o, d, t
  <2>5. ASSUME NEW r \in RecordType, r.target # t, Counted(r)
        PROVE  Counted(r)'
    <3>1. r.target \in Targets \ {t}
      BY <2>5 DEF RecordType
    <3> QED BY <2>4, <2>5, <3>1 DEF Counted
  <2>6. ASSUME NEW old, Found(L, t, old)
        PROVE  Counted(old)
    BY <2>6, <2>13 DEF Found
  <2>7. PICK rec : rec = NewRecord(Find(L, t), o, d)
    OBVIOUS
  <2>11. rec \in RecordType /\ rec.target = t /\ rec.policy = PolicyVersion
    <3>1. rec = NewRecord(Find(L, o.target), o, d)
      BY <2>7 DEF t
    <3>2. rec \in RecordType /\ rec.target = o.target /\ rec.policy = PolicyVersion
      <4>1. L \in Seq(RecordType) /\ o \in ObservationType /\ d \in Nat
        BY <2>1
      <4> QED BY <3>1, <4>1, NewRecordIsOne
    <3> QED BY <3>2 DEF t
  <2>8. /\ rec.reused <= MaxReuse
        /\ rec.stream => <<rec.work, rec.rtt>> = origin'[t] /\ leans'[t] <= rec.reused
    <3>1. \/ rec.stream = o.measured /\ rec.work = o.work /\ rec.rtt = o.rtt /\ rec.reused = 0
          \/ /\ ~o.measured
             /\ \E old \in RecordType :
                  /\ Found(L, t, old) /\ StillTrusted(old, d)
                  /\ rec.stream = old.stream /\ rec.work = old.work /\ rec.rtt = old.rtt
                  /\ rec.reused = old.reused + (IF o.reused THEN 1 ELSE 0)
      BY <2>1, <2>7, NewRecordFacts DEF t
    <3>2. CASE rec.stream = o.measured /\ rec.work = o.work /\ rec.rtt = o.rtt /\ rec.reused = 0
      BY <2>4, <3>2, CacheAssumption
    <3>3. CASE ~o.measured /\ \E old \in RecordType :
                  /\ Found(L, t, old) /\ StillTrusted(old, d)
                  /\ rec.stream = old.stream /\ rec.work = old.work /\ rec.rtt = old.rtt
                  /\ rec.reused = old.reused + (IF o.reused THEN 1 ELSE 0)
      <4>1. PICK old \in RecordType :
                  /\ Found(L, t, old) /\ StillTrusted(old, d)
                  /\ rec.stream = old.stream /\ rec.work = old.work /\ rec.rtt = old.rtt
                  /\ rec.reused = old.reused + (IF o.reused THEN 1 ELSE 0)
        BY <3>3
      <4>2. /\ old.policy = PolicyVersion /\ old.reused < MaxReuse /\ old.reused \in Nat
            /\ old.target = t
        BY <4>1 DEF StillTrusted, Found, RecordType
      <4>3. old.stream => <<old.work, old.rtt>> = origin[t] /\ leans[t] <= old.reused
        BY <2>6, <4>1, <4>2 DEF Counted
      <4>4. leans[t] \in Nat /\ MaxReuse \in Nat
        BY <2>3, CacheAssumption DEF Typed, TypeOK
      <4> QED BY <2>3, <2>4, <3>3, <4>1, <4>2, <4>3, <4>4
    <3> QED BY <3>1, <3>2, <3>3
  <2>9. rec.ceiling > 0 => idle'[t] <= rec.carried /\ rec.carried <= MaxCeilingCarry
    <3>1. \/ rec.ceiling = o.ceiling /\ rec.carried = 0
          \/ rec.ceiling = 0
          \/ /\ o.ceiling = 0
             /\ \E old \in RecordType :
                  /\ Found(L, t, old)
                  /\ old.ceiling > 0 /\ old.carried < MaxCeilingCarry
                  /\ rec.ceiling = old.ceiling /\ rec.carried = old.carried + 1
      BY <2>1, <2>7, NewRecordFacts DEF t
    <3>2. CASE rec.ceiling = o.ceiling /\ rec.carried = 0
      BY <2>3, <2>4, <3>2, CacheAssumption
    <3>3. CASE rec.ceiling = 0
      BY <3>3
    <3>4. CASE /\ o.ceiling = 0
               /\ \E old \in RecordType :
                    /\ Found(L, t, old)
                    /\ old.ceiling > 0 /\ old.carried < MaxCeilingCarry
                    /\ rec.ceiling = old.ceiling /\ rec.carried = old.carried + 1
      <4>1. PICK old \in RecordType :
                    /\ Found(L, t, old)
                    /\ old.ceiling > 0 /\ old.carried < MaxCeilingCarry
                    /\ rec.ceiling = old.ceiling /\ rec.carried = old.carried + 1
        BY <3>4
      <4>2. old.target = t /\ old.carried \in Nat
        BY <4>1 DEF Found, RecordType
      <4>3. idle[t] <= old.carried
        BY <2>6, <4>1, <4>2 DEF Counted
      <4>4. idle[t] \in Nat /\ MaxCeilingCarry \in Nat
        BY <2>3, CacheAssumption DEF Typed, TypeOK
      <4> QED BY <2>4, <3>4, <4>1, <4>2, <4>3, <4>4
    <3> QED BY <3>1, <3>2, <3>3, <3>4
  <2>10. Counted(rec)'
    BY <2>8, <2>9, <2>11 DEF Counted
  <2>12. ASSUME NEW i \in DOMAIN LoadedRecords'
         PROVE  \E r \in RecordType : LoadedRecords'[i] = r /\ Counted(r)'
    <3>1. \/ LoadedRecords'[i] = rec
          \/ \E j \in DOMAIN L : LoadedRecords'[i] = L[j] /\ L[j].target # t
      BY <2>1, <2>2, <2>7, <2>12, UpdateFacts DEF t
    <3>2. CASE LoadedRecords'[i] = rec
      BY <2>10, <2>11, <3>2
    <3>3. CASE \E j \in DOMAIN L : LoadedRecords'[i] = L[j] /\ L[j].target # t
      <4>1. PICK j \in DOMAIN L : LoadedRecords'[i] = L[j] /\ L[j].target # t
        BY <3>3
      <4>2. PICK r : r = L[j]
        OBVIOUS
      <4>3. r \in RecordType /\ Counted(r)
        BY <2>1, <2>13, <4>2
      <4> QED BY <2>5, <4>1, <4>2, <4>3
    <3> QED BY <3>1, <3>2, <3>3
  <2> QED BY <2>12 DEF RecordsCounted, Counted
<1>3. UNCHANGED <<file, past>> \/ \E p \in Procs : Rename(p)
  BY DEF Next, Step, WriteBack, Kill, Open, ConnectFails, Deploy, TryLock, SeeStale, Steal, GiveUp, LockFails,
         LoadUpdate, SaveFails, Unlock, LockAges, Day, Ended, vars
<1> QED BY <1>1, <1>2, <1>3

\* At the start nobody acts, and old records count for nothing.
LEMMA InitInv == Init => Inv
<1> SUFFICES ASSUME Init PROVE Inv
  OBVIOUS
<1>1. Exclusive /\ Fresh
  BY DEF Init, Exclusive, Fresh, Holding
<1>2. RecordsCounted
  <2> SUFFICES ASSUME NEW i \in DOMAIN LoadedRecords PROVE Counted(LoadedRecords[i])
    BY DEF RecordsCounted
  <2>1. PICK t \in Targets : LoadedRecords[i] = OldRecord(t)
    <3>1. CASE file = [usable |-> FALSE, recs |-> <<>>]
      BY <3>1 DEF LoadedRecords
    <3>2. CASE \E t \in Targets : file = [usable |-> TRUE, recs |-> <<OldRecord(t)>>]
      BY <3>2 DEF LoadedRecords
    <3> QED BY <3>1, <3>2 DEF Init
  <2> QED BY <2>1, Observations DEF Counted, PolicyVersion
<1> QED BY <1>1, <1>2, InitTyped DEF Inv

\* The inductive invariant.
LEMMA InvHolds == Spec => []Inv
<1>1. Init => Inv
  BY InitInv
<1>2. ASSUME Inv, [Next]_vars PROVE Inv'
  <2>1. Typed' /\ Exclusive'
    BY <1>2, NextTyped, NextExclusive DEF Inv
  <2>2. CASE stolen
    BY <1>2, <2>1, <2>2, NextStolen DEF Inv
  <2>3. CASE ~stolen
    <3>1. Typed /\ Exclusive /\ Fresh /\ RecordsCounted
      BY <1>2, <2>3 DEF Inv
    <3>2. Fresh' /\ RecordsCounted'
      BY <1>2, <2>3, <3>1, NextFresh, NextCounted
    <3> QED BY <2>1, <3>2 DEF Inv
  <2> QED BY <2>2, <2>3
<1> QED BY <1>1, <1>2, PTL DEF Spec

-----------------------------------------------------------------------------
(* Theorems. *)

\* The file holds at most MaxRecords well-formed records, and every local of every job
\* is what it should be, whatever happens to the lock (Store.put, Store.Update,
\* openAutoCache, cacheObservation).
THEOREM TypeCorrect == Spec => []TypeOK
<1>1. Init => Typed
  BY InitTyped
<1>2. Typed /\ [Next]_vars => Typed'
  BY NextTyped
<1>3. Typed => TypeOK
  BY DEF Typed
<1> QED BY <1>1, <1>2, <1>3, PTL DEF Spec

\* The throughput of a record belongs to the workload and the round-trip time of the
\* run that measured it, however many reused, rewrote or evicted records, kills and
\* failed reads came between (Store.Update), until a job at work loses its lock.
THEOREM AnchorKept == Spec => []AnchorStays
<1>1. Inv => AnchorStays
  BY DEF Inv, RecordsCounted, Counted, AnchorStays, Current
<1> QED BY <1>1, InvHolds, PTL

\* No measurement is leaned on by more than MaxReuse write-backs: each of them is in
\* the record's own count, also when two jobs read the record before either wrote, and
\* until a job at work loses its lock.
THEOREM MeasurementSpent == Spec => []MeasurementIsSpent
<1>1. Inv => MeasurementIsSpent
  <2> SUFFICES ASSUME Inv, ~stolen, NEW r \in Current, r.stream
               PROVE  leans[r.target] <= MaxReuse
    BY DEF MeasurementIsSpent
  <2>1. PICK i \in DOMAIN LoadedRecords : r = LoadedRecords[i]
    BY DEF Current
  <2>2. Counted(r) /\ r.policy = PolicyVersion
    BY <2>1 DEF Inv, RecordsCounted, Current
  <2>3. r \in RecordType
    BY <2>1, LoadedFacts DEF Inv, Typed
  <2>4. r.reused \in Nat /\ leans[r.target] \in Nat /\ MaxReuse \in Nat
    BY <2>3, CacheAssumption DEF RecordType, Inv, Typed, TypeOK
  <2> QED BY <2>2, <2>4 DEF Counted
<1> QED BY <1>1, InvHolds, PTL

\* A ceiling that no run meets again is gone after MaxCeilingCarry write-backs for its
\* server (carryCeiling), until a job at work loses its lock.
THEOREM CeilingGone == Spec => []CeilingExpires
<1>1. Inv => CeilingExpires
  <2> SUFFICES ASSUME Inv, ~stolen, NEW r \in Current, r.ceiling > 0
               PROVE  idle[r.target] <= MaxCeilingCarry
    BY DEF CeilingExpires
  <2>1. PICK i \in DOMAIN LoadedRecords : r = LoadedRecords[i]
    BY DEF Current
  <2>2. Counted(r)
    BY <2>1 DEF Inv, RecordsCounted
  <2>3. r \in RecordType
    BY <2>1, LoadedFacts DEF Inv, Typed
  <2>4. r.carried \in Nat /\ idle[r.target] \in Nat /\ MaxCeilingCarry \in Nat
    BY <2>3, CacheAssumption DEF RecordType, Inv, Typed, TypeOK
  <2> QED BY <2>2, <2>4 DEF Counted
<1> QED BY <1>1, InvHolds, PTL

\* The rules of the abstract cache are the rules of this one.
LEMMA SameRules ==
    ASSUME NEW recs, NEW o, NEW d
    PROVE  Serial!Update(recs, o, d) = Update(recs, o, d)
<1>1. \A s, t : Serial!Find(s, t) = Find(s, t) /\ Serial!Others(s, t) = Others(s, t)
  BY DEF Serial!Find, Find, Serial!Others, Others
<1>2. \A old : Serial!Anchor(old, o, d) = Anchor(old, o, d)
  BY DEF Serial!Anchor, Anchor, Serial!StillTrusted, StillTrusted, Serial!FreshRecord, FreshRecord,
         Serial!PolicyVersion, PolicyVersion
<1>3. \A rec, old : Serial!CarryCeiling(rec, old, o) = CarryCeiling(rec, old, o)
  BY DEF Serial!CarryCeiling, CarryCeiling
<1>4. \A found : Serial!NewRecord(found, o, d) = NewRecord(found, o, d)
  BY <1>2, <1>3 DEF Serial!NewRecord, NewRecord, Serial!FreshRecord, FreshRecord,
         Serial!PolicyVersion, PolicyVersion
<1>5. \A s, rec : Serial!Put(s, rec) = Put(s, rec)
  BY <1>1 DEF Serial!Put, Put
<1> QED BY <1>1, <1>4, <1>5 DEF Serial!Update, Update

\* As long as no job at work loses its lock, the write-backs follow one another: no
\* run's observation is lost under another's, and only a run that cannot read the file
\* discards records (UpdateFile, withStoreLock).  The condition is needed: without it
\* the statement is false of the code, and of this model with two jobs.
THEOREM UpdatesSerial == Spec /\ []~stolen => SerialUpdates
<1>1. Init => LoadedRecords \in Seq(Serial!RecordType)
  BY InitTyped, LoadedFacts
     DEF Typed, Serial!RecordType, RecordType, Serial!Policies, Policies, Serial!PolicyVersion, PolicyVersion
<1>2. ASSUME Inv, ~stolen, [Next]_vars
      PROVE  [Serial!Merge \/ Serial!StartOver]_LoadedRecords
  <2>1. ASSUME NEW p \in Procs, Rename(p)
        PROVE  Serial!Merge \/ Serial!StartOver
    <3>1. PICK L \in {LoadedRecords, <<>>} : LoadedRecords' = Update(L, obs[p], at[p])
      BY <1>2, <2>1 DEF Inv, Fresh, Rename, LoadedRecords
    <3>2. obs[p] \in Serial!ObservationType
      BY <1>2 DEF Inv, Typed, TypeOK, Serial!ObservationType, ObservationType
    <3>3. at[p] \in 0 .. now
      BY <1>2, AutoCacheAssumption DEF Inv, Typed, TypeOK
    <3>4. LoadedRecords' = Serial!Update(L, obs[p], at[p])
      BY <3>1, SameRules
    <3> QED BY <3>1, <3>2, <3>3, <3>4 DEF Serial!Merge, Serial!StartOver
  <2>2. UNCHANGED file \/ \E p \in Procs : Rename(p)
    BY <1>2 DEF Next, Step, WriteBack, Kill, Open, ConnectFails, Deploy, TryLock, SeeStale, Steal, GiveUp, LockFails,
         LoadUpdate, SaveFails, Unlock, LockAges, Day, Ended, vars
  <2> QED BY <2>1, <2>2 DEF LoadedRecords
<1> QED BY <1>1, <1>2, InvHolds, PTL DEF Spec, SerialUpdates, Serial!Spec
=============================================================================
