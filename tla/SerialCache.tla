---------------------------- MODULE SerialCache ----------------------------
(***************************************************************************)
(* What the tuning cache promises the runs that share its file: the        *)
(* write-backs follow one another, each merges one observation into the    *)
(* records the previous one left, and nothing else ever changes them.      *)
(***************************************************************************)
EXTENDS CacheRecords

VARIABLES recs, now

\* One run's read-modify-write, as if nobody else were there.
Merge == \E obs \in ObservationType, at \in 0 .. now : recs' = Update(recs, obs, at)

\* The same by a run that cannot read the file: "a fresh valid store is the recoverable
\* outcome", and the records of the other servers are gone (UpdateFile).
StartOver == \E obs \in ObservationType, at \in 0 .. now : recs' = Update(<<>>, obs, at)

Spec == recs \in Seq(RecordType) /\ [][Merge \/ StartOver]_recs
=============================================================================
