---------------------------- MODULE MCAutoCache ----------------------------
(* Jobs that deploy a small or a large tree to one server; one of them also    *)
(* deploys to a second server.                                                 *)
EXTENDS AutoCache

CONSTANTS p1, p2, t1, t2

Shared == [p \in Procs |-> IF p = p2 THEN {<<t1, 1>>, <<t2, 1>>} ELSE {<<t1, 1>>, <<t1, 3>>}]

\* A throughput and a refused connection; only a round-trip time; nothing at all.
Usual == {[rtt |-> 1, settings |-> 1, measured |-> TRUE, ceiling |-> 2],
          [rtt |-> 1, settings |-> 1, measured |-> FALSE, ceiling |-> 0],
          [rtt |-> 0, settings |-> 1, measured |-> FALSE, ceiling |-> 0]}
=============================================================================
