----------------------------- MODULE MCSyncRun -----------------------------
(* Small targets: a directory "a" that a later tree turns into a file and back, *)
(* with another spelling "aB" of its file "ab", and a directory "ax" with a     *)
(* file "axc" of its own.                                                       *)
EXTENDS SyncRun

CONSTANTS a, ab, aB, ax, axc, h1, h2

Tree(S, h) == [p \in Paths |-> IF p \in S THEN h ELSE Absent]

NestedAbove == [p \in Paths |-> CASE p = a -> {} [] p = axc -> {a, ax} [] OTHER -> {a}]
NestedTrees == {Tree({}, h1), Tree({a}, h1), Tree({ab}, h1), Tree({ab}, h2)}
DeepTrees == {Tree({a}, h1), Tree({ab, axc}, h1), Tree({ab, ax}, h1)}
SpelledTrees == {Tree({}, h1), Tree({a}, h1), Tree({ab}, h1), Tree({aB, ax}, h2)}

OneSpelling == [p \in Paths |-> IF p = aB THEN ab ELSE p]

SetupOf(trees, insensitive, faults) ==
    [trees |-> trees, insensitive |-> insensitive, faults |-> faults]

\* Everything may happen to a server that replaces a file in one step, and less to
\* one that does not; a server that ignores case and one that does not, on which every
\* manifest is written.
AllSetups ==
    {SetupOf(NestedTrees, FALSE, AllFaults \ {"window"}),
     SetupOf({Tree({a}, h1), Tree({ab}, h1), Tree({ab}, h2)}, FALSE, {"window", "kill", "read", "write"}),
     SetupOf({Tree({a}, h1), Tree({ab}, h1), Tree({ab}, h2)}, FALSE, {"window", "kill", "write"}),
     SetupOf(SpelledTrees, TRUE, {"lost", "prune", "window"}),
     SetupOf(DeepTrees, FALSE, {"lost", "prune"})}

\* Every request is answered and every manifest written.
QuietSetups == {SetupOf(NestedTrees, FALSE, {})}
=============================================================================
