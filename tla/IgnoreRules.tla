----------------------------- MODULE IgnoreRules -----------------------------
(***************************************************************************)
(* The exclude patterns (internal/uploader/gitignore.go), as pure           *)
(* operators.                                                              *)
(*                                                                         *)
(* A path is the sequence of its names below the deployment's source.  A   *)
(* pattern segment is the set of the names it matches: a literal is a      *)
(* singleton, "*" is every name, "?" and "[...]" anything in between; what *)
(* characters a segment is written with is left out.  "**" is the one      *)
(* segment that is not about one name, and is the empty set here.          *)
(*                                                                         *)
(* An exclude line is a record of what compileGitignore reads off it: "!", *)
(* a leading and a trailing slash, its segments, and whether it has one of *)
(* the syntax errors the parser refuses.                                   *)
(***************************************************************************)
EXTENDS Integers, Sequences, FiniteSetsExt

StarStar == {}

----------------------------------------------------------------------------
(* Parsing one line. *)

\* A run of "**" segments is one "**".
parseGitignoreSegments(segs) ==
    LET kept == {i \in DOMAIN segs :
                    ~ (i > 1 /\ segs[i] = StarStar /\ segs[i - 1] = StarStar)}
        nth(n) == CHOOSE i \in kept : Cardinality({j \in kept : j <= i}) = n
    IN  [n \in 1 .. Cardinality(kept) |-> segs[nth(n)]]

\* A slash anywhere but at the end anchors the pattern at the root.
compileGitignore(line) ==
    [negate   |-> line.negate,
     dirOnly  |-> line.trail,
     anchored |-> line.lead \/ Len(line.segs) > 1,
     segments |-> parseGitignoreSegments(line.segs)]

hasNegation(rules) == \E i \in DOMAIN rules : rules[i].negate

----------------------------------------------------------------------------
(* Matching one path against one pattern. *)

matchSegment(pat, name) == name \in pat

\* The pattern consumes the whole path; a trailing "**" needs at least one
\* name, any other spans zero or more.
matchSegmentsExact(pat, segs) ==
    LET at[pi \in 1 .. Len(pat) + 1, si \in 1 .. Len(segs) + 1] ==
            IF pi > Len(pat) THEN si > Len(segs)
            ELSE IF pat[pi] # StarStar
            THEN si <= Len(segs) /\ matchSegment(pat[pi], segs[si]) /\ at[pi + 1, si + 1]
            ELSE IF pi = Len(pat) THEN si <= Len(segs)
            ELSE \E j \in si .. Len(segs) + 1 : at[pi + 1, j]
    IN  at[1, 1]

\* An unanchored pattern is matched against the last name only.
matchesPath(p, segs, isDir) ==
    /\ p.dirOnly => isDir
    /\ IF p.anchored
       THEN matchSegmentsExact(p.segments, segs)
       ELSE matchSegmentsExact(p.segments, <<segs[Len(segs)]>>)

----------------------------------------------------------------------------
(* The verdict on a path: matchesHow is "excluded". *)

\* The index of the last pattern that matches, 0 when none does.
lastMatchIdx(rules, segs, isDir) ==
    Max({0} \cup {i \in DOMAIN rules : matchesPath(rules[i], segs, isDir)})

Ancestors(path) == {SubSeq(path, 1, k) : k \in 1 .. Len(path) - 1}

\* Mutant: a re-include of the directory itself does not lift its exclude.
ExcludingAboveAny(rules, path) ==
    {i \in DOMAIN rules : ~ rules[i].negate /\ \E d \in Ancestors(path) : matchesPath(rules[i], d, TRUE)}

\* Mutant: only the deepest excluded directory is compared with the re-include, as
\* an earlier version of the matcher did.
ExcludingAboveDeepest(rules, path) ==
    LET verdict(k) == lastMatchIdx(rules, SubSeq(path, 1, k), TRUE)
        bad == {k \in 1 .. Len(path) - 1 : verdict(k) > 0 /\ ~ rules[verdict(k)].negate}
    IN  {verdict(k) : k \in {j \in bad : \A i \in bad : i <= j}}

\* The lines that exclude an ancestor directory of the path.
ExcludingAbove(rules, path) ==
    {i \in {lastMatchIdx(rules, d, TRUE) : d \in Ancestors(path)} :
        i > 0 /\ ~ rules[i].negate}

\* The path's own last line decides when it excludes; a re-include has to be
\* later than every line that excludes a directory above the path.
matchesHow(rules, path, isDir) ==
    LET leaf == lastMatchIdx(rules, path, isDir)
        deciding == Max({0} \cup ExcludingAbove(rules, path))
    IN  \/ leaf > 0 /\ ~ rules[leaf].negate
        \/ deciding > leaf

----------------------------------------------------------------------------
(* What git does, from its own rule: a walk from the root that stops at    *)
(* the first excluded directory.                                           *)
GitIgnores(rules, path) ==
    \/ \E d \in Ancestors(path) : LET i == lastMatchIdx(rules, d, TRUE)
                                  IN  i > 0 /\ ~ rules[i].negate
    \/ LET i == lastMatchIdx(rules, path, FALSE) IN i > 0 /\ ~ rules[i].negate

\* The paths one line is about, on its own: itself and what is below it.
Covers(p, path) ==
    \/ matchesPath(p, path, FALSE)
    \/ \E d \in Ancestors(path) : matchesPath(p, d, TRUE)

=============================================================================
