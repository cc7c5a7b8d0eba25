------------------------------ MODULE LocalPlan ------------------------------
(***************************************************************************)
(* buildPlan (internal/uploader/planner.go): which local files one         *)
(* deployment uploads, and which remote directories it needs.              *)
(*                                                                         *)
(* A source is a chain of links (symlinks, Windows junctions) that ends at *)
(* a directory, a file or nothing.  Every directory is the same Tree: a    *)
(* function from the paths below it to "dir", "file" or "other" (a         *)
(* symlink, a socket, ...).                                                *)
(***************************************************************************)
EXTENDS IgnoreRules

CONSTANTS
    Tree,          \* [paths -> {"dir", "file", "other"}]
    manifestName,  \* the path of the sync manifest's own name in the source
    baseName       \* the path of a single file's name

ASSUME TreeAssumption ==
    \A p \in DOMAIN Tree : p \in Seq(STRING) /\ Tree[p] \in {"dir", "file", "other"}

\* What the resolvers of links say of a source is the file system's choice: eval is
\* filepath.EvalSymlinks' answer, final that of opening the final path, which may be the
\* path itself (a reparse point that is not a link).  Junctions exist on Windows only.
Source == {s \in [links : {<<>>, <<"symlink">>, <<"junction">>, <<"symlink", "junction">>},
                  kind : {"dir", "file", "missing"}, windows : BOOLEAN,
                  eval : {"resolved", "failed"}, final : {"resolved", "failed", "itself"}] :
              s.windows \/ s.links \in {<<>>, <<"symlink">>}}

NoPlan == [ok |-> FALSE, files |-> {}, dirs |-> {}, skipped |-> 0]

\* The links left after filepath.EvalSymlinks, which follows symlinks and stops at a
\* junction.  When it fails the link itself goes on being the root.
EvalSymlinks(s) ==
    IF s.links # <<>> /\ s.links[1] = "symlink" /\ s.eval = "resolved"
    THEN Tail(s.links) ELSE s.links

\* A symlink is one too, on Windows; elsewhere nothing is.
isWindowsJunction(s, links) == s.windows /\ links # <<>>

\* Mutant: a junction that cannot be resolved is walked as it is.
WalkRootSilent(s) ==
    LET seen == EvalSymlinks(s)
        junction == isWindowsJunction(s, seen)
    IN  [ok |-> TRUE, links |-> IF junction /\ s.final = "resolved" THEN <<>> ELSE seen]
\* The root to walk.  Resolving a junction opens the final path, which follows
\* everything, fails the plan, or is the junction again.
WalkRoot(s) ==
    LET seen == EvalSymlinks(s)
        junction == isWindowsJunction(s, seen)
    IN  [ok |-> ~ (junction /\ s.final = "failed"),
         links |-> IF junction /\ s.final = "resolved" THEN <<>> ELSE seen]

\* A directory's own match prunes everything below it.
Pruned(rules, path) ==
    \E d \in Ancestors(path) : matchesHow(rules, d, TRUE)

\* The entries WalkDir hands to the callback that are not directories.  A
\* root that is still a link is one entry that is not a regular file.
Visited(links, prune, rules) ==
    {p \in DOMAIN Tree : /\ links = <<>>
                         /\ Tree[p] # "dir"
                         /\ ~ (prune /\ Pruned(rules, p))}

\* The callback's order: the manifest's name, the patterns, the file's type.
Wanted(links, prune, rules) ==
    {p \in Visited(links, prune, rules) : p # manifestName /\ ~ matchesHow(rules, p, FALSE)}

dirsForFiles(files) == UNION {Ancestors(p) : p \in files}

Walk(links, prune, rules) ==
    LET wanted == Wanted(links, prune, rules)
        files == {p \in wanted : Tree[p] = "file"}
    IN  [ok |-> TRUE, files |-> files, dirs |-> dirsForFiles(files),
         skipped |-> IF links = <<>> THEN Cardinality(wanted \ files) ELSE 1]

\* A single file is an overlay deployment of its own name.
SingleFile(rules) ==
    LET files == IF matchesHow(rules, baseName, FALSE) THEN {} ELSE {baseName}
    IN  [ok |-> TRUE, files |-> files, dirs |-> dirsForFiles(files), skipped |-> 0]

buildPlan(source, strategy, rules) ==
    CASE source.kind = "missing" -> NoPlan
      [] source.kind = "file" /\ strategy # "overlay" -> NoPlan
      [] source.kind = "file" /\ strategy = "overlay" -> SingleFile(rules)
      [] source.kind = "dir" ->
            LET root == WalkRoot(source)
            IN  IF root.ok THEN Walk(root.links, ~ hasNegation(rules), rules) ELSE NoPlan

=============================================================================
