------------------------------- MODULE Targets -------------------------------
(***************************************************************************)
(* The rules about the remote targets of a configuration's deployments     *)
(* (internal/config/config.go) and the guard on destructive modes          *)
(* (checkRemoteRoot, internal/uploader/remote.go).                         *)
(*                                                                         *)
(* A target is written as a leading slash or not and a sequence of names,  *)
(* "." and ".." among them; trailing and doubled slashes and backslashes   *)
(* are spellings path.Clean removes.  A deployment is a target and a       *)
(* strategy.                                                               *)
(***************************************************************************)
EXTENDS Integers, Sequences, SequencesExt

CONSTANT Drives   \* the names that are a Windows drive ("C:")

\* path.Clean, one name at a time: "." is dropped, ".." takes back the last
\* name, stays at the front of a relative path and is nothing at the root.
CleanStep(abs, kept, name) ==
    LET taken == kept # <<>> /\ Last(kept) # ".."
    IN  CASE name = "." -> kept
          [] name \notin {".", ".."} -> Append(kept, name)
          [] name = ".." /\ taken -> Front(kept)
          [] name = ".." /\ ~ taken -> IF abs THEN kept ELSE Append(kept, name)

NormalizeRemote(remote) ==
    LET kept[i \in 0 .. Len(remote.names)] ==
            IF i = 0 THEN <<>> ELSE CleanStep(remote.abs, kept[i - 1], remote.names[i])
    IN  [abs |-> remote.abs, names |-> kept[Len(remote.names)]]

\* "/C:/www" and "C:/www" are one directory of a Windows server.
foldDriveSpelling(p) ==
    IF p.abs /\ p.names # <<>> /\ p.names[1] \in Drives
    THEN [p EXCEPT !.abs = FALSE] ELSE p

Target(pair) == foldDriveSpelling(NormalizeRemote(pair.remote))

\* strings.HasPrefix and a slash behind it: nothing is under "/" or ".".
isUnder(sub, dir) ==
    /\ dir.names # <<>> /\ sub.abs = dir.abs
    /\ IsStrictPrefix(dir.names, sub.names)

\* Two sync deployments on one target are refused before the run.
checkSyncTargets(uploads) ==
    \A i, j \in DOMAIN uploads :
        (i # j /\ uploads[i].strategy = "sync" /\ uploads[j].strategy = "sync")
            => Target(uploads[i]) # Target(uploads[j])

\* Mutant: only the sync target inside the clean target is looked for.
SyncTargetWarningsOneWay(uploads) ==
    {e \in (DOMAIN uploads) \X (DOMAIN uploads) :
        /\ uploads[e[1]].strategy = "sync" /\ uploads[e[2]].strategy = "clean"
        /\ LET s == Target(uploads[e[1]])
               c == Target(uploads[e[2]])
           IN  s = c \/ isUnder(s, c)}

\* The pairs (sync deployment, clean deployment) the run warns about.
SyncTargetWarnings(uploads) ==
    {e \in (DOMAIN uploads) \X (DOMAIN uploads) :
        /\ uploads[e[1]].strategy = "sync" /\ uploads[e[2]].strategy = "clean"
        /\ LET s == Target(uploads[e[1]])
               c == Target(uploads[e[2]])
           IN  s = c \/ isUnder(s, c) \/ isUnder(c, s)}

\* The targets a destructive mode refuses.
checkRemoteRoot(remote) ==
    LET p == NormalizeRemote(remote)
    IN  \/ p.names = <<>>                               \* "/" and "."
        \/ Len(p.names) = 1 /\ p.names[1] \in Drives    \* "C:" and "/C:"
        \/ ~ p.abs /\ p.names = <<"~">>
        \/ ~ p.abs /\ p.names[1] = ".."

----------------------------------------------------------------------------
(* What the rules are for. *)

\* The directory a normalized target names, from the root, on a server whose
\* sessions start in Home.
Home == <<"home">>

ASSUME HomeAssumption == Home[1] \notin Drives

OnDrive(p) == p.names # <<>> /\ p.names[1] \in Drives

Directory(p) ==
    IF p.abs \/ OnDrive(p) THEN p.names
    ELSE NormalizeRemote([abs |-> TRUE, names |-> Home \o p.names]).names

Touch(a, b) == IsPrefix(a, b) \/ IsPrefix(b, a)

=============================================================================
