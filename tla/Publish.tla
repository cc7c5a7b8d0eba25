------------------------------ MODULE Publish ------------------------------
(***************************************************************************)
(* How one file reaches the server (internal/uploader/transfer.go and      *)
(* retry.go): uploadFile streams it into a temporary sibling, renameReplace *)
(* publishes that over the target, and uploadFileWithRetry tries again.    *)
(* The server may refuse any request, the connection may drop before or    *)
(* after a request took effect, and the whole process may be killed and    *)
(* started again, which sweeps stale temporary files first.                *)
(***************************************************************************)
EXTENDS Integers

CONSTANTS
    Retries,     \* the retries input
    MaxRuns      \* bound: how many times the deployment is started

ASSUME PublishAssumption == Retries \in Nat /\ MaxRuns \in Nat \ {0}

VARIABLES
    final,    \* content of the live file
    tmp,      \* content of <target>.easysftp-tmp.<index>
    bak,      \* content of <target>.easysftp-tmp.bak
    up,       \* the connection the attempt runs on is open
    pc,       \* where uploadFileWithRetry is
    err,      \* class of the attempt's error
    parked,   \* renameReplaceViaBackup's local: the live file was moved aside
    attempt, run,
    untidy,   \* history: tmp may be there, and no request has removed it since
    had,      \* history: the target existed before the first run
    server    \* what kind of server it is; no run changes it

remote == <<final, tmp, bak>>
vars == <<remote, up, pc, err, parked, attempt, run, untidy, had, server>>

\* Nothing there, the content deployed before, a partial upload, the new content.
Contents == {"none", "old", "part", "new"}

\* The server implements posix-rename@openssh.com, says so in its version packet,
\* and replaces an existing target when asked for a plain rename.
Servers == [implements : BOOLEAN, announces : BOOLEAN, overwrites : BOOLEAN]

Implements == server.implements
Announced == server.announces
Overwrites == server.overwrites

Steps == {"open", "write", "publish", "dropBak", "park", "absent", "move", "restore",
          "unbak", "cleanup", "settle", "clear"}
Over == {"done", "failed", "killed"}

TypeOK ==
    /\ final \in Contents /\ tmp \in Contents /\ bak \in Contents
    /\ up \in BOOLEAN
    /\ pc \in Steps \cup Over \cup {"sweep"}
    /\ err \in {"none", "conn", "transient", "permanent"}
    /\ parked \in BOOLEAN
    /\ attempt \in 0 .. Retries
    /\ run \in 1 .. MaxRuns
    /\ untidy \in BOOLEAN /\ had \in BOOLEAN
    /\ server \in Servers

Init ==
    /\ final \in {"old", "none"} /\ tmp = "none" /\ bak = "none"
    /\ up = TRUE
    /\ pc = "open" /\ err = "none"
    /\ parked = FALSE
    /\ attempt = 0 /\ run = 1
    /\ untidy = FALSE
    /\ had = (final = "old")
    /\ server \in Servers

-----------------------------------------------------------------------------
(* One request.  The server carries it out and answers, refuses it, or the   *)
(* connection is lost: before the request, or between effect and answer.     *)

Goto(label) == pc' = label

Answered(effect) == up /\ effect /\ UNCHANGED up

Refused == up /\ UNCHANGED <<remote, up>>

Lost(effect) == \/ up /\ effect /\ up' = FALSE
                \/ UNCHANGED remote /\ up' = FALSE

\* isRetryable, isPermanentStatus: a refusal is worth another attempt unless its
\* status names a permanent failure.
RefusalClasses == {"transient", "permanent"}

-----------------------------------------------------------------------------
(* uploadFile: temporary file, content, publish. *)

\* OpenFile with O_TRUNC; a failure returns without touching the target.
Open ==
    /\ pc = "open"
    /\ \/ /\ Answered(tmp' = "part" /\ UNCHANGED <<final, bak>>)
          /\ Goto("write") /\ err' = "none" /\ UNCHANGED untidy
       \/ Refused /\ Goto("settle") /\ err' \in RefusalClasses /\ UNCHANGED untidy
       \/ /\ Lost(tmp' = "part" /\ UNCHANGED <<final, bak>>)
          /\ Goto("settle") /\ err' = "conn" /\ untidy' = TRUE
    /\ UNCHANGED <<parked, attempt, run, had, server>>

\* Mutant: a short write is published like a complete one.
AfterFailedWriteIgnored == "publish"
\* Where a write that did not complete goes.
AfterFailedWrite == "cleanup"

\* ReadFromWithConcurrency and Close: all of the content, or some of it, the
\* context cancelled under ctxReader included.  The best-effort Chmod that follows
\* changes no content; a connection it loses is lost for the publish.
Write ==
    /\ pc = "write"
    /\ \/ Answered(tmp' = "new" /\ UNCHANGED <<final, bak>>) /\ Goto("publish") /\ UNCHANGED err
       \/ Refused /\ Goto(AfterFailedWrite) /\ err' \in RefusalClasses
       \/ Lost(tmp' = "new" /\ UNCHANGED <<final, bak>>) /\ Goto(AfterFailedWrite) /\ err' = "conn"
    /\ UNCHANGED <<parked, attempt, run, untidy, had, server>>

\* The statuses a server gives a posix-rename it does not carry out.
RenameStatuses == {"failure", "permission"}
                  \cup (IF Implements THEN {} ELSE {"unsupported", "badMessage"})

\* Mutant: any generic failure reads as a missing extension.
PosixRenameUnsupportedAny(status) == status # "permission"
\* posixRenameUnsupported: the extension is missing, not the permission.
PosixRenameUnsupported(status) ==
    status = "unsupported" \/ (status \in {"failure", "badMessage"} /\ ~Announced)

\* tmp becomes the live file in one step.
MoveTmp == final' = tmp /\ tmp' = "none" /\ UNCHANGED bak

\* renameReplace: posix-rename first, the backup path only where it is missing.
PublishByPosixRename ==
    /\ pc = "publish"
    /\ \/ Implements /\ Answered(MoveTmp) /\ Goto("done") /\ UNCHANGED err
       \/ /\ Refused
          /\ \E status \in RenameStatuses :
                IF PosixRenameUnsupported(status)
                THEN Goto("dropBak") /\ UNCHANGED err
                ELSE /\ Goto("cleanup")
                     /\ err' = IF status = "failure" THEN "transient" ELSE "permanent"
       \/ /\ \/ Implements /\ Lost(MoveTmp)
             \/ ~Implements /\ Lost(UNCHANGED remote)
          /\ Goto("cleanup") /\ err' = "conn"
    /\ parked' = FALSE
    /\ UNCHANGED <<attempt, run, untidy, had, server>>

-----------------------------------------------------------------------------
(* renameReplaceViaBackup *)

\* A backup an interrupted run left behind goes first, best effort.
DropBackup ==
    /\ pc = "dropBak"
    /\ \/ Answered(bak' = "none" /\ UNCHANGED <<final, tmp>>)
       \/ Refused
       \/ Lost(bak' = "none" /\ UNCHANGED <<final, tmp>>)
    /\ Goto("park")
    /\ UNCHANGED <<err, parked, attempt, run, untidy, had, server>>

\* Mutant: the obvious spelling, which removes the live file instead.
ParkEffectRemove == /\ final # "none"
                    /\ final' = "none" /\ UNCHANGED <<bak, tmp>>
\* Moving the live file aside is possible when there is one, and its backup name
\* is free or the server's rename overwrites.
ParkEffect == /\ final # "none" /\ (bak = "none" \/ Overwrites)
              /\ bak' = final /\ final' = "none" /\ UNCHANGED tmp

\* Rename(final, backup).  "Not there" may come as its own status or as a generic
\* one, which a stat then settles.
Park ==
    /\ pc = "park"
    /\ \/ Answered(ParkEffect) /\ parked' = TRUE /\ Goto("move") /\ UNCHANGED err
       \/ final = "none" /\ Refused /\ UNCHANGED parked /\ Goto("move") /\ UNCHANGED err
       \/ Refused /\ UNCHANGED parked /\ Goto("absent") /\ err' \in RefusalClasses
       \/ Lost(ParkEffect) /\ UNCHANGED parked /\ Goto("cleanup") /\ err' = "conn"
    /\ UNCHANGED <<attempt, run, untidy, had, server>>

\* remoteAbsent: a stat that finds the file, or is denied, counts as present, and
\* any other failure as absent, so either answer may meet either state.
Absent ==
    /\ pc = "absent"
    /\ \/ Refused /\ Goto("cleanup") /\ UNCHANGED err
       \/ Refused /\ Goto("move") /\ err' = "none"
       \/ Lost(UNCHANGED remote) /\ Goto("cleanup") /\ err' = "conn"
    /\ UNCHANGED <<parked, attempt, run, untidy, had, server>>

\* Rename(tmp, final) needs the name to be free, or a rename that overwrites.
MoveEffect == (final = "none" \/ Overwrites) /\ MoveTmp

\* Mutant: whatever lies under the backup's name is put back.
AfterFailedMoveRestores == "restore"
AfterFailedMove == IF parked THEN "restore" ELSE "cleanup"

Move ==
    /\ pc = "move"
    /\ \/ Answered(MoveEffect) /\ Goto("unbak") /\ UNCHANGED err
       \/ Refused /\ Goto(AfterFailedMove) /\ err' \in RefusalClasses
       \/ Lost(MoveEffect) /\ Goto(AfterFailedMove) /\ err' = "conn"
    /\ UNCHANGED <<parked, attempt, run, untidy, had, server>>

\* Rename(backup, final): the move's error is the one returned either way.
RestoreEffect == /\ bak # "none" /\ (final = "none" \/ Overwrites)
                 /\ final' = bak /\ bak' = "none" /\ UNCHANGED tmp

Restore ==
    /\ pc = "restore"
    /\ \/ Answered(RestoreEffect)
       \/ Refused
       \/ Lost(RestoreEffect)
    /\ Goto("cleanup")
    /\ UNCHANGED <<err, parked, attempt, run, untidy, had, server>>

\* The published file's backup is dropped, best effort.
RemoveBackup ==
    /\ pc = "unbak"
    /\ \/ Answered(bak' = "none" /\ UNCHANGED <<final, tmp>>)
       \/ Refused
       \/ Lost(bak' = "none" /\ UNCHANGED <<final, tmp>>)
    /\ Goto("done")
    /\ UNCHANGED <<err, parked, attempt, run, untidy, had, server>>

-----------------------------------------------------------------------------
(* uploadFileWithRetry *)

\* cleanupTmp after a failed attempt, Remove before the next one: best effort.
RemoveTmp(from, next) ==
    /\ pc = from
    /\ \/ /\ Answered(tmp' = "none" /\ UNCHANGED <<final, bak>>)
          /\ untidy' = FALSE
       \/ /\ Refused \/ Lost(tmp' = "none" /\ UNCHANGED <<final, bak>>)
          /\ untidy' = TRUE
    /\ Goto(next)
    /\ UNCHANGED <<err, parked, attempt, run, had, server>>

\* Mutant: a failed attempt leaves its temporary file.
CleanupTmpSkipped == pc = "cleanup" /\ Goto("settle")
                     /\ UNCHANGED <<remote, up, err, parked, attempt, run, untidy, had, server>>
CleanupTmp == RemoveTmp("cleanup", "settle")
ClearLeftover == RemoveTmp("clear", "open")

AttemptsLeft == attempt < Retries

\* The loop's tail: give up on a permanent error or after the last attempt, redial
\* first when the connection is gone.  The redial may fail (its budget, a refusal,
\* the watchdog) and the backoff before the next attempt may be cancelled.
Settle ==
    /\ pc = "settle"
    /\ \/ /\ err # "permanent" /\ AttemptsLeft
          /\ up' = (err = "conn" \/ up)
          /\ attempt' = attempt + 1
          /\ Goto("clear")
       \/ Goto("failed") /\ UNCHANGED attempt /\ up' \in {up, err = "conn" \/ up}
    /\ UNCHANGED <<remote, err, parked, run, untidy, had, server>>

-----------------------------------------------------------------------------
(* Kills and later runs. *)

\* SIGKILL, a reclaimed runner: no deferred cleanup runs.
Kill ==
    /\ pc \notin Over
    /\ Goto("killed")
    /\ untidy' = TRUE
    /\ UNCHANGED <<remote, up, err, parked, attempt, run, had, server>>

\* The deployment is started again after a run that did not finish.
NextRun ==
    /\ pc \in {"failed", "killed"}
    /\ run < MaxRuns
    /\ run' = run + 1
    /\ Goto("sweep")
    /\ up' = TRUE /\ err' = "none" /\ attempt' = 0 /\ parked' = FALSE
    /\ UNCHANGED <<remote, untidy, had, server>>

\* sweepStaleTemps, before any upload: whichever of the two leftovers looks older
\* than staleTempMaxAge is removed.  The backup keeps the live file's own
\* modification time, so it may look old however recently it was parked.
SweepStaleTemps ==
    /\ pc = "sweep"
    /\ tmp' \in {tmp, "none"}
    /\ bak' \in {bak, "none"}
    /\ Goto("open")
    /\ UNCHANGED <<final, up, err, parked, attempt, run, untidy, had, server>>

Finished == pc \in Over /\ UNCHANGED vars

Next ==
    \/ Open \/ Write \/ PublishByPosixRename
    \/ DropBackup \/ Park \/ Absent \/ Move \/ Restore \/ RemoveBackup
    \/ CleanupTmp \/ ClearLeftover \/ Settle
    \/ Kill \/ NextRun \/ SweepStaleTemps \/ Finished

Spec == Init /\ [][Next]_vars

-----------------------------------------------------------------------------
(* Properties. *)

\* uploadFile: "a broken or partial upload never replaces the live file", through
\* drops, refusals, retries, kills and later runs.
NeverPartial == final # "part"

\* On a server that announces and implements posix-rename the target is replaced
\* atomically: an existing file never has a moment without complete content under
\* its name, not even when the server refuses the rename (renameReplace,
\* posixRenameUnsupported).
NeverMissing == had /\ Implements /\ Announced => final \in {"old", "new"}

\* The target goes from the old content to the new one and nowhere else: in one step on
\* a server that announces and implements posix-rename, with the old content set aside
\* on any other; never back once the new one was live; and success is told only with
\* the new content live, whatever is refused, lost, retried or killed on the way
\* (renameReplace, renameReplaceViaBackup, uploadFileWithRetry).
Promised == INSTANCE LiveFile WITH
    live <- final,
    aside <- IF final = "none" THEN bak ELSE "none",
    told <- (pc = "done"),
    atomic <- (Implements /\ Announced)
ReplacesAtomically == Promised!Spec

\* A success is reported only with the new content live: uploadFile's nil error,
\* after whichever of the two publish paths and however many attempts.
DoneMeansPublished == pc = "done" => final = "new"

\* A failed upload leaves no temporary file behind, unless the server would not
\* remove it or the run lost its connection or its life (cleanupTmp, retry.go).
FailureLeavesNoDebris == pc = "failed" /\ ~untidy => tmp = "none"

\* Complete content, the old one or the new one, is on the server.
Reachable == final \in {"old", "new"} \/ bak \in {"old", "new"}

\* Within the first attempt of the first run the content deployed before stays
\* reachable until the new one is live (renameReplaceViaBackup).
FirstAttemptKeepsOriginal == had /\ attempt = 0 /\ run = 1 => Reachable

\* No request of the publish itself, refused, lost or answered, takes away the
\* last complete copy: only the removal of a backup taken for an earlier run's
\* does (the Remove that opens renameReplaceViaBackup, sweepStaleTemps).
PublishKeepsACopy ==
    [][Reachable /\ pc \notin {"dropBak", "sweep"} => Reachable']_vars

\* renameReplaceViaBackup: "a failure at any step leaves the original content
\* reachable", "without ever being in a state where the live file is gone and
\* nothing has replaced it".
OriginalNeverLost == had => Reachable \/ tmp = "new"
============================================================================
