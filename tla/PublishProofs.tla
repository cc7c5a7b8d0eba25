--------------------------- MODULE PublishProofs ---------------------------
(***************************************************************************)
(* What holds of one file's publish for every number of retries and runs   *)
(* and every kind of server.                                               *)
(***************************************************************************)
EXTENDS Publish, TLAPS

Complete == {"old", "new"}

\* The steps of renameReplaceViaBackup.
BackupPath == {"dropBak", "park", "absent", "move", "restore", "unbak"}

\* Only complete content is ever parked, published or restored.
OnlyComplete ==
    /\ final # "part" /\ bak # "part"
    /\ pc \in {"publish", "dropBak", "park", "absent", "move"} => tmp = "new"
    /\ pc \in {"unbak", "done"} => final = "new"

\* Until the first run's first attempt has parked the live file, it is in place.
Untouched ==
    /\ run = 1 => pc # "sweep"
    /\ pc = "clear" => attempt > 0
    /\ had /\ attempt = 0 /\ run = 1 =>
          /\ Reachable
          /\ pc \in {"open", "write", "publish", "dropBak", "park", "absent"} => final \in Complete

\* Outside an attempt a temporary file that may be there is known to be.
Tidy ==
    \/ untidy
    \/ tmp = "none"
    \/ pc \in {"write", "publish", "dropBak", "park", "absent", "move", "restore", "cleanup"}

\* The backup path is never entered on a server that has posix-rename and says so.
NoBackupPath ==
    Implements /\ Announced => pc \notin BackupPath /\ (had => final \in Complete)

Inv == TypeOK /\ OnlyComplete /\ Untouched /\ Tidy /\ NoBackupPath

-----------------------------------------------------------------------------
\* The initial states satisfy the invariant: nothing is parked, nothing is left
\* over, and the first attempt is about to open its temporary file.
LEMMA InitInv == Init => Inv
<1> SUFFICES ASSUME Init PROVE Inv
  OBVIOUS
<1>1. TypeOK
  <2>1. up \in BOOLEAN /\ parked \in BOOLEAN /\ untidy \in BOOLEAN /\ had \in BOOLEAN
    BY DEF Init
  <2>2. /\ final \in Contents /\ tmp \in Contents /\ bak \in Contents
        /\ pc \in Steps \cup Over \cup {"sweep"}
        /\ err \in {"none", "conn", "transient", "permanent"}
        /\ server \in Servers
    BY DEF Init, Contents, Steps
  <2>3. attempt \in 0 .. Retries /\ run \in 1 .. MaxRuns
    BY PublishAssumption DEF Init
  <2> QED BY <2>1, <2>2, <2>3 DEF TypeOK
<1>2. OnlyComplete /\ Tidy
  BY DEF Init, OnlyComplete, Tidy
<1>3. had => final \in Complete
  BY DEF Init, Complete
<1>4. Untouched
  BY <1>3 DEF Init, Untouched, Complete, Reachable
<1>5. NoBackupPath
  BY <1>3 DEF Init, NoBackupPath, BackupPath
<1> QED BY <1>1, <1>2, <1>4, <1>5 DEF Inv

\* Every request of the publish, whatever the server or the network makes of it,
\* keeps the invariant, and so do kills, later runs and the stale sweep.
LEMMA NextInv == Inv /\ [Next]_vars => Inv'
<1> SUFFICES ASSUME Inv, [Next]_vars PROVE Inv'
  OBVIOUS
<1> USE PublishAssumption DEF Inv, remote
<1>0. server' = server
  BY DEF Next, vars, Open, Write, PublishByPosixRename, DropBackup, Park, Absent, Move, Restore,
         RemoveBackup, CleanupTmp, ClearLeftover, RemoveTmp, Settle, Kill, NextRun,
         SweepStaleTemps, Finished
<1>a. Implements' = Implements /\ Announced' = Announced /\ Overwrites' = Overwrites
  BY <1>0 DEF Implements, Announced, Overwrites
<1> USE <1>0, <1>a
<1>1. CASE Open
  <2>1. TypeOK'
    BY <1>1 DEF Open, Answered, Refused, Lost, Goto, RefusalClasses, TypeOK, Contents, Steps, Over
  <2>2. OnlyComplete'
    BY <1>1 DEF Open, Answered, Refused, Lost, Goto, RefusalClasses, TypeOK, OnlyComplete, Contents
  <2>3. Untouched'
    BY <1>1 DEF Open, Answered, Refused, Lost, Goto, RefusalClasses, TypeOK, OnlyComplete, Untouched, Reachable, Complete, Contents
  <2>4. Tidy'
    BY <1>1 DEF Open, Answered, Refused, Lost, Goto, RefusalClasses, Tidy, OnlyComplete
  <2>5. NoBackupPath'
    BY <1>1 DEF Open, Answered, Refused, Lost, Goto, RefusalClasses, NoBackupPath, BackupPath, OnlyComplete, Complete
  <2> QED BY <2>1, <2>2, <2>3, <2>4, <2>5
<1>2. CASE Write
  <2>1. TypeOK'
    <3>1. final' \in Contents /\ tmp' \in Contents /\ bak' \in Contents
      BY <1>2 DEF Write, Answered, Refused, Lost, Goto, RefusalClasses, AfterFailedWrite, TypeOK, Contents
    <3>2. pc' \in Steps \cup Over \cup {"sweep"} /\ err' \in {"none", "conn", "transient", "permanent"}
      BY <1>2 DEF Write, Answered, Refused, Lost, Goto, RefusalClasses, AfterFailedWrite, TypeOK, Steps, Over
    <3>3. attempt' \in 0 .. Retries /\ run' \in 1 .. MaxRuns
      BY <1>2 DEF Write, Answered, Refused, Lost, Goto, RefusalClasses, AfterFailedWrite, TypeOK
    <3>4. up' \in BOOLEAN /\ parked' \in BOOLEAN /\ untidy' \in BOOLEAN /\ had' \in BOOLEAN /\ server' \in Servers
      BY <1>2 DEF Write, Answered, Refused, Lost, Goto, RefusalClasses, AfterFailedWrite, TypeOK
    <3> QED BY <3>1, <3>2, <3>3, <3>4 DEF TypeOK
  <2>2. OnlyComplete'
    BY <1>2 DEF Write, Answered, Refused, Lost, Goto, RefusalClasses, AfterFailedWrite, TypeOK, OnlyComplete, Contents
  <2>3. Untouched'
    BY <1>2 DEF Write, Answered, Refused, Lost, Goto, RefusalClasses, AfterFailedWrite, TypeOK, OnlyComplete, Untouched, Reachable, Complete, Contents
  <2>4. Tidy'
    BY <1>2 DEF Write, Answered, Refused, Lost, Goto, RefusalClasses, AfterFailedWrite, Tidy, OnlyComplete
  <2>5. NoBackupPath'
    BY <1>2 DEF Write, Answered, Refused, Lost, Goto, RefusalClasses, AfterFailedWrite, NoBackupPath, BackupPath, OnlyComplete, Complete
  <2> QED BY <2>1, <2>2, <2>3, <2>4, <2>5
<1>3. CASE PublishByPosixRename
  <2>1. TypeOK'
    <3>1. final' \in Contents /\ tmp' \in Contents /\ bak' \in Contents
      BY <1>3 DEF PublishByPosixRename, MoveTmp, PosixRenameUnsupported, RenameStatuses, Answered, Refused, Lost, Goto, TypeOK, Contents
    <3>2. pc' \in Steps \cup Over \cup {"sweep"} /\ err' \in {"none", "conn", "transient", "permanent"}
      BY <1>3 DEF PublishByPosixRename, MoveTmp, PosixRenameUnsupported, RenameStatuses, Answered, Refused, Lost, Goto, TypeOK, Steps, Over
    <3>3. attempt' \in 0 .. Retries /\ run' \in 1 .. MaxRuns
      BY <1>3 DEF PublishByPosixRename, MoveTmp, PosixRenameUnsupported, RenameStatuses, Answered, Refused, Lost, Goto, TypeOK
    <3>4. up' \in BOOLEAN /\ parked' \in BOOLEAN /\ untidy' \in BOOLEAN /\ had' \in BOOLEAN /\ server' \in Servers
      BY <1>3 DEF PublishByPosixRename, MoveTmp, PosixRenameUnsupported, RenameStatuses, Answered, Refused, Lost, Goto, TypeOK
    <3> QED BY <3>1, <3>2, <3>3, <3>4 DEF TypeOK
  <2>2. OnlyComplete'
    BY <1>3 DEF PublishByPosixRename, MoveTmp, PosixRenameUnsupported, RenameStatuses, Answered, Refused, Lost, Goto, TypeOK, OnlyComplete, Contents
  <2>3. Untouched'
    BY <1>3 DEF PublishByPosixRename, MoveTmp, PosixRenameUnsupported, RenameStatuses, Answered, Refused, Lost, Goto, TypeOK, OnlyComplete, Untouched, Reachable, Complete, Contents
  <2>4. Tidy'
    BY <1>3 DEF PublishByPosixRename, MoveTmp, PosixRenameUnsupported, RenameStatuses, Answered, Refused, Lost, Goto, Tidy, OnlyComplete
  <2>5. NoBackupPath'
    BY <1>3 DEF PublishByPosixRename, MoveTmp, PosixRenameUnsupported, RenameStatuses, Answered, Refused, Lost, Goto, NoBackupPath, BackupPath, OnlyComplete, Complete
  <2> QED BY <2>1, <2>2, <2>3, <2>4, <2>5
<1>4. CASE DropBackup
  <2>1. TypeOK'
    <3>1. final' \in Contents /\ tmp' \in Contents /\ bak' \in Contents
      BY <1>4 DEF DropBackup, Answered, Refused, Lost, Goto, TypeOK, Contents
    <3>2. pc' \in Steps \cup Over \cup {"sweep"} /\ err' \in {"none", "conn", "transient", "permanent"}
      BY <1>4 DEF DropBackup, Answered, Refused, Lost, Goto, TypeOK, Steps, Over
    <3>3. attempt' \in 0 .. Retries /\ run' \in 1 .. MaxRuns
      BY <1>4 DEF DropBackup, Answered, Refused, Lost, Goto, TypeOK
    <3>4. up' \in BOOLEAN /\ parked' \in BOOLEAN /\ untidy' \in BOOLEAN /\ had' \in BOOLEAN /\ server' \in Servers
      BY <1>4 DEF DropBackup, Answered, Refused, Lost, Goto, TypeOK
    <3> QED BY <3>1, <3>2, <3>3, <3>4 DEF TypeOK
  <2>2. OnlyComplete'
    BY <1>4 DEF DropBackup, Answered, Refused, Lost, Goto, TypeOK, OnlyComplete, Contents
  <2>3. Untouched'
    BY <1>4 DEF DropBackup, Answered, Refused, Lost, Goto, TypeOK, OnlyComplete, Untouched, Reachable, Complete, Contents
  <2>4. Tidy'
    BY <1>4 DEF DropBackup, Answered, Refused, Lost, Goto, Tidy, OnlyComplete
  <2>5. NoBackupPath'
    BY <1>4 DEF DropBackup, Answered, Refused, Lost, Goto, NoBackupPath, BackupPath, OnlyComplete, Complete
  <2> QED BY <2>1, <2>2, <2>3, <2>4, <2>5
<1>5. CASE Park
  <2>1. TypeOK'
    <3>1. final' \in Contents /\ tmp' \in Contents /\ bak' \in Contents
      BY <1>5 DEF Park, ParkEffect, Answered, Refused, Lost, Goto, RefusalClasses, TypeOK, Contents
    <3>2. pc' \in Steps \cup Over \cup {"sweep"} /\ err' \in {"none", "conn", "transient", "permanent"}
      BY <1>5 DEF Park, ParkEffect, Answered, Refused, Lost, Goto, RefusalClasses, TypeOK, Steps, Over
    <3>3. attempt' \in 0 .. Retries /\ run' \in 1 .. MaxRuns
      BY <1>5 DEF Park, ParkEffect, Answered, Refused, Lost, Goto, RefusalClasses, TypeOK
    <3>4. up' \in BOOLEAN /\ parked' \in BOOLEAN /\ untidy' \in BOOLEAN /\ had' \in BOOLEAN /\ server' \in Servers
      BY <1>5 DEF Park, ParkEffect, Answered, Refused, Lost, Goto, RefusalClasses, TypeOK
    <3> QED BY <3>1, <3>2, <3>3, <3>4 DEF TypeOK
  <2>2. OnlyComplete'
    BY <1>5 DEF Park, ParkEffect, Answered, Refused, Lost, Goto, RefusalClasses, TypeOK, OnlyComplete, Contents
  <2>3. Untouched'
    BY <1>5 DEF Park, ParkEffect, Answered, Refused, Lost, Goto, RefusalClasses, TypeOK, OnlyComplete, Untouched, Reachable, Complete, Contents
  <2>4. Tidy'
    BY <1>5 DEF Park, ParkEffect, Answered, Refused, Lost, Goto, RefusalClasses, Tidy, OnlyComplete
  <2>5. NoBackupPath'
    BY <1>5 DEF Park, ParkEffect, Answered, Refused, Lost, Goto, RefusalClasses, NoBackupPath, BackupPath, OnlyComplete, Complete
  <2> QED BY <2>1, <2>2, <2>3, <2>4, <2>5
<1>6. CASE Absent
  <2>1. TypeOK'
    <3>1. final' \in Contents /\ tmp' \in Contents /\ bak' \in Contents
      BY <1>6 DEF Absent, Answered, Refused, Lost, Goto, TypeOK, Contents
    <3>2. pc' \in Steps \cup Over \cup {"sweep"} /\ err' \in {"none", "conn", "transient", "permanent"}
      BY <1>6 DEF Absent, Answered, Refused, Lost, Goto, TypeOK, Steps, Over
    <3>3. attempt' \in 0 .. Retries /\ run' \in 1 .. MaxRuns
      BY <1>6 DEF Absent, Answered, Refused, Lost, Goto, TypeOK
    <3>4. up' \in BOOLEAN /\ parked' \in BOOLEAN /\ untidy' \in BOOLEAN /\ had' \in BOOLEAN /\ server' \in Servers
      BY <1>6 DEF Absent, Answered, Refused, Lost, Goto, TypeOK
    <3> QED BY <3>1, <3>2, <3>3, <3>4 DEF TypeOK
  <2>2. OnlyComplete'
    BY <1>6 DEF Absent, Answered, Refused, Lost, Goto, TypeOK, OnlyComplete, Contents
  <2>3. Untouched'
    BY <1>6 DEF Absent, Answered, Refused, Lost, Goto, TypeOK, OnlyComplete, Untouched, Reachable, Complete, Contents
  <2>4. Tidy'
    BY <1>6 DEF Absent, Answered, Refused, Lost, Goto, Tidy, OnlyComplete
  <2>5. NoBackupPath'
    BY <1>6 DEF Absent, Answered, Refused, Lost, Goto, NoBackupPath, BackupPath, OnlyComplete, Complete
  <2> QED BY <2>1, <2>2, <2>3, <2>4, <2>5
<1>7. CASE Move
  <2>1. TypeOK'
    <3>1. final' \in Contents /\ tmp' \in Contents /\ bak' \in Contents
      BY <1>7 DEF Move, MoveEffect, MoveTmp, AfterFailedMove, Answered, Refused, Lost, Goto, RefusalClasses, TypeOK, Contents
    <3>2. pc' \in Steps \cup Over \cup {"sweep"} /\ err' \in {"none", "conn", "transient", "permanent"}
      BY <1>7 DEF Move, MoveEffect, MoveTmp, AfterFailedMove, Answered, Refused, Lost, Goto, RefusalClasses, TypeOK, Steps, Over
    <3>3. attempt' \in 0 .. Retries /\ run' \in 1 .. MaxRuns
      BY <1>7 DEF Move, MoveEffect, MoveTmp, AfterFailedMove, Answered, Refused, Lost, Goto, RefusalClasses, TypeOK
    <3>4. up' \in BOOLEAN /\ parked' \in BOOLEAN /\ untidy' \in BOOLEAN /\ had' \in BOOLEAN /\ server' \in Servers
      BY <1>7 DEF Move, MoveEffect, MoveTmp, AfterFailedMove, Answered, Refused, Lost, Goto, RefusalClasses, TypeOK
    <3> QED BY <3>1, <3>2, <3>3, <3>4 DEF TypeOK
  <2>2. OnlyComplete'
    BY <1>7 DEF Move, MoveEffect, MoveTmp, AfterFailedMove, Answered, Refused, Lost, Goto, RefusalClasses, TypeOK, OnlyComplete, Contents
  <2>3. Untouched'
    BY <1>7 DEF Move, MoveEffect, MoveTmp, AfterFailedMove, Answered, Refused, Lost, Goto, RefusalClasses, TypeOK, OnlyComplete, Untouched, Reachable, Complete, Contents
  <2>4. Tidy'
    BY <1>7 DEF Move, MoveEffect, MoveTmp, AfterFailedMove, Answered, Refused, Lost, Goto, RefusalClasses, Tidy, OnlyComplete
  <2>5. NoBackupPath'
    BY <1>7 DEF Move, MoveEffect, MoveTmp, AfterFailedMove, Answered, Refused, Lost, Goto, RefusalClasses, NoBackupPath, BackupPath, OnlyComplete, Complete
  <2> QED BY <2>1, <2>2, <2>3, <2>4, <2>5
<1>8. CASE Restore
  <2>1. TypeOK'
    <3>1. final' \in Contents /\ tmp' \in Contents /\ bak' \in Contents
      BY <1>8 DEF Restore, RestoreEffect, Answered, Refused, Lost, Goto, TypeOK, Contents
    <3>2. pc' \in Steps \cup Over \cup {"sweep"} /\ err' \in {"none", "conn", "transient", "permanent"}
      BY <1>8 DEF Restore, RestoreEffect, Answered, Refused, Lost, Goto, TypeOK, Steps, Over
    <3>3. attempt' \in 0 .. Retries /\ run' \in 1 .. MaxRuns
      BY <1>8 DEF Restore, RestoreEffect, Answered, Refused, Lost, Goto, TypeOK
    <3>4. up' \in BOOLEAN /\ parked' \in BOOLEAN /\ untidy' \in BOOLEAN /\ had' \in BOOLEAN /\ server' \in Servers
      BY <1>8 DEF Restore, RestoreEffect, Answered, Refused, Lost, Goto, TypeOK
    <3> QED BY <3>1, <3>2, <3>3, <3>4 DEF TypeOK
  <2>2. OnlyComplete'
    BY <1>8 DEF Restore, RestoreEffect, Answered, Refused, Lost, Goto, TypeOK, OnlyComplete, Contents
  <2>3. Untouched'
    BY <1>8 DEF Restore, RestoreEffect, Answered, Refused, Lost, Goto, TypeOK, OnlyComplete, Untouched, Reachable, Complete, Contents
  <2>4. Tidy'
    BY <1>8 DEF Restore, RestoreEffect, Answered, Refused, Lost, Goto, Tidy, OnlyComplete
  <2>5. NoBackupPath'
    BY <1>8 DEF Restore, RestoreEffect, Answered, Refused, Lost, Goto, NoBackupPath, BackupPath, OnlyComplete, Complete
  <2> QED BY <2>1, <2>2, <2>3, <2>4, <2>5
<1>9. CASE RemoveBackup
  <2>1. TypeOK'
    <3>1. final' \in Contents /\ tmp' \in Contents /\ bak' \in Contents
      BY <1>9 DEF RemoveBackup, Answered, Refused, Lost, Goto, TypeOK, Contents
    <3>2. pc' \in Steps \cup Over \cup {"sweep"} /\ err' \in {"none", "conn", "transient", "permanent"}
      BY <1>9 DEF RemoveBackup, Answered, Refused, Lost, Goto, TypeOK, Steps, Over
    <3>3. attempt' \in 0 .. Retries /\ run' \in 1 .. MaxRuns
      BY <1>9 DEF RemoveBackup, Answered, Refused, Lost, Goto, TypeOK
    <3>4. up' \in BOOLEAN /\ parked' \in BOOLEAN /\ untidy' \in BOOLEAN /\ had' \in BOOLEAN /\ server' \in Servers
      BY <1>9 DEF RemoveBackup, Answered, Refused, Lost, Goto, TypeOK
    <3> QED BY <3>1, <3>2, <3>3, <3>4 DEF TypeOK
  <2>2. OnlyComplete'
    BY <1>9 DEF RemoveBackup, Answered, Refused, Lost, Goto, TypeOK, OnlyComplete, Contents
  <2>3. Untouched'
    BY <1>9 DEF RemoveBackup, Answered, Refused, Lost, Goto, TypeOK, OnlyComplete, Untouched, Reachable, Complete, Contents
  <2>4. Tidy'
    BY <1>9 DEF RemoveBackup, Answered, Refused, Lost, Goto, Tidy, OnlyComplete
  <2>5. NoBackupPath'
    BY <1>9 DEF RemoveBackup, Answered, Refused, Lost, Goto, NoBackupPath, BackupPath, OnlyComplete, Complete
  <2> QED BY <2>1, <2>2, <2>3, <2>4, <2>5
<1>10. CASE CleanupTmp
  <2>1. TypeOK'
    <3>1. final' \in Contents /\ tmp' \in Contents /\ bak' \in Contents
      BY <1>10 DEF CleanupTmp, RemoveTmp, Answered, Refused, Lost, Goto, TypeOK, Contents
    <3>2. pc' \in Steps \cup Over \cup {"sweep"} /\ err' \in {"none", "conn", "transient", "permanent"}
      BY <1>10 DEF CleanupTmp, RemoveTmp, Answered, Refused, Lost, Goto, TypeOK, Steps, Over
    <3>3. attempt' \in 0 .. Retries /\ run' \in 1 .. MaxRuns
      BY <1>10 DEF CleanupTmp, RemoveTmp, Answered, Refused, Lost, Goto, TypeOK
    <3>4. up' \in BOOLEAN /\ parked' \in BOOLEAN /\ untidy' \in BOOLEAN /\ had' \in BOOLEAN /\ server' \in Servers
      BY <1>10 DEF CleanupTmp, RemoveTmp, Answered, Refused, Lost, Goto, TypeOK
    <3> QED BY <3>1, <3>2, <3>3, <3>4 DEF TypeOK
  <2>2. OnlyComplete'
    BY <1>10 DEF CleanupTmp, RemoveTmp, Answered, Refused, Lost, Goto, TypeOK, OnlyComplete, Contents
  <2>3. Untouched'
    BY <1>10 DEF CleanupTmp, RemoveTmp, Answered, Refused, Lost, Goto, TypeOK, OnlyComplete, Untouched, Reachable, Complete, Contents
  <2>4. Tidy'
    BY <1>10 DEF CleanupTmp, RemoveTmp, Answered, Refused, Lost, Goto, Tidy, OnlyComplete
  <2>5. NoBackupPath'
    BY <1>10 DEF CleanupTmp, RemoveTmp, Answered, Refused, Lost, Goto, NoBackupPath, BackupPath, OnlyComplete, Complete
  <2> QED BY <2>1, <2>2, <2>3, <2>4, <2>5
<1>11. CASE ClearLeftover
  <2>1. TypeOK'
    <3>1. final' \in Contents /\ tmp' \in Contents /\ bak' \in Contents
      BY <1>11 DEF ClearLeftover, RemoveTmp, Answered, Refused, Lost, Goto, TypeOK, Contents
    <3>2. pc' \in Steps \cup Over \cup {"sweep"} /\ err' \in {"none", "conn", "transient", "permanent"}
      BY <1>11 DEF ClearLeftover, RemoveTmp, Answered, Refused, Lost, Goto, TypeOK, Steps, Over
    <3>3. attempt' \in 0 .. Retries /\ run' \in 1 .. MaxRuns
      BY <1>11 DEF ClearLeftover, RemoveTmp, Answered, Refused, Lost, Goto, TypeOK
    <3>4. up' \in BOOLEAN /\ parked' \in BOOLEAN /\ untidy' \in BOOLEAN /\ had' \in BOOLEAN /\ server' \in Servers
      BY <1>11 DEF ClearLeftover, RemoveTmp, Answered, Refused, Lost, Goto, TypeOK
    <3> QED BY <3>1, <3>2, <3>3, <3>4 DEF TypeOK
  <2>2. OnlyComplete'
    BY <1>11 DEF ClearLeftover, RemoveTmp, Answered, Refused, Lost, Goto, TypeOK, OnlyComplete, Contents
  <2>3. Untouched'
    BY <1>11 DEF ClearLeftover, RemoveTmp, Answered, Refused, Lost, Goto, TypeOK, OnlyComplete, Untouched, Reachable, Complete, Contents
  <2>4. Tidy'
    BY <1>11 DEF ClearLeftover, RemoveTmp, Answered, Refused, Lost, Goto, Tidy, OnlyComplete
  <2>5. NoBackupPath'
    BY <1>11 DEF ClearLeftover, RemoveTmp, Answered, Refused, Lost, Goto, NoBackupPath, BackupPath, OnlyComplete, Complete
  <2> QED BY <2>1, <2>2, <2>3, <2>4, <2>5
<1>12. CASE Settle
  <2>1. TypeOK'
    <3>1. final' \in Contents /\ tmp' \in Contents /\ bak' \in Contents
      BY <1>12 DEF Settle, AttemptsLeft, Goto, TypeOK, Contents
    <3>2. pc' \in Steps \cup Over \cup {"sweep"} /\ err' \in {"none", "conn", "transient", "permanent"}
      BY <1>12 DEF Settle, AttemptsLeft, Goto, TypeOK, Steps, Over
    <3>3. attempt' \in 0 .. Retries /\ run' \in 1 .. MaxRuns
      BY <1>12 DEF Settle, AttemptsLeft, Goto, TypeOK
    <3>4. up' \in BOOLEAN /\ parked' \in BOOLEAN /\ untidy' \in BOOLEAN /\ had' \in BOOLEAN /\ server' \in Servers
      BY <1>12 DEF Settle, AttemptsLeft, Goto, TypeOK
    <3> QED BY <3>1, <3>2, <3>3, <3>4 DEF TypeOK
  <2>2. OnlyComplete'
    BY <1>12 DEF Settle, AttemptsLeft, Goto, TypeOK, OnlyComplete, Contents
  <2>3. Untouched'
    BY <1>12 DEF Settle, AttemptsLeft, Goto, TypeOK, OnlyComplete, Untouched, Reachable, Complete, Contents
  <2>4. Tidy'
    BY <1>12 DEF Settle, AttemptsLeft, Goto, Tidy, OnlyComplete
  <2>5. NoBackupPath'
    BY <1>12 DEF Settle, AttemptsLeft, Goto, NoBackupPath, BackupPath, OnlyComplete, Complete
  <2> QED BY <2>1, <2>2, <2>3, <2>4, <2>5
<1>13. CASE Kill
  <2>1. TypeOK'
    BY <1>13 DEF Kill, Goto, TypeOK, Contents, Steps, Over
  <2>2. OnlyComplete'
    BY <1>13 DEF Kill, Goto, TypeOK, OnlyComplete, Contents
  <2>3. Untouched'
    BY <1>13 DEF Kill, Goto, TypeOK, OnlyComplete, Untouched, Reachable, Complete, Contents
  <2>4. Tidy'
    BY <1>13 DEF Kill, Goto, Tidy, OnlyComplete
  <2>5. NoBackupPath'
    BY <1>13 DEF Kill, Goto, NoBackupPath, BackupPath, OnlyComplete, Complete
  <2> QED BY <2>1, <2>2, <2>3, <2>4, <2>5
<1>14. CASE NextRun
  <2>1. TypeOK'
    <3>1. final' \in Contents /\ tmp' \in Contents /\ bak' \in Contents
      BY <1>14 DEF NextRun, Goto, TypeOK, Contents
    <3>2. pc' \in Steps \cup Over \cup {"sweep"} /\ err' \in {"none", "conn", "transient", "permanent"}
      BY <1>14 DEF NextRun, Goto, TypeOK, Steps, Over
    <3>3. attempt' \in 0 .. Retries /\ run' \in 1 .. MaxRuns
      BY <1>14 DEF NextRun, Goto, TypeOK
    <3>4. up' \in BOOLEAN /\ parked' \in BOOLEAN /\ untidy' \in BOOLEAN /\ had' \in BOOLEAN /\ server' \in Servers
      BY <1>14 DEF NextRun, Goto, TypeOK
    <3> QED BY <3>1, <3>2, <3>3, <3>4 DEF TypeOK
  <2>2. OnlyComplete'
    BY <1>14 DEF NextRun, Goto, TypeOK, OnlyComplete, Contents
  <2>3. Untouched'
    BY <1>14 DEF NextRun, Goto, TypeOK, OnlyComplete, Untouched, Reachable, Complete, Contents
  <2>4. Tidy'
    BY <1>14 DEF NextRun, Goto, Tidy, OnlyComplete
  <2>5. NoBackupPath'
    BY <1>14 DEF NextRun, Goto, NoBackupPath, BackupPath, OnlyComplete, Complete
  <2> QED BY <2>1, <2>2, <2>3, <2>4, <2>5
<1>15. CASE SweepStaleTemps
  <2>1. TypeOK'
    BY <1>15 DEF SweepStaleTemps, Goto, TypeOK, Contents, Steps, Over
  <2>2. OnlyComplete'
    BY <1>15 DEF SweepStaleTemps, Goto, TypeOK, OnlyComplete, Contents
  <2>3. Untouched'
    BY <1>15 DEF SweepStaleTemps, Goto, TypeOK, OnlyComplete, Untouched, Reachable, Complete, Contents
  <2>4. Tidy'
    BY <1>15 DEF SweepStaleTemps, Goto, Tidy, OnlyComplete
  <2>5. NoBackupPath'
    BY <1>15 DEF SweepStaleTemps, Goto, NoBackupPath, BackupPath, OnlyComplete, Complete
  <2> QED BY <2>1, <2>2, <2>3, <2>4, <2>5
<1>16. CASE Finished
  <2>1. TypeOK'
    BY <1>16 DEF Finished, vars, TypeOK, Contents, Steps, Over
  <2>2. OnlyComplete'
    BY <1>16 DEF Finished, vars, TypeOK, OnlyComplete, Contents
  <2>3. Untouched'
    BY <1>16 DEF Finished, vars, TypeOK, OnlyComplete, Untouched, Reachable, Complete, Contents
  <2>4. Tidy'
    BY <1>16 DEF Finished, vars, Tidy, OnlyComplete
  <2>5. NoBackupPath'
    BY <1>16 DEF Finished, vars, NoBackupPath, BackupPath, OnlyComplete, Complete
  <2> QED BY <2>1, <2>2, <2>3, <2>4, <2>5
<1>17. CASE UNCHANGED vars
  BY <1>17 DEF vars, TypeOK, OnlyComplete, Untouched, Reachable, Tidy, NoBackupPath
<1> QED
  BY <1>1, <1>2, <1>3, <1>4, <1>5, <1>6, <1>7, <1>8, <1>9, <1>10, <1>11, <1>12, <1>13, <1>14, <1>15, <1>16, <1>17 DEF Next

-----------------------------------------------------------------------------
\* The invariant holds in every reachable state.
THEOREM PublishInv == Spec => []Inv
BY InitInv, NextInv, PTL DEF Spec

\* Every variable stays in its range: the attempts never exceed the retries.
THEOREM PublishTypeOK == Spec => []TypeOK
<1>1. Inv => TypeOK
  BY DEF Inv
<1> QED BY <1>1, PublishInv, PTL

\* A partial upload never becomes the live file, on any server and through any
\* number of retries, drops, kills and later runs.
THEOREM PublishNeverPartial == Spec => []NeverPartial
<1>1. Inv => NeverPartial
  BY DEF Inv, OnlyComplete, NeverPartial
<1> QED BY <1>1, PublishInv, PTL

\* A publish that reports success has the new content live.
THEOREM PublishDoneMeansPublished == Spec => []DoneMeansPublished
<1>1. Inv => DoneMeansPublished
  BY DEF Inv, OnlyComplete, DoneMeansPublished
<1> QED BY <1>1, PublishInv, PTL

\* A failed upload leaves a temporary file only when it could not remove it.
THEOREM PublishFailureLeavesNoDebris == Spec => []FailureLeavesNoDebris
<1>1. Inv => FailureLeavesNoDebris
  BY DEF Inv, Tidy, FailureLeavesNoDebris
<1> QED BY <1>1, PublishInv, PTL

\* The first attempt of the first run keeps a complete copy reachable throughout.
THEOREM PublishFirstAttemptKeepsOriginal == Spec => []FirstAttemptKeepsOriginal
<1>1. Inv => FirstAttemptKeepsOriginal
  BY DEF Inv, Untouched, FirstAttemptKeepsOriginal
<1> QED BY <1>1, PublishInv, PTL

\* With posix-rename implemented and announced an existing target is never without
\* complete content, whatever the server refuses.
THEOREM PublishNeverMissing == Spec => []NeverMissing
<1>1. Inv => NeverMissing
  BY DEF Inv, NoBackupPath, NeverMissing, Complete
<1> QED BY <1>1, PublishInv, PTL

\* No step of the publish itself takes away the last complete copy.
THEOREM PublishKeepsACopyHolds == Spec => PublishKeepsACopy
<1>1. Inv /\ [Next]_vars => [Reachable /\ pc \notin {"dropBak", "sweep"} => Reachable']_vars
  <2> SUFFICES ASSUME Inv, Next, Reachable, pc \notin {"dropBak", "sweep"}
               PROVE  Reachable'
    OBVIOUS
  <2> USE DEF Inv, Reachable, remote
  <2>1. CASE Open
    BY <2>1 DEF Open, Answered, Refused, Lost, Goto, RefusalClasses, OnlyComplete, TypeOK, Contents
  <2>2. CASE Write
    BY <2>2 DEF Write, Answered, Refused, Lost, Goto, RefusalClasses, AfterFailedWrite, OnlyComplete, TypeOK, Contents
  <2>3. CASE PublishByPosixRename
    BY <2>3 DEF PublishByPosixRename, MoveTmp, PosixRenameUnsupported, RenameStatuses, Answered, Refused, Lost, Goto, OnlyComplete, TypeOK, Contents
  <2>4. CASE DropBackup
    BY <2>4 DEF DropBackup, Answered, Refused, Lost, Goto, OnlyComplete, TypeOK, Contents
  <2>5. CASE Park
    BY <2>5 DEF Park, ParkEffect, Answered, Refused, Lost, Goto, RefusalClasses, OnlyComplete, TypeOK, Contents
  <2>6. CASE Absent
    BY <2>6 DEF Absent, Answered, Refused, Lost, Goto, OnlyComplete, TypeOK, Contents
  <2>7. CASE Move
    BY <2>7 DEF Move, MoveEffect, MoveTmp, AfterFailedMove, Answered, Refused, Lost, Goto, RefusalClasses, OnlyComplete, TypeOK, Contents
  <2>8. CASE Restore
    BY <2>8 DEF Restore, RestoreEffect, Answered, Refused, Lost, Goto, OnlyComplete, TypeOK, Contents
  <2>9. CASE RemoveBackup
    BY <2>9 DEF RemoveBackup, Answered, Refused, Lost, Goto, OnlyComplete, TypeOK, Contents
  <2>10. CASE CleanupTmp
    BY <2>10 DEF CleanupTmp, RemoveTmp, Answered, Refused, Lost, Goto, OnlyComplete, TypeOK, Contents
  <2>11. CASE ClearLeftover
    BY <2>11 DEF ClearLeftover, RemoveTmp, Answered, Refused, Lost, Goto, OnlyComplete, TypeOK, Contents
  <2>12. CASE Settle
    BY <2>12 DEF Settle, AttemptsLeft, Goto, OnlyComplete, TypeOK, Contents
  <2>13. CASE Kill
    BY <2>13 DEF Kill, Goto, OnlyComplete, TypeOK, Contents
  <2>14. CASE NextRun
    BY <2>14 DEF NextRun, Goto, OnlyComplete, TypeOK, Contents
  <2>15. CASE SweepStaleTemps
    BY <2>15 DEF SweepStaleTemps, Goto, OnlyComplete, TypeOK, Contents
  <2>16. CASE Finished
    BY <2>16 DEF Finished, vars, OnlyComplete, TypeOK, Contents
  <2> QED
    BY <2>1, <2>2, <2>3, <2>4, <2>5, <2>6, <2>7, <2>8, <2>9, <2>10, <2>11, <2>12, <2>13, <2>14, <2>15, <2>16 DEF Next
<1> QED BY <1>1, PublishInv, PTL DEF Spec, PublishKeepsACopy

-----------------------------------------------------------------------------
(* The refinement: one file's publish, through all its attempts and runs,  *)
(* does what LiveFile says and nothing else.                               *)

\* What renameReplaceViaBackup's parked says: between its renames nothing is live, and when
\* the second one's answer is lost the connection that would restore is, too.
Parked ==
    /\ pc \in {"dropBak", "park", "absent"} => ~parked
    /\ pc = "move" /\ parked => final = "none"
    /\ pc = "restore" => ~up \/ final = "none"

\* Every step keeps it.
LEMMA ParkedInv == Inv /\ Parked /\ [Next]_vars => Parked'
<1> SUFFICES ASSUME Inv, Parked, [Next]_vars PROVE Parked'
  OBVIOUS
<1> USE DEF Parked, remote, Answered, Refused, Lost, Goto
<1>1. CASE Open
  BY <1>1 DEF Open
<1>2. CASE Write
  BY <1>2 DEF Write, AfterFailedWrite
<1>3. CASE PublishByPosixRename
  BY <1>3 DEF PublishByPosixRename
<1>4. CASE DropBackup
  BY <1>4 DEF DropBackup
<1>5. CASE Park
  BY <1>5 DEF Park, ParkEffect
<1>6. CASE Absent
  BY <1>6 DEF Absent
<1>7. CASE Move
  BY <1>7 DEF Move, MoveEffect, MoveTmp, AfterFailedMove
<1>8. CASE Restore \/ RemoveBackup
  BY <1>8 DEF Restore, RemoveBackup
<1>9. CASE CleanupTmp \/ ClearLeftover
  BY <1>9 DEF CleanupTmp, ClearLeftover, RemoveTmp
<1>10. CASE Settle \/ Kill \/ NextRun \/ SweepStaleTemps
  BY <1>10 DEF Settle, Kill, NextRun, SweepStaleTemps
<1>11. CASE Finished \/ UNCHANGED vars
  BY <1>11 DEF Finished, vars
<1> QED
  BY <1>1, <1>2, <1>3, <1>4, <1>5, <1>6, <1>7, <1>8, <1>9, <1>10, <1>11 DEF Next

\* The abstract variables.
Aside == IF final = "none" THEN bak ELSE "none"
Told == pc = "done"
Atomic == Implements /\ Announced

\* A step that leaves the file alone is none of LiveFile's.
LEMMA Unseen ==
    ASSUME final' = final, bak' = bak, server' = server, pc' = "done" <=> pc = "done"
    PROVE  UNCHANGED <<final, Aside, Told, Atomic>>
  BY DEF Aside, Told, Atomic, Implements, Announced

\* A backup that goes is the copy set aside, or nothing to LiveFile while a file is live.
LEMMA BackupDropped ==
    ASSUME Inv, final' = final, bak' \in {bak, "none"}, server' = server,
           pc # "done", pc' # "done"
    PROVE  Promised!LoseCopy \/ UNCHANGED <<final, Aside, Told, Atomic>>
  BY DEF Promised!LoseCopy, Aside, Told, Atomic, Implements, Announced

\* Every step is one of LiveFile's, or leaves the file as it is.
LEMMA StepReplaces ==
    ASSUME Inv, Parked, [Next]_vars
    PROVE  Promised!Next \/ UNCHANGED <<final, Aside, Told, Atomic>>
<1> USE DEF remote, Answered, Refused, Lost, Goto
<1>0. /\ TypeOK /\ OnlyComplete /\ NoBackupPath
      /\ server' = server /\ Atomic' = Atomic
  BY DEF Inv, Next, vars, Open, Write, PublishByPosixRename, DropBackup, Park, Absent, Move, Restore,
         RemoveBackup, CleanupTmp, ClearLeftover, RemoveTmp, Settle, Kill, NextRun,
         SweepStaleTemps, Finished, Atomic, Implements, Announced
<1>1. CASE PublishByPosixRename
  <2>1. tmp = "new" /\ pc # "done"
    BY <1>0, <1>1 DEF PublishByPosixRename, OnlyComplete
  <2>2. \/ MoveTmp
        \/ final' = final /\ bak' = bak /\ pc' # "done"
    BY <1>1 DEF PublishByPosixRename
  <2>3. CASE MoveTmp
    <3>1. final' = "new" /\ Aside' = "none" /\ ~Told /\ Told' \in BOOLEAN
      BY <2>1, <2>3 DEF MoveTmp, Aside, Told
    <3> QED
      BY <1>0, <3>1 DEF Promised!Next, Promised!Replace, Aside, Told, Atomic
  <2> QED
    BY <1>0, <2>1, <2>2, <2>3, Unseen
<1>2. CASE DropBackup \/ SweepStaleTemps
  <2>1. final' = final /\ bak' \in {bak, "none"} /\ pc # "done" /\ pc' # "done"
    BY <1>2 DEF DropBackup, SweepStaleTemps
  <2> QED
    BY <1>0, <2>1, BackupDropped DEF Promised!Next
<1>3. CASE Park
  <2>1. pc = "park" /\ pc' # "done" /\ ~Atomic
    BY <1>0, <1>3 DEF Park, NoBackupPath, BackupPath, Atomic
  <2>2. ParkEffect \/ (final' = final /\ bak' = bak)
    BY <1>3 DEF Park
  <2>3. CASE ParkEffect
    <3>1. final # "none" /\ final' = "none" /\ Aside' = final /\ ~Told /\ ~Told'
      BY <2>1, <2>3 DEF ParkEffect, Aside, Told
    <3> QED
      BY <1>0, <2>1, <3>1 DEF Promised!Next, Promised!SetAside, Aside, Told, Atomic
  <2> QED
    BY <1>0, <2>1, <2>2, <2>3, Unseen
<1>4. CASE Move
  <2>1. pc = "move" /\ pc' # "done" /\ tmp = "new"
    BY <1>0, <1>4 DEF Move, AfterFailedMove, OnlyComplete
  <2>2. MoveTmp \/ (final' = final /\ bak' = bak)
    BY <1>4 DEF Move, MoveEffect
  <2>3. CASE MoveTmp
    <3>1. final' = "new" /\ Aside' = "none" /\ ~Told /\ ~Told'
      BY <2>1, <2>3 DEF MoveTmp, Aside, Told
    <3> QED
      BY <1>0, <3>1 DEF Promised!Next, Promised!Replace, Aside, Told, Atomic
  <2> QED
    BY <1>0, <2>1, <2>2, <2>3, Unseen
<1>5. CASE Restore
  <2>1. pc = "restore" /\ pc' # "done"
    BY <1>5 DEF Restore
  <2>2. (up /\ RestoreEffect) \/ (final' = final /\ bak' = bak)
    BY <1>5 DEF Restore
  <2>3. CASE up /\ RestoreEffect
    <3>1. final = "none"
      BY <2>1, <2>3 DEF Parked
    <3>2. bak # "none" /\ final' = bak /\ Aside = bak /\ Aside' = "none" /\ Told' = Told
      BY <2>1, <2>3, <3>1 DEF RestoreEffect, Aside, Told
    <3> QED
      BY <1>0, <3>1, <3>2 DEF Promised!Next, Promised!PutBack, Aside, Told, Atomic
  <2> QED
    BY <1>0, <2>1, <2>2, <2>3, Unseen
<1>6. CASE RemoveBackup
  <2>1. final = "new" /\ final' = final /\ pc' = "done" /\ Aside' = Aside
    BY <1>0, <1>6 DEF RemoveBackup, OnlyComplete, Aside
  <2> QED
    BY <1>0, <2>1 DEF Promised!Next, Promised!Tell, Aside, Told, Atomic
<1>7. CASE Open \/ Write \/ Absent \/ CleanupTmp \/ ClearLeftover \/ Settle \/ Kill \/ NextRun
  <2>1. final' = final /\ bak' = bak /\ pc # "done" /\ pc' # "done"
    BY <1>7 DEF Open, Write, AfterFailedWrite, Absent, CleanupTmp, ClearLeftover, RemoveTmp,
                Settle, Kill, NextRun, Over
  <2> QED
    BY <1>0, <2>1, Unseen
<1>8. CASE Finished \/ UNCHANGED vars
  BY <1>0, <1>8, Unseen DEF Finished, vars
<1> QED
  BY <1>1, <1>2, <1>3, <1>4, <1>5, <1>6, <1>7, <1>8 DEF Next

\* One file's publish implements LiveFile, for every kind of server and any number of
\* attempts and runs: the target is replaced as a whole (in one step where the server has
\* posix-rename and says so), never goes back, and success is told only of the new
\* content (uploadFile, renameReplace, renameReplaceViaBackup, uploadFileWithRetry).
THEOREM PublishReplacesAtomically == Spec => ReplacesAtomically
<1>1. Init => Promised!Init /\ Parked
  BY DEF Init, Promised!Init, Parked, Implements, Announced, Servers
<1>2. Inv /\ Parked /\ [Next]_vars => [Promised!Next]_(Promised!vars)
  BY StepReplaces DEF Promised!vars, Aside, Told, Atomic
<1> QED
  BY <1>1, <1>2, PublishInv, ParkedInv, PTL DEF Spec, ReplacesAtomically, Promised!Spec

\* Once the new content was live the old one never is again, and is not what is set aside:
\* no restore, in whichever attempt or run, undoes a publish whose answer was lost
\* (renameReplaceViaBackup restores what it parked itself, under its own connection).
OldIsGone == final # "old" /\ Aside # "old"
THEOREM PublishOldNeverReturns == Spec => [][OldIsGone => OldIsGone']_vars
<1>1. Init => Parked
  BY DEF Init, Parked
<1>2. Inv /\ Parked /\ [Next]_vars => [OldIsGone => OldIsGone']_vars
  <2> SUFFICES ASSUME Inv, Parked, [Next]_vars, OldIsGone PROVE OldIsGone'
    OBVIOUS
  <2> QED
    BY StepReplaces
       DEF OldIsGone, Aside, Promised!Next, Promised!Replace, Promised!SetAside,
           Promised!PutBack, Promised!LoseCopy, Promised!Tell
<1> QED
  BY <1>1, <1>2, PublishInv, ParkedInv, PTL DEF Spec
============================================================================
