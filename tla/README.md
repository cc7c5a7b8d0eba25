# A TLA+ model of easySFTP

easySFTP is a GitHub Action, written in Go, that deploys a local directory to an
SFTP server. This directory models the parts of it where a mistake loses somebody's
files, hands a password to the wrong server or hangs somebody's job: a run from its
configuration to its exit, the plan of what is deployed, the opening of the session, the
connections of a run and their automatic tuning, the publishing of one file, the
deletes, the sync mode with its manifest, and the tuning cache that runs share. TLC
checks the models on small instances; TLAPS proves the most important properties of eight
of them for every value of the constants.

All paths below are relative to `src/`; `uploader/` stands for `internal/uploader/`.

## The system

| Component | Source | State it keeps | Operations | Model |
|---|---|---|---|---|
| connection pool and reconnects | `uploader/session.go` | slots, spread, refused flag, reconnect budget, in-flight dials, per connection a generation and an in-flight redial | `acquire`, `dialPooled`, `noteDialFailure`, `reconnect`, `redial`, `do`, `setSpread`, `closeSSH` | `Session` |
| stall watchdog | `uploader/stall.go` | `fired`, active operations, time of last progress | `monitor`, `fire` | `Session` |
| upload phase, retry | `uploader/transfer.go`, `retry.go` | per worker: attempt, connection, client generation | `uploadFiles`, `uploadFileWithRetry`, `uploadFile`, `renameReplace`, `renameReplaceViaBackup`, `sweepStaleTemps` | `Session` (concurrency), `Publish` and `LiveFile` (one file) |
| delete budget | `uploader/remote.go` | `spent` of `safety.max_deletes` | `reserve`, `take`, `refund` | `DeleteBudget` |
| delete phases | `uploader/delete.go`, `uploader.go`, `sync.go` | none of their own | `deleteRemoteFiles`, `removeRemoteDirs`, the clean sweep, `clearCollideParents` | `DeleteBudget`, `SyncRun` |
| sync mode | `uploader/sync.go` | the manifest on the server; the set of completed, pre-deleted and deleted paths of a run | `executeSync` and its recovery paths | `SyncRun` |
| runtime tuning | `uploader/tuning.go`, `internal/autotune/controller.go` | the plan, the spread, the controller's window and pending step, an inherited ceiling | `planFor`, `Observe`, `reject`, `startTuningController`, `cacheObservation` | `Tuning`, `SpreadPolicy`; `Session` (its effect on the pool) |
| planning policy | `internal/autotune/autotune.go` | none | `Plan` and its cost model | `Tuning` (the clamps) |
| tuning cache | `internal/autocache`, `uploader/autocache.go` | a file and a lock file shared by the runs of a runner | `Lookup`, `Validate`, `Update`, `UpdateFile`, `lockPollLoop` | `CacheRecords`, `AutoCache`, `SerialCache` |
| connecting, host keys | `uploader/connection.go`, `hostkeys.go`, `session.go` | open transports, running deadlines, pins per hop | `newSession`, `connect`, `dialSSH`, `dialViaJump`, `hostKeyCallback`, `pinnedHostKeyAlgorithms`, `keepaliveLoop` | `Connect`, `Run` |
| planner, ignore rules | `uploader/planner.go`, `gitignore.go` | none | `buildPlan`, `compileGitignore`, `matchesHow` | `LocalPlan`, `IgnoreRules` |
| configuration | `internal/config` | none | parse, validate | `Targets` (the rules on remote targets) |
| paths and scans | `uploader/remote.go` | none | `checkRemoteRoot`, `leafDirs`, `safeJoin`, `within`, `listRemoteContents` | `Targets` (`checkRemoteRoot`) |
| run orchestration | `uploader/uploader.go` | plans, one budget, one session, the deferred calls | `Run`, `executePlan` | `Run`, `DeleteBudget` (the budget) |
| link probe, benchmark, metrics, Actions output, commands | `internal/linkprobe`, `internal/benchmark`, `internal/metrics`, `internal/gha`, `cmd/` | files and counters | measurements, reports | not modelled |

### How the parts interact

`Run` plans every deployment from the local tree, opens one session, and executes the
deployments one after the other, all under one delete budget. `uploadFiles` starts a
bounded group of workers; each asks the session for a client (`acquire`), works on it,
and asks for a redial when it was lost. Everything else that talks to the server goes
through `session.do`, on slot 0. The watchdog runs beside all of them and, once it
fires, closes every connection it can see; the tuning controller moves `spread` while
workers are being routed by it; the keepalive loop writes to every open client. A failed
sync phase still writes a recovery manifest, over the same session, with the watchdog
taken away if it has fired. On the way out the deferred calls stop the watchdog and the
keepalives, write the run's observation to the tuning cache and close the session.

The parts share state in four ways: the fields of `session` under `mu` (and the
handshakes under `dialMu`), the files on the server, the manifest, which is what one run
tells the next about the target, and the tuning cache, which is what it tells the next
about the server.

### What is hard about it

- **Interleavings.** A slot is dialed without `mu`, a redial runs without it, and the
  watchdog's snapshot of the connections is closed without it. What each of them read
  before is used after.
- **Lost answers.** An SFTP request whose connection drops may have been carried out.
  Publishing, deleting, refunding and recording all have to decide what that means.
- **Kills.** A runner may disappear between two renames, or between an upload and
  the manifest that records it.
- **Runs after runs.** The manifest, the temporary files and the directories a run
  leaves behind are the next run's input, and the tree may have been edited in between.
  The cache's records are merged by jobs that run side by side and may die in the middle.
- **Deadlines.** Each step of opening a session has its own, and a timer that was
  stopped too late closes something that is in use by then.
- **Spelling.** The same target and the same exclude rule can be written in many ways,
  and the guards have to see through all of them.

`PROJECT.json` lists these hazards one by one, each at its line, with the properties
aimed at it.

### What makes each part correct

- pool: one handshake at a time, one redial per lost client, the redials paid from one
  budget, nobody waiting for a dial that is not running, nothing redialed after a kill;
- publish: never a partial live file, never an exposed target where the server can
  avoid it, never the last complete copy taken away, no temporary file left behind;
- budget: never more removals than the limit (it does not hold: `DeleteBudgetRun`);
- sync: a green run is a mirror, foreign files survive, a retry gets through;
- tuning: growth only where files are left to use it, one step back at most, never above
  what an earlier run found the server to allow;
- cache: one merge after the other (as long as nobody loses the lock), a measurement stays with the conditions it was made
  under and is used up, a ceiling expires, a lock never holds a deploy up;
- connecting: nothing left open behind a failed attempt, credentials only to a verified
  hop, a pinned server recognized, an end in bounded time;
- planning: the whole tree, whatever links and pruning do; excludes as git reads them;
- targets: no destructive mode on a root or a drive, nor on or above the login directory by
  a relative name; overlaps announced;
- a run: however it ends, everything it started is taken down.

## The modules

### `Session` - the connection pool and the goroutines around it

A step is one critical section under `session.mu`, one acquisition or release of
`dialMu`, or one call on the network. Connections are named by the slot that dialed
them, which loses nothing since a slot is dialed once; a client is a connection with
its generation (`conn.gen`).

| Variable | Code |
|---|---|
| `conns`, `spread`, `refused`, `reconnects`, `dialing` | the fields of `session`; a channel is represented by the worker that will close it |
| `dialMu` | its holder |
| `gen`, `redialing`, `live` | `conn.gen`, `conn.redialing`, and whether the installed client's transport is open |
| `fired`, `monitor`, `snap` | the watchdog, its goroutine, and the clients `closeSSH` has snapshotted |
| `ctl`, `cur`, `from` | the runtime controller: where it is, its current plan, the plan it may go back to |
| `interrupted`, `unwatched` | the cancelled run context; the recovery manifest's nil watchdog |
| `pc`, `task`, `at`, `mine`, `attempt` | the goroutines' position and their locals |

`Acquire`, `WaitDial`, `LockDial`, `DialEnds`, `InstallDial` and `FallBack` are the
parts of `acquire` and `dialPooled` between two points where another goroutine may
run; `Reconnect`, `WaitRedial`, `RedialWait`, `LockRedial`, `RedialEnds` and
`InstallRedial` are those of `reconnect` and `redial`. `OpReturns`, `OpLost`,
`OpCancelled` and `Backoff` are one operation of `uploadFileWithRetry`,
`remoteSameSize` or `session.do`. `Fire`, `CloseSSHSnapshot` and `CloseSSH` are the
watchdog, `Observe` and `Apply` the controller, `Drop` and `Interrupt` the world.

Abstractions: the watchdog's clock (it may fire whenever a watched operation is
active), the controller's rates (it may judge either way; `Tuning` has them), and what
an operation does on the server.

### `Publish` and `LiveFile` - one file on its way to the server

The state is the content of the target, of `<target>.easysftp-tmp.<n>` and of the
backup, out of {nothing, old, partial, new}, together with the position and locals of
`uploadFileWithRetry`. Each action is one request, and each request has the outcomes
it has in practice: carried out and acknowledged, refused, or lost before or after its
effect. `server` fixes what kind of server it is: whether it implements posix-rename,
whether it announces it, whether its plain rename overwrites. `Kill`, `NextRun` and
`SweepStaleTemps` carry what is left over into the next run. The sweep may take the
backup for old debris, because a renamed file keeps its modification time.

`LiveFile` is the promise for one file: the new content takes the old one's place as a
whole, on a server that replaces a file in one step without a moment in between and on
any other with the old content set aside; success is told only then; and the old content
never comes back. `Publish` implements it (`ReplacesAtomically`): `aside` is the backup
while nothing is live, and `atomic` says that the server has posix-rename and announces it.

### `DeleteBudget` - `safety.max_deletes` over a whole run

`spent` is the budget's counter; `state` is what the worker of an entry is doing.
`Reserve`, and the `take` and `refund` inside `StartDir`, `DirGone`, `DirRefused` and
`DirLost`, are the three operations of `deleteBudget`; the phases are those of
`executeSync` and of `executeOverlayOrClean`, deployment after deployment.
`FileDeleted` and `FileFailed` stand for every rerun of one `Remove` by `session.do`;
`Stop` is any error outside the removals, a cancelled context included.
`removed` and `lost` are history: what the run removed, and how often it removed a
directory without learning of it.

### `SyncRun` - the manifest, run after run

The local tree, the server and the manifest are functions from paths to contents.
`Above` gives a path's directories, `FoldPath` its case-folded key; on a server that
ignores case two spellings are one entry. A run goes through `executeSync` phase by
phase: the collision pre-pass (`PreDelete`, `ClearDir`), the directories
(`CreateDir`), the uploads (`UploadFile`), the deletes (`Delete`), the prune
(`PruneEmptyDir`) and the manifest (`WriteLocal`); a failure ends in one of the two
recovery manifests (`WriteRecoveryManifest`, `WriteKeepingManifest`). Each phase works
through a set, in any order the code's concurrency allows, and stops at a failure.
Between runs the tree is edited (`Edit`) or somebody else writes a file
(`PutForeign`). `Faults` says what may go wrong besides a request being refused. A failed
upload leaves the file as it was, or new (its answer was lost), or, on a server that replaces a
file in two steps (`"window"`), absent (`Stranded`). That is what `LiveFile` leaves of it,
and `Publish` says when; the copy set aside is no part of `disk`. The manifest is replaced
like any other file: a write or a recovery that is cut short, by a failure or by a kill,
leaves the manifest before it, the new one or, on such a server, none (`CutShort`), and the
next run is then a first deployment (`forgot`).

`tried`, `unsure`, `kept`, `forgot` and `stray` are history variables; the properties
use them to say from when on the manifest can be trusted again. `setup` is chosen once:
the trees that occur, whether the server ignores case, and which faults happen.

### `Tuning` and `SpreadPolicy` - how many connections

One run over several deployments. `Begin` is `planFor`, `setSpread` and the start of the
controller; `Start` hands a file to a worker and dials its slot, is refused, or finds it
open; `Finish` and `Retry` are `uploadProgress`. `Observe` is `Controller.Observe` with
its three outcomes: `Reject` (the last step did not pay), `Content` (it did, or there is
nothing to decide) and `Widen`. `StopEarly` is its refusal and retry switch, `Apply` what
`startTuningController` does with a change, and `Report` the run's `cacheObservation`. The cost
model of `autotune.Plan` is not evaluated: it may answer any number its clamps allow, so
what is checked holds for every cost model. A measured throughput is one of `Rates`.

`SpreadPolicy` is the policy in four words: grow, keep, take back, settle. `Tuning`
implements it (`FollowsPolicy`), with the controller's `current`, its `pendingFrom` and a
phase read off its position.

### `CacheRecords`, `AutoCache` and `SerialCache` - the tuning cache

`CacheRecords` has the document and its rules as operators: `Lookup`, `Validate` and
`Update` with its anchor, its ceiling and its cap. A workload is one number that stands for the
features `similar` compares, each by the same band. `AutoCache` is the file as jobs share it: a
step is one operation on the file system (create, stat or remove the lock; load; rename)
together with what the job does by itself until the next one. A killed job leaves its lock
(`Left`) and runs again; a read of the file may fail and counts as an empty store
(`Readable`); `stolen` remembers that a job removed the lock of another one at work.
`SerialCache` is the promise: one write-back after the other, each merged into what the
previous one left, or into an empty store when the file could not be read. `AutoCache`
implements it (`SerialUpdates`) until a lock is stolen, and not afterwards.

### `IgnoreRules`, `LocalPlan` and `Targets` - pure rules

`IgnoreRules` has the exclude patterns. A segment is the set of the names it matches, so
what characters it is written with is left out, and `**` is a segment of its own.
`GitIgnores` is the reference: git's own walk, which stops at an excluded directory.
`LocalPlan` is `buildPlan` over a tree, a list of compiled rules and a source behind
links, which the two resolvers (`EvalSymlinks`, the final path of a junction) may follow,
fail on or, a reparse point that is no link, answer with the path itself. `Targets` has `NormalizeRemote`, the drive spellings, `checkSyncTargets`,
`SyncTargetWarnings` and `checkRemoteRoot`.

### `Connect` - opening the session

`newSession`'s loop around `connect`. `step` is where it is, `hop` the hop it is working
on; `owned` the transports it holds open, `dead` those a timer has shut, `armed` the
deadline that is running and `firing` the timer callbacks that have started and not yet
closed anything. `Fail` is every error path: what it releases depends on the step
(`Released`), and whether another attempt follows on the error's class
(`isRetryableConnect`). A hop's pins are SHA256 fingerprints and known_hosts keys; a
server is an owner and the key types it holds, and an impostor is a server with another
owner. `sent` is history: which hop was given credentials under which key.

### `Run` - from the configuration to the exit

Composes `Targets`, `LocalPlan` and `Connect`. `Load` is the configuration's rules,
`CompileLine` and `BuildPlan` the plan of each deployment, `Connecting` and `Probing` the
steps of `Connect`, `Opened` everything `Run` starts once it has a session, `Deploy` one
deployment's outcome, and `StopWatch`, `StopKeepalives`, `SaveCache`, `CloseConnections`
and `Return` the deferred calls in their order. `Ping` and `PingWritten` are a keepalive
request. A configuration and its exclude lines are chosen when the code first reads
them, and forgotten when it is done with them: the parts before the network are
independent of those after it.

The modules named `MC...` hold the small instances, those named `...Proofs` the
theorems.

## What TLC checks

| Run | Instance | Shows |
|---|---|---|
| `SessionPool` | 2 workers and the recovery manifest, 3 slots, 2 retries, controller on | `OneHandshake`, `RedialOwnsClient`, `RedialsArePaidFor`, `OneDialPerSlot`, `DialWaitersAreServed`, `NoRedialAfterKill` through every interleaving of workers, drops, refusals, the watchdog, the controller, an interrupt and the recovery manifest (2.8 million states) |
| `SessionReturn` | 2 workers of one slot, 1 caller of `do`, 2 slots | `AllReturn`: against a server that answers, everybody returns |
| `PublishServers` | 3 attempts, 2 runs, 8 kinds of server | `ReplacesAtomically`: `Publish` implements `LiveFile`; `NeverPartial`, `FailureLeavesNoDebris`, `NeverMissing`, `PublishKeepsACopy` (56,000 states) |
| `SyncRuns` | 4 runs over 4 trees with every fault on a server that replaces a file in one step, over 3 trees on one that does it in two, over 4 trees on one that does so and ignores case with two spellings of a name, and over 3 trees with a directory in a directory | `GreenMeansMirror`, `ForeignSurvives`, and, as long as every manifest is written, `RetrySucceeds` (645,000 states); the manifest may be lost between the two renames of its own replacement |
| `TuningRun` | deployments of 10 and 2 files, 4 workers, 4 connections, pinned or not, an inherited ceiling or not | `GrowthIsCashed`, `FollowsPolicy`, `CeilingHolds`, `RunReports` (32,000 states) |
| `AutoCacheRuns` | 2 jobs that run again after a kill, 2 servers, 3 runs, 2 days, a file of one record, failing reads and writes | `RunEnds`; until one job removes the lock of the other at work, `AnchorStays`, `MeasurementIsSpent`, `CeilingExpires` (357,000 states) |
| `RunLifecycle` | every target of up to 3 names and pairs of 8 targets; lists of up to 3 of 11 exclude lines over a tree of 8 entries; direct and jump-host settings with 6 kinds of pins per hop, 4 kinds of servers, 1 retry; links that are resolved, refused and walked as they are | `TargetsAreGuarded`, `PlanIsTheWholeTree`, `ExcludesLikeGit`, `LastLineWins`, `AttemptLeavesNothing`, `CredentialsOnlyToVerified`, `PinnedServerIsRecognized`, `CleanExit`, `RunEnds` (152,000 states) |

Five runs find a behaviour that a comment or a document of the repository rules out:

| Run | Property | Counterexample |
|---|---|---|
| `SessionStall` | `StallEndsPhase` | the watchdog fires while the first dial of a slot is in flight. `closeSSH` cannot see it, `acquire` installs it without asking about `fired`, and the upload on it has no watchdog left |
| `PublishRetry` | `OriginalNeverLost` | the answer to the park is lost; the retry removes "a leftover backup", which is the original, and its rename is refused |
| `DeleteBudgetRun` | `MaxDeletesHolds` | a clean and two sync deployments, 9 entries, limit 5: the server removes a directory, the connection drops before the answer, the charge is refunded, and a sixth entry is removed |
| `SyncRevert` | `FailureIsRecorded` | a failed change of a directory into a file keeps the deleted entries in the manifest. Going back to the old tree finds them unchanged: the run is green and the files are missing |
| `ConnectProbe` | `ConnectIsBounded` | the server falls silent after the SFTP handshake. The connect deadline is disarmed, the link probe waits for an answer, and the watchdog is started only after `newSession` returned |

`PROJECT.json` quotes the line each of them contradicts.

Weaker statements hold in their place, checked by the passing runs or proved: after a kill
only redials are barred (`NoRedialAfterKill`), only a presumed leftover can cost the
last copy (`PublishKeepsACopy`), the delete limit is exceeded at most by the removals whose
answer was lost (`RemovesWithinLimit`, `DeleteBudgetProofs`), a green run is a mirror once the manifest can be
trusted (`GreenMeansMirror`, which names when that is), and with `advanced.timeout` set a
run ends as long as the server answers the probe (`RunEnds`).

### Where a property stops short of the documentation

Three more statements of the repository are not true of the code. The models contain the
behaviours, and the properties that come closest exempt them in their formula:

- **The cache's lock can be taken from a job at work.** `UpdateFile` "serializes one run's
  read-modify-write with every other process using the same cache path"
  (`internal/autocache/store.go:80`), and `docs/configuration.md:311` says that "write-back
  is serialized and merges". `lockPollLoop` judges the age of a lock file and then removes
  whatever has its name (`store.go:200`). A run is killed and leaves its lock; the job's next
  run and another job both find it stale; the faster removes it and takes the lock, the
  slower removes that one. Both load the file, and the second rename loses the first one's
  observation. TLC finds it in the instance of `AutoCacheRuns`, two jobs and three runs, when
  `SerialUpdates` is added to its properties. The properties of the records say
  `stolen \/ ...`, and the refinement is proved under `[]~stolen`. It costs a measurement,
  never a deployment. A write-back that cannot read the file replaces it by its own record
  (`store.go:91`); that one is in `SerialCache` (`StartOver`), since the code says so.
- **The login directory is recognized by its relative names only.** `docs/strategies.md:190`:
  "No mode will ever wipe a server root or a login directory." `checkRemoteRoot`
  (`uploader/remote.go:189`) refuses `.`, `~` and what climbs above, but not `/home/user` on a
  server where sessions start there: it does not know where that is. `TargetsAreGuarded`
  promises of an absolute target only that it is not the root or a drive. Its second half,
  overlaps, is about two absolute or two relative targets that are both let through: names
  are compared, so `/home/user/www` and `www` are not recognized as one directory.
- **A link that is not resolved is walked.** `buildPlan` fails the run when a junction cannot
  be resolved, "because silently walking the junction instead would reproduce the empty
  plan, which for clean and sync deletes the target's contents on a green run"
  (`uploader/planner.go:150`). A few lines above, an error of `EvalSymlinks` leaves the
  symlink as the root (`planner.go:137`): outside Windows the walk sees one entry that is no
  regular file, and the plan is that empty one. A reparse point whose final path is itself
  ends the same way (`planner.go:159`). `PlanIsTheWholeTree` and `ExcludesLikeGit` are about the
  other sources (`Resolvable`).

### Other behaviours

Behaviours that the models contain, or that came up while they were written, without a
property of their own:

- one more handshake may be tried between a refusal and its note (`dialPooled` releases
  `dialMu` first), and a second refusal recomputes the spread from the slots opened
  since, so it may raise it;
- a charge held for a directory that turns out to be in use can make the prune skip an
  empty sibling although the charge comes back;
- a run killed between the two renames of the backup path leaves the live content only
  in a backup that the next run's sweep may remove;
- a directory that becomes a file, with a directory `a/x` in it and a file `a/y`: when the
  pre-delete removes the only file of `a/x` and the removal of `a/y` fails,
  `recoveryFilesGone` (`sync.go:188`) drops the first file from the manifest. `a/x` stays
  behind, empty; the retry removes `a/y`, does not know of `a/x`, and fails to remove `a`,
  as does every run after it. That is the fate the comment above it describes for the
  other recovery manifest ("dropping the entries here is what strands the retry"); two
  directories that become files in one run meet it as well. `RetrySucceeds` leaves out what
  happens after such a pre-delete (`stray`), and without that condition TLC finds this
  behaviour over the two trees alone;
- a run that cannot read the manifest uploads files which the manifest lists. On a server
  that replaces a file in two steps such an upload may strand a file, and when the run is
  then killed the next one, reading the manifest again, skips the file as unchanged: green
  and without it. The later sweep drops the backup, the only copy. `Trustworthy` leaves
  this out (`NoneAside`); without that condition TLC finds it with one tree;
- a manifest lost between the two renames of its own replacement makes the next run a first
  deployment: it uploads everything and deletes nothing, so a file that the tree dropped in
  the meantime stays, and no later run knows of it. `GreenMeansMirror` does not promise
  otherwise once a manifest was forgotten;
- a run killed after it turned a file into a directory, before its manifest, has the same
  effect: `RetrySucceeds` is stated where every manifest is written;
- with an inherited ceiling of 2 the controller may "grow" from 2 to 4, be clamped to 2,
  judge the step by noise, take it back and have the ceiling stored as fresh evidence;
  and the number it stores is that of the last deployment, however small;
- a keyboard-interactive challenge for a second secret is retried like a network error,
  because `x/crypto` passes on the callback's own error;
- a sync into `/` or `.` with a clean below it gets no warning (nothing is "under" a
  root), and is refused only when the sync has something to delete.

### Bounds, and why they are enough

- `SessionPool`: files 1 and 5 meet on slot 1 while the spread is 2, so one waits for
  the other's first dial or redial, and go to slots 1 and 2 when the controller has
  raised it to 3, so one may be refused while the other waits for `dialMu`. The recovery
  manifest is the third user of the pool, on slot 0. Two retries allow two redials in the
  whole run: enough for two at once, of one client or of two, and the budget is spent by
  the third loss.
- `Publish`: two retries let a retry meet what a retry left behind; two runs let the
  sweep meet it. Contents are the four the properties tell apart.
- `DeleteBudget`: every kind of batch occurs, with two prunable siblings that take and
  refund concurrently and a parent after them. Depending on what is there and what is
  refused, the limit is met by a take of the second deployment's prune, by the third
  deployment's reservation, or by the take in its collision pre-pass.
- `SyncRun`: four runs are a first deployment, a failure, an edit or retry, and the run
  that shows what they made of the manifest. The paths hold a directory with two entries,
  one of them a file or a directory, that may become a file. No symmetry is used: the paths differ.
- `Tuning`: ten files on four workers leave a queue of six, enough for a step from 1 to 2
  and one from 2 to 4, each judged by a window of two files; `MaxConnections` stands for the
  policy's maximum. The second deployment is too small for the controller.
- `AutoCache`: `MaxRuns` is three: one run measures, one reuses, one is refused by a
  spent record; or one is killed and two meet over its lock. `MaxReuse` and `MaxCeilingCarry` are 1, so the second use is one too many.
  `MaxRecords` is 1, so the second server evicts the first. `Horizon` and `MaxAge` let a
  record grow old in the middle of a run.
- `Run`: three lines (`MaxLines`) are a re-include, an exclude of a directory above it
  and one between them, in every order; the tree has a directory in a directory. Two
  attempts (`Retries` is 1) let the second meet what the first left. Two deployments
  (`Deployments`) let the second fail after the first succeeded. In `ConnectProbe` the
  lists have one line: it is about what comes after.

### Fairness

`CodeFairness` says that goroutines keep running, that handshakes end (`connect` is
bounded by `advanced.timeout`) and that the watchdog's goroutine goes on once it has
fired. It does not make the watchdog fire or the server answer. `StallSpec` adds
nothing to it, so a request may stay unanswered for ever; that is the setting of
`StallEndsPhase`. `FairSpec` adds that the server answers what it is asked over an
open connection, and is the setting of `AllReturn`.

In `Run`, `SilentSpec` assumes that the process goes on by itself, that timers fire, that
a deployment ends (which is `Session`'s business) and that a request on a connection that was
closed returns. It assumes nothing about a server's answers, and nothing about how long
planning takes. It is the setting of `ConnectIsBounded`; `FairSpec` adds that the server
answers the link probe, and is the setting of `RunEnds`. `AutoCache` assumes of each job
that a write-back it has begun goes on, not that a job runs again or that a killed job's lock
is ever cleaned up or grows stale; `Tuning`
that transfers end and the controller applies what it decided, not that a window is ever
measured. The other specifications are safety only.

## What is proved

The proofs hold for every number of files, slots, retries, runs, deployments, entries,
jobs, lines and names in a path. Each follows the same pattern: an inductive invariant, a lemma that the
initial states satisfy it, a lemma with one case per action that every step keeps it,
and each theorem from it.

**`SessionProofs`**, from `SizesAssumption` (the sizes are naturals, there is at least
one slot, the start spread is within the ceiling) and `NamesAssumption` (goroutines and
slots are distinct from each other and from nil). `OneHandshake` is not inductive:
nothing in it says who holds `dialMu`. The invariant `Inv` adds

- `DialMuHeld`: whoever is in a handshake holds `dialMu`;
- `DialOwnsSlot`: whoever is dialing a slot owns its channel, and the slot is empty;
- `AttemptLeft`: a worker that redials for an upload has an attempt left, without which
  the type of `attempt` would not be kept;
- `FirstIsOpen`: slot 0 holds connection 0, so falling back to it is possible and
  `openSlots` is at least 1;
- `RedialOwnsClient` and `DialWaitersAreServed` themselves.

Theorems: `SessionTypeOK`, `SessionOneHandshake`, `SessionRedialOwnsClient`,
`SessionOneDialPerSlot` (from `DialOwnsSlot`), `SessionDialWaitersAreServed`,
`SessionRedialsArePaidFor` (a second invariant counts the clients by connection and
generation; cardinality lemmas carry the step in which a redial in flight becomes a
client) and the action property `SessionNoRedialAfterKill`.

**`PublishProofs`**, from `PublishAssumption`. The invariant says that only complete
content is moved (`OnlyComplete`), that the target is untouched until the first attempt
parks it (`Untouched`), that a temporary file outside an attempt is known of (`Tidy`),
and that a server which has and announces posix-rename never sees the backup path
(`NoBackupPath`). The refinement needs one more, `Parked`: while the local `parked` is set
nothing is live before the move, and a restore runs either with nothing live or over a
connection that is gone. The second case is the one that matters. The move took effect, its
answer was lost, and on a server whose rename overwrites a restore would put the old
content back over the new; it cannot, because the loss of the answer took the connection
with it. Theorems: `PublishTypeOK`, `PublishNeverPartial`,
`PublishDoneMeansPublished`, `PublishFailureLeavesNoDebris`,
`PublishFirstAttemptKeepsOriginal`, `PublishNeverMissing`, the action properties
`PublishKeepsACopyHolds` and `PublishOldNeverReturns` (once the old content is neither live
nor set aside, no attempt and no later run brings it back), and the refinement
`PublishReplacesAtomically`.

**`DeleteBudgetProofs`**, under the hypothesis `BudgetAssumption` (finitely many entries, each
of one deployment). The limit itself does not hold (`DeleteBudgetRun`); `RemovesWithinLimit`
says by how much it can be exceeded. It counts what was removed, the code counts charges; the
invariant `Charged` connects the two: the entries accounted for, and those in flight,
are never more than what is spent plus what was lost. Theorems: `BudgetTypeOK`,
`BudgetRemovesWithinLimit`.

**`ConnectProofs`**, from `ConnectAssumption` (settings and servers of their types).
`AttemptLeavesNothing` needs to know what every step in between holds; the invariant
`CInv` adds

- `Held`: which transports are open at each step, for each hop and with or without a
  jump host;
- `Checked`: no hop is dialed before both have a host key check;
- `Verified`: while a hop authenticates, its key has passed that hop's own callback, and
  nothing was sent before `newSession` was called, which is when the settings are fixed.

Theorems: `ConnectLeavesNothing`, `ConnectCredentials` and `ConnectRecognizes`, which
rests on a lemma about the key type that both sides agree on.

**`RunProofs`** shows that a run, seen through the connection's variables, is a behaviour
of `ConnectSpec` (`RunConnects`: every step of `Run` is a step of `Connect` or leaves its
variables alone), and carries the three theorems over (`RunLeavesNothing`,
`RunCredentials`, `RunRecognizes`). `RunCleanExit` is proved from `Stage`, which says for
each position of `Run` what is running, what was saved and where the connection is.
`RunTypeCorrect` is `TypeOK`.

The plan: the invariant `Planned` says that the plan on hand is `buildPlan` of a source
and the lines compiled so far, and not a failed one; `RootIsDirectory` says that of a source
in `Resolvable` no link is left by then. The rest is about the rules, for every tree and every list of
lines. The matcher of a single pattern is never looked into, so the results hold for
whatever a pattern matches:

- `LastLine` and `DecidingLine`: the last line that matches a path, and the last that
  excludes a directory above it; `Verdict` puts `matchesHow` in terms of the two;
- `PruningIsSound`: without a `!` line everything below an excluded directory is excluded;
- `AgainstGit`: the verdict against `GitIgnores`;
- `AppendedVerdict`: what one more line does to the verdict on a path.

From these come `RunPlansTheWholeTree`, `RunExcludesLikeGit` and the action property
`RunLastLineWins`. They use `TreeAssumption` (a path is a sequence of names, an entry is a
directory, a file or something else).

The targets: `NormalizedIsClear` says what `path.Clean` leaves of a path of any length (no
`.`, and `..` only at the front of a relative path), `PlainNames` that it leaves plain names
alone, `TouchingTargets` that two targets which are let through and touch are one target or
one under the other. `Announced` is the invariant that connects them to the run, and
`RunTargetsAreGuarded` the result. `ConfigurationAssumption` says what a configuration is;
`HomeAssumption`, that the login directory's name is not a drive.

**`TuningProofs`**, from `TuningAssumption`. The invariant adds to the types that slots are
used below the widest spread only and the first is open (`SlotsInUse`), that the controller
judges only steps that went up and only with a rate to compare with (`StepsKnown`), that the
steps back are counted by the deployments begun (`StepsCounted`), and that nothing went over
the ceiling (`UnderCeiling`, `Reported`). Theorems: `TypeCorrect`, `CeilingRespected`, the
action property `GrowthCashed`, and the refinement `PolicyFollowed`.

**`AutoCacheProofs`**, from `CacheAssumption` and `AutoCacheAssumption`: any number of jobs,
killed and run again, with failing reads and writes. The invariant says who holds the lock
until one is stolen (`Exclusive`), that what is about to be written is one merge into what
the file holds or into an empty store (`Fresh`), and that the history the properties speak of
is in the records' own counts (`RecordsCounted`); a theft is never forgotten, so the last two
are kept up to it. Theorems: `TypeCorrect`, `AnchorKept`, `MeasurementSpent`, `CeilingGone`,
and the refinement `UpdatesSerial` under the condition that no job at work loses its lock,
which the code does not guarantee.

**`SyncProofs`**, from `SyncAssumption` and `TreesFit` (on a server that ignores case, no
tree has two files for one directory entry: no server could hold its mirror).
`GreenMeansMirror` speaks of the end of a run and is far from inductive. The invariant
follows `Live`, the manifest that would be true now (what the run read, with the requests
that were acknowledged), and has five parts beyond the types:

- `RunShape`: how far a run is in its plan, phase by phase;
- `OneName`: no two files of a listing are one directory entry;
- `Clean`: as long as every effect was recorded, the record is true of the server and, unless
  a manifest was forgotten, covers everything a sync put there, whatever was deployed;
- `SameTree`: as long as one tree was deployed, whatever happened, what a run of it would
  skip is there, and what it would neither delete nor overwrite is not;
- `WellDone`: a finished run's manifest is its tree.

A lost manifest (`CutShort`) is a forgotten one: `forgot` drops the half of `Clean` and
`SameTree` that says nothing is left over, and keeps the half that says what is listed is
there.

TLC checked it as an invariant of `SyncRuns` before it was proved. Theorems: `TypeCorrect`,
`GreenIsMirror`, and the action properties `ForeignKept` and `UnchangedKept` (whatever the
manifest is worth, no step of a run touches a file that it lists with the hash it has now).

`RetriesSucceed` is about the server a failed run leaves behind. It rests on two more
assumptions: `PathsAssumption` (there are finitely many paths, the directories of a path are
a chain from the top, and `foldPath` folds a path name by name; NFKC gives a few code points
a slash, and names with those are left aside) and `TreesNest` (no file of a local tree is a
directory in it). Its invariant `RetryInv` follows `OnBooks`, what the next step of a run may
take for listed, and says

- `OnlyOurs`: no manifest was forgotten and nothing of anybody else's is there;
- `BooksClear`: what is on the books is no directory and has no file above it, so its
  removal or its upload meets neither;
- `DirsKnown`: as long as one tree was deployed, a directory where the tree has a file, or
  below one, has an entry on the books below it, so `clearCollideParents` finds it;
- `RoomMade`: how far the clearing and the making of directories have come;
- `NothingBlocks`: a run of the one tree that met no fault has not failed.

`RetrySucceeds` itself names what is left out. `OneSpellingPerDir` is a condition because
`collidingDeletes` compares whole folded paths: on a server that ignores case a stale file
`A` stands in the way of a planned `a/b` in every run, and `MkdirAll` fails each time.
`stray` is one because of the pre-delete described above: `DirsKnown` is exactly what it
breaks, since the recovery manifest then forgets the last entry below a directory that is
still there. TLC finds both behaviours when the conditions are dropped, the first one with a
spelling `A` of `a` added to the instance.

### Refinements

Four, all proved and the first two also checked by TLC: `Publish` implements `LiveFile`
(`PublishReplacesAtomically`), `Tuning` implements `SpreadPolicy` (`PolicyFollowed`), `AutoCache` implements `SerialCache` while no job at work loses its lock
(`UpdatesSerial`), and `Run` implements `ConnectSpec` (`RunConnects`).

### Recursion

The library's induction theorems take an operator as a parameter, which the provers cannot
instantiate. Where the code has a loop over a list that a proof must see through
(`Others` for `put`, `kept` for `path.Clean`), the model has a recursive function and the proof
an induction over a set of numbers: `SetInduction`, from the well-foundedness of `<`. The
function's existence is proved that way too.

### What is only model-checked

- Liveness under fairness (`AllReturn`, `StallEndsPhase`, `RunEnds`, `RunReports`,
  `ConnectIsBounded`), and `ENABLED`: out of this prover's reach.
- What the matcher of one pattern (`matchSegmentsExact`) computes: TLC compares whole plans
  on the instance's lines.

## What is not modelled

- Time: the watchdog's quiet period, the length of keepalive intervals, backoffs and
  tuning windows. Where they matter, the model lets the timer expire at any moment.
- The SFTP protocol below a request, permissions and modification times beyond the
  sweep's use of them, symbolic links on the server, dry runs, statistics, logging.
- The hash fast path of sync (size and time before hash), the manifest's formats and
  the confinement of its keys.
- A local file that changes while it is being deployed: content is one value per run.
- The cost model of `autotune.Plan`: floating-point arithmetic. `Tuning` holds for any
  answer it gives within its clamps.
- The spelling of pins, algorithms and patterns: what characters a fingerprint, a
  known_hosts line or a bracket expression is made of.
- The reading of inputs and YAML, and the checks of single fields.
- The link-probe tool, the benchmark tooling, metrics and reports: measurement and
  formatting.

## Plan

1. Proofs: an abstract `Mirror` specification (the target follows the tree, other people's
   files stay) implemented by the sync on trusted manifests, which would put `GreenIsMirror`,
   `ForeignKept` and `UnchangedKept` into one statement; its uploads as instances of
   `LiveFile`.
2. `SyncRun`: the local file changing under a run, the status vocabulary of servers
   (`remoteAbsent`, what a refused delete is taken for), the hash fast path.
3. Path algorithms against reference definitions over bounded inputs: `leafDirs`,
   `safeJoin` and `within`, `listRemoteContents`, `isTempFileName`.
4. The watchdog's clock with the progress reader.
