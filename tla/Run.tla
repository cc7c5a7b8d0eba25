--------------------------------- MODULE Run ---------------------------------
(***************************************************************************)
(* One run from the configuration to the exit: config.Load's rules on the  *)
(* targets, Run (internal/uploader/uploader.go) and what it starts and     *)
(* takes down again around the deployments: the local plans, the session,  *)
(* the tuning cache's write-back, the keepalive loop (connection.go) and   *)
(* the stall watchdog.                                                     *)
(*                                                                         *)
(* Composes Targets, LocalPlan and Connect.  What a deployment does on the *)
(* server is in Session, Publish, SyncRun and DeleteBudget; here it        *)
(* succeeds or fails.  The configuration and the exclude lines are chosen  *)
(* when the code first reads them and forgotten once it is done with them. *)
(***************************************************************************)
EXTENDS Connect, LocalPlan, Targets

CONSTANTS
    Configurations,  \* the deployment lists a configuration may hold
    Lines,           \* the exclude lines a deployment may have
    Sources,         \* the sources it may name
    MaxLines,        \* the most lines it has
    Deployments      \* how many deployments are planned and executed

ASSUME RunAssumption == Sources \subseteq Source /\ MaxLines \in Nat /\ Deployments \in Nat

\* A configuration is a list of deployments, each a written target and a strategy.
ASSUME ConfigurationAssumption ==
    Configurations \subseteq Seq([remote : [abs : BOOLEAN, names : Seq(STRING)],
                                  strategy : {"overlay", "sync", "clean"}])

VARIABLES
    pc,         \* where Run is
    uploads,    \* cfg.Uploads, while Load and Run look at the targets
    warned,     \* the overlaps Run has warned about
    rules,      \* the compiled exclude lines of the plan being built
    plan,       \* the plan, with the source it was built from
    done,       \* deployments planned, and later executed
    result,     \* "none", "ok", "error"
    saved,      \* how often the tuning cache was written back
    watching,   \* the stall watchdog's goroutine runs
    keepalive,  \* keepaliveLoop runs
    pinging     \* a keepalive request is in flight on the connection

lvars == <<uploads, warned, rules, plan>>
bvars == <<watching, keepalive, pinging>>
rvars == <<pc, lvars, done, result, saved, bvars>>
vars == <<rvars, cvars>>

NoSource == [links |-> <<>>, kind |-> "none"]
Unplanned == [source |-> NoSource, strategy |-> "none", of |-> NoPlan]
Unwinding == {"watch", "keepalive", "save", "close", "report"}

----------------------------------------------------------------------------
(* Before the network. *)

\* Load: validate refuses the configuration, or Run warns and goes on.
Load(u) ==
    /\ pc = "load"
    /\ uploads' = u
    /\ IF checkSyncTargets(u)
       THEN pc' = "start" /\ warned' = SyncTargetWarnings(u) /\ result' = result
       ELSE pc' = "exit" /\ warned' = {} /\ result' = "error"
    /\ UNCHANGED <<rules, plan, done, saved, bvars, cvars>>

\* newDeleteBudget, newTuning, openAutoCache.
StartRun ==
    /\ pc = "start"
    /\ pc' = "scan" /\ uploads' = <<>> /\ warned' = {}
    /\ UNCHANGED <<rules, plan, done, result, saved, bvars, cvars>>

\* compileGitignore's next line; a syntax error ends the run.
CompileLine(line) ==
    /\ pc = "scan" /\ Len(rules) < MaxLines
    /\ IF line.bad
       THEN pc' = "report" /\ result' = "error" /\ rules' = <<>>
       ELSE pc' = pc /\ result' = result /\ rules' = Append(rules, compileGitignore(line))
    /\ UNCHANGED <<uploads, warned, plan, done, saved, bvars, cvars>>

\* buildPlan, whose error ends the run.
BuildPlan(source, strategy) ==
    /\ pc = "scan"
    /\ plan' = [source |-> source, strategy |-> strategy,
                of |-> buildPlan(source, strategy, rules)]
    /\ IF plan'.of.ok THEN pc' = "planned" /\ result' = result
                      ELSE pc' = "report" /\ result' = "error"
    /\ UNCHANGED <<uploads, warned, rules, done, saved, bvars, cvars>>

\* The next plan, or, after the last, resolveRunWide and the cache lookup.
NextPlan ==
    /\ pc = "planned"
    /\ rules' = <<>> /\ plan' = Unplanned
    /\ IF done + 1 < Deployments THEN pc' = "scan" /\ done' = done + 1
                                 ELSE pc' = "connect" /\ done' = 0
    /\ UNCHANGED <<uploads, warned, result, saved, bvars, cvars>>

----------------------------------------------------------------------------
(* The session. *)

\* newSession, step by step (see Connect).
Connecting ==
    /\ pc = "connect"
    /\ (\E c \in Settings : Begin(c)) \/ Local \/ Answer
    /\ UNCHANGED rvars

Probing ==
    /\ pc = "connect" /\ ProbeAnswered
    /\ UNCHANGED rvars

\* A timer of the connection may still fire while the run is under way.
LateKill ==
    /\ pc \in {"deploy"} \cup Unwinding /\ TimerKills
    /\ UNCHANGED rvars

\* newSession returned an error: only the deferred report is left.
NoSession ==
    /\ pc = "connect" /\ step = "failed"
    /\ pc' = "report" /\ result' = "error"
    /\ UNCHANGED <<lvars, done, saved, bvars, cvars>>

\* It returned a session: the cached record is confirmed against the link and
\* applied, the keepalive loop and the watchdog are started.
Opened ==
    /\ pc = "connect" /\ step = "open"
    /\ pc' = "deploy" /\ keepalive' = TRUE
    /\ watching' \in BOOLEAN          \* advanced.stall_timeout > 0
    /\ UNCHANGED <<lvars, done, result, saved, pinging, cvars>>

----------------------------------------------------------------------------
(* The deployments. *)

\* Mutant: an error of a deployment returns past the deferred calls.
DeployBare(r) ==
    /\ pc = "deploy" /\ done < Deployments
    /\ IF cancelled \/ r = "error" THEN pc' = "report" /\ result' = "error" /\ done' = done
                                   ELSE pc' = pc /\ result' = result /\ done' = done + 1
    /\ UNCHANGED <<lvars, saved, bvars, cvars>>

\* Run's loop: the context, then executePlan.
Deploy(r) ==
    /\ pc = "deploy" /\ done < Deployments
    /\ IF cancelled \/ r = "error" THEN pc' = "watch" /\ result' = "error" /\ done' = done
                                   ELSE pc' = pc /\ result' = result /\ done' = done + 1
    /\ UNCHANGED <<lvars, saved, bvars, cvars>>

AllDeployed ==
    /\ pc = "deploy" /\ done = Deployments
    /\ pc' = "watch" /\ result' = "ok"
    /\ UNCHANGED <<lvars, done, saved, bvars, cvars>>

\* keepaliveLoop's tick: one request per connection at a time.
Ping ==
    /\ keepalive /\ ~ pinging /\ pinging' = TRUE
    /\ UNCHANGED <<pc, lvars, done, result, saved, watching, keepalive, cvars>>

\* The request is written; it may sit on a wedged transport until that is
\* closed.  The goroutine then reports to the loop, or sees it is gone.
PingWritten ==
    /\ pinging /\ pinging' = FALSE
    /\ UNCHANGED <<pc, lvars, done, result, saved, watching, keepalive, cvars>>

----------------------------------------------------------------------------
(* Unwinding: the deferred calls, last registered first. *)

\* watch.stop
StopWatch ==
    /\ pc = "watch" /\ pc' = "keepalive" /\ watching' = FALSE
    /\ UNCHANGED <<lvars, done, result, saved, keepalive, pinging, cvars>>

\* stopKeepalives
StopKeepalives ==
    /\ pc = "keepalive" /\ pc' = "save" /\ keepalive' = FALSE
    /\ UNCHANGED <<lvars, done, result, saved, watching, pinging, cvars>>

\* cache.report and cache.save, from a run that failed too.
SaveCache ==
    /\ pc = "save" /\ pc' = "close" /\ saved' = saved + 1
    /\ UNCHANGED <<lvars, done, result, bvars, cvars>>

\* sess.close
CloseConnections ==
    /\ pc = "close" /\ pc' = "report" /\ CloseSession
    /\ UNCHANGED <<lvars, done, result, saved, bvars>>

\* tune.report, and Run returns.
Return ==
    /\ pc = "report" /\ pc' = "exit"
    /\ UNCHANGED <<lvars, done, result, saved, bvars, cvars>>

Unwind == StopWatch \/ StopKeepalives \/ SaveCache \/ CloseConnections \/ Return

CancelRun == pc \in {"connect", "deploy"} /\ Cancel /\ UNCHANGED rvars

----------------------------------------------------------------------------
Init ==
    /\ ConnectInit
    /\ pc = "load" /\ uploads = <<>> /\ warned = {} /\ rules = <<>> /\ plan = Unplanned
    /\ done = 0 /\ result = "none" /\ saved = 0
    /\ watching = FALSE /\ keepalive = FALSE /\ pinging = FALSE

Planning ==
    \/ (\E u \in Configurations : Load(u)) \/ StartRun
    \/ (\E l \in Lines : CompileLine(l))
    \/ (\E s \in Sources, st \in {"overlay", "clean"} : BuildPlan(s, st))
    \/ NextPlan

Executing == NoSession \/ Opened \/ (\E r \in {"ok", "error"} : Deploy(r)) \/ AllDeployed

Next ==
    \/ Planning \/ Connecting \/ Probing \/ LateKill \/ Executing
    \/ Ping \/ PingWritten \/ Unwind \/ CancelRun

Spec == Init /\ [][Next]_vars

\* The process runs on, timers fire, a deployment ends (Session's business),
\* and a request on a connection that was closed returns.  Nothing is assumed
\* of the server while a deadline covers it.
SilentFairness ==
    /\ WF_vars(Executing) /\ WF_vars(Unwind)
    /\ WF_vars(pc = "connect" /\ (\E c \in Settings : Begin(c)) /\ UNCHANGED rvars)
    /\ WF_vars(pc = "connect" /\ Local /\ UNCHANGED rvars)
    /\ WF_vars(PingWritten /\ owned = {})

SilentSpec == Spec /\ SilentFairness

\* The server answers the link probe, too.
FairSpec == SilentSpec /\ WF_vars(Probing)

----------------------------------------------------------------------------
(* Properties. *)

TypeOK ==
    /\ ConnectTypeOK
    /\ pc \in {"load", "start", "scan", "planned", "connect", "deploy", "exit"} \cup Unwinding
    /\ uploads \in Configurations \cup {<<>>}
    /\ warned \subseteq (DOMAIN uploads) \X (DOMAIN uploads)
    /\ Len(rules) <= MaxLines
    /\ plan.of.files \subseteq DOMAIN Tree \cup {baseName}
    /\ done \in 0 .. Deployments /\ result \in {"none", "ok", "error"}
    /\ saved \in Nat /\ {watching, keepalive, pinging} \subseteq BOOLEAN

\* A sync and a clean deployment whose targets overlap, written the same way.
Overlap(i, j) ==
    LET s == Target(uploads[i])
        c == Target(uploads[j])
    IN  /\ uploads[i].strategy = "sync" /\ uploads[j].strategy = "clean"
        /\ s.abs = c.abs /\ Touch(Directory(s), Directory(c))

\* A relative target is strictly below the login directory, one on a drive below
\* the drive, and an absolute one is not the root.
BelowRoot(remote) ==
    LET p == NormalizeRemote(remote)
    IN  IF OnDrive(p) THEN Len(p.names) > 1
        ELSE IF p.abs THEN Directory(p) # <<>>
        ELSE IsStrictPrefix(Home, Directory(p))

\* However a target is spelled, with "." and ".." anywhere in it, one that
\* checkRemoteRoot lets through is not the root, not a drive, and, when it is
\* relative, strictly below the login directory.  An absolute spelling of the
\* login directory is let through: the check works on the name and does not know
\* where a session starts.  And a sync and a clean deployment whose targets, both
\* absolute or both relative, are one directory or one inside the other are
\* announced before the run, unless one of the two is a target checkRemoteRoot
\* refuses (SyncTargetWarnings compares names, so neither a root nor two spellings
\* of which one is absolute is recognized as an overlap).
TargetsAreGuarded ==
    LET guarded(i) == checkRemoteRoot(uploads[i].remote)
    IN  /\ \A i \in DOMAIN uploads : guarded(i) \/ BelowRoot(uploads[i].remote)
        /\ pc = "start" =>
              \A i, j \in DOMAIN uploads :
                  Overlap(i, j) => <<i, j>> \in warned \/ guarded(i) \/ guarded(j)

\* No link is left of the source when it comes to the walk, or the plan has failed.
Resolvable(s) ==
    \/ s.links = <<>>
    \/ s.links = <<"symlink">> /\ s.eval = "resolved"
    \/ s.windows /\ s.final # "itself"

\* A source that is a directory, or is resolved to one, has been planned.
DirectoryPlanned == pc = "planned" /\ plan.source.kind = "dir" /\ Resolvable(plan.source)

\* The plan is that of the whole tree: a source reached through links is planned
\* like the directory itself, or not at all when a junction cannot be resolved (an
\* empty plan would have clean and sync empty the target), and pruning is an
\* optimization (buildPlan's roots and pruneDirs, hasNegation; "results are
\* identical either way").  A symlink that EvalSymlinks fails on outside Windows, and
\* a reparse point whose final path is itself, are exempt: the link is walked, and
\* the plan is the empty one.
PlanIsTheWholeTree ==
    DirectoryPlanned =>
        LET all == Walk(<<>>, FALSE, rules)
        IN  plan.of.ok /\ plan.of.files = all.files /\ plan.of.dirs = all.dirs

\* The plan leaves out what git ignores, without "!" lines exactly that; a
\* "!" line only ever adds files below a directory git would not enter.
ExcludesLikeGit ==
    DirectoryPlanned =>
        LET git == {p \in DOMAIN Tree : Tree[p] = "file" /\ p # manifestName
                                        /\ ~ GitIgnores(rules, p)}
        IN  /\ git \subseteq plan.of.files
            /\ \A p \in plan.of.files \ git :
                   \E i \in DOMAIN rules : rules[i].negate /\ matchesPath(rules[i], p, FALSE)

\* The last line wins: a plain line appended to the list takes out exactly
\* the files it covers, a "!" line takes out none and brings in every file it
\* names (matchesHow).
LastLineWins ==
    [][LET n == Len(rules')
           before == Walk(<<>>, FALSE, rules).files
           after == Walk(<<>>, FALSE, rules').files
           named(p) == matchesPath(rules'[n], p, FALSE) /\ p # manifestName
       IN  (n = Len(rules) + 1 /\ pc = "scan") =>
               IF rules'[n].negate
               THEN before \cup {p \in DOMAIN Tree : Tree[p] = "file" /\ named(p)}
                        \subseteq after
               ELSE after = {p \in before : ~ Covers(rules'[n], p)}]_vars

\* However a run ends, the watchdog and the keepalive loop are gone and no connection
\* is left, and what it learned was written back once if it had a session, and not
\* otherwise.  (A keepalive request still in flight then is RunEnds' business.)
CleanExit ==
    pc = "exit" => /\ ~ watching /\ ~ keepalive /\ owned = {}
                   /\ saved = IF step = "closed" THEN 1 ELSE 0
                   /\ result = "ok" => step = "closed" /\ done = Deployments

\* With advanced.timeout set every run that starts connecting ends, whatever
\* the servers leave unanswered during connection setup, and so does the
\* last keepalive.
RunEnds ==
    /\ (step = "config" /\ cfg.timed) ~> pc = "exit"
    /\ pc = "exit" ~> ~ pinging

\* advanced.timeout covers "the whole initial connection".
ConnectIsBounded == (step = "config" /\ cfg.timed) ~> step \in {"open", "failed", "closed"}

=============================================================================
