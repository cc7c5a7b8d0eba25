------------------------------ MODULE RunProofs ------------------------------
(***************************************************************************)
(* Connect's results for the whole run: nothing Run does around newSession *)
(* touches the session's state in any other way than Connect's own steps.  *)
(* And every way out of Run is clean: which goroutines run, whether the    *)
(* cache was written and what the session holds is tied to how far the     *)
(* deferred calls have come (Stage).                                       *)
(***************************************************************************)
EXTENDS Run, ConnectProofs, SequenceTheorems, WellFoundedInduction

\* Every step of the run is a step of Connect, or none at all.
LEMMA RunStep == [Next]_vars => [ConnectNext]_cvars
<1> SUFFICES ASSUME [Next]_vars PROVE [ConnectNext]_cvars
  OBVIOUS
<1>1. CASE Planning
  BY <1>1 DEF Planning, Load, StartRun, CompileLine, BuildPlan, NextPlan
<1>2. CASE Connecting \/ Probing \/ LateKill \/ CancelRun
  BY <1>2 DEF Connecting, Probing, LateKill, CancelRun, ConnectNext, ConnectStep, Local
<1>3. CASE Executing \/ Ping \/ PingWritten
  BY <1>3 DEF Executing, NoSession, Opened, Deploy, AllDeployed, Ping, PingWritten
<1>4. CASE Unwind
  BY <1>4 DEF Unwind, StopWatch, StopKeepalives, SaveCache, CloseConnections, Return,
         ConnectNext
<1>5. CASE UNCHANGED vars
  BY <1>5 DEF vars
<1> QED BY <1>1, <1>2, <1>3, <1>4, <1>5 DEF Next

\* The run is an implementation of Connect: Run (uploader.go) around newSession.
THEOREM RunConnects == Spec => ConnectSpec
<1>1. Init => ConnectInit
  BY DEF Init
<1> QED BY <1>1, RunStep, PTL DEF Spec, ConnectSpec

\* What newSession promises, within a run: a failed attempt leaves no connection
\* and no deadline behind (dialSSH, dialViaJump, connect, session.close).
THEOREM RunLeavesNothing == Spec => []AttemptLeavesNothing
BY RunConnects, ConnectLeavesNothing, PTL

\* Credentials reach a hop only past its own host key check, in every attempt of
\* every run (hostKeyCallback, targetHop, jumpHop).
THEOREM RunCredentials == Spec => []CredentialsOnlyToVerified
BY RunConnects, ConnectCredentials, PTL

\* A server that holds a key known_hosts lists is recognized by it, in every run
\* (pinnedHostKeyAlgorithms).
THEOREM RunRecognizes == Spec => []PinnedServerIsRecognized
BY RunConnects, ConnectRecognizes, PTL

----------------------------------------------------------------------------
(* Every way out of Run. *)

Before == {"load", "start", "scan", "planned", "connect"}

\* How Run got past its deferred calls: with a session that is closed and a cache
\* that is written, or without ever having had one.
Over ==
    /\ watching = FALSE /\ keepalive = FALSE
    /\ \/ step = "closed" /\ saved = 1 /\ (result = "ok" => done = Deployments)
       \/ step \in {"idle", "failed"} /\ saved = 0 /\ result = "error"

Stage ==
    /\ pc \in Before => saved = 0 /\ watching = FALSE /\ keepalive = FALSE
    /\ pc \in Before \ {"connect"} => step = "idle"
    /\ pc \in {"deploy", "watch", "keepalive", "save"} => step = "open" /\ saved = 0
    /\ pc \in {"watch", "keepalive", "save", "close"} => (result = "ok" => done = Deployments)
    /\ pc \in {"keepalive", "save", "close"} => watching = FALSE
    /\ pc \in {"save", "close"} => keepalive = FALSE
    /\ pc = "close" => step = "open" /\ saved = 1
    /\ pc \in {"report", "exit"} => Over

LEMMA InitStage == Init => Stage
BY DEF Init, ConnectInit, Stage, Before

LEMMA StageStep == Stage /\ [Next]_vars => Stage'
<1> SUFFICES ASSUME Stage, [Next]_vars PROVE Stage'
  OBVIOUS
<1> USE DEF Stage, Before, Over
<1>1. CASE Planning
  BY <1>1 DEF Planning, Load, StartRun, CompileLine, BuildPlan, NextPlan, lvars, bvars, cvars
<1>2. CASE Connecting \/ Probing
  BY <1>2 DEF Connecting, Probing, rvars, lvars, bvars
<1>3. CASE LateKill
  BY <1>3 DEF LateKill, TimerKills, rvars, lvars, bvars, Unwinding
<1>4. CASE CancelRun
  BY <1>4 DEF CancelRun, Cancel, rvars, lvars, bvars
<1>5. CASE Executing
  BY <1>5 DEF Executing, NoSession, Opened, Deploy, AllDeployed, lvars, bvars, cvars
<1>6. CASE Ping \/ PingWritten
  BY <1>6 DEF Ping, PingWritten, lvars, cvars
<1>7. CASE Unwind
  <2>1. CASE StopWatch \/ StopKeepalives
    BY <2>1 DEF StopWatch, StopKeepalives, lvars, cvars
  <2>2. CASE SaveCache \/ Return
    BY <2>2 DEF SaveCache, Return, lvars, bvars, cvars
  <2>3. CASE CloseConnections
    BY <2>3 DEF CloseConnections, CloseSession, lvars, bvars
  <2> QED BY <1>7, <2>1, <2>2, <2>3 DEF Unwind
<1>8. CASE UNCHANGED vars
  BY <1>8 DEF vars, rvars, lvars, bvars, cvars
<1> QED BY <1>1, <1>2, <1>3, <1>4, <1>5, <1>6, <1>7, <1>8 DEF Next

\* However a run ends it leaves no watchdog, no keepalive loop and no connection
\* behind, and the tuning cache was written once exactly if there was a session: the
\* order of Run's deferred calls.
THEOREM RunCleanExit == Spec => []CleanExit
<1>1. Spec => []Stage
  BY InitStage, StageStep, PTL DEF Spec
<1>2. Stage /\ AttemptLeavesNothing => CleanExit
  BY DEF Stage, Over, AttemptLeavesNothing, CleanExit
<1> QED BY <1>1, <1>2, RunLeavesNothing, PTL

----------------------------------------------------------------------------
(* The plan. *)

Pattern == {compileGitignore(l) : l \in Lines}

\* What is being planned, and what was.
Planned ==
    /\ rules \in Seq(Pattern)
    /\ pc = "planned" =>
          /\ plan.source \in Sources /\ plan.strategy \in {"overlay", "clean"}
          /\ plan.of = buildPlan(plan.source, plan.strategy, rules) /\ plan.of.ok

\* A set with 0 and every successor of its numbers has every number.
LEMMA SetInduction ==
    ASSUME NEW T, 0 \in T, \A n \in Nat : n \in T => n + 1 \in T
    PROVE  Nat \subseteq T
<1> SUFFICES ASSUME Nat \ T # {} PROVE FALSE
  OBVIOUS
<1>1. IsWellFoundedOn(OpToRel(<, Nat), Nat)
  BY NatLessThanWellFounded
<1>2. PICK m \in Nat \ T : \A k \in Nat \ T : ~ (<<k, m>> \in OpToRel(<, Nat))
  BY <1>1, WFMin
<1>3. \A k \in Nat \ T : ~ (k < m)
  BY <1>2 DEF OpToRel
<1>4. m \in Nat /\ m # 0
  OBVIOUS
<1>5. m - 1 \in Nat /\ m - 1 < m /\ (m - 1) + 1 = m
  BY <1>4
<1>6. m - 1 \in T
  BY <1>3, <1>5
<1>7. m \in T
  BY <1>5, <1>6
<1> QED BY <1>7

\* A bounded set of numbers has a greatest one.
LEMMA MaxOf ==
    ASSUME NEW n \in Nat, NEW S \in SUBSET (0 .. n), S # {}
    PROVE  Max(S) \in S /\ \A y \in S : y <= Max(S)
<1> DEFINE H == {n - x : x \in S}
<1>1. H \subseteq Nat /\ H # {}
  <2>1. \A x \in S : x \in 0 .. n
    OBVIOUS
  <2>2. \A x \in 0 .. n : n - x \in Nat
    OBVIOUS
  <2>3. PICK x \in S : TRUE
    OBVIOUS
  <2> QED BY <2>1, <2>2, <2>3
<1>2. IsWellFoundedOn(OpToRel(<, Nat), Nat)
  BY NatLessThanWellFounded
<1>3. PICK m \in H : \A k \in H : ~ (<<k, m>> \in OpToRel(<, Nat))
  <2> HIDE DEF H
  <2> QED BY <1>1, <1>2, WFMin
<1>4. \A k \in H : ~ (k < m)
  <2> HIDE DEF H
  <2> QED BY <1>1, <1>3 DEF OpToRel
<1>5. PICK x \in S : m = n - x
  BY <1>3
<1>6. \A y \in S : x >= y
  BY <1>4, <1>5
<1> QED BY <1>6 DEF Max

\* The last line that matches a path.
LEMMA LastLine ==
    ASSUME NEW lines, Len(lines) \in Nat, DOMAIN lines = 1 .. Len(lines), NEW p, NEW d
    PROVE  LET last == lastMatchIdx(lines, p, d)
           IN  /\ last \in 0 .. Len(lines)
               /\ last > 0 => matchesPath(lines[last], p, d)
               /\ \A i \in DOMAIN lines : matchesPath(lines[i], p, d) => i <= last
<1> DEFINE S == {0} \cup {i \in DOMAIN lines : matchesPath(lines[i], p, d)}
<1>1. Len(lines) \in Nat /\ DOMAIN lines = 1 .. Len(lines)
  OBVIOUS
<1>2. S \in SUBSET (0 .. Len(lines)) /\ S # {}
  BY <1>1
<1>3. Max(S) \in S /\ \A y \in S : y <= Max(S)
  <2> HIDE DEF S
  <2> QED BY <1>1, <1>2, MaxOf
<1> QED BY <1>1, <1>3 DEF lastMatchIdx

\* The last of the lines that exclude a directory above the path.
Deciding(lines, p) == Max({0} \cup ExcludingAbove(lines, p))

LEMMA DecidingLine ==
    ASSUME NEW lines, Len(lines) \in Nat, DOMAIN lines = 1 .. Len(lines), NEW p
    PROVE  /\ Deciding(lines, p) \in 0 .. Len(lines)
           /\ Deciding(lines, p) > 0 => Deciding(lines, p) \in ExcludingAbove(lines, p)
           /\ \A i \in ExcludingAbove(lines, p) : i > 0 /\ i <= Deciding(lines, p)
<1> DEFINE S == {0} \cup ExcludingAbove(lines, p)
<1>1. Len(lines) \in Nat
  OBVIOUS
<1>2. \A i \in ExcludingAbove(lines, p) : i \in 0 .. Len(lines) /\ i > 0
  BY LastLine DEF ExcludingAbove
<1>3. S \in SUBSET (0 .. Len(lines)) /\ S # {}
  BY <1>1, <1>2
<1>4. Max(S) \in S /\ \A y \in S : y <= Max(S)
  <2> HIDE DEF S
  <2> QED BY <1>1, <1>3, MaxOf
<1>5. Deciding(lines, p) = Max(S)
  BY DEF Deciding
<1> HIDE DEF S
<1>6. Deciding(lines, p) \in 0 .. Len(lines)
  BY <1>3, <1>4, <1>5
<1> USE DEF S
<1>7. Deciding(lines, p) > 0 => Deciding(lines, p) \in ExcludingAbove(lines, p)
  BY <1>4, <1>5
<1>8. \A i \in ExcludingAbove(lines, p) : i > 0 /\ i <= Deciding(lines, p)
  BY <1>2, <1>4, <1>5
<1> QED BY <1>6, <1>7, <1>8

\* The directories above a directory of the path are above the path.
LEMMA AncestorsAbove ==
    ASSUME NEW p \in Seq(STRING), NEW d \in Ancestors(p)
    PROVE  Ancestors(d) \subseteq Ancestors(p)
<1>1. PICK k \in 1 .. Len(p) - 1 : d = SubSeq(p, 1, k)
  BY DEF Ancestors
<1>2. k \in Nat /\ k >= 1 /\ k <= Len(p) /\ Len(p) \in Nat
  OBVIOUS
<1>3. Len(d) = k
  BY <1>1, <1>2, SubSeqProperties
<1>4. ASSUME NEW e \in Ancestors(d) PROVE e \in Ancestors(p)
  <2>1. PICK j \in 1 .. k - 1 : e = SubSeq(d, 1, j)
    BY <1>3 DEF Ancestors
  <2>2. /\ 1 \in 1 .. Len(p) /\ k \in 1 .. Len(p)
        /\ 1 \in 1 .. k - 1 + 1 /\ j \in 1 .. k - 1 + 1
    BY <1>2
  <2>3. SubSeq(SubSeq(p, 1, k), 1, j) = SubSeq(p, 1, j)
    <3>1. SubSeq(SubSeq(p, 1, k), 1, j) = SubSeq(p, 1 + 1 - 1, 1 + j - 1)
      BY <2>2, SubSeqOfSubSeq
    <3>2. 1 + 1 - 1 = 1 /\ 1 + j - 1 = j
      OBVIOUS
    <3> QED BY <3>1, <3>2
  <2>4. j \in 1 .. Len(p) - 1
    BY <1>2
  <2> QED BY <1>1, <2>1, <2>3, <2>4 DEF Ancestors
<1> QED BY <1>4

\* The verdict, in terms of the two lines.
LEMMA Verdict ==
    ASSUME NEW lines, NEW p, NEW d
    PROVE  matchesHow(lines, p, d) <=>
              \/ lastMatchIdx(lines, p, d) > 0 /\ ~ lines[lastMatchIdx(lines, p, d)].negate
              \/ Deciding(lines, p) > lastMatchIdx(lines, p, d)
  BY DEF matchesHow, Deciding

\* Without a "!" line everything below an excluded directory is excluded.
LEMMA PruningIsSound ==
    ASSUME NEW lines, Len(lines) \in Nat, DOMAIN lines = 1 .. Len(lines),
           NEW p \in Seq(STRING), ~ hasNegation(lines), Pruned(lines, p)
    PROVE  matchesHow(lines, p, FALSE)
<1>1. PICK d \in Ancestors(p) : matchesHow(lines, d, TRUE)
  BY DEF Pruned
<1>2. Len(lines) \in Nat /\ DOMAIN lines = 1 .. Len(lines)
  OBVIOUS
<1>3. \A i \in 1 .. Len(lines) : ~ lines[i].negate
  BY <1>2 DEF hasNegation
<1>4. \E i \in ExcludingAbove(lines, p) : TRUE
  <2>1. CASE lastMatchIdx(lines, d, TRUE) > 0
    <3>1. PICK i : i = lastMatchIdx(lines, d, TRUE)
      OBVIOUS
    <3>2. i \in 1 .. Len(lines)
      <4>1. i \in 0 .. Len(lines)
        BY <1>2, <3>1, LastLine
      <4>2. \A n \in Nat : \A x \in 0 .. n : x > 0 => x \in 1 .. n
        OBVIOUS
      <4> QED BY <1>2, <2>1, <3>1, <4>1, <4>2
    <3>3. ~ lines[i].negate
      BY <1>3, <3>2
    <3> QED BY <2>1, <3>1, <3>3 DEF ExcludingAbove
  <2>2. CASE Deciding(lines, d) > lastMatchIdx(lines, d, TRUE)
    <3>1. Deciding(lines, d) > 0
      <4>1. lastMatchIdx(lines, d, TRUE) \in 0 .. Len(lines)
        BY <1>2, LastLine
      <4>2. Deciding(lines, d) \in 0 .. Len(lines)
        BY <1>2, DecidingLine
      <4>3. \A n \in Nat : \A x, y \in 0 .. n : x > y => x > 0
        OBVIOUS
      <4> QED BY <1>2, <2>2, <4>1, <4>2, <4>3
    <3>2. Deciding(lines, d) \in ExcludingAbove(lines, d)
      BY <3>1, DecidingLine
    <3>3. Ancestors(d) \subseteq Ancestors(p)
      BY AncestorsAbove
    <3> QED BY <3>2, <3>3 DEF ExcludingAbove
  <2> QED BY <1>1, <2>1, <2>2, Verdict
<1>5. Deciding(lines, p) > 0
  <2>1. PICK i \in ExcludingAbove(lines, p) : TRUE
    BY <1>4
  <2>2. i > 0 /\ i <= Deciding(lines, p) /\ Deciding(lines, p) \in 0 .. Len(lines)
    BY <1>2, DecidingLine
  <2>3. i \in 0 .. Len(lines)
    BY <1>2, LastLine DEF ExcludingAbove
  <2> QED BY <2>2, <2>3
<1>6. lastMatchIdx(lines, p, FALSE) \in 0 .. Len(lines)
  BY <1>2, LastLine
<1>7. CASE lastMatchIdx(lines, p, FALSE) = 0
  BY <1>5, <1>7, Verdict
<1>8. CASE lastMatchIdx(lines, p, FALSE) # 0
  <2>1. PICK i : i = lastMatchIdx(lines, p, FALSE)
    OBVIOUS
  <2>2. i \in 1 .. Len(lines) /\ i > 0
    <3>1. \A n \in Nat : \A x \in 0 .. n : x # 0 => x \in 1 .. n /\ x > 0
      OBVIOUS
    <3> QED BY <1>2, <1>6, <1>8, <2>1, <3>1
  <2>3. ~ lines[i].negate
    BY <1>3, <2>2
  <2> QED BY <2>1, <2>2, <2>3, Verdict
<1> QED BY <1>7, <1>8

\* The files of a walk through the whole directory.
LEMMA WalkFiles ==
    ASSUME NEW lines
    PROVE  Walk(<<>>, FALSE, lines).files =
             {p \in DOMAIN Tree : /\ Tree[p] = "file" /\ p # manifestName
                                  /\ ~ matchesHow(lines, p, FALSE)}
<1> DEFINE F == {p \in Wanted(<<>>, FALSE, lines) : Tree[p] = "file"}
<1>1. Walk(<<>>, FALSE, lines).files = F
  BY DEF Walk
<1>2. F = {p \in DOMAIN Tree : /\ Tree[p] = "file" /\ p # manifestName
                               /\ ~ matchesHow(lines, p, FALSE)}
  BY DEF Wanted, Visited
<1> QED BY <1>1, <1>2

\* Pruning takes nothing out of a walk.
LEMMA WalkWhole ==
    ASSUME NEW lines, Len(lines) \in Nat, DOMAIN lines = 1 .. Len(lines)
    PROVE  /\ Walk(<<>>, ~ hasNegation(lines), lines).files = Walk(<<>>, FALSE, lines).files
           /\ Walk(<<>>, ~ hasNegation(lines), lines).dirs = Walk(<<>>, FALSE, lines).dirs
           /\ Walk(<<>>, ~ hasNegation(lines), lines).ok
<1> DEFINE W(prune) == {p \in Wanted(<<>>, prune, lines) : Tree[p] = "file"}
<1>1. \A prune \in BOOLEAN :
        /\ Walk(<<>>, prune, lines).files = W(prune)
        /\ Walk(<<>>, prune, lines).dirs = dirsForFiles(W(prune))
        /\ Walk(<<>>, prune, lines).ok
  BY DEF Walk
<1>2. CASE hasNegation(lines)
  <2>1. (~ hasNegation(lines)) = FALSE
    BY <1>2
  <2> QED BY <1>1, <2>1
<1>3. CASE ~ hasNegation(lines)
  <2>1. (~ hasNegation(lines)) = TRUE
    BY <1>3
  <2>2. ASSUME NEW p \in DOMAIN Tree, Pruned(lines, p) PROVE matchesHow(lines, p, FALSE)
    <3>1. p \in Seq(STRING)
      BY TreeAssumption
    <3> QED BY <1>3, <2>2, <3>1, PruningIsSound
  <2>3. Wanted(<<>>, TRUE, lines) = Wanted(<<>>, FALSE, lines)
    BY <2>2 DEF Wanted, Visited
  <2>4. W(TRUE) = W(FALSE)
    BY <2>3
  <2> HIDE DEF W
  <2> QED BY <1>1, <2>1, <2>4
<1> QED BY <1>2, <1>3

\* A directory whose root is resolved, and not refused, is walked without a link.
LEMMA RootIsDirectory ==
    ASSUME NEW s \in Source, Resolvable(s), WalkRoot(s).ok
    PROVE  WalkRoot(s).links = <<>>
<1> DEFINE seen == EvalSymlinks(s)
           junction == isWindowsJunction(s, seen)
<1>1. /\ s.links \in {<<>>, <<"symlink">>, <<"junction">>, <<"symlink", "junction">>}
      /\ s.final \in {"resolved", "failed", "itself"} /\ s.windows \in BOOLEAN
      /\ s.windows \/ s.links \in {<<>>, <<"symlink">>}
  BY DEF Source
<1>2. WalkRoot(s).links = IF junction /\ s.final = "resolved" THEN <<>> ELSE seen
  BY DEF WalkRoot
<1>3. ~ (junction /\ s.final = "failed")
  BY DEF WalkRoot
<1>4. CASE s.links = <<>>
  BY <1>2, <1>4 DEF EvalSymlinks
<1>5. CASE s.links = <<"symlink">> /\ s.eval = "resolved"
  <2>1. <<"symlink">> # <<>> /\ <<"symlink">>[1] = "symlink" /\ Tail(<<"symlink">>) = <<>>
    OBVIOUS
  <2>2. seen = <<>>
    BY <1>5, <2>1 DEF EvalSymlinks
  <2> QED BY <1>2, <2>2
<1>6. CASE s.windows /\ s.final # "itself"
  <2>1. CASE seen = <<>>
    BY <1>2, <2>1
  <2>2. CASE seen # <<>>
    <3>1. junction
      BY <1>6, <2>2 DEF isWindowsJunction
    <3>2. s.final = "resolved"
      BY <1>1, <1>3, <1>6, <3>1
    <3> QED BY <1>2, <3>1, <3>2
  <2> QED BY <2>1, <2>2
<1> QED BY <1>4, <1>5, <1>6 DEF Resolvable

\* A source that is a directory is walked as one, through whatever links.
LEMMA SourceIsWalked ==
    ASSUME NEW s \in Source, s.kind = "dir", NEW strategy, NEW lines, Resolvable(s),
           buildPlan(s, strategy, lines).ok
    PROVE  buildPlan(s, strategy, lines) = Walk(<<>>, ~ hasNegation(lines), lines)
<1>1. buildPlan(s, strategy, lines) =
        IF WalkRoot(s).ok THEN Walk(WalkRoot(s).links, ~ hasNegation(lines), lines) ELSE NoPlan
  BY DEF buildPlan
<1>2. WalkRoot(s).ok
  <2>1. ~ NoPlan.ok
    BY DEF NoPlan
  <2> QED BY <1>1, <2>1
<1>3. WalkRoot(s).links = <<>>
  BY <1>2, RootIsDirectory
<1> QED BY <1>1, <1>2, <1>3

\* What the rules leave out, against git's own.
LEMMA AgainstGit ==
    ASSUME NEW lines, Len(lines) \in Nat, DOMAIN lines = 1 .. Len(lines), NEW p
    PROVE  /\ ~ GitIgnores(lines, p) => ~ matchesHow(lines, p, FALSE)
           /\ GitIgnores(lines, p) /\ ~ matchesHow(lines, p, FALSE) =>
                 \E i \in DOMAIN lines : lines[i].negate /\ matchesPath(lines[i], p, FALSE)
<1> DEFINE leaf == lastMatchIdx(lines, p, FALSE)
           top == Deciding(lines, p)
<1>1. /\ leaf \in 0 .. Len(lines)
      /\ leaf > 0 => matchesPath(lines[leaf], p, FALSE)
  BY LastLine
<1>2. /\ top \in 0 .. Len(lines)
      /\ top > 0 => top \in ExcludingAbove(lines, p)
      /\ \A i \in ExcludingAbove(lines, p) : i > 0 /\ i <= top
  BY DecidingLine
<1>3. GitIgnores(lines, p) <=>
        (\E i \in ExcludingAbove(lines, p) : TRUE) \/ (leaf > 0 /\ ~ lines[leaf].negate)
  BY DEF GitIgnores, ExcludingAbove
<1>4. matchesHow(lines, p, FALSE) <=> (leaf > 0 /\ ~ lines[leaf].negate) \/ top > leaf
  BY Verdict
<1> HIDE DEF leaf, top
<1>5. \A n \in Nat : \A x, y \in 0 .. n : (x > y => x > 0) /\ (x > 0 => x \in 1 .. n)
  OBVIOUS
<1>6. ASSUME ~ GitIgnores(lines, p) PROVE ~ matchesHow(lines, p, FALSE)
  <2>1. ~ (top > 0)
    BY <1>2, <1>3, <1>6
  <2>2. ~ (top > leaf)
    BY <1>1, <1>2, <1>5, <2>1
  <2> QED BY <1>3, <1>4, <1>6, <2>2
<1>7. ASSUME GitIgnores(lines, p), ~ matchesHow(lines, p, FALSE)
      PROVE  \E i \in DOMAIN lines : lines[i].negate /\ matchesPath(lines[i], p, FALSE)
  <2>1. PICK i \in ExcludingAbove(lines, p) : i > 0 /\ i <= top
    BY <1>2, <1>3, <1>4, <1>7
  <2>2. i \in 0 .. Len(lines)
    BY LastLine, <2>1 DEF ExcludingAbove
  <2>3. leaf > 0
    <3>1. ~ (top > leaf)
      BY <1>4, <1>7
    <3>2. \A n \in Nat : \A x, y, z \in 0 .. n : x > 0 /\ x <= y /\ ~ (y > z) => z > 0
      OBVIOUS
    <3> QED BY <1>1, <1>2, <2>1, <2>2, <3>1, <3>2
  <2>4. leaf \in 1 .. Len(lines)
    BY <1>1, <1>5, <2>3
  <2>5. lines[leaf].negate
    BY <1>4, <1>7, <2>3
  <2> QED BY <1>1, <2>3, <2>4, <2>5
<1> QED BY <1>6, <1>7

\* A line appended to the list decides wherever it matches, and nowhere else.
LEMMA AppendedLine ==
    ASSUME NEW lines, Len(lines) \in Nat, DOMAIN lines = 1 .. Len(lines),
           NEW more, Len(more) = Len(lines) + 1, DOMAIN more = 1 .. Len(more),
           \A i \in 1 .. Len(lines) : more[i] = lines[i],
           NEW p, NEW d
    PROVE  lastMatchIdx(more, p, d) =
              IF matchesPath(more[Len(more)], p, d) THEN Len(more) ELSE lastMatchIdx(lines, p, d)
<1> DEFINE a == lastMatchIdx(lines, p, d)
           b == lastMatchIdx(more, p, d)
<1>1. PICK n \in Nat : n = Len(lines) /\ Len(more) = n + 1
  OBVIOUS
<1>2. /\ a \in 0 .. n
      /\ a > 0 => matchesPath(lines[a], p, d)
      /\ \A i \in 1 .. n : matchesPath(lines[i], p, d) => i <= a
  BY <1>1, LastLine
<1>3. /\ b \in 0 .. n + 1
      /\ b > 0 => matchesPath(more[b], p, d)
      /\ \A i \in 1 .. n + 1 : matchesPath(more[i], p, d) => i <= b
  <2>1. Len(more) \in Nat
    BY <1>1
  <2> QED BY <1>1, <2>1, LastLine
<1> HIDE DEF a, b
<1>4. \A i \in 1 .. n : more[i] = lines[i]
  BY <1>1
<1>5. CASE matchesPath(more[n + 1], p, d)
  <2>1. n + 1 \in 1 .. n + 1
    BY <1>1
  <2>2. n + 1 <= b
    BY <1>3, <1>5, <2>1
  <2>3. b = n + 1
    BY <1>1, <1>3, <2>2
  <2> QED BY <1>1, <1>5, <2>3 DEF b
<1>6. CASE ~ matchesPath(more[n + 1], p, d)
  <2>1. b <= a
    <3>1. CASE b > 0
      <4>1. b # n + 1
        BY <1>3, <1>6, <3>1
      <4>2. b \in 1 .. n
        BY <1>1, <1>3, <3>1, <4>1
      <4> QED BY <1>2, <1>3, <1>4, <3>1, <4>2
    <3>2. CASE ~ (b > 0)
      BY <1>1, <1>2, <1>3, <3>2
    <3> QED BY <3>1, <3>2
  <2>2. a <= b
    <3>1. CASE a > 0
      <4>1. a \in 1 .. n /\ a \in 1 .. n + 1
        BY <1>1, <1>2, <3>1
      <4> QED BY <1>2, <1>3, <1>4, <3>1, <4>1
    <3>2. CASE ~ (a > 0)
      BY <1>1, <1>2, <1>3, <3>2
    <3> QED BY <3>1, <3>2
  <2>3. a = b
    BY <1>1, <1>2, <1>3, <2>1, <2>2
  <2> QED BY <1>1, <1>6, <2>3 DEF a, b
<1> QED BY <1>5, <1>6

\* What an appended line does to the verdict on a path.
LEMMA AppendedVerdict ==
    ASSUME NEW lines, Len(lines) \in Nat, DOMAIN lines = 1 .. Len(lines),
           NEW more, Len(more) = Len(lines) + 1, DOMAIN more = 1 .. Len(more),
           \A i \in 1 .. Len(lines) : more[i] = lines[i],
           NEW p
    PROVE  LET r == more[Len(more)]
           IN  IF r.negate
               THEN /\ ~ matchesHow(lines, p, FALSE) => ~ matchesHow(more, p, FALSE)
                    /\ matchesPath(r, p, FALSE) => ~ matchesHow(more, p, FALSE)
               ELSE matchesHow(more, p, FALSE) <=> matchesHow(lines, p, FALSE) \/ Covers(r, p)
<1>0. \A q, d : lastMatchIdx(more, q, d) =
        IF matchesPath(more[Len(more)], q, d) THEN Len(more) ELSE lastMatchIdx(lines, q, d)
  <2> SUFFICES ASSUME NEW q, NEW d
               PROVE  lastMatchIdx(more, q, d) =
                        IF matchesPath(more[Len(more)], q, d) THEN Len(more)
                        ELSE lastMatchIdx(lines, q, d)
    OBVIOUS
  <2> QED BY AppendedLine
<1> DEFINE r == more[Len(more)]
           a == lastMatchIdx(lines, p, FALSE)
           b == lastMatchIdx(more, p, FALSE)
           s == Deciding(lines, p)
           t == Deciding(more, p)
<1>1. PICK n \in Nat : n = Len(lines) /\ Len(more) = n + 1
  OBVIOUS
<1>2. a \in 0 .. n /\ b \in 0 .. n + 1
  <2>1. Len(more) \in Nat
    BY <1>1
  <2>2. a \in 0 .. Len(lines)
    BY LastLine
  <2>3. b \in 0 .. Len(more)
    BY <2>1, LastLine
  <2> QED BY <1>1, <2>2, <2>3
<1>3. b = IF matchesPath(r, p, FALSE) THEN n + 1 ELSE a
  BY <1>0, <1>1
<1>4. /\ s \in 0 .. n /\ (s > 0 => s \in ExcludingAbove(lines, p))
      /\ \A i \in ExcludingAbove(lines, p) : i > 0 /\ i <= s
  BY <1>1, DecidingLine
<1>5. /\ t \in 0 .. n + 1 /\ (t > 0 => t \in ExcludingAbove(more, p))
      /\ \A i \in ExcludingAbove(more, p) : i > 0 /\ i <= t
  <2>1. Len(more) \in Nat
    BY <1>1
  <2> QED BY <1>1, <2>1, DecidingLine
<1>6. /\ \A i \in 1 .. n : more[i] = lines[i]
      /\ more[n + 1] = r
  BY <1>1
<1>7. /\ \A d \in Ancestors(p) : lastMatchIdx(lines, d, TRUE) \in 0 .. n
      /\ \A d \in Ancestors(p) : lastMatchIdx(more, d, TRUE) =
            IF matchesPath(r, d, TRUE) THEN n + 1 ELSE lastMatchIdx(lines, d, TRUE)
  BY <1>0, <1>1, LastLine
<1>8. \A x \in 0 .. n : x > 0 => x \in 1 .. n /\ x # n + 1
  BY <1>1
<1>9. /\ matchesHow(lines, p, FALSE) <=> (a > 0 /\ ~ lines[a].negate) \/ s > a
      /\ matchesHow(more, p, FALSE) <=> (b > 0 /\ ~ more[b].negate) \/ t > b
  BY Verdict
<1> HIDE DEF r, a, b, s, t
<1>10. \A i \in ExcludingAbove(more, p) :
          i \in ExcludingAbove(lines, p)
          \/ (i = n + 1 /\ ~ r.negate /\ \E d \in Ancestors(p) : matchesPath(r, d, TRUE))
  <2> SUFFICES ASSUME NEW d \in Ancestors(p), NEW i, i = lastMatchIdx(more, d, TRUE),
                      i > 0, ~ more[i].negate
               PROVE  i \in ExcludingAbove(lines, p)
                      \/ (i = n + 1 /\ ~ r.negate /\ \E e \in Ancestors(p) : matchesPath(r, e, TRUE))
    BY DEF ExcludingAbove
  <2>1. CASE matchesPath(r, d, TRUE)
    BY <1>6, <1>7, <2>1
  <2>2. CASE ~ matchesPath(r, d, TRUE)
    <3>1. i = lastMatchIdx(lines, d, TRUE) /\ i \in 0 .. n
      BY <1>7, <2>2
    <3>2. ~ lines[i].negate
      BY <1>6, <1>8, <3>1
    <3> QED BY <3>1, <3>2 DEF ExcludingAbove
  <2> QED BY <2>1, <2>2
<1>11. CASE r.negate
  <2>1. t <= s
    <3>1. CASE t > 0
      BY <1>4, <1>5, <1>10, <1>11, <3>1
    <3>2. CASE ~ (t > 0)
      BY <1>1, <1>4, <1>5, <3>2
    <3> QED BY <3>1, <3>2
  <2>2. ASSUME matchesPath(r, p, FALSE) PROVE ~ matchesHow(more, p, FALSE)
    <3>1. b = n + 1 /\ ~ (t > b)
      BY <1>1, <1>3, <1>4, <1>5, <2>1, <2>2
    <3> QED BY <1>6, <1>9, <1>11, <3>1
  <2>3. ASSUME ~ matchesHow(lines, p, FALSE), ~ matchesPath(r, p, FALSE)
        PROVE  ~ matchesHow(more, p, FALSE)
    <3>1. b = a /\ ~ (s > a)
      BY <1>3, <1>9, <2>3
    <3>2. ~ (t > b)
      BY <1>1, <1>2, <1>4, <1>5, <2>1, <3>1
    <3>3. b > 0 => more[b].negate
      BY <1>2, <1>6, <1>8, <1>9, <2>3, <3>1
    <3> QED BY <1>9, <3>2, <3>3
  <2> QED BY <1>11, <2>2, <2>3 DEF r
<1>12. CASE ~ r.negate
  <2>1. ASSUME matchesPath(r, p, FALSE) PROVE matchesHow(more, p, FALSE) /\ Covers(r, p)
    <3>1. b = n + 1 /\ n + 1 > 0
      BY <1>1, <1>3, <2>1
    <3> QED BY <1>6, <1>9, <1>12, <2>1, <3>1 DEF Covers
  <2>2. ASSUME NEW d \in Ancestors(p), matchesPath(r, d, TRUE), ~ matchesPath(r, p, FALSE)
        PROVE  matchesHow(more, p, FALSE) /\ Covers(r, p)
    <3>1. n + 1 \in ExcludingAbove(more, p)
      <4>1. lastMatchIdx(more, d, TRUE) = n + 1
        BY <1>7, <2>2
      <4>2. n + 1 > 0
        BY <1>1
      <4> QED BY <1>6, <1>12, <4>1, <4>2 DEF ExcludingAbove
    <3>2. n + 1 <= t
      BY <1>5, <3>1
    <3>3. b = a
      BY <1>3, <2>2
    <3>4. t > b
      BY <1>1, <1>2, <1>5, <3>2, <3>3
    <3> QED BY <1>9, <2>2, <3>4 DEF Covers
  <2>3. ASSUME ~ Covers(r, p)
        PROVE  matchesHow(more, p, FALSE) <=> matchesHow(lines, p, FALSE)
    <3>1. /\ ~ matchesPath(r, p, FALSE)
          /\ \A d \in Ancestors(p) : ~ matchesPath(r, d, TRUE)
      BY <2>3 DEF Covers
    <3>2. b = a
      BY <1>3, <3>1
    <3>3. \A d \in Ancestors(p) : lastMatchIdx(more, d, TRUE) = lastMatchIdx(lines, d, TRUE)
      BY <1>7, <3>1
    <3>4. t <= s
      <4>1. CASE t > 0
        BY <1>4, <1>5, <1>10, <3>1, <4>1
      <4>2. CASE ~ (t > 0)
        BY <1>1, <1>4, <1>5, <4>2
      <4> QED BY <4>1, <4>2
    <3>5. s <= t
      <4>1. CASE s > 0
        <5>1. s \in ExcludingAbove(lines, p)
          BY <1>4, <4>1
        <5>2. PICK d \in Ancestors(p) : s = lastMatchIdx(lines, d, TRUE)
          BY <5>1 DEF ExcludingAbove
        <5>3. ~ more[s].negate
          <6>1. ~ lines[s].negate
            BY <5>1 DEF ExcludingAbove
          <6> QED BY <1>4, <1>6, <1>8, <4>1, <6>1
        <5>4. s \in ExcludingAbove(more, p)
          BY <3>3, <4>1, <5>2, <5>3 DEF ExcludingAbove
        <5> QED BY <1>5, <5>4
      <4>2. CASE ~ (s > 0)
        BY <1>1, <1>4, <1>5, <4>2
      <4> QED BY <4>1, <4>2
    <3>6. s = t
      BY <1>1, <1>4, <1>5, <3>4, <3>5
    <3>7. a > 0 => more[a] = lines[a]
      BY <1>2, <1>6, <1>8
    <3> QED BY <1>9, <3>2, <3>6, <3>7
  <2>4. Covers(r, p) => matchesPath(r, p, FALSE) \/ \E d \in Ancestors(p) : matchesPath(r, d, TRUE)
    BY DEF Covers
  <2> QED BY <1>12, <2>1, <2>2, <2>3, <2>4 DEF r
<1> QED BY <1>11, <1>12

----------------------------------------------------------------------------
(* The plan of every run. *)

LEMMA InitPlanned == Init => Planned
BY DEF Init, Planned

LEMMA PlannedStep == Planned /\ [Next]_vars => Planned'
<1> SUFFICES ASSUME Planned, [Next]_vars PROVE Planned'
  OBVIOUS
<1>1. ASSUME UNCHANGED <<pc, rules, plan>> PROVE Planned'
  BY <1>1 DEF Planned
<1>2. ASSUME rules' = rules, pc' # "planned" PROVE Planned'
  BY <1>2 DEF Planned
<1>3. ASSUME NEW u \in Configurations, Load(u) PROVE Planned'
  BY <1>2, <1>3 DEF Load
<1>4. CASE StartRun
  BY <1>2, <1>4 DEF StartRun
<1>5. ASSUME NEW l \in Lines, CompileLine(l) PROVE Planned'
  <2>1. pc' # "planned"
    BY <1>5 DEF CompileLine
  <2>2. rules' \in Seq(Pattern)
    <3>1. CASE l.bad
      BY <1>5, <3>1 DEF CompileLine
    <3>2. CASE ~ l.bad
      <4>1. compileGitignore(l) \in Pattern
        BY DEF Pattern
      <4>2. rules \in Seq(Pattern) /\ rules' = Append(rules, compileGitignore(l))
        BY <1>5, <3>2 DEF CompileLine, Planned
      <4> QED BY <4>1, <4>2, AppendProperties
    <3> QED BY <3>1, <3>2
  <2> QED BY <2>1, <2>2 DEF Planned
<1>6. ASSUME NEW s \in Sources, NEW st \in {"overlay", "clean"}, BuildPlan(s, st) PROVE Planned'
  BY <1>6 DEF BuildPlan, Planned
<1>7. CASE NextPlan
  BY <1>7 DEF NextPlan, Planned
<1>8. CASE Connecting \/ Probing \/ LateKill \/ CancelRun
  BY <1>1, <1>8 DEF Connecting, Probing, LateKill, CancelRun, rvars, lvars
<1>9. CASE Executing
  BY <1>1, <1>2, <1>9 DEF Executing, NoSession, Opened, Deploy, AllDeployed, lvars
<1>10. CASE Ping \/ PingWritten
  BY <1>1, <1>10 DEF Ping, PingWritten, lvars
<1>11. CASE Unwind
  BY <1>2, <1>11 DEF Unwind, StopWatch, StopKeepalives, SaveCache, CloseConnections, Return, lvars
<1>12. CASE UNCHANGED vars
  BY <1>1, <1>12 DEF vars, rvars, lvars
<1> QED BY <1>3, <1>4, <1>5, <1>6, <1>7, <1>8, <1>9, <1>10, <1>11, <1>12 DEF Next, Planning

LEMMA AlwaysPlanned == Spec => []Planned
BY InitPlanned, PlannedStep, PTL DEF Spec

LEMMA PlanOfADirectory ==
    ASSUME Planned, DirectoryPlanned
    PROVE  /\ Len(rules) \in Nat /\ DOMAIN rules = 1 .. Len(rules)
           /\ plan.of.ok
           /\ plan.of.files = Walk(<<>>, FALSE, rules).files
           /\ plan.of.dirs = Walk(<<>>, FALSE, rules).dirs
<1>1. Len(rules) \in Nat /\ DOMAIN rules = 1 .. Len(rules)
  <2>1. rules \in Seq(Pattern)
    BY DEF Planned
  <2> QED BY <2>1, LenProperties
<1>2. plan.source \in Source
  BY RunAssumption DEF Planned, DirectoryPlanned
<1>3. plan.of = Walk(<<>>, ~ hasNegation(rules), rules)
  <2>1. plan.of = buildPlan(plan.source, plan.strategy, rules) /\ plan.of.ok
    BY DEF Planned, DirectoryPlanned
  <2>2. plan.source.kind = "dir" /\ Resolvable(plan.source)
    BY DEF DirectoryPlanned
  <2> QED BY <1>2, <2>1, <2>2, SourceIsWalked
<1> QED BY <1>1, <1>3, WalkWhole

\* In every run the plan is that of the whole tree: a source whose links are resolved is
\* planned like the directory itself, one whose junction is not resolved has no plan, and
\* pruning takes nothing out (buildPlan's roots and pruneDirs, hasNegation).  Exempt are
\* the links that are walked as they are: a symlink EvalSymlinks fails on outside
\* Windows, a reparse point that opens as itself.
THEOREM RunPlansTheWholeTree == Spec => []PlanIsTheWholeTree
<1>1. Planned => PlanIsTheWholeTree
  <2> SUFFICES ASSUME Planned, DirectoryPlanned
               PROVE  /\ plan.of.ok
                      /\ plan.of.files = Walk(<<>>, FALSE, rules).files
                      /\ plan.of.dirs = Walk(<<>>, FALSE, rules).dirs
    BY DEF PlanIsTheWholeTree
  <2> QED BY PlanOfADirectory
<1> QED BY <1>1, AlwaysPlanned, PTL

\* In every run the plan leaves out only what git ignores, and keeps beyond that
\* only files a "!" line names (matchesHow against the walk git does).
THEOREM RunExcludesLikeGit == Spec => []ExcludesLikeGit
<1>1. Planned => ExcludesLikeGit
  <2> DEFINE git == {p \in DOMAIN Tree : Tree[p] = "file" /\ p # manifestName
                                         /\ ~ GitIgnores(rules, p)}
  <2> SUFFICES ASSUME Planned, DirectoryPlanned
               PROVE  /\ git \subseteq plan.of.files
                      /\ \A p \in plan.of.files \ git :
                            \E i \in DOMAIN rules :
                                rules[i].negate /\ matchesPath(rules[i], p, FALSE)
    BY DEF ExcludesLikeGit
  <2>1. /\ Len(rules) \in Nat /\ DOMAIN rules = 1 .. Len(rules)
        /\ plan.of.files = Walk(<<>>, FALSE, rules).files
    BY PlanOfADirectory
  <2>2. plan.of.files = {p \in DOMAIN Tree : /\ Tree[p] = "file" /\ p # manifestName
                                             /\ ~ matchesHow(rules, p, FALSE)}
    BY <2>1, WalkFiles
  <2>3. ASSUME NEW p \in git PROVE p \in plan.of.files
    <3>1. ~ matchesHow(rules, p, FALSE)
      BY <2>1, AgainstGit
    <3> QED BY <2>2, <3>1
  <2>4. ASSUME NEW p \in plan.of.files \ git
        PROVE  \E i \in DOMAIN rules : rules[i].negate /\ matchesPath(rules[i], p, FALSE)
    <3>1. GitIgnores(rules, p) /\ ~ matchesHow(rules, p, FALSE)
      BY <2>2
    <3> QED BY <2>1, <3>1, AgainstGit
  <2> HIDE DEF git
  <2> QED BY <2>3, <2>4
<1> QED BY <1>1, AlwaysPlanned, PTL

\* Only a line that parses makes the list longer, by itself.
LEMMA LongerByALine ==
    ASSUME Planned, [Next]_vars, Len(rules') = Len(rules) + 1, pc = "scan"
    PROVE  \E l \in Lines : rules' = Append(rules, compileGitignore(l))
<1>1. rules \in Seq(Pattern) /\ Len(rules) \in Nat
  BY LenProperties DEF Planned
<1>2. rules' # rules
  BY <1>1
<1>3. rules' # <<>>
  <2>1. Len(<<>>) = 0
    OBVIOUS
  <2>2. Len(rules) + 1 # 0
    BY <1>1
  <2> QED BY <2>1, <2>2
<1>4. CASE Planning
  BY <1>2, <1>3, <1>4 DEF Planning, Load, StartRun, CompileLine, BuildPlan, NextPlan
<1>5. CASE ~ Planning
  BY <1>2, <1>5 DEF Next, Connecting, Probing, LateKill, CancelRun, Executing, NoSession,
     Opened, Deploy, AllDeployed, Ping, PingWritten, Unwind, StopWatch, StopKeepalives,
     SaveCache, CloseConnections, Return, vars, rvars, lvars
<1> QED BY <1>4, <1>5

\* The last line wins, whatever the lines and the tree are: a plain line takes out
\* exactly the files it covers, a "!" line takes out none and brings in every file
\* it names (matchesHow).
THEOREM RunLastLineWins == Spec => LastLineWins
<1> DEFINE before == Walk(<<>>, FALSE, rules).files
           after == Walk(<<>>, FALSE, rules').files
           named(p) == matchesPath(rules'[Len(rules')], p, FALSE) /\ p # manifestName
           Wins == (Len(rules') = Len(rules) + 1 /\ pc = "scan") =>
               IF rules'[Len(rules')].negate
               THEN before \cup {p \in DOMAIN Tree : Tree[p] = "file" /\ named(p)} \subseteq after
               ELSE after = {p \in before : ~ Covers(rules'[Len(rules')], p)}
<1>1. Planned /\ [Next]_vars => Wins
  <2> SUFFICES ASSUME Planned, [Next]_vars, Len(rules') = Len(rules) + 1, pc = "scan"
               PROVE  IF rules'[Len(rules')].negate
                      THEN before \cup {p \in DOMAIN Tree : Tree[p] = "file" /\ named(p)}
                              \subseteq after
                      ELSE after = {p \in before : ~ Covers(rules'[Len(rules')], p)}
    OBVIOUS
  <2>1. PICK l \in Lines : rules' = Append(rules, compileGitignore(l))
    BY LongerByALine
  <2>2. compileGitignore(l) \in Pattern /\ rules \in Seq(Pattern)
    BY DEF Pattern, Planned
  <2>3. /\ Len(rules) \in Nat /\ DOMAIN rules = 1 .. Len(rules)
        /\ DOMAIN rules' = 1 .. Len(rules')
        /\ \A i \in 1 .. Len(rules) : rules'[i] = rules[i]
    <3>1. Len(rules) \in Nat /\ DOMAIN rules = 1 .. Len(rules)
      BY <2>2, LenProperties
    <3>2. /\ rules' \in Seq(Pattern)
          /\ \A i \in 1 .. Len(rules) : rules'[i] = rules[i]
      BY <2>1, <2>2, AppendProperties
    <3> QED BY <3>1, <3>2, LenProperties
  <2>4. /\ before = {p \in DOMAIN Tree : /\ Tree[p] = "file" /\ p # manifestName
                                         /\ ~ matchesHow(rules, p, FALSE)}
        /\ after = {p \in DOMAIN Tree : /\ Tree[p] = "file" /\ p # manifestName
                                        /\ ~ matchesHow(rules', p, FALSE)}
    BY WalkFiles
  <2> DEFINE r == rules'[Len(rules')]
  <2>5. ASSUME NEW p
        PROVE  IF r.negate
               THEN /\ ~ matchesHow(rules, p, FALSE) => ~ matchesHow(rules', p, FALSE)
                    /\ matchesPath(r, p, FALSE) => ~ matchesHow(rules', p, FALSE)
               ELSE matchesHow(rules', p, FALSE) <=> matchesHow(rules, p, FALSE) \/ Covers(r, p)
    BY <2>3, AppendedVerdict
  <2> HIDE DEF before, after, r
  <2>6. CASE r.negate
    BY <2>4, <2>5, <2>6 DEF r
  <2>7. CASE ~ r.negate
    BY <2>4, <2>5, <2>7 DEF r
  <2> QED BY <2>6, <2>7 DEF r
<1>2. Wins => LET n == Len(rules')
                  b == Walk(<<>>, FALSE, rules).files
                  a == Walk(<<>>, FALSE, rules').files
                  nm(p) == matchesPath(rules'[n], p, FALSE) /\ p # manifestName
              IN  (n = Len(rules) + 1 /\ pc = "scan") =>
                      IF rules'[n].negate
                      THEN b \cup {p \in DOMAIN Tree : Tree[p] = "file" /\ nm(p)} \subseteq a
                      ELSE a = {p \in b : ~ Covers(rules'[n], p)}
  OBVIOUS
<1> HIDE DEF Wins
<1> QED BY <1>1, <1>2, AlwaysPlanned, PTL DEF Spec, LastLineWins

----------------------------------------------------------------------------
(* Types. *)

\* TypeOK without Connect's part, and with what the length of the list needs.
RunTypes ==
    /\ pc \in {"load", "start", "scan", "planned", "connect", "deploy", "exit"} \cup Unwinding
    /\ uploads \in Configurations \cup {<<>>}
    /\ warned \subseteq (DOMAIN uploads) \X (DOMAIN uploads)
    /\ Len(rules) <= MaxLines
    /\ plan.of.files \subseteq DOMAIN Tree \cup {baseName}
    /\ done \in 0 .. Deployments /\ result \in {"none", "ok", "error"}
    /\ saved \in Nat
    /\ watching \in BOOLEAN /\ keepalive \in BOOLEAN /\ pinging \in BOOLEAN

\* A plan holds files of the tree, or the single file.
LEMMA PlannedFiles ==
    ASSUME NEW s \in Source, NEW st \in {"overlay", "clean"}, NEW lines
    PROVE  buildPlan(s, st, lines).files \subseteq DOMAIN Tree \cup {baseName}
<1>1. CASE s.kind = "dir"
  <2>1. \/ buildPlan(s, st, lines) = NoPlan
        \/ buildPlan(s, st, lines) = Walk(WalkRoot(s).links, ~ hasNegation(lines), lines)
    BY <1>1 DEF buildPlan
  <2>2. Walk(WalkRoot(s).links, ~ hasNegation(lines), lines).files \subseteq DOMAIN Tree
    BY DEF Walk, Wanted, Visited
  <2>3. NoPlan.files = {}
    BY DEF NoPlan
  <2> QED BY <2>1, <2>2, <2>3
<1>2. CASE s.kind = "missing"
  BY <1>2 DEF buildPlan, NoPlan
<1>3. CASE s.kind = "file" /\ st # "overlay"
  BY <1>3 DEF buildPlan, NoPlan
<1>4. CASE s.kind = "file" /\ st = "overlay"
  <2>1. buildPlan(s, st, lines) = SingleFile(lines)
    BY <1>4 DEF buildPlan
  <2>2. SingleFile(lines).files \subseteq {baseName}
    BY DEF SingleFile
  <2> QED BY <2>1, <2>2
<1> QED BY <1>1, <1>2, <1>3, <1>4 DEF Source

LEMMA InitTypes == Init => RunTypes
<1> SUFFICES ASSUME Init PROVE RunTypes
  OBVIOUS
<1>1. Len(rules) = 0 /\ MaxLines \in Nat
  BY RunAssumption DEF Init
<1>2. plan.of.files = {}
  BY DEF Init, Unplanned, NoPlan
<1>3. done \in 0 .. Deployments
  BY RunAssumption DEF Init
<1>4. Len(rules) <= MaxLines
  BY <1>1
<1>5. uploads = <<>> /\ warned = {}
  BY DEF Init
<1>6. /\ pc = "load" /\ result = "none" /\ saved = 0
      /\ watching = FALSE /\ keepalive = FALSE /\ pinging = FALSE
  BY DEF Init
<1> QED BY <1>2, <1>3, <1>4, <1>5, <1>6 DEF RunTypes

LEMMA TypesStep == RunTypes /\ Planned /\ [Next]_vars => RunTypes'
<1> SUFFICES ASSUME RunTypes, Planned, [Next]_vars PROVE RunTypes'
  OBVIOUS
<1> USE DEF RunTypes
<1>0. Len(<<>>) = 0 /\ 0 <= MaxLines /\ MaxLines \in Nat /\ 0 \in 0 .. Deployments
      /\ Deployments \in Nat
  BY RunAssumption
<1>1. ASSUME NEW u \in Configurations, Load(u) PROVE RunTypes'
  <2>1. warned' \subseteq (DOMAIN u) \X (DOMAIN u) /\ uploads' = u
    BY <1>1 DEF Load, SyncTargetWarnings
  <2> QED BY <1>1, <2>1 DEF Load, bvars, Unwinding
<1>2. CASE StartRun
  BY <1>2 DEF StartRun, bvars
<1>3. ASSUME NEW l \in Lines, CompileLine(l) PROVE RunTypes'
  <2>1. Len(rules') <= MaxLines
    <3>1. CASE l.bad
      BY <1>0, <1>3, <3>1 DEF CompileLine
    <3>2. CASE ~ l.bad
      <4>1. rules \in Seq(Pattern) /\ compileGitignore(l) \in Pattern
        BY DEF Planned, Pattern
      <4>2. Len(Append(rules, compileGitignore(l))) = Len(rules) + 1 /\ Len(rules) \in Nat
        BY <4>1, AppendProperties, LenProperties
      <4>3. rules' = Append(rules, compileGitignore(l)) /\ Len(rules) < MaxLines
        BY <1>3, <3>2 DEF CompileLine
      <4> QED BY <1>0, <4>2, <4>3
    <3> QED BY <3>1, <3>2
  <2>2. pc' \in {"report", "scan"} /\ result' \in {"none", "ok", "error"}
    BY <1>3 DEF CompileLine
  <2> QED BY <1>3, <2>1, <2>2 DEF CompileLine, bvars, Unwinding
<1>4. ASSUME NEW s \in Sources, NEW st \in {"overlay", "clean"}, BuildPlan(s, st) PROVE RunTypes'
  <2>1. plan'.of = buildPlan(s, st, rules)
    BY <1>4 DEF BuildPlan
  <2>2. plan'.of.files \subseteq DOMAIN Tree \cup {baseName}
    <3>1. s \in Source
      BY RunAssumption
    <3> QED BY <2>1, <3>1, PlannedFiles
  <2>3. pc' \in {"report", "planned"} /\ result' \in {"none", "ok", "error"}
    BY <1>4 DEF BuildPlan
  <2> QED BY <1>4, <2>2, <2>3 DEF BuildPlan, bvars, Unwinding
<1>5. CASE NextPlan
  <2>1. plan'.of.files = {} /\ Len(rules') = 0
    BY <1>5 DEF NextPlan, Unplanned, NoPlan
  <2>2. pc' \in {"scan", "connect"} /\ done' \in 0 .. Deployments
    BY <1>0, <1>5 DEF NextPlan
  <2> QED BY <1>0, <1>5, <2>1, <2>2 DEF NextPlan, bvars
<1>6. CASE Connecting \/ Probing \/ LateKill \/ CancelRun
  BY <1>6 DEF Connecting, Probing, LateKill, CancelRun, rvars, lvars, bvars
<1>7. CASE NoSession \/ Opened \/ AllDeployed
  BY <1>7 DEF NoSession, Opened, AllDeployed, lvars, bvars, Unwinding
<1>8. ASSUME NEW r \in {"ok", "error"}, Deploy(r) PROVE RunTypes'
  <2>1. done' \in 0 .. Deployments
    BY <1>0, <1>8 DEF Deploy
  <2> QED BY <1>8, <2>1 DEF Deploy, lvars, bvars, Unwinding
<1>9. CASE Ping \/ PingWritten
  BY <1>9 DEF Ping, PingWritten, lvars
<1>10. CASE Unwind
  <2>1. CASE SaveCache
    BY <2>1 DEF SaveCache, lvars, bvars, Unwinding
  <2>2. CASE ~ SaveCache
    BY <1>10, <2>2 DEF Unwind, StopWatch, StopKeepalives, CloseConnections, Return, lvars, bvars,
       Unwinding
  <2> QED BY <2>1, <2>2
<1>11. CASE UNCHANGED vars
  BY <1>11 DEF vars, rvars, lvars, bvars
<1> QED BY <1>1, <1>2, <1>3, <1>4, <1>5, <1>6, <1>7, <1>8, <1>9, <1>10, <1>11
        DEF Next, Planning, Executing

\* Every variable of a run keeps its type: no list of lines grows past its bound,
\* every planned file is one of the tree or the single file, and every overlap
\* warned about is between two deployments of the configuration.
THEOREM RunTypeCorrect == Spec => []TypeOK
<1>1. Spec => []RunTypes
  <2>1. Planned /\ Planned' /\ RunTypes /\ [Next]_vars => RunTypes'
    BY TypesStep
  <2> QED BY <2>1, InitTypes, AlwaysPlanned, PTL DEF Spec
<1>2. Spec => []CInv
  BY RunConnects, ConnectInv, PTL
<1>3. RunTypes /\ CInv => TypeOK
  BY DEF RunTypes, CInv, TypeOK
<1> QED BY <1>1, <1>2, <1>3, PTL

----------------------------------------------------------------------------
(* The targets. *)

\* path.Clean's loop, as the sequence of what it has kept after each name.
LEMMA Cleaning ==
    ASSUME NEW remote, Len(remote.names) \in Nat
    PROVE  \E k : /\ k[0] = <<>>
                  /\ \A i \in 1 .. Len(remote.names) :
                        k[i] = CleanStep(remote.abs, k[i - 1], remote.names[i])
                  /\ NormalizeRemote(remote) =
                        [abs |-> remote.abs, names |-> k[Len(remote.names)]]
<1> DEFINE n == Len(remote.names)
           Keep(g, i) == IF i = 0 THEN <<>>
                         ELSE CleanStep(remote.abs, g[i - 1], remote.names[i])
           kept == CHOOSE g : g = [i \in 0 .. n |-> Keep(g, i)]
<1>1. NormalizeRemote(remote) = [abs |-> remote.abs, names |-> kept[n]]
  BY DEF NormalizeRemote
<1>2. n \in Nat
  OBVIOUS
<1>3. \A m \in 0 .. n : \E g : g = [i \in 0 .. m |-> Keep(g, i)]
  <2> DEFINE T == {m \in Nat : m <= n => \E g : g = [i \in 0 .. m |-> Keep(g, i)]}
  <2>1. 0 \in T
    <3> DEFINE g == [i \in 0 .. 0 |-> <<>>]
    <3>1. \A i \in 0 .. 0 : Keep(g, i) = <<>>
      OBVIOUS
    <3> HIDE DEF Keep
    <3>2. g = [i \in 0 .. 0 |-> Keep(g, i)]
      BY <3>1
    <3> HIDE DEF g
    <3> QED BY <3>2
  <2>2. ASSUME NEW m \in Nat, m \in T PROVE m + 1 \in T
    <3> SUFFICES ASSUME m + 1 <= n
                 PROVE  \E g : g = [i \in 0 .. (m + 1) |-> Keep(g, i)]
      <4> HIDE DEF Keep, n
      <4> QED OBVIOUS
    <3>1. PICK h : h = [i \in 0 .. m |-> Keep(h, i)]
      BY <1>2, <2>2
    <3> DEFINE g == [i \in 0 .. (m + 1) |-> IF i <= m THEN h[i] ELSE Keep(h, m + 1)]
    <3>2. \A i \in 0 .. m : g[i] = h[i] /\ h[i] = Keep(h, i)
      <4>1. \A i \in 0 .. m : h[i] = Keep(h, i)
        BY <3>1
      <4> HIDE DEF Keep
      <4> QED BY <4>1
    <3>3. \A i \in 0 .. (m + 1) : g[i] = Keep(g, i)
      <4> SUFFICES ASSUME NEW i \in 0 .. (m + 1) PROVE g[i] = Keep(g, i)
        OBVIOUS
      <4>1. i # 0 => i - 1 \in 0 .. m
        OBVIOUS
      <4>2. i # 0 => g[i - 1] = h[i - 1]
        BY <3>2, <4>1
      <4>3. Keep(g, i) = Keep(h, i)
        <5> HIDE DEF g
        <5> QED BY <4>2
      <4>4. g[i] = Keep(h, i)
        <5>1. CASE i <= m
          <6>1. i \in 0 .. m
            BY <5>1
          <6> HIDE DEF Keep, g
          <6> QED BY <3>2, <6>1
        <5>2. CASE ~ (i <= m)
          <6>1. i = m + 1
            BY <5>2
          <6> HIDE DEF Keep
          <6> QED BY <5>2, <6>1
        <5> QED BY <5>1, <5>2
      <4> HIDE DEF Keep, g
      <4> QED BY <4>3, <4>4
    <3>4. g = [i \in 0 .. (m + 1) |-> Keep(g, i)]
      <4> HIDE DEF Keep
      <4> QED BY <3>3
    <3> HIDE DEF g, Keep
    <3> QED BY <3>4
  <2> HIDE DEF T
  <2>3. Nat \subseteq T
    BY <2>1, <2>2, SetInduction
  <2> USE DEF T
  <2> HIDE DEF Keep
  <2> QED BY <1>2, <2>3
<1>4. kept = [i \in 0 .. n |-> Keep(kept, i)]
  <2>0. n \in 0 .. n
    BY <1>2
  <2>1. \E g : g = [i \in 0 .. n |-> Keep(g, i)]
    <3> HIDE DEF Keep, n
    <3> QED BY <1>3, <2>0
  <2> HIDE DEF Keep
  <2> QED BY <2>1
<1> HIDE DEF kept
<1>5. kept[0] = <<>>
  BY <1>2, <1>4
<1>6. ASSUME NEW i \in 1 .. n
      PROVE  kept[i] = CleanStep(remote.abs, kept[i - 1], remote.names[i])
  <2>1. i \in 0 .. n /\ i # 0
    BY <1>2
  <2> QED BY <1>4, <2>1
<1> QED BY <1>1, <1>5, <1>6

\* A name, the login directory's among them.
Word == STRING \cup {"home"}

\* What path.Clean leaves: no ".", and ".." only at the front of a relative path.
Clear(abs, s) ==
    /\ s \in Seq(Word)
    /\ \A i \in 1 .. Len(s) : s[i] # "."
    /\ \A i \in 1 .. Len(s) : s[i] = ".." => ~ abs /\ \A j \in 1 .. i : s[j] = ".."

LEMMA ClearStep ==
    ASSUME NEW abs \in BOOLEAN, NEW s, Clear(abs, s), NEW name \in Word
    PROVE  Clear(abs, CleanStep(abs, s, name))
<1>1. s \in Seq(Word) /\ Len(s) \in Nat
  BY DEF Clear
<1>2. ASSUME name # ".", name = ".." => ~ abs /\ (s = <<>> \/ s[Len(s)] = "..")
      PROVE  Clear(abs, Append(s, name))
  <2>1. /\ Append(s, name) \in Seq(Word) /\ Len(Append(s, name)) = Len(s) + 1
        /\ \A i \in 1 .. Len(s) : Append(s, name)[i] = s[i]
        /\ Append(s, name)[Len(s) + 1] = name
    BY <1>1, AppendProperties
  <2>2. \A i \in 1 .. Len(s) + 1 : i \in 1 .. Len(s) \/ i = Len(s) + 1
    BY <1>1
  <2>3. name = ".." => \A j \in 1 .. Len(s) : s[j] = ".."
    <3>1. s # <<>> => Len(s) \in 1 .. Len(s)
      BY <1>1, EmptySeq
    <3> QED BY <1>1, <1>2, <3>1 DEF Clear
  <2>4. ASSUME NEW i \in 1 .. Len(s) + 1, Append(s, name)[i] = ".."
        PROVE  ~ abs /\ \A j \in 1 .. i : Append(s, name)[j] = ".."
    <3>1. CASE i \in 1 .. Len(s)
      <4>1. \A j \in 1 .. i : j \in 1 .. Len(s)
        BY <1>1, <3>1
      <4> QED BY <2>1, <2>4, <3>1, <4>1 DEF Clear
    <3>2. CASE i = Len(s) + 1
      BY <1>2, <2>1, <2>2, <2>3, <2>4, <3>2
    <3> QED BY <2>2, <3>1, <3>2
  <2> QED BY <1>2, <2>1, <2>2, <2>4 DEF Clear
<1>3. ASSUME s # <<>> PROVE Clear(abs, Front(s))
  <2>1. Len(s) - 1 \in Nat /\ Len(s) >= 1
    BY <1>1, <1>3, EmptySeq
  <2>2. /\ Front(s) \in Seq(Word) /\ Len(Front(s)) = Len(s) - 1
        /\ \A i \in 1 .. Len(s) - 1 : Front(s)[i] = s[i]
    <3>1. \A i \in 1 .. Len(s) - 1 : i \in 1 .. Len(s)
      BY <1>1, <2>1
    <3>2. Front(s) = SubSeq(s, 1, Len(s) - 1)
      BY DEF Front
    <3>3. PICK n \in Nat : n = Len(s) - 1
      BY <2>1
    <3>4. \A i \in 1 .. n : s[i] \in Word
      BY <1>1, <3>1, <3>3
    <3>5. /\ SubSeq(s, 1, n) \in Seq(Word)
          /\ Len(SubSeq(s, 1, n)) = IF 1 <= n THEN n - 1 + 1 ELSE 0
          /\ \A i \in 1 .. n - 1 + 1 : SubSeq(s, 1, n)[i] = s[1 + i - 1]
      BY <3>4, SubSeqProperties
    <3>6. \A i \in 1 .. n : i \in 1 .. n - 1 + 1 /\ 1 + i - 1 = i
      OBVIOUS
    <3>7. Len(SubSeq(s, 1, n)) = n
      BY <3>5
    <3>8. \A i \in 1 .. n : SubSeq(s, 1, n)[i] = s[i]
      BY <3>5, <3>6
    <3> QED BY <3>2, <3>3, <3>5, <3>7, <3>8
  <2>3. \A i \in 1 .. Len(s) - 1 : i \in 1 .. Len(s) /\ \A j \in 1 .. i : j \in 1 .. Len(s) - 1
    BY <1>1, <2>1
  <2> QED BY <2>2, <2>3 DEF Clear
<1>4. CASE name = "."
  BY <1>4 DEF CleanStep
<1>5. CASE name \notin {".", ".."}
  <2>1. CleanStep(abs, s, name) = Append(s, name)
    BY <1>5 DEF CleanStep
  <2> QED BY <1>2, <1>5, <2>1
<1>6. CASE name = ".." /\ s # <<>> /\ Last(s) # ".."
  <2>1. CleanStep(abs, s, name) = Front(s)
    BY <1>6 DEF CleanStep
  <2> QED BY <1>3, <1>6, <2>1
<1>7. CASE name = ".." /\ ~ (s # <<>> /\ Last(s) # "..")
  <2>1. CleanStep(abs, s, name) = IF abs THEN s ELSE Append(s, name)
    BY <1>7 DEF CleanStep
  <2>2. s = <<>> \/ s[Len(s)] = ".."
    BY <1>7 DEF Last
  <2> QED BY <1>2, <1>7, <2>1, <2>2
<1> QED BY <1>4, <1>5, <1>6, <1>7

Remote == [abs : BOOLEAN, names : Seq(Word)]

LEMMA NormalizedIsClear ==
    ASSUME NEW remote \in Remote
    PROVE  /\ NormalizeRemote(remote).abs = remote.abs
           /\ Clear(remote.abs, NormalizeRemote(remote).names)
           /\ NormalizeRemote(remote) =
                 [abs |-> remote.abs, names |-> NormalizeRemote(remote).names]
<1>1. /\ remote.abs \in BOOLEAN /\ remote.names \in Seq(Word)
      /\ Len(remote.names) \in Nat
      /\ \A i \in 1 .. Len(remote.names) : remote.names[i] \in Word
  BY DEF Remote
<1>2. PICK k : /\ k[0] = <<>>
               /\ \A i \in 1 .. Len(remote.names) :
                     k[i] = CleanStep(remote.abs, k[i - 1], remote.names[i])
               /\ NormalizeRemote(remote) = [abs |-> remote.abs, names |-> k[Len(remote.names)]]
  BY <1>1, Cleaning
<1> DEFINE T == {m \in Nat : m <= Len(remote.names) => Clear(remote.abs, k[m])}
<1>3. 0 \in T
  <2>1. Clear(remote.abs, <<>>)
    BY DEF Clear
  <2> QED BY <1>2, <2>1
<1>4. ASSUME NEW m \in Nat, m \in T PROVE m + 1 \in T
  <2> SUFFICES ASSUME m + 1 <= Len(remote.names) PROVE Clear(remote.abs, k[m + 1])
    OBVIOUS
  <2>1. Clear(remote.abs, k[m])
    BY <1>1, <1>4
  <2>2. m + 1 \in 1 .. Len(remote.names) /\ (m + 1) - 1 = m
    BY <1>1
  <2>3. k[m + 1] = CleanStep(remote.abs, k[m], remote.names[m + 1])
    BY <1>2, <2>2
  <2> QED BY <1>1, <2>1, <2>2, <2>3, ClearStep
<1> HIDE DEF T
<1>5. Nat \subseteq T
  BY <1>3, <1>4, SetInduction
<1>6. Clear(remote.abs, k[Len(remote.names)])
  <2> USE DEF T
  <2> QED BY <1>1, <1>5
<1> QED BY <1>2, <1>6

\* A path of plain names is its own cleaned form.
LEMMA PlainNames ==
    ASSUME NEW remote \in Remote,
           \A i \in 1 .. Len(remote.names) : remote.names[i] \notin {".", ".."}
    PROVE  NormalizeRemote(remote).names = remote.names
<1>1. /\ remote.names \in Seq(Word) /\ Len(remote.names) \in Nat
      /\ DOMAIN remote.names = 1 .. Len(remote.names)
  BY DEF Remote
<1>2. PICK k : /\ k[0] = <<>>
               /\ \A i \in 1 .. Len(remote.names) :
                     k[i] = CleanStep(remote.abs, k[i - 1], remote.names[i])
               /\ NormalizeRemote(remote) = [abs |-> remote.abs, names |-> k[Len(remote.names)]]
  BY <1>1, Cleaning
<1> DEFINE Same(m) == /\ k[m] \in Seq(Word) /\ Len(k[m]) = m
                      /\ \A i \in 1 .. m : k[m][i] = remote.names[i]
           T == {m \in Nat : m <= Len(remote.names) => Same(m)}
<1>3. 0 \in T
  <2>1. k[0] \in Seq(Word) /\ Len(k[0]) = 0
    BY <1>2
  <2> QED BY <2>1
<1>4. ASSUME NEW m \in Nat, m \in T PROVE m + 1 \in T
  <2> SUFFICES ASSUME m + 1 <= Len(remote.names) PROVE Same(m + 1)
    OBVIOUS
  <2>1. Same(m)
    BY <1>1, <1>4
  <2>2. m + 1 \in 1 .. Len(remote.names) /\ (m + 1) - 1 = m
    BY <1>1
  <2>3. k[m + 1] = CleanStep(remote.abs, k[m], remote.names[m + 1])
    BY <1>2, <2>2
  <2>4. k[m + 1] = Append(k[m], remote.names[m + 1]) /\ remote.names[m + 1] \in Word
    BY <1>1, <2>2, <2>3 DEF CleanStep
  <2>5. /\ k[m + 1] \in Seq(Word) /\ Len(k[m + 1]) = m + 1
        /\ \A i \in 1 .. m : k[m + 1][i] = k[m][i]
        /\ k[m + 1][m + 1] = remote.names[m + 1]
    BY <2>1, <2>4, AppendProperties
  <2>6. \A i \in 1 .. m + 1 : i \in 1 .. m \/ i = m + 1
    OBVIOUS
  <2> QED BY <2>1, <2>5, <2>6
<1> HIDE DEF T
<1>5. Nat \subseteq T
  BY <1>3, <1>4, SetInduction
<1>6. Same(Len(remote.names))
  <2> USE DEF T
  <2> HIDE DEF Same
  <2> QED BY <1>1, <1>5
<1>7. k[Len(remote.names)] = remote.names
  BY <1>1, <1>6
<1> QED BY <1>2, <1>7

\* A target checkRemoteRoot lets through is made of plain names, and more than a
\* drive.
LEMMA UnguardedIsPlain ==
    ASSUME NEW remote \in Remote, ~ checkRemoteRoot(remote)
    PROVE  LET p == NormalizeRemote(remote)
           IN  /\ p.abs = remote.abs /\ p.names \in Seq(Word) /\ Len(p.names) >= 1
               /\ \A i \in 1 .. Len(p.names) : p.names[i] \notin {".", ".."}
               /\ p.names[1] \in Drives => Len(p.names) > 1
               /\ p \in Remote
<1> DEFINE p == NormalizeRemote(remote)
           s == p.names
<1>1. p.abs = remote.abs /\ Clear(remote.abs, s) /\ p = [abs |-> remote.abs, names |-> s]
  BY NormalizedIsClear
<1>2. /\ s # <<>>
      /\ ~ (Len(s) = 1 /\ s[1] \in Drives)
      /\ p.abs \/ s[1] # ".."
  BY DEF checkRemoteRoot
<1> HIDE DEF s, p
<1>3. s \in Seq(Word) /\ Len(s) \in Nat /\ Len(s) >= 1
  BY <1>1, <1>2, EmptySeq DEF Clear
<1>4. ASSUME NEW i \in 1 .. Len(s) PROVE s[i] \notin {".", ".."}
  <2>1. 1 \in 1 .. i
    BY <1>3
  <2> QED BY <1>1, <1>2, <2>1 DEF Clear
<1>5. s[1] \in Drives => Len(s) > 1
  <2>1. \A n \in Nat : n >= 1 /\ n # 1 => n > 1
    OBVIOUS
  <2> QED BY <1>2, <1>3, <2>1
<1>6. p \in Remote
  <2>1. remote.abs \in BOOLEAN
    BY DEF Remote
  <2> QED BY <1>1, <1>3, <2>1 DEF Remote
<1> QED BY <1>1, <1>3, <1>4, <1>5, <1>6 DEF s, p

\* One sequence is a prefix of another when it agrees with it as far as it goes.
LEMMA PrefixByNames ==
    ASSUME NEW s \in Seq(Word), NEW t \in Seq(Word)
    PROVE  IsPrefix(s, t) <=> Len(s) <= Len(t) /\ \A i \in 1 .. Len(s) : s[i] = t[i]
<1>1. PICK m \in Nat, n \in Nat : m = Len(s) /\ n = Len(t)
  OBVIOUS
<1>2. (\A i \in 1 .. m : s[i] \in Word) /\ (\A i \in 1 .. n : t[i] \in Word)
  BY <1>1
<1> SUFFICES ASSUME m <= n
             PROVE  SubSeq(s, 1, m) = SubSeq(t, 1, m) <=> \A i \in 1 .. m : s[i] = t[i]
  BY <1>1 DEF IsPrefix
<1>3. \A i \in 1 .. m : i \in 1 .. n /\ i \in 1 .. m - 1 + 1 /\ 1 + i - 1 = i
  OBVIOUS
<1>4. /\ SubSeq(s, 1, m) \in Seq(Word) /\ Len(SubSeq(s, 1, m)) = m
      /\ \A i \in 1 .. m : SubSeq(s, 1, m)[i] = s[i]
  <2>1. /\ SubSeq(s, 1, m) \in Seq(Word)
        /\ Len(SubSeq(s, 1, m)) = IF 1 <= m THEN m - 1 + 1 ELSE 0
        /\ \A i \in 1 .. m - 1 + 1 : SubSeq(s, 1, m)[i] = s[1 + i - 1]
    BY <1>2, SubSeqProperties
  <2>2. Len(SubSeq(s, 1, m)) = m
    BY <2>1
  <2> QED BY <1>3, <2>1, <2>2
<1>5. /\ SubSeq(t, 1, m) \in Seq(Word) /\ Len(SubSeq(t, 1, m)) = m
      /\ \A i \in 1 .. m : SubSeq(t, 1, m)[i] = t[i]
  <2>1. /\ SubSeq(t, 1, m) \in Seq(Word)
        /\ Len(SubSeq(t, 1, m)) = IF 1 <= m THEN m - 1 + 1 ELSE 0
        /\ \A i \in 1 .. m - 1 + 1 : SubSeq(t, 1, m)[i] = t[1 + i - 1]
    BY <1>2, <1>3, SubSeqProperties
  <2>2. Len(SubSeq(t, 1, m)) = m
    BY <2>1
  <2> QED BY <1>3, <2>1, <2>2
<1>6. ASSUME \A i \in 1 .. m : s[i] = t[i] PROVE SubSeq(s, 1, m) = SubSeq(t, 1, m)
  <2>1. \A i \in 1 .. m : SubSeq(s, 1, m)[i] = SubSeq(t, 1, m)[i]
    BY <1>4, <1>5, <1>6
  <2> QED BY <1>4, <1>5, <2>1, SeqEqual
<1> QED BY <1>4, <1>5, <1>6

LEMMA HomeIsAName == Home \in Seq(Word) /\ Len(Home) = 1 /\ Home[1] = "home"
<1>1. "home" \in Word
  BY DEF Word
<1>2. Home = <<"home">>
  BY DEF Home
<1>3. ASSUME NEW S, NEW e \in S PROVE <<e>> \in Seq(S) /\ Len(<<e>>) = 1 /\ <<e>>[1] = e
  OBVIOUS
<1>4. <<"home">> \in Seq(Word) /\ Len(<<"home">>) = 1 /\ <<"home">>[1] = "home"
  <2>1. PICK w \in Word : w = "home"
    BY <1>1
  <2>2. <<w>> \in Seq(Word) /\ Len(<<w>>) = 1 /\ <<w>>[1] = w
    BY <1>3
  <2> QED BY <2>1, <2>2, Zenon
<1> QED BY <1>2, <1>4

\* A relative path of plain names, from the root: the login directory and the names.
LEMMA BelowHome ==
    ASSUME NEW s \in Seq(Word), \A i \in 1 .. Len(s) : s[i] \notin {".", ".."}
    PROVE  LET h == Home \o s
           IN  /\ h \in Seq(Word) /\ Len(h) = Len(s) + 1 /\ h[1] = "home"
               /\ \A i \in 1 .. Len(s) : h[i + 1] = s[i]
               /\ NormalizeRemote([abs |-> TRUE, names |-> h]).names = h
<1> DEFINE h == Home \o s
<1>1. Home \in Seq(Word) /\ Len(Home) = 1 /\ Home[1] = "home"
  BY HomeIsAName
<1>2. Len(s) \in Nat
  OBVIOUS
<1>3. h \in Seq(Word) /\ Len(h) = 1 + Len(s)
      /\ \A i \in 1 .. 1 + Len(s) : h[i] = IF i <= 1 THEN Home[i] ELSE s[i - 1]
  BY <1>1, ConcatProperties
<1>4. h[1] = "home"
  BY <1>1, <1>2, <1>3
<1>5. ASSUME NEW i \in 1 .. Len(s) PROVE h[i + 1] = s[i]
  <2>1. i + 1 \in 1 .. 1 + Len(s) /\ ~ (i + 1 <= 1) /\ (i + 1) - 1 = i
    BY <1>2
  <2> QED BY <1>3, <2>1
<1> HIDE DEF h
<1>6. ASSUME NEW i \in 1 .. Len(h) PROVE h[i] \notin {".", ".."}
  <2>1. CASE i = 1
    BY <1>4, <2>1
  <2>2. CASE i # 1
    <3>1. i - 1 \in 1 .. Len(s) /\ (i - 1) + 1 = i
      BY <1>2, <1>3, <2>2
    <3> QED BY <1>5, <3>1
  <2> QED BY <2>1, <2>2
<1>7. NormalizeRemote([abs |-> TRUE, names |-> h]).names = h
  <2> DEFINE r == [abs |-> TRUE, names |-> h]
  <2>1. r \in Remote /\ r.names = h
    BY <1>3 DEF Remote
  <2> HIDE DEF r
  <2>2. \A i \in 1 .. Len(r.names) : r.names[i] \notin {".", ".."}
    BY <1>6, <2>1
  <2>3. NormalizeRemote(r).names = h
    BY <2>1, <2>2, PlainNames
  <2> QED BY <2>3 DEF r
<1>8. Len(h) = Len(s) + 1
  BY <1>2, <1>3
<1> QED BY <1>3, <1>4, <1>5, <1>7, <1>8 DEF h

\* A target that is let through is below a root or a login directory.
LEMMA LetThroughIsBelow ==
    ASSUME NEW remote \in Remote, ~ checkRemoteRoot(remote)
    PROVE  BelowRoot(remote)
<1> DEFINE p == NormalizeRemote(remote)
<1>1. /\ p.abs \in BOOLEAN /\ p.names \in Seq(Word) /\ Len(p.names) >= 1
      /\ \A i \in 1 .. Len(p.names) : p.names[i] \notin {".", ".."}
      /\ p.names[1] \in Drives => Len(p.names) > 1
  BY UnguardedIsPlain DEF Remote
<1>2. p.names # <<>>
  BY <1>1, EmptySeq
<1> HIDE DEF p
<1>3. CASE OnDrive(p)
  BY <1>1, <1>3 DEF BelowRoot, OnDrive, p
<1>4. CASE ~ OnDrive(p) /\ p.abs
  <2>1. Directory(p) # <<>>
    BY <1>2, <1>4 DEF Directory
  <2> QED BY <1>4, <2>1 DEF BelowRoot, p
<1>5. CASE ~ OnDrive(p) /\ ~ p.abs
  <2> DEFINE h == Home \o p.names
  <2>1. /\ h \in Seq(Word) /\ Len(h) = Len(p.names) + 1 /\ h[1] = "home"
        /\ NormalizeRemote([abs |-> TRUE, names |-> h]).names = h
    BY <1>1, BelowHome
  <2>2. Directory(p) = h
    BY <1>5, <2>1 DEF Directory
  <2> HIDE DEF h
  <2>3. Home \in Seq(Word) /\ Len(Home) = 1 /\ Home[1] = "home"
    BY HomeIsAName
  <2>4. Len(Home) <= Len(h) /\ \A i \in 1 .. Len(Home) : Home[i] = h[i]
    BY <1>1, <2>1, <2>3
  <2>5. Home # h
    BY <1>1, <2>1, <2>3
  <2>6. IsStrictPrefix(Home, h)
    BY <2>1, <2>3, <2>4, <2>5, PrefixByNames DEF IsStrictPrefix
  <2> QED BY <1>5, <2>2, <2>6 DEF BelowRoot, p
<1> QED BY <1>3, <1>4, <1>5

\* The remote targets of a configuration.
LEMMA ConfiguredRemotes ==
    ASSUME NEW u \in Configurations \cup {<<>>}, NEW i \in DOMAIN u
    PROVE  u[i].remote \in Remote
<1>1. CASE u = <<>>
  <2>1. DOMAIN u = {}
    BY <1>1
  <2> QED BY <2>1
<1>2. CASE u \in Configurations
  <2>1. u \in Seq([remote : [abs : BOOLEAN, names : Seq(STRING)],
                   strategy : {"overlay", "sync", "clean"}])
    BY <1>2, ConfigurationAssumption
  <2>2. u[i] \in [remote : [abs : BOOLEAN, names : Seq(STRING)],
                  strategy : {"overlay", "sync", "clean"}]
    <3>1. ASSUME NEW S, NEW v \in Seq(S), NEW j \in DOMAIN v PROVE v[j] \in S
      OBVIOUS
    <3> QED BY <2>1, <3>1
  <2>3. u[i].remote \in [abs : BOOLEAN, names : Seq(STRING)]
    BY <2>2
  <2>4. ASSUME NEW A, NEW B, NEW s \in Seq(A) PROVE s \in Seq(A \cup B)
    OBVIOUS
  <2>5. \A s \in Seq(STRING) : s \in Seq(Word)
    BY <2>4 DEF Word
  <2>6. u[i].remote.abs \in BOOLEAN /\ u[i].remote.names \in Seq(Word)
    BY <2>3, <2>5
  <2>7. u[i].remote = [abs |-> u[i].remote.abs, names |-> u[i].remote.names]
    BY <2>3
  <2> QED BY <2>6, <2>7 DEF Remote
<1> QED BY <1>1, <1>2

\* A target after foldDriveSpelling, and the directory it names.
LEMMA FoldedTarget ==
    ASSUME NEW pair, pair.remote \in Remote, ~ checkRemoteRoot(pair.remote)
    PROVE  LET t == Target(pair)
               h == Home \o t.names
           IN  /\ t.abs \in BOOLEAN /\ t.names \in Seq(Word) /\ Len(t.names) >= 1
               /\ t \in Remote
               /\ t.abs => t.names[1] \notin Drives
               /\ Directory(t) = IF t.abs \/ t.names[1] \in Drives THEN t.names ELSE h
               /\ h \in Seq(Word) /\ Len(h) = Len(t.names) + 1 /\ h[1] = "home"
               /\ \A i \in 1 .. Len(t.names) : h[i + 1] = t.names[i]
<1> DEFINE p == NormalizeRemote(pair.remote)
           t == Target(pair)
           h == Home \o t.names
<1>1. /\ p.abs \in BOOLEAN /\ p.names \in Seq(Word) /\ Len(p.names) >= 1
      /\ \A i \in 1 .. Len(p.names) : p.names[i] \notin {".", ".."}
      /\ p \in Remote
  BY UnguardedIsPlain DEF Remote
<1>2. p.names # <<>>
  BY <1>1, EmptySeq
<1>3. t = foldDriveSpelling(p)
  BY DEF Target
<1> HIDE DEF p
<1>4. /\ t.names = p.names
      /\ t.abs = (p.abs /\ p.names[1] \notin Drives)
      /\ t \in Remote
  <2>1. CASE p.abs /\ p.names[1] \in Drives
    <3>1. foldDriveSpelling(p) = [p EXCEPT !.abs = FALSE]
      BY <1>2, <2>1 DEF foldDriveSpelling
    <3>2. /\ [p EXCEPT !.abs = FALSE] \in Remote
          /\ [p EXCEPT !.abs = FALSE].names = p.names
          /\ [p EXCEPT !.abs = FALSE].abs = FALSE
      BY <1>1 DEF Remote
    <3> QED BY <1>3, <2>1, <3>1, <3>2
  <2>2. CASE ~ (p.abs /\ p.names[1] \in Drives)
    <3>1. foldDriveSpelling(p) = p
      <4>1. ~ (p.abs /\ p.names # <<>> /\ p.names[1] \in Drives)
        BY <2>2
      <4> QED BY <4>1, Zenon DEF foldDriveSpelling
    <3>2. t = p
      BY <1>3, <3>1
    <3>3. p.abs = (p.abs /\ p.names[1] \notin Drives)
      BY <1>1, <2>2
    <3> QED BY <1>1, <3>2, <3>3
  <2> QED BY <2>1, <2>2
<1> HIDE DEF t
<1>5. /\ h \in Seq(Word) /\ Len(h) = Len(t.names) + 1 /\ h[1] = "home"
      /\ \A i \in 1 .. Len(t.names) : h[i + 1] = t.names[i]
      /\ NormalizeRemote([abs |-> TRUE, names |-> h]).names = h
  BY <1>1, <1>4, BelowHome
<1>6. OnDrive(t) <=> t.names[1] \in Drives
  BY <1>2, <1>4 DEF OnDrive
<1>7. Directory(t) = IF t.abs \/ t.names[1] \in Drives THEN t.names ELSE h
  BY <1>5, <1>6 DEF Directory
<1> HIDE DEF h
<1> QED BY <1>1, <1>4, <1>5, <1>7 DEF t, h

\* Two targets that are let through and touch are one target or one under the other.
LEMMA TouchingTargets ==
    ASSUME NEW a, a.remote \in Remote, ~ checkRemoteRoot(a.remote),
           NEW b, b.remote \in Remote, ~ checkRemoteRoot(b.remote),
           Target(a).abs = Target(b).abs,
           IsPrefix(Directory(Target(a)), Directory(Target(b)))
    PROVE  Target(a) = Target(b) \/ isUnder(Target(b), Target(a))
<1> DEFINE s == Target(a)
           t == Target(b)
           g == Home \o s.names
           h == Home \o t.names
<1>1. /\ s.abs \in BOOLEAN /\ s.names \in Seq(Word) /\ Len(s.names) >= 1
      /\ s \in Remote
      /\ s.abs => s.names[1] \notin Drives
      /\ Directory(s) = IF s.abs \/ s.names[1] \in Drives THEN s.names ELSE g
      /\ g \in Seq(Word) /\ Len(g) = Len(s.names) + 1 /\ g[1] = "home"
      /\ \A i \in 1 .. Len(s.names) : g[i + 1] = s.names[i]
  BY FoldedTarget
<1>2. /\ t.abs \in BOOLEAN /\ t.names \in Seq(Word) /\ Len(t.names) >= 1
      /\ t \in Remote
      /\ t.abs => t.names[1] \notin Drives
      /\ Directory(t) = IF t.abs \/ t.names[1] \in Drives THEN t.names ELSE h
      /\ h \in Seq(Word) /\ Len(h) = Len(t.names) + 1 /\ h[1] = "home"
      /\ \A i \in 1 .. Len(t.names) : h[i + 1] = t.names[i]
  BY FoldedTarget
<1>3. s.abs = t.abs /\ IsPrefix(Directory(s), Directory(t))
  OBVIOUS
<1> HIDE DEF s, t, g, h
<1>4. "home" \notin Drives
  <2>1. Home[1] = "home"
    BY HomeIsAName
  <2> QED BY <2>1, HomeAssumption, Zenon
<1>5. PICK m \in Nat, n \in Nat : m = Len(s.names) /\ n = Len(t.names) /\ m >= 1 /\ n >= 1
  <2>1. Len(s.names) \in Nat /\ Len(t.names) \in Nat
    BY <1>1, <1>2, LenProperties
  <2>2. Len(s.names) >= 1 /\ Len(t.names) >= 1
    BY <1>1, <1>2
  <2> QED BY <2>1, <2>2
<1>6. m <= n /\ \A i \in 1 .. m : s.names[i] = t.names[i]
  <2>1. CASE (s.abs \/ s.names[1] \in Drives) /\ (t.abs \/ t.names[1] \in Drives)
    <3>1. IsPrefix(s.names, t.names)
      BY <1>1, <1>2, <1>3, <2>1
    <3> QED BY <1>1, <1>2, <1>5, <3>1, PrefixByNames
  <2>2. CASE ~ (s.abs \/ s.names[1] \in Drives) /\ ~ (t.abs \/ t.names[1] \in Drives)
    <3>1. IsPrefix(g, h)
      BY <1>1, <1>2, <1>3, <2>2
    <3>2. m + 1 <= n + 1 /\ \A i \in 1 .. m + 1 : g[i] = h[i]
      BY <1>1, <1>2, <1>5, <3>1, PrefixByNames
    <3>3. m <= n /\ \A i \in 1 .. m : i + 1 \in 1 .. m + 1 /\ i \in 1 .. n
      BY <3>2
    <3> QED BY <1>1, <1>2, <1>5, <3>2, <3>3
  <2>3. CASE (s.abs \/ s.names[1] \in Drives) /\ ~ (t.abs \/ t.names[1] \in Drives)
    <3>1. IsPrefix(s.names, h) /\ s.names[1] \in Drives
      BY <1>1, <1>2, <1>3, <2>3
    <3>2. \A i \in 1 .. m : s.names[i] = h[i]
      BY <1>1, <1>2, <1>5, <3>1, PrefixByNames
    <3>3. s.names[1] = "home"
      BY <1>2, <1>5, <3>2
    <3> QED BY <1>4, <3>1, <3>3
  <2>4. CASE ~ (s.abs \/ s.names[1] \in Drives) /\ (t.abs \/ t.names[1] \in Drives)
    <3>1. IsPrefix(g, t.names) /\ t.names[1] \in Drives
      BY <1>1, <1>2, <1>3, <2>4
    <3>2. \A i \in 1 .. m + 1 : g[i] = t.names[i]
      BY <1>1, <1>2, <1>5, <3>1, PrefixByNames
    <3>3. t.names[1] = "home"
      BY <1>1, <1>5, <3>2
    <3> QED BY <1>4, <3>1, <3>3
  <2> QED BY <2>1, <2>2, <2>3, <2>4
<1>7. IsPrefix(s.names, t.names)
  BY <1>1, <1>2, <1>5, <1>6, PrefixByNames
<1>8. CASE s.names = t.names
  <2>1. s = t
    BY <1>1, <1>2, <1>3, <1>8 DEF Remote
  <2> QED BY <2>1 DEF s, t
<1>9. CASE s.names # t.names
  <2>1. s.names # <<>>
    BY <1>1, EmptySeq
  <2>2. isUnder(t, s)
    BY <1>3, <1>7, <1>9, <2>1 DEF isUnder, IsStrictPrefix
  <2> QED BY <2>2 DEF s, t
<1> QED BY <1>8, <1>9

\* What Run knows when it starts: every overlap it looks for is in its warnings.
Announced == pc = "start" => warned = SyncTargetWarnings(uploads)

LEMMA AnnouncedStep == Announced /\ [Next]_vars => Announced'
<1> SUFFICES ASSUME Announced, [Next]_vars PROVE Announced'
  OBVIOUS
<1>1. ASSUME NEW u \in Configurations, Load(u) PROVE Announced'
  BY <1>1 DEF Load, Announced
<1>2. ASSUME pc' # "start" PROVE Announced'
  BY <1>2 DEF Announced
<1>3. ASSUME UNCHANGED <<pc, uploads, warned>> PROVE Announced'
  BY <1>3 DEF Announced
<1>4. CASE Planning
  BY <1>1, <1>2, <1>4 DEF Planning, StartRun, CompileLine, BuildPlan, NextPlan
<1>5. CASE Connecting \/ Probing \/ LateKill \/ CancelRun
  BY <1>3, <1>5 DEF Connecting, Probing, LateKill, CancelRun, rvars, lvars
<1>6. CASE Executing
  BY <1>2, <1>6 DEF Executing, NoSession, Opened, Deploy, AllDeployed
<1>7. CASE Ping \/ PingWritten
  BY <1>3, <1>7 DEF Ping, PingWritten, lvars
<1>8. CASE Unwind
  BY <1>2, <1>8 DEF Unwind, StopWatch, StopKeepalives, SaveCache, CloseConnections, Return
<1>9. CASE UNCHANGED vars
  BY <1>3, <1>9 DEF vars, rvars, lvars
<1> QED BY <1>4, <1>5, <1>6, <1>7, <1>8, <1>9 DEF Next

\* However the targets are spelled, one that checkRemoteRoot lets through is neither the
\* root nor a drive and, when relative, strictly below the login directory; and a clean
\* target that overlaps a sync target, both absolute or both relative and both let
\* through, is announced (path.Clean, foldDriveSpelling, isUnder, SyncTargetWarnings).
\* An absolute spelling of the login directory is let through.
THEOREM RunTargetsAreGuarded == Spec => []TargetsAreGuarded
<1>1. Init => Announced
  BY DEF Init, Announced
<1>2. TypeOK /\ Announced => TargetsAreGuarded
  <2> DEFINE guarded(i) == checkRemoteRoot(uploads[i].remote)
  <2> SUFFICES ASSUME TypeOK, Announced
               PROVE  /\ \A i \in DOMAIN uploads : guarded(i) \/ BelowRoot(uploads[i].remote)
                      /\ pc = "start" =>
                            \A i, j \in DOMAIN uploads :
                                Overlap(i, j) => <<i, j>> \in warned \/ guarded(i) \/ guarded(j)
    BY DEF TargetsAreGuarded
  <2>1. \A i \in DOMAIN uploads : uploads[i].remote \in Remote
    <3>1. uploads \in Configurations \cup {<<>>}
      BY DEF TypeOK
    <3> QED BY <3>1, ConfiguredRemotes
  <2>2. ASSUME NEW i \in DOMAIN uploads, ~ guarded(i) PROVE BelowRoot(uploads[i].remote)
    BY <2>1, <2>2, LetThroughIsBelow
  <2>3. ASSUME pc = "start", NEW i \in DOMAIN uploads, NEW j \in DOMAIN uploads, Overlap(i, j),
               ~ guarded(i), ~ guarded(j)
        PROVE  <<i, j>> \in warned
    <3> DEFINE s == Target(uploads[i])
               c == Target(uploads[j])
    <3>1. /\ uploads[i].strategy = "sync" /\ uploads[j].strategy = "clean"
          /\ s.abs = c.abs /\ Touch(Directory(s), Directory(c))
      BY <2>3 DEF Overlap
    <3>2. s = c \/ isUnder(s, c) \/ isUnder(c, s)
      <4>1. CASE IsPrefix(Directory(s), Directory(c))
        BY <2>1, <2>3, <3>1, <4>1, TouchingTargets
      <4>2. CASE IsPrefix(Directory(c), Directory(s))
        BY <2>1, <2>3, <3>1, <4>2, TouchingTargets
      <4> QED BY <3>1, <4>1, <4>2 DEF Touch
    <3>3. <<i, j>> \in SyncTargetWarnings(uploads)
      BY <3>1, <3>2 DEF SyncTargetWarnings
    <3> QED BY <2>3, <3>3 DEF Announced
  <2> HIDE DEF guarded
  <2> QED BY <2>2, <2>3
<1> QED BY <1>1, <1>2, AnnouncedStep, RunTypeCorrect, PTL DEF Spec
=============================================================================
