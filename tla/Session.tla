------------------------------ MODULE Session ------------------------------
(***************************************************************************)
(* The connection pool of one run (internal/uploader/session.go) and the   *)
(* goroutines that use it: the upload workers of uploadFiles with their    *)
(* per-file retry loop (retry.go), the callers of session.do (remote       *)
(* scans, deletes, the recovery manifest), the stall watchdog (stall.go)   *)
(* and the runtime controller that moves the spread (tuning.go).           *)
(*                                                                         *)
(* A step is one critical section under session.mu, one acquisition or     *)
(* release of dialMu, or one call on the network.  A connection is named   *)
(* by the slot that dialed it: a slot is dialed at most once, and a slot   *)
(* whose dial failed holds connection 0.  A client is a connection         *)
(* together with the generation it was installed with.                     *)
(***************************************************************************)
EXTENDS Integers, FiniteSets

CONSTANTS
    Files,          \* the files in the upload phase, by their index in the plan
    Ops,            \* callers of session.do that follow the upload phase
    Recovery,       \* the writeRecoveryManifest call of a failing sync
    None,           \* no connection, no goroutine (nil)
    Pool,           \* slots allocated: tuning.poolCeiling
    Ceiling,        \* the ceiling an earlier run left: tuning.clampConnections
    StartSpread,    \* the spread the plan chose for this deployment
    Retries,        \* the retries input
    Unpinned,       \* easySFTP chose the connection count
    SkipUnchanged   \* advanced.skip_unchanged: stat a file before sending it

Slots == 0 .. (Pool - 1)
Workers == Files \cup Ops \cup {Recovery}

ASSUME SizesAssumption ==
    /\ Files \subseteq Nat /\ Pool \in Nat \ {0} /\ Retries \in Nat
    /\ Ceiling \in 1 .. Pool /\ StartSpread \in 1 .. Ceiling
    /\ Unpinned \in BOOLEAN /\ SkipUnchanged \in BOOLEAN

ASSUME NamesAssumption ==
    /\ Recovery \notin Files \cup Ops
    /\ Files \cap Ops = {}
    /\ None \notin Workers \cup Slots

VARIABLES
    conns,       \* session.conns: the connection a slot holds, or None
    spread,      \* session.spread
    refused,     \* session.refused
    reconnects,  \* session.reconnects
    dialing,     \* session.dialing: the worker whose first dial of a slot is in flight
    dialMu,      \* session.dialMu: its holder
    gen,         \* conn.gen
    redialing,   \* conn.redialing: the worker redialing the connection
    live,        \* connections whose installed client has an open transport
    fired,       \* stallWatchdog.fired
    monitor,     \* where the watchdog's goroutine is
    snap,        \* the clients closeSSH is about to close
    ctl,         \* where the runtime controller is
    cur,         \* Controller.current.Connections
    from,        \* Controller.pendingFrom, 0 while no step is being judged
    interrupted, \* the run's own context is cancelled (SIGINT, SIGTERM)
    unwatched,   \* the recovery manifest runs with a nil watchdog
    pc, task, at, mine, attempt  \* the goroutines and their local variables

pool == <<conns, spread, refused, dialing>>
link == <<gen, redialing, live, reconnects>>
dog  == <<fired, monitor, snap>>
tuner == <<ctl, cur, from>>
ctxs == <<interrupted, unwatched>>
vars == <<pool, link, dialMu, dog, tuner, ctxs, pc, task, at, mine, attempt>>

-----------------------------------------------------------------------------
(* What a goroutine is doing. *)

Dialing == {"lockDial", "dial", "granted", "denied", "barred"}
Redialing == {"redialWait", "lockRedial", "redial", "redialed", "redialErr"}
PCs == {"idle", "acquire", "waitDial", "op", "reconnect", "waitRedial", "backoff",
        "done", "failed"} \cup Dialing \cup Redialing

Settled(w) == pc[w] \in {"done", "failed"}

Watched(w) == ~(w = Recovery /\ unwatched)

\* watch != nil && watch.fired.Load()
Killed(w) == fired /\ Watched(w)

\* ctx.Err() != nil.  The errgroup cancels its context with the first error of a
\* member; the recovery manifest runs under the run's own context.
CtxDone(w) ==
    \/ interrupted
    \/ w # Recovery /\ \E v \in Files \cup Ops : pc[v] = "failed"

\* The client the goroutine was handed still answers.
ClientUp(w) == at[w] \in live /\ mine[w] = gen[at[w]]

TypeOK ==
    /\ conns \in [Slots -> Slots \cup {None}]
    /\ spread \in 1 .. Pool
    /\ refused \in BOOLEAN
    /\ reconnects \in 0 .. Retries
    /\ dialing \in [Slots -> Workers \cup {None}]
    /\ dialMu \in Workers \cup {None}
    /\ gen \in [Slots -> Nat]
    /\ redialing \in [Slots -> Workers \cup {None}]
    /\ live \in SUBSET Slots
    /\ fired \in BOOLEAN
    /\ monitor \in {"watch", "kill", "close", "exit"}
    /\ snap \in SUBSET (Slots \X Nat)
    /\ ctl \in {"observe", "apply", "stopped"}
    /\ cur \in 1 .. Pool
    /\ from \in 0 .. Pool
    /\ interrupted \in BOOLEAN /\ unwatched \in BOOLEAN
    /\ pc \in [Workers -> PCs]
    /\ task \in [Workers -> {"stat", "upload", "do"}]
    /\ at \in [Workers -> Slots]
    /\ mine \in [Workers -> Nat]
    /\ attempt \in [Workers -> 0 .. Retries]

\* newSession has dialed slot 0, and uploadFiles has applied the plan's spread.
Init ==
    /\ conns = [s \in Slots |-> IF s = 0 THEN 0 ELSE None]
    /\ spread = StartSpread
    /\ refused = FALSE
    /\ reconnects = 0
    /\ dialing = [s \in Slots |-> None]
    /\ dialMu = None
    /\ gen = [c \in Slots |-> 0]
    /\ redialing = [c \in Slots |-> None]
    /\ live = {0}
    /\ fired = FALSE
    /\ monitor = "watch"
    /\ snap = {}
    /\ ctl = IF Unpinned THEN "observe" ELSE "stopped"
    /\ cur = StartSpread
    /\ from = 0
    /\ interrupted = FALSE /\ unwatched = FALSE
    /\ pc = [w \in Workers |-> "idle"]
    /\ task = [w \in Workers |-> IF w \notin Files THEN "do"
                                 ELSE IF SkipUnchanged THEN "stat" ELSE "upload"]
    /\ at = [w \in Workers |-> 0]
    /\ mine = [w \in Workers |-> 0]
    /\ attempt = [w \in Workers |-> 0]

-----------------------------------------------------------------------------
(* How a goroutine moves on. *)

Goto(w, label) == pc' = [pc EXCEPT ![w] = label]

\* The goroutine returns: its locals go out of scope.
Return(w, label) ==
    /\ Goto(w, label)
    /\ at' = [at EXCEPT ![w] = 0]
    /\ mine' = [mine EXCEPT ![w] = 0]

Fail(w) == Return(w, "failed") /\ UNCHANGED <<task, attempt>>

\* Hand the client of connection c to w.
Use(w, c, g) ==
    /\ Goto(w, "op")
    /\ at' = [at EXCEPT ![w] = c]
    /\ mine' = [mine EXCEPT ![w] = g]

\* What the caller of reconnect does with a fresh client: an upload starts its
\* next attempt (after its own backoff), do and remoteSameSize acquire again.
Resume(w) ==
    IF task[w] = "upload"
    THEN /\ Goto(w, "backoff")
         /\ attempt' = [attempt EXCEPT ![w] = @ + 1]
    ELSE /\ Goto(w, "acquire")
         /\ UNCHANGED attempt

-----------------------------------------------------------------------------
(* The phases of one deployment. *)

\* A worker of the upload phase is picked up; one picked up after the first
\* failure returns the context's error instead.
StartFile(w) ==
    /\ w \in Files
    /\ pc[w] = "idle"
    /\ IF CtxDone(w)
       THEN Fail(w)
       ELSE /\ Goto(w, "acquire")
            /\ UNCHANGED <<task, at, mine, attempt>>
    /\ UNCHANGED <<pool, link, dialMu, dog, tuner, ctxs>>

\* The metadata phase after a complete upload: every caller is one item of
\* runBounded.
StartOp(w) ==
    /\ w \in Ops
    /\ pc[w] = "idle"
    /\ \A f \in Files : pc[f] = "done"
    /\ IF CtxDone(w)
       THEN Fail(w)
       ELSE /\ Goto(w, "acquire")
            /\ UNCHANGED <<task, at, mine, attempt>>
    /\ UNCHANGED <<pool, link, dialMu, dog, tuner, ctxs>>

\* A phase has returned an error: every member of it has returned.
PhaseFailed ==
    /\ \E w \in Files \cup Ops : pc[w] = "failed"
    /\ \A w \in Files : Settled(w)
    /\ \A w \in Ops : Settled(w) \/ (pc[w] = "idle" /\ \E f \in Files : pc[f] = "failed")

\* writeRecoveryManifest drops a watchdog that has already fired.
StartRecovery ==
    /\ pc[Recovery] = "idle"
    /\ PhaseFailed
    /\ unwatched' = fired
    /\ Goto(Recovery, "acquire")
    /\ UNCHANGED <<pool, link, dialMu, dog, tuner, interrupted, task, at, mine, attempt>>

-----------------------------------------------------------------------------
(* acquire: the client serving a file, dialing its slot on first use. *)

Index(w) == IF w \in Files THEN w ELSE 0

SlotOf(w) == Index(w) % spread

\* Mutant: the first dial in flight is not looked at.
BeingDialedIgnored(s) == FALSE
\* Another worker's first dial of this slot is in flight.
BeingDialed(s) == dialing[s] # None

Acquire(w) ==
    /\ pc[w] = "acquire"
    /\ LET s == SlotOf(w) IN
       \/ /\ conns[s] # None
          /\ Use(w, conns[s], gen[conns[s]])
          /\ UNCHANGED dialing
       \/ /\ conns[s] = None /\ BeingDialed(s)
          /\ Goto(w, "waitDial")
          /\ at' = [at EXCEPT ![w] = s]
          /\ UNCHANGED <<mine, dialing>>
       \/ /\ conns[s] = None /\ ~BeingDialed(s)
          /\ dialing' = [dialing EXCEPT ![s] = w]
          /\ Goto(w, "lockDial")
          /\ at' = [at EXCEPT ![w] = s]
          /\ UNCHANGED mine
    /\ UNCHANGED <<conns, spread, refused, link, dialMu, dog, tuner, ctxs, task, attempt>>

\* <-wait: the slot's first dial has finished; route the file again.
WaitDial(w) ==
    /\ pc[w] = "waitDial"
    /\ dialing[at[w]] = None
    /\ Goto(w, "acquire")
    /\ UNCHANGED <<pool, link, dialMu, dog, tuner, ctxs, task, at, mine, attempt>>

\* Mutant: the handshakes of a session are not serialized.
DialMuFreeUnlocked(w) == TRUE
DialMuFree(w) == dialMu = None

\* dialPooled takes dialMu and asks once more whether the pool was refused; only
\* a pool that was not keeps the mutex for its handshake.
LockDial(w) ==
    /\ pc[w] = "lockDial"
    /\ DialMuFree(w)
    /\ IF refused
       THEN Goto(w, "barred") /\ UNCHANGED dialMu
       ELSE Goto(w, "dial") /\ dialMu' = w
    /\ UNCHANGED <<pool, link, dog, tuner, ctxs, task, at, mine, attempt>>

\* The handshake ends either way and dialPooled's defer releases dialMu.
DialEnds(w) ==
    /\ pc[w] = "dial"
    /\ \/ Goto(w, "granted")
       \/ Goto(w, "denied")
    /\ dialMu' = None
    /\ UNCHANGED <<pool, link, dog, tuner, ctxs, task, at, mine, attempt>>

\* Distinct connections in the leading slots that were touched.
OpenSlots ==
    LET touched == {s \in Slots : \A t \in 0 .. s : conns[t] # None}
    IN  Cardinality({conns[s] : s \in touched})

\* Mutant: the slot's channel is never closed.
CloseDialingForgotten(w) == UNCHANGED dialing
\* The slot of a worker whose dial has just finished stops being dialed.
CloseDialing(w) == dialing' = [dialing EXCEPT ![at[w]] = None]

\* acquire's second critical section: install the connection ...
InstallDial(w) ==
    /\ pc[w] = "granted"
    /\ conns' = [conns EXCEPT ![at[w]] = at[w]]
    /\ live' = live \cup {at[w]}
    /\ Use(w, at[w], gen[at[w]])
    /\ CloseDialing(w)
    /\ UNCHANGED <<spread, refused, gen, redialing, reconnects, dialMu, dog, tuner, ctxs, task, attempt>>

NoteDialFailure == /\ refused' = TRUE
                   /\ spread' = IF Unpinned THEN OpenSlots ELSE spread

\* Mutant: a slot that could not be dialed stays empty.
ShareFirstNot(w) == UNCHANGED conns
ShareFirst(w) == conns' = [conns EXCEPT ![at[w]] = conns[0]]

\* ... or note the refusal and point the slot at the first connection.  A dial
\* that was never attempted is not a new refusal.
FallBack(w) ==
    /\ \/ pc[w] = "barred" /\ UNCHANGED <<refused, spread>>
       \/ pc[w] = "denied" /\ NoteDialFailure
    /\ ShareFirst(w)
    /\ Use(w, conns[0], gen[conns[0]])
    /\ CloseDialing(w)
    /\ UNCHANGED <<link, dialMu, dog, tuner, ctxs, task, attempt>>

-----------------------------------------------------------------------------
(* One operation on the client a goroutine holds: an upload attempt, a stat  *)
(* or the op of session.do.                                                  *)

\* The server answers: the operation succeeds, fails for good, or (an upload
\* attempt) fails in a way worth another attempt over the same connection.
OpReturns(w) ==
    /\ pc[w] = "op"
    /\ ClientUp(w)
    /\ \/ /\ Return(w, "done")
          /\ UNCHANGED <<task, attempt>>
       \/ /\ task[w] = "stat"
          /\ task' = [task EXCEPT ![w] = "upload"]
          /\ Goto(w, "acquire")
          /\ UNCHANGED <<at, mine, attempt>>
       \/ /\ task[w] # "stat"
          /\ Fail(w)
       \/ /\ task[w] = "upload" /\ ~Killed(w) /\ attempt[w] < Retries
          /\ Goto(w, "backoff")
          /\ attempt' = [attempt EXCEPT ![w] = @ + 1]
          /\ UNCHANGED <<task, at, mine>>
    /\ UNCHANGED <<pool, link, dialMu, dog, tuner, ctxs>>

\* The client is dead: a connection-class error.  A killed run does not redial,
\* and neither does an upload on its last attempt.
OpLost(w) ==
    /\ pc[w] = "op"
    /\ ~ClientUp(w)
    /\ IF Killed(w) \/ (task[w] = "upload" /\ attempt[w] >= Retries)
       THEN Fail(w)
       ELSE /\ Goto(w, "reconnect")
            /\ UNCHANGED <<task, at, mine, attempt>>
    /\ UNCHANGED <<pool, link, dialMu, dog, tuner, ctxs>>

\* ctxReader aborts a transfer of a cancelled phase when it reads the next block.
OpCancelled(w) ==
    /\ pc[w] = "op"
    /\ task[w] = "upload"
    /\ CtxDone(w)
    /\ Fail(w)
    /\ UNCHANGED <<pool, link, dialMu, dog, tuner, ctxs>>

\* The wait before a retry, then a snapshot of the same connection's client.
Backoff(w) ==
    /\ pc[w] = "backoff"
    /\ \/ /\ CtxDone(w)
          /\ Fail(w)
       \/ /\ Use(w, at[w], gen[at[w]])
          /\ UNCHANGED <<task, attempt>>
    /\ UNCHANGED <<pool, link, dialMu, dog, tuner, ctxs>>

-----------------------------------------------------------------------------
(* reconnect: one redial per dropped client, whoever notices it first. *)

\* Mutant: one reconnect more than the retries input allows.
BudgetSpentLate == reconnects > Retries
BudgetSpent == reconnects >= Retries

\* Mutant: a redial is not charged.
ChargeReconnectForgotten == UNCHANGED reconnects
ChargeReconnect == reconnects' = reconnects + 1

\* Mutant: the redial in flight is not looked at.
BeingRedialedIgnored(c) == FALSE
\* Another worker's redial of this connection is in flight.
BeingRedialed(c) == redialing[c] # None

\* The first critical section: someone else already redialed, someone else is
\* redialing, the run-wide budget is spent, or this worker redials.
Reconnect(w) ==
    /\ pc[w] = "reconnect"
    /\ LET c == at[w] IN
       \/ /\ gen[c] # mine[w]
          /\ Resume(w)
          /\ UNCHANGED <<task, at, mine, redialing, reconnects>>
       \/ /\ gen[c] = mine[w] /\ BeingRedialed(c)
          /\ Goto(w, "waitRedial")
          /\ UNCHANGED <<task, at, mine, attempt, redialing, reconnects>>
       \/ /\ gen[c] = mine[w] /\ ~BeingRedialed(c) /\ BudgetSpent
          /\ Fail(w)
          /\ UNCHANGED <<redialing, reconnects>>
       \/ /\ gen[c] = mine[w] /\ ~BeingRedialed(c) /\ ~BudgetSpent
          /\ ChargeReconnect
          /\ redialing' = [redialing EXCEPT ![c] = w]
          /\ Goto(w, "redialWait")
          /\ UNCHANGED <<task, at, mine, attempt>>
    /\ UNCHANGED <<pool, gen, live, dialMu, dog, tuner, ctxs>>

WaitRedial(w) ==
    /\ pc[w] = "waitRedial"
    /\ \/ /\ redialing[at[w]] = None
          /\ Goto(w, "reconnect")
          /\ UNCHANGED <<task, at, mine, attempt>>
       \/ /\ CtxDone(w)
          /\ Fail(w)
    /\ UNCHANGED <<pool, link, dialMu, dog, tuner, ctxs>>

\* redial waits out its backoff, then closes the dead transports.
RedialWait(w) ==
    /\ pc[w] = "redialWait"
    /\ \/ /\ CtxDone(w)
          /\ Goto(w, "redialErr")
          /\ UNCHANGED live
       \/ /\ live' = live \ {at[w]}
          /\ Goto(w, "lockRedial")
    /\ UNCHANGED <<pool, gen, redialing, reconnects, dialMu, dog, tuner, ctxs, task, at, mine, attempt>>

LockRedial(w) ==
    /\ pc[w] = "lockRedial"
    /\ DialMuFree(w)
    /\ dialMu' = w
    /\ Goto(w, "redial")
    /\ UNCHANGED <<pool, link, dog, tuner, ctxs, task, at, mine, attempt>>

RedialEnds(w) ==
    /\ pc[w] = "redial"
    /\ \/ Goto(w, "redialed")
       \/ Goto(w, "redialErr")
    /\ dialMu' = None
    /\ UNCHANGED <<pool, link, dog, tuner, ctxs, task, at, mine, attempt>>

\* Mutant: the kill is not honored when the handshake returns.
MayInstallKilled(w) == TRUE
\* A watchdog that fired during the handshake forbids installing its result.
MayInstall(w) == ~Killed(w)

\* The second critical section: publish the outcome and close the channel.
InstallRedial(w) ==
    /\ pc[w] \in {"redialed", "redialErr"}
    /\ redialing' = [redialing EXCEPT ![at[w]] = None]
    /\ IF pc[w] = "redialed" /\ MayInstall(w)
       THEN /\ gen' = [gen EXCEPT ![at[w]] = @ + 1]
            /\ live' = live \cup {at[w]}
            /\ Resume(w)
            /\ UNCHANGED <<task, at, mine>>
       ELSE /\ Fail(w)
            /\ UNCHANGED <<gen, live>>
    /\ UNCHANGED <<pool, reconnects, dialMu, dog, tuner, ctxs>>

-----------------------------------------------------------------------------
(* The stall watchdog.  Its clock is abstracted: silence can be observed     *)
(* whenever some watched operation is active.                                *)

Fire ==
    /\ monitor = "watch"
    /\ \E w \in Workers : pc[w] = "op" /\ Watched(w)
    /\ fired' = TRUE
    /\ monitor' = "kill"
    /\ UNCHANGED <<pool, link, dialMu, snap, tuner, ctxs, pc, task, at, mine, attempt>>

OpenConns == {conns[s] : s \in {t \in Slots : conns[t] # None}}

\* closeSSH snapshots the opened connections under session.mu ...
CloseSSHSnapshot ==
    /\ monitor = "kill"
    /\ snap' = {<<c, gen[c]>> : c \in OpenConns}
    /\ monitor' = "close"
    /\ UNCHANGED <<pool, link, dialMu, fired, tuner, ctxs, pc, task, at, mine, attempt>>

\* ... and closes those clients without it.
CloseSSH ==
    /\ monitor = "close"
    /\ live' = {c \in live : <<c, gen[c]>> \notin snap}
    /\ snap' = {}
    /\ monitor' = "exit"
    /\ UNCHANGED <<pool, gen, redialing, reconnects, dialMu, fired, tuner, ctxs, pc, task, at, mine, attempt>>

-----------------------------------------------------------------------------
(* The runtime controller: grow at most to double, judge the step, take it   *)
(* back at most once.  Rates and queue lengths are abstracted to a choice.   *)

Least(a, b) == IF a <= b THEN a ELSE b

\* session.setSpread
SetSpread(n) ==
    LET m == Least(n, Ceiling)
    IN  spread' = IF refused /\ m > spread THEN spread ELSE m

\* env.progress counts an upload that started another attempt.
SomeRetried == \E f \in Files : attempt[f] > 0

\* ctrl.Observe of a snapshot that reads session.refused now; setSpread follows
\* in a later step.  It stops with the upload phase; from = 0 means that no growth
\* is waiting to be judged.
Observe ==
    /\ ctl = "observe"
    /\ \E f \in Files : ~Settled(f)
    /\ \/ /\ refused \/ SomeRetried
          /\ ctl' = "stopped"
          /\ UNCHANGED <<cur, from>>
       \/ /\ ~refused /\ ~SomeRetried
          /\ from > 0
          /\ \/ cur' = from /\ from' = 0 /\ ctl' = "apply"
             \/ /\ from' = 0 /\ UNCHANGED cur
                /\ ctl' = IF cur = Pool THEN "stopped" ELSE "observe"
       \/ /\ ~refused /\ ~SomeRetried
          /\ \E n \in (cur + 1) .. Least(2 * cur, Pool) :
                cur' = n /\ from' = cur /\ ctl' = "apply"
    /\ UNCHANGED <<pool, link, dialMu, dog, ctxs, pc, task, at, mine, attempt>>

\* A step taken back settles the controller; a growth is judged later.
Apply ==
    /\ ctl = "apply"
    /\ SetSpread(cur)
    /\ ctl' = IF from = 0 THEN "stopped" ELSE "observe"
    /\ UNCHANGED <<conns, refused, dialing, link, dialMu, dog, cur, from, ctxs, pc, task, at, mine, attempt>>

-----------------------------------------------------------------------------
(* The world around the run. *)

\* The server, or the network, drops an open connection.
Drop(c) ==
    /\ c \in OpenConns
    /\ c \in live
    /\ live' = live \ {c}
    /\ UNCHANGED <<pool, gen, redialing, reconnects, dialMu, dog, tuner, ctxs, pc, task, at, mine, attempt>>

\* SIGINT or SIGTERM cancels the context the whole run was given.
Interrupt ==
    /\ ~interrupted
    /\ interrupted' = TRUE
    /\ UNCHANGED <<pool, link, dialMu, dog, tuner, unwatched, pc, task, at, mine, attempt>>

\* The deployment is over: nothing is left to start or to finish.
Ended ==
    /\ \A w \in Files \cup Ops : Settled(w) \/ (w \in Ops /\ \E f \in Files : pc[f] = "failed")
    /\ UNCHANGED vars

\* What the program does by itself, without waiting for the server's answer to
\* an operation.
Code(w) ==
    \/ StartFile(w) \/ StartOp(w)
    \/ Acquire(w) \/ WaitDial(w) \/ LockDial(w) \/ DialEnds(w) \/ InstallDial(w) \/ FallBack(w)
    \/ OpLost(w) \/ Backoff(w)
    \/ Reconnect(w) \/ WaitRedial(w) \/ RedialWait(w) \/ LockRedial(w)
    \/ RedialEnds(w) \/ InstallRedial(w)

Next ==
    \/ \E w \in Workers : Code(w) \/ OpReturns(w) \/ OpCancelled(w)
    \/ StartRecovery
    \/ Fire \/ CloseSSHSnapshot \/ CloseSSH
    \/ Observe \/ Apply
    \/ \E c \in Slots : Drop(c)
    \/ Interrupt
    \/ Ended

Spec == Init /\ [][Next]_vars

\* Every goroutine keeps running, a handshake ends (connect is bounded by
\* advanced.timeout), the monitor and the controller tick.
CodeFairness ==
    /\ \A w \in Workers : WF_vars(Code(w))
    /\ WF_vars(CloseSSHSnapshot) /\ WF_vars(CloseSSH)
    /\ WF_vars(Apply)

\* The server may leave any request unanswered for ever.
StallSpec == Spec /\ CodeFairness

\* The server also answers every request of an open connection.
FairSpec == StallSpec /\ \A w \in Workers : WF_vars(OpReturns(w))

-----------------------------------------------------------------------------
(* Properties. *)

\* At most one SSH handshake of the session is in flight, first dials of slots
\* and redials together (dialMu, taken by dialPooled and redial).
OneHandshake ==
    \A v, w \in Workers :
        pc[v] \in {"dial", "redial"} /\ pc[w] \in {"dial", "redial"} => v = w

\* Workers that lost the same client collapse into one redial: whoever is inside
\* redial owns the connection's channel, and the client it is about to close is
\* still the one it lost, never one installed since (reconnect).
RedialOwnsClient ==
    \A w \in Workers :
        pc[w] \in Redialing => redialing[at[w]] = w /\ gen[at[w]] = mine[w]

\* The clients installed after a connection's first one.
Redialed == UNION {{<<c, g>> : g \in 1 .. gen[c]} : c \in Slots}

BeingRedialedNow == {c \in Slots : redialing[c] # None}

\* Every client installed after the first was paid for with one unit of the
\* run-wide retries budget, redials still in flight included (reconnect).
RedialsArePaidFor ==
    Cardinality(Redialed) + Cardinality(BeingRedialedNow) <= reconnects

\* acquire keeps 'the "one handshake per slot" property the lock used to give':
\* although a slot is dialed without session.mu, over handshakes that queue for
\* dialMu, refusals and a moving spread, no two workers dial one slot, and the
\* slot of a worker about to install its connection is still empty, so that no
\* connection the server granted is overwritten and left open.
OneDialPerSlot ==
    /\ \A v, w \in Workers :
          pc[v] \in Dialing /\ pc[w] \in Dialing /\ at[v] = at[w] => v = w
    /\ \A w \in Workers : pc[w] \in Dialing => conns[at[w]] = None

\* A worker waiting for another one's first dial of a slot has somebody to wait
\* for, or the slot has its connection (acquire closes the channel either way).
DialWaitersAreServed ==
    \A w \in Workers :
        pc[w] = "waitDial" => dialing[at[w]] # None \/ conns[at[w]] # None

\* After the watchdog has fired only the recovery manifest may install a
\* redialed client (the fired check of reconnect, issue #115's exception).
NoRedialAfterKill ==
    [][\A c \in Slots :
        gen'[c] > gen[c] /\ fired => redialing[c] = Recovery /\ unwatched]_vars

\* Every worker, caller and waiter returns: no lost wake-up, no deadlock between
\* the two mutexes and the channels, and no endless redialing.
AllReturn ==
    <>[](\A w \in Workers : Settled(w) \/ pc[w] = "idle")

\* stall.go: firing "unblocks every SFTP operation stuck on the stalled server
\* with an error, so the run fails in minutes ... instead of hanging".
StallEndsPhase ==
    fired ~> (\A w \in Files \cup Ops : Settled(w) \/ pc[w] = "idle")
============================================================================
