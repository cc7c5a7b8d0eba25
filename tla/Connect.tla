------------------------------- MODULE Connect -------------------------------
(***************************************************************************)
(* Opening the session: newSession's retry loop (internal/uploader/        *)
(* session.go) around connect, dialSSH and dialViaJump (connection.go),    *)
(* with each hop's host key verification (hostkeys.go) and the link probe  *)
(* (tuning.go).                                                            *)
(*                                                                         *)
(* One goroutine runs it.  Around it are the server and the network, which *)
(* answer, refuse, drop the connection or stay silent; the timers the code *)
(* arms, whose callback may still run after it was disarmed; and the       *)
(* context of the run, which only the backoff looks at.                    *)
(*                                                                         *)
(* A hop is the target or the jump host in front of it.  owned is what the *)
(* program holds open: the TCP connection of a hop it dialed, or, for a    *)
(* target behind a jump host, the tunnel's channel.                        *)
(***************************************************************************)
EXTENDS Integers, Sequences, FiniteSets

CONSTANTS
    Settings,   \* the connection settings a run may have (see Setting)
    Servers,    \* what may answer at a hop's address (see Server)
    Retries     \* advanced.retries

Hops == {"target", "jump"}
Types == <<"ecdsa", "ed25519">>   \* in x/crypto's order of preference
TypeSet == {"ecdsa", "ed25519"}
Owners == {"server", "impostor"}
Keys == [type : TypeSet, owner : Owners]

\* One hop's host key material: SHA256 fingerprints, known_hosts lines, the
\* opt-out, an explicit algorithm list; bad is a local mistake (a private
\* key, fingerprint or known_hosts line that does not parse).
Pins == [fingerprints : SUBSET Keys, knownHosts : SUBSET Keys,
         allowAny : BOOLEAN, explicit : BOOLEAN, bad : BOOLEAN]
Setting == [proxy : BOOLEAN, timed : BOOLEAN, probe : BOOLEAN, pins : [Hops -> Pins]]
Server == [owner : Owners, types : SUBSET TypeSet]

ASSUME ConnectAssumption ==
    /\ Settings \subseteq Setting
    /\ Servers \subseteq Server
    /\ Retries \in Nat

VARIABLES
    cfg,        \* the settings of this run, chosen when newSession reads them
    step,       \* where newSession is
    hop,        \* the hop being dialed
    attempt,    \* the retry loop's counter
    owned,      \* transports the program has open
    dead,       \* those of them that a timer has shut
    armed,      \* the deadline that is running: "none", "socket", "tunnel", "sftp"
    firing,     \* timers whose callback has started and not yet run
    key,        \* the host key the hop presented
    answered,   \* passwordChallenge has given the password in this handshake
    lastErr,    \* the class of the last failure
    sent,       \* history: (hop, key) credentials were offered to
    cancelled   \* the run's context

cvars == <<cfg, step, hop, attempt, owned, dead, armed, firing, key, answered,
           lastErr, sent, cancelled>>

NoPins == [fingerprints |-> {}, knownHosts |-> {}, allowAny |-> FALSE,
           explicit |-> FALSE, bad |-> FALSE]
NoSetting == [proxy |-> FALSE, timed |-> FALSE, probe |-> FALSE, pins |-> [h \in Hops |-> NoPins]]
NoKey == [type |-> "none", owner |-> "none"]
Errors == {"none", "permanent", "mismatch", "auth", "challenge", "transient", "ctx"}
Handshaking == {"kex", "auth"}
Waiting == Handshaking \cup {"tunnel", "sftp"}
InAttempt == Waiting \cup {"config", "dial"}
Steps == InAttempt \cup {"idle", "backoff", "probe", "open", "failed", "closed"}

----------------------------------------------------------------------------
(* Host keys. *)

Pinned(p) == p.fingerprints \cup p.knownHosts

\* hostKeyCallback refuses to build without pins unless the hop opts out.
Configured(p) == ~ p.bad /\ (Pinned(p) # {} \/ p.allowAny)

\* The callback it builds: either kind of pin accepts the key.
hostKeyCallback(p, k) == Pinned(p) = {} \/ k \in Pinned(p)

\* Mutant: the handshake always offers x/crypto's defaults.
pinnedHostKeyAlgorithmsDefault(p) == TypeSet

\* With known_hosts as the only material, and no explicit list, the
\* handshake offers the pinned types alone.
pinnedHostKeyAlgorithms(p) ==
    IF p.fingerprints = {} /\ p.knownHosts # {} /\ ~ p.explicit
    THEN {k.type : k \in p.knownHosts} ELSE TypeSet

\* The key types a server and the offer have in common, and the first of them.
Common(p, s) == pinnedHostKeyAlgorithms(p) \cap s.types
Presented(p, s) ==
    LET i == CHOOSE n \in DOMAIN Types :
                /\ Types[n] \in Common(p, s)
                /\ \A m \in DOMAIN Types : Types[m] \in Common(p, s) => n <= m
    IN  [type |-> Types[i], owner |-> s.owner]

\* Mutant: the jump host is checked against the target's pins.
hopPinsShared(h) == cfg.pins["target"]

\* Each hop is verified against its own material (targetHop, jumpHop).
hopPins(h) == cfg.pins[h]

----------------------------------------------------------------------------
(* Failure: what an error path closes, and whether another attempt follows. *)

\* permanentError and "unable to authenticate" are final.  A challenge that
\* asks for a second secret fails with the callback's own error, which is
\* neither.
isRetryableConnect(e) == e \notin {"permanent", "mismatch", "auth"}

\* Mutant: the tunnelled handshake's error path closes the channel only.
ReleasedChannel(s, h) ==
    {c \in Hops : \/ s = "tunnel" /\ c = "jump"
                  \/ s \in Handshaking /\ c = h
                  \/ s = "sftp"}

\* What the error path of each step closes: dialSSH its own connection,
\* dialViaJump the tunnel and the jump client, connect both clients.
Released(s, h) ==
    {c \in Hops : \/ s = "tunnel" /\ c = "jump"
                  \/ s \in Handshaking /\ (c = h \/ (h = "target" /\ cfg.proxy))
                  \/ s = "sftp"}

\* Mutant: one attempt too many.
RetryLeftOneMore == attempt <= Retries

RetryLeft == attempt < Retries

Fail(e) ==
    /\ owned' = owned \ Released(step, hop)
    /\ dead' = {} /\ armed' = "none" /\ firing' = {}
    /\ key' = NoKey /\ answered' = FALSE /\ hop' = "target"
    /\ lastErr' = e
    /\ IF isRetryableConnect(e) /\ RetryLeft
       THEN step' = "backoff" /\ attempt' = attempt + 1
       ELSE step' = "failed" /\ attempt' = attempt
    /\ UNCHANGED <<cfg, cancelled>>

----------------------------------------------------------------------------
(* Deadlines. *)

\* Mutant: only the TCP dial has a timeout, as with ssh.Dial.
armConnectDeadlineNone(d) == "none"

\* advanced.timeout: 0 arms nothing.
armConnectDeadline(d) == IF cfg.timed THEN d ELSE "none"

\* The socket deadline fails the read that is waiting.
SocketDeadline ==
    /\ armed = "socket"
    /\ dead' = dead \cup {hop} /\ armed' = "none"
    /\ UNCHANGED <<cfg, step, hop, attempt, owned, firing, key, answered, lastErr,
                   sent, cancelled>>

\* A timer's callback starts on a goroutine of its own ...
TimerFires ==
    /\ armed \in {"tunnel", "sftp"}
    /\ firing' = firing \cup {armed} /\ armed' = "none"
    /\ UNCHANGED <<cfg, step, hop, attempt, owned, dead, key, answered, lastErr,
                   sent, cancelled>>

\* ... and closes a client: the jump client takes the tunnel with it.
TimerKills ==
    /\ \E d \in firing :
        /\ dead' = dead \cup (owned \cap (IF d = "tunnel" THEN Hops ELSE {"target"}))
        /\ firing' = firing \ {d}
    /\ UNCHANGED <<cfg, step, hop, attempt, owned, armed, key, answered, lastErr,
                   sent, cancelled>>

\* The transport a waiting step is blocked on.
Link == IF step = "tunnel" THEN "jump" ELSE IF step = "sftp" THEN "target" ELSE hop

\* The transport under the wait was shut.
TransportShut ==
    /\ step \in Waiting /\ Link \in dead
    /\ Fail("transient") /\ UNCHANGED sent

\* The peer dropped the connection or answered with a failure.
PeerFails ==
    /\ step \in Waiting
    /\ Fail("transient") /\ UNCHANGED sent

----------------------------------------------------------------------------
(* One attempt. *)

\* newSession is called.
Begin(c) ==
    /\ step = "idle"
    /\ cfg' = c /\ step' = "config" /\ hop' = "target" /\ attempt' = 0
    /\ UNCHANGED <<owned, dead, armed, firing, key, answered, lastErr, sent, cancelled>>

\* sleepCtx before another attempt.
Backoff ==
    /\ step = "backoff"
    /\ IF cancelled THEN step' = "failed" /\ lastErr' = "ctx"
                    ELSE step' = "config" /\ lastErr' = lastErr
    /\ UNCHANGED <<cfg, hop, attempt, owned, dead, armed, firing, key, answered,
                   sent, cancelled>>

\* clientConfig: the target's first, then the jump host's, before any dial.
ClientConfig ==
    /\ step = "config"
    /\ \/ /\ ~ Configured(hopPins(hop))
          /\ Fail("permanent") /\ UNCHANGED sent
       \/ /\ Configured(hopPins(hop))
          /\ IF hop = "target" /\ cfg.proxy THEN hop' = "jump" /\ step' = "config"
                                            ELSE hop' = hop /\ step' = "dial"
          /\ UNCHANGED <<cfg, attempt, owned, dead, armed, firing, key, answered,
                         lastErr, sent, cancelled>>

\* net.DialTimeout, then the socket deadline for the handshake.
Dial ==
    /\ step = "dial"
    /\ owned' = owned \cup {hop} /\ step' = "kex" /\ armed' = armConnectDeadline("socket")
    /\ UNCHANGED <<cfg, hop, attempt, dead, firing, key, answered, lastErr, sent, cancelled>>

DialFails ==
    /\ step = "dial"
    /\ Fail("transient") /\ UNCHANGED sent

\* jumpClient.Dial: the channel the target's handshake runs over.
OpenTunnel ==
    /\ step = "tunnel" /\ "jump" \notin dead
    /\ owned' = owned \cup {"target"} /\ hop' = "target" /\ step' = "kex"
    /\ UNCHANGED <<cfg, attempt, dead, armed, firing, key, answered, lastErr, sent, cancelled>>

\* The key exchange, in which the callback judges the key.
KeyExchange(s) ==
    /\ step = "kex" /\ hop \notin dead
    /\ \/ /\ Common(hopPins(hop), s) = {}
          /\ Fail("transient") /\ UNCHANGED sent
       \/ /\ Common(hopPins(hop), s) # {}
          /\ LET k == Presented(hopPins(hop), s)
             IN  \/ /\ ~ hostKeyCallback(hopPins(hop), k)
                    /\ Fail("mismatch") /\ UNCHANGED sent
                 \/ /\ hostKeyCallback(hopPins(hop), k)
                    /\ key' = k /\ step' = "auth"
                    /\ UNCHANGED <<cfg, hop, attempt, owned, dead, armed, firing,
                                   answered, lastErr, sent, cancelled>>

\* Credentials are offered and accepted.  The deadline of the handshake is
\* cleared and that of the next wait armed: the jump client gets a tunnel
\* opened through it, the target an SFTP session.
Authenticated ==
    /\ step = "auth" /\ hop \notin dead
    /\ sent' = sent \cup {<<hop, key>>}
    /\ step' = IF hop = "jump" THEN "tunnel" ELSE "sftp"
    /\ armed' = armConnectDeadline(IF hop = "jump" THEN "tunnel" ELSE "sftp")
    /\ key' = NoKey /\ answered' = FALSE
    /\ UNCHANGED <<cfg, hop, attempt, owned, dead, firing, lastErr, cancelled>>

\* x/crypto has no method left: "ssh: unable to authenticate".
Rejected ==
    /\ step = "auth" /\ hop \notin dead
    /\ sent' = sent \cup {<<hop, key>>}
    /\ Fail("auth")

\* passwordChallenge: one round with one hidden question gets the password,
\* a second hidden question is an error.
Challenge(secrets) ==
    /\ step = "auth" /\ hop \notin dead
    /\ \/ /\ secrets = 1 /\ ~ answered
          /\ answered' = TRUE /\ sent' = sent \cup {<<hop, key>>}
          /\ UNCHANGED <<cfg, step, hop, attempt, owned, dead, armed, firing, key,
                         lastErr, cancelled>>
       \/ /\ secrets > 1 \/ answered
          /\ Fail("challenge") /\ UNCHANGED sent

\* sftp.NewClient has the server's version.  The deadline is disarmed, and
\* the session is there, probed first when the policy wants the link's RTT.
SftpReady ==
    /\ step = "sftp" /\ "target" \notin dead
    /\ armed' = "none" /\ lastErr' = "none"
    /\ step' = IF cfg.probe THEN "probe" ELSE "open"
    /\ UNCHANGED <<cfg, hop, attempt, owned, dead, firing, key, answered, sent, cancelled>>

\* probeLink: an answer or an error ends it; no deadline does.  An error
\* leaves the round-trip time unmeasured.
ProbeAnswered ==
    /\ step = "probe" /\ "target" \notin dead
    /\ step' = "open"
    /\ UNCHANGED <<cfg, hop, attempt, owned, dead, armed, firing, key, answered,
                   lastErr, sent, cancelled>>

ProbeFails ==
    /\ step = "probe" /\ "target" \in dead
    /\ step' = "open"
    /\ UNCHANGED <<cfg, hop, attempt, owned, dead, armed, firing, key, answered,
                   lastErr, sent, cancelled>>

\* session.close: the SFTP and SSH clients, then the jump host's.
CloseSession ==
    /\ step = "open"
    /\ step' = "closed" /\ owned' = {} /\ dead' = {} /\ firing' = {}
    /\ UNCHANGED <<cfg, hop, attempt, armed, key, answered, lastErr, sent, cancelled>>

\* The workflow is cancelled.
Cancel ==
    /\ ~ cancelled /\ cancelled' = TRUE
    /\ UNCHANGED <<cfg, step, hop, attempt, owned, dead, armed, firing, key, answered,
                   lastErr, sent>>

----------------------------------------------------------------------------
ConnectInit ==
    /\ cfg = NoSetting
    /\ step = "idle" /\ hop = "target" /\ attempt = 0
    /\ owned = {} /\ dead = {} /\ armed = "none" /\ firing = {}
    /\ key = NoKey /\ answered = FALSE /\ lastErr = "none"
    /\ sent = {} /\ cancelled = FALSE

\* What the goroutine and the runtime do by themselves.
Local ==
    \/ Backoff \/ ClientConfig \/ DialFails
    \/ SocketDeadline \/ TimerFires \/ TimerKills \/ TransportShut \/ ProbeFails

\* What only a server's answer brings about.
Answer ==
    \/ Dial \/ OpenTunnel \/ PeerFails
    \/ \E s \in Servers : KeyExchange(s)
    \/ Authenticated \/ Rejected \/ (\E n \in {1, 2} : Challenge(n))
    \/ SftpReady

ConnectStep == Local \/ Answer \/ ProbeAnswered

ConnectNext ==
    \/ (\E c \in Settings : Begin(c)) \/ ConnectStep \/ CloseSession \/ Cancel

ConnectSpec == ConnectInit /\ [][ConnectNext]_cvars

----------------------------------------------------------------------------
(* Properties. *)

ConnectTypeOK ==
    /\ cfg \in Setting
    /\ step \in Steps /\ hop \in Hops /\ attempt \in 0 .. Retries
    /\ owned \subseteq Hops /\ dead \subseteq owned
    /\ armed \in {"none", "socket", "tunnel", "sftp"}
    /\ firing \subseteq {"tunnel", "sftp"}
    /\ key \in Keys \cup {NoKey} /\ answered \in BOOLEAN
    /\ lastErr \in Errors
    /\ sent \subseteq Hops \X Keys /\ cancelled \in BOOLEAN

\* A failed attempt leaves nothing behind: between two attempts and after
\* the last one the program holds no connection, to neither hop, and a
\* session owns exactly the hops it goes through (the error paths of
\* dialSSH, dialViaJump and connect).  No connect deadline stays armed
\* behind an attempt (dialSSH clears it, disarm stops the timers).  A timer
\* that had fired by then may still shut the session that came of it: that
\* is TimerKills, and the run has to end all the same (RunEnds).
AttemptLeavesNothing ==
    /\ step \in {"idle", "backoff", "failed", "closed"} => owned = {}
    /\ step \in {"probe", "open"} => owned = IF cfg.proxy THEN Hops ELSE {"target"}
    /\ armed # "none" => step \in Waiting

\* Credentials only ever reach a hop whose key is one of the pins of that
\* very hop, or a hop without pins that opted out of verification
\* (hostKeyCallback, targetHop, jumpHop).
CredentialsOnlyToVerified ==
    \A m \in sent : \/ m[2] \in Pinned(cfg.pins[m[1]])
                    \/ Pinned(cfg.pins[m[1]]) = {} /\ cfg.pins[m[1]].allowAny

\* A server that holds one of the known_hosts keys is not taken for another
\* one because the handshake asked for a key of the wrong type
\* (pinnedHostKeyAlgorithms, issue #282).
PinnedServerIsRecognized ==
    \A s \in Servers : LET p == hopPins(hop) IN
        (/\ step = "kex" /\ p.fingerprints = {} /\ ~ p.explicit
         /\ \A k \in p.knownHosts : k.owner = s.owner
         /\ \E t \in s.types : [type |-> t, owner |-> s.owner] \in p.knownHosts)
            => Common(p, s) # {} /\ hostKeyCallback(p, Presented(p, s))

=============================================================================
