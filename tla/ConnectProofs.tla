---------------------------- MODULE ConnectProofs ----------------------------
(***************************************************************************)
(* Connect for every configuration, every server and every number of       *)
(* retries: no attempt leaks a transport or a deadline, credentials reach  *)
(* verified hops only, and a pinned server is recognized.                  *)
(*                                                                         *)
(* None of them is inductive.  What an attempt owns and which hop it is at *)
(* is tied to the step it has reached (Held), the key of a hop that is     *)
(* authenticating has passed that hop's own check (Verified), and no hop   *)
(* is dialed whose material does not configure a check (Checked).          *)
(***************************************************************************)
EXTENDS Connect, TLAPS

\* Every transport the finished session goes through.
Route == IF cfg.proxy THEN Hops ELSE {"target"}

\* What is open, and which hop the attempt is at.
Held ==
    /\ step \in {"idle", "backoff", "failed", "closed", "config", "dial"} => owned = {}
    /\ step = "backoff" => hop = "target"
    /\ step = "config" /\ hop = "jump" => cfg.proxy
    /\ step = "dial" => hop = IF cfg.proxy THEN "jump" ELSE "target"
    /\ step \in Handshaking => \/ hop = "jump" /\ cfg.proxy /\ owned = {"jump"}
                               \/ hop = "target" /\ owned = Route
    /\ step = "tunnel" => hop = "jump" /\ cfg.proxy /\ owned = {"jump"}
    /\ step \in {"sftp", "probe", "open"} => hop = "target" /\ owned = Route

Quiet == armed # "none" => step \in Waiting

\* No hop is dialed before both have a host key check.
Checked ==
    /\ step = "config" /\ hop = "jump" => Configured(cfg.pins["target"])
    /\ step \in Waiting \cup {"dial"} =>
        /\ Configured(cfg.pins["target"])
        /\ cfg.proxy => Configured(cfg.pins["jump"])

Verified ==
    /\ step = "idle" => sent = {}
    /\ step = "auth" => key \in Keys /\ hostKeyCallback(cfg.pins[hop], key)

CInv == ConnectTypeOK /\ Held /\ Quiet /\ Checked /\ Verified /\ CredentialsOnlyToVerified

----------------------------------------------------------------------------
\* A key exchange that finds a common type presents one, with the server's owner.
LEMMA PresentedType ==
    ASSUME NEW p \in Pins, NEW s \in Server, Common(p, s) # {}
    PROVE  /\ Presented(p, s).type \in Common(p, s)
           /\ Presented(p, s).owner = s.owner
           /\ Presented(p, s) \in Keys
<1> DEFINE First(n) == /\ Types[n] \in Common(p, s)
                       /\ \A m \in DOMAIN Types : Types[m] \in Common(p, s) => n <= m
<1>1. DOMAIN Types = {1, 2} /\ Types[1] = "ecdsa" /\ Types[2] = "ed25519"
  BY DEF Types
<1>2. Common(p, s) \subseteq {"ecdsa", "ed25519"} /\ s.owner \in Owners
  BY DEF Common, Server, TypeSet
<1>3. \E n \in DOMAIN Types : First(n)
  <2>1. CASE "ecdsa" \in Common(p, s)
    <3>1. First(1)
      BY <1>1, <2>1
    <3> QED BY <3>1, <1>1
  <2>2. CASE "ecdsa" \notin Common(p, s)
    <3>1. "ed25519" \in Common(p, s)
      BY <1>2, <2>2
    <3>2. First(2)
      BY <1>1, <2>2, <3>1
    <3> QED BY <3>2, <1>1
  <2> QED BY <2>1, <2>2
<1> DEFINE i == CHOOSE n \in DOMAIN Types : First(n)
<1>4. i \in DOMAIN Types /\ First(i)
  BY <1>3
<1>5. Presented(p, s) = [type |-> Types[i], owner |-> s.owner]
  BY DEF Presented
<1> HIDE DEF i
<1> QED BY <1>2, <1>4, <1>5 DEF Keys, TypeSet

\* A failed step closes everything its attempt had opened.
LEMMA ReleasedAll ==
    ASSUME CInv, step \in InAttempt
    PROVE  owned \ Released(step, hop) = {}
BY DEF CInv, Held, Route, Released, InAttempt, Waiting, Handshaking, Hops

\* Every error path restores the invariant, whatever it wrote to sent.
LEMMA FailKeeps ==
    ASSUME CInv, step \in InAttempt, NEW e \in Errors, Fail(e),
           sent' \subseteq Hops \X Keys,
           \A m \in sent' : \/ m[2] \in Pinned(cfg.pins[m[1]])
                            \/ Pinned(cfg.pins[m[1]]) = {} /\ cfg.pins[m[1]].allowAny
    PROVE  CInv'
<1>1. owned' = {}
  BY ReleasedAll DEF Fail
<1>2. step' \in {"backoff", "failed"} /\ hop' = "target" /\ cfg' = cfg /\ cancelled' = cancelled
  BY DEF Fail
<1>3. attempt' \in 0 .. Retries
  BY ConnectAssumption DEF Fail, RetryLeft, CInv, ConnectTypeOK
<1>4. ConnectTypeOK'
  BY <1>1, <1>2, <1>3 DEF CInv, ConnectTypeOK, Fail, Steps, Hops, Errors
<1>5. Held' /\ Quiet' /\ Checked' /\ Verified'
  BY <1>1, <1>2 DEF Fail, Held, Quiet, Checked, Verified, Waiting, Handshaking
<1>6. CredentialsOnlyToVerified'
  BY <1>2 DEF CredentialsOnlyToVerified
<1> QED BY <1>4, <1>5, <1>6 DEF CInv

\* Offering credentials to a hop that is authenticating keeps the promise.
LEMMA OfferKeeps ==
    ASSUME CInv, step = "auth", sent' = sent \cup {<<hop, key>>}
    PROVE  /\ sent' \subseteq Hops \X Keys
           /\ \A m \in sent' : \/ m[2] \in Pinned(cfg.pins[m[1]])
                               \/ Pinned(cfg.pins[m[1]]) = {} /\ cfg.pins[m[1]].allowAny
<1>1. hop \in Hops /\ key \in Keys /\ hostKeyCallback(cfg.pins[hop], key)
  BY DEF CInv, ConnectTypeOK, Verified
<1>2. Configured(cfg.pins[hop])
  BY DEF CInv, Checked, Held, Waiting, Handshaking
<1>3. \/ key \in Pinned(cfg.pins[hop])
      \/ Pinned(cfg.pins[hop]) = {} /\ cfg.pins[hop].allowAny
  BY <1>1, <1>2 DEF hostKeyCallback, Configured
<1>4. sent' \subseteq Hops \X Keys
  BY <1>1 DEF CInv, ConnectTypeOK
<1>5. ASSUME NEW m \in sent'
      PROVE  \/ m[2] \in Pinned(cfg.pins[m[1]])
             \/ Pinned(cfg.pins[m[1]]) = {} /\ cfg.pins[m[1]].allowAny
  <2>1. CASE m \in sent
    BY <2>1 DEF CInv, CredentialsOnlyToVerified
  <2>2. CASE m = <<hop, key>>
    BY <1>3, <2>2
  <2> QED BY <2>1, <2>2
<1> QED BY <1>4, <1>5

\* An error path that offered nothing.
LEMMA SilentFailKeeps ==
    ASSUME CInv, step \in InAttempt, NEW e \in Errors, Fail(e), UNCHANGED sent
    PROVE  CInv'
BY FailKeeps DEF CInv, ConnectTypeOK, CredentialsOnlyToVerified

LEMMA InitCInv == ConnectInit => CInv
<1> SUFFICES ASSUME ConnectInit PROVE CInv
  OBVIOUS
<1>1. NoSetting \in Setting
  BY DEF NoSetting, NoPins, Setting, Pins
<1>2. ConnectTypeOK
  <2>1. answered \in BOOLEAN /\ cancelled \in BOOLEAN
    BY DEF ConnectInit
  <2>2. cfg \in Setting /\ attempt \in 0 .. Retries
    BY <1>1, ConnectAssumption DEF ConnectInit
  <2>3. /\ step \in Steps /\ hop \in Hops /\ owned \subseteq Hops /\ dead \subseteq owned
        /\ armed \in {"none", "socket", "tunnel", "sftp"} /\ firing \subseteq {"tunnel", "sftp"}
        /\ key \in Keys \cup {NoKey} /\ lastErr \in Errors /\ sent \subseteq Hops \X Keys
    BY DEF ConnectInit, Steps, Hops, Errors
  <2> QED BY <2>1, <2>2, <2>3 DEF ConnectTypeOK
<1>3. Held /\ Quiet /\ Checked /\ Verified /\ CredentialsOnlyToVerified
  BY DEF ConnectInit, Held, Quiet, Checked, Verified, CredentialsOnlyToVerified,
         Waiting, Handshaking
<1> QED BY <1>2, <1>3 DEF CInv

\* The callback of a timer and the socket deadline shut transports that are open.
LEMMA DeadlinesKeep ==
    ASSUME CInv, SocketDeadline \/ TimerFires \/ TimerKills
    PROVE  CInv'
<1>1. CASE SocketDeadline
  <2>1. hop \in owned
    BY <1>1 DEF SocketDeadline, CInv, Quiet, Held, Route, Waiting, Handshaking, Hops
  <2> QED BY <1>1, <2>1 DEF SocketDeadline, CInv, ConnectTypeOK, Held, Route, Quiet, Checked,
               Verified, CredentialsOnlyToVerified
<1>2. CASE TimerFires
  BY <1>2 DEF TimerFires, CInv, ConnectTypeOK, Held, Route, Quiet, Checked,
              Verified, CredentialsOnlyToVerified
<1>3. CASE TimerKills
  BY <1>3 DEF TimerKills, CInv, ConnectTypeOK, Held, Route, Quiet, Checked,
              Verified, CredentialsOnlyToVerified
<1> QED BY <1>1, <1>2, <1>3

\* The steps that end an attempt or start one.
LEMMA TurnsKeep ==
    ASSUME CInv,
           \/ \E c \in Settings : Begin(c)
           \/ Backoff \/ CloseSession \/ Cancel \/ ProbeAnswered \/ ProbeFails
    PROVE  CInv'
<1>1. ASSUME NEW c \in Settings, Begin(c) PROVE CInv'
  BY <1>1, ConnectAssumption
     DEF Begin, CInv, ConnectTypeOK, Held, Route, Quiet, Checked, Verified,
         CredentialsOnlyToVerified, Steps, InAttempt, Waiting, Handshaking, Hops
<1>2. CASE Backoff
  BY <1>2 DEF Backoff, CInv, ConnectTypeOK, Held, Route, Quiet, Checked, Verified,
         CredentialsOnlyToVerified, Steps, InAttempt, Waiting, Handshaking, Hops, Errors
<1>3. CASE CloseSession
  BY <1>3 DEF CloseSession, CInv, ConnectTypeOK, Held, Route, Quiet, Checked, Verified,
         CredentialsOnlyToVerified, Steps, InAttempt, Waiting, Handshaking, Hops
<1>4. CASE Cancel
  BY <1>4 DEF Cancel, CInv, ConnectTypeOK, Held, Route, Quiet, Checked, Verified,
         CredentialsOnlyToVerified
<1>5. CASE ProbeAnswered \/ ProbeFails
  BY <1>5 DEF ProbeAnswered, ProbeFails, CInv, ConnectTypeOK, Held, Route, Quiet, Checked,
         Verified, CredentialsOnlyToVerified, Steps, InAttempt, Waiting, Handshaking
<1> QED BY <1>1, <1>2, <1>3, <1>4, <1>5

\* The steps of one attempt.
LEMMA AttemptKeeps ==
    ASSUME CInv,
           \/ ClientConfig \/ Dial \/ DialFails \/ OpenTunnel
           \/ (\E s \in Servers : KeyExchange(s))
           \/ Authenticated \/ Rejected \/ (\E n \in {1, 2} : Challenge(n))
           \/ SftpReady \/ TransportShut \/ PeerFails
    PROVE  CInv'
<1> USE DEF Steps, InAttempt, Waiting, Handshaking
<1>e. {"permanent", "mismatch", "auth", "challenge", "transient"} \subseteq Errors
  BY DEF Errors
<1>1. CASE ClientConfig
  <2>1. CASE Fail("permanent") /\ UNCHANGED sent
    BY <1>1, <1>e, <2>1, SilentFailKeeps DEF ClientConfig
  <2>2. CASE ~ Fail("permanent")
    BY <1>1, <2>2 DEF ClientConfig, hopPins, CInv, ConnectTypeOK, Held, Route, Quiet, Checked,
         Verified, CredentialsOnlyToVerified, Hops
  <2> QED BY <1>1, <2>1, <2>2 DEF ClientConfig
<1>2. CASE Dial
  BY <1>2 DEF Dial, armConnectDeadline, CInv, ConnectTypeOK, Held, Route, Quiet, Checked,
         Verified, CredentialsOnlyToVerified, Hops
<1>3. CASE DialFails \/ TransportShut \/ PeerFails
  BY <1>3, <1>e, SilentFailKeeps DEF DialFails, TransportShut, PeerFails
<1>4. CASE OpenTunnel
  BY <1>4 DEF OpenTunnel, CInv, ConnectTypeOK, Held, Route, Quiet, Checked,
         Verified, CredentialsOnlyToVerified, Hops
<1>5. ASSUME NEW s \in Servers, KeyExchange(s) PROVE CInv'
  <2> DEFINE k == Presented(hopPins(hop), s)
  <2>1. CASE (Fail("transient") \/ Fail("mismatch")) /\ UNCHANGED sent
    BY <1>5, <1>e, <2>1, SilentFailKeeps DEF KeyExchange
  <2>2. CASE /\ Common(hopPins(hop), s) # {} /\ hostKeyCallback(hopPins(hop), k)
             /\ step = "kex" /\ key' = k /\ step' = "auth"
             /\ UNCHANGED <<cfg, hop, attempt, owned, dead, armed, firing, answered,
                            lastErr, sent, cancelled>>
    <3>1. k \in Keys
      BY <2>2, PresentedType, ConnectAssumption DEF hopPins, CInv, ConnectTypeOK, Setting
    <3> HIDE DEF k
    <3> QED BY <2>2, <3>1 DEF hopPins, CInv, ConnectTypeOK, Held, Route, Quiet, Checked,
         Verified, CredentialsOnlyToVerified
  <2> QED BY <1>5, <2>1, <2>2 DEF KeyExchange
<1>6. CASE Authenticated
  <2>1. sent' = sent \cup {<<hop, key>>} /\ step = "auth"
    BY <1>6 DEF Authenticated
  <2>2. CredentialsOnlyToVerified' /\ sent' \subseteq Hops \X Keys
    BY <1>6, <2>1, OfferKeeps DEF Authenticated, CredentialsOnlyToVerified
  <2>3. ConnectTypeOK'
    BY <1>6, <2>2 DEF Authenticated, armConnectDeadline, CInv, ConnectTypeOK
  <2>4. Held' /\ Quiet' /\ Checked' /\ Verified'
    BY <1>6 DEF Authenticated, CInv, ConnectTypeOK, Held, Route, Quiet, Checked, Verified, Hops
  <2> QED BY <2>2, <2>3, <2>4 DEF CInv
<1>7. CASE Rejected
  BY <1>7, <1>e, OfferKeeps, FailKeeps DEF Rejected
<1>8. ASSUME NEW n \in {1, 2}, Challenge(n) PROVE CInv'
  <2>1. CASE Fail("challenge") /\ UNCHANGED sent
    BY <1>8, <1>e, <2>1, SilentFailKeeps DEF Challenge
  <2>2. CASE /\ step = "auth" /\ answered' = TRUE /\ sent' = sent \cup {<<hop, key>>}
             /\ UNCHANGED <<cfg, step, hop, attempt, owned, dead, armed, firing, key,
                            lastErr, cancelled>>
    <3>1. CredentialsOnlyToVerified' /\ sent' \subseteq Hops \X Keys
      BY <2>2, OfferKeeps DEF CredentialsOnlyToVerified
    <3>2. answered' \in BOOLEAN
      BY <2>2
    <3>3. ConnectTypeOK'
      BY <2>2, <3>1, <3>2 DEF CInv, ConnectTypeOK
    <3>4. Held' /\ Quiet' /\ Checked' /\ Verified'
      BY <2>2 DEF CInv, Held, Route, Quiet, Checked, Verified
    <3> QED BY <3>1, <3>3, <3>4 DEF CInv
  <2> QED BY <1>8, <2>1, <2>2 DEF Challenge
<1>9. CASE SftpReady
  BY <1>9 DEF SftpReady, CInv, ConnectTypeOK, Held, Route, Quiet, Checked,
         Verified, CredentialsOnlyToVerified, Errors
<1> QED BY <1>1, <1>2, <1>3, <1>4, <1>5, <1>6, <1>7, <1>8, <1>9

\* A step that touches none of the variables.
LEMMA StutterKeeps == CInv /\ UNCHANGED cvars => CInv'
BY DEF CInv, cvars, ConnectTypeOK, Held, Route, Quiet, Checked, Verified,
       CredentialsOnlyToVerified

----------------------------------------------------------------------------
\* The invariant holds through every retry, answer, silence and late timer of
\* newSession (session.go, connection.go).
THEOREM ConnectInv == ConnectSpec => []CInv
<1>1. CInv /\ [ConnectNext]_cvars => CInv'
  BY TurnsKeep, DeadlinesKeep, AttemptKeeps, StutterKeeps
     DEF ConnectNext, ConnectStep, Local, Answer
<1> QED BY InitCInv, <1>1, PTL DEF ConnectSpec

\* A failed attempt leaves no connection and no deadline behind, and a session owns
\* the hops it goes through: dialSSH, dialViaJump and connect.
THEOREM ConnectLeavesNothing == ConnectSpec => []AttemptLeavesNothing
<1>1. CInv => AttemptLeavesNothing
  BY DEF CInv, Held, Route, Quiet, AttemptLeavesNothing
<1> QED BY ConnectInv, <1>1, PTL

\* Credentials reach a hop only past that hop's own host key check:
\* hostKeyCallback, targetHop, jumpHop.
THEOREM ConnectCredentials == ConnectSpec => []CredentialsOnlyToVerified
<1>1. CInv => CredentialsOnlyToVerified
  BY DEF CInv
<1> QED BY ConnectInv, <1>1, PTL

\* A server that holds a key known_hosts lists is recognized by it:
\* pinnedHostKeyAlgorithms.
THEOREM ConnectRecognizes == ConnectSpec => []PinnedServerIsRecognized
<1>1. CInv => PinnedServerIsRecognized
  <2> DEFINE p == hopPins(hop)
  <2> SUFFICES ASSUME CInv, NEW s \in Servers,
                      p.fingerprints = {}, ~ p.explicit,
                      \A k \in p.knownHosts : k.owner = s.owner,
                      NEW t \in s.types, [type |-> t, owner |-> s.owner] \in p.knownHosts
               PROVE  Common(p, s) # {} /\ hostKeyCallback(p, Presented(p, s))
    BY DEF PinnedServerIsRecognized
  <2>1. p \in Pins /\ s \in Server
    BY ConnectAssumption DEF CInv, ConnectTypeOK, Setting, hopPins
  <2> HIDE DEF p
  <2>2. Common(p, s) = {k.type : k \in p.knownHosts} \cap s.types
    BY DEF Common, pinnedHostKeyAlgorithms
  <2>3. t \in Common(p, s)
    BY <2>2
  <2>4. PICK k \in p.knownHosts : k.type = Presented(p, s).type
    BY <2>1, <2>2, <2>3, PresentedType
  <2>5. k \in Keys /\ k.owner = Presented(p, s).owner /\ Presented(p, s) \in Keys
    BY <2>1, <2>3, <2>4, PresentedType DEF Pins
  <2>6. k = Presented(p, s)
    BY <2>4, <2>5 DEF Keys
  <2> QED BY <2>3, <2>4, <2>6 DEF hostKeyCallback, Pinned
<1> QED BY ConnectInv, <1>1, PTL
=============================================================================
