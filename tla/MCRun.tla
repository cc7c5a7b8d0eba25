-------------------------------- MODULE MCRun --------------------------------
(***************************************************************************)
(* The instance of Run that TLC checks.                                    *)
(***************************************************************************)
EXTENDS Run

Key(t, o) == [type |-> t, owner |-> o]
Ed == Key("ed25519", "server")
Pin(fp, kh, any) == [fingerprints |-> fp, knownHosts |-> kh, allowAny |-> any,
                     explicit |-> FALSE, bad |-> FALSE]

\* No pins, no pins with the opt-out, a fingerprint (with a leftover opt-out),
\* a known_hosts line, both, and a line that does not parse.
PinChoices ==
    {Pin({}, {}, FALSE), Pin({}, {}, TRUE), Pin({Ed}, {}, TRUE), Pin({}, {Ed}, FALSE),
     Pin({Key("ecdsa", "server")}, {Ed}, FALSE),
     [Pin({}, {Ed}, FALSE) EXCEPT !.bad = TRUE]}

\* Directly, and through a jump host.
MCSettings ==
    {s \in [proxy : BOOLEAN, timed : BOOLEAN, probe : BOOLEAN, pins : [Hops -> PinChoices]] :
        ~ s.proxy => s.pins["jump"] = s.pins["target"]}

MCServers == [owner : Owners, types : {{"ecdsa"}, {"ecdsa", "ed25519"}}]

\* Names of the tree: a/, a/b/, the files x, a/x, a/b/x, a/b/m and m (the
\* manifest's name), and the symlink a/l.
Names == {"a", "b", "x", "m", "l"}
MCTree ==
    [p \in {<<"a">>, <<"a", "b">>, <<"x">>, <<"a", "x">>, <<"a", "b", "x">>,
            <<"a", "b", "m">>, <<"m">>, <<"a", "l">>} |->
        IF p \in {<<"a">>, <<"a", "b">>} THEN "dir"
        ELSE IF p = <<"a", "l">> THEN "other" ELSE "file"]
MCManifest == <<"m">>
MCBase == <<"x">>

Line(neg, lead, trail, segs) ==
    [negate |-> neg, lead |-> lead, trail |-> trail, segs |-> segs, bad |-> FALSE]
A == {"a"}
B == {"b"}
X == {"x"}

\* x   a/   a/b/   a/**   **/**/x   *
\* !x   !a/b/x   !/a   !a/b/   and a line that does not parse.
MCLines ==
    {Line(FALSE, FALSE, FALSE, <<X>>), Line(FALSE, FALSE, TRUE, <<A>>),
     Line(FALSE, FALSE, TRUE, <<A, B>>), Line(FALSE, FALSE, FALSE, <<A, StarStar>>),
     Line(FALSE, FALSE, FALSE, <<StarStar, StarStar, X>>),
     Line(FALSE, FALSE, FALSE, <<Names>>),
     Line(TRUE, FALSE, FALSE, <<X>>), Line(TRUE, FALSE, FALSE, <<A, B, X>>),
     Line(TRUE, TRUE, FALSE, <<A>>), Line(TRUE, FALSE, TRUE, <<A, B>>),
     [Line(FALSE, FALSE, FALSE, <<X>>) EXCEPT !.bad = TRUE]}

Dir(windows, links, eval, final) ==
    [links |-> links, kind |-> "dir", windows |-> windows, eval |-> eval, final |-> final]
Plain == Dir(FALSE, <<>>, "resolved", "resolved")

\* The directory itself; through a symlink to a junction; links that are not resolved:
\* by nobody, by the second resolver, by neither, to themselves; a file; nothing.
MCSources ==
    {Plain, Dir(TRUE, <<"symlink", "junction">>, "resolved", "resolved"),
     Dir(FALSE, <<"symlink">>, "failed", "resolved"),
     Dir(TRUE, <<"symlink">>, "failed", "resolved"),
     Dir(TRUE, <<"symlink">>, "failed", "failed"),
     Dir(TRUE, <<"junction">>, "resolved", "itself"),
     [Plain EXCEPT !.kind = "file"], [Plain EXCEPT !.kind = "missing"]}

\* One deployment with every spelling of up to three names, and two that may
\* overlap.
Remote(abs, names) == [abs |-> abs, names |-> names]
Spellings == UNION {[1 .. n -> {".", "..", "home", "www", "C:", "~"}] : n \in 0 .. 3}
Few == {Remote(TRUE, <<"www">>), Remote(TRUE, <<"www", "app">>), Remote(FALSE, <<"www">>),
        Remote(TRUE, <<"C:", "www">>), Remote(FALSE, <<"C:", ".", "www">>),
        Remote(FALSE, <<"www", "..", "www", "app">>), Remote(TRUE, <<>>), Remote(FALSE, <<".">>)}
Strategies == {"overlay", "sync", "clean"}

MCConfigurations ==
    {<<[remote |-> Remote(abs, names), strategy |-> "clean"]>> :
        abs \in BOOLEAN, names \in Spellings}
    \cup ([1 .. 2 -> [remote : Few, strategy : Strategies]])
=============================================================================
