------------------------------ MODULE LiveFile ------------------------------
(***************************************************************************)
(* What a deployment promises for one file: the new content takes the old  *)
(* one's place as a whole, success is told only then, and nothing happens  *)
(* to the file after that.  A server that cannot replace a file in one     *)
(* step may show none for a while, with what was live set aside; what      *)
(* comes back from there is what was live last, so the old content never   *)
(* returns once the new one was live.                                      *)
(***************************************************************************)
VARIABLES
    live,    \* the content under the file's name: "none", "old" or "new"
    aside,   \* while there is none, the copy of what was live last
    told,    \* success was reported
    atomic   \* whether the server replaces a file in one step

vars == <<live, aside, told, atomic>>

Init == live \in {"none", "old"} /\ aside = "none" /\ ~told /\ atomic \in BOOLEAN

\* The answer may come at once.
Replace ==
    /\ ~told /\ told' \in BOOLEAN
    /\ live' = "new" /\ aside' = "none"
    /\ UNCHANGED atomic

SetAside ==
    /\ ~told /\ ~atomic
    /\ live # "none" /\ live' = "none" /\ aside' = live
    /\ UNCHANGED <<told, atomic>>

PutBack ==
    /\ live = "none" /\ aside # "none"
    /\ live' = aside /\ aside' = "none"
    /\ UNCHANGED <<told, atomic>>

\* The copy is taken for an interrupted run's and removed.
LoseCopy ==
    /\ live = "none" /\ aside' = "none"
    /\ UNCHANGED <<live, told, atomic>>

Tell ==
    /\ live = "new" /\ told' = TRUE
    /\ UNCHANGED <<live, aside, atomic>>

Next == Replace \/ SetAside \/ PutBack \/ LoseCopy \/ Tell

Spec == Init /\ [][Next]_vars
=============================================================================
