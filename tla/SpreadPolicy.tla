---------------------------- MODULE SpreadPolicy ----------------------------
(***************************************************************************)
(* What the runtime controller may do to the number of connections of one  *)
(* deployment: widen it step by step, at most doubling it, judge each step *)
(* by the window after it, take back at most one step and then leave the   *)
(* number alone until the next deployment ("one step back is a correction, *)
(* and a second one would be the start of an oscillation").                *)
(***************************************************************************)
EXTENDS Naturals

CONSTANT MaxWidth

VARIABLES
    round,   \* the deployment
    phase,   \* "watching", "judging" the last step, or "settled"
    width,   \* the connections the controller stands behind
    back     \* where a step being judged came from

vars == <<round, phase, width, back>>

Fresh(r, p, w, b) ==
    r \in Nat /\ p \in {"watching", "settled"} /\ w \in 1 .. MaxWidth /\ b = 0

Grow ==
    /\ phase # "settled"
    /\ width' \in (width + 1) .. MaxWidth /\ width' <= 2 * width
    /\ back' = width /\ phase' = "judging"
    /\ UNCHANGED round

Keep ==
    /\ phase = "judging"
    /\ phase' \in {"watching", "settled"} /\ back' = 0
    /\ UNCHANGED <<round, width>>

TakeBack ==
    /\ phase = "judging"
    /\ width' = back /\ back' = 0 /\ phase' = "settled"
    /\ UNCHANGED round

Settle ==
    /\ phase = "watching"
    /\ phase' = "settled"
    /\ UNCHANGED <<round, width, back>>

NextDeployment == round' > round /\ Fresh(round', phase', width', back')

Next == Grow \/ Keep \/ TakeBack \/ Settle \/ NextDeployment

Spec == Fresh(round, phase, width, back) /\ [][Next]_vars
=============================================================================
