------------------------------ MODULE NavStack ------------------------------
(***************************************************************************)
(* What the activity manager promises to activities, with no tasks, no     *)
(* mutex and no pending slot: a stack of distinct activities of which the  *)
(* top one is on the screen, and a renderer that draws the top activity.   *)
(* The stack never changes while an activity is being drawn.               *)
(* (ActivityManager.h, lines 28-43; docs/activity-manager.md.)             *)
(***************************************************************************)
EXTENDS Naturals, Sequences

CONSTANTS Activity, None

VARIABLES
    nav,   \* the activities alive, the one on the screen last
    drawn  \* the activity being drawn, or None

vars == <<nav, drawn>>

Alive == {nav[i] : i \in 1 .. Len(nav)}

Init == nav = <<>> /\ drawn = None

\* The first activity after a boot, a replacement or the last pop.
Start(a) ==
    /\ nav = <<>>
    /\ drawn = None
    /\ nav' = <<a>>
    /\ UNCHANGED drawn

\* A child is launched over the activity on the screen.
Push(a) ==
    /\ nav # <<>>
    /\ a \notin Alive
    /\ drawn = None
    /\ nav' = Append(nav, a)
    /\ UNCHANGED drawn

\* The activity on the screen is exited; its parent, if any, resumes.
Pop ==
    /\ nav # <<>>
    /\ drawn = None
    /\ nav' = SubSeq(nav, 1, Len(nav) - 1)
    /\ UNCHANGED drawn

\* Every activity is exited.
Clear ==
    /\ drawn = None
    /\ nav' = <<>>
    /\ UNCHANGED drawn

BeginDraw ==
    /\ nav # <<>>
    /\ drawn = None
    /\ drawn' = nav[Len(nav)]
    /\ UNCHANGED nav

EndDraw ==
    /\ drawn # None
    /\ drawn' = None
    /\ UNCHANGED nav

\* Deep sleep, restart or power loss.
PowerLoss == nav' = <<>> /\ drawn' = None

Next ==
    \/ \E a \in Activity : Start(a) \/ Push(a)
    \/ Pop \/ Clear \/ BeginDraw \/ EndDraw \/ PowerLoss

Spec == Init /\ [][Next]_vars
=============================================================================
