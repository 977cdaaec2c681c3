----------------------------- MODULE AtomicUpdate -----------------------------
(***************************************************************************)
(* What a firmware update promises, whatever interrupts it: the image the  *)
(* device would start is always one made for it, it changes in one step    *)
(* and only to the image on offer, and the running image changes only when *)
(* the device restarts.                                                    *)
(***************************************************************************)
CONSTANTS Good, Offerable, NoImage

VARIABLES
    installed,  \* the image the device would start now
    current,    \* the image it runs
    offered     \* the image an update is installing, or NoImage

vars == <<installed, current, offered>>

Init == installed \in Good /\ current = installed /\ offered = NoImage

\* A new update may first take back an image that was installed and never started.
Offer(i) == offered' = i /\ installed' \in {installed, current} /\ UNCHANGED current

Withdraw == offered' = NoImage /\ UNCHANGED <<installed, current>>

Install ==
    /\ offered \in Good
    /\ installed' = offered
    /\ offered' = NoImage
    /\ UNCHANGED current

Restart == current' = installed /\ offered' = NoImage /\ UNCHANGED installed

Next == (\E i \in Offerable : Offer(i)) \/ Withdraw \/ Install \/ Restart

Spec == Init /\ [][Next]_vars
=============================================================================
