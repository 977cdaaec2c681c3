------------------------------ MODULE BookShelf ------------------------------
(***************************************************************************)
(* What the ways to put books on the card promise together: a book appears *)
(* under a free name in one step, and as a whole; a move takes it from one *)
(* name to another in one step; and a client is told of a book that is     *)
(* there, which then stays until the name is not its any more.  None of    *)
(* this holds of a name while it is stray: a book that was still arriving  *)
(* was taken from under it.                                                *)
(***************************************************************************)
CONSTANTS Name, Body, None

VARIABLES
    book,  \* book[n]: the book called n
    told,  \* the names under which a client was told that its book is stored
    stray  \* the names from which a book was taken before it had arrived

vars == <<book, told, stray>>

Init == book = [n \in Name |-> None] /\ told = {} /\ stray = {}

\* The client of n hears that its book is there, which is certain only of a name that is not stray.
Says(n) ==
    /\ told' = told \cup {n}
    /\ \/ n \in stray /\ UNCHANGED stray
       \/ stray' = stray \ {n} /\ book'[n] # None

Tell(n) == Says(n) /\ UNCHANGED book

\* An upload or a copy is complete.  A client may hear of it now, later, or never.
Arrive(n, b) ==
    /\ book[n] = None
    /\ UNCHANGED <<told, stray>> \/ \E m \in Name : Says(m)
    /\ book' = [book EXCEPT ![n] = b]

\* What is called n is taken away: a book, or one that is still arriving.
Taken(n) == UNCHANGED stray \/ (stray' = stray \cup {n} /\ book[n] = None)

Remove(n) ==
    /\ told' = told \ {n}
    /\ Taken(n)
    /\ book' = [book EXCEPT ![n] = None]

Move(s, d) ==
    /\ s # d /\ told' = told \ {s, d}
    /\ Taken(s)
    /\ book[d] = None
    /\ book' = [book EXCEPT ![s] = None, ![d] = book[s]]

\* The upload that strayed is given up, and whatever took its name goes.
Lose(n) ==
    /\ n \in stray
    /\ UNCHANGED <<told, stray>>
    /\ book' = [book EXCEPT ![n] = None]

\* The device is switched off: what was being written may be complete all the same.
Restart ==
    /\ UNCHANGED <<told, stray>>
    /\ book' \in [Name -> Body \cup {None}]
    /\ \A n \in Name : book[n] # None => book'[n] = book[n]

Next ==
    \/ Restart
    \/ \E n \in Name, b \in Body : Arrive(n, b)
    \/ \E n \in Name : Tell(n) \/ Remove(n) \/ Lose(n)
    \/ \E s, d \in Name : Move(s, d)

Spec == Init /\ [][Next]_vars
=============================================================================
