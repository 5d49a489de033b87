---------------------------- MODULE EventTimeline ----------------------------
(***************************************************************************)
(* What a discrete-event scheduler promises: an event fires at exactly the *)
(* time it was scheduled for, events that are due together fire in the     *)
(* order of their priorities, and time never passes an event that is       *)
(* still pending.  The cycle scheduler implements it (TimelineRefinement). *)
(***************************************************************************)
EXTENDS Integers

CONSTANTS
    Modulus,    \* the clock counts modulo this number
    Horizon,    \* no event is scheduled further ahead
    Priority,   \* a smaller one goes first
    Who         \* who runs when an event fires

VARIABLES now, pending
vars == <<now, pending>>

\* left: the cycles until the event is due
Event == [who : Who, priority : Priority, left : 0..Horizon]

Init == now = 0 /\ pending \in SUBSET Event

Later(d, events) == {[e EXCEPT !.left = @ - d] : e \in events}

\* Scheduling and withdrawing events takes no time
Schedule ==
    /\ UNCHANGED now
    /\ \E e \in pending' \ pending : e \in Event /\ pending' = pending \cup {e}
Cancel ==
    /\ UNCHANGED now
    /\ \E e \in pending : pending' = pending \ {e}

\* Time passes, up to the first event that is due and not beyond
Elapse == \E d \in 1..Horizon :
    /\ \A e \in pending : e.left >= d
    /\ now' = (now + d) % Modulus
    /\ pending' = Later(d, pending)

\* The first event fires: the clock is at its time and it is gone
Fire == \E e \in pending :
    /\ \A x \in pending : x.left > e.left \/ (x.left = e.left /\ x.priority >= e.priority)
    /\ now' = (now + e.left) % Modulus
    /\ pending' = Later(e.left, pending \ {e})

Spec == Init /\ [][Schedule \/ Cancel \/ Elapse \/ Fire]_vars
=============================================================================
