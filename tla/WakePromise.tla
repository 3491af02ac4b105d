----------------------------- MODULE WakePromise -----------------------------
(***************************************************************************)
(* What WakeSync promises, with every mechanism left out: after a wake the *)
(* wall clock is set by a network time sync that starts after that wake.   *)
(* Several wakes may share one sync, and a sync nobody asked for is        *)
(* harmless.                                                               *)
(***************************************************************************)
EXTENDS Naturals

CONSTANT MaxWakes    \* bound on the number of wakes of one behaviour

VARIABLES posted,    \* number of wakes the driver has announced so far
          synced     \* number of them that precede the start of the latest sync

vars == <<posted, synced>>

Init == posted = 0 /\ synced = 0

Wake == /\ posted < MaxWakes
        /\ posted' = posted + 1
        /\ UNCHANGED synced

Sync == /\ synced' = posted
        /\ UNCHANGED posted

Next == Wake \/ Sync

Safety == Init /\ [][Next]_vars
Spec   == Safety /\ WF_vars(Sync)

=============================================================================
