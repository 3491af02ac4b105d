--------------------------------- MODULE Gauge --------------------------------
(***************************************************************************)
(* What TommyState promises of its display, with every mechanism left out: *)
(* each frame shows a newer sample than the frame before it, and samples   *)
(* that were taken get shown, or a newer one does.                         *)
(***************************************************************************)
EXTENDS Naturals

VARIABLES behind,    \* samples taken that are newer than the one on display
          frame      \* parity of the frames shown

vars == <<behind, frame>>

Init == behind = 0 /\ frame = 0

Sample ==
  /\ behind' = behind + 1
  /\ UNCHANGED frame

Show ==
  /\ behind > 0
  /\ behind' \in 0 .. behind - 1
  /\ frame' = 1 - frame

(* The program ends, and its samples with it.                              *)
Quit ==
  /\ behind' = 0
  /\ UNCHANGED frame

Next == Sample \/ Show \/ Quit

Safety == Init /\ [][Next]_vars
Spec   == Safety /\ WF_vars(Show)

=============================================================================
