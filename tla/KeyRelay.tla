------------------------------- MODULE KeyRelay -------------------------------
(***************************************************************************)
(* What AsusKeys promises of a hotkey, with every mechanism left out: a    *)
(* press runs the firmware's method at most once, one press at a time uses *)
(* the hardware, and every press is answered, whether it was carried out   *)
(* or not, unless the machine halts.                                       *)
(***************************************************************************)
CONSTANTS Callers, None

VARIABLES state,     \* the press of each caller
          busy,      \* whose press uses the hardware
          alive      \* the machine has not halted

vars == <<state, busy, alive>>

Init ==
  /\ state = [c \in Callers |-> "idle"]
  /\ busy = None
  /\ alive = TRUE

Ask(c) ==
  /\ alive /\ state[c] = "idle"
  /\ state' = [state EXCEPT ![c] = "asked"]
  /\ UNCHANGED <<busy, alive>>

Begin(c) ==
  /\ alive /\ busy = None /\ state[c] = "asked"
  /\ busy' = c
  /\ UNCHANGED <<state, alive>>

End(c) ==
  /\ alive /\ busy = c
  /\ busy' = None
  /\ state' = [state EXCEPT ![c] = "answered"]
  /\ UNCHANGED alive

Refuse(c) ==
  /\ alive /\ busy # c /\ state[c] = "asked"
  /\ state' = [state EXCEPT ![c] = "answered"]
  /\ UNCHANGED <<busy, alive>>

Return(c) ==
  /\ alive /\ state[c] = "answered"
  /\ state' = [state EXCEPT ![c] = "idle"]
  /\ UNCHANGED <<busy, alive>>

Halt ==
  /\ alive' = FALSE
  /\ UNCHANGED <<state, busy>>

Next ==
  Halt \/ \E c \in Callers : Ask(c) \/ Begin(c) \/ End(c) \/ Refuse(c) \/ Return(c)

Safety == Init /\ [][Next]_vars
Spec   == Safety /\ \A c \in Callers : WF_vars(End(c) \/ Refuse(c)) /\ WF_vars(Return(c))

=============================================================================
