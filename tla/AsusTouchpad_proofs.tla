------------------------- MODULE AsusTouchpad_proofs ------------------------
(***************************************************************************)
(* Proofs about AsusTouchpad, for every set of consumers and every bound.  *)
(*                                                                         *)
(* RecordedFollowsLive speaks of the running driver; on the way there the  *)
(* set is empty and every living consumer counts as missed, then the two   *)
(* agree from the moment the first notifier is noted.  PressFlips speaks   *)
(* of the second half of a toggle; what it rests on is that between the    *)
(* halves the flag holds the opposite of what all consumers agreed on.     *)
(***************************************************************************)
EXTENDS AsusTouchpad, TLAPS

(* How the set of consumers comes to follow the living ones.               *)
RecordInv ==
    /\ phase \in {"attached", "gated"} => recorded = {} /\ live \subseteq missed
    /\ phase \in {"installed", "running"} =>
          \A c \in Consumers \ missed : c \in recorded <=> c \in live

(* What a toggle holds between its halves, and after them.                 *)
ToggleInv ==
    common # None =>
        /\ thread = "setTouchStatus" => isTouchpadEnabled = ~common
        /\ thread = "idle" => \A c \in recorded : pads[c] = isTouchpadEnabled

IInv == TypeOK /\ RecordInv /\ ToggleInv

-----------------------------------------------------------------------------
LEMMA InitInv == Init => IInv
<1> SUFFICES ASSUME Init PROVE IInv
  OBVIOUS
<1>1. panic \in BOOLEAN /\ isTouchpadEnabled \in BOOLEAN
  BY Zenon DEF Init, FlagAtInit
<1>2. TypeOK
  BY <1>1, TouchpadAssumption DEF Init, TypeOK, Phases
<1>3. RecordInv /\ ToggleInv
  BY DEF Init, RecordInv, ToggleInv
<1> QED BY <1>2, <1>3 DEF IInv

LEMMA TypeStep == TypeOK /\ [Next]_vars => TypeOK'
<1> SUFFICES ASSUME TypeOK, [Next]_vars PROVE TypeOK'
  OBVIOUS
<1> USE TouchpadAssumption DEF TypeOK, Phases
<1>1. CASE Life
  BY <1>1 DEF Life, CreateGate, RegisterPublish, RegisterTerminate,
              StopReleasesGate, StopRemovesNotifiers
<1>2. CASE GetTouchStatus
  <2>1. isTouchpadEnabled' \in BOOLEAN
    BY <1>2, Zenon DEF GetTouchStatus
  <2>2. common' \in BOOLEAN \cup {None}
    BY <1>2 DEF GetTouchStatus, Agreed
  <2> QED BY <1>2, <2>1, <2>2 DEF GetTouchStatus
<1>3. CASE SetTouchStatus
  BY <1>3 DEF SetTouchStatus
<1>4. CASE KeyWithoutGate
  BY <1>4 DEF KeyWithoutGate
<1>5. ASSUME NEW c \in Consumers, Publish(c) \/ Terminate(c)
      PROVE  TypeOK'
  <2>1. panic' \in BOOLEAN
    BY <1>5, Zenon DEF Publish, Terminate, HandlerPanics
  <2> QED BY <1>5, <2>1 DEF Publish, Terminate, Change
<1>6. ASSUME NEW c \in Consumers, ToggleElsewhere(c)
      PROVE  TypeOK'
  BY <1>6 DEF ToggleElsewhere, Change
<1>7. CASE UNCHANGED vars
  BY <1>7 DEF vars
<1> QED BY <1>1, <1>2, <1>3, <1>4, <1>5, <1>6, <1>7 DEF Next, toggleTouchpad

LEMMA RecordStep == TypeOK /\ RecordInv /\ [Next]_vars => RecordInv'
<1> SUFFICES ASSUME TypeOK, RecordInv, [Next]_vars PROVE RecordInv'
  OBVIOUS
<1> USE DEF TypeOK, RecordInv, Phases
<1>1. CASE Life
  BY <1>1 DEF Life, CreateGate, RegisterPublish, RegisterTerminate,
              StopReleasesGate, StopRemovesNotifiers
<1>2. CASE toggleTouchpad
  BY <1>2 DEF toggleTouchpad, GetTouchStatus, SetTouchStatus, KeyWithoutGate
<1>3. ASSUME NEW c \in Consumers, Publish(c)
      PROVE  RecordInv'
  BY <1>3 DEF Publish, PublishNotify
<1>4. ASSUME NEW c \in Consumers, Terminate(c)
      PROVE  RecordInv'
  BY <1>4 DEF Terminate, TerminateNotify
<1>5. ASSUME NEW c \in Consumers, ToggleElsewhere(c)
      PROVE  RecordInv'
  BY <1>5 DEF ToggleElsewhere
<1>6. CASE UNCHANGED vars
  BY <1>6 DEF vars
<1> QED BY <1>1, <1>2, <1>3, <1>4, <1>5, <1>6 DEF Next

(* The state all consumers agreed on is the only answer they can give.     *)
LEMMA OneAnswer ==
  ASSUME TypeOK, NEW b \in Agreed, NEW answer \in Answers
  PROVE  answer = b
BY Zenon DEF Agreed, Answers

LEMMA ToggleStep == TypeOK /\ ToggleInv /\ [Next]_vars => ToggleInv'
<1> SUFFICES ASSUME TypeOK, ToggleInv, [Next]_vars PROVE ToggleInv'
  OBVIOUS
<1> USE DEF ToggleInv
<1>1. CASE Life
  BY <1>1 DEF Life, CreateGate, RegisterPublish, RegisterTerminate,
              StopReleasesGate, StopRemovesNotifiers
<1>2. CASE GetTouchStatus
  <2>1. SUFFICES ASSUME common' # None
                 PROVE  isTouchpadEnabled' = ~common'
    BY <1>2 DEF GetTouchStatus
  <2>2. common' \in Agreed
    BY <1>2, <2>1 DEF GetTouchStatus
  <2>3. PICK answer \in Answers : isTouchpadEnabled' = ~answer
    BY <1>2 DEF GetTouchStatus
  <2> QED BY <2>2, <2>3, OneAnswer, Zenon
<1>3. CASE SetTouchStatus
  BY <1>3 DEF SetTouchStatus, TypeOK
<1>4. CASE KeyWithoutGate
  BY <1>4 DEF KeyWithoutGate
<1>5. ASSUME NEW c \in Consumers, Publish(c) \/ ToggleElsewhere(c)
      PROVE  ToggleInv'
  BY <1>5 DEF Publish, ToggleElsewhere
<1>6. ASSUME NEW c \in Consumers, Terminate(c)
      PROVE  ToggleInv'
  BY <1>6 DEF Terminate
<1>7. CASE UNCHANGED vars
  BY <1>7 DEF vars
<1> QED BY <1>1, <1>2, <1>3, <1>4, <1>5, <1>6, <1>7 DEF Next, toggleTouchpad

-----------------------------------------------------------------------------
(* The inductive invariant: the types, the set of consumers and the halves *)
(* of a toggle of AsusFn's touchpad code.                                  *)
THEOREM Invariance == Spec => []IInv
<1>1. Init => IInv
  BY InitInv
<1>2. IInv /\ [Next]_vars => IInv'
  BY TypeStep, RecordStep, ToggleStep DEF IInv
<1> QED BY <1>1, <1>2, PTL DEF Spec

(* Every variable of the touchpad code keeps to its type.                  *)
THEOREM TypeCorrect == Spec => []TypeOK
BY Invariance, PTL DEF IInv

(* Whatever the order of start, publications and terminations, the running *)
(* driver's set is the set of living consumers but for the missed ones.    *)
THEOREM ConsumersAreKept == Spec => []RecordedFollowsLive
<1>1. IInv => RecordedFollowsLive
  BY DEF IInv, RecordInv, RecordedFollowsLive
<1> QED BY <1>1, Invariance, PTL

(* After a press is done, the recorded consumers hold the driver's flag.   *)
THEOREM ConsumersAgreeAfterwards == Spec => []ConsumersAgree
<1>1. IInv => ConsumersAgree
  BY DEF IInv, ToggleInv, ConsumersAgree
<1> QED BY <1>1, Invariance, PTL

(* A press of Fn + F9 flips what all recorded consumers held.              *)
THEOREM PressesFlip == Spec => PressFlips
<1>1. IInv /\ [Next]_vars =>
        [thread = "setTouchStatus" /\ thread' = "idle" /\ common # None =>
            \A c \in recorded : pads'[c] = ~common]_vars
  <2> SUFFICES ASSUME IInv, Next, thread = "setTouchStatus", thread' = "idle",
                      common # None
               PROVE  \A c \in recorded : pads'[c] = ~common
    BY DEF vars
  <2>1. SetTouchStatus
    BY DEF Next, Life, toggleTouchpad, GetTouchStatus, KeyWithoutGate, Publish,
           Terminate, ToggleElsewhere
  <2>2. isTouchpadEnabled = ~common
    BY DEF IInv, ToggleInv
  <2>3. \A c \in recorded : pads'[c] = isTouchpadEnabled
    BY <2>1 DEF SetTouchStatus, IInv, TypeOK
  <2> QED BY <2>2, <2>3
<1> QED BY <1>1, Invariance, PTL DEF Spec, PressFlips
=============================================================================
