--------------------------- MODULE WakeQueue_proofs ---------------------------
(***************************************************************************)
(* Proofs about WakeQueue, for every ring of at least three positions,     *)
(* every number of attempts of postEvent and every number of wakes.        *)
(*                                                                         *)
(* NoForgottenWake is not inductive: it says nothing while postEvent runs. *)
(* The strengthening adds what postEvent may rely on in between.  If the   *)
(* wake it is posting is unserved and the daemon is not about to sync,     *)
(* then no daemon store has touched head since postEvent began (each is    *)
(* followed by a sync that serves this wake), so                           *)
(*   - the room enqueue found is still there when it publishes the entry;  *)
(*   - the full ring it found is still full when it drops the oldest.      *)
(***************************************************************************)
EXTENDS WakeQueue, TLAPS

(* Which ring positions were written: all of them once tail has gone       *)
(* round, and until then those before tail, where every head lies.         *)
WrittenInv ==
  \/ \A i \in Position : written[i]
  \/ /\ head <= tail
     /\ \A i \in Position : i < tail => written[i]
     /\ d = "store" => dHead < tail
     /\ k = "advance" => kHead < tail

(* postEvent keeps an attempt for as long as it runs.                      *)
TriesLeft == k # "idle" => tries > 0

UnservedInv ==
  Unserved =>
    /\ k \in {"idle", "notify"} => ~Empty
    /\ k = "publish" => ~Full
    /\ k \in {"dequeue", "advance"} => Full
    /\ k = "advance" => kHead = head

IInv == TypeOK /\ TriesLeft /\ WrittenInv /\ UnservedInv

-----------------------------------------------------------------------------
(* Going once round the ring: After stays in the ring, has no fixed point, *)
(* and with three positions no cycle of length two (so a full ring is not  *)
(* empty and stays nonempty when one entry is dropped).                    *)
LEMMA RingStep ==
  ASSUME NEW i \in Position
  PROVE  /\ After(i) \in Position
         /\ After(i) # i
         /\ After(After(i)) # i
BY SlotsAssumption DEF Position, After

LEMMA InitInv == Init => IInv
<1> SUFFICES ASSUME Init PROVE IInv
  OBVIOUS
<1>1. 0 \in Position
  BY SlotsAssumption DEF Position
<1>2. TypeOK
  <2>1. written \in [Position -> BOOLEAN]
    BY DEF Init
  <2>2. tries \in 0 .. MaxTries /\ synced \in 0 .. posted
    BY MaxTriesAssumption DEF Init
  <2> QED BY <1>1, <2>1, <2>2 DEF Init, TypeOK
<1>3. TriesLeft /\ WrittenInv
  BY DEF Init, TriesLeft, WrittenInv, Position
<1>4. UnservedInv
  BY DEF Init, UnservedInv, Unserved
<1> QED BY <1>2, <1>3, <1>4 DEF IInv

(* Every step keeps the types, and postEvent its attempts.                 *)
LEMMA TypeStep ==
  TypeOK /\ TriesLeft /\ [Next]_vars => TypeOK' /\ TriesLeft'
<1> SUFFICES ASSUME TypeOK, TriesLeft, [Next]_vars
             PROVE  TypeOK' /\ TriesLeft'
  OBVIOUS
<1> USE DEF TypeOK, TriesLeft, ring, kernelVars, daemonVars
<1>1. CASE PostEvent
  BY <1>1, MaxTriesAssumption DEF PostEvent
<1>2. CASE Enqueue
  BY <1>2 DEF Enqueue
<1>3. CASE Publish
  BY <1>3, RingStep DEF Publish
<1>4. CASE Notify
  BY <1>4 DEF Notify
<1>5. CASE DropOldest
  BY <1>5 DEF DropOldest
<1>6. CASE DropDone
  BY <1>6, RingStep, MaxTriesAssumption DEF DropDone
<1>7. CASE Receive
  BY <1>7 DEF Receive
<1>8. CASE ReceiveTimeout
  BY <1>8 DEF ReceiveTimeout
<1>9. CASE DataAvailable
  BY <1>9 DEF DataAvailable
<1>10. CASE Load
  BY <1>10 DEF Load
<1>11. CASE Store
  BY <1>11, RingStep DEF Store
<1>12. CASE StartSync
  BY <1>12 DEF StartSync
<1>13. CASE UNCHANGED vars
  BY <1>13 DEF vars
<1> QED BY <1>1, <1>2, <1>3, <1>4, <1>5, <1>6, <1>7, <1>8, <1>9, <1>10,
           <1>11, <1>12, <1>13 DEF Next, Kernel, Daemon

(* Only Publish writes an entry, at tail; it is the store of tail that     *)
(* follows which lets a head come after it.                                *)
LEMMA WrittenStep ==
  TypeOK /\ WrittenInv /\ [Next]_vars => WrittenInv'
<1> SUFFICES ASSUME TypeOK, WrittenInv, [Next]_vars
             PROVE  WrittenInv'
  OBVIOUS
<1> USE DEF TypeOK, WrittenInv, ring, kernelVars, daemonVars
<1>1. CASE PostEvent
  BY <1>1 DEF PostEvent
<1>2. CASE Enqueue
  BY <1>2 DEF Enqueue
<1>3. CASE Publish
  <2>1. CASE tail = Slots - 1
    BY <1>3, <2>1, SlotsAssumption DEF Publish, Position
  <2>2. CASE tail # Slots - 1
    BY <1>3, <2>2, SlotsAssumption DEF Publish, Position, After
  <2> QED BY <2>1, <2>2
<1>4. CASE Notify
  BY <1>4 DEF Notify
<1>5. CASE DropOldest
  BY <1>5, SlotsAssumption DEF DropOldest, Empty, Position
<1>6. CASE DropDone
  BY <1>6, SlotsAssumption DEF DropDone, Position, After
<1>7. CASE Receive
  BY <1>7 DEF Receive
<1>8. CASE ReceiveTimeout
  BY <1>8 DEF ReceiveTimeout
<1>9. CASE DataAvailable
  BY <1>9 DEF DataAvailable
<1>10. CASE Load
  BY <1>10, SlotsAssumption DEF Load, Empty, Position
<1>11. CASE Store
  BY <1>11, SlotsAssumption DEF Store, Position, After
<1>12. CASE StartSync
  BY <1>12 DEF StartSync
<1>13. CASE UNCHANGED vars
  BY <1>13 DEF vars
<1> QED BY <1>1, <1>2, <1>3, <1>4, <1>5, <1>6, <1>7, <1>8, <1>9, <1>10,
           <1>11, <1>12, <1>13 DEF Next, Kernel, Daemon

LEMMA EntryIsWritten == TypeOK /\ WrittenInv => OnlyWrittenTaken
BY DEF TypeOK, WrittenInv, OnlyWrittenTaken

(* The step that matters for NoForgottenWake: a daemon store of head puts  *)
(* the daemon about to sync, and the sync serves every wake posted.        *)
LEMMA UnservedStep ==
  IInv /\ [Next]_vars => UnservedInv'
<1> SUFFICES ASSUME IInv, [Next]_vars
             PROVE  UnservedInv'
  OBVIOUS
<1> USE RingStep
    DEF IInv, TypeOK, UnservedInv, Unserved, AboutToSync, Empty, Full,
        ring, kernelVars, daemonVars
<1>1. CASE PostEvent
  BY <1>1 DEF PostEvent
<1>2. CASE Enqueue
  BY <1>2 DEF Enqueue
<1>3. CASE Publish
  BY <1>3 DEF Publish
<1>4. CASE Notify
  BY <1>4 DEF Notify
<1>5. CASE DropOldest
  BY <1>5 DEF DropOldest
<1>6. CASE DropDone
  BY <1>6 DEF DropDone
<1>7. CASE Receive
  BY <1>7 DEF Receive
<1>8. CASE ReceiveTimeout
  BY <1>8 DEF ReceiveTimeout
<1>9. CASE DataAvailable
  BY <1>9 DEF DataAvailable
<1>10. CASE Load
  BY <1>10 DEF Load
<1>11. CASE Store
  <2>1. written[dHead]
    BY <1>11, EntryIsWritten DEF Store, OnlyWrittenTaken
  <2> QED BY <1>11, <2>1 DEF Store
<1>12. CASE StartSync
  BY <1>12 DEF StartSync
<1>13. CASE UNCHANGED vars
  BY <1>13 DEF vars
<1> QED BY <1>1, <1>2, <1>3, <1>4, <1>5, <1>6, <1>7, <1>8, <1>9, <1>10,
           <1>11, <1>12, <1>13 DEF Next, Kernel, Daemon

-----------------------------------------------------------------------------
(* The strengthened invariant holds of every reachable state.              *)
THEOREM Invariance == Spec => []IInv
<1>1. IInv /\ [Next]_vars => IInv'
  BY TypeStep, WrittenStep, UnservedStep DEF IInv
<1> QED BY <1>1, InitInv, PTL DEF Spec

(* Every variable of the queue, of postEvent and of drain_queue keeps its  *)
(* type; in particular every head either side stores is a ring position.   *)
THEOREM TypeCorrect == Spec => []TypeOK
<1>1. IInv => TypeOK
  BY DEF IInv
<1> QED BY <1>1, Invariance, PTL

(* The daemon never takes a ring entry that nobody wrote (drain_queue).    *)
THEOREM TakesOnlyWritten == Spec => []OnlyWrittenTaken
<1>1. IInv => OnlyWrittenTaken
  BY EntryIsWritten DEF IInv
<1> QED BY <1>1, Invariance, PTL

(* Once postEvent has returned, an unserved wake has an entry in the ring  *)
(* or a daemon about to sync (postEvent, drain_queue).                     *)
THEOREM WakeIsRemembered == Spec => []NoForgottenWake
<1>1. IInv => NoForgottenWake
  BY DEF IInv, UnservedInv, NoForgottenWake
<1> QED BY <1>1, Invariance, PTL

(* Of all the steps, postEvent's first counts a wake and the start of sntp *)
(* serves all of them; what happens to the ring in between is no business  *)
(* of the promise.                                                         *)
LEMMA WhoCounts ==
  ASSUME [Next]_vars
  PROVE  \/ PostEvent /\ Promise!Wake
         \/ StartSync /\ Promise!Sync
         \/ posted' = posted /\ synced' = synced
<1>1. PostEvent => Promise!Wake
  BY DEF PostEvent, Promise!Wake
<1>2. StartSync => Promise!Sync
  BY DEF StartSync, Promise!Sync
<1>3. Enqueue \/ Publish \/ Notify \/ DropOldest \/ DropDone
        => posted' = posted /\ synced' = synced
  BY DEF Enqueue, Publish, Notify, DropOldest, DropDone
<1>4. Receive \/ ReceiveTimeout \/ DataAvailable \/ Load \/ Store
        => posted' = posted /\ synced' = synced
  BY DEF Receive, ReceiveTimeout, DataAvailable, Load, Store
<1> QED BY <1>1, <1>2, <1>3, <1>4 DEF Next, Kernel, Daemon, vars

(* Every step of the queue is a wake, a sync or a stutter of WakePromise:  *)
(* the safety part of KeepsPromise.  Its fairness part stays with TLC.     *)
THEOREM RefinesPromise == Spec => Promise!Safety
<1> USE DEF Promise!vars
<1>1. Init => Promise!Init
  BY DEF Init, Promise!Init
<1>2. [Next]_vars => [Promise!Next]_(Promise!vars)
  BY WhoCounts DEF Promise!Next
<1> QED BY <1>1, <1>2, PTL DEF Spec, Promise!Safety

=============================================================================
