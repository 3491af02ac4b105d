------------------------------ MODULE WakeQueue ------------------------------
(***************************************************************************)
(* The wake-event queue of one WakeSyncUserClient: the kernel thread that  *)
(* runs postEvent, the message thread of WakeSyncd that drains the queue,  *)
(* and the IOSharedDataQueue ring and notification port they share.        *)
(*                                                                         *)
(* The ring has two consumers.  When it is full postEvent itself dequeues  *)
(* the oldest entry, with no lock against the daemon: both load head, and  *)
(* both later store head.  A late store can move head back (entries seen   *)
(* twice) or a full turn ahead of tail (a full ring that looks empty).     *)
(* The steps below are the loads and stores at which the two interleave.   *)
(*                                                                         *)
(* The event is always 1 (WakeSync.cpp:208), so an entry is modelled by    *)
(* whether it was ever written: memory never written reads as event 0.     *)
(***************************************************************************)
EXTENDS Naturals

CONSTANTS Slots,       \* positions of the ring; one of them always stays free
          MaxTries,    \* attempts of postEvent: 10 in the code
          MaxWakes     \* bound on the number of wakes of one behaviour

ASSUME SlotsAssumption == Slots \in Nat /\ Slots >= 3
ASSUME MaxTriesAssumption == MaxTries \in Nat \ {0}
ASSUME MaxWakesAssumption == MaxWakes \in Nat

VARIABLES
  head, tail,    \* the ring's indices, in memory shared by kernel and daemon
  written,       \* which ring positions hold an entry that was written
  note,          \* a message sits in the notification port (its queue limit is 1)
  k,             \* where the kernel thread is in postEvent
  tries,         \* postEvent's maxTries
  kHead,         \* the head the kernel loaded last
  d,             \* where the daemon's message thread is
  dHead,         \* the head the daemon loaded last
  posted,        \* history: number of wakes posted
  synced         \* history: posted when the latest sync started

ring       == <<head, tail, written>>
kernelVars == <<k, tries, kHead>>
daemonVars == <<d, dHead>>
vars == <<ring, note, kernelVars, daemonVars, posted, synced>>

Position == 0 .. Slots - 1
AfterNoWrap(i) == i + 1                              \* mutant of After
After(i) == IF i = Slots - 1 THEN 0 ELSE i + 1
Before(i) == IF i = 0 THEN Slots - 1 ELSE i - 1

Empty == head = tail
Full  == After(tail) = head

-----------------------------------------------------------------------------
Init ==
  /\ head = 0 /\ tail = 0
  /\ written = [i \in Position |-> FALSE]
  /\ note = FALSE
  /\ k = "idle" /\ tries = 0 /\ kHead = 0
  /\ d = "recv" /\ dHead = 0
  /\ posted = 0 /\ synced = 0

(* postEvent: entered once per wake, always from inside the command gate,  *)
(* so one call at a time.                                                  *)
PostEvent ==
  /\ k = "idle"
  /\ posted < MaxWakes
  /\ posted' = posted + 1
  /\ k' = "enqueue"
  /\ tries' = MaxTries
  /\ UNCHANGED <<ring, note, kHead, daemonVars, synced>>

EnqueueUnchecked ==                                  \* mutant of Enqueue
  /\ k = "enqueue"
  /\ kHead' = head
  /\ k' = "publish"
  /\ UNCHANGED <<ring, note, tries, daemonVars, posted, synced>>

(* Loads both indices; a full ring makes enqueue return false.             *)
Enqueue ==
  /\ k = "enqueue"
  /\ kHead' = head
  /\ k' = IF Full THEN "dequeue" ELSE "publish"
  /\ UNCHANGED <<ring, note, tries, daemonVars, posted, synced>>

PublishUnwritten ==                                  \* mutant of Publish
  /\ k = "publish"
  /\ tail' = After(tail)
  /\ k' = "notify"
  /\ UNCHANGED <<head, written, note, tries, kHead, daemonVars, posted, synced>>

(* Writes the entry, then makes it visible by storing tail.                *)
Publish ==
  /\ k = "publish"
  /\ written' = [written EXCEPT ![tail] = TRUE]
  /\ tail' = After(tail)
  /\ k' = "notify"
  /\ UNCHANGED <<head, note, tries, kHead, daemonVars, posted, synced>>

(* Announces an entry only if the ring was empty when enqueue looked, or   *)
(* is found to have been emptied up to the entry by now.  A message that   *)
(* finds the port full is dropped.  Then postEvent returns.                *)
Notify ==
  /\ k = "notify"
  /\ note' = (note \/ Before(tail) \in {kHead, head})
  /\ k' = "idle"
  /\ UNCHANGED <<ring, tries, kHead, daemonVars, posted, synced>>

(* enqueue failed: postEvent dequeues the oldest entry itself.  If there   *)
(* is none left to drop it gives up, and the new event is not queued.      *)
DropOldest ==
  /\ k = "dequeue"
  /\ kHead' = head
  /\ k' = IF Empty THEN "idle" ELSE "advance"
  /\ UNCHANGED <<ring, note, tries, daemonVars, posted, synced>>

DropDone ==
  /\ k = "advance"
  /\ head' = After(kHead)
  /\ tries' = tries - 1
  /\ k' = IF tries > 1 THEN "enqueue" ELSE "idle"
  /\ UNCHANGED <<tail, written, note, kHead, daemonVars, posted, synced>>

Kernel == Enqueue \/ Publish \/ Notify \/ DropOldest \/ DropDone

-----------------------------------------------------------------------------
(* msg_loop blocks in mach_msg until a message arrives ...                 *)
Receive ==
  /\ d = "recv"
  /\ note
  /\ note' = FALSE
  /\ d' = "check"
  /\ UNCHANGED <<ring, kernelVars, dHead, posted, synced>>

TimeoutIgnored ==                                    \* mutant of ReceiveTimeout
  /\ d = "recv"
  /\ ~note
  /\ UNCHANGED vars

(* ... or until the timeout (or an error of a live port), which also       *)
(* drains, as a backup for lost notifications.                             *)
ReceiveTimeout ==
  /\ d = "recv"
  /\ ~note
  /\ d' = "check"
  /\ UNCHANGED <<ring, note, kernelVars, dHead, posted, synced>>

(* drain_queue: while (IODataQueueDataAvailable) ...                       *)
DataAvailable ==
  /\ d = "check"
  /\ d' = IF Empty THEN "recv" ELSE "load"
  /\ UNCHANGED <<ring, note, kernelVars, dHead, posted, synced>>

(* IODataQueueDequeue loads the indices; an empty ring (the kernel may     *)
(* have dropped the entry meanwhile) is an error that ends the drain.      *)
Load ==
  /\ d = "load"
  /\ dHead' = head
  /\ d' = IF Empty THEN "recv" ELSE "store"
  /\ UNCHANGED <<ring, note, kernelVars, posted, synced>>

(* Copies the entry and stores head.  Only event 1 asks for a sync; an     *)
(* entry never written carries size 0, an error that ends the drain.       *)
Store ==
  /\ d = "store"
  /\ head' = After(dHead)
  /\ d' = IF written[dHead] THEN "sync" ELSE "recv"
  /\ UNCHANGED <<tail, written, note, kernelVars, dHead, posted, synced>>

(* system(sntp) starts: it serves every wake posted up to now.             *)
StartSync ==
  /\ d = "sync"
  /\ synced' = posted
  /\ d' = "check"
  /\ UNCHANGED <<ring, note, kernelVars, dHead, posted>>

Daemon == Receive \/ ReceiveTimeout \/ DataAvailable \/ Load \/ Store \/ StartSync

Next == PostEvent \/ Kernel \/ Daemon

(* postEvent runs to its end once entered, and the message thread is never *)
(* stopped for good: a blocked mach_msg returns at the latest after its    *)
(* timeout, and sntp comes back.  Nothing forces the machine to wake.      *)
Fairness == WF_vars(Kernel) /\ WF_vars(Daemon)

Spec == Init /\ [][Next]_vars /\ Fairness

-----------------------------------------------------------------------------
(* Every variable keeps to its type: the indices stay in the ring whatever *)
(* the two consumers store (IOSharedDataQueue, drain_queue).               *)
TypeOK ==
  /\ head \in Position /\ tail \in Position
  /\ written \in [Position -> BOOLEAN]
  /\ note \in BOOLEAN
  /\ k \in {"idle", "enqueue", "publish", "notify", "dequeue", "advance"}
  /\ tries \in 0 .. MaxTries /\ kHead \in Position
  /\ d \in {"recv", "check", "load", "store", "sync"} /\ dHead \in Position
  /\ posted \in Nat /\ synced \in 0 .. posted

(* The daemon holds an entry and has yet to start the sync it asks for.    *)
AboutToSync == d \in {"store", "sync"}

Unserved == synced < posted /\ ~AboutToSync

(* Once postEvent has returned, a wake that no sync has served yet is      *)
(* still remembered: an entry is in the ring, or the daemon is about to    *)
(* start a sync.  This although the event may have been given up, its      *)
(* entry dropped, and head overwritten by a late store (postEvent,         *)
(* drain_queue).                                                           *)
NoForgottenWake == k = "idle" /\ Unserved => ~Empty

(* The daemon never takes an entry that was not written, which it would    *)
(* read as no event and not sync for (drain_queue, size check).            *)
OnlyWrittenTaken == d = "store" => written[dHead]

(* Every wake is followed by a sync that starts after it.                  *)
Promise == INSTANCE WakePromise
KeepsPromise == Promise!Spec

=============================================================================
