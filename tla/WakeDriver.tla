------------------------------ MODULE WakeDriver ------------------------------
(***************************************************************************)
(* The WakeSync kernel driver: start and stop, the power-event handler and *)
(* the post-wake timer, the set of user clients, and the pass over that    *)
(* set which posts event 1 to each client after a wake.                    *)
(*                                                                         *)
(* Four kinds of thread run here.  The power-management thread arms the    *)
(* timer; the work loop runs the pass, inside the command gate; a process  *)
(* that opens the service runs newUserClient and one that closes it (or    *)
(* dies) has its client stopped; and termination runs stop.  Only the pass *)
(* holds the gate: the set is created, filled and flushed without it.      *)
(*                                                                         *)
(* A Client is one user client object, hence one open of the service.  Its *)
(* queue is modelled in WakeQueue; here it is only live or released.       *)
(***************************************************************************)
EXTENDS Naturals, Sequences, SequencesExt

CONSTANTS Clients,     \* the user client objects
          MaxWakes     \* bound on the number of wakes of one behaviour

ASSUME MaxWakesAssumption == MaxWakes \in Nat

VARIABLES
  drv,         \* life of the driver object, and where stop() is
  timer,       \* postWakeTimer: is the object there, and is it on the work loop
  armed,       \* its timeout is set
  notifier,    \* powerNotifier is registered
  gate,        \* commandGate and workLoop are there
  made,        \* _userClients was allocated
  members,     \* _userClients, in order of insertion
  uc,          \* the life of each user client, and where its newUserClient is
  queue,       \* its fQueue is there
  pm,          \* where the power-management thread is in schedulePostWakeSync
  w,           \* where the work loop is in the pass
  list,        \* the set the latest pass walks, as it was when the pass began
  at,          \* how many of them it has come to
  own,         \* that set is still the one _userClients points to
  stable,      \* that set has not changed since the pass began
  wakes,       \* history: wakes the power handler was told of
  announced,   \* history: wakes that precede the latest pass
  told         \* history: the clients posted to by the latest pass

timerVars == <<timer, armed, notifier, gate>>
setVars   == <<made, members>>
ucVars    == <<uc, queue>>
passVars  == <<w, list, at, own, stable, announced, told>>
vars == <<drv, timerVars, setVars, ucVars, pm, passVars, wakes>>

Attached == {"insert", "connected"}
Running  == drv # "panic"

Init ==
  /\ drv = "down"
  /\ timer = "none" /\ armed = FALSE /\ notifier = FALSE /\ gate = FALSE
  /\ made = FALSE /\ members = <<>>
  /\ uc = [c \in Clients |-> "new"]
  /\ queue = [c \in Clients |-> FALSE]
  /\ pm = "idle"
  /\ w = "idle" /\ list = <<>> /\ at = 0 /\ own = TRUE /\ stable = TRUE
  /\ wakes = 0 /\ announced = 0 /\ told = {}

-----------------------------------------------------------------------------
(* start: the interest in power events may fail to register and the driver *)
(* starts all the same.  The work loop, gate or timer may fail and start   *)
(* returns false, leaving whatever it made.                                *)
Start ==
  /\ drv = "down"
  /\ drv' = "up"
  /\ gate' = TRUE
  /\ timer' = "attached"
  /\ notifier' \in BOOLEAN
  /\ UNCHANGED <<armed, setVars, ucVars, pm, passVars, wakes>>

StartFails ==
  /\ drv = "down"
  /\ drv' = "failed"
  /\ \/ gate' = FALSE /\ UNCHANGED timer
     \/ gate' = TRUE /\ timer' \in {"none", "detached"}
  /\ UNCHANGED <<armed, notifier, setVars, ucVars, pm, passVars, wakes>>

(* powerEventHandler, kIOMessageSystemHasPoweredOn.  The other messages    *)
(* change nothing.  schedulePostWakeSync looks at postWakeTimer once, and  *)
(* then uses it twice.                                                     *)
PoweredOn ==
  /\ Running
  /\ notifier /\ pm = "idle"
  /\ wakes < MaxWakes
  /\ wakes' = wakes + 1
  /\ pm' = IF timer = "none" THEN "idle" ELSE "cancel"
  /\ UNCHANGED <<drv, timerVars, setVars, ucVars, passVars>>

CancelTimeout ==
  /\ Running
  /\ pm = "cancel" /\ timer # "none"
  /\ armed' = FALSE
  /\ pm' = "set"
  /\ UNCHANGED <<drv, timer, notifier, gate, setVars, ucVars, passVars, wakes>>

SetThenCancel ==                                     \* mutant of SetTimeout
  /\ Running
  /\ pm = "set" /\ timer # "none"
  /\ armed' = FALSE
  /\ pm' = "idle"
  /\ UNCHANGED <<drv, timer, notifier, gate, setVars, ucVars, passVars, wakes>>

SetTimeout ==
  /\ Running
  /\ pm = "set" /\ timer # "none"
  /\ armed' = (timer = "attached")
  /\ pm' = "idle"
  /\ UNCHANGED <<drv, timer, notifier, gate, setVars, ucVars, passVars, wakes>>

(* stop released the timer between the look and the use.  The call reads   *)
(* a null or a freed pointer: nothing happens, or the machine panics.      *)
UseReleasedTimer ==
  /\ Running
  /\ pm \in {"cancel", "set"} /\ timer = "none"
  /\ pm' = "idle"
  /\ drv' \in {drv, "panic"}
  /\ UNCHANGED <<timerVars, setVars, ucVars, passVars, wakes>>

PowerThread == CancelTimeout \/ SetTimeout \/ UseReleasedTimer

-----------------------------------------------------------------------------
(* newUserClient of client c, step by step.                                *)
OpenService(c) ==
  /\ drv = "up" /\ uc[c] = "new"
  /\ uc' = [uc EXCEPT ![c] = "null?"]
  /\ UNCHANGED <<drv, timerVars, setVars, queue, pm, passVars, wakes>>

LookForSet(c) ==
  /\ Running
  /\ uc[c] = "null?"
  /\ uc' = [uc EXCEPT ![c] = IF made THEN "attach" ELSE "create"]
  /\ UNCHANGED <<drv, timerVars, setVars, queue, pm, passVars, wakes>>

(* The pointer is overwritten, whatever it holds by now.  A pass under way *)
(* keeps walking the set it began with.                                    *)
CreateSet(c) ==
  /\ Running
  /\ uc[c] = "create"
  /\ made' = TRUE
  /\ members' = <<>>
  /\ own' = FALSE
  /\ uc' = [uc EXCEPT ![c] = "attach"]
  /\ UNCHANGED <<drv, timerVars, queue, pm, w, list, at, stable, announced, told, wakes>>

(* initWithTask, attach and start; attach fails under a driver that is     *)
(* being terminated, start when the queue cannot be made.                  *)
AttachClient(c) ==
  /\ Running
  /\ uc[c] = "attach"
  /\ \/ /\ drv = "up"
        /\ uc' = [uc EXCEPT ![c] = "insert"]
        /\ queue' = [queue EXCEPT ![c] = TRUE]
     \/ /\ uc' = [uc EXCEPT ![c] = "refused"]
        /\ UNCHANGED queue
  /\ UNCHANGED <<drv, timerVars, setVars, pm, passVars, wakes>>

(* setObject: the change invalidates an iterator that is under way.  The   *)
(* client may have been stopped by a termination meanwhile.                *)
InsertClient(c) ==
  /\ Running
  /\ uc[c] \in {"insert", "insertStopped"}
  /\ members' = Append(members, c)
  /\ stable' = (stable /\ ~own)
  /\ uc' = [uc EXCEPT ![c] = IF @ = "insert" THEN "connected" ELSE "stopped"]
  /\ UNCHANGED <<drv, timerVars, made, queue, pm, w, list, at, own, announced, told, wakes>>

(* clientClose, which clientDied calls too: terminate() only asks for the  *)
(* client's stop.  The set keeps the client.                               *)
CloseClient(c) ==
  /\ Running
  /\ uc[c] = "connected"
  /\ uc' = [uc EXCEPT ![c] = "closing"]
  /\ UNCHANGED <<drv, timerVars, setVars, queue, pm, passVars, wakes>>

(* WakeSyncUserClient::stop, on a thread of its own: after a close, or     *)
(* because the driver is being terminated.                                 *)
StopClient(c) ==
  /\ Running
  /\ \/ uc[c] = "closing"
     \/ drv = "terminate" /\ uc[c] \in Attached
  /\ queue' = [queue EXCEPT ![c] = FALSE]
  /\ uc' = [uc EXCEPT ![c] = IF @ = "insert" THEN "insertStopped" ELSE "stopped"]
  /\ UNCHANGED <<drv, timerVars, setVars, pm, passVars, wakes>>

NewUserClient(c) == LookForSet(c) \/ CreateSet(c) \/ AttachClient(c) \/ InsertClient(c)

-----------------------------------------------------------------------------
(* postWakeTimerFired and, in the gate, performTimeSyncGated and           *)
(* LymosTimeSync_Perform: a pass begins, up to its first getNextObject,    *)
(* which latches the set's update stamp.                                   *)
TimerFires ==
  /\ Running
  /\ w = "idle" /\ timer = "attached" /\ armed
  /\ armed' = FALSE
  /\ announced' = wakes
  /\ told' = {}
  /\ list' = members /\ own' = TRUE /\ stable' = TRUE
  /\ IF members = <<>> THEN w' = "idle" /\ at' = 0
                       ELSE w' = "look" /\ at' = 1
  /\ UNCHANGED <<drv, timer, notifier, gate, setVars, ucVars, pm, wakes>>

(* postEvent of the client the pass has come to: nothing is done if its    *)
(* fQueue is null.                                                         *)
LookAtQueue ==
  /\ Running
  /\ w = "look"
  /\ w' = IF queue[list[at]] THEN "post" ELSE "next"
  /\ UNCHANGED <<drv, timerVars, setVars, ucVars, pm, list, at, own, stable,
                 announced, told, wakes>>

(* Then the event is queued (WakeQueue has the detail).  If the client was *)
(* stopped after the look, fQueue is null or freed when it is used:        *)
(* nothing happens, or the machine panics.                                 *)
PostToClient ==
  /\ Running
  /\ w = "post"
  /\ w' = "next"
  /\ IF queue[list[at]]
     THEN told' = told \cup {list[at]} /\ UNCHANGED drv
     ELSE drv' \in {drv, "panic"} /\ UNCHANGED told
  /\ UNCHANGED <<timerVars, setVars, ucVars, pm, list, at, own, stable,
                 announced, wakes>>

NextOnlyOnce ==                                      \* mutant of NextClient
  /\ Running
  /\ w = "next"
  /\ w' = "idle" /\ UNCHANGED at
  /\ UNCHANGED <<drv, timerVars, setVars, ucVars, pm, list, own, stable,
                 announced, told, wakes>>

NextOneTooMany ==                                    \* mutant of NextClient
  /\ Running
  /\ w = "next"
  /\ IF stable /\ at <= Len(list) THEN w' = "look" /\ at' = at + 1
                                  ELSE w' = "idle" /\ UNCHANGED at
  /\ UNCHANGED <<drv, timerVars, setVars, ucVars, pm, list, own, stable,
                 announced, told, wakes>>

(* getNextObject: null at the end of the set, and as soon as the set has   *)
(* changed since the stamp was latched.                                    *)
NextClient ==
  /\ Running
  /\ w = "next"
  /\ IF stable /\ at < Len(list) THEN w' = "look" /\ at' = at + 1
                                 ELSE w' = "idle" /\ UNCHANGED at
  /\ UNCHANGED <<drv, timerVars, setVars, ucVars, pm, list, own, stable,
                 announced, told, wakes>>

Pass == LookAtQueue \/ PostToClient \/ NextClient

-----------------------------------------------------------------------------
(* Termination of the driver: the framework stops the attached clients,    *)
(* and calls stop() when none is left.                                     *)
Terminate ==
  /\ drv = "up"
  /\ drv' = "terminate"
  /\ UNCHANGED <<timerVars, setVars, ucVars, pm, passVars, wakes>>

StopCancelsTimer ==
  /\ drv = "terminate"
  /\ \A c \in Clients : uc[c] \notin Attached \cup {"closing"}
  /\ drv' = "cancelled"
  /\ armed' = FALSE
  /\ UNCHANGED <<timer, notifier, gate, setVars, ucVars, pm, passVars, wakes>>

StopSkipsRemoval ==                                  \* mutant of StopRemovesTimer
  /\ drv = "cancelled"
  /\ drv' = "removed"
  /\ UNCHANGED <<timerVars, setVars, ucVars, pm, passVars, wakes>>

(* removeEventSource runs under the work loop's gate, so between passes.   *)
StopRemovesTimer ==
  /\ drv = "cancelled" /\ w = "idle"
  /\ drv' = "removed"
  /\ timer' = "detached" /\ armed' = FALSE
  /\ UNCHANGED <<notifier, gate, setVars, ucVars, pm, passVars, wakes>>

StopReleasesTimer ==
  /\ drv = "removed"
  /\ drv' = "released"
  /\ timer' = "none"
  /\ UNCHANGED <<armed, notifier, gate, setVars, ucVars, pm, passVars, wakes>>

(* IONotifier::remove waits for a handler that is running.                 *)
StopRemovesNotifier ==
  /\ drv = "released" /\ pm = "idle"
  /\ drv' = "silent"
  /\ notifier' = FALSE
  /\ UNCHANGED <<timer, armed, gate, setVars, ucVars, pm, passVars, wakes>>

(* Every client in the set is released once by hand and once more by       *)
(* flushCollection, though the set retained it once: with a client in the  *)
(* set the second release may hit a freed object.                          *)
StopFlushesSet ==
  /\ drv = "silent"
  /\ drv' \in IF members = <<>> THEN {"flushed"} ELSE {"flushed", "panic"}
  /\ members' = <<>>
  /\ UNCHANGED <<timerVars, made, ucVars, pm, passVars, wakes>>

StopReleasesGate ==
  /\ drv = "flushed"
  /\ drv' = "stopped"
  /\ gate' = FALSE
  /\ UNCHANGED <<timer, armed, notifier, setVars, ucVars, pm, passVars, wakes>>

Stop == \/ StopCancelsTimer \/ StopRemovesTimer \/ StopReleasesTimer
        \/ StopRemovesNotifier \/ StopFlushesSet \/ StopReleasesGate

-----------------------------------------------------------------------------
Next ==
  \/ Start \/ StartFails \/ Terminate \/ Stop
  \/ PoweredOn \/ PowerThread
  \/ TimerFires \/ Pass
  \/ \E c \in Clients :
       OpenService(c) \/ NewUserClient(c) \/ CloseClient(c) \/ StopClient(c)

(* Threads that were started run on: an armed timer fires, a pass and a    *)
(* power handler run to their end, and so does a teardown.  Nobody has to  *)
(* wake the machine, open the service, close it or unload the driver.      *)
Fairness ==
  /\ WF_vars(PowerThread)
  /\ WF_vars(TimerFires)
  /\ WF_vars(Pass)
  /\ WF_vars(Stop)
  /\ \A c \in Clients : WF_vars(StopClient(c))

Spec == Init /\ [][Next]_vars /\ Fairness

-----------------------------------------------------------------------------
(* Every variable keeps to its type; the pass stays inside the set it      *)
(* walks (LymosTimeSync_Perform).                                          *)
TypeOK ==
  /\ drv \in {"down", "failed", "up", "terminate", "cancelled", "removed", "released",
              "silent", "flushed", "stopped", "panic"}
  /\ timer \in {"none", "detached", "attached"}
  /\ armed \in BOOLEAN /\ notifier \in BOOLEAN /\ gate \in BOOLEAN
  /\ made \in BOOLEAN /\ members \in Seq(Clients)
  /\ uc \in [Clients -> {"new", "null?", "create", "attach", "refused", "insert",
                         "connected", "closing", "insertStopped", "stopped"}]
  /\ queue \in [Clients -> BOOLEAN]
  /\ pm \in {"idle", "cancel", "set"}
  /\ w \in {"idle", "look", "post", "next"}
  /\ list \in Seq(Clients) /\ at \in 0 .. Len(list)
  /\ own \in BOOLEAN /\ stable \in BOOLEAN
  /\ wakes \in 0 .. MaxWakes /\ announced \in 0 .. wakes /\ told \subseteq Clients

(* While a pass runs, the gate it runs in and the timer that called it are *)
(* still there: stop() tears down in an order that a pass cannot outlive.  *)
GateOutlivesPass == w # "idle" => gate /\ timer = "attached"

(* A pass that nobody disturbed has posted to every client of the set that *)
(* still has its queue.  (LymosTimeSync_Perform; InsertClient disturbs.)   *)
UndisturbedPassReachesAll ==
  [][w # "idle" /\ w' = "idle" /\ stable
       => \A c \in ToSet(list) : queue[c] => c \in told]_vars

(* Every wake the power handler hears of is followed by a pass, however    *)
(* the handler and the timer interleave, unless the driver is terminated   *)
(* (schedulePostWakeSync, postWakeTimerFired).                             *)
WakesAreAnnounced ==
  \A n \in 1 .. MaxWakes : (drv = "up" /\ wakes >= n) ~> (announced >= n \/ drv # "up")

(* The set holds every connected user client (WakeSync.hpp line 33).       *)
HoldsAllConnected ==
  drv = "up" => \A c \in Clients : uc[c] = "connected" => c \in ToSet(members)

=============================================================================
