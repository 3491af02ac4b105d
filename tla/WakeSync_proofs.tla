--------------------------- MODULE WakeSync_proofs ---------------------------
(***************************************************************************)
(* Proofs about the daemon, about the driver, and about both together, for *)
(* any number of user clients, wakes, signals, failures, kills and         *)
(* restarts.                                                               *)
(*                                                                         *)
(* Each part keeps what is its own doing, whatever the other does: main    *)
(* acquires its handles in an order, and the exit handler joins the        *)
(* message thread before it gives them up; the driver tears down so that   *)
(* no pass outlives its gate.  Every step of the whole is a step of each   *)
(* part, so the whole keeps this too.  What needs both parts is that the   *)
(* client behind an open connection is connected, has its queue and is in  *)
(* the set, and that a wake which came while the daemon listened is at     *)
(* every moment on its way to a sync.                                      *)
(***************************************************************************)
EXTENDS WakeSync, TLAPS

-----------------------------------------------------------------------------
(* The daemon, whatever the driver answers.                                *)

(* The main thread acquires its handles in this order.                     *)
Acquires ==
  /\ m \in {"off", "find", "open", "opening", "dealloc"} => ~conn
  /\ m \in {"map", "alloc", "setport", "drain", "spawn", "loop", "enter", "pause"} => conn
  /\ m \in {"alloc", "setport", "drain", "spawn", "loop", "enter", "pause"} => mapped
  /\ m \in {"drain", "spawn", "loop", "enter", "pause"} => portSet

(* A message thread exists between its creation and the exit handler's     *)
(* join, and until it has left its loop nothing was given up.              *)
ThreadLives ==
  /\ t # "none" => m \in {"loop", "enter", "pause", "cleanup", "join"}
  /\ t \in {"check", "recv", "drain"} => conn /\ mapped /\ portSet

DaemonInv == Acquires /\ ThreadLives

LEMMA DaemonInit == Daemon!Init => DaemonInv
BY DEF Daemon!Init, DaemonInv, Acquires, ThreadLives

(* Start and exit of the main thread.                                      *)
LEMMA MainStep ==
  ASSUME DaemonInv,
         \/ Daemon!Launch \/ Daemon!Startup \/ Daemon!MainTakes
         \/ Daemon!Loop \/ Daemon!Pause \/ Daemon!Exit
  PROVE  DaemonInv'
<1> USE DEF DaemonInv, Acquires, ThreadLives
<1>1. CASE Daemon!Launch
  BY <1>1 DEF Daemon!Launch, Daemon!handles
<1>2. CASE Daemon!Startup
  <2>1. CASE Daemon!Find \/ Daemon!FindFails \/ Daemon!CallOpen
             \/ Daemon!Open \/ Daemon!OpenFails \/ Daemon!Map \/ Daemon!MapFails
    BY <2>1 DEF Daemon!Find, Daemon!FindFails, Daemon!CallOpen, Daemon!Open, Daemon!OpenFails,
                Daemon!Map, Daemon!MapFails, Daemon!Goes, Daemon!Fails, Daemon!handles
  <2>2. CASE Daemon!AllocPort \/ Daemon!AllocFails \/ Daemon!SetPort
             \/ Daemon!SetPortFails \/ Daemon!MainDrained \/ Daemon!SpawnFails
    BY <2>2 DEF Daemon!AllocPort, Daemon!AllocFails, Daemon!SetPort, Daemon!SetPortFails,
                Daemon!MainDrained, Daemon!SpawnFails, Daemon!Goes, Daemon!Fails,
                Daemon!handles
  <2>3. CASE Daemon!Spawn
    BY <2>3 DEF Daemon!Spawn, Daemon!handles
  <2> QED BY <1>2, <2>1, <2>2, <2>3 DEF Daemon!Startup
<1>3. CASE Daemon!MainTakes \/ Daemon!Loop \/ Daemon!Pause
  BY <1>3 DEF Daemon!MainTakes, Daemon!Loop, Daemon!Pause, Daemon!Goes, Daemon!handles
<1>4. CASE Daemon!Exit
  <2>1. CASE Daemon!Cleanup \/ Daemon!Join
    BY <2>1 DEF Daemon!Cleanup, Daemon!Join, Daemon!handles
  <2>2. CASE Daemon!Unmap \/ Daemon!Close \/ Daemon!Dealloc
    BY <2>2 DEF Daemon!Unmap, Daemon!Close, Daemon!Dealloc
  <2> QED BY <1>4, <2>1, <2>2 DEF Daemon!Exit
<1> QED BY <1>1, <1>2, <1>3, <1>4

(* The message thread, signals, and a kill.                                *)
LEMMA OtherStep ==
  ASSUME DaemonInv,
         Daemon!Thread \/ Daemon!ThreadTakes \/ Daemon!Signal \/ Daemon!Killed
  PROVE  DaemonInv'
<1> USE DEF DaemonInv, Acquires, ThreadLives
<1>1. CASE Daemon!Thread
  BY <1>1 DEF Daemon!Thread, Daemon!ThreadCheck, Daemon!ThreadWakes, Daemon!ThreadDrained,
              Daemon!handles
<1>2. CASE Daemon!ThreadTakes
  BY <1>2 DEF Daemon!ThreadTakes, Daemon!vars, Daemon!handles
<1>3. CASE Daemon!Signal
  BY <1>3 DEF Daemon!Signal, Daemon!handles
<1>4. CASE Daemon!Killed
  BY <1>4 DEF Daemon!Killed
<1> QED BY <1>1, <1>2, <1>3, <1>4

LEMMA DaemonStep == DaemonInv /\ [Daemon!Next]_Daemon!vars => DaemonInv'
<1> SUFFICES ASSUME DaemonInv, [Daemon!Next]_Daemon!vars PROVE DaemonInv'
  OBVIOUS
<1>1. CASE Daemon!Next
  BY <1>1, MainStep, OtherStep DEF Daemon!Next
<1>2. CASE UNCHANGED Daemon!vars
  BY <1>2 DEF DaemonInv, Acquires, ThreadLives, Daemon!vars, Daemon!handles
<1> QED BY <1>1, <1>2

(* The exit handler never takes the queue, the connection or the port from *)
(* under a thread that drains, whatever the driver answers and however     *)
(* often the process is told to stop, killed and restarted (cleanup joins  *)
(* the message thread first).                                              *)
THEOREM DrainsOnlyWhatItHolds == Daemon!Spec => []Daemon!DrainsWhatItHolds
<1>1. DaemonInv => Daemon!DrainsWhatItHolds
  BY DEF DaemonInv, Acquires, ThreadLives, Daemon!DrainsWhatItHolds
<1> QED BY <1>1, DaemonInit, DaemonStep, PTL DEF Daemon!Spec

-----------------------------------------------------------------------------
(* The driver, whatever opens and closes the service.  Neither of its      *)
(* properties is inductive.  GateOutlivesPass needs to know how far stop() *)
(* has come: once the timer is off the work loop it stays off, and only    *)
(* then is the gate released.  UndisturbedPassReachesAll speaks of the end *)
(* of a pass: what holds on the way is that the clients the pass has       *)
(* passed were told or have lost their queue, and that a client which is   *)
(* in the set gets no second queue.                                        *)
(* How far start() and stop() have come.                                   *)
LifeInv ==
  /\ drv = "down" => timer = "none"
  /\ drv \in {"removed", "released", "silent", "flushed", "stopped"} => timer # "attached"
  /\ timer = "attached" => gate

(* A pass is at a client of its list.                                      *)
AtInv == w # "idle" => at \in 1 .. Len(list)

Inserted == {"connected", "closing", "stopped"}

SetInv == /\ \A i \in 1 .. Len(members) : uc[members[i]] \in Inserted
          /\ \A i \in 1 .. Len(list) : uc[list[i]] \in Inserted

Served(i) == queue[list[i]] => list[i] \in told

PassInv ==
  /\ w \in {"look", "post"} => \A i \in 1 .. Len(list) : i < at => Served(i)
  /\ w = "next" => \A i \in 1 .. Len(list) : i <= at => Served(i)

DriverInv == /\ TypeOK /\ LifeInv /\ AtInv /\ GateOutlivesPass
             /\ SetInv /\ PassInv

-----------------------------------------------------------------------------
LEMMA EmptySet == <<>> \in Seq(Clients) /\ Len(<<>>) = 0
OBVIOUS

LEMMA DriverInit == Init => DriverInv
<1> SUFFICES ASSUME Init PROVE DriverInv
  OBVIOUS
<1>1. members \in Seq(Clients) /\ list \in Seq(Clients) /\ at \in 0 .. Len(list)
  BY EmptySet DEF Init
<1>2. wakes \in 0 .. MaxWakes /\ announced \in 0 .. wakes
  BY MaxWakesAssumption DEF Init
<1>3. uc \in [Clients -> {"new"}] /\ queue \in [Clients -> BOOLEAN]
  BY DEF Init
<1>4. TypeOK
  BY <1>1, <1>2, <1>3 DEF Init, TypeOK
<1>5. LifeInv /\ AtInv /\ GateOutlivesPass /\ PassInv
  BY DEF Init, LifeInv, AtInv, GateOutlivesPass, PassInv
<1>6. SetInv
  BY EmptySet DEF Init, SetInv
<1> QED BY <1>4, <1>5, <1>6 DEF DriverInv

(* The types of what start(), stop() and the power handler assign.         *)
LifeTypes ==
  /\ drv \in {"down", "failed", "up", "terminate", "cancelled", "removed", "released",
              "silent", "flushed", "stopped", "panic"}
  /\ timer \in {"none", "detached", "attached"}
  /\ armed \in BOOLEAN /\ notifier \in BOOLEAN /\ gate \in BOOLEAN
  /\ pm \in {"idle", "cancel", "set"}

(* The steps that leave the set, the clients and the pass alone.           *)
AwayFromSet == \/ Start \/ StartFails \/ Terminate
               \/ StopCancelsTimer \/ StopRemovesTimer
               \/ StopReleasesTimer
               \/ StopRemovesNotifier \/ StopReleasesGate
               \/ PoweredOn \/ PowerThread

LEMMA AwayStep ==
  ASSUME LifeTypes, AwayFromSet
  PROVE  LifeTypes' /\ UNCHANGED <<setVars, ucVars, passVars>>
<1> USE DEF LifeTypes, timerVars
<1>1. CASE Start
  BY <1>1 DEF Start
<1>2. CASE StartFails
  BY <1>2 DEF StartFails
<1>3. CASE Terminate
  BY <1>3 DEF Terminate
<1>4. CASE StopCancelsTimer
  BY <1>4 DEF StopCancelsTimer
<1>5. CASE StopRemovesTimer
  BY <1>5 DEF StopRemovesTimer
<1>6. CASE StopReleasesTimer \/ StopRemovesNotifier
  BY <1>6 DEF StopReleasesTimer, StopRemovesNotifier
<1>7. CASE StopReleasesGate
  BY <1>7 DEF StopReleasesGate
<1>8. CASE PoweredOn
  BY <1>8 DEF PoweredOn
<1>9. CASE CancelTimeout
  BY <1>9 DEF CancelTimeout
<1>10. CASE SetTimeout
  BY <1>10 DEF SetTimeout
<1>11. CASE UseReleasedTimer
  BY <1>11 DEF UseReleasedTimer
<1> QED BY <1>1, <1>2, <1>3, <1>4, <1>5, <1>6, <1>7, <1>8, <1>9, <1>10, <1>11
     DEF AwayFromSet, PowerThread

(* No other step than a wake counts one.                                   *)
LEMMA AwayWakes ==
  ASSUME AwayFromSet, MaxWakes \in Nat, wakes \in 0 .. MaxWakes, announced \in 0 .. wakes
  PROVE  wakes' \in 0 .. MaxWakes /\ announced' \in 0 .. wakes'
<1>1. announced' = announced
  BY DEF AwayFromSet, Start, StartFails, Terminate,
         StopCancelsTimer, StopRemovesTimer, StopReleasesTimer,
         StopRemovesNotifier, StopReleasesGate, PoweredOn,
         PowerThread, CancelTimeout, SetTimeout,
         UseReleasedTimer, passVars
<1>2. wakes' = wakes \/ (wakes < MaxWakes /\ wakes' = wakes + 1)
  BY DEF AwayFromSet, Start, StartFails, Terminate,
         StopCancelsTimer, StopRemovesTimer, StopReleasesTimer,
         StopRemovesNotifier, StopReleasesGate, PoweredOn,
         PowerThread, CancelTimeout, SetTimeout,
         UseReleasedTimer
<1> QED BY <1>1, <1>2

(* Every step keeps the types, and a pass at a client of its list.         *)
LEMMA DriverTypes ==
  TypeOK /\ AtInv /\ [Next]_vars => TypeOK' /\ AtInv'
<1> SUFFICES ASSUME TypeOK, AtInv, [Next]_vars
             PROVE  TypeOK' /\ AtInv'
  OBVIOUS
<1>1. CASE AwayFromSet
  <2>1. LifeTypes' /\ UNCHANGED <<setVars, ucVars, passVars>>
    BY <1>1, AwayStep DEF TypeOK, LifeTypes
  <2>2. wakes' \in 0 .. MaxWakes /\ announced' \in 0 .. wakes'
    BY <1>1, AwayWakes, MaxWakesAssumption DEF TypeOK
  <2>3. AtInv'
    BY <2>1 DEF AtInv, passVars
  <2> QED BY <2>1, <2>2, <2>3 DEF TypeOK, LifeTypes, setVars, ucVars,
                            passVars
<1> USE MaxWakesAssumption
    DEF TypeOK, AtInv, timerVars, setVars, ucVars,
        passVars
<1>2. CASE StopFlushesSet
  BY <1>2, EmptySet DEF StopFlushesSet
<1>3. CASE TimerFires
  <2>1. list' \in Seq(Clients) /\ at' \in 0 .. Len(list')
        /\ (w' # "idle" => at' \in 1 .. Len(list'))
    <3>1. CASE members = <<>>
      BY <1>3, <3>1, EmptySet DEF TimerFires
    <3>2. CASE members # <<>>
      <4>1. Len(members) \in Nat /\ Len(members) >= 1
        BY <3>2
      <4>2. list' = members /\ at' = 1
        BY <1>3, <3>2 DEF TimerFires
      <4> QED BY <4>1, <4>2
    <3> QED BY <3>1, <3>2
  <2>2. w' \in {"idle", "look"} /\ announced' \in 0 .. wakes'
    <3>1. wakes \in Nat
      BY MaxWakesAssumption
    <3>2. w' \in {"idle", "look"} /\ announced' = wakes /\ wakes' = wakes
      BY <1>3 DEF TimerFires
    <3> QED BY <3>1, <3>2
  <2> QED BY <1>3, <2>1, <2>2 DEF TimerFires
<1>4. CASE LookAtQueue
  BY <1>4 DEF LookAtQueue
<1>5. CASE PostToClient
  <2>1. list[at] \in Clients
    BY <1>5 DEF PostToClient
  <2> QED BY <1>5, <2>1 DEF PostToClient
<1>6. CASE NextClient
  <2>1. Len(list) \in Nat
    OBVIOUS
  <2>2. CASE stable /\ at < Len(list)
    BY <1>6, <2>1, <2>2 DEF NextClient
  <2>3. CASE ~(stable /\ at < Len(list))
    BY <1>6, <2>1, <2>3 DEF NextClient
  <2> QED BY <2>2, <2>3
<1>7. CASE \E c \in Clients : OpenService(c) \/ LookForSet(c)
  BY <1>7 DEF OpenService, LookForSet
<1>8. CASE \E c \in Clients : CreateSet(c)
  <2>1. PICK c \in Clients : CreateSet(c)
    BY <1>8
  <2>2. uc' = [uc EXCEPT ![c] = "attach"] /\ made' = TRUE /\ own' = FALSE /\ members' = <<>>
    BY <2>1 DEF CreateSet
  <2>3. members' \in Seq(Clients)
    BY <2>2, EmptySet
  <2>4. uc' \in [Clients -> {"new", "null?", "create", "attach", "refused", "insert",
                            "connected", "closing", "insertStopped", "stopped"}]
    BY <2>2
  <2>5. UNCHANGED <<drv, timer, armed, notifier, gate, queue, pm, w, list, at, stable,
                    announced, told, wakes>>
    BY <2>1 DEF CreateSet
  <2>6. at' \in 0 .. Len(list') /\ AtInv'
    BY <2>5
  <2>7. made' \in BOOLEAN /\ own' \in BOOLEAN
    BY <2>2
  <2> HIDE DEF AtInv
  <2> QED BY <2>3, <2>4, <2>5, <2>6, <2>7
<1>9. CASE \E c \in Clients : AttachClient(c)
  <2>1. uc' \in [Clients -> {"new", "null?", "create", "attach", "refused", "insert",
                            "connected", "closing", "insertStopped", "stopped"}]
    BY <1>9 DEF AttachClient
  <2>2. queue' \in [Clients -> BOOLEAN]
    BY <1>9 DEF AttachClient
  <2> QED BY <1>9, <2>1, <2>2 DEF AttachClient
<1>10. CASE \E c \in Clients : InsertClient(c)
  BY <1>10 DEF InsertClient
<1>11. CASE \E c \in Clients : CloseClient(c)
  BY <1>11 DEF CloseClient
<1>12. CASE \E c \in Clients : StopClient(c)
  BY <1>12 DEF StopClient
<1>13. CASE UNCHANGED vars
  BY <1>13 DEF vars
<1> QED BY <1>1, <1>2, <1>3, <1>4, <1>5, <1>6, <1>7, <1>8, <1>9, <1>10, <1>11,
     <1>12, <1>13
     DEF Next, Stop, AwayFromSet, Pass, NewUserClient

(* How far stop() has come is a matter of drv, timer and gate; the pass    *)
(* begins when the timer is on the work loop, and stop() takes it off and  *)
(* releases the gate only when no pass runs.                               *)
LEMMA LifeStep ==
  TypeOK /\ LifeInv /\ GateOutlivesPass /\ [Next]_vars
  => LifeInv' /\ GateOutlivesPass'
<1> SUFFICES ASSUME TypeOK, LifeInv, GateOutlivesPass, [Next]_vars
             PROVE  LifeInv' /\ GateOutlivesPass'
  OBVIOUS
<1> USE DEF LifeInv, GateOutlivesPass, timerVars, setVars,
            ucVars, passVars
<1>1. CASE Start
  BY <1>1 DEF Start
<1>2. CASE StartFails
  BY <1>2 DEF StartFails
<1>3. CASE Terminate
  BY <1>3 DEF Terminate
<1>4. CASE StopCancelsTimer
  BY <1>4 DEF StopCancelsTimer
<1>5. CASE StopRemovesTimer
  BY <1>5 DEF StopRemovesTimer
<1>6. CASE StopReleasesTimer
  BY <1>6 DEF StopReleasesTimer
<1>7. CASE StopRemovesNotifier
  BY <1>7 DEF StopRemovesNotifier
<1>8. CASE StopFlushesSet
  BY <1>8 DEF StopFlushesSet
<1>9. CASE StopReleasesGate
  BY <1>9 DEF StopReleasesGate
<1>10. CASE PoweredOn
  BY <1>10 DEF PoweredOn
<1>11. CASE PowerThread
  BY <1>11 DEF PowerThread, CancelTimeout, SetTimeout,
               UseReleasedTimer
<1>12. CASE TimerFires
  BY <1>12 DEF TimerFires
<1>13. CASE Pass
  BY <1>13 DEF Pass, LookAtQueue, PostToClient, NextClient
<1>14. CASE \E c \in Clients :
              \/ OpenService(c) \/ NewUserClient(c)
              \/ CloseClient(c) \/ StopClient(c)
  BY <1>14 DEF OpenService, NewUserClient, LookForSet,
               CreateSet, AttachClient, InsertClient,
               CloseClient, StopClient
<1>15. CASE UNCHANGED vars
  BY <1>15 DEF vars
<1> QED BY <1>1, <1>2, <1>3, <1>4, <1>5, <1>6, <1>7, <1>8, <1>9, <1>10, <1>11, <1>12,
     <1>13, <1>14, <1>15 DEF Next, Stop

(* Once in the set a client stays past its insertion, whatever happens to  *)
(* it; so the set, and the list a pass took from it, hold only such.       *)
LEMMA SetStep ==
  TypeOK /\ SetInv /\ [Next]_vars => SetInv'
<1> SUFFICES ASSUME TypeOK, SetInv, [Next]_vars PROVE SetInv'
  OBVIOUS
<1> USE DEF TypeOK, SetInv, Inserted, timerVars, setVars,
            ucVars, passVars
<1>1. CASE UNCHANGED <<members, list, uc>>
  BY <1>1
<1>2. CASE TimerFires
  <2>1. list' = members /\ UNCHANGED <<members, uc>>
    BY <1>2 DEF TimerFires
  <2> QED BY <2>1 DEF SetInv
<1>3. CASE StopFlushesSet
  BY <1>3, EmptySet DEF StopFlushesSet
<1>4. CASE \E c \in Clients :
              OpenService(c) \/ LookForSet(c) \/ AttachClient(c)
  <2>1. PICK c \in Clients :
              OpenService(c) \/ LookForSet(c) \/ AttachClient(c)
    BY <1>4
  <2>2. /\ members' = members /\ list' = list
        /\ uc[c] \notin Inserted /\ \A b \in Clients \ {c} : uc'[b] = uc[b]
    BY <2>1 DEF OpenService, LookForSet, AttachClient
  <2>3. /\ \A i \in 1 .. Len(list) : list[i] \in Clients \ {c}
        /\ \A i \in 1 .. Len(members) : members[i] \in Clients \ {c}
    BY <2>2
  <2> QED BY <2>2, <2>3
<1>5. CASE \E c \in Clients : CreateSet(c)
  <2>1. PICK c \in Clients : CreateSet(c)
    BY <1>5
  <2>2. /\ members' = <<>> /\ list' = list
        /\ uc[c] = "create" /\ \A b \in Clients \ {c} : uc'[b] = uc[b]
    BY <2>1 DEF CreateSet
  <2>3. \A i \in 1 .. Len(list) : list[i] \in Clients \ {c}
    BY <2>2
  <2>4. \A i \in 1 .. Len(list') : uc'[list'[i]] \in Inserted
    BY <2>2, <2>3
  <2>5. \A i \in 1 .. Len(members') : uc'[members'[i]] \in Inserted
    BY <2>2, EmptySet
  <2> QED BY <2>4, <2>5
<1>6. CASE \E c \in Clients : InsertClient(c)
  <2>1. PICK c \in Clients : InsertClient(c)
    BY <1>6
  <2>2. /\ members' = Append(members, c) /\ list' = list
        /\ uc'[c] \in Inserted /\ \A b \in Clients \ {c} : uc'[b] = uc[b]
    BY <2>1 DEF InsertClient
  <2>3. \A i \in 1 .. Len(list') : uc'[list'[i]] \in Inserted
    BY <2>2
  <2>4. \A i \in 1 .. Len(members') : uc'[members'[i]] \in Inserted
    BY <2>2
  <2> QED BY <2>3, <2>4
<1>7. CASE \E c \in Clients : CloseClient(c) \/ StopClient(c)
  <2>1. PICK c \in Clients : CloseClient(c) \/ StopClient(c)
    BY <1>7
  <2>2. /\ UNCHANGED <<members, list>> /\ \A b \in Clients \ {c} : uc'[b] = uc[b]
        /\ uc'[c] \in Inserted \/ uc[c] \notin Inserted
    BY <2>1 DEF CloseClient, StopClient, Attached
  <2>3. \A b \in Clients : uc[b] \in Inserted => uc'[b] \in Inserted
    BY <2>2
  <2> QED BY <2>2, <2>3
<1> QED BY <1>1, <1>2, <1>3, <1>4, <1>5, <1>6, <1>7
     DEF Next, Start, StartFails, Terminate, Stop,
         StopCancelsTimer, StopRemovesTimer, StopReleasesTimer,
         StopRemovesNotifier, StopReleasesGate, PoweredOn,
         PowerThread, CancelTimeout, SetTimeout,
         UseReleasedTimer, Pass, LookAtQueue, PostToClient,
         NextClient, NewUserClient, vars

(* A client of the list keeps no queue it did not have: attach, which      *)
(* makes one, comes before the insertion.                                  *)
LEMMA NoSecondQueue ==
  ASSUME TypeOK, SetInv, [Next]_vars,
         NEW i \in 1 .. Len(list), list' = list, queue'[list[i]]
  PROVE  queue[list[i]]
<1> USE DEF TypeOK, SetInv, Inserted, timerVars, setVars,
            ucVars, passVars
<1>1. CASE UNCHANGED queue
  BY <1>1
<1>2. CASE \E c \in Clients : AttachClient(c)
  BY <1>2 DEF AttachClient
<1>3. CASE \E c \in Clients : StopClient(c)
  BY <1>3 DEF StopClient
<1> QED BY <1>1, <1>2, <1>3 DEF Next, Start, StartFails,
                          Terminate, Stop, StopCancelsTimer,
                          StopRemovesTimer, StopReleasesTimer,
                          StopRemovesNotifier, StopFlushesSet,
                          StopReleasesGate, PoweredOn, PowerThread,
                          CancelTimeout, SetTimeout,
                          UseReleasedTimer, TimerFires, Pass,
                          LookAtQueue, PostToClient, NextClient,
                          OpenService, NewUserClient, LookForSet,
                          CreateSet, InsertClient, CloseClient,
                          vars

(* The clients the pass has passed stay served, and it passes one only     *)
(* after posting to it or finding it without a queue.                      *)
LEMMA PassStep ==
  TypeOK /\ SetInv /\ AtInv /\ PassInv /\ [Next]_vars => PassInv'
<1> SUFFICES ASSUME TypeOK, SetInv, AtInv, PassInv, [Next]_vars
             PROVE  PassInv'
  OBVIOUS
<1>1. list' = list => \A i \in 1 .. Len(list) : queue'[list[i]] => queue[list[i]]
  BY NoSecondQueue
<1> USE DEF TypeOK, AtInv, PassInv, Served, ucVars
<1>2. CASE UNCHANGED <<w, list, at, told>>
  BY <1>1, <1>2
<1>3. CASE TimerFires
  BY <1>3 DEF TimerFires
<1>4. CASE LookAtQueue
  BY <1>1, <1>4 DEF LookAtQueue
<1>5. CASE PostToClient
  <2>1. told \subseteq told' /\ (queue[list[at]] => list[at] \in told')
    BY <1>5 DEF PostToClient
  <2>2. UNCHANGED <<list, at, queue>> /\ w = "post" /\ w' = "next"
    BY <1>5 DEF PostToClient
  <2> QED BY <2>1, <2>2
<1>6. CASE NextClient
  <2>1. UNCHANGED <<list, told, queue>> /\ w = "next"
    BY <1>6 DEF NextClient
  <2>2. \/ w' = "look" /\ at' = at + 1
        \/ w' = "idle"
    BY <1>6 DEF NextClient
  <2>3. \A i \in 1 .. Len(list) : i <= at => Served(i)
    BY <2>1
  <2> QED BY <2>1, <2>2, <2>3
<1> QED BY <1>2, <1>3, <1>4, <1>5, <1>6
     DEF Next, Start, StartFails, Terminate, Stop,
         StopCancelsTimer, StopRemovesTimer, StopReleasesTimer,
         StopRemovesNotifier, StopFlushesSet, StopReleasesGate,
         PoweredOn, PowerThread, CancelTimeout, SetTimeout,
         UseReleasedTimer, Pass, OpenService, NewUserClient,
         LookForSet, CreateSet, AttachClient, InsertClient,
         CloseClient, StopClient, passVars, vars

-----------------------------------------------------------------------------
LEMMA DriverStep == DriverInv /\ [Next]_vars => DriverInv'
BY DriverTypes, LifeStep, SetStep, PassStep DEF DriverInv

(* The inductive invariant of the driver.                                  *)
THEOREM DriverInvariance == Spec => []DriverInv
BY DriverInit, DriverStep, PTL DEF Spec

(* Every variable of the driver keeps its type: the pass never comes past  *)
(* the end of its list (LymosTimeSync_Perform).                            *)
THEOREM DriverTypeCorrect == Spec => []TypeOK
<1>1. DriverInv => TypeOK
  BY DEF DriverInv
<1> QED BY DriverInvariance, <1>1, PTL

(* For any number of user clients and wakes, and however stop() comes in   *)
(* between: a pass never outlives the gate it runs in or the timer that    *)
(* called it (stop, postWakeTimerFired).                                   *)
THEOREM PassIsGated == Spec => []GateOutlivesPass
<1>1. DriverInv => GateOutlivesPass
  BY DEF DriverInv
<1> QED BY DriverInvariance, <1>1, PTL

(* A pass that ends with its set undisturbed has posted to every client of *)
(* the set that still has its queue (LymosTimeSync_Perform, postEvent).    *)
THEOREM PassReachesAll == Spec => UndisturbedPassReachesAll
<1>1. ASSUME DriverInv, [Next]_vars
      PROVE  [w # "idle" /\ w' = "idle" /\ stable
                => \A c \in ToSet(list) : queue[c] => c \in told]_vars
  <2> SUFFICES ASSUME w # "idle", w' = "idle", stable
               PROVE  \A c \in ToSet(list) : queue[c] => c \in told
    OBVIOUS
  <2>1. NextClient
    BY <1>1 DEF Next, Start, StartFails, Terminate,
                Stop, StopCancelsTimer, StopRemovesTimer,
                StopReleasesTimer, StopRemovesNotifier,
                StopFlushesSet, StopReleasesGate, PoweredOn,
                PowerThread, CancelTimeout, SetTimeout,
                UseReleasedTimer, TimerFires, Pass,
                LookAtQueue, PostToClient, OpenService,
                NewUserClient, LookForSet, CreateSet,
                AttachClient, InsertClient, CloseClient,
                StopClient, passVars, vars
  <2>2. w = "next" /\ ~(at < Len(list))
    BY <2>1 DEF NextClient
  <2>3. \A i \in 1 .. Len(list) : Served(i)
    BY <1>1, <2>2 DEF DriverInv, PassInv, TypeOK
  <2> QED BY <2>3 DEF ToSet, Served
<1> QED BY DriverInvariance, <1>1, PTL DEF Spec, UndisturbedPassReachesAll

-----------------------------------------------------------------------------
(* The connection: a client has no queue before it is attached, the client *)
(* that is being opened is on its way to be inserted, and the one behind   *)
(* an open connection is connected and has its queue.                      *)
NoQueueYet == {"new", "null?", "create", "attach", "refused"}

LinkInv ==
  /\ drv \in {"down", "failed", "up", "panic"}
  /\ \A c \in Clients : uc[c] \in NoQueueYet => ~queue[c]
  /\ m = "opening" => /\ client \in Clients
                      /\ uc[client] \in {"null?", "create", "attach", "insert"}
                      /\ uc[client] = "insert" => queue[client]
  /\ conn => client \in Clients /\ uc[client] = "connected" /\ queue[client]

ClientTypes ==
  /\ uc \in [Clients -> {"new", "null?", "create", "attach", "refused", "insert",
                         "connected", "closing", "insertStopped", "stopped"}]
  /\ queue \in [Clients -> BOOLEAN]

LEMMA LinkInit == SyncInit => LinkInv
BY DEF SyncInit, Init, Daemon!Init, LinkInv, NoQueueYet

(* Steps of one part that leave the clients alone.                         *)
LEMMA LinkOwnSteps ==
  ASSUME LinkInv, DaemonInv,
         \/ DriverStarts \/ Wake \/ PowerSteps \/ PassSteps \/ Launch
         \/ FindDriver \/ FindNoDriver \/ SetsUp \/ MainRuns \/ Drains \/ Signal
  PROVE  LinkInv'
<1> USE DEF LinkInv, timerVars, setVars, ucVars, passVars,
            driverVars, vars, daemonVars, between
<1>1. CASE DriverStarts
  BY <1>1 DEF DriverStarts, Start, StartFails
<1>2. CASE Wake
  BY <1>2 DEF Wake, PoweredOn
<1>3. CASE PowerSteps
  BY <1>3 DEF PowerSteps, PowerThread, CancelTimeout, SetTimeout,
              UseReleasedTimer
<1>4. CASE PassSteps
  BY <1>4 DEF PassSteps, PassRuns, Post, TimerFires, LookAtQueue,
              NextClient, PostToClient
<1>5. CASE Launch
  BY <1>5 DEF Launch, Daemon!Launch, Daemon!handles
<1>6. CASE FindDriver \/ FindNoDriver
  BY <1>6 DEF FindDriver, FindNoDriver, Daemon!Find, Daemon!FindFails, Daemon!Fails,
              Daemon!Goes, Daemon!handles
<1>7. CASE SetsUp
  BY <1>7 DEF SetsUp, Daemon!Map, Daemon!MapFails, Daemon!AllocPort, Daemon!AllocFails,
              Daemon!SetPort, Daemon!SetPortFails, Daemon!Spawn, Daemon!SpawnFails,
              Daemon!Fails, Daemon!Goes, Daemon!handles
<1>8. CASE MainRuns
  BY <1>8 DEF MainRuns, Daemon!Loop, Daemon!Pause, Daemon!Cleanup, Daemon!Join,
              Daemon!Unmap, Daemon!Dealloc, Daemon!Goes, Daemon!handles
<1>9. CASE Drains
  BY <1>9 DEF Drains, ThreadRuns, Take, Drained, Daemon!ThreadCheck, Daemon!ThreadWakes,
              Daemon!MainTakes, Daemon!ThreadTakes, Daemon!MainDrained,
              Daemon!ThreadDrained, Daemon!Goes, Daemon!handles, Daemon!vars
<1>10. CASE Signal
  BY <1>10 DEF Signal, Daemon!Signal, Daemon!handles
<1> QED BY <1>1, <1>2, <1>3, <1>4, <1>5, <1>6, <1>7, <1>8, <1>9, <1>10

(* Opening and closing, which both parts take part in, and the stop of a   *)
(* client, which comes after its close as long as the driver stays.        *)
LEMMA LinkSharedSteps ==
  ASSUME LinkInv, DaemonInv, ClientTypes,
         \/ \E c \in Clients : OpenDriver(c)
         \/ Opening \/ CloseDriver \/ Killed \/ ClientStops
  PROVE  LinkInv'
<1> USE DEF LinkInv, ClientTypes, NoQueueYet, DaemonInv, Acquires, timerVars,
            setVars, ucVars, passVars, driverVars, vars, daemonVars, between
<1>1. ASSUME NEW c \in Clients, OpenDriver(c)
      PROVE  LinkInv'
  BY <1>1 DEF OpenDriver, Daemon!CallOpen, Daemon!Goes, Daemon!handles, OpenService
<1>2. CASE InNewUserClient
  <2> PICK c \in Clients : \/ LookForSet(c) \/ CreateSet(c)
                           \/ AttachClient(c) /\ queue'[c]
    BY <1>2 DEF InNewUserClient
  <2> UNCHANGED <<daemonVars, between>>
    BY <1>2 DEF InNewUserClient
  <2>1. CASE LookForSet(c)
    BY <2>1 DEF LookForSet
  <2>2. CASE CreateSet(c)
    BY <2>2 DEF CreateSet
  <2>3. CASE AttachClient(c) /\ queue'[c]
    BY <2>3 DEF AttachClient
  <2> QED BY <2>1, <2>2, <2>3
<1>3. CASE Opened
  BY <1>3 DEF Opened, InsertClient, Daemon!Open, Daemon!Goes
<1>4. CASE Refused
  BY <1>4 DEF Refused, AttachClient, Daemon!OpenFails, Daemon!Fails, Daemon!Goes,
              Daemon!handles
<1>5. CASE CloseDriver
  BY <1>5 DEF CloseDriver, CloseClient, Daemon!Close
<1>6. CASE Killed
  BY <1>6 DEF Killed, CloseClient, Daemon!Killed
<1>7. CASE ClientStops
  BY <1>7 DEF ClientStops, StopClient
<1> QED BY <1>1, <1>2, <1>3, <1>4, <1>5, <1>6, <1>7 DEF Opening

-----------------------------------------------------------------------------
(* What a step is to each part.                                            *)
LEMMA DaemonPart == SyncNext => [Daemon!Next]_Daemon!vars
<1> SUFFICES ASSUME SyncNext PROVE [Daemon!Next]_Daemon!vars
  OBVIOUS
<1> USE DEF Daemon!vars, Daemon!handles, daemonVars, Daemon!Next, Daemon!Startup,
            Daemon!Exit, Daemon!Thread
<1>1. CASE DriverStarts \/ Wake \/ PowerSteps \/ PassSteps \/ ClientStops
  BY <1>1 DEF DriverStarts, Wake, PowerSteps, PassSteps, PassRuns, Post, ClientStops
<1>2. CASE Launch \/ (\E c \in Clients : OpenDriver(c)) \/ Opening
  BY <1>2 DEF Launch, OpenDriver, Opening, InNewUserClient, Opened, Refused
<1>3. CASE MainSteps
  BY <1>3 DEF MainSteps, FindDriver, FindNoDriver, SetsUp, MainRuns, CloseDriver
<1>4. CASE Drains
  BY <1>4 DEF Drains, ThreadRuns, Take, Drained
<1>5. CASE Signal \/ Killed
  BY <1>5 DEF Signal, Killed
<1> QED BY <1>1, <1>2, <1>3, <1>4, <1>5 DEF SyncNext

LEMMA DriverPart == LinkInv /\ SyncNext => [Next]_vars
<1> SUFFICES ASSUME LinkInv, SyncNext PROVE Next \/ UNCHANGED vars
  OBVIOUS
<1> USE DEF Next, driverVars
<1>1. CASE DriverStarts \/ Wake \/ PowerSteps \/ PassSteps
  BY <1>1 DEF DriverStarts, Wake, PowerSteps, PassSteps, PassRuns, Post, Pass
<1>2. CASE Launch \/ (\E c \in Clients : OpenDriver(c)) \/ Opening
  BY <1>2 DEF Launch, OpenDriver, Opening, InNewUserClient, Opened, Refused,
              NewUserClient, LinkInv
<1>3. CASE MainSteps \/ Killed
  BY <1>3 DEF MainSteps, FindDriver, FindNoDriver, SetsUp, MainRuns, CloseDriver, Killed,
              LinkInv
<1>4. CASE Drains \/ Signal
  BY <1>4 DEF Drains, ThreadRuns, Take, Drained, Signal
<1>5. CASE ClientStops
  BY <1>5 DEF ClientStops
<1> QED BY <1>1, <1>2, <1>3, <1>4, <1>5 DEF SyncNext

LEMMA DaemonTypes == Daemon!TypeOK /\ [Daemon!Next]_Daemon!vars => Daemon!TypeOK'
<1> SUFFICES ASSUME Daemon!TypeOK, [Daemon!Next]_Daemon!vars PROVE Daemon!TypeOK'
  OBVIOUS
<1> USE DEF Daemon!TypeOK, Daemon!handles
<1>1. CASE Daemon!Startup \/ Daemon!MainTakes \/ Daemon!Loop \/ Daemon!Pause
  <2> USE DEF Daemon!Goes, Daemon!Fails
  <2>1. CASE Daemon!Find \/ Daemon!FindFails \/ Daemon!CallOpen \/ Daemon!Open
             \/ Daemon!OpenFails
    BY <2>1 DEF Daemon!Find, Daemon!FindFails, Daemon!CallOpen, Daemon!Open,
                Daemon!OpenFails
  <2>2. CASE Daemon!Map \/ Daemon!MapFails \/ Daemon!AllocPort \/ Daemon!AllocFails
    BY <2>2 DEF Daemon!Map, Daemon!MapFails, Daemon!AllocPort, Daemon!AllocFails
  <2>3. CASE Daemon!SetPort \/ Daemon!SetPortFails \/ Daemon!MainDrained
    BY <2>3 DEF Daemon!SetPort, Daemon!SetPortFails, Daemon!MainDrained
  <2>4. CASE Daemon!Spawn \/ Daemon!SpawnFails
    BY <2>4 DEF Daemon!Spawn, Daemon!SpawnFails
  <2>5. CASE Daemon!MainTakes \/ Daemon!Loop \/ Daemon!Pause
    BY <2>5 DEF Daemon!MainTakes, Daemon!Loop, Daemon!Pause
  <2> QED BY <1>1, <2>1, <2>2, <2>3, <2>4, <2>5 DEF Daemon!Startup
<1>2. CASE Daemon!Launch \/ Daemon!Exit
  BY <1>2 DEF Daemon!Launch, Daemon!Exit, Daemon!Cleanup, Daemon!Join, Daemon!Unmap,
              Daemon!Close, Daemon!Dealloc
<1>3. CASE Daemon!Thread \/ Daemon!ThreadTakes \/ UNCHANGED Daemon!vars
  BY <1>3 DEF Daemon!Thread, Daemon!ThreadCheck, Daemon!ThreadWakes, Daemon!ThreadDrained,
              Daemon!ThreadTakes, Daemon!vars
<1>4. CASE Daemon!Signal
  <2>1. signals' \in 0 .. MaxSignals
    BY <1>4, MaxSignalsAssumption DEF Daemon!Signal
  <2> QED BY <1>4, <2>1 DEF Daemon!Signal
<1>5. CASE Daemon!Killed
  BY <1>5 DEF Daemon!Killed
<1> QED BY <1>1, <1>2, <1>3, <1>4, <1>5 DEF Daemon!Next

(* What lies between the parts.                                            *)
BetweenTypes ==
  /\ client \in Clients \cup {None}
  /\ backlog \in [Clients -> 0 .. Room]
  /\ heard \in [Clients -> 0 .. wakes] /\ synced \in 0 .. wakes

(* Changing the number of entries of one queue.                            *)
LEMMA OneBacklog ==
  ASSUME NEW f \in [Clients -> 0 .. Room], NEW c, NEW n, c \in Clients => n \in 0 .. Room
  PROVE  [f EXCEPT ![c] = n] \in [Clients -> 0 .. Room]
OBVIOUS

LEMMA BetweenStep ==
  ASSUME BetweenTypes, wakes \in Nat, SyncNext
  PROVE  BetweenTypes'
<1> USE RoomAssumption DEF BetweenTypes, driverVars, vars, timerVars, setVars, ucVars, passVars,
                           between
<1>1. CASE UNCHANGED <<between, wakes>>
  BY <1>1
<1>2. CASE Wake
  BY <1>2 DEF Wake, PoweredOn
<1>3. CASE Post
  <2>1. UNCHANGED <<client, heard, synced, wakes>>
    BY <1>3 DEF Post, PostToClient
  <2>2. \/ backlog' = backlog
        \/ /\ backlog[list[at]] < Room
           /\ backlog' = [backlog EXCEPT ![list[at]] = backlog[list[at]] + 1]
    BY <1>3 DEF Post
  <2>3. list[at] \in Clients /\ backlog[list[at]] < Room => backlog[list[at]] + 1 \in 0 .. Room
    OBVIOUS
  <2>4. backlog' \in [Clients -> 0 .. Room]
    BY <2>2, <2>3, OneBacklog
  <2> QED BY <2>1, <2>4
<1>4. CASE Take
  <2>1. UNCHANGED <<client, heard, wakes>> /\ synced' = wakes
    BY <1>4 DEF Take
  <2>2. /\ backlog[client] > 0
        /\ backlog' = [backlog EXCEPT ![client] = backlog[client] - 1]
    BY <1>4 DEF Take
  <2>3. client \in Clients => backlog[client] - 1 \in 0 .. Room
    BY <2>2
  <2>4. backlog' \in [Clients -> 0 .. Room]
    BY <2>2, <2>3, OneBacklog
  <2> QED BY <2>1, <2>4
<1>5. ASSUME NEW c \in Clients, OpenDriver(c)
      PROVE  BetweenTypes'
  BY <1>5 DEF OpenDriver, OpenService
<1>6. CASE DriverStarts \/ PowerSteps \/ PassRuns
  <2>1. UNCHANGED <<between, wakes>>
    BY <1>6 DEF DriverStarts, PowerSteps, PassRuns, Start, StartFails,
                PowerThread, CancelTimeout, SetTimeout,
                UseReleasedTimer, TimerFires, LookAtQueue,
                NextClient
  <2> QED BY <2>1, <1>1
<1>7. CASE Opening \/ ClientStops
  <2>1. UNCHANGED <<between, wakes>>
    BY <1>7 DEF Opening, InNewUserClient, Opened, Refused, ClientStops, LookForSet,
                CreateSet, AttachClient, InsertClient,
                StopClient
  <2> QED BY <2>1, <1>1
<1>8. CASE Launch \/ MainSteps \/ Signal \/ Killed
  <2>1. UNCHANGED <<between, wakes>>
    BY <1>8 DEF Launch, MainSteps, FindDriver, FindNoDriver, SetsUp, MainRuns, CloseDriver,
                Signal, Killed, CloseClient
  <2> QED BY <2>1, <1>1
<1>9. CASE ThreadRuns \/ Drained
  BY <1>9 DEF ThreadRuns, Drained
<1> QED BY <1>2, <1>3, <1>4, <1>5, <1>6, <1>7, <1>8, <1>9 DEF SyncNext, PassSteps, Drains

-----------------------------------------------------------------------------
(* One process opens the driver at a time, and one whose newUserClient is  *)
(* under way cannot be killed.  So the set is created once, and holds the  *)
(* client behind the daemon's connection.                                  *)
BeingOpened == {"null?", "create", "attach", "insert"}

InSet(c) == \E i \in 1 .. Len(members) : members[i] = c

OpenInv ==
  /\ drv = "up" => timer = "attached"
  /\ \A c \in Clients :
       /\ uc[c] # "insertStopped"
       /\ uc[c] # "new" => drv \in {"up", "panic"}
       /\ uc[c] \in BeingOpened => m = "opening" /\ client = c
       /\ uc[c] \in BeingOpened \cup {"new"} => heard[c] = 0
       /\ uc[c] = "connected" => conn /\ client = c /\ InSet(c)

(* Steps that leave the clients and the set alone.                         *)
LEMMA OpenOwnSteps ==
  ASSUME OpenInv, LinkInv, DaemonInv, BetweenTypes,
         \/ DriverStarts \/ Wake \/ PowerSteps \/ PassSteps \/ Launch
         \/ FindDriver \/ FindNoDriver \/ SetsUp \/ MainRuns \/ Drains \/ Signal
  PROVE  OpenInv'
<1> USE DEF OpenInv, InSet, BeingOpened, timerVars, setVars, ucVars,
            passVars, driverVars, vars, daemonVars, between
<1>1. CASE DriverStarts
  BY <1>1 DEF DriverStarts, Start, StartFails
<1>2. CASE Wake
  <2>1. UNCHANGED <<drv, timer, members, uc, m, conn, client>>
    BY <1>2 DEF Wake, PoweredOn
  <2>2. \A c \in Clients : uc[c] # "connected" => heard'[c] = heard[c]
    BY <1>2 DEF Wake, Listening, LinkInv
  <2> QED BY <2>1, <2>2
<1>3. CASE PowerSteps
  BY <1>3 DEF PowerSteps, PowerThread, CancelTimeout, SetTimeout,
              UseReleasedTimer
<1>4. CASE PassSteps
  <2>1. /\ UNCHANGED <<timer, members, uc, m, conn, client, heard>>
        /\ drv' \in {drv, "panic"}
    BY <1>4 DEF PassSteps, PassRuns, Post, TimerFires, LookAtQueue,
                NextClient, PostToClient
  <2> QED BY <2>1
<1>5. CASE Launch \/ FindDriver \/ FindNoDriver \/ SetsUp \/ MainRuns
  <2>1. UNCHANGED <<drv, timer, members, uc, conn, client, heard>> /\ m # "opening"
    <3>1. CASE Launch \/ FindDriver \/ FindNoDriver
      BY <3>1 DEF Launch, FindDriver, FindNoDriver, Daemon!Launch, Daemon!Find,
                  Daemon!FindFails, Daemon!Fails, Daemon!Goes, Daemon!handles
    <3>2. CASE SetsUp
      BY <3>2 DEF SetsUp, Daemon!Map, Daemon!MapFails, Daemon!AllocPort,
                  Daemon!AllocFails, Daemon!SetPort, Daemon!SetPortFails, Daemon!Spawn,
                  Daemon!SpawnFails, Daemon!Fails, Daemon!Goes, Daemon!handles
    <3>3. CASE MainRuns
      BY <3>3 DEF MainRuns, Daemon!Loop, Daemon!Pause, Daemon!Cleanup, Daemon!Join,
                  Daemon!Unmap, Daemon!Dealloc, Daemon!Goes, Daemon!handles
    <3> QED BY <1>5, <3>1, <3>2, <3>3
  <2> QED BY <2>1
<1>6. CASE Drains \/ Signal
  <2>1. /\ UNCHANGED <<drv, timer, members, uc, conn, client, heard>>
        /\ m = "opening" => m' = m
    <3>1. CASE ThreadRuns \/ Signal
      BY <3>1 DEF ThreadRuns, Signal, Daemon!ThreadCheck, Daemon!ThreadWakes,
                  Daemon!Signal, Daemon!handles
    <3>2. CASE Take \/ Drained
      BY <3>2 DEF Take, Drained, Daemon!MainTakes, Daemon!ThreadTakes,
                  Daemon!MainDrained, Daemon!ThreadDrained, Daemon!Goes, Daemon!handles,
                  Daemon!vars
    <3> QED BY <1>6, <3>1, <3>2 DEF Drains
  <2> QED BY <2>1
<1> QED BY <1>1, <1>2, <1>3, <1>4, <1>5, <1>6

(* Opening and closing.                                                    *)
LEMMA OpenSharedSteps ==
  ASSUME OpenInv, LinkInv, DaemonInv, ClientTypes, members \in Seq(Clients),
         \/ \E c \in Clients : OpenDriver(c)
         \/ Opening \/ CloseDriver \/ Killed \/ ClientStops
  PROVE  OpenInv'
<1> USE DEF OpenInv, InSet, ClientTypes, BeingOpened, DaemonInv, Acquires, LinkInv,
            timerVars, setVars, ucVars, passVars, driverVars, vars,
            daemonVars, between
<1>1. ASSUME NEW c \in Clients, OpenDriver(c)
      PROVE  OpenInv'
  BY <1>1 DEF OpenDriver, Daemon!CallOpen, Daemon!Goes, Daemon!handles, OpenService
<1>2. CASE InNewUserClient
  <2> PICK c \in Clients : \/ LookForSet(c) \/ CreateSet(c)
                           \/ AttachClient(c) /\ queue'[c]
    BY <1>2 DEF InNewUserClient
  <2> UNCHANGED <<daemonVars, between>>
    BY <1>2 DEF InNewUserClient
  <2>1. CASE LookForSet(c)
    BY <2>1 DEF LookForSet
  <2>2. CASE CreateSet(c)
    BY <2>2 DEF CreateSet
  <2>3. CASE AttachClient(c)
    BY <2>3 DEF AttachClient
  <2> QED BY <2>1, <2>2, <2>3
<1>3. CASE Opened
  <2>1. /\ client \in Clients /\ uc[client] = "insert" /\ ~conn
        /\ uc' = [uc EXCEPT ![client] = "connected"]
        /\ members' = Append(members, client) /\ conn'
        /\ UNCHANGED <<drv, timer, client, heard>>
    BY <1>3 DEF Opened, InsertClient, Daemon!Open, Daemon!Goes
  <2>2. InSet(client)'
    BY <2>1
  <2> QED BY <2>1, <2>2
<1>4. CASE Refused
  BY <1>4 DEF Refused, AttachClient, Daemon!OpenFails, Daemon!Fails, Daemon!Goes,
              Daemon!handles
<1>5. CASE CloseDriver
  BY <1>5 DEF CloseDriver, CloseClient, Daemon!Close
<1>6. CASE Killed
  BY <1>6 DEF Killed, CloseClient, Daemon!Killed
<1>7. CASE ClientStops
  BY <1>7 DEF ClientStops, StopClient
<1> QED BY <1>1, <1>2, <1>3, <1>4, <1>5, <1>6, <1>7 DEF Opening

-----------------------------------------------------------------------------
(* A wake that no sync has served yet is on its way: the power handler has *)
(* still to arm the timer, the timer to fire, the pass to come to the      *)
(* client, which nothing disturbs, or the daemon to take an entry.         *)
Ahead(c) ==
  /\ stable
  /\ \E i \in 1 .. Len(list) : /\ list[i] = c
                               /\ \/ w \in {"look", "post"} /\ at <= i
                                  \/ w = "next" /\ at < i

UnderWay(c) == backlog[c] > 0 \/ pm # "idle" \/ armed \/ Ahead(c)

ServeInv ==
  Alive => \A c \in Clients : Listening(c) /\ heard[c] > synced => UnderWay(c)

(* Steps that touch neither what is on its way nor the connection, but may *)
(* end it.                                                                 *)
LEMMA ServeOtherSteps ==
  ASSUME ServeInv, OpenInv, LinkInv, DaemonInv, BetweenTypes,
         \/ DriverStarts \/ Launch \/ (\E c \in Clients : OpenDriver(c)) \/ Opening
         \/ MainSteps \/ ThreadRuns \/ Drained \/ Signal \/ Killed \/ ClientStops
  PROVE  ServeInv'
<1> USE DEF Alive, Running, Listening, timerVars, setVars,
            ucVars, passVars, driverVars, vars, daemonVars, between
<1>1. ASSUME UNCHANGED <<pm, armed, w, list, at, stable, backlog, heard, synced>>,
             \A c \in Clients : Alive' /\ Listening(c)' => Alive /\ Listening(c)
      PROVE  ServeInv'
  BY <1>1 DEF ServeInv, UnderWay, Ahead
<1>2. CASE DriverStarts
  <2>1. /\ UNCHANGED <<pm, armed, w, list, at, stable, backlog, heard, synced>>
        /\ UNCHANGED <<conn, running, client>> /\ drv # "panic"
    BY <1>2 DEF DriverStarts, Start, StartFails
  <2> QED BY <1>1, <2>1
<1>3. CASE Launch
  BY <1>1, <1>3 DEF Launch, Daemon!Launch, Daemon!handles, DaemonInv, Acquires
<1>4. ASSUME NEW c \in Clients, OpenDriver(c)
      PROVE  ServeInv'
  BY <1>1, <1>4 DEF OpenDriver, OpenService, Daemon!CallOpen, Daemon!Goes,
                    Daemon!handles, DaemonInv, Acquires
<1>5. CASE InNewUserClient
  <2>1. /\ UNCHANGED <<pm, armed, w, list, at, stable, backlog, heard, synced>>
        /\ UNCHANGED <<conn, running, client, drv>>
    BY <1>5 DEF InNewUserClient, LookForSet, CreateSet, AttachClient
  <2> QED BY <1>1, <2>1
<1>6. CASE Opened
  <2>1. client \in Clients /\ heard[client] = 0 /\ UNCHANGED <<client, heard, synced>>
    BY <1>6 DEF Opened, InsertClient, Daemon!Open, Daemon!Goes, LinkInv, OpenInv,
                BeingOpened
  <2>2. ~(heard'[client] > synced')
    BY <2>1 DEF BetweenTypes
  <2> QED BY <2>1, <2>2 DEF ServeInv
<1>7. CASE Refused
  BY <1>1, <1>7 DEF Refused, AttachClient, Daemon!OpenFails, Daemon!Fails,
                    Daemon!Goes, Daemon!handles
<1>8. CASE FindDriver \/ FindNoDriver
  BY <1>1, <1>8 DEF FindDriver, FindNoDriver, Daemon!Find, Daemon!FindFails, Daemon!Fails,
                    Daemon!Goes, Daemon!handles
<1>9. CASE SetsUp
  <2>1. UNCHANGED <<conn, running>>
    BY <1>9 DEF SetsUp, Daemon!Map, Daemon!MapFails, Daemon!AllocPort, Daemon!AllocFails,
                Daemon!SetPort, Daemon!SetPortFails, Daemon!Spawn, Daemon!SpawnFails,
                Daemon!Fails, Daemon!Goes, Daemon!handles
  <2> QED BY <1>1, <1>9, <2>1 DEF SetsUp
<1>10. CASE MainRuns
  <2>1. UNCHANGED <<conn, driverVars, between>> /\ (running' => running)
    BY <1>10 DEF MainRuns, Daemon!Loop, Daemon!Pause, Daemon!Cleanup, Daemon!Join,
                 Daemon!Unmap, Daemon!Dealloc, Daemon!Goes, Daemon!handles
  <2> QED BY <1>1, <2>1
<1>11. CASE CloseDriver \/ Killed
  <2>1. ~conn'
    BY <1>11 DEF CloseDriver, Killed, Daemon!Close, Daemon!Killed
  <2> QED BY <2>1 DEF ServeInv
<1>12. CASE ThreadRuns \/ Drained \/ Signal
  <2>1. UNCHANGED <<conn, driverVars, between>> /\ (running' => running)
    BY <1>12 DEF ThreadRuns, Drained, Signal, Daemon!ThreadCheck, Daemon!ThreadWakes,
                 Daemon!MainDrained, Daemon!ThreadDrained, Daemon!Signal, Daemon!Goes,
                 Daemon!handles
  <2> QED BY <1>1, <2>1
<1>13. CASE ClientStops
  BY <1>1, <1>13 DEF ClientStops, StopClient
<1> QED BY <1>2, <1>3, <1>4, <1>5, <1>6, <1>7, <1>8, <1>9, <1>10, <1>11, <1>12, <1>13
        DEF Opening, MainSteps

(* Each step of a wake on its way hands it to the next.                    *)
LEMMA ServeWaySteps ==
  ASSUME ServeInv, OpenInv, LinkInv, DriverInv, BetweenTypes,
         Wake \/ PowerSteps \/ PassSteps \/ Take
  PROVE  ServeInv'
<1> SUFFICES ASSUME Alive', NEW c \in Clients, Listening(c)', heard'[c] > synced'
             PROVE  UnderWay(c)'
  BY DEF ServeInv
<1> USE DEF timerVars, setVars, ucVars, passVars, driverVars, vars,
            daemonVars, between
<1>1. UNCHANGED <<conn, running, client, uc, queue, members>> /\ drv \in {drv', "panic"}
  <2>1. CASE Wake \/ PowerSteps
    BY <2>1 DEF Wake, PowerSteps, PoweredOn, PowerThread,
                CancelTimeout, SetTimeout, UseReleasedTimer,
                Alive, Running
  <2>2. CASE PassSteps
    BY <2>2 DEF PassSteps, PassRuns, Post, TimerFires, LookAtQueue,
                NextClient, PostToClient, Alive, Running
  <2>3. CASE Take
    BY <2>3 DEF Take, Daemon!MainTakes, Daemon!ThreadTakes, Daemon!Goes, Daemon!handles,
                Daemon!vars
  <2> QED BY <2>1, <2>2, <2>3
<1>2. Alive /\ Listening(c)
  <2>1. drv # "panic"
    BY DEF Wake, PowerSteps, PassSteps, PassRuns, Post, Take, PoweredOn,
           PowerThread, CancelTimeout, SetTimeout,
           UseReleasedTimer, TimerFires, LookAtQueue,
           NextClient, PostToClient, Alive, Running
  <2> QED BY <1>1, <2>1 DEF Alive, Running, Listening
<1>3. /\ client = c /\ uc[c] = "connected" /\ queue[c] /\ InSet(c)
      /\ timer = "attached"
  BY <1>2 DEF Listening, LinkInv, OpenInv, Alive, Running
<1>4. heard[c] > synced => UnderWay(c)
  BY <1>2 DEF ServeInv
<1>5. /\ list \in Seq(Clients) /\ Len(list) \in Nat /\ at \in Nat
      /\ members \in Seq(Clients)
  BY DEF DriverInv, TypeOK
<1>6. CASE Wake
  BY <1>3, <1>6 DEF Wake, PoweredOn, UnderWay
<1>7. CASE PowerSteps
  <2>1. pm' # "idle" \/ armed'
    BY <1>3, <1>7 DEF PowerSteps, PowerThread, CancelTimeout,
                      SetTimeout, UseReleasedTimer
  <2> QED BY <2>1 DEF UnderWay
<1>8. CASE TimerFires /\ PassRuns
  <2>1. members # <<>> /\ list' = members /\ stable' /\ w' = "look" /\ at' = 1
    BY <1>3, <1>5, <1>8 DEF TimerFires, InSet
  <2>2. PICK i \in 1 .. Len(list') : list'[i] = c
    BY <1>3, <2>1 DEF InSet
  <2>3. at' <= i
    BY <2>1
  <2> QED BY <2>1, <2>2, <2>3 DEF UnderWay, Ahead
<1>9. CASE (LookAtQueue \/ NextClient) /\ PassRuns
  <2>1. UNCHANGED <<backlog, heard, synced, pm, armed, list, stable>>
    BY <1>9 DEF PassRuns, LookAtQueue, NextClient
  <2>2. CASE Ahead(c)
    <3>1. PICK i \in 1 .. Len(list) : /\ list[i] = c
                                      /\ \/ w \in {"look", "post"} /\ at <= i
                                         \/ w = "next" /\ at < i
      BY <2>2 DEF Ahead
    <3>2. CASE LookAtQueue
      <4>1. w = "look" /\ at' = at /\ w' \in {"post", "next"} /\ (w' = "next" => at # i)
        BY <1>3, <3>1, <3>2 DEF LookAtQueue
      <4> QED BY <1>5, <2>1, <2>2, <3>1, <4>1 DEF UnderWay, Ahead
    <3>3. CASE NextClient
      <4>1. w = "next" /\ at < i /\ stable
        BY <2>2, <3>1, <3>3 DEF NextClient, Ahead
      <4>2. w' = "look" /\ at' = at + 1
        BY <1>5, <4>1, <3>3 DEF NextClient
      <4> QED BY <1>5, <2>1, <3>1, <4>1, <4>2 DEF UnderWay, Ahead
    <3> QED BY <1>9, <3>2, <3>3
  <2> QED BY <1>4, <2>1, <2>2 DEF UnderWay
<1>10. CASE Post
  <2>1. /\ UNCHANGED <<heard, synced, pm, armed, list, at, stable>>
        /\ w = "post" /\ w' = "next"
        /\ backlog' = IF queue[list[at]] /\ backlog[list[at]] < Room
                      THEN [backlog EXCEPT ![list[at]] = @ + 1] ELSE backlog
    BY <1>10 DEF Post, PostToClient
  <2>2. backlog[c] \in 0 .. Room /\ backlog'[c] \in {backlog[c], backlog[c] + 1}
    BY <2>1 DEF BetweenTypes
  <2>3. CASE backlog[c] > 0
    BY <2>2, <2>3 DEF UnderWay
  <2>4. CASE Ahead(c)
    <3>1. PICK i \in 1 .. Len(list) : list[i] = c /\ at <= i
      BY <2>1, <2>4 DEF Ahead
    <3>2. CASE at = i
      <4>1. backlog'[c] = backlog[c] + 1 \/ backlog[c] >= Room
        <5>1. list[at] = c /\ queue[c] /\ c \in DOMAIN backlog
          BY <1>3, <3>1, <3>2 DEF BetweenTypes
        <5>2. backlog[c] < Room => backlog' = [backlog EXCEPT ![c] = backlog[c] + 1]
          BY <2>1, <5>1
        <5>3. backlog[c] < Room => backlog'[c] = backlog[c] + 1
          BY <5>1, <5>2
        <5> QED BY <2>2, <5>3, RoomAssumption
      <4>2. backlog'[c] > 0
        BY <2>2, <4>1, RoomAssumption
      <4> QED BY <4>2 DEF UnderWay
    <3>3. CASE at # i
      BY <1>5, <2>1, <2>4, <3>1, <3>3 DEF UnderWay, Ahead
    <3> QED BY <3>2, <3>3
  <2> QED BY <1>4, <2>1, <2>3, <2>4 DEF UnderWay
<1>11. CASE Take
  <2>1. synced' = wakes /\ heard' = heard /\ heard[c] \in 0 .. wakes
    BY <1>11 DEF Take, BetweenTypes
  <2>2. wakes \in Nat
    BY MaxWakesAssumption DEF DriverInv, TypeOK
  <2> QED BY <2>1, <2>2
<1> QED BY <1>6, <1>7, <1>8, <1>9, <1>10, <1>11 DEF PassSteps, PassRuns

-----------------------------------------------------------------------------
IInv == /\ DriverInv /\ Daemon!TypeOK /\ BetweenTypes /\ DaemonInv
        /\ LinkInv /\ OpenInv /\ ServeInv

(* The invariant holds at the beginning.                                   *)

LEMMA InitInv == SyncInit => IInv
<1> SUFFICES ASSUME SyncInit PROVE IInv
  OBVIOUS
<1>1. DriverInv
  BY DriverInit DEF SyncInit
<1>2. Daemon!TypeOK
  <2>1. signals \in 0 .. MaxSignals
    BY MaxSignalsAssumption DEF SyncInit, Daemon!Init
  <2> QED BY <2>1 DEF SyncInit, Daemon!Init, Daemon!TypeOK
<1>3. BetweenTypes
  <2>1. client \in Clients \cup {None} /\ wakes = 0 /\ synced = 0 /\ 0 \in 0 .. Room
    BY RoomAssumption DEF SyncInit, Init
  <2>2. backlog \in [Clients -> 0 .. Room] /\ heard \in [Clients -> 0 .. wakes]
    BY <2>1 DEF SyncInit
  <2> QED BY <2>1, <2>2 DEF BetweenTypes
<1>4. DaemonInv /\ LinkInv
  BY DaemonInit, LinkInit DEF SyncInit
<1>5. OpenInv
  BY DEF SyncInit, Init, OpenInv, BeingOpened
<1>6. ServeInv
  BY DEF SyncInit, Daemon!Init, ServeInv, Listening
<1> QED BY <1>1, <1>2, <1>3, <1>4, <1>5, <1>6 DEF IInv

(* What each part keeps by itself, what the client behind the connection   *)
(* has, who is being opened, and where an unserved wake is.                *)
THEOREM Invariance == SyncSpec => []IInv
<1>1. IInv /\ [SyncNext]_syncVars => IInv'
  <2> SUFFICES ASSUME IInv, [SyncNext]_syncVars PROVE IInv'
    OBVIOUS
  <2>1. CASE SyncNext
    <3>1. [Next]_vars /\ [Daemon!Next]_Daemon!vars
      BY <2>1, DriverPart, DaemonPart DEF IInv
    <3>2. DriverInv'
      BY <3>1, DriverStep DEF IInv
    <3>3. Daemon!TypeOK' /\ DaemonInv'
      BY <3>1, DaemonTypes, DaemonStep DEF IInv
    <3>4. wakes \in Nat /\ ClientTypes
      BY MaxWakesAssumption DEF IInv, DriverInv, TypeOK, ClientTypes
    <3>5. BetweenTypes'
      BY <2>1, <3>4, BetweenStep DEF IInv
    <3>6. LinkInv'
      BY <2>1, <3>4, LinkOwnSteps, LinkSharedSteps DEF IInv, SyncNext, MainSteps
    <3>7. OpenInv'
      <4>1. members \in Seq(Clients)
        BY DEF IInv, DriverInv, TypeOK
      <4> QED BY <2>1, <3>4, <4>1, OpenOwnSteps, OpenSharedSteps DEF IInv, SyncNext, MainSteps
    <3>8. ServeInv'
      BY <2>1, ServeOtherSteps, ServeWaySteps DEF IInv, SyncNext, Drains
    <3> QED BY <3>2, <3>3, <3>5, <3>6, <3>7, <3>8 DEF IInv
  <2>2. CASE UNCHANGED syncVars
    <3>1. UNCHANGED <<driverVars, daemonVars, between>>
      BY <2>2 DEF syncVars
    <3>2. UNCHANGED vars /\ UNCHANGED Daemon!vars
      BY <3>1 DEF driverVars, daemonVars, vars, timerVars, setVars,
                  ucVars, passVars, Daemon!vars, Daemon!handles
    <3>3. DriverInv'
      BY <3>2, DriverStep DEF IInv
    <3>4. Daemon!TypeOK' /\ DaemonInv'
      BY <3>2, DaemonTypes, DaemonStep DEF IInv
    <3>5. BetweenTypes' /\ LinkInv'
      BY <3>1 DEF IInv, BetweenTypes, LinkInv, driverVars, vars, timerVars, setVars, ucVars,
                  passVars, daemonVars, between
    <3>6. OpenInv'
      BY <3>1 DEF IInv, OpenInv, InSet, driverVars, vars, timerVars, setVars, ucVars, passVars,
                  daemonVars, between
    <3>7. ServeInv'
      BY <3>1 DEF IInv, ServeInv, Alive, Running, Listening, UnderWay, Ahead,
                  driverVars, vars, timerVars, setVars, ucVars, passVars, daemonVars, between
    <3> QED BY <3>3, <3>4, <3>5, <3>6, <3>7 DEF IInv
  <2> QED BY <2>1, <2>2
<1> QED BY <1>1, InitInv, PTL DEF SyncSpec

(* Every variable of the driver, of the daemon and between them keeps to   *)
(* its type; no queue holds more entries than it has room for.             *)
THEOREM TypeCorrect == SyncSpec => []SyncTypeOK
<1>1. IInv => SyncTypeOK
  BY DEF IInv, DriverInv, BetweenTypes, SyncTypeOK
<1> QED BY <1>1, Invariance, PTL

(* Whoever drains the queue finds it mapped, the port with the kernel, and *)
(* its user client connected and holding the queue: through every start,   *)
(* failure, signal, exit, kill and restart of the daemon, and every wake   *)
(* and pass of the driver (cleanup, clientClose, clientDied, stop).        *)
THEOREM DrainsOnlyLive == SyncSpec => []DrainsLiveQueue
<1>1. IInv => DrainsLiveQueue
  BY DEF IInv, DaemonInv, Acquires, ThreadLives, LinkInv, DrainsLiveQueue
<1> QED BY <1>1, Invariance, PTL

(* No wake that came while the daemon listened is dropped on its way: when *)
(* the handler, the timer, the pass and the queue are at rest, a sync was  *)
(* started after it.                                                       *)
THEOREM NoWakeDropped == SyncSpec => []QuietMeansServed
<1>1. IInv => QuietMeansServed
  <2> SUFFICES ASSUME IInv, pm = "idle", ~armed, w = "idle",
                      NEW c \in Clients, Alive, Listening(c), backlog[c] = 0
               PROVE  synced >= heard[c]
    BY DEF QuietMeansServed
  <2>1. ~UnderWay(c)
    BY DEF UnderWay, Ahead
  <2>2. ~(heard[c] > synced)
    BY <2>1 DEF IInv, ServeInv
  <2>3. heard[c] \in Nat /\ synced \in Nat
    BY MaxWakesAssumption DEF IInv, BetweenTypes, DriverInv, TypeOK
  <2> QED BY <2>2, <2>3
<1> QED BY <1>1, Invariance, PTL

(* The daemon and the driver together do what each does alone: every step  *)
(* of the whole is a step of each part or leaves it alone.                 *)
THEOREM DriverIsKept == SyncSpec => Init /\ [][Next]_vars
<1>1. IInv /\ [SyncNext]_syncVars => [Next]_vars
  BY DriverPart DEF IInv, syncVars, driverVars, vars, timerVars, setVars,
                    ucVars, passVars
<1>2. SyncInit => Init
  BY DEF SyncInit
<1> QED BY <1>1, <1>2, Invariance, PTL DEF SyncSpec

THEOREM DaemonIsKept == SyncSpec => Daemon!Init /\ [][Daemon!Next]_Daemon!vars
<1>1. [SyncNext]_syncVars => [Daemon!Next]_Daemon!vars
  BY DaemonPart DEF syncVars, daemonVars, Daemon!vars, Daemon!handles
<1>2. SyncInit => Daemon!Init
  BY DEF SyncInit
<1> QED BY <1>1, <1>2, PTL DEF SyncSpec

(* With one daemon the set holds every connected client.  That it may not  *)
(* when two processes open the driver is shown in WakeDriver.              *)
THEOREM SetHoldsTheDaemon == SyncSpec => []HoldsAllConnected
<1>1. IInv => HoldsAllConnected
  <2> SUFFICES ASSUME IInv, NEW c \in Clients, uc[c] = "connected"
               PROVE  c \in ToSet(members)
    BY DEF HoldsAllConnected
  <2>1. PICK i \in 1 .. Len(members) : members[i] = c
    BY DEF IInv, OpenInv, InSet
  <2>2. members \in Seq(Clients)
    BY DEF IInv, DriverInv, TypeOK
  <2> QED BY <2>1, <2>2 DEF ToSet
<1> QED BY <1>1, Invariance, PTL
=============================================================================
