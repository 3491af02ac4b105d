------------------------------- MODULE WakeSync -------------------------------
(***************************************************************************)
(* WakeSync end to end: the driver of module WakeDriver, which this module *)
(* extends, the daemon of module WakeDaemon, and between them one queue    *)
(* for each time the daemon opens the driver.  A step of one part that the *)
(* other part takes part in is the conjunction of both parts' actions.     *)
(*                                                                         *)
(* A queue is reduced to the number of entries it holds: WakeQueue shows   *)
(* that the races inside it lose no wake and that the message thread comes *)
(* round to it.  The driver is not unloaded here (WakeDriver has that).    *)
(***************************************************************************)
EXTENDS WakeDriver

CONSTANTS MaxSignals,   \* bound on the number of signals of one behaviour
          Room,         \* entries a queue has room for
          None          \* no user client

ASSUME MaxSignalsAssumption == MaxSignals \in Nat
ASSUME RoomAssumption == Room \in Nat \ {0}
ASSUME NoneAssumption == None \notin Clients

VARIABLES
  m, t, running, conn, mapped, port, portSet, signals,    \* the daemon
  client,      \* the user client behind g_conn
  backlog,     \* the entries in each client's queue
  heard,       \* history: the last wake that came while the daemon listened, by client
  synced       \* history: the wakes that precede the start of the latest sync

Daemon == INSTANCE WakeDaemon

driverVars == vars
daemonVars == <<m, t, running, conn, mapped, port, portSet, signals>>
between    == <<client, backlog, heard, synced>>
syncVars   == <<driverVars, daemonVars, between>>

SyncInit ==
  /\ Init /\ Daemon!Init
  /\ client = None
  /\ backlog = [c \in Clients |-> 0]
  /\ heard = [c \in Clients |-> 0] /\ synced = 0

(* A panic stops the daemon with everything else.                          *)
Alive == Running

(* The daemon holds this connection and was not told to stop.              *)
Listening(c) == conn /\ running /\ client = c

-----------------------------------------------------------------------------
DriverStarts == /\ Start \/ StartFails
                /\ UNCHANGED <<daemonVars, between>>

Wake == /\ PoweredOn
        /\ heard' = [c \in Clients |-> IF Listening(c) THEN wakes' ELSE heard[c]]
        /\ UNCHANGED <<daemonVars, client, backlog, synced>>

PowerSteps == /\ PowerThread
              /\ UNCHANGED <<daemonVars, between>>

PassRuns == /\ TimerFires \/ LookAtQueue \/ NextClient
            /\ UNCHANGED <<daemonVars, between>>

PostDropsOnly ==                                     \* mutant of Post
  /\ PostToClient
  /\ LET c == list[at]
     IN backlog' = IF ~queue[c] THEN backlog
                   ELSE [backlog EXCEPT ![c] = IF @ < Room THEN @ + 1 ELSE @ - 1]
  /\ UNCHANGED <<daemonVars, client, heard, synced>>

(* A full queue makes room for the new entry by dropping the oldest.       *)
Post == /\ PostToClient
        /\ LET c == list[at]
           IN backlog' = IF queue[c] /\ backlog[c] < Room
                         THEN [backlog EXCEPT ![c] = @ + 1]
                         ELSE backlog
        /\ UNCHANGED <<daemonVars, client, heard, synced>>

-----------------------------------------------------------------------------
Launch == /\ Alive /\ Daemon!Launch
          /\ \E c \in Clients : uc[c] = "new"
          /\ UNCHANGED <<driverVars, between>>

FindDriver == /\ Daemon!Find /\ drv = "up"
              /\ UNCHANGED <<driverVars, between>>

FindNoDriver == /\ Alive /\ Daemon!FindFails /\ drv # "up"
                /\ UNCHANGED <<driverVars, between>>

(* IOServiceOpen is newUserClient of a new client, on the daemon's thread. *)
OpenDriver(c) == /\ Daemon!CallOpen /\ OpenService(c)
                 /\ client' = c
                 /\ UNCHANGED <<backlog, heard, synced>>

InNewUserClient == /\ \E c \in Clients :
                        \/ LookForSet(c) \/ CreateSet(c)
                        \/ AttachClient(c) /\ queue'[c]
                   /\ UNCHANGED <<daemonVars, between>>

Opened == /\ m = "opening" /\ InsertClient(client) /\ Daemon!Open
          /\ UNCHANGED between

Refused == /\ m = "opening" /\ AttachClient(client) /\ ~queue'[client]
           /\ Daemon!OpenFails
           /\ UNCHANGED between

SetsUp == /\ Alive
          /\ \/ Daemon!Map \/ Daemon!MapFails
             \/ Daemon!AllocPort \/ Daemon!AllocFails
             \/ Daemon!SetPort \/ Daemon!SetPortFails
             \/ Daemon!Spawn \/ Daemon!SpawnFails
          /\ UNCHANGED <<driverVars, between>>

MainRuns == /\ Alive
            /\ \/ Daemon!Loop \/ Daemon!Pause \/ Daemon!Cleanup \/ Daemon!Join
               \/ Daemon!Unmap \/ Daemon!Dealloc
            /\ UNCHANGED <<driverVars, between>>

ThreadRuns == /\ Alive
              /\ Daemon!ThreadCheck \/ Daemon!ThreadWakes
              /\ UNCHANGED <<driverVars, between>>

(* An entry is taken and a sync starts: it serves every wake up to now.    *)
Take == /\ Alive
        /\ Daemon!MainTakes \/ Daemon!ThreadTakes
        /\ backlog[client] > 0
        /\ backlog' = [backlog EXCEPT ![client] = @ - 1]
        /\ synced' = wakes
        /\ UNCHANGED <<driverVars, client, heard>>

SkipFirstDrain ==                                    \* mutant of Drained
  /\ Alive
  /\ \/ Daemon!MainDrained
     \/ Daemon!ThreadDrained /\ backlog[client] = 0
  /\ backlog' = [backlog EXCEPT ![client] = 0]
  /\ UNCHANGED <<driverVars, client, heard, synced>>

Drained == /\ Alive
           /\ Daemon!MainDrained \/ Daemon!ThreadDrained
           /\ backlog[client] = 0
           /\ UNCHANGED <<driverVars, between>>

Signal == Alive /\ Daemon!Signal /\ UNCHANGED <<driverVars, between>>

(* IOServiceClose is clientClose.  The kernel calls clientDied, which does *)
(* the same, when the process goes without having closed.                  *)
CloseDriver == /\ Alive /\ Daemon!Close
               /\ IF conn THEN CloseClient(client) ELSE UNCHANGED driverVars
               /\ UNCHANGED between

Killed == /\ Alive /\ Daemon!Killed
          /\ IF conn THEN CloseClient(client) ELSE UNCHANGED driverVars
          /\ UNCHANGED between

ClientStops == /\ \E c \in Clients : StopClient(c)
               /\ UNCHANGED <<daemonVars, between>>

-----------------------------------------------------------------------------
PassSteps   == PassRuns \/ Post
Opening     == InNewUserClient \/ Opened \/ Refused
MainSteps   == FindDriver \/ FindNoDriver \/ SetsUp \/ MainRuns \/ CloseDriver
Drains      == ThreadRuns \/ Take \/ Drained

SyncNext == \/ DriverStarts \/ Wake \/ PowerSteps \/ PassSteps
            \/ Launch \/ (\E c \in Clients : OpenDriver(c)) \/ Opening \/ MainSteps
            \/ Drains \/ Signal \/ Killed \/ ClientStops

(* The fairness of the parts: the kernel's threads and the daemon's run on *)
(* once started.  Nobody has to wake the machine, start the driver, or     *)
(* signal or kill the daemon.                                              *)
SyncFairness ==
  /\ WF_syncVars(PowerSteps) /\ WF_syncVars(PassSteps)
  /\ WF_syncVars(Launch) /\ WF_syncVars(\E c \in Clients : OpenDriver(c))
  /\ WF_syncVars(Opening) /\ WF_syncVars(MainSteps) /\ WF_syncVars(Drains)
  /\ WF_syncVars(ClientStops)

SyncSpec == SyncInit /\ [][SyncNext]_syncVars /\ SyncFairness

-----------------------------------------------------------------------------
(* Every variable keeps to its type in both parts and between them; no     *)
(* queue holds more entries than it has room for (postEvent, drain_queue). *)
SyncTypeOK ==
  /\ TypeOK /\ Daemon!TypeOK
  /\ client \in Clients \cup {None}
  /\ backlog \in [Clients -> 0 .. Room]
  /\ heard \in [Clients -> 0 .. wakes] /\ synced \in 0 .. wakes

(* The queue the daemon drains is mapped, and its user client is connected *)
(* and has not released it: neither an exit of the daemon nor the driver's *)
(* cleaning up after it gets in between (cleanup, clientClose, stop).      *)
DrainsLiveQueue ==
  t \in {"recv", "drain"} \/ m = "drain" =>
    /\ mapped /\ portSet
    /\ uc[client] = "connected" /\ queue[client]

(* Once the power handler, the timer, the pass and the queue are at rest,  *)
(* every wake that came while the daemon listens was answered by a sync    *)
(* that started after it: no wake is dropped on the way, not by a pass     *)
(* that was already past the client or by a queue that was full            *)
(* (schedulePostWakeSync, LymosTimeSync_Perform, postEvent, drain_queue).  *)
QuietMeansServed ==
  pm = "idle" /\ ~armed /\ w = "idle" =>
    \A c \in Clients : Alive /\ Listening(c) /\ backlog[c] = 0 => synced >= heard[c]

(* Every wake that comes while the daemon is connected, however early in   *)
(* its start, is followed by a time sync that starts after it, unless the  *)
(* daemon is told to stop or loses its connection, or the machine panics.  *)
WakeIsServed ==
  \A c \in Clients, n \in 1 .. MaxWakes :
    heard[c] >= n ~> (synced >= n \/ ~Listening(c) \/ ~Alive)

=============================================================================
