------------------------------ MODULE WakeDaemon ------------------------------
(***************************************************************************)
(* The process WakeSyncd: its main thread, the message thread it creates,  *)
(* its signal handler and its exit handler, restarted by launchd whenever  *)
(* it is gone (KeepAlive in tommy.sync-time.plist).                        *)
(*                                                                         *)
(* What the driver answers and whether the queue holds an entry is left    *)
(* open here; module WakeSync closes both ends.  The message thread's wait *)
(* and the notification port are modelled in WakeQueue: here it wakes up.  *)
(***************************************************************************)
EXTENDS Naturals

CONSTANT MaxSignals    \* bound on the SIGINT/SIGTERM signals of one behaviour

VARIABLES
  m,          \* where the main thread is; "off" when there is no process
  t,          \* where the message thread is; "none" when there is no such thread
  running,    \* g_running
  conn,       \* g_conn is open
  mapped,     \* g_queue is mapped
  port,       \* g_notifyPort is allocated
  portSet,    \* the kernel was given the port
  signals     \* history: signals sent so far

handles == <<conn, mapped, port, portSet>>
vars == <<m, t, running, handles, signals>>

Init ==
  /\ m = "off" /\ t = "none" /\ running = FALSE
  /\ conn = FALSE /\ mapped = FALSE /\ port = FALSE /\ portSet = FALSE
  /\ signals = 0

-----------------------------------------------------------------------------
(* launchd starts the process; its globals have their initial values.      *)
Launch ==
  /\ m = "off"
  /\ m' = "find" /\ running' = TRUE
  /\ UNCHANGED <<t, handles, signals>>

(* A step of main that may fail: on failure main returns, which runs the   *)
(* exit handler.                                                           *)
Goes(from, to) ==
  /\ m = from
  /\ m' = to
  /\ UNCHANGED <<t, running, signals>>

Fails(from) == Goes(from, "cleanup") /\ UNCHANGED handles

(* The service is looked for once a second, WAIT_SECONDS times.            *)
Find        == Goes("find", "open") /\ UNCHANGED handles
FindFails   == Fails("find")
CallOpen    == Goes("open", "opening") /\ UNCHANGED handles
Open        == Goes("opening", "map") /\ conn' = TRUE /\ UNCHANGED <<mapped, port, portSet>>
OpenFails   == Fails("opening")
Map         == Goes("map", "alloc") /\ mapped' = TRUE /\ UNCHANGED <<conn, port, portSet>>
MapFails    == Fails("map")
AllocPort   == Goes("alloc", "setport") /\ port' = TRUE /\ UNCHANGED <<conn, mapped, portSet>>
AllocFails  == Fails("alloc")
SetPort     == Goes("setport", "drain") /\ portSet' = TRUE /\ UNCHANGED <<conn, mapped, port>>
SetPortFails == Fails("setport")

(* The first drain_queue, on the main thread: takes entries, syncing for   *)
(* each, and goes on when there is none.                                   *)
MainTakes   == Goes("drain", "drain") /\ UNCHANGED handles
MainDrained == Goes("drain", "spawn") /\ UNCHANGED handles

Spawn ==
  /\ m = "spawn"
  /\ m' = "loop" /\ t' = "check"
  /\ UNCHANGED <<running, handles, signals>>

SpawnFails == Fails("spawn")

(* while (g_running) pause(); the flag is read before pause() is entered.  *)
Loop ==
  /\ m = "loop"
  /\ m' = IF running THEN "enter" ELSE "cleanup"
  /\ UNCHANGED <<t, running, handles, signals>>

Pause == Goes("enter", "pause") /\ UNCHANGED handles

Startup ==
  \/ Find \/ FindFails \/ CallOpen \/ Open \/ OpenFails \/ Map \/ MapFails
  \/ AllocPort \/ AllocFails \/ SetPort \/ SetPortFails
  \/ MainDrained \/ Spawn \/ SpawnFails

-----------------------------------------------------------------------------
(* SIGINT or SIGTERM runs sig_handler.  The kernel gives it to the first   *)
(* thread that does not block it, the main thread.  pause() returns if it  *)
(* had been entered.                                                       *)
Signal ==
  /\ m # "off"
  /\ signals < MaxSignals
  /\ signals' = signals + 1
  /\ running' = FALSE
  /\ m' = IF m = "pause" THEN "loop" ELSE m
  /\ UNCHANGED <<t, handles>>

(* SIGKILL, by launchd when a stop takes too long: the kernel reclaims     *)
(* everything and closes the connection (clientDied).                      *)
Killed ==
  /\ m \notin {"off", "opening"}
  /\ m' = "off" /\ t' = "none" /\ running' = FALSE
  /\ conn' = FALSE /\ mapped' = FALSE /\ port' = FALSE /\ portSet' = FALSE
  /\ UNCHANGED signals

-----------------------------------------------------------------------------
(* msg_loop: while (g_running) { mach_msg; drain_queue }.  The port cannot *)
(* die under it: only the exit handler gives it up, after the join.        *)
ThreadCheck ==
  /\ t = "check"
  /\ t' = IF running THEN "recv" ELSE "done"
  /\ UNCHANGED <<m, running, handles, signals>>

ThreadWakes ==
  /\ t = "recv"
  /\ t' = "drain"
  /\ UNCHANGED <<m, running, handles, signals>>

(* Takes one entry and starts a sync for it.                               *)
ThreadTakes ==
  /\ t = "drain"
  /\ UNCHANGED vars

ThreadDrained ==
  /\ t = "drain"
  /\ t' = "check"
  /\ UNCHANGED <<m, running, handles, signals>>

Thread == ThreadCheck \/ ThreadWakes \/ ThreadDrained

-----------------------------------------------------------------------------
(* cleanup, the exit handler.                                              *)
Cleanup ==
  /\ m = "cleanup"
  /\ m' = "join" /\ running' = FALSE
  /\ UNCHANGED <<t, handles, signals>>

JoinNot ==                                           \* mutant of Join
  /\ m = "join"
  /\ m' = "unmap"
  /\ UNCHANGED <<t, running, handles, signals>>

Join ==
  /\ m = "join"
  /\ t \in {"none", "done"}
  /\ m' = "unmap" /\ t' = "none"
  /\ UNCHANGED <<running, handles, signals>>

Unmap ==
  /\ m = "unmap"
  /\ m' = "close" /\ mapped' = FALSE
  /\ UNCHANGED <<t, running, conn, port, portSet, signals>>

Close ==
  /\ m = "close"
  /\ m' = "dealloc" /\ conn' = FALSE
  /\ UNCHANGED <<t, running, mapped, port, portSet, signals>>

Dealloc ==
  /\ m = "dealloc"
  /\ m' = "off" /\ port' = FALSE /\ portSet' = FALSE
  /\ UNCHANGED <<t, running, conn, mapped, signals>>

Exit == Cleanup \/ Join \/ Unmap \/ Close \/ Dealloc

Next == \/ Launch \/ Startup \/ MainTakes \/ Loop \/ Pause \/ Exit
        \/ Thread \/ ThreadTakes
        \/ Signal \/ Killed

(* Both threads keep running, and a drain ends.  Nobody has to send a      *)
(* signal.                                                                 *)
Fairness == WF_vars(Launch) /\ WF_vars(Startup \/ Loop \/ Pause \/ Exit) /\ WF_vars(Thread)

Spec == Init /\ [][Next]_vars /\ Fairness

-----------------------------------------------------------------------------
(* Every variable keeps to its type (the globals of WakeSyncd.c).          *)
TypeOK ==
  /\ m \in {"off", "find", "open", "opening", "map", "alloc", "setport", "drain", "spawn",
            "loop", "enter", "pause", "cleanup", "join", "unmap", "close", "dealloc"}
  /\ t \in {"none", "check", "recv", "drain", "done"}
  /\ running \in BOOLEAN
  /\ conn \in BOOLEAN /\ mapped \in BOOLEAN /\ port \in BOOLEAN /\ portSet \in BOOLEAN
  /\ signals \in 0 .. MaxSignals

(* Whoever drains the queue finds it mapped, its connection open and the   *)
(* port with the kernel: the exit handler, which runs on the main thread,  *)
(* takes none of them from under the message thread (cleanup, msg_loop).   *)
DrainsWhatItHolds ==
  t \in {"check", "recv", "drain"} \/ m = "drain" => conn /\ mapped /\ portSet

(* A daemon that was told to stop exits (WakeSyncd.c lines 141-147, 222).  *)
SignalStopsDaemon == (m # "off" /\ ~running) ~> (m = "off")

=============================================================================
