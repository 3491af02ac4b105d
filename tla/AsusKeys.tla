------------------------------- MODULE AsusKeys -------------------------------
(***************************************************************************)
(* The AsusKeys kext, its user clients, and the programs that use it.  The *)
(* kext binds two ACPI devices as they are published, and runs a method of *)
(* EC0 for a hotkey that a daemon (fnkeys, one per login session) sends    *)
(* it, in its command gate.  exec-acpi evaluates a method of its own       *)
(* choice, outside the gate.                                               *)
(*                                                                         *)
(* The kext may be unloaded and loaded again.  Termination stops the user  *)
(* clients first, then the driver; a call that is under way meanwhile goes *)
(* on.  Its use of an object that was freed, or of a pointer that was set  *)
(* to null after it was tested, does nothing or panics.                    *)
(*                                                                         *)
(* Opening the service (find, attach and start a client) is one step.      *)
(***************************************************************************)
EXTENDS Naturals, FiniteSets

CONSTANTS
  Daemons,      \* the fnkeys processes
  Tools,        \* the exec-acpi processes
  Usages,       \* usages a hotkey may send
  Devices,      \* names of the ACPI devices the kext binds: "EC0" and "ATKD"
  None

Callers == Daemons \cup Tools

ASSUME DeviceAssumption == "EC0" \in Devices
ASSUME CallerAssumption == Daemons \cap Tools = {} /\ None \notin Callers

VARIABLES
  drv,          \* where start and stop are
  gate,         \* _commandGate
  inLoop,       \* it is an event source of the work loop
  notifier,     \* _acpiNotifier
  bound,        \* those of _ec0Device and _atkDevice that are set
  provider,     \* _provider
  matched,      \* ACPI devices in the registry
  todo,         \* those there at start that addMatchingNotification has yet to hand over
  handlers,     \* those whose acpiPublishHandler runs
  holder,       \* the thread in the work loop's gate
  conn,         \* the user client of each program; "down" once it was stopped
  retained,     \* the programs whose user client holds fProvider
  pc,           \* where the call of each program is
  usage,        \* the usage it sends
  lost,         \* calls that still use a gate or a driver that was freed
  ran,          \* history: the method the call ran, or that EC0 refused it
  result,       \* what the program was told
  early,        \* history: devices there when the notifier was installed
  crossed,      \* history: calls that met an unload
  unloaded      \* history: an unload has begun

drvVars    == <<gate, inLoop, notifier, provider>>
devVars    == <<bound, matched, todo, handlers, early>>
clientVars == <<conn, retained>>
callVars   == <<pc, usage, lost, ran, result, crossed>>
vars == <<drv, drvVars, devVars, holder, clientVars, callVars, unloaded>>

Running == drv # "panic"

(* handleUserMessage: usage, on page 0xFF31, to the method of EC0.         *)
Hotkeys == {197, 196, 16, 32, 53, 107}
Method(u) == CASE u = 197 -> "_Q13" [] u = 196 -> "_Q14" [] u = 16  -> "_Q15"
               [] u = 32  -> "_Q16" [] u = 53  -> "_Q17" [] u = 107 -> "_Q19"

Init ==
  /\ drv = "down" /\ gate = FALSE /\ inLoop = FALSE /\ notifier = FALSE /\ provider = FALSE
  /\ bound = {} /\ matched = {} /\ todo = {} /\ handlers = {} /\ early = {}
  /\ holder = None
  /\ conn = [c \in Callers |-> "none"] /\ retained = {}
  /\ pc = [c \in Callers |-> "idle"] /\ usage = [c \in Callers |-> 0] /\ lost = {}
  /\ ran = [c \in Callers |-> "nothing"] /\ result = [c \in Callers |-> "none"]
  /\ crossed = {} /\ unloaded = FALSE

Goes(from, to) == drv = from /\ drv' = to

-----------------------------------------------------------------------------
(* ACPI devices are published, before the kext is loaded or after.         *)
Publish(x) ==
  /\ Running /\ x \notin matched
  /\ matched' = matched \cup {x}
  /\ handlers' = IF notifier THEN handlers \cup {x} ELSE handlers
  /\ UNCHANGED <<drv, drvVars, bound, todo, early, holder, clientVars, callVars, unloaded>>

(* onACPIDevicePublished, on the publishing thread ...                     *)
HandlePublished(x) ==
  /\ Running /\ x \in handlers
  /\ bound' = bound \cup {x}
  /\ handlers' = handlers \ {x}
  /\ UNCHANGED <<drv, drvVars, matched, todo, early, holder, clientVars, callVars, unloaded>>

(* ... and, for a device that is there already, on the thread of start,    *)
(* within addMatchingNotification: IOKit calls the handler from there,     *)
(* though the comment in start takes it to be asynchronous.                *)
BindExisting(x) ==
  /\ drv = "bind" /\ x \in todo
  /\ bound' = bound \cup {x}
  /\ todo' = todo \ {x}
  /\ UNCHANGED <<drv, drvVars, matched, handlers, early, holder, clientVars, callVars, unloaded>>

-----------------------------------------------------------------------------
(* start: the work loop or the gate may fail, with the provider retained.  *)
StartProvider ==
  /\ \/ Goes("down", "gate")
     \/ Goes("down", "failed")
  /\ provider' = TRUE
  /\ UNCHANGED <<gate, inLoop, notifier, devVars, holder, clientVars, callVars, unloaded>>

StartGate ==
  /\ \/ Goes("gate", "notify") /\ gate' = TRUE /\ inLoop' = TRUE
     \/ Goes("gate", "failed") /\ UNCHANGED <<gate, inLoop>>
  /\ UNCHANGED <<notifier, provider, devVars, holder, clientVars, callVars, unloaded>>

(* Without a matching dictionary the driver starts all the same.           *)
StartNotifier ==
  /\ \/ /\ Goes("notify", "bind")
        /\ notifier' = TRUE /\ todo' = matched /\ early' = matched
     \/ /\ Goes("notify", "register")
        /\ early' = {} /\ UNCHANGED <<notifier, todo>>
  /\ UNCHANGED <<gate, inLoop, provider, bound, matched, handlers, holder,
                 clientVars, callVars, unloaded>>

BindLater ==                                         \* mutant of BindsAll
  drv = "bind" /\ drv' = "register"

BindsAll ==
  todo = {} /\ Goes("bind", "register")

StartBinds ==
  /\ BindsAll
  /\ UNCHANGED <<drvVars, devVars, holder, clientVars, callVars, unloaded>>

StartRegisters ==
  /\ Goes("register", "up")
  /\ UNCHANGED <<drvVars, devVars, holder, clientVars, callVars, unloaded>>

Start == StartProvider \/ StartGate \/ StartNotifier \/ StartBinds \/ StartRegisters
         \/ \E x \in Devices : BindExisting(x)

-----------------------------------------------------------------------------
InCall == {c \in Callers : pc[c] \notin {"idle", "ret"}}

(* The kext is unloaded: its clients are stopped ...                       *)
Terminate ==
  /\ Goes("up", "inactive")
  /\ unloaded' = TRUE
  /\ crossed' = {c \in Callers : pc[c] # "idle"}
  /\ UNCHANGED <<drvVars, devVars, holder, clientVars, pc, usage, lost, ran, result>>

StopKeepsProvider(c) ==                              \* mutant of StopClient
  /\ Running
  /\ \/ conn[c] = "closing" /\ conn' = [conn EXCEPT ![c] = "none"]
     \/ conn[c] = "up" /\ drv = "inactive" /\ conn' = [conn EXCEPT ![c] = "down"]
  /\ UNCHANGED <<drv, drvVars, devVars, holder, retained, callVars, unloaded>>

(* AsusKeysUserClient::stop, on a thread of its own: because of that, or   *)
(* because its program closed the connection or died.                      *)
StopClient(c) ==
  /\ Running
  /\ \/ conn[c] = "closing" /\ conn' = [conn EXCEPT ![c] = "none"]
     \/ conn[c] = "up" /\ drv = "inactive" /\ conn' = [conn EXCEPT ![c] = "down"]
  /\ retained' = retained \ {c}
  /\ UNCHANGED <<drv, drvVars, devVars, holder, callVars, unloaded>>

(* ... and then stop runs.  IONotifier::remove waits for the handlers.     *)
StopNotifier ==
  /\ Goes("inactive", "quiet")
  /\ \A c \in Callers : conn[c] \notin {"up", "closing"}
  /\ handlers = {} /\ notifier' = FALSE
  /\ UNCHANGED <<gate, inLoop, provider, devVars, holder, clientVars, callVars, unloaded>>

(* removeEventSource waits for the work loop's gate.                       *)
StopRemovesGate ==
  /\ Goes("quiet", "removed")
  /\ holder = None /\ inLoop' = FALSE
  /\ UNCHANGED <<gate, notifier, provider, devVars, holder, clientVars, callVars, unloaded>>

StopReleasesGate ==
  /\ Goes("removed", "gateless")
  /\ gate' = FALSE
  /\ lost' = lost \cup {c \in Callers : pc[c] \in {"enter", "wait"}}
  /\ UNCHANGED <<inLoop, notifier, provider, devVars, holder, clientVars,
                 pc, usage, ran, result, crossed, unloaded>>

StopReleasesDevices ==
  /\ Goes("gateless", "stopped")
  /\ bound' = {} /\ provider' = FALSE
  /\ UNCHANGED <<gate, inLoop, notifier, matched, todo, handlers, early, holder,
                 clientVars, callVars, unloaded>>

(* free, once no client holds the driver; it releases what a start that    *)
(* failed has left.  A call that has come past fProvider goes on.          *)
Free ==
  /\ drv \in {"stopped", "failed"} /\ retained = {}
  /\ drv' = "down" /\ provider' = FALSE
  /\ lost' = lost \cup (InCall \ {c \in Callers : pc[c] = "send"})
  /\ UNCHANGED <<gate, inLoop, notifier, devVars, holder, clientVars,
                 pc, usage, ran, result, crossed, unloaded>>

Stop == \/ StopNotifier \/ StopRemovesGate \/ StopReleasesGate \/ StopReleasesDevices
        \/ Free

-----------------------------------------------------------------------------
CallAt(c, from) == Running /\ pc[c] = from
To(c, to)       == pc' = [pc EXCEPT ![c] = to]
Answers(c, r)   == To(c, "ret") /\ result' = [result EXCEPT ![c] = r]
NotALostCall(c) == c \notin lost

(* A daemon opens the service at its first hotkey and keeps the            *)
(* connection; a tool opens its own.  If that fails nothing was sent.      *)
Call(c, u) ==
  /\ CallAt(c, "idle") /\ To(c, "send")
  /\ \/ conn[c] = "none" /\ drv = "up"
        /\ conn' = [conn EXCEPT ![c] = "up"] /\ retained' = retained \cup {c}
     \/ conn[c] \in {"up", "down"} /\ UNCHANGED clientVars
  /\ usage' = [usage EXCEPT ![c] = u]
  /\ crossed' = IF drv = "up" THEN crossed ELSE crossed \cup {c}
  /\ UNCHANGED <<drv, drvVars, devVars, holder, lost, ran, result, unloaded>>

Press(c) == c \in Daemons /\ \E u \in Usages : Call(c, u)
Execute(c) == c \in Tools /\ Call(c, 0)

(* The call reaches the kernel; logUsage and evaluateAcpiMethod test       *)
(* fProvider.  A client that was stopped answers with an error.            *)
Send(c) ==
  /\ CallAt(c, "send")
  /\ \/ conn[c] = "up" /\ To(c, "look") /\ UNCHANGED result
     \/ conn[c] # "up" /\ Answers(c, "failed")
  /\ UNCHANGED <<drv, drvVars, devVars, holder, clientVars, usage, lost, ran, crossed, unloaded>>

(* handleUserMessage tests _commandGate; logUsage reports success whatever *)
(* becomes of the key.                                                     *)
LookForGate(c) ==
  /\ CallAt(c, "look") /\ c \in Daemons /\ NotALostCall(c)
  /\ IF usage[c] \in Hotkeys /\ gate THEN To(c, "enter") /\ UNCHANGED result
                                     ELSE Answers(c, "sent")
  /\ UNCHANGED <<drv, drvVars, devVars, holder, clientVars, usage, lost, ran, crossed, unloaded>>

(* runAction gives up if the gate is off the work loop, and else waits for *)
(* the work loop's gate.                                                   *)
EnterGate(c) ==
  /\ CallAt(c, "enter") /\ NotALostCall(c)
  /\ IF inLoop THEN To(c, "wait") /\ UNCHANGED result
               ELSE Answers(c, "sent")
  /\ UNCHANGED <<drv, drvVars, devVars, holder, clientVars, usage, lost, ran, crossed, unloaded>>

NoGate(c) ==                                         \* mutant of TakeGate
  /\ CallAt(c, "wait") /\ NotALostCall(c)
  /\ To(c, "act")
  /\ UNCHANGED <<drv, drvVars, devVars, holder, clientVars,
                 usage, lost, ran, result, crossed, unloaded>>

TakeGate(c) ==
  /\ CallAt(c, "wait") /\ NotALostCall(c)
  /\ holder = None /\ holder' = c /\ To(c, "act")
  /\ UNCHANGED <<drv, drvVars, devVars, clientVars, usage, lost, ran, result, crossed, unloaded>>

ActUntested(c) ==                                    \* mutant of LookForEC
  /\ CallAt(c, "act") /\ NotALostCall(c)
  /\ To(c, "eval") /\ UNCHANGED <<holder, result>>
  /\ UNCHANGED <<drv, drvVars, devVars, clientVars, usage, lost, ran, crossed, unloaded>>

KeepsGate(c) ==                                      \* mutant of LookForEC
  /\ CallAt(c, "act") /\ NotALostCall(c) /\ UNCHANGED holder
  /\ IF "EC0" \in bound THEN To(c, "eval") /\ UNCHANGED result
                        ELSE Answers(c, "sent")
  /\ UNCHANGED <<drv, drvVars, devVars, clientVars, usage, lost, ran, crossed, unloaded>>

(* The six actions: _ec0Device is tested, and then evaluated.              *)
LookForEC(c) ==
  /\ CallAt(c, "act") /\ NotALostCall(c)
  /\ IF "EC0" \in bound THEN To(c, "eval") /\ UNCHANGED <<holder, result>>
                        ELSE Answers(c, "sent") /\ holder' = None
  /\ UNCHANGED <<drv, drvVars, devVars, clientVars, usage, lost, ran, crossed, unloaded>>

(* The method may be missing or fail: that is logged, and not answered.    *)
Evaluate(c) ==
  /\ CallAt(c, "eval") /\ NotALostCall(c)
  /\ Answers(c, "sent")
  /\ holder' = IF holder = c THEN None ELSE holder
  /\ \E outcome \in {Method(usage[c]), "refused"} : ran' = [ran EXCEPT ![c] = outcome]
  /\ UNCHANGED <<drv, drvVars, devVars, clientVars, usage, lost, crossed, unloaded>>

(* evaluateAcpiFromUser, for exec-acpi: _ec0Device is tested ...           *)
LookForTarget(c) ==
  /\ CallAt(c, "look") /\ c \in Tools /\ NotALostCall(c)
  /\ IF "EC0" \in bound THEN To(c, "target") /\ UNCHANGED result
                        ELSE Answers(c, "failed")
  /\ UNCHANGED <<drv, drvVars, devVars, holder, clientVars, usage, lost, ran, crossed, unloaded>>

(* ... and read again, and evaluated outside the gate.  The tool is told   *)
(* whether that worked.                                                    *)
EvaluateTarget(c) ==
  /\ CallAt(c, "target") /\ NotALostCall(c)
  /\ \/ Answers(c, "sent") /\ ran' = [ran EXCEPT ![c] = "GFAN"]
     \/ Answers(c, "failed") /\ ran' = [ran EXCEPT ![c] = "refused"]
  /\ UNCHANGED <<drv, drvVars, devVars, holder, clientVars, usage, lost, crossed, unloaded>>

(* A call that goes on after its gate or its driver was freed.             *)
UseFreed(c) ==
  /\ Running /\ c \in lost
  /\ Answers(c, "sent")
  /\ lost' = lost \ {c}
  /\ holder' = IF holder = c THEN None ELSE holder
  /\ UNCHANGED <<drv, drvVars, devVars, clientVars, usage, ran, crossed, unloaded>>

(* Or it panics, as does an evaluation that finds _ec0Device null when it  *)
(* reads it again, and a call that finds fProvider null after its test.    *)
Panic(c) ==
  /\ Running
  /\ \/ c \in lost
     \/ pc[c] \in {"eval", "target"} /\ "EC0" \notin bound
     \/ pc[c] = "look" /\ conn[c] = "down"
  /\ drv' = "panic"
  /\ UNCHANGED <<drvVars, devVars, holder, clientVars, callVars, unloaded>>

(* The program goes on; a tool closes its connection, which terminates the *)
(* client.                                                                 *)
Return(c) ==
  /\ CallAt(c, "ret") /\ To(c, "idle")
  /\ conn' = IF c \in Tools
             THEN [conn EXCEPT ![c] = IF @ = "up" THEN "closing" ELSE "none"] ELSE conn
  /\ usage' = [usage EXCEPT ![c] = 0] /\ ran' = [ran EXCEPT ![c] = "nothing"]
  /\ result' = [result EXCEPT ![c] = "none"] /\ crossed' = crossed \ {c}
  /\ UNCHANGED <<drv, drvVars, devVars, holder, retained, lost, unloaded>>

(* A daemon dies between two keys and launchd starts it anew; clientDied   *)
(* closes the client the old one had.                                      *)
Restart(c) ==
  /\ CallAt(c, "idle") /\ c \in Daemons /\ conn[c] \in {"up", "down"}
  /\ conn' = [conn EXCEPT ![c] = IF @ = "up" THEN "closing" ELSE "none"]
  /\ UNCHANGED <<drv, drvVars, devVars, holder, retained, callVars, unloaded>>

Step(c) == \/ Send(c) \/ LookForGate(c) \/ EnterGate(c) \/ LookForEC(c) \/ Evaluate(c)
           \/ LookForTarget(c) \/ EvaluateTarget(c) \/ UseFreed(c) \/ Return(c)

-----------------------------------------------------------------------------
Next ==
  \/ (\E x \in Devices : Publish(x) \/ HandlePublished(x))
  \/ Start \/ Terminate \/ Stop
  \/ \E c \in Callers : \/ StopClient(c) \/ Press(c) \/ Execute(c) \/ TakeGate(c)
                        \/ Step(c) \/ Panic(c) \/ Restart(c)

(* Threads run on; the firmware's methods return.  The work loop's gate is *)
(* a mutex that keys contend for at the pace of a hand: who waits for it   *)
(* gets it.  Nobody has to press a key, load the kext or unload it.        *)
Fairness ==
  /\ \A x \in Devices : WF_vars(HandlePublished(x))
  /\ WF_vars(Stop)
  /\ \A c \in Callers : WF_vars(StopClient(c)) /\ WF_vars(Step(c)) /\ SF_vars(TakeGate(c))

Spec == Init /\ [][Next]_vars /\ Fairness

-----------------------------------------------------------------------------
(* Every variable keeps to its type; a device is bound only if published,  *)
(* and the gate is held only by a call that is in it.                      *)
TypeOK ==
  /\ drv \in {"down", "gate", "notify", "bind", "register", "up", "failed", "inactive",
              "quiet", "removed", "gateless", "stopped", "panic"}
  /\ gate \in BOOLEAN /\ inLoop \in BOOLEAN /\ notifier \in BOOLEAN /\ provider \in BOOLEAN
  /\ matched \subseteq Devices /\ bound \subseteq matched
  /\ todo \subseteq Devices /\ handlers \subseteq Devices /\ early \subseteq Devices
  /\ holder \in Daemons \cup {None} /\ (holder # None => pc[holder] \in {"act", "eval"})
  /\ conn \in [Callers -> {"none", "up", "down", "closing"}] /\ retained \subseteq Callers
  /\ pc \in [Callers -> {"idle", "send", "look", "enter", "wait", "act", "eval", "target",
                         "ret"}]
  /\ usage \in [Callers -> Usages \cup {0}] /\ lost \subseteq InCall
  /\ ran \in [Callers -> {Method(u) : u \in Hotkeys} \cup {"GFAN", "refused", "nothing"}]
  /\ result \in [Callers -> {"none", "sent", "failed"}]
  /\ crossed \subseteq Callers /\ unloaded \in BOOLEAN

(* A hotkey that fnkeys reports as sent was put to EC0 in the gate, though *)
(* logUsage reports success whatever happens: it could not be sent before  *)
(* EC0 was bound, if EC0 was there when the kext was loaded, and the kext  *)
(* was not unloaded on its way (start, handleUserMessage, logUsage).  It   *)
(* was carried out unless the method failed, which the answer does not     *)
(* tell.  That start itself binds what is there is IOKit's doing.          *)
PressReachesEC ==
  \A c \in Daemons :
    /\ pc[c] = "ret" /\ result[c] = "sent" /\ usage[c] \in Hotkeys
    /\ "EC0" \in early /\ c \notin crossed
    => ran[c] \in {Method(usage[c]), "refused"}

(* Whatever the programs send, and however the ACPI devices come, the      *)
(* machine does not panic until an unload begins (handleUserMessage,       *)
(* evaluateAcpiFromUser, the six actions).                                 *)
SafeWhileLoaded == drv = "panic" => unloaded

(* An unload ends: calls under way, handlers and stale connections cannot  *)
(* hold the driver for ever (stop, free, AsusKeysUserClient::stop).        *)
UnloadCompletes == drv = "inactive" ~> drv \in {"down", "panic"}

(* The hotkeys are relayed as KeyRelay says: how it sees a call, and whose *)
(* key the firmware is carrying out.                                       *)
Stage(at) == CASE at = "idle" -> "idle" [] at = "ret" -> "answered" [] OTHER -> "asked"
Presses == [c \in Daemons |-> Stage(pc[c])]
Acting  == IF \E c \in Daemons : pc[c] = "eval"
           THEN CHOOSE c \in Daemons : pc[c] = "eval" ELSE None

Relay == INSTANCE KeyRelay WITH
  Callers <- Daemons, state <- Presses, busy <- Acting, alive <- Running
RelaysPresses == Relay!Spec

=============================================================================
