--------------------------- MODULE AsusKeys_proofs ---------------------------
(***************************************************************************)
(* Proofs about AsusKeys, for every set of daemons, tools, usages and ACPI *)
(* devices.                                                                *)
(*                                                                         *)
(* No property is inductive.  SafeWhileLoaded needs to know that before    *)
(* the first unload nothing is lost, no client is stopped, and EC0, once   *)
(* bound, stays bound.  PressReachesEC needs what start has done when the  *)
(* driver is up, and that a call which met no unload has seen the driver   *)
(* up all the time.  That KeyRelay is implemented rests on the gate: the   *)
(* call that acts is the one that holds it.                                *)
(***************************************************************************)
EXTENDS AsusKeys, TLAPS

(* Until an unload begins nothing that was made is taken away.             *)
Life ==
  ~unloaded =>
    /\ drv \in {"down", "gate", "notify", "bind", "register", "up", "failed"} /\ lost = {}
    /\ \A c \in Callers : conn[c] # "down" /\ (pc[c] \in {"eval", "target"} => "EC0" \in bound)
    /\ drv # "up" => \A c \in Callers : pc[c] = "idle" /\ conn[c] = "none"

(* What start has made, and which devices it has bound.                    *)
Binding ==
  /\ todo \subseteq matched /\ handlers \subseteq matched
  /\ drv \in {"notify", "bind", "register", "up"} => gate /\ inLoop
  /\ drv = "bind" => early \subseteq bound \cup todo
  /\ drv \in {"register", "up"} => early \subseteq bound

(* Where calls may be, and which of them acts.                             *)
Calls ==
  /\ \A c \in Callers : pc[c] # "idle" /\ c \notin crossed => drv \in {"up", "panic"}
  /\ \A c \in Callers : pc[c] \in {"act", "eval"} <=> holder = c
  /\ \A c \in Callers : pc[c] \in {"enter", "wait", "act", "eval"}
                         => c \in Daemons /\ usage[c] \in Hotkeys
  /\ \A c \in Callers : pc[c] = "target" => c \in Tools
  /\ \A c \in lost : pc[c] # "send"
  /\ lost \subseteq crossed

IInv == TypeOK /\ Life /\ Binding /\ Calls /\ PressReachesEC

-----------------------------------------------------------------------------
(* The invariant holds at first ...                                        *)
LEMMA InitInv == Init => IInv
<1> SUFFICES ASSUME Init PROVE IInv
  OBVIOUS
<1>1. TypeOK
  BY DEF Init, TypeOK, InCall
<1>2. Life /\ Binding /\ PressReachesEC
  BY DEF Init, Life, Binding, PressReachesEC
<1>3. Calls
  BY CallerAssumption DEF Init, Calls, Callers
<1> QED BY <1>1, <1>2, <1>3 DEF IInv

(* ... and is kept by the steps of the driver and of ACPI ...              *)
LEMMA DriverStep ==
  ASSUME IInv,
         Start \/ Terminate \/ Stop \/ \E x \in Devices : Publish(x) \/ HandlePublished(x)
  PROVE  IInv'
<1> USE DeviceAssumption, CallerAssumption
    DEF IInv, TypeOK, Life, Binding, Calls, PressReachesEC, Callers, InCall, Running, Goes,
        CallAt, To, Answers, NotALostCall, drvVars, devVars, clientVars, callVars
<1>1. CASE StartProvider
  BY <1>1 DEF StartProvider
<1>2. CASE StartGate
  <2>1. TypeOK' /\ Binding' /\ PressReachesEC'
    BY <1>2 DEF StartGate
  <2>2. Life' /\ Calls'
    BY <1>2 DEF StartGate
  <2> QED BY <2>1, <2>2
<1>3. CASE StartNotifier
  BY <1>3 DEF StartNotifier
<1>4. CASE StartBinds
  BY <1>4 DEF StartBinds, BindsAll
<1>5. CASE StartRegisters
  BY <1>5 DEF StartRegisters
<1>6. CASE Terminate
  BY <1>6 DEF Terminate
<1>7. CASE StopNotifier
  BY <1>7 DEF StopNotifier
<1>8. CASE StopRemovesGate
  BY <1>8 DEF StopRemovesGate
<1>9. CASE StopReleasesGate
  BY <1>9 DEF StopReleasesGate
<1>10. CASE StopReleasesDevices
  BY <1>10 DEF StopReleasesDevices
<1>11. CASE Free
  <2>1. /\ drv \in {"stopped", "failed"} /\ drv' = "down" /\ provider' = FALSE
        /\ lost' = lost \cup (InCall \ {c \in Callers : pc[c] = "send"})
        /\ UNCHANGED <<gate, inLoop, notifier, bound, matched, todo, handlers, early, holder,
                       conn, retained, pc, usage, ran, result, crossed, unloaded>>
    BY <1>11 DEF Free
  <2>2. lost' \subseteq InCall /\ lost' \subseteq crossed /\ \A c \in lost' : pc[c] # "send"
    BY <2>1
  <2>3. TypeOK' /\ Binding' /\ PressReachesEC'
    BY <2>1, <2>2
  <2>4. Calls'
    BY <2>1, <2>2
  <2>5. Life'
    BY <2>1
  <2> QED BY <2>3, <2>4, <2>5
<1>12. CASE \E x \in Devices : Publish(x)
  BY <1>12 DEF Publish
<1>13. CASE \E x \in Devices : HandlePublished(x)
  BY <1>13 DEF HandlePublished
<1>14. CASE \E x \in Devices : BindExisting(x)
  BY <1>14 DEF BindExisting
<1> QED BY <1>1, <1>2, <1>3, <1>4, <1>5, <1>6, <1>7, <1>8, <1>9, <1>10, <1>11, <1>12, <1>13, <1>14
     DEF Start, Stop

(* ... and those of the calls and the clients.                             *)
LEMMA CallStep ==
  ASSUME IInv, NEW d \in Callers,
         \/ StopClient(d) \/ Press(d) \/ Execute(d) \/ TakeGate(d)
         \/ Step(d) \/ Panic(d) \/ Restart(d)
  PROVE  IInv'
<1> USE DeviceAssumption, CallerAssumption
    DEF IInv, TypeOK, Life, Binding, Calls, PressReachesEC, Callers, InCall, Running, Goes,
        CallAt, To, Answers, NotALostCall, drvVars, devVars, clientVars, callVars
<1>1. CASE StopClient(d)
  BY <1>1 DEF StopClient
<1>2. CASE Press(d)
  BY <1>2 DEF Press, Call
<1>3. CASE Execute(d)
  BY <1>3 DEF Execute, Call
<1>4. CASE Send(d)
  BY <1>4 DEF Send
<1>5. CASE LookForGate(d)
  BY <1>5 DEF LookForGate
<1>6. CASE EnterGate(d)
  BY <1>6 DEF EnterGate
<1>7. CASE TakeGate(d)
  BY <1>7 DEF TakeGate
<1>8. CASE LookForEC(d)
  BY <1>8 DEF LookForEC
<1>9. CASE Evaluate(d)
  BY <1>9 DEF Evaluate
<1>10. CASE LookForTarget(d)
  BY <1>10 DEF LookForTarget
<1>11. CASE EvaluateTarget(d)
  BY <1>11 DEF EvaluateTarget
<1>12. CASE UseFreed(d)
  BY <1>12 DEF UseFreed
<1>13. CASE Return(d)
  BY <1>13 DEF Return
<1>14. CASE Panic(d)
  BY <1>14 DEF Panic
<1>15. CASE Restart(d)
  BY <1>15 DEF Restart
<1> QED BY <1>1, <1>2, <1>3, <1>4, <1>5, <1>6, <1>7, <1>8, <1>9, <1>10, <1>11, <1>12, <1>13, <1>14,
     <1>15
     DEF Step

LEMMA StepInv == IInv /\ [Next]_vars => IInv'
<1> SUFFICES ASSUME IInv, [Next]_vars PROVE IInv'
  OBVIOUS
<1>1. CASE UNCHANGED vars
  BY <1>1 DEF vars, drvVars, devVars, clientVars, callVars, IInv, TypeOK, Life, Binding,
              Calls, PressReachesEC, InCall
<1>2. CASE Next
  BY <1>2, DriverStep, CallStep DEF Next
<1> QED BY <1>1, <1>2

(* The inductive invariant: before an unload everything stays, the driver  *)
(* that is up has bound what was there, the acting call holds the gate.    *)
THEOREM Invariance == Spec => []IInv
<1> QED BY InitInv, StepInv, PTL DEF Spec

(* Type correctness, for every set of programs and devices.                *)
THEOREM TypeCorrect == Spec => []TypeOK
<1>1. IInv => TypeOK
  BY DEF IInv
<1> QED BY <1>1, Invariance, PTL

(* A hotkey reported as sent was put to EC0, which ran or refused it, if   *)
(* EC0 was there at start and no unload met the call.                      *)
THEOREM PressesReachEC == Spec => []PressReachesEC
<1>1. IInv => PressReachesEC
  BY DEF IInv
<1> QED BY <1>1, Invariance, PTL

(* Nothing panics until an unload begins.                                  *)
THEOREM LoadedIsSafe == Spec => []SafeWhileLoaded
<1>1. IInv => SafeWhileLoaded
  BY DEF IInv, Life, SafeWhileLoaded
<1> QED BY <1>1, Invariance, PTL

-----------------------------------------------------------------------------
(* The call that evaluates is the one that holds the gate.                 *)
ActingHolds == Acting = IF holder # None /\ pc[holder] = "eval" THEN holder ELSE None

LEMMA ActingIsHolder == IInv => ActingHolds
<1> SUFFICES ASSUME IInv PROVE ActingHolds
  OBVIOUS
<1> USE CallerAssumption DEF IInv, Calls, TypeOK, Callers, ActingHolds
<1>1. \A c \in Daemons : pc[c] = "eval" => holder = c
  OBVIOUS
<1>2. CASE \E c \in Daemons : pc[c] = "eval"
  BY <1>1, <1>2 DEF Acting
<1>3. CASE ~ \E c \in Daemons : pc[c] = "eval"
  BY <1>3 DEF Acting
<1> QED BY <1>2, <1>3

LEMMA RelayStutters ==
  ASSUME UNCHANGED <<Presses, Acting>>, Running' <=> Running
  PROVE  UNCHANGED Relay!vars
<1>1. UNCHANGED Running
  BY DEF Running
<1> QED BY <1>1 DEF Relay!vars, Presses, Acting

LEMMA RelayInit == Init => Relay!Init
<1> SUFFICES ASSUME Init PROVE Relay!Init
  OBVIOUS
<1>1. \A c \in Daemons : pc[c] = "idle"
  BY DEF Init, Callers
<1>2. Presses = [c \in Daemons |-> "idle"]
  BY <1>1 DEF Presses, Stage
<1>3. Acting = None /\ Running
  BY <1>1 DEF Acting, Init, Running
<1> QED BY <1>2, <1>3 DEF Relay!Init

(* The steps of the driver, of ACPI and of clients change no press.        *)
LEMMA AwaySteps ==
  ASSUME IInv,
         \/ Start \/ Terminate \/ Stop \/ UNCHANGED vars
         \/ \E x \in Devices : Publish(x) \/ HandlePublished(x)
         \/ \E c \in Callers : StopClient(c) \/ Restart(c)
  PROVE  UNCHANGED <<pc, holder>> /\ (Running' <=> Running)
<1> USE DEF Running, Goes, CallAt, vars, clientVars, callVars
<1>1. CASE Start
  BY <1>1 DEF Start, StartProvider, StartGate, StartNotifier, StartBinds, BindsAll,
              StartRegisters, BindExisting
<1>2. CASE Terminate
  BY <1>2 DEF Terminate
<1>3. CASE Stop
  BY <1>3 DEF Stop, StopNotifier, StopRemovesGate, StopReleasesGate, StopReleasesDevices, Free
<1>4. CASE \E x \in Devices : Publish(x) \/ HandlePublished(x)
  BY <1>4 DEF Publish, HandlePublished
<1>5. CASE \E c \in Callers : StopClient(c) \/ Restart(c)
  BY <1>5 DEF StopClient, Restart
<1>6. CASE UNCHANGED vars
  BY <1>6
<1> QED BY <1>1, <1>2, <1>3, <1>4, <1>5, <1>6

(* What the step of a call does to the presses.                            *)
LEMMA PressMoves ==
  ASSUME TypeOK, NEW d \in Callers, NEW to, To(d, to)
  PROVE  /\ d \in Tools => Presses' = Presses
         /\ d \in Daemons => Presses' = [Presses EXCEPT ![d] = Stage(to)]
<1>1. \A c \in Callers : pc'[c] = IF c = d THEN to ELSE pc[c]
  BY DEF TypeOK, To
<1>2. \A c \in Daemons : Stage(pc'[c]) = IF c = d THEN Stage(to) ELSE Stage(pc[c])
  BY <1>1 DEF Callers
<1>3. d \in Tools => d \notin Daemons
  BY CallerAssumption
<1> QED BY <1>2, <1>3 DEF Presses

LEMMA Stages ==
  /\ Stage("idle") = "idle" /\ Stage("ret") = "answered"
  /\ \A at \in {"send", "look", "enter", "wait", "act", "eval", "target"} : Stage(at) = "asked"
BY DEF Stage

(* The step of a daemon's call is one of KeyRelay's, or none it sees.      *)
Asks(d, to) == pc[d] = "idle" /\ to = "send" /\ holder' = holder
Advances(d, to) ==
  /\ pc[d] \in {"send", "look", "enter", "wait"}
  /\ to \in {"look", "enter", "wait", "act"}
  /\ holder' = holder \/ (holder = None /\ holder' = d)
Begins(d, to) == pc[d] = "act" /\ to = "eval" /\ holder' = holder
Ends(d, to) ==
  /\ pc[d] \notin {"idle", "ret"} /\ to = "ret"
  /\ holder' = IF holder = d THEN None ELSE holder
Returns(d, to) == pc[d] = "ret" /\ to = "idle" /\ holder' = holder

LEMMA RelayMoves ==
  ASSUME IInv, ActingHolds, ActingHolds', Running, Running',
         NEW d \in Daemons, NEW to, To(d, to),
         Asks(d, to) \/ Advances(d, to) \/ Begins(d, to) \/ Ends(d, to) \/ Returns(d, to)
  PROVE  [Relay!Next]_(Relay!vars)
<1>1. Presses' = [Presses EXCEPT ![d] = Stage(to)] /\ Presses[d] = Stage(pc[d])
  BY PressMoves DEF IInv, Callers, Presses
<1>2. pc' = [pc EXCEPT ![d] = to]
      /\ pc \in [Callers -> {"idle", "send", "look", "enter", "wait", "act", "eval", "target",
                              "ret"}]
      /\ d # None /\ d \in Callers
      /\ (holder # None => holder \in Callers) /\ (pc[d] \in {"act", "eval"} <=> holder = d)
  BY CallerAssumption DEF IInv, TypeOK, Calls, Callers, To
<1>3. CASE Asks(d, to)
  <2>1. Acting' = Acting
    BY <1>2, <1>3 DEF ActingHolds, Asks
  <2>2. Relay!Ask(d)
    BY <1>1, <1>3, <2>1, Stages DEF Relay!Ask, Asks, Presses, Acting
  <2> QED BY <2>2 DEF Relay!Next
<1>4. CASE Advances(d, to)
  <2>1. Stage(pc[d]) = "asked" /\ Stage(to) = "asked"
    BY <1>4, Stages DEF Advances
  <2>2. Presses' = Presses
    BY <1>1, <2>1 DEF Presses
  <2>3. Acting' = Acting
    BY <1>2, <1>4 DEF ActingHolds, Advances
  <2> QED BY <2>2, <2>3, RelayStutters
<1>5. CASE Begins(d, to)
  <2>1. Acting = None /\ Acting' = d /\ pc[d] # "eval"
    BY <1>2, <1>5 DEF ActingHolds, Begins
  <2>2. Stage(pc[d]) = "asked" /\ Stage(to) = "asked"
    BY <1>5, Stages DEF Begins
  <2>3. Presses' = Presses
    BY <1>1, <2>2 DEF Presses
  <2>4. Relay!Begin(d)
    BY <1>1, <2>1, <2>2, <2>3 DEF Relay!Begin, Presses, Acting
  <2> QED BY <2>4 DEF Relay!Next
<1>6. CASE Ends(d, to)
  <2>1. Presses[d] = "asked" /\ Stage(to) = "answered"
    BY <1>1, <1>2, <1>6, Stages DEF Ends
  <2>2. CASE pc[d] = "eval"
    <3>1. Acting = d /\ Acting' = None
      BY <1>2, <1>6, <2>2 DEF ActingHolds, Ends
    <3>2. Relay!End(d)
      BY <1>1, <2>1, <3>1 DEF Relay!End, Presses, Acting
    <3> QED BY <3>2 DEF Relay!Next
  <2>3. CASE pc[d] # "eval"
    <3>1. Acting' = Acting /\ Acting # d
      BY <1>2, <1>6, <2>3 DEF ActingHolds, Ends
    <3>2. Relay!Refuse(d)
      BY <1>1, <2>1, <3>1 DEF Relay!Refuse, Presses, Acting
    <3> QED BY <3>2 DEF Relay!Next
  <2> QED BY <2>2, <2>3
<1>7. CASE Returns(d, to)
  <2>1. Acting' = Acting
    BY <1>2, <1>7 DEF ActingHolds, Returns
  <2>2. Relay!Return(d)
    BY <1>1, <1>7, <2>1, Stages DEF Relay!Return, Returns, Presses, Acting
  <2> QED BY <2>2 DEF Relay!Next
<1> QED BY <1>3, <1>4, <1>5, <1>6, <1>7

(* Each step of a daemon's call is of one of those kinds.                  *)
LEMMA DaemonMoves ==
  ASSUME IInv, NEW d \in Daemons, Press(d) \/ TakeGate(d) \/ Step(d)
  PROVE  /\ Running /\ Running'
         /\ \E to \in {"idle", "send", "look", "enter", "wait", "act", "eval", "ret"} :
              /\ To(d, to)
              /\ \/ Asks(d, to) \/ Advances(d, to) \/ Begins(d, to)
                 \/ Ends(d, to) \/ Returns(d, to)
<1> USE DEF Asks, Advances, Begins, Ends, Returns, CallAt, Answers, Running
<1>1. /\ d \in Callers /\ d \notin Tools /\ pc[d] # "target"
      /\ pc[d] \in {"act", "eval"} <=> holder = d
      /\ d \in lost => pc[d] \notin {"idle", "ret"}
  BY CallerAssumption DEF IInv, TypeOK, Calls, Callers, InCall
<1>2. CASE Press(d)
  BY <1>1, <1>2 DEF Press, Call
<1>3. CASE TakeGate(d)
  BY <1>1, <1>3 DEF TakeGate
<1>4. CASE Send(d)
  BY <1>1, <1>4 DEF Send
<1>5. CASE LookForGate(d)
  BY <1>1, <1>5 DEF LookForGate
<1>6. CASE EnterGate(d)
  BY <1>1, <1>6 DEF EnterGate
<1>7. CASE LookForEC(d)
  BY <1>1, <1>7 DEF LookForEC
<1>8. CASE Evaluate(d)
  BY <1>1, <1>8 DEF Evaluate
<1>9. CASE LookForTarget(d) \/ EvaluateTarget(d)
  BY <1>1, <1>9 DEF LookForTarget, EvaluateTarget
<1>10. CASE UseFreed(d)
  BY <1>1, <1>10 DEF UseFreed
<1>11. CASE Return(d)
  BY <1>1, <1>11 DEF Return
<1> QED BY <1>2, <1>3, <1>4, <1>5, <1>6, <1>7, <1>8, <1>9, <1>10, <1>11 DEF Step

(* A tool's call never has the gate.                                       *)
LEMMA ToolMoves ==
  ASSUME IInv, NEW d \in Tools, Execute(d) \/ TakeGate(d) \/ Step(d)
  PROVE  Running /\ Running' /\ UNCHANGED holder /\ holder # d /\ \E to : To(d, to)
<1> USE DEF CallAt, Answers, Running
<1>1. /\ d \in Callers /\ d \notin Daemons /\ holder # d
      /\ pc[d] \notin {"enter", "wait", "act", "eval"}
  BY CallerAssumption DEF IInv, TypeOK, Calls, Callers
<1>2. CASE Execute(d)
  BY <1>1, <1>2 DEF Execute, Call
<1>3. CASE Send(d)
  BY <1>1, <1>3 DEF Send
<1>4. CASE LookForTarget(d)
  BY <1>1, <1>4 DEF LookForTarget
<1>5. CASE EvaluateTarget(d)
  BY <1>1, <1>5 DEF EvaluateTarget
<1>6. CASE UseFreed(d)
  BY <1>1, <1>6 DEF UseFreed
<1>7. CASE Return(d)
  BY <1>1, <1>7 DEF Return
<1>8. CASE TakeGate(d) \/ LookForGate(d) \/ EnterGate(d) \/ LookForEC(d) \/ Evaluate(d)
  BY <1>1, <1>8 DEF TakeGate, LookForGate, EnterGate, LookForEC, Evaluate
<1> QED BY <1>2, <1>3, <1>4, <1>5, <1>6, <1>7, <1>8 DEF Step

LEMMA RelayStep == IInv /\ IInv' /\ [Next]_vars => [Relay!Next]_(Relay!vars)
<1> SUFFICES ASSUME IInv, IInv', [Next]_vars PROVE [Relay!Next]_(Relay!vars)
  OBVIOUS
<1>1. ActingHolds /\ ActingHolds'
  <2>1. IInv' => ActingHolds'
    BY ActingIsHolder, PTL
  <2> QED BY <2>1, ActingIsHolder
<1>2. ASSUME UNCHANGED <<pc, holder>>
      PROVE  UNCHANGED <<Presses, Acting>>
  BY <1>1, <1>2 DEF Presses, ActingHolds
<1>3. CASE \/ Start \/ Terminate \/ Stop \/ UNCHANGED vars
           \/ \E x \in Devices : Publish(x) \/ HandlePublished(x)
           \/ \E c \in Callers : StopClient(c) \/ Restart(c)
  <2>1. UNCHANGED <<pc, holder>> /\ (Running' <=> Running)
    BY <1>3, AwaySteps
  <2> QED BY <1>2, <2>1, RelayStutters
<1>4. CASE \E d \in Callers : Panic(d)
  <2>1. UNCHANGED <<pc, holder>> /\ ~ Running'
    BY <1>4 DEF Panic, Running, callVars
  <2>2. Relay!Halt
    BY <1>2, <2>1 DEF Relay!Halt, Presses, Acting
  <2> QED BY <2>2 DEF Relay!Next
<1>5. CASE \E d \in Daemons : Press(d) \/ TakeGate(d) \/ Step(d)
  BY <1>1, <1>5, DaemonMoves, RelayMoves
<1>6. CASE \E d \in Tools : Execute(d) \/ TakeGate(d) \/ Step(d)
  <2>1. PICK d \in Tools : Execute(d) \/ TakeGate(d) \/ Step(d)
    BY <1>6
  <2>2. Running /\ Running' /\ UNCHANGED holder /\ holder # d /\ d \in Callers
    BY <2>1, ToolMoves DEF Callers
  <2>3. PICK to : To(d, to)
    BY <2>1, ToolMoves
  <2>4. Presses' = Presses
    BY <2>2, <2>3, PressMoves DEF IInv
  <2>5. holder # None => pc'[holder] = pc[holder]
    BY <2>2, <2>3 DEF IInv, TypeOK, Callers, To
  <2>6. Acting' = Acting
    BY <1>1, <2>2, <2>5 DEF ActingHolds
  <2> QED BY <2>2, <2>4, <2>6, RelayStutters
<1> QED BY <1>3, <1>4, <1>5, <1>6 DEF Next, Callers, Press, Execute

(* Hotkeys are relayed as KeyRelay says, liveness aside: one at a time,    *)
(* each at most once, and answered in any case.                            *)
THEOREM RelaysSafely == Spec => Relay!Safety
<1> QED BY RelayInit, RelayStep, Invariance, PTL DEF Spec, Relay!Safety

=============================================================================
