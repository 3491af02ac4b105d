------------------------- MODULE AsusSensors_proofs -------------------------
(***************************************************************************)
(* Proofs about AsusSensors, for every set of readings and speeds, and any *)
(* number of presses and writes.                                           *)
(*                                                                         *)
(* BatteryFollowsKey is not inductive: while the SMC thread has a value    *)
(* that it has yet to store, the firmware must already have that value.    *)
(* PollerOutlivesPoll needs to know that, unless the handler ran into      *)
(* stop, stop sees the timer: once it is off the work loop no callback     *)
(* runs any more, and it is released only then.                            *)
(***************************************************************************)
EXTENDS AsusSensors, TLAPS

\* The battery is as the write on its way wants it, unless it was refused.
WriteInv ==
    rsoc /\ smc # Nothing /\ ~failed =>
        /\ conservative = (smc = 0)
        /\ limit = IF smc = 0 THEN 80 ELSE 100

\* Before initBattery there is no battery to steer; before VirtualSMC's
\* publication is asked for no handler runs and no value of BDVT is on its way.
StartInv ==
    /\ phase \in {"wdg", "als", "ec0", "battery"} => ~rsoc
    /\ phase \in {"wdg", "als", "ec0", "battery", "atk", "vsmc", "failed"}
           => submit = "no" /\ smc = Nothing /\ bdvt = 0

\* Where the timer is, for the handler and for stop.
TimerInv ==
    /\ submit = "no" => poller = "none" /\ ~late
    /\ submit = "made" => poller # "none"
    /\ poller = "none" => timer = "off" /\ poll = "idle"
    /\ poller = "released" => phase \in {"stopped", "panic"}
    /\ ~late /\ Stopping => submit # "made"
    /\ ~late /\ phase \in {"removed", "stopped"} => timer = "off" /\ poll = "idle"

IInv == TypeOK /\ StartInv /\ TimerInv /\ WriteInv /\ PollerOutlivesPoll /\ BatteryFollowsKey

-----------------------------------------------------------------------------
\* The readings of the fan fit sixteen bits.
LEMMA SpeedsFit == FanReadings \subseteq 0 .. WordSize - 1
BY SensorAssumption DEF FanReadings, SensorAssumption

\* The invariant holds at first and is kept by every step.
LEMMA InitInv == Init => IInv
<1> SUFFICES ASSUME Init PROVE IInv
  OBVIOUS
<1> USE DEF Init, Nothing
<1>1. fan \in 0 .. WordSize - 1 /\ keys \in 0 .. MaxKeys /\ writes \in 0 .. MaxWrites
  BY SensorAssumption
<1>2. TypeOK
  BY <1>1 DEF TypeOK
<1>3. StartInv /\ TimerInv /\ WriteInv /\ PollerOutlivesPoll /\ BatteryFollowsKey
  BY DEF StartInv, TimerInv, Stopping, WriteInv, PollerOutlivesPoll, BatteryFollowsKey
<1> QED BY <1>2, <1>3 DEF IInv

\* What toggleBatteryConservativeMode leaves behind.
LEMMA Settings ==
  ASSUME TypeOK, NEW state \in BOOLEAN, SetConservative(state)
  PROVE  /\ failed' \in BOOLEAN /\ limit' \in {80, 100} /\ conservative' \in BOOLEAN
         /\ ~failed' => conservative' = state /\ limit' = IF state THEN 80 ELSE 100
<1>1. PICK ok \in BOOLEAN : /\ failed' = ~ok
                            /\ limit' = IF ~ok THEN limit ELSE IF state THEN 80 ELSE 100
                            /\ conservative' = IF ok THEN state ELSE conservative
  BY DEF SetConservative
<1> QED BY <1>1 DEF TypeOK

LEMMA StepInv == IInv /\ [Next]_vars => IInv'
<1> SUFFICES ASSUME IInv, [Next]_vars PROVE IInv'
  OBVIOUS
<1> USE SpeedsFit
    DEF IInv, TypeOK, StartInv, TimerInv, WriteInv, PollerOutlivesPoll, BatteryFollowsKey,
        Nothing, Goes, Running, Stopping, batteryVars, pollerVars
<1>1. CASE ParseWDG
  BY <1>1 DEF ParseWDG
<1>2. CASE InitALSDevice
  BY <1>2 DEF InitALSDevice, Readings
<1>3. CASE InitEC0Device
  BY <1>3 DEF InitEC0Device
<1>4. CASE InitBattery
  <2>1. /\ phase' = "atk" /\ phase = "battery" /\ smc' = smc /\ bdvt' = bdvt
        /\ UNCHANGED <<wmi, alsDevice, isALSEnabled, lux, fan, submit, late, poller, timer,
                       poll, keys, writes>>
    BY <1>4 DEF InitBattery, SetConservative
  <2>2. CASE rsoc' = FALSE /\ UNCHANGED <<limit, conservative, failed>>
    <3>1. rsoc' \in BOOLEAN /\ ~rsoc'
      BY <2>2
    <3>2. TypeOK'
      BY <2>1, <2>2, <3>1, ZenonT(60)
    <3>3. StartInv' /\ TimerInv' /\ WriteInv' /\ PollerOutlivesPoll' /\ BatteryFollowsKey'
      BY <2>1, <3>1
    <3> QED BY <3>2, <3>3
  <2>3. CASE rsoc' = TRUE /\ wmi # "unset" /\ SetConservative(TRUE)
    <3>1. /\ failed' \in BOOLEAN /\ limit' \in {80, 100} /\ conservative' \in BOOLEAN
          /\ ~failed' => conservative' = TRUE /\ limit' = 80
      BY <2>3, Settings
    <3> QED BY <2>1, <2>3, <3>1
  <2> QED BY <1>4, <2>2, <2>3 DEF InitBattery, WMIWorks
<1>5. CASE StartATKDevice
  BY <1>5 DEF StartATKDevice
<1>6. CASE RegisterHandler \/ AddKeys
  BY <1>6 DEF RegisterHandler, AddKeys
<1>7. CASE SubmitPlugin
  <2>1. late' = Stopping
    BY <1>7 DEF SubmitPlugin
  <2>2. /\ submit = "no" /\ Running
        /\ submit' \in {"made", "done"} /\ phase \in {"keys", "up", "cancelled", "removed", "stopped"}
        /\ poller' \in {"none", "set"} /\ (submit' = "made" => poller' = "set")
        /\ UNCHANGED <<phase, wmi, alsDevice, isALSEnabled, lux, fan, rsoc, limit, conservative,
                       bdvt, smc, failed, timer, poll, keys, writes>>
    BY <1>7 DEF SubmitPlugin
  <2>3. CASE Stopping
    <3>1. late' = TRUE
      BY <2>1, <2>3, Zenon
    <3> QED BY <2>2, <2>3, <3>1
  <2>4. CASE ~Stopping
    BY <2>1, <2>2, <2>4
  <2> QED BY <2>3, <2>4
<1>8. CASE PollerFires
  BY <1>8 DEF PollerFires
<1>9. CASE StoreLux
  BY <1>9 DEF StoreLux, Rearm
<1>10. CASE RefreshFan
  BY <1>10 DEF RefreshFan
<1>11. CASE ToggleALS
  BY <1>11, SensorAssumption DEF ToggleALS
<1>12. CASE \E value \in {0, 1} : WriteBDVT(value)
  <2>1. PICK value \in {0, 1} : WriteBDVT(value)
    BY <1>12
  <2>2. /\ rsoc /\ submit # "no" /\ smc' = value
        /\ writes < MaxWrites /\ writes' = writes + 1
        /\ UNCHANGED <<phase, wmi, alsDevice, isALSEnabled, lux, fan, rsoc, bdvt, submit,
                       late, poller, timer, poll, keys>>
    BY <2>1 DEF WriteBDVT, MayWrite
  <2>3. /\ failed' \in BOOLEAN /\ limit' \in {80, 100} /\ conservative' \in BOOLEAN
        /\ ~failed' => conservative' = (value = 0) /\ limit' = IF value = 0 THEN 80 ELSE 100
    BY <2>1, Settings DEF WriteBDVT
  <2>4. writes' \in 0 .. MaxWrites
    BY <2>2, SensorAssumption
  <2> QED BY <2>2, <2>3, <2>4
<1>13. CASE StoreBDVT
  BY <1>13 DEF StoreBDVT
<1>14. CASE StopCancels
  <2>1. late' \in BOOLEAN /\ (late' <=> late \/ submit = "made")
    BY <1>14, Zenon DEF StopCancels
  <2>2. /\ phase = "up" /\ phase' = "cancelled"
        /\ timer' = IF timer = "armed" THEN "idle" ELSE timer
        /\ UNCHANGED <<wmi, alsDevice, isALSEnabled, lux, fan, rsoc, limit, conservative, bdvt,
                       smc, failed, submit, poller, poll, keys, writes>>
    BY <1>14 DEF StopCancels
  <2> QED BY <2>1, <2>2
<1>15. CASE StopRemoves
  BY <1>15 DEF StopRemoves
<1>16. CASE StopReleases
  BY <1>16 DEF StopReleases
<1>17. CASE ArmPoller
  BY <1>17 DEF ArmPoller
<1>18. CASE UNCHANGED vars
  BY <1>18 DEF vars
<1> QED BY <1>1, <1>2, <1>3, <1>4, <1>5, <1>6, <1>7, <1>8, <1>9, <1>10, <1>11, <1>12,
     <1>13, <1>14, <1>15, <1>16, <1>17, <1>18
  DEF Next, Start, Poll, Stop

\* The inductive invariant: the battery, the write on its way and the timer.
THEOREM Invariance == Spec => []IInv
<1> QED BY InitInv, StepInv, PTL DEF Spec

\* Type correctness; light and speed keep to their widths.
THEOREM TypeCorrect == Spec => []TypeOK
<1>1. IInv => TypeOK
  BY DEF IInv
<1> QED BY <1>1, Invariance, PTL

\* The callback finds its timer and nothing panics, unless the handler of
\* VirtualSMC's publication ran into stop.
THEOREM TimerOutlivesCallback == Spec => []PollerOutlivesPoll
<1>1. IInv => PollerOutlivesPoll
  BY DEF IInv
<1> QED BY <1>1, Invariance, PTL

\* The key BDVT, the property and the firmware agree about the battery,
\* unless the firmware refused the last change.
THEOREM BatteryAgrees == Spec => []BatteryFollowsKey
<1>1. IInv => BatteryFollowsKey
  BY DEF IInv
<1> QED BY <1>1, Invariance, PTL

=============================================================================
