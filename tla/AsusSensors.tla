----------------------------- MODULE AsusSensors ----------------------------
(***************************************************************************)
(* The sensors and the battery of the AsusFn kext: how start finds them    *)
(* through ACPI and WMI, the poller that refreshes light and fan, the keys *)
(* of VirtualSMC that publish them, and stop.                              *)
(*                                                                         *)
(* Threads: the one that starts and stops the driver; the one that brings  *)
(* VirtualSMC's publication, which nothing ever unregisters; the work      *)
(* loop, where the poller's callback runs; ACPI's notification thread,     *)
(* which brings Fn + A; and the SMC thread, which brings writes to BDVT.   *)
(* The firmware is external: any method may be missing, any call may fail. *)
(***************************************************************************)
EXTENDS Integers

CONSTANTS
    Lux,          \* readings the ambient light sensor may give
    Speeds,       \* fan speeds that GFAN may give
    WordSize,     \* values of the sixteen bits that refreshFan keeps of it
    MaxKeys,      \* bound on presses of Fn + A
    MaxWrites     \* bound on writes to BDVT

Off     == 150          \* lux while the sensor is switched off
Invalid == -1           \* lux after a reading that failed: 0xFFFFFFFF, signed
Nothing == -1
NoSpeed == 10000        \* speed after a reading that failed

ASSUME SensorAssumption ==
    /\ Lux \subseteq Nat /\ Speeds \subseteq Nat
    /\ WordSize \in Nat \ {0} /\ NoSpeed \in 0 .. WordSize - 1
    /\ MaxKeys \in Nat /\ MaxWrites \in Nat

VARIABLES
    phase,         \* how far start, then stop, has come
    wmi,           \* wmi_method: "unset", or a method's name
    alsDevice,     \* there is an ambient light sensor
    isALSEnabled,
    lux,           \* currentLux
    fan,           \* currentFanSpeed
    rsoc,          \* isBatteryRSOCAvailable
    limit,         \* the battery's charge limit, as the firmware has it
    conservative,  \* the property BatteryConservativeMode
    bdvt,          \* data of the key BDVT
    smc,           \* the value the SMC thread has yet to store in BDVT, or Nothing
    failed,        \* history: the last attempt to set the limit failed
    submit,        \* vsmcNotificationHandler: "no", "made" (a timer) or "done"
    late,          \* history: it was still running, or began, in stop
    poller,        \* the pointer: "none", "set", or "released" and so null
    timer,         \* the timer: "off" the work loop, or on it "idle" or "armed"
    poll,          \* where the callback is
    keys, writes   \* presses and writes so far

pollerVars == <<submit, late, poller, timer>>
batteryVars == <<rsoc, limit, conservative, bdvt, smc, failed>>
vars == <<phase, wmi, alsDevice, isALSEnabled, lux, fan, batteryVars, pollerVars,
          poll, keys, writes>>

Init ==
    /\ phase = "wdg" /\ wmi = "unset" /\ alsDevice = FALSE
    /\ isALSEnabled = TRUE /\ lux = 0 /\ fan = 0
    /\ rsoc = FALSE /\ limit = 100 /\ conservative = FALSE /\ bdvt = 0
    /\ smc = Nothing /\ failed = FALSE
    /\ submit = "no" /\ late = FALSE /\ poller = "none" /\ timer = "off"
    /\ poll = "idle" /\ keys = 0 /\ writes = 0

Running == phase # "panic"
Stopping == phase \in {"cancelled", "removed", "stopped"}
Goes(from, to) == phase = from /\ phase' = to

\* wmi_evaluate_method: without a method every call fails.
WMIWorks(ok) == ok \in BOOLEAN /\ (ok => wmi # "unset")

-----------------------------------------------------------------------------
(* start.                                                                  *)

\* parse_WDG: the method of the management GUID, or WMNB if that is not in
\* the table; none at all if there is no table.
ParseWDG ==
    /\ Goes("wdg", "als")
    /\ wmi' \in {"unset", "WMNB", "WMxx"}
    /\ UNCHANGED <<alsDevice, isALSEnabled, lux, fan, batteryVars, pollerVars, poll,
                   keys, writes>>

\* What refreshALS reads while the sensor is enabled, or while it is not.
Readings == IF isALSEnabled THEN Lux \cup {Invalid} ELSE {Off}

\* initALSDevice; a sensor whose method _ALI is missing or fails is kept.
InitALSDevice ==
    /\ Goes("als", "ec0")
    /\ \/ alsDevice' = FALSE /\ UNCHANGED lux
       \/ alsDevice' = TRUE /\ lux' \in {lux} \cup Readings
    /\ UNCHANGED <<wmi, isALSEnabled, fan, batteryVars, pollerVars, poll, keys, writes>>

WholeReadings == Speeds \cup {NoSpeed}                  \* mutant of FanReadings

\* refreshFan: the low sixteen bits of GFAN, whose seventeenth says that the
\* fan is there.
FanReadings == {s % WordSize : s \in Speeds} \cup {NoSpeed}

\* initEC0Device: the fan is read once if there is a method TACH.
InitEC0Device ==
    /\ Goes("ec0", "battery")
    /\ fan' \in {fan} \cup FanReadings
    /\ UNCHANGED <<wmi, alsDevice, isALSEnabled, lux, batteryVars, pollerVars, poll,
                   keys, writes>>

\* toggleBatteryConservativeMode; the firmware may refuse.
SetConservative(state) ==
    \E ok \in BOOLEAN :
        /\ WMIWorks(ok)
        /\ failed' = ~ok
        /\ limit' = IF ~ok THEN limit ELSE IF state THEN 80 ELSE 100
        /\ conservative' = IF ok THEN state ELSE conservative

\* initBattery: the limit is set, if the firmware has one.
InitBattery ==
    /\ Goes("battery", "atk")
    /\ \/ rsoc' = FALSE /\ UNCHANGED <<limit, conservative, failed>>
       \/ WMIWorks(TRUE) /\ rsoc' = TRUE /\ SetConservative(TRUE)
    /\ UNCHANGED <<wmi, alsDevice, isALSEnabled, lux, fan, bdvt, smc, pollerVars,
                   poll, keys, writes>>

\* startATKDevice; whether toggleALS worked is only logged.
StartATKDevice ==
    /\ Goes("atk", "vsmc")
    /\ isALSEnabled' = TRUE
    /\ UNCHANGED <<wmi, alsDevice, lux, fan, batteryVars, pollerVars, poll, keys, writes>>

\* registerVSMC: first VirtualSMC's publication is asked for, and then the
\* keys are made.  The rest of start may fail before that.
RegisterHandler ==
    /\ Goes("vsmc", "keys") \/ Goes("vsmc", "failed")
    /\ UNCHANGED <<wmi, alsDevice, isALSEnabled, lux, fan, batteryVars, pollerVars,
                   poll, keys, writes>>

AddKeys ==
    /\ Goes("keys", "up")
    /\ UNCHANGED <<wmi, alsDevice, isALSEnabled, lux, fan, batteryVars, pollerVars,
                   poll, keys, writes>>

Start == \/ ParseWDG \/ InitALSDevice \/ InitEC0Device \/ InitBattery
         \/ StartATKDevice \/ RegisterHandler \/ AddKeys

\* vsmcNotificationHandler: VirtualSMC takes the plugin, and the timer is
\* made, if there is memory for it ...
SubmitPlugin ==
    /\ submit = "no" /\ (Stopping \/ phase \in {"keys", "up"})
    /\ late' = Stopping
    /\ \/ submit' = "made" /\ poller' = "set"
       \/ submit' = "done" /\ UNCHANGED poller
    /\ UNCHANGED <<phase, wmi, alsDevice, isALSEnabled, lux, fan, batteryVars, timer,
                   poll, keys, writes>>

\* ... and put on the work loop and armed, each of which may fail.  A pointer
\* that stop has set to null is found out, or was tested already: a panic.
ArmPoller ==
    /\ Running /\ submit = "made"
    /\ submit' = "done" /\ late' = (late \/ Stopping)
    /\ \/ poller = "set" /\ timer' \in {"off", "idle", "armed"} /\ UNCHANGED phase
       \/ poller # "set" /\ phase' \in {phase, "panic"} /\ UNCHANGED timer
    /\ UNCHANGED <<wmi, alsDevice, isALSEnabled, lux, fan, batteryVars, poller, poll,
                   keys, writes>>

-----------------------------------------------------------------------------
(* The poller's callback.                                                  *)

\* It begins with refreshALS(true), which looks whether there is a sensor,
\* and whether it is enabled.
PollerFires ==
    /\ Running /\ timer = "armed" /\ poll = "idle"
    /\ timer' = "idle"
    /\ poll' = IF ~alsDevice THEN "fan" ELSE IF isALSEnabled THEN "read" ELSE "off"
    /\ UNCHANGED <<phase, wmi, alsDevice, isALSEnabled, lux, fan, batteryVars,
                   submit, late, poller, keys, writes>>

\* The callback arms the timer again, whatever happened since, through the
\* pointer.  A timer off its work loop never fires.
Rearm ==
    IF poller = "set"
    THEN /\ timer' = IF timer = "off" THEN "off" ELSE "armed"
         /\ poll' = "fan" /\ UNCHANGED phase
    ELSE phase' = "panic" /\ UNCHANGED <<timer, poll>>

StoresOnlyReadings ==                                   \* mutant of StoreLux
    /\ Running /\ poll \in {"read", "off"}
    /\ IF poll = "read" THEN lux' \in Lux \cup {Invalid} ELSE UNCHANGED lux
    /\ Rearm
    /\ UNCHANGED <<wmi, alsDevice, isALSEnabled, fan, batteryVars, submit, late, poller,
                   keys, writes>>

\* The sensor is read, the value stored, and the timer armed again.
StoreLux ==
    /\ Running /\ poll \in {"read", "off"}
    /\ lux' \in IF poll = "read" THEN Lux \cup {Invalid} ELSE {Off}
    /\ Rearm
    /\ UNCHANGED <<wmi, alsDevice, isALSEnabled, fan, batteryVars, submit, late, poller,
                   keys, writes>>

RefreshFan ==
    /\ Running /\ poll = "fan"
    /\ fan' \in FanReadings
    /\ poll' = "idle"
    /\ UNCHANGED <<phase, wmi, alsDevice, isALSEnabled, lux, batteryVars, pollerVars,
                   keys, writes>>

Poll == PollerFires \/ StoreLux \/ RefreshFan

-----------------------------------------------------------------------------
\* Fn + A, code 0x7A of handleMessage.
ToggleALS ==
    /\ Running /\ phase \notin {"failed", "stopped"}
    /\ keys < MaxKeys /\ keys' = keys + 1
    /\ isALSEnabled' = ~isALSEnabled
    /\ UNCHANGED <<phase, wmi, alsDevice, lux, fan, batteryVars, pollerVars, poll, writes>>

\* A write to BDVT takes that VirtualSMC has the keys.  One after stop is
\* left out: nothing takes the ATK device away.
MayWrite == /\ Running /\ rsoc /\ submit # "no" /\ phase # "stopped"
            /\ smc = Nothing /\ writes < MaxWrites

WriteInverted(value) ==                                 \* mutant of WriteBDVT
    /\ MayWrite
    /\ SetConservative(value = 1)
    /\ smc' = value /\ writes' = writes + 1
    /\ UNCHANGED <<phase, wmi, alsDevice, isALSEnabled, lux, fan, rsoc, bdvt, pollerVars,
                   poll, keys>>

\* BDVT::update: the system turns battery health off (1) or on (0) ...
WriteBDVT(value) ==
    /\ MayWrite
    /\ SetConservative(value = 0)
    /\ smc' = value /\ writes' = writes + 1
    /\ UNCHANGED <<phase, wmi, alsDevice, isALSEnabled, lux, fan, rsoc, bdvt, pollerVars,
                   poll, keys>>

\* ... and the value is stored, whether or not the firmware took it.
StoreBDVT ==
    /\ Running /\ smc # Nothing
    /\ bdvt' = smc /\ smc' = Nothing
    /\ UNCHANGED <<phase, wmi, alsDevice, isALSEnabled, lux, fan, rsoc, limit,
                   conservative, failed, pollerVars, poll, keys, writes>>

-----------------------------------------------------------------------------
(* stop: the timeout is cancelled, though a callback under way may arm the *)
(* timer again; the timer is taken off the work loop, which waits for the  *)
(* callback; and it is released.  Each of the first two steps looks for a  *)
(* timer, and the handler may make one after they have found none.         *)
StopCancels ==
    /\ Goes("up", "cancelled")
    /\ late' = (late \/ submit = "made")
    /\ timer' = IF timer = "armed" THEN "idle" ELSE timer
    /\ UNCHANGED <<wmi, alsDevice, isALSEnabled, lux, fan, batteryVars, submit, poller,
                   poll, keys, writes>>

RemovesAtOnce ==                                        \* mutant of StopRemoves
    /\ Goes("cancelled", "removed")
    /\ timer' = IF poller = "set" THEN "off" ELSE timer
    /\ UNCHANGED <<wmi, alsDevice, isALSEnabled, lux, fan, batteryVars, submit, late,
                   poller, poll, keys, writes>>

StopRemoves ==
    /\ Goes("cancelled", "removed")
    /\ poller = "set" => poll = "idle"
    /\ timer' = IF poller = "set" THEN "off" ELSE timer
    /\ UNCHANGED <<wmi, alsDevice, isALSEnabled, lux, fan, batteryVars, submit, late,
                   poller, poll, keys, writes>>

\* A timer that is on the work loop by now stays there, held by the loop.
StopReleases ==
    /\ Goes("removed", "stopped")
    /\ poller' = IF poller = "set" THEN "released" ELSE poller
    /\ UNCHANGED <<wmi, alsDevice, isALSEnabled, lux, fan, batteryVars, submit, late,
                   timer, poll, keys, writes>>

Stop == StopCancels \/ StopRemoves \/ StopReleases

Next == \/ Start \/ SubmitPlugin \/ ArmPoller \/ Poll \/ ToggleALS \/ Stop
        \/ (\E value \in {0, 1} : WriteBDVT(value)) \/ StoreBDVT

\* The work loop serves a timer that has run out, and its callback goes on.
Spec == Init /\ [][Next]_vars /\ WF_vars(Poll)

-----------------------------------------------------------------------------
(* Correctness.                                                            *)

\* Every variable keeps to its type; light and speed fit their 32 and 16
\* bits, and only a firmware with a method gives a battery to steer.
TypeOK ==
    /\ phase \in {"wdg", "als", "ec0", "battery", "atk", "vsmc", "keys", "up", "failed",
                  "cancelled", "removed", "stopped", "panic"}
    /\ wmi \in {"unset", "WMNB", "WMxx"} /\ (rsoc => wmi # "unset")
    /\ alsDevice \in BOOLEAN /\ isALSEnabled \in BOOLEAN
    /\ lux \in Lux \cup {0, Off, Invalid} /\ fan \in 0 .. WordSize - 1
    /\ rsoc \in BOOLEAN /\ limit \in {80, 100} /\ conservative \in BOOLEAN
    /\ bdvt \in {0, 1} /\ smc \in {Nothing, 0, 1} /\ failed \in BOOLEAN
    /\ submit \in {"no", "made", "done"} /\ late \in BOOLEAN
    /\ poller \in {"none", "set", "released"} /\ timer \in {"off", "idle", "armed"}
    /\ poll \in {"idle", "read", "off", "fan"}
    /\ keys \in 0 .. MaxKeys /\ writes \in 0 .. MaxWrites

\* The callback finds the poller that it arms again, though it may do so
\* after stop has cancelled the timeout, and nothing panics, unless VirtualSMC
\* was published so late that its handler ran into stop: nothing removes
\* vsmcNotifier, and the handler then makes a timer that stop does not see
\* (refreshALS, stop, vsmcNotificationHandler).
PollerOutlivesPoll ==
    ~late => (poll # "idle" => poller = "set") /\ phase # "panic"

\* What the system reads of the battery, what the registry says and what the
\* firmware does are one thing, from boot on, unless the firmware refused the
\* last change (initBattery, BDVT::update, toggleBatteryConservativeMode).
BatteryFollowsKey ==
    rsoc /\ smc = Nothing /\ ~failed =>
        /\ conservative = (bdvt = 0)
        /\ limit = IF bdvt = 0 THEN 80 ELSE 100

\* A sensor that Fn + A has switched off comes to read 150 and stays there,
\* although the poller may be inside a reading when the key comes, and as
\* long as the driver is not stopped (handleMessage, refreshALS).
SensorGoesQuiet ==
    <>(alsDevice /\ timer = "armed") /\ <>[](~isALSEnabled /\ phase = "up")
        => <>[](lux = Off)
=============================================================================
