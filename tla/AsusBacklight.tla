---------------------------- MODULE AsusBacklight ---------------------------
(***************************************************************************)
(* The display and the keyboard backlight under the AsusFn kext, and its   *)
(* sensor poller.  The driver steers both lights by pressing keys of a     *)
(* virtual Apple keyboard; the system handles the presses later, in their  *)
(* order, and writes the keyboard's brightness back through the SMC key    *)
(* LKSB, from which the driver sets the hardware's level.                  *)
(*                                                                         *)
(* Threads: ACPI's notification thread, which runs one key to its end      *)
(* before the next; the system's HID side; the SMC thread; the driver's    *)
(* work loop, with the timer that looks for the keyboard and the poller.   *)
(***************************************************************************)
EXTENDS Integers, Sequences

CONSTANTS
    PanelValues,   \* display brightness the machine may boot with
    Steps,         \* keyboard backlight steps the system may choose itself
    MaxKeys,       \* bound on keys pressed
    MaxDims,       \* bound on changes of the keyboard by the system itself
    MaxLost,       \* bound on presses of one key that are lost
    None

PanelMax == 1024    \* brightness of the display: 16 steps of 64
PanelStep == 64
PanelSteps == 16
LastStep == 16      \* the system's steps of the keyboard backlight
TopLevel == 3       \* levels of the keyboard backlight: 0..3
LksbMax == 4095     \* LKSB has 12 bits

ASSUME BacklightAssumption ==
    /\ PanelValues \subseteq 0..PanelMax
    /\ Steps \subseteq 0..LastStep
    /\ MaxKeys \in Nat /\ MaxDims \in Nat /\ MaxLost \in Nat

VARIABLES
    kbdDevice,     \* whether start has made the virtual keyboard
    thread,        \* what ACPI's thread has left to do for its key
    reports,       \* key presses posted and not yet handled: <<usage, count>>
    panelOn,       \* isPanelBackLightOn
    level,         \* panelBrightnessLevel
    bright,        \* the display's brightness
    before,        \* history: brightness when the key last turned it off
    calm,          \* history: no brightness key since, and no press lost
    hasKeyboardBacklight,
    last,          \* lastBacklightValue
    step,          \* the system's step of the keyboard backlight
    smc,           \* the SMC thread: "idle", or "send" inside update
    hid,           \* hid_interface: "search" for a second, "found" or "none"
    lit,           \* level the keyboard last took, None before
    lost,          \* history: the report of the last update did not go out
    pressed,       \* history: the illumination key pressed when all was still
    alsDevice,     \* whether the ACPI ambient light sensor exists
    poller,        \* the sensor timer: "none", "armed" or "idle"
    polls,         \* parity of the readings of the fan
    keys,          \* keys pressed so far
    dims           \* changes made so far by the system itself

panelVars == <<panelOn, level, bright, before, calm>>
lightVars == <<hasKeyboardBacklight, last, step, smc, hid, lit, lost,
               pressed>>
devices == <<kbdDevice, alsDevice>>
sensorVars == <<devices, poller, polls>>
vars == <<thread, reports, panelVars, lightVars, sensorVars, keys, dims>>

-----------------------------------------------------------------------------
(* Conversions.                                                            *)

\* What the system writes to LKSB for a step, as update joins its 12 bits.
Lksb(s) == (s * 4091) \div LastStep

\* message and dispatchTCReport: level of the keyboard for a value of LKSB.
Level(tval) == (tval \div 16) \div 64

Up(s, amount, top) == IF s + amount > top THEN top ELSE s + amount
Down(s, amount) == IF s < amount THEN 0 ELSE s - amount

Illumination == {"IlluminationUp", "IlluminationDown"}
Usages == Illumination \cup {"BrightnessUp", "BrightnessDown"}

\* postKeyboardInputReport: of count presses, those that reach the system.
\* None does without the virtual keyboard, and one whose report cannot be
\* made is lost: dispatchTCReport takes no notice of the result.
Arriving(count) ==
    IF kbdDevice THEN {n \in 0..count : count - n <= MaxLost} ELSE {0}

\* dispatchTCReport, its last loop: n presses of the key arrive.
Post(usage, n) ==
    reports' = IF n = 0 THEN reports ELSE Append(reports, <<usage, n>>)

Settled == reports = <<>> /\ smc = "idle" /\ thread = "idle"

\* The driver has started.  startATKDevice lets the answer about the method
\* GFAN overwrite that about SKBV, so either outcome is met on any machine.
\* It goes on when initVirtualKeyboard has failed.
Init ==
    /\ kbdDevice \in BOOLEAN
    /\ thread = "idle" /\ reports = <<>>
    /\ panelOn = TRUE /\ level = 16 /\ bright \in PanelValues
    /\ before = None /\ calm = FALSE
    /\ hasKeyboardBacklight \in BOOLEAN /\ last = 0 /\ step \in Steps
    /\ smc = "idle" /\ hid = "search" /\ lit = None /\ lost = FALSE
    /\ pressed = None
    /\ alsDevice \in BOOLEAN /\ poller = "none" /\ polls = 0
    /\ keys = 0 /\ dims = 0

-----------------------------------------------------------------------------
(* Keys (handleMessage, on ACPI's thread).                                 *)

Press == thread = "idle" /\ keys < MaxKeys /\ keys' = keys + 1

\* Brightness keys, codes 0x10-0x1F and 0x20-0x2F.
BrightnessKey ==
    /\ Press
    /\ \E usage \in Usages \ Illumination, n \in Arriving(1) : Post(usage, n)
    /\ calm' = FALSE
    /\ UNCHANGED <<thread, panelOn, level, bright, before, lightVars,
                   sensorVars, dims>>

\* readPanelBrightnessValue; the registry entry may not be found.
ReadPanel ==
    \E found \in BOOLEAN :
        /\ level' = IF found THEN bright \div PanelStep ELSE level
        /\ before' = bright
        /\ calm' = (found /\ reports = <<>>)

\* displayOff, codes 0x33-0x35, up to the reading.
DisplayOff ==
    /\ Press
    /\ thread' = "displayOff"
    /\ IF panelOn THEN ReadPanel ELSE UNCHANGED <<level, before, calm>>
    /\ UNCHANGED <<reports, panelOn, bright, lightVars, sensorVars, dims>>

SwitchOneShort ==                                       \* mutant of SwitchPanel
    /\ thread = "displayOff"
    /\ thread' = "idle"
    /\ LET count == IF panelOn THEN PanelSteps - 1 ELSE level
       IN  \E n \in Arriving(count) :
              /\ Post(IF panelOn THEN "BrightnessDown" ELSE "BrightnessUp", n)
              /\ calm' = (calm /\ n = count)
    /\ panelOn' = ~panelOn
    /\ UNCHANGED <<level, bright, before, lightVars, sensorVars, keys, dims>>

\* The rest of displayOff: sixteen presses down, or level presses up.  The
\* panel counts as switched whether or not a press has arrived.
SwitchPanel ==
    /\ thread = "displayOff"
    /\ thread' = "idle"
    /\ LET count == IF panelOn THEN PanelSteps ELSE level
       IN  \E n \in Arriving(count) :
              /\ Post(IF panelOn THEN "BrightnessDown" ELSE "BrightnessUp", n)
              /\ calm' = (calm /\ n = count)
    /\ panelOn' = ~panelOn
    /\ UNCHANGED <<level, bright, before, lightVars, sensorVars, keys, dims>>

\* dispatchTCReport with type "keyboard": no press at the last level of the
\* key's direction, else as many as the levels have steps.
AtEnd(usage) == IF usage = "IlluminationUp" THEN Level(last) >= TopLevel
                                            ELSE Level(last) <= 0

EightPresses(usage) == IF AtEnd(usage) THEN 0 ELSE 8    \* mutant of Presses
Presses(usage) == IF AtEnd(usage) THEN 0 ELSE 4

\* Whether the system will hear all of a key and the driver knows its step.
Known == poller # "none" /\ last = Lksb(step)

\* Codes 0xC4 and 0xC5.
IlluminationKey(usage) ==
    /\ Press
    /\ \E n \in IF hasKeyboardBacklight THEN Arriving(Presses(usage)) ELSE {0} :
          /\ Post(usage, n)
          /\ pressed' =
                IF Settled
                THEN [usage |-> usage, step |-> step,
                      sure |-> Known /\ n # 0 /\ n = Presses(usage)]
                ELSE None
    /\ UNCHANGED <<thread, panelVars, hasKeyboardBacklight, last, step, smc,
                   hid, lit, lost, sensorVars, dims>>

-----------------------------------------------------------------------------
(* The system takes presses off the virtual keyboard.                      *)

TakePress ==
    reports' = IF Head(reports)[2] = 1 THEN Tail(reports)
               ELSE [reports EXCEPT ![1][2] = @ - 1]

HandleBrightness ==
    /\ reports # <<>>
    /\ Head(reports)[1] \notin Illumination
    /\ TakePress
    /\ bright' = IF Head(reports)[1] = "BrightnessUp"
                 THEN Up(bright, PanelStep, PanelMax)
                 ELSE Down(bright, PanelStep)
    /\ UNCHANGED <<thread, panelOn, level, before, calm, lightVars, sensorVars,
                   keys, dims>>

\* SMCKBrdBLightValue::update, up to the store of lastBacklightValue.
StoreBacklight(s) ==
    /\ step' = s
    /\ last' = Lksb(s)
    /\ smc' = "send"

\* Nobody writes LKSB before VirtualSMC has the driver's keys.
HandleIllumination ==
    /\ reports # <<>>
    /\ Head(reports)[1] \in Illumination
    /\ smc = "idle"
    /\ TakePress
    /\ IF poller = "none" THEN UNCHANGED <<step, last, smc>>
       ELSE StoreBacklight(IF Head(reports)[1] = "IlluminationUp"
                           THEN Up(step, 1, LastStep) ELSE Down(step, 1))
    /\ UNCHANGED <<thread, panelVars, hasKeyboardBacklight, hid, lit, lost,
                   pressed, sensorVars, keys, dims>>

\* The system sets the keyboard backlight itself (ambient light, idle).
DimKeyboard ==
    /\ dims < MaxDims /\ dims' = dims + 1
    /\ smc = "idle" /\ poller # "none"
    /\ \E s \in Steps : StoreBacklight(s)
    /\ pressed' = None
    /\ UNCHANGED <<thread, reports, panelVars, hasKeyboardBacklight, hid, lit,
                   lost, sensorVars, keys>>

Rounded(tval) == Up((tval + 512) \div 1024, 0, 3)       \* mutant of SentLevel
HalfLevel(tval) == tval \div 512                        \* mutant of SentLevel

\* message(kSetKeyboardBacklightMessage): the level, truncated to 8 bits.
SentLevel(tval) == Level(tval) % 256

\* The rest of update: message, and asus_kbd_backlight_set, which does
\* nothing until the HID interface is known.  The report is not made or not
\* taken, and neither is looked at.
SendBacklight ==
    /\ smc = "send"
    /\ smc' = "idle"
    /\ IF hasKeyboardBacklight /\ hid = "found"
       THEN /\ lost' \in BOOLEAN
            /\ lit' = IF lost' THEN lit ELSE SentLevel(last)
       ELSE UNCHANGED <<lit, lost>>
    /\ UNCHANGED <<thread, reports, panelVars, hasKeyboardBacklight, last, step,
                   hid, pressed, sensorVars, keys, dims>>

-----------------------------------------------------------------------------
(* The work loop.                                                          *)

\* findHIDInterfaceDelayed, once, a second after start.
FindHIDInterface ==
    /\ hid = "search"
    /\ hid' \in {"found", "none"}
    /\ UNCHANGED <<thread, reports, panelVars, hasKeyboardBacklight, last, step,
                   smc, lit, lost, pressed, sensorVars, keys, dims>>

\* vsmcNotificationHandler, when VirtualSMC takes the plugin.  The timer may
\* fail to be made or armed; the keys are there all the same.
SubmitPlugin ==
    /\ poller = "none"
    /\ poller' \in {"armed", "idle"}
    /\ UNCHANGED <<thread, reports, panelVars, lightVars, devices, polls,
                   keys, dims>>

NeverRearms == "idle"                                   \* mutant of AfterRefreshALS

\* refreshALS returns before it arms the poller when there is no sensor.
AfterRefreshALS == IF alsDevice THEN "armed" ELSE "idle"

\* The poller's callback: refreshALS, then refreshFan.
PollSensors ==
    /\ poller = "armed"
    /\ poller' = AfterRefreshALS
    /\ polls' = 1 - polls
    /\ UNCHANGED <<thread, reports, panelVars, lightVars, devices, keys, dims>>

Next ==
    \/ BrightnessKey \/ DisplayOff \/ SwitchPanel
    \/ \E usage \in Illumination : IlluminationKey(usage)
    \/ HandleBrightness \/ HandleIllumination \/ DimKeyboard \/ SendBacklight
    \/ FindHIDInterface \/ SubmitPlugin \/ PollSensors

\* The work loop serves a timer that has run out, again and again.
Spec == Init /\ [][Next]_vars /\ WF_vars(PollSensors)

-----------------------------------------------------------------------------
(* Correctness.                                                            *)

\* Every variable keeps to its type; the level sent to the keyboard is one
\* of the four that the hardware has.
TypeOK ==
    /\ kbdDevice \in BOOLEAN /\ thread \in {"idle", "displayOff"}
    /\ reports \in Seq(Usages \X (1..PanelSteps))
    /\ panelOn \in BOOLEAN /\ level \in 0..PanelSteps /\ bright \in 0..PanelMax
    /\ before \in (0..PanelMax) \cup {None} /\ calm \in BOOLEAN
    /\ hasKeyboardBacklight \in BOOLEAN /\ last \in 0..LksbMax
    /\ step \in 0..LastStep
    /\ smc \in {"idle", "send"} /\ hid \in {"search", "found", "none"}
    /\ lit \in (0..TopLevel) \cup {None}
    /\ lost \in BOOLEAN
    /\ pressed \in [usage : Illumination, step : 0..LastStep, sure : BOOLEAN]
                     \cup {None}
    /\ alsDevice \in BOOLEAN /\ poller \in {"none", "armed", "idle"}
    /\ polls \in 0..1 /\ keys \in 0..MaxKeys /\ dims \in 0..MaxDims

\* displayOff turns the display dark, and its next press brings it back to
\* the brightness it read, to the step below: whatever the time between the
\* two presses, even with the first one's reports still on their way.  It
\* takes that the reports had settled when the brightness was read, that no
\* brightness key came since, and that all of displayOff's own presses have
\* arrived: without the virtual keyboard none does, and the display stays
\* as it is while isPanelBackLightOn changes.
DisplayComesBack ==
    calm /\ reports = <<>> /\ thread = "idle" =>
        bright = IF panelOn THEN PanelStep * (before \div PanelStep) ELSE 0

\* The presses that dispatchTCReport makes of one illumination key move the
\* keyboard's level by one at most, in the key's direction, although the
\* system counts sixteen steps and the driver four levels, although
\* lastBacklightValue may be behind the system's step, and although presses
\* may be lost.  Where none is and the driver knows the step, they do move it
\* by one, but from the lowest step: the four presses up from there end in
\* the level they began in.
KeyMovesOneLevel ==
    Settled /\ pressed # None =>
        LET way   == IF pressed.usage = "IlluminationUp" THEN 1 ELSE -1
            moved == Level(Lksb(step)) - Level(Lksb(pressed.step))
        IN  /\ moved \in {0, way}
            /\ pressed.sure /\ pressed.step # 0 => moved = way

\* Once the keyboard has taken a level it shows the one that LKSB stands for
\* whenever the SMC thread is done and the report of its last update went
\* out, whatever the order of keys, the system's changes and the keyboard's
\* discovery, and whatever earlier reports were lost.  A lost report is not
\* sent again, and the level stays behind until LKSB is next written.
LampFollowsSMC ==
    smc = "idle" /\ lit # None /\ ~lost => lit = Level(last)

\* With a light sensor the poller, once armed, reads the sensors for ever:
\* refreshALS arms it again each time.
SensorsKeepPolling ==
    alsDevice /\ <>(poller = "armed") => []<>(polls = 0) /\ []<>(polls = 1)
=============================================================================
