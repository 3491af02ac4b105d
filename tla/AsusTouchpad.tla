---------------------------- MODULE AsusTouchpad ----------------------------
(***************************************************************************)
(* The touchpad side of the AsusFn kext: the services ("consumers") that   *)
(* want to be told of Fn + F9, how the driver learns of them while it      *)
(* starts and stops, and the toggle itself.                                *)
(*                                                                         *)
(* Threads: the one that starts and stops the driver; ACPI's notification  *)
(* thread, which runs one key to its end before the next; the threads on   *)
(* which consumers are published and terminated.  dispatchMessageGated and *)
(* notificationHandlerGated are one step each: both run on the command     *)
(* gate, one at a time.                                                    *)
(***************************************************************************)
EXTENDS Naturals

CONSTANTS
    Consumers,     \* services with the property DeliverNotifications
    MaxKeys,       \* bound on presses of Fn + F9
    MaxChanges,    \* bound on what consumers do
    None

ASSUME TouchpadAssumption ==
    MaxKeys \in Nat /\ MaxChanges \in Nat /\ None \notin BOOLEAN

VARIABLES
    phase,         \* how far start, then stop, has come
    panic,         \* the command gate was used before it was made or after
                   \* its release
    thread,        \* what ACPI's thread has left to do for its key
    live,          \* consumers published and not terminated
    recorded,      \* _notificationServices
    missed,        \* history: consumers one of whose notices came too early
    pads,          \* what each consumer holds as its touchpad's state
    isTouchpadEnabled,
    common,        \* history: the state all consumers held before Fn + F9
    keys,          \* presses so far
    changes        \* what consumers did so far

vars == <<phase, panic, thread, live, recorded, missed, pads,
          isTouchpadEnabled, common, keys, changes>>

Phases == {"attached", "gated", "installed", "running", "stopping", "stopped"}

\* The command gate exists from its creation to its release in stop.
Gate == phase \in {"gated", "installed", "running"}

\* notificationHandlerGated compares its notifier with the members, which
\* registerNotifications assigns one after the other.
PublishNotify == phase \in {"installed", "running"}
TerminateNotify == phase = "running"

Running == ~panic /\ phase # "stopped"

FlagUnset == isTouchpadEnabled = None                   \* mutant of FlagAtInit

\* The member's initialiser.
FlagAtInit == isTouchpadEnabled = TRUE

Init ==
    /\ phase = "attached" /\ panic = FALSE /\ thread = "idle"
    /\ live \in SUBSET Consumers /\ recorded = {} /\ missed = live
    /\ pads \in [Consumers -> BOOLEAN]
    /\ FlagAtInit /\ common = None
    /\ keys = 0 /\ changes = 0

-----------------------------------------------------------------------------
(* start and stop.                                                         *)

\* start, up to the command gate.
CreateGate == phase = "attached" /\ phase' = "gated" /\ UNCHANGED recorded

\* registerNotifications: addMatchingNotification calls the handler for the
\* services already published before it returns; _publishNotify is still
\* null then, so the handler drops them.
RegisterPublish == phase = "gated" /\ phase' = "installed" /\ UNCHANGED recorded

\* The second notifier, and the rest of start.
RegisterTerminate ==
    phase = "installed" /\ phase' = "running" /\ UNCHANGED recorded

\* stop, up to the release of the command gate.
StopReleasesGate ==
    phase = "running" /\ phase' = "stopping" /\ UNCHANGED recorded

\* The rest of stop: the notifiers are removed and the set is emptied.
StopRemovesNotifiers ==
    phase = "stopping" /\ phase' = "stopped" /\ recorded' = {}

Life ==
    /\ CreateGate \/ RegisterPublish \/ RegisterTerminate
          \/ StopReleasesGate \/ StopRemovesNotifiers
    /\ UNCHANGED <<panic, thread, live, missed, pads, isTouchpadEnabled, common,
                   keys, changes>>

-----------------------------------------------------------------------------
(* Fn + F9, code 0x6B of handleMessage: toggleTouchpad.                    *)

\* Each recorded consumer writes its state into isTouchpadEnabled, and the
\* last answer stays.
Answers == IF recorded = {} THEN {isTouchpadEnabled} ELSE {pads[c] : c \in recorded}

\* The state that every recorded consumer holds, if there is one.
Agreed == {b \in BOOLEAN : recorded # {} /\ \A c \in recorded : pads[c] = b}

GetWithoutFlip ==                                       \* mutant of GetTouchStatus
    /\ thread = "idle" /\ keys < MaxKeys /\ Gate
    /\ thread' = "setTouchStatus" /\ keys' = keys + 1
    /\ isTouchpadEnabled' \in Answers
    /\ common' \in IF Agreed = {} THEN {None} ELSE Agreed
    /\ UNCHANGED <<phase, panic, live, recorded, missed, pads, changes>>

\* First half: ask, and flip the answer.
GetTouchStatus ==
    /\ thread = "idle" /\ keys < MaxKeys /\ Gate
    /\ thread' = "setTouchStatus" /\ keys' = keys + 1
    /\ \E answer \in Answers : isTouchpadEnabled' = ~answer
    /\ common' \in IF Agreed = {} THEN {None} ELSE Agreed
    /\ UNCHANGED <<phase, panic, live, recorded, missed, pads, changes>>

SetOnlyFirst ==                                         \* mutant of SetTouchStatus
    /\ thread = "setTouchStatus" /\ Gate
    /\ thread' = "idle"
    /\ pads' = [c \in Consumers |->
                   IF c \in recorded /\ c = CHOOSE f \in recorded : TRUE
                   THEN isTouchpadEnabled ELSE pads[c]]
    /\ UNCHANGED <<phase, panic, live, recorded, missed, isTouchpadEnabled,
                   common, keys, changes>>

\* Second half: tell every recorded consumer.
SetTouchStatus ==
    /\ thread = "setTouchStatus" /\ Gate
    /\ thread' = "idle"
    /\ pads' = [c \in Consumers |->
                   IF c \in recorded THEN isTouchpadEnabled ELSE pads[c]]
    /\ UNCHANGED <<phase, panic, live, recorded, missed, isTouchpadEnabled,
                   common, keys, changes>>

\* dispatchMessage calls through command_gate without a test.
KeyWithoutGate ==
    /\ thread = "idle" => keys < MaxKeys
    /\ ~Gate
    /\ panic' = TRUE
    /\ UNCHANGED <<phase, thread, live, recorded, missed, pads,
                   isTouchpadEnabled, common, keys, changes>>

toggleTouchpad == GetTouchStatus \/ SetTouchStatus \/ KeyWithoutGate

-----------------------------------------------------------------------------
(* Consumers, and the driver's notificationHandler.                        *)

Change == changes < MaxChanges /\ changes' = changes + 1

\* The handler itself calls through command_gate without a test, and the
\* notifiers are there until stop has removed them.
HandlerPanics == panic' = (phase = "stopping")

Publish(c) ==
    /\ Change
    /\ c \notin live
    /\ live' = live \cup {c}
    /\ IF PublishNotify
       THEN recorded' = recorded \cup {c} /\ UNCHANGED missed
       ELSE missed' = missed \cup {c} /\ UNCHANGED recorded
    /\ common' = None
    /\ HandlerPanics
    /\ UNCHANGED <<phase, thread, pads, isTouchpadEnabled, keys>>

TerminateKeeps(c) ==                                    \* mutant of Terminate
    /\ Change
    /\ c \in live
    /\ live' = live \ {c}
    /\ UNCHANGED <<recorded, missed>>
    /\ HandlerPanics
    /\ UNCHANGED <<phase, thread, pads, isTouchpadEnabled, common, keys>>

\* The same handler, for a termination.
Terminate(c) ==
    /\ Change
    /\ c \in live
    /\ live' = live \ {c}
    /\ IF TerminateNotify
       THEN recorded' = recorded \ {c} /\ UNCHANGED missed
       ELSE missed' = missed \cup {c} /\ UNCHANGED recorded
    /\ HandlerPanics
    /\ UNCHANGED <<phase, thread, pads, isTouchpadEnabled, common, keys>>

\* A consumer's state changes by other means than Fn + F9.
ToggleElsewhere(c) ==
    /\ Change
    /\ c \in live
    /\ pads' = [pads EXCEPT ![c] = ~@]
    /\ common' = None
    /\ UNCHANGED <<phase, panic, thread, live, recorded, missed,
                   isTouchpadEnabled, keys>>

Next ==
    /\ Running
    /\ \/ Life
       \/ toggleTouchpad
       \/ \E c \in Consumers : Publish(c) \/ Terminate(c) \/ ToggleElsewhere(c)

Spec == Init /\ [][Next]_vars

-----------------------------------------------------------------------------
(* Correctness.                                                            *)

\* Every variable keeps to its type.
TypeOK ==
    /\ phase \in Phases /\ panic \in BOOLEAN
    /\ thread \in {"idle", "setTouchStatus"}
    /\ live \subseteq Consumers /\ recorded \subseteq Consumers
    /\ missed \subseteq Consumers /\ pads \in [Consumers -> BOOLEAN]
    /\ isTouchpadEnabled \in BOOLEAN /\ common \in BOOLEAN \cup {None}
    /\ keys \in 0..MaxKeys /\ changes \in 0..MaxChanges

\* The set that toggleTouchpad reaches is the set of the living consumers,
\* but for those whose publication or termination came before the driver had
\* noted the notifier that the handler compares its own with.
RecordedFollowsLive ==
    phase = "running" =>
        \A c \in Consumers \ missed : c \in recorded <=> c \in live

\* When all recorded consumers held the same state as Fn + F9 came, and none
\* changed it or joined since, the press leaves them all with the other: the
\* two passes over the set, and the flip between them, make one toggle.
PressFlips ==
    [][thread = "setTouchStatus" /\ thread' = "idle" /\ common # None =>
          \A c \in recorded : pads'[c] = ~common]_vars

\* After a press is done all recorded consumers hold the state the driver
\* remembers, unless one joined or changed its state by other means since.
\* Its own flag and the consumers' states are kept by different drivers.
ConsumersAgree ==
    thread = "idle" /\ common # None =>
        \A c \in recorded : pads[c] = isTouchpadEnabled

=============================================================================
