# TLA+ models of macos-code

The repository holds kernel extensions for one ASUS machine running macOS and
the processes that talk to them. This directory models the parts of it in which
several threads, processes or devices meet, checks the models with TLC, and
proves the most important invariants with TLAPS for every value of the
constants. `PROJECT.json` lists components, runs, mutants, hazards, findings and
theorems, and maps every definition to the lines it models.

Contents: [the system](#the-system) ·
[modules](#modules-and-their-code) · [runs](#runs) · [bounds](#bounds) ·
[fairness](#fairness) · [proofs](#proofs) ·
[where the code disagrees with itself](#where-the-code-disagrees-with-itself) ·
[not modelled](#not-modelled) · [plan](#plan)

To check a run: `tlc -workers 2 -config <name>.cfg <Module>.tla`; to check a
proof: `tlapm <Module>_proofs.tla`.

## The system

### WakeSync: set the clock after a wake (`src/WakeSync`)

| part | state | operations |
|---|---|---|
| driver (`WakeSync.cpp`) | work loop, command gate, post-wake timer, power notifier, the set `_userClients` | `start`, `stop`, `newUserClient`, `powerEventHandler`, `schedulePostWakeSync`, `postWakeTimerFired`, the pass `LymosTimeSync_Perform` |
| user client (`WakeSyncUserClient.cpp`) | one `IOSharedDataQueue`, the notification port | `start`, `stop`, `clientClose`, `clientDied`, `postEvent`, mapping of the queue |
| daemon (`Daemon/WakeSyncd.c`) | connection, mapped queue, port, `g_running` | `main`, `msg_loop`, `drain_queue`, the signal handler, the exit handler; launchd restarts it |

A power event arms the timer; the timer runs a pass over the set, which posts
event 1 to the queue of every client; a message wakes the daemon's message
thread (or its ten-second timeout does), which drains the queue and runs sntp
for each event 1.

Hard behaviour. Four kinds of kernel thread run, and only the pass holds the
gate: the set is created and filled without it. The ring has **two** consumers
without a lock, because a full queue makes `postEvent` dequeue in the kernel
while the daemon dequeues in its process. Notifications are only sent for a
ring that turns non-empty and are dropped when the port is full. The daemon
may be told to stop, be killed and be restarted at any step. `stop` tears down
what a pass, a power handler or a client is using.

What makes it correct: no wake is forgotten in the queue; every wake that the
daemon could hear of is followed by a sync that starts after it; a pass reaches
all clients; nothing is torn down under a pass or a drain.

### QCABluetooth: firmware upload (`src/QCABluetooth`)

| part | state | operations |
|---|---|---|
| `QCABluetooth` | gate, open device, the interface found, its pipes | `start` with `findAndOpenInterface` and `firmwareUploadComplete`; `stop` |
| `QCAFirmwareLoader` | interface, pipe, packet size | `initWithInterface`, two images by header and blocks, `sendHciReset`, `free` |
| `QCAUSBTransport` | `fInterface` | `start` on the device (polls for a marked interface) or on an interface |

All of `start` runs on one thread; the transports are started on others and
want to open the very interface that the upload uses. Interfaces are withdrawn
and published again by the upload's own `setConfiguration`, and vanish when the
device is unplugged. Any request may fail.

What makes it correct: an interface is only marked as loaded when every byte of
both images was sent; the upload has its interface to itself; a failed start
leaves nothing open; start returns, if the device ends every bulk write, which
have no timeout.

### AsusFn: Fn keys, touchpad, lights, sensors (`src/AsusFn`)

| part | state | operations |
|---|---|---|
| touchpad and consumers | `_notificationServices`, the two notifiers, the command gate, `isTouchpadEnabled` | `registerNotifications`, `notificationHandler`, `dispatchMessage`, `toggleTouchpad`, `start`, `stop` |
| display and keyboard backlight | `isPanelBackLightOn`, `panelBrightnessLevel`, `lastBacklightValue`, the HID interface | `displayOff`, brightness and illumination keys, `dispatchTCReport`, the SMC key LKSB, `message`, `findHIDInterfaceDelayed` |
| sensors and battery | `wmi_method`, the devices found, `isALSEnabled`, `currentLux`, `currentFanSpeed`, the poller, the charge limit and the SMC key BDVT | `parse_WDG`, `initALSDevice`, `initEC0Device`, `initBattery`, `startATKDevice`, `registerVSMC`, `vsmcNotificationHandler`, `refreshALS`, `refreshFan`, Fn + A, `BDVT::update`, `stop` |

ACPI's notification thread handles keys one at a time, but each key only posts
presses on a virtual keyboard, which the system handles later; the system
writes the keyboard's level back on yet another thread. Consumers are published
and terminated on their own threads, also while the driver starts and stops.

What makes it correct: the set of consumers follows the living ones; a toggle
leaves all of them with the same, other, state; the display comes back to the
brightness it had, if the presses arrived; a key moves the keyboard's light by at
most one level; the light shows what LKSB says, if the last report arrived; the
poller keeps polling and its callback never loses its timer; a sensor that is switched off goes quiet although a reading may be under
way; what the system reads of the battery is what the firmware does.

### AsusKeys: hotkeys through ACPI (`src/AsusKeys`)

| part | state | operations |
|---|---|---|
| kext (`AsusKeys.cpp`) | provider, command gate, notifier, `_ec0Device`, `_atkDevice` | `start`, `stop`, `free`, `newUserClient`, `onACPIDevicePublished`, `handleUserMessage` and its six actions, `evaluateAcpiFromUser` |
| user client (`AsusKeysUserClient.cpp`) | `fProvider` | `start`, `stop`, `clientClose`, `logUsage`, `evaluateAcpiMethod` |
| `fnkeys` (`Script/keys.c`) | the cached connection `conn` | `send_key_info_to_kernel`; launchd restarts it |
| `exec-acpi` | a connection of its own | one evaluation, then it closes |

Hotkeys run on the calling program's thread, enter the kext's work loop through
the gate and evaluate a method of EC0 there; `exec-acpi` evaluates outside the
gate. ACPI devices are handed to the kext inside `start` and later on other
threads. An unload stops the clients, then the driver, while calls are under
way, and leaves `fnkeys` with a connection that never works again.

What makes it correct: for a hotkey that is reported as sent, its method has been
evaluated on EC0 (the firmware may have refused it: the kext only logs that);
one at a time uses the hardware; nothing panics while the kext stays loaded; an
unload comes to its end.

### TommyState: fan and load in the menu bar (`src/TommyState`)

| part | state | operations |
|---|---|---|
| `MonitorManager` | timer, utility queue, `fanRPM`, `gpuUsagePercent`, `showFanInMenu`, `showGPUInMenu`, UserDefaults | `init`, `startUpdating`, `fetchSensorValues`, `forceRefreshNow`, the switches |
| `SMCWrapper`, `smc.c` | the connection, opened when first needed | `getFanRPM`, `SMCReadKey` |
| `StatusBarController` | the two items of the menu bar | `setup`, `refresh` |

The timer and the refresh button make samples on a serial queue; the main queue
stores them, saves the choices and redraws, in the order in which the blocks
came. The program may end at any moment.

What makes it correct: the display never goes back to an older sample; the menu
shows what the program holds; the user's choices are saved; the load moves
smoothly.

### Other components

`AsusHIDKeyboard`, the remaining keys of AsusFn, samples and vendored SDKs: see
[not modelled](#not-modelled).

## Modules and their code

| module | models | how |
|---|---|---|
| `WakePromise` | what WakeSync promises | two counters: wakes announced, and wakes before the latest sync. Abstract. |
| `WakeQueue` | `postEvent`, `drain_queue`, `msg_loop`, the ring | one action per load or store of `head` and `tail` that the two sides race on; implements `WakePromise` |
| `WakeDriver` | `WakeSync.cpp` and the life of its user clients | one action per step of each thread between which another thread can get in |
| `WakeDaemon` | the process `WakeSyncd` and launchd | main thread, message thread, signals, exit handler; every call of `main` that can fail has a failing action |
| `WakeSync` | driver and daemon together | extends the driver (its own specification is `SyncSpec`), instantiates the daemon; a step that both take part in (opening, closing, posting, draining) is the conjunction of their actions; a queue is a number of entries |
| `QCABluetooth` | upload, transports and the USB stack | `b` is where `start` is, `tr` where each transport is |
| `AsusTouchpad` | consumers and Fn + F9 | gated functions are one step, the toggle's two passes over the set are two |
| `AsusBacklight` | lights | keys, the system's handling of presses, the SMC thread and the work loop are separate; the virtual keyboard may be missing, presses and reports may be lost; sensors appear only as the poller's next round |
| `AsusSensors` | sensors, WMI and battery | start is one action per function it calls; VirtualSMC's handler, the callback, Fn + A, the SMC thread and stop are separate, the handler and stop step by step |
| `KeyRelay` | what AsusKeys promises of a hotkey | asked, carried out one at a time or refused, answered. Abstract. |
| `AsusKeys` | kext, user clients, `fnkeys`, `exec-acpi` | `pc[c]` is where the call of a program is; a pointer's test and its use are two actions; implements `KeyRelay` |
| `Gauge` | what TommyState promises of its display | how far the display is behind, and the frames. Abstract. |
| `TommyState` | sampling, main queue, menu, UserDefaults | `job` is where the block on the utility queue is, `queue` the main queue; implements `Gauge` |
| `*_proofs` | | theorems about the module they extend; `WakeSync_proofs` has those about `WakeDriver` and `WakeDaemon` too |

Conventions. A variable has the name of the member or global it stands for when
there is one. Variables that only remember what happened, so that a property
can be stated, are declared as *history*. A definition marked *mutant of X* is
not part of any specification: it is `X` with a plausible bug, and the property
named with it in `PROJECT.json` fails when it takes the place of `X`.

Undefined outcomes are choices. A call through a pointer that another thread
has released either does nothing or panics (`UseReleasedTimer`, `PostToClient`,
`StopFlushesSet`, `KeyWithoutGate`, `HandlerPanics`, `ArmPoller`, `UseFreed` and
`Panic` of `AsusKeys`); after a panic nothing
happens any more. Code of Apple's that the repository only calls (the ring of
`IOSharedDataQueue`, OSSet iteration, IOKit termination, the USB stack,
addMatchingNotification) is modelled from how the sources use it.

How the parts of WakeSync divide the work: `WakeQueue` keeps one client and one
message thread that never goes away and looks at every interleaving inside the
ring. `WakeDriver` keeps only whether a queue is live, and looks at the threads
of the kernel and the teardown. `WakeDaemon` leaves the driver's answers open.
`WakeSync` closes both ends. It reduces a queue to a counter, which `WakeQueue`
justifies: there an unserved wake is always in the ring or in the daemon's
hands, and a message thread comes round to it whether or not it is notified.

## Runs

| run | module | distinct states | what it shows |
|---|---|---|---|
| `WakeQueue` | `WakeQueue` | 4,176 | `NoForgottenWake`, `OnlyWrittenTaken`: however the two consumers overwrite `head`, an unserved wake is in the ring or about to be served. `KeepsPromise`: the queue implements `WakePromise`, liveness included. |
| `WakeDriver` | `WakeDriver` | 28,424 | `GateOutlivesPass`: the teardown never takes gate or timer from a pass. `UndisturbedPassReachesAll`: the pass tells every client with a queue unless the set changes under it. `WakesAreAnnounced`: re-arming the timer loses no wake. |
| `WakeSync` | `WakeSync` | 38,816 | `DrainsLiveQueue`: the daemon only drains a queue that is mapped and whose client is connected, through signals, kills and restarts. `WakeIsServed`: a wake that comes while the daemon is connected, even before it has a message thread, is followed by a sync. `QuietMeansServed`: when handler, timer, pass and queue are at rest, every such wake has had its sync, so none is dropped on the way. |
| `WakeSyncFull` | `WakeSync` | about 18,000 | `WakeIsServed` with two wakes and room for one entry: full queue, sync under way. |
| `QCABluetooth` | `QCABluetooth` | 383,023 | `MarkedMeansLoaded`, `UploadsExclusively`, `FailedStartLeavesNothing`; `StartReturns`: start returns unless a device that stays plugged in leaves a bulk write unanswered for ever. |
| `AsusTouchpad` | `AsusTouchpad` | 13,026 | `RecordedFollowsLive`, `ConsumersAgree`, `PressFlips`. |
| `AsusBacklight` | `AsusBacklight` | 1,160,706 | `DisplayComesBack`: dark and back to the step it was at, if all of displayOff's presses arrived. `KeyMovesOneLevel`: one level at most and never the wrong way, whatever presses are lost; one level if none is and the driver knows the step, except up from the lowest. `LampFollowsSMC`: the level of LKSB, unless the last report was lost. `SensorsKeepPolling`. |
| `AsusSensors` | `AsusSensors` | 325,659 | `PollerOutlivesPoll`: stop never releases the timer under its callback, though the callback may arm it after the cancel, as long as VirtualSMC's handler has not run into stop. `BatteryFollowsKey`: BDVT, the property and the firmware agree from boot on, unless the firmware refused the last change. `SensorGoesQuiet`: switched off during a reading, the sensor still comes to read 150 for good. |
| `AsusKeys` | `AsusKeys` | 161,472 | `PressReachesEC`: "sent" means that the key's method was evaluated on EC0, carried out or refused there, if EC0 was there at start and no unload met the call. `SafeWhileLoaded`: no panic before an unload begins. `UnloadCompletes`: an unload ends. `RelaysPresses`: implements `KeyRelay`, liveness included. |
| `TommyState` | `TommyState` | 142,643 | `MenuFollows`, `UndelayedIsSmooth`, `ChoiceIsSaved`, and `FollowsGauge`: implements `Gauge`, liveness included. |

Each of these modules also has a type invariant; that of `WakeDriver` is checked as a part
of `SyncTypeOK` and proved with unloading too.

Two further runs are expected to fail: each checks one sentence of a comment
that the code does not keep (see
[below](#where-the-code-disagrees-with-itself)).

Limits of these properties, which the code gives them. `UndisturbedPassReachesAll`
says nothing of a pass whose set changed: OSSet's iterator then ends early, and
clients after the current one are not told. `WakeIsServed` holds all the same where the
daemon is the only opener: the next insertion is its own next connection, and
the earlier one is closed by then.
`WakeIsServed` promises nothing for a wake that comes when no daemon is
connected. `RecordedFollowsLive` leaves out consumers that came or went before
the notifier was noted. `DisplayComesBack` needs the presses to have settled
when the brightness was read, since a second displayOff in the meantime reads a
brightness on its way, and needs displayOff's own presses to have arrived: without
the virtual keyboard, or with a press lost, `isPanelBackLightOn` changes and the
display does not. `KeyMovesOneLevel` speaks of a key pressed when all was still. It
promises a change of the level only where no press is lost and the driver knows
the system's step, and not from the lowest step: four presses up from there end
in level 0 again, against the comment at `AsusFn.cpp:976-982`. That step, and the edges of a level are those of `Lksb`, the value that the system is
taken to write for each of its sixteen steps, which nothing in the repository
fixes. `LampFollowsSMC` speaks of the time after the first level that reached the
keyboard, since levels before its discovery are dropped, and leaves out a level
whose report could not be made or was not taken: nothing sends it again.
`ConsumersAgree` and `PressFlips` are about presses that no joining or changing
consumer met between the halves.
`StartReturns` assumes `DeviceAnswers`: a bulk write has no completion timeout,
and a device that keeps refusing a block holds `start` until it is unplugged.
`PollerOutlivesPoll` leaves out a handler for VirtualSMC that ran into stop (the
history `late`): nothing removes `vsmcNotifier`, and the handler then makes a
timer that stop does not see.
`SensorsKeepPolling` needs a light sensor.
`PressReachesEC` leaves out devices that appear after the kext was loaded: a
hotkey before that is reported as sent and does nothing. It cannot promise that
the firmware carried the method out, since the kext answers success either way.
It rests on `addMatchingNotification` calling its handler for devices that are
already published before it returns, as IOKit does and as the comments at
`AsusKeys.cpp:93` and `97` deny. `SafeWhileLoaded` ends
with the beginning of an unload, because a call that has tested the gate or
`_ec0Device` may then find it gone. `BatteryFollowsKey` says nothing after a
change that the firmware refused, since the key keeps the refused value.
`UndelayedIsSmooth` is about samples made while none waits to be stored; two
that wait together start from the same value and may show a jump of twice the
step.

Deadlock is checked in `WakeQueue`, whose threads go on for ever, and left off
where the system may really stop: a driver that failed to start, was unloaded
or panicked, a device unplugged for good, or a kext with no key left to handle.

## Bounds

| constant | value | why it is enough |
|---|---|---|
| `Slots` (WakeQueue) | 3 | the ring keeps one position free, so two entries fit: the least at which dropping one from a full ring leaves one. The proofs cover every size from 3. |
| `MaxTries` | 2 (10 in the code) | running out of attempts, and succeeding after one, both occur. Proved for every number. |
| `MaxWakes` (WakeQueue) | 5 | once round the ring and over, with both consumers late |
| `Clients`, `MaxWakes` (WakeDriver) | 2, 2 | two openers race for the set; the second wake meets the first one's timer or pass |
| `Clients`, `MaxWakes`, `MaxSignals`, `Room` (WakeSync) | 2, 1, 1, 2 | two opens are one restart of the daemon, at any step of the pass. A daemon that was killed may come back as often as there are clients. |
| the same (WakeSyncFull) | 1, 2, 1, 1 | the second wake finds the queue full or the sync under way |
| `Ifaces` | 2 | one interface may be rejected and the other taken; three transports compete |
| `HeaderSize`, `MainLen`, `RampLen`, `Packets`, `DefaultChunk` | 1, 6, 4, {0, 2}, 3 | images of several blocks with a short last one, with and without a stated packet size (20, 37796, 1922 and 1024 bytes in the code) |
| `Consumers`, `MaxKeys`, `MaxChanges` | 2, 2, 3 | a press with consumers that agree or differ, one of which comes, goes or changes between the halves of the toggle |
| `PanelValues`, `Steps` | {500, 1024}, {0, 5, 16} | a brightness that is no multiple of a step and the maximum; both ends and the middle of the keyboard's steps |
| `MaxKeys`, `MaxDims`, `MaxLost` (AsusBacklight) | 2, 1, 1 | off and on again, or two keys in flight, with one change by the system; each key may lose a press. Proved for every number, the loss of all included. |
| `MaxKeys`, `MaxWrites` (AsusSensors) | 3, 2 | off, on and off again around one reading; the battery away from its value at boot and back. Proved for every number. |
| `Speeds` (AsusSensors) | {68136} | a fan that is there (the seventeenth bit) at 2600: cutting it to sixteen bits matters |
| `Daemons`, `Tools`, `Usages`, `Devices` (AsusKeys) | 2, 1, {0xC5}, {EC0} | two sessions contend for the gate while the ungated call is in every position. The six hotkeys differ in the method only, and ATKD is never a target of a program; the proofs have any of these sets. |
| `MaxLoad`, `FirstLoad`, `MaxDelta` (TommyState) | 2, 1, 1 | three levels: a jump of two steps exists, both clamps are met |
| `MaxWaiting`, `Items` (TommyState) | 2, {fan} | two samples in the queue, or one and a switch, with the redraws they cause. Proved for any number. |

The counters `wakes`, `posted`, `signals`, `keys`, `changes` and `dims` exist
only to bound runs (`wakes` and `posted` are also what properties compare).
They bound nobody but the environment: no thread of the program is ever stopped
by one.

## Fairness

Fairness is weak, with one exception in `AsusKeys`, and is given to threads that the program itself has
started. Nothing is assumed of the user, the hardware, or a process that may or
may not open the service.

- `WakeQueue`: `postEvent` runs to its end; the message thread runs on, because
  `mach_msg` has a timeout and `system(sntp)` comes back.
- `WakeDriver`: the power thread, an armed timer, a pass, a teardown and the
  stop of a client run on. No wake, open, close or unload is forced.
- `WakeDaemon`, `WakeSync`: launchd restarts the process (`KeepAlive`), both
  threads run on. Signals and kills are not forced. A main thread inside
  `pause()` has no step, which is how the lost signal shows.
- `QCABluetooth`: the thread of `start` runs on. Its control requests have
  timeouts; a bulk write has none, so that it comes back is only assumed once the
  device is unplugged. No interface has to be published.
- `AsusTouchpad`: none; its properties are safety.
- `AsusBacklight`, `AsusSensors`: the work loop serves a timer that has run out.
- `AsusKeys`: threads run on, since ACPI methods come back; the thread that gets
  the work loop's gate is chosen with strong fairness, because presses come at
  the pace of a hand and the mutex hands over to who waits. Loading, unloading,
  opening and pressing are not forced.
- `TommyState`: the timer runs out again and again and both queues run what is
  on them. Neither the user nor the start or end of the program is forced.

## Proofs

All theorems are of the form `Spec => ...` for every value of the constants that
satisfies the named assumptions of the module (`SlotsAssumption`: at least three
positions; `MaxTriesAssumption`: at least one attempt; `MaxWakesAssumption`,
`MaxSignalsAssumption`, `TouchpadAssumption`, `SensorAssumption`,
`SizeAssumption`: bounds, sizes and readings are numbers; `BacklightAssumption`:
they are in the range of the panel and of the keyboard's steps; `RoomAssumption`: a
queue has room for an entry; `NoneAssumption`: no client stands for none; `CallerAssumption`: daemons and tools are different
programs; `LoadAssumption`: the first load is in range). TLC evaluates each of
these on the run of the module. Every inductive invariant was also checked by TLC.

**`WakeQueue_proofs`**: `TypeCorrect`, `TakesOnlyWritten`, `WakeIsRemembered`
(`NoForgottenWake`) and `RefinesPromise` (every step is a step or a stutter of
`WakePromise`, by the lemma `WhoCounts`: only the first step of `postEvent` and
the start of a sync touch what it counts). `NoForgottenWake` is not inductive, as it says nothing while
`postEvent` runs. `IInv` adds `UnservedInv`: if the wake being posted is
unserved and the daemon is not about to sync, no store of the daemon can have
touched `head` since `postEvent` began, for each such store is followed by a
sync that serves this wake. So the room that the enqueue saw is still there when
it publishes, and the full ring it saw is still full when it drops the oldest
entry. That a store is followed by a sync needs the entry to have been
written: `WrittenInv` says that until `tail` has gone round every head lies
before it.

**`WakeSync_proofs`**, the driver: `DriverTypeCorrect`, `PassIsGated`
(`GateOutlivesPass`) and `PassReachesAll` (`UndisturbedPassReachesAll`) of
`WakeDriver` alone, for any set of clients and with unloading. `LifeInv` follows
the timer through start and stop; `AtInv` keeps the pass inside its list;
`SetInv` says that who is in the set has been inserted, so its queue can be
released but not made during a pass; `PassInv` is what the pass has achieved up
to the client it is at. Lists are sequences; appending is reasoned about by
index.

The daemon: `DrainsOnlyWhatItHolds`, whatever the driver answers. `Acquires`
follows the handles in the order `main` takes them, `ThreadLives` says that a
message thread exists only from its creation to the join and holds them all
until it has left its loop.

The whole, for any number of clients, wakes, signals, failures, kills and
restarts and any room of the queues: `TypeCorrect`, `DrainsOnlyLive`
(`DrainsLiveQueue`), `NoWakeDropped` (`QuietMeansServed`), `SetHoldsTheDaemon`,
`DriverIsKept` and `DaemonIsKept`. The last two say that the composition
implements each part: every step of it is a step of the driver and a step of
the daemon, or leaves the part alone. So what either keeps by itself holds of
the whole. Three more parts of the invariant tie the two. `LinkInv`: the client
behind an open connection is connected and has its queue, because a client is
only stopped after its close. `OpenInv`: one client at a time is being opened,
for the daemon is one process and waits for `newUserClient`, so the set is made
once and holds the client behind the connection. This is `HoldsAllConnected`,
which fails in `WakeDriver`: the race that the run `WakeDriverHolds` shows takes
two openers. `ServeInv`: while a wake that the daemon could hear of is unserved,
the handler still has to arm the timer, or the timer is armed, or an
undisturbed pass is not yet past the client, or its queue holds an entry. A
full queue drops an entry for one that stands for a later wake, and a daemon
that takes an entry serves every wake up to that moment, so either leaves
`ServeInv` true; an insertion, which ends a pass early, needs a closed
connection, and who connects anew has heard nothing.

**`AsusTouchpad_proofs`**: `TypeCorrect`, `ConsumersAreKept`
(`RecordedFollowsLive`), `ConsumersAgreeAfterwards` and `PressesFlip`, for any
set of consumers. `RecordInv` follows the set through the driver's phases;
`ToggleInv` is what a toggle holds between its halves.

**`AsusBacklight_proofs`**: `TypeCorrect`, `DisplayIsRestored`
(`DisplayComesBack`), `KeysMoveOneLevel` (`KeyMovesOneLevel`) and `LampFollows`
(`LampFollowsSMC`), for any values of the panel, any steps of the keyboard and
any number of keys and dims. The first two speak of a moment when no press is
waiting and are not inductive; the invariant says what the presses still
waiting will do. `DisplayInv`: they bring the display to zero, or back to
`level`, or, when the key was pressed twice before the system came round, first
to zero and then back. `KeyInv`: the presses of a key that were handled have
moved the step in its direction, by no more than what the ones still waiting
leave of four. The level is LKSB cut down, and the steps at which it changes lie
four apart: wherever the step was, fewer than four steps cross one of them at
most, and four cross exactly one unless they begin at zero (`LevelOfStep`,
`LevelOfFour`). `LampInv`: only a keyboard that was found is sent
a level, and what it took last is LKSB's unless the last report was lost. That
presses may be lost costs `DisplayInv` nothing, since `calm` ends with the first
of displayOff's own that does not arrive, and `KeyInv` little: fewer than four
move the step by less.

**`QCABluetooth_proofs`**: `TypeCorrect`, `OnlyLoadedAreMarked`
(`MarkedMeansLoaded`), `UploadIsExclusive` (`UploadsExclusively`) and
`FailuresCleanUp` (`FailedStartLeavesNothing`), for any set of interfaces and
any sizes. `OpenInv` follows what is open and whose pipes are kept along
`start`: only the interface that is being looked at is open, and no pipe to send
to survives a rejection. `SentInv` says what the device has received at each
step, and that nothing is marked before the end.

**`AsusSensors_proofs`**: `TypeCorrect`, `TimerOutlivesCallback`
(`PollerOutlivesPoll`) and `BatteryAgrees` (`BatteryFollowsKey`). `WriteInv`: a
value on its way into BDVT is already the firmware's; `StartInv`: no
handler before VirtualSMC's publication was asked for; `TimerInv`: unless the
handler ran into stop, stop sees the timer it made, takes it off the work loop
once no callback runs, and releases it only then.

**`AsusKeys_proofs`**: `TypeCorrect`, `PressesReachEC` (`PressReachesEC`),
`LoadedIsSafe` (`SafeWhileLoaded`) and `RelaysSafely` (every step is a step or a
stutter of `KeyRelay`), for any programs and devices. `Life` says that before
the first unload nothing that was made is taken away; `Binding` what `start` has
bound when the driver is up; `Calls` that the call that acts is the one that
holds the gate.

**`TommyState_proofs`**: `TypeCorrect`, `MenuIsCurrent` (`MenuFollows`),
`LoadIsSmooth` (`UndelayedIsSmooth`) and `NeverGoesBack` (every step is a step
or a stutter of `Gauge`), for any range of the load and any number of waiting
blocks. `OrderInv`: samples wait in the order in which they were taken, the one
in the making is newer than all of them, and all are newer than what is shown,
so that storing the first one never goes back. `FreshInv`: a sample made while
none waited is the next to be stored and near what is shown.

Only model-checked: everything that needs fairness (`KeepsPromise`,
`RelaysPresses` and `FollowsGauge` beyond their safety parts,
`WakesAreAnnounced`, `WakeIsServed`, `StartReturns`, `SensorsKeepPolling`,
`SensorGoesQuiet`, `UnloadCompletes`, `ChoiceIsSaved`), which is out of the
prover's reach. Every safety property of a passing run is proved.

## Where the code disagrees with itself

Two are the counterexamples of runs that state what the comment says.

| run | what is said | what happens |
|---|---|---|
| `WakeDriverHolds` | `_userClients` keeps all connected user clients (`WakeSync.hpp:33`) | two processes that open at once both create the set; one client is dropped with the first set and never told of a wake |
| `WakeDaemonSignal` | a signal ends `pause()` and the daemon exits (`WakeSyncd.c:146`, `222`) | a signal between the test of `g_running` and `pause()` leaves the main thread asleep for good |

The others were met while modelling; `PROJECT.json` quotes the lines.

| where | what is said | what happens |
|---|---|---|
| `WakeSyncUserClient.cpp:106` | a full queue discards its oldest event | if the daemon empties the ring between the failed enqueue and the dequeue, the new event is given up. No wake is lost by it: `NoForgottenWake` |
| `QCABluetooth.cpp:105` | the interface stays open until `stop()` | releasing the loader at the end of `start` closes it |
| `AsusFn.cpp:1083` | Fn + F9 turns the touchpad on and off | a touchpad driver that was there before `registerNotifications` is never recorded, since the handler runs before the notifier it compares with is assigned |
| `AsusFn.cpp:568` | a keyboard backlight is supported if there is SKBV | the answer is overwritten by that about GFAN |
| `AsusFn.cpp:580` | sensors are refreshed every second | without a light sensor the fan is read once |
| `AsusFn.cpp:842` | displayOff turns the display off and on again | the flag changes although no press was posted, for want of the virtual keyboard or of a buffer |
| `AsusFn.cpp:1000` | each run of dispatchTCReport changes the keyboard's level (`976-982`) | four presses up from the lowest of the system's steps, all of which arrive, end in level 0 again |
| `AsusFn.cpp:336` | 'Keyboard backlight report sent successfully' | logged whatever `setReport` returned; a lost level is not sent again |
| `AsusFn.cpp:202` | stop cancels, removes and releases the poller | `vsmcNotifier` stays: its handler may make and arm a poller that stop does not see |
| `QCAFirmwareLoader.cpp:121` | requests have timeouts | the bulk write has none: a device that refuses a block for ever hangs `start` |
| `AsusKeys.cpp:417` | success is answered to a hotkey | also when its method failed in the firmware, which is only logged |
| `AsusKeys.cpp:98` | the notification comes asynchronously (`93`, `97`) | the handler runs for existing devices before the call returns, and the hotkeys rely on it |
| `AsusKeys.cpp:342` | the command gate serialises access to the hardware | `evaluateAcpiFromUser` does not take it |
| `send_usage.c:31` | sends a usage to the kext | page and usage are swapped, so the kext ignores it |
| `MonitorManager.swift:66` | tries the fans until one is valid; nil stands for unknown | a failed read gives 0, which ends the search and is shown |
| `MonitorManager.swift:83` | the load moves smoothly | not over a sample that still waits to be stored |
| `MonitorManager.swift:45`, `WakeSyncd.c:76` and others | durations and sizes | other ones |

## Not modelled

- **Registry properties, logging, descriptor data, the arguments and answers of
  ACPI methods, firmware contents**: no control depends on them.
- **Remaining keys of AsusFn**: volume, media, sleep and airplane keys send one
  report or one kernel event and keep no state. The virtual keyboard is constant
  descriptors, the other SMC keys convert one value. The HID hooks only log, are
  never instantiated or, as `AsusHIDHotkey`, are not part of the build.
- **A key left pressed in `AsusBacklight`**: a press is two reports; when only the
  second, the release, is lost, the system may repeat the key by itself. The model
  loses a press whole.
- **Stop of AsusFn in `AsusBacklight`**: the gate's life is in `AsusTouchpad`,
  the poller's in `AsusSensors`; the case of a failing `_WED`, which drops the
  key, is left out.
- **Dead code of `QCABluetooth.cpp`**: the event-reading functions and the second
  `uploadFirmware` have no caller.
- **Apple's transport** behind `QCAUSBTransport`: one step that opens the
  interface or fails.
- **TommyState's window, `TommyTool` and the login item**: layout, and calls of
  system services without a state of their own.
- **AsusHIDKeyboard**: the kext makes a gate and registers nothing; `fnkeys.c`
  is one callback on one run loop. It keeps a brightness of its own, which
  begins at 0.5 and is never read back, so after a restart, or a change made
  elsewhere, the key for darker may brighten the display.
- **Samples and proxies**: templates and experiments.
- **Reference counts** of the second release in `WakeSync::stop`, the timer and
  gate that a failed start leaves, the superclass's use of an interface that was
  withdrawn, and the C library inside a signal handler: below the level of these
  models (see the hazards without a property).

How much of the sources is modelled. Of the lines under `src/` that count as
implementation, about two thirds are not this project's program: the firmware
images (`qca_firmware.h`, 3,328 lines of numbers), the Lilu and VirtualSMC SDK
headers (about 7,000), and the headers Xcode generated under `TommyState/Build`
(about 2,500). The definitions stand for about 3,000 of the remaining lines;
what is left of those is the list above.

## Plan

Done, in this order: the queue and its promise (the riskiest code of the
repository), the driver, the daemon, their composition, the firmware upload, the
touchpad, the lights; then `AsusKeys` with its promise, the sensors and the
battery, `TommyState` with its promise, and the proofs listed above, those of the lights and of what
WakeSync's parts promise each other last.

What would come next:

1. Reference counts in `WakeDriver`, for the clients that `stop` releases twice.
2. `fnkeys` of AsusHIDKeyboard together with the system's own brightness.
