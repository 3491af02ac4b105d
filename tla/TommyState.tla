------------------------------ MODULE TommyState ------------------------------
(***************************************************************************)
(* TommyState, the menu-bar program: MonitorManager samples the fan's      *)
(* speed (through SMCWrapper and smc.c) and a made-up GPU load on a serial *)
(* utility queue, and hands each sample to the main queue, which stores    *)
(* it, saves the user's choices and has StatusBarController redraw.        *)
(*                                                                         *)
(* A sample is the work of the timer's handler or of the button "refresh   *)
(* now"; both run fetchSensorValues, so there are two jobs the utility     *)
(* queue may run, one at a time.  The SMC is external: it may be missing,  *)
(* and any call may fail.  A sample is numbered by how many samples it is  *)
(* newer than the one on display.                                          *)
(***************************************************************************)
EXTENDS Integers, Sequences, FiniteSets

CONSTANTS
  Items,        \* what the menu may show: "fan" and "gpu"
  Speeds,       \* what the driver may have stored as the fan's speed
  WordSize,     \* values of the sixteen bits the SMC gives it in
  MaxLoad,      \* bound of the GPU load: 100.0 per cent
  FirstLoad,    \* load assumed before the first sample: 12.0
  MaxDelta,     \* most that a sample moves it: 6.0
  MaxWaiting,   \* bound on the blocks that wait on the main queue
  None,         \* nil, or not set
  Hidden        \* an item the menu bar does not show

Jobs == {"timer", "button"}

ASSUME ItemAssumption == Items \subseteq {"fan", "gpu"}
ASSUME LoadAssumption ==
  /\ Speeds \subseteq Nat /\ WordSize \in Nat \ {0} /\ MaxLoad \in Nat /\ MaxDelta \in Nat
  /\ FirstLoad \in 0 .. MaxLoad /\ {None, Hidden} \cap (Nat \cup BOOLEAN) = {}
ASSUME WaitingAssumption == MaxWaiting \in Nat \ {0}

VARIABLES
  running,      \* the process is there
  opened,       \* SMCWrapper.opened
  job,          \* where each job is
  sample,       \* the sample it is making
  queue,        \* blocks on the main queue
  fan, gpu,     \* fanRPM and gpuUsagePercent, None for nil
  choice,       \* showFanInMenu and showGPUInMenu
  saved,        \* the same in UserDefaults, None if not set
  menu,         \* what the menu bar shows of each item
  taken,        \* history: samples newer than the one on display
  frame         \* history: parity of the samples stored

jobVars  == <<opened, job, sample>>
mainVars == <<fan, gpu, menu, frame>>
vars == <<running, jobVars, queue, mainVars, choice, saved, taken>>

NoSample == [n |-> 0, fan |-> 0, gpu |-> 0, fresh |-> FALSE]
Refresh  == [kind |-> "refresh", of |-> NoSample]
Stores(s) == [kind |-> "store", of |-> s]
Waiting  == {i \in 1 .. Len(queue) : queue[i].kind = "store"}

Init ==
  /\ running = FALSE /\ opened = FALSE
  /\ job = [j \in Jobs |-> "idle"] /\ sample = [j \in Jobs |-> NoSample]
  /\ queue = <<>> /\ fan = None /\ gpu = None
  /\ choice = [i \in Items |-> TRUE] /\ saved = [i \in Items |-> None]
  /\ menu = [i \in Items |-> None]
  /\ taken = 0 /\ frame = 0

-----------------------------------------------------------------------------
(* refresh: an item that was not chosen is hidden.                         *)
Value(i, f, g) == IF i = "fan" THEN f ELSE g
Drawn(c, f, g) == [i \in Items |-> IF c[i] THEN Value(i, f, g) ELSE Hidden]

(* MonitorManager.init loads the choices, TRUE if there are none; the menu *)
(* is set up and drawn.                                                    *)
Launch ==
  /\ ~running /\ running' = TRUE
  /\ choice' = [i \in Items |-> saved[i] # FALSE]
  /\ menu' = Drawn(choice', None, None)
  /\ UNCHANGED <<jobVars, queue, fan, gpu, frame, saved, taken>>

(* Exit, or a crash, at any moment: everything but UserDefaults is gone.   *)
Quit ==
  /\ running /\ running' = FALSE
  /\ opened' = FALSE
  /\ job' = [j \in Jobs |-> "idle"] /\ sample' = [j \in Jobs |-> NoSample]
  /\ queue' = <<>> /\ fan' = None /\ gpu' = None /\ taken' = 0
  /\ menu' = [i \in Items |-> None] /\ choice' = [i \in Items |-> TRUE]
  /\ UNCHANGED <<saved, frame>>

-----------------------------------------------------------------------------
(* fetchSensorValues, on the utility queue.                                *)
ConcurrentQueue == TRUE                              \* mutant of QueueFree
QueueFree == \A j \in Jobs : job[j] = "idle"

(* The timer runs out, or the button is pressed.                           *)
Begin(j) ==
  /\ running /\ QueueFree /\ job[j] = "idle"
  /\ Cardinality(Waiting) + Cardinality({k \in Jobs : job[k] # "idle"}) < MaxWaiting
  /\ job' = [job EXCEPT ![j] = "fan"]
  /\ taken' = taken + 1
  /\ sample' = [sample EXCEPT ![j] = [NoSample EXCEPT !.n = taken + 1]]
  /\ UNCHANGED <<running, opened, queue, mainVars, choice, saved>>

(* F0Ac::readAccess encodes the speed with two binary places in 16 bits,   *)
(* and fpe2_to_float takes them off again.                                 *)
Rpm(speed) == ((4 * speed) % WordSize) \div 4

(* getFanRPM: no speed if the SMC cannot be opened.  SMCGetFanRPM returns  *)
(* 0 if a key cannot be read, so that the search ends at the first fan.    *)
ReadFan(j) ==
  /\ job[j] = "fan" /\ job' = [job EXCEPT ![j] = "gpu"]
  /\ opened' \in {opened, TRUE}
  /\ \E rpm \in {0} \cup {Rpm(s) : s \in Speeds} :
       /\ rpm # 0 => opened'
       /\ sample' = [sample EXCEPT ![j].fan = rpm]
  /\ UNCHANGED <<running, queue, mainVars, choice, saved, taken>>

Unclamped(g) == g                                    \* mutant of Clamped
Clamped(g) == IF g < 0 THEN 0 ELSE IF g > MaxLoad THEN MaxLoad ELSE g

FirstAgain == FirstLoad                              \* mutant of PreviousLoad
PreviousLoad == IF gpu = None THEN FirstLoad ELSE gpu

(* The load moves on from the one stored last, which the main queue may    *)
(* be about to change.                                                     *)
MoveLoad(j) ==
  /\ job[j] = "gpu" /\ job' = [job EXCEPT ![j] = "post"]
  /\ \E delta \in -MaxDelta .. MaxDelta :
       sample' = [sample EXCEPT ![j].gpu =
                    Clamped(PreviousLoad + delta),
                                ![j].fresh = (Waiting = {})]
  /\ UNCHANGED <<running, opened, queue, mainVars, choice, saved, taken>>

PostSample(j) ==
  /\ job[j] = "post" /\ job' = [job EXCEPT ![j] = "idle"]
  /\ sample' = [sample EXCEPT ![j] = NoSample]
  /\ queue' = Append(queue, Stores(sample[j]))
  /\ UNCHANGED <<running, opened, mainVars, choice, saved, taken>>

Fetch(j) == ReadFan(j) \/ MoveLoad(j) \/ PostSample(j)

-----------------------------------------------------------------------------
(* The main queue.                                                         *)
Renumber(s, n) == IF s.n = 0 THEN s ELSE [s EXCEPT !.n = @ - n]

SavesOnce ==                                         \* mutant of Saves
  [i \in Items |-> IF saved[i] = None THEN choice[i] ELSE saved[i]]
Saves == choice

NoStatusUpdate(rest) == rest                         \* mutant of StatusUpdate
StatusUpdate(rest) == Append(rest, Refresh)

(* A sample is stored, the choices are saved, and statusUpdate asks for a  *)
(* redraw, behind what waits already.                                      *)
StoreSample ==
  /\ queue # <<>> /\ Head(queue).kind = "store"
  /\ LET s == Head(queue).of
         renumbered == [i \in 1 .. Len(queue) - 1 |->
                          [queue[i + 1] EXCEPT !.of = Renumber(@, s.n)]]
     IN /\ queue' = StatusUpdate(renumbered)
        /\ sample' = [j \in Jobs |-> Renumber(sample[j], s.n)]
        /\ taken' = taken - s.n
        /\ fan' = s.fan /\ gpu' = s.gpu
  /\ frame' = 1 - frame
  /\ saved' = Saves
  /\ UNCHANGED <<running, opened, job, menu, choice>>

Redraw ==
  /\ queue # <<>> /\ Head(queue).kind = "refresh"
  /\ queue' = Tail(queue)
  /\ menu' = Drawn(choice, fan, gpu)
  /\ UNCHANGED <<running, jobVars, fan, gpu, frame, choice, saved, taken>>

(* The user switches an item on or off in the window.                      *)
Toggle(i) ==
  /\ running
  /\ Len(queue) < MaxWaiting
  /\ choice' = [choice EXCEPT ![i] = ~@]
  /\ queue' = StatusUpdate(queue)
  /\ UNCHANGED <<running, jobVars, mainVars, saved, taken>>

Main == StoreSample \/ Redraw

-----------------------------------------------------------------------------
Next == \/ Launch \/ Quit
        \/ (\E j \in Jobs : Begin(j) \/ Fetch(j))
        \/ Main \/ \E i \in Items : Toggle(i)

(* The timer runs out every two seconds and both queues run what is on     *)
(* them.  Nobody has to start the program, stop it or touch it.            *)
Fairness ==
  /\ WF_vars(Begin("timer")) /\ \A j \in Jobs : WF_vars(Fetch(j))
  /\ WF_vars(Main)

Spec == Init /\ [][Next]_vars /\ Fairness

-----------------------------------------------------------------------------
(* Every variable keeps to its type; the GPU load is a percentage.         *)
Samples == [n : Int, fan : Nat, gpu : 0 .. MaxLoad, fresh : BOOLEAN]

TypeOK ==
  /\ running \in BOOLEAN /\ opened \in BOOLEAN
  /\ job \in [Jobs -> {"idle", "fan", "gpu", "post"}] /\ sample \in [Jobs -> Samples]
  /\ queue \in Seq([kind : {"store", "refresh"}, of : Samples])
  /\ fan \in Nat \cup {None} /\ gpu \in (0 .. MaxLoad) \cup {None}
  /\ choice \in [Items -> BOOLEAN] /\ saved \in [Items -> BOOLEAN \cup {None}]
  /\ menu \in [Items -> Nat \cup {None, Hidden}]
  /\ taken \in Int /\ frame \in {0, 1}

(* With no redraw on its way the menu bar shows what the program holds,    *)
(* and hides what the user does not want to see (statusUpdate, refresh).   *)
MenuFollows ==
  running /\ (\A i \in 1 .. Len(queue) : queue[i].kind # "refresh")
    => menu = Drawn(choice, fan, gpu)

(* The load on display moves smoothly, as the comment in                   *)
(* fetchSensorValues says, except over samples made while an earlier one   *)
(* was still waiting for the main queue.                                   *)
UndelayedIsSmooth ==
  [][frame' # frame /\ Head(queue).of.fresh /\ gpu # None
       => gpu' - gpu \in -MaxDelta .. MaxDelta]_vars

(* What the user has chosen is in UserDefaults before long, unless the     *)
(* program ends first (the block in fetchSensorValues).                    *)
ChoiceIsSaved ==
  \A i \in Items : running /\ choice[i] # saved[i] ~> choice[i] = saved[i] \/ ~running

(* The display never goes back to an older sample, and keeps moving.       *)
Display == INSTANCE Gauge WITH behind <- taken
FollowsGauge == Display!Spec

=============================================================================
