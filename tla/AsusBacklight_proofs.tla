------------------------- MODULE AsusBacklight_proofs -------------------------
(***************************************************************************)
(* Proofs about AsusBacklight, for every display and keyboard the machine  *)
(* may boot with, and any number of keys and of changes by the system.     *)
(*                                                                         *)
(* Two of the properties speak of a moment when nothing is on its way.     *)
(* What holds on the way there is what the presses that still wait will do *)
(* to the light: they wait between presses of the other light, and the     *)
(* first of them may have been handled in part.                            *)
(***************************************************************************)
EXTENDS AsusBacklight, TLAPS

(* The reports rs about one of the lights stand at positions in S only.    *)
PanelOnlyAt(rs, S) == \A i \in 1..Len(rs) : rs[i][1] \notin Illumination => i \in S
KeyboardOnlyAt(rs, S) == \A i \in 1..Len(rs) : rs[i][1] \in Illumination => i \in S

(* Presses that turn a display at b dark.                                  *)
Darken(r, b) == r[1] = "BrightnessDown" /\ b <= PanelStep * r[2]

(* Presses that bring a display at b to the step n.                        *)
Restore(r, b, n) ==
    r[1] = "BrightnessUp" /\ r[2] <= n /\ b = PanelStep * (n - r[2])

WillBeDark(rs, b) ==
    \/ PanelOnlyAt(rs, {}) /\ b = 0
    \/ \E i \in 1..Len(rs) : Darken(rs[i], b) /\ PanelOnlyAt(rs, {i})

WillBeAt(rs, b, n) ==
    \/ PanelOnlyAt(rs, {}) /\ b = PanelStep * n
    \/ n = 0 /\ WillBeDark(rs, b)
    \/ \E i \in 1..Len(rs) : Restore(rs[i], b, n) /\ PanelOnlyAt(rs, {i})
    \/ \E i, j \in 1..Len(rs) :
          /\ i < j /\ Darken(rs[i], b) /\ PanelOnlyAt(rs, {i, j})
          /\ Restore(rs[j], 0, n)

(* While nothing but displayOff has moved the brightness.                  *)
DisplayInv ==
    calm =>
      /\ before \in 0..PanelMax /\ level = before \div PanelStep
      /\ panelOn /\ thread = "displayOff" => PanelOnlyAt(reports, {})
      /\ panelOn /\ thread = "idle" => WillBeAt(reports, bright, level)
      /\ ~panelOn => WillBeDark(reports, bright)

(* Where the step ends up after n presses of a key at step s, and where it *)
(* may be when the press p has had n presses of its own handled or lost.   *)
Shift(usage, s, n) == IF usage = "IlluminationUp" THEN s + n ELSE s - n

Moved(p, t, n) ==
    /\ IF p.usage = "IlluminationUp" THEN p.step <= t /\ t <= p.step + n
                                     ELSE p.step - n <= t /\ t <= p.step
    /\ p.sure => t = Shift(p.usage, p.step, n)

(* Of the four presses of a key, those still waiting move it no more.      *)
Waits(i) ==
    /\ KeyboardOnlyAt(reports, {i}) /\ reports[i][1] = pressed.usage
    /\ reports[i][2] <= 4 /\ Moved(pressed, step, 4 - reports[i][2])

KeyInv ==
    pressed # None =>
      /\ pressed \in [usage : Illumination, step : 0..LastStep, sure : BOOLEAN]
      /\ pressed.sure => /\ poller # "none"
                         /\ Shift(pressed.usage, pressed.step, 4) \in 1..LastStep
      /\ \/ KeyboardOnlyAt(reports, {}) /\ Moved(pressed, step, 4)
         \/ \E i \in 1..Len(reports) : Waits(i)

(* Only a keyboard that was found is sent a level.                         *)
LampInv ==
    lit # None => /\ hid = "found" /\ hasKeyboardBacklight
                  /\ smc = "idle" /\ ~lost => lit = Level(last)

IInv == TypeOK /\ DisplayInv /\ KeyInv /\ LampInv

-----------------------------------------------------------------------------
(* Conversions.                                                            *)
LEMMA Sizes ==
  /\ PanelMax = 1024 /\ PanelStep = 64 /\ PanelSteps = 16
  /\ LastStep = 16 /\ TopLevel = 3 /\ LksbMax = 4095
BY DEF PanelMax, PanelStep, PanelSteps, LastStep, TopLevel, LksbMax

(* The driver posts no more presses at a time than the display has steps.  *)
LEMMA Counts ==
  /\ 1 \in 0..PanelSteps /\ PanelSteps \in 0..PanelSteps /\ PanelSteps # 0
  /\ \A usage : Presses(usage) \in 0..PanelSteps
BY Sizes DEF Presses

(* Of a key's presses no more arrive than were made.                       *)
LEMMA Arrived ==
  ASSUME NEW count \in 0..PanelSteps
  PROVE  Arriving(count) \subseteq 0..count /\ 0..count \subseteq 0..PanelSteps
BY Sizes DEF Arriving

(* One press more, or one step, stays in its range.                        *)
LEMMA StaysIn ==
  /\ \A b \in 0..PanelMax : /\ Up(b, PanelStep, PanelMax) \in 0..PanelMax
                           /\ Down(b, PanelStep) \in 0..PanelMax
  /\ \A s \in 0..LastStep : /\ Up(s, 1, LastStep) \in 0..LastStep
                           /\ Down(s, 1) \in 0..LastStep
<1>1. ASSUME NEW b \in 0..PanelMax
      PROVE  Up(b, PanelStep, PanelMax) \in 0..PanelMax /\ Down(b, PanelStep) \in 0..PanelMax
  BY Sizes DEF Up, Down
<1>2. ASSUME NEW s \in 0..LastStep
      PROVE  Up(s, 1, LastStep) \in 0..LastStep /\ Down(s, 1) \in 0..LastStep
  BY Sizes DEF Up, Down
<1> QED BY <1>1, <1>2

Reports == Seq(Usages \X (1..PanelSteps))

(* The level of a step changes at four steps only.                         *)
LEMMA LevelOfStep ==
  ASSUME NEW s \in 0..LastStep
  PROVE  /\ Lksb(s) \in 0..LksbMax
         /\ Level(Lksb(s)) = IF s <= 4 THEN 0 ELSE IF s <= 8 THEN 1
                             ELSE IF s <= 12 THEN 2 ELSE 3
BY Sizes DEF Lksb, Level

(* Four steps are one level at most.                                       *)
LEMMA LevelOfFour ==
  ASSUME NEW s \in 0..LastStep, NEW t \in 0..LastStep, s <= t, t <= s + 4
  PROVE  /\ Level(Lksb(t)) - Level(Lksb(s)) \in {0, 1}
         /\ Level(Lksb(s)) - Level(Lksb(t)) \in {0, -1}
<1>1. Level(Lksb(s)) = IF s <= 4 THEN 0 ELSE IF s <= 8 THEN 1 ELSE IF s <= 12 THEN 2 ELSE 3
  BY LevelOfStep
<1>2. Level(Lksb(t)) = IF t <= 4 THEN 0 ELSE IF t <= 8 THEN 1 ELSE IF t <= 12 THEN 2 ELSE 3
  BY LevelOfStep
<1>3. s \in Int /\ t \in Int
  BY Sizes
<1> QED BY <1>1, <1>2, <1>3

(* And one level exactly, but from the lowest step.                        *)
LEMMA FourMore ==
  ASSUME NEW s \in 1..LastStep, NEW t \in 0..LastStep, t = s + 4
  PROVE  Level(Lksb(t)) - Level(Lksb(s)) = 1
<1>1. s \in 0..LastStep
  BY Sizes
<1>2. Level(Lksb(s)) = IF s <= 4 THEN 0 ELSE IF s <= 8 THEN 1 ELSE IF s <= 12 THEN 2 ELSE 3
  BY <1>1, LevelOfStep
<1>3. Level(Lksb(t)) = IF t <= 4 THEN 0 ELSE IF t <= 8 THEN 1 ELSE IF t <= 12 THEN 2 ELSE 3
  BY LevelOfStep
<1> QED BY <1>2, <1>3, Sizes

(* A value of LKSB is one of the four levels, and eight bits hold it.      *)
LEMMA LevelOfValue ==
  ASSUME NEW v \in 0..LksbMax
  PROVE  Level(v) \in 0..TopLevel /\ SentLevel(v) = Level(v)
<1>1. Level(v) \in 0..TopLevel
  BY Sizes DEF Level
<1>2. \A n \in 0..TopLevel : n % 256 = n
  BY Sizes
<1> QED BY <1>1, <1>2 DEF SentLevel

-----------------------------------------------------------------------------
(* Post appends one report, or none when the count is zero.                *)
LEMMA Posted ==
  ASSUME reports \in Reports, NEW usage \in Usages, NEW count \in 0..PanelSteps,
         Post(usage, count)
  PROVE  /\ reports' \in Reports
         /\ \/ count = 0 /\ reports' = reports
            \/ /\ count # 0 /\ Len(reports') = Len(reports) + 1
               /\ reports'[Len(reports')] = <<usage, count>>
               /\ \A i \in 1..Len(reports) : reports'[i] = reports[i]
<1>1. CASE count = 0
  BY <1>1 DEF Post
<1>2. CASE count # 0
  <2>1. <<usage, count>> \in Usages \X (1..PanelSteps)
    BY <1>2, Sizes
  <2>2. reports' = Append(reports, <<usage, count>>)
    BY <1>2 DEF Post
  <2> QED BY <1>2, <2>1, <2>2 DEF Reports
<1> QED BY <1>1, <1>2

(* The keys post presses of their own light only.                          *)
LEMMA SwitchPosts ==
  ASSUME TypeOK, SwitchPanel
  PROVE  /\ \E usage \in Usages \ Illumination, n \in 0..PanelSteps : Post(usage, n)
         /\ calm' => /\ calm
                     /\ Post(IF panelOn THEN "BrightnessDown" ELSE "BrightnessUp",
                             IF panelOn THEN PanelSteps ELSE level)
<1> DEFINE usage == IF panelOn THEN "BrightnessDown" ELSE "BrightnessUp"
           count == IF panelOn THEN PanelSteps ELSE level
<1>1. usage \in Usages \ Illumination
  BY DEF Usages, Illumination
<1>2. count \in 0..PanelSteps
  BY Counts DEF TypeOK
<1>3. PICK n \in Arriving(count) : Post(usage, n) /\ calm' = (calm /\ n = count)
  BY DEF SwitchPanel
<1>4. n \in 0..PanelSteps
  BY <1>2, <1>3, Arrived
<1>5. calm' => calm /\ n = count
  BY <1>3
<1> HIDE DEF usage, count
<1> QED BY <1>1, <1>3, <1>4, <1>5 DEF usage, count

LEMMA KeyPosts ==
  ASSUME NEW usage \in Illumination, IlluminationKey(usage)
  PROVE  \E n \in 0..PanelSteps :
           /\ n <= Presses(usage) /\ Post(usage, n)
           /\ pressed' # None =>
                /\ Settled
                /\ \E sure \in BOOLEAN :
                     /\ pressed' = [usage |-> usage, step |-> step, sure |-> sure]
                     /\ sure => Known /\ n = 4 /\ ~AtEnd(usage)
<1>1. PICK n \in IF hasKeyboardBacklight THEN Arriving(Presses(usage)) ELSE {0} :
         /\ Post(usage, n)
         /\ pressed' = IF Settled
                       THEN [usage |-> usage, step |-> step,
                             sure |-> Known /\ n # 0 /\ n = Presses(usage)]
                       ELSE None
  BY DEF IlluminationKey
<1>2. n \in 0..PanelSteps /\ n <= Presses(usage)
  BY <1>1, Counts, Arrived, Sizes DEF Presses
<1>3. ASSUME pressed' # None
      PROVE  /\ Settled
             /\ \E sure \in BOOLEAN :
                  /\ pressed' = [usage |-> usage, step |-> step, sure |-> sure]
                  /\ sure => Known /\ n = 4 /\ ~AtEnd(usage)
  <2>1. Settled
    BY <1>1, <1>3
  <2>2. (Known /\ n # 0 /\ n = Presses(usage)) \in BOOLEAN
    OBVIOUS
  <2>3. n # 0 /\ n = Presses(usage) => n = 4 /\ ~AtEnd(usage)
    BY DEF Presses
  <2> QED BY <1>1, <2>1, <2>2, <2>3
<1> QED BY <1>1, <1>2, <1>3

(* A key that is not at its end has four steps before it.                  *)
LEMMA Before ==
  ASSUME NEW usage \in Illumination, step \in 0..LastStep, Known, ~AtEnd(usage)
  PROVE  Shift(usage, step, 4) \in 1..LastStep
<1>1. Level(Lksb(step)) = IF step <= 4 THEN 0 ELSE IF step <= 8 THEN 1
                          ELSE IF step <= 12 THEN 2 ELSE 3
  BY LevelOfStep
<1>2. last = Lksb(step)
  BY DEF Known
<1>3. CASE usage = "IlluminationUp"
  <2>1. step \in 0..12
    BY <1>1, <1>2, <1>3, Sizes DEF AtEnd
  <2> QED BY <1>3, <2>1, Sizes DEF Shift
<1>4. CASE usage # "IlluminationUp"
  <2>1. step \in 5..16
    BY <1>1, <1>2, <1>4, Sizes DEF AtEnd
  <2> QED BY <1>4, <2>1, Sizes DEF Shift
<1> QED BY <1>3, <1>4

(* A press is taken from the first report, and the report with its last.   *)
LEMMA Taken ==
  ASSUME reports \in Reports, reports # <<>>, TakePress
  PROVE  /\ reports' \in Reports /\ Len(reports) >= 1
         /\ reports[1][1] = Head(reports)[1] /\ reports[1] \in Usages \X (1..PanelSteps)
         /\ \/ /\ reports[1][2] = 1 /\ Len(reports') = Len(reports) - 1
               /\ \A i \in 1..Len(reports') : reports'[i] = reports[i + 1]
            \/ /\ reports[1][2] > 1 /\ Len(reports') = Len(reports)
               /\ reports'[1][1] = reports[1][1] /\ reports'[1][2] = reports[1][2] - 1
               /\ \A i \in 2..Len(reports) : reports'[i] = reports[i]
<1>1. /\ Len(reports) \in Nat /\ Len(reports) >= 1 /\ Head(reports) = reports[1]
      /\ reports[1] \in Usages \X (1..PanelSteps)
  BY DEF Reports
<1>2. CASE reports[1][2] = 1
  <2>1. reports' = Tail(reports)
    BY <1>1, <1>2 DEF TakePress
  <2> QED BY <1>1, <1>2, <2>1 DEF Reports
<1>3. CASE reports[1][2] # 1
  <2>1. reports[1] = <<reports[1][1], reports[1][2]>> /\ reports[1][2] \in 2..PanelSteps
    BY <1>1, <1>3, Sizes
  <2>2. [reports[1] EXCEPT ![2] = @ - 1] = <<reports[1][1], reports[1][2] - 1>>
    BY <2>1
  <2>3. reports' = [reports EXCEPT ![1] = <<reports[1][1], reports[1][2] - 1>>]
    BY <1>1, <1>3, <2>2 DEF TakePress
  <2>4. <<reports[1][1], reports[1][2] - 1>> \in Usages \X (1..PanelSteps)
    BY <1>1, <2>1, Sizes
  <2> QED BY <1>1, <2>1, <2>3, <2>4 DEF Reports
<1> QED BY <1>1, <1>2, <1>3

-----------------------------------------------------------------------------
(* The invariant holds when the driver has started.                        *)
LEMMA InitInv == Init => IInv
<1> SUFFICES ASSUME Init PROVE IInv
  OBVIOUS
<1>1. keys \in 0..MaxKeys /\ dims \in 0..MaxDims
  BY BacklightAssumption DEF Init
<1>2. bright \in 0..PanelMax /\ step \in 0..LastStep
  BY BacklightAssumption DEF Init
<1>3. reports \in Reports
  BY DEF Init, Reports
<1>4. TypeOK
  <2>1. level \in 0..PanelSteps /\ last \in 0..LksbMax /\ polls \in 0..1
    BY Sizes DEF Init
  <2> QED BY <1>1, <1>2, <1>3, <2>1 DEF Init, TypeOK, Reports
<1>5. DisplayInv /\ KeyInv /\ LampInv
  BY DEF Init, DisplayInv, KeyInv, LampInv
<1> QED BY <1>4, <1>5 DEF IInv

-----------------------------------------------------------------------------
(* A store of LKSB keeps the types.                                        *)
LEMMA Stored ==
  ASSUME \/ UNCHANGED <<step, last, smc>>
         \/ \E s \in 0..LastStep : StoreBacklight(s),
         step \in 0..LastStep, last \in 0..LksbMax, smc \in {"idle", "send"}
  PROVE  step' \in 0..LastStep /\ last' \in 0..LksbMax /\ smc' \in {"idle", "send"}
<1>1. ASSUME NEW s \in 0..LastStep, StoreBacklight(s)
      PROVE  step' \in 0..LastStep /\ last' \in 0..LksbMax /\ smc' = "send"
  BY <1>1, LevelOfStep DEF StoreBacklight
<1> QED BY <1>1

(* Every step keeps the types.                                             *)
LEMMA TypeStep == TypeOK /\ [Next]_vars => TypeOK'
<1> SUFFICES ASSUME TypeOK, [Next]_vars PROVE TypeOK'
  OBVIOUS
<1>0. reports \in Reports /\ level \in 0..PanelSteps
  BY DEF TypeOK, Reports
<1> USE DEF TypeOK, vars, panelVars, lightVars, devices, sensorVars
<1>1. CASE BrightnessKey
  <2>1. PICK usage \in Usages, n \in 0..PanelSteps : Post(usage, n)
    BY <1>1, Arrived, Counts DEF BrightnessKey
  <2>2. reports' \in Reports
    BY <1>0, <2>1, Posted
  <2>3. keys' \in 0..MaxKeys
    BY <1>1, BacklightAssumption DEF BrightnessKey, Press
  <2>4. /\ reports' \in Seq(Usages \X (1..PanelSteps)) /\ calm' \in BOOLEAN
        /\ UNCHANGED <<thread, panelOn, level, bright, before, lightVars, sensorVars, dims>>
    BY <1>1, <2>2 DEF BrightnessKey, Reports
  <2> QED BY <2>3, <2>4
<1>2. CASE DisplayOff
  <2>1. keys' \in 0..MaxKeys
    BY <1>2, BacklightAssumption DEF DisplayOff, Press
  <2>2. bright \div PanelStep \in 0..PanelSteps
    <3>1. \A b \in 0..PanelMax : b \div PanelStep \in 0..PanelSteps
      BY ONLY Sizes
    <3> QED BY <3>1
  <2>3. level' \in 0..PanelSteps /\ before' \in (0..PanelMax) \cup {None} /\ calm' \in BOOLEAN
    BY <1>2, <2>2 DEF DisplayOff, ReadPanel
  <2> QED BY <1>2, <2>1, <2>3 DEF DisplayOff
<1>3. CASE SwitchPanel
  <2>1. reports' \in Reports
    <3>1. \E usage \in Usages, n \in 0..PanelSteps : Post(usage, n)
      BY <1>3, SwitchPosts
    <3> QED BY <1>0, <3>1, Posted
  <2>2. calm' \in BOOLEAN
    BY <1>3 DEF SwitchPanel
  <2> QED BY <1>3, <2>1, <2>2 DEF SwitchPanel, Reports
<1>4. ASSUME NEW usage \in Illumination, IlluminationKey(usage)
      PROVE  TypeOK'
  <2>1. reports' \in Reports
    <3>1. PICK n \in 0..PanelSteps : Post(usage, n)
      BY <1>4, KeyPosts
    <3>2. usage \in Usages
      BY DEF Usages
    <3> QED BY <1>0, <3>1, <3>2, Posted
  <2>2. keys' \in 0..MaxKeys
    BY <1>4, BacklightAssumption DEF IlluminationKey, Press
  <2>4. pressed' \in [usage : Illumination, step : 0..LastStep, sure : BOOLEAN]
                         \cup {None}
    BY <1>4, KeyPosts
  <2> QED BY <1>4, <2>1, <2>2, <2>4 DEF IlluminationKey, Reports
<1>5. CASE HandleBrightness
  <2>1. reports' \in Reports
    BY <1>5, Taken DEF HandleBrightness, Reports
  <2>2. bright' \in 0..PanelMax
    BY <1>5, StaysIn DEF HandleBrightness
  <2> QED BY <1>5, <2>1, <2>2 DEF HandleBrightness, Reports
<1>6. CASE HandleIllumination
  <2>1. reports' \in Reports
    BY <1>6, Taken DEF HandleIllumination, Reports
  <2>2. Up(step, 1, LastStep) \in 0..LastStep /\ Down(step, 1) \in 0..LastStep
    BY StaysIn
  <2>3. \/ UNCHANGED <<step, last, smc>>
        \/ \E s \in 0..LastStep : StoreBacklight(s)
    BY <1>6, <2>2 DEF HandleIllumination
  <2>4. step' \in 0..LastStep /\ last' \in 0..LksbMax /\ smc' \in {"idle", "send"}
    BY <2>3, Stored
  <2> QED BY <1>6, <2>1, <2>4 DEF HandleIllumination, Reports
<1>7. CASE DimKeyboard
  <2>1. dims' \in 0..MaxDims
    BY <1>7, BacklightAssumption DEF DimKeyboard
  <2>2. \E s \in 0..LastStep : StoreBacklight(s)
    BY <1>7, BacklightAssumption DEF DimKeyboard
  <2>3. step' \in 0..LastStep /\ last' \in 0..LksbMax /\ smc' \in {"idle", "send"}
    BY <2>2, Stored
  <2> QED BY <1>7, <2>1, <2>3 DEF DimKeyboard
<1>8. CASE SendBacklight
  <2>1. SentLevel(last) \in 0..TopLevel
    BY LevelOfValue
  <2>2. lit' \in (0..TopLevel) \cup {None} /\ lost' \in BOOLEAN
    BY <1>8, <2>1 DEF SendBacklight
  <2> QED BY <1>8, <2>2 DEF SendBacklight
<1>9. CASE FindHIDInterface
  BY <1>9 DEF FindHIDInterface
<1>10. CASE SubmitPlugin
  BY <1>10 DEF SubmitPlugin
<1>11. CASE PollSensors
  BY <1>11 DEF PollSensors, AfterRefreshALS
<1>12. CASE UNCHANGED vars
  BY <1>12
<1> QED BY <1>1, <1>2, <1>3, <1>4, <1>5, <1>6, <1>7, <1>8, <1>9, <1>10, <1>11, <1>12
        DEF Next

-----------------------------------------------------------------------------
(* The keyboard: what it was last sent is what LKSB says, or the SMC       *)
(* thread is about to send.                                                *)
LEMMA LampStep == TypeOK /\ LampInv /\ [Next]_vars => LampInv'
<1> SUFFICES ASSUME TypeOK, LampInv, [Next]_vars PROVE LampInv'
  OBVIOUS
<1> USE DEF LampInv, vars, panelVars, lightVars, devices, sensorVars
<1>1. CASE UNCHANGED <<hasKeyboardBacklight, last, smc, hid, lit, lost>>
  BY <1>1
<1>2. CASE HandleIllumination \/ DimKeyboard
  BY <1>2 DEF HandleIllumination, DimKeyboard, StoreBacklight
<1>3. CASE SendBacklight
  <2>1. SentLevel(last) = Level(last)
    BY LevelOfValue DEF TypeOK
  <2> QED BY <1>3, <2>1 DEF SendBacklight
<1>4. CASE FindHIDInterface
  BY <1>4 DEF FindHIDInterface
<1> QED BY <1>1, <1>2, <1>3, <1>4
        DEF Next, BrightnessKey, DisplayOff, SwitchPanel, IlluminationKey,
            HandleBrightness, SubmitPlugin, PollSensors

-----------------------------------------------------------------------------
(* The reports about a light after a report was added or a press taken:    *)
(* where they stood they stand, or one place further in front.             *)
LEMMA OnlyAtAdded ==
  ASSUME reports \in Reports, Len(reports') = Len(reports) + 1,
         \A i \in 1..Len(reports) : reports'[i] = reports[i], NEW S
  PROVE  /\ KeyboardOnlyAt(reports, S) /\ reports'[Len(reports')][1] \notin Illumination
              => KeyboardOnlyAt(reports', S)
         /\ KeyboardOnlyAt(reports, S) => KeyboardOnlyAt(reports', S \cup {Len(reports')})
         /\ PanelOnlyAt(reports, S) /\ reports'[Len(reports')][1] \in Illumination
              => PanelOnlyAt(reports', S)
         /\ PanelOnlyAt(reports, S) => PanelOnlyAt(reports', S \cup {Len(reports')})
<1> Len(reports) \in Nat /\ Len(reports') \in Nat
  BY DEF Reports
<1>1. \A i \in 1..Len(reports') : \/ i \in 1..Len(reports) /\ reports'[i] = reports[i]
                                 \/ i = Len(reports')
  OBVIOUS
<1> QED BY <1>1 DEF KeyboardOnlyAt, PanelOnlyAt

(* The places left by S when a press is taken are R.                       *)
LEMMA OnlyAtTaken ==
  ASSUME reports \in Reports, reports # <<>>, TakePress, NEW S, NEW R,
         \/ Len(reports') = Len(reports) /\ R = S
         \/ Len(reports') = Len(reports) - 1 /\ R = {i \in 1..Len(reports') : i + 1 \in S}
  PROVE  /\ KeyboardOnlyAt(reports, S) => KeyboardOnlyAt(reports', R)
         /\ PanelOnlyAt(reports, S) => PanelOnlyAt(reports', R)
<1> Len(reports) \in Nat /\ Len(reports') \in Nat
  BY Taken DEF Reports
<1>1. CASE Len(reports') = Len(reports) /\ R = S
  <2>1. \A i \in 1..Len(reports') : reports'[i][1] = reports[i][1] /\ i \in 1..Len(reports)
    <3> TAKE i \in 1..Len(reports')
    <3>1. i = 1 \/ i \in 2..Len(reports)
      BY <1>1
    <3> QED BY <1>1, <3>1, Taken
  <2> QED BY <1>1, <2>1 DEF KeyboardOnlyAt, PanelOnlyAt
<1>2. CASE Len(reports') = Len(reports) - 1 /\ R = {i \in 1..Len(reports') : i + 1 \in S}
  <2>1. \A i \in 1..Len(reports') : reports'[i] = reports[i + 1] /\ i + 1 \in 1..Len(reports)
    BY <1>2, Taken
  <2> QED BY <1>2, <2>1 DEF KeyboardOnlyAt, PanelOnlyAt
<1> QED BY <1>1, <1>2

-----------------------------------------------------------------------------
(* Every step keeps what the key pressed last has promised.                *)
LEMMA KeyStep == TypeOK /\ KeyInv /\ [Next]_vars => KeyInv'
<1> SUFFICES ASSUME TypeOK, KeyInv, [Next]_vars, pressed' # None PROVE KeyInv'
  BY DEF KeyInv
<1> USE DEF vars, panelVars, lightVars, devices, sensorVars
<1>0. reports \in Reports /\ Len(reports) \in Nat
  BY DEF TypeOK, Reports
<1>9. poller # "none" => poller' # "none"
  BY DEF Next, BrightnessKey, DisplayOff, SwitchPanel, IlluminationKey, HandleBrightness,
         HandleIllumination, DimKeyboard, SendBacklight, FindHIDInterface, SubmitPlugin,
         PollSensors, AfterRefreshALS
<1>1. CASE UNCHANGED <<reports, step, pressed>>
  BY <1>1, <1>9 DEF KeyInv, Waits
<1>2. CASE BrightnessKey \/ SwitchPanel
  <2>1. PICK usage \in Usages \ Illumination, n \in 0..PanelSteps : Post(usage, n)
    BY <1>2, Arrived, Counts, SwitchPosts DEF BrightnessKey
  <2>2. UNCHANGED <<step, pressed>>
    BY <1>2 DEF BrightnessKey, SwitchPanel
  <2>3. CASE reports' = reports
    BY <1>1, <2>2, <2>3
  <2>4. CASE reports' # reports
    <3>1. /\ Len(reports') = Len(reports) + 1 /\ reports'[Len(reports')][1] \notin Illumination
          /\ \A i \in 1..Len(reports) : reports'[i] = reports[i]
      BY <1>0, <2>1, <2>4, Posted
    <3>2. \A S : KeyboardOnlyAt(reports, S) => KeyboardOnlyAt(reports', S)
      BY <1>0, <3>1, OnlyAtAdded
    <3>3. \A i \in 1..Len(reports) : i \in 1..Len(reports')
      BY <1>0, <3>1
    <3> QED BY <1>9, <2>2, <3>1, <3>2, <3>3 DEF KeyInv, Waits
  <2> QED BY <2>3, <2>4
<1>3. ASSUME NEW usage \in Illumination, IlluminationKey(usage)
      PROVE  KeyInv'
  <2>1. PICK n \in 0..PanelSteps :
           /\ n <= Presses(usage) /\ Post(usage, n) /\ Settled
           /\ \E sure \in BOOLEAN :
                /\ pressed' = [usage |-> usage, step |-> step, sure |-> sure]
                /\ sure => Known /\ n = 4 /\ ~AtEnd(usage)
    BY <1>3, KeyPosts
  <2>2. step \in 0..LastStep /\ step' = step /\ n \in 0..4 /\ reports = <<>>
    BY <1>3, <2>1, Sizes DEF TypeOK, IlluminationKey, Presses, Settled
  <2>3. /\ pressed' \in [usage : Illumination, step : 0..LastStep, sure : BOOLEAN]
        /\ pressed'.usage = usage /\ pressed'.step = step
        /\ pressed'.sure => Known /\ n = 4 /\ ~AtEnd(usage)
    BY <2>1, <2>2
  <2>4. pressed'.sure => /\ poller' # "none"
                         /\ Shift(pressed'.usage, pressed'.step, 4) \in 1..LastStep
    BY <1>9, <2>2, <2>3, Before DEF Known
  <2>5. Moved(pressed', step', 4 - n)
    <3>1. pressed'.sure => step' = Shift(usage, step, 4 - n)
      BY <2>2, <2>3, Sizes DEF Shift
    <3> QED BY <2>2, <2>3, <3>1, Sizes DEF Moved
  <2>6. CASE n = 0
    <3>1. reports' = <<>>
      BY <2>1, <2>2, <2>6 DEF Post
    <3>2. KeyboardOnlyAt(reports', {})
      BY <3>1 DEF KeyboardOnlyAt
    <3> QED BY <2>3, <2>4, <2>5, <2>6, <3>2 DEF KeyInv
  <2>7. CASE n # 0
    <3>1. Len(reports') = 1 /\ reports'[1] = <<usage, n>>
      BY <1>0, <2>1, <2>2, <2>7, Posted DEF Usages
    <3>2. KeyboardOnlyAt(reports', {1}) /\ 1 \in 1..Len(reports')
      BY <3>1 DEF KeyboardOnlyAt
    <3>3. reports'[1][1] = pressed'.usage /\ reports'[1][2] = n /\ n <= 4
      BY <2>2, <2>3, <3>1
    <3> QED BY <2>3, <2>4, <2>5, <3>2, <3>3 DEF KeyInv, Waits
  <2> QED BY <2>6, <2>7
<1>4. CASE HandleBrightness
  <2>1. /\ reports # <<>> /\ TakePress /\ reports[1][1] \notin Illumination
        /\ UNCHANGED <<step, pressed>>
    BY <1>0, <1>4, Taken DEF HandleBrightness
  <2>2. /\ pressed \in [usage : Illumination, step : 0..LastStep, sure : BOOLEAN]
        /\ Len(reports') \in Nat
    BY <1>0, <2>1, Taken DEF KeyInv, Reports
  <2>3. \/ KeyboardOnlyAt(reports, {}) /\ Moved(pressed, step, 4)
        \/ \E i \in 1..Len(reports) : Waits(i)
    BY <2>1 DEF KeyInv
  <2>8. pressed'.sure => /\ poller' # "none"
                         /\ Shift(pressed'.usage, pressed'.step, 4) \in 1..LastStep
    BY <1>9, <2>1 DEF KeyInv
  <2>4. CASE KeyboardOnlyAt(reports, {}) /\ Moved(pressed, step, 4)
    <3>1. KeyboardOnlyAt(reports', {})
      BY <1>0, <2>1, <2>4, Taken, OnlyAtTaken
    <3> QED BY <2>1, <2>2, <2>4, <2>8, <3>1 DEF KeyInv
  <2>5. ASSUME NEW i \in 1..Len(reports), Waits(i)
        PROVE  KeyInv'
    <3>1. i # 1
      BY <2>1, <2>2, <2>5 DEF Waits
    <3>2. PICK k \in 1..Len(reports') :
             reports'[k] = reports[i] /\ KeyboardOnlyAt(reports', {k})
      <4>1. CASE Len(reports') = Len(reports)
        <5>1. KeyboardOnlyAt(reports', {i})
          BY <1>0, <2>1, <2>5, <4>1, OnlyAtTaken DEF Waits
        <5>2. i \in 2..Len(reports) /\ i \in 1..Len(reports')
          BY <1>0, <3>1, <4>1
        <5>3. reports'[i] = reports[i]
          BY <1>0, <2>1, <4>1, <5>2, Taken
        <5> QED BY <5>1, <5>2, <5>3
      <4>2. CASE Len(reports') = Len(reports) - 1
        <5>1. i - 1 \in 1..Len(reports') /\ reports'[i - 1] = reports[i]
          BY <1>0, <2>1, <2>2, <3>1, <4>2, Taken
        <5>2. {k \in 1..Len(reports') : k + 1 \in {i}} = {i - 1}
          BY <2>2, <5>1
        <5>3. KeyboardOnlyAt(reports', {i - 1})
          BY <1>0, <2>1, <2>5, <4>2, <5>2, OnlyAtTaken DEF Waits
        <5> QED BY <5>1, <5>3
      <4> QED BY <1>0, <2>1, <4>1, <4>2, Taken
    <3> QED BY <2>1, <2>2, <2>5, <2>8, <3>2 DEF KeyInv, Waits
  <2> QED BY <2>3, <2>4, <2>5
<1>5. CASE HandleIllumination
  <2>1. /\ reports # <<>> /\ TakePress /\ reports[1][1] \in Illumination
        /\ UNCHANGED pressed
    BY <1>0, <1>5, Taken DEF HandleIllumination
  <2>2. /\ pressed \in [usage : Illumination, step : 0..LastStep, sure : BOOLEAN]
        /\ Len(reports') \in Nat /\ Len(reports) >= 1 /\ reports[1][2] \in 1..PanelSteps
    BY <1>0, <2>1, Taken DEF KeyInv, Reports
  <2>3. pressed.sure => /\ poller # "none" /\ poller' # "none"
                        /\ Shift(pressed.usage, pressed.step, 4) \in 1..LastStep
    BY <1>9, <2>1 DEF KeyInv
  <2>4. Waits(1)
    <3>1. \A i \in 1..Len(reports) : Waits(i) => i = 1
      BY <1>0, <2>1, <2>2 DEF Waits, KeyboardOnlyAt
    <3>2. ~KeyboardOnlyAt(reports, {})
      BY <1>0, <2>1, <2>2 DEF KeyboardOnlyAt
    <3>3. \E i \in 1..Len(reports) : Waits(i)
      BY <2>1, <3>2 DEF KeyInv
    <3> QED BY <3>1, <3>3
  <2>5. Moved(pressed, step', 5 - reports[1][2])
    <3>1. /\ \/ step' = step /\ poller = "none"
             \/ step' = IF pressed.usage = "IlluminationUp" THEN Up(step, 1, LastStep)
                                                           ELSE Down(step, 1)
      BY <1>0, <1>5, <2>1, <2>4, Taken DEF HandleIllumination, StoreBacklight, Waits
    <3>2. /\ step \in 0..LastStep /\ pressed.step \in 0..LastStep
          /\ reports[1][2] \in 1..4
      BY <2>2, <2>4, Sizes DEF TypeOK, Waits
    <3>3. Moved(pressed, step, 4 - reports[1][2])
      BY <2>4 DEF Waits
    <3>4. CASE pressed.usage = "IlluminationUp"
      <4>1. /\ pressed.step <= step /\ step <= pressed.step + (4 - reports[1][2])
            /\ pressed.sure => step = pressed.step + (4 - reports[1][2])
        BY <3>3, <3>4 DEF Moved, Shift
      <4>2. step' \in Int /\ step <= step' /\ step' <= step + 1
        BY <3>1, <3>2, <3>4, Sizes DEF Up
      <4>3. pressed.sure => step' = pressed.step + (5 - reports[1][2])
        <5>1. SUFFICES ASSUME pressed.sure
                       PROVE  step' = pressed.step + (5 - reports[1][2])
          OBVIOUS
        <5>2. pressed.step + 4 <= LastStep
          BY <2>3, <3>2, <3>4, <5>1, Sizes DEF Shift
        <5> QED BY <2>3, <3>1, <3>2, <3>4, <4>1, <5>1, <5>2, Sizes DEF Up
      <4>4. pressed.step <= step' /\ step' <= pressed.step + (5 - reports[1][2])
        BY <3>2, <4>1, <4>2, Sizes
      <4> QED BY <3>4, <4>3, <4>4 DEF Moved, Shift
    <3>5. CASE pressed.usage # "IlluminationUp"
      <4>1. /\ pressed.step - (4 - reports[1][2]) <= step /\ step <= pressed.step
            /\ pressed.sure => step = pressed.step - (4 - reports[1][2])
        BY <3>3, <3>5 DEF Moved, Shift
      <4>2. step' \in Int /\ step' <= step /\ step - 1 <= step'
        BY <3>1, <3>2, <3>5, Sizes DEF Down
      <4>3. pressed.sure => step' = pressed.step - (5 - reports[1][2])
        <5>1. SUFFICES ASSUME pressed.sure
                       PROVE  step' = pressed.step - (5 - reports[1][2])
          OBVIOUS
        <5>2. pressed.step - 4 >= 1
          BY <2>3, <3>2, <3>5, <5>1, Sizes DEF Shift
        <5> QED BY <2>3, <3>1, <3>2, <3>5, <4>1, <5>1, <5>2, Sizes DEF Down
      <4>4. pressed.step - (5 - reports[1][2]) <= step' /\ step' <= pressed.step
        BY <3>2, <4>1, <4>2, Sizes
      <4> QED BY <3>5, <4>3, <4>4 DEF Moved, Shift
    <3> QED BY <3>4, <3>5
  <2>6. CASE reports[1][2] = 1
    <3>1. {k \in 1..Len(reports') : k + 1 \in {1}} = {}
      OBVIOUS
    <3>2. Len(reports') = Len(reports) - 1
      BY <1>0, <2>1, <2>6, Taken
    <3>3. KeyboardOnlyAt(reports', {})
      BY <1>0, <2>1, <2>4, <3>1, <3>2, OnlyAtTaken DEF Waits
    <3>4. Moved(pressed', step', 4)
      BY <2>1, <2>5, <2>6
    <3> QED BY <2>1, <2>2, <2>3, <3>3, <3>4 DEF KeyInv
  <2>7. CASE reports[1][2] > 1
    <3>1. Len(reports') = Len(reports) /\ 1 \in 1..Len(reports')
      BY <1>0, <2>1, <2>2, <2>7, Taken
    <3>2. KeyboardOnlyAt(reports', {1})
      BY <1>0, <2>1, <2>4, <3>1, OnlyAtTaken DEF Waits
    <3>3. reports'[1][1] = pressed'.usage /\ reports'[1][2] = reports[1][2] - 1
      BY <1>0, <2>1, <2>4, <2>7, Taken DEF Waits
    <3>4. reports'[1][2] <= 4 /\ 4 - reports'[1][2] = 5 - reports[1][2]
      <4>1. reports[1][2] <= 4
        BY <2>4 DEF Waits
      <4>2. reports[1][2] \in Int
        BY <2>2
      <4> QED BY <3>3, <4>1, <4>2
    <3>5. Moved(pressed', step', 4 - reports'[1][2])
      BY <2>1, <2>5, <3>4
    <3> QED BY <2>1, <2>2, <2>3, <3>1, <3>2, <3>3, <3>4, <3>5 DEF KeyInv, Waits
  <2> QED BY <2>2, <2>6, <2>7, Sizes
<1>6. CASE DimKeyboard
  BY <1>6 DEF DimKeyboard
<1> QED BY <1>1, <1>2, <1>3, <1>4, <1>5, <1>6
        DEF Next, DisplayOff, SendBacklight, FindHIDInterface, SubmitPlugin, PollSensors

-----------------------------------------------------------------------------
(* The display.                                                            *)

(* What stands behind the press that is taken is not changed by it.        *)
Behind(d) ==
  /\ Len(reports') = Len(reports) - d
  /\ \A i \in 2..Len(reports) : i - d \in 1..Len(reports') /\ reports'[i - d] = reports[i]
  /\ PanelOnlyAt(reports, {}) => PanelOnlyAt(reports', {})
  /\ \A i \in 2..Len(reports) :
       PanelOnlyAt(reports, {i}) => PanelOnlyAt(reports', {i - d})
  /\ \A i, j \in 2..Len(reports) :
       PanelOnlyAt(reports, {i, j}) => PanelOnlyAt(reports', {i - d, j - d})

LEMMA BehindTaken ==
  ASSUME reports \in Reports, reports # <<>>, TakePress
  PROVE  \/ /\ reports[1][2] # 1 /\ Behind(0)
            /\ \A S : PanelOnlyAt(reports, S) => PanelOnlyAt(reports', S)
         \/ /\ reports[1][2] = 1 /\ Behind(1)
            /\ PanelOnlyAt(reports, {1}) => PanelOnlyAt(reports', {})
            /\ \A j \in 2..Len(reports) :
                 PanelOnlyAt(reports, {1, j}) => PanelOnlyAt(reports', {j - 1})
<1>0. Len(reports) \in Nat /\ Len(reports') \in Nat
  BY Taken DEF Reports
<1>1. CASE reports[1][2] # 1
  <2>1. /\ Len(reports') = Len(reports)
        /\ \A i \in 2..Len(reports) : reports'[i] = reports[i]
    BY <1>1, Taken
  <2>2. \A S : PanelOnlyAt(reports, S) => PanelOnlyAt(reports', S)
    BY <1>1, <2>1, OnlyAtTaken
  <2>3. \A i \in 2..Len(reports) : i - 0 = i /\ i \in 1..Len(reports')
    BY <1>0, <2>1
  <2>4. Len(reports') = Len(reports) - 0
    BY <1>0, <2>1
  <2>5. Behind(0)
    BY <2>1, <2>2, <2>3, <2>4 DEF Behind
  <2> QED BY <1>1, <2>2, <2>5
<1>2. CASE reports[1][2] = 1
  <2>1. /\ Len(reports') = Len(reports) - 1
        /\ \A i \in 1..Len(reports') : reports'[i] = reports[i + 1]
    BY <1>2, Taken
  <2>2. \A i \in 2..Len(reports) : i - 1 \in 1..Len(reports') /\ reports'[i - 1] = reports[i]
    BY <1>0, <2>1
  <2>3. ASSUME NEW S, NEW R, PanelOnlyAt(reports, S),
               \A k \in 1..Len(reports') : k + 1 \in S => k \in R
        PROVE  PanelOnlyAt(reports', R)
    BY <1>0, <2>1, <2>3 DEF PanelOnlyAt
  <2>4. /\ PanelOnlyAt(reports, {}) => PanelOnlyAt(reports', {})
        /\ PanelOnlyAt(reports, {1}) => PanelOnlyAt(reports', {})
    BY <1>0, <2>1 DEF PanelOnlyAt
  <2>5. ASSUME NEW i \in 2..Len(reports)
        PROVE  /\ PanelOnlyAt(reports, {i}) => PanelOnlyAt(reports', {i - 1})
               /\ PanelOnlyAt(reports, {1, i}) => PanelOnlyAt(reports', {i - 1})
    <3>1. \A k \in 1..Len(reports') : k + 1 \in {1, i} => k \in {i - 1}
      BY <1>0
    <3> QED BY <2>3, <3>1
  <2>6. ASSUME NEW i \in 2..Len(reports), NEW j \in 2..Len(reports),
               PanelOnlyAt(reports, {i, j})
        PROVE  PanelOnlyAt(reports', {i - 1, j - 1})
    <3>1. \A k \in 1..Len(reports') : k + 1 \in {i, j} => k \in {i - 1, j - 1}
      BY <1>0
    <3> QED BY <2>3, <2>6, <3>1
  <2>7. Behind(1)
    BY <2>1, <2>2, <2>4, <2>5, <2>6 DEF Behind
  <2> QED BY <1>2, <2>4, <2>5, <2>7
<1> QED BY <1>1, <1>2

(* A press for the keyboard leaves what will become of the display.        *)
LEMMA OtherTaken ==
  ASSUME reports \in Reports, reports # <<>>, TakePress, reports[1][1] \in Illumination,
         NEW b, NEW n
  PROVE  /\ PanelOnlyAt(reports, {}) => PanelOnlyAt(reports', {})
         /\ WillBeDark(reports, b) => WillBeDark(reports', b)
         /\ WillBeAt(reports, b, n) => WillBeAt(reports', b, n)
<1>1. PICK d \in {0, 1} :
         /\ \A i \in 2..Len(reports) : /\ i - d \in 1..Len(reports')
                                      /\ reports'[i - d] = reports[i]
         /\ PanelOnlyAt(reports, {}) => PanelOnlyAt(reports', {})
         /\ \A i \in 2..Len(reports) :
              PanelOnlyAt(reports, {i}) => PanelOnlyAt(reports', {i - d})
         /\ \A i, j \in 2..Len(reports) :
              PanelOnlyAt(reports, {i, j}) => PanelOnlyAt(reports', {i - d, j - d})
  <2>1. PICK d \in {0, 1} : Behind(d)
    BY BehindTaken
  <2> QED BY <2>1 DEF Behind
<1>2. /\ Len(reports) \in Nat
      /\ "BrightnessUp" \notin Illumination /\ "BrightnessDown" \notin Illumination
  BY DEF Reports, Illumination
<1>3. \A i \in 1..Len(reports) :
         Darken(reports[i], b) \/ Restore(reports[i], b, n) \/ Restore(reports[i], 0, n)
           => i \in 2..Len(reports)
  BY <1>2 DEF Darken, Restore
<1>4. WillBeDark(reports, b) => WillBeDark(reports', b)
  BY <1>1, <1>3 DEF WillBeDark
<1>5. ASSUME NEW i \in 1..Len(reports), Restore(reports[i], b, n), PanelOnlyAt(reports, {i})
      PROVE  WillBeAt(reports', b, n)
  <2>1. i \in 2..Len(reports)
    BY <1>3, <1>5
  <2> QED BY <1>1, <1>5, <2>1 DEF WillBeAt
<1>6. ASSUME NEW i \in 1..Len(reports), NEW j \in 1..Len(reports), i < j,
             Darken(reports[i], b), PanelOnlyAt(reports, {i, j}), Restore(reports[j], 0, n)
      PROVE  WillBeAt(reports', b, n)
  <2>1. i \in 2..Len(reports) /\ j \in 2..Len(reports) /\ i - d < j - d
    BY <1>2, <1>3, <1>6
  <2> QED BY <1>1, <1>6, <2>1 DEF WillBeAt
<1>7. WillBeAt(reports, b, n) => WillBeAt(reports', b, n)
  BY <1>1, <1>4, <1>5, <1>6 DEF WillBeAt
<1> QED BY <1>1, <1>4, <1>7
(* What one press does to a display that presses will turn dark, or bring  *)
(* to a step.                                                              *)
LEMMA OneDown ==
  ASSUME NEW b \in 0..PanelMax
  PROVE  /\ b <= PanelStep => Down(b, PanelStep) = 0
         /\ \A k \in 1..PanelSteps :
              b <= PanelStep * k => Down(b, PanelStep) <= PanelStep * (k - 1)
BY Sizes DEF Down

LEMMA OneUp ==
  ASSUME NEW b \in 0..PanelMax, NEW n \in 0..PanelSteps
  PROVE  /\ 1 <= n /\ b = PanelStep * (n - 1) => Up(b, PanelStep, PanelMax) = PanelStep * n
         /\ \A k \in 1..PanelSteps :
              k <= n /\ b = PanelStep * (n - k) =>
                Up(b, PanelStep, PanelMax) = PanelStep * (n - (k - 1))
BY Sizes DEF Up

(* The facts of a brightness press that is handled.                        *)
LEMMA PressHandled ==
  ASSUME TypeOK, HandleBrightness
  PROVE  /\ reports \in Reports /\ reports # <<>> /\ TakePress
         /\ Len(reports) \in Nat /\ Len(reports) >= 1 /\ Len(reports') \in Nat
         /\ reports[1][1] \notin Illumination /\ reports[1][2] \in 1..PanelSteps
         /\ bright \in 0..PanelMax /\ level \in 0..PanelSteps
         /\ bright' = IF reports[1][1] = "BrightnessUp"
                      THEN Up(bright, PanelStep, PanelMax) ELSE Down(bright, PanelStep)
         /\ \A S : PanelOnlyAt(reports, S) => 1 \in S
         /\ reports[1][2] # 1 =>
              /\ Len(reports') = Len(reports) /\ reports'[1][1] = reports[1][1]
              /\ reports'[1][2] = reports[1][2] - 1
<1>1. reports \in Reports /\ reports # <<>> /\ TakePress
  BY DEF TypeOK, Reports, HandleBrightness
<1>2. /\ Len(reports) \in Nat /\ Len(reports) >= 1 /\ Len(reports') \in Nat
      /\ reports[1][1] \notin Illumination /\ reports[1][2] \in 1..PanelSteps
      /\ reports[1][1] = Head(reports)[1]
  BY <1>1, Taken DEF HandleBrightness, Reports
<1>3. \A S : PanelOnlyAt(reports, S) => 1 \in S
  BY <1>2 DEF PanelOnlyAt
<1> QED BY <1>1, <1>2, <1>3, Taken DEF HandleBrightness, TypeOK

(* A display that the waiting presses turn dark is as much so after each.  *)
LEMMA DarkTaken ==
  ASSUME TypeOK, HandleBrightness, WillBeDark(reports, bright)
  PROVE  WillBeDark(reports', bright')
<1>1. Darken(reports[1], bright) /\ PanelOnlyAt(reports, {1})
  BY PressHandled DEF WillBeDark
<1>2. bright' = Down(bright, PanelStep)
  BY <1>1, PressHandled DEF Darken
<1>3. CASE reports[1][2] = 1
  <2>1. PanelOnlyAt(reports', {})
    BY <1>1, <1>3, PressHandled, BehindTaken
  <2>2. bright <= PanelStep
    BY <1>1, <1>3, Sizes DEF Darken
  <2>3. bright' = 0
    BY <1>2, <2>2, PressHandled, OneDown
  <2> QED BY <2>1, <2>3 DEF WillBeDark
<1>4. CASE reports[1][2] # 1
  <2>1. PanelOnlyAt(reports', {1})
    BY <1>1, <1>4, PressHandled, BehindTaken
  <2>2. Down(bright, PanelStep) <= PanelStep * (reports[1][2] - 1)
    BY <1>1, PressHandled, OneDown DEF Darken
  <2>3. Darken(reports'[1], bright') /\ 1 \in 1..Len(reports')
    BY <1>1, <1>2, <1>4, <2>2, PressHandled DEF Darken
  <2> QED BY <2>1, <2>3 DEF WillBeDark
<1> QED BY <1>3, <1>4

(* And a display that they bring back to a step.                           *)
LEMMA BackTaken ==
  ASSUME TypeOK, HandleBrightness, WillBeAt(reports, bright, level)
  PROVE  WillBeAt(reports', bright', level)
<1>1. CASE level = 0 /\ WillBeDark(reports, bright)
  BY <1>1, DarkTaken DEF WillBeAt
<1>2. CASE \E i \in 1..Len(reports) :
              Restore(reports[i], bright, level) /\ PanelOnlyAt(reports, {i})
  <2>1. Restore(reports[1], bright, level) /\ PanelOnlyAt(reports, {1})
    BY <1>2, PressHandled
  <2>2. bright' = Up(bright, PanelStep, PanelMax)
    BY <2>1, PressHandled DEF Restore
  <2>3. CASE reports[1][2] = 1
    <3>1. PanelOnlyAt(reports', {})
      BY <2>1, <2>3, PressHandled, BehindTaken
    <3>2. 1 <= level /\ bright = PanelStep * (level - 1)
      BY <2>1, <2>3 DEF Restore
    <3>3. bright' = PanelStep * level
      BY <2>2, <3>2, PressHandled, OneUp
    <3> QED BY <3>1, <3>3 DEF WillBeAt
  <2>4. CASE reports[1][2] # 1
    <3>1. PanelOnlyAt(reports', {1})
      BY <2>1, <2>4, PressHandled, BehindTaken
    <3>2. Up(bright, PanelStep, PanelMax) = PanelStep * (level - (reports[1][2] - 1))
      BY <2>1, PressHandled, OneUp DEF Restore
    <3>3. reports[1][2] - 1 <= level
      <4>1. reports[1][2] <= level
        BY <2>1 DEF Restore
      <4>2. reports[1][2] \in Int /\ level \in Int
        BY PressHandled
      <4> QED BY <4>1, <4>2
    <3>4. Restore(reports'[1], bright', level) /\ 1 \in 1..Len(reports')
      BY <2>1, <2>2, <2>4, <3>2, <3>3, PressHandled DEF Restore
    <3> QED BY <3>1, <3>4 DEF WillBeAt
  <2> QED BY <2>3, <2>4
<1>3. ASSUME NEW i \in 1..Len(reports), NEW j \in 1..Len(reports), i < j,
             Darken(reports[i], bright), PanelOnlyAt(reports, {i, j}),
             Restore(reports[j], 0, level)
      PROVE  WillBeAt(reports', bright', level)
  <2>1. i = 1 /\ j \in 2..Len(reports)
    BY <1>3, PressHandled
  <2>2. bright' = Down(bright, PanelStep)
    BY <1>3, <2>1, PressHandled DEF Darken
  <2>3. CASE reports[1][2] = 1
    <3>1. PanelOnlyAt(reports', {j - 1})
      BY <1>3, <2>1, <2>3, PressHandled, BehindTaken
    <3>2. j - 1 \in 1..Len(reports') /\ reports'[j - 1] = reports[j]
      BY <2>1, <2>3, PressHandled, BehindTaken DEF Behind
    <3>3. bright <= PanelStep
      BY <1>3, <2>1, <2>3, Sizes DEF Darken
    <3>4. bright' = 0
      BY <2>2, <3>3, PressHandled, OneDown
    <3> QED BY <1>3, <3>1, <3>2, <3>4 DEF WillBeAt
  <2>4. CASE reports[1][2] # 1
    <3>1. PanelOnlyAt(reports', {1, j})
      BY <1>3, <2>1, <2>4, PressHandled, BehindTaken
    <3>2. Down(bright, PanelStep) <= PanelStep * (reports[1][2] - 1)
      BY <1>3, <2>1, PressHandled, OneDown DEF Darken
    <3>3. Darken(reports'[1], bright') /\ 1 \in 1..Len(reports')
      BY <1>3, <2>1, <2>2, <2>4, <3>2, PressHandled DEF Darken
    <3>4. j \in 1..Len(reports') /\ reports'[j] = reports[j] /\ 1 < j
      BY <2>1, <2>4, PressHandled, Taken
    <3> QED BY <1>3, <3>1, <3>3, <3>4 DEF WillBeAt
  <2> QED BY <2>3, <2>4
<1> QED BY <1>1, <1>2, <1>3, PressHandled DEF WillBeAt

(* Nor does a press that is posted for the keyboard.                       *)
LEMMA OtherAdded ==
  ASSUME reports \in Reports, Len(reports') = Len(reports) + 1,
         reports'[Len(reports')][1] \in Illumination,
         \A i \in 1..Len(reports) : reports'[i] = reports[i], NEW b, NEW n
  PROVE  /\ PanelOnlyAt(reports, {}) => PanelOnlyAt(reports', {})
         /\ WillBeDark(reports, b) => WillBeDark(reports', b)
         /\ WillBeAt(reports, b, n) => WillBeAt(reports', b, n)
<1>0. Len(reports) \in Nat
  BY DEF Reports
<1>1. \A i \in 1..Len(reports) : i \in 1..Len(reports') /\ reports'[i] = reports[i]
  BY <1>0
<1>2. \A S : PanelOnlyAt(reports, S) => PanelOnlyAt(reports', S)
  BY OnlyAtAdded
<1>3. WillBeDark(reports, b) => WillBeDark(reports', b)
  BY <1>1, <1>2 DEF WillBeDark
<1>4. WillBeAt(reports, b, n) => WillBeAt(reports', b, n)
  BY <1>1, <1>2, <1>3 DEF WillBeAt
<1> QED BY <1>2, <1>3, <1>4

(* Every step keeps what displayOff has promised of the display.           *)
LEMMA DisplayStep == TypeOK /\ DisplayInv /\ [Next]_vars => DisplayInv'
<1> SUFFICES ASSUME TypeOK, DisplayInv, [Next]_vars, calm' PROVE DisplayInv'
  BY DEF DisplayInv
<1> USE DEF vars, panelVars, lightVars, devices, sensorVars
<1>0. /\ reports \in Reports /\ Len(reports) \in Nat
      /\ bright \in 0..PanelMax /\ level \in 0..PanelSteps
  BY DEF TypeOK, Reports
<1>1. CASE UNCHANGED <<thread, reports, panelVars>>
  BY <1>1 DEF DisplayInv
<1>2. CASE BrightnessKey
  BY <1>2 DEF BrightnessKey
<1>3. CASE DisplayOff
  <2>1. CASE panelOn
    <3>1. /\ reports = <<>> /\ reports' = reports /\ panelOn' = panelOn
          /\ thread' = "displayOff" /\ level' = bright \div PanelStep /\ before' = bright
      BY <1>3, <2>1 DEF DisplayOff, ReadPanel
    <3>2. PanelOnlyAt(reports', {})
      BY <3>1 DEF PanelOnlyAt
    <3> QED BY <1>0, <2>1, <3>1, <3>2 DEF DisplayInv
  <2>2. CASE ~panelOn
    BY <1>3, <2>2 DEF DisplayOff, DisplayInv
  <2> QED BY <2>1, <2>2
<1>4. CASE SwitchPanel
  <2>1. /\ UNCHANGED <<level, bright, before>> /\ calm
        /\ thread = "displayOff" /\ thread' = "idle"
    BY <1>4, SwitchPosts DEF SwitchPanel
  <2>2. before' \in 0..PanelMax /\ level' = before' \div PanelStep
    BY <2>1 DEF DisplayInv
  <2>3. CASE panelOn
    <3>1. Post("BrightnessDown", PanelSteps) /\ ~panelOn' /\ PanelOnlyAt(reports, {})
      <4>1. Post("BrightnessDown", PanelSteps) /\ ~panelOn'
        BY <1>4, <2>3, SwitchPosts DEF SwitchPanel
      <4>2. PanelOnlyAt(reports, {})
        BY <2>1, <2>3 DEF DisplayInv
      <4> QED BY <4>1, <4>2
    <3>2. PanelSteps \in 0..PanelSteps /\ PanelSteps # 0 /\ bright <= PanelStep * PanelSteps
      BY <1>0, Sizes
    <3>3. /\ Len(reports') = Len(reports) + 1
          /\ reports'[Len(reports')] = <<"BrightnessDown", PanelSteps>>
          /\ \A i \in 1..Len(reports) : reports'[i] = reports[i]
      BY <1>0, <3>1, <3>2, Posted DEF Usages
    <3>4. PanelOnlyAt(reports', {} \cup {Len(reports')})
      BY <1>0, <3>1, <3>3, OnlyAtAdded
    <3>5. Darken(reports'[Len(reports')], bright') /\ Len(reports') \in 1..Len(reports')
      BY <1>0, <2>1, <3>2, <3>3 DEF Darken
    <3>6. {} \cup {Len(reports')} = {Len(reports')}
      OBVIOUS
    <3>7. WillBeDark(reports', bright')
      BY <3>4, <3>5, <3>6 DEF WillBeDark
    <3> QED BY <2>2, <3>1, <3>7 DEF DisplayInv
  <2>4. CASE ~panelOn
    <3>1. Post("BrightnessUp", level) /\ panelOn' /\ WillBeDark(reports, bright)
      <4>1. Post("BrightnessUp", level) /\ panelOn'
        BY <1>4, <2>4, SwitchPosts DEF SwitchPanel
      <4>2. WillBeDark(reports, bright)
        BY <2>1, <2>4 DEF DisplayInv
      <4> QED BY <4>1, <4>2
    <3>2. CASE level = 0
      <4>1. reports' = reports
        BY <3>1, <3>2 DEF Post
      <4>2. WillBeAt(reports', bright', level')
        BY <2>1, <3>1, <3>2, <4>1 DEF WillBeAt
      <4> QED BY <2>1, <2>2, <3>1, <4>2 DEF DisplayInv
    <3>3. CASE level # 0
      <4>1. /\ Len(reports') = Len(reports) + 1
            /\ reports'[Len(reports')] = <<"BrightnessUp", level>>
            /\ \A i \in 1..Len(reports) : reports'[i] = reports[i]
        BY <1>0, <3>1, <3>3, Posted DEF Usages
      <4>2. Restore(reports'[Len(reports')], 0, level)
        BY <1>0, <4>1, Sizes DEF Restore
      <4>3. CASE PanelOnlyAt(reports, {}) /\ bright = 0
        <5>1. PanelOnlyAt(reports', {} \cup {Len(reports')})
          BY <1>0, <4>1, <4>3, OnlyAtAdded
        <5>2. {} \cup {Len(reports')} = {Len(reports')} /\ Len(reports') \in 1..Len(reports')
          BY <1>0, <4>1
        <5>3. WillBeAt(reports', bright', level')
          BY <2>1, <4>2, <4>3, <5>1, <5>2 DEF WillBeAt
        <5> QED BY <2>1, <2>2, <3>1, <5>3 DEF DisplayInv
      <4>4. ASSUME NEW i \in 1..Len(reports),
                   Darken(reports[i], bright), PanelOnlyAt(reports, {i})
            PROVE  DisplayInv'
        <5>1. PanelOnlyAt(reports', {i} \cup {Len(reports')})
          BY <1>0, <4>1, <4>4, OnlyAtAdded
        <5>2. /\ {i} \cup {Len(reports')} = {i, Len(reports')}
              /\ i \in 1..Len(reports') /\ Len(reports') \in 1..Len(reports')
              /\ i < Len(reports')
          BY <1>0, <4>1
        <5>3. WillBeAt(reports', bright', level')
          BY <2>1, <4>1, <4>2, <4>4, <5>1, <5>2 DEF WillBeAt
        <5> QED BY <2>1, <2>2, <3>1, <5>3 DEF DisplayInv
      <4> QED BY <3>1, <4>3, <4>4 DEF WillBeDark
    <3> QED BY <3>2, <3>3
  <2> QED BY <2>3, <2>4
<1>5. ASSUME NEW usage \in Illumination, IlluminationKey(usage)
      PROVE  DisplayInv'
  <2>1. UNCHANGED <<thread, panelVars>>
    BY <1>5 DEF IlluminationKey
  <2>2. CASE reports' = reports
    BY <1>1, <2>1, <2>2
  <2>3. CASE reports' # reports
    <3>1. PICK n \in 0..PanelSteps : Post(usage, n) /\ usage \in Usages
      BY <1>5, KeyPosts DEF Usages
    <3>2. /\ Len(reports') = Len(reports) + 1 /\ reports'[Len(reports')][1] \in Illumination
          /\ \A i \in 1..Len(reports) : reports'[i] = reports[i]
      BY <1>0, <2>3, <3>1, Posted
    <3> QED BY <1>0, <2>1, <3>2, OtherAdded DEF DisplayInv
  <2> QED BY <2>2, <2>3
<1>6. CASE HandleBrightness
  <2>1. UNCHANGED <<thread, panelOn, level, before, calm>>
    BY <1>6 DEF HandleBrightness
  <2>2. ~PanelOnlyAt(reports, {})
    BY <1>6, PressHandled
  <2>3. WillBeDark(reports, bright) => WillBeDark(reports', bright')
    BY <1>6, DarkTaken
  <2>4. WillBeAt(reports, bright, level) => WillBeAt(reports', bright', level)
    BY <1>6, BackTaken
  <2> QED BY <2>1, <2>2, <2>3, <2>4 DEF DisplayInv
<1>7. CASE HandleIllumination
  <2>1. /\ reports # <<>> /\ TakePress /\ reports[1][1] \in Illumination
        /\ UNCHANGED <<thread, panelVars>>
    BY <1>0, <1>7, Taken DEF HandleIllumination
  <2> QED BY <1>0, <2>1, OtherTaken DEF DisplayInv
<1>8. CASE DimKeyboard \/ SendBacklight \/ FindHIDInterface \/ SubmitPlugin \/ PollSensors
  BY <1>1, <1>8 DEF DimKeyboard, SendBacklight, FindHIDInterface, SubmitPlugin, PollSensors
<1>9. CASE UNCHANGED vars
  BY <1>1, <1>9
<1> QED BY <1>2, <1>3, <1>4, <1>5, <1>6, <1>7, <1>8, <1>9 DEF Next

-----------------------------------------------------------------------------
(* All of the invariant holds in every reachable state.                    *)
THEOREM Invariance == Spec => []IInv
<1>1. IInv /\ [Next]_vars => IInv'
  BY TypeStep, LampStep, KeyStep, DisplayStep DEF IInv
<1> QED BY InitInv, <1>1, PTL DEF Spec

(* Every variable keeps to its type: no press count leaves the range of    *)
(* the reports, and the keyboard is sent no level that it does not have.   *)
THEOREM TypeCorrect == Spec => []TypeOK
<1>1. IInv => TypeOK
  BY DEF IInv
<1> QED BY Invariance, <1>1, PTL

(* Where all of displayOff's presses arrive, the key turns the display     *)
(* dark and brings it back to the step below the brightness it read,       *)
(* whatever of its reports is still waiting when it is pressed again.  One *)
(* press lost, or no virtual keyboard to press, ends the promise until the *)
(* brightness is next read.                                                *)
THEOREM DisplayIsRestored == Spec => []DisplayComesBack
<1>1. IInv => DisplayComesBack
  <2> SUFFICES ASSUME IInv, calm, reports = <<>>, thread = "idle"
               PROVE  bright = IF panelOn THEN PanelStep * (before \div PanelStep) ELSE 0
    BY DEF DisplayComesBack
  <2>1. 1..Len(reports) = {}
    OBVIOUS
  <2>2. WillBeDark(reports, bright) => bright = 0
    BY <2>1 DEF WillBeDark
  <2>3. WillBeAt(reports, bright, level) => bright = PanelStep * level
    BY <2>1, <2>2, Sizes DEF WillBeAt
  <2> QED BY <2>2, <2>3 DEF IInv, DisplayInv, TypeOK
<1> QED BY Invariance, <1>1, PTL

(* The presses of one illumination key, all or some of them, move the      *)
(* keyboard by one level at most, in the key's direction, wherever in its  *)
(* level the system's step was; and by one, if none is lost, the driver    *)
(* knows the step, and this is not the lowest.  It rests on Lksb.          *)
THEOREM KeysMoveOneLevel == Spec => []KeyMovesOneLevel
<1>1. IInv => KeyMovesOneLevel
  <2> SUFFICES ASSUME IInv, Settled, pressed # None PROVE KeyMovesOneLevel
    BY DEF KeyMovesOneLevel
  <2>1. 1..Len(reports) = {}
    BY DEF Settled
  <2>2. /\ pressed \in [usage : Illumination, step : 0..LastStep, sure : BOOLEAN]
        /\ pressed.sure => Shift(pressed.usage, pressed.step, 4) \in 1..LastStep
        /\ Moved(pressed, step, 4)
    BY <2>1 DEF IInv, KeyInv
  <2>3. step \in 0..LastStep /\ pressed.step \in 0..LastStep
    BY <2>2 DEF IInv, TypeOK
  <2>4. CASE pressed.usage = "IlluminationUp"
    <3>1. pressed.step <= step /\ step <= pressed.step + 4
      BY <2>2, <2>4 DEF Moved
    <3>2. Level(Lksb(step)) - Level(Lksb(pressed.step)) \in {0, 1}
      BY <2>3, <3>1, LevelOfFour
    <3>3. ASSUME pressed.sure, pressed.step # 0
          PROVE  Level(Lksb(step)) - Level(Lksb(pressed.step)) = 1
      <4>1. step = pressed.step + 4 /\ pressed.step + 4 \in 1..LastStep
        BY <2>2, <2>4, <3>3 DEF Moved, Shift
      <4> QED BY <2>3, <3>3, <4>1, FourMore
    <3> QED BY <2>4, <3>2, <3>3 DEF KeyMovesOneLevel
  <2>5. CASE pressed.usage # "IlluminationUp"
    <3>1. step <= pressed.step /\ pressed.step <= step + 4
      BY <2>2, <2>3, <2>5, Sizes DEF Moved
    <3>2. Level(Lksb(step)) - Level(Lksb(pressed.step)) \in {0, -1}
      BY <2>3, <3>1, LevelOfFour
    <3>3. ASSUME pressed.sure, pressed.step # 0
          PROVE  Level(Lksb(step)) - Level(Lksb(pressed.step)) = -1
      <4>1. step = pressed.step - 4 /\ pressed.step - 4 \in 1..LastStep
        BY <2>2, <2>5, <3>3 DEF Moved, Shift
      <4>2. pressed.step = step + 4 /\ step \in 1..LastStep
        BY <2>3, <4>1, Sizes
      <4>3. Level(Lksb(pressed.step)) - Level(Lksb(step)) = 1
        BY <2>3, <4>2, FourMore
      <4>4. Level(Lksb(pressed.step)) \in 0..TopLevel /\ Level(Lksb(step)) \in 0..TopLevel
        BY <2>3, LevelOfStep, LevelOfValue
      <4> QED BY <4>3, <4>4, Sizes
    <3> QED BY <2>5, <3>2, <3>3 DEF KeyMovesOneLevel
  <2> QED BY <2>4, <2>5
<1> QED BY Invariance, <1>1, PTL

(* A keyboard that has taken a level shows the one that LKSB stands for    *)
(* whenever the SMC thread is done, unless the report of its last update   *)
(* was not made or not taken; what became of earlier ones does not matter. *)
THEOREM LampFollows == Spec => []LampFollowsSMC
<1>1. IInv => LampFollowsSMC
  BY DEF IInv, LampInv, LampFollowsSMC
<1> QED BY Invariance, <1>1, PTL

=============================================================================
