-------------------------- MODULE TommyState_proofs --------------------------
(***************************************************************************)
(* Proofs about TommyState, for every range of the load, every set of      *)
(* speeds and any number of blocks on the main queue.                      *)
(*                                                                         *)
(* MenuFollows is nearly inductive.  The other two rest on the order of    *)
(* the samples: one job at a time makes a sample, so that samples are      *)
(* stored in the order in which they were taken, and one that was made     *)
(* while no other waited is the next to be stored.                         *)
(***************************************************************************)
EXTENDS TommyState, TLAPS

Busy(j)    == job[j] # "idle"
Number(i)  == queue[i].of.n
Near(load) == gpu = None \/ load - gpu \in -MaxDelta .. MaxDelta

(* Without the process there is nothing.                                   *)
StopInv == ~running => queue = <<>> /\ fan = None /\ gpu = None /\ \A j \in Jobs : ~Busy(j)

(* Samples wait in the order in which they were taken, behind them comes   *)
(* the one that a job is making, and all are newer than what is shown.     *)
OrderInv ==
  /\ taken \in Nat
  /\ \A j, k \in Jobs : Busy(j) /\ Busy(k) => j = k
  /\ \A j \in Jobs : IF Busy(j) THEN sample[j].n \in 1 .. taken ELSE sample[j] = NoSample
  /\ \A i \in Waiting : Number(i) \in 1 .. taken
  /\ \A i, k \in Waiting : i < k => Number(i) < Number(k)
  /\ \A i \in Waiting, j \in Jobs : Busy(j) => Number(i) < sample[j].n

(* A sample made while none waited is the next to be stored, and near what *)
(* is shown.                                                               *)
FreshInv ==
  /\ \A i \in Waiting :
       queue[i].of.fresh => Near(queue[i].of.gpu) /\ \A k \in Waiting : i <= k
  /\ \A j \in Jobs :
       sample[j].fresh => Waiting = {} /\ job[j] = "post" /\ Near(sample[j].gpu)

IInv == TypeOK /\ StopInv /\ OrderInv /\ FreshInv /\ MenuFollows

Blocks == [kind : {"store", "refresh"}, of : Samples]

(* The two parts of the types: what the samples go through, and what the   *)
(* user chose and sees.                                                    *)
SampleTypes ==
  /\ running \in BOOLEAN /\ opened \in BOOLEAN
  /\ job \in [Jobs -> {"idle", "fan", "gpu", "post"}] /\ sample \in [Jobs -> Samples]
  /\ queue \in Seq(Blocks)
  /\ fan \in Nat \cup {None} /\ gpu \in (0 .. MaxLoad) \cup {None}
  /\ taken \in Int /\ frame \in {0, 1}

MenuTypes ==
  /\ choice \in [Items -> BOOLEAN] /\ saved \in [Items -> BOOLEAN \cup {None}]
  /\ menu \in [Items -> Nat \cup {None, Hidden}]

-----------------------------------------------------------------------------
LEMMA Types == TypeOK <=> SampleTypes /\ MenuTypes
BY DEF TypeOK, SampleTypes, MenuTypes, Blocks

LEMMA NoSampleType == NoSample \in Samples /\ NoSample.n = 0 /\ ~NoSample.fresh
BY LoadAssumption DEF NoSample, Samples

LEMMA RefreshType == Refresh \in Blocks /\ Refresh.kind = "refresh"
BY NoSampleType DEF Refresh, Blocks

(* What another sample is numbered, once one is stored.                    *)
LEMMA Renumbered ==
  ASSUME NEW s \in Samples, NEW n \in Int
  PROVE  /\ Renumber(s, n) \in Samples
         /\ Renumber(s, n).n = IF s.n = 0 THEN 0 ELSE s.n - n
         /\ Renumber(s, n).fan = s.fan /\ Renumber(s, n).gpu = s.gpu
         /\ Renumber(s, n).fresh = s.fresh
         /\ s = NoSample => Renumber(s, n) = NoSample
BY NoSampleType DEF Renumber, Samples

(* A block comes to the end of the main queue.                             *)
LEMMA Appended ==
  ASSUME NEW q \in Seq(Blocks), NEW e \in Blocks
  PROVE  /\ Append(q, e) \in Seq(Blocks) /\ Len(Append(q, e)) = Len(q) + 1
         /\ \A i \in 1 .. Len(q) : Append(q, e)[i] = q[i]
         /\ Append(q, e)[Len(q) + 1] = e /\ Len(q) \in Nat
OBVIOUS

(* Waiting, after a block of either kind has come.                         *)
LEMMA WaitingAppended ==
  ASSUME queue \in Seq(Blocks), NEW e \in Blocks, queue' = Append(queue, e)
  PROVE  /\ queue' \in Seq(Blocks) /\ Len(queue') = Len(queue) + 1 /\ Len(queue) \in Nat
         /\ Waiting' = IF e.kind = "store" THEN Waiting \cup {Len(queue) + 1} ELSE Waiting
         /\ Waiting \subseteq 1 .. Len(queue)
         /\ \A i \in Waiting : queue'[i] = queue[i]
         /\ queue'[Len(queue) + 1] = e
BY Appended DEF Waiting

LEMMA InitInv == Init => IInv
<1> SUFFICES ASSUME Init PROVE IInv
  OBVIOUS
<1>1. Waiting = {} /\ queue \in Seq(Blocks) /\ queue = <<>>
  BY DEF Init, Waiting, Blocks
<1>2. TypeOK
  <2>1. job \in [Jobs -> {"idle", "fan", "gpu", "post"}] /\ sample \in [Jobs -> Samples]
    BY NoSampleType DEF Init
  <2>2. fan = None /\ gpu = None /\ taken = 0 /\ frame = 0 /\ running = FALSE /\ opened = FALSE
    BY DEF Init
  <2>3. SampleTypes
    <3>1. fan \in Nat \cup {None} /\ gpu \in (0 .. MaxLoad) \cup {None}
      BY <2>2
    <3>2. taken \in Int /\ frame \in {0, 1}
      BY <2>2
    <3>3. running \in BOOLEAN /\ opened \in BOOLEAN
      BY <2>2
    <3> QED BY <1>1, <2>1, <3>1, <3>2, <3>3 DEF SampleTypes
  <2>4. MenuTypes
    BY DEF Init, MenuTypes
  <2> QED BY <2>3, <2>4, Types
<1>3. StopInv /\ OrderInv /\ FreshInv
  BY <1>1, NoSampleType DEF Init, StopInv, OrderInv, FreshInv, Busy
<1>4. MenuFollows
  BY DEF Init, MenuFollows
<1> QED BY <1>2, <1>3, <1>4 DEF IInv

(* Choices, their copy and the menu keep to their types.                   *)
LEMMA MenuTypesStep ==
  ASSUME SampleTypes, MenuTypes, [Next]_vars
  PROVE  MenuTypes'
<1>1. ASSUME NEW c \in [Items -> BOOLEAN], NEW f \in Nat \cup {None}, NEW g \in Nat \cup {None}
      PROVE  Drawn(c, f, g) \in [Items -> Nat \cup {None, Hidden}]
  BY <1>1 DEF Drawn, Value
<1>2. gpu \in Nat \cup {None} /\ fan \in Nat \cup {None}
  BY LoadAssumption DEF SampleTypes
<1>3. CASE Launch
  <2>1. choice' \in [Items -> BOOLEAN]
    BY <1>3 DEF Launch
  <2>2. menu' \in [Items -> Nat \cup {None, Hidden}]
    BY <1>1, <1>3, <2>1 DEF Launch
  <2> QED BY <1>3, <2>1, <2>2 DEF Launch, MenuTypes
<1>4. CASE Quit
  BY <1>4 DEF Quit, MenuTypes
<1>5. CASE StoreSample
  <2>1. saved' \in [Items -> BOOLEAN \cup {None}]
    BY <1>5 DEF StoreSample, Saves, MenuTypes
  <2> QED BY <1>5, <2>1 DEF StoreSample, MenuTypes
<1>6. CASE Redraw
  BY <1>1, <1>2, <1>6 DEF Redraw, MenuTypes
<1>7. CASE \E i \in Items : Toggle(i)
  BY <1>7 DEF Toggle, MenuTypes, mainVars
<1>8. CASE (\E j \in Jobs : Begin(j) \/ Fetch(j)) \/ UNCHANGED vars
  BY <1>8 DEF Begin, Fetch, ReadFan, MoveLoad, PostSample, MenuTypes, vars, mainVars
<1> QED BY <1>3, <1>4, <1>5, <1>6, <1>7, <1>8 DEF Next, Main

(* The program starts, and ends.                                           *)
LEMMA LifeStep ==
  ASSUME IInv, Launch \/ Quit
  PROVE  SampleTypes' /\ StopInv' /\ OrderInv' /\ FreshInv' /\ MenuFollows'
<1>1. CASE Launch
  <2>1. SampleTypes'
    BY <1>1, Types DEF Launch, IInv, SampleTypes, jobVars
  <2>2. queue = <<>> /\ fan = None /\ gpu = None /\ \A j \in Jobs : ~Busy(j)
    BY <1>1 DEF Launch, IInv, StopInv
  <2>3. StopInv' /\ OrderInv' /\ FreshInv'
    BY <1>1 DEF Launch, IInv, StopInv, OrderInv, FreshInv, Waiting, Busy, Number, Near, jobVars
  <2>4. MenuFollows'
    BY <1>1, <2>2 DEF Launch, MenuFollows
  <2> QED BY <2>1, <2>3, <2>4
<1>2. CASE Quit
  <2>1. Waiting' = {} /\ queue' \in Seq(Blocks) /\ queue' = <<>>
    BY <1>2 DEF Quit, Waiting, Blocks
  <2>2. /\ job' \in [Jobs -> {"idle", "fan", "gpu", "post"}] /\ sample' \in [Jobs -> Samples]
        /\ \A j \in Jobs : job'[j] = "idle" /\ sample'[j] = NoSample
    BY <1>2, NoSampleType DEF Quit
  <2>3. fan' = None /\ gpu' = None /\ taken' = 0 /\ running' = FALSE /\ opened' = FALSE
        /\ frame' = frame
    BY <1>2 DEF Quit
  <2>4. SampleTypes'
    <3>1. fan' \in Nat \cup {None} /\ gpu' \in (0 .. MaxLoad) \cup {None}
      BY <2>3
    <3>2. taken' \in Int /\ frame' \in {0, 1}
      BY <2>3, Types DEF IInv, SampleTypes
    <3>3. running' \in BOOLEAN /\ opened' \in BOOLEAN
      BY <2>3
    <3> QED BY <2>1, <2>2, <3>1, <3>2, <3>3 DEF SampleTypes
  <2>5. StopInv' /\ OrderInv' /\ FreshInv'
    BY <2>1, <2>2, <2>3, NoSampleType DEF StopInv, OrderInv, FreshInv, Busy
  <2>6. MenuFollows'
    BY <2>3 DEF MenuFollows
  <2> QED BY <2>4, <2>5, <2>6
<1> QED BY <1>1, <1>2

(* The load stays in range and moves by at most MaxDelta.                  *)
LEMMA LoadMoves ==
  ASSUME gpu \in (0 .. MaxLoad) \cup {None}, NEW delta \in -MaxDelta .. MaxDelta
  PROVE  /\ Clamped(PreviousLoad + delta) \in 0 .. MaxLoad
         /\ Near(Clamped(PreviousLoad + delta))
<1> DEFINE p == PreviousLoad
<1>1. p \in 0 .. MaxLoad /\ (gpu # None => p = gpu)
  BY LoadAssumption DEF PreviousLoad
<1>2. MaxLoad \in Nat /\ MaxDelta \in Nat
  BY LoadAssumption
<1> HIDE DEF p
<1>3. /\ Clamped(p + delta) \in 0 .. MaxLoad
      /\ Clamped(p + delta) - p \in -MaxDelta .. MaxDelta
  BY <1>1, <1>2 DEF Clamped
<1> QED BY <1>1, <1>3 DEF Near, p

LEMMA SpeedsAreNumbers == \A s \in Speeds : Rpm(s) \in Nat
<1> SUFFICES ASSUME NEW s \in Speeds PROVE Rpm(s) \in Nat
  OBVIOUS
<1>1. 4 * s \in Nat /\ WordSize \in Nat \ {0}
  BY LoadAssumption
<1>2. (4 * s) % WordSize \in Nat
  BY <1>1
<1> QED BY <1>2 DEF Rpm

(* A job begins, reads the fan or moves the load: the queue stays, and the *)
(* number of a sample, once given, stays.                                  *)
LEMMA WorkStep ==
  ASSUME IInv, NEW d \in Jobs, Begin(d) \/ ReadFan(d) \/ MoveLoad(d)
  PROVE  SampleTypes' /\ StopInv' /\ OrderInv' /\ FreshInv' /\ MenuFollows'
<1>1. SampleTypes /\ StopInv /\ OrderInv /\ FreshInv /\ MenuFollows
  BY Types DEF IInv
<1>2. CASE Begin(d)
  <2>1. /\ running /\ \A j \in Jobs : job[j] = "idle"
        /\ job' = [job EXCEPT ![d] = "fan"] /\ taken' = taken + 1
        /\ sample' = [sample EXCEPT ![d] = [NoSample EXCEPT !.n = taken + 1]]
        /\ UNCHANGED <<running, opened, queue, fan, gpu, menu, frame, choice, saved>>
    BY <1>2 DEF Begin, QueueFree, mainVars
  <2>2. /\ [NoSample EXCEPT !.n = taken + 1] \in Samples
        /\ [NoSample EXCEPT !.n = taken + 1].n = taken + 1
        /\ ~[NoSample EXCEPT !.n = taken + 1].fresh
    BY <1>1, NoSampleType DEF OrderInv, Samples
  <2>3. SampleTypes'
    BY <1>1, <2>1, <2>2 DEF SampleTypes
  <2>4. Waiting' = Waiting /\ \A i \in Waiting : Number(i)' = Number(i)
    BY <2>1 DEF Waiting, Number
  <2>5. OrderInv'
    BY <1>1, <2>1, <2>2, <2>4 DEF OrderInv, SampleTypes, Busy
  <2>6. FreshInv'
    BY <1>1, <2>1, <2>2, <2>4 DEF FreshInv, SampleTypes, Near
  <2>7. StopInv' /\ MenuFollows'
    BY <1>1, <2>1 DEF StopInv, MenuFollows
  <2> QED BY <2>3, <2>5, <2>6, <2>7
<1>3. CASE ReadFan(d)
  <2>1. /\ job[d] = "fan" /\ job' = [job EXCEPT ![d] = "gpu"] /\ opened' \in {opened, TRUE}
        /\ UNCHANGED <<running, queue, fan, gpu, menu, frame, choice, saved, taken>>
    BY <1>3 DEF ReadFan, mainVars
  <2>2. PICK rpm \in Nat : sample' = [sample EXCEPT ![d].fan = rpm]
    BY <1>3, SpeedsAreNumbers DEF ReadFan
  <2>3. /\ sample' \in [Jobs -> Samples]
        /\ sample'[d].fresh <=> sample[d].fresh
        /\ \A j \in Jobs : sample'[j].n = sample[j].n /\ (j # d => sample'[j] = sample[j])
    BY <1>1, <2>2 DEF SampleTypes, Samples
  <2>4. SampleTypes'
    BY <1>1, <2>1, <2>3 DEF SampleTypes
  <2>5. Waiting' = Waiting /\ \A i \in Waiting : Number(i)' = Number(i)
    BY <2>1 DEF Waiting, Number
  <2>6. Busy(d) /\ \A j \in Jobs : Busy(j)' <=> Busy(j)
    BY <1>1, <2>1 DEF Busy, SampleTypes
  <2>7. OrderInv'
    <3>1. \A j \in Jobs : IF Busy(j)' THEN sample'[j].n \in 1 .. taken' ELSE sample'[j] = NoSample
      BY <1>1, <2>1, <2>3, <2>6 DEF OrderInv
    <3>2. /\ \A i \in Waiting', j \in Jobs : Busy(j)' => Number(i)' < sample'[j].n
          /\ \A i \in Waiting' : Number(i)' \in 1 .. taken'
          /\ \A i, k \in Waiting' : i < k => Number(i)' < Number(k)'
      BY <1>1, <2>1, <2>3, <2>5, <2>6 DEF OrderInv
    <3>3. taken' \in Nat /\ \A j, k \in Jobs : Busy(j)' /\ Busy(k)' => j = k
      BY <1>1, <2>1, <2>6 DEF OrderInv
    <3> QED BY <3>1, <3>2, <3>3 DEF OrderInv
  <2>8. FreshInv'
    <3>1. ~sample[d].fresh
      BY <1>1, <2>1 DEF FreshInv
    <3>2. \A j \in Jobs : sample'[j].fresh => j # d /\ job'[j] = job[j] /\ sample'[j] = sample[j]
      BY <1>1, <2>1, <2>3, <3>1 DEF SampleTypes
    <3> QED BY <1>1, <2>1, <2>5, <3>2 DEF FreshInv, Near
  <2>9. StopInv' /\ MenuFollows'
    BY <1>1, <2>1, <2>6 DEF StopInv, MenuFollows
  <2> QED BY <2>4, <2>7, <2>8, <2>9
<1>4. CASE MoveLoad(d)
  <2>1. /\ job[d] = "gpu" /\ job' = [job EXCEPT ![d] = "post"]
        /\ UNCHANGED <<running, opened, queue, fan, gpu, menu, frame, choice, saved, taken>>
    BY <1>4 DEF MoveLoad, mainVars
  <2>2. PICK load \in 0 .. MaxLoad :
          /\ Near(load)
          /\ sample' = [sample EXCEPT ![d].gpu = load, ![d].fresh = (Waiting = {})]
    BY <1>1, <1>4, LoadMoves DEF MoveLoad, SampleTypes
  <2>3. /\ sample' \in [Jobs -> Samples] /\ sample'[d].gpu = load
        /\ sample'[d].fresh <=> Waiting = {}
        /\ \A j \in Jobs : sample'[j].n = sample[j].n /\ (j # d => sample'[j] = sample[j])
    <3>1. sample[d] \in Samples
      BY <1>1 DEF SampleTypes
    <3>2. sample'[d] = [sample[d] EXCEPT !.gpu = load, !.fresh = (Waiting = {})]
      BY <1>1, <2>2 DEF SampleTypes
    <3>3. /\ sample'[d] \in Samples /\ sample'[d].gpu = load /\ sample'[d].n = sample[d].n
          /\ sample'[d].fresh <=> Waiting = {}
      BY <3>1, <3>2 DEF Samples
    <3>4. \A j \in Jobs : j # d => sample'[j] = sample[j]
      BY <1>1, <2>2 DEF SampleTypes
    <3>5. sample' \in [Jobs -> Samples]
      BY <1>1, <2>2, <3>3, <3>4 DEF SampleTypes
    <3> QED BY <3>3, <3>4, <3>5
  <2>4. SampleTypes'
    BY <1>1, <2>1, <2>3 DEF SampleTypes
  <2>5. Waiting' = Waiting /\ \A i \in Waiting : Number(i)' = Number(i)
    BY <2>1 DEF Waiting, Number
  <2>6. Busy(d) /\ \A j \in Jobs : Busy(j)' <=> Busy(j)
    BY <1>1, <2>1 DEF Busy, SampleTypes
  <2>7. OrderInv'
    BY <1>1, <2>1, <2>3, <2>5, <2>6 DEF OrderInv
  <2>8. FreshInv'
    BY <1>1, <2>1, <2>2, <2>3, <2>5 DEF FreshInv, SampleTypes, Near
  <2>9. StopInv' /\ MenuFollows'
    BY <1>1, <2>1, <2>6 DEF StopInv, MenuFollows
  <2> QED BY <2>4, <2>7, <2>8, <2>9
<1> QED BY <1>2, <1>3, <1>4

(* A sample goes to the main queue, behind those that wait.                *)
LEMMA PostStep ==
  ASSUME IInv, NEW d \in Jobs, PostSample(d)
  PROVE  SampleTypes' /\ StopInv' /\ OrderInv' /\ FreshInv' /\ MenuFollows'
<1>1. SampleTypes /\ StopInv /\ OrderInv /\ FreshInv /\ MenuFollows
  BY Types DEF IInv
<1> DEFINE e == Stores(sample[d])
           last == Len(queue) + 1
<1>2. /\ job[d] = "post" /\ job' = [job EXCEPT ![d] = "idle"]
      /\ sample' = [sample EXCEPT ![d] = NoSample] /\ queue' = Append(queue, e)
      /\ UNCHANGED <<running, opened, fan, gpu, menu, frame, choice, saved, taken>>
  BY DEF PostSample, mainVars
<1>3. e \in Blocks /\ e.kind = "store" /\ e.of = sample[d]
  BY <1>1 DEF SampleTypes, Blocks, Stores
<1> HIDE DEF e
<1>4. /\ queue' \in Seq(Blocks) /\ Len(queue') = last /\ Len(queue) \in Nat
      /\ Waiting' = Waiting \cup {last} /\ Waiting \subseteq 1 .. Len(queue)
      /\ \A i \in Waiting : queue'[i] = queue[i]
      /\ queue'[last] = e
  BY <1>1, <1>2, <1>3, WaitingAppended DEF SampleTypes
<1>5. SampleTypes'
  BY <1>1, <1>2, <1>4, NoSampleType DEF SampleTypes
<1>6. Busy(d) /\ running /\ \A j \in Jobs : job'[j] = "idle" /\ sample'[j] = NoSample /\ (Busy(j) => j = d)
  BY <1>1, <1>2 DEF SampleTypes, OrderInv, StopInv, Busy
<1>7. /\ queue'[last].of = sample[d] /\ sample[d].n \in 1 .. taken
      /\ \A i \in Waiting : Number(i)' = Number(i) /\ Number(i) < sample[d].n
      /\ \A i \in Waiting : Number(i) \in 1 .. taken
  <2>1. queue'[last].of = sample[d] /\ \A i \in Waiting : Number(i)' = Number(i)
    BY <1>3, <1>4 DEF Number
  <2>2. /\ sample[d].n \in 1 .. taken
        /\ \A i \in Waiting : Number(i) \in 1 .. taken /\ Number(i) < sample[d].n
    BY <1>1, <1>6 DEF OrderInv
  <2> QED BY <2>1, <2>2
<1>8. OrderInv'
  <2>1. ASSUME NEW i \in Waiting', NEW k \in Waiting', i < k
        PROVE  Number(i)' < Number(k)'
    <3>1. i \in Waiting
      BY <1>4, <2>1
    <3>2. CASE k = last
      BY <1>7, <3>1, <3>2 DEF Number
    <3>3. CASE k \in Waiting
      BY <1>1, <1>7, <2>1, <3>1, <3>3 DEF OrderInv
    <3> QED BY <1>4, <3>2, <3>3
  <2>2. \A i \in Waiting' : Number(i)' \in 1 .. taken'
    BY <1>2, <1>4, <1>7 DEF Number
  <2>3. taken' \in Nat /\ \A j \in Jobs : ~Busy(j)' /\ sample'[j] = NoSample
    BY <1>1, <1>2, <1>6 DEF OrderInv, Busy
  <2> QED BY <2>1, <2>2, <2>3 DEF OrderInv
<1>9. FreshInv'
  <2>1. ASSUME NEW i \in Waiting', queue'[i].of.fresh
        PROVE  Near(queue[i].of.gpu)' /\ \A k \in Waiting' : i <= k
    <3>1. CASE i = last
      BY <1>1, <1>2, <1>4, <1>7, <2>1, <3>1 DEF FreshInv, Near
    <3>2. CASE i \in Waiting
      BY <1>1, <1>2, <1>4, <2>1, <3>2 DEF FreshInv, Near
    <3> QED BY <1>4, <3>1, <3>2
  <2>2. \A j \in Jobs : ~sample'[j].fresh
    BY <1>6, NoSampleType
  <2> QED BY <2>1, <2>2 DEF FreshInv
<1>10. StopInv'
  BY <1>2, <1>6 DEF StopInv
<1>11. MenuFollows'
  <2>1. \A i \in 1 .. Len(queue) : i \in 1 .. Len(queue') /\ queue'[i] = queue[i]
    BY <1>1, <1>2, <1>3, <1>4, Appended DEF SampleTypes
  <2> QED BY <1>1, <1>2, <2>1 DEF MenuFollows
<1> QED BY <1>5, <1>8, <1>9, <1>10, <1>11

(* The sample at the head is stored: what waits is then numbered from it.  *)
LEMMA StoreStep ==
  ASSUME IInv, StoreSample
  PROVE  /\ SampleTypes' /\ StopInv' /\ OrderInv' /\ FreshInv' /\ MenuFollows'
         /\ Head(queue).of.n \in 1 .. taken
         /\ Head(queue).of.fresh => Near(Head(queue).of.gpu)
<1>1. SampleTypes /\ StopInv /\ OrderInv /\ FreshInv /\ MenuFollows
  BY Types DEF IInv
<1> DEFINE s == Head(queue).of
           m == Len(queue) - 1
           rest == [i \in 1 .. m |-> [queue[i + 1] EXCEPT !.of = Renumber(@, s.n)]]
<1>2. /\ queue # <<>> /\ Head(queue).kind = "store" /\ queue' = Append(rest, Refresh)
      /\ sample' = [j \in Jobs |-> Renumber(sample[j], s.n)]
      /\ taken' = taken - s.n /\ fan' = s.fan /\ gpu' = s.gpu /\ frame' = 1 - frame
      /\ UNCHANGED <<running, opened, job, menu, choice>>
  BY DEF StoreSample, StatusUpdate
<1>3. /\ Len(queue) \in Nat \ {0} /\ m \in Nat /\ Head(queue) = queue[1] /\ Head(queue) \in Blocks
      /\ s \in Samples /\ 1 \in Waiting /\ s = queue[1].of
      /\ \A i \in 1 .. Len(queue) : queue[i] \in Blocks
      /\ \A i \in 1 .. m : i + 1 \in 1 .. Len(queue)
  <2>1. queue \in Seq(Blocks) /\ queue # <<>>
    BY <1>1, <1>2 DEF SampleTypes
  <2>2. Len(queue) \in Nat \ {0} /\ Head(queue) = queue[1]
        /\ \A i \in 1 .. Len(queue) : queue[i] \in Blocks
    BY <2>1
  <2> QED BY <1>2, <2>2 DEF Waiting, Blocks
<1>4. s.n \in 1 .. taken /\ (s.fresh => Near(s.gpu))
  BY <1>1, <1>3 DEF OrderInv, FreshInv, Number
<1>5. \A i \in 1 .. m :
        /\ rest[i] \in Blocks /\ rest[i].kind = queue[i + 1].kind
        /\ rest[i].of = Renumber(queue[i + 1].of, s.n)
  <2>1. s.n \in Int
    BY <1>3 DEF Samples
  <2>2. ASSUME NEW i \in 1 .. m
        PROVE  /\ rest[i] \in Blocks /\ rest[i].kind = queue[i + 1].kind
               /\ rest[i].of = Renumber(queue[i + 1].of, s.n)
    <3>1. queue[i + 1] \in Blocks
      BY <1>3
    <3>2. Renumber(queue[i + 1].of, s.n) \in Samples
      BY <2>1, <3>1, Renumbered DEF Blocks
    <3>3. rest[i] = [queue[i + 1] EXCEPT !.of = Renumber(@, s.n)]
      OBVIOUS
    <3> QED BY <3>1, <3>2, <3>3 DEF Blocks
  <2> QED BY <2>2
<1>6. rest \in Seq(Blocks) /\ Len(rest) = m
  BY <1>3, <1>5
<1> HIDE DEF rest, s, m
<1>7. /\ queue' \in Seq(Blocks) /\ Len(queue') = m + 1 /\ queue'[m + 1] = Refresh
      /\ \A i \in 1 .. m : queue'[i] = rest[i]
  BY <1>2, <1>6, Appended, RefreshType
<1>8. \A i \in Waiting' :
        /\ i \in 1 .. m /\ i + 1 \in Waiting
        /\ queue'[i].of = Renumber(queue[i + 1].of, s.n)
  <2>1. ASSUME NEW i \in Waiting'
        PROVE  i \in 1 .. m /\ queue[i + 1].kind = "store"
    <3>1. i \in 1 .. m + 1 /\ queue'[i].kind = "store"
      BY <1>7 DEF Waiting
    <3>2. i # m + 1
      BY <1>7, <3>1, RefreshType
    <3>3. i \in 1 .. m
      BY <1>3, <3>1, <3>2
    <3> QED BY <1>5, <1>7, <3>1, <3>3
  <2> QED BY <1>3, <1>5, <1>7, <2>1 DEF Waiting
<1>9. \A i \in Waiting' : /\ queue[i + 1].of.n \in 1 .. taken /\ s.n < queue[i + 1].of.n
                         /\ ~queue[i + 1].of.fresh
                         /\ queue[i + 1].of \in Samples
  <2>1. ASSUME NEW i \in Waiting'
        PROVE  i \in Nat \ {0} /\ i + 1 \in Waiting
    BY <1>3, <1>8
  <2>2. \A i \in Waiting' : queue[i + 1].of \in Samples
    BY <1>3, <1>8 DEF Blocks
  <2> QED BY <1>1, <1>3, <2>1, <2>2 DEF OrderInv, FreshInv, Number
<1>10. \A i \in Waiting' : Number(i)' = queue[i + 1].of.n - s.n /\ ~queue'[i].of.fresh
  <2>1. s.n \in Int /\ taken \in Nat
    BY <1>1, <1>3 DEF Samples, OrderInv
  <2>2. ASSUME NEW i \in Waiting'
        PROVE  queue'[i].of.n = queue[i + 1].of.n - s.n /\ ~queue'[i].of.fresh
    <3>1. queue[i + 1].of \in Samples /\ queue[i + 1].of.n # 0 /\ ~queue[i + 1].of.fresh
      BY <1>9, <2>1
    <3>2. queue'[i].of = Renumber(queue[i + 1].of, s.n)
      BY <1>8
    <3>3. /\ Renumber(queue[i + 1].of, s.n).n = queue[i + 1].of.n - s.n
          /\ Renumber(queue[i + 1].of, s.n).fresh = queue[i + 1].of.fresh
      BY <2>1, <3>1, Renumbered
    <3> QED BY <3>1, <3>2, <3>3
  <2> QED BY <2>2 DEF Number
<1>11. \A j \in Jobs : /\ sample'[j] \in Samples
                       /\ (Busy(j) => sample'[j].n = sample[j].n - s.n)
                       /\ (~Busy(j) => sample'[j] = NoSample)
                       /\ ~sample'[j].fresh
  <2>1. ASSUME NEW j \in Jobs
        PROVE  /\ sample[j] \in Samples /\ ~sample[j].fresh
               /\ (Busy(j) => sample[j].n # 0) /\ (~Busy(j) => sample[j] = NoSample)
    BY <1>1, <1>3 DEF SampleTypes, FreshInv, OrderInv
  <2>2. s.n \in Int
    BY <1>3 DEF Samples
  <2>3. \A j \in Jobs : sample'[j] = Renumber(sample[j], s.n)
    BY <1>2
  <2> QED BY <2>1, <2>2, <2>3, Renumbered
<1>12. SampleTypes'
  <2>1. sample' \in [Jobs -> Samples]
    BY <1>2, <1>11
  <2>2. fan' \in Nat \cup {None} /\ gpu' \in (0 .. MaxLoad) \cup {None}
    BY <1>2, <1>3 DEF Samples
  <2>3. taken' \in Int /\ frame' \in {0, 1}
    BY <1>1, <1>2, <1>3 DEF SampleTypes, Samples
  <2> QED BY <1>1, <1>2, <1>7, <2>1, <2>2, <2>3 DEF SampleTypes
<1>13. OrderInv'
  <2>1. taken' \in Nat
    BY <1>1, <1>2, <1>4 DEF OrderInv
  <2>2. \A i \in Waiting' : Number(i)' \in 1 .. taken'
    BY <1>1, <1>2, <1>4, <1>9, <1>10 DEF OrderInv
  <2>3. ASSUME NEW i \in Waiting', NEW k \in Waiting', i < k
        PROVE  Number(i)' < Number(k)'
    <3>1. i + 1 \in Waiting /\ k + 1 \in Waiting /\ i + 1 < k + 1
      BY <1>3, <1>8, <2>3
    <3>2. queue[i + 1].of.n < queue[k + 1].of.n
      BY <1>1, <3>1 DEF OrderInv, Number
    <3> QED BY <1>1, <1>4, <1>9, <1>10, <3>2 DEF OrderInv
  <2>4. ASSUME NEW j \in Jobs, Busy(j)'
        PROVE  /\ Busy(j) /\ sample'[j].n \in 1 .. taken'
               /\ \A i \in Waiting' : Number(i)' < sample'[j].n
    <3>1. Busy(j) /\ sample'[j].n = sample[j].n - s.n
      BY <1>2, <1>11, <2>4 DEF Busy
    <3>2. sample[j].n \in 1 .. taken /\ \A i \in Waiting : Number(i) < sample[j].n
      BY <1>1, <3>1 DEF OrderInv
    <3>3. s.n < sample[j].n /\ \A i \in Waiting' : queue[i + 1].of.n < sample[j].n
      BY <1>3, <1>8, <3>2 DEF Number
    <3>4. taken \in Nat /\ taken' = taken - s.n /\ s.n \in 1 .. taken
      BY <1>1, <1>2, <1>4 DEF OrderInv
    <3>5. sample'[j].n \in 1 .. taken'
      BY <3>1, <3>2, <3>3, <3>4
    <3>6. ASSUME NEW i \in Waiting'
          PROVE  Number(i)' < sample'[j].n
      <4>1. Number(i)' = queue[i + 1].of.n - s.n /\ queue[i + 1].of.n \in 1 .. taken
        BY <1>9, <1>10
      <4>2. queue[i + 1].of.n < sample[j].n
        BY <3>3
      <4> QED BY <3>1, <3>2, <3>4, <4>1, <4>2
    <3> QED BY <3>1, <3>5, <3>6
  <2>5. \A j \in Jobs : ~Busy(j)' => sample'[j] = NoSample
    BY <1>2, <1>11 DEF Busy
  <2>6. \A j, k \in Jobs : Busy(j)' /\ Busy(k)' => j = k
    BY <1>1, <2>4 DEF OrderInv
  <2> QED BY <2>1, <2>2, <2>3, <2>4, <2>5, <2>6 DEF OrderInv
<1>14. FreshInv'
  BY <1>10, <1>11 DEF FreshInv
<1>15. StopInv'
  BY <1>1, <1>2 DEF StopInv
<1>16. MenuFollows'
  BY <1>3, <1>7, RefreshType DEF MenuFollows
<1> QED BY <1>4, <1>12, <1>13, <1>14, <1>15, <1>16 DEF s

(* The redraw at the head is done.                                         *)
LEMMA RedrawStep ==
  ASSUME IInv, Redraw
  PROVE  SampleTypes' /\ StopInv' /\ OrderInv' /\ FreshInv' /\ MenuFollows'
<1>1. SampleTypes /\ StopInv /\ OrderInv /\ FreshInv /\ MenuFollows
  BY Types DEF IInv
<1>2. /\ queue # <<>> /\ queue' = Tail(queue) /\ menu' = Drawn(choice, fan, gpu)
      /\ UNCHANGED <<running, opened, job, sample, fan, gpu, frame, choice, saved, taken>>
  BY DEF Redraw, jobVars
<1>3. /\ queue' \in Seq(Blocks) /\ Len(queue') = Len(queue) - 1 /\ Len(queue) \in Nat \ {0}
      /\ \A i \in 1 .. Len(queue') : queue'[i] = queue[i + 1]
  BY <1>1, <1>2 DEF SampleTypes
<1>4. \A i \in Waiting' : /\ i \in Nat /\ i + 1 \in Waiting /\ queue'[i] = queue[i + 1]
                         /\ Number(i)' = Number(i + 1)
  BY <1>3 DEF Waiting, Number
<1>5. SampleTypes'
  BY <1>1, <1>2, <1>3 DEF SampleTypes
<1>6. OrderInv'
  <2>1. ASSUME NEW i \in Waiting', NEW k \in Waiting', i < k
        PROVE  Number(i)' < Number(k)'
    <3>1. i + 1 \in Waiting /\ k + 1 \in Waiting /\ i + 1 < k + 1
      BY <1>4, <2>1
    <3> QED BY <1>1, <1>4, <3>1 DEF OrderInv
  <2>2. \A j \in Jobs : Busy(j)' <=> Busy(j)
    BY <1>2 DEF Busy
  <2> QED BY <1>1, <1>2, <1>4, <2>1, <2>2 DEF OrderInv
<1>7. FreshInv'
  <2>1. ASSUME NEW i \in Waiting', queue'[i].of.fresh
        PROVE  Near(queue[i].of.gpu)' /\ \A k \in Waiting' : i <= k
    <3>1. Near(queue[i + 1].of.gpu) /\ \A k \in Waiting : i + 1 <= k
      BY <1>1, <1>4, <2>1 DEF FreshInv
    <3>2. Near(queue[i].of.gpu)'
      BY <1>2, <1>4, <3>1 DEF Near
    <3>3. ASSUME NEW k \in Waiting'
          PROVE  i <= k
      BY <1>4, <3>1
    <3> QED BY <3>2, <3>3
  <2> QED BY <1>1, <1>2, <1>4, <2>1 DEF FreshInv, Near
<1>8. StopInv' /\ MenuFollows'
  BY <1>1, <1>2 DEF StopInv, MenuFollows, Busy
<1> QED BY <1>5, <1>6, <1>7, <1>8

(* The user switches an item on or off: a redraw comes to the queue.       *)
LEMMA ToggleStep ==
  ASSUME IInv, NEW item \in Items, Toggle(item)
  PROVE  SampleTypes' /\ StopInv' /\ OrderInv' /\ FreshInv' /\ MenuFollows'
<1>1. SampleTypes /\ StopInv /\ OrderInv /\ FreshInv /\ MenuFollows
  BY Types DEF IInv
<1>2. /\ running /\ queue' = Append(queue, Refresh)
      /\ UNCHANGED <<running, opened, job, sample, fan, gpu, menu, frame, saved, taken>>
  BY DEF Toggle, StatusUpdate, jobVars, mainVars
<1>3. /\ queue' \in Seq(Blocks) /\ Len(queue') = Len(queue) + 1 /\ Len(queue) \in Nat
      /\ Waiting' = Waiting /\ queue'[Len(queue) + 1] = Refresh
      /\ \A i \in Waiting : queue'[i] = queue[i]
  BY <1>1, <1>2, WaitingAppended, RefreshType DEF SampleTypes
<1>4. SampleTypes'
  BY <1>1, <1>2, <1>3 DEF SampleTypes
<1>5. /\ \A j \in Jobs : Busy(j)' <=> Busy(j)
      /\ \A i \in Waiting : Number(i)' = Number(i)
  BY <1>2, <1>3 DEF Busy, Number
<1>6. OrderInv'
  BY <1>1, <1>2, <1>3, <1>5 DEF OrderInv
<1>7. FreshInv'
  BY <1>1, <1>2, <1>3 DEF FreshInv, Near
<1>8. StopInv' /\ MenuFollows'
  BY <1>1, <1>2, <1>3, RefreshType DEF StopInv, MenuFollows
<1> QED BY <1>4, <1>6, <1>7, <1>8

LEMMA StepInv == IInv /\ [Next]_vars => IInv'
<1> SUFFICES ASSUME IInv, [Next]_vars PROVE IInv'
  OBVIOUS
<1>1. SampleTypes /\ MenuTypes /\ MenuTypes'
  BY Types, MenuTypesStep DEF IInv
<1>2. SampleTypes' /\ StopInv' /\ OrderInv' /\ FreshInv' /\ MenuFollows'
  <2>1. CASE Launch \/ Quit
    BY <2>1, LifeStep
  <2>2. ASSUME NEW j \in Jobs, Begin(j) \/ Fetch(j)
        PROVE  SampleTypes' /\ StopInv' /\ OrderInv' /\ FreshInv' /\ MenuFollows'
    BY <2>2, WorkStep, PostStep DEF Fetch
  <2>3. CASE Main
    BY <2>3, StoreStep, RedrawStep DEF Main
  <2>4. ASSUME NEW i \in Items, Toggle(i)
        PROVE  SampleTypes' /\ StopInv' /\ OrderInv' /\ FreshInv' /\ MenuFollows'
    BY <2>4, ToggleStep
  <2>5. CASE UNCHANGED vars
    <3>1. UNCHANGED <<running, opened, job, sample, queue, fan, gpu, menu, frame, choice, taken>>
      BY <2>5 DEF vars, jobVars, mainVars
    <3>2. SampleTypes' /\ StopInv' /\ MenuFollows'
      BY <1>1, <3>1 DEF IInv, SampleTypes, StopInv, MenuFollows, Busy
    <3>3. Waiting' = Waiting
      BY <3>1 DEF Waiting
    <3>4. OrderInv'
      BY <3>1, <3>3 DEF IInv, OrderInv, Busy, Number
    <3>5. FreshInv'
      BY <3>1, <3>3 DEF IInv, FreshInv, Near
    <3> QED BY <3>2, <3>4, <3>5
  <2> QED BY <2>1, <2>2, <2>3, <2>4, <2>5 DEF Next
<1>3. TypeOK'
  <2>1. TypeOK' <=> SampleTypes' /\ MenuTypes'
    BY DEF TypeOK, SampleTypes, MenuTypes, Blocks
  <2> QED BY <1>1, <1>2, <2>1
<1> QED BY <1>2, <1>3 DEF IInv

-----------------------------------------------------------------------------
(* IInv holds in every reachable state.                                    *)
THEOREM Invariance == Spec => []IInv
<1>1. Init => IInv
  BY InitInv
<1>2. IInv /\ [Next]_vars => IInv'
  BY StepInv
<1> QED BY <1>1, <1>2, PTL DEF Spec

(* Every variable keeps to its type, and the load to a percentage.         *)
THEOREM TypeCorrect == Spec => []TypeOK
BY Invariance, PTL DEF IInv

(* With no redraw on its way the menu bar shows what the program holds and *)
(* hides what the user does not want to see.                               *)
THEOREM MenuIsCurrent == Spec => []MenuFollows
BY Invariance, PTL DEF IInv

(* A load made while no sample waited comes on display at most MaxDelta    *)
(* from the one before it.                                                 *)
THEOREM LoadIsSmooth == Spec => UndelayedIsSmooth
<1>1. ASSUME IInv, [Next]_vars
      PROVE  [frame' # frame /\ Head(queue).of.fresh /\ gpu # None
                => gpu' - gpu \in -MaxDelta .. MaxDelta]_vars
  <2>1. CASE StoreSample
    <3>1. Head(queue).of.fresh => Near(Head(queue).of.gpu)
      BY <1>1, <2>1, StoreStep
    <3>2. gpu' = Head(queue).of.gpu
      BY <2>1 DEF StoreSample
    <3> QED BY <3>1, <3>2 DEF Near
  <2>2. CASE ~StoreSample
    <3>1. frame' = frame
      BY <1>1, <2>2 DEF Next, Launch, Quit, Begin, Fetch, ReadFan, MoveLoad, PostSample, Main,
                        Redraw, Toggle, mainVars, vars
    <3> QED BY <3>1
  <2> QED BY <2>1, <2>2
<1> QED BY <1>1, Invariance, PTL DEF Spec, UndelayedIsSmooth

(* The display implements the safety part of Gauge: each frame shows a     *)
(* newer sample than the one before.                                       *)
THEOREM NeverGoesBack == Spec => Display!Safety
<1>1. Init => Display!Init
  BY DEF Init, Display!Init
<1>2. ASSUME IInv, [Next]_vars
      PROVE  [Display!Next]_(Display!vars)
  <2>1. taken \in Nat
    BY <1>2 DEF IInv, OrderInv
  <2>2. CASE Quit
    BY <2>2 DEF Quit, Display!Next, Display!Quit
  <2>3. ASSUME NEW j \in Jobs, Begin(j)
        PROVE  Display!Sample
    BY <2>3 DEF Begin, mainVars, Display!Sample
  <2>4. CASE StoreSample
    <3>1. Head(queue).of.n \in 1 .. taken
      BY <1>2, <2>4, StoreStep
    <3>2. taken' = taken - Head(queue).of.n /\ frame' = 1 - frame
      BY <2>4 DEF StoreSample
    <3>3. Display!Show
      BY <2>1, <3>1, <3>2 DEF Display!Show
    <3> QED BY <3>3 DEF Display!Next
  <2>5. CASE Launch \/ Redraw \/ (\E j \in Jobs : Fetch(j)) \/ (\E i \in Items : Toggle(i))
             \/ UNCHANGED vars
    BY <2>5 DEF Launch, Redraw, Fetch, ReadFan, MoveLoad, PostSample, Toggle, mainVars, vars,
                Display!vars
  <2> QED BY <1>2, <2>2, <2>3, <2>4, <2>5 DEF Next, Main, Display!Next
<1> QED BY <1>1, <1>2, Invariance, PTL DEF Spec, Display!Safety

=============================================================================
