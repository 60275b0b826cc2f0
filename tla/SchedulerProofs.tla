-------------------------- MODULE SchedulerProofs --------------------------
(***************************************************************************)
(* Proofs about Scheduler, for any jobs, days, delays and bounds.          *)
(***************************************************************************)
EXTENDS Scheduler, FiniteSetTheorems, TLAPS

-----------------------------------------------------------------------------
(* Calendar: a date is a number, later times have later dates, and the     *)
(* next hour of a daily job is ahead.                                      *)
LEMMA DayBounds ==
  ASSUME NEW t \in Nat
  PROVE  /\ DateKey(t) \in Nat
         /\ Day * DateKey(t) \in Nat
         /\ t < Day * DateKey(t) + Day
BY SchedulerAssumption DEF DateKey

LEMMA DateInRange ==
  ASSUME NEW t \in 0..MaxWall
  PROVE  DateKey(t) \in Dates
BY SchedulerAssumption DEF DateKey, Dates

LEMMA UntilHourNat ==
  ASSUME NEW t \in Nat
  PROVE  UntilHour(t) \in Nat
<1> DEFINE midnight == Day * DateKey(t)
<1>1. midnight \in Nat /\ t < midnight + Day
  BY DayBounds
<1> HIDE DEF midnight
<1>2. Hour \in Nat /\ Day \in Nat
  BY SchedulerAssumption
<1> QED
  BY <1>1, <1>2 DEF UntilHour, midnight

LEMMA DelaysNat ==
  ASSUME NEW j \in Jobs, NEW t \in Nat, NEW d \in Delays(j, t)
  PROVE  d \in Nat
BY UntilHourNat, SchedulerAssumption DEF Delays

-----------------------------------------------------------------------------
(***************************************************************************)
(* Types.  The date of a run is one that the clock can show, and only      *)
(* daily jobs leave markers.                                               *)
(***************************************************************************)
Dated(q) == q.pc \in {"fire", "run", "mark"}

DatesInRange == \A l \in Loops : Dated(loop[l]) => loop[l].date \in Dates

MarksDaily == \A l \in Loops : loop[l].pc = "mark" => l[1] \in Daily

TypeInv == TypeOK /\ wall \in 0..MaxWall /\ DatesInRange /\ MarksDaily

(* A sleeping loop has no date yet.                                        *)
LEMMA SleepingType ==
  ASSUME NEW d \in Nat
  PROVE  Sleeping(d) \in LoopType /\ Sleeping(d).pc = "wait"
BY DEF Sleeping, LoopType, Dated

LEMMA AllOffType ==
  /\ AllOff \in [Loops -> LoopType]
  /\ \A l \in Loops : AllOff[l].pc = "off"
BY DEF AllOff, Off, LoopType

LEMMA InitTypeInv == Init => TypeInv
<1> SUFFICES ASSUME Init PROVE TypeInv
  OBVIOUS
<1>1. TypeOK
  <2>1. loop \in [Loops -> LoopType]
    BY AllOffType DEF Init
  <2>2. kv = {} /\ ran \in [Daily -> [Dates -> Nat]]
    BY DEF Init
  <2>3. gaps \in [Daily -> [Dates -> Nat]]
    BY DEF Init
  <2>4. /\ wall \in Nat /\ process \in {"down", "up", "stopping"}
        /\ connected \in BOOLEAN /\ hooks \in Nat /\ started \in BOOLEAN
        /\ steps \in Nat /\ starts \in Nat /\ wentOnline \in BOOLEAN
    BY DEF Init
  <2> QED
    BY <2>1, <2>2, <2>3, <2>4 DEF TypeOK
<1>2. wall \in 0..MaxWall
  BY SchedulerAssumption DEF Init
<1>3. DatesInRange /\ MarksDaily
  BY AllOffType DEF Init, DatesInRange, MarksDaily, Dated
<1> QED
  BY <1>1, <1>2, <1>3 DEF TypeInv

(* A loop that goes back to sleep, a loop that gets on.                    *)
LEMMA SleepAgainGoes ==
  ASSUME TypeInv, NEW l \in Loops, SleepAgain(l)
  PROVE  \E d \in Nat : loop' = [loop EXCEPT ![l] = Sleeping(d)]
<1>1. l[1] \in Jobs /\ wall \in Nat
  BY DEF Loops, TypeInv, TypeOK
<1> QED
  BY <1>1, DelaysNat DEF SleepAgain

(* What one step of a loop does to the loops: it was started, is well      *)
(* typed after, and no other moves.                                        *)
LoopGoes(l, q) ==
  /\ loop[l].pc # "off"
  /\ loop' = [loop EXCEPT ![l] = q]
  /\ q \in LoopType
  /\ Dated(q) => q.date \in Dates
  /\ q.pc = "mark" => l[1] \in Daily

LEMMA LoopStepGoes ==
  ASSUME TypeInv, NEW l \in Loops, LoopStep(l)
  PROVE  /\ \E q : LoopGoes(l, q)
         /\ UNCHANGED <<wall, steps, session>>
<1> USE DEF LoopGoes
<1>0. UNCHANGED <<wall, steps, session>>
  BY DEF LoopStep, StaggerOver, WaitOver, Fire, Return, Mark, SleepCancelled
<1> SUFFICES \E q : LoopGoes(l, q)
  BY <1>0
<1>1. loop[l] \in LoopType /\ loop \in [Loops -> LoopType]
  BY DEF TypeInv, TypeOK
<1>2. Dated(loop[l]) => loop[l].date \in Dates
  BY DEF TypeInv, DatesInRange
<1>3. ASSUME SleepAgain(l), loop[l].pc # "off"
      PROVE  \E q : LoopGoes(l, q)
  <2>1. PICK d \in Nat : loop' = [loop EXCEPT ![l] = Sleeping(d)]
    BY <1>3, SleepAgainGoes
  <2> QED
    BY <1>3, <2>1, SleepingType DEF Dated
<1>4. ASSUME NEW pc \in {"run", "mark"}, Dated(loop[l]),
             loop' = [loop EXCEPT ![l].pc = pc],
             pc = "mark" => l[1] \in Daily
      PROVE  \E q : LoopGoes(l, q)
  <2> DEFINE q == [loop[l] EXCEPT !.pc = pc]
  <2>1. q \in LoopType /\ q.date = loop[l].date /\ q.pc = pc
    BY <1>1 DEF LoopType
  <2>2. loop' = [loop EXCEPT ![l] = q]
    BY <1>4
  <2> QED
    BY <1>2, <1>4, <2>1, <2>2 DEF Dated
<1>5. CASE StaggerOver(l)
  BY <1>3, <1>5 DEF StaggerOver
<1>6. CASE WaitOver(l)
  <2> DEFINE q == [pc |-> "fire", timer |-> 0, date |-> DateKey(wall)]
  <2>1. DateKey(wall) \in Nat /\ DateKey(wall) \in Dates
    BY DateInRange, DayBounds DEF TypeInv, TypeOK
  <2>2. q \in LoopType /\ q.pc = "fire"
    BY <2>1 DEF LoopType
  <2>3. loop[l].pc # "off" /\ loop' = [loop EXCEPT ![l] = q]
    BY <1>6 DEF WaitOver
  <2>4. q.date \in Dates
    BY <2>1
  <2> HIDE DEF q
  <2> QED
    BY <2>2, <2>3, <2>4
<1>7. CASE Fire(l)
  BY <1>3, <1>4, <1>7 DEF Fire, Begin, Dated
<1>8. CASE Return(l)
  BY <1>3, <1>4, <1>8 DEF Return, GoesToMark, AfterError, Dated
<1>9. CASE Mark(l)
  BY <1>3, <1>9 DEF Mark
<1>10. CASE SleepCancelled(l)
  <2>1. Off \in LoopType /\ ~ Dated(Off) /\ Off.pc = "off"
    BY DEF Off, LoopType, Dated
  <2>2. loop[l].pc # "off" /\ loop' = [loop EXCEPT ![l] = Off]
    BY <1>10 DEF SleepCancelled
  <2> QED
    BY <2>1, <2>2
<1> QED
  BY <1>5, <1>6, <1>7, <1>8, <1>9, <1>10 DEF LoopStep

-----------------------------------------------------------------------------
(***************************************************************************)
(* The inductive invariants.  StartInv: before startOnce has run, and in   *)
(* no process, there is no loop; a hook only runs once the process has     *)
(* been online.  MarkInv: without a marker, and with none about to be      *)
(* left, every success of a date is paid for by a gap; so is every success *)
(* before the run in progress.                                             *)
(***************************************************************************)
StartInv ==
  /\ process = "down" \/ ~ started => \A l \in Loops : loop[l].pc = "off"
  /\ process = "down" => hooks = 0
  /\ hooks > 0 => wentOnline
  /\ Sequential
  /\ StartsOnline

At(l, pc, j, d) == l[1] = j /\ loop[l].pc = pc /\ loop[l].date = d

Marking(j, d) == \E l \in Loops : At(l, "mark", j, d)

RunsPaid(j, d) ==
  /\ ran[j][d] <= 1 + gaps[j][d]
  /\ ~ Has(kv, MarkerKey(j, d)) /\ ~ Marking(j, d) => ran[j][d] <= gaps[j][d]
  /\ \A l \in Loops : At(l, "run", j, d) => ran[j][d] <= gaps[j][d]

MarkInv == \A j \in Daily : \A d \in Dates : RunsPaid(j, d)

(* Exit adds at most one to a gap: a job has one goroutine.                *)
LEMMA MarkingCount ==
  ASSUME Sequential, NEW j, NEW d
  PROVE  Cardinality({l \in Loops :
           l[1] = j /\ loop[l].pc = "mark" /\ loop[l].date = d})
           = IF Marking(j, d) THEN 1 ELSE 0
<1> DEFINE M == {l \in Loops :
                   l[1] = j /\ loop[l].pc = "mark" /\ loop[l].date = d}
<1>1. CASE Marking(j, d)
  <2>1. PICK l \in Loops : At(l, "mark", j, d)
    BY <1>1 DEF Marking
  <2>2. M = {l}
    BY <2>1 DEF At, Sequential
  <2> QED
    BY <1>1, <2>2, FS_Singleton
<1>2. CASE ~ Marking(j, d)
  <2>1. M = {}
    BY <1>2 DEF Marking, At
  <2> QED
    BY <1>2, <2>1, FS_EmptySet
<1> QED
  BY <1>1, <1>2

(* A started loop is the only one of its job: after its step the others    *)
(* are still off.                                                          *)
LEMMA LoneLoop ==
  ASSUME TypeInv, Sequential, NEW l \in Loops, NEW q, LoopGoes(l, q),
         NEW m \in Loops
  PROVE  /\ loop'[m] = IF m = l THEN q ELSE loop[m]
         /\ m # l /\ m[1] = l[1] => loop[m].pc = "off" /\ loop'[m].pc = "off"
BY DEF LoopGoes, TypeInv, TypeOK, Sequential

-----------------------------------------------------------------------------
(* Types are kept.                                                         *)
LEMMA LoopStepTypes ==
  ASSUME TypeInv, NEW l \in Loops, LoopStep(l)
  PROVE  TypeInv'
<1>1. PICK q : LoopGoes(l, q)
  BY LoopStepGoes
<1>2. UNCHANGED <<wall, steps, session>>
  BY LoopStepGoes
<1>3. loop' \in [Loops -> LoopType]
  BY <1>1 DEF LoopGoes, TypeInv, TypeOK
<1>4. DatesInRange' /\ MarksDaily'
  BY <1>1 DEF LoopGoes, TypeInv, TypeOK, DatesInRange, MarksDaily, Dated
<1>5. /\ Dated(loop[l]) => loop[l].date \in Dates
      /\ loop[l].pc = "mark" => l[1] \in Daily
  BY DEF TypeInv, DatesInRange, MarksDaily
<1>6. gaps' \in [Daily -> [Dates -> Nat]]
  <2>1. ASSUME l[1] \in Daily, Dated(loop[l]), AddGap(l)
        PROVE  gaps' \in [Daily -> [Dates -> Nat]]
    BY <1>5, <2>1 DEF AddGap, TypeInv, TypeOK
  <2>2. \/ UNCHANGED gaps
        \/ l[1] \in Daily /\ Dated(loop[l]) /\ AddGap(l)
    BY <1>5 DEF LoopStep, StaggerOver, WaitOver, Fire, Return, Mark,
           SleepCancelled, Dated, history
  <2> QED
    BY <2>1, <2>2 DEF TypeInv, TypeOK
<1>7. ran' \in [Daily -> [Dates -> Nat]]
  <2>1. ASSUME l[1] \in Daily, loop[l].date \in Dates,
               ran' = [ran EXCEPT ![l[1]][loop[l].date] = @ + 1]
        PROVE  ran' \in [Daily -> [Dates -> Nat]]
    BY <2>1 DEF TypeInv, TypeOK
  <2>2. \/ UNCHANGED ran
        \/ /\ l[1] \in Daily /\ loop[l].date \in Dates
           /\ ran' = [ran EXCEPT ![l[1]][loop[l].date] = @ + 1]
    BY <1>5 DEF LoopStep, StaggerOver, WaitOver, Fire, Return, Mark,
                SleepCancelled, Dated, history
  <2> QED
    BY <2>1, <2>2 DEF TypeInv, TypeOK
<1>8. kv' \subseteq MarkerRows
  <2>1. ASSUME Mark(l), kv' = Set(kv, MarkerKey(l[1], DateOfRun(l)), "1",
                                  wall \div TicksPerSecond)
        PROVE  kv' \subseteq MarkerRows
    <3>1. l[1] \in Daily /\ DateOfRun(l) \in Dates
      BY <1>5, <2>1 DEF Mark, DateOfRun, Dated
    <3>2. wall \div TicksPerSecond \in Nat
      <4>1. wall \in Nat
        BY DEF TypeInv, TypeOK
      <4> QED
        BY <4>1, SchedulerAssumption
    <3>3. [key |-> MarkerKey(l[1], DateOfRun(l)), value |-> "1",
           updated_at |-> wall \div TicksPerSecond] \in MarkerRows
      BY <3>1, <3>2 DEF MarkerRows
    <3> QED
      BY <2>1, <3>3 DEF Set, Delete, TypeInv, TypeOK
  <2>2. \/ UNCHANGED kv
        \/ Mark(l) /\ kv' = Set(kv, MarkerKey(l[1], DateOfRun(l)), "1",
                                wall \div TicksPerSecond)
    BY DEF LoopStep, StaggerOver, WaitOver, Fire, Return, Mark,
           SleepCancelled
  <2> QED
    BY <2>1, <2>2 DEF TypeInv, TypeOK
<1>9. wentOnline' = wentOnline
  BY DEF LoopStep, StaggerOver, WaitOver, Fire, Return, Mark, SleepCancelled,
         history
<1> QED
  BY <1>2, <1>3, <1>4, <1>6, <1>7, <1>8, <1>9 DEF TypeInv, TypeOK, session

LEMMA NextTypeInv ==
  ASSUME TypeInv, StartInv, [Next]_vars
  PROVE  TypeInv'
<1>1. CASE Tick
  <2>1. wall' \in 0..MaxWall /\ wall' \in Nat
    BY <1>1, SchedulerAssumption DEF Tick, TypeInv, TypeOK
  <2>2. loop' \in [Loops -> LoopType]
    <3>1. ASSUME NEW l \in Loops
          PROVE  [loop[l] EXCEPT !.timer = IF @ > 0 THEN @ - 1 ELSE 0]
                   \in LoopType
      <4>1. loop[l] \in LoopType
        BY DEF TypeInv, TypeOK
      <4>2. (IF loop[l].timer > 0 THEN loop[l].timer - 1 ELSE 0) \in Nat
        BY <4>1 DEF LoopType
      <4> QED
        BY <4>1, <4>2 DEF LoopType
    <3> QED
      BY <1>1, <3>1 DEF Tick
  <2>3. ASSUME NEW l \in Loops
        PROVE  loop'[l].pc = loop[l].pc /\ loop'[l].date = loop[l].date
    BY <1>1 DEF Tick, TypeInv, TypeOK, LoopType
  <2>4. DatesInRange' /\ MarksDaily'
    BY <2>3 DEF TypeInv, DatesInRange, MarksDaily, Dated
  <2> QED
    BY <1>1, <2>1, <2>2, <2>4 DEF Tick, TypeInv, TypeOK, session, history
<1>2. ASSUME NEW t \in 0..MaxWall, ClockStep(t)
      PROVE  TypeInv'
  BY <1>2, SchedulerAssumption
     DEF ClockStep, TypeInv, TypeOK, DatesInRange, MarksDaily, Dated,
         session, history
<1>3. CASE Start
  <2>1. DatesInRange' /\ MarksDaily'
    BY <1>3 DEF Start, TypeInv, DatesInRange, MarksDaily, Dated
  <2>2. TypeOK'
    <3>1. kv' = kv /\ hooks' \in Nat /\ process' = "up"
      BY <1>3 DEF Start, HooksAtStart, Opened
    <3>2. starts' \in Nat
      BY <1>3 DEF Start, TypeInv, TypeOK
    <3> QED
      BY <1>3, <3>1, <3>2 DEF Start, TypeInv, TypeOK
  <2> QED
    BY <1>3, <2>1, <2>2 DEF Start, TypeInv
<1>4. CASE Connected
  BY <1>4 DEF Connected, TypeInv, TypeOK, DatesInRange, MarksDaily, Dated
<1>5. CASE Disconnected
  BY <1>5 DEF Disconnected, TypeInv, TypeOK, DatesInRange, MarksDaily,
              Dated, history
<1>6. CASE Cancel
  BY <1>6 DEF Cancel, TypeInv, TypeOK, DatesInRange, MarksDaily, Dated, history
<1>10. CASE ConnectedHook
  <2>1. ASSUME NEW stagger \in [Jobs -> 0..MaxStagger], StartJobs(stagger)
        PROVE  /\ loop' \in [Loops -> LoopType]
               /\ \A l \in Loops : \/ loop'[l] = loop[l]
                                   \/ loop'[l].pc = "stagger"
    <3>1. ASSUME NEW l \in Loops
          PROVE  LET q == [pc |-> "stagger", timer |-> stagger[l[1]],
                           date |-> 0]
                 IN  q \in LoopType /\ q.pc = "stagger"
      <4>1. stagger[l[1]] \in Nat
        <5>1. l[1] \in Jobs
          BY DEF Loops
        <5>2. stagger[l[1]] \in 0..MaxStagger
          BY <5>1
        <5> QED
          BY <5>2, SchedulerAssumption
      <4> QED
        BY <4>1 DEF LoopType
    <3> QED
      BY <2>1, <3>1 DEF StartJobs, TypeInv, TypeOK
  <2>2. /\ loop' \in [Loops -> LoopType]
        /\ \A l \in Loops : loop'[l] = loop[l] \/ loop'[l].pc = "stagger"
    BY <1>10, <2>1 DEF ConnectedHook, TypeInv, TypeOK
  <2>3. DatesInRange' /\ MarksDaily'
    BY <2>2 DEF TypeInv, DatesInRange, MarksDaily, Dated
  <2> QED
    BY <1>10, <2>2, <2>3 DEF ConnectedHook, TypeInv, TypeOK, history
<1>7. ASSUME NEW l \in Loops, LoopStep(l)
      PROVE  TypeInv'
  BY <1>7, LoopStepTypes
<1>8. CASE Exit
  <2>1. gaps' \in [Daily -> [Dates -> Nat]]
    <3>1. ASSUME NEW j \in Daily, NEW d \in Dates
          PROVE  gaps[j][d] + Cardinality({l \in Loops :
                   l[1] = j /\ loop[l].pc = "mark" /\ loop[l].date = d})
                   \in Nat
      <4>1. gaps[j][d] \in Nat
        BY DEF TypeInv, TypeOK
      <4> DEFINE n == Cardinality({l \in Loops :
                   l[1] = j /\ loop[l].pc = "mark" /\ loop[l].date = d})
      <4>2. n = IF Marking(j, d) THEN 1 ELSE 0
        BY MarkingCount DEF StartInv
      <4> HIDE DEF n
      <4>3. n \in Nat
        BY <4>2
      <4>4. gaps[j][d] + n \in Nat
        BY <4>1, <4>3
      <4> QED
        BY <4>4 DEF n
    <3> QED
      BY <1>8, <3>1 DEF Exit
  <2>2. loop' = AllOff
    BY <1>8 DEF Exit
  <2>3. loop' \in [Loops -> LoopType] /\ DatesInRange' /\ MarksDaily'
    BY <2>2, AllOffType DEF DatesInRange, MarksDaily, Dated
  <2> QED
    BY <1>8, <2>1, <2>3 DEF Exit, TypeInv, TypeOK
<1>9. CASE UNCHANGED vars
  BY <1>9 DEF vars, TypeInv, TypeOK, DatesInRange, MarksDaily, Dated,
              session, history
<1> QED
  BY <1>1, <1>2, <1>3, <1>4, <1>5, <1>6, <1>7, <1>8, <1>9, <1>10 DEF Next

-----------------------------------------------------------------------------
(* The jobs are started once in a process, and only when it is online.     *)
LEMMA InitStartInv == Init => StartInv
BY AllOffType DEF Init, StartInv, Sequential, StartsOnline

LEMMA LoopStepStart ==
  ASSUME TypeInv, StartInv, NEW l \in Loops, LoopStep(l)
  PROVE  StartInv'
<1>1. PICK q : LoopGoes(l, q)
  BY LoopStepGoes
<1>2. UNCHANGED <<process, hooks, started>>
  BY LoopStepGoes DEF session
<1>3. wentOnline' = wentOnline
  BY DEF LoopStep, StaggerOver, WaitOver, Fire, Return, Mark, SleepCancelled,
         history
<1>4. Sequential /\ ~ (process = "down" \/ ~ started)
  BY <1>1 DEF LoopGoes, StartInv
<1>5. Sequential'
  BY <1>1, <1>4, LoneLoop DEF Sequential
<1>6. StartsOnline'
  BY <1>1, <1>3, <1>4, LoneLoop DEF LoopGoes, StartInv, StartsOnline
<1> QED
  BY <1>2, <1>3, <1>4, <1>5, <1>6 DEF StartInv

LEMMA NextStartInv ==
  ASSUME TypeInv, StartInv, [Next]_vars
  PROVE  StartInv'
<1> USE DEF StartInv, Sequential, StartsOnline
<1>1. CASE Tick
  <2>1. \A l \in Loops : loop'[l].pc = loop[l].pc
    BY <1>1 DEF Tick, TypeInv, TypeOK, LoopType
  <2> QED
    BY <1>1, <2>1 DEF Tick, session, history
<1>2. ASSUME NEW t \in 0..MaxWall, ClockStep(t)
      PROVE  StartInv'
  BY <1>2 DEF ClockStep, session, history
<1>3. CASE Start
  BY <1>3 DEF Start, HooksAtStart
<1>4. CASE Connected
  BY <1>4 DEF Connected, Running, TypeInv, TypeOK
<1>5. CASE Disconnected
  BY <1>5 DEF Disconnected, history
<1>6. CASE Cancel
  BY <1>6 DEF Cancel, history
<1>7. CASE ConnectedHook
  <2>1. ASSUME NEW stagger \in [Jobs -> 0..MaxStagger], StartJobs(stagger),
               ~ started
        PROVE  Sequential'
    <3>1. \A l \in Loops : loop'[l].pc # "off" => l[2] = FreeSlot(l[1])
      BY <2>1 DEF StartJobs
    <3> QED
      BY <3>1 DEF Loops
  <2>2. Sequential'
    BY <1>7, <2>1 DEF ConnectedHook, StartOnceDone
  <2>3. process # "down" /\ started' /\ process' = process
    BY <1>7 DEF ConnectedHook, Running
  <2>4. wentOnline /\ wentOnline'
    BY <1>7 DEF ConnectedHook, history
  <2> QED
    BY <2>2, <2>3, <2>4
<1>8. ASSUME NEW l \in Loops, LoopStep(l)
      PROVE  StartInv'
  BY <1>8, LoopStepStart
<1>9. CASE Exit
  BY <1>9, AllOffType DEF Exit
<1>10. CASE UNCHANGED vars
  BY <1>10 DEF vars, session, history
<1> QED
  BY <1>1, <1>2, <1>3, <1>4, <1>5, <1>6, <1>7, <1>8, <1>9, <1>10 DEF Next

-----------------------------------------------------------------------------
(***************************************************************************)
(* The marker.                                                             *)
(***************************************************************************)
LEMMA HasSet ==
  ASSUME NEW table, NEW key, NEW value, NEW second, NEW other
  PROVE  Has(Set(table, key, value, second), other)
           <=> Has(table, other) \/ other = key
<1>1. ASSUME other = key
      PROVE  Has(Set(table, key, value, second), other)
  <2> DEFINE row == [key |-> key, value |-> value, updated_at |-> second]
  <2>1. row \in Set(table, key, value, second) /\ row.key = other
    BY <1>1 DEF Set
  <2> QED
    BY <2>1 DEF Has, Rows
<1>2. ASSUME other # key
      PROVE  Rows(Set(table, key, value, second), other) = Rows(table, other)
  BY <1>2 DEF Rows, Set, Delete
<1> QED
  BY <1>1, <1>2 DEF Has

LEMMA InitMarkInv == Init => MarkInv
<1> SUFFICES ASSUME Init, NEW j \in Daily, NEW d \in Dates
             PROVE  RunsPaid(j, d)
  BY DEF MarkInv
<1>1. ran[j][d] = 0 /\ gaps[j][d] = 0
  BY DEF Init
<1> QED
  BY <1>1 DEF RunsPaid

(* What is said of a job's dates is said of its only loop.                 *)
LEMMA LoneRuns ==
  ASSUME TypeInv, Sequential, NEW l \in Loops, NEW q, LoopGoes(l, q),
         NEW d
  PROVE  /\ Marking(l[1], d)
              <=> loop[l].pc = "mark" /\ loop[l].date = d
         /\ Marking(l[1], d)'
              <=> loop'[l].pc = "mark" /\ loop'[l].date = d
         /\ \A m \in Loops : At(m, "run", l[1], d)' => m = l
BY LoneLoop DEF Marking, At

(* The other jobs are not touched.                                         *)
LEMMA OtherJobs ==
  ASSUME TypeInv, NEW l \in Loops, LoopStep(l),
         NEW j \in Daily, j # l[1], NEW d \in Dates
  PROVE  /\ ran'[j] = ran[j] /\ gaps'[j] = gaps[j]
         /\ Has(kv', MarkerKey(j, d)) <=> Has(kv, MarkerKey(j, d))
         /\ Marking(j, d)' <=> Marking(j, d)
         /\ \A m \in Loops : At(m, "run", j, d)' <=> At(m, "run", j, d)
<1>1. PICK q : LoopGoes(l, q)
  BY LoopStepGoes
<1>2. \A m \in Loops : m[1] = j => loop'[m] = loop[m]
  BY <1>1 DEF LoopGoes, TypeInv, TypeOK
<1>3. AddGap(l) => gaps'[j] = gaps[j]
  BY DEF AddGap, TypeInv, TypeOK
<1>4. UNCHANGED gaps \/ AddGap(l)
  BY DEF LoopStep, StaggerOver, WaitOver, Fire, Return, Mark, SleepCancelled,
         history
<1>5. ran'[j] = ran[j]
  <2>1. UNCHANGED ran \/ ran' = [ran EXCEPT ![l[1]][loop[l].date] = @ + 1]
    BY DEF LoopStep, StaggerOver, WaitOver, Fire, Return, Mark,
           SleepCancelled, history
  <2> QED
    BY <2>1 DEF TypeInv, TypeOK
<1>6. Has(kv', MarkerKey(j, d)) <=> Has(kv, MarkerKey(j, d))
  <2>1. \/ UNCHANGED kv
        \/ kv' = Set(kv, MarkerKey(l[1], DateOfRun(l)), "1",
                     wall \div TicksPerSecond)
    BY DEF LoopStep, StaggerOver, WaitOver, Fire, Return, Mark,
           SleepCancelled
  <2>2. MarkerKey(j, d) # MarkerKey(l[1], DateOfRun(l))
    BY DEF MarkerKey
  <2> QED
    BY <2>1, <2>2, HasSet
<1> QED
  BY <1>2, <1>3, <1>4, <1>5, <1>6 DEF Marking, At

(* A loop that sleeps has no run going and no marker to leave.             *)
LEMMA SleepAgainWaits ==
  ASSUME TypeInv, NEW l \in Loops, SleepAgain(l)
  PROVE  loop'[l].pc = "wait"
<1>1. PICK d \in Nat : loop' = [loop EXCEPT ![l] = Sleeping(d)]
  BY SleepAgainGoes
<1>2. loop'[l] = Sleeping(d)
  BY <1>1 DEF TypeInv, TypeOK
<1> QED
  BY <1>2, SleepingType

LEMMA LoopStepMark ==
  ASSUME TypeInv, StartInv, MarkInv, NEW l \in Loops, LoopStep(l)
  PROVE  MarkInv'
<1> SUFFICES ASSUME NEW j \in Daily, NEW d \in Dates
             PROVE  RunsPaid(j, d)'
  BY DEF MarkInv
<1>0. RunsPaid(j, d)
  BY DEF MarkInv
<1>1. CASE j # l[1]
  BY <1>0, <1>1, OtherJobs DEF RunsPaid
<1>2. CASE j = l[1]
  <2>1. PICK q : LoopGoes(l, q)
    BY LoopStepGoes
  <2>2. /\ Marking(j, d) <=> loop[l].pc = "mark" /\ loop[l].date = d
        /\ Marking(j, d)' <=> loop'[l].pc = "mark" /\ loop'[l].date = d
        /\ \A m \in Loops : At(m, "run", j, d)' => m = l
    BY <1>2, <2>1, LoneRuns DEF StartInv
  <2>3. ran[j][d] \in Nat /\ gaps[j][d] \in Nat
    BY DEF TypeInv, TypeOK
  <2>4. /\ ran[j][d] <= 1 + gaps[j][d]
        /\ ~ Has(kv, MarkerKey(j, d))
             /\ ~ (loop[l].pc = "mark" /\ loop[l].date = d)
             => ran[j][d] <= gaps[j][d]
        /\ loop[l].pc = "run" /\ loop[l].date = d => ran[j][d] <= gaps[j][d]
    BY <1>0, <1>2, <2>2 DEF RunsPaid, At
  <2>5. SUFFICES
          /\ ran'[j][d] <= 1 + gaps'[j][d]
          /\ ~ Has(kv', MarkerKey(j, d))
               /\ ~ (loop'[l].pc = "mark" /\ loop'[l].date = d)
               => ran'[j][d] <= gaps'[j][d]
          /\ loop'[l].pc = "run" /\ loop'[l].date = d
               => ran'[j][d] <= gaps'[j][d]
    BY <1>2, <2>2 DEF RunsPaid, At
  <2>6. loop[l] \in LoopType /\ loop \in [Loops -> LoopType]
    BY DEF TypeInv, TypeOK
  <2>7. ASSUME AddGap(l)
        PROVE  gaps'[j][d] = IF loop[l].date = d THEN gaps[j][d] + 1
                                                 ELSE gaps[j][d]
    BY <1>2, <2>7 DEF AddGap, TypeInv, TypeOK
  <2>8. CASE StaggerOver(l)
    BY <2>3, <2>4, <2>8, SleepAgainWaits DEF StaggerOver, history
  <2>9. CASE WaitOver(l)
    BY <2>3, <2>4, <2>6, <2>9 DEF WaitOver, history
  <2>10. CASE Fire(l)
    <3>1. ran' = ran /\ kv' = kv /\ loop[l].pc = "fire"
      BY <2>10 DEF Fire
    <3>2. ASSUME Begin(l)
          PROVE  loop'[l].pc = "run" /\ loop'[l].date = loop[l].date
      BY <2>6, <3>2 DEF Begin, LoopType
    <3>3. CASE AddGap(l) /\ Begin(l)
      BY <2>3, <2>4, <2>7, <3>1, <3>2, <3>3
    <3>4. CASE UNCHANGED gaps /\ SleepAgain(l)
      BY <2>3, <2>4, <3>1, <3>4, SleepAgainWaits
    <3>5. CASE /\ UNCHANGED gaps /\ Begin(l)
               /\ ~ Has(kv, MarkerKey(j, loop[l].date))
      BY <2>3, <2>4, <3>1, <3>2, <3>5
    <3> QED
      BY <1>2, <2>10, <3>3, <3>4, <3>5 DEF Fire
  <2>11. CASE Return(l)
    <3>1. gaps' = gaps /\ kv' = kv /\ loop[l].pc = "run"
      BY <2>11 DEF Return
    <3>2. CASE UNCHANGED ran /\ SleepAgain(l)
      BY <2>3, <2>4, <3>1, <3>2, SleepAgainWaits
    <3>3. CASE /\ loop' = [loop EXCEPT ![l].pc = "mark"]
               /\ ran' = [ran EXCEPT ![l[1]][loop[l].date] = @ + 1]
      <4>1. loop'[l].pc = "mark" /\ loop'[l].date = loop[l].date
        BY <2>6, <3>3 DEF LoopType
      <4>2. ran'[j][d] = IF loop[l].date = d THEN ran[j][d] + 1 ELSE ran[j][d]
        BY <1>2, <3>3 DEF TypeInv, TypeOK
      <4> QED
        BY <2>3, <2>4, <3>1, <4>1, <4>2
    <3> QED
      BY <2>11, <3>2, <3>3 DEF Return, GoesToMark, AfterError
  <2>12. CASE Mark(l)
    <3>1. ran' = ran /\ loop[l].pc = "mark" /\ loop'[l].pc = "wait"
      BY <2>12, SleepAgainWaits DEF Mark
    <3>2. CASE UNCHANGED kv /\ AddGap(l)
      BY <2>3, <2>4, <2>7, <3>1, <3>2
    <3>3. CASE /\ kv' = Set(kv, MarkerKey(j, loop[l].date), "1",
                            wall \div TicksPerSecond)
               /\ UNCHANGED gaps
      <4>1. Has(kv', MarkerKey(j, d))
              <=> Has(kv, MarkerKey(j, d)) \/ d = loop[l].date
        BY <3>3, HasSet DEF MarkerKey
      <4> QED
        BY <2>3, <2>4, <3>1, <3>3, <4>1
    <3> QED
      BY <1>2, <2>12, <3>2, <3>3 DEF Mark, DateOfRun
  <2>13. CASE SleepCancelled(l)
    BY <2>3, <2>4, <2>6, <2>13 DEF SleepCancelled, Off, history
  <2> QED
    BY <2>8, <2>9, <2>10, <2>11, <2>12, <2>13 DEF LoopStep
<1> QED
  BY <1>1, <1>2

LEMMA NextMarkInv ==
  ASSUME TypeInv, StartInv, MarkInv, [Next]_vars
  PROVE  MarkInv'
<1>1. ASSUME NEW l \in Loops, LoopStep(l)
      PROVE  MarkInv'
  BY <1>1, LoopStepMark
<1>2. CASE Exit
  <2> SUFFICES ASSUME NEW j \in Daily, NEW d \in Dates
               PROVE  RunsPaid(j, d)'
    BY DEF MarkInv
  <2>1. RunsPaid(j, d) /\ ran[j][d] \in Nat /\ gaps[j][d] \in Nat
    BY DEF MarkInv, TypeInv, TypeOK
  <2>2. gaps'[j][d] = gaps[j][d] + IF Marking(j, d) THEN 1 ELSE 0
    <3> DEFINE n(i, e) == Cardinality({l \in Loops :
                 l[1] = i /\ loop[l].pc = "mark" /\ loop[l].date = e})
    <3>1. gaps' = [i \in Daily |-> [e \in Dates |-> gaps[i][e] + n(i, e)]]
      BY <1>2 DEF Exit
    <3>2. n(j, d) = IF Marking(j, d) THEN 1 ELSE 0
      BY MarkingCount DEF StartInv
    <3> HIDE DEF n
    <3> QED
      BY <3>1, <3>2
  <2>3. ran' = ran /\ kv' = kv
    BY <1>2 DEF Exit
  <2>4. \A l \in Loops : loop'[l].pc = "off"
    BY <1>2, AllOffType DEF Exit
  <2> QED
    BY <2>1, <2>2, <2>3, <2>4 DEF RunsPaid, At
<1>3. ASSUME UNCHANGED <<kv, ran, gaps>>,
             \A l \in Loops : \/ loop'[l].pc \notin {"run", "mark"}
                                /\ loop[l].pc \notin {"run", "mark"}
                              \/ /\ loop'[l].pc = loop[l].pc
                                 /\ loop'[l].date = loop[l].date
      PROVE  MarkInv'
  BY <1>3 DEF MarkInv, RunsPaid, Marking, At
<1>4. CASE Tick
  BY <1>3, <1>4 DEF Tick, TypeInv, TypeOK, LoopType, history
<1>5. ASSUME NEW t \in 0..MaxWall, ClockStep(t)
      PROVE  MarkInv'
  BY <1>3, <1>5 DEF ClockStep, history
<1>6. CASE Start
  BY <1>3, <1>6 DEF Start, Opened
<1>7. CASE Connected \/ Disconnected \/ Cancel \/ UNCHANGED vars
  BY <1>3, <1>7 DEF Connected, Disconnected, Cancel, vars, history
<1>8. CASE ConnectedHook
  <2>1. ASSUME NEW stagger \in [Jobs -> 0..MaxStagger], StartJobs(stagger),
               ~ started, NEW l \in Loops
        PROVE  /\ loop[l].pc = "off"
               /\ loop'[l].pc \in {"off", "stagger"}
    BY <2>1 DEF StartInv, StartJobs
  <2> QED
    BY <1>3, <1>8, <2>1 DEF ConnectedHook, StartOnceDone, history
<1> QED
  BY <1>1, <1>2, <1>4, <1>5, <1>6, <1>7, <1>8 DEF Next

-----------------------------------------------------------------------------
(***************************************************************************)
(* EarnedInv: a marker is there, or about to be left, only for a date on   *)
(* which the job has succeeded.                                            *)
(***************************************************************************)
EarnedInv ==
  /\ MarkersEarned
  /\ \A l \in Loops : loop[l].pc = "mark" => ran[l[1]][loop[l].date] > 0

LEMMA InitEarnedInv == Init => EarnedInv
BY AllOffType DEF Init, EarnedInv, MarkersEarned, Has, Rows

(* What succeeded stays.                                                   *)
LEMMA SuccessesStay ==
  ASSUME TypeInv, [Next]_vars, NEW j \in Daily, NEW d \in Dates
  PROVE  ran[j][d] > 0 => ran'[j][d] > 0
<1>1. ran[j][d] \in Nat
  BY DEF TypeInv, TypeOK
<1>2. ASSUME NEW l \in Loops, Return(l)
      PROVE  ran[j][d] > 0 => ran'[j][d] > 0
  <2>1. \/ UNCHANGED ran
        \/ ran' = [ran EXCEPT ![l[1]][loop[l].date] = @ + 1]
    BY <1>2 DEF Return
  <2>2. ASSUME ran' = [ran EXCEPT ![l[1]][loop[l].date] = @ + 1]
        PROVE  ran'[j][d] \in {ran[j][d], ran[j][d] + 1}
    BY <2>2 DEF TypeInv, TypeOK
  <2> QED
    BY <1>1, <2>1, <2>2
<1>3. \/ UNCHANGED ran
      \/ \E l \in Loops : Return(l)
  BY DEF Next, vars, history, Tick, ClockStep, Start, Connected, Disconnected,
         ConnectedHook, LoopStep, StaggerOver, WaitOver, Fire, Mark,
         SleepCancelled, Cancel, Exit
<1> QED
  BY <1>2, <1>3

(* A loop comes to its marker by a success, and leaves it for its date.    *)
LEMMA LoopStepEarned ==
  ASSUME TypeInv, EarnedInv, NEW l \in Loops, LoopStep(l)
  PROVE  EarnedInv'
<1>0. [Next]_vars
  BY DEF Next
<1>1. PICK q : LoopGoes(l, q)
  BY LoopStepGoes
<1>2. TypeInv'
  BY LoopStepTypes
<1>3. \A m \in Loops : m # l => loop'[m] = loop[m]
  BY <1>1 DEF LoopGoes, TypeInv, TypeOK
<1>4. ASSUME NEW m \in Loops, loop[m].pc = "mark"
      PROVE  /\ m[1] \in Daily /\ loop[m].date \in Dates
             /\ ran'[m[1]][loop[m].date] > 0
  <2>1. m[1] \in Daily /\ loop[m].date \in Dates
    BY <1>4 DEF TypeInv, MarksDaily, DatesInRange, Dated
  <2> QED
    BY <1>0, <1>4, <2>1, SuccessesStay DEF EarnedInv
<1>5. loop'[l].pc = "mark" => ran'[l[1]][loop'[l].date] > 0
  <2>1. CASE Return(l)
    <3>1. ASSUME GoesToMark(l), l[1] \in Daily,
                 ran' = [ran EXCEPT ![l[1]][loop[l].date] = @ + 1]
          PROVE  ran'[l[1]][loop'[l].date] > 0
      <4>1. loop'[l].date = loop[l].date
        BY <3>1 DEF GoesToMark, TypeInv, TypeOK, LoopType
      <4>2. loop[l].date \in Dates
        BY <2>1 DEF Return, TypeInv, DatesInRange, Dated
      <4>3. ran[l[1]][loop[l].date] \in Nat
        BY <3>1, <4>2 DEF TypeInv, TypeOK
      <4>4. ran'[l[1]][loop[l].date] = ran[l[1]][loop[l].date] + 1
        BY <3>1, <4>2 DEF TypeInv, TypeOK
      <4> QED
        BY <4>1, <4>3, <4>4
    <3>2. AfterError(l) => loop'[l].pc = "wait"
      BY SleepAgainWaits DEF AfterError
    <3> QED
      BY <2>1, <3>1, <3>2 DEF Return
  <2>2. ASSUME loop'[l].pc # "mark"
        PROVE  loop'[l].pc = "mark" => ran'[l[1]][loop'[l].date] > 0
    BY <2>2
  <2>3. ASSUME Begin(l)
        PROVE  loop'[l].pc = "run"
    BY <2>3 DEF Begin, TypeInv, TypeOK, LoopType
  <2>4. SleepAgain(l) => loop'[l].pc = "wait"
    BY SleepAgainWaits
  <2>5. StaggerOver(l) \/ Fire(l) \/ Mark(l) => loop'[l].pc # "mark"
    BY <2>3, <2>4 DEF StaggerOver, Fire, Mark
  <2>6. WaitOver(l) => loop'[l].pc = "fire"
    BY DEF WaitOver, TypeInv, TypeOK
  <2>7. SleepCancelled(l) => loop'[l].pc = "off"
    BY DEF SleepCancelled, Off, TypeInv, TypeOK
  <2> QED
    BY <2>1, <2>2, <2>5, <2>6, <2>7 DEF LoopStep
<1>6. MarkersEarned'
  <2> SUFFICES ASSUME NEW j \in Daily, NEW d \in Dates,
                      Has(kv', MarkerKey(j, d))
               PROVE  ran'[j][d] > 0
    BY DEF MarkersEarned
  <2>1. \/ UNCHANGED kv
        \/ Mark(l) /\ kv' = Set(kv, MarkerKey(l[1], DateOfRun(l)), "1",
                                wall \div TicksPerSecond)
    BY DEF LoopStep, StaggerOver, WaitOver, Fire, Return, Mark,
           SleepCancelled
  <2>2. CASE Has(kv, MarkerKey(j, d))
    BY <1>0, <2>2, SuccessesStay DEF EarnedInv, MarkersEarned
  <2>3. CASE ~ Has(kv, MarkerKey(j, d))
    <3>1. /\ Mark(l)
          /\ MarkerKey(j, d) = MarkerKey(l[1], loop[l].date)
      BY <2>1, <2>3, HasSet DEF DateOfRun
    <3>2. j = l[1] /\ d = loop[l].date /\ loop[l].pc = "mark"
      BY <3>1 DEF MarkerKey, Mark
    <3> QED
      BY <1>4, <3>2
  <2> QED
    BY <2>2, <2>3
<1> QED
  BY <1>3, <1>4, <1>5, <1>6 DEF EarnedInv

LEMMA NextEarnedInv ==
  ASSUME TypeInv, StartInv, EarnedInv, [Next]_vars
  PROVE  EarnedInv'
<1>1. ASSUME NEW l \in Loops, LoopStep(l)
      PROVE  EarnedInv'
  BY <1>1, LoopStepEarned
<1>2. ASSUME UNCHANGED <<kv, ran>>,
             \A l \in Loops : \/ loop'[l].pc # "mark"
                              \/ /\ loop'[l].pc = loop[l].pc
                                 /\ loop'[l].date = loop[l].date
      PROVE  EarnedInv'
  BY <1>2 DEF EarnedInv, MarkersEarned
<1>3. CASE Tick
  BY <1>2, <1>3 DEF Tick, TypeInv, TypeOK, LoopType, history
<1>4. ASSUME NEW t \in 0..MaxWall, ClockStep(t)
      PROVE  EarnedInv'
  BY <1>2, <1>4 DEF ClockStep, history
<1>5. CASE Start
  BY <1>2, <1>5 DEF Start, Opened
<1>6. CASE Connected \/ Disconnected \/ Cancel \/ UNCHANGED vars
  BY <1>2, <1>6 DEF Connected, Disconnected, Cancel, vars, history
<1>7. CASE ConnectedHook
  <2>1. ASSUME NEW stagger \in [Jobs -> 0..MaxStagger], StartJobs(stagger),
               NEW l \in Loops
        PROVE  loop'[l].pc = "stagger" \/ loop'[l] = loop[l]
    BY <2>1 DEF StartJobs
  <2> QED
    BY <1>2, <1>7, <2>1 DEF ConnectedHook, history
<1>8. CASE Exit
  BY <1>2, <1>8, AllOffType DEF Exit
<1> QED
  BY <1>1, <1>3, <1>4, <1>5, <1>6, <1>7, <1>8 DEF Next

-----------------------------------------------------------------------------
(***************************************************************************)
(* The theorems.                                                           *)
(***************************************************************************)
IInv == TypeInv /\ StartInv /\ MarkInv /\ EarnedInv

LEMMA Inductive == SafeSpec => []IInv
<1>1. Init => IInv
  BY InitTypeInv, InitStartInv, InitMarkInv, InitEarnedInv DEF IInv
<1>2. IInv /\ [Next]_vars => IInv'
  BY NextTypeInv, NextStartInv, NextMarkInv, NextEarnedInv DEF IInv
<1> QED
  BY <1>1, <1>2, PTL DEF SafeSpec

(* The scheduler's variables keep their types, and only daily jobs have    *)
(* markers, for any jobs, delays and clock (schedule.go, fireJob).         *)
THEOREM SchedulerTypes == SafeSpec => []TypeOK
<1>1. IInv => TypeOK
  BY DEF IInv, TypeInv
<1> QED
  BY <1>1, Inductive, PTL

(* A daily job succeeds at most once for a date, and once more only for    *)
(* each time its marker was not read or not left: whatever the clock and   *)
(* the restarts, for any number of jobs (schedule.go, fireJob).            *)
THEOREM OncePerDayHolds == SafeSpec => []OncePerDay
<1>1. IInv => OncePerDay
  BY DEF IInv, MarkInv, RunsPaid, OncePerDay
<1> QED
  BY <1>1, Inductive, PTL

(* No tick is skipped on a date for which the job has not succeeded: a     *)
(* failed run, a run that its process did not survive and a run that went  *)
(* on past midnight leave no other date a marker (schedule.go, fireJob:    *)
(* "don't mark done on failure").                                          *)
THEOREM MarkersEarnedHolds == SafeSpec => []MarkersEarned
<1>1. IInv => MarkersEarned
  BY DEF IInv, EarnedInv
<1> QED
  BY <1>1, Inductive, PTL

(* A job has one goroutine however often the bot connects (bot.go,         *)
(* startOnce; OnSchedule: "sequential per job").                           *)
THEOREM SequentialHolds == SafeSpec => []Sequential
<1>1. IInv => Sequential
  BY DEF IInv, StartInv
<1> QED
  BY <1>1, Inductive, PTL

(* No job's goroutine exists in a process that was never online (bot.go:   *)
(* "Scheduled jobs start once, on first connect").                         *)
THEOREM StartsOnlineHolds == SafeSpec => []StartsOnline
<1>1. IInv => StartsOnline
  BY DEF IInv, StartInv
<1> QED
  BY <1>1, Inductive, PTL
=============================================================================
