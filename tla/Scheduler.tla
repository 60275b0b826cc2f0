----------------------------- MODULE Scheduler ------------------------------
(***************************************************************************)
(* The job scheduler (bot/schedule.go, schedule/schedule.go) inside one    *)
(* bot process after another: the connected hook that starts the jobs, the *)
(* loop each job runs on a goroutine of its own, and the marker in the KV  *)
(* table that keeps a daily job from firing twice in one day.              *)
(*                                                                         *)
(* Timers run on the monotonic clock, dates on the wall clock; the wall    *)
(* clock may be stepped, and a timer that is due may be served late.  A    *)
(* process may be asked to stop (its context is cancelled and Run returns  *)
(* without waiting for the jobs) or be killed at any point.                *)
(* ran, gaps and wentOnline are not in the program: they record what the   *)
(* properties speak of and nothing reads them.                             *)
(***************************************************************************)
EXTENDS KV, FiniteSets

CONSTANTS
  Jobs,
  Daily,              \* the DailyAt jobs; the others are EveryJittered
  Slots,              \* goroutines a job could have, were it started twice
  Day,                \* ticks in a day
  Hour,               \* when daily jobs fire, in ticks after midnight
  Every, Jitter,      \* period of the other jobs
  TicksPerSecond,     \* the table stamps its rows in seconds
  MaxStagger,         \* bound on the startup stagger
  MaxWall,            \* bound on the wall clock
  MaxSteps,           \* bound on steps of the wall clock
  MaxStarts,          \* bound on processes started
  MaxHooks            \* bound on connected hooks not yet run

ASSUME SchedulerAssumption ==
  /\ Daily \subseteq Jobs
  /\ Day \in Nat \ {0}
  /\ Hour \in 0..(Day - 1)               \* DailyAt clamps the hour
  /\ Every \in Nat /\ Jitter \in Nat
  /\ TicksPerSecond \in Nat \ {0}
  /\ MaxStagger \in Nat /\ MaxWall \in Nat
  /\ MaxSteps \in Nat /\ MaxStarts \in Nat /\ MaxHooks \in Nat

Loops == Jobs \X Slots

VARIABLES
  wall,       \* the wall clock
  process,    \* "down", "up" or "stopping": its context is cancelled
  connected,  \* the socket is up and logged in
  hooks,      \* connected hooks running or about to
  started,    \* startOnce has run
  kv,         \* the botkit_kv table
  loop,       \* one record per job goroutine
  steps,      \* steps of the wall clock so far
  starts,     \* processes started so far
  ran,        \* how often a daily job succeeded for a date
  gaps,       \* how often the marker of a date was not read or not left
  wentOnline  \* this process has been online

session == <<process, connected, hooks, started, starts>>

history == <<ran, gaps, wentOnline>>

vars == <<wall, steps, session, kv, loop, history>>

Dates == 0..(MaxWall \div Day)

DateKey(t) == t \div Day

MarkerKey(j, d) == <<"sched", <<j, d>>>>

(* UntilNext of a daily spec: strictly later, so at the hour it is a day.  *)
UntilHour(t) ==
  LET today == Day * DateKey(t) + Hour
  IN  IF today > t THEN today - t ELSE today + Day - t

(* UntilNext: the delays a loop may sleep for.                             *)
Delays(j, t) ==
  IF j \in Daily
  THEN {UntilHour(t)}
  ELSE {IF d < 0 THEN 0 ELSE d : d \in (Every - Jitter)..(Every + Jitter)}

Off == [pc |-> "off", timer |-> 0, date |-> 0]

Sleeping(delay) == [pc |-> "wait", timer |-> delay, date |-> 0]

Running == process # "down"

AllOff == [l \in Loops |-> Off]

Init ==
  /\ wall = 0
  /\ process = "down"
  /\ connected = FALSE
  /\ hooks = 0
  /\ started = FALSE
  /\ kv = {}
  /\ loop = AllOff
  /\ steps = 0
  /\ starts = 0
  /\ ran = [j \in Daily |-> [d \in Dates |-> 0]]
  /\ gaps = [j \in Daily |-> [d \in Dates |-> 0]]
  /\ wentOnline = FALSE

-----------------------------------------------------------------------------
(* Time passes for the wall clock and for every running timer.             *)
Tick ==
  /\ wall < MaxWall
  /\ wall' = wall + 1
  /\ loop' = [l \in Loops |->
       [loop[l] EXCEPT !.timer = IF @ > 0 THEN @ - 1 ELSE 0]]
  /\ UNCHANGED <<steps, session, kv, history>>

(* The wall clock is set, or the machine sleeps; timers do not notice.     *)
ClockStep(t) ==
  /\ steps < MaxSteps
  /\ wall' = t
  /\ steps' = steps + 1
  /\ UNCHANGED <<session, kv, loop, history>>

(* Mutant: jobs are started at boot.                                       *)
HookAtStart == 1

HooksAtStart == 0

(* Run, up to the call of Connect: NewKV opens the table.                  *)
Start ==
  /\ process = "down"
  /\ starts < MaxStarts
  /\ starts' = starts + 1
  /\ process' = "up"
  /\ started' = FALSE
  /\ hooks' = HooksAtStart
  /\ kv' = Opened(kv)
  /\ wentOnline' = FALSE
  /\ UNCHANGED <<wall, steps, connected, loop, ran, gaps>>

(* Connected: the transport runs the hook on a goroutine of its own.       *)
Connected ==
  /\ Running /\ ~ connected
  /\ hooks < MaxHooks
  /\ connected' = TRUE
  /\ hooks' = hooks + 1
  /\ wentOnline' = TRUE
  /\ UNCHANGED <<wall, steps, process, started, starts, kv, loop, ran, gaps>>

(* Disconnected or logged out: no hook of the scheduler's.                 *)
Disconnected ==
  /\ connected
  /\ connected' = FALSE
  /\ UNCHANGED <<wall, steps, process, hooks, started, starts, kv, loop,
                 history>>

(* startJobs: one more goroutine for every job, each after its stagger.    *)
FreeSlot(j) == CHOOSE s \in Slots : loop[<<j, s>>].pc = "off"

StartJobs(stagger) ==
  loop' = [l \in Loops |->
    IF l[2] = FreeSlot(l[1])
    THEN [pc |-> "stagger", timer |-> stagger[l[1]], date |-> 0]
    ELSE loop[l]]

(* Mutant: every connection starts the jobs.                               *)
StartAlways == FALSE

StartOnceDone == started

(* The connected hook: startOnce.Do(startJobs).                            *)
ConnectedHook ==
  /\ Running /\ hooks > 0
  /\ hooks' = hooks - 1
  /\ IF StartOnceDone
     THEN UNCHANGED loop
     ELSE \E stagger \in [Jobs -> 0..MaxStagger] : StartJobs(stagger)
  /\ started' = TRUE
  /\ UNCHANGED <<wall, steps, process, connected, starts, kv, history>>

-----------------------------------------------------------------------------
(* The next delay is computed whenever a loop comes round.                 *)
SleepAgain(l) ==
  \E d \in Delays(l[1], wall) : loop' = [loop EXCEPT ![l] = Sleeping(d)]

(* The stagger is over.                                                    *)
StaggerOver(l) ==
  /\ loop[l].pc = "stagger" /\ loop[l].timer = 0
  /\ SleepAgain(l)
  /\ UNCHANGED <<wall, steps, session, kv, history>>

(* A sleep cut short by the context: runJob returns.                       *)
SleepCancelled(l) ==
  /\ process = "stopping"
  /\ loop[l].pc \in {"stagger", "wait"}
  /\ loop' = [loop EXCEPT ![l] = Off]
  /\ UNCHANGED <<wall, steps, session, kv, history>>

(* The wait is over, online or not: fireJob, up to the date it fires for.  *)
WaitOver(l) ==
  /\ loop[l].pc = "wait" /\ loop[l].timer = 0
  /\ loop' = [loop EXCEPT ![l] =
       [pc |-> "fire", timer |-> 0, date |-> DateKey(wall)]]
  /\ UNCHANGED <<wall, steps, session, kv, history>>

(* The marker of l's date was not read, or not left.                       *)
AddGap(l) == gaps' = [gaps EXCEPT ![l[1]][loop[l].date] = @ + 1]

Begin(l) == loop' = [loop EXCEPT ![l].pc = "run"]

(* A daily job reads its marker.  An error, and the read can only fail     *)
(* once the context is cancelled, is taken for no marker at all.           *)
Fire(l) ==
  /\ loop[l].pc = "fire"
  /\ LET marked == Has(kv, MarkerKey(l[1], loop[l].date))
     IN  \/ l[1] \notin Daily /\ Begin(l) /\ UNCHANGED gaps
         \/ /\ l[1] \in Daily /\ process = "up"
            /\ IF marked THEN SleepAgain(l) ELSE Begin(l)
            /\ UNCHANGED gaps
         \/ l[1] \in Daily /\ Begin(l) /\ AddGap(l)
  /\ UNCHANGED <<wall, steps, session, kv, ran, wentOnline>>

GoesToMark(l) == loop' = [loop EXCEPT ![l].pc = "mark"]

(* Mutant: a failed run is marked as done.                                 *)
MarkedAllTheSame(l) == GoesToMark(l)

(* Mutant: an error ends the loop.                                         *)
LoopEnds(l) == loop' = [loop EXCEPT ![l] = Off]

(* An error is logged, and the loop comes round; so it does when an        *)
(* interval job is done.                                                   *)
AfterError(l) == SleepAgain(l)

(* fn returns.  After an error, or for an interval job, nothing is marked. *)
Return(l) ==
  /\ loop[l].pc = "run"
  /\ \/ /\ l[1] \in Daily
        /\ GoesToMark(l)
        /\ ran' = [ran EXCEPT ![l[1]][loop[l].date] = @ + 1]
     \/ AfterError(l) /\ UNCHANGED ran
  /\ UNCHANGED <<wall, steps, session, kv, gaps, wentOnline>>

(* Mutant: the date is computed again when the run is over.                *)
DateAtReturn(l) == DateKey(wall)

(* Mutant: the marker is left for the day after.                           *)
DateAfterRun(l) == loop[l].date + 1

DateOfRun(l) == loop[l].date

(* The marker is written, or the write fails and nobody hears of it.  Once *)
(* the context is cancelled it can only fail.                              *)
Mark(l) ==
  /\ loop[l].pc = "mark"
  /\ \/ /\ process = "up"
        /\ kv' = Set(kv, MarkerKey(l[1], DateOfRun(l)), "1",
                     wall \div TicksPerSecond)
        /\ UNCHANGED gaps
     \/ UNCHANGED kv /\ AddGap(l)
  /\ SleepAgain(l)
  /\ UNCHANGED <<wall, steps, session, ran, wentOnline>>

-----------------------------------------------------------------------------
(* SIGTERM: the context every job was given is cancelled.                  *)
Cancel ==
  /\ process = "up"
  /\ process' = "stopping"
  /\ UNCHANGED <<wall, steps, connected, hooks, started, starts, kv, loop,
                 history>>

(* The process is gone, and its goroutines with it: Run returned without   *)
(* waiting for them, or the process was killed.                            *)
Exit ==
  /\ Running
  /\ process' = "down"
  /\ connected' = FALSE
  /\ hooks' = 0
  /\ loop' = AllOff
  /\ gaps' = [j \in Daily |-> [d \in Dates |->
       gaps[j][d] + Cardinality({l \in Loops :
         l[1] = j /\ loop[l].pc = "mark" /\ loop[l].date = d})]]
  /\ UNCHANGED <<wall, steps, started, starts, kv, ran, wentOnline>>

LoopStep(l) ==
  \/ StaggerOver(l) \/ WaitOver(l) \/ Fire(l) \/ Return(l) \/ Mark(l)
  \/ SleepCancelled(l)

Next ==
  \/ Tick
  \/ \E t \in 0..MaxWall : ClockStep(t)
  \/ Start \/ Connected \/ Disconnected \/ ConnectedHook
  \/ \E l \in Loops : LoopStep(l)
  \/ Cancel \/ Exit

SafeSpec == Init /\ [][Next]_vars

(* Goroutines are scheduled, jobs return, time goes on.                    *)
Fairness ==
  /\ WF_vars(Tick)
  /\ WF_vars(ConnectedHook)
  /\ \A l \in Loops : WF_vars(LoopStep(l))

Spec == SafeSpec /\ Fairness

-----------------------------------------------------------------------------
LoopType ==
  [pc : {"off", "stagger", "wait", "fire", "run", "mark"}, timer : Nat,
   date : Nat]

MarkerRows ==
  [key : {MarkerKey(j, d) : j \in Daily, d \in Dates}, value : {"1"},
   updated_at : Nat]

(* Types; only daily jobs have markers.                                    *)
TypeOK ==
  /\ wall \in Nat
  /\ process \in {"down", "up", "stopping"}
  /\ connected \in BOOLEAN
  /\ hooks \in Nat
  /\ started \in BOOLEAN
  /\ kv \subseteq MarkerRows
  /\ loop \in [Loops -> LoopType]
  /\ steps \in Nat
  /\ starts \in Nat
  /\ ran \in [Daily -> [Dates -> Nat]]
  /\ gaps \in [Daily -> [Dates -> Nat]]
  /\ wentOnline \in BOOLEAN

(* A daily job succeeds at most once for a date, whatever the wall clock   *)
(* does and however often the bot restarts, and once more only for each    *)
(* time its marker was not read or not left (schedule.go, fireJob:         *)
(* "guarded by a per-day KV marker so a mid-day restart doesn't re-fire"). *)
OncePerDay ==
  \A j \in Daily : \A d \in Dates : ran[j][d] <= 1 + gaps[j][d]

(* A job has one goroutine, so a run never overlaps its own next tick,     *)
(* however the connection flaps (OnSchedule: "sequential per job").        *)
Sequential ==
  \A l1, l2 \in Loops :
    l1[1] = l2[1] /\ loop[l1].pc # "off" /\ loop[l2].pc # "off" => l1 = l2

(* Nothing is started before this process has been online once (bot.go:    *)
(* "Scheduled jobs start once, on first connect").                         *)
StartsOnline == \A l \in Loops : loop[l].pc # "off" => wentOnline

(* A tick is skipped only on a date for which the job has succeeded: there *)
(* is no marker of a run that failed or that the process did not survive,  *)
(* and none of the day after for a run that went on past midnight, which   *)
(* would cost that day its run (schedule.go, fireJob: "don't mark done on  *)
(* failure").                                                              *)
MarkersEarned ==
  \A j \in Daily : \A d \in Dates : Has(kv, MarkerKey(j, d)) => ran[j][d] > 0

(* schedule.go, OnSchedule, promises without a condition: "fires at most   *)
(* once per calendar day even across restarts (via the KV marker)".        *)
AtMostOncePerDay == \A j \in Daily : \A d \in Dates : ran[j][d] <= 1

(* SPEC.md:165-166: "jobs don't tick until the WhatsApp session is         *)
(* actually online"; "no firing into a dead socket"; bot.go:122: "never    *)
(* tick into a dead socket".                                               *)
TicksOnline ==
  [][ \A l \in Loops :
        loop[l].pc = "wait" /\ loop'[l].pc = "fire" => connected ]_vars

InTime(l) == wall + loop[l].timer <= MaxWall

(* Nothing is asked of a job that was not started, or whose process is to  *)
(* end, or whose timer runs out beyond the bound on the clock.             *)
Excused(j) ==
  ~ started \/ process # "up" \/ \E s \in Slots : ~ InTime(<<j, s>>)

SomeLoop(j, pc) == \E s \in Slots : loop[<<j, s>>].pc = pc

(* A job that was started goes on: whatever came of its last tick, an      *)
(* error or a marker that was found or not left, there is a next one as    *)
(* long as the bot stays online, and again when it is back (schedule.go,   *)
(* runJob).                                                                *)
KeepsFiring ==
  \A j \in Jobs : []<>(SomeLoop(j, "fire") \/ ~ connected \/ Excused(j))
=============================================================================
