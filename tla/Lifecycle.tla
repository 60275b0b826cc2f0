----------------------------- MODULE Lifecycle ------------------------------
(***************************************************************************)
(* One bot with all that Run (bot/bot.go) puts together: the magic links   *)
(* of WebAuth and the jobs of Scheduler, in one process, on one clock and  *)
(* over one table, between an ops server that lets the dashboard's calls   *)
(* in and a WhatsApp socket that membership queries go out by.  Run opens  *)
(* the table, serves, connects, and waits for its context; then it shuts   *)
(* the server down, which waits for the calls in progress but not for      *)
(* ever, closes the socket, and last the table.  It waits neither for jobs *)
(* nor for message handlers.                                               *)
(*                                                                         *)
(* The actions of the two components are theirs, taken as they are; what   *)
(* is here is when each of them can happen.  The roster is any roster, and *)
(* does not move: WebAuth is where people come and go.                     *)
(***************************************************************************)
EXTENDS WebAuth

CONSTANTS
  Jobs, Daily, Slots, Day, Hour, Every, Jitter,
  MaxStagger, MaxStarts, MaxHooks,   \* see Scheduler
  Grace                              \* how long Shutdown waits, in ticks

ASSUME GraceAssumption == Grace \in Nat

ASSUME JobsAssumption ==                 \* as in Scheduler
  /\ Daily \subseteq Jobs
  /\ Day \in Nat \ {0}
  /\ Hour \in 0..(Day - 1)
  /\ Every \in Nat /\ Jitter \in Nat
  /\ MaxStagger \in Nat /\ MaxStarts \in Nat /\ MaxHooks \in Nat

VARIABLES
  process, connected, hooks, started, loop, starts, ran, gaps, wentOnline,
  stage,    \* how far Run is, or how it ended
  stopAt    \* when Shutdown was called; NoTime: not yet

linkVars == <<roster, left, drawn, req, issued, logins>>

jobVars == <<process, connected, hooks, started, loop, starts, ran, gaps,
             wentOnline>>

runVars == <<stage, stopAt>>

botVars == <<now, kv, linkVars, jobVars, runVars>>

Sched == INSTANCE Scheduler WITH
  wall <- now, MaxWall <- MaxNow, steps <- 0, MaxSteps <- 0

BotInit ==
  /\ Init
  /\ Sched!Init
  /\ stage = "off"
  /\ stopAt = NoTime

-----------------------------------------------------------------------------
(* Run opens the session and the table, sets the hooks and serves the ops  *)
(* API.                                                                    *)
Boot ==
  /\ Sched!Start
  /\ stage' = "serving"
  /\ stopAt' = NoTime
  /\ UNCHANGED linkVars

RunGoes(from, to) ==
  /\ stage = from
  /\ stage' = to
  /\ UNCHANGED <<now, kv, linkVars>>

(* It connects; unpaired, it idles.                                        *)
Connect ==
  /\ RunGoes("serving", "running")
  /\ UNCHANGED <<jobVars, stopAt>>

(* Or cannot connect: Run returns, its table closed, its server not shut.  *)
ConnectFails ==
  /\ ~ connected
  /\ RunGoes("serving", "failed")
  /\ UNCHANGED <<jobVars, stopAt>>

(* The context is cancelled, whatever Run is doing.                        *)
Cancel ==
  /\ Sched!Cancel
  /\ UNCHANGED <<linkVars, runVars>>

(* Run hears of it: the server takes no more calls.                        *)
Shutdown ==
  /\ process = "stopping"
  /\ RunGoes("running", "draining")
  /\ stopAt' = now
  /\ UNCHANGED jobVars

(* The dashboard's calls, which the server knows of.                       *)
Served(q) == q.op \in {"redeem", "refresh"}

(* Mutant: Shutdown waits as long as it takes.                             *)
NeverOver == FALSE

GraceOver == now >= stopAt + Grace

(* The calls are answered, or have had their time: Disconnect, and Run     *)
(* returns, which closes the table.                                        *)
Return ==
  /\ \/ \A r \in Requests : ~ Served(req[r])
     \/ GraceOver
  /\ RunGoes("draining", "returned")
  /\ connected' = FALSE
  /\ UNCHANGED <<process, hooks, started, loop, starts, ran, gaps, wentOnline,
                 stopAt>>

(* main returns, or the process is killed: nothing of it goes on.          *)
End ==
  /\ Sched!Exit
  /\ stage' = "off"
  /\ req' = [r \in Requests |-> Idle]
  /\ stopAt' = NoTime
  /\ UNCHANGED <<roster, left, drawn, issued, logins>>

Returned == stage \in {"returned", "failed"}

-----------------------------------------------------------------------------
Serving == stage \in {"serving", "running", "failed"}

TableClosed == Returned

(* Mutant: the socket goes first.                                          *)
SocketClosedFirst == stage \in {"draining", "returned"}

SocketClosed == stage = "returned"

(* What is closed answers nothing: what a call asks of it fails.           *)
AsFarAsOpen(r) ==
  /\ TableClosed => kv' = kv /\ req'[r].pc # "expiry"
  /\ ~ connected \/ SocketClosed => req'[r].pc # "sign"

(* A call begins: asked for in a chat, or let in by the server.            *)
CallBegins(r) ==
  \/ /\ wentOnline /\ process # "down"
     /\ \E g \in Groups, m \in Members : MintSweep(r, g, m)
  \/ /\ Serving
     /\ \/ \E n \in Nonces : RedeemLookup(r, n)
        \/ \E tok \in issued : RefreshStart(r, tok)

CallMoves(r) ==
  /\ CallBegins(r) \/ Work(r) \/ Respond(r)
  /\ AsFarAsOpen(r)
  /\ UNCHANGED <<jobVars, runVars>>

(* The socket comes and goes; the jobs wait for it once.                   *)
Online ==
  /\ stage \in {"serving", "running", "draining"}
  /\ Sched!Connected
  /\ UNCHANGED <<linkVars, runVars>>

Offline ==
  /\ Sched!Disconnected
  /\ UNCHANGED <<linkVars, runVars>>

JobsMove ==
  /\ \/ Sched!ConnectedHook
     \/ \E l \in Sched!Loops : Sched!LoopStep(l)
  /\ TableClosed => kv' = kv
  /\ UNCHANGED <<linkVars, runVars>>

(* One clock for both.                                                     *)
TimePasses ==
  /\ Sched!Tick
  /\ UNCHANGED <<linkVars, runVars>>

BotNext ==
  \/ Boot \/ Connect \/ ConnectFails
  \/ Cancel \/ Shutdown \/ Return \/ End
  \/ \E r \in Requests : CallMoves(r)
  \/ Online \/ Offline \/ JobsMove \/ TimePasses

(* Run goes on, main returns after it, and time passes.  Nothing is        *)
(* assumed of calls, jobs or WhatsApp.                                     *)
BotFairness ==
  /\ WF_botVars(Connect \/ ConnectFails)
  /\ WF_botVars(Shutdown) /\ WF_botVars(Return)
  /\ WF_botVars(End /\ Returned)
  /\ WF_botVars(TimePasses)

BotSpec == BotInit /\ [][BotNext]_botVars /\ BotFairness

-----------------------------------------------------------------------------
(* The rows that are the business of one component.                        *)
RowsUnder(prefix) == {row \in kv : row.key[1] = prefix}

LinksAlone == INSTANCE WebAuth WITH kv <- RowsUnder("webauth:nonce")

(* What a magic link promises (MagicLink), it promises in a bot that is    *)
(* stopped at any step, started again, and shares its table with jobs: a   *)
(* login is dated from a moment at which the link was on offer and in time *)
(* and its member in the group, whatever was closed under it.              *)
PromiseOfLinks == LinksAlone!KeepsPromise

JobsAlone == INSTANCE Scheduler WITH
  wall <- now, MaxWall <- MaxNow, steps <- 0, MaxSteps <- 0,
  kv <- RowsUnder("sched")

(* The links live in the shared table and process as if they were alone:   *)
(* no job, no marker and no step of Run does to a link what WebAuth, and   *)
(* with it MagicLink, does not allow (kv.go: "Keys are namespaced").       *)
LinksUndisturbed == LinksAlone!Spec

(* And so do the jobs: above all, the sweep of old links never takes the   *)
(* marker of a day, however old.                                           *)
JobsUndisturbed == JobsAlone!SafeSpec

(* An orderly stop does not take the socket away from a login or a refresh *)
(* under way, whose link may be consumed by then, before the call has had  *)
(* its grace (bot.go, Run: Shutdown comes before Disconnect).              *)
StopSparesLogins ==
  \A r \in Requests :
    Served(req[r]) /\ req[r].pc \in {"expiry", "member"} /\ SocketClosed
      => now >= stopAt + Grace

(* A bot that is asked to stop does, whatever jobs, handlers and WhatsApp  *)
(* are doing: Run waits for none of them beyond the grace.                 *)
StopsWhenAsked ==
  process = "stopping" ~> process = "down" \/ stopAt + Grace > MaxNow
=============================================================================
