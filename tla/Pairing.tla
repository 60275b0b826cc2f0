------------------------------ MODULE Pairing -------------------------------
(***************************************************************************)
(* The life of the WhatsApp session (pairing/server.go, transport/         *)
(* client.go, bot/bot.go): the bot never pairs by itself, a human asks for *)
(* a code with POST /pair, and OnPairingLost tells an operator when there  *)
(* is no session.                                                          *)
(*                                                                         *)
(* Handlers of POST /pair run concurrently and interleave wherever one     *)
(* leaves the mutex or waits for WhatsApp.  The session database survives  *)
(* a restart; the cooldown, the handlers and the hooks do not.  whatsmeow  *)
(* and the human with the phone are outside src/.                          *)
(* loss, told and attempts are not in the program: they record what the    *)
(* properties speak of and nothing reads them.                             *)
(***************************************************************************)
EXTENDS Integers, FiniteSets

CONSTANTS
  Requests,    \* handler goroutines of POST /pair
  Cooldown,    \* pairCooldown
  MaxNow,      \* bound on the clock
  MaxStarts,   \* bound on processes started
  MaxLosses    \* bound on logouts

ASSUME PairingAssumption ==
  /\ Cooldown \in Nat \ {0}
  /\ MaxNow \in Nat /\ MaxStarts \in Nat /\ MaxLosses \in Nat

VARIABLES
  now,
  process,   \* "down", "serving" (the ops API, before Connect) or "up"
  paired,    \* the session database holds a device
  socket,    \* "off", "login" or "pairing"
  code,      \* a pairing code is waiting to be typed in
  lastPair,  \* Server.lastPair
  post,      \* where each handler of POST /pair is
  hooks,     \* logged-out hooks about to run, by the loss they report
  starts,    \* processes started so far
  loss,      \* the last loss; 0: never paired
  told,      \* how often OnPairingLost was called for each loss
  attempts   \* when this process attempted to pair

vars == <<now, process, paired, socket, code, lastPair, post, hooks, starts,
          loss, told, attempts>>

session == <<paired, socket, code>>
history == <<loss, told, attempts>>

Losses == 0..MaxLosses

NoTime == -1

Init ==
  /\ now = 0
  /\ process = "down"
  /\ paired \in BOOLEAN
  /\ socket = "off"
  /\ code = FALSE
  /\ lastPair = NoTime
  /\ post = [r \in Requests |-> "idle"]
  /\ hooks = {}
  /\ starts = 0
  /\ loss = 0
  /\ told = [l \in Losses |-> 0]
  /\ attempts = {}

Tick ==
  /\ now < MaxNow
  /\ now' = now + 1
  /\ UNCHANGED <<process, session, lastPair, post, hooks, starts, history>>

-----------------------------------------------------------------------------
(* Run: the ops API is served first.                                       *)
Serve ==
  /\ process = "down" /\ starts < MaxStarts
  /\ process' = "serving"
  /\ starts' = starts + 1
  /\ lastPair' = NoTime
  /\ attempts' = {}
  /\ UNCHANGED <<now, session, post, hooks, loss, told>>

(* OnPairingLost is called.                                                *)
Tell(l) == told' = [told EXCEPT ![l] = @ + 1]

(* Mutant: Connect goes online whatever the session database says.         *)
LoginAnyway == "login"

SocketOfConnect == IF paired THEN "login" ELSE socket

(* Mutant: an unpaired boot is nobody's news.                              *)
BootSilent == FALSE

BootTells == ~ paired

(* Then Connect.  Without a session Run tells so and idles.  A session     *)
(* that a POST won meanwhile has its socket, and Connect fails: see Exit.  *)
Connect ==
  /\ process = "serving"
  /\ paired => socket = "off"
  /\ process' = "up"
  /\ socket' = SocketOfConnect
  /\ IF BootTells THEN Tell(loss) ELSE UNCHANGED told
  /\ UNCHANGED <<now, paired, code, lastPair, post, hooks, starts, loss,
                 attempts>>

(* The process ends: Connect failed and Run returned, SIGTERM, or a crash. *)
(* The last process of a behaviour stays.                                  *)
Exit ==
  /\ process # "down" /\ starts < MaxStarts
  /\ process' = "down"
  /\ socket' = "off"
  /\ code' = FALSE
  /\ post' = [r \in Requests |-> "idle"]
  /\ hooks' = {}
  /\ UNCHANGED <<now, paired, lastPair, starts, history>>

-----------------------------------------------------------------------------
Step(r, from, to) == post[r] = from /\ post' = [post EXCEPT ![r] = to]

(* handlePair: refused if paired; or on to the cooldown.                   *)
PostPair(r) ==
  /\ process # "down"
  /\ ~ paired
  /\ Step(r, "idle", "checked")
  /\ UNCHANGED <<now, process, session, lastPair, hooks, starts, history>>

(* Mutant: only a finished attempt starts the cooldown.                    *)
NotStamped == lastPair

Stamp == now

CoolingDown == lastPair # NoTime /\ now - lastPair < Cooldown

(* The cooldown, read and started under one lock.                          *)
TooSoon(r) ==
  /\ CoolingDown
  /\ Step(r, "checked", "idle")
  /\ UNCHANGED <<now, process, session, lastPair, hooks, starts, history>>

Attempt(r) ==
  /\ ~ CoolingDown
  /\ Step(r, "checked", "pair")
  /\ lastPair' = Stamp
  /\ attempts' = attempts \cup {now}
  /\ UNCHANGED <<now, process, session, hooks, starts, loss, told>>

(* Mutant: what handlePair found is relied on.                             *)
CheckedBefore == TRUE

StillUnpaired == ~ paired

(* Client.Pair: looks again, then opens a socket to pair over; whatsmeow   *)
(* has one socket.                                                         *)
OpenSocket(r) ==
  /\ StillUnpaired
  /\ socket = "off"
  /\ Step(r, "pair", "wait")
  /\ socket' = "pairing"
  /\ UNCHANGED <<now, process, paired, code, lastPair, hooks, starts,
                 history>>

(* The first event of the QR channel: the socket is ready, or was.         *)
Ready(r) ==
  /\ Step(r, "wait", "ready")
  /\ UNCHANGED <<now, process, session, lastPair, hooks, starts, history>>

PairPhone(r) ==
  /\ socket = "pairing"
  /\ Step(r, "ready", "idle")
  /\ code' = TRUE
  /\ UNCHANGED <<now, process, paired, socket, lastPair, hooks, starts,
                 history>>

(* Any of the three may fail, or time out; the socket is left as it is,    *)
(* and the cooldown stands.                                                *)
PairFails(r) ==
  /\ \E from \in {"pair", "wait", "ready"} : Step(r, from, "idle")
  /\ UNCHANGED <<now, process, session, lastPair, hooks, starts, history>>

-----------------------------------------------------------------------------
(* whatsmeow and the phone.  Pairing and login are dropped by either side. *)
SocketDrops ==
  /\ socket # "off"
  /\ socket' = "off"
  /\ code' = FALSE
  /\ UNCHANGED <<now, process, paired, lastPair, post, hooks, starts,
                 history>>

(* A session reconnects by itself.                                         *)
Reconnect ==
  /\ process = "up" /\ paired /\ socket = "off"
  /\ socket' = "login"
  /\ UNCHANGED <<now, process, paired, code, lastPair, post, hooks, starts,
                 history>>

(* The code is typed in on the phone.                                      *)
LinkDevice ==
  /\ code
  /\ paired' = TRUE
  /\ socket' = "login"
  /\ code' = FALSE
  /\ UNCHANGED <<now, process, lastPair, post, hooks, starts, history>>

HooksWithLoss == hooks \cup {loss'}

(* The device is unlinked: the session is gone, and handleEvent runs the   *)
(* hook on a goroutine of its own.                                         *)
LoggedOut ==
  /\ socket = "login" /\ loss < MaxLosses
  /\ paired' = FALSE
  /\ socket' = "off"
  /\ loss' = loss + 1
  /\ hooks' = HooksWithLoss
  /\ UNCHANGED <<now, process, code, lastPair, post, starts, told, attempts>>

LogoutHook(l) ==
  /\ l \in hooks
  /\ hooks' = hooks \ {l}
  /\ Tell(l)
  /\ UNCHANGED <<now, process, session, lastPair, post, starts, loss,
                 attempts>>

-----------------------------------------------------------------------------
Next ==
  \/ Tick \/ Serve \/ Connect \/ Exit
  \/ \E r \in Requests :
       \/ PostPair(r) \/ TooSoon(r) \/ Attempt(r) \/ OpenSocket(r)
       \/ Ready(r) \/ PairPhone(r) \/ PairFails(r)
  \/ SocketDrops \/ Reconnect \/ LinkDevice \/ LoggedOut
  \/ \E l \in Losses : LogoutHook(l)

SafeSpec == Init /\ [][Next]_vars

(* The platform restarts the bot, Run goes on, goroutines are scheduled.   *)
Fairness ==
  /\ WF_vars(Serve)
  /\ WF_vars(Connect)
  /\ \A l \in Losses : WF_vars(LogoutHook(l))

Spec == SafeSpec /\ Fairness

-----------------------------------------------------------------------------
(* Types; a session socket needs a session, a code a socket to pair over,  *)
(* and a process that is down has none of its state left.                  *)
TypeOK ==
  /\ now \in Nat
  /\ process \in {"down", "serving", "up"}
  /\ paired \in BOOLEAN
  /\ socket \in {"off", "login", "pairing"}
  /\ code \in BOOLEAN
  /\ lastPair \in Nat \cup {NoTime}
  /\ post \in [Requests -> {"idle", "checked", "pair", "wait", "ready"}]
  /\ hooks \subseteq 1..loss
  /\ starts \in Nat
  /\ loss \in Losses
  /\ told \in [Losses -> Nat]
  /\ attempts \subseteq Nat
  /\ socket = "login" => paired
  /\ code => socket = "pairing"
  /\ process = "down" =>
       socket = "off" /\ hooks = {} /\ \A r \in Requests : post[r] = "idle"

(* Two attempts of one process are at least Cooldown apart, however many   *)
(* POSTs come in at once and whatever became of the attempts               *)
(* (pairing/server.go: "one impatient retry loop must not become a burst   *)
(* of pairing-code requests").                                             *)
AttemptsSpaced ==
  [][ \A r \in Requests :
        post[r] = "checked" /\ post'[r] = "pair"
          => \A t \in attempts : now - t >= Cooldown ]_vars

(* The bot is never paired over a session it has: between the moment       *)
(* handlePair finds none and the one Client.Pair opens a socket, another   *)
(* POST may have been answered and its code typed in (server.go,           *)
(* handlePair, and again client.go, Pair: "already paired").               *)
PairsNoSession == socket = "pairing" => ~ paired

(* A loss of the session reaches OnPairingLost, also when the bot goes     *)
(* down between the logout and the hook (bot.go, OnPairingLost).           *)
LossReported ==
  \A l \in Losses :
    loss = l /\ ~ paired ~> told[l] > 0 \/ paired
=============================================================================
