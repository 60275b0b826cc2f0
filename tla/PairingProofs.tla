--------------------------- MODULE PairingProofs ----------------------------
(***************************************************************************)
(* Proofs about Pairing: types, the spacing of pairing attempts, and that  *)
(* no session is paired over, for any number of concurrent POSTs and any   *)
(* cooldown.                                                               *)
(***************************************************************************)
EXTENDS Pairing, TLAPS

(* What the cooldown rests on: lastPair is the latest attempt of this      *)
(* process, and none is in the future.                                     *)
LastPairIsLatest ==
  /\ attempts = {} <=> lastPair = NoTime
  /\ \A t \in attempts : t <= lastPair

Inv ==
  /\ TypeOK
  /\ process # "down" => LastPairIsLatest
  /\ PairsNoSession

(* The steps of a handler that touch nothing but its place.                *)
LEMMA StepTypes ==
  ASSUME TypeOK, NEW r \in Requests, process # "down",
         NEW from, NEW to \in {"idle", "checked", "pair", "wait", "ready"},
         Step(r, from, to)
  PROVE  post' \in [Requests -> {"idle", "checked", "pair", "wait", "ready"}]
  BY DEF TypeOK, Step

(* A handler that is somewhere runs in a process that is up.               *)
LEMMA HandlerUp ==
  ASSUME TypeOK, NEW r \in Requests, post[r] # "idle"
  PROVE  process # "down"
  BY DEF TypeOK

LEMMA InitInv == ASSUME Init PROVE Inv
  <1>1. 0 \in Losses
    BY PairingAssumption DEF Losses
  <1>2. TypeOK
    BY <1>1 DEF Init, TypeOK, NoTime
  <1> QED
    BY <1>2 DEF Init, Inv, PairsNoSession

(* The handlers.                                                           *)
LEMMA HandlerInv ==
  ASSUME Inv, NEW r \in Requests,
         \/ PostPair(r) \/ TooSoon(r) \/ Attempt(r) \/ OpenSocket(r)
         \/ Ready(r) \/ PairPhone(r) \/ PairFails(r)
  PROVE  Inv'
  <1> USE DEF Inv, session, history, PairsNoSession, StillUnpaired
  <1>1. process # "down"
    BY HandlerUp DEF PostPair, TooSoon, Attempt, OpenSocket, Ready, PairPhone,
       PairFails, Step
  <1>2. post' \in [Requests -> {"idle", "checked", "pair", "wait", "ready"}]
    BY <1>1, StepTypes DEF PostPair, TooSoon, Attempt, OpenSocket, Ready,
       PairPhone, PairFails
  <1>3. CASE Attempt(r)
    <2>1. TypeOK'
      BY <1>1, <1>2, <1>3 DEF TypeOK, Attempt, Stamp
    <2>2. LastPairIsLatest'
      BY <1>1, <1>3, PairingAssumption
      DEF Attempt, Stamp, CoolingDown, LastPairIsLatest, TypeOK, NoTime
    <2>3. UNCHANGED <<socket, paired>>
      BY <1>3 DEF Attempt
    <2> QED
      BY <2>1, <2>2, <2>3
  <1>4. CASE OpenSocket(r)
    BY <1>1, <1>2, <1>4 DEF OpenSocket, TypeOK, LastPairIsLatest
  <1>5. CASE PairPhone(r)
    BY <1>1, <1>2, <1>5 DEF PairPhone, TypeOK, LastPairIsLatest
  <1>6. CASE PostPair(r) \/ TooSoon(r) \/ Ready(r) \/ PairFails(r)
    <2>1. UNCHANGED <<now, process, paired, socket, code, lastPair, hooks,
                      starts, loss, told, attempts>>
      BY <1>6 DEF PostPair, TooSoon, Ready, PairFails
    <2> QED
      BY <1>1, <1>2, <2>1 DEF TypeOK, LastPairIsLatest
  <1> QED
    BY <1>3, <1>4, <1>5, <1>6

(* The process, whatsmeow and the phone.                                   *)
LEMMA OutsideInv ==
  ASSUME Inv,
         \/ Tick \/ Serve \/ Connect \/ Exit
         \/ SocketDrops \/ Reconnect \/ LinkDevice \/ LoggedOut
         \/ \E l \in Losses : LogoutHook(l)
  PROVE  Inv'
  <1> USE DEF Inv, session, history, PairsNoSession, StillUnpaired
  <1>1. CASE Tick
    BY <1>1 DEF Tick, TypeOK, LastPairIsLatest
  <1>2. CASE Serve
    BY <1>2 DEF Serve, TypeOK, LastPairIsLatest, NoTime
  <1>3. CASE Connect
    <2>1. told' \in [Losses -> Nat]
      BY <1>3 DEF Connect, Tell, TypeOK
    <2> QED
      BY <2>1, <1>3 DEF Connect, SocketOfConnect, TypeOK, LastPairIsLatest
  <1>4. CASE Exit
    <2>1. /\ process' = "down" /\ socket' = "off" /\ code' = FALSE
          /\ hooks' = {} /\ post' = [r \in Requests |-> "idle"]
          /\ UNCHANGED <<now, paired, lastPair, starts, loss, told, attempts>>
      BY <1>4 DEF Exit
    <2> QED
      BY <2>1 DEF TypeOK
  <1>5. CASE SocketDrops \/ Reconnect \/ LinkDevice
    <2>1. /\ socket' \in {"off", "login"} /\ code' = FALSE
          /\ paired' \in BOOLEAN /\ (socket' = "login" => paired')
          /\ process = "down" => socket' = "off"
      BY <1>5 DEF SocketDrops, Reconnect, LinkDevice, TypeOK
    <2>2. UNCHANGED <<now, process, lastPair, post, hooks, starts, loss, told,
                      attempts>>
      BY <1>5 DEF SocketDrops, Reconnect, LinkDevice
    <2> QED
      BY <2>1, <2>2 DEF TypeOK, LastPairIsLatest
  <1>6. CASE LoggedOut
    <2>1. process # "down" /\ ~ code
      BY <1>6 DEF LoggedOut, TypeOK
    <2>2. loss \in Nat /\ loss' = loss + 1 /\ loss' \in Losses
      BY <1>6, PairingAssumption DEF LoggedOut, TypeOK, Losses
    <2>3. hooks' \subseteq 1..loss'
      BY <1>6, <2>2 DEF LoggedOut, HooksWithLoss, TypeOK
    <2> QED
      BY <1>6, <2>1, <2>2, <2>3 DEF LoggedOut, TypeOK, LastPairIsLatest
  <1>7. CASE \E l \in Losses : LogoutHook(l)
    <2>1. told' \in [Losses -> Nat] /\ hooks' \subseteq hooks
      BY <1>7 DEF LogoutHook, Tell, TypeOK
    <2>2. UNCHANGED <<now, process, paired, socket, code, lastPair, post,
                      starts, loss, attempts>>
      BY <1>7 DEF LogoutHook
    <2> QED
      BY <2>1, <2>2 DEF TypeOK, LastPairIsLatest
  <1> QED
    BY <1>1, <1>2, <1>3, <1>4, <1>5, <1>6, <1>7

LEMMA NextInv == ASSUME Inv, [Next]_vars PROVE Inv'
  <1>1. CASE Next
    BY <1>1, HandlerInv, OutsideInv DEF Next
  <1>2. CASE UNCHANGED vars
    BY <1>2 DEF vars, session, history, Inv, TypeOK, LastPairIsLatest,
                PairsNoSession
  <1> QED
    BY <1>1, <1>2

LEMMA Invariance == SafeSpec => []Inv
  BY InitInv, NextInv, PTL DEF SafeSpec

(* Types are right, whatever the number of handlers, processes and losses. *)
THEOREM PairingTypes == SafeSpec => []TypeOK
  <1>1. Inv => TypeOK
    BY DEF Inv
  <1> QED
    BY <1>1, Invariance, PTL

(* A session is never paired over: whichever POST opens a socket, there is *)
(* no session then, and none comes up beside that socket but through it.   *)
THEOREM PairsNoSessionHolds == SafeSpec => []PairsNoSession
  <1>1. Inv => PairsNoSession
    BY DEF Inv
  <1> QED
    BY <1>1, Invariance, PTL

(* An attempt begins under the lock, where lastPair is the latest one.     *)
LEMMA AttemptSpaced ==
  ASSUME Inv, Next,
         NEW r \in Requests, post[r] = "checked", post'[r] = "pair",
         NEW t \in attempts
  PROVE  now - t >= Cooldown
  <1>1. PICK q \in Requests : Attempt(q)
    <2>1. post # post'
      OBVIOUS
    <2>2. \E q \in Requests :
            \/ PostPair(q) \/ TooSoon(q) \/ Attempt(q) \/ OpenSocket(q)
            \/ Ready(q) \/ PairPhone(q) \/ PairFails(q) \/ Exit
      BY <2>1 DEF Next, Tick, Serve, Connect, SocketDrops, Reconnect,
         LinkDevice, LoggedOut, LogoutHook
    <2> QED
      BY <2>2 DEF Inv, TypeOK, Step, Exit, PostPair, TooSoon, OpenSocket,
         Ready, PairPhone, PairFails
  <1>2. process # "down"
    BY HandlerUp DEF Inv
  <1>3. t \in Nat /\ now \in Nat /\ lastPair \in Nat /\ t <= lastPair
    BY <1>2 DEF Inv, TypeOK, LastPairIsLatest, NoTime
  <1>4. ~ (now - lastPair < Cooldown)
    BY <1>1, <1>3 DEF Attempt, CoolingDown, NoTime
  <1> QED
    BY <1>3, <1>4, PairingAssumption

(* However many POSTs interleave, two attempts of one process are at least *)
(* the cooldown apart.                                                     *)
THEOREM AttemptsSpacedHolds == SafeSpec => AttemptsSpaced
  <1>1. Inv /\ [Next]_vars =>
          [ \A r \in Requests :
              post[r] = "checked" /\ post'[r] = "pair"
                => \A t \in attempts : now - t >= Cooldown ]_vars
    BY AttemptSpaced
  <1> QED
    BY <1>1, Invariance, PTL DEF SafeSpec, AttemptsSpaced
=============================================================================
