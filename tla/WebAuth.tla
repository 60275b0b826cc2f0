------------------------------ MODULE WebAuth -------------------------------
(***************************************************************************)
(* The magic links of package webauth: MintLink, Redeem, Refresh and       *)
(* Verify over the KV table.  Every call is a request r that advances one  *)
(* blocking step at a time, so that calls interleave at each store access, *)
(* clock reading and membership query, and the bot may crash between any   *)
(* two of them.  WhatsApp's group roster is outside src/ and changes on    *)
(* its own; a membership query samples it once, or fails.                  *)
(*                                                                         *)
(* Time is a clock in ticks; token and row times are whole Unix seconds,   *)
(* as in the code (Time.Unix and SQLite's datetime truncate).              *)
(* roster's history (left) and logins are not in the program: they record  *)
(* what the properties speak of and nothing reads them.                    *)
(***************************************************************************)
EXTENDS KV, FiniteSets

CONSTANTS
  Groups, Members,
  Nonces,                                \* what crypto/rand may return
  Requests,                              \* handler goroutines
  LinkTTL, SessionTTL, RecheckInterval,  \* Config, in clock ticks
  LinkSingleUse,
  TicksPerSecond,
  MaxNow,                                \* bound on the clock
  MaxIssued                              \* bound on tokens before calls stop

ASSUME TimesAssumption ==
  /\ TicksPerSecond \in Nat \ {0}
  /\ LinkTTL \in Nat \ {0}
  /\ RecheckInterval \in Nat \ {0}
  /\ SessionTTL \in Nat
  /\ RecheckInterval <= SessionTTL       \* withDefaults refuses the rest
  /\ MaxNow \in Nat

ASSUME SingleUseAssumption == LinkSingleUse \in BOOLEAN

VARIABLES
  now,      \* the clock
  roster,   \* the pairs <<group, member>> that are in
  left,     \* when each pair was last in, if it is out; -1: never
  kv,       \* the botkit_kv table
  drawn,    \* the nonces generated so far
  req,      \* one record per request
  issued,   \* the claims of every token signed
  logins    \* every successful redeem

vars == <<now, roster, left, kv, drawn, req, issued, logins>>

Pairs == Groups \X Members

Unix(t) == t \div TicksPerSecond

LastIn(pair) == IF pair \in roster THEN now ELSE left[pair]

(***************************************************************************)
(* Data.  A request carries the fields its call has computed so far; the   *)
(* fields it has no use for hold None.                                     *)
(***************************************************************************)
None == "none"
NoTime == -1

Idle == [pc |-> "idle", op |-> None, nonce |-> None, group |-> None,
         member |-> None, expires |-> NoTime, now |-> NoTime,
         absolute |-> NoTime]

LinkKey(n) == <<"webauth:nonce", n>>

LinkRecord(group, member, expires) ==
  [group |-> group, member |-> member, expires |-> expires]

Claims(group, member, t, absolute) ==
  [group |-> group, member |-> member, issuedAt |-> Unix(t),
   expires |-> Unix(t + RecheckInterval), absolute |-> absolute]

(* Mutant: mint reads the clock itself, after the membership query.        *)
TokenDatedLate(q) == Claims(q.group, q.member, now, q.absolute)

(* mint: the claims of the token a request signs.                          *)
Token(q) == Claims(q.group, q.member, q.now, q.absolute)

(* Verify: what a token's bearer is told without a membership query.       *)
Verify(tok) == Unix(now) < tok.expires /\ Unix(now) < tok.absolute

CallsAllowed == Cardinality(issued) < MaxIssued

-----------------------------------------------------------------------------
Init ==
  /\ now = 0
  /\ roster \in SUBSET Pairs
  /\ left = [pair \in Pairs |-> -1]
  /\ kv = {}
  /\ drawn = {}
  /\ req = [r \in Requests |-> Idle]
  /\ issued = {}
  /\ logins = {}

(* The environment: time, and a group whose members come and go.           *)
Tick ==
  /\ now < MaxNow
  /\ now' = now + 1
  /\ UNCHANGED <<roster, left, kv, drawn, req, issued, logins>>

Join(pair) ==
  /\ pair \notin roster
  /\ roster' = roster \cup {pair}
  /\ UNCHANGED <<now, left, kv, drawn, req, issued, logins>>

Leave(pair) ==
  /\ pair \in roster
  /\ roster' = roster \ {pair}
  /\ left' = [left EXCEPT ![pair] = now]
  /\ UNCHANGED <<now, kv, drawn, req, issued, logins>>

-----------------------------------------------------------------------------
(* MintLink, first the sweep of old nonces; its failure is only logged.    *)
MintSweep(r, group, member) ==
  /\ req[r].pc = "idle"
  /\ CallsAllowed
  /\ \/ kv' = DeleteExpired(kv, "webauth:nonce", Unix(LinkTTL), Unix(now))
     \/ UNCHANGED kv
  /\ req' = [req EXCEPT ![r] = [Idle EXCEPT
               !.pc = "stamp", !.op = "mint",
               !.group = group, !.member = member]]
  /\ UNCHANGED <<now, roster, left, drawn, issued, logins>>

(* Then a fresh nonce and the record that expires LinkTTL from now.        *)
MintStamp(r, n) ==
  /\ req[r].pc = "stamp"
  /\ n \notin drawn
  /\ drawn' = drawn \cup {n}
  /\ req' = [req EXCEPT ![r].pc = "store", ![r].nonce = n,
                        ![r].expires = Unix(now + LinkTTL)]
  /\ UNCHANGED <<now, roster, left, kv, issued, logins>>

(* Then the write, and the URL; a Set that fails may yet have written.     *)
MintStore(r) ==
  /\ req[r].pc = "store"
  /\ LET q == req[r]
         stored == Set(kv, LinkKey(q.nonce),
                       LinkRecord(q.group, q.member, q.expires), Unix(now))
     IN  \/ kv' = stored /\ req' = [req EXCEPT ![r].pc = "granted"]
         \/ kv' \in {kv, stored} /\ req' = [req EXCEPT ![r].pc = "denied"]
  /\ UNCHANGED <<now, roster, left, drawn, issued, logins>>

-----------------------------------------------------------------------------
(* Redeem, first the lookup that is also the single-use gate.  A failing   *)
(* query denies, and the DELETE may have happened all the same.            *)
RedeemLookup(r, n) ==
  /\ req[r].pc = "idle"
  /\ CallsAllowed
  /\ LET key == LinkKey(n)
         rest == IF LinkSingleUse THEN Consume(kv, key) ELSE kv
     IN  \/ /\ Has(kv, key)
            /\ kv' = rest
            /\ LET rec == Get(kv, key)
               IN  req' = [req EXCEPT ![r] = [Idle EXCEPT
                             !.pc = "expiry", !.op = "redeem", !.nonce = n,
                             !.group = rec.group, !.member = rec.member,
                             !.expires = rec.expires]]
         \/ /\ ~ Has(kv, key)
            /\ UNCHANGED kv
            /\ req' = [req EXCEPT ![r] = [Idle EXCEPT
                         !.pc = "denied", !.op = "redeem"]]
         \/ /\ kv' \in {kv, rest}
            /\ req' = [req EXCEPT ![r] = [Idle EXCEPT
                         !.pc = "denied", !.op = "redeem"]]
  /\ UNCHANGED <<now, roster, left, drawn, issued, logins>>

(* Mutant: an expired link redeems.                                        *)
NeverExpired(q) == FALSE

LinkExpired(q) == Unix(now) > q.expires

(* Mutant: a login without a ceiling.                                      *)
NoCeiling == NoTime

LoginCeiling == Unix(now + SessionTTL)

(* Then the clock, read once for the whole login: expiry, iat, exp, abs.   *)
RedeemExpiry(r) ==
  /\ req[r].pc = "expiry"
  /\ IF LinkExpired(req[r])
     THEN req' = [req EXCEPT ![r] = [Idle EXCEPT
                    !.pc = "denied", !.op = "redeem"]]
     ELSE req' = [req EXCEPT ![r].pc = "member", ![r].now = now,
                             ![r].absolute = LoginCeiling]
  /\ UNCHANGED <<now, roster, left, kv, drawn, issued, logins>>

(* Mutant: Refresh forgets the ceiling.                                    *)
NeverPastCeiling(tok) == FALSE

PastCeiling(tok) == Unix(now) >= tok.absolute

(* Mutant: every refresh is a new login.                                   *)
CeilingFromNow(tok) == Unix(now + SessionTTL)

RefreshCeiling(tok) == tok.absolute

(* Refresh: any signed token inside its ceiling, whatever its exp.  The    *)
(* ceiling rides through.                                                  *)
RefreshStart(r, tok) ==
  /\ req[r].pc = "idle"
  /\ CallsAllowed
  /\ IF PastCeiling(tok)
     THEN req' = [req EXCEPT ![r] = [Idle EXCEPT
                    !.pc = "denied", !.op = "refresh"]]
     ELSE req' = [req EXCEPT ![r] = [Idle EXCEPT
                    !.pc = "member", !.op = "refresh",
                    !.group = tok.group, !.member = tok.member,
                    !.now = now, !.absolute = RefreshCeiling(tok)]]
  /\ UNCHANGED <<now, roster, left, kv, drawn, issued, logins>>

(* assertMember: the live query.  A failed query denies.                   *)
AssertMember(r) ==
  /\ req[r].pc = "member"
  /\ \/ /\ <<req[r].group, req[r].member>> \in roster
        /\ req' = [req EXCEPT ![r].pc = "sign"]
     \/ req' = [req EXCEPT ![r] = [Idle EXCEPT
                  !.pc = "denied", !.op = req[r].op]]
  /\ UNCHANGED <<now, roster, left, kv, drawn, issued, logins>>

(* mint: sign claims dated from the moment the request read the clock.     *)
Mint(r) ==
  /\ req[r].pc = "sign"
  /\ LET q == req[r]
     IN  /\ issued' = issued \cup {Token(q)}
         /\ logins' = IF q.op = "redeem"
                      THEN logins \cup {[nonce |-> q.nonce, by |-> r,
                             group |-> q.group, member |-> q.member,
                             at |-> q.now]}
                      ELSE logins
  /\ req' = [req EXCEPT ![r].pc = "granted"]
  /\ UNCHANGED <<now, roster, left, kv, drawn>>

(* Mutant: a denied request is never answered.                             *)
FinishedWell(q) == q.pc = "granted"

Finished(q) == q.pc \in {"granted", "denied"}

(* The answer goes out; whether it arrives is the caller's concern.        *)
Respond(r) ==
  /\ Finished(req[r])
  /\ req' = [req EXCEPT ![r] = Idle]
  /\ UNCHANGED <<now, roster, left, kv, drawn, issued, logins>>

(* The bot dies and comes back: the table and the tokens in browsers       *)
(* survive, the requests do not.                                           *)
Crash ==
  /\ \E r \in Requests : req[r].pc # "idle"
  /\ req' = [r \in Requests |-> Idle]
  /\ UNCHANGED <<now, roster, left, kv, drawn, issued, logins>>

-----------------------------------------------------------------------------
Work(r) ==
  \/ \E n \in Nonces : MintStamp(r, n)
  \/ MintStore(r)
  \/ RedeemExpiry(r)
  \/ AssertMember(r)
  \/ Mint(r)

Call(r) ==
  \/ \E g \in Groups, m \in Members : MintSweep(r, g, m)
  \/ \E n \in Nonces : RedeemLookup(r, n)
  \/ \E tok \in issued : RefreshStart(r, tok)

Environment ==
  \/ Tick
  \/ \E pair \in Pairs : Join(pair) \/ Leave(pair)

Next ==
  \/ Environment
  \/ \E r \in Requests : Call(r) \/ Work(r) \/ Respond(r)
  \/ Crash

Spec == Init /\ [][Next]_vars

-----------------------------------------------------------------------------
(***************************************************************************)
(* Properties.                                                             *)
(***************************************************************************)
Times == Nat \cup {NoTime}

RowType ==
  [key : {LinkKey(n) : n \in Nonces},
   value : [group : Groups, member : Members, expires : Nat],
   updated_at : Nat]

ReqType ==
  [pc : {"idle", "stamp", "store", "expiry", "member", "sign", "granted",
         "denied"},
   op : {None, "mint", "redeem", "refresh"},
   nonce : Nonces \cup {None}, group : Groups \cup {None},
   member : Members \cup {None}, expires : Times, now : Times,
   absolute : Times]

TokenType ==
  [group : Groups, member : Members, issuedAt : Nat, expires : Nat,
   absolute : Nat]

LoginType ==
  [nonce : Nonces, by : Requests, group : Groups, member : Members, at : Nat]

(* Types, and the primary key of the table: no two rows share one.         *)
TypeOK ==
  /\ now \in Nat
  /\ roster \subseteq Pairs
  /\ left \in [Pairs -> Times]
  /\ kv \subseteq RowType
  /\ \A row1, row2 \in kv : row1.key = row2.key => row1 = row2
  /\ drawn \subseteq Nonces
  /\ req \in [Requests -> ReqType]
  /\ issued \subseteq TokenType
  /\ logins \subseteq LoginType

(* A single-use link logs in at most once, however many taps of it are in  *)
(* flight and wherever the bot crashes (webauth.go, Redeem: "a             *)
(* Get-then-Delete would let two concurrent taps of one link both          *)
(* succeed").                                                              *)
SingleWinner ==
  LinkSingleUse =>
    \A l1, l2 \in logins : l1.nonce = l2.nonce => l1 = l2

(* The revocation lag (config.go, RecheckInterval): a token that still     *)
(* verifies belongs to somebody who was in its group less than             *)
(* RecheckInterval ago, however slow the membership query that vouched     *)
(* for it and whoever left meanwhile.                                      *)
RevocationLag ==
  \A tok \in issued :
    Verify(tok) => now < LastIn(<<tok.group, tok.member>>) + RecheckInterval

(* The absolute ceiling (config.go, SessionTTL): a token that still        *)
(* verifies goes back, through however many refreshes, to a login by that  *)
(* member to that group less than SessionTTL ago.                          *)
SessionCeiling ==
  \A tok \in issued :
    Verify(tok) =>
      \E l \in logins :
        /\ l.group = tok.group
        /\ l.member = tok.member
        /\ now < l.at + SessionTTL

(* The sweep that MintLink runs deletes only links nobody could redeem any *)
(* more (webauth.go, MintLink: "Past LinkTTL means unusable anyway").      *)
SweepSparesLive ==
  [][ (\E r \in Requests : req[r].pc = "idle" /\ req'[r].pc = "stamp")
        => \A row \in kv \ kv' : Unix(now) > row.value.expires ]_vars

(***************************************************************************)
(* The requests keep the promise of MagicLink: a link is on offer while    *)
(* its row is in the table or a redeem that read the row is still running. *)
(***************************************************************************)
Holding(q) == q.op = "redeem" /\ q.pc \in {"expiry", "member", "sign"}

Offers ==
  {[nonce |-> row.key[2], group |-> row.value.group,
    member |-> row.value.member, expires |-> row.value.expires] : row \in kv}
  \cup
  {[nonce |-> req[r].nonce, group |-> req[r].group,
    member |-> req[r].member, expires |-> req[r].expires] :
      r \in {s \in Requests : Holding(req[s])}}

Unstored ==
  {req[r].nonce : r \in {s \in Requests : req[s].pc = "store"}}

Withdrawn ==
  (drawn \ {o.nonce : o \in Offers}) \ Unstored

Promise == INSTANCE MagicLink WITH
  offers <- Offers, withdrawn <- Withdrawn, sessions <- issued

(* Every step of every request, crash and failure is a step of MagicLink,  *)
(* or no step of it.                                                       *)
KeepsPromise == Promise!Spec
=============================================================================
