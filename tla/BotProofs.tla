----------------------------- MODULE BotProofs ------------------------------
(***************************************************************************)
(* Proofs about what is built around WebAuth: the dashboard (Dashboard),   *)
(* the configuration of its logins (Config), and the bot that shares its   *)
(* table and its process between links and jobs (Lifecycle).               *)
(***************************************************************************)
EXTENDS Dashboard, Lifecycle, WebAuthProofs, Config, FiniteSetTheorems

-----------------------------------------------------------------------------
(* The dashboard.                                                          *)
FetchType ==
  {NoFetch}
  \cup [kind : {"redeem"}, sent : BOOLEAN, browser : Browsers,
        nonce : Nonces, asked : Nat]
  \cup [kind : {"refresh"}, sent : BOOLEAN, browser : Browsers,
        token : TokenType, asked : Nat]

CookieType == [token : TokenType, until : Nat]

-----------------------------------------------------------------------------
(***************************************************************************)
(* The inductive invariant.  It follows a fetch through the bot: what the  *)
(* request that handles it is about, and that a refresh is dated after the *)
(* page was asked for, below the ceiling, and in the end while its member  *)
(* was in.                                                                 *)
(***************************************************************************)
FetchRight(f, q) ==
  f.kind # "none" =>
    /\ f.asked <= now
    /\ f.kind = "refresh" => f.token \in issued
    /\ ~ f.sent => q.pc = "idle"
    /\ q.pc \notin {"stamp", "store"}
    /\ q.pc # "idle" => q.op = f.kind
    /\ q.pc \in {"member", "sign", "granted"} /\ f.kind = "refresh" =>
         /\ q.group = f.token.group
         /\ q.member = f.token.member
         /\ q.absolute = f.token.absolute
         /\ f.asked <= q.now
         /\ Unix(q.now) < q.absolute
    /\ q.pc = "granted" =>
         /\ Token(q) \in issued
         /\ q.now <= LastIn(<<q.group, q.member>>)

FetchesRight == \A r \in Requests : FetchRight(fetch[r], req[r])

DashTypes ==
  /\ cookie \in [Browsers -> SUBSET CookieType]
  /\ fetch \in [Requests -> FetchType]

CookiesRight ==
  \A b \in Browsers :
    /\ \A c \in cookie[b] : c.token \in issued
    /\ \A c1, c2 \in cookie[b] : c1 = c2

TokensEnd ==
  \A tok \in issued : tok.expires <= tok.absolute + Unix(RecheckInterval)

PageRight ==
  /\ \A p1, p2 \in page : p1 = p2
  /\ ViewsVouched
  /\ ViewsEndAfterCeiling

DashInv ==
  /\ PromiseInv /\ TokensEnd
  /\ DashTypes /\ FetchesRight /\ CookiesRight /\ PageRight

-----------------------------------------------------------------------------
(* The kind of a fetch says what it carries.                               *)
LEMMA FetchKinds ==
  ASSUME DashTypes, NEW r \in Requests
  PROVE  /\ Fetching(r) <=> fetch[r].kind # "none"
         /\ Fetching(r) => /\ fetch[r].kind \in {"redeem", "refresh"}
                           /\ fetch[r].browser \in Browsers
                           /\ fetch[r].sent \in BOOLEAN
                           /\ fetch[r].asked \in Nat
         /\ fetch[r].kind = "redeem" => fetch[r].nonce \in Nonces
         /\ fetch[r].kind = "refresh" => fetch[r].token \in TokenType
<1>1. fetch[r] \in FetchType
  BY DEF DashTypes
<1>2. NoFetch.kind = "none"
  BY DEF NoFetch
<1> QED
  BY <1>1, <1>2 DEF FetchType, Fetching

(* Whatever the dashboard does is a step of WebAuth or none of its.        *)
LEMMA DashIsNext ==
  ASSUME DashInv, [DashNext]_allVars
  PROVE  [Next]_vars
<1>1. World => Next
  BY DEF World, DevMembers, Next, Environment
<1>2. ASSUME NEW r \in Requests, Arrive(r)
      PROVE  Next
  <2>1. CASE fetch[r].kind = "redeem"
    BY <1>2, <2>1, FetchKinds DEF Arrive, DashInv, Next, Call
  <2>2. CASE fetch[r].kind # "redeem"
    <3>1. fetch[r].token \in issued
      BY <1>2, <2>2, FetchKinds
      DEF Arrive, DashInv, FetchesRight, FetchRight
    <3> QED
      BY <1>2, <2>2, <3>1 DEF Arrive, Next, Call
  <2> QED
    BY <2>1, <2>2
<1>3. ASSUME NEW r \in Requests,
             Answer(r) \/ LoseAnswer(r) \/ DevMint(r) \/ BotWork(r)
      PROVE  Next
  BY <1>3 DEF Answer, LoseAnswer, DevMint, BotWork, Next, Call
<1>4. BotCrash => Next
  BY DEF BotCrash, Next
<1>5. ASSUME NEW r \in Requests, NEW b \in Browsers
      PROVE  /\ \A n \in Nonces : OpenLink(b, r, n) => UNCHANGED vars
             /\ \A c \in cookie[b] : BeginRefresh(b, c, r) => UNCHANGED vars
  BY DEF OpenLink, BeginRefresh
<1>6. \A r \in Requests : Unreachable(r) => UNCHANGED vars
  BY DEF Unreachable
<1>7. ASSUME NEW b \in Browsers
      PROVE  /\ \A c \in cookie[b] : ViewPage(b, c) => UNCHANGED vars
             /\ DropCookie(b) => UNCHANGED vars
  BY DEF ViewPage, DropCookie
<1>8. UNCHANGED allVars => UNCHANGED vars
  BY DEF allVars
<1> QED
  BY <1>1, <1>2, <1>3, <1>4, <1>5, <1>6, <1>7, <1>8 DEF DashNext

-----------------------------------------------------------------------------
(* Tokens: two truncated durations lose less than a second.                *)
LEMMA UnixSum ==
  ASSUME NEW a \in Nat, NEW b \in Nat
  PROVE  Unix(a + b) <= Unix(a) + Unix(b) + 1
<1> DEFINE p == a \div TicksPerSecond
           q == b \div TicksPerSecond
           k == (a + b) \div TicksPerSecond
<1>1. p \in Nat /\ a < TicksPerSecond * p + TicksPerSecond
  BY TimesAssumption
<1>2. q \in Nat /\ b < TicksPerSecond * q + TicksPerSecond
  BY TimesAssumption
<1>3. k \in Nat /\ TicksPerSecond * k <= a + b
  BY TimesAssumption
<1> HIDE DEF p, q, k
<1>4. TicksPerSecond * (p + q + 2)
        = TicksPerSecond * p + TicksPerSecond * q + 2 * TicksPerSecond
  BY <1>1, <1>2, TimesAssumption
<1>5. TicksPerSecond * k < TicksPerSecond * (p + q + 2)
  BY <1>1, <1>2, <1>3, <1>4, TimesAssumption
<1>6. ~ p + q + 2 <= k
  <2> SUFFICES ASSUME p + q + 2 <= k PROVE FALSE
    OBVIOUS
  <2>1. TicksPerSecond * (p + q + 2) <= TicksPerSecond * k
    BY <1>1, <1>2, <1>3, TimesAssumption
  <2> QED
    BY <1>1, <1>2, <1>3, <1>5, <2>1, TimesAssumption
<1>7. k <= p + q + 1
  BY <1>1, <1>2, <1>3, <1>6
<1> QED
  BY <1>7 DEF Unix, p, q, k

(* A token expires at most a recheck interval after the ceiling.           *)
LEMMA NextTokensEnd ==
  ASSUME PromiseInv, TokensEnd, [Next]_vars
  PROVE  TokensEnd'
<1> SUFFICES ASSUME NEW tok \in issued'
             PROVE  tok.expires <= tok.absolute + Unix(RecheckInterval)
  BY DEF TokensEnd, Unix
<1>1. CASE tok \in issued
  BY <1>1 DEF TokensEnd
<1>2. ASSUME NEW r \in Requests, Mint(r), tok = Token(req[r])
      PROVE  tok.expires <= tok.absolute + Unix(RecheckInterval)
  <2> DEFINE q == req[r]
  <2>1. /\ tok.expires = Unix(q.now + RecheckInterval)
        /\ tok.absolute = q.absolute
    BY <1>2 DEF Token, Claims
  <2>2. /\ q.now \in Nat /\ q.absolute \in Nat
        /\ q.op \in {"redeem", "refresh"}
    BY <1>2 DEF Mint, PromiseInv, SingleUseInv, TypeInv, Steps, StepOK
  <2>3. RecheckInterval \in Nat /\ SessionTTL \in Nat
    BY TimesAssumption
  <2>4. /\ Unix(q.now) \in Nat /\ Unix(RecheckInterval) \in Nat
        /\ Unix(q.now + RecheckInterval) \in Nat
    BY <2>2, <2>3, UnixNat
  <2>5. CASE q.op = "redeem"
    <3>1. q.absolute = Unix(q.now + SessionTTL)
      BY <1>2, <2>5 DEF Mint, PromiseInv, CeilingInv, RequestsTraced,
                        RequestTraced
    <3>2. q.now + RecheckInterval <= q.now + SessionTTL
      BY <2>2, TimesAssumption
    <3>3. Unix(q.now + RecheckInterval) <= Unix(q.now + SessionTTL)
      BY <2>2, <2>3, <3>2, UnixMono
    <3> HIDE DEF q
    <3> QED
      BY <2>1, <2>2, <2>4, <3>1, <3>3
  <2>6. CASE q.op = "refresh"
    <3>1. Unix(q.now) < q.absolute
      BY <1>2, <2>6 DEF Mint, PromiseInv, OfferInv, RequestsDated, Dated
    <3>2. Unix(q.now + RecheckInterval)
            <= Unix(q.now) + Unix(RecheckInterval) + 1
      BY <2>2, <2>3, UnixSum
    <3> HIDE DEF q
    <3> QED
      BY <2>1, <2>2, <2>4, <3>1, <3>2
  <2> QED
    BY <2>2, <2>5, <2>6
<1> QED
  BY <1>1, <1>2, OnlyMintIssues DEF Mint

-----------------------------------------------------------------------------
(***************************************************************************)
(* Fetches.                                                                *)
(***************************************************************************)
LEMMA InvFacts ==
  ASSUME DashInv
  PROVE  /\ TypeInv
         /\ req \in [Requests -> ReqType]
         /\ issued \subseteq TokenType
         /\ now \in Nat
BY DEF DashInv, PromiseInv, SingleUseInv, TypeInv, TypeOK

(* A fetch whose request stays where it is stays right.                    *)
LEMMA FetchStays ==
  ASSUME DashInv, [Next]_vars, NEW r \in Requests,
         fetch'[r] = fetch[r], req'[r] = req[r]
  PROVE  FetchRight(fetch[r], req[r])'
<1> DEFINE f == fetch[r]
           q == req[r]
<1>1. FetchRight(f, q)
  BY DEF DashInv, FetchesRight
<1>2. TypeInv /\ now \in Nat /\ issued \subseteq TokenType
  BY InvFacts
<1>3. now' \in Nat /\ now <= now' /\ issued \subseteq issued'
  BY <1>2, NowGrows, OnlyMintIssues DEF Mint
<1>4. f.kind # "none" => f.asked \in Nat
  BY FetchKinds DEF DashInv
<1>5. ASSUME f.kind # "none", q.pc = "granted"
      PROVE  q.now <= LastIn(<<q.group, q.member>>)'
  <2>1. Token(q) \in TokenType /\ q.now <= LastIn(<<q.group, q.member>>)
    BY <1>1, <1>2, <1>5 DEF FetchRight
  <2>2. <<q.group, q.member>> \in Pairs
    BY <2>1 DEF Token, Claims, TokenType, Pairs
  <2>3. q.now \in Int
    BY InvFacts DEF ReqType, Times, NoTime
  <2> QED
    BY <1>2, <2>1, <2>2, <2>3, LastInMonotone
<1>6. ASSUME NEW g, NEW p, g = f, p = q
      PROVE  FetchRight(g, p)'
  <2>1. g.kind # "none" => g.asked <= now'
    BY <1>1, <1>2, <1>3, <1>4, <1>6 DEF FetchRight
  <2>2. g.kind # "none" /\ p.pc = "granted"
          => /\ Token(p)' \in issued'
             /\ p.now <= LastIn(<<p.group, p.member>>)'
    BY <1>1, <1>3, <1>5, <1>6 DEF FetchRight, Token, Claims, Unix
  <2> HIDE DEF f, q
  <2> QED
    BY <1>1, <1>3, <1>6, <2>1, <2>2 DEF FetchRight, Unix
<1> QED
  BY <1>6

(* A fetch whose request works on stays right: above all, what the         *)
(* membership query vouched for is what the token is signed for.           *)
LEMMA FetchWorks ==
  ASSUME DashInv, NEW r \in Requests, fetch'[r] = fetch[r], Work(r)
  PROVE  FetchRight(fetch[r], req[r])'
<1> DEFINE f == fetch[r]
           q == req[r]
<1> SUFFICES ASSUME NEW p, p = req'[r], f.kind # "none",
                    NEW g, g = f
             PROVE  FetchRight(g, p)'
  BY DEF FetchRight
<1>1. FetchRight(f, q)
  BY DEF DashInv, FetchesRight
<1>2. TypeInv /\ q \in ReqType /\ req \in [Requests -> ReqType] /\ now \in Nat
  BY InvFacts
<1>3. f.asked \in Nat /\ f.sent \in BOOLEAN
  BY FetchKinds DEF DashInv
<1>4. /\ q.pc \notin {"stamp", "store"}
      /\ q.pc # "idle" => q.op = f.kind
  BY <1>1 DEF FetchRight
<1>5. StepOK(q)
  BY <1>2 DEF TypeInv, Steps
<1>6. CASE RedeemExpiry(r)
  <2>1. /\ now' = now /\ issued' = issued
        /\ q.pc = "expiry" /\ f.kind = "redeem" /\ f.sent
    BY <1>1, <1>5, <1>6 DEF RedeemExpiry, FetchRight, StepOK
  <2>2. p.op = "redeem" /\ p.pc \in {"denied", "member"}
    <3>1. CASE LinkExpired(q)
      BY <1>2, <1>6, <3>1 DEF RedeemExpiry, Idle
    <3>2. CASE ~ LinkExpired(q)
      BY <1>2, <1>6, <2>1, <3>2, <1>5 DEF RedeemExpiry, ReqType, StepOK
    <3> QED
      BY <3>1, <3>2
  <2> QED
    BY <1>1, <2>1, <2>2 DEF FetchRight
<1>7. CASE AssertMember(r)
  <2>1. /\ now' = now /\ issued' = issued /\ q.pc = "member" /\ f.sent
    BY <1>1, <1>3, <1>7 DEF AssertMember, FetchRight
  <2>2. CASE p = [Idle EXCEPT !.pc = "denied", !.op = q.op]
    <3>1. p.pc = "denied" /\ p.op = q.op
      BY <2>2 DEF Idle
    <3> QED
      BY <1>1, <2>1, <3>1 DEF FetchRight
  <2>3. CASE p = [q EXCEPT !.pc = "sign"]
    <3>1. /\ p.pc = "sign" /\ p.op = q.op
          /\ p.group = q.group /\ p.member = q.member
          /\ p.absolute = q.absolute /\ p.now = q.now
      BY <1>2, <2>3 DEF ReqType
    <3> QED
      BY <1>1, <2>1, <3>1 DEF FetchRight, Unix
  <2> QED
    BY <1>2, <1>7, <2>2, <2>3 DEF AssertMember
<1>8. CASE Mint(r)
  <2>1. /\ now' = now /\ roster' = roster /\ left' = left
        /\ issued' = issued \cup {Token(q)}
        /\ q.pc = "sign" /\ f.sent
    BY <1>1, <1>3, <1>8 DEF Mint, FetchRight
  <2>2. p = [q EXCEPT !.pc = "granted"]
    BY <1>2, <1>8 DEF Mint
  <2>3. /\ p.pc = "granted" /\ p.op = q.op
        /\ p.group = q.group /\ p.member = q.member
        /\ p.absolute = q.absolute /\ p.now = q.now
    BY <1>2, <2>2 DEF ReqType
  <2>4. Token(p) = Token(q)
    BY <2>3 DEF Token, Claims
  <2>5. q.now <= LastIn(<<q.group, q.member>>)
    BY <2>1 DEF DashInv, PromiseInv, RevocationInv, Vouched
  <2> QED
    BY <1>1, <2>1, <2>3, <2>4, <2>5
    DEF FetchRight, Token, Claims, Unix, LastIn
<1>9. ~ MintStore(r) /\ \A n \in Nonces : ~ MintStamp(r, n)
  BY <1>4 DEF MintStore, MintStamp
<1> QED
  BY <1>6, <1>7, <1>8, <1>9 DEF Work

(* A fetch that arrives begins a request of its own kind; a refresh is     *)
(* dated now, below the ceiling of its token.                              *)
LEMMA FetchArrives ==
  ASSUME DashInv, NEW r \in Requests, Arrive(r)
  PROVE  FetchRight(fetch[r], req[r])'
<1> DEFINE f == fetch[r]
           g == fetch'[r]
<1>1. FetchRight(f, req[r]) /\ DashTypes
  BY DEF DashInv, FetchesRight
<1>2. TypeInv /\ req \in [Requests -> ReqType] /\ now \in Nat
  BY InvFacts
<1>3. /\ f.kind \in {"redeem", "refresh"} /\ f.asked \in Nat
      /\ f.kind = "refresh" => f.token \in TokenType
  BY <1>1, FetchKinds DEF Arrive
<1>4. /\ g.kind = f.kind /\ g.asked = f.asked /\ g.sent
      /\ f.kind = "refresh" => g.token = f.token
  <2>1. f \in FetchType /\ g = [f EXCEPT !.sent = TRUE]
    BY <1>1 DEF Arrive, DashTypes
  <2> QED
    BY <1>3, <2>1 DEF FetchType, NoFetch
<1>5. now' = now /\ issued' = issued
  BY DEF Arrive, RedeemLookup, RefreshStart
<1>6. /\ f.asked <= now
      /\ f.kind = "refresh" => f.token \in issued
  BY <1>1, <1>3 DEF FetchRight
<1> HIDE DEF g
<1>7. CASE f.kind = "redeem"
  <2>1. req'[r].op = "redeem" /\ req'[r].pc \in {"denied", "expiry"}
    BY <1>2, <1>7 DEF Arrive, RedeemLookup, Idle
  <2> QED
    BY <1>4, <1>5, <1>6, <1>7, <2>1 DEF FetchRight, g
<1>8. CASE f.kind = "refresh"
  <2>1. RefreshStart(r, f.token)
    BY <1>8 DEF Arrive
  <2>2. CASE PastCeiling(f.token)
    <3>1. req'[r].op = "refresh" /\ req'[r].pc = "denied"
      BY <1>2, <2>1, <2>2 DEF RefreshStart, Idle
    <3> QED
      BY <1>4, <1>5, <1>6, <1>8, <3>1 DEF FetchRight, g
  <2>3. CASE ~ PastCeiling(f.token)
    <3>1. /\ req'[r].op = "refresh" /\ req'[r].pc = "member"
          /\ req'[r].group = f.token.group
          /\ req'[r].member = f.token.member
          /\ req'[r].absolute = f.token.absolute
          /\ req'[r].now = now
      BY <1>2, <2>1, <2>3 DEF RefreshStart, RefreshCeiling, Idle
    <3>2. Unix(now) < f.token.absolute
      <4>1. Unix(now) \in Nat /\ f.token.absolute \in Nat
        BY <1>2, <1>3, <1>8, UnixNat DEF TokenType
      <4> QED
        BY <2>3, <4>1 DEF PastCeiling
    <3> QED
      BY <1>4, <1>5, <1>6, <1>8, <3>1, <3>2 DEF FetchRight, Unix, g
  <2> QED
    BY <2>2, <2>3
<1> QED
  BY <1>3, <1>7, <1>8

(* A request's step is no other request's.                                 *)
LEMMA OthersRest ==
  ASSUME TypeInv, NEW r \in Requests, Call(r) \/ Work(r) \/ Respond(r),
         NEW s \in Requests, s # r
  PROVE  req'[s] = req[s]
BY DEF TypeInv, TypeOK, Call, Work, MintSweep, MintStamp, MintStore,
  RedeemLookup, RedeemExpiry, RefreshStart, AssertMember, Mint, Respond

LEMMA ArriveCalls ==
  ASSUME DashInv, NEW r \in Requests, Arrive(r)
  PROVE  Call(r)
<1>1. DashTypes /\ FetchRight(fetch[r], req[r])
  BY DEF DashInv, FetchesRight
<1>2. fetch[r].kind = "redeem" => fetch[r].nonce \in Nonces
  BY <1>1, FetchKinds
<1>3. fetch[r].kind # "redeem" => fetch[r].token \in issued
  BY <1>1, FetchKinds DEF Arrive, FetchRight
<1> QED
  BY <1>2, <1>3 DEF Arrive, Call

(* No fetch, and a fetch that has not arrived.                             *)
LEMMA NoFetchRight ==
  ASSUME NEW q
  PROVE  FetchRight(NoFetch, q)'
BY DEF FetchRight, NoFetch

LEMMA FetchBegins ==
  ASSUME NEW r \in Requests, fetch'[r].sent = FALSE, fetch'[r].asked = now,
         fetch'[r].kind = "refresh" => fetch'[r].token \in issued,
         req'[r].pc = "idle", now' = now, issued' = issued, now \in Nat
  PROVE  FetchRight(fetch[r], req[r])'
<1>1. now <= now
  OBVIOUS
<1> QED
  BY <1>1 DEF FetchRight

LEMMA NextFetches ==
  ASSUME DashInv, [DashNext]_allVars
  PROVE  FetchesRight' /\ fetch' \in [Requests -> FetchType]
<1>1. [Next]_vars
  BY DashIsNext
<1>2. TypeInv /\ issued \subseteq TokenType /\ now \in Nat
  BY InvFacts
<1>3. fetch \in [Requests -> FetchType]
  BY DEF DashInv, DashTypes
<1>4. ASSUME fetch' = fetch,
             \A s \in Requests : \/ req'[s] = req[s]
                                 \/ Work(s)
                                 \/ ~ Fetching(s)
      PROVE  FetchesRight' /\ fetch' \in [Requests -> FetchType]
  <2>1. ASSUME NEW s \in Requests
        PROVE  FetchRight(fetch[s], req[s])'
    <3>1. CASE req'[s] = req[s]
      BY <1>1, <1>4, <3>1, FetchStays
    <3>2. CASE Work(s)
      BY <1>4, <3>2, FetchWorks
    <3>3. CASE ~ Fetching(s)
      BY <1>4, <3>3, NoFetchRight DEF Fetching
    <3> QED
      BY <1>4, <3>1, <3>2, <3>3
  <2> QED
    BY <1>3, <1>4, <2>1 DEF FetchesRight
<1>5. ASSUME NEW r \in Requests, NEW f \in FetchType,
             fetch' = [fetch EXCEPT ![r] = f],
             FetchRight(fetch[r], req[r])',
             \A s \in Requests \ {r} : req'[s] = req[s]
      PROVE  FetchesRight' /\ fetch' \in [Requests -> FetchType]
  <2>1. ASSUME NEW s \in Requests, s # r
        PROVE  FetchRight(fetch[s], req[s])'
    <3>1. fetch'[s] = fetch[s] /\ req'[s] = req[s]
      BY <1>3, <1>5, <2>1
    <3> QED
      BY <1>1, <3>1, FetchStays
  <2> QED
    BY <1>3, <1>5, <2>1 DEF FetchesRight
<1>6. CASE World
  BY <1>4, <1>6 DEF World, DevMembers, Tick, Join, Leave
<1>7. ASSUME NEW r \in Requests, NEW b \in Browsers, NEW n \in Nonces,
             OpenLink(b, r, n)
      PROVE  FetchesRight' /\ fetch' \in [Requests -> FetchType]
  <2> DEFINE f == [kind |-> "redeem", sent |-> FALSE, browser |-> b,
                   nonce |-> n, asked |-> now]
  <2>1. fetch' = [fetch EXCEPT ![r] = f] /\ UNCHANGED vars
        /\ req[r].pc = "idle"
    BY <1>7 DEF OpenLink
  <2>2. /\ f \in FetchType /\ f.kind = "redeem" /\ f.sent = FALSE
        /\ f.asked = now
    BY <1>2 DEF FetchType
  <2>3. /\ fetch'[r] = f
        /\ req' = req /\ now' = now /\ issued' = issued
    BY <1>3, <2>1 DEF vars
  <2>4. /\ fetch'[r].sent = FALSE /\ fetch'[r].asked = now
        /\ fetch'[r].kind # "refresh"
    BY <2>3
  <2> HIDE DEF f
  <2>5. FetchRight(fetch[r], req[r])'
    BY <1>2, <2>1, <2>3, <2>4, FetchBegins
  <2> QED
    BY <1>5, <2>1, <2>2, <2>3, <2>5
<1>8. ASSUME NEW r \in Requests, NEW b \in Browsers, NEW c \in cookie[b],
             BeginRefresh(b, c, r)
      PROVE  FetchesRight' /\ fetch' \in [Requests -> FetchType]
  <2> DEFINE f == [kind |-> "refresh", sent |-> FALSE, browser |-> b,
                   token |-> c.token, asked |-> now]
  <2>1. fetch' = [fetch EXCEPT ![r] = f] /\ UNCHANGED vars
        /\ req[r].pc = "idle"
    BY <1>8 DEF BeginRefresh
  <2>2. c.token \in issued /\ c.token \in TokenType
    BY <1>2 DEF DashInv, CookiesRight
  <2>3. /\ f \in FetchType /\ f.kind = "refresh" /\ f.sent = FALSE
        /\ f.asked = now /\ f.token \in issued
    BY <1>2, <2>2 DEF FetchType
  <2>4. /\ fetch'[r] = f
        /\ req' = req /\ now' = now /\ issued' = issued
    BY <1>3, <2>1 DEF vars
  <2>5. /\ fetch'[r].sent = FALSE /\ fetch'[r].asked = now
        /\ fetch'[r].token \in issued
    BY <2>2, <2>4
  <2> HIDE DEF f
  <2>6. FetchRight(fetch[r], req[r])'
    BY <1>2, <2>1, <2>4, <2>5, FetchBegins
  <2> QED
    BY <1>5, <2>1, <2>3, <2>4, <2>6
<1>9. ASSUME NEW r \in Requests, Arrive(r)
      PROVE  FetchesRight' /\ fetch' \in [Requests -> FetchType]
  <2> DEFINE f == [fetch[r] EXCEPT !.sent = TRUE]
  <2>1. fetch' = [fetch EXCEPT ![r] = f]
    BY <1>3, <1>9 DEF Arrive
  <2>2. f \in FetchType
    BY <1>3, <1>9 DEF Arrive, Fetching, FetchType
  <2>3. FetchRight(fetch[r], req[r])'
    BY <1>9, FetchArrives
  <2>4. \A s \in Requests \ {r} : req'[s] = req[s]
    BY <1>2, <1>9, ArriveCalls, OthersRest
  <2> HIDE DEF f
  <2> QED
    BY <1>5, <2>1, <2>2, <2>3, <2>4
<1>10. ASSUME NEW r \in Requests, Unreachable(r) \/ Answer(r) \/ LoseAnswer(r)
       PROVE  FetchesRight' /\ fetch' \in [Requests -> FetchType]
  <2>1. fetch' = [fetch EXCEPT ![r] = NoFetch] /\ NoFetch \in FetchType
    BY <1>10 DEF Unreachable, Answer, LoseAnswer, FetchType
  <2>2. fetch'[r] = NoFetch
    BY <1>3, <2>1
  <2>3. UNCHANGED req \/ Respond(r)
    BY <1>10 DEF Unreachable, Answer, LoseAnswer, vars
  <2>4. \A s \in Requests \ {r} : req'[s] = req[s]
    BY <1>2, <2>3, OthersRest
  <2>5. FetchRight(fetch[r], req[r])'
    BY <2>2, NoFetchRight
  <2> QED
    BY <1>5, <2>1, <2>4, <2>5
<1>11. ASSUME NEW r \in Requests, DevMint(r)
       PROVE  FetchesRight' /\ fetch' \in [Requests -> FetchType]
  <2>1. Call(r) \/ Respond(r)
    BY <1>11 DEF DevMint, Call
  <2> QED
    BY <1>2, <1>4, <1>11, <2>1, OthersRest DEF DevMint
<1>12. ASSUME NEW r \in Requests, BotWork(r)
       PROVE  FetchesRight' /\ fetch' \in [Requests -> FetchType]
  BY <1>2, <1>4, <1>12, OthersRest DEF BotWork
<1>13. CASE BotCrash
  <2>1. fetch' = [s \in Requests |-> NoFetch] /\ NoFetch \in FetchType
    BY <1>13 DEF BotCrash, FetchType
  <2>2. ASSUME NEW s \in Requests
        PROVE  FetchRight(fetch[s], req[s])'
    BY <2>1, NoFetchRight
  <2> QED
    BY <2>1, <2>2 DEF FetchesRight
<1>14. CASE \/ UNCHANGED allVars
            \/ \E b \in Browsers : DropCookie(b)
            \/ \E b \in Browsers : \E c \in cookie[b] : ViewPage(b, c)
  BY <1>4, <1>14 DEF allVars, dashVars, vars, DropCookie, ViewPage
<1> QED
  BY <1>6, <1>7, <1>8, <1>9, <1>10, <1>11, <1>12, <1>13, <1>14 DEF DashNext

-----------------------------------------------------------------------------
(***************************************************************************)
(* Cookies and pages.                                                      *)
(***************************************************************************)
(* A browser's new cookie holds a token that was issued, and is its only   *)
(* one.                                                                    *)
LEMMA NextCookies ==
  ASSUME DashInv, [DashNext]_allVars
  PROVE  CookiesRight' /\ cookie' \in [Browsers -> SUBSET CookieType]
<1>1. [Next]_vars
  BY DashIsNext
<1>2. TypeInv /\ issued \subseteq TokenType /\ now \in Nat
  BY InvFacts
<1>3. issued \subseteq issued'
  BY <1>1, OnlyMintIssues DEF Mint
<1>4. cookie \in [Browsers -> SUBSET CookieType] /\ CookiesRight
  BY DEF DashInv, DashTypes
<1>5. ASSUME NEW b \in Browsers, NEW C \in SUBSET CookieType,
             cookie' = [cookie EXCEPT ![b] = C],
             \A c \in C : c.token \in issued,
             \A c1, c2 \in C : c1 = c2
      PROVE  CookiesRight' /\ cookie' \in [Browsers -> SUBSET CookieType]
  <2>1. \A other \in Browsers :
          cookie'[other] = IF other = b THEN C ELSE cookie[other]
    BY <1>4, <1>5
  <2>2. CookiesRight'
    BY <1>3, <1>4, <1>5, <2>1 DEF CookiesRight
  <2> QED
    BY <1>4, <1>5, <2>2
<1>6. CASE UNCHANGED cookie
  BY <1>3, <1>4, <1>6 DEF CookiesRight
<1>7. ASSUME NEW r \in Requests, Answer(r)
      PROVE  CookiesRight' /\ cookie' \in [Browsers -> SUBSET CookieType]
  <2>1. CASE req[r].pc # "granted"
    BY <1>6, <1>7, <2>1 DEF Answer
  <2>2. CASE req[r].pc = "granted"
    <3> DEFINE tok == Token(req[r])
               b == fetch[r].browser
               c == [token |-> tok, until |-> now + CookieMaxAge]
    <3>1. fetch[r].kind # "none" /\ b \in Browsers
      BY <1>7, FetchKinds DEF Answer, DashInv
    <3>2. tok \in issued
      BY <2>2, <3>1 DEF DashInv, FetchesRight, FetchRight
    <3>3. cookie' = [cookie EXCEPT ![b] = {c}]
      BY <1>7, <2>2 DEF Answer, SetCookie
    <3>4. now + CookieMaxAge \in Nat
      BY <1>2, CookieAssumption
    <3> HIDE DEF tok
    <3>5. c \in CookieType /\ c.token = tok
      BY <1>2, <3>2, <3>4 DEF CookieType
    <3> HIDE DEF b, c
    <3> QED
      BY <1>5, <3>1, <3>2, <3>3, <3>5
  <2> QED
    BY <2>1, <2>2
<1>8. ASSUME NEW b \in Browsers, DropCookie(b)
      PROVE  CookiesRight' /\ cookie' \in [Browsers -> SUBSET CookieType]
  BY <1>5, <1>8 DEF DropCookie
<1>9. \/ UNCHANGED cookie
      \/ \E r \in Requests : Answer(r)
      \/ \E b \in Browsers : DropCookie(b)
  BY DEF DashNext, World, OpenLink, BeginRefresh, Arrive, Unreachable,
         LoseAnswer, DevMint, BotWork, ViewPage, BotCrash, allVars, dashVars
<1> QED
  BY <1>6, <1>7, <1>8, <1>9

(* A page served for a token of a member vouched for, in time, is right.   *)
LEMMA PageServed ==
  ASSUME NEW b, NEW tok, NEW t, page' = {Page(b, tok, t)},
         UNCHANGED <<now, roster, left>>,
         t < LastIn(<<tok.group, tok.member>>) + RecheckInterval,
         Unix(t) < tok.absolute + Unix(RecheckInterval)
  PROVE  PageRight'
<1> DEFINE p == Page(b, tok, t)
<1>1. /\ p.group = tok.group /\ p.member = tok.member
      /\ p.absolute = tok.absolute /\ p.asked = t
  BY DEF Page
<1> HIDE DEF p
<1>2. page' = {p}
  BY DEF p
<1>3. ViewsVouched'
  BY <1>1, <1>2 DEF ViewsVouched, LastIn
<1>4. ViewsEndAfterCeiling'
  BY <1>1, <1>2 DEF ViewsEndAfterCeiling, Unix
<1> QED
  BY <1>2, <1>3, <1>4 DEF PageRight

(* A fresh token's member was in less than a recheck interval ago.         *)
LEMMA FreshVouched ==
  ASSUME DashInv, NEW tok \in issued, Unix(now) < tok.expires
  PROVE  /\ now < LastIn(<<tok.group, tok.member>>) + RecheckInterval
         /\ Unix(now) < tok.absolute + Unix(RecheckInterval)
<1> DEFINE last == LastIn(<<tok.group, tok.member>>)
<1>1. TypeInv /\ now \in Nat /\ tok \in TokenType
  BY InvFacts
<1>2. <<tok.group, tok.member>> \in Pairs /\ tok.expires \in Nat
      /\ tok.absolute \in Nat
  BY <1>1 DEF TokenType, Pairs
<1>3. last \in Int
  BY <1>1, <1>2 DEF TypeInv, TypeOK, LastIn, Times, NoTime
<1>4. tok.expires <= Unix(last + RecheckInterval)
  BY DEF DashInv, PromiseInv, RevocationInv, ExpiresInTime
<1>5. tok.expires <= tok.absolute + Unix(RecheckInterval)
  BY DEF DashInv, TokensEnd
<1> HIDE DEF last
<1>6. /\ Unix(now) \in Int /\ Unix(last + RecheckInterval) \in Int
      /\ Unix(RecheckInterval) \in Int
  BY <1>1, <1>3, TimesAssumption DEF Unix
<1>7. Unix(now) < Unix(last + RecheckInterval)
  BY <1>2, <1>4, <1>6
<1>8. now < last + RecheckInterval
  BY <1>1, <1>3, <1>7, UnixStrict, TimesAssumption
<1>9. Unix(now) < tok.absolute + Unix(RecheckInterval)
  BY <1>2, <1>5, <1>6
<1> QED
  BY <1>8, <1>9 DEF last

LEMMA NextPage ==
  ASSUME DashInv, [DashNext]_allVars
  PROVE  PageRight'
<1>1. TypeInv /\ issued \subseteq TokenType /\ now \in Nat
  BY InvFacts
<1>2. CASE page' = {}
  BY <1>2 DEF PageRight, ViewsVouched, ViewsEndAfterCeiling
<1>3. CASE UNCHANGED allVars
  BY <1>3 DEF allVars, dashVars, vars, DashInv, PageRight, ViewsVouched,
              ViewsEndAfterCeiling, LastIn, Unix
<1>4. ASSUME NEW b \in Browsers, NEW c \in cookie[b], ViewPage(b, c)
      PROVE  PageRight'
  <2>1. c.token \in issued /\ Unix(now) < c.token.expires
    <3>1. c.token \in issued
      BY DEF DashInv, CookiesRight
    <3>2. c.token.expires > Unix(now)
      BY <1>4 DEF ViewPage, Fresh
    <3>3. c.token.expires \in Nat /\ Unix(now) \in Nat
      BY <1>1, <3>1, UnixNat DEF TokenType
    <3> QED
      BY <3>1, <3>2, <3>3
  <2>2. page' = {Page(b, c.token, now)} /\ UNCHANGED <<now, roster, left>>
    BY <1>4 DEF ViewPage, vars
  <2> QED
    BY <2>1, <2>2, FreshVouched, PageServed
<1>5. ASSUME NEW r \in Requests, Answer(r), page' # {}
      PROVE  PageRight'
  <2> DEFINE f == fetch[r]
             q == req[r]
             last == LastIn(<<f.token.group, f.token.member>>)
  <2>1. /\ page' = {Page(f.browser, f.token, f.asked)}
        /\ f.kind = "refresh" /\ q.pc = "granted"
    BY <1>5 DEF Answer
  <2>2. UNCHANGED <<now, roster, left>>
    BY <1>5 DEF Answer, Respond
  <2>3. /\ q.group = f.token.group /\ q.member = f.token.member
        /\ q.absolute = f.token.absolute
        /\ f.asked <= q.now /\ Unix(q.now) < q.absolute
        /\ q.now <= LastIn(<<q.group, q.member>>)
        /\ f.token \in issued
    BY <2>1 DEF DashInv, FetchesRight, FetchRight
  <2>4. f.asked \in Nat /\ f.token \in TokenType
    BY <1>1, <2>1, <2>3, FetchKinds DEF DashInv
  <2>5. q.now \in Nat
    <3>1. q.now \in Times
      BY InvFacts DEF ReqType
    <3> QED
      BY <2>3, <2>4, <3>1 DEF Times, NoTime
  <2>6. last \in Int
    BY <1>1, <2>4
    DEF TypeInv, TypeOK, LastIn, TokenType, Pairs, Times, NoTime
  <2>7. q.now <= last
    BY <2>3
  <2>8. Unix(f.asked) <= Unix(q.now) /\ Unix(q.now) < f.token.absolute
    BY <2>3, <2>4, <2>5, UnixMono
  <2>9. /\ Unix(f.asked) \in Nat /\ Unix(q.now) \in Nat
        /\ Unix(RecheckInterval) \in Nat /\ f.token.absolute \in Nat
    BY <2>4, <2>5, UnixNat, TimesAssumption DEF TokenType
  <2> HIDE DEF last
  <2>10. f.asked < last + RecheckInterval
    BY <2>3, <2>4, <2>5, <2>6, <2>7, TimesAssumption
  <2>11. Unix(f.asked) < f.token.absolute + Unix(RecheckInterval)
    BY <2>8, <2>9
  <2> QED
    BY <2>1, <2>2, <2>10, <2>11, PageServed DEF last
<1>6. \/ page' = {}
      \/ UNCHANGED allVars
      \/ \E r \in Requests : Answer(r)
      \/ \E b \in Browsers : \E c \in cookie[b] : ViewPage(b, c)
  BY DEF DashNext, World, OpenLink, BeginRefresh, Arrive, Unreachable,
         LoseAnswer, DevMint, BotWork, DropCookie, BotCrash
<1> QED
  BY <1>2, <1>3, <1>4, <1>5, <1>6

-----------------------------------------------------------------------------
LEMMA DashInvHolds == DashSafety => []DashInv
<1>1. DashInit => DashInv
  <2> SUFFICES ASSUME DashInit PROVE DashInv
    OBVIOUS
  <2>1. PromiseInv /\ TokensEnd
    BY InitPromiseInv DEF DashInit, Init, TokensEnd
  <2>2. DashTypes
    BY DEF DashInit, DashTypes, FetchType
  <2>3. FetchesRight
    BY DEF DashInit, FetchesRight, FetchRight, NoFetch
  <2>4. CookiesRight /\ PageRight
    BY DEF DashInit, CookiesRight, PageRight, ViewsVouched,
           ViewsEndAfterCeiling
  <2> QED
    BY <2>1, <2>2, <2>3, <2>4 DEF DashInv
<1>2. DashInv /\ [DashNext]_allVars => DashInv'
  <2> SUFFICES ASSUME DashInv, [DashNext]_allVars PROVE DashInv'
    OBVIOUS
  <2>1. [Next]_vars
    BY DashIsNext
  <2>2. PromiseInv'
    BY <2>1, NextSingleUseInv, NextRevocationInv, NextCeilingInv, NextOfferInv
    DEF DashInv, PromiseInv
  <2>3. TokensEnd'
    BY <2>1, NextTokensEnd DEF DashInv
  <2> QED
    BY <2>2, <2>3, NextFetches, NextCookies, NextPage DEF DashInv, DashTypes
<1> QED
  BY <1>1, <1>2, PTL DEF DashSafety

(* A set without two different members has at most one.                    *)
LEMMA AtMostOne ==
  ASSUME NEW S, \A x, y \in S : x = y
  PROVE  Cardinality(S) <= 1
<1>1. CASE S = {}
  BY <1>1, FS_EmptySet
<1>2. ASSUME NEW x \in S
      PROVE  Cardinality(S) <= 1
  <2>1. S = {x}
    OBVIOUS
  <2> QED
    BY <2>1, FS_Singleton
<1> QED
  BY <1>1, <1>2

(* A browser has at most one session cookie and its token was signed; a    *)
(* fetch is handled by a request of its own kind.                          *)
THEOREM DashTypesHold == DashSafety => []DashTypeOK
<1>1. DashInv => DashTypeOK
  <2> SUFFICES ASSUME DashInv PROVE DashTypeOK
    OBVIOUS
  <2>1. DashTypes /\ CookiesRight /\ PageRight
    BY DEF DashInv
  <2>2. ASSUME NEW b \in Browsers
        PROVE  /\ cookie[b] \subseteq [token : issued, until : Nat]
               /\ Cardinality(cookie[b]) <= 1
    <3>1. cookie[b] \subseteq CookieType
      BY <2>1 DEF DashTypes
    <3>2. cookie[b] \subseteq [token : issued, until : Nat]
      BY <2>1, <3>1 DEF CookiesRight, CookieType
    <3> QED
      BY <2>1, <3>2, AtMostOne DEF CookiesRight
  <2>3. ASSUME NEW r \in Requests, Fetching(r)
        PROVE  /\ fetch[r].browser \in Browsers
               /\ fetch[r].kind = "refresh" => fetch[r].token \in issued
               /\ req[r].pc # "idle" => req[r].op = fetch[r].kind
    BY <2>1, <2>3, FetchKinds DEF DashInv, FetchesRight, FetchRight
  <2>4. Cardinality(page) <= 1
    BY <2>1, AtMostOne DEF PageRight
  <2> QED
    BY <2>2, <2>3, <2>4 DEF DashTypeOK
<1> QED
  BY <1>1, DashInvHolds, PTL

(* Removal logs out: whoever is shown a page was in its group less than    *)
(* RecheckInterval before asking for it (the middleware of /dashboard).    *)
THEOREM ViewsVouchedHolds == DashSafety => []ViewsVouched
<1>1. DashInv => ViewsVouched
  BY DEF DashInv, PageRight
<1> QED
  BY <1>1, DashInvHolds, PTL

(* A page is asked for less than RecheckInterval after the ceiling of its  *)
(* login: what is left of config.go's promise for SessionTTL once the      *)
(* middleware goes by exp alone.                                           *)
THEOREM ViewsEndHolds == DashSafety => []ViewsEndAfterCeiling
<1>1. DashInv => ViewsEndAfterCeiling
  BY DEF DashInv, PageRight
<1> QED
  BY <1>1, DashInvHolds, PTL

-----------------------------------------------------------------------------
(***************************************************************************)
(* What a bot accepts for a configuration of its logins is one WebAuth can *)
(* run with, whatever the defaults and the durations.                      *)
(***************************************************************************)

(* A duration is positive once filled in.                                  *)
LEMMA FilledPositive ==
  ASSUME NEW d \in Int, NEW default \in Nat \ {0}
  PROVE  Filled(d, default) \in Nat \ {0}
BY DEF Filled

LEMMA DefaultSessionPositive == DefaultSessionTTL \in Nat \ {0}
BY DefaultsAssumption

(* The fields of a configuration that is filled in.                        *)
LEMMA FieldsFilled ==
  ASSUME NEW c \in Configs
  PROVE  /\ WithDefaults(c) \in Configs
         /\ WithDefaults(c).LinkTTL = Filled(c.LinkTTL, DefaultLinkTTL)
         /\ WithDefaults(c).SessionTTL = Filled(c.SessionTTL, DefaultSessionTTL)
         /\ WithDefaults(c).RecheckInterval
              = Filled(c.RecheckInterval, DefaultRecheckInterval)
         /\ WithDefaults(c).LinkSingleUse
              = IF c.LinkSingleUse = "nil" THEN "true" ELSE c.LinkSingleUse
         /\ WithDefaults(c).APIToken = c.APIToken
         /\ WithDefaults(c).SigningKey = c.SigningKey
         /\ WithDefaults(c).DashboardURL.kind = c.DashboardURL.kind
<1>1. /\ Filled(c.LinkTTL, DefaultLinkTTL) \in Int
      /\ Filled(c.SessionTTL, DefaultSessionTTL) \in Int
      /\ Filled(c.RecheckInterval, DefaultRecheckInterval) \in Int
  BY DefaultsAssumption DEF Configs, Filled
<1>2. /\ Trimmed(c.DashboardURL) \in URLs
      /\ Trimmed(c.DashboardURL).kind = c.DashboardURL.kind
  BY DEF Configs, URLs, Trimmed
<1> QED
  BY <1>1, <1>2 DEF WithDefaults, Configs

(* Every configuration that webauth.New accepts meets the assumptions on   *)
(* which the properties of WebAuth rest, and has two secrets; one that     *)
(* does not say whether links are single-use has them single-use           *)
(* (config.go: "so a config nobody filled in fails safe").                 *)
THEOREM AcceptedIsSound ==
  ASSUME NEW c \in Configs, Accepted(c)
  PROVE  /\ Sound(WithDefaults(c))
         /\ SingleUse(WithDefaults(c)) <=> c.LinkSingleUse # "false"
<1> DEFINE d == WithDefaults(c)
<1>1. /\ d.LinkTTL \in Nat \ {0}
      /\ d.RecheckInterval \in Nat \ {0}
      /\ d.SessionTTL \in Nat \ {0}
  <2>1. /\ c.LinkTTL \in Int
        /\ c.SessionTTL \in Int
        /\ c.RecheckInterval \in Int
    BY DEF Configs
  <2> QED
    BY <2>1, FieldsFilled, FilledPositive, DefaultsAssumption,
       DefaultSessionPositive
<1>2. d.RecheckInterval <= d.SessionTTL
  BY DEF Accepted
<1>3. /\ {d.APIToken, d.SigningKey} \subseteq Secrets
      /\ d.APIToken # d.SigningKey
  <2>1. c.APIToken \in Strings /\ c.SigningKey \in Strings
    BY DEF Configs
  <2> QED
    BY <2>1, FieldsFilled DEF Accepted, Strings
<1>4. SingleUse(d) <=> c.LinkSingleUse # "false"
  BY FieldsFilled DEF SingleUse
<1> QED
  BY <1>1, <1>2, <1>3, <1>4 DEF Sound

-----------------------------------------------------------------------------
(***************************************************************************)
(* The bot.  First, what a statement on one component's rows does to the   *)
(* other's, and to its own.                                                *)
(***************************************************************************)
(* A key is looked up among the rows of its prefix as it is in the table.  *)
LEMMA LookedUpAlone ==
  ASSUME NEW prefix, NEW name
  PROVE  /\ Has(kv, <<prefix, name>>) <=>
              Has(RowsUnder(prefix), <<prefix, name>>)
         /\ Get(kv, <<prefix, name>>) = Get(RowsUnder(prefix), <<prefix, name>>)
<1> DEFINE key == <<prefix, name>>
<1>1. key[1] = prefix
  OBVIOUS
<1>2. \A row : row \in kv /\ row.key = key <=>
                 row \in RowsUnder(prefix) /\ row.key = key
  BY <1>1 DEF RowsUnder
<1>3. Has(kv, key) <=> Has(RowsUnder(prefix), key)
  BY <1>2 DEF Has, Rows
<1>4. Get(kv, key) = Get(RowsUnder(prefix), key)
  BY <1>2 DEF Get
<1> QED
  BY <1>3, <1>4

LEMMA SetAlone ==
  ASSUME NEW prefix, NEW name, NEW value, NEW second,
         kv' = Set(kv, <<prefix, name>>, value, second)
  PROVE  /\ RowsUnder(prefix)' =
              Set(RowsUnder(prefix), <<prefix, name>>, value, second)
         /\ \A other : other # prefix => RowsUnder(other)' = RowsUnder(other)
BY DEF RowsUnder, Set, Delete, Rows

LEMMA ConsumeAlone ==
  ASSUME NEW prefix, NEW name, kv' = Consume(kv, <<prefix, name>>)
  PROVE  /\ RowsUnder(prefix)' = Consume(RowsUnder(prefix), <<prefix, name>>)
         /\ \A other : other # prefix => RowsUnder(other)' = RowsUnder(other)
BY DEF RowsUnder, Consume, Delete, Rows

LEMMA SweepAlone ==
  ASSUME NEW prefix, NEW age, NEW second,
         kv' = DeleteExpired(kv, prefix, age, second)
  PROVE  /\ RowsUnder(prefix)' =
              DeleteExpired(RowsUnder(prefix), prefix, age, second)
         /\ \A other : other # prefix => RowsUnder(other)' = RowsUnder(other)
BY DEF RowsUnder, DeleteExpired

-----------------------------------------------------------------------------
(* JobsUndisturbed: every step of the bot is one of the scheduler's on the *)
(* markers, or none.  First the steps that leave markers and jobs alone.   *)
LEMMA JobsStutter ==
  ASSUME UNCHANGED <<now, jobVars>>, RowsUnder("sched")' = RowsUnder("sched")
  PROVE  UNCHANGED JobsAlone!vars
BY DEF jobVars, JobsAlone!vars, JobsAlone!session, JobsAlone!history

LEMMA CallsSpareJobs ==
  ASSUME NEW r \in Requests, CallMoves(r)
  PROVE  UNCHANGED JobsAlone!vars
<1>1. UNCHANGED jobVars
  BY DEF CallMoves
<1>2. /\ now' = now
      /\ RowsUnder("sched")' = RowsUnder("sched")
  <2>0. kv' = kv => RowsUnder("sched")' = RowsUnder("sched")
    BY DEF RowsUnder
  <2>1. CASE \E g \in Groups, m \in Members : MintSweep(r, g, m)
    BY <2>0, <2>1, SweepAlone DEF MintSweep
  <2>2. CASE \E n \in Nonces : RedeemLookup(r, n)
    BY <2>0, <2>2, ConsumeAlone DEF RedeemLookup, LinkKey
  <2>3. CASE \E tok \in issued : RefreshStart(r, tok)
    BY <2>0, <2>3 DEF RefreshStart
  <2>4. CASE MintStore(r)
    BY <2>0, <2>4, SetAlone DEF MintStore, LinkKey
  <2>5. CASE \/ \E n \in Nonces : MintStamp(r, n)
             \/ RedeemExpiry(r) \/ AssertMember(r) \/ Mint(r) \/ Respond(r)
    BY <2>0, <2>5
    DEF MintStamp, RedeemExpiry, AssertMember, Mint, Respond
  <2> QED
    BY <2>1, <2>2, <2>3, <2>4, <2>5 DEF CallMoves, CallBegins, Work
<1> QED
  BY <1>1, <1>2, JobsStutter

(* A step of the scheduler over the whole table is one over its markers.   *)
LEMMA LoopStepAlone ==
  ASSUME NEW l, Sched!LoopStep(l)
  PROVE  JobsAlone!LoopStep(l)
<1>a. Sched!SleepAgain(l) <=> JobsAlone!SleepAgain(l)
  BY DEF Sched!SleepAgain, JobsAlone!SleepAgain, Sched!Delays,
         JobsAlone!Delays, Sched!UntilHour, JobsAlone!UntilHour,
         Sched!DateKey, JobsAlone!DateKey, Sched!Sleeping, JobsAlone!Sleeping
<1> USE DEF Sched!session, JobsAlone!session, Sched!history,
            JobsAlone!history, JobsAlone!LoopStep
<1>0. kv' = kv => RowsUnder("sched")' = RowsUnder("sched")
  BY DEF RowsUnder
<1>1. CASE Sched!StaggerOver(l)
  BY <1>0, <1>a, <1>1 DEF Sched!StaggerOver, JobsAlone!StaggerOver
<1>2. CASE Sched!WaitOver(l)
  BY <1>0, <1>2 DEF Sched!WaitOver, JobsAlone!WaitOver, Sched!DateKey,
                    JobsAlone!DateKey
<1>3. CASE Sched!Fire(l)
  <2> DEFINE key == <<"sched", <<l[1], loop[l].date>>>>
  <2>1. Sched!Has(kv, key) <=> Has(kv, key)
    BY DEF Has, Rows, Sched!Has, Sched!Rows
  <2>2. Has(kv, key) <=> Has(RowsUnder("sched"), key)
    BY LookedUpAlone
  <2>3. JobsAlone!Has(RowsUnder("sched"), key) <=> Has(RowsUnder("sched"), key)
    BY DEF Has, Rows, JobsAlone!Has, JobsAlone!Rows
  <2> QED
    BY <1>0, <1>a, <1>3, <2>1, <2>2, <2>3
    DEF Sched!Fire, JobsAlone!Fire, Sched!Begin, JobsAlone!Begin,
        Sched!AddGap, JobsAlone!AddGap, Sched!MarkerKey, JobsAlone!MarkerKey
<1>4. CASE Sched!Return(l)
  BY <1>0, <1>a, <1>4
  DEF Sched!Return, JobsAlone!Return, Sched!GoesToMark, JobsAlone!GoesToMark,
      Sched!AfterError, JobsAlone!AfterError
<1>5. CASE Sched!Mark(l)
  <2> DEFINE name == <<l[1], loop[l].date>>
             second == now \div TicksPerSecond
  <2>1. Sched!Set(kv, <<"sched", name>>, "1", second) =
        Set(kv, <<"sched", name>>, "1", second)
    BY DEF Set, Delete, Rows, Sched!Set, Sched!Delete, Sched!Rows
  <2>2. kv' = Set(kv, <<"sched", name>>, "1", second) =>
          RowsUnder("sched")' =
            Set(RowsUnder("sched"), <<"sched", name>>, "1", second)
    BY SetAlone
  <2>3. JobsAlone!Set(RowsUnder("sched"), <<"sched", name>>, "1", second) =
        Set(RowsUnder("sched"), <<"sched", name>>, "1", second)
    BY DEF Set, Delete, Rows, JobsAlone!Set, JobsAlone!Delete, JobsAlone!Rows
  <2> QED
    BY <1>0, <1>a, <1>5, <2>1, <2>2, <2>3
    DEF Sched!Mark, JobsAlone!Mark, Sched!AddGap, JobsAlone!AddGap,
        Sched!MarkerKey, JobsAlone!MarkerKey, Sched!DateOfRun,
        JobsAlone!DateOfRun
<1>6. CASE Sched!SleepCancelled(l)
  BY <1>0, <1>6 DEF Sched!SleepCancelled, JobsAlone!SleepCancelled, Sched!Off,
                    JobsAlone!Off
<1> QED
  BY <1>1, <1>2, <1>3, <1>4, <1>5, <1>6 DEF Sched!LoopStep

LEMMA OneCardinality ==
  ASSUME NEW S
  PROVE  Sched!Cardinality(S) = JobsAlone!Cardinality(S)
BY DEF Sched!Cardinality, JobsAlone!Cardinality

LEMMA JobsStep ==
  ASSUME connected \in BOOLEAN, [BotNext]_botVars
  PROVE  [JobsAlone!Next]_(JobsAlone!vars)
<1> USE DEF Sched!session, JobsAlone!session, Sched!history,
            JobsAlone!history, Sched!Running, JobsAlone!Running
<1>0. kv' = kv => RowsUnder("sched")' = RowsUnder("sched")
  BY DEF RowsUnder
<1>1. CASE Boot
  BY <1>0, <1>1
  DEF Boot, Sched!Start, JobsAlone!Start, JobsAlone!Next, Sched!Opened,
      Sched!HooksAtStart, JobsAlone!HooksAtStart, JobsAlone!Opened
<1>2. CASE Connect \/ ConnectFails \/ Shutdown
  BY <1>0, <1>2, JobsStutter DEF Connect, ConnectFails, Shutdown, RunGoes
<1>3. CASE Cancel
  BY <1>0, <1>3 DEF Cancel, Sched!Cancel, JobsAlone!Cancel, JobsAlone!Next
<1>4. CASE Return
  <2>1. CASE connected
    BY <1>0, <1>4, <2>1
    DEF Return, RunGoes, JobsAlone!Disconnected, JobsAlone!Next
  <2>2. CASE ~ connected
    <3>1. connected' = connected
      BY <1>4, <2>2 DEF Return
    <3> QED
      BY <1>0, <1>4, <3>1, JobsStutter DEF Return, RunGoes, jobVars
  <2> QED
    BY <2>1, <2>2
<1>5. CASE End
  BY <1>0, <1>5, OneCardinality
  DEF End, Sched!Exit, JobsAlone!Exit, JobsAlone!Next, Sched!AllOff,
      JobsAlone!AllOff, Sched!Off, JobsAlone!Off, Sched!Loops, JobsAlone!Loops,
      Sched!Dates, JobsAlone!Dates
<1>6. CASE \E r \in Requests : CallMoves(r)
  BY <1>6, CallsSpareJobs
<1>7. CASE Online
  BY <1>0, <1>7
  DEF Online, Sched!Connected, JobsAlone!Connected, JobsAlone!Next
<1>8. CASE Offline
  BY <1>0, <1>8
  DEF Offline, Sched!Disconnected, JobsAlone!Disconnected, JobsAlone!Next
<1>9. CASE JobsMove
  <2>1. CASE Sched!ConnectedHook
    BY <1>0, <2>1
    DEF Sched!ConnectedHook, JobsAlone!ConnectedHook, Sched!StartOnceDone,
        JobsAlone!StartOnceDone, Sched!StartJobs, JobsAlone!StartJobs,
        Sched!FreeSlot, JobsAlone!FreeSlot, Sched!Loops, JobsAlone!Loops,
        JobsAlone!Next
  <2>2. ASSUME NEW l \in Sched!Loops, Sched!LoopStep(l)
        PROVE  JobsAlone!Next
    BY <2>2, LoopStepAlone DEF Sched!Loops, JobsAlone!Loops, JobsAlone!Next
  <2> QED
    BY <1>9, <2>1, <2>2 DEF JobsMove
<1>10. CASE TimePasses
  BY <1>0, <1>10
  DEF TimePasses, Sched!Tick, JobsAlone!Tick, JobsAlone!Next, Sched!Loops,
      JobsAlone!Loops
<1>11. CASE UNCHANGED botVars
  BY <1>0, <1>11, JobsStutter DEF botVars
<1> QED
  BY <1>1, <1>2, <1>3, <1>4, <1>5, <1>6, <1>7, <1>8, <1>9, <1>10, <1>11
  DEF BotNext

LEMMA SocketStep ==
  ASSUME connected \in BOOLEAN, [BotNext]_botVars
  PROVE  connected' \in BOOLEAN
BY DEF BotNext, botVars, jobVars, Boot, Sched!Start, Connect, ConnectFails,
       RunGoes, Cancel, Sched!Cancel, Shutdown, Return, End, Sched!Exit,
       CallMoves, Online, Sched!Connected, Offline, Sched!Disconnected,
       JobsMove, Sched!ConnectedHook, Sched!LoopStep, Sched!StaggerOver,
       Sched!WaitOver, Sched!Fire, Sched!Return, Sched!Mark,
       Sched!SleepCancelled, TimePasses, Sched!Tick, Sched!session

LEMMA InitJobs == BotInit => JobsAlone!Init
BY DEF BotInit, Sched!Init, JobsAlone!Init, RowsUnder, Sched!AllOff,
       JobsAlone!AllOff, Sched!Off, JobsAlone!Off, Sched!Loops,
       JobsAlone!Loops, Sched!Dates, JobsAlone!Dates

(* Any bot, whatever its links, calls and durations, is to its jobs and    *)
(* their markers what Scheduler says (Lifecycle, JobsUndisturbed).         *)
THEOREM JobsUndisturbedHolds == BotSpec => JobsUndisturbed
<1>1. BotInit => connected \in BOOLEAN
  BY DEF BotInit, Sched!Init
<1>2. connected \in BOOLEAN /\ [BotNext]_botVars => (connected \in BOOLEAN)'
  BY SocketStep
<1>3. connected \in BOOLEAN /\ [BotNext]_botVars
        => [JobsAlone!Next]_(JobsAlone!vars)
  BY JobsStep
<1> QED
  BY InitJobs, <1>1, <1>2, <1>3, PTL
  DEF BotSpec, JobsUndisturbed, JobsAlone!SafeSpec

(* What is proved of Scheduler, for the markers of a bot.                  *)
Markers == INSTANCE SchedulerProofs WITH
  wall <- now, MaxWall <- MaxNow, steps <- 0, MaxSteps <- 0,
  kv <- RowsUnder("sched")

LEMMA SameJobsInit == JobsAlone!Init <=> Markers!Init
BY DEF JobsAlone!Init, Markers!Init, JobsAlone!AllOff, Markers!AllOff,
       JobsAlone!Off, Markers!Off, JobsAlone!Loops, Markers!Loops,
       JobsAlone!Dates, Markers!Dates

LEMMA SameJobsStep ==
  [JobsAlone!Next]_(JobsAlone!vars) <=> [Markers!Next]_(Markers!vars)
BY DEF JobsAlone!vars, Markers!vars, JobsAlone!session, Markers!session,
       JobsAlone!history, Markers!history, JobsAlone!Next, Markers!Next,
       JobsAlone!Tick, Markers!Tick, JobsAlone!ClockStep, Markers!ClockStep,
       JobsAlone!Start, Markers!Start, JobsAlone!Connected, Markers!Connected,
       JobsAlone!Disconnected, Markers!Disconnected, JobsAlone!ConnectedHook,
       Markers!ConnectedHook, JobsAlone!StartOnceDone, Markers!StartOnceDone,
       JobsAlone!StartJobs, Markers!StartJobs, JobsAlone!FreeSlot,
       Markers!FreeSlot, JobsAlone!HooksAtStart, Markers!HooksAtStart,
       JobsAlone!LoopStep, Markers!LoopStep, JobsAlone!StaggerOver,
       Markers!StaggerOver, JobsAlone!WaitOver, Markers!WaitOver,
       JobsAlone!Fire, Markers!Fire, JobsAlone!GoesToMark, Markers!GoesToMark,
       JobsAlone!AfterError, Markers!AfterError,
       JobsAlone!Begin, Markers!Begin, JobsAlone!AddGap, Markers!AddGap,
       JobsAlone!Return, Markers!Return, JobsAlone!Mark, Markers!Mark,
       JobsAlone!DateOfRun, Markers!DateOfRun, JobsAlone!SleepCancelled,
       Markers!SleepCancelled, JobsAlone!SleepAgain, Markers!SleepAgain,
       JobsAlone!Sleeping, Markers!Sleeping, JobsAlone!Delays, Markers!Delays,
       JobsAlone!UntilHour, Markers!UntilHour, JobsAlone!DateKey,
       Markers!DateKey, JobsAlone!MarkerKey, Markers!MarkerKey,
       JobsAlone!Cancel, Markers!Cancel, JobsAlone!Exit, Markers!Exit,
       JobsAlone!Running, Markers!Running, JobsAlone!Loops, Markers!Loops,
       JobsAlone!Dates, Markers!Dates, JobsAlone!AllOff, Markers!AllOff,
       JobsAlone!Off, Markers!Off, JobsAlone!Cardinality, Markers!Cardinality,
       JobsAlone!Opened, Markers!Opened, JobsAlone!Has, Markers!Has,
       JobsAlone!Set, Markers!Set, JobsAlone!Delete, Markers!Delete,
       JobsAlone!Rows, Markers!Rows

(* A marker is there for the scheduler if it is in the table.              *)
LEMMA MarkersLookedUp ==
  ASSUME NEW j, NEW d
  PROVE  Markers!Has(RowsUnder("sched"), Markers!MarkerKey(j, d))
           <=> Sched!Has(kv, Sched!MarkerKey(j, d))
<1> DEFINE key == <<"sched", <<j, d>>>>
<1>1. Has(kv, key) <=> Has(RowsUnder("sched"), key)
  BY LookedUpAlone
<1>2. Sched!Has(kv, key) <=> Has(kv, key)
  BY DEF Has, Rows, Sched!Has, Sched!Rows
<1>3. Markers!Has(RowsUnder("sched"), key) <=> Has(RowsUnder("sched"), key)
  BY DEF Has, Rows, Markers!Has, Markers!Rows
<1>4. Markers!MarkerKey(j, d) = key /\ Sched!MarkerKey(j, d) = key
  BY DEF Markers!MarkerKey, Sched!MarkerKey
<1> HIDE DEF key
<1> QED
  BY <1>1, <1>2, <1>3, <1>4

(* And what is proved of Scheduler alone holds of the jobs of every bot.   *)
THEOREM JobsInABot ==
  BotSpec => [](/\ Sched!OncePerDay /\ Sched!MarkersEarned
                /\ Sched!Sequential /\ Sched!StartsOnline)
<1>0. 0 \in Nat
  OBVIOUS
<1>1. Markers!SafeSpec =>
        [](/\ Markers!OncePerDay /\ Markers!MarkersEarned
           /\ Markers!Sequential /\ Markers!StartsOnline)
  BY <1>0, Markers!OncePerDayHolds, Markers!MarkersEarnedHolds,
     Markers!SequentialHolds, Markers!StartsOnlineHolds, JobsAssumption, TimesAssumption, PTL
<1>2. JobsAlone!SafeSpec => Markers!SafeSpec
  BY SameJobsInit, SameJobsStep, PTL DEF JobsAlone!SafeSpec, Markers!SafeSpec
<1>3. /\ Markers!OncePerDay <=> Sched!OncePerDay
      /\ Markers!MarkersEarned <=> Sched!MarkersEarned
      /\ Markers!Sequential <=> Sched!Sequential
      /\ Markers!StartsOnline <=> Sched!StartsOnline
  BY MarkersLookedUp
     DEF Markers!OncePerDay, Sched!OncePerDay, Markers!MarkersEarned,
         Sched!MarkersEarned, Markers!Sequential,
         Sched!Sequential, Markers!StartsOnline, Sched!StartsOnline,
         Markers!Loops, Sched!Loops, Markers!Dates, Sched!Dates
<1> QED
  BY <1>1, <1>2, <1>3, JobsUndisturbedHolds, PTL DEF JobsUndisturbed

-----------------------------------------------------------------------------
(* LinksUndisturbed: every step of the bot is one of WebAuth's on the rows *)
(* of links, or none.  Links has what is proved of WebAuth for these rows. *)
Links == INSTANCE WebAuthProofs WITH kv <- RowsUnder("webauth:nonce")

LEMMA LinksStutter ==
  ASSUME UNCHANGED <<now, linkVars>>,
         RowsUnder("webauth:nonce")' = RowsUnder("webauth:nonce")
  PROVE  UNCHANGED LinksAlone!vars
BY DEF linkVars, LinksAlone!vars

(* What WebAuth's operators say, they say wherever it is used.             *)
LEMMA SameStore ==
  ASSUME NEW table, NEW key
  PROVE  /\ LinksAlone!Has(table, key) <=> Has(table, key)
         /\ LinksAlone!Get(table, key) = Get(table, key)
         /\ LinksAlone!Consume(table, key) = Consume(table, key)
BY DEF LinksAlone!Has, Has, LinksAlone!Get, Get, LinksAlone!Consume, Consume,
       LinksAlone!Delete, Delete, LinksAlone!Rows, Rows

LEMMA SameSet ==
  ASSUME NEW table, NEW key, NEW value, NEW second
  PROVE  LinksAlone!Set(table, key, value, second) =
           Set(table, key, value, second)
BY DEF LinksAlone!Set, Set, LinksAlone!Delete, Delete, LinksAlone!Rows, Rows

LEMMA SameSweep ==
  ASSUME NEW table, NEW prefix, NEW age, NEW second
  PROVE  LinksAlone!DeleteExpired(table, prefix, age, second) =
           DeleteExpired(table, prefix, age, second)
BY DEF LinksAlone!DeleteExpired, DeleteExpired

LEMMA SameBound == LinksAlone!CallsAllowed <=> CallsAllowed
BY DEF LinksAlone!CallsAllowed, CallsAllowed, LinksAlone!Cardinality,
       Cardinality

LEMMA SweepStepAlone ==
  ASSUME NEW r \in Requests, NEW g \in Groups, NEW m \in Members,
         MintSweep(r, g, m)
  PROVE  LinksAlone!MintSweep(r, g, m)
<1> DEFINE links == RowsUnder("webauth:nonce")
           age == Unix(LinkTTL)
           second == Unix(now)
<1>0. kv' = kv => links' = links
  BY DEF RowsUnder
<1>1. kv' = DeleteExpired(kv, "webauth:nonce", age, second)
        => links' = DeleteExpired(links, "webauth:nonce", age, second)
  BY SweepAlone
<1>2. LinksAlone!DeleteExpired(links, "webauth:nonce", age, second) =
        DeleteExpired(links, "webauth:nonce", age, second)
  BY SameSweep
<1>3. LinksAlone!Unix(LinkTTL) = age /\ LinksAlone!Unix(now) = second
  BY DEF LinksAlone!Unix, Unix
<1>4. LinksAlone!Idle = Idle
  BY DEF LinksAlone!Idle, Idle, LinksAlone!None, None, LinksAlone!NoTime,
         NoTime
<1> HIDE DEF links, age, second
<1> QED
  BY <1>0, <1>1, <1>2, <1>3, <1>4, SameBound
  DEF MintSweep, LinksAlone!MintSweep, links, age, second

LEMMA SameIdle == LinksAlone!Idle = Idle
BY DEF LinksAlone!Idle, Idle, LinksAlone!None, None, LinksAlone!NoTime,
       NoTime

LEMMA LookupStepAlone ==
  ASSUME NEW r \in Requests, NEW n \in Nonces, RedeemLookup(r, n)
  PROVE  LinksAlone!RedeemLookup(r, n)
<1> DEFINE links == RowsUnder("webauth:nonce")
           key == <<"webauth:nonce", n>>
<1>0. kv' = kv => links' = links
  BY DEF RowsUnder
<1>1. kv' = Consume(kv, key) => links' = Consume(links, key)
  BY ConsumeAlone
<1>2. /\ LinksAlone!Consume(links, key) = Consume(links, key)
      /\ LinksAlone!Has(links, key) <=> Has(links, key)
      /\ LinksAlone!Get(links, key) = Get(links, key)
  BY SameStore
<1>3. /\ Has(kv, key) <=> Has(links, key)
      /\ Get(kv, key) = Get(links, key)
  BY LookedUpAlone
<1>4. LinkKey(n) = key /\ LinksAlone!LinkKey(n) = key
  BY DEF LinkKey, LinksAlone!LinkKey
<1> HIDE DEF links, key
<1> QED
  BY <1>0, <1>1, <1>2, <1>3, <1>4, SameIdle, SameBound
  DEF RedeemLookup, LinksAlone!RedeemLookup, links

LEMMA StoreStepAlone ==
  ASSUME NEW r \in Requests, MintStore(r)
  PROVE  LinksAlone!MintStore(r)
<1> DEFINE links == RowsUnder("webauth:nonce")
           n == req[r].nonce
           key == <<"webauth:nonce", n>>
           record == LinkRecord(req[r].group, req[r].member, req[r].expires)
           second == Unix(now)
<1>0. kv' = kv => links' = links
  BY DEF RowsUnder
<1>1. kv' = Set(kv, key, record, second)
        => links' = Set(links, key, record, second)
  BY SetAlone
<1>2. LinksAlone!Set(links, key, record, second) =
        Set(links, key, record, second)
  BY SameSet
<1>3. /\ LinkKey(req[r].nonce) = key
      /\ LinksAlone!LinkKey(req[r].nonce) = key
      /\ LinksAlone!LinkRecord(req[r].group, req[r].member, req[r].expires)
           = record
      /\ LinksAlone!Unix(now) = second
  BY DEF LinkKey, LinksAlone!LinkKey, LinkRecord, LinksAlone!LinkRecord,
         Unix, LinksAlone!Unix
<1> HIDE DEF links, n, key
<1> QED
  BY <1>0, <1>1, <1>2, <1>3
  DEF MintStore, LinksAlone!MintStore, links, record, second

LEMMA RefreshStepAlone ==
  ASSUME NEW r \in Requests, NEW tok \in issued, RefreshStart(r, tok)
  PROVE  LinksAlone!RefreshStart(r, tok)
<1>1. RowsUnder("webauth:nonce")' = RowsUnder("webauth:nonce")
  BY DEF RefreshStart, RowsUnder
<1> QED
  BY <1>1, SameIdle, SameBound
  DEF RefreshStart, LinksAlone!RefreshStart, PastCeiling,
      LinksAlone!PastCeiling, RefreshCeiling, LinksAlone!RefreshCeiling, Unix,
      LinksAlone!Unix

(* The steps that do not touch the table.                                  *)
LEMMA OtherStepsAlone ==
  ASSUME NEW r \in Requests,
         \/ \E n \in Nonces : MintStamp(r, n)
         \/ RedeemExpiry(r) \/ AssertMember(r) \/ Mint(r) \/ Respond(r)
  PROVE  \/ \E n \in Nonces : LinksAlone!MintStamp(r, n)
         \/ LinksAlone!RedeemExpiry(r) \/ LinksAlone!AssertMember(r)
         \/ LinksAlone!Mint(r) \/ LinksAlone!Respond(r)
<1>0. kv' = kv => RowsUnder("webauth:nonce")' = RowsUnder("webauth:nonce")
  BY DEF RowsUnder
<1>1. CASE \E n \in Nonces : MintStamp(r, n)
  BY <1>0, <1>1 DEF MintStamp, LinksAlone!MintStamp, Unix, LinksAlone!Unix
<1>2. CASE RedeemExpiry(r)
  BY <1>0, <1>2, SameIdle
  DEF RedeemExpiry, LinksAlone!RedeemExpiry, LinkExpired,
      LinksAlone!LinkExpired, LoginCeiling, LinksAlone!LoginCeiling, Unix,
      LinksAlone!Unix
<1>3. CASE AssertMember(r)
  BY <1>0, <1>3, SameIdle DEF AssertMember, LinksAlone!AssertMember
<1>4. CASE Mint(r)
  <2>1. LinksAlone!Token(req[r]) = Token(req[r])
    BY DEF Token, LinksAlone!Token, Claims, LinksAlone!Claims, Unix,
           LinksAlone!Unix
  <2> QED
    BY <1>0, <1>4, <2>1 DEF Mint, LinksAlone!Mint
<1>5. CASE Respond(r)
  BY <1>0, <1>5, SameIdle
  DEF Respond, LinksAlone!Respond, Finished, LinksAlone!Finished
<1> QED
  BY <1>1, <1>2, <1>3, <1>4, <1>5

LEMMA CallAlone ==
  ASSUME NEW r \in Requests, CallMoves(r)
  PROVE  LinksAlone!Next
<1> USE DEF LinksAlone!Call, LinksAlone!Work, LinksAlone!Next
<1>1. CASE \E g \in Groups, m \in Members : MintSweep(r, g, m)
  BY <1>1, SweepStepAlone
<1>2. CASE \E n \in Nonces : RedeemLookup(r, n)
  BY <1>2, LookupStepAlone
<1>3. CASE \E tok \in issued : RefreshStart(r, tok)
  BY <1>3, RefreshStepAlone
<1>4. CASE MintStore(r)
  BY <1>4, StoreStepAlone
<1>5. CASE \/ \E n \in Nonces : MintStamp(r, n)
           \/ RedeemExpiry(r) \/ AssertMember(r) \/ Mint(r) \/ Respond(r)
  BY <1>5, OtherStepsAlone
<1> QED
  BY <1>1, <1>2, <1>3, <1>4, <1>5 DEF CallMoves, CallBegins, Work

LEMMA LinksStep ==
  ASSUME req \in [Requests -> ReqType], IdleClean, [BotNext]_botVars
  PROVE  [LinksAlone!Next]_(LinksAlone!vars)
<1>0. kv' = kv => RowsUnder("webauth:nonce")' = RowsUnder("webauth:nonce")
  BY DEF RowsUnder
<1>1. CASE Boot
  BY <1>0, <1>1, LinksStutter DEF Boot, Sched!Start, Sched!Opened
<1>2. CASE Connect \/ ConnectFails \/ Shutdown \/ Return
  BY <1>0, <1>2, LinksStutter
  DEF Connect, ConnectFails, Shutdown, Return, RunGoes
<1>3. CASE Cancel
  BY <1>0, <1>3, LinksStutter DEF Cancel, Sched!Cancel
<1>4. CASE End
  <2>1. UNCHANGED <<now, kv, roster, left, drawn, issued, logins>>
    BY <1>4 DEF End, Sched!Exit
  <2>2. req' = [r \in Requests |-> Idle]
    BY <1>4 DEF End
  <2>3. CASE \E r \in Requests : req[r].pc # "idle"
    BY <1>0, <2>1, <2>2, <2>3, SameIdle
    DEF LinksAlone!Crash, LinksAlone!Next
  <2>4. CASE \A r \in Requests : req[r].pc = "idle"
    <3>1. req' = req
      BY <2>2, <2>4 DEF IdleClean
    <3> QED
      BY <1>0, <2>1, <3>1, LinksStutter DEF linkVars
  <2> QED
    BY <2>3, <2>4
<1>5. CASE \E r \in Requests : CallMoves(r)
  BY <1>5, CallAlone
<1>6. CASE Online \/ Offline
  BY <1>0, <1>6, LinksStutter
  DEF Online, Offline, Sched!Connected, Sched!Disconnected
<1>7. CASE JobsMove
  <2>1. UNCHANGED <<now, linkVars>>
    BY <1>7
    DEF JobsMove, Sched!ConnectedHook, Sched!LoopStep, Sched!StaggerOver,
        Sched!WaitOver, Sched!Fire, Sched!Return, Sched!Mark,
        Sched!SleepCancelled
  <2>2. CASE kv' = kv
    BY <1>0, <2>1, <2>2, LinksStutter
  <2>3. CASE kv' # kv
    <3>1. PICK l \in Sched!Loops : Sched!Mark(l)
      BY <1>7, <2>3
      DEF JobsMove, Sched!ConnectedHook, Sched!LoopStep, Sched!StaggerOver,
          Sched!WaitOver, Sched!Fire, Sched!Return, Sched!SleepCancelled
    <3> DEFINE name == <<l[1], loop[l].date>>
               second == now \div TicksPerSecond
    <3>2. kv' = Sched!Set(kv, <<"sched", name>>, "1", second)
      BY <2>3, <3>1 DEF Sched!Mark, Sched!MarkerKey, Sched!DateOfRun
    <3>3. Sched!Set(kv, <<"sched", name>>, "1", second) =
            Set(kv, <<"sched", name>>, "1", second)
      BY DEF Set, Delete, Rows, Sched!Set, Sched!Delete, Sched!Rows
    <3> HIDE DEF name, second
    <3>4. RowsUnder("webauth:nonce")' = RowsUnder("webauth:nonce")
      BY <3>2, <3>3, SetAlone
    <3> QED
      BY <2>1, <3>4, LinksStutter
  <2> QED
    BY <2>2, <2>3
<1>8. CASE TimePasses
  <2>1. LinksAlone!Tick
    BY <1>0, <1>8 DEF TimePasses, Sched!Tick, LinksAlone!Tick, linkVars
  <2> QED
    BY <2>1 DEF LinksAlone!Next, LinksAlone!Environment
<1>9. CASE UNCHANGED botVars
  BY <1>0, <1>9, LinksStutter DEF botVars
<1> QED
  BY <1>1, <1>2, <1>3, <1>4, <1>5, <1>6, <1>7, <1>8, <1>9 DEF BotNext

(* WebAuth's steps are the same, named through its proofs or through       *)
(* Lifecycle.                                                              *)
LEMMA SameInit == LinksAlone!Init <=> Links!Init
BY DEF LinksAlone!Init, Links!Init, LinksAlone!Idle, Links!Idle,
       LinksAlone!None, Links!None, LinksAlone!NoTime, Links!NoTime,
       LinksAlone!Pairs, Links!Pairs


LEMMA SameStep ==
  [LinksAlone!Next]_(LinksAlone!vars) <=> [Links!Next]_(Links!vars)
BY DEF LinksAlone!vars, Links!vars, LinksAlone!Next, Links!Next,
       LinksAlone!Environment, Links!Environment,
       LinksAlone!Tick, Links!Tick, LinksAlone!Join, Links!Join,
       LinksAlone!Leave, Links!Leave, LinksAlone!Pairs, Links!Pairs,
       LinksAlone!Call, Links!Call, LinksAlone!Work, Links!Work,
       LinksAlone!MintSweep, Links!MintSweep, LinksAlone!MintStamp,
       Links!MintStamp, LinksAlone!MintStore, Links!MintStore,
       LinksAlone!RedeemLookup, Links!RedeemLookup, LinksAlone!RedeemExpiry,
       Links!RedeemExpiry, LinksAlone!RefreshStart, Links!RefreshStart,
       LinksAlone!AssertMember, Links!AssertMember, LinksAlone!Mint,
       Links!Mint, LinksAlone!Respond, Links!Respond, LinksAlone!Crash,
       Links!Crash, LinksAlone!CallsAllowed, Links!CallsAllowed,
       LinksAlone!Cardinality, Links!Cardinality, LinksAlone!Unix, Links!Unix,
       LinksAlone!Idle, Links!Idle, LinksAlone!None, Links!None,
       LinksAlone!NoTime, Links!NoTime, LinksAlone!LinkKey, Links!LinkKey,
       LinksAlone!LinkRecord, Links!LinkRecord, LinksAlone!Claims,
       Links!Claims, LinksAlone!Token, Links!Token, LinksAlone!LinkExpired,
       Links!LinkExpired, LinksAlone!LoginCeiling, Links!LoginCeiling,
       LinksAlone!PastCeiling, Links!PastCeiling, LinksAlone!RefreshCeiling,
       Links!RefreshCeiling, LinksAlone!Finished, Links!Finished,
       LinksAlone!Has, Links!Has, LinksAlone!Get, Links!Get, LinksAlone!Set,
       Links!Set, LinksAlone!Consume, Links!Consume, LinksAlone!Delete,
       Links!Delete, LinksAlone!Rows, Links!Rows, LinksAlone!DeleteExpired,
       Links!DeleteExpired

(* What is true of the calls of every bot.                                 *)
CallsInv == Links!TypeInv /\ IdleClean

LEMMA InitCalls == BotInit => LinksAlone!Init /\ CallsInv
<1> SUFFICES ASSUME BotInit PROVE LinksAlone!Init /\ CallsInv
  OBVIOUS
<1>1. LinksAlone!Init
  BY SameIdle
  DEF BotInit, Init, LinksAlone!Init, RowsUnder, Pairs, LinksAlone!Pairs
<1>2. Links!TypeInv
  BY <1>1, SameInit, Links!InitTypeInv, TimesAssumption, SingleUseAssumption
<1>3. IdleClean
  BY DEF BotInit, Init, IdleClean
<1> QED
  BY <1>1, <1>2, <1>3 DEF CallsInv

LEMMA CallsTyped == CallsInv => req \in [Requests -> ReqType]
BY DEF CallsInv, Links!TypeInv, Links!TypeOK, Links!ReqType, ReqType,
       Links!Times, Times, Links!None, None, Links!NoTime, NoTime

LEMMA CallsStep ==
  ASSUME CallsInv, [BotNext]_botVars
  PROVE  [LinksAlone!Next]_(LinksAlone!vars) /\ CallsInv'
<1>1. req \in [Requests -> ReqType]
  BY CallsTyped
<1>2. [LinksAlone!Next]_(LinksAlone!vars)
  BY <1>1, LinksStep DEF CallsInv
<1>3. [Links!Next]_(Links!vars)
  BY <1>2, SameStep
<1>4. Links!TypeInv'
  BY <1>3, Links!NextTypeInv, TimesAssumption, SingleUseAssumption
  DEF CallsInv
<1>5. IdleClean <=> Links!IdleClean
  BY DEF IdleClean, Links!IdleClean, Idle, Links!Idle, Links!None, None,
         Links!NoTime, NoTime
<1>6. IdleClean'
  BY <1>3, <1>5, Links!NextIdleClean, TimesAssumption, SingleUseAssumption
  DEF CallsInv, IdleClean, Links!IdleClean, Idle, Links!Idle, Links!None,
      None, Links!NoTime, NoTime
<1> QED
  BY <1>2, <1>4, <1>6 DEF CallsInv

(* Any bot, with whatever jobs, is to its links and calls what WebAuth     *)
(* says (Lifecycle, LinksUndisturbed), however it is stopped and whatever  *)
(* is closed under a call.                                                 *)
THEOREM LinksUndisturbedHolds == BotSpec => LinksUndisturbed
<1>1. BotInit => LinksAlone!Init /\ CallsInv
  BY InitCalls
<1>2. CallsInv /\ [BotNext]_botVars
        => [LinksAlone!Next]_(LinksAlone!vars) /\ CallsInv'
  BY CallsStep
<1> QED
  BY <1>1, <1>2, PTL DEF BotSpec, LinksUndisturbed, LinksAlone!Spec

(* And so keeps MagicLink's promise.                                       *)
LEMMA SamePromiseInit == LinksAlone!Promise!Init <=> Links!Promise!Init
BY DEF LinksAlone!Promise!Init, Links!Promise!Init,
       LinksAlone!Offers, Links!Offers, LinksAlone!Holding, Links!Holding,
       LinksAlone!Withdrawn, Links!Withdrawn, LinksAlone!Unstored,
       Links!Unstored

LEMMA SamePromiseStep ==
  [LinksAlone!Promise!Next]_(LinksAlone!Promise!vars) <=>
  [Links!Promise!Next]_(Links!Promise!vars)
BY DEF LinksAlone!Promise!vars, Links!Promise!vars,
       LinksAlone!Promise!Next, Links!Promise!Next,
       LinksAlone!Promise!Tick, Links!Promise!Tick,
       LinksAlone!Promise!Join, Links!Promise!Join,
       LinksAlone!Promise!Leave, Links!Promise!Leave,
       LinksAlone!Promise!Offer, Links!Promise!Offer,
       LinksAlone!Promise!Withdraw, Links!Promise!Withdraw,
       LinksAlone!Promise!Login, Links!Promise!Login,
       LinksAlone!Promise!Renew, Links!Promise!Renew,
       LinksAlone!Promise!Unix, Links!Promise!Unix,
       LinksAlone!Promise!Claims, Links!Promise!Claims,
       LinksAlone!Promise!LastIn, Links!Promise!LastIn,
       LinksAlone!Offers, Links!Offers, LinksAlone!Holding, Links!Holding,
       LinksAlone!Withdrawn, Links!Withdrawn, LinksAlone!Unstored,
       Links!Unstored

(* A bot that is stopped at any step, started again and shares its table   *)
(* with jobs keeps the promise of every link (Lifecycle, PromiseOfLinks).  *)
THEOREM PromiseOfLinksHolds == BotSpec => PromiseOfLinks
<1>1. Links!Spec => Links!KeepsPromise
  BY Links!KeepsPromiseHolds, TimesAssumption, SingleUseAssumption
<1>2. LinksAlone!Spec => Links!Spec
  BY SameInit, SameStep, PTL DEF LinksAlone!Spec, Links!Spec
<1>3. Links!KeepsPromise => LinksAlone!KeepsPromise
  BY SamePromiseInit, SamePromiseStep, PTL
  DEF Links!KeepsPromise, LinksAlone!KeepsPromise, Links!Promise!Spec,
      LinksAlone!Promise!Spec
<1> QED
  BY <1>1, <1>2, <1>3, LinksUndisturbedHolds, PTL
  DEF LinksUndisturbed, PromiseOfLinks

(* What is proved of WebAuth alone holds in every bot: a single-use link   *)
(* logs in once, a token that verifies is of a member of a moment ago, and *)
(* goes back to a login below the ceiling, whatever jobs and Run do.       *)
THEOREM LoginsInABot ==
  BotSpec => [](SingleWinner /\ RevocationLag /\ SessionCeiling)
<1>1. Links!Spec =>
        [](Links!SingleWinner /\ Links!RevocationLag /\ Links!SessionCeiling)
  BY Links!SingleWinnerHolds, Links!RevocationLagHolds,
     Links!SessionCeilingHolds, TimesAssumption, SingleUseAssumption, PTL
<1>2. LinksAlone!Spec => Links!Spec
  BY SameInit, SameStep, PTL DEF LinksAlone!Spec, Links!Spec
<1>3. /\ Links!SingleWinner <=> SingleWinner
      /\ Links!RevocationLag <=> RevocationLag
      /\ Links!SessionCeiling <=> SessionCeiling
  BY DEF Links!SingleWinner, SingleWinner, Links!RevocationLag, RevocationLag,
         Links!SessionCeiling, SessionCeiling, Links!Verify, Verify,
         Links!Unix, Unix, Links!LastIn, LastIn
<1> QED
  BY <1>1, <1>2, <1>3, LinksUndisturbedHolds, PTL DEF LinksUndisturbed

-----------------------------------------------------------------------------
(* StopSparesLogins: the grace begins when the server stops letting calls  *)
(* in, and the socket goes when none is left or the grace is over; nothing *)
(* that happens afterwards makes a call one of the server's.               *)
StopInv ==
  /\ now \in Nat
  /\ stage \in {"draining", "returned"} => stopAt \in Nat
  /\ SocketClosed =>
       (\A r \in Requests : ~ Served(req[r])) \/ GraceOver

(* Only its beginning makes a call one of the server's, and it begins      *)
(* while the server listens.                                               *)
LEMMA CallsBeginServed ==
  ASSUME NEW r \in Requests, CallMoves(r), CallsInv, SocketClosed
  PROVE  \A s \in Requests : Served(req'[s]) => Served(req[s])
<1> USE DEF Served
<1>0. /\ req \in [Requests -> ReqType]
      /\ req[r].pc \in {"expiry", "member"} => Served(req[r])
  <2>1. req \in [Requests -> ReqType]
    BY CallsTyped
  <2>2. Links!StepOK(req[r])
    BY DEF CallsInv, Links!TypeInv, Links!Steps
  <2> QED
    BY <2>1, <2>2 DEF Links!StepOK
<1>1. CASE \E g \in Groups, m \in Members : MintSweep(r, g, m)
  BY <1>0, <1>1 DEF MintSweep, Idle
<1>2. CASE \E n \in Nonces : MintStamp(r, n)
  BY <1>0, <1>2 DEF MintStamp, ReqType
<1>3. CASE MintStore(r)
  BY <1>0, <1>3 DEF MintStore, ReqType
<1>4. CASE RedeemExpiry(r)
  BY <1>0, <1>4 DEF RedeemExpiry
<1>5. CASE AssertMember(r)
  BY <1>0, <1>5 DEF AssertMember
<1>6. CASE Mint(r)
  BY <1>0, <1>6 DEF Mint, ReqType
<1>7. CASE Respond(r)
  BY <1>0, <1>7 DEF Respond, Idle, None
<1>8. ~ Serving
  BY DEF Serving, SocketClosed
<1> QED
  BY <1>1, <1>2, <1>3, <1>4, <1>5, <1>6, <1>7, <1>8
  DEF CallMoves, CallBegins, Work

LEMMA CallsKeepTime ==
  ASSUME NEW r \in Requests, CallMoves(r)
  PROVE  now' = now
BY DEF CallMoves, CallBegins, Work, MintSweep, RedeemLookup, RefreshStart,
       MintStamp, MintStore, RedeemExpiry, AssertMember, Mint, Respond

LEMMA CallsNow ==
  ASSUME CallsInv, [BotNext]_botVars
  PROVE  now' \in Nat /\ now <= now'
<1>1. now \in Nat
  BY DEF CallsInv, Links!TypeInv, Links!TypeOK
<1>2. now' \in Nat
  BY CallsStep DEF CallsInv, Links!TypeInv, Links!TypeOK
<1>3. CASE now' = now
  BY <1>1, <1>3
<1>4. CASE TimePasses
  BY <1>1, <1>4 DEF TimePasses, Sched!Tick
<1> QED
  BY <1>2, <1>3, <1>4, CallsKeepTime
  DEF BotNext, botVars, Boot, Sched!Start, Connect, ConnectFails, RunGoes,
      Cancel, Sched!Cancel, Shutdown, Return, End, Sched!Exit, Online,
      Sched!Connected, Offline, Sched!Disconnected, JobsMove,
      Sched!ConnectedHook, Sched!LoopStep, Sched!StaggerOver, Sched!WaitOver,
      Sched!Fire, Sched!Return, Sched!Mark, Sched!SleepCancelled

LEMMA StopStep ==
  ASSUME CallsInv, StopInv, [BotNext]_botVars
  PROVE  StopInv'
<1> USE DEF SocketClosed, GraceOver
<1>0. /\ now' \in Nat /\ now <= now'
  BY CallsNow
<1>1. CASE stage' # "draining" /\ stage' # "returned"
  BY <1>0, <1>1 DEF StopInv
<1>2. CASE Shutdown
  BY <1>0, <1>2 DEF Shutdown, RunGoes, StopInv
<1>3. CASE Return
  <2>1. UNCHANGED <<now, req, stopAt>> /\ stage = "draining"
    BY <1>3 DEF Return, RunGoes, linkVars
  <2>2. (\A r \in Requests : ~ Served(req[r])) \/ GraceOver
    BY <1>3 DEF Return
  <2> QED
    BY <1>0, <2>1, <2>2 DEF StopInv, Served
<1>4. ASSUME UNCHANGED runVars, stage \in {"draining", "returned"},
             SocketClosed =>
               \A r \in Requests : Served(req'[r]) => Served(req[r])
      PROVE  StopInv'
  <2>1. UNCHANGED <<stage, stopAt>> /\ stopAt \in Nat
    BY <1>4 DEF runVars, StopInv
  <2>2. GraceOver => GraceOver'
    BY <1>0, <2>1, GraceAssumption DEF StopInv
  <2> QED
    BY <1>0, <1>4, <2>1, <2>2 DEF StopInv, Served
<1>5. ASSUME NEW r \in Requests, CallMoves(r)
      PROVE  UNCHANGED runVars
  BY <1>5 DEF CallMoves
<1>6. CASE \E r \in Requests : CallMoves(r)
  BY <1>1, <1>4, <1>5, <1>6, CallsBeginServed DEF runVars
<1>7. CASE Cancel \/ Online \/ Offline \/ JobsMove \/ TimePasses
             \/ UNCHANGED botVars
  <2>1. UNCHANGED <<req, stage, stopAt>>
    BY <1>7
    DEF Cancel, Online, Offline, JobsMove, TimePasses, linkVars, runVars,
        botVars
  <2> QED
    BY <1>1, <1>4, <2>1 DEF runVars, Served
<1>8. CASE Boot \/ Connect \/ ConnectFails \/ End
  BY <1>1, <1>8 DEF Boot, Connect, ConnectFails, End, RunGoes
<1> QED
  BY <1>2, <1>3, <1>6, <1>7, <1>8 DEF BotNext

(* The socket is not taken from a call before its grace is over, however   *)
(* many calls there are and whatever jobs do (Lifecycle, StopSparesLogins; *)
(* bot.go, Run).                                                           *)
THEOREM StopSparesLoginsHolds == BotSpec => []StopSparesLogins
<1>1. BotInit => CallsInv /\ StopInv
  BY InitCalls DEF BotInit, Init, StopInv, SocketClosed
<1>2. CallsInv /\ StopInv /\ [BotNext]_botVars => CallsInv' /\ StopInv'
  BY CallsStep, StopStep
<1>3. StopInv => StopSparesLogins
  BY DEF StopInv, StopSparesLogins, GraceOver
<1> QED
  BY <1>1, <1>2, <1>3, PTL DEF BotSpec
=============================================================================
