----------------------------- MODULE Dashboard ------------------------------
(***************************************************************************)
(* The dashboard in front of WebAuth (examples/webauth-dev/web): the       *)
(* landing route /auth trades the nonce of a link for a cookie, and the    *)
(* middleware of /dashboard serves a page from the cookie alone while its  *)
(* token is fresh, and asks the bot for a new token when it is not.        *)
(*                                                                         *)
(* Every fetch to the bot is handled by one of WebAuth's requests.  The    *)
(* fetch may not arrive, its answer may not come back, and the bot may     *)
(* crash under it; the code denies in each case.  Browsers may have        *)
(* several fetches under way at once (tabs).                               *)
(***************************************************************************)
EXTENDS WebAuth

CONSTANTS
  Browsers,
  CookieMaxAge   \* SESSION_MAX_AGE, in clock ticks

ASSUME CookieAssumption == CookieMaxAge \in Nat \ {0}

VARIABLES
  cookie,   \* browser |-> {} or the set of its one session cookie
  fetch,    \* request |-> what the dashboard asks of it
  page      \* the page served by the last step, if it served one

dashVars == <<cookie, fetch, page>>
allVars == <<vars, dashVars>>

NoFetch == [kind |-> "none"]

Fetching(r) == fetch[r] # NoFetch

Page(b, tok, asked) ==
  [browser |-> b, group |-> tok.group, member |-> tok.member,
   absolute |-> tok.absolute, asked |-> asked]

(* Mutant: the middleware goes by the ceiling alone.                       *)
FreshUnderCeiling(c) == c.token.absolute > Unix(now)

(* claims.exp > nowSeconds(): all that the middleware checks of the time.  *)
Fresh(c) == c.token.expires > Unix(now)

(* Mutant: a second cookie next to the first.                              *)
AddCookie(b, tok) ==
  [cookie EXCEPT ![b] = @ \cup {[token |-> tok, until |-> now + CookieMaxAge]}]

(* cookies.set("session", ...) replaces the cookie of that name.           *)
SetCookie(b, tok) ==
  [cookie EXCEPT ![b] = {[token |-> tok, until |-> now + CookieMaxAge]}]

DashInit ==
  /\ Init
  /\ cookie = [b \in Browsers |-> {}]
  /\ fetch = [r \in Requests |-> NoFetch]
  /\ page = {}

-----------------------------------------------------------------------------
(* GET /auth?t=n.                                                          *)
OpenLink(b, r, n) ==
  /\ ~ Fetching(r) /\ req[r].pc = "idle"
  /\ fetch' = [fetch EXCEPT ![r] =
       [kind |-> "redeem", sent |-> FALSE, browser |-> b, nonce |-> n,
        asked |-> now]]
  /\ page' = {}
  /\ UNCHANGED <<vars, cookie>>

(* GET /dashboard with a fresh token: the cookie is enough.                *)
ViewPage(b, c) ==
  /\ now < c.until
  /\ Fresh(c)
  /\ page' = {Page(b, c.token, now)}
  /\ UNCHANGED <<vars, cookie, fetch>>

(* GET /dashboard with a stale one: refresh before serving.                *)
BeginRefresh(b, c, r) ==
  /\ now < c.until
  /\ ~ Fresh(c)
  /\ ~ Fetching(r) /\ req[r].pc = "idle"
  /\ fetch' = [fetch EXCEPT ![r] =
       [kind |-> "refresh", sent |-> FALSE, browser |-> b, token |-> c.token,
        asked |-> now]]
  /\ page' = {}
  /\ UNCHANGED <<vars, cookie>>

(* The fetch reaches the bot, which begins to handle it.                   *)
Arrive(r) ==
  /\ Fetching(r) /\ ~ fetch[r].sent
  /\ IF fetch[r].kind = "redeem"
     THEN RedeemLookup(r, fetch[r].nonce)
     ELSE RefreshStart(r, fetch[r].token)
  /\ fetch' = [fetch EXCEPT ![r].sent = TRUE]
  /\ page' = {}
  /\ UNCHANGED cookie

(* Or does not: bot unreachable, redirect to /denied.                      *)
Unreachable(r) ==
  /\ Fetching(r) /\ ~ fetch[r].sent
  /\ fetch' = [fetch EXCEPT ![r] = NoFetch]
  /\ page' = {}
  /\ UNCHANGED <<vars, cookie>>

(* The answer comes back.  A new token becomes the cookie; after a refresh *)
(* the page is served at once.  Any other answer redirects to /denied.     *)
Answer(r) ==
  /\ Fetching(r)
  /\ Respond(r)
  /\ LET f == fetch[r]
         tok == Token(req[r])
         granted == req[r].pc = "granted"
     IN  /\ cookie' = IF granted THEN SetCookie(f.browser, tok) ELSE cookie
         /\ page' = IF granted /\ f.kind = "refresh"
                    THEN {Page(f.browser, f.token, f.asked)}
                    ELSE {}
  /\ fetch' = [fetch EXCEPT ![r] = NoFetch]

(* Or does not: the token is signed and nobody has it.                     *)
LoseAnswer(r) ==
  /\ Fetching(r)
  /\ Respond(r)
  /\ fetch' = [fetch EXCEPT ![r] = NoFetch]
  /\ page' = {}
  /\ UNCHANGED cookie

(* The browser drops a cookie at the end of its max-age.                   *)
DropCookie(b) ==
  /\ \E c \in cookie[b] : now >= c.until
  /\ cookie' = [cookie EXCEPT ![b] = {}]
  /\ page' = {}
  /\ UNCHANGED <<vars, fetch>>

-----------------------------------------------------------------------------
(* The devserver's /dev/mint, and a chat's "dashboard": a link is asked    *)
(* for, and the answer goes to whoever asked.                              *)
DevMint(r) ==
  /\ ~ Fetching(r)
  /\ \/ \E g \in Groups, m \in Members : MintSweep(r, g, m)
     \/ Respond(r)
  /\ page' = {}
  /\ UNCHANGED <<cookie, fetch>>

BotWork(r) == Work(r) /\ page' = {} /\ UNCHANGED <<cookie, fetch>>

BotCrash ==
  /\ Crash
  /\ fetch' = [r \in Requests |-> NoFetch]
  /\ page' = {}
  /\ UNCHANGED cookie

(* The devserver's /dev/members, and a group: people come and go.          *)
DevMembers == \E pair \in Pairs : Join(pair) \/ Leave(pair)

World == (Tick \/ DevMembers) /\ page' = {} /\ UNCHANGED <<cookie, fetch>>

DashNext ==
  \/ World
  \/ \E r \in Requests :
       \/ \E b \in Browsers, n \in Nonces : OpenLink(b, r, n)
       \/ \E b \in Browsers : \E c \in cookie[b] : BeginRefresh(b, c, r)
       \/ Arrive(r) \/ Unreachable(r)
       \/ Answer(r) \/ LoseAnswer(r)
       \/ DevMint(r) \/ BotWork(r)
  \/ \E b \in Browsers : \E c \in cookie[b] : ViewPage(b, c)
  \/ \E b \in Browsers : DropCookie(b)
  \/ BotCrash

DashSafety == DashInit /\ [][DashNext]_allVars

(* A fetch is given up or handled, a handler runs, and its answer arrives  *)
(* or is given up on: net/http and fetch both see to that.                 *)
Fairness ==
  \A r \in Requests :
    /\ WF_allVars(Arrive(r) \/ Unreachable(r))
    /\ WF_allVars(BotWork(r))
    /\ WF_allVars(Answer(r) \/ LoseAnswer(r))

DashSpec == DashSafety /\ Fairness

-----------------------------------------------------------------------------
(* Types of the dashboard's own state; a browser has one session cookie.   *)
DashTypeOK ==
  /\ \A b \in Browsers :
       /\ cookie[b] \subseteq [token : issued, until : Nat]
       /\ Cardinality(cookie[b]) <= 1
  /\ \A r \in Requests : Fetching(r) =>
       /\ fetch[r].browser \in Browsers
       /\ fetch[r].kind = "refresh" => fetch[r].token \in issued
       /\ req[r].pc # "idle" => req[r].op = fetch[r].kind
  /\ Cardinality(page) <= 1

(* Nobody is shown a page unless they were in its group less than          *)
(* RecheckInterval before they asked for it: removal logs out (middleware: *)
(* "what makes removal actually log someone out"), also when the refresh   *)
(* was overtaken by the removal or its answer was slow.                    *)
ViewsVouched ==
  \A p \in page : p.asked < LastIn(<<p.group, p.member>>) + RecheckInterval

(* A page may be asked for after the ceiling of its login, but by less     *)
(* than RecheckInterval: the last token refreshed before the ceiling is    *)
(* served until it expires.                                                *)
ViewsEndAfterCeiling ==
  \A p \in page :
    Unix(p.asked) < p.absolute + Unix(RecheckInterval)

(* config.go promises more: "SessionTTL is the absolute ceiling on one     *)
(* login: past this the user returns to the group for a fresh link,        *)
(* regardless of refreshes".                                               *)
ViewsWithinCeiling ==
  \A p \in page : Unix(p.asked) < p.absolute

(* Whatever is lost or crashes, somebody who opened a link or a page gets  *)
(* an answer.                                                              *)
FetchAnswered == \A r \in Requests : []<>(~ Fetching(r))
=============================================================================
