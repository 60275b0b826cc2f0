# botkit in TLA+

botkit (`src/`) is a Go library for WhatsApp bots: it keeps one WhatsApp session, dispatches
messages to an app's handlers, runs timed jobs, lets an operator pair the bot by hand, and
turns membership of a WhatsApp group into a login to a web dashboard. This directory models
the parts of it that are hard to test, checks them with TLC and proves the most important
results with TLAPS.

## 1. Inventory

| Component | State it keeps | Operations | What makes it correct |
|---|---|---|---|
| KV store (`store/kv.go`) | table `botkit_kv`, on disk | Get, Set, Consume, Delete, DeleteExpired, one SQL statement each | a key has one row; exactly one of several concurrent Consumes gets it; the sweep takes nothing that is still needed |
| webauth (`webauth/`) | links in the KV table; sessions are signed tokens, kept by browsers | MintLink, Redeem, Refresh, Verify | a link logs in once; who is shown as a member was one less than RecheckInterval ago; a login ends after SessionTTL |
| dashboard (`examples/webauth-dev/web`) | a cookie per browser | landing route `/auth`, middleware of `/dashboard` | nobody who was removed sees a page for long; it fails closed |
| scheduler (`bot/schedule.go`, `schedule/`) | one goroutine per job, marker rows in the KV table | OnSchedule, startJobs, runJob, fireJob, UntilNext | one run at a time per job, one success per day for daily jobs, starts online, goes on |
| pairing API (`pairing/server.go`) | `lastPair`, in memory, under a mutex | POST /pair; GET /status, /groups, /healthz read only | attempts are spaced, however many come in at once |
| transport session (`transport/client.go`) | session database, one socket; hooks | Connect, Pair, Disconnect, handleEvent | events reach their hooks |
| group queries (`transport/`) | none; the calls in progress | IsMember, IsMemberOfAny, AllGroups, Members, with retries | no stranger is taken for a member or for the bot, members are found, every call ends |
| approvals (`transport/client.go`) | none; the calls in progress | PendingRequests, Approve | a refusal is never taken for success, an unknown LID never for a number |
| identity (`identity/`) | none | Normalize | the spellings of one number are one key |
| bot lifecycle (`bot/bot.go`) | how far Run is; the wiring of all of it | New, Run | a loss of the session is reported; the parts do not disturb each other; it stops when asked, and not under a login |
| dispatch and gate (`bot/bot.go`, `gate/`) | the whitelist; a goroutine per message | dispatch, handle, Allows | DMs and groups are gated closed, members are heard |
| message building (`bot/message.go`, `bot/bot.go`) | none | buildMessage, mediaFor | a handler is told the right sender, and its parts agree |
| configuration of logins (`webauth/config.go`) | none | Validate, withDefaults | what is accepted is what webauth can run with |
| send errors, redact, telemetry | none | pure functions, output | - |

They interact by calls, by hooks that the transport runs on goroutines of their own
(connected, logged out), by HTTP (dashboard to bot, operator to bot), and through the one KV
table, in which webauth and the scheduler use disjoint prefixes.

Behaviours that are hard to test: handlers interleave at every store access and at every
membership query, which takes seconds; the clock is read at one moment and used at a later
one; processes die between two steps of which only one is durable; errors of the store are
dropped by the scheduler; timers and dates follow two different clocks; times are compared in
truncated seconds, by Go, TypeScript and SQLite. `PROJECT.json` lists each hazard at its line
with the properties that are about it.

## 2. Modules

| Module | What it is |
|---|---|
| `KV` | the SQL statements of the store, as operators on a set of rows |
| `MagicLink` | what a magic link promises: abstract, no store, no requests |
| `WebAuth` | webauth over the table, one action per blocking step of a call |
| `Dashboard` | extends `WebAuth` with browsers, cookies and the two fetches |
| `Scheduler` | the job loops, hooks, markers, clocks, shutdown and restart |
| `Pairing` | the session: boots, POST /pair, pairing over the socket, logouts and OnPairingLost |
| `Identity` | phone numbers, LIDs and JIDs, and the code that compares them, as operators |
| `PhoneNumbers` | extends `Identity`: what is claimed of every string that can be written as a number; no state |
| `Rosters` | extends `Identity` with WhatsApp's side: rosters, records, learned LIDs |
| `Membership` | extends `Rosters` with IsMember and AllGroups, step by step |
| `Envelope` | what a handler is told of a message's content, as operators |
| `Dispatch` | extends `Rosters` and `Envelope` with the life of a message, from the event loop to the handler |
| `Approvals` | extends `Rosters` with join requests and the jobs that approve them |
| `Config` | the configurations webauth accepts and how they are filled in, as operators |
| `Lifecycle` | extends `WebAuth`, instantiates `Scheduler`: one bot, from boot to shutdown, and both over one table |
| `WebAuthProofs`, `SchedulerProofs`, `PairingProofs` | theorems and proofs about the module of that name |
| `BotProofs` | extends `WebAuthProofs`: theorems about `Dashboard`, `Config` and `Lifecycle` |
| `IdentityProofs` | theorems about `Identity` and `PhoneNumbers`, and lemmas about `Rosters` |
| `MembershipProofs`, `DispatchProofs`, `ApprovalsProofs` | extend `IdentityProofs` and the module of that name |
| `MC...` | what TLC needs beside the constants: symmetry, numbers, configurations |

**KV.** A row has a key `<<namespace, name>>`, a value and `updated_at` in whole seconds; the
`LIKE` of `DeleteExpired` is a test of the namespace. SQLite makes a statement atomic, so each
operator is applied in one step. `Opened` is what a new process finds. Where the code can meet
an error, the calling module has a disjunct for it, and where an error may hide a statement that
did take effect (a lost answer, a cancelled context) both outcomes are there.

**WebAuth.** `req[r]` is a handler goroutine: `pc` says which step is next and the other fields
are the local variables it has set. `MintLink` is MintSweep, MintStamp, MintStore; `Redeem` is
RedeemLookup, RedeemExpiry, AssertMember, Mint; `Refresh` is RefreshStart, AssertMember, Mint.
Every boundary is a point where the code waits for the database or WhatsApp, or reads the
clock. `Crash` ends every request and leaves the table and the tokens. The clock counts ticks,
`TicksPerSecond` of them to the Unix second that tokens, records and rows are stamped in. A
token is its claims: `issued` has the claims of every token ever signed, and Refresh may be
given any of them at any time, as a browser may keep one for long. Join and Leave change the
roster at any moment. `left` and `logins` are history that no action reads.

**Dashboard.** `fetch[r]` is a fetch of the web app which request `r` of the bot serves. It may
not arrive (Unreachable), its answer may get lost (LoseAnswer), the bot may crash under it
(BotCrash). `Answer` sets the cookie and, for a refresh, serves the page with the claims the
middleware had verified, which is what the page is rendered from. `page` is the page served by
the last step, with the moment it was asked for. One browser may have several fetches in
flight. Links are minted meanwhile, and people come and go (DevMint and DevMembers: the two
routes by which the devserver stands in for WhatsApp, and in production the chat and the group).

**Scheduler.** `loop[<<job, slot>>]` is a goroutine; a job has more than one slot only so that
starting it twice can be seen. Timers count down with Tick and are unaffected by ClockStep,
which sets the wall clock that dates are read from; a timer that is due may be served late.
`process` is "stopping" between the cancellation of the context and Run's return, while
jobs still run: their KV calls can only fail then. `gaps` counts, per job and date, the times a
marker was not read or not left: an error of Get or Set, a cancelled context, or a
process that ended between the run and its marker. A timer's delay for an interval job is any
value the jitter can produce. An error of the app's job and the end of an interval job are one
case, AfterError: nothing is marked and the loop comes round.

**Pairing.** `post[r]` is a handler of POST /pair: it checks that the bot is unpaired, takes the
lock for the cooldown, looks again and opens a socket, waits for the first QR event and asks for a code. Run
serves the ops API before it connects, so POSTs may come in between. The session database
(`paired`) survives an Exit, the cooldown does not. Each loss of the session has a number; a
pending logged-out hook is the number it reports.

**Identity, PhoneNumbers.** A number is a sequence of digits, and what is written beside digits
is a `Separator`. A JID has a user and a server. `Normalize`, `SameJID`, `ResolvePhone`,
`MembersFrom`, `Matches` (the loop of IsMember) and `ParticipantIsSelf` are the functions of the
code; `ResolvePhone` is given the set of persons whose LID a lookup finds.
`PhoneNumbers` has no variables: FormsAgree and Canonical range over the constant set of all strings
up to a length. TLC evaluates them as an assumption of `MCMembership`, whose IsMember compares
normalised numbers.

**Rosters.** Groups use one form, phone or LID, and a record may or may not carry the other
(`bare`). The session database learns LIDs (Learn) and may stop answering (DbFlaps). `Findable`
says of a person, not of JIDs, when the code could know them; properties use it, actions do not.

**Membership.** A call takes a snapshot (Fetch), or meets a 429 and pauses, or an error; what it
makes of the snapshot (AnswerIsMember, AnswerAllGroups) comes later. Members is AllGroups for
one group without the admin flag. All local lookups of one answer are one step.

**Dispatch.** `task[m]` is the goroutine of message `m`. The configuration is chosen at the
start; entries of ManagedGroups are groups or one of three kinds of other text. `LookInGroup` and
`AskGroup` are one round of IsMemberOfAny, in any order of the groups, as a configuration may
list them in any. `Incoming` is where messages may come from and whom from. `Build` is buildMessage, which resolves the sender once more; the content of a
message matters from there on and is chosen there. The handler may reply once, and may never return.

**Envelope.** A WhatsApp message is a bundle of optional parts, any of which may be there at once;
Kind, Text, MediaFor and Quoted are what buildMessage makes of them. A text is one of two, so
that one beside a picture can be told from the caption under it, or empty.

**Config.** Durations are integers, 0 or less for "not set", and a URL is its kind and the number
of slashes it ends in; `Accepted` is what `withDefaults` lets through and `WithDefaults` what it
returns then. It takes one slash off the URL, so filling in twice is not filling in once: Validate
(when the bot is built) drops what it has filled in, and New fills in the original. `MCWebAuth` has TLC evaluate that its constants
are what an unset configuration gets, and AcceptedIsSound over a range of times.

**Lifecycle.** `stage` is where Run is: serving (before Connect), running, draining (in
srv.Shutdown), returned, or failed (Connect returned another error than a missing session, so Run
returned without shutting its server). The steps of calls and jobs are the actions of `WebAuth`
and `Scheduler` themselves, over one table and one clock; the module says when each can happen:
calls of the dashboard begin while the server listens, MintLink while the process lives, and what
needs the table or the socket fails once that is closed. `stopAt` is the start of Shutdown's grace.
Nobody joins or leaves here (the roster is any, and fixed): WebAuth is where they do.

**Approvals.** `sweep[s]` is a goroutine of the app. WhatsApp's answer to Approve mentions any of
the requesters, admitted or refused, and may be lost after it acted. `recorded` is what the app
believes.

## 3. Runs

| Run | Checks | Instance |
|---|---|---|
| `webauth` | TypeOK, SingleWinner, RevocationLag, SessionCeiling, SweepSparesLive, KeepsPromise | 2 requests, 2 nonces, 1 member, 1 group, times 1/3/2, clock to 5, calls until 2 tokens are out; assumes UnsetIsTheInstance, AcceptedAreSound |
| `dashboard` | DashTypeOK, ViewsVouched, ViewsEndAfterCeiling, FetchAnswered | 1 browser with 2 fetches, 1 nonce, times 1/3/2, clock to 5 |
| `dashboard_ceiling` | ViewsWithinCeiling, **violated** | the same, clock to 4 |
| `scheduler` | TypeOK, OncePerDay, MarkersEarned, Sequential, StartsOnline, KeepsFiring | a daily and an interval job, 2 processes, days of 2 ticks, clock to 3, 1 clock step |
| `scheduler_once` | AtMostOncePerDay, **violated** | 1 daily job, 2 processes, clock to 4, no clock step |
| `scheduler_offline` | TicksOnline, **violated** | 1 daily job, 1 process, clock to 3, no clock step |
| `pairing` | TypeOK, PairsNoSession, AttemptsSpaced, LossReported | 2 POSTs, cooldown 2, clock to 4, 2 processes, 2 losses |
| `membership` | TypeOK, MembersOnly, MembersKnown, OwnAdmin, PhonesRight, Answered; assumes FormsAgree, Canonical | 2 persons with each other's digits, 1 group, 1 call, 2 changes; numbers of 3 digits and a separator, up to 5 characters |
| `dispatch` | TypeOK, OnlyAdmitted, MembersHeard, SenderTold, EnvelopeAgrees | 2 persons, 2 groups, 1 message with 7 contents from one person, 6 configurations, 2 changes |
| `dispatch_direct` | OnlyOneToOne, **violated** | as `dispatch` |
| `lifecycle` | StopSparesLogins, LinksUndisturbed, JobsUndisturbed, PromiseOfLinks, StopsWhenAsked | 1 request, reusable links, times 1/1/1, 2 ticks to the second, clock to 2, 1 daily job, 2 starts, a grace of 1 tick |
| `approvals` | TypeOK, OnlyListedLetIn, ListedRecognised, NobodyStranded | 3 persons, 2 on the list, in 4 spellings each, the LID of the third is the number of one of them, 2 jobs, 3 changes |

What they show:

- *SingleWinner, KeepsPromise.* Taps of one link, the sweep, crashes and store errors never let
  a single-use link log in twice, and every step of every call is a step of `MagicLink` or none:
  a login happens only while the link is on offer and in time, and is dated from a moment at
  which its member was in the group. The refinement maps a link to "on offer" while its row is
  in the table or a redeem that read the row is still running.
- *RevocationLag, SessionCeiling.* They hold although the clock is read before the membership
  query, since everything is dated from that earlier reading.
- *SweepSparesLive.* The row is stamped by SQLite after the expiry was computed by Go, so the
  sweep errs on the late side.
- *ViewsVouched, ViewsEndAfterCeiling, ViewsWithinCeiling.* The dashboard keeps the revocation
  lag, but the middleware serves past the ceiling, by less than RecheckInterval.
- *OncePerDay, AtMostOncePerDay.* A daily job succeeds once per date, and once more for each
  time its marker was not read or not left; without that exception the promise does not hold. The
  counterexample needs no shutdown: a timer is served late, past midnight, its run leaves no
  marker, and the regular timer of that date runs the job again. A bot that is restarted past the
  hour waits for the next day, since UntilNext is strictly after now (the example of SPEC.md 6.2,
  a restart at 09:05, is kept); with a clock set back the second firing may be the next process's.
- *MarkersEarned.* A tick is skipped only on a date that had its success: an error, a process that
  ends in between and a run past midnight leave no marker that would cost another run.
- *StartsOnline, Sequential.* Jobs start once, when the bot is first online, with one loop each
  however the connection flaps.
- *KeepsFiring, TicksOnline.* A loop comes round after an error and after a marker that was found
  or could not be left, for as long as the bot is online. What it does while the bot is offline is
  what TicksOnline asks: the documentation has jobs not fire into a dead socket, and they do,
  since nothing in runJob looks at the connection.
- *PairsNoSession.* Client.Pair looks for a session once more, so a POST that was let in before
  another was answered and its code typed in does not pair over the new session.
- *AttemptsSpaced.* The lock makes the cooldown hold among concurrent POSTs. A restart resets it.
- *LossReported.* A loss is reported at least once, thanks to the boot that finds no session;
  that same boot is why it may be reported again, although bot.go says once per loss.
- *FetchAnswered.* Every fetch of the dashboard ends, whatever the bot does, crashes included.
- *FormsAgree, Canonical.* Trunk zeros, country code and separators lead to one key, and keys
  are keys of themselves (constant formulas, evaluated with the assumptions of `membership`).
- *MembersOnly, MembersKnown.* IsMember's answer is true of some moment while it was asked; it
  misses a member only if neither the form asked for is shown nor the number known on both sides.
- *OwnAdmin, PhonesRight.* The same for the bot itself and for lists: collisions of LIDs and
  numbers mislead nobody.
- *Answered.* The retries end.
- *OnlyAdmitted, MembersHeard, OnlyOneToOne.* Whatever the queries answer, a handler sees only
  what its policy lets in, and a member who stays is not refused. "DM" includes status updates.
- *SenderTold.* The number a handler is told is the sender's, although it is looked up apart from
  the check that let the sender in. It may be missing for a sender that this check let in by
  number, if the session database fails in between, and only for a LID that was not resolvable
  all the while.
- *EnvelopeAgrees.* Kind, text and media agree for every combination looked at, wrapped ones and a
  message with several parts included, and Text is something that was written, or empty if nothing
  was. It is one text: of a plain text and a caption in one message the caption is in Raw only
  (`firstNonEmpty`), which is less than "plain text AND captions, unified" (SPEC.md:328,
  message.go:50) says. Nothing is stated of the reply context: contextInfoOf
  (message.go:167-181) does not look in stickers, contacts or locations, although
  docs/examples.md:278 calls it orthogonal to Kind, and Quoted.SenderPhone is never set.
- *LinksUndisturbed, JobsUndisturbed, PromiseOfLinks.* The bot as a whole implements `WebAuth` on
  the table's rows of links and `Scheduler` on its markers: every step of one is a step of its own
  specification or a stutter, although the sweep runs over both and the table closes under them.
  PromiseOfLinks takes it one level further, to `MagicLink`: the promise of a link holds in a bot
  that is stopped at any step, also one whose Connect failed and whose server serves on.
- *StopSparesLogins, StopsWhenAsked.* Shutdown comes before Disconnect, so the socket is not taken
  from a login before the grace is over; and nothing but the grace can hold a bot up that is to
  stop. Retries take up to 15 s and the grace is 5 s, so a login that is backing off when the bot
  stops may burn its link.
- *OnlyListedLetIn, ListedRecognised, NobodyStranded.* No LID passes for a number, who is on the
  list is recognised however the list spells the number, and who is recorded as admitted
  was, unless WhatsApp was silent about them.

The four violated properties are statements of the documentation; `PROJECT.json`'s findings
quote them and each has a weaker property beside it that does hold.

**Bounds.** `MaxNow`, `MaxWall`, `MaxSteps`, `MaxStarts`, `MaxHooks`, `MaxStagger`, `MaxIssued`,
`MaxLosses` and `MaxMoves` (changes on WhatsApp's side) bound counters in guards. The clock of
`webauth` passes LinkTTL, RecheckInterval and SessionTTL, so links expire, tokens are refreshed
and logins reach the ceiling. Two requests are enough for each race named in the hazards, which
are races of two. `MaxIssued` stops new calls after two tokens (calls in flight go on): a login
and its refresh, or two logins. In `dashboard` RecheckInterval is
above a tick and SessionTTL is no multiple of it, so tokens outlive their ceiling and pages are
asked for past it. The scheduler's clock covers two days and the midnight between,
and its two processes a restart. Rosters, forms and records are arbitrary to begin with, so
two changes give every combination of before and during a call, a sender who moves from one group
to another and a LID that is learned and then not found among them; concurrent calls of
`Membership` do not interact, nor do messages of `Dispatch`, each of which has a goroutine of
its own. The two persons of `dispatch` have each other's digits: exchanging their names and the
digits maps the instance to itself, so it is enough that one of them writes. `lifecycle` asks
what one component's steps do to the other, for which one call and one job suffice (races among calls are `webauth`'s); its clock passes every TTL, the date of the job
and the grace, and its second start finds what the first left. Reusable links are run there, and
in `webauth` single-use ones; the theorems are about both. The theorems below do not depend on
these bounds.

CHECK_DEADLOCK is off since the clocks and counters are bounded: a run that has used them up
stops.

**Fairness.** Safety properties do not need any: the theorems and the violated properties are
about specifications without it. `dashboard` assumes that a fetch arrives or fails, that a
handler goes on and that an answer arrives or is given up on: net/http runs every handler and
fetch rejects on a closed connection. `scheduler` assumes that time passes, that goroutines
are scheduled and that the app's jobs return. `pairing` assumes that the platform restarts the
bot, that Run goes on and that hooks are scheduled. `membership` assumes that WhatsApp answers,
be it with a 429, or whatsmeow times out, and that timers fire. `lifecycle` assumes that Run goes
on from one of its own calls to the next, that main returns after it and that time passes, and
nothing of calls, jobs or WhatsApp: that is what StopsWhenAsked is about. Nothing else is assumed of
WhatsApp, of people, or of the connection.

## 4. Proofs

All theorems are checked by tlapm and hold for every value of the constants under the
assumptions in the modules, which TLC evaluates in the runs too:

- `TimesAssumption`: durations are natural numbers and, as `withDefaults` insists,
  RecheckInterval is at most SessionTTL; `SingleUseAssumption`, `CookieAssumption`,
  `GraceAssumption`, `PairingAssumption`: the types of the other settings;
- `DefaultsAssumption`, `SecretsAssumption`: the default times are positive and in order;
- `SchedulerAssumption`, and `JobsAssumption` for the bot: a day has ticks, its hour is in it;
- `NumbersAssumption`: numbers are keys, and a number or a LID is one person's;
- `RostersAssumption`, `MembershipAssumption`, `DispatchAssumption`, `ApprovalsAssumption`: the
  bot, its administrators and the people on the list are persons, what is written on the list
  is digits and separators; `ListAssumption`: no entry of it reads as two people's number.

| Theorem | States |
|---|---|
| `TypeCorrect` | WebAuth: Spec => []TypeOK |
| `SingleWinnerHolds` | Spec => []SingleWinner |
| `RevocationLagHolds` | Spec => []RevocationLag |
| `SessionCeilingHolds` | Spec => []SessionCeiling |
| `SweepSparesLiveHolds` | Spec => SweepSparesLive, if LinkTTL is a whole number of seconds |
| `KeepsPromiseHolds` | Spec => KeepsPromise: WebAuth implements MagicLink |
| `DashTypesHold` | Dashboard: DashSafety => []DashTypeOK |
| `ViewsVouchedHolds` | DashSafety => []ViewsVouched |
| `ViewsEndHolds` | DashSafety => []ViewsEndAfterCeiling |
| `AcceptedIsSound` | Accepted(c) => Sound(WithDefaults(c)), for any configuration |
| `LinksUndisturbedHolds` | Lifecycle: BotSpec => LinksUndisturbed: the bot implements WebAuth |
| `JobsUndisturbedHolds` | BotSpec => JobsUndisturbed: the bot implements Scheduler |
| `PromiseOfLinksHolds` | BotSpec => PromiseOfLinks: the bot implements MagicLink |
| `StopSparesLoginsHolds` | BotSpec => []StopSparesLogins |
| `LoginsInABot` | BotSpec => [](SingleWinner, RevocationLag and SessionCeiling) |
| `JobsInABot` | BotSpec => [](OncePerDay, MarkersEarned, Sequential and StartsOnline) of its jobs |
| `SchedulerTypes` | Scheduler: SafeSpec => []TypeOK |
| `OncePerDayHolds` | SafeSpec => []OncePerDay |
| `MarkersEarnedHolds` | SafeSpec => []MarkersEarned |
| `SequentialHolds` | SafeSpec => []Sequential |
| `StartsOnlineHolds` | SafeSpec => []StartsOnline |
| `PairingTypes` | Pairing: SafeSpec => []TypeOK |
| `PairsNoSessionHolds` | SafeSpec => []PairsNoSession |
| `AttemptsSpacedHolds` | SafeSpec => AttemptsSpaced |
| `CanonicalHolds` | Normalize gives digits and is idempotent, for strings of any length |
| `NationalForm` | trunk zeros and separators do not change a number's key, for any length |
| `MembershipTypes` | Membership: SafeSpec => []TypeOK |
| `MembersOnlyHolds` | SafeSpec => []MembersOnly |
| `MembersKnownHolds` | SafeSpec => []MembersKnown |
| `OwnAdminHolds` | SafeSpec => []OwnAdmin |
| `PhonesRightHolds` | SafeSpec => []PhonesRight |
| `DispatchTypes` | Dispatch: Spec => []TypeOK |
| `OnlyAdmittedHolds` | Spec => []OnlyAdmitted |
| `MembersHeardHolds` | Spec => []MembersHeard |
| `SenderToldHolds` | Spec => []SenderTold |
| `EnvelopeAgreesHolds` | Spec => []EnvelopeAgrees |
| `ApprovalsTypes` | Approvals: Spec => []TypeOK |
| `OnlyListedLetInHolds` | Spec => []OnlyListedLetIn |
| `ListedRecognisedHolds` | Spec => []ListedRecognised, if the list spells numbers as `Spells` says |
| `NobodyStrandedHolds` | Spec => []NobodyStranded |

AcceptedIsSound is why `TimesAssumption` may be assumed: a bot that starts has it. None of the
invariants is inductive by itself.

**WebAuth.**

- *SingleWinner*: the nonce of a link is in at most one place. Beside the logins, the
  strengthening counts the rows of the table, the requests that hold a link they have read, and
  the nonces drawn but not stored; nonces are never drawn twice.
- *RevocationLag*: every token was signed by a request that saw its member in the group after the
  moment the token is dated from; so `LastIn` is no earlier than that moment. The strengthening
  states it of the requests past the membership query too. Division enters only through
  Unix being monotonic and Unix(t + d) being above Unix(now) only if t + d is above now.
- *SessionCeiling*: the ceiling of every token, and of every request on its way to a token, is
  that of a login of the same member and group, or of the one the request is about to become.
- *SweepSparesLive*: a row's expiry is at most its `updated_at` plus LinkTTL in seconds, because
  the record is stamped before the row. Whole seconds are needed: with a LinkTTL below a second
  the age passed to SQLite truncates to 0 and a live link could be swept. The default is 15
  minutes.
- *KeepsPromise*: each step is shown to offer, withdraw, log in, renew, or do nothing. A step
  that removes a row without holding it withdraws the link; a login uses the link that its
  request holds. The invariant (PromiseInv) is the first three above and OfferInv: a nonce is on
  offer on one set of terms and not before it is stored, its expiry is LinkTTL after some past
  moment, a redeem past the expiry check was in time, and a refresh carries the ceiling of a token
  that was below it.

**Dashboard.** DashInv follows a fetch through the bot: a refresh is dated after the page was
asked for and below the ceiling, and its member was in when the bot asked; hence what the page is
rendered from is vouched for. *ViewsEndAfterCeiling* rests on TokensEnd: a token expires within
RecheckInterval of a moment below its ceiling, where each truncation loses less than a second.

**Scheduler.** *OncePerDay*: without a marker, and with none about to be left, every success of a
date is paid for by a gap; so is every success before the run in progress (RunsPaid). An exit
between the run and its marker adds exactly one gap, which needs *Sequential*; that and
*StartsOnline* follow from StartInv: there are no loops before startOnce has run, and no hook
before the process was online. *MarkersEarned* is inductive with one more fact (EarnedInv): a loop
that is about to leave a marker is of a daily job that has succeeded for the loop's date; in a bot,
a marker is looked up among the links as well, which it does not notice (MarkersLookedUp).

**Lifecycle.** Every statement of the store that touches one prefix does to that component's rows
what it says of the whole table and leaves the other rows alone (SetAlone, ConsumeAlone,
SweepAlone, LookedUpAlone). With these, each step of the bot is matched with a step of the
component over its own rows. End is a Crash of WebAuth, or a stutter when no call is under way,
for which idle calls must remember nothing (IdleClean); Return is a Disconnected of the Scheduler.
The results about `WebAuth` and `Scheduler` are then used for the bot by instantiating
`WebAuthProofs` and `SchedulerProofs` with those rows. *StopSparesLogins*: the socket goes only
when no served call is left or the grace is over, time only goes forward, and nothing becomes a
served call once the server has stopped listening.

**Identity.** `Normalize` reads its string in a loop. That a fold of a sequence keeps what it has
read is shown by looking at the least place at which it would not, which the library's theorem on
well-founded orders provides (`Least`); it takes a set and so needs no induction scheme.

**Membership, Dispatch.** The invariants say what an answer is worth at the moment it is looked at
(ReadAs): the snapshot it is made from has the records of people who were in the group at some
moment of the call, and of all who were in it all the while; it was taken earlier, but a group
does not change the form it uses. *MembersOnly* and *PhonesRight* follow since no number or LID is two
people's. For Dispatch it is kept for the group being asked, beside which groups are still to be
asked (a sender who stayed is in one of those or not refused); what the handler is told is
resolved once more, later, which gives the same number, or none, and then the sender was not
findable by number all the while. *EnvelopeAgrees* is a property of the
operators, by cases on the first part that each of them finds.

**Approvals.**

- *OnlyListedLetIn*: a request in a job's list has the number of the person who asks, or none
  (RightNumbers), whatever the session database knew when it was looked up; so what the app picks
  is on its list, and stays so while the job waits, since a group does not change the form it
  uses.
- *NobodyStranded*: the app records a batch only after an answer without a refusal, in which all
  that are mentioned were admitted or in the group already.
- *ListedRecognised*: by NationalForm. It supposes that the list has numbers with their country
  code, or in the national form (`Spells`), as the instance of the run has; an international
  prefix 00 gives another key.

**Pairing.** *PairsNoSession*: the bot becomes paired only over a pairing socket, which is a session's
from then on, and no other socket is opened to pair over while it is. *AttemptsSpaced*: under the lock `lastPair` is the latest attempt of this process.

Only model-checked: the liveness properties (FetchAnswered, KeepsFiring, LossReported, Answered,
StopsWhenAsked), which are out of the prover's reach; FormsAgree as a whole, whose reference filters
the string where the code loops over it (NationalForm and CanonicalHolds are what is proved of
it); and the violated properties, which are counterexamples.

## 5. Not modelled

Formatting, logging, HMAC and JSON (a token or record is its fields, and only signed tokens
verify); bearer tokens of the two HTTP APIs and the routes of the ops mux; daylight saving (days
have one length); the payloads of messages (vCards, coordinates, MIME types, mentions) and what
whatsmeow makes of a download. `send/errors.go` classifies error texts by substring, `redact` and
`telemetry` are output, `store/sqlite.go` opens a file: text and I/O, with no state that another
part reads. The methods of `bot/actions.go` pass calls on to the transport and are not steps of
their own; of the sample bot its context, return and replies are there, its reading of the
environment is not.
WhatsApp, whatsmeow, the browser, SQLite's internals and the clocks are external and appear as
far as the code in `src/` shows what it expects of them.

## 6. Plan

Done: all modules above, and the theorems of section 4, which cover every invariant and action
property that the runs check. Left:

1. An abstract membership question (an answer that was true at some moment), which `Membership`
   implements and `WebAuth` and `Dispatch` use.
2. Proofs: that the key of FormsAgree's reference is that of the code's loop; that a session
   ends for good once its member has left for RecheckInterval, from RevocationLag.
