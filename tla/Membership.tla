----------------------------- MODULE Membership -----------------------------
(***************************************************************************)
(* The questions that the bot asks of WhatsApp's groups                    *)
(* (transport/client.go, transport/message.go): IsMember, which admits to  *)
(* the dashboard, and AllGroups, which tells where the bot is an admin and *)
(* who the members are.  One action per step: the call to WhatsApp, the    *)
(* pause after a 429, and what is made of the answer, which may be old by  *)
(* then.                                                                   *)
(* seen and stayed are not in the program: they record what the properties *)
(* speak of and nothing reads them.                                        *)
(***************************************************************************)
EXTENDS Rosters

CONSTANTS
  Queries,      \* goroutines, each of which asks once
  Bot,          \* the person that the bot's account is to WhatsApp
  MaxAttempts   \* of withRateRetry

ASSUME MembershipAssumption == Bot \in Persons /\ MaxAttempts \in Nat \ {0}

VARIABLES
  own,      \* the forms of its own that the session knows
  query,    \* the local variables of each call
  seen,     \* who was in which group at some moment of each call
  stayed    \* who was in which group, and findable, all the while

vars == <<world, own, query, seen, stayed>>

Questions ==
  [kind : {"IsMember"}, groups : {{g} : g \in Groups}, jid : JIDs]
    \cup [kind : {"AllGroups"}, groups : {Groups}, jid : {NoJID}]

NoQuestion == [kind |-> "none", groups |-> {}, jid |-> NoJID]

Nothing == [g \in {} |-> {}]

(* info is what WhatsApp answered, list what AllGroups returns.            *)
Idle == [pc |-> "idle", question |-> NoQuestion, attempt |-> 0,
         info |-> Nothing, list |-> Nothing]

Init ==
  /\ RostersInit
  /\ own \in {{"pn"}, {"pn", "lid"}}
  /\ query = [q \in Queries |-> Idle]
  /\ seen = [q \in Queries |-> {}]
  /\ stayed = [q \in Queries |-> {}]

(* Store.ID and Store.LID.                                                 *)
SelfJID == IF "pn" \in own THEN PN(Bot) ELSE NoJID

SelfLID == IF "lid" \in own THEN LID(Bot) ELSE NoJID

-----------------------------------------------------------------------------
Here == {x \in Groups \X Persons : x[2] \in roster[x[1]]}

FoundHere(question) ==
  IF question.kind = "IsMember"
  THEN {x \in Here : Findable(x[1], x[2], question.jid)}
  ELSE Here

WorldMoves ==
  /\ RostersNext
  /\ UNCHANGED <<own, query>>
  /\ seen' = [q \in Queries |-> seen[q] \cup Here']
  /\ stayed' = [q \in Queries |->
                  stayed[q] \cap FoundHere(query[q].question)']

(* The device is unlinked: both forms are gone.                            *)
LogOut ==
  /\ own # {}
  /\ own' = {}
  /\ UNCHANGED <<world, query, seen, stayed>>

-----------------------------------------------------------------------------
Goes(q, from, to) == query[q].pc = from /\ query' = [query EXCEPT ![q].pc = to]

(* A call begins; IsMember of nobody is answered at once.                  *)
Ask(q, question) ==
  /\ query[q].pc = "idle"
  /\ query' = [query EXCEPT
       ![q].pc = IF question.kind = "IsMember" /\ IsEmpty(question.jid)
                 THEN "no" ELSE "call",
       ![q].question = question]
  /\ seen' = [seen EXCEPT ![q] = Here]
  /\ stayed' = [stayed EXCEPT ![q] = FoundHere(question)]
  /\ UNCHANGED <<world, own>>

(* GetGroupInfo, GetJoinedGroups: an answer, a 429, or an error.           *)
Fetch(q) ==
  /\ own # {}
  /\ query[q].pc = "call"
  /\ query' = [query EXCEPT
       ![q].pc = "match",
       ![q].info = [g \in query[q].question.groups |-> GroupInfo(g)]]
  /\ UNCHANGED <<world, own, seen, stayed>>

(* Mutant: the attempts are not counted.                                   *)
NotCounted(q) == query[q].attempt

Counted(q) == query[q].attempt + 1

RateLimited(q) ==
  /\ query[q].pc = "call"
  /\ query' = [query EXCEPT ![q].pc = "backoff", ![q].attempt = Counted(q)]
  /\ UNCHANGED <<world, own, seen, stayed>>

FetchFails(q) ==
  /\ Goes(q, "call", "error")
  /\ UNCHANGED <<world, own, seen, stayed>>

(* Mutant: one attempt too many.                                           *)
OneMore(q) == query[q].attempt <= MaxAttempts

AttemptsLeft(q) == query[q].attempt < MaxAttempts

(* withRateRetry pauses after its last attempt too.                        *)
BackoffOver(q) ==
  /\ Goes(q, "backoff", IF AttemptsLeft(q) THEN "call" ELSE "error")
  /\ UNCHANGED <<world, own, seen, stayed>>

Cancelled(q) ==
  /\ Goes(q, "backoff", "error")
  /\ UNCHANGED <<world, own, seen, stayed>>

(* What IsMember makes of the participants; the lookups are local.         *)
AnswerIsMember(q) ==
  /\ query[q].question.kind = "IsMember"
  /\ \E g \in query[q].question.groups :
       Goes(q, "match",
            IF Matches(query[q].info[g], query[q].question.jid, Store)
            THEN "yes" ELSE "no")
  /\ UNCHANGED <<world, own, seen, stayed>>

Summary(recs) ==
  [isAdmin |-> SelfIsAdmin(recs, SelfJID, SelfLID),
   members |-> MembersFrom(recs, Store)]

AnswerAllGroups(q) ==
  /\ query[q].question.kind = "AllGroups"
  /\ query[q].pc = "match"
  /\ query' = [query EXCEPT
       ![q].pc = "listed",
       ![q].list = [g \in query[q].question.groups |->
                      Summary(query[q].info[g])]]
  /\ UNCHANGED <<world, own, seen, stayed>>

-----------------------------------------------------------------------------
Call(q) == Fetch(q) \/ RateLimited(q) \/ FetchFails(q)

Answer(q) == AnswerIsMember(q) \/ AnswerAllGroups(q)

Next ==
  \/ WorldMoves \/ LogOut
  \/ \E q \in Queries :
       \/ \E question \in Questions : Ask(q, question)
       \/ Call(q) \/ BackoffOver(q) \/ Cancelled(q) \/ Answer(q)

SafeSpec == Init /\ [][Next]_vars

(* WhatsApp answers or whatsmeow gives up, timers fire, goroutines run.    *)
Fairness ==
  \A q \in Queries :
    WF_vars(Call(q)) /\ WF_vars(BackoffOver(q)) /\ WF_vars(Answer(q))

Spec == SafeSpec /\ Fairness

-----------------------------------------------------------------------------
(* Types; a call has an answer to look at when it looks, and no attempt    *)
(* too many.                                                               *)
TypeOK ==
  /\ RostersTypeOK
  /\ own \in {{}, {"pn"}, {"pn", "lid"}}
  /\ \A q \in Queries :
       /\ query[q].pc \in {"idle", "call", "backoff", "match", "yes", "no",
                           "listed", "error"}
       /\ query[q].question \in Questions \cup {NoQuestion}
       /\ query[q].attempt \in 0..MaxAttempts
       /\ query[q].pc = "call" => query[q].attempt < MaxAttempts
       /\ query[q].pc = "match" =>
            DOMAIN query[q].info = query[q].question.groups
       /\ seen[q] \subseteq Groups \X Persons
       /\ stayed[q] \subseteq seen[q]

(* IsMember says yes only of somebody who was in the group while it was    *)
(* asked: nobody is admitted for a number that is the LID of a member, or  *)
(* for a number that is not known (client.go:367-370, message.go:81-82).   *)
MembersOnly ==
  \A q \in Queries :
    query[q].pc = "yes" =>
      \E x \in seen[q] :
        x[1] \in query[q].question.groups /\ query[q].question.jid \in Forms(x[2])

(* It says no only if that person was not in the group all the while, or   *)
(* was not findable: neither form shown and no number known on both sides. *)
MembersKnown ==
  \A q \in Queries :
    query[q].pc = "no" =>
      \A x \in stayed[q] : x[1] \notin query[q].question.groups

(* The bot finds itself under either form and never takes somebody else    *)
(* for itself (client.go:375-382).                                         *)
OwnAdmin ==
  \A q \in Queries :
    query[q].pc = "listed" =>
      \A g \in query[q].question.groups :
        /\ query[q].list[g].isAdmin => Bot \in Admins /\ <<g, Bot>> \in seen[q]
        /\ /\ own = {"pn", "lid"}
           /\ Bot \in Admins /\ <<g, Bot>> \in stayed[q]
           => query[q].list[g].isAdmin

(* Whoever is a member all the while is listed, and a number in the list   *)
(* is the number of that member, or missing (client.go:321-322).           *)
PhonesRight ==
  \A q \in Queries :
    query[q].pc = "listed" =>
      /\ \A x \in stayed[q] :
           \E m \in query[q].list[x[1]].members : m.JID \in Forms(x[2])
      /\ \A g \in query[q].question.groups, p \in Persons :
           \A m \in query[q].list[g].members :
             m.JID \in Forms(p) => m.Phone \in {<<>>, PhoneOf[p]}

(* Every question is answered, however often WhatsApp says 429.            *)
Answered ==
  \A q \in Queries :
    query[q].pc = "call" ~> query[q].pc \in {"yes", "no", "listed", "error"}
=============================================================================
