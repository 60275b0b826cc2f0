------------------------------ MODULE Dispatch ------------------------------
(***************************************************************************)
(* What becomes of a message (bot/bot.go, gate/gate.go): the event loop    *)
(* hands it to a goroutine, which drops it or runs the app's handler: of   *)
(* managed groups for a group, by the DM policy for any other chat.  Under *)
(* DMsFromMembers the sender is looked for in one managed group after      *)
(* another (transport/message.go), while people join and leave.            *)
(* A message that is let in is put into an envelope first (Envelope).      *)
(* seen and stayed are not in the program: they record what the properties *)
(* speak of and nothing reads them.                                        *)
(***************************************************************************)
EXTENDS Rosters, Envelope

CONSTANTS
  Messages,   \* the messages that may come in
  Incoming,   \* where from, and from whom: see Events
  Contents,   \* what they may say, see Envelope
  Settings    \* the configurations of the bot that are looked at

(* Entries of ManagedGroups that are no groups.                            *)
NotGroups == {"blank", "user", "typo"}

(* A chat is a group, a 1:1 chat, or a feed such as status updates.        *)
Events ==
  [chat : Groups \cup {"direct", "status"}, sender : JIDs \ {NoJID},
   fromMe : BOOLEAN]

ASSUME DispatchAssumption ==
  /\ Incoming \subseteq Events
  /\ Settings \subseteq [allGroups : BOOLEAN,
                         managed : SUBSET (Groups \cup NotGroups),
                         onGroup : BOOLEAN,
                         onDM : {"off", "members", "anyone"},
                         acceptMedia : BOOLEAN]
  /\ Contents \subseteq RawMessages

VARIABLES
  cfg,
  task,     \* the goroutine of each message
  seen,     \* who was in a managed group at some moment since
  stayed    \* who was in which group, and findable, all the while

vars == <<world, cfg, task, seen, stayed>>

NoEvent == [chat |-> "none", sender |-> NoJID, fromMe |-> FALSE]

(* What a handler is given: the sender's number, the group, the content.   *)
NoMsg == [phone |-> <<>>, group |-> "none", content |-> [kind |-> "none"]]

(* want, left and info are local variables of IsMemberOfAny.               *)
NoTask == [pc |-> "none", event |-> NoEvent, want |-> <<>>, left |-> {},
           info |-> {}, msg |-> NoMsg, sent |-> FALSE]

Init ==
  /\ RostersInit
  /\ cfg \in Settings
  /\ task = [m \in Messages |-> NoTask]
  /\ seen = [m \in Messages |-> {}]
  /\ stayed = [m \in Messages |-> {}]

-----------------------------------------------------------------------------
(* gate.ParseGroups: blanks are skipped, anything but a group is an error, *)
(* and New fails.                                                          *)
Parses(entries) == entries \cap {"user", "typo"} = {}

ParseGroups(entries) == entries \ {"blank"}

BotBuilt == cfg.allGroups \/ Parses(cfg.managed)

List == IF BotBuilt /\ ~ cfg.allGroups THEN ParseGroups(cfg.managed) ELSE {}

Allows(chat) == cfg.allGroups \/ chat \in List

-----------------------------------------------------------------------------
InManaged == {p \in Persons : \E g \in List : p \in roster[g]}

FoundHere(jid) ==
  {x \in Groups \X Persons : FindableByPhone(x[1], x[2], jid)}

WorldMoves ==
  /\ RostersNext
  /\ UNCHANGED <<cfg, task>>
  /\ seen' = [m \in Messages |-> seen[m] \cup InManaged']
  /\ stayed' = [m \in Messages |->
                  stayed[m] \cap FoundHere(task[m].event.sender)']

Same == UNCHANGED <<world, cfg, seen, stayed>>

Goes(m, from, to) == task[m].pc = from /\ task' = [task EXCEPT ![m].pc = to]

(* An event waits for whatsmeow's event loop.                              *)
Receive(m, event) ==
  /\ BotBuilt
  /\ task[m].pc = "none"
  /\ task' = [task EXCEPT ![m].pc = "queued", ![m].event = event]
  /\ seen' = [seen EXCEPT ![m] = InManaged]
  /\ stayed' = [stayed EXCEPT ![m] = FoundHere(event.sender)]
  /\ UNCHANGED <<world, cfg>>

(* dispatch: our own messages are dropped, others get a goroutine.         *)
Dispatched(m) ==
  /\ Goes(m, "queued", IF task[m].event.fromMe THEN "dropped" ELSE "handling")
  /\ Same

HandleGroup(m) ==
  /\ task[m].event.chat \in Groups
  /\ Goes(m, "handling",
          IF cfg.onGroup /\ Allows(task[m].event.chat)
          THEN "admitted" ELSE "dropped")
  /\ Same

(* Any chat that is not a group is a DM.                                   *)
HandleDM(m) ==
  /\ task[m].event.chat \notin Groups
  /\ cfg.onDM # "members"
  /\ Goes(m, "handling", IF cfg.onDM = "off" THEN "dropped" ELSE "admitted")
  /\ Same

(* Mutant: a sender without a number is looked for all the same.           *)
NoGroups(want) == List = {}

NothingToAsk(want) == want = <<>> \/ List = {}

HandleMemberDM(m) ==
  /\ task[m].event.chat \notin Groups
  /\ cfg.onDM = "members"
  /\ task[m].pc = "handling"
  /\ LET want == Normalize(ResolvePhone(task[m].event.sender, Store))
     IN task' = IF NothingToAsk(want)
                THEN [task EXCEPT ![m].pc = "refused"]
                ELSE [task EXCEPT ![m].pc = "asking", ![m].want = want,
                                  ![m].left = List]
  /\ Same

-----------------------------------------------------------------------------
(* One group after the other, in any order: List has one.                  *)
AskGroup(m, g) ==
  /\ task[m].pc = "asking"
  /\ g \in task[m].left
  /\ task' = [task EXCEPT ![m].pc = "looking",
                          ![m].left = @ \ {g},
                          ![m].info = GroupInfo(g)]
  /\ Same

(* Mutant: the first group that lacks the sender decides.                  *)
OneGroupOnly(left) == "refused"

(* Mutant: the last group asks for another.                                *)
AskOn(left) == "asking"

AfterMiss(left) == IF left = {} THEN "refused" ELSE "asking"

LookInGroup(m) ==
  /\ Goes(m, "looking",
          IF HasPhone(task[m].info, task[m].want, Store)
          THEN "admitted" ELSE AfterMiss(task[m].left))
  /\ Same

(* The query failed, its retries included: the DM is dropped.              *)
AskFails(m) ==
  /\ Goes(m, "asking", "failed")
  /\ Same

-----------------------------------------------------------------------------
(* buildMessage, which resolves the sender a second time.                  *)
BuildMessage(event, message) ==
  [phone |-> ResolvePhone(event.sender, Store),
   group |-> IF event.chat \in Groups THEN event.chat ELSE "none",
   content |-> Envelope(message, cfg.acceptMedia)]

(* What the message says matters from here on, so it is chosen here.       *)
Build(m, message) ==
  /\ task[m].pc = "admitted"
  /\ task' = [task EXCEPT ![m].pc = "running",
                          ![m].msg = BuildMessage(task[m].event, message)]
  /\ Same

(* The handler may reply, into the chat that the message came from, after  *)
(* a pause; once is as good as often.  Sending may fail.                   *)
Reply(m) ==
  /\ ~ task[m].sent
  /\ Goes(m, "running", "typing")
  /\ Same

SendText(m) ==
  /\ task[m].pc = "typing"
  /\ \E ok \in BOOLEAN :
       task' = [task EXCEPT ![m].pc = "running", ![m].sent = ok]
  /\ Same

HandlerReturns(m) ==
  /\ task[m].pc = "running"
  /\ task' = [task EXCEPT ![m].pc = "done", ![m].msg = NoMsg]
  /\ Same

-----------------------------------------------------------------------------
Handle(m) == HandleGroup(m) \/ HandleDM(m) \/ HandleMemberDM(m)

Asked(m) == AskFails(m) \/ \E g \in Groups : AskGroup(m, g)

Next ==
  \/ WorldMoves
  \/ \E m \in Messages :
       \/ \E event \in Incoming : Receive(m, event)
       \/ Dispatched(m) \/ Handle(m) \/ Asked(m) \/ LookInGroup(m)
       \/ \E message \in Contents : Build(m, message)
       \/ Reply(m) \/ SendText(m) \/ HandlerReturns(m)

Spec == Init /\ [][Next]_vars

-----------------------------------------------------------------------------
Handling == {"admitted", "running", "typing", "done"}

Running == {"running", "typing"}

Unhandled == {"dropped", "refused", "failed"}

(* Types; who is asked about has a number, and there is a group to ask.    *)
TypeOK ==
  /\ RostersTypeOK
  /\ cfg \in Settings
  /\ \A m \in Messages :
       /\ task[m].pc \in {"none", "queued", "handling", "asking", "looking"}
                           \cup Handling \cup Unhandled
       /\ task[m].event \in Events \cup {NoEvent}
       /\ task[m].left \subseteq List
       /\ task[m].msg.content.kind # "none" <=> task[m].pc \in Running
       /\ task[m].sent \in BOOLEAN
       /\ task[m].pc = "asking" => task[m].want # <<>> /\ task[m].left # {}
       /\ seen[m] \subseteq Persons
       /\ stayed[m] \subseteq Groups \X Persons

(* A handler runs, and replies, only for somebody else's message, in a     *)
(* managed group, or in a DM that the policy lets in: under DMsFromMembers *)
(* from somebody who was in a managed group at some moment since it came   *)
(* in, whatever the queries answer or fail to (bot.go:31, gate.go:16-21).  *)
OnlyAdmitted ==
  \A m \in Messages :
    LET event == task[m].event
    IN task[m].pc \in Handling =>
         /\ ~ event.fromMe
         /\ event.chat \in Groups =>
              cfg.onGroup /\ (cfg.allGroups \/ event.chat \in cfg.managed)
         /\ event.chat \notin Groups => cfg.onDM # "off"
         /\ event.chat \notin Groups /\ cfg.onDM = "members" =>
              \E p \in seen[m] : event.sender \in Forms(p)

(* A DM is refused only if its sender was in none of the managed groups    *)
(* all the while, or has no number that is known on both sides.            *)
MembersHeard ==
  \A m \in Messages :
    task[m].pc = "refused" => \A x \in stayed[m] : x[1] \notin List

(* The number a handler is told is the sender's own, whatever form the     *)
(* sender came in and whatever the session database knew when the sender   *)
(* was let in and knows now.  It is missing only for a LID, and not for    *)
(* one who was in a group, with a number known on both sides, all the      *)
(* while.  The group is the one that was spoken in.  Handlers decide by    *)
(* both (message.go, InboundMessage).                                      *)
SenderTold ==
  \A m \in Messages :
    task[m].pc \in Running =>
      LET event == task[m].event  msg == task[m].msg
      IN /\ IF msg.phone = <<>>
            THEN event.sender.server = "lid" /\ stayed[m] = {}
            ELSE \E p \in Persons :
                   event.sender \in Forms(p) /\ msg.phone = PhoneOf[p]
         /\ event.chat \in Groups => msg.group = event.chat

(* The texts a bundle has, beside what it shows or under it.               *)
Written(kind, b) ==
  LET said == {"conversation", "extendedText"}
                \cup (IF kind \in Captioned THEN {kind} ELSE {})
  IN {b.text[part] : part \in said \cap b.parts} \ {""}

(* The parts of an envelope agree: there are media if and only if the kind *)
(* has them and they are accepted, and what is called text has text.  Text *)
(* is one of the texts that were written, in the message or under what it  *)
(* shows, wrapped or not, and is empty only if there are none.  Of a text  *)
(* and a caption in one message it is one; the other is in Raw only.       *)
EnvelopeAgrees ==
  \A m \in Messages :
    task[m].pc \in Running =>
      LET c == task[m].msg.content
          written == Written(c.kind, c.raw.says)
      IN /\ c.media # NoMedia <=> c.kind \in Downloadable /\ cfg.acceptMedia
         /\ c.media # NoMedia =>
              c.media.kind = c.kind /\ c.media.viewOnce = c.raw.viewOnce
         /\ c.kind = "text" => c.text # ""
         /\ c.kind = "other" => c.raw.says.parts \cap ToSet(AskOrder) = {}
         /\ c.text \in IF written = {} THEN {""} ELSE written

(* bot.go:84: "OnDirectMessage registers the handler for 1:1 DMs".         *)
OnlyOneToOne ==
  \A m \in Messages :
    task[m].pc \in Handling /\ task[m].event.chat \notin Groups
      => task[m].event.chat = "direct"
=============================================================================
