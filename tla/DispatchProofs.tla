--------------------------- MODULE DispatchProofs ---------------------------
(***************************************************************************)
(* Proofs about Dispatch, for any persons, numbers, groups, messages and   *)
(* settings.                                                               *)
(***************************************************************************)
EXTENDS Dispatch, IdentityProofs

Envelopes == {Envelope(raw, accept) : raw \in RawMessages, accept \in BOOLEAN}

Inbound ==
  [phone : Numbers, group : Groups \cup {"none"}, content : Envelopes]

Tasks ==
  [pc : {"none", "queued", "handling", "asking", "looking"}
          \cup Handling \cup Unhandled,
   event : Events \cup {NoEvent}, want : Numbers, left : SUBSET Groups,
   info : SUBSET Participants, msg : Inbound \cup {NoMsg}, sent : BOOLEAN]

-----------------------------------------------------------------------------
(***************************************************************************)
(* The inductive invariant.  It follows the search of IsMemberOfAny: who   *)
(* is looked for, by which number; that whoever has been there all the     *)
(* while can only be in a group that is still to come; and, as in          *)
(* MembershipProofs, what an old answer is worth.                          *)
(***************************************************************************)
(* The number that is looked for is the sender's.                          *)
Wanted(c) ==
  /\ c.want # <<>>
  /\ \E p \in Persons : c.event.sender \in Forms(p) /\ c.want = PhoneOf[p]

Awaits(c, t, g) == \A x \in t : x[1] \in List => x[1] = g \/ x[1] \in c.left

ReadAs(g, recs, s, t) ==
  \E ps \in SUBSET Persons :
    /\ recs = {Record(g, p) : p \in ps}
    /\ ps \subseteq s
    /\ \A p \in Persons : <<g, p>> \in t => p \in ps

Admissible(c, s) ==
  /\ c.event.chat \in Groups => cfg.onGroup /\ Allows(c.event.chat)
  /\ c.event.chat \notin Groups => cfg.onDM # "off"
  /\ c.event.chat \notin Groups /\ cfg.onDM = "members" =>
       \E p \in s : c.event.sender \in Forms(p)

Told(c, t) ==
  /\ \E raw \in RawMessages :
       c.msg.content = Envelope(raw, cfg.acceptMedia)
  /\ c.msg.phone = <<>> => c.event.sender.server = "lid" /\ t = {}
  /\ c.msg.phone # <<>> =>
       \E p \in Persons :
         c.event.sender \in Forms(p) /\ c.msg.phone = PhoneOf[p]
  /\ c.event.chat \in Groups => c.msg.group = c.event.chat

TaskRight(c, s, t) ==
  /\ c.pc = "none" => c = NoTask
  /\ c.pc # "none" => c.event \in Events
  /\ c.pc \notin {"none", "queued", "dropped"} => ~ c.event.fromMe
  /\ c.left \subseteq List
  /\ c.pc \in {"asking", "looking"} =>
       /\ c.event.chat \notin Groups /\ cfg.onDM = "members"
       /\ Wanted(c)
  /\ c.pc = "asking" =>
       c.left # {} /\ \A x \in t : x[1] \in List => x[1] \in c.left
  /\ c.pc = "looking" =>
       \E g \in List : ReadAs(g, c.info, s, t) /\ Awaits(c, t, g)
  /\ c.pc = "refused" => \A x \in t : x[1] \notin List
  /\ c.pc \in Handling => Admissible(c, s)
  /\ c.pc \in Running => Told(c, t)
  /\ c.pc \notin Running => c.msg = NoMsg

Followed(c, s, t) ==
  /\ t \subseteq FoundHere(c.event.sender)
  /\ c.pc # "none" => InManaged \subseteq s

DispatchInv ==
  /\ RostersTypeOK
  /\ cfg \in Settings
  /\ task \in [Messages -> Tasks]
  /\ seen \in [Messages -> SUBSET Persons]
  /\ stayed \in [Messages -> SUBSET (Groups \X Persons)]
  /\ \A m \in Messages : /\ TaskRight(task[m], seen[m], stayed[m])
                         /\ Followed(task[m], seen[m], stayed[m])

-----------------------------------------------------------------------------
(***************************************************************************)
(* Envelopes.                                                              *)
(***************************************************************************)
(* The first part of an order is there, or none of them is.                *)
LEMMA FirstPartFound ==
  ASSUME NEW S, NEW order \in Seq(S), NEW b
  PROVE  \/ /\ FirstPart(order, b) = "none"
            /\ b.parts \cap ToSet(order) = {}
         \/ FirstPart(order, b) \in ToSet(order) \cap b.parts
<1> DEFINE I == {i \in 1..Len(order) : order[i] \in b.parts}
           first == SelectInSeq(order, LAMBDA part : part \in b.parts)
<1>1. first = IF I # {} THEN CHOOSE x \in I : \A y \in I : x <= y ELSE 0
  BY DEF SelectInSeq, Min
<1>2. I \subseteq Nat /\ DOMAIN order = 1..Len(order)
  OBVIOUS
<1>3. ToSet(order) = {order[i] : i \in DOMAIN order}
  BY DEF ToSet
<1>4. FirstPart(order, b) = IF first = 0 THEN "none" ELSE order[first]
  BY DEF FirstPart
<1>5. CASE I = {}
  <2>1. b.parts \cap ToSet(order) = {}
    BY <1>2, <1>3, <1>5
  <2> QED
    BY <1>1, <1>4, <1>5, <2>1
<1>6. CASE I # {}
  <2>1. \E x \in I : \A y \in I : x <= y
    BY <1>2, <1>6, Least
  <2>2. first \in I
    BY <1>1, <1>6, <2>1
  <2>3. first \in 1..Len(order) /\ first # 0 /\ order[first] \in b.parts
    BY <2>2
  <2> QED
    BY <1>2, <1>3, <1>4, <2>3
<1> QED
  BY <1>5, <1>6

LEMMA Asks ==
  /\ AskOrder \in Seq(ToSet(AskOrder))
  /\ ToSet(AskOrder) = {"image", "video", "audio", "document", "sticker",
                        "contact", "contacts", "location", "reaction"}
<1> DEFINE a == AskOrder
<1>1. DOMAIN a = 1..9 /\ a = [i \in DOMAIN a |-> a[i]]
  BY DEF AskOrder
<1>2. /\ a[1] = "image" /\ a[2] = "video" /\ a[3] = "audio"
      /\ a[4] = "document" /\ a[5] = "sticker" /\ a[6] = "contact"
      /\ a[7] = "contacts" /\ a[8] = "location" /\ a[9] = "reaction"
  BY DEF AskOrder
<1>3. ToSet(a) = {a[i] : i \in DOMAIN a}
  BY DEF ToSet
<1> HIDE DEF a
<1>4. \A i \in 1..9 : i = 1 \/ i = 2 \/ i = 3 \/ i = 4 \/ i = 5 \/ i = 6
                      \/ i = 7 \/ i = 8 \/ i = 9
  OBVIOUS
<1>5. a \in [1..9 -> ToSet(a)]
  BY <1>1, <1>3
<1>6. a \in Seq(ToSet(a))
  BY <1>5, SeqDef
<1>7. ASSUME NEW x \in ToSet(a)
      PROVE  x \in {a[1], a[2], a[3], a[4], a[5], a[6], a[7], a[8], a[9]}
  <2>1. PICK i \in 1..9 : x = a[i]
    BY <1>1, <1>3
  <2> QED
    BY <1>4, <2>1
<1>8. {a[1], a[2], a[3], a[4], a[5], a[6], a[7], a[8], a[9]}
        \subseteq ToSet(a)
  BY <1>1, <1>3
<1>9. ToSet(a) = {a[1], a[2], a[3], a[4], a[5], a[6], a[7], a[8], a[9]}
  BY <1>7, <1>8
<1> QED
  BY <1>2, <1>6, <1>9 DEF a

(* What EnvelopeAgrees says, of the envelope of any message.               *)
Agrees(c, accept) ==
  LET written == Written(c.kind, c.raw.says)
  IN /\ c.kind # "none"
     /\ c.media # NoMedia <=> c.kind \in Downloadable /\ accept
     /\ c.media # NoMedia =>
          c.media.kind = c.kind /\ c.media.viewOnce = c.raw.viewOnce
     /\ c.kind = "text" => c.text # ""
     /\ c.kind = "other" => c.raw.says.parts \cap ToSet(AskOrder) = {}
     /\ c.text \in IF written = {} THEN {""} ELSE written

LEMMA EnvelopesAgree ==
  ASSUME NEW raw \in RawMessages, NEW accept \in BOOLEAN
  PROVE  Agrees(Envelope(raw, accept), accept)
<1> DEFINE b == raw.says
           part == FirstPart(AskOrder, b)
           kind == Kind(b)
           text == Text(b)
           media == MediaFor(b, raw.viewOnce, accept)
           c == Envelope(raw, accept)
<1>1. /\ c.kind = kind /\ c.text = text /\ c.media = media /\ c.raw = raw
  BY DEF Envelope, UnwrapViewOnce
<1>2. \/ part = "none" /\ b.parts \cap ToSet(AskOrder) = {}
      \/ part \in ToSet(AskOrder) /\ part \in b.parts
  BY FirstPartFound, Asks
<1>3. part \in {"none"} \cup ToSet(AskOrder)
  BY <1>2
<1>4. /\ kind = "text" => text # "" /\ part = "none"
      /\ kind = "other" => part = "none"
      /\ kind # "none"
      /\ part \in Captioned => kind = part
      /\ kind \in Captioned => part = kind
  <2>1. CASE part = "none"
    <3>1. kind = IF text = "" THEN "other" ELSE "text"
      BY <2>1 DEF Kind
    <3> QED
      BY <2>1, <3>1 DEF Captioned
  <2>2. CASE part = "contacts"
    <3>1. kind \in {"contact", "contacts"}
      BY <2>2 DEF Kind
    <3> QED
      BY <2>2, <3>1 DEF Captioned
  <2>3. CASE part \notin {"none", "contacts"}
    <3>1. kind = part
      BY <2>3 DEF Kind
    <3>2. part \notin {"text", "other", "none"}
      BY <1>3, <2>3, Asks
    <3> QED
      BY <3>1, <3>2
  <2> QED
    BY <2>1, <2>2, <2>3
<1>5. media = IF accept /\ kind \in Downloadable
              THEN [kind |-> kind, voice |-> kind = "audio" /\ b.voice,
                    viewOnce |-> raw.viewOnce]
              ELSE NoMedia
  BY DEF MediaFor
<1>6. /\ text = "" =>
           /\ TextOf("conversation", b) = "" /\ TextOf("extendedText", b) = ""
           /\ part \in Captioned => TextOf(part, b) = ""
      /\ \/ text = ""
         \/ text = TextOf("conversation", b)
         \/ text = TextOf("extendedText", b)
         \/ part \in Captioned /\ text = TextOf(part, b)
  BY DEF Text, ExtractText, FirstNonEmpty
<1> HIDE DEF b, part, kind, text, media
<1>7. /\ media # NoMedia <=> kind \in Downloadable /\ accept
      /\ media # NoMedia => media.kind = kind
                            /\ media.viewOnce = raw.viewOnce
  <2>1. CASE accept /\ kind \in Downloadable
    <3>1. media = [kind |-> kind, voice |-> kind = "audio" /\ b.voice,
                   viewOnce |-> raw.viewOnce]
      BY <1>5, <2>1
    <3>2. media.kind = kind /\ media.viewOnce = raw.viewOnce
      BY <3>1
    <3>3. NoMedia.kind = "none"
      BY DEF NoMedia
    <3> QED
      BY <1>4, <2>1, <3>2, <3>3
  <2>2. CASE ~ (accept /\ kind \in Downloadable)
    BY <1>5, <2>2
  <2> QED
    BY <2>1, <2>2
<1>8. text \in IF Written(kind, b) = {} THEN {""} ELSE Written(kind, b)
  <2> DEFINE said == {"conversation", "extendedText"}
                       \cup (IF kind \in Captioned THEN {kind} ELSE {})
             written == {b.text[x] : x \in said \cap b.parts} \ {""}
  <2>0. Written(kind, b) = written
    BY DEF Written
  <2>1. /\ "conversation" \in said /\ "extendedText" \in said
        /\ part \in Captioned => part \in said
    BY <1>4
  <2>2. CASE text = ""
    <3>1. \A x \in said : x \in b.parts => b.text[x] = ""
      BY <1>4, <1>6, <2>2 DEF TextOf
    <3>2. written = {}
      BY <3>1
    <3> QED
      BY <2>0, <2>2, <3>2
  <2>3. CASE text # ""
    <3>1. \E x \in said : text = TextOf(x, b)
      BY <1>6, <2>1, <2>3
    <3>2. \E x \in said \cap b.parts : text = b.text[x]
      BY <2>3, <3>1 DEF TextOf
    <3>3. text \in written
      BY <2>3, <3>2
    <3> QED
      BY <2>0, <3>3
  <2> QED
    BY <2>2, <2>3
<1>9. kind = "other" => b.parts \cap ToSet(AskOrder) = {}
  BY <1>2, <1>4, Asks
<1> HIDE DEF c
<1> QED
  BY <1>1, <1>4, <1>7, <1>8, <1>9 DEF Agrees, b, c

-----------------------------------------------------------------------------
(***************************************************************************)
(* What is right stays right.                                              *)
(***************************************************************************)
(* A bot that was built manages groups, and those of its list only.        *)
LEMMA ListTyped ==
  ASSUME cfg \in Settings
  PROVE  /\ List \subseteq Groups /\ List \subseteq cfg.managed
         /\ cfg.acceptMedia \in BOOLEAN
<1>1. /\ cfg.managed \subseteq Groups \cup NotGroups
      /\ cfg.acceptMedia \in BOOLEAN
  BY DispatchAssumption
<1> QED
  BY <1>1 DEF List, BotBuilt, Parses, ParseGroups, NotGroups

LEMMA ReadLasts ==
  ASSUME NEW g, NEW recs, NEW s, NEW t, NEW s1, NEW t1,
         ReadAs(g, recs, s, t), s \subseteq s1, t1 \subseteq t,
         mode' = mode, bare' = bare
  PROVE  ReadAs(g, recs, s1, t1)'
<1>1. PICK ps \in SUBSET Persons :
        /\ recs = {Record(g, p) : p \in ps}
        /\ ps \subseteq s
        /\ \A p \in Persons : <<g, p>> \in t => p \in ps
  BY DEF ReadAs
<1>2. recs = {Record(g, p)' : p \in ps}
  BY <1>1, RecordsLast
<1>3. /\ ps \subseteq s1
      /\ \A p \in Persons : <<g, p>> \in t1 => p \in ps
  BY <1>1
<1> QED
  BY <1>2, <1>3 DEF ReadAs

LEMMA TaskLasts ==
  ASSUME NEW c, NEW s, NEW t, NEW s1, NEW t1,
         TaskRight(c, s, t), s \subseteq s1, t1 \subseteq t,
         mode' = mode, bare' = bare, cfg' = cfg
  PROVE  TaskRight(c, s1, t1)'
<1>1. \A g, recs : ReadAs(g, recs, s, t) => ReadAs(g, recs, s1, t1)'
  BY ReadLasts
<1>2. List' = List /\ \A chat : Allows(chat)' = Allows(chat)
  BY DEF List, Allows, BotBuilt
<1>3. \A g : Awaits(c, t, g) => Awaits(c, t1, g)'
  BY <1>2 DEF Awaits
<1>4. Admissible(c, s) => Admissible(c, s1)'
  BY <1>2 DEF Admissible
<1>5. Wanted(c)' = Wanted(c) /\ (Told(c, t) => Told(c, t1)')
  BY DEF Wanted, Told
<1> QED
  BY <1>1, <1>2, <1>3, <1>4, <1>5 DEF TaskRight

(* A task that rests stays right.                                          *)
LEMMA RestingTask ==
  ASSUME DispatchInv, NEW m \in Messages, task'[m] = task[m],
         seen[m] \subseteq seen'[m], stayed'[m] \subseteq stayed[m],
         mode' = mode, bare' = bare, cfg' = cfg
  PROVE  TaskRight(task[m], seen[m], stayed[m])'
<1>1. TaskRight(task[m], seen[m], stayed[m])
  BY DEF DispatchInv
<1>2. ASSUME NEW c, NEW s, NEW t,
             c = task'[m], s = seen'[m], t = stayed'[m]
      PROVE  TaskRight(c, s, t)'
  BY <1>1, <1>2, TaskLasts
<1> QED
  BY <1>2

(* Nothing moves but one task.                                             *)
LEMMA OneTask ==
  ASSUME DispatchInv, NEW m \in Messages, NEW c \in Tasks,
         task[m].pc # "none", c.event = task[m].event,
         TaskRight(c, seen[m], stayed[m]),
         task' = [task EXCEPT ![m] = c], Same
  PROVE  DispatchInv'
<1>1. /\ task \in [Messages -> Tasks]
      /\ seen \in [Messages -> SUBSET Persons]
      /\ stayed \in [Messages -> SUBSET (Groups \X Persons)]
  BY DEF DispatchInv
<1>2. /\ roster' = roster /\ mode' = mode /\ bare' = bare
      /\ learned' = learned /\ dbUp' = dbUp /\ moves' = moves
      /\ cfg' = cfg /\ seen' = seen /\ stayed' = stayed
  BY DEF Same, world
<1>3. RostersTypeOK' /\ cfg' \in Settings
  BY <1>2 DEF DispatchInv, RostersTypeOK
<1>4. task' \in [Messages -> Tasks] /\ task'[m] = c
  BY <1>1
<1>5. ASSUME NEW r \in Messages
      PROVE  TaskRight(task[r], seen[r], stayed[r])'
  <2>1. CASE r # m
    <3>1. task'[r] = task[r]
      BY <1>1, <2>1
    <3> QED
      BY <1>2, <3>1, RestingTask
  <2>2. CASE r = m
    <3>1. TaskRight(c, seen[m], stayed[m])'
      BY <1>2, TaskLasts
    <3> QED
      BY <1>4, <2>2, <3>1
  <2> QED
    BY <2>1, <2>2
<1>6. ASSUME NEW r \in Messages
      PROVE  Followed(task[r], seen[r], stayed[r])'
  <2>1. task'[r].event = task[r].event
        /\ (task[r].pc = "none" => task'[r].pc = "none")
    BY <1>1
  <2>2. Followed(task[r], seen[r], stayed[r])
    BY DEF DispatchInv
  <2>3. /\ InManaged' = InManaged
        /\ FoundHere(task[r].event.sender)'
             = FoundHere(task[r].event.sender)
    BY <1>2, <2>1
       DEF InManaged, List, BotBuilt, FoundHere, FindableByPhone,
           PhoneKnown, PhoneListed, Store
  <2> QED
    BY <1>2, <2>1, <2>2, <2>3 DEF Followed
<1> QED
  BY <1>1, <1>2, <1>3, <1>4, <1>5, <1>6 DEF DispatchInv

(* The owner of the form that a message came in.                           *)
LEMMA SenderOwned ==
  ASSUME NEW event \in Events
  PROVE  \E p \in Persons : event.sender \in Forms(p)
BY Owners DEF Events

-----------------------------------------------------------------------------
(***************************************************************************)
(* The steps of a task.                                                    *)
(***************************************************************************)
(* A step that sets pc, and finds what the new pc asks for.                *)
LEMMA Going ==
  ASSUME DispatchInv, NEW m \in Messages, NEW from, NEW pc,
         from # "none", from \notin Running,
         pc \in {"handling", "dropped", "refused", "failed", "admitted",
                 "asking"},
         Goes(m, from, pc), Same,
         LET c == [task[m] EXCEPT !.pc = pc]
         IN /\ pc # "dropped" => ~ c.event.fromMe
            /\ pc = "refused" => \A x \in stayed[m] : x[1] \notin List
            /\ pc = "admitted" => Admissible(c, seen[m])
            /\ pc = "asking" =>
                 /\ c.event.chat \notin Groups /\ cfg.onDM = "members"
                 /\ Wanted(c) /\ c.left # {}
                 /\ \A x \in stayed[m] : x[1] \in List => x[1] \in c.left
  PROVE  DispatchInv'
<1> DEFINE c == [task[m] EXCEPT !.pc = pc]
<1>1. /\ task[m] \in Tasks /\ task \in [Messages -> Tasks]
      /\ TaskRight(task[m], seen[m], stayed[m])
  BY DEF DispatchInv
<1>2. task' = [task EXCEPT ![m] = c] /\ task[m].pc = from
  BY <1>1 DEF Goes
<1>3. pc \in {"handling"} \cup {"asking", "admitted"} \cup Unhandled
  BY DEF Unhandled
<1>4. /\ c \in Tasks /\ c.pc = pc /\ c.event = task[m].event
      /\ c.left = task[m].left /\ c.msg = task[m].msg
  BY <1>1, <1>3 DEF Tasks, Handling
<1>5. /\ pc # "dropped" => ~ c.event.fromMe
      /\ pc = "refused" => \A x \in stayed[m] : x[1] \notin List
      /\ pc = "admitted" => Admissible(c, seen[m])
      /\ pc = "asking" =>
           /\ c.event.chat \notin Groups /\ cfg.onDM = "members"
           /\ Wanted(c) /\ c.left # {}
           /\ \A x \in stayed[m] : x[1] \in List => x[1] \in c.left
  OBVIOUS
<1> HIDE DEF c
<1>6. /\ task[m].event \in Events /\ task[m].left \subseteq List
      /\ task[m].msg = NoMsg
  BY <1>1, <1>2 DEF TaskRight
<1>7. pc \notin Running /\ (pc \in Handling => pc = "admitted")
      /\ pc # "looking" /\ pc # "none"
  BY DEF Running, Handling
<1>8. TaskRight(c, seen[m], stayed[m])
  BY <1>4, <1>5, <1>6, <1>7 DEF TaskRight
<1> QED
  BY <1>2, <1>4, <1>8, OneTask

(* Our own messages go no further, groups and DMs go where the settings    *)
(* say, a query may fail.                                                  *)
LEMMA RoutingKeeps ==
  ASSUME DispatchInv, NEW m \in Messages,
         Dispatched(m) \/ HandleGroup(m) \/ HandleDM(m) \/ AskFails(m)
  PROVE  DispatchInv'
<1> DEFINE c(pc) == [task[m] EXCEPT !.pc = pc]
<1>1. /\ task[m] \in Tasks
      /\ TaskRight(task[m], seen[m], stayed[m])
  BY DEF DispatchInv
<1>2. \A pc : c(pc).event = task[m].event
  BY <1>1 DEF Tasks
<1>3. Same
  BY DEF Dispatched, HandleGroup, HandleDM, AskFails
<1>4. \A pc \in {"queued", "handling", "asking"} :
        pc \notin Running /\ pc # "none"
  BY DEF Running
<1>5. CASE Dispatched(m)
  <2> DEFINE pc == IF task[m].event.fromMe THEN "dropped" ELSE "handling"
  <2>1. Goes(m, "queued", pc)
    BY <1>5 DEF Dispatched
  <2>2. /\ pc \in {"dropped", "handling"}
        /\ pc # "dropped" => ~ task[m].event.fromMe
    OBVIOUS
  <2> HIDE DEF pc
  <2> QED
    BY <1>2, <1>3, <1>4, <2>1, <2>2, Going
<1>6. CASE HandleGroup(m)
  <2> DEFINE ok == cfg.onGroup /\ Allows(task[m].event.chat)
             pc == IF ok THEN "admitted" ELSE "dropped"
  <2>1. Goes(m, "handling", pc) /\ task[m].event.chat \in Groups
    BY <1>6 DEF HandleGroup
  <2>2. /\ pc \in {"dropped", "admitted"}
        /\ pc = "admitted" => ok
    OBVIOUS
  <2> HIDE DEF pc
  <2>3. ~ task[m].event.fromMe
    BY <1>1, <2>1 DEF Goes, TaskRight
  <2>4. pc = "admitted" => Admissible(c(pc), seen[m])
    BY <1>2, <2>1, <2>2 DEF Admissible
  <2> QED
    BY <1>2, <1>3, <1>4, <2>1, <2>2, <2>3, <2>4, Going
<1>7. CASE HandleDM(m)
  <2> DEFINE pc == IF cfg.onDM = "off" THEN "dropped" ELSE "admitted"
  <2>1. Goes(m, "handling", pc) /\ task[m].event.chat \notin Groups
        /\ cfg.onDM # "members"
    BY <1>7 DEF HandleDM
  <2>2. /\ pc \in {"dropped", "admitted"}
        /\ pc = "admitted" => cfg.onDM # "off"
    OBVIOUS
  <2> HIDE DEF pc
  <2>3. ~ task[m].event.fromMe
    BY <1>1, <2>1 DEF Goes, TaskRight
  <2>4. pc = "admitted" => Admissible(c(pc), seen[m])
    BY <1>2, <2>1, <2>2 DEF Admissible
  <2> QED
    BY <1>2, <1>3, <1>4, <2>1, <2>2, <2>3, <2>4, Going
<1>8. CASE AskFails(m)
  <2>1. Goes(m, "asking", "failed")
    BY <1>8 DEF AskFails
  <2>2. ~ task[m].event.fromMe
    BY <1>1, <2>1 DEF Goes, TaskRight
  <2> QED
    BY <1>2, <1>3, <1>4, <2>1, <2>2, Going
<1> QED
  BY <1>5, <1>6, <1>7, <1>8

-----------------------------------------------------------------------------
(* The number that is looked for is the sender's; a sender whose number is *)
(* not known cannot be found by it.                                        *)
LEMMA MemberDMKeeps ==
  ASSUME DispatchInv, NEW m \in Messages, HandleMemberDM(m)
  PROVE  DispatchInv'
<1> DEFINE c == task[m]
           sender == c.event.sender
           found == ResolvePhone(sender, Store)
           want == Normalize(found)
           d == [c EXCEPT !.pc = "asking", !.want = want, !.left = List]
<1>1. /\ c \in Tasks /\ task \in [Messages -> Tasks] /\ RostersTypeOK
      /\ TaskRight(c, seen[m], stayed[m])
      /\ Followed(c, seen[m], stayed[m])
      /\ stayed[m] \subseteq Groups \X Persons
  BY DEF DispatchInv
<1>2. /\ c.pc = "handling" /\ c.event \in Events /\ ~ c.event.fromMe
      /\ c.event.chat \notin Groups /\ cfg.onDM = "members"
      /\ c.msg = NoMsg /\ c.left \subseteq List
  BY <1>1 DEF HandleMemberDM, TaskRight, Running
<1>3. PICK p \in Persons : sender \in Forms(p)
  BY <1>2, SenderOwned
<1>4. Store \in SUBSET Persons
  BY <1>1 DEF Store, RostersTypeOK
<1>5. /\ found \in {<<>>, PhoneOf[p]}
      /\ sender.server = "pn" \/ p \in Store => found = PhoneOf[p]
  BY <1>3, <1>4, Resolved
<1>6. want = found
  BY <1>5, PhoneKeys
<1>7. want = <<>> => stayed[m] = {}
  <2> SUFFICES ASSUME want = <<>>, NEW x \in stayed[m] PROVE FALSE
    OBVIOUS
  <2>1. x[2] \in Persons /\ FindableByPhone(x[1], x[2], sender)
    BY <1>1 DEF Followed, FoundHere
  <2>2. x[2] = p /\ (sender.server = "pn" \/ p \in Store)
    BY <1>3, <2>1, FormsOwned DEF FindableByPhone, PhoneKnown
  <2> QED
    BY <1>5, <1>6, <2>2, PhoneKeys
<1>8. Same
  BY DEF HandleMemberDM
<1>9. CASE NothingToAsk(want)
  <2>1. Goes(m, "handling", "refused")
    BY <1>2, <1>9 DEF HandleMemberDM, Goes
  <2>2. [c EXCEPT !.pc = "refused"].event = c.event
    BY <1>1 DEF Tasks
  <2>3. \A x \in stayed[m] : x[1] \notin List
    BY <1>7, <1>9 DEF NothingToAsk
  <2>4. "handling" \notin Running
    BY DEF Running
  <2> QED
    BY <1>2, <1>8, <2>1, <2>2, <2>3, <2>4, Going
<1>10. CASE ~ NothingToAsk(want)
  <2>1. task' = [task EXCEPT ![m] = d]
    <3>1. task' = [task EXCEPT ![m].pc = "asking", ![m].want = want,
                               ![m].left = List]
      BY <1>10 DEF HandleMemberDM
    <3> QED
      BY <1>1, <3>1
  <2>2. want # <<>> /\ List # {}
    BY <1>10 DEF NothingToAsk
  <2>3. List \subseteq Groups
    BY ListTyped DEF DispatchInv
  <2>4. want \in Numbers /\ want = PhoneOf[p]
    BY <1>5, <1>6, <2>2 DEF Numbers
  <2> HIDE DEF want
  <2>5. /\ d \in Tasks /\ d.pc = "asking" /\ d.event = c.event
        /\ d.want = want /\ d.left = List /\ d.msg = NoMsg
    BY <1>1, <1>2, <2>3, <2>4 DEF Tasks
  <2> HIDE DEF d
  <2>6. Wanted(d)
    BY <1>3, <2>2, <2>4, <2>5 DEF Wanted
  <2>7. "asking" \notin Handling /\ "asking" \notin Running
    BY DEF Handling, Running
  <2>8. TaskRight(d, seen[m], stayed[m])
    BY <1>2, <2>2, <2>5, <2>6, <2>7 DEF TaskRight
  <2> QED
    BY <1>2, <1>8, <2>1, <2>5, <2>8, OneTask
<1> QED
  BY <1>9, <1>10

(* Whoever is in the group now has been seen; whoever stayed is there.     *)
LEMMA AskGroupKeeps ==
  ASSUME DispatchInv, NEW m \in Messages, NEW g \in Groups, AskGroup(m, g)
  PROVE  DispatchInv'
<1> DEFINE c == task[m]
           read == GroupInfo(g)
           left == c.left \ {g}
           d == [c EXCEPT !.pc = "looking", !.left = left, !.info = read]
<1>1. /\ c \in Tasks /\ task \in [Messages -> Tasks] /\ RostersTypeOK
      /\ TaskRight(c, seen[m], stayed[m])
      /\ Followed(c, seen[m], stayed[m])
      /\ stayed[m] \subseteq Groups \X Persons
  BY DEF DispatchInv
<1>2. c.pc = "asking" /\ g \in c.left /\ Same
  BY DEF AskGroup
<1>3. /\ c.event \in Events /\ ~ c.event.fromMe
      /\ c.event.chat \notin Groups /\ cfg.onDM = "members"
      /\ Wanted(c) /\ c.left \subseteq List /\ c.msg = NoMsg
      /\ \A x \in stayed[m] : x[1] \in List => x[1] \in c.left
  BY <1>1, <1>2 DEF TaskRight, Running
<1>4. task' = [task EXCEPT ![m] = d]
  BY <1>1 DEF AskGroup
<1>5. roster[g] \subseteq Persons
  BY <1>1 DEF RostersTypeOK
<1>6. read \in SUBSET Participants
  BY <1>1, <1>5, RecordShows DEF GroupInfo
<1>7. ReadAs(g, read, seen[m], stayed[m])
  <2>1. read = {Record(g, p) : p \in roster[g]}
    BY DEF GroupInfo
  <2>2. roster[g] \subseteq seen[m]
    BY <1>1, <1>2, <1>3, <1>5 DEF Followed, InManaged
  <2>3. \A p \in Persons : <<g, p>> \in stayed[m] => p \in roster[g]
    BY <1>1 DEF Followed, FoundHere, FindableByPhone
  <2> QED
    BY <1>5, <2>1, <2>2, <2>3 DEF ReadAs
<1> HIDE DEF read, left
<1>8. left \in SUBSET Groups /\ left = c.left \ {g}
  BY <1>1 DEF Tasks, left
<1>9. /\ d \in Tasks /\ d.pc = "looking" /\ d.event = c.event
      /\ d.want = c.want /\ d.left = left /\ d.info = read /\ d.msg = NoMsg
  BY <1>1, <1>3, <1>6, <1>8 DEF Tasks
<1> HIDE DEF d
<1>10. Wanted(d)
  BY <1>3, <1>9 DEF Wanted
<1>11. Awaits(d, stayed[m], g)
  BY <1>3, <1>8, <1>9 DEF Awaits
<1>12. "looking" \notin Handling /\ "looking" \notin Running
  BY DEF Handling, Running
<1>13. d.left \subseteq List /\ g \in List
  BY <1>2, <1>3, <1>8, <1>9
<1>14. TaskRight(d, seen[m], stayed[m])
  BY <1>3, <1>7, <1>9, <1>10, <1>11, <1>12, <1>13 DEF TaskRight
<1> QED
  BY <1>2, <1>4, <1>9, <1>14, OneTask

(* A hit is the sender, who has been there; after a miss the sender can    *)
(* only be in a group that is still to come.                               *)
LEMMA LookKeeps ==
  ASSUME DispatchInv, NEW m \in Messages, LookInGroup(m)
  PROVE  DispatchInv'
<1> DEFINE c == task[m]
           s == seen[m]
           t == stayed[m]
           hit == HasPhone(c.info, c.want, Store)
           pc == IF hit THEN "admitted" ELSE AfterMiss(c.left)
           d == [c EXCEPT !.pc = pc]
<1>1. /\ c \in Tasks /\ task \in [Messages -> Tasks] /\ RostersTypeOK
      /\ TaskRight(c, s, t) /\ Followed(c, s, t)
      /\ t \subseteq Groups \X Persons
  BY DEF DispatchInv
<1>2. Goes(m, "looking", pc) /\ Same /\ c.pc = "looking"
  BY DEF LookInGroup, Goes
<1>3. /\ c.event \in Events /\ ~ c.event.fromMe
      /\ c.event.chat \notin Groups /\ cfg.onDM = "members" /\ Wanted(c)
  BY <1>1, <1>2 DEF TaskRight
<1>4. PICK g \in List : ReadAs(g, c.info, s, t) /\ Awaits(c, t, g)
  BY <1>1, <1>2 DEF TaskRight
<1>5. PICK ps \in SUBSET Persons :
        /\ c.info = {Record(g, p) : p \in ps}
        /\ ps \subseteq s
        /\ \A p \in Persons : <<g, p>> \in t => p \in ps
  BY <1>4 DEF ReadAs
<1>6. PICK p \in Persons : c.event.sender \in Forms(p) /\ c.want = PhoneOf[p]
  BY <1>3 DEF Wanted
<1>7. Store \in SUBSET Persons /\ g \in Groups
  BY <1>1, <1>4, ListTyped DEF Store, RostersTypeOK, DispatchInv
<1>8. c.want # <<>>
  BY <1>3 DEF Wanted
<1>9. ASSUME hit
      PROVE  p \in s
  <2>1. \E r \in ps : c.want = PhoneOf[r]
    BY <1>1, <1>5, <1>7, <1>8, <1>9, HasPhoneOnly
  <2> QED
    BY <1>5, <1>6, <2>1, PhoneKeys
<1>10. ASSUME ~ hit
       PROVE  \A x \in t : x[1] \in List => x[1] \in c.left
  <2> SUFFICES ASSUME NEW x \in t, x[1] = g PROVE FALSE
    BY <1>4 DEF Awaits
  <2>1. x[2] \in Persons /\ x = <<g, x[2]>>
    BY <1>1
  <2>2. x[2] \in ps /\ FindableByPhone(g, x[2], c.event.sender)
    BY <1>1, <1>5, <2>1 DEF Followed, FoundHere
  <2>3. x[2] = p
    BY <1>6, <2>1, <2>2, FormsOwned DEF FindableByPhone
  <2> QED
    BY <1>1, <1>5, <1>6, <1>7, <1>10, <2>2, <2>3, HasPhoneFound
<1>11. /\ pc \in {"admitted", "refused", "asking"}
       /\ pc = "admitted" <=> hit
       /\ pc = "refused" => c.left = {}
       /\ pc = "asking" => c.left # {}
  BY DEF AfterMiss
<1> HIDE DEF hit, pc
<1>12. d.event = c.event /\ d.want = c.want /\ d.left = c.left
  BY <1>1 DEF Tasks
<1> HIDE DEF d
<1>13. pc = "admitted" => Admissible(d, s)
  BY <1>3, <1>6, <1>9, <1>11, <1>12 DEF Admissible
<1>14. Wanted(d)
  BY <1>3, <1>12 DEF Wanted
<1>15. "looking" \notin Running
  BY DEF Running
<1> USE DEF d
<1> QED
  BY <1>2, <1>3, <1>10, <1>11, <1>12, <1>13, <1>14, <1>15, Going

-----------------------------------------------------------------------------
(* The sender is resolved once more, and is still the sender.              *)
LEMMA BuildKeeps ==
  ASSUME DispatchInv, NEW m \in Messages, NEW message \in Contents,
         Build(m, message)
  PROVE  DispatchInv'
<1> DEFINE c == task[m]
           e == c.event
           msg == BuildMessage(e, message)
           d == [c EXCEPT !.pc = "running", !.msg = msg]
<1>1. /\ c \in Tasks /\ task \in [Messages -> Tasks] /\ RostersTypeOK
      /\ TaskRight(c, seen[m], stayed[m]) /\ cfg \in Settings
      /\ Followed(c, seen[m], stayed[m])
      /\ stayed[m] \subseteq Groups \X Persons
  BY DEF DispatchInv
<1>2. c.pc = "admitted" /\ Same /\ task' = [task EXCEPT ![m] = d]
  BY <1>1 DEF Build
<1>3. /\ e \in Events /\ ~ e.fromMe /\ c.left \subseteq List
      /\ Admissible(c, seen[m])
  BY <1>1, <1>2 DEF TaskRight, Handling
<1>4. PICK p \in Persons : e.sender \in Forms(p)
  BY <1>3, SenderOwned
<1>5. Store \in SUBSET Persons
  BY <1>1 DEF Store, RostersTypeOK
<1>6. /\ ResolvePhone(e.sender, Store) \in {<<>>, PhoneOf[p]}
      /\ e.sender.server = "pn" \/ p \in Store
           => ResolvePhone(e.sender, Store) = PhoneOf[p]
  BY <1>4, <1>5, Resolved
<1>7. message \in RawMessages /\ cfg.acceptMedia \in BOOLEAN
  BY <1>1, DispatchAssumption, ListTyped
<1>8. /\ msg.phone = ResolvePhone(e.sender, Store)
      /\ msg.group = IF e.chat \in Groups THEN e.chat ELSE "none"
      /\ msg.content = Envelope(message, cfg.acceptMedia)
      /\ msg = [phone |-> msg.phone, group |-> msg.group,
                content |-> msg.content]
  BY DEF BuildMessage
<1> HIDE DEF msg
<1>9. msg \in Inbound
  <2>1. msg.phone \in Numbers
    BY <1>6, <1>8 DEF Numbers
  <2>2. msg.group \in Groups \cup {"none"}
    BY <1>8
  <2>3. msg.content \in Envelopes
    BY <1>7, <1>8 DEF Envelopes
  <2> QED
    BY <1>8, <2>1, <2>2, <2>3 DEF Inbound
<1>10. /\ d \in Tasks /\ d.pc = "running" /\ d.event = e
       /\ d.left = c.left /\ d.msg = msg
  BY <1>1, <1>9 DEF Tasks, Handling
<1> HIDE DEF d
<1>11. Told(d, stayed[m])
  <2>1. \E raw \in RawMessages :
          d.msg.content = Envelope(raw, cfg.acceptMedia)
    BY <1>7, <1>8, <1>10
  <2>2. d.msg.phone # <<>> =>
          \E r \in Persons : d.event.sender \in Forms(r)
                             /\ d.msg.phone = PhoneOf[r]
    BY <1>4, <1>6, <1>8, <1>10
  <2>3. d.event.chat \in Groups => d.msg.group = d.event.chat
    BY <1>8, <1>10
  <2>4. ASSUME d.msg.phone = <<>>
        PROVE  d.event.sender.server = "lid" /\ stayed[m] = {}
    <3>1. e.sender.server # "pn" /\ p \notin Store
      BY <1>6, <1>8, <1>10, <2>4, PhoneKeys
    <3>2. e.sender.server = "lid"
      BY <1>4, <3>1 DEF Forms, PN, LID
    <3>3. ASSUME NEW x \in stayed[m]
          PROVE  FALSE
      <4>1. x[2] \in Persons /\ FindableByPhone(x[1], x[2], e.sender)
        BY <1>1 DEF Followed, FoundHere
      <4>2. x[2] = p /\ (e.sender.server = "pn" \/ p \in Store)
        BY <1>4, <4>1, FormsOwned DEF FindableByPhone, PhoneKnown
      <4> QED
        BY <3>1, <4>2
    <3> QED
      BY <1>10, <3>2, <3>3
  <2> QED
    BY <2>1, <2>2, <2>3, <2>4 DEF Told
<1>12. Admissible(d, seen[m])
  BY <1>3, <1>10 DEF Admissible
<1>13. "running" \in Running
  BY DEF Running
<1>14. TaskRight(d, seen[m], stayed[m])
  BY <1>3, <1>10, <1>11, <1>12, <1>13 DEF TaskRight
<1> QED
  BY <1>2, <1>10, <1>14, OneTask

(* A handler replies and returns.                                          *)
LEMMA HandlerKeeps ==
  ASSUME DispatchInv, NEW m \in Messages,
         Reply(m) \/ SendText(m) \/ HandlerReturns(m)
  PROVE  DispatchInv'
<1> DEFINE c == task[m]
<1>1. /\ c \in Tasks /\ task \in [Messages -> Tasks]
      /\ TaskRight(c, seen[m], stayed[m])
  BY DEF DispatchInv
<1>2. Same /\ c.pc \in Running
  BY DEF Reply, SendText, HandlerReturns, Goes, Running
<1>3. /\ c.event \in Events /\ ~ c.event.fromMe /\ c.left \subseteq List
      /\ Admissible(c, seen[m]) /\ Told(c, stayed[m]) /\ c.pc # "none"
  BY <1>1, <1>2 DEF TaskRight, Handling, Running
<1>4. ASSUME NEW pc \in {"running", "typing", "done"}, NEW sent \in BOOLEAN,
             NEW msg \in {c.msg, NoMsg}, pc = "done" <=> msg = NoMsg,
             task' = [task EXCEPT ![m] = [c EXCEPT !.pc = pc, !.msg = msg,
                                                   !.sent = sent]]
      PROVE  DispatchInv'
  <2> DEFINE d == [c EXCEPT !.pc = pc, !.msg = msg, !.sent = sent]
  <2>1. /\ d \in Tasks /\ d.pc = pc /\ d.event = c.event
        /\ d.left = c.left /\ d.msg = msg
    BY <1>1 DEF Tasks, Handling
  <2>2. task' = [task EXCEPT ![m] = d]
    BY <1>4
  <2> HIDE DEF d
  <2>3. Admissible(d, seen[m])
    BY <1>3, <2>1 DEF Admissible
  <2>4. pc \in Running <=> pc # "done"
    BY DEF Running
  <2>5. pc \in Running => Told(d, stayed[m])
    <3>1. pc \in Running => d.msg = c.msg
      BY <1>4, <2>1, <2>4
    <3> QED
      BY <1>3, <2>1, <3>1 DEF Told
  <2>6. pc \notin Running => d.msg = NoMsg
    BY <1>4, <2>1, <2>4
  <2>7. TaskRight(d, seen[m], stayed[m])
    BY <1>3, <2>1, <2>3, <2>5, <2>6 DEF TaskRight
  <2> QED
    BY <1>2, <1>3, <2>1, <2>2, <2>7, OneTask
<1>5. c.msg # NoMsg
  <2>1. PICK raw \in RawMessages :
          c.msg.content = Envelope(raw, cfg.acceptMedia)
    BY <1>3 DEF Told
  <2>2. cfg.acceptMedia \in BOOLEAN
    BY ListTyped DEF DispatchInv
  <2>3. c.msg.content.kind # "none"
    BY <2>1, <2>2, EnvelopesAgree DEF Agrees
  <2> QED
    BY <2>3 DEF NoMsg
<1>6. CASE Reply(m)
  <2>1. task' = [task EXCEPT ![m] = [c EXCEPT !.pc = "typing"]]
    BY <1>1, <1>6 DEF Reply, Goes
  <2>2. [c EXCEPT !.pc = "typing"]
          = [c EXCEPT !.pc = "typing", !.msg = c.msg, !.sent = c.sent]
    BY <1>1 DEF Tasks
  <2>3. c.sent \in BOOLEAN
    BY <1>1 DEF Tasks
  <2> QED
    BY <1>4, <1>5, <2>1, <2>2, <2>3
<1>7. CASE SendText(m)
  <2>1. PICK ok \in BOOLEAN :
          task' = [task EXCEPT ![m].pc = "running", ![m].sent = ok]
    BY <1>7 DEF SendText
  <2>2. task' = [task EXCEPT ![m] = [c EXCEPT !.pc = "running", !.sent = ok]]
    BY <1>1, <2>1
  <2>3. [c EXCEPT !.pc = "running", !.sent = ok]
          = [c EXCEPT !.pc = "running", !.msg = c.msg, !.sent = ok]
    BY <1>1 DEF Tasks
  <2> QED
    BY <1>4, <1>5, <2>2, <2>3
<1>8. CASE HandlerReturns(m)
  <2>1. task' = [task EXCEPT ![m] = [c EXCEPT !.pc = "done", !.msg = NoMsg]]
    BY <1>1, <1>8 DEF HandlerReturns
  <2>2. [c EXCEPT !.pc = "done", !.msg = NoMsg]
          = [c EXCEPT !.pc = "done", !.msg = NoMsg, !.sent = c.sent]
    BY <1>1 DEF Tasks
  <2>3. c.sent \in BOOLEAN
    BY <1>1 DEF Tasks
  <2> QED
    BY <1>4, <2>1, <2>2, <2>3
<1> QED
  BY <1>6, <1>7, <1>8

-----------------------------------------------------------------------------
(***************************************************************************)
(* A message comes in, the world moves.                                    *)
(***************************************************************************)
LEMMA ReceiveKeeps ==
  ASSUME DispatchInv, NEW m \in Messages, NEW event \in Incoming,
         Receive(m, event)
  PROVE  DispatchInv'
<1> DEFINE c == task[m]
           found == FoundHere(event.sender)
           d == [c EXCEPT !.pc = "queued", !.event = event]
<1>0. event \in Events
  BY DispatchAssumption
<1>1. /\ c \in Tasks /\ task \in [Messages -> Tasks] /\ RostersTypeOK
      /\ seen \in [Messages -> SUBSET Persons]
      /\ stayed \in [Messages -> SUBSET (Groups \X Persons)]
      /\ TaskRight(c, seen[m], stayed[m]) /\ cfg \in Settings
  BY DEF DispatchInv
<1>2. c = NoTask
  BY <1>1 DEF Receive, TaskRight
<1>3. /\ roster' = roster /\ mode' = mode /\ bare' = bare
      /\ learned' = learned /\ dbUp' = dbUp /\ moves' = moves
      /\ cfg' = cfg
  BY DEF Receive, world
<1>4. RostersTypeOK'
  BY <1>1, <1>3 DEF RostersTypeOK
<1>5. found \subseteq Groups \X Persons /\ InManaged \subseteq Persons
  BY DEF FoundHere, InManaged
<1>6. /\ task' = [task EXCEPT ![m] = d]
      /\ seen' = [seen EXCEPT ![m] = InManaged]
      /\ stayed' = [stayed EXCEPT ![m] = found]
  BY <1>1 DEF Receive
<1>7. /\ d \in Tasks /\ d.pc = "queued" /\ d.event = event
      /\ d.left = {} /\ d.msg = NoMsg
  <2>1. c.left = {} /\ c.msg = NoMsg
    BY <1>2 DEF NoTask
  <2> QED
    BY <1>0, <1>1, <2>1 DEF Tasks
<1> HIDE DEF d, found
<1>8. "queued" \notin Running /\ "queued" \notin Handling
  BY DEF Running, Handling
<1>9. TaskRight(d, InManaged, found)
  BY <1>0, <1>7, <1>8 DEF TaskRight
<1>10. /\ task' \in [Messages -> Tasks] /\ task'[m] = d
       /\ seen' \in [Messages -> SUBSET Persons] /\ seen'[m] = InManaged
       /\ stayed' \in [Messages -> SUBSET (Groups \X Persons)]
       /\ stayed'[m] = found
  BY <1>1, <1>5, <1>6, <1>7
<1>11. ASSUME NEW x
       PROVE  InManaged' = InManaged /\ FoundHere(x)' = FoundHere(x)
  BY <1>3 DEF InManaged, List, BotBuilt, FoundHere, FindableByPhone,
              PhoneKnown, PhoneListed, Store
<1>12. ASSUME NEW r \in Messages
       PROVE  /\ TaskRight(task[r], seen[r], stayed[r])'
              /\ Followed(task[r], seen[r], stayed[r])'
  <2>1. CASE r = m
    <3>1. ASSUME NEW n, NEW s, NEW t, n = d, s = InManaged, t = found
          PROVE  TaskRight(n, s, t)' /\ Followed(n, s, t)'
      <4>1. TaskRight(n, s, t)'
        BY <1>3, <1>9, <3>1, TaskLasts
      <4>2. Followed(n, s, t)'
        BY <1>7, <1>11, <3>1 DEF Followed, found
      <4> QED
        BY <4>1, <4>2
    <3>2. ASSUME NEW n, NEW s, NEW t,
                 n = task'[r], s = seen'[r], t = stayed'[r]
          PROVE  TaskRight(n, s, t)' /\ Followed(n, s, t)'
      BY <1>10, <2>1, <3>1, <3>2
    <3> QED
      BY <3>2
  <2>2. CASE r # m
    <3>1. /\ task'[r] = task[r] /\ seen'[r] = seen[r]
          /\ stayed'[r] = stayed[r]
      BY <1>1, <1>6, <2>2
    <3>2. TaskRight(task[r], seen[r], stayed[r])'
      BY <1>3, <3>1, RestingTask
    <3>3. Followed(task[r], seen[r], stayed[r])
      BY DEF DispatchInv
    <3>4. Followed(task[r], seen[r], stayed[r])'
      BY <1>11, <3>1, <3>3 DEF Followed
    <3> QED
      BY <3>2, <3>4
  <2> QED
    BY <2>1, <2>2
<1> QED
  BY <1>1, <1>3, <1>4, <1>10, <1>12 DEF DispatchInv

(* Someone joins or leaves, a LID is learned, the database fails.          *)
LEMMA WorldKeeps ==
  ASSUME DispatchInv, WorldMoves
  PROVE  DispatchInv'
<1>1. /\ RostersTypeOK /\ task \in [Messages -> Tasks] /\ cfg \in Settings
      /\ seen \in [Messages -> SUBSET Persons]
      /\ stayed \in [Messages -> SUBSET (Groups \X Persons)]
  BY DEF DispatchInv
<1>2. /\ RostersTypeOK' /\ mode' = mode /\ bare' = bare
      /\ cfg' = cfg /\ task' = task
  BY <1>1, RostersKept DEF WorldMoves
<1>3. /\ seen' = [m \in Messages |-> seen[m] \cup InManaged']
      /\ stayed' = [m \in Messages |->
                      stayed[m] \cap FoundHere(task[m].event.sender)']
  BY DEF WorldMoves
<1>4. InManaged' \subseteq Persons
  BY DEF InManaged
<1>5. /\ seen' \in [Messages -> SUBSET Persons]
      /\ stayed' \in [Messages -> SUBSET (Groups \X Persons)]
  BY <1>1, <1>3, <1>4
<1>6. ASSUME NEW m \in Messages
      PROVE  /\ TaskRight(task[m], seen[m], stayed[m])'
             /\ Followed(task[m], seen[m], stayed[m])'
  <2>1. /\ task'[m] = task[m]
        /\ seen[m] \subseteq seen'[m] /\ InManaged' \subseteq seen'[m]
        /\ stayed'[m] \subseteq stayed[m]
        /\ stayed'[m] \subseteq FoundHere(task[m].event.sender)'
    BY <1>2, <1>3
  <2>2. TaskRight(task[m], seen[m], stayed[m])'
    BY <1>2, <2>1, RestingTask
  <2>3. Followed(task[m], seen[m], stayed[m])'
    BY <2>1 DEF Followed
  <2> QED
    BY <2>2, <2>3
<1> QED
  BY <1>1, <1>2, <1>5, <1>6 DEF DispatchInv

LEMMA InitDispatch == Init => DispatchInv
<1> SUFFICES ASSUME Init PROVE DispatchInv
  OBVIOUS
<1>1. RostersTypeOK /\ cfg \in Settings
  BY RostersStart DEF Init
<1>2. /\ NoTask.pc = "none" /\ NoTask.left = {} /\ NoTask.msg = NoMsg
      /\ NoTask.event = NoEvent
  BY DEF NoTask
<1>3. NoTask \in Tasks
  BY DEF NoTask, Tasks, Numbers
<1>4. "none" \notin Running /\ "none" \notin Handling
  BY DEF Running, Handling
<1>5. TaskRight(NoTask, {}, {}) /\ Followed(NoTask, {}, {})
  BY <1>2, <1>4 DEF TaskRight, Followed
<1> QED
  BY <1>1, <1>3, <1>5 DEF Init, DispatchInv

LEMMA StutterKeeps ==
  ASSUME DispatchInv, UNCHANGED vars
  PROVE  DispatchInv'
<1>1. /\ roster' = roster /\ mode' = mode /\ bare' = bare
      /\ learned' = learned /\ dbUp' = dbUp /\ moves' = moves
      /\ cfg' = cfg /\ task' = task /\ seen' = seen /\ stayed' = stayed
  BY DEF vars, world
<1>2. RostersTypeOK'
  BY <1>1 DEF DispatchInv, RostersTypeOK
<1>3. ASSUME NEW m \in Messages
      PROVE  /\ TaskRight(task[m], seen[m], stayed[m])'
             /\ Followed(task[m], seen[m], stayed[m])'
  <2>1. TaskRight(task[m], seen[m], stayed[m])'
    BY <1>1, RestingTask
  <2>2. Followed(task[m], seen[m], stayed[m])
    BY DEF DispatchInv
  <2>3. Followed(task[m], seen[m], stayed[m])'
    BY <1>1, <2>2
       DEF Followed, InManaged, List, BotBuilt, FoundHere, FindableByPhone,
           PhoneKnown, PhoneListed, Store
  <2> QED
    BY <2>1, <2>3
<1> QED
  BY <1>1, <1>2, <1>3 DEF DispatchInv

LEMMA NextDispatch == DispatchInv /\ [Next]_vars => DispatchInv'
<1> SUFFICES ASSUME DispatchInv, [Next]_vars PROVE DispatchInv'
  OBVIOUS
<1>1. CASE WorldMoves
  BY <1>1, WorldKeeps
<1>2. CASE UNCHANGED vars
  BY <1>2, StutterKeeps
<1>3. CASE \E m \in Messages, event \in Incoming : Receive(m, event)
  BY <1>3, ReceiveKeeps
<1>4. CASE \E m \in Messages : Dispatched(m) \/ Handle(m)
  BY <1>4, RoutingKeeps, MemberDMKeeps DEF Handle
<1>5. CASE \E m \in Messages : Asked(m) \/ LookInGroup(m)
  BY <1>5, RoutingKeeps, AskGroupKeeps, LookKeeps DEF Asked
<1>6. CASE \E m \in Messages, message \in Contents : Build(m, message)
  BY <1>6, BuildKeeps
<1>7. CASE \E m \in Messages : Reply(m) \/ SendText(m) \/ HandlerReturns(m)
  BY <1>7, HandlerKeeps
<1> QED
  BY <1>1, <1>2, <1>3, <1>4, <1>5, <1>6, <1>7 DEF Next

LEMMA DispatchAlways == Spec => []DispatchInv
BY InitDispatch, NextDispatch, PTL DEF Spec

-----------------------------------------------------------------------------
(* The goroutines of messages keep their types: a handler has a message    *)
(* while it runs, and whoever asks has a number to ask about and a group   *)
(* to ask.                                                                 *)
THEOREM DispatchTypes == Spec => []TypeOK
<1>1. DispatchInv => TypeOK
  <2> SUFFICES ASSUME DispatchInv PROVE TypeOK
    OBVIOUS
  <2>1. ASSUME NEW m \in Messages
        PROVE  task[m].msg.content.kind # "none" <=> task[m].pc \in Running
    <3>1. TaskRight(task[m], seen[m], stayed[m])
      BY DEF DispatchInv
    <3>2. CASE task[m].pc \in Running
      <4>1. PICK raw \in RawMessages :
              task[m].msg.content = Envelope(raw, cfg.acceptMedia)
        BY <3>1, <3>2 DEF TaskRight, Told
      <4>2. cfg.acceptMedia \in BOOLEAN
        BY ListTyped DEF DispatchInv
      <4> QED
        BY <3>2, <4>1, <4>2, EnvelopesAgree DEF Agrees
    <3>3. CASE task[m].pc \notin Running
      <4>1. task[m].msg.content.kind = "none"
        BY <3>1, <3>3 DEF TaskRight, NoMsg
      <4> QED
        BY <3>3, <4>1
    <3> QED
      BY <3>2, <3>3
  <2>2. ASSUME NEW m \in Messages
        PROVE  /\ task[m].pc = "asking" => task[m].want # <<>>
                                           /\ task[m].left # {}
               /\ task[m].left \subseteq List
    BY DEF DispatchInv, TaskRight, Wanted
  <2> QED
    BY <2>1, <2>2 DEF DispatchInv, TypeOK, Tasks
<1> QED
  BY <1>1, DispatchAlways, PTL

(* A handler runs only for what the policy lets in: whatever numbers       *)
(* people have, whoever joins, leaves or is learned of meanwhile, a DM     *)
(* under DMsFromMembers is from somebody who has been in a managed group.  *)
THEOREM OnlyAdmittedHolds == Spec => []OnlyAdmitted
<1>1. DispatchInv => OnlyAdmitted
  <2> SUFFICES ASSUME DispatchInv PROVE OnlyAdmitted
    OBVIOUS
  <2>1. \A m \in Messages :
          task[m].pc \in Handling =>
            ~ task[m].event.fromMe /\ Admissible(task[m], seen[m])
    BY DEF DispatchInv, TaskRight, Handling
  <2>2. \A chat : Allows(chat) => cfg.allGroups \/ chat \in cfg.managed
    BY ListTyped DEF Allows, DispatchInv
  <2> QED
    BY <2>1, <2>2 DEF OnlyAdmitted, Admissible
<1> QED
  BY <1>1, DispatchAlways, PTL

(* A member whose number is known on both sides all the while is not       *)
(* refused, in whichever order the groups are asked.                       *)
THEOREM MembersHeardHolds == Spec => []MembersHeard
<1>1. DispatchInv => MembersHeard
  BY DEF DispatchInv, MembersHeard, TaskRight
<1> QED
  BY <1>1, DispatchAlways, PTL

(* A handler is told the sender's own number and the group that was spoken *)
(* in.  The number is missing only for a LID, and not for one who was in a *)
(* group, with a number known on both sides, all the while.                *)
THEOREM SenderToldHolds == Spec => []SenderTold
<1>1. DispatchInv => SenderTold
  BY DEF DispatchInv, SenderTold, TaskRight, Told
<1> QED
  BY <1>1, DispatchAlways, PTL

(* Kind, text and media of an envelope agree, whichever parts the message  *)
(* has, wrapped or not, and Text is something that was written, or empty   *)
(* if nothing was.                                                         *)
THEOREM EnvelopeAgreesHolds == Spec => []EnvelopeAgrees
<1>1. DispatchInv => EnvelopeAgrees
  <2> SUFFICES ASSUME DispatchInv, NEW m \in Messages, task[m].pc \in Running
               PROVE  Agrees(task[m].msg.content, cfg.acceptMedia)
    BY DEF EnvelopeAgrees, Agrees
  <2>1. PICK raw \in RawMessages :
          task[m].msg.content = Envelope(raw, cfg.acceptMedia)
    BY DEF DispatchInv, TaskRight, Told
  <2>2. cfg.acceptMedia \in BOOLEAN
    BY ListTyped DEF DispatchInv
  <2> QED
    BY <2>1, <2>2, EnvelopesAgree
<1> QED
  BY <1>1, DispatchAlways, PTL
=============================================================================
