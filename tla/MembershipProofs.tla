-------------------------- MODULE MembershipProofs --------------------------
(***************************************************************************)
(* Proofs about Membership, for any persons, numbers, groups and bounds.   *)
(***************************************************************************)
EXTENDS Membership, IdentityProofs

Answers ==
  [isAdmin : BOOLEAN,
   members : SUBSET [JID : JIDs, Phone : Numbers, IsAdmin : BOOLEAN]]

(* What is known of some groups.                                           *)
About(T) == UNION {[gs -> T] : gs \in SUBSET Groups}

Calls ==
  [pc : {"idle", "call", "backoff", "match", "yes", "no", "listed", "error"},
   question : Questions \cup {NoQuestion}, attempt : 0..MaxAttempts,
   info : About(SUBSET Participants), list : About(Answers)]

-----------------------------------------------------------------------------
(***************************************************************************)
(* The inductive invariant.  It says what an answer is worth by the time   *)
(* it is looked at: WhatsApp gave the records of those who were in the     *)
(* group at some moment since the question, and of all who were in it all  *)
(* the while.                                                              *)
(***************************************************************************)
ReadAs(g, recs, s, t) ==
  \E ps \in SUBSET Persons :
    /\ recs = {Record(g, p) : p \in ps}
    /\ \A p \in ps : <<g, p>> \in s
    /\ \A p \in Persons : <<g, p>> \in t => p \in ps

Listed(c, s, t) ==
  /\ DOMAIN c.list = Groups
  /\ \A g \in Groups :
       /\ c.list[g].isAdmin => Bot \in Admins /\ <<g, Bot>> \in s
       /\ own = {"pn", "lid"} /\ Bot \in Admins /\ <<g, Bot>> \in t
            => c.list[g].isAdmin
  /\ \A x \in t : \E m \in c.list[x[1]].members : m.JID \in Forms(x[2])
  /\ \A g \in Groups, p \in Persons : \A m \in c.list[g].members :
       m.JID \in Forms(p) => m.Phone \in {<<>>, PhoneOf[p]}

CallRight(c, s, t) ==
  /\ c.pc = "idle" => c.attempt = 0
  /\ c.pc = "call" => c.attempt < MaxAttempts
  /\ c.pc # "idle" => c.question \in Questions
  /\ c.pc = "match" =>
       /\ DOMAIN c.info = c.question.groups
       /\ \A g \in c.question.groups : ReadAs(g, c.info[g], s, t)
  /\ c.pc = "yes" =>
       \E x \in s :
         x[1] \in c.question.groups /\ c.question.jid \in Forms(x[2])
  /\ c.pc = "no" => \A x \in t : x[1] \notin c.question.groups
  /\ c.pc = "listed" => c.question.groups = Groups /\ Listed(c, s, t)

Followed(c, s, t) ==
  /\ t \subseteq s
  /\ t \subseteq FoundHere(c.question)
  /\ c.pc # "idle" => Here \subseteq s

MembersInv ==
  /\ RostersTypeOK
  /\ own \in {{}, {"pn"}, {"pn", "lid"}}
  /\ query \in [Queries -> Calls]
  /\ seen \in [Queries -> SUBSET (Groups \X Persons)]
  /\ stayed \in [Queries -> SUBSET (Groups \X Persons)]
  /\ \A q \in Queries : /\ CallRight(query[q], seen[q], stayed[q])
                        /\ Followed(query[q], seen[q], stayed[q])

-----------------------------------------------------------------------------
LEMMA HereTyped ==
  /\ Here \subseteq Groups \X Persons
  /\ \A question : FoundHere(question) \subseteq Here
BY DEF Here, FoundHere

(* What was right stays right as more is seen and fewer stay.              *)
LEMMA ReadLasts ==
  ASSUME NEW g, NEW recs, NEW s, NEW t, NEW s1, NEW t1,
         ReadAs(g, recs, s, t), s \subseteq s1, t1 \subseteq t,
         mode' = mode, bare' = bare
  PROVE  ReadAs(g, recs, s1, t1)'
<1>1. PICK ps \in SUBSET Persons :
        /\ recs = {Record(g, p) : p \in ps}
        /\ \A p \in ps : <<g, p>> \in s
        /\ \A p \in Persons : <<g, p>> \in t => p \in ps
  BY DEF ReadAs
<1>2. recs = {Record(g, p)' : p \in ps}
  BY <1>1, RecordsLast
<1>3. /\ \A p \in ps : <<g, p>> \in s1
      /\ \A p \in Persons : <<g, p>> \in t1 => p \in ps
  BY <1>1
<1> QED
  BY <1>2, <1>3 DEF ReadAs

LEMMA CallLasts ==
  ASSUME NEW c, NEW s, NEW t, NEW s1, NEW t1,
         CallRight(c, s, t), s \subseteq s1, t1 \subseteq t,
         mode' = mode, bare' = bare, own' = own \/ own' = {}
  PROVE  CallRight(c, s1, t1)'
<1>1. \A g, recs : ReadAs(g, recs, s, t) => ReadAs(g, recs, s1, t1)'
  BY ReadLasts
<1>2. Listed(c, s, t) => Listed(c, s1, t1)'
  BY DEF Listed
<1> QED
  BY <1>1, <1>2 DEF CallRight

(* A call that rests stays right.                                          *)
LEMMA RestingCall ==
  ASSUME MembersInv, NEW q \in Queries, query'[q] = query[q],
         seen[q] \subseteq seen'[q], stayed'[q] \subseteq stayed[q],
         mode' = mode, bare' = bare, own' = own \/ own' = {}
  PROVE  CallRight(query[q], seen[q], stayed[q])'
<1>1. CallRight(query[q], seen[q], stayed[q])
  BY DEF MembersInv
<1>2. ASSUME NEW c, NEW s, NEW t,
             c = query'[q], s = seen'[q], t = stayed'[q]
      PROVE  CallRight(c, s, t)'
  BY <1>1, <1>2, CallLasts
<1> QED
  BY <1>2

(* Nothing moves but one call.                                             *)
LEMMA OneCall ==
  ASSUME MembersInv, NEW q \in Queries, NEW c \in Calls,
         query[q].pc # "idle", c.question = query[q].question,
         CallRight(c, seen[q], stayed[q]),
         query' = [query EXCEPT ![q] = c],
         UNCHANGED <<world, own, seen, stayed>>
  PROVE  MembersInv'
<1>1. /\ query \in [Queries -> Calls]
      /\ seen \in [Queries -> SUBSET (Groups \X Persons)]
      /\ stayed \in [Queries -> SUBSET (Groups \X Persons)]
  BY DEF MembersInv
<1>2. /\ roster' = roster /\ mode' = mode /\ bare' = bare
      /\ learned' = learned /\ dbUp' = dbUp /\ moves' = moves
      /\ own' = own /\ seen' = seen /\ stayed' = stayed
  BY DEF world
<1>3. RostersTypeOK' /\ own' \in {{}, {"pn"}, {"pn", "lid"}}
  BY <1>2 DEF MembersInv, RostersTypeOK
<1>4. query' \in [Queries -> Calls] /\ query'[q] = c
  BY <1>1
<1>5. ASSUME NEW r \in Queries
      PROVE  CallRight(query[r], seen[r], stayed[r])'
  <2>1. CASE r # q
    <3>1. query'[r] = query[r]
      BY <1>1, <2>1
    <3> QED
      BY <1>2, <3>1, RestingCall
  <2>2. CASE r = q
    <3>1. CallRight(c, seen[q], stayed[q])'
      BY <1>2, CallLasts
    <3> QED
      BY <1>4, <2>2, <3>1
  <2> QED
    BY <2>1, <2>2
<1>6. ASSUME NEW r \in Queries
      PROVE  Followed(query[r], seen[r], stayed[r])'
  <2>1. query'[r].question = query[r].question
        /\ (query[r].pc = "idle" => query'[r].pc = "idle")
    BY <1>1
  <2>2. Followed(query[r], seen[r], stayed[r])
    BY DEF MembersInv
  <2>3. Here' = Here /\ FoundHere(query[r].question)'
                          = FoundHere(query[r].question)
    BY <1>2, <2>1 DEF Here, FoundHere, Findable, PhoneKnown, PhoneListed, Store
  <2> QED
    BY <1>2, <2>1, <2>2, <2>3 DEF Followed
<1> QED
  BY <1>1, <1>2, <1>3, <1>4, <1>5, <1>6 DEF MembersInv

-----------------------------------------------------------------------------
LEMMA AboutGroups ==
  ASSUME NEW T, NEW gs \in SUBSET Groups, NEW f \in [gs -> T]
  PROVE  f \in About(T)
<1>1. [gs -> T] \in {[hs -> T] : hs \in SUBSET Groups}
  OBVIOUS
<1> QED
  BY <1>1 DEF About

(* A question names groups, and IsMember's names one.                      *)
LEMMA QuestionGroups ==
  ASSUME NEW question \in Questions
  PROVE  /\ question.groups \subseteq Groups /\ question.jid \in JIDs
         /\ question.kind \in {"IsMember", "AllGroups"}
         /\ question.kind = "AllGroups" => question.groups = Groups
         /\ question.kind = "IsMember" =>
              \E g \in Groups : question.groups = {g}
<1>1. NoJID \in JIDs
  BY Owners
<1> QED
  BY <1>1 DEF Questions

(* The call to WhatsApp: whoever is there now was there since, and whoever *)
(* was there all the while is.                                             *)
LEMMA FetchKeeps ==
  ASSUME MembersInv, NEW q \in Queries, Fetch(q)
  PROVE  MembersInv'
<1> DEFINE c == query[q]
           read == [g \in c.question.groups |-> GroupInfo(g)]
           d == [c EXCEPT !.pc = "match", !.info = read]
<1>1. /\ RostersTypeOK /\ c \in Calls /\ query \in [Queries -> Calls]
      /\ CallRight(c, seen[q], stayed[q])
      /\ Followed(c, seen[q], stayed[q])
  BY DEF MembersInv
<1>2. c.pc = "call" /\ c.question \in Questions
  BY <1>1 DEF Fetch, CallRight
<1>3. c.question.groups \subseteq Groups
  BY <1>2, QuestionGroups
<1>4. \A g \in Groups : roster[g] \subseteq Persons
  BY <1>1 DEF RostersTypeOK
<1>5. \A g \in Groups : GroupInfo(g) \subseteq Participants
  BY <1>1, <1>4, RecordShows DEF GroupInfo
<1>6. read \in About(SUBSET Participants)
  <2>1. read \in [c.question.groups -> SUBSET Participants]
    BY <1>3, <1>5
  <2> QED
    BY <1>3, <2>1, AboutGroups
<1>7. ASSUME NEW g \in c.question.groups
      PROVE  ReadAs(g, read[g], seen[q], stayed[q])
  <2>1. g \in Groups /\ read[g] = {Record(g, p) : p \in roster[g]}
    BY <1>3 DEF GroupInfo
  <2>2. \A p \in Persons : <<g, p>> \in Here <=> p \in roster[g]
    BY <2>1 DEF Here
  <2>3. Here \subseteq seen[q] /\ stayed[q] \subseteq Here
    BY <1>1, <1>2, HereTyped DEF Followed
  <2>4. roster[g] \in SUBSET Persons
    BY <1>4, <2>1
  <2>5. /\ \A p \in roster[g] : <<g, p>> \in seen[q]
        /\ \A p \in Persons : <<g, p>> \in stayed[q] => p \in roster[g]
    BY <2>2, <2>3, <2>4
  <2> QED
    BY <2>1, <2>4, <2>5 DEF ReadAs
<1>8. DOMAIN read = c.question.groups
  OBVIOUS
<1>9. query' = [query EXCEPT ![q] = d]
  BY <1>1 DEF Fetch
<1> HIDE DEF read
<1>10. /\ d \in Calls /\ d.pc = "match" /\ d.info = read
       /\ d.question = c.question
  BY <1>1, <1>6 DEF Calls
<1> HIDE DEF d
<1>11. CallRight(d, seen[q], stayed[q])
  BY <1>2, <1>7, <1>8, <1>10 DEF CallRight
<1> QED
  BY <1>2, <1>9, <1>10, <1>11, OneCall DEF Fetch

(* A 429, an error, the end of a pause.                                    *)
LEMMA RetryKeeps ==
  ASSUME MembersInv, NEW q \in Queries,
         RateLimited(q) \/ FetchFails(q) \/ BackoffOver(q) \/ Cancelled(q)
  PROVE  MembersInv'
<1> DEFINE c == query[q]
<1>1. /\ c \in Calls /\ query \in [Queries -> Calls]
      /\ CallRight(c, seen[q], stayed[q])
  BY DEF MembersInv
<1>2. ASSUME NEW pc \in {"call", "backoff", "error"},
             NEW n \in 0..MaxAttempts, pc = "call" => n < MaxAttempts,
             query' = [query EXCEPT ![q] = [c EXCEPT !.pc = pc,
                                                     !.attempt = n]],
             c.pc \in {"call", "backoff"}
      PROVE  MembersInv'
  <2> DEFINE d == [c EXCEPT !.pc = pc, !.attempt = n]
  <2>1. /\ d \in Calls /\ d.pc = pc /\ d.attempt = n
        /\ d.question = c.question
    BY <1>1, <1>2 DEF Calls
  <2> HIDE DEF d
  <2>2. CallRight(d, seen[q], stayed[q])
    BY <1>1, <1>2, <2>1 DEF CallRight
  <2>3. UNCHANGED <<world, own, seen, stayed>>
    BY DEF RateLimited, FetchFails, BackoffOver, Cancelled
  <2> QED
    BY <1>2, <2>1, <2>2, <2>3, OneCall DEF d
<1>3. c.attempt \in 0..MaxAttempts /\ MaxAttempts \in Nat
  BY <1>1, MembershipAssumption DEF Calls
<1>4. CASE RateLimited(q)
  <2>1. c.pc = "call" /\ c.attempt < MaxAttempts
    BY <1>1, <1>4 DEF RateLimited, CallRight
  <2>2. query' = [query EXCEPT ![q] = [c EXCEPT !.pc = "backoff",
                                                !.attempt = c.attempt + 1]]
    BY <1>1, <1>4 DEF RateLimited, Counted
  <2>3. c.attempt + 1 \in 0..MaxAttempts
    BY <1>3, <2>1
  <2> QED
    BY <1>2, <2>1, <2>2, <2>3
<1>5. ASSUME NEW pc \in {"call", "error"}, c.pc \in {"call", "backoff"},
             query' = [query EXCEPT ![q].pc = pc],
             pc = "call" => c.attempt < MaxAttempts
      PROVE  MembersInv'
  <2>1. query' = [query EXCEPT ![q] = [c EXCEPT !.pc = pc,
                                                !.attempt = c.attempt]]
    <3>1. [c EXCEPT !.pc = pc, !.attempt = c.attempt] = [c EXCEPT !.pc = pc]
      BY <1>1 DEF Calls
    <3> QED
      BY <1>1, <1>5, <3>1
  <2> QED
    BY <1>2, <1>3, <1>5, <2>1
<1>6. CASE FetchFails(q) \/ Cancelled(q)
  BY <1>5, <1>6 DEF FetchFails, Cancelled, Goes
<1>7. CASE BackoffOver(q)
  BY <1>5, <1>7 DEF BackoffOver, AttemptsLeft, Goes
<1> QED
  BY <1>4, <1>6, <1>7

-----------------------------------------------------------------------------
(* What IsMember says, of records that may be old.                         *)
LEMMA IsMemberKeeps ==
  ASSUME MembersInv, NEW q \in Queries, AnswerIsMember(q)
  PROVE  MembersInv'
<1> DEFINE c == query[q]
           s == seen[q]
           t == stayed[q]
           jid == c.question.jid
<1>1. /\ RostersTypeOK /\ c \in Calls /\ query \in [Queries -> Calls]
      /\ CallRight(c, s, t) /\ Followed(c, s, t)
      /\ s \subseteq Groups \X Persons /\ t \subseteq Groups \X Persons
  BY DEF MembersInv
<1>2. PICK g \in c.question.groups :
        Goes(q, "match", IF Matches(c.info[g], jid, Store) THEN "yes" ELSE "no")
  BY DEF AnswerIsMember
<1>3. c.pc = "match" /\ c.question \in Questions
      /\ c.question.kind = "IsMember"
  BY <1>1, <1>2 DEF Goes, CallRight, AnswerIsMember
<1>4. g \in Groups /\ c.question.groups = {g} /\ jid \in JIDs
  BY <1>3, QuestionGroups
<1>5. PICK ps \in SUBSET Persons :
        /\ c.info[g] = {Record(g, p) : p \in ps}
        /\ \A p \in ps : <<g, p>> \in s
        /\ \A p \in Persons : <<g, p>> \in t => p \in ps
  BY <1>1, <1>3 DEF CallRight, ReadAs
<1>6. Store \subseteq Persons
  BY <1>1 DEF Store, RostersTypeOK
<1> DEFINE yes == Matches(c.info[g], jid, Store)
           pc == IF yes THEN "yes" ELSE "no"
           d == [c EXCEPT !.pc = pc]
<1>7. ASSUME yes
      PROVE  \E x \in s : x[1] \in c.question.groups /\ jid \in Forms(x[2])
  <2>1. PICK p \in ps : jid \in Forms(p)
    BY <1>1, <1>4, <1>5, <1>6, <1>7, MatchesOnly
  <2>2. <<g, p>> \in s /\ <<g, p>>[1] = g /\ <<g, p>>[2] = p
    BY <1>5
  <2> QED
    BY <1>4, <2>1, <2>2
<1>8. ASSUME ~ yes
      PROVE  \A x \in t : x[1] \notin c.question.groups
  <2> SUFFICES ASSUME NEW x \in t, x[1] = g PROVE FALSE
    BY <1>4
  <2>1. x[2] \in Persons /\ x = <<g, x[2]>>
    BY <1>1
  <2>2. x[2] \in ps
    BY <1>5, <2>1
  <2>3. Findable(g, x[2], jid)
    BY <1>1, <1>3 DEF Followed, FoundHere
  <2> QED
    BY <1>1, <1>4, <1>5, <1>8, <2>2, <2>3, MatchesFound
<1>9. query' = [query EXCEPT ![q] = d] /\ pc \in {"yes", "no"}
  BY <1>1, <1>2 DEF Goes
<1>10. pc = "yes" <=> yes
  OBVIOUS
<1> HIDE DEF yes, pc
<1>11. /\ d \in Calls /\ d.pc = pc /\ d.question = c.question
  BY <1>1, <1>9 DEF Calls
<1> HIDE DEF d
<1>12. CallRight(d, s, t)
  BY <1>3, <1>7, <1>8, <1>9, <1>10, <1>11 DEF CallRight
<1> QED
  BY <1>3, <1>9, <1>11, <1>12, OneCall DEF AnswerIsMember

-----------------------------------------------------------------------------
(* What AllGroups says of one group.  The bot is itself and nobody else,   *)
(* under the forms its session knows.                                      *)
LEMMA SelfFound ==
  ASSUME RostersTypeOK, own \in {{}, {"pn"}, {"pn", "lid"}},
         NEW g \in Groups, NEW p \in Persons
  PROVE  LET rec == Record(g, p)
         IN /\ ParticipantIsSelf(rec, SelfJID, SelfLID) => p = Bot
            /\ p = Bot /\ own = {"pn", "lid"}
                 => ParticipantIsSelf(rec, SelfJID, SelfLID)
<1> DEFINE rec == Record(g, p)
           a == SelfJID
           b == SelfLID
<1>1. Bot \in Persons
  BY MembershipAssumption
<1>2. /\ rec \in Participants /\ rec.JID \in Forms(p)
      /\ rec.PhoneNumber \in {PN(p), NoJID} /\ rec.LID \in {LID(p), NoJID}
  BY RecordShows
<1>3. /\ a \in {PN(Bot), NoJID} /\ b \in {LID(Bot), NoJID}
      /\ own = {"pn", "lid"} => a = PN(Bot) /\ b = LID(Bot)
  BY DEF SelfJID, SelfLID
<1>4. a \in JIDs /\ b \in JIDs
  BY <1>1, <1>3, FormsOwned
<1>5. rec.JID \in JIDs /\ rec.PhoneNumber \in JIDs /\ rec.LID \in JIDs
  BY <1>2 DEF Participants
<1> HIDE DEF rec, a, b
<1>6. ParticipantIsSelf(rec, a, b)
        <=> \/ rec.JID = a /\ a # NoJID
            \/ rec.PhoneNumber = a /\ a # NoJID
            \/ rec.JID = b /\ b # NoJID
            \/ rec.LID = b /\ b # NoJID
  BY <1>4, <1>5, SameIsEqual DEF ParticipantIsSelf
<1>7. ASSUME NEW jid, jid # NoJID, jid \in {PN(Bot), LID(Bot)},
             jid \in {PN(p), LID(p), NoJID}
      PROVE  p = Bot
  BY <1>1, <1>7, FormsOwned DEF Forms
<1>8. ParticipantIsSelf(rec, a, b) => p = Bot
  BY <1>2, <1>3, <1>6, <1>7 DEF Forms
<1>9. p = Bot /\ own = {"pn", "lid"} => ParticipantIsSelf(rec, a, b)
  BY <1>1, <1>2, <1>3, <1>6, FormsOwned DEF Forms
<1> QED
  BY <1>8, <1>9 DEF rec, a, b

LEMMA SummaryRight ==
  ASSUME RostersTypeOK, own \in {{}, {"pn"}, {"pn", "lid"}},
         NEW g \in Groups, NEW ps \in SUBSET Persons
  PROVE  LET sum == Summary({Record(g, p) : p \in ps})
         IN /\ sum \in Answers
            /\ sum.isAdmin => Bot \in Admins /\ Bot \in ps
            /\ own = {"pn", "lid"} /\ Bot \in Admins /\ Bot \in ps
                 => sum.isAdmin
            /\ \A p \in ps : \E m \in sum.members : m.JID \in Forms(p)
            /\ \A m \in sum.members, p \in Persons :
                 m.JID \in Forms(p) => m.Phone \in {<<>>, PhoneOf[p]}
<1> DEFINE recs == {Record(g, p) : p \in ps}
           sum == Summary(recs)
           entry(p) == [JID |-> Record(g, p).JID,
                        Phone |-> PhoneOfRecord(Record(g, p), Store),
                        IsAdmin |-> Record(g, p).IsAdmin]
<1>1. Store \in SUBSET Persons
  BY DEF Store, RostersTypeOK
<1>2. /\ sum.isAdmin = SelfIsAdmin(recs, SelfJID, SelfLID)
      /\ sum.members = MembersFrom(recs, Store)
      /\ sum = [isAdmin |-> sum.isAdmin, members |-> sum.members]
  BY DEF Summary
<1>3. SelfIsAdmin(recs, SelfJID, SelfLID)
        <=> \E p \in ps : /\ ParticipantIsSelf(Record(g, p), SelfJID, SelfLID)
                          /\ Record(g, p).IsAdmin
  BY DEF SelfIsAdmin
<1>4. MembersFrom(recs, Store) = {entry(p) : p \in ps}
  BY DEF MembersFrom
<1>5. ASSUME NEW p \in ps
      PROVE  /\ entry(p).JID \in Forms(p) /\ entry(p).JID \in JIDs
             /\ entry(p).Phone \in {<<>>, PhoneOf[p]}
             /\ entry(p) \in [JID : JIDs, Phone : Numbers, IsAdmin : BOOLEAN]
  <2>1. /\ Record(g, p).JID \in Forms(p) /\ Record(g, p) \in Participants
    BY RecordShows
  <2>2. PhoneOfRecord(Record(g, p), Store) \in {<<>>, PhoneOf[p]}
    BY <1>1, RecordPhone
  <2> QED
    BY <2>1, <2>2 DEF Participants, Numbers
<1> HIDE DEF recs, entry
<1>6. sum.isAdmin => Bot \in Admins /\ Bot \in ps
  BY <1>2, <1>3, SelfFound, RecordShows
<1>7. own = {"pn", "lid"} /\ Bot \in Admins /\ Bot \in ps => sum.isAdmin
  BY <1>2, <1>3, SelfFound, RecordShows
<1>8. sum.isAdmin \in BOOLEAN
  BY <1>2 DEF SelfIsAdmin
<1> HIDE DEF sum
<1>9. sum \in Answers
  BY <1>2, <1>4, <1>5, <1>8 DEF Answers
<1>10. \A p \in ps : \E m \in sum.members : m.JID \in Forms(p)
  BY <1>2, <1>4, <1>5
<1>11. ASSUME NEW m \in sum.members, NEW p \in Persons, m.JID \in Forms(p)
       PROVE  m.Phone \in {<<>>, PhoneOf[p]}
  <2>1. PICK r \in ps : m = entry(r)
    BY <1>2, <1>4
  <2>2. p = r
    BY <1>5, <1>11, <2>1, FormsOwned
  <2> QED
    BY <1>5, <2>1, <2>2
<1> QED
  BY <1>6, <1>7, <1>9, <1>10, <1>11 DEF sum, recs

(* What AllGroups makes of the records, group by group.                    *)
LEMMA AllGroupsKeeps ==
  ASSUME MembersInv, NEW q \in Queries, AnswerAllGroups(q)
  PROVE  MembersInv'
<1> DEFINE c == query[q]
           s == seen[q]
           t == stayed[q]
           list == [g \in c.question.groups |-> Summary(c.info[g])]
           d == [c EXCEPT !.pc = "listed", !.list = list]
<1>1. /\ RostersTypeOK /\ c \in Calls /\ query \in [Queries -> Calls]
      /\ own \in {{}, {"pn"}, {"pn", "lid"}}
      /\ CallRight(c, s, t) /\ Followed(c, s, t)
      /\ s \subseteq Groups \X Persons /\ t \subseteq Groups \X Persons
  BY DEF MembersInv
<1>2. c.pc = "match" /\ c.question \in Questions
      /\ c.question.kind = "AllGroups"
  BY <1>1 DEF AnswerAllGroups, CallRight
<1>3. c.question.groups = Groups
  BY <1>2, QuestionGroups
<1>4. ASSUME NEW g \in Groups
      PROVE  /\ list[g] \in Answers
             /\ list[g].isAdmin => Bot \in Admins /\ <<g, Bot>> \in s
             /\ own = {"pn", "lid"} /\ Bot \in Admins /\ <<g, Bot>> \in t
                  => list[g].isAdmin
             /\ \A p \in Persons : <<g, p>> \in t =>
                  \E m \in list[g].members : m.JID \in Forms(p)
             /\ \A m \in list[g].members, p \in Persons :
                  m.JID \in Forms(p) => m.Phone \in {<<>>, PhoneOf[p]}
  <2>1. PICK ps \in SUBSET Persons :
          /\ c.info[g] = {Record(g, p) : p \in ps}
          /\ \A p \in ps : <<g, p>> \in s
          /\ \A p \in Persons : <<g, p>> \in t => p \in ps
    BY <1>1, <1>2, <1>3 DEF CallRight, ReadAs
  <2>2. list[g] = Summary({Record(g, p) : p \in ps})
    BY <1>3, <2>1
  <2>3. Bot \in Persons
    BY MembershipAssumption
  <2> HIDE DEF list
  <2> DEFINE sum == Summary({Record(g, p) : p \in ps})
  <2>4. /\ sum \in Answers
        /\ sum.isAdmin => Bot \in Admins /\ Bot \in ps
        /\ own = {"pn", "lid"} /\ Bot \in Admins /\ Bot \in ps
             => sum.isAdmin
        /\ \A p \in ps : \E m \in sum.members : m.JID \in Forms(p)
        /\ \A m \in sum.members, p \in Persons :
             m.JID \in Forms(p) => m.Phone \in {<<>>, PhoneOf[p]}
    BY <1>1, SummaryRight
  <2> HIDE DEF sum
  <2>5. list[g] = sum
    BY <2>2 DEF sum
  <2> QED
    BY <2>1, <2>3, <2>4, <2>5
<1>5. DOMAIN list = Groups
  BY <1>3
<1>6. query' = [query EXCEPT ![q] = d]
  BY <1>1 DEF AnswerAllGroups
<1>7. list \in About(Answers)
  <2>1. list \in [Groups -> Answers]
    BY <1>3, <1>4
  <2> QED
    BY <2>1, AboutGroups
<1> HIDE DEF list
<1>8. /\ d \in Calls /\ d.pc = "listed" /\ d.list = list
      /\ d.question = c.question
  BY <1>1, <1>7 DEF Calls
<1> HIDE DEF d
<1>9. \A x \in t : \E m \in list[x[1]].members : m.JID \in Forms(x[2])
  <2> SUFFICES ASSUME NEW x \in t
               PROVE  \E m \in list[x[1]].members : m.JID \in Forms(x[2])
    OBVIOUS
  <2>1. x[1] \in Groups /\ x[2] \in Persons /\ <<x[1], x[2]>> \in t
    BY <1>1
  <2> QED
    BY <1>4, <2>1
<1>10. Listed(d, s, t)
  BY <1>4, <1>5, <1>8, <1>9 DEF Listed
<1>11. CallRight(d, s, t)
  BY <1>2, <1>3, <1>8, <1>10 DEF CallRight
<1> QED
  BY <1>2, <1>6, <1>8, <1>11, OneCall DEF AnswerAllGroups

-----------------------------------------------------------------------------
(* A question begins with who is there now; nobody is findable as nobody.  *)
LEMMA AskKeeps ==
  ASSUME MembersInv, NEW q \in Queries, NEW question \in Questions,
         Ask(q, question)
  PROVE  MembersInv'
<1> DEFINE c == query[q]
           no == question.kind = "IsMember" /\ IsEmpty(question.jid)
           pc == IF no THEN "no" ELSE "call"
           d == [c EXCEPT !.pc = pc, !.question = question]
<1>1. /\ RostersTypeOK /\ c \in Calls /\ query \in [Queries -> Calls]
      /\ seen \in [Queries -> SUBSET (Groups \X Persons)]
      /\ stayed \in [Queries -> SUBSET (Groups \X Persons)]
      /\ own \in {{}, {"pn"}, {"pn", "lid"}}
      /\ CallRight(c, seen[q], stayed[q])
  BY DEF MembersInv
<1>2. c.attempt = 0 /\ c.pc = "idle"
  BY <1>1 DEF Ask, CallRight
<1>3. /\ roster' = roster /\ mode' = mode /\ bare' = bare
      /\ learned' = learned /\ dbUp' = dbUp /\ moves' = moves
      /\ own' = own
  BY DEF Ask, world
<1>4. RostersTypeOK'
  BY <1>1, <1>3 DEF RostersTypeOK
<1>5. FoundHere(question) \subseteq Here /\ Here \subseteq Groups \X Persons
  BY HereTyped
<1>6. /\ seen' = [seen EXCEPT ![q] = Here]
      /\ stayed' = [stayed EXCEPT ![q] = FoundHere(question)]
      /\ query' = [query EXCEPT ![q] = d]
  BY <1>1 DEF Ask
<1>7. pc \in {"no", "call"} /\ (pc = "no" <=> no)
  OBVIOUS
<1>8. no => FoundHere(question) = {}
  <2> SUFFICES ASSUME no, NEW x \in FoundHere(question) PROVE FALSE
    OBVIOUS
  <2>1. x[2] \in Persons /\ question.jid \in Forms(x[2])
    BY <1>5 DEF FoundHere, Findable
  <2>2. question.jid.server = "none"
    BY DEF IsEmpty
  <2> QED
    BY <2>1, <2>2, FormsOwned DEF Forms
<1> HIDE DEF no, pc
<1>9. /\ d \in Calls /\ d.pc = pc /\ d.question = question
      /\ d.attempt = 0
  BY <1>1, <1>2, <1>7 DEF Calls
<1> HIDE DEF d
<1>10. 0 < MaxAttempts
  BY MembershipAssumption
<1>11. CallRight(d, Here, FoundHere(question))
  BY <1>7, <1>8, <1>9, <1>10 DEF CallRight
<1>12. /\ query' \in [Queries -> Calls] /\ query'[q] = d
       /\ seen' \in [Queries -> SUBSET (Groups \X Persons)]
       /\ seen'[q] = Here
       /\ stayed' \in [Queries -> SUBSET (Groups \X Persons)]
       /\ stayed'[q] = FoundHere(question)
  BY <1>1, <1>5, <1>6, <1>9
<1>13. ASSUME NEW x
       PROVE  Here' = Here /\ FoundHere(x)' = FoundHere(x)
  BY <1>3 DEF Here, FoundHere, Findable, PhoneKnown, PhoneListed, Store
<1>14. ASSUME NEW r \in Queries
       PROVE  /\ CallRight(query[r], seen[r], stayed[r])'
              /\ Followed(query[r], seen[r], stayed[r])'
  <2>1. CASE r = q
    <3>1. ASSUME NEW n, NEW s, NEW t,
                 n = d, s = Here, t = FoundHere(question)
          PROVE  CallRight(n, s, t)' /\ Followed(n, s, t)'
      <4>1. CallRight(n, s, t)'
        BY <1>3, <1>11, <3>1, CallLasts
      <4>2. Followed(n, s, t)'
        BY <1>5, <1>9, <1>13, <3>1 DEF Followed
      <4> QED
        BY <4>1, <4>2
    <3>2. ASSUME NEW n, NEW s, NEW t,
                 n = query'[r], s = seen'[r], t = stayed'[r]
          PROVE  CallRight(n, s, t)' /\ Followed(n, s, t)'
      BY <1>12, <2>1, <3>1, <3>2
    <3> QED
      BY <3>2
  <2>2. CASE r # q
    <3>1. /\ query'[r] = query[r] /\ seen'[r] = seen[r]
          /\ stayed'[r] = stayed[r]
      BY <1>1, <1>6, <2>2
    <3>2. CallRight(query[r], seen[r], stayed[r])'
      BY <1>3, <3>1, RestingCall
    <3>3. Followed(query[r], seen[r], stayed[r])
      BY DEF MembersInv
    <3>4. Followed(query[r], seen[r], stayed[r])'
      BY <1>13, <3>1, <3>3 DEF Followed
    <3> QED
      BY <3>2, <3>4
  <2> QED
    BY <2>1, <2>2
<1> QED
  BY <1>1, <1>3, <1>4, <1>12, <1>14 DEF MembersInv

-----------------------------------------------------------------------------
(* Someone joins or leaves, a LID is learned, the database fails.          *)
LEMMA WorldKeeps ==
  ASSUME MembersInv, WorldMoves
  PROVE  MembersInv'
<1>1. /\ RostersTypeOK /\ query \in [Queries -> Calls]
      /\ seen \in [Queries -> SUBSET (Groups \X Persons)]
      /\ stayed \in [Queries -> SUBSET (Groups \X Persons)]
      /\ own \in {{}, {"pn"}, {"pn", "lid"}}
  BY DEF MembersInv
<1>2. /\ RostersTypeOK' /\ mode' = mode /\ bare' = bare
      /\ own' = own /\ query' = query
  BY <1>1, RostersKept DEF WorldMoves
<1>3. Here' \subseteq Groups \X Persons
      /\ \A question : FoundHere(question)' \subseteq Here'
  BY DEF Here, FoundHere
<1>4. /\ seen' = [q \in Queries |-> seen[q] \cup Here']
      /\ stayed' = [q \in Queries |->
                      stayed[q] \cap FoundHere(query[q].question)']
  BY DEF WorldMoves
<1>5. /\ seen' \in [Queries -> SUBSET (Groups \X Persons)]
      /\ stayed' \in [Queries -> SUBSET (Groups \X Persons)]
  BY <1>1, <1>3, <1>4
<1>6. ASSUME NEW q \in Queries
      PROVE  /\ CallRight(query[q], seen[q], stayed[q])'
             /\ Followed(query[q], seen[q], stayed[q])'
  <2>1. /\ query'[q] = query[q]
        /\ seen[q] \subseteq seen'[q] /\ Here' \subseteq seen'[q]
        /\ stayed'[q] \subseteq stayed[q]
        /\ stayed'[q] \subseteq FoundHere(query[q].question)'
    BY <1>2, <1>4
  <2>2. CallRight(query[q], seen[q], stayed[q])'
    BY <1>2, <2>1, RestingCall
  <2>3. stayed[q] \subseteq seen[q]
    BY DEF MembersInv, Followed
  <2>4. Followed(query[q], seen[q], stayed[q])'
    BY <2>1, <2>3 DEF Followed
  <2> QED
    BY <2>2, <2>4
<1> QED
  BY <1>1, <1>2, <1>5, <1>6 DEF MembersInv

LEMMA LogOutKeeps ==
  ASSUME MembersInv, LogOut \/ UNCHANGED vars
  PROVE  MembersInv'
<1>1. /\ roster' = roster /\ mode' = mode /\ bare' = bare
      /\ learned' = learned /\ dbUp' = dbUp /\ moves' = moves
      /\ query' = query /\ seen' = seen /\ stayed' = stayed
      /\ own' = own \/ own' = {}
  BY DEF LogOut, vars, world
<1>2. RostersTypeOK' /\ own' \in {{}, {"pn"}, {"pn", "lid"}}
  BY <1>1 DEF MembersInv, RostersTypeOK
<1>3. ASSUME NEW q \in Queries
      PROVE  /\ CallRight(query[q], seen[q], stayed[q])'
             /\ Followed(query[q], seen[q], stayed[q])'
  <2>1. CallRight(query[q], seen[q], stayed[q])'
    BY <1>1, RestingCall
  <2>2. Followed(query[q], seen[q], stayed[q])
    BY DEF MembersInv
  <2>3. Followed(query[q], seen[q], stayed[q])'
    BY <1>1, <2>2
       DEF Followed, Here, FoundHere, Findable, PhoneKnown, PhoneListed, Store
  <2> QED
    BY <2>1, <2>3
<1> QED
  BY <1>1, <1>2, <1>3 DEF MembersInv

LEMMA InitMembers == Init => MembersInv
<1> SUFFICES ASSUME Init PROVE MembersInv
  OBVIOUS
<1>1. RostersTypeOK /\ own \in {{}, {"pn"}, {"pn", "lid"}}
  BY RostersStart DEF Init
<1>2. Idle \in Calls
  <2>1. \A T : Nothing \in About(T)
    <3> SUFFICES ASSUME NEW T PROVE Nothing \in About(T)
      OBVIOUS
    <3>1. {} \in SUBSET Groups /\ Nothing \in [{} -> T]
      BY DEF Nothing
    <3> QED
      BY <3>1, AboutGroups
  <2>2. 0 \in 0..MaxAttempts
    BY MembershipAssumption
  <2> QED
    BY <2>1, <2>2 DEF Idle, Calls
<1>3. Idle.pc = "idle" /\ Idle.attempt = 0
  BY DEF Idle
<1>4. CallRight(Idle, {}, {}) /\ Followed(Idle, {}, {})
  BY <1>3 DEF CallRight, Followed
<1> QED
  BY <1>1, <1>2, <1>4 DEF Init, MembersInv

LEMMA NextMembers == MembersInv /\ [Next]_vars => MembersInv'
<1> SUFFICES ASSUME MembersInv, [Next]_vars PROVE MembersInv'
  OBVIOUS
<1>1. CASE WorldMoves
  BY <1>1, WorldKeeps
<1>2. CASE LogOut \/ UNCHANGED vars
  BY <1>2, LogOutKeeps
<1>3. CASE \E q \in Queries, question \in Questions : Ask(q, question)
  BY <1>3, AskKeeps
<1>4. CASE \E q \in Queries : Call(q)
  BY <1>4, FetchKeeps, RetryKeeps DEF Call
<1>5. CASE \E q \in Queries : BackoffOver(q) \/ Cancelled(q)
  BY <1>5, RetryKeeps
<1>6. CASE \E q \in Queries : Answer(q)
  BY <1>6, IsMemberKeeps, AllGroupsKeeps DEF Answer
<1> QED
  BY <1>1, <1>2, <1>3, <1>4, <1>5, <1>6 DEF Next

LEMMA MembersAlways == SafeSpec => []MembersInv
BY InitMembers, NextMembers, PTL DEF SafeSpec

-----------------------------------------------------------------------------
(* The calls to WhatsApp keep their types: no call is made after the last  *)
(* attempt of withRateRetry, and an answer is looked at for the groups     *)
(* that were asked about.                                                  *)
THEOREM MembershipTypes == SafeSpec => []TypeOK
<1>1. MembersInv => TypeOK
  BY DEF MembersInv, TypeOK, CallRight, Followed, Calls
<1> QED
  BY <1>1, MembersAlways, PTL

(* IsMember admits only those who were in the group while it was asked,    *)
(* whatever numbers people have: a LID is never taken for a phone number,  *)
(* and an unknown number never matches another one.                        *)
THEOREM MembersOnlyHolds == SafeSpec => []MembersOnly
<1>1. MembersInv => MembersOnly
  BY DEF MembersInv, MembersOnly, CallRight
<1> QED
  BY <1>1, MembersAlways, PTL

(* IsMember does not turn away a member who was findable all the while.    *)
THEOREM MembersKnownHolds == SafeSpec => []MembersKnown
<1>1. MembersInv => MembersKnown
  BY DEF MembersInv, MembersKnown, CallRight
<1> QED
  BY <1>1, MembersAlways, PTL

(* AllGroups tells where the bot is an admin, under whichever form a group *)
(* lists it.                                                               *)
THEOREM OwnAdminHolds == SafeSpec => []OwnAdmin
<1>1. MembersInv => OwnAdmin
  BY DEF MembersInv, OwnAdmin, CallRight, Listed
<1> QED
  BY <1>1, MembersAlways, PTL

(* AllGroups lists those who were members all the while, and no number     *)
(* that is not theirs.                                                     *)
THEOREM PhonesRightHolds == SafeSpec => []PhonesRight
<1>1. MembersInv => PhonesRight
  BY DEF MembersInv, PhonesRight, CallRight, Listed
<1> QED
  BY <1>1, MembersAlways, PTL
=============================================================================
