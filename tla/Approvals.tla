----------------------------- MODULE Approvals ------------------------------
(***************************************************************************)
(* Admitting people to a group (transport/client.go): PendingRequests      *)
(* tells who asks to join, with phone numbers where they are known, the    *)
(* app picks those whose number is on its list, and Approve admits them.   *)
(* Jobs that do so run concurrently, while people ask, withdraw, or are    *)
(* admitted by hand.  The app acts as SPEC.md 6.2 has it, and records who  *)
(* was approved once and for all (client.go:284-286).                      *)
(* joined, letIn and silent are not in the program: they record what the   *)
(* properties speak of and nothing reads them.                             *)
(***************************************************************************)
EXTENDS Rosters

CONSTANTS
  Group,     \* the group that people ask to join
  Sweeps,    \* goroutines of the app that list and approve
  Approved,  \* whose numbers are on the list of the app
  Written    \* the ways in which the list may have the number of each

ASSUME ApprovalsAssumption ==
  /\ Groups = {Group} /\ Approved \subseteq Persons
  /\ Written \in [Approved -> SUBSET Seq(Digits \cup {Separator})]

(* The list is right: what it has for somebody is a number, and not that   *)
(* of somebody else.                                                       *)
ASSUME ListAssumption ==
  \A p \in Approved : \A w \in Written[p] :
    /\ Normalize(w) # Normalize(<<>>)
    /\ \A q \in Persons : Normalize(w) = Normalize(PhoneOf[q]) => p = q

VARIABLES
  pending,    \* who asks to join
  sweep,      \* the local variables of each goroutine
  recorded,   \* JIDs that the app holds for admitted
  joined,     \* who was ever in the group
  letIn,      \* who was admitted by Approve
  silent      \* whom an answer to Approve did not mention

vars == <<world, pending, sweep, recorded, joined, letIn, silent>>

history == <<joined, letIn, silent>>

Idle == [pc |-> "idle", list |-> {}, batch |-> {}]

Init ==
  /\ RostersInit
  /\ pending = {}
  /\ sweep = [s \in Sweeps |-> Idle]
  /\ recorded = {}
  /\ joined = roster[Group]
  /\ letIn = {} /\ silent = {}

RequestJID(p) == IF mode[Group] = "pn" THEN PN(p) ELSE LID(p)

Asking(jids) == {p \in Persons : RequestJID(p) \in jids}

-----------------------------------------------------------------------------
AskToJoin(p) ==
  /\ p \notin roster[Group] \cup pending /\ Move
  /\ pending' = pending \cup {p}
  /\ UNCHANGED <<roster, mode, bare, learned, dbUp, sweep, recorded, history>>

Withdraw(p) ==
  /\ p \in pending /\ Move
  /\ pending' = pending \ {p}
  /\ UNCHANGED <<roster, mode, bare, learned, dbUp, sweep, recorded, history>>

(* People come and go by other ways, and the session learns LIDs.          *)
WorldMoves ==
  /\ RostersNext
  /\ pending' = pending \ roster'[Group]
  /\ joined' = joined \cup roster'[Group]
  /\ UNCHANGED <<sweep, recorded, letIn, silent>>

-----------------------------------------------------------------------------
(* Mutant: the user of a JID is its phone number.                          *)
UserIsPhone(jid) == [JID |-> jid, Phone |-> jid.user]

Request(jid) == [JID |-> jid, Phone |-> ResolvePhone(jid, Store)]

(* WhatsApp's answer; if it fails, the app tries again later.              *)
PendingRequests(s) ==
  /\ sweep[s].pc = "idle"
  /\ sweep' = [sweep EXCEPT
       ![s].pc = "listed",
       ![s].list = {Request(RequestJID(p)) : p \in pending}]
  /\ UNCHANGED <<world, pending, recorded, history>>

(* People write the list, so the app compares canonical keys.              *)
OnList(phone) ==
  \E p \in Approved : \E w \in Written[p] : Normalize(w) = Normalize(phone)

(* Mutant: a call for nobody goes to WhatsApp too.                         *)
NeverNobody(batch) == FALSE

Nobody(batch) == batch = {}

(* The app picks; Approve of nobody does nothing, otherwise it pauses.     *)
Approve(s) ==
  LET batch == {r.JID : r \in {r \in sweep[s].list : OnList(r.Phone)}} \ recorded
  IN /\ sweep[s].pc = "listed"
     /\ sweep' = [sweep EXCEPT
          ![s] = IF Nobody(batch) THEN Idle
                 ELSE [pc |-> "pause", list |-> {}, batch |-> batch]]
     /\ UNCHANGED <<world, pending, recorded, history>>

Admit(ps) ==
  /\ roster' = [roster EXCEPT ![Group] = @ \cup ps]
  /\ pending' = pending \ ps
  /\ joined' = joined \cup ps
  /\ letIn' = letIn \cup ps
  /\ UNCHANGED <<mode, bare, learned, dbUp, moves>>

(* Mutant: a refusal of some is no error.                                  *)
AllRefused(refused, batch) == refused = Asking(batch)

ParticipantErrors(refused, batch) == refused # {}

(* After the pause WhatsApp admits some, and answers: it mentions some of  *)
(* them, and whoever it mentions is refused or in the group.               *)
Update(s) ==
  LET asking == Asking(sweep[s].batch)
  IN /\ sweep[s].pc = "pause"
     /\ \E in \in SUBSET (asking \cap pending), refused \in SUBSET asking :
          \E mentioned \in SUBSET asking :
            /\ refused \subseteq mentioned \ in
            /\ mentioned \ refused \subseteq in \cup roster[Group]
            /\ Admit(in)
            /\ silent' = silent \cup (asking \ mentioned)
            /\ recorded' = IF ParticipantErrors(refused, sweep[s].batch)
                           THEN recorded ELSE recorded \cup sweep[s].batch
     /\ sweep' = [sweep EXCEPT ![s] = Idle]

(* An error instead of an answer; WhatsApp may have admitted some.         *)
UpdateFails(s) ==
  /\ sweep[s].pc = "pause"
  /\ \E in \in SUBSET (Asking(sweep[s].batch) \cap pending) : Admit(in)
  /\ sweep' = [sweep EXCEPT ![s] = Idle]
  /\ UNCHANGED <<recorded, silent>>

-----------------------------------------------------------------------------
Next ==
  \/ \E p \in Persons : AskToJoin(p) \/ Withdraw(p)
  \/ WorldMoves
  \/ \E s \in Sweeps :
       PendingRequests(s) \/ Approve(s) \/ Update(s) \/ UpdateFails(s)

Spec == Init /\ [][Next]_vars

-----------------------------------------------------------------------------
(* Types; nobody asks to join a group that they are in.                    *)
TypeOK ==
  /\ RostersTypeOK
  /\ pending \subseteq Persons \ roster[Group]
  /\ \A s \in Sweeps :
       /\ sweep[s].pc \in {"idle", "listed", "pause"}
       /\ sweep[s].batch \subseteq JIDs
       /\ sweep[s].pc = "pause" => sweep[s].batch # {}
  /\ recorded \subseteq JIDs
  /\ letIn \subseteq joined /\ joined \subseteq Persons /\ silent \subseteq Persons

(* Only people on the list of the app are let in, although a LID may look  *)
(* like the number of somebody on it (client.go:43-49).                    *)
OnlyListedLetIn == letIn \subseteq Approved

(* Whoever asks to join and is on the list is recognised, however the list *)
(* has the number, once WhatsApp shows it: national form, a + or none,     *)
(* separators (identity.go:15-20, client.go:43-49).                        *)
ListedRecognised ==
  \A s \in Sweeps : \A r \in sweep[s].list, p \in Approved :
    r.JID = RequestJID(p) /\ r.Phone # <<>> =>
      \A w \in Written[p] : Normalize(w) = Normalize(r.Phone)

(* Whoever the app holds for admitted has been in the group, unless        *)
(* WhatsApp passed them over in silence: a refusal, also of one of         *)
(* several, is never taken for success (client.go:284-286, 302-304).       *)
NobodyStranded == Asking(recorded) \subseteq joined \cup silent
=============================================================================
