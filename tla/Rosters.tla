------------------------------ MODULE Rosters -------------------------------
(***************************************************************************)
(* WhatsApp as the code sees it when it asks who is in a group: rosters    *)
(* that change at any moment, groups that address people by phone number   *)
(* or by LID, records that may show one form only, and the session         *)
(* database, which learns LIDs as it goes and may fail to answer.  All of  *)
(* it is outside src/.                                                     *)
(***************************************************************************)
EXTENDS Identity, FiniteSets

CONSTANTS
  Groups,
  Admins,     \* who are admins of the groups they are in
  MaxMoves    \* bound on the changes of a behaviour

ASSUME RostersAssumption == Admins \subseteq Persons /\ MaxMoves \in Nat

VARIABLES
  roster,     \* who is in each group
  mode,       \* the form each group uses: "pn" or "lid"
  bare,       \* whose records show the form the group uses and no other
  learned,    \* whose LID the session database can resolve
  dbUp,       \* the session database answers
  moves

world == <<roster, mode, bare, learned, dbUp, moves>>

RostersInit ==
  /\ roster \in [Groups -> SUBSET Persons]
  /\ mode \in [Groups -> {"pn", "lid"}]
  /\ bare \in SUBSET Persons
  /\ learned = {}
  /\ dbUp = TRUE
  /\ moves = 0

Record(g, p) ==
  [JID |-> IF mode[g] = "pn" THEN PN(p) ELSE LID(p),
   PhoneNumber |-> IF mode[g] = "pn" \/ p \notin bare THEN PN(p) ELSE NoJID,
   LID |-> IF mode[g] = "lid" \/ p \notin bare THEN LID(p) ELSE NoJID,
   IsAdmin |-> p \in Admins]

GroupInfo(g) == {Record(g, p) : p \in roster[g]}

(* The LIDs that a lookup finds now.                                       *)
Store == IF dbUp THEN learned ELSE {}

Move == moves < MaxMoves /\ moves' = moves + 1

Join(g, p) ==
  /\ p \notin roster[g] /\ Move
  /\ roster' = [roster EXCEPT ![g] = @ \cup {p}]
  /\ UNCHANGED <<mode, bare, learned, dbUp>>

Leave(g, p) ==
  /\ p \in roster[g] /\ Move
  /\ roster' = [roster EXCEPT ![g] = @ \ {p}]
  /\ UNCHANGED <<mode, bare, learned, dbUp>>

Learn(p) ==
  /\ p \notin learned /\ Move
  /\ learned' = learned \cup {p}
  /\ UNCHANGED <<roster, mode, bare, dbUp>>

DbFlaps ==
  /\ Move
  /\ dbUp' = ~ dbUp
  /\ UNCHANGED <<roster, mode, bare, learned>>

RostersNext ==
  \/ \E g \in Groups, p \in Persons : Join(g, p) \/ Leave(g, p)
  \/ \E p \in Persons : Learn(p)
  \/ DbFlaps

RostersTypeOK ==
  /\ roster \in [Groups -> SUBSET Persons]
  /\ mode \in [Groups -> {"pn", "lid"}]
  /\ bare \subseteq Persons
  /\ learned \subseteq Persons
  /\ dbUp \in BOOLEAN
  /\ moves \in 0..MaxMoves

-----------------------------------------------------------------------------
(* What the properties are about; persons, where the code has only JIDs.   *)

(* The phone number of p can be told from the form that is shown.          *)
PhoneKnown(p, form) == form = "pn" \/ p \in Store

(* ... from the record of p in g.                                          *)
PhoneListed(g, p) == p \notin bare \/ PhoneKnown(p, mode[g])

(* p is in g, and can be told to be the owner of jid.                      *)
Findable(g, p, jid) ==
  /\ p \in roster[g]
  /\ jid \in Forms(p)
  /\ \/ jid.server = mode[g] \/ p \notin bare
     \/ PhoneKnown(p, jid.server) /\ PhoneListed(g, p)

(* ... by its phone number.                                                *)
FindableByPhone(g, p, jid) ==
  /\ p \in roster[g]
  /\ jid \in Forms(p)
  /\ PhoneKnown(p, jid.server) /\ PhoneListed(g, p)
=============================================================================
