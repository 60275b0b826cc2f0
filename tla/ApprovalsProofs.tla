-------------------------- MODULE ApprovalsProofs ---------------------------
(***************************************************************************)
(* Proofs about Approvals, for any persons, numbers, jobs and bounds: no   *)
(* LID passes for a number on the app's list, no refusal for success, and  *)
(* no spelling hides a number.                                             *)
(***************************************************************************)
EXTENDS Approvals, IdentityProofs

Locals ==
  [pc : {"idle", "listed", "pause"},
   list : SUBSET [JID : JIDs, Phone : Numbers], batch : SUBSET JIDs]

(* The number in a list is that of whoever asks, or missing.               *)
RightNumbers(list) ==
  \A r \in list, p \in Persons :
    r.JID = RequestJID(p) => r.Phone \in {<<>>, PhoneOf[p]}

Inv ==
  /\ TypeOK
  /\ sweep \in [Sweeps -> Locals]
  /\ roster[Group] \subseteq joined
  /\ \A s \in Sweeps :
       /\ RightNumbers(sweep[s].list)
       /\ Asking(sweep[s].batch) \subseteq Approved
  /\ OnlyListedLetIn
  /\ NobodyStranded

-----------------------------------------------------------------------------
(* A request names one person.                                             *)
LEMMA OneAsks ==
  ASSUME NEW p \in Persons
  PROVE  /\ RequestJID(p) \in Forms(p) /\ RequestJID(p) \in JIDs
         /\ \A q \in Persons : RequestJID(p) = RequestJID(q) => p = q
<1>1. \A q \in Persons : RequestJID(q) \in Forms(q)
  BY DEF RequestJID, Forms
<1> QED
  BY <1>1, FormsOwned, Owners

(* What ResolvePhone makes of a request.                                   *)
LEMMA RightNumber ==
  ASSUME RostersTypeOK, NEW p \in Persons
  PROVE  ResolvePhone(RequestJID(p), Store) \in {<<>>, PhoneOf[p]}
BY OneAsks, Resolved DEF Store, RostersTypeOK

(* A list that is made now has right numbers.                              *)
LEMMA ListRight ==
  ASSUME RostersTypeOK, NEW ps \in SUBSET Persons
  PROVE  LET list == {Request(RequestJID(p)) : p \in ps}
         IN RightNumbers(list) /\ list \subseteq [JID : JIDs, Phone : Numbers]
<1> DEFINE list == {Request(RequestJID(p)) : p \in ps}
<1>1. ASSUME NEW p \in ps
      PROVE  Request(RequestJID(p)) \in [JID : JIDs, Phone : Numbers]
  BY RightNumber, OneAsks DEF Request, Numbers
<1>2. ASSUME NEW p \in ps, NEW q \in Persons,
             Request(RequestJID(p)).JID = RequestJID(q)
      PROVE  Request(RequestJID(p)).Phone \in {<<>>, PhoneOf[q]}
  <2>1. p = q
    BY <1>2, OneAsks DEF Request
  <2> QED
    BY <2>1, RightNumber DEF Request
<1> QED
  BY <1>1, <1>2 DEF RightNumbers

(* Of a list with right numbers the app picks whom it approves.            *)
LEMMA PicksApproved ==
  ASSUME NEW list \in SUBSET [JID : JIDs, Phone : Numbers], RightNumbers(list)
  PROVE  Asking({r.JID : r \in {r \in list : OnList(r.Phone)}}) \subseteq Approved
<1> SUFFICES ASSUME NEW p \in Persons, NEW r \in list, OnList(r.Phone),
                    RequestJID(p) = r.JID
             PROVE  p \in Approved
  BY DEF Asking
<1>1. PICK q \in Approved :
        \E w \in Written[q] : Normalize(w) = Normalize(r.Phone)
  BY DEF OnList
<1>2. r.Phone # <<>>
  BY <1>1, ListAssumption
<1>3. r.Phone = PhoneOf[p]
  BY <1>2 DEF RightNumbers
<1> QED
  BY <1>1, <1>3, ListAssumption

-----------------------------------------------------------------------------
LEMMA InitInv == Init => Inv
<1> SUFFICES ASSUME Init PROVE Inv
  OBVIOUS
<1>1. RostersTypeOK
  BY RostersStart DEF Init
<1>2. Idle \in Locals
  BY DEF Idle, Locals
<1>3. sweep \in [Sweeps -> Locals] /\ \A s \in Sweeps : sweep[s] = Idle
  BY <1>2 DEF Init
<1>4. roster[Group] \subseteq Persons
  BY <1>1, ApprovalsAssumption DEF RostersTypeOK
<1>5. TypeOK
  BY <1>1, <1>3, <1>4 DEF Init, TypeOK, Idle
<1>6. \A s \in Sweeps : RightNumbers(sweep[s].list) /\ Asking(sweep[s].batch) = {}
  BY <1>3 DEF Idle, RightNumbers, Asking
<1>7. OnlyListedLetIn /\ NobodyStranded
  BY DEF Init, OnlyListedLetIn, NobodyStranded, Asking
<1> QED
  BY <1>3, <1>5, <1>6, <1>7 DEF Inv, Init

-----------------------------------------------------------------------------
(* What every step comes to, as long as groups keep the form they use.     *)
LEMMA StepInv ==
  ASSUME RostersTypeOK', mode' = mode,
         sweep' \in [Sweeps -> Locals],
         \A s \in Sweeps : /\ RightNumbers(sweep'[s].list)
                           /\ Asking(sweep'[s].batch) \subseteq Approved,
         \A s \in Sweeps : sweep'[s].pc = "pause" => sweep'[s].batch # {},
         pending' \subseteq Persons \ roster'[Group],
         recorded' \subseteq JIDs, silent' \subseteq Persons,
         joined' \subseteq Persons, letIn' \subseteq joined',
         roster'[Group] \subseteq joined', letIn' \subseteq Approved,
         Asking(recorded') \subseteq joined' \cup silent'
  PROVE  Inv'
<1>1. \A s \in Sweeps : /\ RightNumbers(sweep[s].list)'
                        /\ Asking(sweep[s].batch)' \subseteq Approved
  BY DEF RightNumbers, Asking, RequestJID
<1>2. TypeOK'
  <2>1. (\A s \in Sweeps : sweep[s].pc \in {"idle", "listed", "pause"})'
    BY DEF Locals
  <2>2. (\A s \in Sweeps : sweep[s].batch \subseteq JIDs)'
    BY DEF Locals
  <2>3. (\A s \in Sweeps : sweep[s].pc = "pause" => sweep[s].batch # {})'
    OBVIOUS
  <2> QED
    BY <2>1, <2>2, <2>3 DEF TypeOK
<1>3. OnlyListedLetIn' /\ NobodyStranded'
  BY DEF OnlyListedLetIn, NobodyStranded, Asking, RequestJID
<1> QED
  BY <1>1, <1>2, <1>3 DEF Inv

(* A step that leaves the goroutines of the app alone, but may end one.    *)
LEMMA SweepsStay ==
  ASSUME Inv, \/ UNCHANGED sweep
              \/ \E s \in Sweeps : sweep' = [sweep EXCEPT ![s] = Idle]
  PROVE  /\ sweep' \in [Sweeps -> Locals]
         /\ \A s \in Sweeps : /\ RightNumbers(sweep'[s].list)
                              /\ Asking(sweep'[s].batch) \subseteq Approved
         /\ \A s \in Sweeps : sweep'[s].pc = "pause" => sweep'[s].batch # {}
<1>1. /\ Idle \in Locals /\ RightNumbers(Idle.list) /\ Asking(Idle.batch) = {}
      /\ Idle.pc # "pause"
  BY DEF Idle, Locals, RightNumbers, Asking
<1>2. CASE UNCHANGED sweep
  BY <1>2 DEF Inv, TypeOK
<1>3. ASSUME NEW s \in Sweeps, sweep' = [sweep EXCEPT ![s] = Idle]
      PROVE  /\ sweep' \in [Sweeps -> Locals]
             /\ \A t \in Sweeps : sweep'[t] \in {sweep[t], Idle}
  BY <1>1, <1>3 DEF Inv
<1>4. CASE \E s \in Sweeps : sweep' = [sweep EXCEPT ![s] = Idle]
  <2>1. /\ sweep' \in [Sweeps -> Locals]
        /\ \A t \in Sweeps : sweep'[t] = sweep[t] \/ sweep'[t] = Idle
    BY <1>3, <1>4
  <2>2. \A t \in Sweeps : /\ RightNumbers(sweep[t].list)
                          /\ Asking(sweep[t].batch) \subseteq Approved
                          /\ sweep[t].pc = "pause" => sweep[t].batch # {}
    BY DEF Inv, TypeOK
  <2> QED
    BY <1>1, <2>1, <2>2
<1> QED
  BY <1>2, <1>4

(* A step of one goroutine that leaves the group alone.                    *)
LEMMA LocalStep ==
  ASSUME Inv, UNCHANGED <<world, pending, recorded, history>>,
         NEW s \in Sweeps, NEW new \in Locals, sweep' = [sweep EXCEPT ![s] = new],
         RightNumbers(new.list), Asking(new.batch) \subseteq Approved,
         new.pc = "pause" => new.batch # {}
  PROVE  Inv'
<1>1. sweep' \in [Sweeps -> Locals]
  BY DEF Inv
<1>2. \A t \in Sweeps : sweep'[t] = IF t = s THEN new ELSE sweep[t]
  BY DEF Inv
<1>3. \A t \in Sweeps : /\ RightNumbers(sweep'[t].list)
                        /\ Asking(sweep'[t].batch) \subseteq Approved
  BY <1>2 DEF Inv
<1>4. \A t \in Sweeps : sweep'[t].pc = "pause" => sweep'[t].batch # {}
  BY <1>2 DEF Inv, TypeOK
<1>5. RostersTypeOK' /\ mode' = mode
  BY DEF Inv, TypeOK, RostersTypeOK, world
<1>6. /\ pending' \subseteq Persons \ roster'[Group]
      /\ recorded' \subseteq JIDs /\ silent' \subseteq Persons
      /\ joined' \subseteq Persons /\ letIn' \subseteq joined'
      /\ roster'[Group] \subseteq joined' /\ letIn' \subseteq Approved
      /\ Asking(recorded') \subseteq joined' \cup silent'
  BY DEF Inv, TypeOK, OnlyListedLetIn, NobodyStranded, world, history
<1> QED
  BY <1>1, <1>3, <1>4, <1>5, <1>6, StepInv

-----------------------------------------------------------------------------
LEMMA NextInv == Inv /\ [Next]_vars => Inv'
<1> SUFFICES ASSUME Inv, [Next]_vars PROVE Inv'
  OBVIOUS
<1>1. ASSUME NEW p \in Persons, AskToJoin(p) \/ Withdraw(p) PROVE Inv'
  <2>1. RostersTypeOK' /\ mode' = mode
    BY <1>1, RostersAssumption
    DEF Inv, TypeOK, RostersTypeOK, AskToJoin, Withdraw, Move
  <2>2. /\ pending' \subseteq Persons \ roster'[Group]
        /\ UNCHANGED <<roster, sweep, recorded, joined, letIn, silent>>
    BY <1>1 DEF Inv, TypeOK, AskToJoin, Withdraw, history
  <2>3. /\ recorded' \subseteq JIDs /\ silent' \subseteq Persons
        /\ joined' \subseteq Persons /\ letIn' \subseteq joined'
        /\ roster'[Group] \subseteq joined' /\ letIn' \subseteq Approved
        /\ Asking(recorded') \subseteq joined' \cup silent'
    BY <2>2 DEF Inv, TypeOK, OnlyListedLetIn, NobodyStranded
  <2> QED
    BY <2>1, <2>2, <2>3, SweepsStay, StepInv
<1>2. CASE WorldMoves
  <2>1. RostersTypeOK' /\ mode' = mode
    BY <1>2, RostersKept DEF WorldMoves, Inv, TypeOK
  <2>2. roster'[Group] \subseteq Persons
    BY <2>1, ApprovalsAssumption DEF RostersTypeOK
  <2>3. /\ pending' = pending \ roster'[Group]
        /\ joined' = joined \cup roster'[Group]
        /\ UNCHANGED <<sweep, recorded, letIn, silent>>
    BY <1>2 DEF WorldMoves
  <2>4. /\ pending' \subseteq Persons \ roster'[Group]
        /\ recorded' \subseteq JIDs /\ silent' \subseteq Persons
        /\ joined' \subseteq Persons /\ letIn' \subseteq joined'
        /\ roster'[Group] \subseteq joined' /\ letIn' \subseteq Approved
        /\ Asking(recorded') \subseteq joined' \cup silent'
    BY <2>2, <2>3 DEF Inv, TypeOK, OnlyListedLetIn, NobodyStranded
  <2> QED
    BY <2>1, <2>3, <2>4, SweepsStay, StepInv
<1>3. ASSUME NEW s \in Sweeps, PendingRequests(s) PROVE Inv'
  <2> DEFINE list == {Request(RequestJID(p)) : p \in pending}
             new == [sweep[s] EXCEPT !.pc = "listed", !.list = list]
  <2>1. RightNumbers(list) /\ list \subseteq [JID : JIDs, Phone : Numbers]
    BY ListRight DEF Inv, TypeOK
  <2>2. /\ new \in Locals /\ new.list = list /\ new.batch = sweep[s].batch
        /\ new.pc = "listed"
    BY <2>1 DEF Inv, Locals
  <2>3. /\ sweep' = [sweep EXCEPT ![s] = new]
        /\ UNCHANGED <<world, pending, recorded, history>>
    BY <1>3 DEF PendingRequests
  <2>4. Asking(new.batch) \subseteq Approved
    BY <2>2 DEF Inv
  <2> HIDE DEF list, new
  <2> QED
    BY <2>1, <2>2, <2>3, <2>4, LocalStep
<1>4. ASSUME NEW s \in Sweeps, Approve(s) PROVE Inv'
  <2> DEFINE picked == {r.JID : r \in {r \in sweep[s].list : OnList(r.Phone)}}
             batch == picked \ recorded
             new == IF Nobody(batch) THEN Idle
                    ELSE [pc |-> "pause", list |-> {}, batch |-> batch]
  <2>1. sweep[s].list \subseteq [JID : JIDs, Phone : Numbers]
        /\ RightNumbers(sweep[s].list)
    BY DEF Inv, Locals
  <2>2. Asking(picked) \subseteq Approved
    BY <2>1, PicksApproved
  <2>3. Asking(batch) \subseteq Approved
    BY <2>2 DEF Asking
  <2>4. batch \subseteq JIDs
    BY <2>1
  <2>5. /\ sweep' = [sweep EXCEPT ![s] = new]
        /\ UNCHANGED <<world, pending, recorded, history>>
    BY <1>4 DEF Approve
  <2> HIDE DEF batch, picked
  <2>6. /\ new \in Locals /\ RightNumbers(new.list)
        /\ Asking(new.batch) \subseteq Approved
        /\ new.pc = "pause" => new.batch # {}
    BY <2>3, <2>4 DEF Nobody, Idle, Locals, RightNumbers, Asking
  <2> HIDE DEF new
  <2> QED
    BY <2>5, <2>6, LocalStep
<1>5. ASSUME NEW s \in Sweeps, NEW in \in SUBSET (Asking(sweep[s].batch) \cap pending),
             Admit(in)
      PROVE  /\ RostersTypeOK' /\ mode' = mode
             /\ pending' \subseteq Persons \ roster'[Group]
             /\ joined' = joined \cup in /\ joined' \subseteq Persons
             /\ letIn' \subseteq joined' /\ letIn' \subseteq Approved
             /\ roster'[Group] \subseteq joined'
  <2>1. in \subseteq Persons /\ in \subseteq Approved
    BY DEF Asking, Inv
  <2>2. roster'[Group] = roster[Group] \cup in
    BY <1>5, ApprovalsAssumption DEF Admit, Inv, TypeOK, RostersTypeOK
  <2>3. RostersTypeOK' /\ mode' = mode
    BY <1>5, <2>1, ApprovalsAssumption DEF Admit, Inv, TypeOK, RostersTypeOK
  <2>4. /\ pending' = pending \ in /\ joined' = joined \cup in
        /\ letIn' = letIn \cup in
    BY <1>5 DEF Admit
  <2> QED
    BY <2>1, <2>2, <2>3, <2>4 DEF Inv, TypeOK, OnlyListedLetIn
<1>6. ASSUME NEW s \in Sweeps, Update(s) PROVE Inv'
  <2> DEFINE asking == Asking(sweep[s].batch)
  <2>1. PICK in \in SUBSET (asking \cap pending), refused \in SUBSET asking,
             mentioned \in SUBSET asking :
          /\ refused \subseteq mentioned \ in
          /\ mentioned \ refused \subseteq in \cup roster[Group]
          /\ Admit(in)
          /\ silent' = silent \cup (asking \ mentioned)
          /\ recorded' = IF ParticipantErrors(refused, sweep[s].batch)
                         THEN recorded ELSE recorded \cup sweep[s].batch
    BY <1>6 DEF Update
  <2>2. sweep' = [sweep EXCEPT ![s] = Idle]
    BY <1>6 DEF Update
  <2>3. asking \subseteq Persons /\ sweep[s].batch \subseteq JIDs
    BY DEF Asking, Inv, TypeOK
  <2>4. recorded' \subseteq JIDs /\ silent' \subseteq Persons
    BY <2>1, <2>3 DEF Inv, TypeOK
  <2>5. joined' = joined \cup in /\ roster[Group] \subseteq joined
    BY <1>5, <2>1 DEF Inv
  <2>6. Asking(recorded') \subseteq joined' \cup silent'
    <3>1. CASE refused # {}
      BY <2>1, <2>5, <3>1 DEF ParticipantErrors, Inv, NobodyStranded
    <3>2. CASE refused = {}
      <4>1. Asking(recorded') = Asking(recorded) \cup asking
        BY <2>1, <3>2 DEF ParticipantErrors, Asking
      <4>2. asking \subseteq joined' \cup silent'
        BY <2>1, <2>5, <3>2
      <4> QED
        BY <2>1, <2>5, <4>1, <4>2 DEF Inv, NobodyStranded
    <3> QED
      BY <3>1, <3>2
  <2> QED
    BY <1>5, <2>1, <2>2, <2>4, <2>6, SweepsStay, StepInv
<1>7. ASSUME NEW s \in Sweeps, UpdateFails(s) PROVE Inv'
  <2>1. PICK in \in SUBSET (Asking(sweep[s].batch) \cap pending) : Admit(in)
    BY <1>7 DEF UpdateFails
  <2>2. /\ sweep' = [sweep EXCEPT ![s] = Idle]
        /\ UNCHANGED <<recorded, silent>>
    BY <1>7 DEF UpdateFails
  <2>3. joined' = joined \cup in
    BY <1>5, <2>1
  <2>4. /\ recorded' \subseteq JIDs /\ silent' \subseteq Persons
        /\ Asking(recorded') \subseteq joined' \cup silent'
    BY <2>2, <2>3 DEF Inv, TypeOK, NobodyStranded
  <2> QED
    BY <1>5, <2>1, <2>2, <2>4, SweepsStay, StepInv
<1>8. CASE UNCHANGED vars
  <2>1. UNCHANGED <<sweep, world, pending, recorded, joined, letIn, silent>>
    BY <1>8 DEF vars
  <2>2. RostersTypeOK' /\ mode' = mode
    BY <2>1 DEF Inv, TypeOK, RostersTypeOK, world
  <2>3. /\ pending' \subseteq Persons \ roster'[Group]
        /\ recorded' \subseteq JIDs /\ silent' \subseteq Persons
        /\ joined' \subseteq Persons /\ letIn' \subseteq joined'
        /\ roster'[Group] \subseteq joined' /\ letIn' \subseteq Approved
        /\ Asking(recorded') \subseteq joined' \cup silent'
    BY <2>1 DEF Inv, TypeOK, OnlyListedLetIn, NobodyStranded, world
  <2> QED
    BY <2>1, <2>2, <2>3, SweepsStay, StepInv
<1> QED
  BY <1>1, <1>2, <1>3, <1>4, <1>6, <1>7, <1>8 DEF Next

LEMMA Invariance == Spec => []Inv
  BY InitInv, NextInv, PTL DEF Spec

-----------------------------------------------------------------------------
(* Every reachable state is well typed, and nobody asks to join a group    *)
(* that they are in.                                                       *)
THEOREM ApprovalsTypes == Spec => []TypeOK
<1>1. Inv => TypeOK
  BY DEF Inv
<1> QED
  BY <1>1, Invariance, PTL

(* Approve lets in only people whose numbers are on the app's list,        *)
(* whoever's LID looks like one of them and whatever lookups fail.         *)
THEOREM OnlyListedLetInHolds == Spec => []OnlyListedLetIn
<1>1. Inv => OnlyListedLetIn
  BY DEF Inv
<1> QED
  BY <1>1, Invariance, PTL

(* A refusal is never recorded as an admission, for any number of jobs     *)
(* that approve the same requests.                                         *)
THEOREM NobodyStrandedHolds == Spec => []NobodyStranded
<1>1. Inv => NobodyStranded
  BY DEF Inv
<1> QED
  BY <1>1, Invariance, PTL

(* A number is written with its country code, or in the national form;     *)
(* anything may stand between the digits, or before them.                  *)
Spells(w, phone) ==
  \/ DigitsOf(w) = phone
  \/ \E trunk \in Seq(Digits), subscriber \in Seq(Digits) :
       /\ IsNational(trunk, subscriber)
       /\ DigitsOf(w) = trunk \o subscriber
       /\ phone = CountryCode \o subscriber

(* Every spelling of a number has the number for its key.                  *)
LEMMA SpellingKey ==
  ASSUME NEW p \in Persons, NEW w \in Seq(Int), Spells(w, PhoneOf[p])
  PROVE  Normalize(w) = PhoneOf[p]
<1>1. CASE DigitsOf(w) = PhoneOf[p]
  BY <1>1, NumbersAssumption DEF Normalize
<1>2. CASE DigitsOf(w) # PhoneOf[p]
  BY <1>2, NationalForm DEF Spells
<1> QED
  BY <1>1, <1>2

(* If the list has numbers in either form and with any separators, whoever *)
(* asks to join and is on it is recognised once WhatsApp shows the number. *)
THEOREM ListedRecognisedHolds ==
  ASSUME \A p \in Approved : \A w \in Written[p] : Spells(w, PhoneOf[p])
  PROVE  Spec => []ListedRecognised
<1>1. ASSUME NEW p \in Approved, NEW w \in Written[p]
      PROVE  Normalize(w) = Normalize(PhoneOf[p])
  <2>1. p \in Persons /\ w \in Seq(Digits \cup {Separator})
    BY ApprovalsAssumption
  <2>2. w \in Seq(Int)
    BY <2>1, SeqMonotonic DEF Digits, Separator
  <2> QED
    BY <2>1, <2>2, SpellingKey, PhoneKeys
<1>2. Inv => ListedRecognised
  <2> SUFFICES ASSUME Inv, NEW s \in Sweeps, NEW r \in sweep[s].list,
                      NEW p \in Approved, r.JID = RequestJID(p),
                      r.Phone # <<>>, NEW w \in Written[p]
               PROVE  Normalize(w) = Normalize(r.Phone)
    BY DEF ListedRecognised
  <2>1. r.Phone = PhoneOf[p]
    BY ApprovalsAssumption DEF Inv, RightNumbers
  <2> QED
    BY <1>1, <2>1
<1> QED
  BY <1>2, Invariance, PTL
=============================================================================
