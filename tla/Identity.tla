------------------------------ MODULE Identity ------------------------------
(***************************************************************************)
(* Who is who (identity/identity.go, transport/client.go,                  *)
(* transport/message.go).  WhatsApp knows a person by a phone number and   *)
(* by a LID, two unrelated numbers: the phone number of one person may be  *)
(* the LID of another.  Numbers are sequences of digits, as they are       *)
(* written; anything else that people write in a number is a Separator.    *)
(***************************************************************************)
EXTENDS Integers, Sequences, SequencesExt

CONSTANTS
  Persons,
  PhoneOf,      \* the phone number of each person, in international form
  LidOf,        \* the LID of each person
  CountryCode   \* DefaultCountryCode

Digits == 0..9

(* Whatever is not a digit: +, -, spaces, letters.                         *)
Separator == -1

ASSUME NumbersAssumption ==
  /\ CountryCode \in Seq(Digits)
  /\ CountryCode # <<>> => Head(CountryCode) # 0
  /\ PhoneOf \in [Persons -> Seq(Digits)]
  /\ LidOf \in [Persons -> Seq(Digits)]
  /\ \A p \in Persons :
       /\ PhoneOf[p] # <<>> /\ Head(PhoneOf[p]) # 0
       /\ LidOf[p] # <<>>
  /\ \A p, q \in Persons :
       PhoneOf[p] = PhoneOf[q] \/ LidOf[p] = LidOf[q] => p = q

-----------------------------------------------------------------------------
(* A JID names an identity on a server; the empty JID has no server.       *)
PN(p) == [user |-> PhoneOf[p], server |-> "pn"]

LID(p) == [user |-> LidOf[p], server |-> "lid"]

NoJID == [user |-> <<>>, server |-> "none"]

Forms(p) == {PN(p), LID(p)}

JIDs == (UNION {Forms(p) : p \in Persons}) \cup {NoJID}

IsEmpty(jid) == jid.server = "none"

(* Mutant: the users alone are compared.                                   *)
SameUser(a, b) == ~ IsEmpty(a) /\ ~ IsEmpty(b) /\ a.user = b.user

SameJID(a, b) ==
  ~ IsEmpty(a) /\ ~ IsEmpty(b) /\ a.user = b.user /\ a.server = b.server

(* Mutant: the record's own JID is all that counts.                        *)
OwnJIDIs(rec, jid) == SameJID(rec.JID, jid)

(* A participant's record carries the JID the group uses and possibly the  *)
(* other forms.                                                            *)
AnyFormIs(rec, jid) ==
  SameJID(rec.JID, jid) \/ SameJID(rec.PhoneNumber, jid)
    \/ SameJID(rec.LID, jid)

-----------------------------------------------------------------------------
IsDigit(c) == c \in Digits

(* What the loop over raw writes to its strings.Builder.                   *)
DigitsOf(raw) ==
  LET written[i \in 0..Len(raw)] ==
        IF i = 0 THEN <<>>
        ELSE IF IsDigit(raw[i]) THEN Append(written[i - 1], raw[i])
             ELSE written[i - 1]
  IN written[Len(raw)]

TrimZeros(d) ==
  LET first == SelectInSeq(d, LAMBDA c : c # 0)
  IN IF first = 0 THEN <<>> ELSE SubSeq(d, first, Len(d))

(* A mutant is DigitsOf: a number in national form is left in it.          *)
Normalize(raw) ==
  LET d == DigitsOf(raw)
  IN IF d # <<>> /\ Head(d) = 0 THEN CountryCode \o TrimZeros(d) ELSE d

-----------------------------------------------------------------------------
(* Mutant: the user of any JID is a phone number.                          *)
UserOfJID(jid, store) == jid.user

(* The number behind a JID; store is the set of persons whose LID the      *)
(* session database can resolve now.  <<>> is an unresolvable LID.         *)
ResolvePhone(jid, store) ==
  IF jid.server = "pn" THEN jid.user
  ELSE LET known == {p \in store : LID(p) = jid}
       IN IF known = {} THEN <<>> ELSE PhoneOf[CHOOSE p \in known : TRUE]

(* Mutant: a record without a number takes the user of its JID for one.    *)
UserOfRecord(rec, store) ==
  IF IsEmpty(rec.PhoneNumber) THEN rec.JID.user ELSE rec.PhoneNumber.user

PhoneOfRecord(rec, store) ==
  IF IsEmpty(rec.PhoneNumber) THEN ResolvePhone(rec.JID, store)
  ELSE rec.PhoneNumber.user

MembersFrom(recs, store) ==
  {[JID |-> rec.JID, Phone |-> PhoneOfRecord(rec, store),
    IsAdmin |-> rec.IsAdmin] : rec \in recs}

(* IsMember, once the participants are there.                              *)
Matches(recs, jid, store) ==
  LET wantPhone == Normalize(ResolvePhone(jid, store))
  IN \E rec \in recs :
       \/ AnyFormIs(rec, jid)
       \/ /\ wantPhone # <<>>
          /\ Normalize(PhoneOfRecord(rec, store)) = wantPhone

(* IsMemberOfAny, for one group.                                           *)
HasPhone(recs, want, store) ==
  \E m \in MembersFrom(recs, store) : Normalize(m.Phone) = want

(* The bot may be listed under either of its own forms.                    *)
ParticipantIsSelf(rec, self, selfLID) ==
  \/ SameJID(rec.JID, self) \/ SameJID(rec.PhoneNumber, self)
  \/ SameJID(rec.JID, selfLID) \/ SameJID(rec.LID, selfLID)

SelfIsAdmin(recs, self, selfLID) ==
  \E rec \in recs : ParticipantIsSelf(rec, self, selfLID) /\ rec.IsAdmin
=============================================================================
