---------------------------- MODULE PhoneNumbers ----------------------------
(***************************************************************************)
(* What Normalize (identity/identity.go) makes of every number that can be *)
(* written, up to a length.  There is no state: the properties are about   *)
(* an operator that the modules which compare numbers use.                 *)
(***************************************************************************)
EXTENDS Identity

CONSTANTS
  Alphabet,    \* the digits that are written, and the separators
  MaxLength    \* bound on the length of what is written

ASSUME PhoneNumbersAssumption ==
  Alphabet \subseteq Digits \cup {Separator} /\ MaxLength \in Nat

Writings == UNION {[1..n -> Alphabet] : n \in 0..MaxLength}

Dialled(raw) == SelectSeq(raw, IsDigit)

(* Zeros and then a number that does not begin with 0: the trunk prefix    *)
(* and the number of a subscriber in this country.                         *)
IsNational(trunk, subscriber) ==
  /\ trunk # <<>> /\ \A i \in DOMAIN trunk : trunk[i] = 0
  /\ subscriber # <<>> /\ Head(subscriber) # 0

(* One number is one key, written in the national form or with the country *)
(* code, with a + or without, separators anywhere (identity.go:18-20): the *)
(* lists people write and WhatsApp compare equal.                          *)
FormsAgree ==
  \A raw \in Writings :
    LET d == Dialled(raw)
    IN /\ Normalize(raw) = Normalize(d)
       /\ \A k \in 0..Len(d) :
            LET subscriber == SubSeq(d, k + 1, Len(d))
            IN IsNational(SubSeq(d, 1, k), subscriber) =>
                 Normalize(raw)
                   = Normalize(<<Separator>> \o CountryCode \o subscriber)

(* A key has digits only and is its own key, so it does not matter which   *)
(* of two numbers that are compared has been through Normalize already, or *)
(* twice (transport/message.go:97,109,119,129).                            *)
Canonical ==
  \A raw \in Writings :
    /\ \A i \in DOMAIN Normalize(raw) : Normalize(raw)[i] \in Digits
    /\ Normalize(Normalize(raw)) = Normalize(raw)
=============================================================================
