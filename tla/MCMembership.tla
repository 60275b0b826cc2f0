--------------------------- MODULE MCMembership -----------------------------
(***************************************************************************)
(* Membership on a small instance, in which the LID of each person is the  *)
(* phone number of the other, and the numbers that people can write.       *)
(***************************************************************************)
EXTENDS Membership, PhoneNumbers, TLC

CONSTANTS ann, bot

Phones == (ann :> <<9, 2>>) @@ (bot :> <<9, 1>>)

Lids == (ann :> <<9, 1>>) @@ (bot :> <<9, 2>>)

Code == <<9>>

Characters == {0, 1, 9, Separator}

(* Normalize, by which numbers are compared, is what PhoneNumbers says, for *)
(* everything that can be written up to MaxLength.                         *)
ASSUME NormalizeAsSpecified == FormsAgree /\ Canonical
=============================================================================
