---------------------------- MODULE MCApprovals -----------------------------
(***************************************************************************)
(* Approvals on a small instance: eve's LID is ann's phone number.         *)
(***************************************************************************)
EXTENDS Approvals, TLC

CONSTANTS ann, ben, eve

Phones == (ann :> <<9, 1>>) @@ (ben :> <<9, 2>>) @@ (eve :> <<9, 3>>)

Lids == (ann :> <<5>>) @@ (ben :> <<6>>) @@ (eve :> <<9, 1>>)

Code == <<9>>

(* The list has a number in international form, or in national form, with  *)
(* one trunk zero or two, with or without separators.                      *)
Spellings ==
  [p \in Approved |->
     LET subscriber == Tail(PhoneOf[p])
     IN {PhoneOf[p], <<Separator>> \o PhoneOf[p],
         <<0>> \o subscriber, <<0, 0, Separator>> \o subscriber}]
=============================================================================
