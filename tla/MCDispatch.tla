----------------------------- MODULE MCDispatch -----------------------------
(***************************************************************************)
(* Dispatch on a small instance: the LID of each person is the phone       *)
(* number of the other.  Two persons who are each other's mirror image in  *)
(* this way may change names, so it is enough that one of them writes.     *)
(***************************************************************************)
EXTENDS Dispatch

CONSTANTS ann, ben, g1, g2

Phones == [p \in Persons |-> IF p = ann THEN <<9, 2>> ELSE <<9, 1>>]

Lids == [p \in Persons |-> IF p = ann THEN <<9, 1>> ELSE <<9, 2>>]

Code == <<9>>

(* Ours are marked as such whatever the chat, so one chat is enough.       *)
Arrivals ==
  {event \in Events : /\ event.sender \in Forms(ann)
                      /\ event.fromMe => event.chat = "direct"}

Setting(all, managed, onDM) ==
  [allGroups |-> all, managed |-> managed, onGroup |-> TRUE, onDM |-> onDM,
   acceptMedia |-> all]

VariedSettings ==
  {Setting(FALSE, {g1, g2}, "members"),
   Setting(FALSE, {g1, "blank"}, "members"),
   Setting(TRUE, {g1}, "members"),
   Setting(FALSE, {}, "anyone"), Setting(FALSE, {g1, "user"}, "anyone"),
   [allGroups |-> TRUE, managed |-> {"typo"}, onGroup |-> FALSE, onDM |-> "off",
    acceptMedia |-> TRUE]}

Says(parts, written, context, voice, wrapped) ==
  [viewOnce |-> wrapped,
   says |-> [parts |-> parts,
             text |-> [part \in PartTypes |->
                         CASE part \notin written -> ""
                           [] part \in Captioned -> "caption"
                           [] OTHER -> "words"],
             context |-> context, voice |-> voice]]

(* A reply, a captioned view-once picture, a voice note, a poll, a video   *)
(* with a text beside it, cards, and a sticker that is a reply.            *)
VariedContents ==
  {Says({"extendedText"}, {"extendedText"}, {"extendedText"}, FALSE, FALSE),
   Says({"image"}, {"image"}, {}, FALSE, TRUE),
   Says({"audio"}, {}, {"audio"}, TRUE, FALSE),
   Says({"poll"}, {}, {}, FALSE, FALSE),
   Says({"conversation", "video"}, {"conversation", "video"}, {}, FALSE, FALSE),
   Says({"contacts"}, {}, {}, FALSE, FALSE),
   Says({"sticker"}, {}, {"sticker"}, FALSE, FALSE)}
=============================================================================
