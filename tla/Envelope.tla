------------------------------ MODULE Envelope ------------------------------
(***************************************************************************)
(* What a handler is told of a message's content (bot/bot.go,              *)
(* buildMessage; bot/message.go).  A WhatsApp message is a bundle of       *)
(* optional parts, any number of which may be there, or a view-once        *)
(* wrapper around one.  A bundle says which parts it has, the text or      *)
(* caption of each ("" if none), which of them carry the context of a      *)
(* reply, and whether its audio is a voice note.                           *)
(***************************************************************************)
EXTENDS Sequences, SequencesExt

(* The order in which buildMessage asks for the parts that are not text.   *)
AskOrder == <<"image", "video", "audio", "document", "sticker", "contact",
              "contacts", "location", "reaction">>

Captioned == {"image", "video", "document"}

Downloadable == {"image", "video", "audio", "document", "sticker"}

(* Where contextInfoOf looks, in order; and it looks nowhere else.         *)
WithContext == <<"extendedText", "image", "video", "document", "audio">>

PartTypes == ToSet(AskOrder) \cup {"conversation", "extendedText", "poll"}

(* Two texts are enough to tell the text from the caption beside it.       *)
Texts == {"", "words", "caption"}

Bundles ==
  [parts : SUBSET PartTypes, text : [PartTypes -> Texts],
   context : SUBSET PartTypes, voice : BOOLEAN]

NoParts ==
  [parts |-> {}, text |-> [part \in PartTypes |-> ""], context |-> {},
   voice |-> FALSE]

RawMessages == [viewOnce : BOOLEAN, says : Bundles]

NoMedia == [kind |-> "none", voice |-> FALSE, viewOnce |-> FALSE]

(* The first of some parts that a message has.                             *)
FirstPart(order, b) ==
  LET i == SelectInSeq(order, LAMBDA part : part \in b.parts)
  IN IF i = 0 THEN "none" ELSE order[i]

FirstNonEmpty(a, b) == IF a # "" THEN a ELSE b

TextOf(part, b) == IF part \in b.parts THEN b.text[part] ELSE ""

(* Mutant: a wrapper is taken for the message.                             *)
TakenAsIs(message) == IF message.viewOnce THEN NoParts ELSE message.says

UnwrapViewOnce(message) == message.says

ExtractText(b) ==
  FirstNonEmpty(TextOf("conversation", b), TextOf("extendedText", b))

(* Plain text, and in its absence the caption.                             *)
Text(b) ==
  LET part == FirstPart(AskOrder, b)
  IN FirstNonEmpty(ExtractText(b),
                   IF part \in Captioned THEN TextOf(part, b) ELSE "")

(* Kind; what has neither text nor a part that is asked for is "other".    *)
Kind(b) ==
  LET part == FirstPart(AskOrder, b)
  IN CASE part = "contacts" -> "contact"
       [] part # "none" -> part
       [] OTHER -> IF Text(b) = "" THEN "other" ELSE "text"

(* mediaFor: media are opt-in.                                             *)
MediaFor(b, viewOnce, acceptMedia) ==
  IF acceptMedia /\ Kind(b) \in Downloadable
  THEN [kind |-> Kind(b), voice |-> Kind(b) = "audio" /\ b.voice,
        viewOnce |-> viewOnce]
  ELSE NoMedia

(* The message that this one replies to, if its context is where           *)
(* contextInfoOf looks first.                                              *)
Quoted(b) == FirstPart(WithContext, b) \in b.context

Envelope(message, acceptMedia) ==
  LET inner == UnwrapViewOnce(message)
  IN [kind |-> Kind(inner), text |-> Text(inner),
      media |-> MediaFor(inner, message.viewOnce, acceptMedia),
      quoted |-> Quoted(inner), raw |-> message]
=============================================================================
