------------------------------- MODULE Config -------------------------------
(***************************************************************************)
(* The configuration of the dashboard's logins (webauth/config.go), which  *)
(* bot.New validates and webauth.New fills in: what a bot that starts has  *)
(* accepted.  Durations are ticks and may be negative or 0, which stands   *)
(* for "not set".  Of a URL it matters whether it is absolute, and how     *)
(* many slashes it ends in: links are built by adding a path to it.        *)
(***************************************************************************)
EXTENDS Integers

CONSTANTS
  Secrets,         \* the strings, other than the empty one
  DefaultLinkTTL, DefaultSessionTTL, DefaultRecheckInterval

ASSUME DefaultsAssumption ==
  /\ DefaultLinkTTL \in Nat \ {0}
  /\ DefaultRecheckInterval \in Nat \ {0}
  /\ DefaultSessionTTL \in Nat
  /\ DefaultRecheckInterval <= DefaultSessionTTL

ASSUME SecretsAssumption == "" \notin Secrets

Strings == Secrets \cup {""}

URLs == [kind : {"blank", "relative", "absolute"}, slashes : Nat]

Configs ==
  [DashboardURL : URLs,
   APIToken : Strings, SigningKey : Strings,
   LinkTTL : Int, SessionTTL : Int, RecheckInterval : Int,
   LinkSingleUse : {"nil", "true", "false"}]

(* TrimSuffix takes one slash, not all.                                    *)
Trimmed(url) == [url EXCEPT !.slashes = IF @ > 0 THEN @ - 1 ELSE 0]

Filled(d, default) == IF d <= 0 THEN default ELSE d

(* withDefaults: what it trims and fills in ...                            *)
WithDefaults(c) ==
  [c EXCEPT !.DashboardURL = Trimmed(@),
            !.LinkTTL = Filled(@, DefaultLinkTTL),
            !.SessionTTL = Filled(@, DefaultSessionTTL),
            !.RecheckInterval = Filled(@, DefaultRecheckInterval),
            !.LinkSingleUse = IF @ = "nil" THEN "true" ELSE @]

(* ... and what it, and so Validate, accepts.                              *)
Accepted(c) ==
  /\ c.DashboardURL.kind = "absolute"
  /\ c.APIToken # ""
  /\ c.SigningKey # ""
  /\ c.APIToken # c.SigningKey
  /\ WithDefaults(c).RecheckInterval <= WithDefaults(c).SessionTTL

SingleUse(c) == c.LinkSingleUse # "false"

(* bot.New: logins is {} or {c}, and their endpoints need a port.          *)
BotAccepts(logins, opsAddr) == \A c \in logins : Accepted(c) /\ opsAddr # ""

-----------------------------------------------------------------------------
(* What WebAuth takes for granted of the times it runs with                *)
(* (TimesAssumption), and the dashboard of the two secrets.                *)
Sound(c) ==
  /\ c.LinkTTL \in Nat \ {0}
  /\ c.RecheckInterval \in Nat \ {0}
  /\ c.SessionTTL \in Nat
  /\ c.RecheckInterval <= c.SessionTTL
  /\ {c.APIToken, c.SigningKey} \subseteq Secrets
  /\ c.APIToken # c.SigningKey
=============================================================================
