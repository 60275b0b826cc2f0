----------------------------- MODULE MCWebAuth ------------------------------
(***************************************************************************)
(* WebAuth on a small instance, with the times of a configuration that     *)
(* sets nothing but the URL and the secrets.                               *)
(***************************************************************************)
EXTENDS WebAuth, Config, TLC

CONSTANTS ourToken, ourKey

Symmetry ==
  Permutations(Nonces) \cup Permutations(Requests)

Durations == -1..(DefaultSessionTTL + 1)

Times3 == Durations \X Durations \X Durations

WithTimes(t, single) ==
  [DashboardURL |-> [kind |-> "absolute", slashes |-> 0],
   APIToken |-> ourToken, SigningKey |-> ourKey,
   LinkTTL |-> t[1], SessionTTL |-> t[2], RecheckInterval |-> t[3],
   LinkSingleUse |-> single]

Unset == WithTimes(<<0, 0, 0>>, "nil")

ASSUME UnsetIsTheInstance ==
  /\ Accepted(Unset)
  /\ LinkTTL = WithDefaults(Unset).LinkTTL
  /\ SessionTTL = WithDefaults(Unset).SessionTTL
  /\ RecheckInterval = WithDefaults(Unset).RecheckInterval
  /\ LinkSingleUse = SingleUse(WithDefaults(Unset))

ASSUME AcceptedAreSound ==
  \A t \in Times3 :
    LET c == WithTimes(t, "false")
    IN Accepted(c) => Sound(WithDefaults(c))
=============================================================================
