----------------------------- MODULE MagicLink ------------------------------
(***************************************************************************)
(* What a magic link promises, with no store, no request and no clock      *)
(* reading in it (docs/webauth.md, webauth.go).  A link is offered to one  *)
(* member of one group.  Somebody may log in with it while it is offered,  *)
(* in time, and only as a member who was in the group at the moment the    *)
(* login is dated from; a login is dated from some moment not in the       *)
(* future, and its session is vouched for RecheckInterval from that        *)
(* moment.  A session may be renewed on the same terms, up to a ceiling    *)
(* fixed by the login.  A link may be withdrawn at any time (swept, burnt  *)
(* by a failed attempt, lost in a crash), and never comes back.            *)
(***************************************************************************)
EXTENDS Integers

CONSTANTS
  Groups, Members, Nonces,
  LinkTTL, SessionTTL, RecheckInterval,  \* durations, in clock ticks
  TicksPerSecond,                        \* clock ticks in a Unix second
  LinkSingleUse

VARIABLES
  now,       \* the clock
  roster,    \* the pairs <<group, member>> that are in
  left,      \* when each pair was last in, if it is out; -1: never
  offers,    \* the links somebody could still log in with
  withdrawn, \* the nonces that will never be offered again
  sessions   \* the claims of every session granted

vars == <<now, roster, left, offers, withdrawn, sessions>>

Unix(t) == t \div TicksPerSecond

LastIn(pair) == IF pair \in roster THEN now ELSE left[pair]

Claims(group, member, t, absolute) ==
  [group |-> group, member |-> member, issuedAt |-> Unix(t),
   expires |-> Unix(t + RecheckInterval), absolute |-> absolute]

Init ==
  /\ now = 0
  /\ roster \in SUBSET (Groups \X Members)
  /\ left = [pair \in Groups \X Members |-> -1]
  /\ offers = {}
  /\ withdrawn = {}
  /\ sessions = {}

Tick ==
  /\ now' = now + 1
  /\ UNCHANGED <<roster, left, offers, withdrawn, sessions>>

Join(pair) ==
  /\ roster' = roster \cup {pair}
  /\ UNCHANGED <<now, left, offers, withdrawn, sessions>>

Leave(pair) ==
  /\ pair \in roster
  /\ roster' = roster \ {pair}
  /\ left' = [left EXCEPT ![pair] = now]
  /\ UNCHANGED <<now, offers, withdrawn, sessions>>

(* A new link, good for LinkTTL from some moment not in the future.        *)
Offer(n, group, member) ==
  /\ n \notin withdrawn
  /\ \A o \in offers : o.nonce # n
  /\ \E t \in 0..now :
       offers' = offers \cup
         {[nonce |-> n, group |-> group, member |-> member,
           expires |-> Unix(t + LinkTTL)]}
  /\ UNCHANGED <<now, roster, left, withdrawn, sessions>>

Withdraw(ns) ==
  /\ withdrawn' = withdrawn \cup ns
  /\ offers' = {o \in offers : o.nonce \notin ns}
  /\ UNCHANGED <<now, roster, left, sessions>>

Login(o) ==
  /\ \E t \in 0..now :
       /\ Unix(t) <= o.expires
       /\ t <= LastIn(<<o.group, o.member>>)
       /\ sessions' = sessions \cup
            {Claims(o.group, o.member, t, Unix(t + SessionTTL))}
  /\ \/ /\ offers' = offers \ {o}
        /\ withdrawn' = withdrawn \cup {o.nonce}
     \/ ~ LinkSingleUse /\ UNCHANGED <<offers, withdrawn>>
  /\ UNCHANGED <<now, roster, left>>

Renew(s) ==
  /\ \E t \in 0..now :
       /\ Unix(t) < s.absolute
       /\ t <= LastIn(<<s.group, s.member>>)
       /\ sessions' = sessions \cup {Claims(s.group, s.member, t, s.absolute)}
  /\ UNCHANGED <<now, roster, left, offers, withdrawn>>

Next ==
  \/ Tick
  \/ \E pair \in Groups \X Members : Join(pair) \/ Leave(pair)
  \/ \E n \in Nonces, g \in Groups, m \in Members : Offer(n, g, m)
  \/ \E ns \in SUBSET Nonces : Withdraw(ns)
  \/ \E o \in offers : Login(o)
  \/ \E s \in sessions : Renew(s)

Spec == Init /\ [][Next]_vars
=============================================================================
