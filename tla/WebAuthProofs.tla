--------------------------- MODULE WebAuthProofs ----------------------------
(***************************************************************************)
(* Proofs about WebAuth, for any groups, members, nonces and requests, any *)
(* durations and either kind of link.                                      *)
(***************************************************************************)
EXTENDS WebAuth, TLAPS

-----------------------------------------------------------------------------
(* Clocks: truncation to seconds preserves order.                          *)
LEMMA UnixNat == ASSUME NEW t \in Nat PROVE Unix(t) \in Nat
BY TimesAssumption DEF Unix

(* A later tick is never in an earlier second.                             *)
LEMMA UnixMono ==
  ASSUME NEW a \in Int, NEW b \in Int, a <= b
  PROVE Unix(a) <= Unix(b)
BY TimesAssumption DEF Unix

(* And a strictly earlier second means a strictly earlier tick.            *)
LEMMA UnixStrict ==
  ASSUME NEW a \in Int, NEW b \in Int, Unix(a) < Unix(b)
  PROVE a < b
<1>1. Unix(a) \in Int /\ Unix(b) \in Int
  BY TimesAssumption DEF Unix
<1>2. b <= a => Unix(b) <= Unix(a)
  BY UnixMono
<1> QED BY <1>1, <1>2

(* Tokens have the type the invariant gives them.                          *)
LEMMA ClaimsType ==
  ASSUME NEW g \in Groups, NEW m \in Members, NEW t \in Nat, NEW a \in Nat
  PROVE Claims(g, m, t, a) \in TokenType
<1>1. Unix(t) \in Nat /\ Unix(t + RecheckInterval) \in Nat
  BY UnixNat, TimesAssumption
<1> QED BY <1>1 DEF Claims, TokenType

-----------------------------------------------------------------------------
(* The table: what a Set, a Consume and a sweep leave.                     *)
LEMMA GetRow ==
  ASSUME NEW table, NEW key, Has(table, key)
  PROVE \E row \in table : row.key = key /\ Get(table, key) = row.value
<1>1. \E row \in table : row.key = key
  BY DEF Has, Rows
<1> QED BY <1>1 DEF Get

(* Rows that survive a Consume do not have the consumed key.               *)
LEMMA ConsumeRows ==
  ASSUME NEW table, NEW key, NEW row
  PROVE row \in Consume(table, key) <=> row \in table /\ row.key # key
BY DEF Consume, Delete, Rows

(* A Set leaves the other rows alone and adds its own.                     *)
LEMMA SetRows ==
  ASSUME NEW table, NEW key, NEW value, NEW second, NEW row
  PROVE row \in Set(table, key, value, second) <=>
          \/ row \in table /\ row.key # key
          \/ row = [key |-> key, value |-> value, updated_at |-> second]
BY DEF Set, Delete, Rows

LEMMA SweepRows ==
  ASSUME NEW table, NEW prefix, NEW age, NEW second
  PROVE DeleteExpired(table, prefix, age, second) \subseteq table
BY DEF DeleteExpired

(* Distinct nonces have distinct keys.                                     *)
LEMMA LinkKeyInjective ==
  ASSUME NEW m, NEW n, LinkKey(m) = LinkKey(n)
  PROVE m = n
BY DEF LinkKey

-----------------------------------------------------------------------------
(***************************************************************************)
(* What a request knows at each of its steps.                              *)
(***************************************************************************)
KnowsWho(q) == q.group \in Groups /\ q.member \in Members

StepOK(q) ==
  /\ q.pc = "stamp" => KnowsWho(q)
  /\ q.pc = "store" => KnowsWho(q) /\ q.nonce \in Nonces /\ q.expires \in Nat
  /\ q.pc = "expiry" => q.op = "redeem"
  /\ q.pc \in {"expiry", "member", "sign"} => KnowsWho(q)
  /\ q.pc \in {"member", "sign"} =>
       /\ q.op \in {"redeem", "refresh"}
       /\ q.now \in Nat /\ q.now <= now
       /\ q.absolute \in Nat
  /\ Holding(q) => q.nonce \in Nonces /\ q.expires \in Nat

Steps == \A r \in Requests : StepOK(req[r])

LeftBeforeNow == \A pair \in Pairs : left[pair] <= now

TypeInv == TypeOK /\ Steps /\ LeftBeforeNow

(* Idle and the records made from it are well typed.                       *)
LEMMA IdleType == Idle \in ReqType /\ StepOK(Idle)
BY DEF Idle, ReqType, StepOK, Holding, KnowsWho, Times

LEMMA InitTypeInv == Init => TypeInv
<1> SUFFICES ASSUME Init PROVE TypeInv
  OBVIOUS
<1>1. TypeOK
  BY IdleType DEF Init, TypeOK, Times, NoTime
<1>2. Steps /\ LeftBeforeNow
  BY IdleType DEF Init, Steps, LeftBeforeNow
<1> QED BY <1>1, <1>2 DEF TypeInv

(* A request that advances to a well typed record keeps the others.        *)
LEMMA AdvanceOne ==
  ASSUME TypeInv, NEW r \in Requests, NEW q \in ReqType, now' = now,
         StepOK(q), req' = [req EXCEPT ![r] = q]
  PROVE req' \in [Requests -> ReqType] /\ Steps'
<1>1. req' \in [Requests -> ReqType]
  BY DEF TypeInv, TypeOK
<1>2. ASSUME NEW s \in Requests PROVE StepOK(req[s])'
  <2>1. req'[s] = req[s] \/ req'[s] = q
    BY DEF TypeInv, TypeOK
  <2>2. StepOK(req[s])
    BY DEF TypeInv, Steps
  <2> QED BY <2>1, <2>2 DEF StepOK, Holding, KnowsWho
<1> QED BY <1>1, <1>2 DEF Steps

LEMMA NextTypeInv == TypeInv /\ [Next]_vars => TypeInv'
<1> SUFFICES ASSUME TypeInv, [Next]_vars PROVE TypeInv'
  OBVIOUS
<1> USE DEF TypeInv
<1>1. CASE Tick
  <2>1. now' \in Nat /\ now <= now'
    BY <1>1 DEF Tick, TypeOK
  <2>2. TypeOK'
    BY <1>1, <2>1 DEF Tick, TypeOK
  <2>3. ASSUME NEW s \in Requests PROVE StepOK(req[s])'
    <3>1. StepOK(req[s]) /\ req'[s] = req[s]
      BY <1>1 DEF Tick, Steps
    <3> QED BY <2>1, <3>1, <1>1 DEF StepOK, Holding, KnowsWho, TypeOK
  <2>4. LeftBeforeNow'
    BY <1>1, <2>1 DEF Tick, LeftBeforeNow, TypeOK, Times, NoTime
  <2> QED BY <2>2, <2>3, <2>4 DEF Steps
<1>2. ASSUME NEW pair \in Pairs, Join(pair) PROVE TypeInv'
  BY <1>2 DEF Join, TypeOK, Steps, StepOK, Holding, KnowsWho, LeftBeforeNow
<1>3. ASSUME NEW pair \in Pairs, Leave(pair) PROVE TypeInv'
  BY <1>3 DEF Leave, TypeOK, Steps, StepOK, Holding, KnowsWho, LeftBeforeNow,
    Times
<1>4. ASSUME NEW r \in Requests, NEW g \in Groups, NEW m \in Members,
             MintSweep(r, g, m)
      PROVE TypeInv'
  <2> DEFINE q == [Idle EXCEPT !.pc = "stamp", !.op = "mint",
                               !.group = g, !.member = m]
  <2>1. q \in ReqType /\ StepOK(q)
    BY DEF Idle, ReqType, StepOK, Holding, KnowsWho, Times
  <2>2. req' \in [Requests -> ReqType] /\ Steps'
    <3> HIDE DEF q
    <3> QED BY <1>4, <2>1, AdvanceOne DEF MintSweep, q
  <2>3. kv' \subseteq kv
    BY <1>4, SweepRows DEF MintSweep
  <2> QED BY <1>4, <2>2, <2>3 DEF MintSweep, TypeOK, LeftBeforeNow
<1>5. ASSUME NEW r \in Requests, NEW n \in Nonces, MintStamp(r, n)
      PROVE TypeInv'
  <2> DEFINE q == [req[r] EXCEPT !.pc = "store", !.nonce = n,
                                 !.expires = Unix(now + LinkTTL)]
  <2>1. Unix(now + LinkTTL) \in Nat
    BY UnixNat, TimesAssumption DEF TypeOK
  <2>2. req[r] \in ReqType /\ StepOK(req[r]) /\ req[r].pc = "stamp"
    BY <1>5 DEF MintStamp, TypeOK, Steps
  <2>3. q \in ReqType /\ StepOK(q)
    BY <2>1, <2>2 DEF ReqType, StepOK, Holding, KnowsWho, Times
  <2>4. req' = [req EXCEPT ![r] = q]
    BY <1>5 DEF MintStamp, TypeOK
  <2>5. req' \in [Requests -> ReqType] /\ Steps'
    <3> HIDE DEF q
    <3> QED BY <1>5, <2>3, <2>4, AdvanceOne DEF MintStamp
  <2> QED BY <1>5, <2>5 DEF MintStamp, TypeOK, LeftBeforeNow
<1>6. ASSUME NEW r \in Requests, MintStore(r) PROVE TypeInv'
  <2> DEFINE key == LinkKey(req[r].nonce)
             val == LinkRecord(req[r].group, req[r].member, req[r].expires)
             stored == Set(kv, key, val, Unix(now))
  <2>1. req[r] \in ReqType /\ StepOK(req[r]) /\ req[r].pc = "store"
    BY <1>6 DEF MintStore, TypeOK, Steps
  <2>2. PICK pc \in {"granted", "denied"} :
          req' = [req EXCEPT ![r] = [req[r] EXCEPT !.pc = pc]]
    BY <1>6 DEF MintStore, TypeOK
  <2>3. /\ [req[r] EXCEPT !.pc = pc] \in ReqType
        /\ StepOK([req[r] EXCEPT !.pc = pc])
    BY <2>1 DEF ReqType, StepOK, Holding, KnowsWho
  <2>4. now' = now
    BY <1>6 DEF MintStore
  <2>5. req' \in [Requests -> ReqType] /\ Steps'
    BY <2>2, <2>3, <2>4, AdvanceOne
  <2>6. key \in {LinkKey(n) : n \in Nonces}
    BY <2>1 DEF StepOK
  <2>7. [key |-> key, value |-> val, updated_at |-> Unix(now)] \in RowType
    <3>1. Unix(now) \in Nat
      BY UnixNat DEF TypeOK
    <3>2. val \in [group : Groups, member : Members, expires : Nat]
      BY <2>1 DEF StepOK, KnowsWho, LinkRecord
    <3> HIDE DEF key, val
    <3> QED BY <2>6, <3>1, <3>2 DEF RowType
  <2>8. /\ stored \subseteq RowType
        /\ \A row1, row2 \in stored : row1.key = row2.key => row1 = row2
    <3> HIDE DEF key, val
    <3> QED BY <2>7, SetRows DEF TypeOK
  <2>9. kv' = kv \/ kv' = stored
    BY <1>6 DEF MintStore
  <2>10. /\ kv' \subseteq RowType
         /\ \A row1, row2 \in kv' : row1.key = row2.key => row1 = row2
    <3> HIDE DEF stored
    <3> QED BY <2>8, <2>9 DEF TypeOK
  <2>11. TypeOK'
    BY <1>6, <2>5, <2>10 DEF MintStore, TypeOK
  <2>12. LeftBeforeNow'
    BY <1>6 DEF MintStore, LeftBeforeNow
  <2> QED BY <2>5, <2>11, <2>12
<1>7. ASSUME NEW r \in Requests, NEW n \in Nonces, RedeemLookup(r, n)
      PROVE TypeInv'
  <2> DEFINE key == LinkKey(n)
             rec == Get(kv, key)
             refused == [Idle EXCEPT !.pc = "denied", !.op = "redeem"]
             found == [Idle EXCEPT !.pc = "expiry", !.op = "redeem",
                         !.nonce = n, !.group = rec.group,
                         !.member = rec.member, !.expires = rec.expires]
  <2>1. refused \in ReqType /\ StepOK(refused)
    BY DEF Idle, ReqType, StepOK, Holding, KnowsWho, Times
  <2>2. Has(kv, key) =>
          rec \in [group : Groups, member : Members, expires : Nat]
    <3> SUFFICES ASSUME Has(kv, key)
                 PROVE rec \in [group : Groups, member : Members, expires : Nat]
      OBVIOUS
    <3>1. PICK row \in kv : row.key = key /\ rec = row.value
      BY GetRow
    <3>2. row \in RowType
      BY DEF TypeOK
    <3> QED BY <3>1, <3>2 DEF RowType
  <2>3. Has(kv, key) => found \in ReqType /\ StepOK(found)
    <3> SUFFICES ASSUME Has(kv, key) PROVE found \in ReqType /\ StepOK(found)
      OBVIOUS
    <3>1. /\ rec.group \in Groups
          /\ rec.member \in Members
          /\ rec.expires \in Nat
      BY <2>2
    <3> HIDE DEF rec
    <3> QED BY <3>1 DEF Idle, ReqType, StepOK, Holding, KnowsWho, Times
  <2>4. kv' \subseteq kv
    BY <1>7, ConsumeRows DEF RedeemLookup
  <2>5. now' = now
    BY <1>7 DEF RedeemLookup
  <2>6. \/ Has(kv, key) /\ req' = [req EXCEPT ![r] = found]
        \/ req' = [req EXCEPT ![r] = refused]
    BY <1>7 DEF RedeemLookup
  <2>7. req' \in [Requests -> ReqType] /\ Steps'
    <3> HIDE DEF found, refused
    <3> QED BY <2>1, <2>3, <2>5, <2>6, AdvanceOne
  <2> QED BY <1>7, <2>4, <2>7 DEF RedeemLookup, TypeOK, LeftBeforeNow
<1>8. ASSUME NEW r \in Requests, RedeemExpiry(r) PROVE TypeInv'
  <2> DEFINE refused == [Idle EXCEPT !.pc = "denied", !.op = "redeem"]
             dated == [req[r] EXCEPT !.pc = "member", !.now = now,
                         !.absolute = Unix(now + SessionTTL)]
  <2>1. refused \in ReqType /\ StepOK(refused)
    BY DEF Idle, ReqType, StepOK, Holding, KnowsWho, Times
  <2>2. req[r] \in ReqType /\ StepOK(req[r]) /\ req[r].pc = "expiry"
    BY <1>8 DEF RedeemExpiry, TypeOK, Steps
  <2>3. Unix(now + SessionTTL) \in Nat /\ now \in Nat
    BY UnixNat, TimesAssumption DEF TypeOK
  <2>4. dated \in ReqType /\ StepOK(dated)
    <3>1. dated \in ReqType
      BY <2>2, <2>3 DEF ReqType, Times
    <3>2. /\ dated.pc = "member" /\ dated.op = "redeem"
          /\ dated.now = now /\ dated.absolute \in Nat
          /\ dated.nonce \in Nonces /\ dated.expires \in Nat
          /\ KnowsWho(dated)
      BY <2>2, <2>3 DEF ReqType, StepOK, Holding, KnowsWho
    <3> HIDE DEF dated
    <3> QED BY <2>3, <3>1, <3>2 DEF StepOK
  <2>5. \/ req' = [req EXCEPT ![r] = refused]
        \/ req' = [req EXCEPT ![r] = dated]
    BY <1>8 DEF RedeemExpiry, LoginCeiling, TypeOK
  <2>6. now' = now
    BY <1>8 DEF RedeemExpiry
  <2>7. req' \in [Requests -> ReqType] /\ Steps'
    <3> HIDE DEF dated, refused
    <3> QED BY <2>1, <2>4, <2>5, <2>6, AdvanceOne
  <2> QED BY <1>8, <2>7 DEF RedeemExpiry, TypeOK, LeftBeforeNow
<1>9. ASSUME NEW r \in Requests, NEW tok \in issued, RefreshStart(r, tok)
      PROVE TypeInv'
  <2> DEFINE refused == [Idle EXCEPT !.pc = "denied", !.op = "refresh"]
             dated == [Idle EXCEPT !.pc = "member", !.op = "refresh",
                         !.group = tok.group, !.member = tok.member,
                         !.now = now, !.absolute = tok.absolute]
  <2>1. refused \in ReqType /\ StepOK(refused)
    BY DEF Idle, ReqType, StepOK, Holding, KnowsWho, Times
  <2>2. tok \in TokenType /\ now \in Nat
    BY DEF TypeOK
  <2>3. dated \in ReqType /\ StepOK(dated)
    <3>1. /\ tok.group \in Groups /\ tok.member \in Members
          /\ tok.absolute \in Nat
      BY <2>2 DEF TokenType
    <3>2. dated \in ReqType
      BY <2>2, <3>1 DEF Idle, ReqType, Times
    <3>3. /\ dated.pc = "member" /\ dated.op = "refresh"
          /\ dated.now = now /\ dated.absolute \in Nat
          /\ KnowsWho(dated)
      BY <3>1 DEF Idle, KnowsWho
    <3> HIDE DEF dated
    <3> QED BY <2>2, <3>2, <3>3 DEF StepOK, Holding
  <2>4. \/ req' = [req EXCEPT ![r] = refused]
        \/ req' = [req EXCEPT ![r] = dated]
    BY <1>9 DEF RefreshStart, RefreshCeiling
  <2>5. now' = now
    BY <1>9 DEF RefreshStart
  <2>6. req' \in [Requests -> ReqType] /\ Steps'
    <3> HIDE DEF dated, refused
    <3> QED BY <2>1, <2>3, <2>4, <2>5, AdvanceOne
  <2> QED BY <1>9, <2>6 DEF RefreshStart, TypeOK, LeftBeforeNow
<1>10. ASSUME NEW r \in Requests, AssertMember(r) PROVE TypeInv'
  <2> DEFINE refused == [Idle EXCEPT !.pc = "denied", !.op = req[r].op]
             vouched == [req[r] EXCEPT !.pc = "sign"]
  <2>1. req[r] \in ReqType /\ StepOK(req[r]) /\ req[r].pc = "member"
    BY <1>10 DEF AssertMember, TypeOK, Steps
  <2>2. refused \in ReqType /\ StepOK(refused)
    BY <2>1 DEF Idle, ReqType, StepOK, Holding, KnowsWho, Times
  <2>3. vouched \in ReqType /\ StepOK(vouched)
    BY <2>1 DEF ReqType, StepOK, Holding, KnowsWho
  <2>4. \/ req' = [req EXCEPT ![r] = refused]
        \/ req' = [req EXCEPT ![r] = vouched]
    BY <1>10 DEF AssertMember, TypeOK
  <2>5. now' = now
    BY <1>10 DEF AssertMember
  <2>6. req' \in [Requests -> ReqType] /\ Steps'
    <3> HIDE DEF vouched, refused
    <3> QED BY <2>2, <2>3, <2>4, <2>5, AdvanceOne
  <2> QED BY <1>10, <2>6 DEF AssertMember, TypeOK, LeftBeforeNow
<1>11. ASSUME NEW r \in Requests, Mint(r) PROVE TypeInv'
  <2> DEFINE done == [req[r] EXCEPT !.pc = "granted"]
  <2>1. req[r] \in ReqType /\ StepOK(req[r]) /\ req[r].pc = "sign"
    BY <1>11 DEF Mint, TypeOK, Steps
  <2>2. done \in ReqType /\ StepOK(done)
    BY <2>1 DEF ReqType, StepOK, Holding, KnowsWho
  <2>3. req' = [req EXCEPT ![r] = done] /\ now' = now
    BY <1>11 DEF Mint, TypeOK
  <2>4. req' \in [Requests -> ReqType] /\ Steps'
    <3> HIDE DEF done
    <3> QED BY <2>2, <2>3, AdvanceOne
  <2>5. Token(req[r]) \in TokenType
    BY <2>1, ClaimsType DEF StepOK, KnowsWho, Token
  <2>6. logins' \subseteq LoginType
    BY <1>11, <2>1 DEF Mint, TypeOK, LoginType, StepOK, KnowsWho, Holding
  <2> QED BY <1>11, <2>4, <2>5, <2>6 DEF Mint, TypeOK, LeftBeforeNow
<1>12. ASSUME NEW r \in Requests, Respond(r) PROVE TypeInv'
  <2>1. req' \in [Requests -> ReqType] /\ Steps'
    BY <1>12, IdleType, AdvanceOne DEF Respond
  <2> QED BY <1>12, <2>1 DEF Respond, TypeOK, LeftBeforeNow
<1>13. CASE Crash
  <2>1. req' \in [Requests -> ReqType]
    BY <1>13, IdleType DEF Crash
  <2>2. \A r \in Requests : req'[r] = Idle
    BY <1>13 DEF Crash
  <2>3. Steps'
    BY <2>2 DEF Steps, StepOK, Holding, KnowsWho, Idle
  <2> QED BY <1>13, <2>1, <2>3 DEF Crash, TypeOK, LeftBeforeNow
<1>14. CASE UNCHANGED vars
  BY <1>14 DEF vars, TypeOK, Steps, StepOK, Holding, KnowsWho, LeftBeforeNow
<1> QED
  BY <1>1, <1>2, <1>3, <1>4, <1>5, <1>6, <1>7, <1>8, <1>9, <1>10, <1>11,
    <1>12, <1>13, <1>14
  DEF Next, Environment, Call, Work

(* A call that is not under way remembers nothing.                         *)
IdleClean == \A r \in Requests : req[r].pc = "idle" => req[r] = Idle

LEMMA NextIdleClean == TypeInv /\ IdleClean /\ [Next]_vars => IdleClean'
<1> SUFFICES ASSUME TypeInv, IdleClean, [Next]_vars PROVE IdleClean'
  OBVIOUS
<1>0. req \in [Requests -> ReqType]
  BY DEF TypeInv, TypeOK
<1>1. CASE req' = req
  BY <1>1 DEF IdleClean
<1>2. ASSUME NEW r \in Requests, Call(r) \/ Work(r) \/ Respond(r)
      PROVE  IdleClean'
  <2>1. \A s \in Requests \ {r} : req'[s] = req[s]
    BY <1>0, <1>2
    DEF Call, Work, Respond, MintSweep, MintStamp, MintStore, RedeemLookup,
        RedeemExpiry, RefreshStart, AssertMember, Mint
  <2>2. req'[r].pc = "idle" => req'[r] = Idle
    <3>1. CASE Call(r)
      <4>1. ASSUME NEW g \in Groups, NEW m \in Members, MintSweep(r, g, m)
            PROVE  req'[r].pc = "stamp"
        BY <1>0, <4>1 DEF MintSweep, Idle
      <4>2. ASSUME NEW n \in Nonces, RedeemLookup(r, n)
            PROVE  req'[r].pc \in {"expiry", "denied"}
        <5>1. PICK rec : \/ req' = [req EXCEPT ![r] = [Idle EXCEPT
                               !.pc = "expiry", !.op = "redeem", !.nonce = n,
                               !.group = rec.group, !.member = rec.member,
                               !.expires = rec.expires]]
                         \/ req' = [req EXCEPT ![r] = [Idle EXCEPT
                               !.pc = "denied", !.op = "redeem"]]
          BY <4>2 DEF RedeemLookup
        <5> QED
          BY <1>0, <5>1 DEF Idle
      <4>3. ASSUME NEW tok \in issued, RefreshStart(r, tok)
            PROVE  req'[r].pc \in {"member", "denied"}
        BY <1>0, <4>3 DEF RefreshStart, Idle
      <4> QED
        BY <3>1, <4>1, <4>2, <4>3 DEF Call
    <3>2. CASE Work(r)
      <4>0. req[r] \in ReqType
        BY <1>0
      <4>1. ASSUME NEW n \in Nonces, MintStamp(r, n)
            PROVE  req'[r].pc = "store"
        BY <1>0, <4>0, <4>1 DEF MintStamp, ReqType
      <4>2. CASE MintStore(r)
        <5>1. req'[r].pc \in {"granted", "denied"}
          BY <1>0, <4>0, <4>2 DEF MintStore, ReqType
        <5> QED
          BY <5>1
      <4>3. CASE RedeemExpiry(r)
        <5>1. CASE LinkExpired(req[r])
          <6>1. req' = [req EXCEPT ![r] = [Idle EXCEPT
                          !.pc = "denied", !.op = "redeem"]]
            BY <4>3, <5>1 DEF RedeemExpiry
          <6> QED
            BY <1>0, <6>1 DEF Idle
        <5>2. CASE ~ LinkExpired(req[r])
          <6>1. req' = [req EXCEPT ![r].pc = "member", ![r].now = now,
                                   ![r].absolute = LoginCeiling]
            BY <4>3, <5>2 DEF RedeemExpiry
          <6> QED
            BY <1>0, <4>0, <6>1 DEF ReqType
        <5> QED
          BY <5>1, <5>2
      <4>4. CASE AssertMember(r)
        <5>1. CASE req' = [req EXCEPT ![r].pc = "sign"]
          BY <1>0, <4>0, <5>1 DEF ReqType
        <5>2. CASE req' = [req EXCEPT ![r] = [Idle EXCEPT
                             !.pc = "denied", !.op = req[r].op]]
          BY <1>0, <5>2 DEF Idle
        <5> QED
          BY <4>4, <5>1, <5>2 DEF AssertMember
      <4>5. CASE Mint(r)
        <5>1. req'[r].pc = "granted"
          BY <1>0, <4>0, <4>5 DEF Mint, ReqType
        <5> QED
          BY <5>1
      <4> QED
        BY <3>2, <4>1, <4>2, <4>3, <4>4, <4>5 DEF Work
    <3>3. CASE Respond(r)
      BY <1>0, <3>3 DEF Respond
    <3> QED
      BY <1>2, <3>1, <3>2, <3>3
  <2> QED
    BY <2>1, <2>2 DEF IdleClean
<1>3. CASE Crash
  BY <1>3 DEF Crash, IdleClean
<1> QED
  BY <1>1, <1>2, <1>3
  DEF Next, Environment, Tick, Join, Leave, vars

(* The table, the requests and the tokens keep their types, and no key of  *)
(* the table ever has two rows.                                            *)
THEOREM TypeCorrect == Spec => []TypeOK
<1>1. TypeInv => TypeOK
  BY DEF TypeInv
<1> QED BY <1>1, InitTypeInv, NextTypeInv, PTL DEF Spec

-----------------------------------------------------------------------------
(***************************************************************************)
(* The revocation lag.  The invariant says why it is safe that mint dates  *)
(* a token from a clock read before the membership query: a request that   *)
(* passed the query is dated no later than its member was last in.         *)
(***************************************************************************)
Vouched ==
  \A r \in Requests :
    req[r].pc = "sign" => req[r].now <= LastIn(<<req[r].group, req[r].member>>)

ExpiresInTime ==
  \A tok \in issued :
    tok.expires <= Unix(LastIn(<<tok.group, tok.member>>) + RecheckInterval)

RevocationInv == TypeInv /\ Vouched /\ ExpiresInTime

(* The moment somebody was last in never moves back.                       *)
LEMMA LastInMonotone ==
  ASSUME TypeInv, [Next]_vars, NEW pair \in Pairs
  PROVE /\ LastIn(pair) \in Int /\ LastIn(pair)' \in Int
        /\ LastIn(pair) <= LastIn(pair)'
<1> USE DEF TypeInv, TypeOK, LastIn, Times, NoTime
<1>1. TypeInv'
  BY NextTypeInv
<1>2. LastIn(pair) \in Int /\ LastIn(pair)' \in Int
  BY <1>1
<1>3. left[pair] <= now
  BY DEF LeftBeforeNow
<1>4. CASE UNCHANGED <<now, roster, left>>
  BY <1>2, <1>4
<1>5. CASE Tick
  BY <1>2, <1>3, <1>5 DEF Tick
<1>6. ASSUME NEW other \in Pairs, Join(other) PROVE LastIn(pair) <= LastIn(pair)'
  BY <1>2, <1>3, <1>6 DEF Join
<1>7. ASSUME NEW other \in Pairs, Leave(other) PROVE LastIn(pair) <= LastIn(pair)'
  BY <1>2, <1>3, <1>7 DEF Leave
<1>8. \/ UNCHANGED <<now, roster, left>>
      \/ Tick
      \/ \E other \in Pairs : Join(other) \/ Leave(other)
  BY DEF Next, Environment, Call, Work, MintSweep, MintStamp, MintStore,
    RedeemLookup, RedeemExpiry, RefreshStart, AssertMember, Mint, Respond,
    Crash, vars
<1> QED BY <1>2, <1>4, <1>5, <1>6, <1>7, <1>8

(* A request changes only by its own step, or is dropped.                  *)
LEMMA RequestStep ==
  ASSUME TypeInv, [Next]_vars, NEW r \in Requests
  PROVE req'[r] = req[r] \/ req'[r] = Idle \/ Call(r) \/ Work(r)
<1> USE DEF TypeInv, TypeOK
<1>1. ASSUME NEW s \in Requests, Call(s) \/ Work(s) \/ Respond(s)
      PROVE req' = [req EXCEPT ![s] = req'[s]]
  BY <1>1 DEF Call, Work, MintSweep, MintStamp, MintStore, RedeemLookup,
    RedeemExpiry, RefreshStart, AssertMember, Mint, Respond
<1>2. ASSUME NEW s \in Requests, s # r, Call(s) \/ Work(s) \/ Respond(s)
      PROVE req'[r] = req[r]
  BY <1>1, <1>2
<1>3. Respond(r) => req'[r] = Idle
  BY DEF Respond
<1>4. Crash => req'[r] = Idle
  BY DEF Crash
<1>5. \/ UNCHANGED req
      \/ Crash
      \/ \E s \in Requests : Call(s) \/ Work(s) \/ Respond(s)
  BY DEF Next, Environment, Tick, Join, Leave, vars
<1> QED BY <1>2, <1>3, <1>4, <1>5

(* A request that can ask about a member has read the clock: by the expiry *)
(* check of a redeem, or at the start of a refresh.  It keeps what it read *)
(* until the token is signed.                                              *)
LEMMA DatedStep ==
  ASSUME TypeInv, [Next]_vars, NEW r \in Requests,
         req'[r].pc \in {"member", "sign"}
  PROVE \/ req'[r] = req[r]
        \/ /\ req[r].pc = "expiry" /\ ~ LinkExpired(req[r])
           /\ req'[r] = [req[r] EXCEPT !.pc = "member", !.now = now,
                           !.absolute = Unix(now + SessionTTL)]
        \/ \E tok \in issued :
             /\ ~ PastCeiling(tok)
             /\ req'[r] = [Idle EXCEPT !.pc = "member", !.op = "refresh",
                            !.group = tok.group, !.member = tok.member,
                            !.now = now, !.absolute = tok.absolute]
        \/ /\ req[r].pc = "member" /\ AssertMember(r)
           /\ req'[r] = [req[r] EXCEPT !.pc = "sign"]
<1>1. req[r] \in ReqType /\ req \in [Requests -> ReqType]
  BY DEF TypeInv, TypeOK
<1>2. req'[r] # Idle
  BY DEF Idle
<1>3. ASSUME NEW g \in Groups, NEW m \in Members
      PROVE ~ MintSweep(r, g, m)
  BY <1>1 DEF MintSweep, Idle
<1>4. ASSUME NEW n \in Nonces PROVE ~ RedeemLookup(r, n) /\ ~ MintStamp(r, n)
  <2>1. ~ RedeemLookup(r, n)
    BY <1>1 DEF RedeemLookup, Idle
  <2>2. ~ MintStamp(r, n)
    BY <1>1 DEF MintStamp, ReqType
  <2> QED BY <2>1, <2>2
<1>5. ~ MintStore(r) /\ ~ Mint(r)
  BY <1>1 DEF MintStore, Mint, ReqType
<1>6. ASSUME RedeemExpiry(r)
      PROVE /\ req[r].pc = "expiry" /\ ~ LinkExpired(req[r])
            /\ req'[r] = [req[r] EXCEPT !.pc = "member", !.now = now,
                            !.absolute = Unix(now + SessionTTL)]
  <2>1. CASE LinkExpired(req[r])
    BY <1>1, <1>6, <2>1 DEF RedeemExpiry, Idle
  <2>2. CASE ~ LinkExpired(req[r])
    BY <1>1, <1>6, <2>2 DEF RedeemExpiry, LoginCeiling
  <2> QED BY <2>1, <2>2
<1>7. ASSUME NEW tok \in issued, RefreshStart(r, tok)
      PROVE /\ ~ PastCeiling(tok)
            /\ req'[r] = [Idle EXCEPT !.pc = "member", !.op = "refresh",
                           !.group = tok.group, !.member = tok.member,
                           !.now = now, !.absolute = tok.absolute]
  <2>1. CASE PastCeiling(tok)
    BY <1>1, <1>7, <2>1 DEF RefreshStart, Idle
  <2>2. CASE ~ PastCeiling(tok)
    BY <1>1, <1>7, <2>2 DEF RefreshStart, RefreshCeiling
  <2> QED BY <2>1, <2>2
<1>8. ASSUME AssertMember(r)
      PROVE req[r].pc = "member" /\ req'[r] = [req[r] EXCEPT !.pc = "sign"]
  BY <1>1, <1>8 DEF AssertMember, Idle
<1> QED
  BY <1>2, <1>3, <1>4, <1>5, <1>6, <1>7, <1>8, RequestStep DEF Call, Work

(* Only the membership query brings a request to the signature.            *)
LEMMA SignAfterQuery ==
  ASSUME TypeInv, [Next]_vars, NEW r \in Requests, req'[r].pc = "sign"
  PROVE req'[r] = req[r] \/ AssertMember(r)
<1>1. req[r] \in ReqType
  BY DEF TypeInv, TypeOK
<1>2. [req[r] EXCEPT !.pc = "member", !.now = now,
        !.absolute = Unix(now + SessionTTL)].pc = "member"
  BY <1>1 DEF ReqType
<1>3. ASSUME NEW tok
      PROVE [Idle EXCEPT !.pc = "member", !.op = "refresh",
              !.group = tok.group, !.member = tok.member,
              !.now = now, !.absolute = tok.absolute].pc = "member"
  BY DEF Idle
<1> QED BY <1>2, <1>3, DatedStep

(* Only Mint signs, and only a request that has passed the query.          *)
LEMMA OnlyMintIssues ==
  ASSUME [Next]_vars
  PROVE \/ UNCHANGED <<issued, logins>>
        \/ \E r \in Requests : Mint(r)
BY DEF Next, Environment, Call, Work, Tick, Join, Leave, MintSweep, MintStamp,
  MintStore, RedeemLookup, RedeemExpiry, RefreshStart, AssertMember, Respond,
  Crash, vars

LEMMA NextRevocationInv == RevocationInv /\ [Next]_vars => RevocationInv'
<1> SUFFICES ASSUME RevocationInv, [Next]_vars PROVE RevocationInv'
  OBVIOUS
<1>1. TypeInv /\ TypeInv'
  BY NextTypeInv DEF RevocationInv
<1>2. Vouched'
  <2> SUFFICES ASSUME NEW r \in Requests, req'[r].pc = "sign",
                      NEW pair, pair = <<req'[r].group, req'[r].member>>
               PROVE req'[r].now <= LastIn(pair)'
    BY DEF Vouched, LastIn
  <2>1. pair \in Pairs /\ req'[r].now \in Nat
    BY <1>1 DEF TypeInv, Steps, StepOK, KnowsWho, Pairs
  <2>2. CASE req'[r] = req[r]
    <3>1. req'[r].now <= LastIn(pair)
      BY <2>2 DEF RevocationInv, Vouched
    <3> QED BY <1>1, <2>1, <3>1, LastInMonotone
  <2>3. CASE AssertMember(r)
    <3>1. /\ req'[r] = [req[r] EXCEPT !.pc = "sign"]
          /\ <<req[r].group, req[r].member>> \in roster
          /\ UNCHANGED <<now, roster>>
      BY <1>1, <2>3 DEF AssertMember, TypeInv, TypeOK, Idle
    <3>2. /\ req'[r].now = req[r].now /\ req[r].now <= now
          /\ pair = <<req[r].group, req[r].member>>
      BY <1>1, <2>3, <3>1
      DEF AssertMember, TypeInv, TypeOK, ReqType, Steps, StepOK
    <3> QED BY <3>1, <3>2 DEF LastIn
  <2> QED BY <1>1, <2>2, <2>3, SignAfterQuery
<1>3. ExpiresInTime'
  <2> SUFFICES ASSUME NEW tok \in issued'
               PROVE tok.expires <=
                       Unix(LastIn(<<tok.group, tok.member>>)' + RecheckInterval)
    BY DEF ExpiresInTime, Unix
  <2> DEFINE pair == <<tok.group, tok.member>>
  <2>1. pair \in Pairs /\ tok.expires \in Nat
    BY <1>1 DEF TypeInv, TypeOK, TokenType, Pairs
  <2>2. /\ LastIn(pair) \in Int /\ LastIn(pair)' \in Int
        /\ LastIn(pair) <= LastIn(pair)'
    BY <1>1, <2>1, LastInMonotone
  <2>3. tok.expires <= Unix(LastIn(pair) + RecheckInterval)
    <3>1. CASE tok \in issued
      BY <3>1 DEF RevocationInv, ExpiresInTime
    <3>2. ASSUME NEW r \in Requests, Mint(r), tok = Token(req[r])
          PROVE tok.expires <= Unix(LastIn(pair) + RecheckInterval)
      <4>1. /\ tok.expires = Unix(req[r].now + RecheckInterval)
            /\ pair = <<req[r].group, req[r].member>>
        BY <3>2 DEF Token, Claims
      <4>2. req[r].now <= LastIn(pair) /\ req[r].now \in Nat
        BY <1>1, <3>2, <4>1
        DEF Mint, RevocationInv, Vouched, TypeInv, Steps, StepOK
      <4>3. req[r].now + RecheckInterval <= LastIn(pair) + RecheckInterval
        BY <2>2, <4>2, TimesAssumption
      <4> QED BY <2>2, <4>1, <4>2, <4>3, UnixMono, TimesAssumption
    <3> QED BY <3>1, <3>2, OnlyMintIssues DEF Mint
  <2>4. Unix(LastIn(pair) + RecheckInterval)
          <= Unix(LastIn(pair)' + RecheckInterval)
    BY <2>2, UnixMono, TimesAssumption
  <2>5. /\ Unix(LastIn(pair) + RecheckInterval) \in Int
        /\ Unix(LastIn(pair)' + RecheckInterval) \in Int
    BY <2>2, TimesAssumption DEF Unix
  <2> QED BY <2>1, <2>3, <2>4, <2>5
<1> QED BY <1>1, <1>2, <1>3 DEF RevocationInv

(* A token that verifies belongs to somebody who was in its group less     *)
(* than RecheckInterval ago: what config.go promises of RecheckInterval.   *)
THEOREM RevocationLagHolds == Spec => []RevocationLag
<1>1. Init => RevocationInv
  BY InitTypeInv DEF Init, RevocationInv, Vouched, ExpiresInTime, Idle
<1>2. RevocationInv => RevocationLag
  <2> SUFFICES ASSUME RevocationInv, NEW tok \in issued, Verify(tok)
               PROVE now < LastIn(<<tok.group, tok.member>>) + RecheckInterval
    BY DEF RevocationLag
  <2> DEFINE last == LastIn(<<tok.group, tok.member>>)
  <2>1. tok \in TokenType /\ now \in Nat
    BY DEF RevocationInv, TypeInv, TypeOK
  <2>2. last \in Int
    BY <2>1 DEF RevocationInv, TypeInv, TypeOK, LastIn, TokenType, Pairs,
      Times, NoTime
  <2>3. Unix(now) < tok.expires /\ tok.expires <= Unix(last + RecheckInterval)
    BY DEF Verify, RevocationInv, ExpiresInTime
  <2>4. /\ Unix(now) \in Int /\ tok.expires \in Int
        /\ Unix(last + RecheckInterval) \in Int
    BY <2>1, <2>2, TimesAssumption DEF TokenType, Unix
  <2>5. Unix(now) < Unix(last + RecheckInterval)
    BY <2>3, <2>4
  <2> HIDE DEF last
  <2> QED BY <2>1, <2>2, <2>5, UnixStrict, TimesAssumption DEF last
<1> QED BY <1>1, <1>2, NextRevocationInv, PTL DEF Spec

-----------------------------------------------------------------------------
(***************************************************************************)
(* The ceiling.  Every token, and every refresh under way, carries the     *)
(* ceiling of a recorded login of the same member to the same group.       *)
(***************************************************************************)
LoggedIn(group, member, absolute) ==
  \E l \in logins :
    /\ l.group = group
    /\ l.member = member
    /\ absolute = Unix(l.at + SessionTTL)

TokensTraced ==
  \A tok \in issued : LoggedIn(tok.group, tok.member, tok.absolute)

RequestTraced(q) ==
  q.pc \in {"member", "sign"} =>
    /\ q.op = "redeem" => q.absolute = Unix(q.now + SessionTTL)
    /\ q.op = "refresh" => LoggedIn(q.group, q.member, q.absolute)

RequestsTraced == \A r \in Requests : RequestTraced(req[r])

CeilingInv == TypeInv /\ TokensTraced /\ RequestsTraced

(* No login is forgotten.                                                  *)
LEMMA LoginsGrow == ASSUME [Next]_vars PROVE logins \subseteq logins'
BY OnlyMintIssues DEF Mint

LEMMA NextCeilingInv == CeilingInv /\ [Next]_vars => CeilingInv'
<1> SUFFICES ASSUME CeilingInv, [Next]_vars PROVE CeilingInv'
  OBVIOUS
<1>1. TypeInv /\ TypeInv'
  BY NextTypeInv DEF CeilingInv
<1>2. ASSUME NEW g, NEW m, NEW a, LoggedIn(g, m, a) PROVE LoggedIn(g, m, a)'
  BY <1>2, LoginsGrow DEF LoggedIn, Unix
<1>3. TokensTraced'
  <2> SUFFICES ASSUME NEW tok \in issued'
               PROVE LoggedIn(tok.group, tok.member, tok.absolute)'
    BY DEF TokensTraced, LoggedIn, Unix
  <2>1. CASE tok \in issued
    BY <1>2, <2>1 DEF CeilingInv, TokensTraced
  <2>2. ASSUME NEW r \in Requests, Mint(r), tok = Token(req[r])
        PROVE LoggedIn(tok.group, tok.member, tok.absolute)'
    <3>1. /\ tok.group = req[r].group /\ tok.member = req[r].member
          /\ tok.absolute = req[r].absolute
      BY <2>2 DEF Token, Claims
    <3>2. req[r].op \in {"redeem", "refresh"} /\ RequestTraced(req[r])
      BY <1>1, <2>2
      DEF Mint, CeilingInv, RequestsTraced, TypeInv, Steps, StepOK
    <3>3. CASE req[r].op = "refresh"
      BY <1>2, <2>2, <3>1, <3>2, <3>3 DEF Mint, RequestTraced
    <3>4. CASE req[r].op = "redeem"
      <4>1. req[r].absolute = Unix(req[r].now + SessionTTL)
        BY <2>2, <3>2, <3>4 DEF Mint, RequestTraced
      <4>2. [nonce |-> req[r].nonce, by |-> r, group |-> req[r].group,
             member |-> req[r].member, at |-> req[r].now] \in logins'
        BY <2>2, <3>4 DEF Mint
      <4> QED BY <3>1, <4>1, <4>2 DEF LoggedIn, Unix
    <3> QED BY <3>2, <3>3, <3>4
  <2> QED BY <2>1, <2>2, OnlyMintIssues DEF Mint
<1>4. RequestsTraced'
  <2> SUFFICES ASSUME NEW r \in Requests, req'[r].pc \in {"member", "sign"}
               PROVE RequestTraced(req[r])'
    BY DEF RequestsTraced, RequestTraced
  <2>1. req[r] \in ReqType /\ RequestTraced(req[r])
    BY <1>1 DEF TypeInv, TypeOK, CeilingInv, RequestsTraced
  <2>2. CASE req'[r] = req[r]
    BY <1>2, <2>1, <2>2 DEF RequestTraced, Unix
  <2>3. CASE /\ req[r].pc = "expiry"
             /\ req'[r] = [req[r] EXCEPT !.pc = "member", !.now = now,
                             !.absolute = Unix(now + SessionTTL)]
    <3>1. req[r].op = "redeem"
      BY <1>1, <2>3 DEF TypeInv, Steps, StepOK
    <3>2. /\ req'[r].op = "redeem" /\ req'[r].now = now
          /\ req'[r].absolute = Unix(now + SessionTTL)
      BY <2>1, <2>3, <3>1 DEF ReqType
    <3> QED BY <3>2 DEF RequestTraced, Unix
  <2>4. ASSUME NEW tok \in issued,
               req'[r] = [Idle EXCEPT !.pc = "member", !.op = "refresh",
                           !.group = tok.group, !.member = tok.member,
                           !.now = now, !.absolute = tok.absolute]
        PROVE RequestTraced(req[r])'
    <3>1. /\ req'[r].op = "refresh" /\ req'[r].group = tok.group
          /\ req'[r].member = tok.member /\ req'[r].absolute = tok.absolute
      BY <2>4 DEF Idle
    <3>2. LoggedIn(tok.group, tok.member, tok.absolute)'
      BY <1>2 DEF CeilingInv, TokensTraced
    <3> QED BY <3>1, <3>2 DEF RequestTraced, LoggedIn, Unix
  <2>5. CASE /\ req[r].pc = "member"
             /\ req'[r] = [req[r] EXCEPT !.pc = "sign"]
    <3>1. /\ req'[r].op = req[r].op /\ req'[r].now = req[r].now
          /\ req'[r].group = req[r].group /\ req'[r].member = req[r].member
          /\ req'[r].absolute = req[r].absolute
      BY <2>1, <2>5 DEF ReqType
    <3>2. req[r].op = "refresh" =>
            LoggedIn(req[r].group, req[r].member, req[r].absolute)'
      BY <1>2, <2>1, <2>5 DEF RequestTraced
    <3> QED BY <2>1, <2>5, <3>1, <3>2 DEF RequestTraced, LoggedIn, Unix
  <2> QED BY <1>1, <2>2, <2>3, <2>4, <2>5, DatedStep
<1> QED BY <1>1, <1>3, <1>4 DEF CeilingInv

(* A token that verifies goes back to a login less than SessionTTL ago,    *)
(* through any number of refreshes: what config.go promises of SessionTTL. *)
THEOREM SessionCeilingHolds == Spec => []SessionCeiling
<1>1. Init => CeilingInv
  BY InitTypeInv
  DEF Init, CeilingInv, TokensTraced, RequestsTraced, RequestTraced, Idle
<1>2. CeilingInv => SessionCeiling
  <2> SUFFICES ASSUME CeilingInv, NEW tok \in issued, Verify(tok)
               PROVE \E l \in logins :
                       /\ l.group = tok.group
                       /\ l.member = tok.member
                       /\ now < l.at + SessionTTL
    BY DEF SessionCeiling
  <2>1. PICK l \in logins : /\ l.group = tok.group
                            /\ l.member = tok.member
                            /\ tok.absolute = Unix(l.at + SessionTTL)
    BY DEF CeilingInv, TokensTraced, LoggedIn
  <2>2. Unix(now) < Unix(l.at + SessionTTL)
    BY <2>1 DEF Verify
  <2>3. now \in Int /\ l.at + SessionTTL \in Int
    BY TimesAssumption DEF CeilingInv, TypeInv, TypeOK, LoginType
  <2> QED BY <2>1, <2>2, <2>3, UnixStrict
<1> QED BY <1>1, <1>2, NextCeilingInv, PTL DEF Spec

-----------------------------------------------------------------------------
(***************************************************************************)
(* Single use.  At any time a nonce is in one place: in the table, in the  *)
(* hand of one request (about to be stored, or consumed and not yet        *)
(* answered), or spent by one login.  The requests and the crash may lose  *)
(* it; nothing ever copies it.                                             *)
(***************************************************************************)
InHand(q) == q.pc = "store" \/ Holding(q)

NoncesDrawn ==
  /\ \A row \in kv : \E n \in drawn : row.key = LinkKey(n)
  /\ \A r \in Requests : InHand(req[r]) => req[r].nonce \in drawn
  /\ \A l \in logins : l.nonce \in drawn

OnePlace ==
  /\ \A r \in Requests : InHand(req[r]) =>
       /\ \A row \in kv : row.key # LinkKey(req[r].nonce)
       /\ \A l \in logins : l.nonce # req[r].nonce
       /\ \A s \in Requests \ {r} :
            InHand(req[s]) => req[s].nonce # req[r].nonce
  /\ \A l \in logins, row \in kv : row.key # LinkKey(l.nonce)

SingleUseInv ==
  TypeInv /\ NoncesDrawn /\ (LinkSingleUse => OnePlace /\ SingleWinner)

(* A step after which every nonce is where it was, or nowhere.             *)
LEMMA OnlyLoses ==
  ASSUME SingleUseInv, TypeInv', kv' \subseteq kv, logins' = logins,
         drawn \subseteq drawn',
         \A r \in Requests : InHand(req'[r]) =>
           InHand(req[r]) /\ req'[r].nonce = req[r].nonce
  PROVE SingleUseInv'
<1>1. NoncesDrawn'
  BY DEF SingleUseInv, NoncesDrawn, InHand, Holding
<1>2. LinkSingleUse => OnePlace'
  BY DEF SingleUseInv, OnePlace, InHand, Holding
<1>3. LinkSingleUse => SingleWinner'
  BY DEF SingleUseInv, SingleWinner
<1> QED BY <1>1, <1>2, <1>3 DEF SingleUseInv

LEMMA NextSingleUseInv == SingleUseInv /\ [Next]_vars => SingleUseInv'
<1> SUFFICES ASSUME SingleUseInv, [Next]_vars PROVE SingleUseInv'
  OBVIOUS
<1>1. TypeInv /\ TypeInv'
  BY NextTypeInv DEF SingleUseInv
<1>2. /\ req \in [Requests -> ReqType]
      /\ \A r \in Requests : req[r] \in ReqType
  BY <1>1 DEF TypeInv, TypeOK
<1>3. CASE UNCHANGED <<kv, drawn, req, logins>>
  BY <1>1, <1>3, OnlyLoses
<1>4. ASSUME NEW r \in Requests, NEW g \in Groups, NEW m \in Members,
             MintSweep(r, g, m)
      PROVE SingleUseInv'
  <2>1. kv' \subseteq kv /\ logins' = logins /\ drawn' = drawn
    BY <1>4, SweepRows DEF MintSweep
  <2>2. ASSUME NEW s \in Requests, InHand(req'[s]) PROVE req'[s] = req[s]
    BY <1>2, <1>4, <2>2 DEF MintSweep, InHand, Holding, Idle
  <2> QED BY <1>1, <2>1, <2>2, OnlyLoses
<1>5. ASSUME NEW r \in Requests, NEW n \in Nonces, MintStamp(r, n)
      PROVE SingleUseInv'
  <2>1. /\ n \notin drawn /\ drawn' = drawn \cup {n}
        /\ kv' = kv /\ logins' = logins
        /\ req'[r].nonce = n
        /\ \A s \in Requests \ {r} : req'[s] = req[s]
    BY <1>2, <1>5 DEF MintStamp, ReqType
  <2>2. NoncesDrawn'
    BY <2>1 DEF SingleUseInv, NoncesDrawn, InHand, Holding
  <2>3. LinkSingleUse => OnePlace'
    <3>1. \A row \in kv : row.key # LinkKey(n)
      BY <2>1, LinkKeyInjective DEF SingleUseInv, NoncesDrawn
    <3>2. \A l \in logins : l.nonce # n
      BY <2>1 DEF SingleUseInv, NoncesDrawn
    <3>3. \A s \in Requests : InHand(req[s]) => req[s].nonce # n
      BY <2>1 DEF SingleUseInv, NoncesDrawn
    <3> QED
      BY <2>1, <3>1, <3>2, <3>3 DEF SingleUseInv, OnePlace, InHand, Holding
  <2>4. LinkSingleUse => SingleWinner'
    BY <2>1 DEF SingleUseInv, SingleWinner
  <2> QED BY <1>1, <2>2, <2>3, <2>4 DEF SingleUseInv
<1>6. ASSUME NEW r \in Requests, MintStore(r) PROVE SingleUseInv'
  <2> DEFINE n == req[r].nonce
  <2>1. /\ logins' = logins /\ drawn' = drawn
        /\ req'[r].pc \in {"granted", "denied"}
        /\ \A s \in Requests \ {r} : req'[s] = req[s]
        /\ InHand(req[r])
    BY <1>2, <1>6 DEF MintStore, ReqType, InHand
  <2>2. \A row \in kv' : row \in kv \/ row.key = LinkKey(n)
    BY <1>6, SetRows DEF MintStore
  <2>3. \A s \in Requests : InHand(req'[s]) => s # r /\ InHand(req[s])
    BY <2>1 DEF InHand, Holding
  <2>4. NoncesDrawn'
    <3>1. n \in drawn
      BY <2>1 DEF SingleUseInv, NoncesDrawn
    <3> HIDE DEF n
    <3>2. \A row \in kv' : \E k \in drawn' : row.key = LinkKey(k)
      BY <2>1, <2>2, <3>1 DEF SingleUseInv, NoncesDrawn
    <3>3. \A s \in Requests : InHand(req'[s]) => req'[s].nonce \in drawn'
      BY <2>1, <2>3 DEF SingleUseInv, NoncesDrawn
    <3> QED BY <2>1, <3>2, <3>3 DEF SingleUseInv, NoncesDrawn, InHand, Holding
  <2>5. LinkSingleUse => OnePlace'
    <3> SUFFICES ASSUME LinkSingleUse PROVE OnePlace'
      OBVIOUS
    <3>1. /\ \A l \in logins : l.nonce # n
          /\ \A s \in Requests \ {r} : InHand(req[s]) => req[s].nonce # n
      BY <2>1 DEF SingleUseInv, OnePlace
    <3> HIDE DEF n
    <3>2. ASSUME NEW s \in Requests, InHand(req'[s])
          PROVE /\ \A row \in kv' : row.key # LinkKey(req'[s].nonce)
                /\ \A l \in logins' : l.nonce # req'[s].nonce
                /\ \A t \in Requests \ {s} :
                     InHand(req'[t]) => req'[t].nonce # req'[s].nonce
      <4>1. s # r /\ req'[s] = req[s] /\ InHand(req[s])
        BY <2>1, <2>3, <3>2
      <4>2. \A row \in kv' : row.key # LinkKey(req[s].nonce)
        BY <2>2, <3>1, <4>1, LinkKeyInjective DEF SingleUseInv, OnePlace
      <4>3. \A l \in logins' : l.nonce # req[s].nonce
        BY <2>1, <4>1 DEF SingleUseInv, OnePlace
      <4>4. \A t \in Requests \ {s} :
              InHand(req'[t]) => req'[t].nonce # req[s].nonce
        BY <2>1, <2>3, <4>1 DEF SingleUseInv, OnePlace
      <4> QED BY <4>1, <4>2, <4>3, <4>4
    <3>3. \A l \in logins', row \in kv' : row.key # LinkKey(l.nonce)
      BY <2>1, <2>2, <3>1, LinkKeyInjective DEF SingleUseInv, OnePlace
    <3> QED BY <3>2, <3>3 DEF OnePlace, InHand, Holding, LinkKey
  <2>6. LinkSingleUse => SingleWinner'
    BY <2>1 DEF SingleUseInv, SingleWinner
  <2> QED BY <1>1, <2>4, <2>5, <2>6 DEF SingleUseInv
<1>7. ASSUME NEW r \in Requests, NEW n \in Nonces, RedeemLookup(r, n)
      PROVE SingleUseInv'
  <2>1. /\ kv' \subseteq kv /\ logins' = logins /\ drawn' = drawn
        /\ \A s \in Requests \ {r} : req'[s] = req[s]
    BY <1>2, <1>7, ConsumeRows DEF RedeemLookup
  <2>2. CASE ~ InHand(req'[r])
    BY <1>1, <2>1, <2>2, OnlyLoses
  <2>3. CASE InHand(req'[r])
    <3>1. /\ Has(kv, LinkKey(n)) /\ req'[r].nonce = n
          /\ LinkSingleUse => kv' = Consume(kv, LinkKey(n))
      BY <1>2, <1>7, <2>3 DEF RedeemLookup, InHand, Holding, Idle
    <3>2. PICK row \in kv : row.key = LinkKey(n)
      BY <3>1, GetRow
    <3>3. NoncesDrawn'
      <4>1. n \in drawn
        BY <3>2, LinkKeyInjective DEF SingleUseInv, NoncesDrawn
      <4> QED
        BY <2>1, <3>1, <4>1 DEF SingleUseInv, NoncesDrawn, InHand, Holding
    <3>4. LinkSingleUse => OnePlace'
      <4> SUFFICES ASSUME LinkSingleUse PROVE OnePlace'
        OBVIOUS
      <4>1. \A other \in kv' : other.key # LinkKey(n)
        BY <3>1, ConsumeRows
      <4>2. \A l \in logins : l.nonce # n
        BY <3>2 DEF SingleUseInv, OnePlace
      <4>3. \A s \in Requests : InHand(req[s]) => req[s].nonce # n
        BY <3>2 DEF SingleUseInv, OnePlace
      <4> QED
        BY <2>1, <3>1, <4>1, <4>2, <4>3
        DEF SingleUseInv, OnePlace, InHand, Holding
    <3>5. LinkSingleUse => SingleWinner'
      BY <2>1 DEF SingleUseInv, SingleWinner
    <3> QED BY <1>1, <3>3, <3>4, <3>5 DEF SingleUseInv
  <2> QED BY <2>2, <2>3
<1>8. ASSUME NEW r \in Requests,
             \/ RedeemExpiry(r)
             \/ AssertMember(r)
             \/ Respond(r)
             \/ \E tok \in issued : RefreshStart(r, tok)
      PROVE SingleUseInv'
  <2>1. /\ kv' = kv /\ logins' = logins /\ drawn' = drawn
        /\ \A s \in Requests \ {r} : req'[s] = req[s]
    BY <1>2, <1>8 DEF RedeemExpiry, AssertMember, Respond, RefreshStart
  <2>2. InHand(req'[r]) => InHand(req[r]) /\ req'[r].nonce = req[r].nonce
    <3>1. ASSUME RedeemExpiry(r), InHand(req'[r])
          PROVE InHand(req[r]) /\ req'[r].nonce = req[r].nonce
      <4>1. req[r].op = "redeem"
        BY <1>1, <3>1 DEF RedeemExpiry, TypeInv, Steps, StepOK
      <4>2. CASE LinkExpired(req[r])
        BY <1>2, <3>1, <4>2 DEF RedeemExpiry, InHand, Holding, Idle
      <4>3. CASE ~ LinkExpired(req[r])
        BY <1>2, <3>1, <4>1, <4>3 DEF RedeemExpiry, InHand, Holding, ReqType
      <4> QED BY <4>2, <4>3
    <3>2. ASSUME AssertMember(r), InHand(req'[r])
          PROVE InHand(req[r]) /\ req'[r].nonce = req[r].nonce
      <4>1. req[r].pc = "member"
        BY <3>2 DEF AssertMember
      <4>2. CASE req'[r] = [req[r] EXCEPT !.pc = "sign"]
        BY <1>2, <3>2, <4>1, <4>2 DEF InHand, Holding, ReqType
      <4>3. CASE req'[r] = [Idle EXCEPT !.pc = "denied", !.op = req[r].op]
        BY <3>2, <4>3 DEF InHand, Holding, Idle
      <4> QED BY <1>2, <3>2, <4>2, <4>3 DEF AssertMember
    <3>3. ASSUME Respond(r) PROVE ~ InHand(req'[r])
      BY <1>2, <3>3 DEF Respond, InHand, Holding, Idle
    <3>4. ASSUME NEW tok \in issued, RefreshStart(r, tok)
          PROVE ~ InHand(req'[r])
      <4>1. CASE PastCeiling(tok)
        BY <1>2, <3>4, <4>1 DEF RefreshStart, InHand, Holding, Idle
      <4>2. CASE ~ PastCeiling(tok)
        BY <1>2, <3>4, <4>2 DEF RefreshStart, InHand, Holding, Idle
      <4> QED BY <4>1, <4>2
    <3> QED BY <1>8, <3>1, <3>2, <3>3, <3>4
  <2> QED BY <1>1, <2>1, <2>2, OnlyLoses
<1>9. ASSUME NEW r \in Requests, Mint(r) PROVE SingleUseInv'
  <2> DEFINE l0 == [nonce |-> req[r].nonce, by |-> r, group |-> req[r].group,
                    member |-> req[r].member, at |-> req[r].now]
  <2>1. /\ kv' = kv /\ drawn' = drawn
        /\ ~ InHand(req'[r])
        /\ \A s \in Requests \ {r} : req'[s] = req[s]
        /\ req[r].op = "redeem" => InHand(req[r])
    BY <1>2, <1>9 DEF Mint, InHand, Holding, ReqType
  <2>2. CASE req[r].op # "redeem"
    BY <1>1, <1>9, <2>1, <2>2, OnlyLoses DEF Mint
  <2>3. CASE req[r].op = "redeem"
    <3>1. logins' = logins \cup {l0}
      BY <1>9, <2>3 DEF Mint
    <3>2. l0.nonce = req[r].nonce
      OBVIOUS
    <3> HIDE DEF l0
    <3>3. NoncesDrawn'
      BY <2>1, <2>3, <3>1, <3>2 DEF SingleUseInv, NoncesDrawn, InHand, Holding
    <3>4. ASSUME LinkSingleUse
          PROVE /\ \A row \in kv : row.key # LinkKey(l0.nonce)
                /\ \A l \in logins : l.nonce # l0.nonce
                /\ \A s \in Requests \ {r} :
                     InHand(req[s]) => req[s].nonce # l0.nonce
      BY <2>1, <2>3, <3>2, <3>4 DEF SingleUseInv, OnePlace
    <3>5. LinkSingleUse => OnePlace'
      BY <2>1, <3>1, <3>4 DEF SingleUseInv, OnePlace, InHand, Holding
    <3>6. LinkSingleUse => SingleWinner'
      BY <3>1, <3>4 DEF SingleUseInv, SingleWinner
    <3> QED BY <1>1, <3>3, <3>5, <3>6 DEF SingleUseInv
  <2> QED BY <2>2, <2>3
<1>10. CASE Crash
  <2>1. \A r \in Requests : ~ InHand(req'[r])
    BY <1>10 DEF Crash, InHand, Holding, Idle
  <2> QED BY <1>1, <1>10, <2>1, OnlyLoses DEF Crash
<1>11. CASE Environment
  BY <1>3, <1>11 DEF Environment, Tick, Join, Leave
<1>12. CASE UNCHANGED vars
  BY <1>3, <1>12 DEF vars
<1> QED
  BY <1>4, <1>5, <1>6, <1>7, <1>8, <1>9, <1>10, <1>11, <1>12
  DEF Next, Call, Work

(* A single-use link never logs in twice: what kv.go promises of Consume   *)
(* and webauth.go of Redeem, for any number of concurrent taps.            *)
THEOREM SingleWinnerHolds == Spec => []SingleWinner
<1>1. Init => SingleUseInv
  BY InitTypeInv
  DEF Init, SingleUseInv, NoncesDrawn, OnePlace, SingleWinner, InHand,
    Holding, Idle
<1>2. SingleUseInv => SingleWinner
  BY DEF SingleUseInv, SingleWinner
<1> QED BY <1>1, <1>2, NextSingleUseInv, PTL DEF Spec

-----------------------------------------------------------------------------
(***************************************************************************)
(* The sweep.  Rows carry two ages: the expiry the record was stamped      *)
(* with, and the second SQLite wrote it.  When LinkTTL is a whole number   *)
(* of seconds the second is always the safer of the two to sweep by.       *)
(***************************************************************************)
WholeSeconds == LinkTTL % TicksPerSecond = 0

WrittenAfterStamp ==
  /\ \A row \in kv : row.value.expires <= row.updated_at + Unix(LinkTTL)
  /\ \A r \in Requests :
       req[r].pc = "store" => req[r].expires <= Unix(now) + Unix(LinkTTL)

SweepInv == TypeInv /\ WrittenAfterStamp

(* Seconds add up when one of the two is a whole number of them.           *)
LEMMA WholeSecondsAdd ==
  ASSUME WholeSeconds, NEW t \in Nat
  PROVE Unix(t + LinkTTL) = Unix(t) + Unix(LinkTTL)
<1> DEFINE k == LinkTTL \div TicksPerSecond
           q == t \div TicksPerSecond
<1>1. k \in Nat /\ LinkTTL = TicksPerSecond * k
  BY TimesAssumption DEF WholeSeconds
<1>2. /\ q \in Nat
      /\ TicksPerSecond * q <= t /\ t < TicksPerSecond * q + TicksPerSecond
  BY TimesAssumption
<1>3. /\ TicksPerSecond * (q + k) <= t + LinkTTL
      /\ t + LinkTTL < TicksPerSecond * (q + k) + TicksPerSecond
  <2> HIDE DEF k, q
  <2>1. TicksPerSecond * (q + k) = TicksPerSecond * q + TicksPerSecond * k
    BY <1>1, <1>2, TimesAssumption
  <2> QED BY <1>1, <1>2, <2>1, TimesAssumption
<1>4. (t + LinkTTL) \div TicksPerSecond = q + k
  <2> HIDE DEF k, q
  <2> QED BY <1>1, <1>2, <1>3, TimesAssumption
<1> QED BY <1>4 DEF Unix

LEMMA NextSweepInv ==
  ASSUME WholeSeconds PROVE SweepInv /\ [Next]_vars => SweepInv'
<1> SUFFICES ASSUME SweepInv, [Next]_vars PROVE SweepInv'
  OBVIOUS
<1>1. TypeInv /\ TypeInv'
  BY NextTypeInv DEF SweepInv
<1>2. /\ now \in Nat /\ now' \in Nat /\ Unix(LinkTTL) \in Nat
      /\ Unix(now) \in Nat /\ Unix(now') \in Nat
      /\ Unix(now) <= Unix(now')
  <2>1. now \in Nat /\ now' \in Nat
    BY <1>1 DEF TypeInv, TypeOK
  <2>2. now' = now \/ now' = now + 1
    BY DEF Next, Environment, Call, Work, Tick, Join, Leave, MintSweep,
      MintStamp, MintStore, RedeemLookup, RedeemExpiry, RefreshStart,
      AssertMember, Mint, Respond, Crash, vars
  <2> QED BY <2>1, <2>2, UnixNat, UnixMono, TimesAssumption
<1>3. \A row \in kv' : row.value.expires <= row.updated_at + Unix(LinkTTL)
  <2>1. CASE kv' \subseteq kv
    BY <2>1 DEF SweepInv, WrittenAfterStamp
  <2>2. ASSUME NEW r \in Requests, MintStore(r), NEW row \in kv'
        PROVE row.value.expires <= row.updated_at + Unix(LinkTTL)
    <3>1. CASE row \in kv
      BY <3>1 DEF SweepInv, WrittenAfterStamp
    <3>2. CASE row.value.expires = req[r].expires /\ row.updated_at = Unix(now)
      BY <2>2, <3>2 DEF MintStore, SweepInv, WrittenAfterStamp
    <3> QED BY <2>2, <3>1, <3>2, SetRows DEF MintStore, LinkRecord
  <2>3. kv' \subseteq kv \/ \E r \in Requests : MintStore(r)
    <3>1. ASSUME NEW r \in Requests, NEW g \in Groups, NEW m \in Members,
                 MintSweep(r, g, m)
          PROVE kv' \subseteq kv
      BY <3>1, SweepRows DEF MintSweep
    <3>2. ASSUME NEW r \in Requests, NEW n \in Nonces, RedeemLookup(r, n)
          PROVE kv' \subseteq kv
      BY <3>2, ConsumeRows DEF RedeemLookup
    <3> QED
      BY <3>1, <3>2
      DEF Next, Environment, Call, Work, Tick, Join, Leave, MintStamp,
        RedeemExpiry, RefreshStart, AssertMember, Mint, Respond, Crash, vars
  <2> QED BY <2>1, <2>2, <2>3
<1>4. ASSUME NEW r \in Requests, req'[r].pc = "store"
      PROVE req'[r].expires <= Unix(now') + Unix(LinkTTL)
  <2>1. req[r] \in ReqType /\ req \in [Requests -> ReqType]
    BY <1>1 DEF TypeInv, TypeOK
  <2>2. CASE req'[r] = req[r]
    <3>1. req[r].expires <= Unix(now) + Unix(LinkTTL) /\ req[r].expires \in Nat
      BY <1>1, <1>4, <2>2
      DEF SweepInv, WrittenAfterStamp, TypeInv, Steps, StepOK
    <3> QED BY <1>2, <2>2, <3>1
  <2>3. ASSUME NEW n \in Nonces, MintStamp(r, n)
        PROVE req'[r].expires <= Unix(now') + Unix(LinkTTL)
    <3>1. req'[r].expires = Unix(now + LinkTTL) /\ now' = now
      BY <2>1, <2>3 DEF MintStamp, ReqType
    <3> QED BY <1>2, <3>1, WholeSecondsAdd
  <2>4. req'[r] = req[r] \/ \E n \in Nonces : MintStamp(r, n)
    <3>1. req'[r] # Idle
      BY <1>4 DEF Idle
    <3>2. ~ Call(r)
      BY <1>4, <2>1 DEF Call, MintSweep, RedeemLookup, RefreshStart, Idle
    <3>3. ~ MintStore(r) /\ ~ Mint(r) /\ ~ AssertMember(r)
      BY <1>4, <2>1 DEF MintStore, Mint, AssertMember, ReqType, Idle
    <3>4. ~ RedeemExpiry(r)
      <4>1. CASE LinkExpired(req[r])
        BY <1>4, <2>1, <4>1 DEF RedeemExpiry, Idle
      <4>2. CASE ~ LinkExpired(req[r])
        BY <1>4, <2>1, <4>2 DEF RedeemExpiry, ReqType
      <4> QED BY <4>1, <4>2
    <3> QED BY <1>1, <3>1, <3>2, <3>3, <3>4, RequestStep DEF Work
  <2> QED BY <2>2, <2>3, <2>4
<1> QED BY <1>1, <1>3, <1>4 DEF SweepInv, WrittenAfterStamp, Unix

(* When LinkTTL is a whole number of seconds, the sweep that MintLink runs *)
(* deletes no link that could still be redeemed.                           *)
THEOREM SweepSparesLiveHolds ==
  ASSUME WholeSeconds PROVE Spec => SweepSparesLive
<1>1. Init => SweepInv
  BY InitTypeInv DEF Init, SweepInv, WrittenAfterStamp, Idle
<1>2. ASSUME SweepInv, [Next]_vars
      PROVE [ (\E r \in Requests : req[r].pc = "idle" /\ req'[r].pc = "stamp")
                => \A row \in kv \ kv' : Unix(now) > row.value.expires ]_vars
  <2> SUFFICES ASSUME NEW r \in Requests,
                      req[r].pc = "idle", req'[r].pc = "stamp",
                      NEW row \in kv \ kv'
               PROVE Unix(now) > row.value.expires
    OBVIOUS
  <2>1. row \in RowType /\ now \in Nat /\ req \in [Requests -> ReqType]
    BY <1>2 DEF SweepInv, TypeInv, TypeOK
  <2>2. CASE kv' = DeleteExpired(kv, "webauth:nonce", Unix(LinkTTL), Unix(now))
    <3>1. row.updated_at < Unix(now) - Unix(LinkTTL)
      BY <2>1, <2>2 DEF DeleteExpired
    <3>2. row.value.expires <= row.updated_at + Unix(LinkTTL)
      BY <1>2 DEF SweepInv, WrittenAfterStamp
    <3>3. /\ row.updated_at \in Nat /\ row.value.expires \in Nat
          /\ Unix(now) \in Nat /\ Unix(LinkTTL) \in Nat
      BY <2>1, UnixNat, TimesAssumption DEF RowType
    <3> QED BY <3>1, <3>2, <3>3
  <2>3. \/ kv' = kv
        \/ \E s \in Requests, g \in Groups, m \in Members : MintSweep(s, g, m)
    <3>1. ~ Call(r) => UNCHANGED kv
      <4>1. Idle # req'[r] /\ req'[r] # req[r]
        BY DEF Idle
      <4>2. ~ Work(r)
        BY <2>1
        DEF Work, MintStamp, MintStore, RedeemExpiry, AssertMember, Mint
      <4> QED BY <1>2, <4>1, <4>2, RequestStep DEF SweepInv
    <3>2. ASSUME NEW n \in Nonces PROVE ~ RedeemLookup(r, n)
      BY <2>1 DEF RedeemLookup, Idle
    <3>3. ASSUME NEW tok \in issued PROVE ~ RefreshStart(r, tok)
      BY <2>1 DEF RefreshStart, Idle
    <3> QED BY <3>1, <3>2, <3>3 DEF Call
  <2> QED BY <2>2, <2>3 DEF MintSweep
<1> QED BY <1>1, <1>2, NextSweepInv, PTL DEF Spec, SweepSparesLive

-----------------------------------------------------------------------------
(***************************************************************************)
(* WebAuth implements MagicLink: every step of its requests, crashes and   *)
(* failures is a step of the promise, or none of it.                       *)
(***************************************************************************)
RowOffer(row) ==
  [nonce |-> row.key[2], group |-> row.value.group,
   member |-> row.value.member, expires |-> row.value.expires]

HeldOffer(q) ==
  [nonce |-> q.nonce, group |-> q.group, member |-> q.member,
   expires |-> q.expires]

-----------------------------------------------------------------------------
(***************************************************************************)
(* The inductive invariant.  A nonce is on offer on one set of terms only, *)
(* and not before it is stored; a redeem past the expiry check was in      *)
(* time; a refresh carries the ceiling of a token that was below it.       *)
(***************************************************************************)
OneOffer == \A o1, o2 \in Offers : o1.nonce = o2.nonce => o1 = o2

StoresFresh ==
  \A r \in Requests : req[r].pc = "store" =>
    /\ \A o \in Offers : o.nonce # req[r].nonce
    /\ \A s \in Requests \ {r} :
         req[s].pc = "store" => req[s].nonce # req[r].nonce

StoresDated ==
  \A r \in Requests : req[r].pc = "store" =>
    \E t \in 0..now : req[r].expires = Unix(t + LinkTTL)

Dated(q) ==
  q.pc \in {"member", "sign"} =>
    /\ q.op = "redeem" => Unix(q.now) <= q.expires
    /\ q.op = "refresh" =>
         \E tok \in issued :
           /\ tok.group = q.group
           /\ tok.member = q.member
           /\ tok.absolute = q.absolute
           /\ Unix(q.now) < tok.absolute

RequestsDated == \A r \in Requests : Dated(req[r])

OfferInv == OneOffer /\ StoresFresh /\ StoresDated /\ RequestsDated

-----------------------------------------------------------------------------
(* Where the offers are.                                                   *)
LEMMA OfferCases ==
  ASSUME NEW o
  PROVE  o \in Offers <=>
           \/ \E row \in kv : o = RowOffer(row)
           \/ \E r \in Requests : Holding(req[r]) /\ o = HeldOffer(req[r])
BY DEF Offers, RowOffer, HeldOffer

LEMMA OfferCasesAfter ==
  ASSUME NEW o
  PROVE  o \in Offers' <=>
           \/ \E row \in kv' : o = RowOffer(row)
           \/ \E r \in Requests : Holding(req'[r]) /\ o = HeldOffer(req'[r])
BY DEF Offers, RowOffer, HeldOffer, Holding

(* An offer's nonce has been drawn.                                        *)
LEMMA OffersDrawn ==
  ASSUME SingleUseInv, NEW o \in Offers
  PROVE  o.nonce \in drawn
<1>1. CASE \E row \in kv : o = RowOffer(row)
  BY <1>1 DEF RowOffer, SingleUseInv, NoncesDrawn, LinkKey
<1>2. CASE \E r \in Requests : Holding(req[r]) /\ o = HeldOffer(req[r])
  BY <1>2 DEF HeldOffer, SingleUseInv, NoncesDrawn, InHand
<1> QED
  BY <1>1, <1>2, OfferCases

(* What is about to be stored.                                             *)
LEMMA UnstoredCases ==
  ASSUME NEW n
  PROVE  /\ n \in Unstored <=>
              \E r \in Requests : req[r].pc = "store" /\ n = req[r].nonce
         /\ n \in Unstored' <=>
              \E r \in Requests : req'[r].pc = "store" /\ n = req'[r].nonce
BY DEF Unstored

LEMMA UnstoredDrawn ==
  ASSUME SingleUseInv
  PROVE  Unstored \subseteq drawn
BY DEF Unstored, SingleUseInv, NoncesDrawn, InHand

-----------------------------------------------------------------------------
(***************************************************************************)
(* What the steps do to the offers: they lose some, keep them all while a  *)
(* nonce is drawn, or add the one that is stored.                          *)
(***************************************************************************)
Loses ==
  /\ Offers' \subseteq Offers
  /\ Unstored' \subseteq Unstored
  /\ \A r \in Requests : req'[r].pc = "store" => req'[r] = req[r]
  /\ drawn' = drawn

Stamps(r, n) ==
  /\ n \notin drawn
  /\ Offers' = Offers
  /\ req[r].pc # "store"
  /\ req'[r].pc = "store" /\ req'[r].nonce = n
  /\ req'[r].expires = Unix(now + LinkTTL)
  /\ \A s \in Requests \ {r} : req'[s] = req[s]
  /\ drawn' = drawn \cup {n}

Stores(r) ==
  /\ req[r].pc = "store"
  /\ Offers' = Offers \cup {HeldOffer(req[r])}
  /\ req'[r].pc # "store"
  /\ \A s \in Requests \ {r} : req'[s] = req[s]
  /\ drawn' = drawn

(* Losing is what a step does that writes no row, moves no offer but to a  *)
(* request, and stamps nothing.                                            *)
LEMMA LosingStep ==
  ASSUME kv' \subseteq kv, drawn' = drawn,
         \A r \in Requests : Holding(req'[r]) => HeldOffer(req'[r]) \in Offers,
         \A r \in Requests : req'[r].pc = "store" => req'[r] = req[r]
  PROVE  Loses
<1>1. Offers' \subseteq Offers
  BY OfferCases, OfferCasesAfter
<1>2. Unstored' \subseteq Unstored
  BY UnstoredCases
<1> QED
  BY <1>1, <1>2 DEF Loses

(* One request moves on.                                                   *)
LEMMA LosingOne ==
  ASSUME TypeInv, NEW r \in Requests, NEW q, req' = [req EXCEPT ![r] = q],
         kv' \subseteq kv, drawn' = drawn, q.pc # "store",
         Holding(q) => HeldOffer(q) \in Offers
  PROVE  Loses
<1>1. \A s \in Requests : req'[s] = IF s = r THEN q ELSE req[s]
  BY DEF TypeInv, TypeOK
<1>2. ASSUME NEW s \in Requests, Holding(req'[s])
      PROVE  HeldOffer(req'[s]) \in Offers
  <2>1. CASE s = r
    BY <1>1, <1>2, <2>1
  <2>2. CASE s # r
    BY <1>1, <1>2, <2>2, OfferCases
  <2> QED
    BY <2>1, <2>2
<1> QED
  BY <1>1, <1>2, LosingStep

LEMMA SweepLoses ==
  ASSUME TypeInv, NEW r \in Requests, NEW g \in Groups, NEW m \in Members,
         MintSweep(r, g, m)
  PROVE  Loses
<1> DEFINE q == [Idle EXCEPT !.pc = "stamp", !.op = "mint",
                             !.group = g, !.member = m]
<1>1. q.pc # "store" /\ ~ Holding(q)
  BY DEF Idle, Holding
<1>2. /\ req' = [req EXCEPT ![r] = q]
      /\ kv' \subseteq kv /\ drawn' = drawn
  BY SweepRows DEF MintSweep
<1> HIDE DEF q
<1> QED
  BY <1>1, <1>2, LosingOne

LEMMA StampStamps ==
  ASSUME TypeInv, NEW r \in Requests, NEW n \in Nonces, MintStamp(r, n)
  PROVE  Stamps(r, n)
<1> DEFINE q == [req[r] EXCEPT !.pc = "store", !.nonce = n,
                               !.expires = Unix(now + LinkTTL)]
<1>1. req' = [req EXCEPT ![r] = q] /\ req[r].pc = "stamp"
  BY DEF MintStamp, TypeInv, TypeOK
<1>2. q.pc = "store" /\ q.nonce = n /\ q.expires = Unix(now + LinkTTL)
  BY DEF TypeInv, TypeOK, ReqType
<1> HIDE DEF q
<1>3. \A s \in Requests : req'[s] = IF s = r THEN q ELSE req[s]
  BY <1>1 DEF TypeInv, TypeOK
<1>4. /\ kv' = kv /\ n \notin drawn /\ drawn' = drawn \cup {n}
  BY DEF MintStamp
<1>5. ASSUME NEW s \in Requests
      PROVE  /\ Holding(req'[s]) <=> Holding(req[s])
             /\ Holding(req[s]) => req'[s] = req[s]
  BY <1>1, <1>2, <1>3 DEF Holding
<1>6. Offers' \subseteq Offers /\ Offers \subseteq Offers'
  BY <1>4, <1>5, OfferCases, OfferCasesAfter
<1> QED
  BY <1>1, <1>2, <1>3, <1>4, <1>6 DEF Stamps

LEMMA StoreKinds ==
  ASSUME TypeInv, StoresFresh, NEW r \in Requests, MintStore(r)
  PROVE  Loses \/ Stores(r)
<1> DEFINE key == LinkKey(req[r].nonce)
           record == LinkRecord(req[r].group, req[r].member, req[r].expires)
           row == [key |-> key, value |-> record, updated_at |-> Unix(now)]
<1>1. PICK pc \in {"granted", "denied"} :
        req' = [req EXCEPT ![r] = [req[r] EXCEPT !.pc = pc]]
  BY DEF MintStore, TypeInv, TypeOK
<1> DEFINE q == [req[r] EXCEPT !.pc = pc]
<1>2. q.pc = pc
  BY DEF TypeInv, TypeOK, ReqType
<1>3. q.pc # "store" /\ ~ Holding(q) /\ req' = [req EXCEPT ![r] = q]
  BY <1>1, <1>2 DEF Holding
<1>4. /\ req[r].pc = "store" /\ drawn' = drawn
      /\ kv' = kv \/ kv' = Set(kv, key, record, Unix(now))
  BY DEF MintStore
<1> HIDE DEF q
<1>5. CASE kv' = kv
  BY <1>3, <1>4, <1>5, LosingOne
<1>6. CASE kv' = Set(kv, key, record, Unix(now))
  <2>1. \A s \in Requests : req'[s] = IF s = r THEN q ELSE req[s]
    BY <1>3 DEF TypeInv, TypeOK
  <2>2. RowOffer(row) = HeldOffer(req[r])
    BY DEF RowOffer, HeldOffer, LinkRecord, LinkKey
  <2>3. \A other \in kv : other.key # key
    <3> SUFFICES ASSUME NEW other \in kv, other.key = key PROVE FALSE
      OBVIOUS
    <3>1. RowOffer(other) \in Offers
      BY OfferCases
    <3>2. RowOffer(other).nonce = req[r].nonce
      BY DEF RowOffer, LinkKey
    <3> QED
      BY <1>4, <3>1, <3>2 DEF StoresFresh
  <2> HIDE DEF key, record
  <2>4. \A other : other \in kv' <=> other \in kv \/ other = row
    BY <1>6, <2>3, SetRows
  <2> HIDE DEF row
  <2>5. ASSUME NEW s \in Requests
        PROVE  /\ Holding(req'[s]) <=> Holding(req[s])
               /\ Holding(req[s]) => req'[s] = req[s]
    BY <1>3, <1>4, <2>1 DEF Holding
  <2>6. ASSUME NEW o
        PROVE  o \in Offers' <=> o \in Offers \/ o = HeldOffer(req[r])
    BY <2>2, <2>4, <2>5, OfferCases, OfferCasesAfter
  <2>7. Offers' = Offers \cup {HeldOffer(req[r])}
    BY <2>6
  <2> QED
    BY <1>3, <1>4, <2>1, <2>7 DEF Stores
<1> QED
  BY <1>4, <1>5, <1>6

LEMMA LookupLoses ==
  ASSUME TypeInv, NEW r \in Requests, NEW n \in Nonces, RedeemLookup(r, n)
  PROVE  Loses
<1> DEFINE key == LinkKey(n)
           rec == Get(kv, key)
           refused == [Idle EXCEPT !.pc = "denied", !.op = "redeem"]
           found == [Idle EXCEPT !.pc = "expiry", !.op = "redeem",
                       !.nonce = n, !.group = rec.group,
                       !.member = rec.member, !.expires = rec.expires]
<1>1. kv' \subseteq kv /\ drawn' = drawn
  BY ConsumeRows DEF RedeemLookup
<1>2. \/ Has(kv, key) /\ req' = [req EXCEPT ![r] = found]
      \/ req' = [req EXCEPT ![r] = refused]
  BY DEF RedeemLookup
<1>3. refused.pc # "store" /\ ~ Holding(refused)
  BY DEF Idle, Holding
<1>4. ASSUME Has(kv, key)
      PROVE  found.pc # "store" /\ HeldOffer(found) \in Offers
  <2>1. PICK row \in kv : row.key = key /\ rec = row.value
    BY <1>4, GetRow
  <2> HIDE DEF rec
  <2>2. HeldOffer(found) = RowOffer(row)
    BY <2>1 DEF HeldOffer, RowOffer, Idle, LinkKey
  <2>3. found.pc # "store"
    BY DEF Idle
  <2> HIDE DEF found
  <2> QED
    BY <2>2, <2>3, OfferCases
<1> HIDE DEF found, refused
<1> QED
  BY <1>1, <1>2, <1>3, <1>4, LosingOne

LEMMA ExpiryLoses ==
  ASSUME TypeInv, NEW r \in Requests, RedeemExpiry(r)
  PROVE  Loses
<1> DEFINE refused == [Idle EXCEPT !.pc = "denied", !.op = "redeem"]
           dated == [req[r] EXCEPT !.pc = "member", !.now = now,
                       !.absolute = LoginCeiling]
<1>1. kv' = kv /\ drawn' = drawn
  BY DEF RedeemExpiry
<1>2. \/ req' = [req EXCEPT ![r] = refused]
      \/ req' = [req EXCEPT ![r] = dated]
  BY DEF RedeemExpiry, TypeInv, TypeOK
<1>3. refused.pc # "store" /\ ~ Holding(refused)
  BY DEF Idle, Holding
<1>4. dated.pc # "store" /\ HeldOffer(dated) = HeldOffer(req[r])
  BY DEF TypeInv, TypeOK, ReqType, HeldOffer
<1>5. Holding(req[r])
  BY DEF RedeemExpiry, Holding, TypeInv, Steps, StepOK
<1>6. HeldOffer(req[r]) \in Offers
  BY <1>5, OfferCases
<1> HIDE DEF refused, dated
<1> QED
  BY <1>1, <1>2, <1>3, <1>4, <1>6, LosingOne

LEMMA RefreshLoses ==
  ASSUME TypeInv, NEW r \in Requests, NEW tok \in issued, RefreshStart(r, tok)
  PROVE  Loses
<1> DEFINE refused == [Idle EXCEPT !.pc = "denied", !.op = "refresh"]
           dated == [Idle EXCEPT !.pc = "member", !.op = "refresh",
                       !.group = tok.group, !.member = tok.member,
                       !.now = now, !.absolute = RefreshCeiling(tok)]
<1>1. kv' = kv /\ drawn' = drawn
  BY DEF RefreshStart
<1>2. \/ req' = [req EXCEPT ![r] = refused]
      \/ req' = [req EXCEPT ![r] = dated]
  BY DEF RefreshStart
<1>3. /\ refused.pc # "store" /\ ~ Holding(refused)
      /\ dated.pc # "store" /\ ~ Holding(dated)
  BY DEF Idle, Holding
<1> HIDE DEF refused, dated
<1> QED
  BY <1>1, <1>2, <1>3, LosingOne

LEMMA AssertLoses ==
  ASSUME TypeInv, NEW r \in Requests, AssertMember(r)
  PROVE  Loses
<1> DEFINE refused == [Idle EXCEPT !.pc = "denied", !.op = req[r].op]
           vouched == [req[r] EXCEPT !.pc = "sign"]
<1>1. kv' = kv /\ drawn' = drawn /\ req[r].pc = "member"
  BY DEF AssertMember
<1>2. \/ req' = [req EXCEPT ![r] = refused]
      \/ req' = [req EXCEPT ![r] = vouched]
  BY DEF AssertMember, TypeInv, TypeOK
<1>3. refused.pc # "store" /\ ~ Holding(refused)
  BY DEF Idle, Holding
<1>4. /\ vouched.pc # "store" /\ HeldOffer(vouched) = HeldOffer(req[r])
      /\ vouched.op = req[r].op
  BY DEF TypeInv, TypeOK, ReqType, HeldOffer
<1> HIDE DEF refused, vouched
<1>5. Holding(vouched) => HeldOffer(vouched) \in Offers
  BY <1>1, <1>4, OfferCases DEF Holding
<1> QED
  BY <1>1, <1>2, <1>3, <1>4, <1>5, LosingOne

LEMMA MintLoses ==
  ASSUME TypeInv, NEW r \in Requests, Mint(r)
  PROVE  Loses
<1> DEFINE done == [req[r] EXCEPT !.pc = "granted"]
<1>1. kv' = kv /\ drawn' = drawn /\ req' = [req EXCEPT ![r] = done]
  BY DEF Mint, TypeInv, TypeOK
<1>2. done.pc # "store" /\ ~ Holding(done)
  BY DEF TypeInv, TypeOK, ReqType, Holding
<1> HIDE DEF done
<1> QED
  BY <1>1, <1>2, LosingOne

LEMMA AnswerLoses ==
  ASSUME TypeInv, (\E r \in Requests : Respond(r)) \/ Crash
  PROVE  Loses
<1>1. kv' = kv /\ drawn' = drawn
  BY DEF Respond, Crash
<1>2. ASSUME NEW s \in Requests
      PROVE  req'[s] = Idle \/ req'[s] = req[s]
  BY DEF Respond, Crash, TypeInv, TypeOK
<1>3. Idle.pc # "store" /\ ~ Holding(Idle)
  BY DEF Idle, Holding
<1>4. ASSUME NEW s \in Requests, Holding(req'[s])
      PROVE  HeldOffer(req'[s]) \in Offers
  BY <1>2, <1>3, <1>4, OfferCases
<1> QED
  BY <1>1, <1>2, <1>3, <1>4, LosingStep

LEMMA StepKinds ==
  ASSUME TypeInv, StoresFresh, [Next]_vars
  PROVE  \/ Loses
         \/ \E r \in Requests, n \in Nonces : Stamps(r, n)
         \/ \E r \in Requests : Stores(r)
<1>1. CASE UNCHANGED <<kv, drawn, req>>
  BY <1>1, LosingStep, OfferCases
<1>2. Environment \/ UNCHANGED vars => UNCHANGED <<kv, drawn, req>>
  BY DEF Environment, Tick, Join, Leave, vars
<1> QED
  BY <1>1, <1>2, SweepLoses, StampStamps, StoreKinds, LookupLoses,
     ExpiryLoses, RefreshLoses, AssertLoses, MintLoses, AnswerLoses
  DEF Next, Call, Work

LEMMA NowGrows ==
  ASSUME TypeInv, [Next]_vars
  PROVE  now \in Nat /\ now' \in Nat /\ now <= now'
<1>1. now' = now \/ now' = now + 1
  BY DEF Next, Environment, Call, Work, Tick, Join, Leave, MintSweep,
     MintStamp, MintStore, RedeemLookup, RedeemExpiry, RefreshStart,
     AssertMember, Mint, Respond, Crash, vars
<1> QED
  BY <1>1 DEF TypeInv, TypeOK

-----------------------------------------------------------------------------
(* The invariant is kept.                                                  *)
LEMMA NextOfferInv ==
  ASSUME SingleUseInv, OfferInv, [Next]_vars
  PROVE  OfferInv'
<1>1. TypeInv /\ TypeInv'
  BY NextTypeInv DEF SingleUseInv
<1>2. \/ Loses
      \/ \E r \in Requests, n \in Nonces : Stamps(r, n)
      \/ \E r \in Requests : Stores(r)
  BY <1>1, StepKinds DEF OfferInv
<1>3. ASSUME NEW r
      PROVE  HeldOffer(req[r]).nonce = req[r].nonce
  BY DEF HeldOffer
<1>4. OneOffer'
  <2>1. ASSUME NEW r \in Requests, Stores(r)
        PROVE  OneOffer'
    <3>1. \A o \in Offers : o.nonce # HeldOffer(req[r]).nonce
      BY <1>3, <2>1 DEF Stores, OfferInv, StoresFresh
    <3> QED
      BY <2>1, <3>1 DEF Stores, OneOffer, OfferInv
  <2>2. Loses => OneOffer'
    BY DEF Loses, OneOffer, OfferInv
  <2>3. ASSUME NEW r \in Requests, NEW n \in Nonces, Stamps(r, n)
        PROVE  OneOffer'
    BY <2>3 DEF Stamps, OneOffer, OfferInv
  <2> QED
    BY <1>2, <2>1, <2>2, <2>3
<1>5. StoresFresh'
  <2>1. CASE Loses
    BY <2>1 DEF Loses, StoresFresh, OfferInv
  <2>2. ASSUME NEW r \in Requests, NEW n \in Nonces, Stamps(r, n)
        PROVE  StoresFresh'
    <3>1. \A o \in Offers' : o.nonce # n
      BY <2>2, OffersDrawn DEF Stamps
    <3>2. \A s \in Requests \ {r} : req[s].pc = "store" => req[s].nonce # n
      BY <2>2 DEF Stamps, SingleUseInv, NoncesDrawn, InHand
    <3> QED
      BY <2>2, <3>1, <3>2 DEF Stamps, StoresFresh, OfferInv
  <2>3. ASSUME NEW r \in Requests, Stores(r)
        PROVE  StoresFresh'
    <3>1. \A s \in Requests \ {r} :
            req[s].pc = "store" => req[s].nonce # HeldOffer(req[r]).nonce
      BY <1>3, <2>3 DEF Stores, StoresFresh, OfferInv
    <3> QED
      BY <2>3, <3>1 DEF Stores, StoresFresh, OfferInv
  <2> QED
    BY <1>2, <2>1, <2>2, <2>3
<1>6. StoresDated'
  <2> SUFFICES ASSUME NEW r \in Requests, req'[r].pc = "store"
               PROVE  \E t \in 0..now' : req'[r].expires = Unix(t + LinkTTL)
    BY DEF StoresDated, Unix
  <2>1. now \in Nat /\ now' \in Nat /\ now <= now'
    BY <1>1, NowGrows
  <2>2. CASE req'[r] = req[r]
    BY <2>1, <2>2 DEF StoresDated, OfferInv
  <2>3. ASSUME NEW n \in Nonces, Stamps(r, n)
        PROVE  \E t \in 0..now' : req'[r].expires = Unix(t + LinkTTL)
    BY <2>1, <2>3 DEF Stamps
  <2>4. req'[r] = req[r] \/ \E n \in Nonces : Stamps(r, n)
    BY <1>2 DEF Loses, Stamps, Stores
  <2> QED
    BY <2>2, <2>3, <2>4
<1>7. RequestsDated'
  <2> SUFFICES ASSUME NEW r \in Requests, req'[r].pc \in {"member", "sign"}
               PROVE  Dated(req[r])'
    BY DEF RequestsDated, Dated
  <2>1. issued \subseteq issued'
    BY OnlyMintIssues DEF Mint
  <2>2. Dated(req[r]) /\ req[r] \in ReqType
    BY <1>1 DEF OfferInv, RequestsDated, TypeInv, TypeOK
  <2>3. CASE req'[r] = req[r]
    BY <2>1, <2>2, <2>3 DEF Dated, Unix
  <2>4. CASE /\ req[r].pc = "expiry" /\ ~ LinkExpired(req[r])
             /\ req'[r] = [req[r] EXCEPT !.pc = "member", !.now = now,
                             !.absolute = Unix(now + SessionTTL)]
    <3>1. req[r].op = "redeem" /\ req[r].expires \in Nat
      BY <1>1, <2>4 DEF TypeInv, Steps, StepOK, Holding
    <3>2. /\ req'[r].op = "redeem" /\ req'[r].now = now
          /\ req'[r].expires = req[r].expires
      BY <2>2, <2>4, <3>1 DEF ReqType
    <3>3. Unix(now) <= req[r].expires
      <4>1. Unix(now) \in Nat
        BY <1>1, UnixNat DEF TypeInv, TypeOK
      <4> QED
        BY <2>4, <3>1, <4>1 DEF LinkExpired
    <3> QED
      BY <3>2, <3>3 DEF Dated, Unix
  <2>5. ASSUME NEW tok \in issued, ~ PastCeiling(tok),
               req'[r] = [Idle EXCEPT !.pc = "member", !.op = "refresh",
                           !.group = tok.group, !.member = tok.member,
                           !.now = now, !.absolute = tok.absolute]
        PROVE  Dated(req[r])'
    <3>1. /\ req'[r].op = "refresh" /\ req'[r].group = tok.group
          /\ req'[r].member = tok.member /\ req'[r].absolute = tok.absolute
          /\ req'[r].now = now
      BY <2>5 DEF Idle
    <3>2. Unix(now) < tok.absolute
      <4>1. Unix(now) \in Nat /\ tok.absolute \in Nat
        BY <1>1, UnixNat DEF TypeInv, TypeOK, TokenType
      <4> QED
        BY <2>5, <4>1 DEF PastCeiling
    <3> QED
      BY <2>1, <2>5, <3>1, <3>2 DEF Dated, Unix
  <2>6. CASE /\ req[r].pc = "member"
             /\ req'[r] = [req[r] EXCEPT !.pc = "sign"]
    <3>1. /\ req'[r].op = req[r].op /\ req'[r].now = req[r].now
          /\ req'[r].group = req[r].group /\ req'[r].member = req[r].member
          /\ req'[r].absolute = req[r].absolute
          /\ req'[r].expires = req[r].expires
      BY <2>2, <2>6 DEF ReqType
    <3> QED
      BY <2>1, <2>2, <2>6, <3>1 DEF Dated, Unix
  <2> QED
    BY <1>1, <2>3, <2>4, <2>5, <2>6, DatedStep
<1> QED
  BY <1>4, <1>5, <1>6, <1>7 DEF OfferInv

-----------------------------------------------------------------------------
(***************************************************************************)
(* The refinement.  What loses offers withdraws their nonces; drawing a    *)
(* nonce is no step of the promise; a store is an offer; a signature is a  *)
(* login or a renewal.                                                     *)
(***************************************************************************)
PromiseInv == SingleUseInv /\ RevocationInv /\ CeilingInv /\ OfferInv

LEMMA WithdrawnCases ==
  ASSUME NEW n
  PROVE  /\ n \in Withdrawn <=>
              /\ n \in drawn
              /\ \A o \in Offers : o.nonce # n
              /\ n \notin Unstored
         /\ n \in Withdrawn' <=>
              /\ n \in drawn'
              /\ \A o \in Offers' : o.nonce # n
              /\ n \notin Unstored'
BY DEF Withdrawn

LEMMA FreshUnstored ==
  ASSUME StoresFresh, NEW o \in Offers
  PROVE  o.nonce \notin Unstored
BY DEF StoresFresh, Unstored

LEMMA InitPromise == Init => Promise!Init
<1> SUFFICES ASSUME Init PROVE Promise!Init
  OBVIOUS
<1>1. \A r \in Requests : req[r] = Idle
  BY DEF Init
<1>2. Idle.pc = "idle"
  BY DEF Idle
<1>3. Offers = {}
  BY <1>1, <1>2, OfferCases DEF Init, Holding
<1>4. Withdrawn = {}
  BY WithdrawnCases DEF Init
<1> QED
  BY <1>3, <1>4 DEF Init, Promise!Init, Pairs

LEMMA LosesWithdraws ==
  ASSUME SingleUseInv, OfferInv, Loses, UNCHANGED <<now, roster, left, issued>>
  PROVE  Promise!Next
<1> DEFINE ns == Withdrawn'
<1>1. ns \in SUBSET Nonces
  BY WithdrawnCases DEF Loses, SingleUseInv, TypeInv, TypeOK
<1>2. Withdrawn' = Withdrawn \cup ns
  BY WithdrawnCases DEF Loses
<1>3. ASSUME NEW o
      PROVE  o \in Offers' <=> o \in Offers /\ o.nonce \notin ns
  <2>1. ASSUME o \in Offers'
        PROVE  o \in Offers /\ o.nonce \notin ns
    BY <2>1, WithdrawnCases DEF Loses
  <2>2. ASSUME o \in Offers, o \notin Offers'
        PROVE  o.nonce \in ns
    <3>1. o.nonce \in drawn' /\ o.nonce \notin Unstored'
      BY <2>2, OffersDrawn, FreshUnstored DEF Loses, OfferInv
    <3>2. \A other \in Offers' : other.nonce # o.nonce
      BY <2>2 DEF Loses, OfferInv, OneOffer
    <3> QED
      BY <3>1, <3>2, WithdrawnCases
  <2> QED
    BY <2>1, <2>2
<1>4. Offers' = {o \in Offers : o.nonce \notin ns}
  BY <1>3
<1>5. Promise!Withdraw(ns)
  BY <1>2, <1>4 DEF Promise!Withdraw
<1> HIDE DEF ns
<1> QED
  BY <1>1, <1>5 DEF Promise!Next

LEMMA StampStutters ==
  ASSUME TypeInv, NEW r \in Requests, NEW n \in Nonces, Stamps(r, n),
         SingleUseInv, UNCHANGED <<now, roster, left, issued>>
  PROVE  UNCHANGED Promise!vars
<1>1. ASSUME NEW k
      PROVE  k \in Unstored' <=> k \in Unstored \/ k = n
  BY UnstoredCases DEF Stamps
<1>2. \A k : k \in Withdrawn' <=> k \in Withdrawn
  BY <1>1, WithdrawnCases, OffersDrawn, UnstoredDrawn DEF Stamps
<1>3. Withdrawn' = Withdrawn
  BY <1>2 DEF Withdrawn
<1> QED
  BY <1>3 DEF Stamps, Promise!vars

LEMMA StoreIsOffered ==
  ASSUME SingleUseInv, OfferInv, NEW r \in Requests, Stores(r),
         UNCHANGED <<now, roster, left, issued>>
  PROVE  Promise!Next
<1> DEFINE q == req[r]
<1>1. q.nonce \in Nonces /\ q.group \in Groups /\ q.member \in Members
  BY DEF Stores, SingleUseInv, TypeInv, Steps, StepOK, KnowsWho
<1>2. q.nonce \notin Withdrawn /\ \A o \in Offers : o.nonce # q.nonce
  BY WithdrawnCases, UnstoredCases DEF Stores, OfferInv, StoresFresh
<1>3. PICK t \in 0..now : q.expires = Unix(t + LinkTTL)
  BY DEF Stores, OfferInv, StoresDated
<1>4. Offers' = Offers \cup
        {[nonce |-> q.nonce, group |-> q.group, member |-> q.member,
          expires |-> Unix(t + LinkTTL)]}
  BY <1>3 DEF Stores, HeldOffer
<1>5. ASSUME NEW k
      PROVE  k \in Unstored' <=> k \in Unstored /\ k # q.nonce
  BY UnstoredCases DEF Stores, OfferInv, StoresFresh
<1>6. \A k : (\E o \in Offers' : o.nonce = k)
               <=> (\E o \in Offers : o.nonce = k) \/ k = q.nonce
  <2> DEFINE new == HeldOffer(req[r])
  <2>1. Offers' = Offers \cup {new} /\ new.nonce = q.nonce
    BY DEF Stores, HeldOffer
  <2> HIDE DEF new, q
  <2> QED
    BY <2>1
<1>7. q.nonce \in Unstored
  BY UnstoredCases DEF Stores
<1>8. \A k : k \in Withdrawn' <=> k \in Withdrawn
  BY <1>2, <1>5, <1>6, <1>7, WithdrawnCases DEF Stores
<1>9. Withdrawn' = Withdrawn
  BY <1>8 DEF Withdrawn
<1>10. Promise!Offer(q.nonce, q.group, q.member)
  BY <1>2, <1>4, <1>9 DEF Promise!Offer, Promise!Unix, Unix
<1> HIDE DEF q
<1> QED
  BY <1>1, <1>10 DEF Promise!Next

(* A refresh that signs renews the token it was asked with.                *)
LEMMA RefreshRenews ==
  ASSUME PromiseInv, NEW r \in Requests, Mint(r), req[r].op = "refresh",
         Offers' = Offers, Withdrawn' = Withdrawn
  PROVE  Promise!Next
<1> DEFINE q == req[r]
<1>1. PICK tok \in issued : /\ tok.group = q.group
                            /\ tok.member = q.member
                            /\ tok.absolute = q.absolute
                            /\ Unix(q.now) < tok.absolute
  BY DEF Mint, PromiseInv, OfferInv, RequestsDated, Dated
<1>2. q.now \in 0..now
  BY DEF Mint, PromiseInv, SingleUseInv, TypeInv, Steps, StepOK, TypeOK
<1>3. q.now <= LastIn(<<tok.group, tok.member>>)
  BY <1>1 DEF Mint, PromiseInv, RevocationInv, Vouched
<1>4. issued' = issued \cup
        {Claims(tok.group, tok.member, q.now, tok.absolute)}
  BY <1>1 DEF Mint, Token
<1>5. UNCHANGED <<now, roster, left>>
  BY DEF Mint
<1> HIDE DEF q
<1>6. Promise!Renew(tok)
  BY <1>1, <1>2, <1>3, <1>4, <1>5
  DEF Promise!Renew, Promise!Unix, Unix, Promise!LastIn, LastIn,
      Promise!Claims, Claims
<1> QED
  BY <1>6 DEF Promise!Next

(* A redeem that signs logs in with the offer it holds.  A single-use link *)
(* is nowhere else, so the offer goes.                                     *)
LEMMA RedeemLogsIn ==
  ASSUME PromiseInv, NEW r \in Requests, Mint(r), req[r].op = "redeem", Loses
  PROVE  Promise!Next
<1> DEFINE q == req[r]
           o == HeldOffer(q)
<1>1. Holding(q) /\ o \in Offers
  <2>1. Holding(q)
    BY DEF Mint, Holding
  <2> QED
    BY <2>1, OfferCases
<1>2. /\ o.nonce = q.nonce /\ o.expires = q.expires
      /\ o.group = q.group /\ o.member = q.member
  BY DEF HeldOffer
<1>3. q.now \in 0..now
  BY DEF Mint, PromiseInv, SingleUseInv, TypeInv, Steps, StepOK, TypeOK
<1>4. q.now <= LastIn(<<q.group, q.member>>)
  BY DEF Mint, PromiseInv, RevocationInv, Vouched
<1>5. Unix(q.now) <= q.expires /\ q.absolute = Unix(q.now + SessionTTL)
  BY DEF Mint, PromiseInv, OfferInv, RequestsDated, Dated, CeilingInv,
         RequestsTraced, RequestTraced
<1>6. issued' = issued \cup
        {Claims(q.group, q.member, q.now, Unix(q.now + SessionTTL))}
  BY <1>5 DEF Mint, Token
<1>7. UNCHANGED <<now, roster, left, kv, drawn>>
  BY DEF Mint
<1>8. /\ ~ Holding(req'[r]) /\ req'[r].pc # "store"
      /\ \A s \in Requests \ {r} : req'[s] = req[s]
  BY DEF Mint, PromiseInv, SingleUseInv, TypeInv, TypeOK, ReqType, Holding
<1>9. \A other \in Offers : other # o => other \in Offers'
  <2> SUFFICES ASSUME NEW other \in Offers, other # o
               PROVE  other \in Offers'
    OBVIOUS
  <2>1. CASE \E row \in kv : other = RowOffer(row)
    BY <1>7, <2>1, OfferCasesAfter
  <2>2. CASE \E s \in Requests : Holding(req[s]) /\ other = HeldOffer(req[s])
    BY <1>8, <2>2, OfferCasesAfter
  <2> QED
    BY <2>1, <2>2, OfferCases
<1>10. LinkSingleUse => o \notin Offers'
  <2> SUFFICES ASSUME LinkSingleUse, o \in Offers' PROVE FALSE
    OBVIOUS
  <2>1. InHand(req[r])
    BY <1>1 DEF InHand
  <2>2. OnePlace
    BY DEF PromiseInv, SingleUseInv
  <2>3. ASSUME NEW row \in kv, o = RowOffer(row)
        PROVE  FALSE
    <3>1. row.key = LinkKey(q.nonce)
      BY <1>2, <2>3 DEF RowOffer, LinkKey, PromiseInv, SingleUseInv,
                        NoncesDrawn
    <3> QED
      BY <2>1, <2>2, <3>1 DEF OnePlace
  <2>4. ASSUME NEW s \in Requests, Holding(req'[s]), o = HeldOffer(req'[s])
        PROVE  FALSE
    <3>1. s # r /\ req'[s] = req[s]
      BY <1>8, <2>4
    <3>2. InHand(req[s]) /\ req[s].nonce = req[r].nonce
      BY <1>2, <2>4, <3>1 DEF InHand, HeldOffer
    <3> QED
      BY <2>1, <2>2, <3>1, <3>2 DEF OnePlace
  <2> QED
    BY <1>7, <2>3, <2>4, OfferCasesAfter
<1>11. Unstored' = Unstored
  <2>1. \A k : k \in Unstored <=> k \in Unstored'
    BY <1>8, UnstoredCases DEF Mint
  <2> QED
    BY <2>1 DEF Unstored
<1>12. o.nonce \in drawn /\ o.nonce \notin Unstored
  BY <1>1, OffersDrawn, FreshUnstored DEF PromiseInv, OfferInv
<1>13. \A other \in Offers : other.nonce = o.nonce => other = o
  BY <1>1 DEF PromiseInv, OfferInv, OneOffer
<1> HIDE DEF q, o
<1>14. \/ Offers' = Offers \ {o} /\ Withdrawn' = Withdrawn \cup {o.nonce}
       \/ ~ LinkSingleUse /\ Offers' = Offers /\ Withdrawn' = Withdrawn
  <2>1. CASE o \in Offers'
    <3>1. Offers' = Offers
      BY <1>9, <2>1 DEF Loses
    <3>2. Withdrawn' = Withdrawn
      BY <1>7, <1>11, <3>1 DEF Withdrawn
    <3> QED
      BY <1>10, <2>1, <3>1, <3>2
  <2>2. CASE o \notin Offers'
    <3>1. Offers' = Offers \ {o}
      BY <1>9, <2>2 DEF Loses
    <3>2. ASSUME NEW k
          PROVE  k \in Withdrawn' <=> k \in Withdrawn \/ k = o.nonce
      BY <1>7, <1>11, <1>12, <1>13, <3>1, WithdrawnCases
    <3>3. Withdrawn' = Withdrawn \cup {o.nonce}
      BY <3>2
    <3> QED
      BY <3>1, <3>3
  <2> QED
    BY <2>1, <2>2
<1>15. Promise!Login(o)
  BY <1>2, <1>3, <1>4, <1>5, <1>6, <1>7, <1>14
  DEF Promise!Login, Promise!Unix, Unix, Promise!LastIn, LastIn,
      Promise!Claims, Claims
<1> QED
  BY <1>1, <1>15 DEF Promise!Next

LEMMA MintKeeps ==
  ASSUME PromiseInv, NEW r \in Requests, Mint(r)
  PROVE  Promise!Next
<1>1. TypeInv /\ req[r].op \in {"redeem", "refresh"}
  BY DEF Mint, PromiseInv, SingleUseInv, TypeInv, Steps, StepOK
<1>2. Loses
  BY <1>1, MintLoses
<1>3. CASE req[r].op = "redeem"
  BY <1>2, <1>3, RedeemLogsIn
<1>4. CASE req[r].op = "refresh"
  <2>1. \A s \in Requests : /\ Holding(req'[s]) <=> Holding(req[s])
                            /\ req'[s].pc = "store" <=> req[s].pc = "store"
                            /\ s # r => req'[s] = req[s]
    BY <1>1, <1>4 DEF Mint, TypeInv, TypeOK, ReqType, Holding
  <2>2. ~ Holding(req[r]) /\ req[r].pc # "store"
    BY <1>4 DEF Mint, Holding
  <2>3. kv' = kv /\ drawn' = drawn
    BY DEF Mint
  <2>4. \A o : o \in Offers' <=> o \in Offers
    BY <2>1, <2>2, <2>3, OfferCases, OfferCasesAfter
  <2>5. \A k : k \in Unstored' <=> k \in Unstored
    BY <2>1, <2>2, UnstoredCases
  <2>6. Offers' = Offers
    BY <2>4 DEF Offers
  <2>7. \A k : k \in Withdrawn' <=> k \in Withdrawn
    BY <2>3, <2>5, <2>6, WithdrawnCases
  <2>8. Withdrawn' = Withdrawn
    BY <2>7 DEF Withdrawn
  <2> QED
    BY <1>4, <2>6, <2>8, RefreshRenews
<1> QED
  BY <1>1, <1>3, <1>4

LEMMA NextPromise ==
  ASSUME PromiseInv, [Next]_vars
  PROVE  [Promise!Next]_(Promise!vars)
<1>1. TypeInv /\ SingleUseInv /\ OfferInv
  BY DEF PromiseInv, SingleUseInv
<1>2. ASSUME UNCHANGED <<kv, drawn, req>>
      PROVE  Offers' = Offers /\ Withdrawn' = Withdrawn
  BY <1>2 DEF Offers, Withdrawn, Unstored, Holding
<1>3. CASE Tick
  BY <1>2, <1>3 DEF Tick, Promise!Tick, Promise!Next
<1>4. ASSUME NEW pair \in Pairs, Join(pair)
      PROVE  Promise!Next
  BY <1>2, <1>4 DEF Join, Promise!Join, Promise!Next, Pairs
<1>5. ASSUME NEW pair \in Pairs, Leave(pair)
      PROVE  Promise!Next
  BY <1>2, <1>5 DEF Leave, Promise!Leave, Promise!Next, Pairs
<1>6. CASE UNCHANGED vars
  BY <1>2, <1>6 DEF vars, Promise!vars
<1>7. ASSUME NEW r \in Requests, Mint(r)
      PROVE  Promise!Next
  BY <1>7, MintKeeps
<1>8. CASE UNCHANGED <<now, roster, left, issued>>
  BY <1>1, <1>8, StepKinds, LosesWithdraws, StampStutters, StoreIsOffered
  DEF OfferInv
<1>9. \/ UNCHANGED <<now, roster, left, issued>>
      \/ Tick
      \/ \E pair \in Pairs : Join(pair) \/ Leave(pair)
      \/ \E r \in Requests : Mint(r)
  BY DEF Next, Environment, Call, Work, MintSweep, MintStamp, MintStore,
     RedeemLookup, RedeemExpiry, RefreshStart, AssertMember, Respond,
     Crash, vars
<1> QED
  BY <1>3, <1>4, <1>5, <1>6, <1>7, <1>8, <1>9

(* At the start nothing is offered, asked for or issued.                   *)
LEMMA InitPromiseInv == Init => PromiseInv
<1> SUFFICES ASSUME Init PROVE PromiseInv
  OBVIOUS
<1>1. \A r \in Requests : req[r] = Idle
  BY DEF Init
<1>2. Idle.pc = "idle"
  BY DEF Idle
<1>3. Offers = {}
  BY <1>1, <1>2, OfferCases DEF Init, Holding
<1>4. OfferInv
  BY <1>1, <1>2, <1>3
  DEF OfferInv, OneOffer, StoresFresh, StoresDated, RequestsDated, Dated
<1>5. SingleUseInv
  BY <1>1, <1>2, InitTypeInv
  DEF Init, SingleUseInv, NoncesDrawn, OnePlace, SingleWinner, InHand,
      Holding
<1>6. RevocationInv
  BY <1>1, <1>2, InitTypeInv DEF Init, RevocationInv, Vouched, ExpiresInTime
<1>7. CeilingInv
  BY <1>1, <1>2, InitTypeInv
  DEF Init, CeilingInv, TokensTraced, RequestsTraced, RequestTraced
<1> QED
  BY <1>4, <1>5, <1>6, <1>7 DEF PromiseInv

(* WebAuth implements MagicLink: whoever logs in does it with a link that  *)
(* is still offered, in time, as a member vouched for, and a single-use    *)
(* link is offered to nobody afterwards (webauth.go, Redeem and Refresh).  *)
THEOREM KeepsPromiseHolds == Spec => KeepsPromise
<1>1. Init => PromiseInv
  BY InitPromiseInv
<1>2. PromiseInv /\ [Next]_vars => PromiseInv'
  BY NextSingleUseInv, NextRevocationInv, NextCeilingInv, NextOfferInv
  DEF PromiseInv
<1>3. Init => Promise!Init
  BY InitPromise
<1>4. PromiseInv /\ [Next]_vars => [Promise!Next]_(Promise!vars)
  BY NextPromise
<1> QED
  BY <1>1, <1>2, <1>3, <1>4, PTL DEF Spec, KeepsPromise, Promise!Spec
=============================================================================
