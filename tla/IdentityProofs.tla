--------------------------- MODULE IdentityProofs ---------------------------
(***************************************************************************)
(* Proofs about numbers, for any number that can be written: Normalize     *)
(* gives one key to a number in all its forms, and who owns a JID or a     *)
(* record.  Induction goes by the least counterexample.                    *)
(***************************************************************************)
EXTENDS PhoneNumbers, Rosters, SequenceTheorems, WellFoundedInduction,
  TLAPS

(* A set of numbers that has one has a least one.                          *)
LEMMA Least ==
  ASSUME NEW T \in SUBSET Nat, T # {}
  PROVE  \E x \in T : \A y \in T : x <= y
<1>1. \A R, S : IsWellFoundedOn(R, S) =>
        \A U : U \subseteq S /\ U # {}
          => \E x \in U : \A y \in U : <<y, x>> \notin R
  BY WFMin
<1>2. \E x \in T : \A y \in T : <<y, x>> \notin OpToRel(<, Nat)
  BY <1>1, NatLessThanWellFounded
<1>3. \E x \in T : \A y \in T : ~ (y < x)
  BY <1>2 DEF OpToRel
<1> QED
  BY <1>3

-----------------------------------------------------------------------------
(***************************************************************************)
(* The builder of DigitsOf.                                                *)
(***************************************************************************)
OneRune(raw, b, i) ==
  IF i = 0 THEN <<>>
  ELSE IF IsDigit(raw[i]) THEN Append(b[i - 1], raw[i]) ELSE b[i - 1]

Builds(raw, b) == b = [i \in 0..Len(raw) |-> OneRune(raw, b, i)]

(* The loop has a result.                                                  *)
LEMMA BuilderExists ==
  ASSUME NEW raw \in Seq(Int)
  PROVE  \E b : Builds(raw, b)
<1> DEFINE Upto(n, b) == b = [i \in 0..n |-> OneRune(raw, b, i)]
           Bad == {n \in Nat : ~ \E b : Upto(n, b)}
<1>1. Upto(0, [i \in 0..0 |-> <<>>])
  BY DEF OneRune
<1>2. ASSUME NEW n \in Nat, NEW b, Upto(n, b)
      PROVE  \E c : Upto(n + 1, c)
  <2> DEFINE c == [i \in 0..(n + 1) |->
                     IF i <= n THEN b[i] ELSE OneRune(raw, b, i)]
  <2>1. ASSUME NEW i \in 0..(n + 1)
        PROVE  c[i] = OneRune(raw, c, i)
    <3>1. CASE i = 0
      BY <1>2, <3>1 DEF OneRune
    <3>2. CASE i > 0
      <4>1. c[i - 1] = b[i - 1]
        BY <3>2
      <4>2. c[i] = OneRune(raw, b, i)
        BY <1>2
      <4> QED
        BY <4>1, <4>2 DEF OneRune
    <3> QED
      BY <3>1, <3>2
  <2>2. c = [i \in 0..(n + 1) |-> OneRune(raw, c, i)]
    BY <2>1
  <2> QED
    BY <2>2
<1> HIDE DEF Upto
<1>3. Bad = {}
  <2> SUFFICES ASSUME Bad # {} PROVE FALSE
    OBVIOUS
  <2>1. PICK n \in Bad : \A k \in Bad : n <= k
    BY Least
  <2>2. n # 0
    BY <1>1
  <2>3. n - 1 \in Nat /\ n - 1 \notin Bad
    BY <2>1, <2>2
  <2> QED
    BY <1>2, <2>3
<1> QED
  BY <1>3 DEF Builds, Upto

(* What it writes, step by step.                                           *)
LEMMA BuilderSteps ==
  ASSUME NEW raw \in Seq(Int)
  PROVE  \E b : /\ b[0] = <<>>
                /\ \A i \in 1..Len(raw) :
                     b[i] = IF IsDigit(raw[i]) THEN Append(b[i - 1], raw[i])
                            ELSE b[i - 1]
                /\ DigitsOf(raw) = b[Len(raw)]
<1>1. PICK c : Builds(raw, c)
  BY BuilderExists
<1> DEFINE b == CHOOSE b : Builds(raw, b)
<1>2. Builds(raw, b)
  BY <1>1
<1>3. DigitsOf(raw) = b[Len(raw)]
  BY DEF DigitsOf, Builds, OneRune
<1> HIDE DEF b
<1>4. \A i \in 0..Len(raw) : b[i] = OneRune(raw, b, i)
  BY <1>2 DEF Builds
<1>5. Len(raw) \in Nat
  OBVIOUS
<1>6. b[0] = <<>>
  BY <1>4, <1>5 DEF OneRune
<1>7. ASSUME NEW i \in 1..Len(raw)
      PROVE  b[i] = IF IsDigit(raw[i]) THEN Append(b[i - 1], raw[i])
                    ELSE b[i - 1]
  BY <1>4, <1>5 DEF OneRune
<1> QED
  BY <1>3, <1>6, <1>7

(* Whatever grows as the builder does is the builder.                      *)
LEMMA BuilderUnique ==
  ASSUME NEW raw \in Seq(Int), NEW g, g[0] = <<>>,
         \A i \in 1..Len(raw) :
           g[i] = IF IsDigit(raw[i]) THEN Append(g[i - 1], raw[i])
                  ELSE g[i - 1]
  PROVE  DigitsOf(raw) = g[Len(raw)]
<1>1. PICK b : /\ b[0] = <<>>
               /\ \A i \in 1..Len(raw) :
                    b[i] = IF IsDigit(raw[i]) THEN Append(b[i - 1], raw[i])
                           ELSE b[i - 1]
               /\ DigitsOf(raw) = b[Len(raw)]
  BY BuilderSteps
<1> DEFINE Bad == {n \in Nat : n <= Len(raw) /\ b[n] # g[n]}
<1>2. Bad = {}
  <2> SUFFICES ASSUME Bad # {} PROVE FALSE
    OBVIOUS
  <2>1. PICK n \in Bad : \A k \in Bad : n <= k
    BY Least
  <2>2. n \in 1..Len(raw)
    BY <1>1
  <2>3. b[n - 1] = g[n - 1]
    BY <2>1, <2>2
  <2> QED
    BY <1>1, <2>2, <2>3
<1>3. Len(raw) \in Nat
  OBVIOUS
<1> QED
  BY <1>1, <1>2, <1>3

LEMMA DigitsTyped ==
  ASSUME NEW raw \in Seq(Int)
  PROVE  DigitsOf(raw) \in Seq(Digits)
<1>1. PICK b : /\ b[0] = <<>>
               /\ \A i \in 1..Len(raw) :
                    b[i] = IF IsDigit(raw[i]) THEN Append(b[i - 1], raw[i])
                           ELSE b[i - 1]
               /\ DigitsOf(raw) = b[Len(raw)]
  BY BuilderSteps
<1> DEFINE Bad == {n \in Nat : n <= Len(raw) /\ b[n] \notin Seq(Digits)}
<1>2. Bad = {}
  <2> SUFFICES ASSUME Bad # {} PROVE FALSE
    OBVIOUS
  <2>1. PICK n \in Bad : \A k \in Bad : n <= k
    BY Least
  <2>2. n \in 1..Len(raw)
    <3>1. b[0] \in Seq(Digits)
      BY <1>1, EmptySeq
    <3>2. n # 0
      BY <3>1
    <3> QED
      BY <3>2
  <2>3. b[n - 1] \in Seq(Digits)
    BY <2>1, <2>2
  <2>4. IsDigit(raw[n]) => Append(b[n - 1], raw[n]) \in Seq(Digits)
    BY <2>3, AppendProperties DEF IsDigit
  <2> QED
    BY <1>1, <2>2, <2>3, <2>4
<1>3. Len(raw) \in Nat
  OBVIOUS
<1> QED
  BY <1>1, <1>2, <1>3

LEMMA PrefixGrows ==
  ASSUME NEW d \in Seq(Digits), NEW i \in 1..Len(d)
  PROVE  SubSeq(d, 1, i) = Append(SubSeq(d, 1, i - 1), d[i])
<1>1. d[i] \in Digits /\ i \in 1..Len(d) /\ 1 \in 1..Len(d)
  BY ElementOfSeq
<1>2. SubSeq(d, 1, i) = SubSeq(d, 1, i - 1) \o <<d[i]>>
  BY <1>1, SubSeqRecursiveSecond
<1>3. SubSeq(d, 1, i - 1) \in Seq(Digits)
  BY ElementOfSeq, SubSeqProperties
<1> QED
  BY <1>1, <1>2, <1>3, AppendIsConcat

(* Digits alone are kept as they are, also behind a plus sign.             *)
LEMMA DigitsKept ==
  ASSUME NEW d \in Seq(Digits)
  PROVE  DigitsOf(d) = d
<1> DEFINE g == [i \in 0..Len(d) |-> SubSeq(d, 1, i)]
<1>1. d \in Seq(Int) /\ Len(d) \in Nat
  BY DEF Digits
<1>2. g[0] = <<>>
  BY <1>1
<1>3. ASSUME NEW i \in 1..Len(d)
      PROVE  g[i] = IF IsDigit(d[i]) THEN Append(g[i - 1], d[i])
                    ELSE g[i - 1]
  <2>1. IsDigit(d[i])
    BY DEF IsDigit
  <2>2. SubSeq(d, 1, i) = Append(SubSeq(d, 1, i - 1), d[i])
    BY PrefixGrows
  <2>3. g[i] = SubSeq(d, 1, i) /\ g[i - 1] = SubSeq(d, 1, i - 1)
    BY <1>1
  <2> HIDE DEF g
  <2> QED
    BY <2>1, <2>2, <2>3
<1>4. g[Len(d)] = d
  BY <1>1
<1> HIDE DEF g
<1> QED
  BY <1>1, <1>2, <1>3, <1>4, BuilderUnique

LEMMA PlusSkipped ==
  ASSUME NEW d \in Seq(Digits)
  PROVE  DigitsOf(<<Separator>> \o d) = d
<1> DEFINE raw == <<Separator>> \o d
           g == [i \in 0..(Len(d) + 1) |->
                   IF i = 0 THEN <<>> ELSE SubSeq(d, 1, i - 1)]
<1>1. d \in Seq(Int) /\ Len(d) \in Nat
  BY DEF Digits
<1>2. /\ raw \in Seq(Int) /\ Len(raw) = Len(d) + 1
      /\ raw[1] = Separator
      /\ \A i \in 2..Len(raw) : raw[i] = d[i - 1]
  BY <1>1 DEF Separator
<1> HIDE DEF raw
<1>3. g[0] = <<>>
  BY <1>1
<1>4. ASSUME NEW i \in 1..Len(raw)
      PROVE  g[i] = IF IsDigit(raw[i]) THEN Append(g[i - 1], raw[i])
                    ELSE g[i - 1]
  <2>1. CASE i = 1
    <3>1. ~ IsDigit(raw[i])
      BY <1>2, <2>1 DEF IsDigit, Digits, Separator
    <3>2. g[1] = <<>>
      <4>1. g[1] = SubSeq(d, 1, 0)
        BY <1>1
      <4> HIDE DEF g
      <4> QED
        BY <4>1, SubSeqEmpty
    <3> HIDE DEF g
    <3> QED
      BY <1>3, <2>1, <3>1, <3>2
  <2>2. CASE i # 1
    <3>1. IsDigit(raw[i]) /\ raw[i] = d[i - 1] /\ i - 1 \in 1..Len(d)
      BY <1>1, <1>2, <2>2 DEF IsDigit
    <3>2. SubSeq(d, 1, i - 1) = Append(SubSeq(d, 1, i - 2), d[i - 1])
      <4>1. i - 1 - 1 = i - 2
        OBVIOUS
      <4> QED
        BY <3>1, <4>1, PrefixGrows
    <3>3. g[i] = SubSeq(d, 1, i - 1) /\ g[i - 1] = SubSeq(d, 1, i - 2)
      <4>1. i \in 0..(Len(d) + 1) /\ i - 1 \in 0..(Len(d) + 1)
            /\ i # 0 /\ i - 1 # 0 /\ (i - 1) - 1 = i - 2
        BY <1>1, <1>2, <2>2
      <4> QED
        BY <4>1
    <3> HIDE DEF g
    <3> QED
      BY <3>1, <3>2, <3>3
  <2> QED
    BY <2>1, <2>2
<1>5. g[Len(raw)] = d
  BY <1>1, <1>2
<1> HIDE DEF g
<1>6. DigitsOf(raw) = d
  BY <1>2, <1>3, <1>4, <1>5, BuilderUnique
<1> QED
  BY <1>6 DEF raw

-----------------------------------------------------------------------------
(***************************************************************************)
(* Normalize.                                                              *)
(***************************************************************************)
LEMMA FirstNonZero ==
  ASSUME NEW d \in Seq(Digits), NEW first,
         first = SelectInSeq(d, LAMBDA c : c # 0)
  PROVE  \/ first = 0 /\ \A i \in 1..Len(d) : d[i] = 0
         \/ /\ first \in 1..Len(d) /\ d[first] # 0
            /\ \A i \in 1..Len(d) : i < first => d[i] = 0
<1> DEFINE I == {i \in 1..Len(d) : d[i] # 0}
<1>1. first = IF I # {} THEN CHOOSE x \in I : \A y \in I : x <= y ELSE 0
  BY DEF SelectInSeq, Min
<1>2. I \subseteq Nat /\ I \subseteq 1..Len(d) /\ Len(d) \in Nat
  OBVIOUS
<1>3. CASE I = {}
  BY <1>1, <1>3
<1>4. CASE I # {}
  <2>1. \E x \in I : \A y \in I : x <= y
    BY <1>2, <1>4, Least
  <2>2. first \in I /\ \A y \in I : first <= y
    BY <1>1, <1>4, <2>1
  <2>3. ASSUME NEW i \in 1..Len(d), i < first PROVE d[i] = 0
    BY <1>2, <2>2, <2>3
  <2> QED
    BY <2>2, <2>3
<1> QED
  BY <1>3, <1>4

LEMMA Trimmed ==
  ASSUME NEW d \in Seq(Digits)
  PROVE  /\ TrimZeros(d) \in Seq(Digits)
         /\ TrimZeros(d) # <<>> => Head(TrimZeros(d)) # 0
<1> DEFINE first == SelectInSeq(d, LAMBDA c : c # 0)
<1>1. TrimZeros(d) = IF first = 0 THEN <<>> ELSE SubSeq(d, first, Len(d))
  BY DEF TrimZeros
<1>2. first = 0 \/ (first \in 1..Len(d) /\ d[first] # 0)
  BY FirstNonZero
<1> HIDE DEF first
<1>3. CASE first = 0
  BY <1>1, <1>3, EmptySeq
<1>4. CASE first # 0
  <2>1. first \in 1..Len(d) /\ Len(d) \in first..Len(d)
    BY <1>2, <1>4
  <2>2. Head(SubSeq(d, first, Len(d))) = d[first]
    BY <2>1, HeadTailOfSubSeq
  <2>3. SubSeq(d, first, Len(d)) \in Seq(Digits)
    BY <2>1, ElementOfSeq, SubSeqProperties
  <2> QED
    BY <1>1, <1>2, <1>4, <2>2, <2>3
<1> QED
  BY <1>3, <1>4

(* The trunk zeros go, the zeros inside of a number stay.                  *)
LEMMA TrunkTrimmed ==
  ASSUME NEW trunk \in Seq(Digits), NEW subscriber \in Seq(Digits),
         IsNational(trunk, subscriber)
  PROVE  TrimZeros(trunk \o subscriber) = subscriber
<1> DEFINE d == trunk \o subscriber
           first == SelectInSeq(d, LAMBDA c : c # 0)
           n == Len(trunk)
           k == Len(subscriber)
<1>1. /\ n \in Nat /\ k \in Nat /\ k # 0
      /\ subscriber[1] # 0 /\ \A i \in 1..n : trunk[i] = 0
  BY DEF IsNational
<1>2. /\ d \in Seq(Digits) /\ Len(d) = n + k
      /\ \A i \in 1..(n + k) :
           d[i] = IF i <= n THEN trunk[i] ELSE subscriber[i - n]
  BY ConcatProperties
<1>3. \/ first = 0 /\ \A i \in 1..Len(d) : d[i] = 0
      \/ /\ first \in 1..Len(d) /\ d[first] # 0
         /\ \A i \in 1..Len(d) : i < first => d[i] = 0
  BY <1>2, FirstNonZero
<1>4. TrimZeros(d) = IF first = 0 THEN <<>> ELSE SubSeq(d, first, Len(d))
  BY DEF TrimZeros
<1> HIDE DEF first, d
<1>5. n + 1 \in 1..(n + k) /\ d[n + 1] # 0
  <2>1. n + 1 \in 1..(n + k) /\ ~ n + 1 <= n /\ (n + 1) - n = 1
    BY <1>1
  <2> QED
    BY <1>1, <1>2, <2>1
<1>6. \A i \in 1..n : d[i] = 0
  BY <1>1, <1>2
<1>7. first = n + 1
  BY <1>1, <1>2, <1>3, <1>5, <1>6
<1>8. SubSeq(d, n + 1, n + k) = SubSeq(subscriber, 1, k)
  <2>1. /\ n + 1 \in n + 1..n + k /\ n + k \in n + 1..n + k
        /\ (n + 1) - n = 1 /\ (n + k) - n = k
    BY <1>1
  <2> QED
    BY <2>1, SubSeqOfConcat2 DEF d
<1>9. SubSeq(subscriber, 1, k) = subscriber
  BY SubSeqFull
<1> QED
  BY <1>1, <1>2, <1>4, <1>7, <1>8, <1>9 DEF d

(* A number in international form is its own key.                          *)
LEMMA OwnKey ==
  ASSUME NEW d \in Seq(Digits), d # <<>> => Head(d) # 0
  PROVE  Normalize(d) = d
BY DigitsKept DEF Normalize

(* A key, once more a key: it has digits only, and no trunk zero.          *)
LEMMA KeyForm ==
  ASSUME NEW raw \in Seq(Int)
  PROVE  /\ Normalize(raw) \in Seq(Digits)
         /\ Normalize(raw) # <<>> => Head(Normalize(raw)) # 0
<1> DEFINE d == DigitsOf(raw)
<1>1. d \in Seq(Digits)
  BY DigitsTyped
<1> HIDE DEF d
<1>2. CASE d # <<>> /\ Head(d) = 0
  <2> DEFINE t == TrimZeros(d)
  <2>1. t \in Seq(Digits) /\ (t # <<>> => Head(t) # 0)
    BY <1>1, Trimmed
  <2>2. Normalize(raw) = CountryCode \o t
    BY <1>2 DEF Normalize, d
  <2> HIDE DEF t
  <2>3. CountryCode \in Seq(Digits)
    BY NumbersAssumption
  <2>4. CASE CountryCode = <<>>
    BY <2>1, <2>2, <2>3, <2>4, ConcatEmptySeq
  <2>5. CASE CountryCode # <<>>
    <3>1. Len(CountryCode) \in Nat \ {0}
      BY <2>3, <2>5, EmptySeq
    <3>2. Head(CountryCode) = CountryCode[1] /\ CountryCode[1] # 0
      BY <2>5, NumbersAssumption
    <3>3. /\ CountryCode \o t \in Seq(Digits)
          /\ (CountryCode \o t)[1] = CountryCode[1]
      <4>1. Len(t) \in Nat
        BY <2>1, LenProperties
      <4>2. 1 \in 1..Len(CountryCode) + Len(t) /\ 1 <= Len(CountryCode)
        BY <3>1, <4>1
      <4> QED
        BY <2>1, <2>3, <4>2, ConcatProperties
    <3> QED
      BY <2>2, <3>2, <3>3
  <2> QED
    BY <2>4, <2>5
<1>3. CASE ~ (d # <<>> /\ Head(d) = 0)
  BY <1>1, <1>3 DEF Normalize, d
<1> QED
  BY <1>2, <1>3

(* A key is its own key, so it does not matter which of two numbers that   *)
(* are compared has been through Normalize, or how often                   *)
(* (transport/message.go:97,109,119,129).                                  *)
THEOREM CanonicalHolds ==
  /\ \A raw \in Seq(Int) :
       /\ Normalize(raw) \in Seq(Digits)
       /\ Normalize(Normalize(raw)) = Normalize(raw)
  /\ Canonical
<1>1. ASSUME NEW raw \in Seq(Int)
      PROVE  /\ Normalize(raw) \in Seq(Digits)
             /\ Normalize(Normalize(raw)) = Normalize(raw)
  BY KeyForm, OwnKey
<1>2. Writings \subseteq Seq(Int)
  <2>1. Alphabet \subseteq Int
    BY PhoneNumbersAssumption DEF Digits, Separator
  <2> SUFFICES ASSUME NEW n \in 0..MaxLength, NEW raw \in [1..n -> Alphabet]
               PROVE  raw \in Seq(Int)
    BY DEF Writings
  <2>2. n \in Nat
    BY PhoneNumbersAssumption
  <2>3. raw \in [1..n -> Int]
    BY <2>1
  <2>4. raw \in UNION {[1..k -> Int] : k \in Nat}
    BY <2>2, <2>3
  <2> QED
    BY <2>4, SeqDef
<1>3. ASSUME NEW raw \in Writings
      PROVE  \A i \in DOMAIN Normalize(raw) : Normalize(raw)[i] \in Digits
  <2> DEFINE key == Normalize(raw)
  <2>1. key \in Seq(Digits)
    BY <1>1, <1>2
  <2> HIDE DEF key
  <2> QED
    BY <2>1, ElementOfSeq, LenProperties DEF key
<1> QED
  BY <1>1, <1>2, <1>3 DEF Canonical

(* One number is one key, in national form, trunk zeros before it, or with *)
(* a plus sign and the country code, separators anywhere in the first      *)
(* (identity.go:18-20).                                                    *)
THEOREM NationalForm ==
  ASSUME NEW raw \in Seq(Int),
         NEW trunk \in Seq(Digits), NEW subscriber \in Seq(Digits),
         IsNational(trunk, subscriber),
         DigitsOf(raw) = trunk \o subscriber
  PROVE  /\ Normalize(raw) = CountryCode \o subscriber
         /\ Normalize(<<Separator>> \o (CountryCode \o subscriber))
              = CountryCode \o subscriber
<1> DEFINE d == trunk \o subscriber
           full == CountryCode \o subscriber
<1>1. d \in Seq(Digits) /\ d # <<>> /\ Head(d) = 0
  <2>1. /\ Len(trunk) \in Nat \ {0} /\ Len(subscriber) \in Nat
        /\ trunk[1] = 0
    BY DEF IsNational
  <2>2. 1 \in 1..Len(trunk) + Len(subscriber) /\ 1 <= Len(trunk)
    BY <2>1
  <2>3. /\ d \in Seq(Digits) /\ d[1] = trunk[1]
        /\ Len(d) = Len(trunk) + Len(subscriber)
    BY <2>2, ConcatProperties
  <2> HIDE DEF d
  <2>4. Len(d) # 0
    BY <2>1, <2>3
  <2> QED
    BY <2>1, <2>3, <2>4, EmptySeq
<1>2. Normalize(raw) = full
  BY <1>1, TrunkTrimmed DEF Normalize
<1>3. full \in Seq(Digits) /\ full # <<>> /\ Head(full) # 0
  <2>1. full \in Seq(Digits)
    BY NumbersAssumption, ConcatProperties
  <2>2. full # <<>>
    BY NumbersAssumption, ConcatEqualIffEmpty DEF IsNational
  <2>3. Normalize(raw) # <<>> => Head(Normalize(raw)) # 0
    BY KeyForm
  <2> HIDE DEF full
  <2> QED
    BY <1>2, <2>1, <2>2, <2>3
<1>4. DigitsOf(<<Separator>> \o full) = full
  BY <1>3, PlusSkipped
<1> HIDE DEF full
<1>5. Normalize(<<Separator>> \o full) = full
  BY <1>3, <1>4 DEF Normalize
<1> QED
  BY <1>2, <1>5 DEF full

-----------------------------------------------------------------------------
(***************************************************************************)
(* Who owns a JID, a number and a record.                                  *)
(***************************************************************************)
Numbers == {<<>>} \cup {PhoneOf[p] : p \in Persons}

Participants ==
  [JID : JIDs, PhoneNumber : JIDs, LID : JIDs, IsAdmin : BOOLEAN]

LEMMA Owners ==
  \A jid : jid \in JIDs <=> jid = NoJID \/ \E p \in Persons : jid \in Forms(p)
<1> SUFFICES ASSUME NEW jid
             PROVE  jid \in JIDs
                      <=> jid = NoJID \/ \E p \in Persons : jid \in Forms(p)
  OBVIOUS
<1>1. jid \in UNION {Forms(p) : p \in Persons}
        <=> \E p \in Persons : jid \in Forms(p)
  <2>1. ASSUME NEW p \in Persons, jid \in Forms(p)
        PROVE  jid \in UNION {Forms(q) : q \in Persons}
    <3>1. Forms(p) \in {Forms(q) : q \in Persons}
      OBVIOUS
    <3> QED
      BY <2>1, <3>1
  <2>2. ASSUME jid \in UNION {Forms(q) : q \in Persons}
        PROVE  \E p \in Persons : jid \in Forms(p)
    BY <2>2
  <2> QED
    BY <2>1, <2>2
<1> DEFINE U == UNION {Forms(q) : q \in Persons}
<1>2. JIDs = U \cup {NoJID}
  BY DEF JIDs
<1> HIDE DEF U
<1>3. jid \in JIDs <=> jid \in U \/ jid = NoJID
  BY <1>2
<1> QED
  BY <1>1, <1>3 DEF U

LEMMA FormsOwned ==
  ASSUME NEW p \in Persons
  PROVE  /\ PN(p) \in JIDs /\ LID(p) \in JIDs /\ NoJID \in JIDs
         /\ PN(p).server = "pn" /\ LID(p).server = "lid"
         /\ NoJID.server = "none"
         /\ PN(p) # LID(p) /\ NoJID \notin Forms(p)
         /\ \A q \in Persons :
              \A jid : jid \in Forms(p) /\ jid \in Forms(q) => p = q
<1>1. \A q \in Persons : /\ PN(q).server = "pn" /\ PN(q).user = PhoneOf[q]
                         /\ LID(q).server = "lid" /\ LID(q).user = LidOf[q]
  BY DEF PN, LID
<1>2. NoJID.server = "none"
  BY DEF NoJID
<1>3. \A q \in Persons : PN(q) \in Forms(q) /\ LID(q) \in Forms(q)
  BY DEF Forms
<1>4. PN(p) \in JIDs /\ LID(p) \in JIDs /\ NoJID \in JIDs
  BY <1>3, Owners
<1>5. PN(p) # LID(p) /\ NoJID \notin Forms(p)
  BY <1>1, <1>2 DEF Forms
<1>6. ASSUME NEW q \in Persons, NEW jid, jid \in Forms(p), jid \in Forms(q)
      PROVE  p = q
  <2>1. PhoneOf[p] = PhoneOf[q] \/ LidOf[p] = LidOf[q] => p = q
    BY NumbersAssumption
  <2>2. jid \in {PN(p), LID(p)} /\ jid \in {PN(q), LID(q)}
    BY <1>6 DEF Forms
  <2>3. CASE jid = PN(p)
    BY <1>1, <2>1, <2>2, <2>3
  <2>4. CASE jid = LID(p)
    BY <1>1, <2>1, <2>2, <2>4
  <2> QED
    BY <2>2, <2>3, <2>4
<1> QED
  BY <1>1, <1>2, <1>4, <1>5, <1>6

(* Two JIDs are the same if they are equal and not empty.                  *)
LEMMA SameIsEqual ==
  ASSUME NEW a \in JIDs, NEW b \in JIDs
  PROVE  SameJID(a, b) <=> a = b /\ a # NoJID
<1>1. ASSUME NEW jid \in JIDs
      PROVE  /\ jid = [user |-> jid.user, server |-> jid.server]
             /\ IsEmpty(jid) <=> jid = NoJID
  <2>1. CASE jid = NoJID
    BY <2>1 DEF NoJID, IsEmpty
  <2>2. ASSUME NEW p \in Persons, jid \in Forms(p)
        PROVE  /\ jid = [user |-> jid.user, server |-> jid.server]
               /\ IsEmpty(jid) <=> jid = NoJID
    <3>1. jid # NoJID /\ jid.server # "none"
      BY <2>2, FormsOwned DEF Forms
    <3> QED
      BY <2>2, <3>1 DEF Forms, PN, LID, IsEmpty
  <2> QED
    BY <2>1, <2>2, Owners
<1>2. a.user = b.user /\ a.server = b.server => a = b
  BY <1>1
<1> QED
  BY <1>1, <1>2 DEF SameJID

(* A phone number is its own key, and no two persons have the same.        *)
LEMMA PhoneKeys ==
  /\ Normalize(<<>>) = <<>>
  /\ \A p \in Persons : Normalize(PhoneOf[p]) = PhoneOf[p]
  /\ \A p \in Persons : PhoneOf[p] # <<>>
  /\ \A p, q \in Persons : PhoneOf[p] = PhoneOf[q] => p = q
BY OwnKey, NumbersAssumption, EmptySeq

(* The number that is found for a JID is its owner's.                      *)
LEMMA Resolved ==
  ASSUME NEW store \in SUBSET Persons, NEW p \in Persons,
         NEW jid \in Forms(p)
  PROVE  /\ ResolvePhone(jid, store) \in {<<>>, PhoneOf[p]}
         /\ jid.server = "pn" \/ p \in store
              => ResolvePhone(jid, store) = PhoneOf[p]
<1>1. CASE jid = PN(p)
  BY <1>1 DEF PN, ResolvePhone
<1>2. CASE jid = LID(p)
  <2> DEFINE known == {q \in store : LID(q) = jid}
  <2>1. known \subseteq {p}
    BY <1>2, NumbersAssumption DEF LID
  <2>2. p \in store <=> known # {}
    BY <1>2, <2>1
  <2>3. ResolvePhone(jid, store)
          = IF known = {} THEN <<>> ELSE PhoneOf[CHOOSE q \in known : TRUE]
    BY <1>2, FormsOwned DEF ResolvePhone
  <2>4. known # {} => (CHOOSE q \in known : TRUE) \in known
    OBVIOUS
  <2>5. known # {} => (CHOOSE q \in known : TRUE) = p
    BY <2>1, <2>4
  <2> HIDE DEF known
  <2> QED
    BY <1>2, <2>2, <2>3, <2>5, FormsOwned
<1> QED
  BY <1>1, <1>2 DEF Forms

LEMMA NobodyResolved ==
  ASSUME NEW store \in SUBSET Persons
  PROVE  ResolvePhone(NoJID, store) = <<>>
BY DEF ResolvePhone, NoJID, LID

-----------------------------------------------------------------------------
(* A record shows its person and nobody else.                              *)
LEMMA RecordShows ==
  ASSUME RostersTypeOK, NEW g \in Groups, NEW p \in Persons
  PROVE  LET rec == Record(g, p)
         IN /\ rec \in Participants
            /\ rec.JID \in Forms(p) /\ rec.JID.server = mode[g]
            /\ rec.PhoneNumber \in {PN(p), NoJID}
            /\ rec.LID \in {LID(p), NoJID}
            /\ p \notin bare => rec.PhoneNumber = PN(p) /\ rec.LID = LID(p)
            /\ mode[g] = "pn" => rec.PhoneNumber = PN(p)
            /\ rec.IsAdmin <=> p \in Admins
<1> DEFINE rec == Record(g, p)
<1>1. mode[g] \in {"pn", "lid"}
  BY DEF RostersTypeOK
<1>2. /\ rec.JID = IF mode[g] = "pn" THEN PN(p) ELSE LID(p)
      /\ rec.PhoneNumber = IF mode[g] = "pn" \/ p \notin bare THEN PN(p)
                           ELSE NoJID
      /\ rec.LID = IF mode[g] = "lid" \/ p \notin bare THEN LID(p) ELSE NoJID
      /\ rec.IsAdmin <=> p \in Admins
  BY DEF Record
<1>3. rec.JID \in JIDs /\ rec.PhoneNumber \in JIDs /\ rec.LID \in JIDs
  BY <1>2, FormsOwned
<1>4. rec \in Participants
  <2>1. ASSUME NEW a \in JIDs, NEW b \in JIDs, NEW c \in JIDs,
               NEW d \in BOOLEAN
        PROVE  [JID |-> a, PhoneNumber |-> b, LID |-> c, IsAdmin |-> d]
                 \in Participants
    BY DEF Participants
  <2>2. rec = [JID |-> rec.JID, PhoneNumber |-> rec.PhoneNumber,
               LID |-> rec.LID, IsAdmin |-> rec.IsAdmin]
    BY DEF Record
  <2>3. rec.IsAdmin \in BOOLEAN
    <3>1. rec.IsAdmin = (p \in Admins)
      BY DEF Record
    <3> QED
      BY <3>1
  <2> HIDE DEF rec
  <2> QED
    BY <1>3, <2>1, <2>2, <2>3
<1>5. rec.JID \in Forms(p) /\ rec.JID.server = mode[g]
  BY <1>1, <1>2, FormsOwned DEF Forms
<1> QED
  BY <1>1, <1>2, <1>4, <1>5 DEF rec

LEMMA RecordPhone ==
  ASSUME RostersTypeOK, NEW g \in Groups, NEW p \in Persons,
         NEW store \in SUBSET Persons
  PROVE  /\ PhoneOfRecord(Record(g, p), store) \in {<<>>, PhoneOf[p]}
         /\ mode[g] = "pn" \/ p \notin bare \/ p \in store
              => PhoneOfRecord(Record(g, p), store) = PhoneOf[p]
<1> DEFINE rec == Record(g, p)
<1>1. /\ rec.JID \in Forms(p) /\ rec.PhoneNumber \in {PN(p), NoJID}
      /\ p \notin bare => rec.PhoneNumber = PN(p)
      /\ mode[g] = "pn" => rec.PhoneNumber = PN(p)
  BY RecordShows
<1> HIDE DEF rec
<1>2. CASE rec.PhoneNumber = PN(p)
  BY <1>2, FormsOwned DEF PhoneOfRecord, IsEmpty, PN, rec
<1>3. CASE rec.PhoneNumber = NoJID
  <2>1. PhoneOfRecord(rec, store) = ResolvePhone(rec.JID, store)
    BY <1>3, FormsOwned DEF PhoneOfRecord, IsEmpty
  <2>2. PN(p) # NoJID
    BY FormsOwned
  <2> QED
    BY <1>1, <1>3, <2>1, <2>2, Resolved DEF rec
<1> QED
  BY <1>1, <1>2, <1>3

(* IsMember takes nobody for somebody else ...                             *)
LEMMA MatchesOnly ==
  ASSUME RostersTypeOK, NEW g \in Groups, NEW ps \in SUBSET Persons,
         NEW jid \in JIDs, NEW store \in SUBSET Persons,
         Matches({Record(g, p) : p \in ps}, jid, store)
  PROVE  \E p \in ps : jid \in Forms(p)
<1> DEFINE want == Normalize(ResolvePhone(jid, store))
<1>1. PICK p \in ps :
        \/ AnyFormIs(Record(g, p), jid)
        \/ /\ want # <<>>
           /\ Normalize(PhoneOfRecord(Record(g, p), store)) = want
  BY DEF Matches
<1> DEFINE rec == Record(g, p)
<1>2. /\ rec \in Participants /\ rec.JID \in Forms(p)
      /\ rec.PhoneNumber \in {PN(p), NoJID} /\ rec.LID \in {LID(p), NoJID}
  BY RecordShows
<1>3. PhoneOfRecord(rec, store) \in {<<>>, PhoneOf[p]}
  BY RecordPhone
<1> HIDE DEF rec
<1>4. CASE AnyFormIs(rec, jid)
  <2>1. /\ rec.JID \in JIDs /\ rec.PhoneNumber \in JIDs /\ rec.LID \in JIDs
    BY <1>2 DEF Participants
  <2>2. \/ jid = rec.JID
        \/ jid = rec.PhoneNumber /\ jid # NoJID
        \/ jid = rec.LID /\ jid # NoJID
    BY <1>4, <2>1, SameIsEqual DEF AnyFormIs
  <2> QED
    BY <1>2, <2>2 DEF Forms
<1>5. CASE want # <<>> /\ Normalize(PhoneOfRecord(rec, store)) = want
  <2>1. jid # NoJID
    BY <1>5, NobodyResolved, PhoneKeys
  <2>2. PICK q \in Persons : jid \in Forms(q)
    BY <2>1, Owners
  <2>3. ResolvePhone(jid, store) \in {<<>>, PhoneOf[q]}
    BY <2>2, Resolved
  <2>4. want = PhoneOf[q]
    BY <1>5, <2>3, PhoneKeys
  <2>5. want = PhoneOf[p]
    BY <1>3, <1>5, PhoneKeys
  <2> QED
    BY <2>2, <2>4, <2>5, PhoneKeys
<1> QED
  BY <1>1, <1>4, <1>5 DEF rec

(* ... and finds whoever can be found.                                     *)
LEMMA MatchesFound ==
  ASSUME RostersTypeOK, NEW g \in Groups, NEW ps \in SUBSET Persons,
         NEW jid \in JIDs, NEW p \in ps, Findable(g, p, jid)
  PROVE  Matches({Record(g, x) : x \in ps}, jid, Store)
<1> DEFINE rec == Record(g, p)
<1>1. /\ rec \in Participants /\ rec.JID \in Forms(p)
      /\ rec.JID.server = mode[g]
      /\ p \notin bare => rec.PhoneNumber = PN(p) /\ rec.LID = LID(p)
  BY RecordShows
<1>2. jid \in Forms(p) /\ jid # NoJID /\ Store \subseteq Persons
  BY FormsOwned DEF Findable, Store, RostersTypeOK
<1>3. CASE jid.server = mode[g]
  <2>1. jid = rec.JID
    BY <1>1, <1>2, <1>3, FormsOwned DEF Forms
  <2>2. AnyFormIs(rec, jid)
    BY <1>2, <2>1, SameIsEqual DEF AnyFormIs
  <2> QED
    BY <2>2 DEF Matches
<1>4. CASE p \notin bare
  <2>1. AnyFormIs(rec, jid)
    BY <1>1, <1>2, <1>4, SameIsEqual DEF AnyFormIs, Forms
  <2> QED
    BY <2>1 DEF Matches
<1>5. CASE PhoneKnown(p, jid.server) /\ PhoneListed(g, p)
  <2>1. ResolvePhone(jid, Store) = PhoneOf[p]
    BY <1>2, <1>5, Resolved DEF PhoneKnown
  <2>2. PhoneOfRecord(rec, Store) = PhoneOf[p]
    BY <1>2, <1>5, RecordPhone DEF PhoneKnown, PhoneListed
  <2> HIDE DEF rec
  <2>3. /\ Normalize(ResolvePhone(jid, Store)) # <<>>
        /\ Normalize(PhoneOfRecord(rec, Store))
             = Normalize(ResolvePhone(jid, Store))
    BY <2>1, <2>2, PhoneKeys
  <2> QED
    BY <2>3 DEF Matches, rec
<1> QED
  BY <1>3, <1>4, <1>5 DEF Findable

(* IsMemberOfAny, likewise, by number.                                     *)
LEMMA HasPhoneOnly ==
  ASSUME RostersTypeOK, NEW g \in Groups, NEW ps \in SUBSET Persons,
         NEW store \in SUBSET Persons, NEW want, want # <<>>,
         HasPhone({Record(g, p) : p \in ps}, want, store)
  PROVE  \E p \in ps : want = PhoneOf[p]
<1>1. PICK p \in ps :
        Normalize(PhoneOfRecord(Record(g, p), store)) = want
  BY DEF HasPhone, MembersFrom
<1>2. PhoneOfRecord(Record(g, p), store) \in {<<>>, PhoneOf[p]}
  BY RecordPhone
<1> QED
  BY <1>1, <1>2, PhoneKeys

LEMMA HasPhoneFound ==
  ASSUME RostersTypeOK, NEW g \in Groups, NEW ps \in SUBSET Persons,
         NEW p \in ps, NEW jid, FindableByPhone(g, p, jid)
  PROVE  HasPhone({Record(g, x) : x \in ps}, PhoneOf[p], Store)
<1>1. Store \subseteq Persons
  BY DEF Store, RostersTypeOK
<1>2. PhoneOfRecord(Record(g, p), Store) = PhoneOf[p]
  <2>1. mode[g] = "pn" \/ p \notin bare \/ p \in Store
    BY DEF FindableByPhone, PhoneListed, PhoneKnown
  <2> QED
    BY <1>1, <2>1, RecordPhone
<1>3. \E m \in MembersFrom({Record(g, x) : x \in ps}, Store) :
        m.Phone = PhoneOf[p]
  <2> DEFINE recs == {Record(g, x) : x \in ps}
             rec == Record(g, p)
             m == [JID |-> rec.JID, Phone |-> PhoneOfRecord(rec, Store),
                   IsAdmin |-> rec.IsAdmin]
  <2>1. rec \in recs
    OBVIOUS
  <2>2. m.Phone = PhoneOf[p]
    BY <1>2
  <2> HIDE DEF rec, recs
  <2>3. m \in MembersFrom(recs, Store)
    BY <2>1 DEF MembersFrom
  <2> QED
    BY <2>2, <2>3 DEF recs
<1> QED
  BY <1>3, PhoneKeys DEF HasPhone

(* WhatsApp's side keeps its types, and the form in which a record shows   *)
(* its person.                                                             *)
LEMMA RostersKept ==
  ASSUME RostersTypeOK, RostersNext \/ UNCHANGED world
  PROVE  RostersTypeOK' /\ mode' = mode /\ bare' = bare
<1>1. ASSUME NEW g \in Groups, NEW p \in Persons, Join(g, p)
      PROVE  RostersTypeOK' /\ mode' = mode /\ bare' = bare
  BY <1>1, RostersAssumption DEF RostersTypeOK, Join, Move
<1>2. ASSUME NEW g \in Groups, NEW p \in Persons, Leave(g, p)
      PROVE  RostersTypeOK' /\ mode' = mode /\ bare' = bare
  BY <1>2, RostersAssumption DEF RostersTypeOK, Leave, Move
<1>3. ASSUME NEW p \in Persons, Learn(p)
      PROVE  RostersTypeOK' /\ mode' = mode /\ bare' = bare
  BY <1>3, RostersAssumption DEF RostersTypeOK, Learn, Move
<1>4. CASE DbFlaps
  BY <1>4, RostersAssumption DEF RostersTypeOK, DbFlaps, Move
<1>5. CASE UNCHANGED world
  BY <1>5 DEF world, RostersTypeOK
<1> QED
  BY <1>1, <1>2, <1>3, <1>4, <1>5 DEF RostersNext

LEMMA RostersStart == RostersInit => RostersTypeOK
BY RostersAssumption DEF RostersInit, RostersTypeOK

(* So a record that was read once is the record of today.                  *)
LEMMA RecordsLast ==
  ASSUME mode' = mode, bare' = bare, NEW g, NEW p
  PROVE  Record(g, p)' = Record(g, p)
BY DEF Record
=============================================================================
