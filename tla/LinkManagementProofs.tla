------------------------ MODULE LinkManagementProofs ------------------------
(***************************************************************************)
(* Proofs about Base62 and LinkManagement, for any base, any number of     *)
(* operations, custom slugs, clock readings and crashes. First that the    *)
(* base62 forms of two ids differ, by the least counterexample; then the   *)
(* invariants of the creations and of the weights, and that the statements *)
(* implement SlugTable.                                                    *)
(***************************************************************************)
EXTENDS LinkManagement, SequenceTheorems, FiniteSetTheorems,
        WellFoundedInduction, TLAPS

Digit == 0..(Base-1)

(* A set of natural numbers that is not empty has a least one. *)
LEMMA LeastNatural ==
  ASSUME NEW T \in SUBSET Nat, T # {}
  PROVE  \E m \in T : \A k \in T : m <= k
<1>1. IsWellFoundedOn(OpToRel(<, Nat), Nat)
  BY NatLessThanWellFounded
<1>2. PICK m \in T : \A k \in T : ~(<<k, m>> \in OpToRel(<, Nat))
  BY <1>1, WFMin
<1>3. \A k \in T : ~(k < m)
  BY <1>2 DEF OpToRel
<1> QED
  BY <1>3

Def(f, n) == IF n = 0 THEN <<>> ELSE <<n % Base>> \o f[n \div Base]

(* Dividing by the base leaves a smaller number and a digit. *)
LEMMA Division ==
  ASSUME NEW n \in Nat \ {0}
  PROVE  n \div Base \in 0..(n-1) /\ n % Base \in Digit /\ n = Base * (n \div Base) + (n % Base)
<1>1. Base \in Nat /\ Base > 1
  BY BaseAssumption
<1>2. n % Base \in 0..(Base-1)
  BY <1>1
<1>3. n = Base * (n \div Base) + (n % Base)
  BY <1>1
<1>4. n \div Base \in Nat
  BY <1>1
<1>5. n \div Base < n
  BY <1>1
<1> QED
  BY <1>2, <1>3, <1>4, <1>5 DEF Digit

DigitsUpTo(k, f) == f \in [0..k -> Seq(Digit)] /\ \A n \in 0..k : f[n] = Def(f, n)

(* A sequence of digits with one more in front. *)
LEMMA Prepended ==
  ASSUME NEW a \in Digit, NEW s \in Seq(Digit)
  PROVE  /\ <<a>> \o s \in Seq(Digit) /\ Len(<<a>> \o s) = Len(s) + 1
         /\ (<<a>> \o s)[1] = a /\ \A i \in 1..Len(s) : (<<a>> \o s)[i + 1] = s[i]
<1>1. <<a>> \in Seq(Digit) /\ Len(<<a>>) = 1 /\ <<a>>[1] = a
  OBVIOUS
<1> QED
  BY <1>1, ConcatProperties, LenProperties

(* One step of the recursion of Digits yields a sequence of digits. *)
LEMMA DefType ==
  ASSUME NEW n \in Nat, NEW f, n # 0 => f[n \div Base] \in Seq(Digit)
  PROVE  Def(f, n) \in Seq(Digit)
<1>1. CASE n = 0
  BY <1>1 DEF Def
<1>2. CASE n # 0
  <2>1. n % Base \in Digit
    BY <1>2, Division
  <2> QED
    BY <1>2, <2>1, Prepended DEF Def
<1> QED
  BY <1>1, <1>2

(* The recursion of Digits has a solution on every initial segment. *)
LEMMA DigitsExistUpTo == \A k \in Nat : \E f : DigitsUpTo(k, f)
<1> DEFINE T == {k \in Nat : ~\E f : DigitsUpTo(k, f)}
<1> SUFFICES ASSUME T # {} PROVE FALSE
  OBVIOUS
<1>1. PICK k \in T : \A j \in T : k <= j
  BY LeastNatural
<1>2. CASE k = 0
  <2> DEFINE f == [n \in 0..0 |-> <<>>]
  <2>1. DigitsUpTo(0, f)
    BY DEF DigitsUpTo, Def
  <2> QED
    BY <1>2, <2>1
<1>3. CASE k # 0
  <2>1. PICK f : DigitsUpTo(k - 1, f)
    BY <1>1, <1>3
  <2> DEFINE g == [n \in 0..k |-> IF n = k THEN Def(f, k) ELSE f[n]]
  <2>2. \A n \in 0..k : n # 0 => n \div Base \in 0..(k-1) /\ n \div Base \in 0..k /\ n \div Base # k
    BY Division
  <2>3. \A n \in 0..k : Def(g, n) = Def(f, n)
    BY <2>2 DEF Def
  <2>4. Def(f, k) \in Seq(Digit)
    BY <1>3, <2>1, <2>2, DefType DEF DigitsUpTo
  <2>5. g \in [0..k -> Seq(Digit)]
    BY <1>3, <2>1, <2>4 DEF DigitsUpTo
  <2>6. \A n \in 0..k : g[n] = Def(f, n)
    BY <1>3, <2>1 DEF DigitsUpTo
  <2>7. DigitsUpTo(k, g)
    <3> HIDE DEF g
    <3> QED
      BY <2>3, <2>5, <2>6 DEF DigitsUpTo
  <2> QED
    BY <2>7
<1> QED
  BY <1>2, <1>3

(* Solutions on two initial segments agree where both are defined. *)
LEMMA DigitsAgree ==
  ASSUME NEW j \in Nat, NEW k \in Nat, j <= k, NEW f, NEW g, DigitsUpTo(j, f), DigitsUpTo(k, g)
  PROVE  f[j] = g[j]
<1> DEFINE T == {n \in 0..j : f[n] # g[n]}
<1> SUFFICES ASSUME T # {} PROVE FALSE
  OBVIOUS
<1> T \in SUBSET Nat
  OBVIOUS
<1>1. PICK n \in T : \A m \in T : n <= m
  BY LeastNatural
<1>2. f[n] = Def(f, n) /\ g[n] = Def(g, n)
  BY DEF DigitsUpTo
<1>3. n # 0 => f[n \div Base] = g[n \div Base]
  <2> SUFFICES ASSUME n # 0 PROVE f[n \div Base] = g[n \div Base]
    OBVIOUS
  <2>1. n \div Base \in 0..(n - 1)
    BY Division
  <2> QED
    BY <1>1, <2>1
<1>4. Def(f, n) = Def(g, n)
  BY <1>3 DEF Def
<1> QED
  BY <1>2, <1>4

(* The recursion equation of Digits holds. *)
LEMMA DigitsDef == Digits \in [Nat -> Seq(Digit)] /\ \A n \in Nat : Digits[n] = Def(Digits, n)
<1> DEFINE upTo(k) == CHOOSE f : DigitsUpTo(k, f)
           d == [n \in Nat |-> upTo(n)[n]]
<1>1. \A k \in Nat : DigitsUpTo(k, upTo(k))
  BY DigitsExistUpTo
<1> HIDE DEF upTo
<1>2. ASSUME NEW n \in Nat PROVE d[n] = Def(d, n)
  <2>1. d[n] = Def(upTo(n), n)
    BY <1>1 DEF DigitsUpTo
  <2>2. n # 0 => upTo(n)[n \div Base] = d[n \div Base]
    <3> SUFFICES ASSUME n # 0 PROVE upTo(n)[n \div Base] = d[n \div Base]
      OBVIOUS
    <3>1. n \div Base \in Nat /\ n \div Base <= n
      BY Division
    <3>2. upTo(n)[n \div Base] = upTo(n \div Base)[n \div Base]
      BY <1>1, <3>1, DigitsAgree
    <3> QED
      BY <3>1, <3>2
  <2>3. Def(upTo(n), n) = Def(d, n)
    <3> HIDE DEF d
    <3> QED
      BY <2>2 DEF Def
  <2> QED
    BY <2>1, <2>3
<1>3. d \in [Nat -> Seq(Digit)]
  BY <1>1 DEF DigitsUpTo
<1> DEFINE Recursive(f) == f = [n \in Nat |-> IF n = 0 THEN <<>> ELSE <<n % Base>> \o f[n \div Base]]
<1>4. Recursive(d)
  <2> HIDE DEF d
  <2> QED
    BY <1>2, <1>3 DEF Def
<1>5. Digits = CHOOSE f : Recursive(f)
  BY DEF Digits
<1>6. Recursive(Digits)
  <2> HIDE DEF Recursive, d
  <2> QED
    BY <1>4, <1>5
<1>7. \A n \in Nat : Digits[n] = Def(Digits, n)
  BY <1>6 DEF Def
<1>8. ASSUME NEW n \in Nat PROVE Digits[n] \in Seq(Digit)
  <2> DEFINE T == {m \in Nat : Digits[m] \notin Seq(Digit)}
  <2> SUFFICES ASSUME T # {} PROVE FALSE
    OBVIOUS
  <2>1. PICK m \in T : \A k \in T : m <= k
    BY LeastNatural
  <2>2. m # 0 => Digits[m \div Base] \in Seq(Digit)
    <3> SUFFICES ASSUME m # 0 PROVE Digits[m \div Base] \in Seq(Digit)
      OBVIOUS
    <3>1. m \div Base \in 0..(m - 1)
      BY Division
    <3> QED
      BY <2>1, <3>1
  <2> QED
    BY <1>7, <2>2, DefType
<1> QED
  BY <1>6, <1>7, <1>8

(* The digits of a reversed sequence. *)
LEMMA Reversed ==
  ASSUME NEW s \in Seq(Digit)
  PROVE  /\ Reverse(s) \in Seq(Digit) /\ Len(Reverse(s)) = Len(s) /\ Len(s) \in Nat
         /\ \A i \in 1..Len(s) : Reverse(s)[i] = s[(Len(s) - i) + 1]
<1>1. Len(s) \in Nat /\ Reverse(s) = [i \in 1..Len(s) |-> s[(Len(s) - i) + 1]]
  BY LenProperties DEF Reverse
<1>2. \A i \in 1..Len(s) : s[(Len(s) - i) + 1] \in Digit
  BY <1>1, ElementOfSeq
<1>3. Reverse(s) \in [1..Len(s) -> Digit]
  BY <1>1, <1>2
<1>4. Reverse(s) \in Seq(Digit)
  BY <1>1, <1>3, SeqDef
<1>5. DOMAIN Reverse(s) = 1..Len(s)
  BY <1>1
<1>6. Len(Reverse(s)) = Len(s)
  BY <1>1, <1>4, <1>5, LenProperties
<1> QED
  BY <1>1, <1>4, <1>6

(* Encode yields digits. *)
LEMMA EncodeType ==
  ASSUME NEW n \in Nat \ {0}
  PROVE  Encode(n) = Reverse(Digits[n]) /\ Encode(n) \in Seq(Digit)
<1>1. Digits[n] \in Seq(Digit)
  BY DigitsDef
<1> QED
  BY <1>1, Reversed DEF Encode

-----------------------------------------------------------------------------
Horner(a, d) == a * Base + d

(* One step of Decode yields a number. *)
LEMMA HornerType ==
  ASSUME NEW a \in Nat, NEW d \in Digit
  PROVE  Horner(a, d) \in Nat
<1>1. Base \in Nat /\ d \in Nat
  BY BaseAssumption DEF Digit
<1>2. a * Base \in Nat
  BY <1>1
<1> QED
  BY <1>1, <1>2 DEF Horner

Loop(slug, f, k) == IF k = 0 THEN 0 ELSE Horner(f[k - 1], slug[k])

ValueUpTo(slug, k, f) == f \in [0..k -> Nat] /\ \A j \in 0..k : f[j] = Loop(slug, f, j)

(* The recursion of Decode has a solution on every prefix of a slug. *)
LEMMA ValueExists ==
  ASSUME NEW slug \in Seq(Digit)
  PROVE  \A k \in 0..Len(slug) : \E f : ValueUpTo(slug, k, f)
<1> DEFINE T == {k \in 0..Len(slug) : ~\E f : ValueUpTo(slug, k, f)}
<1> SUFFICES ASSUME T # {} PROVE FALSE
  OBVIOUS
<1>1. Len(slug) \in Nat /\ \A i \in 1..Len(slug) : slug[i] \in Digit
  BY LenProperties, ElementOfSeq
<1>2. T \in SUBSET Nat
  BY <1>1
<1>3. PICK k \in T : \A j \in T : k <= j
  BY <1>2, LeastNatural
<1>4. CASE k = 0
  <2> DEFINE f == [n \in 0..0 |-> 0]
  <2>1. ValueUpTo(slug, 0, f)
    BY DEF ValueUpTo, Loop
  <2> QED
    BY <1>4, <2>1
<1>5. CASE k # 0
  <2>1. k \in Nat /\ k - 1 \in 0..Len(slug) /\ k - 1 < k /\ slug[k] \in Digit
    BY <1>1, <1>5
  <2>2. PICK f : ValueUpTo(slug, k - 1, f)
    BY <1>3, <2>1
  <2> DEFINE g == [n \in 0..k |-> IF n = k THEN Loop(slug, f, k) ELSE f[n]]
  <2>3. \A n \in 0..k : Loop(slug, g, n) = Loop(slug, f, n)
    BY <2>1 DEF Loop
  <2>4. Loop(slug, f, k) \in Nat
    <3>1. k - 1 \in 0..(k - 1)
      BY <1>5, <2>1
    <3>2. f[k - 1] \in Nat
      BY <2>2, <3>1 DEF ValueUpTo
    <3> QED
      BY <1>5, <2>1, <3>2, HornerType DEF Loop
  <2>5. g \in [0..k -> Nat]
    BY <2>1, <2>2, <2>4 DEF ValueUpTo
  <2>6. \A n \in 0..k : g[n] = Loop(slug, f, n)
    BY <2>1, <2>2 DEF ValueUpTo
  <2>7. ValueUpTo(slug, k, g)
    <3> HIDE DEF g
    <3> QED
      BY <2>3, <2>5, <2>6 DEF ValueUpTo
  <2> QED
    BY <2>7
<1> QED
  BY <1>4, <1>5

(* The recursion equation of the loop of Decode. *)
LEMMA ValueDef ==
  ASSUME NEW slug \in Seq(Digit)
  PROVE  ValueUpTo(slug, Len(slug), Value(slug))
<1> DEFINE Recursive(f) ==
      f = [k \in 0..Len(slug) |-> IF k = 0 THEN 0 ELSE f[k - 1] * Base + slug[k]]
<1>1. Len(slug) \in Nat
  BY LenProperties
<1>2. PICK f : ValueUpTo(slug, Len(slug), f)
  BY <1>1, ValueExists
<1>3. Recursive(f)
  BY <1>2 DEF ValueUpTo, Loop, Horner
<1>4. Value(slug) = CHOOSE g : Recursive(g)
  BY DEF Value
<1>5. Recursive(Value(slug))
  <2> HIDE DEF Recursive
  <2> QED
    BY <1>3, <1>4
<1> DEFINE v == Value(slug)
<1>6. v = [k \in 0..Len(slug) |-> Loop(slug, v, k)]
  BY <1>5 DEF Loop, Horner
<1> HIDE DEF v
<1>7. \A k \in 0..Len(slug) : v[k] = f[k]
  <2> DEFINE T == {k \in 0..Len(slug) : v[k] # f[k]}
  <2> SUFFICES ASSUME T # {} PROVE FALSE
    OBVIOUS
  <2>1. T \in SUBSET Nat
    BY <1>1
  <2>2. PICK k \in T : \A j \in T : k <= j
    BY <2>1, LeastNatural
  <2>3. v[k] = Loop(slug, v, k) /\ f[k] = Loop(slug, f, k)
    BY <1>2, <1>6 DEF ValueUpTo
  <2>4. k # 0 => v[k - 1] = f[k - 1]
    BY <1>1, <2>2
  <2> QED
    BY <2>3, <2>4 DEF Loop
<1>8. v \in [0..Len(slug) -> Nat]
  BY <1>2, <1>6, <1>7 DEF ValueUpTo
<1>9. \A k \in 0..Len(slug) : v[k] = Loop(slug, v, k)
  BY <1>6
<1> QED
  BY <1>8, <1>9 DEF ValueUpTo, v

(* One more digit is one more turn of the loop. *)
LEMMA DecodeStep ==
  ASSUME NEW s \in Seq(Digit), NEW t \in Seq(Digit), Len(s) = Len(t) + 1,
         \A i \in 1..Len(t) : s[i] = t[i]
  PROVE  Decode(s) = Horner(Decode(t), s[Len(s)])
<1> DEFINE v == Value(s)
           w == Value(t)
<1>1. ValueUpTo(s, Len(s), v) /\ ValueUpTo(t, Len(t), w)
  BY ValueDef
<1>2. Len(t) \in Nat
  BY LenProperties
<1> HIDE DEF v, w
<1>3. v[Len(t)] = w[Len(t)]
  <2> DEFINE T == {k \in 0..Len(t) : v[k] # w[k]}
  <2> SUFFICES ASSUME T # {} PROVE FALSE
    BY <1>2
  <2>1. T \in SUBSET Nat
    BY <1>2
  <2>2. PICK k \in T : \A j \in T : k <= j
    BY <2>1, LeastNatural
  <2>3. v[k] = Loop(s, v, k) /\ w[k] = Loop(t, w, k)
    BY <1>1, <1>2 DEF ValueUpTo
  <2>4. k # 0 => v[k - 1] = w[k - 1] /\ s[k] = t[k]
    BY <1>2, <2>2
  <2> QED
    BY <2>3, <2>4 DEF Loop
<1>4. v[Len(s)] = Horner(v[Len(t)], s[Len(s)])
  BY <1>1, <1>2 DEF ValueUpTo, Loop
<1> QED
  BY <1>3, <1>4 DEF Decode, v, w

(* Encode and Decode of pkg/base62 are inverse: the slug of a link leads    *)
(* back to its id, whatever the base.                                      *)
THEOREM RoundTrip == \A n \in Nat \ {0} : Decode(Encode(n)) = n
<1> DEFINE T == {n \in Nat : Decode(Reverse(Digits[n])) # n}
<1>1. ASSUME T # {} PROVE FALSE
  <2>1. PICK n \in T : \A m \in T : n <= m
    BY <1>1, LeastNatural
  <2>2. CASE n = 0
    <3>1. Digits[0] = <<>> /\ <<>> \in Seq(Digit) /\ Len(<<>>) = 0
      BY DigitsDef DEF Def
    <3>2. Reverse(<<>>) \in Seq(Digit) /\ Len(Reverse(<<>>)) = 0
      BY <3>1, Reversed
    <3>3. Decode(Reverse(<<>>)) = 0
      BY <3>2, ValueDef DEF Decode, ValueUpTo, Loop
    <3> QED
      BY <2>2, <3>1, <3>3
  <2>3. CASE n # 0
    <3> DEFINE m == n \div Base
               d == n % Base
               t == Digits[m]
               s == Digits[n]
    <3>1. n \in Nat \ {0} /\ m \in 0..(n - 1) /\ d \in Digit /\ n = Base * m + d
      BY <2>3, Division
    <3>2. m \in Nat /\ t \in Seq(Digit) /\ Decode(Reverse(t)) = m
      BY <2>1, <3>1, DigitsDef
    <3>3. s = <<d>> \o t
      BY <3>1, DigitsDef DEF Def
    <3>4. n = Horner(m, d)
      BY <3>1, <3>2, BaseAssumption DEF Horner, Digit
    <3> HIDE DEF m, d, t
    <3>5. /\ s \in Seq(Digit) /\ Len(s) = Len(t) + 1 /\ s[1] = d
          /\ \A i \in 1..Len(t) : s[i + 1] = t[i]
      BY <3>1, <3>2, <3>3, Prepended
    <3> HIDE DEF s
    <3>6. /\ Reverse(s) \in Seq(Digit) /\ Len(Reverse(s)) = Len(s)
          /\ \A i \in 1..Len(s) : Reverse(s)[i] = s[(Len(s) - i) + 1]
          /\ Reverse(t) \in Seq(Digit) /\ Len(Reverse(t)) = Len(t) /\ Len(t) \in Nat
          /\ \A i \in 1..Len(t) : Reverse(t)[i] = t[(Len(t) - i) + 1]
      BY <3>2, <3>5, Reversed
    <3>7. Reverse(s)[Len(s)] = d
      BY <3>5, <3>6
    <3>8. ASSUME NEW i \in 1..Len(t) PROVE Reverse(s)[i] = Reverse(t)[i]
      <4> DEFINE j == (Len(t) - i) + 1
      <4>1. j \in 1..Len(t) /\ (Len(s) - i) + 1 = j + 1 /\ i \in 1..Len(s)
        BY <3>5, <3>6
      <4> QED
        BY <3>5, <3>6, <4>1
    <3>9. Decode(Reverse(s)) = Horner(Decode(Reverse(t)), d)
      BY <3>5, <3>6, <3>7, <3>8, DecodeStep
    <3> QED
      BY <3>2, <3>4, <3>9 DEF s
  <2> QED
    BY <2>2, <2>3
<1>2. \A n \in Nat \ {0} : Decode(Reverse(Digits[n])) = n
  BY <1>1
<1> QED
  BY <1>2, EncodeType

(* So distinct ids have distinct slugs. *)
LEMMA EncodeDistinct ==
  ASSUME NEW m \in Nat \ {0}, NEW n \in Nat \ {0}, Encode(m) = Encode(n)
  PROVE  m = n
<1>1. Decode(Encode(m)) = m /\ Decode(Encode(n)) = n
  BY RoundTrip
<1> QED
  BY <1>1

-----------------------------------------------------------------------------
(* States in which an operation may have inserted a link. *)
Inserters == {"updating", "created", "slug_exists", "internal_error", "killed"}

(* A record of an operation; what no proof looks at may have any value. *)
IsOperation(q) ==
  q \in [pc : {"waiting"} \cup Running \cup Over, want : Customs \cup {NoSlug},
         slug : {q.slug}, id : {q.id}, weight : {q.weight}, sum : {q.sum},
         seen : {q.seen}, clashed : BOOLEAN]

(* The slug that the operation is to end up with. *)
Final(o) == IF Generated(o) THEN Encode(op[o].id) ELSE op[o].want

(* The row is the operation's, with a slug that is not temporary any more. *)
LostTo(o, i) == links[i].by # o /\ links[i].slug = Final(o) /\ links[i].slug \notin Readings

Looking(o) ==
  LET q == op[o] IN
  /\ q.pc = "waiting" => q = Waiting
  /\ q.pc = "checking" => q.want # NoSlug
  /\ q.pc \in {"checking", "inserting"} =>
       IF Generated(o) THEN q.slug \in Readings ELSE q.slug = q.want
  /\ q.pc \notin Inserters => \A i \in DOMAIN links : links[i].by # o

Holding(o) ==
  LET q == op[o] IN
  /\ q.pc = "updating" =>
       /\ Generated(o) /\ q.id \in DOMAIN links
       /\ links[q.id].by = o /\ links[q.id].slug \in Readings
  /\ q.pc = "created" =>
       /\ q.id \in DOMAIN links /\ links[q.id] = [slug |-> q.slug, by |-> o]
       /\ q.slug \notin Readings /\ q.slug = Final(o)
  /\ q.pc = "slug_exists" => q.clashed \/ \E i \in DOMAIN links : LostTo(o, i)
  /\ q.pc = "internal_error" => o \in failed \/ TooWide(o)

OpInv(o) == IsOperation(op[o]) /\ Looking(o) /\ Holding(o)

(* The base62 form of the row's id is another link's custom slug. *)
AskedFor(i) ==
  \E j \in DOMAIN links :
    /\ j # i /\ links[j].slug = Encode(i) /\ links[j].slug \notin Readings
    /\ ~Generated(links[j].by)

RowInv(i) ==
  LET o == links[i].by IN
  /\ i \in Ids /\ i < nextId
  /\ links[i] \in [slug : {links[i].slug}, by : Ops]
  /\ \A j \in DOMAIN links : links[j].by = o => j = i
  /\ links[i].slug \in Readings =>
       /\ Generated(o)
       /\ op[o].pc = "updating" \/ o \in failed \/ AskedFor(i)
  /\ links[i].slug \notin Readings /\ Generated(o) => links[i].slug = Encode(i)

IInv ==
  /\ DOMAIN op = Ops /\ nextId \in Ids
  /\ \A o \in Ops : OpInv(o)
  /\ \A i \in DOMAIN links : RowInv(i)

-----------------------------------------------------------------------------
(* The base62 form of an id is neither a temporary slug nor empty. *)
LEMMA Encodings ==
  ASSUME NEW n \in Ids
  PROVE  Encode(n) \notin Readings /\ Encode(n) # NoSlug
BY EncodeType, EncodingAssumption DEF Ids, Digit

(* A custom slug is neither a temporary slug nor empty. *)
LEMMA CustomSlugs ==
  ASSUME NEW want \in Customs
  PROVE  want \notin Readings /\ want # NoSlug
<1>1. CASE want \in Words
  BY <1>1, SlugAssumption
<1>2. CASE want \notin Words
  <2>1. PICK n \in Lookalikes : want = Encode(n)
    BY <1>2 DEF Customs
  <2>2. n \in Ids
    BY EncodingAssumption DEF Ids
  <2> QED
    BY <2>1, <2>2, Encodings
<1> QED
  BY <1>1, <1>2

(* A temporary slug is not empty. *)
LEMMA ReadingsAreSlugs ==
  ASSUME NEW reading \in Readings
  PROVE  reading # NoSlug
BY SlugAssumption

(* The id sequence goes on, upwards. *)
LEMMA IdsGrow == nextId \in Ids => nextId + 1 \in Ids /\ nextId < nextId + 1
BY DEF Ids

(* The inductive invariant holds initially. *)
LEMMA InitInv == Init => IInv
<1> SUFFICES ASSUME Init PROVE IInv
  OBVIOUS
<1> USE DEF Init
<1>1. ASSUME NEW o \in Ops PROVE OpInv(o)
  <2>1. op[o] = Waiting
    OBVIOUS
  <2>2. IsOperation(op[o])
    BY <2>1 DEF IsOperation, Waiting
  <2>3. Looking(o) /\ Holding(o)
    BY <2>1 DEF Looking, Holding, Waiting, Inserters
  <2> QED
    BY <2>2, <2>3 DEF OpInv
<1>2. DOMAIN op = Ops /\ nextId \in Ids /\ DOMAIN links = {}
  BY DEF Ids
<1> QED
  BY <1>1, <1>2 DEF IInv

-----------------------------------------------------------------------------
(* What a step of operation o leaves alone: the other operations, their    *)
(* rows, and every row whose slug is not temporary.                        *)
Own(o) ==
  /\ DOMAIN op' = Ops
  /\ nextId' \in Ids /\ nextId <= nextId'
  /\ \A q \in Ops \ {o} : op'[q] = op[q] /\ (q \in failed' <=> q \in failed)
  /\ op[o].pc \in Inserters => op'[o].want = op[o].want
  /\ \A i \in DOMAIN links :
       /\ i \in DOMAIN links' /\ links'[i].by = links[i].by
       /\ links[i].by # o \/ links[i].slug \notin Readings => links'[i] = links[i]
  /\ \A i \in DOMAIN links' : i \in DOMAIN links \/ links'[i].by = o

(* The operation that a permanent row belongs to does not change its mind. *)
LEMMA RowsStay ==
  ASSUME IInv, NEW o \in Ops, Own(o),
         NEW i \in DOMAIN links, links[i].slug \notin Readings
  PROVE  /\ i \in DOMAIN links' /\ links'[i] = links[i]
         /\ links[i].by \in Ops
         /\ op'[links[i].by].want = op[links[i].by].want
<1>1. i \in DOMAIN links' /\ links'[i] = links[i]
  BY DEF Own
<1>2. links[i].by \in Ops
  BY DEF IInv, RowInv
<1>3. op[links[i].by].pc \in Inserters
  BY <1>2 DEF IInv, OpInv, Looking
<1> QED
  BY <1>1, <1>2, <1>3 DEF Own

(* A row keeps the slug that its creation asked for. *)
LEMMA AskedForStays ==
  ASSUME IInv, NEW o \in Ops, Own(o), NEW i, AskedFor(i)
  PROVE  AskedFor(i)'
<1>1. PICK j \in DOMAIN links :
        /\ j # i /\ links[j].slug = Encode(i) /\ links[j].slug \notin Readings
        /\ ~Generated(links[j].by)
  BY DEF AskedFor
<1>2. /\ j \in DOMAIN links' /\ links'[j] = links[j]
      /\ op'[links[j].by].want = op[links[j].by].want
  BY <1>1, RowsStay
<1> QED
  BY <1>1, <1>2 DEF AskedFor, Generated

(* A step of one operation keeps the invariant of the others. *)
LEMMA OtherOps ==
  ASSUME IInv, NEW o \in Ops, Own(o), NEW q \in Ops \ {o}
  PROVE  OpInv(q)'
<1>1. op'[q] = op[q] /\ (q \in failed' <=> q \in failed) /\ OpInv(q)
  BY DEF Own, IInv
<1>2. IsOperation(op'[q])
  BY <1>1 DEF OpInv
<1>3. \A i \in DOMAIN links' : links'[i].by = q => i \in DOMAIN links /\ links[i].by = q
  BY DEF Own
<1>4. Looking(q)'
  BY <1>1, <1>3 DEF OpInv, Looking, Generated
<1>5. ASSUME op[q].pc = "slug_exists", ~op[q].clashed
      PROVE  \E i \in DOMAIN links' : LostTo(q, i)'
  <2>1. PICK i \in DOMAIN links : LostTo(q, i)
    BY <1>1, <1>5 DEF OpInv, Holding
  <2>2. i \in DOMAIN links' /\ links'[i] = links[i]
    BY <2>1, RowsStay DEF LostTo
  <2> QED
    BY <1>1, <2>1, <2>2 DEF LostTo, Final, Generated
<1>6. ASSUME op[q].pc \in {"updating", "created"}
      PROVE  op[q].id \in DOMAIN links' /\ links'[op[q].id] = links[op[q].id]
  <2>1. op[q].id \in DOMAIN links /\ links[op[q].id].by = q
    BY <1>1, <1>6 DEF OpInv, Holding
  <2> QED
    BY <2>1 DEF Own
<1>7. Holding(q)'
  BY <1>1, <1>5, <1>6 DEF OpInv, Holding, Final, Generated, TooWide
<1> QED
  BY <1>2, <1>4, <1>7 DEF OpInv

(* A step of one operation keeps the invariant of the rows of others. *)
LEMMA OtherRows ==
  ASSUME IInv, NEW o \in Ops, Own(o), NEW i \in DOMAIN links', links'[i].by # o
  PROVE  RowInv(i)'
<1>1. i \in DOMAIN links /\ links'[i] = links[i] /\ links[i].by # o
  BY DEF Own
<1>2. RowInv(i) /\ i \in Ids /\ i < nextId /\ links[i].by \in Ops \ {o}
  BY <1>1 DEF IInv, RowInv
<1> DEFINE q == links[i].by
<1>3. op'[q] = op[q] /\ (q \in failed' <=> q \in failed)
  BY <1>2 DEF Own
<1>4. i < nextId'
  BY <1>2 DEF Own, IInv, Ids
<1>5. \A j \in DOMAIN links' : links'[j].by = q => j = i
  BY <1>2 DEF Own, RowInv
<1>6. AskedFor(i) => AskedFor(i)'
  BY AskedForStays
<1> HIDE DEF q
<1>7. RowInv(i)'
  BY <1>1, <1>2, <1>3, <1>4, <1>5, <1>6 DEF RowInv, Generated, q
<1> QED
  BY <1>7

(* So a step is right when it is right for its own operation and row. *)
LEMMA OwnStep ==
  ASSUME IInv, NEW o \in Ops, Own(o), OpInv(o)',
         \A i \in DOMAIN links' : links'[i].by = o => RowInv(i)'
  PROVE  IInv'
<1>1. \A q \in Ops : OpInv(q)'
  BY OtherOps
<1>2. \A i \in DOMAIN links' : RowInv(i)'
  BY OtherRows
<1> QED
  BY <1>1, <1>2 DEF IInv, Own

(* A step that writes no row. *)
LEMMA QuietStep ==
  ASSUME IInv, NEW o \in Ops, NEW q,
         op' = [op EXCEPT ![o] = q], links' = links,
         nextId' \in {nextId, nextId + 1}, failed' \in {failed, failed \cup {o}}
  PROVE  /\ op'[o] = q
         /\ (op[o].pc \in Inserters => q.want = op[o].want) => Own(o)
<1>1. DOMAIN op = Ops /\ nextId \in Ids
  BY DEF IInv
<1>2. DOMAIN op' = Ops /\ op'[o] = q /\ \A p \in Ops \ {o} : op'[p] = op[p]
  BY <1>1
<1>3. nextId' \in Ids /\ nextId <= nextId'
  BY <1>1 DEF Ids
<1> QED
  BY <1>2, <1>3 DEF Own

(* And one of an operation that has no row. *)
LEMMA QuietInv ==
  ASSUME IInv, NEW o \in Ops, NEW q, op[o].pc \notin Inserters,
         op' = [op EXCEPT ![o] = q], links' = links,
         nextId' \in {nextId, nextId + 1}, failed' \in {failed, failed \cup {o}},
         IsOperation(q), q.pc = "waiting" => q = Waiting, Holding(o)',
         q.pc = "checking" => q.want # NoSlug,
         q.pc \in {"checking", "inserting"} =>
           IF q.want = NoSlug THEN q.slug \in Readings ELSE q.slug = q.want
  PROVE  IInv'
<1>1. op'[o] = q /\ Own(o)
  BY QuietStep
<1>2. \A i \in DOMAIN links : links[i].by # o
  BY DEF IInv, OpInv, Looking
<1>3. Looking(o)'
  BY <1>1, <1>2 DEF Looking, Generated
<1>4. OpInv(o)'
  BY <1>1, <1>3 DEF OpInv
<1> QED
  BY <1>1, <1>2, <1>4, OwnStep

(* Beginning an operation preserves the inductive invariant. *)
LEMMA BeginInv ==
  ASSUME IInv, NEW o \in Ops,
         \/ \E want \in Customs : BeginCustom(o, want)
         \/ \E reading \in Readings : BeginGenerated(o, reading)
         \/ \E link \in DOMAIN links, weight \in Weights : BeginVariant(o, link, weight)
  PROVE  IInv'
<1>1. op[o].pc = "waiting" /\ op[o] = Waiting /\ DOMAIN op = Ops
  BY DEF IInv, OpInv, Looking, BeginCustom, BeginGenerated, BeginVariant
<1>2. op[o].pc \notin Inserters
  BY <1>1 DEF Inserters
<1>3. ASSUME NEW want \in Customs, BeginCustom(o, want) PROVE IInv'
  <2> DEFINE q == [Waiting EXCEPT !.pc = "checking", !.want = want, !.slug = want]
  <2>1. op' = [op EXCEPT ![o] = q]
    BY <1>1, <1>3 DEF BeginCustom
  <2>2. q.pc = "checking" /\ q.want = want /\ q.slug = want
    BY DEF Waiting
  <2>3. IsOperation(q)
    BY DEF IsOperation, Waiting, Running
  <2>4. op'[o] = q
    BY <1>1, <2>1
  <2> HIDE DEF q
  <2>5. Holding(o)'
    BY <2>2, <2>4 DEF Holding
  <2>6. want # NoSlug
    BY CustomSlugs
  <2>7. links' = links /\ nextId' = nextId /\ failed' = failed
    BY <1>3 DEF BeginCustom
  <2> QED
    BY <1>2, <2>1, <2>2, <2>3, <2>5, <2>6, <2>7, QuietInv
<1>4. ASSUME NEW reading \in Readings, BeginGenerated(o, reading) PROVE IInv'
  <2> DEFINE q == [Waiting EXCEPT !.pc = "inserting", !.slug = reading]
  <2>1. op' = [op EXCEPT ![o] = q]
    BY <1>1, <1>4 DEF BeginGenerated
  <2>2. q.pc = "inserting" /\ q.want = NoSlug /\ q.slug = reading
    BY DEF Waiting
  <2>3. IsOperation(q)
    BY DEF IsOperation, Waiting, Running
  <2>4. op'[o] = q
    BY <1>1, <2>1
  <2> HIDE DEF q
  <2>5. Holding(o)'
    BY <2>2, <2>4 DEF Holding
  <2>6. links' = links /\ nextId' = nextId /\ failed' = failed
    BY <1>4 DEF BeginGenerated
  <2> QED
    BY <1>2, <2>1, <2>2, <2>3, <2>5, <2>6, QuietInv
<1>5. ASSUME NEW link \in DOMAIN links, NEW weight \in Weights, BeginVariant(o, link, weight)
      PROVE  IInv'
  <2> DEFINE q == [Waiting EXCEPT !.pc = "summing", !.id = link, !.weight = weight]
  <2>1. op' = [op EXCEPT ![o] = q]
    BY <1>1, <1>5 DEF BeginVariant
  <2>2. q.pc = "summing"
    BY DEF Waiting
  <2>3. IsOperation(q)
    BY DEF IsOperation, Waiting, Running
  <2>4. op'[o] = q
    BY <1>1, <2>1
  <2> HIDE DEF q
  <2>5. Holding(o)'
    BY <2>2, <2>4 DEF Holding
  <2>6. links' = links /\ nextId' = nextId /\ failed' = failed
    BY <1>5 DEF BeginVariant
  <2> QED
    BY <1>2, <2>1, <2>2, <2>3, <2>5, <2>6, QuietInv
<1> QED
  BY <1>3, <1>4, <1>5

(* SlugExists preserves the inductive invariant. *)
LEMMA CheckSlugInv ==
  ASSUME IInv, NEW o \in Ops, CheckSlug(o)
  PROVE  IInv'
<1> DEFINE how == IF Taken(op[o].want) THEN "slug_exists" ELSE "inserting"
           q == [op[o] EXCEPT !.pc = how]
<1>1. /\ op[o].pc = "checking" /\ op' = [op EXCEPT ![o] = q]
      /\ links' = links /\ nextId' = nextId /\ failed' = failed
  BY DEF CheckSlug, Ends
<1>2. /\ op[o].pc \notin Inserters /\ DOMAIN op = Ops /\ IsOperation(op[o])
      /\ op[o].want # NoSlug /\ op[o].slug = op[o].want
  BY <1>1 DEF IInv, OpInv, Looking, Inserters, Generated
<1>3. IsOperation(q) /\ q.pc = how /\ q.want = op[o].want /\ q.slug = op[o].slug
  BY <1>2 DEF IsOperation, Running, Over
<1>4. op'[o] = q
  BY <1>1, <1>2
<1>5. op[o].want \in Customs
  BY <1>2 DEF IsOperation
<1> HIDE DEF q
<1>6. ASSUME Taken(op[o].want) PROVE \E i \in DOMAIN links' : LostTo(o, i)'
  <2>1. PICK i \in DOMAIN links : links[i].slug = op[o].want
    BY <1>6 DEF Taken
  <2>2. links[i].by # o
    BY <1>1, <1>2 DEF IInv, OpInv, Looking
  <2> QED
    BY <1>1, <1>2, <1>3, <1>4, <1>5, <2>1, <2>2, CustomSlugs DEF LostTo, Final, Generated
<1>7. Holding(o)'
  BY <1>3, <1>4, <1>6 DEF Holding
<1> QED
  BY <1>1, <1>2, <1>3, <1>7, QuietInv

(* A refused insert preserves the inductive invariant. *)
LEMMA InsertRefusedInv ==
  ASSUME IInv, NEW o \in Ops, InsertRefused(o)
  PROVE  IInv'
<1> DEFINE clash == ~TooWide(o) /\ op[o].want = NoSlug
           q == [op[o] EXCEPT !.pc = Refusal(o), !.clashed = clash]
<1>1. /\ op[o].pc = "inserting"
      /\ TooWide(o) \/ Taken(op[o].slug)
      /\ op' = [op EXCEPT ![o].pc = Refusal(o), ![o].clashed = clash]
      /\ links' = links /\ nextId' = nextId + 1 /\ failed' = failed
  BY DEF InsertRefused
<1>2. /\ op[o].pc \notin Inserters /\ DOMAIN op = Ops /\ IsOperation(op[o])
      /\ IF op[o].want = NoSlug THEN op[o].slug \in Readings ELSE op[o].slug = op[o].want
  <2> HIDE DEF q, clash
  <2>1. DOMAIN op = Ops /\ IsOperation(op[o]) /\ Looking(o)
    BY DEF IInv, OpInv
  <2> QED
    BY <1>1, <2>1 DEF Looking, Inserters, Generated
<1>3. op' = [op EXCEPT ![o] = q]
  BY <1>1, <1>2
<1>4. clash \in BOOLEAN /\ Refusal(o) \in {"internal_error", "slug_exists"}
  BY DEF Refusal
<1>5. IsOperation(q) /\ q.pc = Refusal(o) /\ q.want = op[o].want /\ q.clashed = clash
  <2> HIDE DEF clash
  <2> QED
    BY <1>2, <1>4 DEF IsOperation, Over
<1>6. op'[o] = q
  BY <1>2, <1>3
<1> HIDE DEF q
<1>7. TooWide(o)' <=> TooWide(o)
  BY <1>5, <1>6 DEF TooWide
<1>8. ASSUME ~TooWide(o), op[o].want # NoSlug PROVE \E i \in DOMAIN links' : LostTo(o, i)'
  <2>1. op[o].slug = op[o].want /\ op[o].want \in Customs
    BY <1>2, <1>8 DEF IsOperation
  <2>2. PICK i \in DOMAIN links : links[i].slug = op[o].want
    BY <1>1, <1>8, <2>1 DEF Taken
  <2>3. links[i].by # o
    BY <1>1, <1>2 DEF IInv, OpInv, Looking
  <2> QED
    BY <1>1, <1>5, <1>6, <1>8, <2>1, <2>2, <2>3, CustomSlugs DEF LostTo, Final, Generated
<1>9. Holding(o)'
  BY <1>4, <1>5, <1>6, <1>7, <1>8 DEF Holding, Refusal
<1> QED
  BY <1>1, <1>2, <1>3, <1>4, <1>5, <1>9, QuietInv

-----------------------------------------------------------------------------
(* The row that is inserted, whether or not its creator hears of it. *)
LEMMA InsertedRow ==
  ASSUME IInv, NEW o \in Ops, op[o].pc = "inserting"
  PROVE  /\ nextId \notin DOMAIN links
         /\ DOMAIN Inserted(o) = DOMAIN links \cup {nextId}
         /\ Inserted(o)[nextId] = [slug |-> op[o].slug, by |-> o]
         /\ \A i \in DOMAIN links : Inserted(o)[i] = links[i] /\ links[i].by # o
<1>1. nextId \in Ids /\ \A i \in DOMAIN links : i \in Ids /\ i < nextId
  BY DEF IInv, RowInv
<1>2. nextId \notin DOMAIN links
  BY <1>1 DEF Ids
<1>3. \A i \in DOMAIN links : links[i].by # o
  BY DEF IInv, OpInv, Looking, Inserters
<1> QED
  BY <1>2, <1>3 DEF Inserted

(* An insert preserves the inductive invariant, whatever its creation hears *)
(* of it.                                                                   *)
LEMMA InsertStep ==
  ASSUME IInv, NEW o \in Ops, NEW q, op[o].pc = "inserting",
         op' = [op EXCEPT ![o] = q], q.want = op[o].want,
         links' = Inserted(o), nextId' = nextId + 1, failed' \in {failed, failed \cup {o}},
         q.want = NoSlug => q.pc = "updating" \/ o \in failed',
         OpInv(o)'
  PROVE  IInv'
<1>1. DOMAIN op = Ops /\ nextId \in Ids /\ IsOperation(op[o])
  BY DEF IInv, OpInv
<1>2. DOMAIN op' = Ops /\ op'[o] = q /\ \A p \in Ops \ {o} : op'[p] = op[p]
  BY <1>1
<1>3. nextId' \in Ids /\ nextId <= nextId' /\ nextId < nextId'
  BY <1>1 DEF Ids
<1>4. /\ nextId \notin DOMAIN links /\ DOMAIN links' = DOMAIN links \cup {nextId}
      /\ links'[nextId] = [slug |-> op[o].slug, by |-> o]
      /\ \A i \in DOMAIN links : links'[i] = links[i] /\ links[i].by # o
  BY InsertedRow
<1>5. Own(o)
  BY <1>2, <1>3, <1>4 DEF Own
<1>6. IF op[o].want = NoSlug THEN op[o].slug \in Readings
      ELSE op[o].slug = op[o].want /\ op[o].slug \notin Readings
  <2>1. Looking(o)
    BY DEF IInv, OpInv
  <2>2. op[o].want # NoSlug => op[o].want \in Customs
    BY <1>1 DEF IsOperation
  <2> QED
    BY <2>1, <2>2, CustomSlugs DEF Looking, Generated
<1>7. ASSUME NEW i \in DOMAIN links', links'[i].by = o PROVE RowInv(i)'
  <2>1. \A j \in DOMAIN links' : links'[j].by = o => j = nextId
    BY <1>4
  <2>2. i = nextId /\ links'[i] = [slug |-> op[o].slug, by |-> o] /\ i \in Ids /\ i < nextId'
    BY <1>1, <1>3, <1>4, <1>7, <2>1
  <2>3. op'[o].want = op[o].want /\ op'[o].pc = q.pc
    BY <1>2
  <2> QED
    BY <1>6, <1>7, <2>1, <2>2, <2>3 DEF RowInv, Generated
<1> QED
  BY <1>5, <1>7, OwnStep

(* An insert that is confirmed preserves the inductive invariant. *)
LEMMA InsertInv ==
  ASSUME IInv, NEW o \in Ops, Insert(o)
  PROVE  IInv'
<1> DEFINE how == IF op[o].want = NoSlug THEN "updating" ELSE "created"
           q == [op[o] EXCEPT !.pc = how, !.id = nextId]
<1>1. /\ op[o].pc = "inserting"
      /\ op' = [op EXCEPT ![o].pc = how, ![o].id = nextId]
      /\ links' = Inserted(o) /\ nextId' = nextId + 1 /\ failed' = failed
  BY DEF Insert
<1>2. DOMAIN op = Ops /\ IsOperation(op[o]) /\ Looking(o)
  BY DEF IInv, OpInv
<1>3. op' = [op EXCEPT ![o] = q] /\ op'[o] = q
  BY <1>1, <1>2
<1>4. /\ IsOperation(q) /\ q.pc = how /\ q.want = op[o].want /\ q.id = nextId
      /\ q.slug = op[o].slug
  BY <1>2 DEF IsOperation, Running, Over
<1> HIDE DEF q
<1>5. nextId \in DOMAIN links' /\ links'[nextId] = [slug |-> op[o].slug, by |-> o]
  BY <1>1, InsertedRow
<1>6. IF op[o].want = NoSlug THEN op[o].slug \in Readings
      ELSE op[o].slug = op[o].want /\ op[o].want \notin Readings
  <2>1. op[o].want # NoSlug => op[o].want \in Customs
    BY <1>2 DEF IsOperation
  <2> QED
    BY <1>1, <1>2, <2>1, CustomSlugs DEF Looking, Generated
<1>7. Looking(o)'
  BY <1>3, <1>4 DEF Looking, Inserters
<1>8. Holding(o)'
  BY <1>3, <1>4, <1>5, <1>6 DEF Holding, Final, Generated
<1>9. OpInv(o)'
  BY <1>3, <1>4, <1>7, <1>8 DEF OpInv
<1> QED
  BY <1>1, <1>3, <1>4, <1>9, InsertStep

-----------------------------------------------------------------------------
(* A creation that is about to call UpdateSlug has one row, with a *)
(* temporary slug.                                                 *)
LEMMA Updating ==
  ASSUME IInv, NEW o \in Ops, op[o].pc = "updating"
  PROVE  /\ op[o].id \in DOMAIN links /\ op[o].id \in Ids /\ op[o].want = NoSlug
         /\ links[op[o].id] \in [slug : Readings, by : {o}]
         /\ \A i \in DOMAIN links : links[i].by = o => i = op[o].id
<1>1. Holding(o)
  BY DEF IInv, OpInv
<1>2. /\ op[o].id \in DOMAIN links /\ op[o].want = NoSlug
      /\ links[op[o].id].by = o /\ links[op[o].id].slug \in Readings
  BY <1>1 DEF Holding, Generated
<1>3. RowInv(op[o].id)
  BY <1>2 DEF IInv
<1> QED
  BY <1>2, <1>3 DEF RowInv

(* The row keeps its temporary slug when its creator gives up. *)
LEMMA GivesUp ==
  ASSUME IInv, NEW o \in Ops, NEW how \in {"slug_exists", "internal_error", "killed"},
         op[o].pc = "updating", op' = [op EXCEPT ![o].pc = how], links' = links,
         nextId' = nextId, failed' \in {failed, failed \cup {o}},
         o \in failed' \/ AskedFor(op[o].id),
         how = "slug_exists" => \E i \in DOMAIN links : LostTo(o, i),
         how = "internal_error" => o \in failed'
  PROVE  IInv'
<1> DEFINE q == [op[o] EXCEPT !.pc = how]
<1>1. DOMAIN op = Ops /\ IsOperation(op[o])
  BY DEF IInv, OpInv
<1>2. op' = [op EXCEPT ![o] = q] /\ op'[o] = q
  BY <1>1
<1>3. IsOperation(q) /\ q.pc = how /\ q.want = op[o].want /\ q.id = op[o].id
  BY <1>1 DEF IsOperation, Over
<1> HIDE DEF q
<1>4. Own(o)
  BY <1>2, <1>3, QuietStep
<1>5. Looking(o)'
  BY <1>2, <1>3 DEF Looking, Inserters
<1>6. how = "slug_exists" => \E i \in DOMAIN links' : LostTo(o, i)'
  BY <1>2, <1>3 DEF LostTo, Final, Generated
<1>7. Holding(o)'
  BY <1>2, <1>3, <1>6 DEF Holding
<1>8. OpInv(o)'
  BY <1>2, <1>3, <1>5, <1>7 DEF OpInv
<1>9. ASSUME NEW i \in DOMAIN links', links'[i].by = o PROVE RowInv(i)'
  <2>1. i = op[o].id /\ i \in DOMAIN links /\ RowInv(i)
    BY <1>9, Updating DEF IInv
  <2>2. AskedFor(i) => AskedFor(i)'
    BY <1>4, AskedForStays
  <2>3. o \in failed' \/ AskedFor(i)'
    BY <2>1, <2>2
  <2> QED
    BY <1>2, <1>3, <1>9, <2>1, <2>3 DEF RowInv, Generated
<1> QED
  BY <1>4, <1>8, <1>9, OwnStep

(* An UpdateSlug that meets a taken slug preserves the inductive invariant. *)
LEMMA UpdateTakenInv ==
  ASSUME IInv, NEW o \in Ops, UpdateTaken(o)
  PROVE  IInv'
<1>1. /\ op[o].pc = "updating" /\ op' = [op EXCEPT ![o].pc = "slug_exists"]
      /\ links' = links /\ nextId' = nextId /\ failed' = failed
  BY DEF UpdateTaken, Ends
<1> DEFINE i == op[o].id
<1>2. /\ i \in DOMAIN links /\ i \in Ids /\ op[o].want = NoSlug
      /\ links[i] \in [slug : Readings, by : {o}]
      /\ \A j \in DOMAIN links : links[j].by = o => j = i
  BY <1>1, Updating
<1>3. PICK j \in DOMAIN links : links[j].slug = Encode(i)
  BY DEF UpdateTaken, Taken
<1>4. links[j].slug \notin Readings
  BY <1>2, <1>3, Encodings
<1>5. j # i /\ links[j].by # o
  BY <1>2, <1>4
<1>6. ~Generated(links[j].by)
  <2>1. RowInv(j) /\ j \in Ids
    BY DEF IInv, RowInv
  <2>2. Generated(links[j].by) => Encode(j) = Encode(i)
    BY <1>3, <1>4, <2>1 DEF RowInv
  <2> QED
    BY <1>2, <1>5, <2>1, <2>2, EncodeDistinct DEF Ids
<1>7. AskedFor(i)
  BY <1>3, <1>4, <1>5, <1>6 DEF AskedFor
<1>8. LostTo(o, j)
  BY <1>2, <1>3, <1>4, <1>5 DEF LostTo, Final, Generated
<1> QED
  BY <1>1, <1>7, <1>8, GivesUp

Renamed(o) == [links EXCEPT ![op[o].id].slug = Encode(op[o].id)]

(* The row gets its slug, whether or not its creator hears of it. *)
LEMMA Renaming ==
  ASSUME IInv, NEW o \in Ops, NEW q, op[o].pc = "updating", ~Taken(Encode(op[o].id)),
         op' = [op EXCEPT ![o] = q], q.want = op[o].want,
         links' = Renamed(o),
         nextId' = nextId, failed' \in {failed, failed \cup {o}}
  PROVE  /\ Own(o) /\ op'[o] = q /\ op[o].id \in DOMAIN links'
         /\ links'[op[o].id] = [slug |-> Encode(op[o].id), by |-> o]
         /\ \A i \in DOMAIN links' : links'[i].by = o => RowInv(i)'
<1> DEFINE k == op[o].id
           slug == Encode(k)
<1>1. DOMAIN op = Ops /\ nextId \in Ids
  BY DEF IInv
<1>2. DOMAIN op' = Ops /\ op'[o] = q /\ \A p \in Ops \ {o} : op'[p] = op[p]
  BY <1>1
<1>3. /\ k \in DOMAIN links /\ k \in Ids /\ op[o].want = NoSlug
      /\ links[k] \in [slug : Readings, by : {o}]
      /\ \A i \in DOMAIN links : links[i].by = o => i = k
  BY Updating
<1>4. slug \notin Readings
  BY <1>3, Encodings
<1> HIDE DEF k, slug
<1>5. links' = [links EXCEPT ![k].slug = slug]
  BY DEF Renamed, k, slug
<1>6. DOMAIN links' = DOMAIN links /\ \A i \in DOMAIN links \ {k} : links'[i] = links[i]
  BY <1>5
<1>7. links'[k] = [slug |-> slug, by |-> o]
  BY <1>3, <1>5
<1>8. Own(o)
  BY <1>1, <1>2, <1>3, <1>6, <1>7 DEF Own, Ids
<1>9. ASSUME NEW i \in DOMAIN links', links'[i].by = o PROVE RowInv(i)'
  <2>1. \A j \in DOMAIN links' : links'[j].by = o => j = k
    BY <1>3, <1>6
  <2>2. i = k /\ RowInv(i) /\ i < nextId
    BY <1>3, <1>9, <2>1 DEF IInv, RowInv
  <2>3. links'[i].slug = Encode(i) /\ links'[i].slug \notin Readings
    BY <1>4, <1>7, <2>2 DEF slug
  <2> QED
    BY <1>3, <1>7, <1>9, <2>1, <2>2, <2>3 DEF RowInv
<1> QED
  BY <1>2, <1>3, <1>6, <1>7, <1>8, <1>9 DEF k, slug

(* UpdateSlug preserves the inductive invariant. *)
LEMMA UpdateSlugInv ==
  ASSUME IInv, NEW o \in Ops, UpdateSlug(o)
  PROVE  IInv'
<1> DEFINE slug == Encode(op[o].id)
           q == [op[o] EXCEPT !.pc = "created", !.slug = slug]
<1>1. /\ op[o].pc = "updating" /\ ~Taken(slug)
      /\ op' = [op EXCEPT ![o].pc = "created", ![o].slug = slug]
      /\ links' = Renamed(o)
      /\ nextId' = nextId /\ failed' = failed
  BY DEF UpdateSlug, Renamed
<1>2. DOMAIN op = Ops /\ IsOperation(op[o])
  BY DEF IInv, OpInv
<1>3. op[o].id \in Ids /\ op[o].want = NoSlug
  BY <1>1, Updating
<1>4. slug \notin Readings
  BY <1>3, Encodings
<1>5. op' = [op EXCEPT ![o] = q]
  BY <1>1, <1>2
<1>6. /\ IsOperation(q) /\ q.pc = "created" /\ q.want = NoSlug /\ q.id = op[o].id
      /\ q.slug = slug
  BY <1>2, <1>3 DEF IsOperation, Over
<1> HIDE DEF q
<1>7. /\ Own(o) /\ op'[o] = q /\ op[o].id \in DOMAIN links'
      /\ links'[op[o].id] = [slug |-> slug, by |-> o]
      /\ \A i \in DOMAIN links' : links'[i].by = o => RowInv(i)'
  <2>1. /\ op[o].pc = "updating" /\ ~Taken(Encode(op[o].id)) /\ q.want = op[o].want
        /\ links' = Renamed(o) /\ nextId' = nextId /\ failed' \in {failed, failed \cup {o}}
    BY <1>1, <1>3, <1>6
  <2> QED
    BY <1>5, <2>1, Renaming
<1>8. Looking(o)'
  BY <1>6, <1>7 DEF Looking, Inserters
<1>9. Holding(o)'
  BY <1>4, <1>6, <1>7 DEF Holding, Final, Generated
<1>10. OpInv(o)'
  BY <1>6, <1>7, <1>8, <1>9 DEF OpInv
<1> QED
  BY <1>7, <1>10, OwnStep

-----------------------------------------------------------------------------
(* The operation ends without a row of its own. *)
LEMMA EndsInv ==
  ASSUME IInv, NEW o \in Ops, NEW how \in {"added", "removed", "internal_error"},
         op[o].pc \notin Inserters, op' = [op EXCEPT ![o].pc = how], links' = links,
         nextId' = nextId, failed' \in {failed, failed \cup {o}},
         how = "internal_error" => o \in failed'
  PROVE  IInv'
<1> DEFINE q == [op[o] EXCEPT !.pc = how]
<1>1. DOMAIN op = Ops /\ IsOperation(op[o])
  BY DEF IInv, OpInv
<1>2. op' = [op EXCEPT ![o] = q] /\ op'[o] = q
  BY <1>1
<1>3. IsOperation(q) /\ q.pc = how
  BY <1>1 DEF IsOperation, Over
<1> HIDE DEF q
<1>4. Holding(o)'
  BY <1>2, <1>3 DEF Holding
<1> QED
  BY <1>2, <1>3, <1>4, QuietInv

(* Reading the sum of weights preserves the inductive invariant. *)
LEMMA SumInv ==
  ASSUME IInv, NEW o \in Ops, Sum(o)
  PROVE  IInv'
<1> DEFINE sum == SumWeights(op[o].id)
           how == IF Excessive(sum, op[o].weight) THEN "invalid_weight" ELSE "adding"
           saw == {v.by : v \in Of(op[o].id)}
           q == [op[o] EXCEPT !.pc = how, !.sum = sum, !.seen = saw]
<1> HIDE DEF sum, saw
<1>1. /\ op[o].pc = "summing" /\ op' = [op EXCEPT ![o] = q]
      /\ links' = links /\ nextId' = nextId /\ failed' = failed
  BY DEF Sum, sum, saw
<1>2. DOMAIN op = Ops /\ IsOperation(op[o]) /\ op[o].pc \notin Inserters
  BY <1>1 DEF IInv, OpInv, Inserters
<1>3. IsOperation(q) /\ q.pc \in {"invalid_weight", "adding"}
  BY <1>2 DEF IsOperation, Running, Over
<1>4. op'[o] = q
  BY <1>1, <1>2
<1> HIDE DEF q
<1>5. Holding(o)'
  BY <1>3, <1>4 DEF Holding
<1> QED
  BY <1>1, <1>2, <1>3, <1>5, QuietInv

(* Adding or removing a variant preserves the inductive invariant. *)
LEMMA VariantInv ==
  ASSUME IInv, NEW o \in Ops, Variant(o)
  PROVE  IInv'
<1>1. CASE \E link \in DOMAIN links, weight \in Weights : BeginVariant(o, link, weight)
  BY <1>1, BeginInv
<1>2. CASE Add(o)
  BY <1>2, EndsInv DEF Add, Ends, Inserters
<1>3. CASE \E v \in variants : RemoveVariant(o, v)
  BY <1>3, EndsInv DEF RemoveVariant, Ends, Inserters
<1> QED
  BY <1>1, <1>2, <1>3, SumInv DEF Variant

(* A failing statement preserves the inductive invariant. *)
LEMMA QueryFailsInv ==
  ASSUME IInv, NEW o \in Ops, QueryFails(o)
  PROVE  IInv'
<1>1. /\ op' = [op EXCEPT ![o].pc = "internal_error"] /\ links' = links /\ nextId' = nextId
      /\ failed' = failed \cup {o} /\ o \in failed'
  BY DEF QueryFails, Ends
<1>2. CASE op[o].pc = "updating"
  BY <1>1, <1>2, GivesUp
<1>3. CASE op[o].pc # "updating"
  <2>1. op[o].pc \notin Inserters
    BY <1>3 DEF QueryFails, Running, Inserters
  <2> QED
    BY <1>1, <2>1, EndsInv
<1> QED
  BY <1>2, <1>3

UnconfirmedInsert(o) ==
  /\ op[o].pc = "inserting" /\ ~TooWide(o) /\ ~Taken(op[o].slug)
  /\ links' = Inserted(o) /\ nextId' = nextId + 1

UnconfirmedUpdate(o) ==
  /\ op[o].pc = "updating" /\ ~Taken(Encode(op[o].id))
  /\ links' = Renamed(o) /\ nextId' = nextId

UnconfirmedAdd(o) == op[o].pc = "adding" /\ links' = links /\ nextId' = nextId

(* A statement that is not confirmed is an insert, an UpdateSlug or a new *)
(* variant, and its operation ends in an error.                           *)
LEMMA UnconfirmedCases ==
  ASSUME NEW o \in Ops, Unconfirmed(o)
  PROVE  /\ UnconfirmedInsert(o) \/ UnconfirmedUpdate(o) \/ UnconfirmedAdd(o)
         /\ op' = [op EXCEPT ![o].pc = "internal_error"]
         /\ failed' = failed \cup {o}
BY DEF Unconfirmed, Ends, UnconfirmedInsert, UnconfirmedUpdate, UnconfirmedAdd, Renamed

(* A statement that is not confirmed preserves the inductive invariant. *)
LEMMA UnconfirmedInv ==
  ASSUME IInv, NEW o \in Ops, Unconfirmed(o)
  PROVE  IInv'
<1> DEFINE q == [op[o] EXCEPT !.pc = "internal_error"]
<1>1. /\ op' = [op EXCEPT ![o].pc = "internal_error"]
      /\ failed' \in {failed, failed \cup {o}} /\ o \in failed'
  BY UnconfirmedCases
<1>2. DOMAIN op = Ops /\ IsOperation(op[o])
  BY DEF IInv, OpInv
<1>3. op' = [op EXCEPT ![o] = q] /\ op'[o] = q
  BY <1>1, <1>2
<1>4. IsOperation(q) /\ q.pc = "internal_error" /\ q.want = op[o].want
  BY <1>2 DEF IsOperation, Over
<1> HIDE DEF q
<1>5. OpInv(o)'
  <2>1. Looking(o)'
    BY <1>3, <1>4 DEF Looking, Inserters
  <2>2. Holding(o)'
    BY <1>1, <1>3, <1>4 DEF Holding
  <2> QED
    BY <1>3, <1>4, <2>1, <2>2 DEF OpInv
<1>6. CASE UnconfirmedInsert(o)
  <2>1. op[o].pc = "inserting" /\ links' = Inserted(o) /\ nextId' = nextId + 1
    BY <1>6 DEF UnconfirmedInsert
  <2> QED
    BY <1>1, <1>3, <1>4, <1>5, <2>1, InsertStep
<1>7. CASE UnconfirmedUpdate(o)
  <2>1. /\ op[o].pc = "updating" /\ ~Taken(Encode(op[o].id))
        /\ links' = Renamed(o) /\ nextId' = nextId
    BY <1>7 DEF UnconfirmedUpdate
  <2>2. Own(o) /\ \A i \in DOMAIN links' : links'[i].by = o => RowInv(i)'
    BY <1>1, <1>3, <1>4, <2>1, Renaming
  <2> QED
    BY <1>5, <2>2, OwnStep
<1>8. CASE UnconfirmedAdd(o)
  BY <1>1, <1>8, EndsInv DEF UnconfirmedAdd, Inserters
<1> QED
  BY <1>6, <1>7, <1>8, UnconfirmedCases

(* A crash preserves the inductive invariant. *)
LEMMA CrashInv ==
  ASSUME IInv, Crash
  PROVE  IInv'
<1> DEFINE running == {o \in Ops : op[o].pc \in Running}
<1>1. /\ op' = [o \in Ops |-> IF o \in running THEN [op[o] EXCEPT !.pc = "killed"] ELSE op[o]]
      /\ failed' = failed \cup running /\ links' = links /\ nextId' = nextId
  BY DEF Crash
<1>2. DOMAIN op = Ops /\ nextId \in Ids
  BY DEF IInv
<1>3. ASSUME NEW o \in Ops
      PROVE  /\ IsOperation(op[o]) /\ IsOperation(op'[o])
             /\ op'[o].want = op[o].want /\ op'[o].id = op[o].id
             /\ o \in running => op'[o].pc = "killed" /\ o \in failed'
             /\ o \notin running => op'[o] = op[o] /\ (o \in failed' <=> o \in failed)
  <2>1. IsOperation(op[o])
    BY DEF IInv, OpInv
  <2>2. CASE o \in running
    <3>1. op'[o] = [op[o] EXCEPT !.pc = "killed"]
      BY <1>1, <2>2
    <3> QED
      BY <1>1, <2>1, <2>2, <3>1 DEF IsOperation, Over
  <2>3. CASE o \notin running
    BY <1>1, <2>1, <2>3
  <2> QED
    BY <2>2, <2>3
<1>4. \A o \in Ops : o \notin running => op[o].pc \notin Running
  OBVIOUS
<1> HIDE DEF running
<1>5. ASSUME NEW o \in Ops PROVE OpInv(o)'
  <2>1. Looking(o) /\ Holding(o)
    BY DEF IInv, OpInv
  <2>2. CASE o \in running
    BY <1>1, <1>3, <2>2 DEF OpInv, Looking, Holding, Inserters
  <2>3. CASE o \notin running
    <3>1. op'[o] = op[o] /\ IsOperation(op'[o]) /\ (o \in failed' <=> o \in failed)
      BY <1>3, <2>3
    <3>2. Looking(o)'
      BY <1>1, <2>1, <3>1 DEF Looking, Generated
    <3>3. Holding(o)'
      BY <1>1, <2>1, <3>1 DEF Holding, LostTo, Final, Generated, TooWide
    <3> QED
      BY <3>1, <3>2, <3>3 DEF OpInv
  <2> QED
    BY <2>2, <2>3
<1>6. ASSUME NEW i \in DOMAIN links', AskedFor(i) PROVE AskedFor(i)'
  <2>1. \A j \in DOMAIN links : links[j].by \in Ops
    BY DEF IInv, RowInv
  <2> QED
    BY <1>1, <1>3, <1>6, <2>1 DEF AskedFor, Generated
<1>7. ASSUME NEW i \in DOMAIN links' PROVE RowInv(i)'
  <2>1. RowInv(i)
    BY <1>1 DEF IInv
  <2> DEFINE o == links[i].by
  <2>2. o \in Ops /\ op'[o].want = op[o].want /\ (o \in failed => o \in failed')
    BY <1>1, <1>3, <2>1 DEF RowInv
  <2>3. op[o].pc = "updating" => op'[o].pc = "updating" \/ o \in failed'
    BY <1>3, <2>2
  <2> HIDE DEF o
  <2> QED
    BY <1>1, <1>6, <2>1, <2>2, <2>3 DEF RowInv, Generated, o
<1> QED
  BY <1>1, <1>2, <1>5, <1>7 DEF IInv

(* Every step preserves the inductive invariant. *)
LEMMA StepInv == IInv /\ [Next]_vars => IInv'
<1> SUFFICES ASSUME IInv, [Next]_vars PROVE IInv'
  OBVIOUS
<1>1. ASSUME NEW o \in Ops, Creation(o) PROVE IInv'
  BY <1>1, BeginInv, CheckSlugInv, InsertRefusedInv, InsertInv, UpdateTakenInv, UpdateSlugInv
     DEF Creation
<1>2. CASE UNCHANGED vars
  BY <1>2 DEF vars, IInv, OpInv, RowInv, Looking, Holding, LostTo, Final, AskedFor, Generated,
              TooWide
<1> QED
  BY <1>1, <1>2, VariantInv, QueryFailsInv, UnconfirmedInv, CrashInv DEF Next

(* The inductive invariant holds in every reachable state. *)
LEMMA Invariant == Spec => []IInv
BY InitInv, StepInv, PTL DEF Spec

-----------------------------------------------------------------------------
(* Create never returns a link that the table does not hold under the slug  *)
(* returned, nor a generated slug that leads to another id.                *)
THEOREM Creations == Spec => []CreatedIsStored
<1>1. IInv => CreatedIsStored
  <2> SUFFICES ASSUME IInv, NEW o \in Ops, op[o].pc = "created"
               PROVE  /\ links[op[o].id] = [slug |-> op[o].slug, by |-> o]
                      /\ IF Generated(o) THEN op[o].slug \notin Readings /\ Decode(op[o].slug) = op[o].id
                         ELSE op[o].slug = op[o].want
    BY DEF CreatedIsStored
  <2>1. /\ op[o].id \in DOMAIN links /\ links[op[o].id] = [slug |-> op[o].slug, by |-> o]
        /\ op[o].slug \notin Readings /\ op[o].slug = Final(o)
    BY DEF IInv, OpInv, Holding
  <2>2. op[o].id \in Ids
    BY <2>1 DEF IInv, RowInv
  <2>3. Decode(Encode(op[o].id)) = op[o].id
    BY <2>2, RoundTrip DEF Ids
  <2> QED
    BY <2>1, <2>3 DEF Final
<1> QED
  BY <1>1, Invariant, PTL

(* A temporary slug that stays in the table has one of its three causes. *)
THEOREM Leftovers == Spec => []LeftoverHasCause
<1>1. IInv => LeftoverHasCause
  BY DEF IInv, RowInv, AskedFor, LeftoverHasCause
<1> QED
  BY <1>1, Invariant, PTL

(* Create's errors say what happened, also with the width that the          *)
(* migration declares.                                                     *)
THEOREM Honesty == Spec => []ErrorsAreHonest
<1>1. IInv => ErrorsAreHonest
  <2> SUFFICES ASSUME IInv, NEW o \in Ops
               PROVE  /\ op[o].pc = "slug_exists" =>
                           \/ op[o].clashed
                           \/ \E i \in DOMAIN links :
                                /\ links[i].by # o
                                /\ links[i].slug = IF Generated(o) THEN Encode(op[o].id) ELSE op[o].want
                      /\ op[o].pc = "internal_error" => o \in failed \/ TooWide(o)
    BY DEF ErrorsAreHonest
  <2>1. Holding(o)
    BY DEF IInv, OpInv
  <2>2. op[o].pc = "slug_exists" => op[o].clashed \/ \E i \in DOMAIN links : LostTo(o, i)
    BY <2>1 DEF Holding
  <2>3. op[o].pc = "internal_error" => o \in failed \/ TooWide(o)
    BY <2>1 DEF Holding
  <2> QED
    BY <2>2, <2>3 DEF LostTo, Final
<1> QED
  BY <1>1, Invariant, PTL

-----------------------------------------------------------------------------
(* Sums of weights. *)
Total(S) == MapThenSumSet(LAMBDA v : v.weight, S)

Weighted(S) == IsFiniteSet(S) /\ \A v \in S : v.weight \in Weights

(* Every variant once for every unit of its weight. *)
Units(S) == {u \in S \X Weights : u[2] <= u[1].weight}

(* Finitely many variants have finitely many units of weight. *)
LEMMA FiniteUnits ==
  ASSUME NEW S, Weighted(S)
  PROVE  IsFiniteSet(Units(S)) /\ Cardinality(Units(S)) \in Nat
<1>1. IsFiniteSet(Weights)
  BY SlugAssumption, FS_Interval DEF Weights
<1>2. IsFiniteSet(S \X Weights)
  BY <1>1, FS_Product DEF Weighted
<1>3. Units(S) \in SUBSET (S \X Weights)
  BY DEF Units
<1> QED
  BY <1>2, <1>3, FS_Subset, FS_CardinalityType

(* A variant has as many units as its weight. *)
LEMMA UnitsOfOne ==
  ASSUME NEW v, v.weight \in Weights
  PROVE  IsFiniteSet(Units({v})) /\ Cardinality(Units({v})) = v.weight
<1> DEFINE f == [k \in 1..v.weight |-> <<v, k>>]
<1>1. v.weight \in Nat /\ 1..v.weight \subseteq Weights
  BY SlugAssumption DEF Weights
<1>2. Units({v}) = {<<v, k>> : k \in 1..v.weight}
  BY <1>1 DEF Units, Weights
<1>3. f \in Bijection(1..v.weight, Units({v}))
  BY <1>2 DEF Bijection, Injection, Surjection, IsInjective
<1>4. ExistsBijection(1..v.weight, Units({v}))
  BY <1>3 DEF ExistsBijection
<1> QED
  BY <1>1, <1>4, FS_CountingElements, FS_NatBijection

(* A further variant adds its weight to the units. *)
LEMMA UnitsAdd ==
  ASSUME NEW S, NEW v, Weighted(S), v.weight \in Weights, v \notin S
  PROVE  Weighted(S \cup {v}) /\ Cardinality(Units(S \cup {v})) = Cardinality(Units(S)) + v.weight
<1>1. Weighted(S \cup {v})
  BY FS_AddElement DEF Weighted
<1>2. Units(S \cup {v}) = Units(S) \cup Units({v})
  BY DEF Units
<1>3. Units(S) \cap Units({v}) = {}
  BY DEF Units
<1>4. IsFiniteSet(Units(S)) /\ Cardinality(Units(S)) \in Nat
  BY FiniteUnits
<1>5. IsFiniteSet(Units({v})) /\ Cardinality(Units({v})) = v.weight /\ v.weight \in Nat
  BY UnitsOfOne, SlugAssumption DEF Weights
<1>6. Cardinality(Units(S) \cup Units({v})) = Cardinality(Units(S)) + Cardinality(Units({v})) - Cardinality(Units(S) \cap Units({v}))
  BY <1>4, <1>5, FS_Union
<1>7. Cardinality(Units(S) \cap Units({v})) = 0
  BY <1>3, FS_EmptySet
<1>8. Cardinality(Units(S \cup {v})) = Cardinality(Units(S) \cup Units({v}))
  BY <1>2
<1> HIDE DEF Units
<1>9. Cardinality(Units(S \cup {v})) = Cardinality(Units(S)) + v.weight
  BY <1>4, <1>5, <1>6, <1>7, <1>8
<1> QED
  BY <1>1, <1>9

Some(S) == CHOOSE x \in S : TRUE

SumDef(g, S) == IF S = {} THEN 0 ELSE Some(S).weight + g[S \ {Some(S)}]

(* The number of units solves the recursion that defines the sum. *)
LEMMA UnitsDef ==
  ASSUME NEW S, Weighted(S), S # {}
  PROVE  /\ Weighted(S \ {Some(S)})
         /\ Cardinality(S \ {Some(S)}) = Cardinality(S) - 1
         /\ Cardinality(Units(S)) = Some(S).weight + Cardinality(Units(S \ {Some(S)}))
<1>1. Some(S) \in S
  BY DEF Some
<1>2. Weighted(S \ {Some(S)}) /\ Cardinality(S \ {Some(S)}) = Cardinality(S) - 1
  BY <1>1, FS_RemoveElement DEF Weighted
<1>3. S = (S \ {Some(S)}) \cup {Some(S)} /\ Some(S).weight \in Weights
  BY <1>1 DEF Weighted
<1>4. Cardinality(Units((S \ {Some(S)}) \cup {Some(S)})) = Cardinality(Units(S \ {Some(S)})) + Some(S).weight
  BY <1>2, <1>3, UnitsAdd
<1>5. Cardinality(Units(S \ {Some(S)})) \in Nat /\ Some(S).weight \in Nat
  BY <1>2, <1>3, FiniteUnits, SlugAssumption DEF Weights
<1>6. Cardinality(Units(S)) = Cardinality(Units((S \ {Some(S)}) \cup {Some(S)}))
  BY <1>3
<1> QED
  BY <1>2, <1>4, <1>5, <1>6

(* The sum is what there are units: they solve its recursion, and a subset  *)
(* of least size where another solution differed would have one element     *)
(* less where it differed too.                                             *)
LEMMA TotalUnits ==
  ASSUME NEW S, Weighted(S)
  PROVE  Total(S) = Cardinality(Units(S))
<1> DEFINE Recursive(g) == g = [T \in SUBSET S |-> SumDef(g, T)]
           w == [T \in SUBSET S |-> Cardinality(Units(T))]
           total == CHOOSE g : Recursive(g)
<1>1. Total(S) = total[S]
  BY DEF Total, MapThenSumSet, MapThenFoldSet, SumDef, Some
<1>2. \A T \in SUBSET S : Weighted(T) /\ Cardinality(T) \in Nat
  BY FS_Subset, FS_CardinalityType DEF Weighted
<1>3. Cardinality(Units({})) = 0
  <2>1. Units({}) = {}
    BY DEF Units
  <2> QED
    BY <2>1, FS_EmptySet
<1>4. ASSUME NEW T \in SUBSET S, T # {}
      PROVE  /\ T \ {Some(T)} \in SUBSET S
             /\ Cardinality(T \ {Some(T)}) = Cardinality(T) - 1
             /\ w[T] = Some(T).weight + w[T \ {Some(T)}]
  BY <1>2, <1>4, UnitsDef
<1>5. \A T \in SUBSET S : w[T] = SumDef(w, T)
  BY <1>3, <1>4 DEF SumDef
<1>6. Recursive(w)
  <2> HIDE DEF w
  <2>1. w = [T \in SUBSET S |-> w[T]]
    BY DEF w
  <2> QED
    BY <1>5, <2>1
<1>7. Recursive(total)
  <2> HIDE DEF Recursive, w
  <2> QED
    BY <1>6
<1>8. \A T \in SUBSET S : total[T] = SumDef(total, T)
  <2> HIDE DEF total
  <2> QED
    BY <1>7
<1> HIDE DEF w, total, Recursive
<1>9. \A T \in SUBSET S : total[T] = w[T]
  <2> DEFINE Wrong == {T \in SUBSET S : total[T] # w[T]}
             Sizes == {Cardinality(T) : T \in Wrong}
  <2> SUFFICES ASSUME Wrong # {} PROVE FALSE
    OBVIOUS
  <2>1. Sizes \in SUBSET Nat /\ Sizes # {}
    BY <1>2
  <2> HIDE DEF Wrong
  <2>2. PICK n \in Sizes : \A m \in Sizes : n <= m
    BY <2>1, LeastNatural
  <2>3. PICK T \in Wrong : n = Cardinality(T)
    BY <2>2
  <2>4. T \in SUBSET S /\ total[T] # w[T] /\ Cardinality(T) \in Nat
    BY <1>2, <2>3 DEF Wrong
  <2>5. T # {}
    BY <1>5, <1>8, <2>4 DEF SumDef
  <2> DEFINE R == T \ {Some(T)}
  <2>6. R \in SUBSET S /\ Cardinality(R) = Cardinality(T) - 1
    BY <1>4, <2>4, <2>5
  <2>7. total[R] # w[R]
    BY <1>5, <1>8, <2>4, <2>5 DEF SumDef
  <2>8. Cardinality(R) \in Sizes
    BY <2>6, <2>7 DEF Wrong
  <2>9. n <= Cardinality(R)
    BY <2>2, <2>8
  <2> QED
    BY <2>3, <2>4, <2>6, <2>9
<1>10. S \in SUBSET S
  OBVIOUS
<1> QED
  BY <1>1, <1>9, <1>10 DEF w

(* A further variant adds its weight to the sum. *)
LEMMA TotalAdd ==
  ASSUME NEW S, NEW v, Weighted(S), v.weight \in Weights, v \notin S
  PROVE  Weighted(S \cup {v}) /\ Total(S \cup {v}) = Total(S) + v.weight
BY UnitsAdd, TotalUnits

(* A part of the variants weighs no more than all of them. *)
LEMMA TotalSubset ==
  ASSUME NEW S, NEW T \in SUBSET S, Weighted(S)
  PROVE  Weighted(T) /\ Total(T) \in Nat /\ Total(S) \in Nat /\ Total(T) <= Total(S)
<1>1. Weighted(T)
  BY FS_Subset DEF Weighted
<1>2. Units(T) \in SUBSET Units(S)
  BY DEF Units
<1> QED
  BY <1>1, <1>2, FiniteUnits, TotalUnits, FS_Subset

-----------------------------------------------------------------------------
(* The invariant of the weights. Of the variants of a link, those that an   *)
(* operation has seen were in the sum it found small enough, and with them  *)
(* whatever they have seen: of any variants of which each two have seen one *)
(* another's, one has seen all.                                             *)
Before(o, link) == {v \in Of(link) : v.by \in op[o].seen}

Fits(o, link, weight) ==
  /\ Total(Before(o, link)) + weight <= FullWeight
  /\ \A v \in Before(o, link) : Before(v.by, link) \subseteq Before(o, link)

WeighingInv(o) ==
  /\ \A p \in op[o].seen : p \in Ops /\ op[p].pc \in Over /\ p # o
  /\ op[o].pc \in {"summing", "adding"} => op[o].weight \in Weights
  /\ op[o].pc = "adding" => Fits(o, op[o].id, op[o].weight)

IsVariant(v) ==
  v = [link |-> v.link, by |-> v.by, weight |-> v.weight] /\ v.by \in Ops /\ v.weight \in Weights

Weighed(v) ==
  IsVariant(v) /\ op[v.by].pc \in Over /\ Fits(v.by, v.link, v.weight)

VariantsInv ==
  /\ IsFiniteSet(variants)
  /\ \A v \in variants : Weighed(v)
  /\ \A v, w \in variants : v.by = w.by => v = w

WeightInv == VariantsInv /\ \A o \in Ops : WeighingInv(o)

(* A link's variants, and those an operation has seen, can be weighed. *)
LEMMA WeightedVariants ==
  ASSUME VariantsInv, NEW link
  PROVE  /\ Weighted(Of(link))
         /\ \A o : Before(o, link) \in SUBSET Of(link) /\ Weighted(Before(o, link))
<1>1. Of(link) \in SUBSET variants
  BY DEF Of
<1>2. Weighted(Of(link))
  BY <1>1, FS_Subset DEF VariantsInv, Weighed, IsVariant, Weighted
<1>3. \A o : Before(o, link) \in SUBSET Of(link)
  BY DEF Before
<1> QED
  BY <1>2, <1>3, TotalSubset

(* The invariant of the weights holds initially. *)
LEMMA InitWeights == Init => WeightInv
<1> SUFFICES ASSUME Init PROVE WeightInv
  OBVIOUS
<1>1. \A o \in Ops : WeighingInv(o)
  BY DEF Init, WeighingInv, Waiting
<1>2. VariantsInv
  BY FS_EmptySet DEF Init, VariantsInv
<1> QED
  BY <1>1, <1>2 DEF WeightInv

-----------------------------------------------------------------------------
(* Whoever is through stays so, and nobody has seen a variant that is new.  *)
Settled ==
  /\ \A p \in Ops : op[p].pc \in Over => op'[p].pc \in Over /\ op'[p].seen = op[p].seen
  /\ \A v \in variants' : v \in variants \/ \A p \in Ops : v.by \notin op[p].seen

(* A weight that fits still does when nothing is added. *)
LEMMA FitsStill ==
  ASSUME VariantsInv, Settled, NEW o \in Ops, op'[o].seen = op[o].seen,
         NEW link, NEW weight \in Weights, Fits(o, link, weight)
  PROVE  Fits(o, link, weight)'
<1>1. \A p \in Ops : op'[p].seen = op[p].seen =>
        Before(p, link)' = Before(p, link) \cap variants'
  BY DEF Settled, Before, Of
<1>2. Weighted(Before(o, link)) /\ Before(o, link)' \in SUBSET Before(o, link)
  BY <1>1, WeightedVariants
<1>3. /\ Total(Before(o, link)') \in Nat /\ Total(Before(o, link)) \in Nat
      /\ Total(Before(o, link)') <= Total(Before(o, link))
  BY <1>2, TotalSubset
<1>4. Total(Before(o, link)') + weight <= FullWeight
  BY <1>3, SlugAssumption DEF Fits, Weights
<1>5. \A v \in Before(o, link)' : Before(v.by, link)' \subseteq Before(o, link)'
  <2>1. \A v \in Before(o, link) : v.by \in Ops /\ op'[v.by].seen = op[v.by].seen
    BY DEF Before, Of, VariantsInv, Weighed, IsVariant, Settled
  <2> QED
    BY <1>1, <2>1 DEF Fits
<1> QED
  BY <1>4, <1>5 DEF Fits

(* A step that adds no variant leaves the weighed ones weighed. *)
LEMMA VariantStays ==
  ASSUME VariantsInv, Settled, NEW v \in variants
  PROVE  Weighed(v)'
<1>1. /\ IsVariant(v) /\ v.by \in Ops /\ v.weight \in Weights /\ Fits(v.by, v.link, v.weight)
      /\ op'[v.by].pc \in Over /\ op'[v.by].seen = op[v.by].seen
  BY DEF VariantsInv, Weighed, IsVariant, Settled
<1>2. Fits(v.by, v.link, v.weight)'
  BY <1>1, FitsStill
<1> QED
  BY <1>1, <1>2 DEF Weighed, IsVariant

(* A step after which an operation has seen what it had, and is on its way  *)
(* to add a variant only if it was.                                        *)
Keeps(o) ==
  /\ op'[o].seen = op[o].seen
  /\ op[o].pc \in Over => op'[o].pc \in Over
  /\ op'[o].pc \in {"summing", "adding"} => op'[o].weight \in Weights
  /\ op'[o].pc = "adding" =>
       op[o].pc = "adding" /\ op'[o].id = op[o].id /\ op'[o].weight = op[o].weight

(* A step of another operation keeps what a weighing operation knows. *)
LEMMA KeepsWeighing ==
  ASSUME VariantsInv, Settled, NEW o \in Ops, WeighingInv(o), Keeps(o)
  PROVE  WeighingInv(o)'
<1>1. \A p \in op'[o].seen : p \in Ops /\ op'[p].pc \in Over /\ p # o
  BY DEF WeighingInv, Keeps, Settled
<1>2. ASSUME op'[o].pc = "adding" PROVE Fits(o, op[o].id, op[o].weight)'
  <2> DEFINE link == op[o].id
             weight == op[o].weight
  <2>1. weight \in Weights /\ Fits(o, link, weight) /\ op'[o].seen = op[o].seen
    BY <1>2 DEF WeighingInv, Keeps
  <2>2. PICK l, w : l = link /\ w = weight
    OBVIOUS
  <2>3. Fits(o, l, w)'
    BY <2>1, <2>2, FitsStill
  <2>4. op'[o].id = l /\ op'[o].weight = w
    BY <1>2, <2>2 DEF Keeps
  <2> QED
    BY <2>3, <2>4
<1> QED
  BY <1>1, <1>2 DEF WeighingInv, Keeps

(* No variant is added, and each operation keeps what it has seen. *)
LEMMA WeightsStay ==
  ASSUME WeightInv, variants' \subseteq variants, \A o \in Ops : Keeps(o)
  PROVE  WeightInv'
<1>1. VariantsInv /\ Settled
  BY DEF WeightInv, Settled, Keeps
<1>2. \A o \in Ops : WeighingInv(o)'
  BY <1>1, KeepsWeighing DEF WeightInv
<1>3. VariantsInv'
  <2>1. IsFiniteSet(variants')
    BY <1>1, FS_Subset DEF VariantsInv
  <2>2. \A v \in variants' : Weighed(v)'
    BY <1>1, VariantStays
  <2> QED
    BY <1>1, <2>1, <2>2 DEF VariantsInv
<1> QED
  BY <1>2, <1>3 DEF WeightInv

(* The sum: every variant of the link is seen from now on. *)
LEMMA SumWeighs ==
  ASSUME WeightInv, IInv, NEW o \in Ops, Sum(o)
  PROVE  WeightInv'
<1>1. PICK link, weight : link = op[o].id /\ weight = op[o].weight
  OBVIOUS
<1>2. /\ variants' = variants
      /\ op[o].pc = "summing" /\ weight \in Weights
      /\ op'[o].seen = {v.by : v \in Of(link)}
      /\ op'[o].id = link /\ op'[o].weight = weight
      /\ op'[o].pc = IF Excessive(SumWeights(link), weight) THEN "invalid_weight" ELSE "adding"
      /\ \A p \in Ops : p # o => op'[p] = op[p]
  <2> DEFINE sum == SumWeights(link)
             saw == {v.by : v \in Of(link)}
             how == IF Excessive(sum, weight) THEN "invalid_weight" ELSE "adding"
             q == [op[o] EXCEPT !.pc = how, !.sum = sum, !.seen = saw]
  <2>1. op' = [op EXCEPT ![o] = q] /\ op[o].pc = "summing" /\ variants' = variants
    BY <1>1 DEF Sum
  <2>2. DOMAIN op = Ops /\ IsOperation(op[o]) /\ WeighingInv(o)
    BY DEF WeightInv, IInv, OpInv
  <2>3. weight \in Weights
    BY <1>1, <2>1, <2>2 DEF WeighingInv
  <2> HIDE DEF sum, saw, how
  <2>4. q.seen = saw /\ q.id = link /\ q.weight = weight /\ q.pc = how
    BY <1>1, <2>2 DEF IsOperation
  <2> HIDE DEF q
  <2>5. op'[o] = q /\ \A p \in Ops : p # o => op'[p] = op[p]
    BY <2>1, <2>2
  <2> QED
    BY <2>1, <2>3, <2>4, <2>5 DEF sum, saw, how
<1>3. VariantsInv /\ Settled
  BY <1>2 DEF WeightInv, Settled, Over
<1>4. VariantsInv'
  <2>1. \A v \in variants : Weighed(v)'
    BY <1>3, VariantStays
  <2> QED
    BY <1>2, <1>3, <2>1 DEF VariantsInv
<1>5. ASSUME NEW p \in Ops, p # o PROVE WeighingInv(p)'
  <2>1. WeighingInv(p) /\ Keeps(p)
    BY <1>2, <1>5 DEF WeightInv, WeighingInv, Keeps
  <2> QED
    BY <1>3, <2>1, KeepsWeighing
<1>6. \A p \in op'[o].seen : p \in Ops /\ op'[p].pc \in Over /\ p # o
  <2>1. \A v \in Of(link) : v.by \in Ops /\ op[v.by].pc \in Over
    BY <1>3 DEF Of, VariantsInv, Weighed, IsVariant
  <2>2. op[o].pc \notin Over
    BY <1>2 DEF Over
  <2> QED
    BY <1>2, <2>1, <2>2
<1>7. ASSUME op'[o].pc = "adding" PROVE Fits(o, link, weight)'
  <2>1. Before(o, link)' = Of(link)
    BY <1>2 DEF Before, Of
  <2>2. \A v : Before(v.by, link)' \subseteq Of(link)
    BY <1>2 DEF Before, Of
  <2>3. Total(Of(link)) = SumWeights(link)
    BY DEF Total, SumWeights
  <2>4. Total(Of(link)) \in Nat
    BY <1>3, WeightedVariants, TotalSubset
  <2>5. ~Excessive(SumWeights(link), weight)
    BY <1>2, <1>7
  <2>6. Total(Of(link)) + weight <= FullWeight
    BY <1>2, <2>3, <2>4, <2>5, SlugAssumption DEF Excessive, Weights
  <2> QED
    BY <2>1, <2>2, <2>6 DEF Fits
<1>8. WeighingInv(o)'
  <2>1. op'[o].pc = "adding" => Fits(o, op[o].id, op[o].weight)'
    <3>1. op'[o].id = link /\ op'[o].weight = weight
      BY <1>2
    <3> QED
      BY <1>7, <3>1
  <2> QED
    BY <1>2, <1>6, <2>1 DEF WeighingInv
<1> QED
  BY <1>4, <1>5, <1>8 DEF WeightInv

(* The insert: the variant fits, as its operation made sure of. *)
LEMMA AddWeighs ==
  ASSUME WeightInv, NEW o \in Ops, op[o].pc = "adding", variants' = Added(o),
         op'[o].pc \in Over, op'[o].seen = op[o].seen, \A p \in Ops : p # o => op'[p] = op[p]
  PROVE  WeightInv'
<1>1. PICK x : x = [link |-> op[o].id, by |-> o, weight |-> op[o].weight]
  OBVIOUS
<1>2. /\ variants' = variants \cup {x} /\ x.by = o
      /\ IsVariant(x) /\ x.weight \in Weights /\ Fits(o, x.link, x.weight)
  BY <1>1 DEF Added, WeightInv, WeighingInv, IsVariant
<1>3. op[o].pc \notin Over
  BY DEF Over
<1>4. VariantsInv /\ Settled
  BY <1>2, <1>3 DEF WeightInv, WeighingInv, Settled
<1>5. \A p \in Ops : WeighingInv(p)'
  <2>1. ASSUME NEW p \in Ops PROVE WeighingInv(p) /\ Keeps(p)
    <3>1. CASE p = o
      BY <3>1 DEF WeightInv, Keeps, Over
    <3>2. CASE p # o
      BY <3>2 DEF WeightInv, WeighingInv, Keeps
    <3> QED
      BY <3>1, <3>2
  <2> QED
    BY <1>4, <2>1, KeepsWeighing
<1>6. Weighed(x)'
  <2>1. Fits(o, x.link, x.weight)'
    BY <1>2, <1>4, FitsStill
  <2> QED
    BY <1>2, <2>1 DEF Weighed, IsVariant
<1>7. \A v \in variants : Weighed(v)' /\ v.by # o
  BY <1>3, <1>4, VariantStays DEF VariantsInv, Weighed
<1>8. IsFiniteSet(variants')
  BY <1>2, <1>4, FS_AddElement DEF VariantsInv
<1> QED
  BY <1>2, <1>4, <1>5, <1>6, <1>7, <1>8 DEF WeightInv, VariantsInv

(* A step of one operation that takes no sum and adds no variant. *)
LEMMA MoveWeighs ==
  ASSUME WeightInv, variants' \subseteq variants, NEW o \in Ops, Keeps(o),
         \A p \in Ops : p # o => op'[p] = op[p]
  PROVE  WeightInv'
<1>1. \A p \in Ops : Keeps(p)
  BY DEF WeightInv, WeighingInv, Keeps
<1> QED
  BY <1>1, WeightsStay

(* So when the operation ends, or goes on to its insert. *)
LEMMA EndWeighs ==
  ASSUME WeightInv, IInv, variants' \subseteq variants, NEW o \in Ops, NEW how,
         op[o].pc \notin Over, Ends(o, how), how \notin {"summing", "adding"}
  PROVE  WeightInv'
<1>1. DOMAIN op = Ops /\ IsOperation(op[o])
  BY DEF IInv, OpInv
<1>2. Keeps(o) /\ \A p \in Ops : p # o => op'[p] = op[p]
  BY <1>1 DEF Ends, Keeps, IsOperation
<1> QED
  BY <1>2, MoveWeighs

(* The steps of a creation keep the invariant of the weights. *)
LEMMA CreationWeighs ==
  ASSUME WeightInv, IInv, NEW o \in Ops, Creation(o)
  PROVE  WeightInv'
<1>1. DOMAIN op = Ops /\ IsOperation(op[o])
  BY DEF IInv, OpInv
<1>2. variants' = variants
  <2>1. \A slug : BeginCustom(o, slug) \/ BeginGenerated(o, slug) => variants' = variants
    BY DEF BeginCustom, BeginGenerated
  <2>2. CheckSlug(o) \/ InsertRefused(o) \/ Insert(o) \/ UpdateTaken(o) \/ UpdateSlug(o)
          => variants' = variants
    BY DEF CheckSlug, InsertRefused, Insert, UpdateTaken, UpdateSlug
  <2> QED
    BY <2>1, <2>2 DEF Creation
<1>3. ASSUME NEW want, BeginCustom(o, want) PROVE WeightInv'
  <2>1. Keeps(o) /\ \A p \in Ops : p # o => op'[p] = op[p]
    BY <1>1, <1>3 DEF BeginCustom, Keeps, IsOperation, Over
  <2> QED
    BY <1>2, <2>1, MoveWeighs
<1>4. ASSUME NEW reading, BeginGenerated(o, reading) PROVE WeightInv'
  <2>1. Keeps(o) /\ \A p \in Ops : p # o => op'[p] = op[p]
    BY <1>1, <1>4 DEF BeginGenerated, Keeps, IsOperation, Over
  <2> QED
    BY <1>2, <2>1, MoveWeighs
<1>5. CASE CheckSlug(o)
  BY <1>2, <1>5, EndWeighs DEF CheckSlug, Over
<1>6. CASE InsertRefused(o)
  <2>1. Refusal(o) \in {"internal_error", "slug_exists"}
    BY DEF Refusal
  <2>2. Keeps(o) /\ \A p \in Ops : p # o => op'[p] = op[p]
    BY <1>1, <1>6, <2>1 DEF InsertRefused, Keeps, IsOperation, Over
  <2> QED
    BY <1>2, <2>2, MoveWeighs
<1>7. CASE Insert(o)
  <2>1. Keeps(o) /\ \A p \in Ops : p # o => op'[p] = op[p]
    BY <1>1, <1>7 DEF Insert, Keeps, IsOperation, Over
  <2> QED
    BY <1>2, <2>1, MoveWeighs
<1>8. CASE UpdateTaken(o)
  BY <1>2, <1>8, EndWeighs DEF UpdateTaken, Over
<1>9. CASE UpdateSlug(o)
  <2>1. Keeps(o) /\ \A p \in Ops : p # o => op'[p] = op[p]
    BY <1>1, <1>9 DEF UpdateSlug, Keeps, IsOperation, Over
  <2> QED
    BY <1>2, <2>1, MoveWeighs
<1> QED
  BY <1>3, <1>4, <1>5, <1>6, <1>7, <1>8, <1>9 DEF Creation

(* The steps of CreateABTest and DeleteABTest keep the invariant of the *)
(* weights.                                                             *)
LEMMA VariantWeighs ==
  ASSUME WeightInv, IInv, NEW o \in Ops, Variant(o)
  PROVE  WeightInv'
<1>1. DOMAIN op = Ops /\ IsOperation(op[o])
  BY DEF IInv, OpInv
<1>2. ASSUME NEW link, NEW weight \in Weights, BeginVariant(o, link, weight) PROVE WeightInv'
  <2>1. Keeps(o) /\ (\A p \in Ops : p # o => op'[p] = op[p]) /\ variants' = variants
    BY <1>1, <1>2 DEF BeginVariant, Keeps, IsOperation, Over
  <2> QED
    BY <2>1, MoveWeighs
<1>3. CASE Add(o)
  <2>1. /\ op[o].pc = "adding" /\ variants' = Added(o) /\ op'[o].pc \in Over
        /\ op'[o].seen = op[o].seen /\ \A p \in Ops : p # o => op'[p] = op[p]
    BY <1>1, <1>3 DEF Add, Ends, IsOperation, Over
  <2> QED
    BY <2>1, AddWeighs
<1>4. ASSUME NEW v \in variants, RemoveVariant(o, v) PROVE WeightInv'
  BY <1>4, EndWeighs DEF RemoveVariant, Over
<1> QED
  BY <1>2, <1>3, <1>4, SumWeighs DEF Variant

(* A failing or unconfirmed statement keeps the invariant of the weights. *)
LEMMA FailureWeighs ==
  ASSUME WeightInv, IInv, NEW o \in Ops, QueryFails(o) \/ Unconfirmed(o)
  PROVE  WeightInv'
<1>1. DOMAIN op = Ops /\ IsOperation(op[o])
  BY DEF IInv, OpInv
<1>2. op[o].pc \notin Over /\ Ends(o, "internal_error")
  BY DEF QueryFails, Unconfirmed, Running, Over
<1>3. CASE variants' = variants
  BY <1>2, <1>3, EndWeighs
<1>4. CASE op[o].pc = "adding" /\ variants' = Added(o)
  <2>1. /\ op'[o].pc \in Over /\ op'[o].seen = op[o].seen
        /\ \A p \in Ops : p # o => op'[p] = op[p]
    BY <1>1, <1>2 DEF Ends, IsOperation, Over
  <2> QED
    BY <1>4, <2>1, AddWeighs
<1> QED
  BY <1>3, <1>4 DEF QueryFails, Unconfirmed

(* A crash keeps the invariant of the weights. *)
LEMMA CrashWeighs ==
  ASSUME WeightInv, IInv, Crash
  PROVE  WeightInv'
<1>1. DOMAIN op = Ops /\ \A o \in Ops : IsOperation(op[o])
  BY DEF IInv, OpInv
<1>2. \A o \in Ops :
        \/ op'[o] = op[o]
        \/ op[o].pc \in Running /\ op'[o] = [op[o] EXCEPT !.pc = "killed"]
  BY DEF Crash
<1>3. ASSUME NEW o \in Ops PROVE Keeps(o)
  <2>1. CASE op'[o] = op[o]
    BY <2>1 DEF WeightInv, WeighingInv, Keeps
  <2>2. CASE op[o].pc \in Running /\ op'[o] = [op[o] EXCEPT !.pc = "killed"]
    BY <1>1, <2>2 DEF Keeps, IsOperation, Running, Over
  <2> QED
    BY <1>2, <2>1, <2>2
<1> QED
  BY <1>3, WeightsStay DEF Crash

(* Every step keeps the invariant of the weights. *)
LEMMA StepWeights == WeightInv /\ IInv /\ [Next]_vars => WeightInv'
<1> SUFFICES ASSUME WeightInv, IInv, [Next]_vars PROVE WeightInv'
  OBVIOUS
<1>1. CASE UNCHANGED vars
  <2>1. variants' = variants /\ \A o \in Ops : Keeps(o)
    BY <1>1 DEF vars, WeightInv, WeighingInv, Keeps
  <2> QED
    BY <2>1, WeightsStay
<1> QED
  BY <1>1, CreationWeighs, VariantWeighs, FailureWeighs, CrashWeighs DEF Next

-----------------------------------------------------------------------------
(* Of some variants, one has seen the most of them. *)
LEMMA MostSeen ==
  ASSUME VariantsInv, NEW link, Of(link) # {}
  PROVE  \E v \in Of(link) : \A w \in Of(link) :
           Cardinality(Before(w.by, link)) <= Cardinality(Before(v.by, link))
<1> DEFINE All == Cardinality(Of(link))
           seen(v) == Cardinality(Before(v.by, link))
           Unseen == {All - seen(v) : v \in Of(link)}
<1>1. All \in Nat /\ \A v \in Of(link) : seen(v) \in Nat /\ seen(v) <= All
  BY WeightedVariants, FS_Subset, FS_CardinalityType DEF Weighted
<1> HIDE DEF All, seen
<1>2. \A v \in Of(link) : All - seen(v) \in Nat
  BY <1>1
<1>3. Unseen \in SUBSET Nat /\ Unseen # {}
  BY <1>2
<1>4. PICK n \in Unseen : \A m \in Unseen : n <= m
  BY <1>3, LeastNatural
<1>5. PICK v \in Of(link) : n = All - seen(v)
  BY <1>4
<1>6. \A w \in Of(link) : All - seen(v) <= All - seen(w)
  BY <1>4, <1>5
<1>7. \A w \in Of(link) : seen(w) <= seen(v)
  BY <1>1, <1>6
<1> QED
  BY <1>7 DEF seen

(* Without overlap that one has seen all others: whoever had not been seen  *)
(* would have seen it, and so more.                                        *)
LEMMA SomeHasSeenAll ==
  ASSUME WeightInv, NEW link, Of(link) # {},
         \A v, w \in Of(link) : v # w => v.by \in op[w.by].seen \/ w.by \in op[v.by].seen
  PROVE  \E v \in Of(link) : Of(link) = Before(v.by, link) \cup {v} /\ v \notin Before(v.by, link)
<1>1. PICK v \in Of(link) : \A w \in Of(link) :
        Cardinality(Before(w.by, link)) <= Cardinality(Before(v.by, link))
  BY MostSeen DEF WeightInv
<1>2. ASSUME NEW w \in Of(link)
      PROVE  w.by \in Ops /\ w.link = link /\ Fits(w.by, link, w.weight) /\ w \notin Before(w.by, link)
  BY DEF Of, WeightInv, VariantsInv, Weighed, IsVariant, WeighingInv, Before
<1>3. ASSUME NEW w \in Of(link), w # v, w.by \notin op[v.by].seen PROVE FALSE
  <2> DEFINE B == Before(v.by, link)
             C == Before(w.by, link)
  <2>1. v \in C
    BY <1>3 DEF Before
  <2>2. B \subseteq C
    BY <1>2, <2>1 DEF Fits
  <2>3. v \notin B
    BY <1>2
  <2>4. IsFiniteSet(C)
    BY WeightedVariants DEF WeightInv, Weighted
  <2>5. IsFiniteSet(B) /\ Cardinality(B) <= Cardinality(C) /\ (Cardinality(B) = Cardinality(C) => C = B)
    BY <2>2, <2>4, FS_Subset
  <2>6. Cardinality(B) \in Nat /\ Cardinality(C) \in Nat /\ Cardinality(C) <= Cardinality(B)
    BY <1>1, <2>4, <2>5, FS_CardinalityType
  <2> QED
    BY <2>1, <2>3, <2>5, <2>6
<1>4. Of(link) = Before(v.by, link) \cup {v}
  BY <1>3 DEF Before
<1> QED
  BY <1>2, <1>4

(* Weights beyond the full weight take two additions that overlapped, for   *)
(* any weights and any number of additions, deletions and failures.        *)
THEOREM Overlaps == Spec => []OverweightHasOverlap
<1>1. WeightInv => OverweightHasOverlap
  <2> SUFFICES ASSUME WeightInv, NEW link \in DOMAIN links, SumWeights(link) > FullWeight,
                      \A v, w \in Of(link) :
                        v # w => v.by \in op[w.by].seen \/ w.by \in op[v.by].seen
               PROVE  FALSE
    BY DEF OverweightHasOverlap
  <2>1. Total(Of(link)) = SumWeights(link)
    BY DEF Total, SumWeights
  <2>2. CASE Of(link) = {}
    <3>1. Weighted({}) /\ Units({}) = {}
      BY FS_EmptySet DEF Weighted, Units
    <3>2. Total({}) = 0
      BY <3>1, TotalUnits, FS_EmptySet
    <3> QED
      BY <2>1, <2>2, <3>2, SlugAssumption
  <2>3. CASE Of(link) # {}
    <3>1. PICK v \in Of(link) :
            Of(link) = Before(v.by, link) \cup {v} /\ v \notin Before(v.by, link)
      BY <2>3, SomeHasSeenAll
    <3>2. v.weight \in Weights /\ Fits(v.by, link, v.weight)
      BY DEF Of, WeightInv, VariantsInv, Weighed, IsVariant
    <3>3. Weighted(Before(v.by, link))
      BY WeightedVariants DEF WeightInv
    <3>4. Total(Before(v.by, link) \cup {v}) = Total(Before(v.by, link)) + v.weight
      BY <3>1, <3>2, <3>3, TotalAdd
    <3>5. SumWeights(link) <= FullWeight
      BY <2>1, <3>1, <3>2, <3>4 DEF Fits
    <3>6. SumWeights(link) \in Nat
      BY <2>1, WeightedVariants, TotalSubset DEF WeightInv
    <3> QED
      BY <3>5, <3>6, SlugAssumption
  <2> QED
    BY <2>2, <2>3
<1>2. Spec => []WeightInv
  BY Invariant, InitWeights, StepWeights, PTL DEF Spec
<1> QED
  BY <1>1, <1>2, PTL

-----------------------------------------------------------------------------
(* The refinement of SlugTable. *)
Published == {<<links[i].slug, i>> : i \in Permanent}

Told == {<<op[o].slug, op[o].id>> : o \in Created}

Publishes(p) ==
  /\ \A r \in Published : r[1] # p[1] /\ r[2] # p[2]
  /\ Published' = Published \cup {p}
  /\ Told' \in {Told, Told \cup {p}}

(* Giving a slug to a link is a step of SlugTable. *)
LEMMA PublishMaps ==
  ASSUME NEW p, Publishes(p)
  PROVE  Table!Next
<1>1. p \in Published'
  BY DEF Publishes
<1>2. Table!Publish(p)
  BY DEF Publishes, Published, Told, Table!Publish, Table!Free
<1> QED
  BY <1>1, <1>2 DEF Table!Next, Published

(* The initial states map to the initial states of SlugTable. *)
LEMMA InitMaps == Init => Table!Init
<1> SUFFICES ASSUME Init PROVE Published = {} /\ Told = {}
  BY DEF Table!Init, Published, Told
<1>1. Permanent = {} /\ Created = {}
  BY DEF Init, Permanent, Created, Waiting
<1> QED
  BY <1>1 DEF Published, Told

(* A step that creates nothing and leaves the permanent rows. *)
LEMMA SameTable ==
  ASSUME Permanent' = Permanent, \A i \in Permanent : links'[i] = links[i]
  PROVE  Published' = Published
BY DEF Published

(* An operation that does not end well tells nobody anything. *)
LEMMA SameTold ==
  ASSUME NEW o \in Ops, \A q \in Ops \ {o} : op'[q] = op[q],
         op[o].pc # "created", op'[o].pc # "created"
  PROVE  Told' = Told
<1>1. Created' = Created /\ \A q \in Created : op'[q] = op[q]
  BY DEF Created
<1> QED
  BY <1>1 DEF Told

(* A creation that ends well tells its client the slug and the id. *)
LEMMA MoreTold ==
  ASSUME NEW o \in Ops, \A q \in Ops \ {o} : op'[q] = op[q],
         op[o].pc # "created", op'[o].pc = "created"
  PROVE  Told' = Told \cup {<<op'[o].slug, op'[o].id>>}
<1>1. Created' = Created \cup {o} /\ o \notin Created /\ \A q \in Created : op'[q] = op[q]
  BY DEF Created
<1> QED
  BY <1>1 DEF Told

(* Insert of a custom slug, of which the creator may hear. *)
LEMMA InsertPublishes ==
  ASSUME IInv, NEW o \in Ops, op[o].pc = "inserting", ~Taken(op[o].slug), ~Generated(o),
         links' = Inserted(o), Told' \in {Told, Told \cup {<<op[o].slug, nextId>>}}
  PROVE  Publishes(<<op[o].slug, nextId>>)
<1>1. /\ nextId \notin DOMAIN links /\ DOMAIN links' = DOMAIN links \cup {nextId}
      /\ links'[nextId] = [slug |-> op[o].slug, by |-> o]
      /\ \A i \in DOMAIN links : links'[i] = links[i]
  BY InsertedRow
<1>2. op[o].slug \notin Readings
  <2>1. IsOperation(op[o]) /\ Looking(o)
    BY DEF IInv, OpInv
  <2>2. op[o].slug = op[o].want /\ op[o].want \in Customs
    BY <2>1 DEF IsOperation, Looking, Generated
  <2> QED
    BY <2>2, CustomSlugs
<1>3. Permanent' = Permanent \cup {nextId}
  BY <1>1, <1>2 DEF Permanent
<1>4. Published' = Published \cup {<<op[o].slug, nextId>>}
  BY <1>1, <1>3 DEF Published, Permanent
<1>5. \A r \in Published : r[1] # op[o].slug /\ r[2] # nextId
  BY <1>1 DEF Published, Permanent, Taken
<1> QED
  BY <1>4, <1>5 DEF Publishes

(* Insert of a temporary slug. *)
LEMMA InsertHides ==
  ASSUME IInv, NEW o \in Ops, op[o].pc = "inserting", Generated(o), links' = Inserted(o)
  PROVE  Published' = Published
<1>1. /\ nextId \notin DOMAIN links /\ DOMAIN links' = DOMAIN links \cup {nextId}
      /\ links'[nextId] = [slug |-> op[o].slug, by |-> o]
      /\ \A i \in DOMAIN links : links'[i] = links[i]
  BY InsertedRow
<1>2. op[o].slug \in Readings
  BY DEF IInv, OpInv, Looking
<1>3. Permanent' = Permanent /\ \A i \in Permanent : links'[i] = links[i]
  BY <1>1, <1>2 DEF Permanent
<1> QED
  BY <1>3, SameTable

(* UpdateSlug gives a slug to a link, whether it is confirmed or not. *)
LEMMA UpdatePublishes ==
  ASSUME IInv, NEW o \in Ops, op[o].pc = "updating", ~Taken(Encode(op[o].id)),
         links' = Renamed(o), Told' \in {Told, Told \cup {<<Encode(op[o].id), op[o].id>>}}
  PROVE  Publishes(<<Encode(op[o].id), op[o].id>>)
<1> DEFINE k == op[o].id
           slug == Encode(k)
<1>1. k \in DOMAIN links /\ k \in Ids /\ links[k] \in [slug : Readings, by : {o}]
  BY Updating
<1>2. slug \notin Readings
  BY <1>1, Encodings
<1> HIDE DEF k, slug
<1>3. links' = [links EXCEPT ![k].slug = slug]
  BY DEF Renamed, k, slug
<1>4. /\ DOMAIN links' = DOMAIN links /\ links'[k].slug = slug
      /\ \A i \in DOMAIN links \ {k} : links'[i] = links[i]
  BY <1>1, <1>3
<1>5. Permanent' = Permanent \cup {k} /\ k \notin Permanent
  BY <1>1, <1>2, <1>4 DEF Permanent
<1>6. Published' = Published \cup {<<slug, k>>}
  BY <1>4, <1>5 DEF Published, Permanent
<1>7. \A r \in Published : r[1] # slug /\ r[2] # k
  BY <1>5 DEF Published, Permanent, Taken, slug, k
<1> QED
  BY <1>6, <1>7 DEF Publishes, slug, k

(* What a step does to the record of its operation, and to no other. *)
LEMMA Touches ==
  ASSUME IInv, NEW o \in Ops, NEW q, op' = [op EXCEPT ![o] = q]
  PROVE  op'[o] = q /\ \A p \in Ops \ {o} : op'[p] = op[p]
BY DEF IInv

(* A step that only moves one operation on leaves the others alone. *)
LEMMA TouchesState ==
  ASSUME IInv, NEW o \in Ops, NEW how, op' = [op EXCEPT ![o].pc = how]
  PROVE  /\ op'[o].pc = how /\ \A p \in Ops \ {o} : op'[p] = op[p]
<1>1. DOMAIN op = Ops /\ IsOperation(op[o])
  BY DEF IInv, OpInv
<1>2. op'[o] = [op[o] EXCEPT !.pc = how] /\ \A p \in Ops \ {o} : op'[p] = op[p]
  BY <1>1
<1> QED
  BY <1>1, <1>2 DEF IsOperation

Stutters == Published' = Published /\ Told' = Told

(* A step that writes no link and creates none. *)
LEMMA QuietMaps ==
  ASSUME NEW o \in Ops, links' = links, \A p \in Ops \ {o} : op'[p] = op[p],
         op[o].pc # "created", op'[o].pc # "created"
  PROVE  Stutters
BY SameTable, SameTold DEF Permanent, Stutters

(* Beginning an operation is a stutter of SlugTable. *)
LEMMA BeginMaps ==
  ASSUME IInv, NEW o \in Ops,
         \/ \E want \in Customs : BeginCustom(o, want)
         \/ \E reading \in Readings : BeginGenerated(o, reading)
         \/ \E link \in DOMAIN links, weight \in Weights : BeginVariant(o, link, weight)
  PROVE  Stutters
<1>1. op[o].pc = "waiting" /\ op[o] = Waiting /\ DOMAIN op = Ops /\ links' = links
  BY DEF IInv, OpInv, Looking, BeginCustom, BeginGenerated, BeginVariant
<1>2. PICK q : op' = [op EXCEPT ![o] = q] /\ q.pc \in {"checking", "inserting", "summing"}
  <2>1. ASSUME NEW want \in Customs, BeginCustom(o, want)
        PROVE  \E q : op' = [op EXCEPT ![o] = q] /\ q.pc \in {"checking", "inserting", "summing"}
    <3> DEFINE q == [Waiting EXCEPT !.pc = "checking", !.want = want, !.slug = want]
    <3>1. op' = [op EXCEPT ![o] = q] /\ q.pc = "checking"
      BY <1>1, <2>1 DEF BeginCustom, Waiting
    <3> HIDE DEF q
    <3> QED
      BY <3>1
  <2>2. ASSUME NEW reading \in Readings, BeginGenerated(o, reading)
        PROVE  \E q : op' = [op EXCEPT ![o] = q] /\ q.pc \in {"checking", "inserting", "summing"}
    <3> DEFINE q == [Waiting EXCEPT !.pc = "inserting", !.slug = reading]
    <3>1. op' = [op EXCEPT ![o] = q] /\ q.pc = "inserting"
      BY <1>1, <2>2 DEF BeginGenerated, Waiting
    <3> HIDE DEF q
    <3> QED
      BY <3>1
  <2>3. ASSUME NEW link \in DOMAIN links, NEW weight \in Weights, BeginVariant(o, link, weight)
        PROVE  \E q : op' = [op EXCEPT ![o] = q] /\ q.pc \in {"checking", "inserting", "summing"}
    <3> DEFINE q == [Waiting EXCEPT !.pc = "summing", !.id = link, !.weight = weight]
    <3>1. op' = [op EXCEPT ![o] = q] /\ q.pc = "summing"
      BY <1>1, <2>3 DEF BeginVariant, Waiting
    <3> HIDE DEF q
    <3> QED
      BY <3>1
  <2> QED
    BY <2>1, <2>2, <2>3
<1>3. op'[o] = q /\ \A p \in Ops \ {o} : op'[p] = op[p]
  BY <1>2, Touches
<1> QED
  BY <1>1, <1>2, <1>3, QuietMaps

(* An operation that ends badly is a stutter of SlugTable. *)
LEMMA EndsMaps ==
  ASSUME IInv, NEW o \in Ops, NEW how, how # "created", op[o].pc # "created",
         op' = [op EXCEPT ![o].pc = how], links' = links
  PROVE  Stutters
BY TouchesState, QuietMaps

(* A refused insert is a stutter of SlugTable. *)
LEMMA InsertRefusedMaps ==
  ASSUME IInv, NEW o \in Ops, InsertRefused(o)
  PROVE  Stutters
<1> DEFINE clash == ~TooWide(o) /\ op[o].want = NoSlug
           q == [op[o] EXCEPT !.pc = Refusal(o), !.clashed = clash]
<1>1. DOMAIN op = Ops /\ IsOperation(op[o])
  BY DEF IInv, OpInv
<1>2. op' = [op EXCEPT ![o].pc = Refusal(o), ![o].clashed = clash]
  BY DEF InsertRefused
<1>3. op' = [op EXCEPT ![o] = q]
  BY <1>1, <1>2
<1>4. q.pc = Refusal(o) /\ Refusal(o) # "created"
  BY <1>1 DEF IsOperation, Refusal
<1>5. op[o].pc # "created" /\ links' = links
  BY DEF InsertRefused
<1> HIDE DEF q
<1>6. op'[o] = q /\ \A p \in Ops \ {o} : op'[p] = op[p]
  BY <1>3, Touches
<1> QED
  BY <1>4, <1>5, <1>6, QuietMaps

(* An insert is a step of SlugTable, or a stutter for a temporary slug. *)
LEMMA InsertMaps ==
  ASSUME IInv, NEW o \in Ops, Insert(o)
  PROVE  Table!Next \/ Stutters
<1> DEFINE how == IF op[o].want = NoSlug THEN "updating" ELSE "created"
           q == [op[o] EXCEPT !.pc = how, !.id = nextId]
<1>1. /\ op[o].pc = "inserting" /\ ~Taken(op[o].slug)
      /\ op' = [op EXCEPT ![o].pc = how, ![o].id = nextId] /\ links' = Inserted(o)
  BY DEF Insert
<1>2. DOMAIN op = Ops /\ IsOperation(op[o])
  BY DEF IInv, OpInv
<1>3. op' = [op EXCEPT ![o] = q]
  BY <1>1, <1>2
<1>4. q.pc = how /\ q.slug = op[o].slug /\ q.id = nextId
  BY <1>2 DEF IsOperation
<1> HIDE DEF q
<1>5. op'[o] = q /\ \A p \in Ops \ {o} : op'[p] = op[p]
  BY <1>3, Touches
<1>6. CASE Generated(o)
  BY <1>1, <1>4, <1>5, <1>6, InsertHides, SameTold DEF Generated, Stutters
<1>7. CASE ~Generated(o)
  <2>1. Told' = Told \cup {<<op[o].slug, nextId>>}
    BY <1>1, <1>4, <1>5, <1>7, MoreTold DEF Generated
  <2>2. Publishes(<<op[o].slug, nextId>>)
    BY <1>1, <1>7, <2>1, InsertPublishes
  <2> QED
    BY <2>2, PublishMaps
<1> QED
  BY <1>6, <1>7

(* UpdateSlug is a step of SlugTable. *)
LEMMA UpdateSlugMaps ==
  ASSUME IInv, NEW o \in Ops, UpdateSlug(o)
  PROVE  Table!Next
<1> DEFINE slug == Encode(op[o].id)
           q == [op[o] EXCEPT !.pc = "created", !.slug = slug]
<1>1. /\ op[o].pc = "updating" /\ ~Taken(slug)
      /\ op' = [op EXCEPT ![o].pc = "created", ![o].slug = slug]
      /\ links' = Renamed(o)
  BY DEF UpdateSlug, Renamed
<1>2. DOMAIN op = Ops /\ IsOperation(op[o])
  BY DEF IInv, OpInv
<1>3. op' = [op EXCEPT ![o] = q]
  BY <1>1, <1>2
<1>4. q.pc = "created" /\ q.slug = slug /\ q.id = op[o].id
  BY <1>2 DEF IsOperation
<1> HIDE DEF q
<1>5. op'[o] = q /\ \A p \in Ops \ {o} : op'[p] = op[p]
  BY <1>3, Touches
<1>6. Told' = Told \cup {<<slug, op[o].id>>}
  BY <1>1, <1>4, <1>5, MoreTold
<1>7. Publishes(<<Encode(op[o].id), op[o].id>>)
  BY <1>1, <1>6, UpdatePublishes
<1> QED
  BY <1>7, PublishMaps

(* Reading the sum of weights is a stutter of SlugTable. *)
LEMMA SumMaps ==
  ASSUME IInv, NEW o \in Ops, Sum(o)
  PROVE  Stutters
<1> DEFINE sum == SumWeights(op[o].id)
           how == IF Excessive(sum, op[o].weight) THEN "invalid_weight" ELSE "adding"
           saw == {v.by : v \in Of(op[o].id)}
           q == [op[o] EXCEPT !.pc = how, !.sum = sum, !.seen = saw]
<1> HIDE DEF sum, saw
<1>1. /\ op[o].pc = "summing" /\ op' = [op EXCEPT ![o] = q] /\ links' = links
  BY DEF Sum, sum, saw
<1>2. q.pc # "created"
  BY DEF IInv, OpInv, IsOperation
<1> HIDE DEF q
<1>3. op'[o] = q /\ \A p \in Ops \ {o} : op'[p] = op[p]
  BY <1>1, Touches
<1> QED
  BY <1>1, <1>2, <1>3, QuietMaps

(* What was lost on its way to the creator is in the table all the same. *)
LEMMA UnconfirmedMaps ==
  ASSUME IInv, NEW o \in Ops, Unconfirmed(o)
  PROVE  Table!Next \/ Stutters
<1>1. op' = [op EXCEPT ![o].pc = "internal_error"]
  BY UnconfirmedCases
<1>2. op'[o].pc = "internal_error" /\ \A p \in Ops \ {o} : op'[p] = op[p]
  BY <1>1, TouchesState
<1>3. op[o].pc # "created"
  BY DEF Unconfirmed
<1>4. Told' = Told
  BY <1>2, <1>3, SameTold
<1>5. CASE UnconfirmedInsert(o)
  <2>1. op[o].pc = "inserting" /\ ~Taken(op[o].slug) /\ links' = Inserted(o)
    BY <1>5 DEF UnconfirmedInsert
  <2>2. CASE Generated(o)
    BY <1>4, <2>1, <2>2, InsertHides DEF Stutters
  <2>3. CASE ~Generated(o)
    BY <1>4, <2>1, <2>3, InsertPublishes, PublishMaps
  <2> QED
    BY <2>2, <2>3
<1>6. CASE UnconfirmedUpdate(o)
  <2>1. op[o].pc = "updating" /\ ~Taken(Encode(op[o].id)) /\ links' = Renamed(o)
    BY <1>6 DEF UnconfirmedUpdate
  <2> QED
    BY <1>4, <2>1, UpdatePublishes, PublishMaps
<1>7. CASE UnconfirmedAdd(o)
  BY <1>2, <1>3, <1>7, QuietMaps DEF UnconfirmedAdd
<1> QED
  BY <1>5, <1>6, <1>7, UnconfirmedCases

(* A crash is a stutter of SlugTable. *)
LEMMA CrashMaps ==
  ASSUME IInv, Crash
  PROVE  Stutters
<1>1. /\ op' = [o \in Ops |-> IF op[o].pc \in Running THEN [op[o] EXCEPT !.pc = "killed"] ELSE op[o]]
      /\ links' = links
  BY DEF Crash
<1>2. \A o \in Ops : IsOperation(op[o])
  BY DEF IInv, OpInv
<1>3. \A o \in Ops : op'[o].pc = "created" \/ op[o].pc = "created" => op'[o] = op[o]
  BY <1>1, <1>2 DEF IsOperation, Running
<1>4. Created' = Created /\ \A o \in Created : op'[o] = op[o]
  BY <1>3 DEF Created
<1>5. Told' = Told
  BY <1>4 DEF Told
<1> QED
  BY <1>1, <1>5, SameTable DEF Permanent, Stutters

(* Every step is a step of SlugTable or a stutter. *)
LEMMA StepMaps == IInv /\ [Next]_vars => [Table!Next]_(Table!vars)
<1> SUFFICES ASSUME IInv, [Next]_vars
             PROVE  Table!Next \/ Stutters
  BY DEF Table!vars, Published, Told, Stutters
<1>1. ASSUME NEW o \in Ops, Creation(o)
      PROVE  Table!Next \/ Stutters
  <2>1. CASE CheckSlug(o)
    BY <2>1, EndsMaps DEF CheckSlug, Ends
  <2>2. CASE UpdateTaken(o)
    BY <2>2, EndsMaps DEF UpdateTaken, Ends
  <2> QED
    BY <1>1, <2>1, <2>2, BeginMaps, InsertRefusedMaps, InsertMaps, UpdateSlugMaps DEF Creation
<1>2. ASSUME NEW o \in Ops, Variant(o)
      PROVE  Stutters
  <2>1. CASE Add(o)
    BY <2>1, EndsMaps DEF Add, Ends
  <2>2. CASE \E v \in variants : RemoveVariant(o, v)
    BY <2>2, EndsMaps DEF RemoveVariant, Ends
  <2> QED
    BY <1>2, <2>1, <2>2, BeginMaps, SumMaps DEF Variant
<1>3. ASSUME NEW o \in Ops, QueryFails(o)
      PROVE  Stutters
  BY <1>3, EndsMaps DEF QueryFails, Ends, Running
<1>4. CASE UNCHANGED vars
  BY <1>4 DEF vars, Published, Told, Permanent, Created, Stutters
<1> QED
  BY <1>1, <1>2, <1>3, <1>4, UnconfirmedMaps, CrashMaps DEF Next

(* Every statement of every creation is a step of SlugTable or none. *)
THEOREM Implements == Spec => ImplementsSlugTable
<1>1. Spec => Table!Spec
  BY Invariant, InitMaps, StepMaps, PTL DEF Spec, Table!Spec
<1> QED
  BY <1>1 DEF ImplementsSlugTable
=============================================================================
