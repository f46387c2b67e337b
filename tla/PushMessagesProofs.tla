------------------------- MODULE PushMessagesProofs -------------------------
(***************************************************************************)
(* A block that is written as bytes and parsed again is the same block.    *)
(***************************************************************************)
EXTENDS PushMessages, FiniteSetTheorems, TLAPS

(* Lists *)

\* A list is a function on 1..n; so is every such function.
LEMMA ListForm ==
    ASSUME NEW s
    PROVE  /\ IsList(s) => /\ Len(s) \in Nat /\ DOMAIN s = 1..Len(s)
                           /\ s = [i \in 1..Len(s) |-> s[i]]
           /\ \A n \in Nat : s = [i \in 1..n |-> s[i]] => IsList(s) /\ Len(s) = n
<1>1. ASSUME IsList(s)
      PROVE  /\ Len(s) \in Nat /\ DOMAIN s = 1..Len(s)
             /\ s = [i \in 1..Len(s) |-> s[i]]
    BY <1>1 DEF IsList
<1>2. ASSUME NEW n \in Nat, s = [i \in 1..n |-> s[i]]
      PROVE  IsList(s) /\ Len(s) = n
    <2>1. DOMAIN s = 1..n
        BY <1>2
    <2>2. \A i \in 1..n : s[i] \in Elements(s)
        BY <2>1 DEF Elements
    <2>3. s \in [1..n -> Elements(s)]
        BY <1>2, <2>2
    <2> QED
        BY <2>3 DEF IsList
<1> QED
    BY <1>1, <1>2

\* A sequence over any set is a list.
LEMMA SequenceIsList ==
    ASSUME NEW S, NEW s \in Seq(S) PROVE IsList(s)
<1>1. s \in [1..Len(s) -> S] /\ Len(s) \in Nat
    OBVIOUS
<1>2. s = [i \in 1..Len(s) |-> s[i]]
    BY <1>1
<1> QED
    BY <1>1, <1>2, ListForm

\* Lists with the same elements at the same places are the same.
LEMMA SameList ==
    ASSUME NEW s, NEW t, IsList(s), IsList(t), Len(s) = Len(t),
           \A i \in 1..Len(s) : s[i] = t[i]
    PROVE  s = t
BY ListForm

\* What concatenation gives at each place.
LEMMA Concatenation ==
    ASSUME NEW s, NEW t, IsList(s), IsList(t)
    PROVE  /\ IsList(s \o t) /\ Len(s \o t) = Len(s) + Len(t)
           /\ \A i \in 1..Len(s) : (s \o t)[i] = s[i]
           /\ \A i \in 1..Len(t) : (s \o t)[Len(s) + i] = t[i]
<1> DEFINE S == Elements(s) \union Elements(t)
<1>1. s \in Seq(S) /\ t \in Seq(S)
    BY ListForm DEF Elements, IsList
<1>2. s \o t \in Seq(S) /\ Len(s \o t) = Len(s) + Len(t)
    BY <1>1
<1>3. /\ \A i \in 1..Len(s) : (s \o t)[i] = s[i]
      /\ \A i \in 1..Len(t) : (s \o t)[Len(s) + i] = t[i]
    BY <1>1
<1>4. IsList(s \o t)
    BY <1>2, SequenceIsList
<1> QED
    BY <1>2, <1>3, <1>4
-----------------------------------------------------------------------------
(* The fields of bytes *)

\* The fields with a number are next to each other and have these values.
Has(bytes, no, values) ==
    /\ IsList(bytes) /\ IsList(values)
    /\ \E k \in Nat :
        /\ k + Len(values) <= Len(bytes)
        /\ \A i \in 1..Len(bytes) :
            bytes[i][1] = no <=> i \in (k + 1)..(k + Len(values))
        /\ \A i \in 1..Len(values) : bytes[k + i][2] = values[i]

Lacks(bytes, no) == IsList(bytes) /\ \A i \in 1..Len(bytes) : bytes[i][1] # no

\* The size of an interval that begins anywhere.
LEMMA IntervalSize ==
    ASSUME NEW k \in Nat, NEW n \in Nat
    PROVE  Cardinality((k + 1)..(k + n)) = n
<1>1. PICK a \in Int : a = k + 1
    OBVIOUS
<1>2. PICK b \in Int : b = k + n
    OBVIOUS
<1>3. Cardinality(a..b) = IF a > b THEN 0 ELSE b - a + 1
    BY FS_Interval
<1>4. Cardinality(a..b) = n
    BY <1>1, <1>2, <1>3
<1> QED
    BY <1>1, <1>2, <1>4

\* The values that All reads, when the places of a field are consecutive.
LEMMA AllOf ==
    ASSUME NEW bytes, NEW no, NEW values, Has(bytes, no, values)
    PROVE  All(bytes, no) = values
<1> DEFINE n == Len(values)
           places == Places(bytes, no)
<1>1. /\ IsList(bytes) /\ IsList(values)
      /\ Len(bytes) \in Nat /\ DOMAIN bytes = 1..Len(bytes)
      /\ n \in Nat /\ DOMAIN values = 1..n /\ values = [i \in 1..n |-> values[i]]
    BY ListForm DEF Has
<1>2. PICK k \in Nat :
        /\ k + n <= Len(bytes)
        /\ \A i \in 1..Len(bytes) : bytes[i][1] = no <=> i \in (k + 1)..(k + n)
        /\ \A i \in 1..n : bytes[k + i][2] = values[i]
    BY DEF Has
<1>3. places = (k + 1)..(k + n)
    BY <1>1, <1>2 DEF Places
<1>4. Cardinality(places) = n
    BY <1>1, <1>3, IntervalSize
<1>5. ASSUME NEW i \in 1..n PROVE Nth(places, i) = k + i
    <2>1. ASSUME NEW j \in places PROVE Cardinality(places \intersect 1..j) = j - k
        <3>1. places \intersect 1..j = (k + 1)..j
            BY <1>1, <1>3
        <3>2. j - k \in Nat /\ j = k + (j - k)
            BY <1>1, <1>3
        <3> QED
            BY <3>1, <3>2, IntervalSize
    <2>2. k + i \in places
        BY <1>1, <1>3
    <2>3. \A j \in places : j \in Nat /\ (j - k = i <=> j = k + i)
        BY <1>1, <1>3
    <2> QED
        BY <2>1, <2>2, <2>3 DEF Nth
<1>6. All(bytes, no) = [i \in 1..n |-> bytes[Nth(places, i)][2]]
    BY <1>4 DEF All
<1>7. \A i \in 1..n : bytes[Nth(places, i)][2] = values[i]
    BY <1>2, <1>5
<1> QED
    BY <1>1, <1>6, <1>7

\* To lack a field is to have no values of it.
LEMMA LacksNothing ==
    ASSUME NEW bytes, NEW no
    PROVE  Lacks(bytes, no) <=> Has(bytes, no, << >>)
<1>1. IsList(<< >>) /\ Len(<< >>) = 0
    BY DEF IsList, Elements
<1>2. ASSUME Lacks(bytes, no) PROVE Has(bytes, no, << >>)
    BY <1>1, <1>2, ListForm DEF Lacks, Has
<1>3. ASSUME Has(bytes, no, << >>) PROVE Lacks(bytes, no)
    BY <1>1, <1>3, ListForm DEF Lacks, Has
<1> QED
    BY <1>2, <1>3

\* Concatenation adds no field.
LEMMA BothLack ==
    ASSUME NEW x, NEW y, NEW no, Lacks(x, no), Lacks(y, no)
    PROVE  Lacks(x \o y, no)
<1>1. /\ IsList(x) /\ IsList(y) /\ Len(x) \in Nat /\ Len(y) \in Nat
    BY ListForm DEF Lacks
<1>2. \A i \in 1..(Len(x) + Len(y)) :
        i \in 1..Len(x) \/ \E j \in 1..Len(y) : i = Len(x) + j
    <2>1. \A i \in 1..(Len(x) + Len(y)) :
            i \in 1..Len(x) \/ (i - Len(x) \in 1..Len(y) /\ i = Len(x) + (i - Len(x)))
        BY <1>1
    <2> QED
        BY <2>1
<1> QED
    BY <1>1, <1>2, Concatenation DEF Lacks

\* The values of a field in the first part only.
LEMMA LeftHas ==
    ASSUME NEW x, NEW y, NEW no, NEW values, Has(x, no, values), Lacks(y, no)
    PROVE  Has(x \o y, no, values)
<1> DEFINE n == Len(values)
<1>1. /\ IsList(x) /\ IsList(y) /\ Len(x) \in Nat /\ Len(y) \in Nat
      /\ IsList(values) /\ n \in Nat
    BY ListForm DEF Lacks, Has
<1>2. PICK k \in Nat :
        /\ k + n <= Len(x)
        /\ \A i \in 1..Len(x) : x[i][1] = no <=> i \in (k + 1)..(k + n)
        /\ \A i \in 1..n : x[k + i][2] = values[i]
    BY DEF Has
<1> DEFINE z == x \o y
<1>3. /\ IsList(z) /\ Len(z) = Len(x) + Len(y)
      /\ \A i \in 1..Len(x) : z[i] = x[i]
      /\ \A i \in 1..Len(y) : z[Len(x) + i] = y[i]
    BY <1>1, Concatenation
<1> HIDE DEF z
<1>4. ASSUME NEW i \in 1..Len(z)
      PROVE  z[i][1] = no <=> i \in (k + 1)..(k + n)
    <2>1. CASE i \in 1..Len(x)
        BY <1>2, <1>3, <2>1
    <2>2. CASE i \notin 1..Len(x)
        <3>1. PICK j \in 1..Len(y) : i = Len(x) + j
            <4>1. i - Len(x) \in 1..Len(y) /\ i = Len(x) + (i - Len(x))
                BY <1>1, <1>3, <2>2
            <4> QED
                BY <4>1
        <3>2. z[i][1] # no
            BY <1>3, <3>1 DEF Lacks
        <3> QED
            BY <1>1, <1>2, <2>2, <3>2
    <2> QED
        BY <2>1, <2>2
<1>5. \A i \in 1..n : z[k + i][2] = values[i]
    <2>1. \A i \in 1..n : k + i \in 1..Len(x)
        BY <1>1, <1>2
    <2> QED
        BY <1>2, <1>3, <2>1
<1>6. k + n <= Len(z)
    BY <1>1, <1>2, <1>3
<1>7. Has(z, no, values)
    BY <1>1, <1>3, <1>4, <1>5, <1>6 DEF Has
<1> QED
    BY <1>7 DEF z

\* The values of a field in the second part only.
LEMMA RightHas ==
    ASSUME NEW x, NEW y, NEW no, NEW values, Lacks(x, no), Has(y, no, values)
    PROVE  Has(x \o y, no, values)
<1> DEFINE n == Len(values)
<1>1. /\ IsList(x) /\ IsList(y) /\ Len(x) \in Nat /\ Len(y) \in Nat
      /\ IsList(values) /\ n \in Nat
    BY ListForm DEF Lacks, Has
<1>2. PICK k \in Nat :
        /\ k + n <= Len(y)
        /\ \A i \in 1..Len(y) : y[i][1] = no <=> i \in (k + 1)..(k + n)
        /\ \A i \in 1..n : y[k + i][2] = values[i]
    BY DEF Has
<1> DEFINE z == x \o y
           m == Len(x) + k
<1>3. /\ IsList(z) /\ Len(z) = Len(x) + Len(y)
      /\ \A i \in 1..Len(x) : z[i] = x[i]
      /\ \A i \in 1..Len(y) : z[Len(x) + i] = y[i]
    BY <1>1, Concatenation
<1> HIDE DEF z
<1>4. ASSUME NEW i \in 1..Len(z)
      PROVE  z[i][1] = no <=> i \in (m + 1)..(m + n)
    <2>1. CASE i \in 1..Len(x)
        <3>1. z[i][1] # no
            BY <1>3, <2>1 DEF Lacks
        <3> QED
            BY <1>1, <2>1, <3>1
    <2>2. CASE i \notin 1..Len(x)
        <3>1. i - Len(x) \in 1..Len(y) /\ i = Len(x) + (i - Len(x))
            BY <1>1, <1>3, <2>2
        <3>2. z[i] = y[i - Len(x)]
            BY <1>3, <3>1
        <3>3. y[i - Len(x)][1] = no <=> i - Len(x) \in (k + 1)..(k + n)
            BY <1>2, <3>1
        <3>4. i - Len(x) \in (k + 1)..(k + n) <=> i \in (m + 1)..(m + n)
            BY <1>1, <1>3
        <3> QED
            BY <3>2, <3>3, <3>4
    <2> QED
        BY <2>1, <2>2
<1>5. \A i \in 1..n : z[m + i][2] = values[i]
    <2>1. SUFFICES ASSUME NEW i \in 1..n PROVE z[m + i][2] = values[i]
        OBVIOUS
    <2>2. PICK j \in 1..Len(y) : j = k + i /\ m + i = Len(x) + j
        <3>1. k + i \in 1..Len(y) /\ m + i = Len(x) + (k + i)
            BY <1>1, <1>2
        <3> QED
            BY <3>1
    <2>3. z[m + i] = y[j]
        BY <1>3, <2>2
    <2> QED
        BY <1>2, <2>2, <2>3
<1>6. m \in Nat /\ m + n <= Len(z)
    BY <1>1, <1>2, <1>3
<1> HIDE DEF m
<1>7. Has(z, no, values)
    BY <1>1, <1>3, <1>4, <1>5, <1>6 DEF Has
<1> QED
    BY <1>7 DEF z
-----------------------------------------------------------------------------
(* What is put is got *)

Optional(value, default) == IF value = default THEN << >> ELSE <<value>>

\* The lists of no and of one element.
LEMMA ShortLists ==
    /\ IsList(<< >>) /\ Len(<< >>) = 0
    /\ \A x : IsList(<<x>>) /\ Len(<<x>>) = 1 /\ <<x>>[1] = x
BY DEF IsList, Elements

\* Bytes of a single field.
LEMMA OneFieldHas ==
    ASSUME NEW no, NEW value
    PROVE  /\ Has(<<<<no, value>>>>, no, <<value>>)
           /\ \A other : other # no => Lacks(<<<<no, value>>>>, other)
<1>1. Has(<<<<no, value>>>>, no, <<value>>)
    <2>1. \A i \in 1..1 : i = 1
        OBVIOUS
    <2> QED
        BY <2>1, ShortLists DEF Has
<1>2. \A other : other # no => Lacks(<<<<no, value>>>>, other)
    BY ShortLists DEF Lacks
<1> QED
    BY <1>1, <1>2

\* Bytes without a field.
LEMMA NoFieldHas ==
    ASSUME NEW no PROVE Lacks(<< >>, no) /\ Has(<< >>, no, << >>)
BY ShortLists, LacksNothing DEF Lacks

\* What Put writes: the value unless it is the default, and no other field.
LEMMA PutHas ==
    ASSUME NEW no, NEW value, NEW default
    PROVE  /\ Has(Put(no, value, default), no, Optional(value, default))
           /\ \A other : other # no => Lacks(Put(no, value, default), other)
BY OneFieldHas, NoFieldHas DEF Put, Optional

\* Get reads back what Put wrote.
LEMMA GetOf ==
    ASSUME NEW bytes, NEW no, NEW value, NEW default,
           Has(bytes, no, Optional(value, default))
    PROVE  Get(bytes, no, default) = value
<1>1. All(bytes, no) = Optional(value, default)
    BY AllOf
<1>2. <<value>> # << >>
    OBVIOUS
<1> QED
    BY <1>1, <1>2, ShortLists DEF Get, Optional

\* What PutAll writes: all values in their order, and no other field.
LEMMA PutAllHas ==
    ASSUME NEW no, NEW values, IsList(values)
    PROVE  /\ Has(PutAll(no, values), no, values)
           /\ \A other : other # no => Lacks(PutAll(no, values), other)
<1> DEFINE fields == PutAll(no, values)
           n == Len(values)
<1>1. n \in Nat /\ DOMAIN values = 1..n
    BY ListForm
<1>2. fields = [i \in 1..n |-> <<no, values[i]>>]
    BY <1>1 DEF PutAll
<1>3. IsList(fields) /\ Len(fields) = n /\ \A i \in 1..n : fields[i] = <<no, values[i]>>
    BY <1>1, <1>2, ListForm
<1>4. \A i \in 1..n : fields[i][1] = no /\ fields[i][2] = values[i]
    BY <1>3
<1> HIDE DEF fields
<1>5. Has(fields, no, values)
    BY <1>1, <1>3, <1>4 DEF Has
<1>6. \A other : other # no => Lacks(fields, other)
    BY <1>3, <1>4 DEF Lacks
<1> QED
    BY <1>5, <1>6 DEF fields
-----------------------------------------------------------------------------
(* Transactions *)

\* Bytes with the fields from 1 to k.
HasFirst(bytes, k, values) ==
    /\ \A i \in 1..k : Has(bytes, i, values[i])
    /\ \A i \in Nat : i > k => Lacks(bytes, i)

\* A field that is written after others.
LEMMA NextField ==
    ASSUME NEW bytes, NEW more, NEW k \in Nat, NEW values, NEW n, n = k + 1,
           HasFirst(bytes, k, values),
           Has(more, n, values[n]), \A i \in Nat : i # n => Lacks(more, i)
    PROVE  HasFirst(bytes \o more, n, values)
<1>1. ASSUME NEW i \in 1..n PROVE Has(bytes \o more, i, values[i])
    <2>1. CASE i = n
        <3>1. Lacks(bytes, n)
            BY DEF HasFirst
        <3> QED
            BY <2>1, <3>1, RightHas
    <2>2. CASE i # n
        <3>1. i \in 1..k /\ i \in Nat
            BY <2>2
        <3>2. Has(bytes, i, values[i]) /\ Lacks(more, i)
            BY <2>2, <3>1 DEF HasFirst
        <3> QED
            BY <3>2, LeftHas
    <2> QED
        BY <2>1, <2>2
<1>2. ASSUME NEW i \in Nat, i > n PROVE Lacks(bytes \o more, i)
    <2>1. Lacks(bytes, i) /\ Lacks(more, i)
        BY <1>2 DEF HasFirst
    <2> QED
        BY <2>1, BothLack
<1> QED
    BY <1>1, <1>2 DEF HasFirst

\* A field that is written first.
LEMMA FirstField ==
    ASSUME NEW bytes, NEW values,
           Has(bytes, 1, values[1]), \A i \in Nat : i # 1 => Lacks(bytes, i)
    PROVE  HasFirst(bytes, 1, values)
BY DEF HasFirst

\* A transaction is parsed from its bytes as it was.
LEMMA TransactionRoundTrip ==
    ASSUME NEW m, IsTransaction(m)
    PROVE  TransactionOf(TransactionBytes(m)) = m
<1> DEFINE values == <<Optional(m.type, 0), Optional(m.category, NoText),
                       Optional(m.sender, NoText), m.recipients,
                       Optional(m.data, NoBytes), Optional(m.salt, NoBytes),
                       Optional(m.apitoken, NoBytes), Optional(m.signature, NoBytes),
                       Optional(m.fee, NoText)>>
           p1 == Put(1, m.type, 0)
           p2 == p1 \o Put(2, m.category, NoText)
           p3 == p2 \o Put(3, m.sender, NoText)
           p4 == p3 \o PutAll(4, m.recipients)
           p5 == p4 \o Put(5, m.data, NoBytes)
           p6 == p5 \o Put(6, m.salt, NoBytes)
           p7 == p6 \o Put(7, m.apitoken, NoBytes)
           p8 == p7 \o Put(8, m.signature, NoBytes)
           p9 == p8 \o Put(9, m.fee, NoText)
<1>1. /\ values[1] = Optional(m.type, 0) /\ values[2] = Optional(m.category, NoText)
      /\ values[3] = Optional(m.sender, NoText) /\ values[4] = m.recipients
      /\ values[5] = Optional(m.data, NoBytes) /\ values[6] = Optional(m.salt, NoBytes)
      /\ values[7] = Optional(m.apitoken, NoBytes)
      /\ values[8] = Optional(m.signature, NoBytes) /\ values[9] = Optional(m.fee, NoText)
    OBVIOUS
<1> HIDE DEF values
<1>2. HasFirst(p1, 1, values)
    BY <1>1, PutHas, FirstField
<1> HIDE DEF p1
<1>3. HasFirst(p2, 2, values)
    BY <1>1, <1>2, PutHas, NextField
<1> HIDE DEF p2
<1>4. HasFirst(p3, 3, values)
    BY <1>1, <1>3, PutHas, NextField
<1> HIDE DEF p3
<1>5. HasFirst(p4, 4, values)
    <2>1. IsList(m.recipients)
        BY DEF IsTransaction
    <2> QED
        BY <1>1, <1>4, <2>1, PutAllHas, NextField
<1> HIDE DEF p4
<1>6. HasFirst(p5, 5, values)
    BY <1>1, <1>5, PutHas, NextField
<1> HIDE DEF p5
<1>7. HasFirst(p6, 6, values)
    BY <1>1, <1>6, PutHas, NextField
<1> HIDE DEF p6
<1>8. HasFirst(p7, 7, values)
    BY <1>1, <1>7, PutHas, NextField
<1> HIDE DEF p7
<1>9. HasFirst(p8, 8, values)
    BY <1>1, <1>8, PutHas, NextField
<1> HIDE DEF p8
<1>10. HasFirst(p9, 9, values)
    BY <1>1, <1>9, PutHas, NextField
<1>11. TransactionBytes(m) = p9
    BY DEF TransactionBytes, p1, p2, p3, p4, p5, p6, p7, p8
<1> HIDE DEF p9
<1>12. \A i \in 1..9 : Has(p9, i, values[i])
    BY <1>10 DEF HasFirst
<1>13. /\ Get(p9, 1, 0) = m.type /\ Get(p9, 2, NoText) = m.category
       /\ Get(p9, 3, NoText) = m.sender
       /\ Get(p9, 5, NoBytes) = m.data /\ Get(p9, 6, NoBytes) = m.salt
       /\ Get(p9, 7, NoBytes) = m.apitoken /\ Get(p9, 8, NoBytes) = m.signature
       /\ Get(p9, 9, NoText) = m.fee
    BY <1>1, <1>12, GetOf
<1>14. All(p9, 4) = m.recipients
    BY <1>1, <1>12, AllOf
<1>15. TransactionOf(p9) =
        [type |-> m.type, category |-> m.category, sender |-> m.sender,
         recipients |-> m.recipients, data |-> m.data, salt |-> m.salt,
         apitoken |-> m.apitoken, signature |-> m.signature, fee |-> m.fee]
    BY <1>13, <1>14 DEF TransactionOf
<1> QED
    BY <1>11, <1>15 DEF IsTransaction
-----------------------------------------------------------------------------
(* The sections that validators and attestors add *)

\* The keys of a map in a list, each once.
LEMMA KeysOf ==
    ASSUME NEW D, IsFiniteSet(D)
    PROVE  /\ Cardinality(D) \in Nat
           /\ SetToSeq(D) \in [1..Cardinality(D) -> D]
           /\ \A i, j \in 1..Cardinality(D) : SetToSeq(D)[i] = SetToSeq(D)[j] => i = j
           /\ \A d \in D : \E i \in 1..Cardinality(D) : SetToSeq(D)[i] = d
<1> DEFINE n == Cardinality(D)
           keys == SetToSeq(D)
<1>1. n \in Nat /\ ExistsBijection(1..n, D)
    BY FS_CardinalityType
<1>2. \E f \in [1..n -> D] : IsInjective(f)
    BY <1>1 DEF ExistsBijection, Bijection, Injection
<1>3. keys \in [1..n -> D] /\ IsInjective(keys)
    BY <1>2 DEF SetToSeq
<1>4. IsFiniteSet(1..n) /\ Cardinality(1..n) = n
    BY <1>1, FS_Interval
<1>5. keys \in Injection(1..n, D)
    BY <1>3 DEF Injection
<1>6. keys \in Surjection(1..n, D)
    BY <1>4, <1>5, FS_Injection
<1> QED
    BY <1>1, <1>3, <1>6 DEF IsInjective, Surjection

\* So is a map: each entry is written once, and the last one of a key is it.
LEMMA DidMappingRoundTrip ==
    ASSUME NEW m, IsDidMapping(m)
    PROVE  DidMappingOf(DidMappingBytes(m)) = m
<1> DEFINE map == m.didmapping
           D == DOMAIN map
           n == Cardinality(D)
           keys == SetToSeq(D)
           entries == [i \in 1..n |-> <<keys[i], map[keys[i]]>>]
           bytes == DidMappingBytes(m)
<1>1. /\ m = [didmapping |-> map] /\ IsFiniteSet(D) /\ map = [k \in D |-> map[k]]
    BY DEF IsDidMapping, IsMap
<1>2. /\ n \in Nat /\ keys \in [1..n -> D]
      /\ \A i, j \in 1..n : keys[i] = keys[j] => i = j
      /\ \A d \in D : \E i \in 1..n : keys[i] = d
    BY <1>1, KeysOf
<1> HIDE DEF D, n, keys
<1>3. IsList(entries) /\ Len(entries) = n /\ DOMAIN entries = 1..n
    <2>1. entries = [i \in 1..n |-> entries[i]]
        OBVIOUS
    <2> HIDE DEF entries
    <2> QED
        BY <1>2, <2>1, ListForm
<1>4. bytes = PutAll(1, entries)
    <2>1. DOMAIN keys = 1..n
        BY <1>2
    <2>2. bytes = [i \in DOMAIN keys |-> <<1, <<keys[i], map[keys[i]]>>>>]
        BY DEF DidMappingBytes, PutMap, Same, keys, D
    <2> QED
        BY <1>3, <2>1, <2>2 DEF PutAll
<1>5. All(bytes, 1) = entries
    BY <1>3, <1>4, PutAllHas, AllOf
<1>6. \A i \in 1..n : entries[i][1] = keys[i] /\ entries[i][2] = map[keys[i]]
    OBVIOUS
<1> HIDE DEF bytes, entries
<1>7. {entries[i][1] : i \in DOMAIN entries} = D
    <2>1. \A i \in 1..n : entries[i][1] \in D
        BY <1>2, <1>6
    <2>2. \A d \in D : \E i \in 1..n : entries[i][1] = d
        BY <1>2, <1>6
    <2> QED
        BY <1>3, <2>1, <2>2
<1> DEFINE at(k) == SelectLastInSeq(entries, LAMBDA e : e[1] = k)
<1>8. ASSUME NEW d \in D
      PROVE  entries[at(d)][2] = map[d]
    <2>1. PICK i \in 1..n : keys[i] = d
        BY <1>2
    <2> DEFINE I == {j \in 1..Len(entries) : entries[j][1] = d}
    <2>2. I = {i}
        BY <1>2, <1>3, <1>6, <2>1
    <2>3. Max(I) = i
        <3>1. Max({i}) = i
            BY DEF Max
        <3> QED
            BY <2>2, <3>1
    <2>4. at(d) = Max(I)
        BY <2>2 DEF SelectLastInSeq
    <2> QED
        BY <1>6, <2>1, <2>3, <2>4
<1>9. MapOf(bytes, 1, Same) = [k \in D |-> entries[at(k)][2]]
    BY <1>5, <1>7 DEF MapOf, Same
<1> HIDE DEF at
<1>10. [k \in D |-> entries[at(k)][2]] = map
    BY <1>1, <1>8
<1>11. DidMappingOf(bytes) = [didmapping |-> map]
    BY <1>9, <1>10 DEF DidMappingOf
<1> QED
    BY <1>1, <1>11 DEF bytes
\* So is an attestor's vote.
LEMMA TxAttestorDataRoundTrip ==
    ASSUME NEW m, IsTxAttestorData(m)
    PROVE  TxAttestorDataOf(TxAttestorDataBytes(m)) = m
<1>1. Get(Put(1, m.vote, 0), 1, 0) = m.vote
    BY PutHas, GetOf
<1> QED
    BY <1>1 DEF TxAttestorDataOf, TxAttestorDataBytes, IsTxAttestorData

\* So is the validator's section, with or without a map.
LEMMA TxValidatorDataRoundTrip ==
    ASSUME NEW m, IsTxValidatorData(m)
    PROVE  TxValidatorDataOf(TxValidatorDataBytes(m)) = m
<1> DEFINE vote == Put(1, m.vote, 0)
           did == PutNested(2, m.didmapping, DidMappingBytes)
           bytes == vote \o did
<1>1. Has(vote, 1, Optional(m.vote, 0)) /\ Lacks(vote, 2)
    BY PutHas
<1>2. CASE m.didmapping = Null
    <2>1. did = << >>
        BY <1>2 DEF PutNested
    <2>2. Has(bytes, 1, Optional(m.vote, 0)) /\ Lacks(bytes, 2)
        <3> HIDE DEF vote, did
        <3> QED
            BY <1>1, <2>1, NoFieldHas, LeftHas, BothLack
    <2> HIDE DEF bytes
    <2>3. Get(bytes, 1, 0) = m.vote /\ All(bytes, 2) = << >>
        BY <2>2, GetOf, LacksNothing, AllOf
    <2>4. TxValidatorDataOf(bytes) = [vote |-> m.vote, didmapping |-> m.didmapping]
        BY <1>2, <2>3 DEF TxValidatorDataOf, Nested
    <2> QED
        BY <2>4 DEF IsTxValidatorData, TxValidatorDataBytes, bytes
<1>3. CASE m.didmapping # Null
    <2> DEFINE inner == DidMappingBytes(m.didmapping)
    <2>1. did = <<<<2, inner>>>>
        BY <1>3 DEF PutNested
    <2>2. DidMappingOf(inner) = m.didmapping
        BY <1>3, DidMappingRoundTrip DEF IsTxValidatorData
    <2> HIDE DEF inner
    <2>3. Has(bytes, 1, Optional(m.vote, 0)) /\ Has(bytes, 2, <<inner>>)
        <3> HIDE DEF vote, did
        <3>1. Has(did, 2, <<inner>>) /\ Lacks(did, 1)
            BY <2>1, OneFieldHas
        <3> QED
            BY <1>1, <3>1, LeftHas, RightHas
    <2> HIDE DEF bytes
    <2>4. Get(bytes, 1, 0) = m.vote /\ All(bytes, 2) = <<inner>>
        BY <2>3, GetOf, AllOf
    <2>5. <<inner>> # << >> /\ <<inner>>[Len(<<inner>>)] = inner
        BY ShortLists
    <2>6. Nested(bytes, 2, DidMappingOf) = DidMappingOf(inner)
        BY <2>4, <2>5 DEF Nested
    <2>7. TxValidatorDataOf(bytes) = [vote |-> m.vote, didmapping |-> m.didmapping]
        BY <2>2, <2>4, <2>6 DEF TxValidatorDataOf
    <2> QED
        BY <2>7 DEF IsTxValidatorData, TxValidatorDataBytes, bytes
<1> QED
    BY <1>2, <1>3
-----------------------------------------------------------------------------
(* Transactions with their sections, and blocks *)

\* So is a transaction with what was added to it.
LEMMA TransactionObjRoundTrip ==
    ASSUME NEW m, IsTransactionObj(m)
    PROVE  TransactionObjOf(TransactionObjBytes(m)) = m
<1> DEFINE p1 == PutNested(1, m.tx, TransactionBytes)
           p2 == PutNested(2, m.validatordata, TxValidatorDataBytes)
           attested == Each(m.attestordata, TxAttestorDataBytes)
           p3 == PutAll(3, attested)
           txBytes == TransactionBytes(m.tx)
           validatorBytes == TxValidatorDataBytes(m.validatordata)
           v1 == IF m.tx = Null THEN << >> ELSE <<txBytes>>
           v2 == IF m.validatordata = Null THEN << >> ELSE <<validatorBytes>>
           bytes == TransactionObjBytes(m)
           n == Len(m.attestordata)
<1>1. n \in Nat /\ DOMAIN m.attestordata = 1..n
      /\ m.attestordata = [i \in 1..n |-> m.attestordata[i]]
    BY ListForm DEF IsTransactionObj
<1>2. /\ IsList(attested) /\ DOMAIN attested = 1..n
      /\ \A i \in 1..n : attested[i] = TxAttestorDataBytes(m.attestordata[i])
    <2>1. attested = [i \in 1..n |-> TxAttestorDataBytes(m.attestordata[i])]
        BY <1>1 DEF Each
    <2>2. attested = [i \in 1..n |-> attested[i]]
        BY <2>1
    <2> HIDE DEF attested
    <2>3. IsList(attested)
        BY <1>1, <2>2, ListForm
    <2> QED
        BY <2>1, <2>3
<1> HIDE DEF attested
<1>3. Has(p1, 1, v1) /\ Lacks(p1, 2) /\ Lacks(p1, 3)
    BY OneFieldHas, NoFieldHas DEF PutNested
<1>4. Has(p2, 2, v2) /\ Lacks(p2, 1) /\ Lacks(p2, 3)
    BY OneFieldHas, NoFieldHas DEF PutNested
<1>5. Has(p3, 3, attested) /\ Lacks(p3, 1) /\ Lacks(p3, 2)
    BY <1>2, PutAllHas
<1>6. bytes = (p1 \o p2) \o p3
    BY DEF TransactionObjBytes, attested
<1> HIDE DEF p1, p2, p3, bytes
<1>7. Has(p1 \o p2, 1, v1) /\ Has(p1 \o p2, 2, v2) /\ Lacks(p1 \o p2, 3)
    <2> HIDE DEF v1, v2
    <2> QED
        BY <1>3, <1>4, LeftHas, RightHas, BothLack
<1>8. Has(bytes, 1, v1) /\ Has(bytes, 2, v2) /\ Has(bytes, 3, attested)
    <2> DEFINE p == p1 \o p2
    <2>1. Has(p, 1, v1) /\ Has(p, 2, v2) /\ Lacks(p, 3)
        BY <1>7
    <2> HIDE DEF v1, v2, p
    <2>2. /\ Has(p \o p3, 1, v1) /\ Has(p \o p3, 2, v2) /\ Has(p \o p3, 3, attested)
        BY <2>1, <1>5, LeftHas, RightHas
    <2> QED
        BY <1>6, <2>2 DEF p
<1>9. All(bytes, 1) = v1 /\ All(bytes, 2) = v2 /\ All(bytes, 3) = attested
    <2> HIDE DEF v1, v2
    <2> QED
        BY <1>8, AllOf
<1>10. Nested(bytes, 1, TransactionOf) = m.tx
    <2>1. CASE m.tx = Null
        BY <1>9, <2>1 DEF Nested
    <2>2. CASE m.tx # Null
        <3>1. TransactionOf(txBytes) = m.tx
            BY <2>2, TransactionRoundTrip DEF IsTransactionObj
        <3>2. v1 = <<txBytes>>
            BY <2>2
        <3> HIDE DEF txBytes, v1
        <3>3. <<txBytes>> # << >> /\ <<txBytes>>[Len(<<txBytes>>)] = txBytes
            BY ShortLists
        <3> QED
            BY <1>9, <3>1, <3>2, <3>3 DEF Nested
    <2> QED
        BY <2>1, <2>2
<1>11. Nested(bytes, 2, TxValidatorDataOf) = m.validatordata
    <2>1. CASE m.validatordata = Null
        BY <1>9, <2>1 DEF Nested
    <2>2. CASE m.validatordata # Null
        <3>1. TxValidatorDataOf(validatorBytes) = m.validatordata
            BY <2>2, TxValidatorDataRoundTrip DEF IsTransactionObj
        <3>2. v2 = <<validatorBytes>>
            BY <2>2
        <3> HIDE DEF validatorBytes, v2
        <3>3. /\ <<validatorBytes>> # << >>
              /\ <<validatorBytes>>[Len(<<validatorBytes>>)] = validatorBytes
            BY ShortLists
        <3> QED
            BY <1>9, <3>1, <3>2, <3>3 DEF Nested
    <2> QED
        BY <2>1, <2>2
<1>12. Each(All(bytes, 3), TxAttestorDataOf) = m.attestordata
    <2>1. \A i \in 1..n : TxAttestorDataOf(attested[i]) = m.attestordata[i]
        BY <1>1, <1>2, TxAttestorDataRoundTrip DEF IsTransactionObj
    <2>2. Each(attested, TxAttestorDataOf) = [i \in 1..n |-> TxAttestorDataOf(attested[i])]
        BY <1>2 DEF Each
    <2>3. [i \in 1..n |-> TxAttestorDataOf(attested[i])] = m.attestordata
        BY <1>1, <2>1
    <2>4. Each(All(bytes, 3), TxAttestorDataOf) = Each(attested, TxAttestorDataOf)
        BY <1>9 DEF Each
    <2> QED
        BY <2>2, <2>3, <2>4
<1>13. TransactionObjOf(bytes) =
        [tx |-> m.tx, validatordata |-> m.validatordata, attestordata |-> m.attestordata]
    BY <1>10, <1>11, <1>12 DEF TransactionObjOf
<1> QED
    BY <1>13 DEF IsTransactionObj, bytes
\* So is a signature.
LEMMA SignerRoundTrip ==
    ASSUME NEW m, IsSigner(m)
    PROVE  SignerOf(SignerBytes(m)) = m
<1>1. Get(Put(1, m.sig, NoBytes), 1, NoBytes) = m.sig
    BY PutHas, GetOf
<1> QED
    BY <1>1 DEF SignerOf, SignerBytes, IsSigner

\* A block parsed from the bytes it was written as (deserializeBinary and
\* serializeBinary of Block) is the block: its bytes lose nothing.
THEOREM BlocksSurviveTheWire ==
    ASSUME NEW b, IsBlock(b)
    PROVE  BlockOf(BlockBytes(b)) = b
<1> DEFINE p1 == Put(1, b.ts, 0)
           p2 == Put(4, b.attesttoken, NoBytes)
           txs == Each(b.txobj, TransactionObjBytes)
           p3 == PutAll(2, txs)
           sigs == Each(b.signers, SignerBytes)
           p4 == PutAll(3, sigs)
           bytes == BlockBytes(b)
           n == Len(b.txobj)
           m == Len(b.signers)
           ts == Optional(b.ts, 0)
           token == Optional(b.attesttoken, NoBytes)
<1>1. /\ n \in Nat /\ DOMAIN b.txobj = 1..n /\ b.txobj = [i \in 1..n |-> b.txobj[i]]
      /\ m \in Nat /\ DOMAIN b.signers = 1..m /\ b.signers = [i \in 1..m |-> b.signers[i]]
    BY ListForm DEF IsBlock
<1>2. /\ IsList(txs) /\ DOMAIN txs = 1..n
      /\ \A i \in 1..n : txs[i] = TransactionObjBytes(b.txobj[i])
    <2>1. txs = [i \in 1..n |-> TransactionObjBytes(b.txobj[i])]
        BY <1>1 DEF Each
    <2>2. txs = [i \in 1..n |-> txs[i]]
        BY <2>1
    <2> HIDE DEF txs
    <2>3. IsList(txs)
        BY <1>1, <2>2, ListForm
    <2> QED
        BY <2>1, <2>3
<1>3. /\ IsList(sigs) /\ DOMAIN sigs = 1..m
      /\ \A i \in 1..m : sigs[i] = SignerBytes(b.signers[i])
    <2>1. sigs = [i \in 1..m |-> SignerBytes(b.signers[i])]
        BY <1>1 DEF Each
    <2>2. sigs = [i \in 1..m |-> sigs[i]]
        BY <2>1
    <2> HIDE DEF sigs
    <2>3. IsList(sigs)
        BY <1>1, <2>2, ListForm
    <2> QED
        BY <2>1, <2>3
<1> HIDE DEF txs, sigs, ts, token
<1>4. Has(p1, 1, ts) /\ Lacks(p1, 2) /\ Lacks(p1, 3) /\ Lacks(p1, 4)
    BY PutHas DEF ts
<1>5. Has(p2, 4, token) /\ Lacks(p2, 1) /\ Lacks(p2, 2) /\ Lacks(p2, 3)
    BY PutHas DEF token
<1>6. Has(p3, 2, txs) /\ Lacks(p3, 1) /\ Lacks(p3, 3) /\ Lacks(p3, 4)
    BY <1>2, PutAllHas
<1>7. Has(p4, 3, sigs) /\ Lacks(p4, 1) /\ Lacks(p4, 2) /\ Lacks(p4, 4)
    BY <1>3, PutAllHas
<1>8. bytes = ((p1 \o p2) \o p3) \o p4
    BY DEF BlockBytes, txs, sigs
<1> HIDE DEF p1, p2, p3, p4, bytes
<1> DEFINE q2 == p1 \o p2
           q3 == q2 \o p3
<1>9. Has(q2, 1, ts) /\ Has(q2, 4, token) /\ Lacks(q2, 2) /\ Lacks(q2, 3)
    BY <1>4, <1>5, LeftHas, RightHas, BothLack
<1> HIDE DEF q2
<1>10. Has(q3, 1, ts) /\ Has(q3, 4, token) /\ Has(q3, 2, txs) /\ Lacks(q3, 3)
    BY <1>6, <1>9, LeftHas, RightHas, BothLack
<1> HIDE DEF q3
<1>11. /\ Has(q3 \o p4, 1, ts) /\ Has(q3 \o p4, 4, token)
       /\ Has(q3 \o p4, 2, txs) /\ Has(q3 \o p4, 3, sigs)
    BY <1>7, <1>10, LeftHas, RightHas
<1>12. bytes = q3 \o p4
    BY <1>8 DEF q2, q3
<1>13. /\ Get(bytes, 1, 0) = b.ts /\ Get(bytes, 4, NoBytes) = b.attesttoken
       /\ All(bytes, 2) = txs /\ All(bytes, 3) = sigs
    BY <1>11, <1>12, GetOf, AllOf DEF ts, token
<1>14. Each(All(bytes, 2), TransactionObjOf) = b.txobj
    <2>1. \A i \in 1..n : TransactionObjOf(txs[i]) = b.txobj[i]
        BY <1>1, <1>2, TransactionObjRoundTrip DEF IsBlock
    <2>2. Each(txs, TransactionObjOf) = [i \in 1..n |-> TransactionObjOf(txs[i])]
        BY <1>2 DEF Each
    <2>3. [i \in 1..n |-> TransactionObjOf(txs[i])] = b.txobj
        BY <1>1, <2>1
    <2>4. Each(All(bytes, 2), TransactionObjOf) = Each(txs, TransactionObjOf)
        BY <1>13 DEF Each
    <2> QED
        BY <2>2, <2>3, <2>4
<1>15. Each(All(bytes, 3), SignerOf) = b.signers
    <2>1. \A i \in 1..m : SignerOf(sigs[i]) = b.signers[i]
        BY <1>1, <1>3, SignerRoundTrip DEF IsBlock
    <2>2. Each(sigs, SignerOf) = [i \in 1..m |-> SignerOf(sigs[i])]
        BY <1>3 DEF Each
    <2>3. [i \in 1..m |-> SignerOf(sigs[i])] = b.signers
        BY <1>1, <2>1
    <2>4. Each(All(bytes, 3), SignerOf) = Each(sigs, SignerOf)
        BY <1>13 DEF Each
    <2> QED
        BY <2>2, <2>3, <2>4
<1>16. BlockOf(bytes) = [ts |-> b.ts, attesttoken |-> b.attesttoken,
                         txobj |-> b.txobj, signers |-> b.signers]
    BY <1>13, <1>14, <1>15 DEF BlockOf
<1> QED
    BY <1>16 DEF IsBlock, bytes

\* No two blocks have the same bytes: what is signed is one block.
THEOREM BytesTellBlocksApart ==
    ASSUME NEW b, IsBlock(b), NEW c, IsBlock(c), BlockBytes(b) = BlockBytes(c)
    PROVE  b = c
BY BlocksSurviveTheWire

\* No bytes are a block without signatures.
LEMMA NothingIsUnsigned ==
    /\ BlockOf(<< >>) = [ts |-> 0, attesttoken |-> NoBytes, txobj |-> << >>, signers |-> << >>]
    /\ IsBlock(BlockOf(<< >>))
<1>1. \A no : All(<< >>, no) = << >>
    BY NoFieldHas, AllOf
<1>2. Get(<< >>, 1, 0) = 0 /\ Get(<< >>, 4, NoBytes) = NoBytes
    BY <1>1 DEF Get
<1>3. Each(All(<< >>, 2), TransactionObjOf) = << >> /\ Each(All(<< >>, 3), SignerOf) = << >>
    <2>1. Each(All(<< >>, 2), TransactionObjOf) = [i \in {} |-> TransactionObjOf(<< >>[i])]
        BY <1>1 DEF Each
    <2>2. Each(All(<< >>, 3), SignerOf) = [i \in {} |-> SignerOf(<< >>[i])]
        BY <1>1 DEF Each
    <2> QED
        BY <2>1, <2>2
<1>4. BlockOf(<< >>) = [ts |-> 0, attesttoken |-> NoBytes, txobj |-> << >>, signers |-> << >>]
    BY <1>2, <1>3 DEF BlockOf
<1> QED
    BY <1>4, ShortLists DEF IsBlock
=============================================================================
