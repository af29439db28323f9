----------------------------- MODULE DictProofs -----------------------------
(***************************************************************************)
(* The hash table of Dict implements the map of NameMap, for every set of  *)
(* names and values and every hash function.                               *)
(***************************************************************************)
EXTENDS Dict, Integers, FiniteSetTheorems, SequenceTheorems, TLAPS

-----------------------------------------------------------------------------
(***************************************************************************)
(* Induction, stated of a set: it holds of every n in Nat that n is in S.  *)
(***************************************************************************)

LEMMA Least ==
    ASSUME NEW T, T \subseteq Nat, T # {}
    PROVE  \E x \in T : \A y \in T : x <= y
<1> DEFINE R == OpToRel(<, Nat)
<1>1. IsWellFoundedOn(R, Nat)
  BY NatLessThanWellFounded
<1>2. \A x, y \in Nat : x < y => <<x, y>> \in R
  BY DEF OpToRel
<1> HIDE DEF R
<1>3. PICK x \in T : \A y \in T : ~(<<y, x>> \in R)
  BY <1>1, WFMin
<1>4. ASSUME NEW y \in T PROVE x <= y
  <2>1. ~(y < x)
    BY <1>2, <1>3
  <2> QED BY <2>1
<1> QED BY <1>4

\* Induction on the natural numbers.
LEMMA Induction ==
    ASSUME NEW S, 0 \in S, \A n \in Nat : n \in S => n + 1 \in S
    PROVE  Nat \subseteq S
<1> DEFINE T == Nat \ S
<1> SUFFICES ASSUME T # {} PROVE FALSE
  OBVIOUS
<1>1. PICK x \in T : \A y \in T : x <= y
  BY Least
<1>2. x # 0 /\ x - 1 \in Nat
  OBVIOUS
<1>3. x - 1 \notin T
  BY <1>1, <1>2
<1> QED BY <1>2, <1>3
-----------------------------------------------------------------------------
\* A hash is a number; the marks of unused slots are no names, NULL no value.
DictAssumption ==
    /\ Hashes \subseteq [Names -> Nat]
    /\ Free \notin Names /\ DEAD \notin Names /\ NoValue \notin Values

-----------------------------------------------------------------------------
(***************************************************************************)
(* Slots round a table of n                                                *)
(***************************************************************************)

\* The slot k steps after that of the hash h.
At(n, h, k) == (h + k) % n

LEMMA Quotient ==
    ASSUME NEW n \in Nat \ {0}, NEW a \in Nat
    PROVE  a % n \in 0..n - 1 /\ \E q \in Nat : a = (n * q) + (a % n)
<1>1. a % n \in 0..n - 1
  OBVIOUS
<1>2. a = (n * (a \div n)) + (a % n) /\ a \div n \in Nat
  OBVIOUS
<1> QED BY <1>1, <1>2

LEMMA QuotientUnique ==
    ASSUME NEW n \in Nat \ {0}, NEW q \in Nat, NEW r \in 0..n - 1
    PROVE  ((n * q) + r) % n = r
OBVIOUS

\* k steps go round the end of the table at most once.
LEMMA AtIs ==
    ASSUME NEW n \in Nat \ {0}, NEW h \in Nat, NEW k \in 0..n - 1
    PROVE  /\ h % n \in 0..n - 1 /\ At(n, h, k) \in 0..n - 1
           /\ At(n, h, k) = IF (h % n) + k < n THEN (h % n) + k ELSE (h % n) + k - n
<1>1. PICK q \in Nat : h = (n * q) + (h % n)
  BY Quotient
<1>2. h % n \in 0..n - 1
  BY Quotient
<1>3. CASE (h % n) + k < n
  <2>1. h + k = (n * q) + ((h % n) + k) /\ (h % n) + k \in 0..n - 1
    BY <1>1, <1>2, <1>3
  <2> QED BY <1>2, <1>3, <2>1, QuotientUnique DEF At
<1>4. CASE ~((h % n) + k < n)
  <2>1. h + k = (n * (q + 1)) + ((h % n) + k - n) /\ (h % n) + k - n \in 0..n - 1
    BY <1>1, <1>2, <1>4, SMTT(40)
  <2>2. q + 1 \in Nat
    OBVIOUS
  <2>3. ((n * (q + 1)) + ((h % n) + k - n)) % n = (h % n) + k - n
    BY <2>1, <2>2, QuotientUnique
  <2> QED BY <1>2, <1>4, <2>1, <2>3 DEF At
<1> QED BY <1>3, <1>4

\* Every slot is met once.
LEMMA AtMeets ==
    ASSUME NEW n \in Nat \ {0}, NEW h \in Nat
    PROVE  /\ \A k, m \in 0..n - 1 : At(n, h, k) = At(n, h, m) => k = m
           /\ \A j \in 0..n - 1 : \E k \in 0..n - 1 : At(n, h, k) = j
<1> DEFINE r == h % n
<1>1. r \in 0..n - 1 /\ \A k \in 0..n - 1 : At(n, h, k) = IF r + k < n THEN r + k ELSE r + k - n
  BY AtIs, Quotient
<1> HIDE DEF r
<1>2. ASSUME NEW k \in 0..n - 1, NEW m \in 0..n - 1, At(n, h, k) = At(n, h, m) PROVE k = m
  BY <1>1, <1>2
<1>3. ASSUME NEW j \in 0..n - 1 PROVE \E k \in 0..n - 1 : At(n, h, k) = j
  <2>1. CASE r <= j
    <3>1. j - r \in 0..n - 1 /\ r + (j - r) = j
      BY <1>1, <2>1
    <3> QED BY <1>1, <3>1
  <2>2. CASE ~(r <= j)
    <3>1. j - r + n \in 0..n - 1 /\ ~(r + (j - r + n) < n) /\ r + (j - r + n) - n = j
      BY <1>1, <2>2
    <3> QED BY <1>1, <3>1
  <2> QED BY <2>1, <2>2
<1> QED BY <1>2, <1>3

\* Steps add up.
LEMMA AtAdd ==
    ASSUME NEW n \in Nat \ {0}, NEW h \in Nat, NEW a \in 0..n - 1, NEW b \in 0..n - 1,
           a + b < n
    PROVE  At(n, At(n, h, a), b) = At(n, h, a + b)
<1> DEFINE r == h % n
           c == At(n, h, a)
<1>1. r \in 0..n - 1 /\ \A k \in 0..n - 1 : At(n, h, k) = IF r + k < n THEN r + k ELSE r + k - n
  BY AtIs, Quotient
<1>2. c \in 0..n - 1 /\ c \in Nat
  BY AtIs
<1>3. c % n = c
  BY <1>2
<1>4. At(n, c, b) = IF c + b < n THEN c + b ELSE c + b - n
  BY <1>2, <1>3, AtIs, ZenonT(60)
<1>5. c = IF r + a < n THEN r + a ELSE r + a - n
  BY <1>1
<1>6. a + b \in 0..n - 1 /\ At(n, h, a + b) = IF r + (a + b) < n THEN r + (a + b) ELSE r + (a + b) - n
  BY <1>1
<1> HIDE DEF r, c
<1>7. At(n, c, b) = At(n, h, a + b)
  BY <1>1, <1>4, <1>5, <1>6
<1> QED BY <1>7 DEF c
-----------------------------------------------------------------------------
(***************************************************************************)
(* Probing                                                                 *)
(***************************************************************************)

LEMMA SizeIs ==
    ASSUME NEW n \in Nat, NEW d, DOMAIN d.name = 0..n - 1
    PROVE  size(d) = n
<1>1. Cardinality(0..n - 1) = IF 0 > n - 1 THEN 0 ELSE n - 1 - 0 + 1
  BY FS_Interval
<1> QED BY <1>1 DEF size

LEMMA SlotCount ==
    ASSUME NEW n \in Nat
    PROVE  IsFiniteSet(0..n - 1) /\ Cardinality(0..n - 1) = n
<1>1. IsFiniteSet(0..n - 1) /\ Cardinality(0..n - 1) = IF 0 > n - 1 THEN 0 ELSE n - 1 - 0 + 1
  BY FS_Interval
<1> QED BY <1>1

\* A probe from h stops at the first slot whose name is in S.
First(d, n, h, S, i) ==
    \E k \in 0..n - 1 : /\ i = At(n, h, k) /\ d.name[i] \in S
                        /\ \A m \in 0..k - 1 : d.name[At(n, h, m)] \notin S

ProbeFor(d, h, S) == Probe(d, h, LAMBDA x : x \in S)

LEMMA ProbeFirst ==
    ASSUME NEW n \in Nat \ {0}, NEW d, DOMAIN d.name = 0..n - 1, NEW h \in Nat, NEW S
    PROVE  \/ /\ ProbeFor(d, h, S) = n
              /\ \A j \in 0..n - 1 : d.name[j] \notin S
           \/ First(d, n, h, S, ProbeFor(d, h, S))
<1> DEFINE hits == {k \in 0..n - 1 : d.name[At(n, h, k)] \in S}
           k == CHOOSE k \in hits : \A m \in hits : k <= m
<1>1. ProbeFor(d, h, S) = IF hits = {} THEN n ELSE At(n, h, k)
  <2>1. size(d) = n
    BY SizeIs
  <2> QED BY <2>1 DEF ProbeFor, Probe, At
<1>2. CASE hits = {}
  <2>1. ASSUME NEW j \in 0..n - 1 PROVE d.name[j] \notin S
    <3>1. PICK m \in 0..n - 1 : At(n, h, m) = j
      BY AtMeets
    <3> QED BY <1>2, <3>1
  <2> QED BY <1>1, <1>2, <2>1
<1>3. CASE hits # {}
  <2>1. hits \subseteq Nat
    OBVIOUS
  <2>2. k \in hits /\ \A m \in hits : k <= m
    <3> HIDE DEF hits
    <3> QED BY <1>3, <2>1, Least
  <2> HIDE DEF k
  <2>3. k \in 0..n - 1 /\ d.name[At(n, h, k)] \in S
    BY <2>2
  <2>4. ASSUME NEW m \in 0..k - 1 PROVE d.name[At(n, h, m)] \notin S
    <3>1. m \in 0..n - 1 /\ ~(k <= m)
      BY <2>3
    <3> QED BY <2>2, <3>1
  <2> QED BY <1>1, <1>3, <2>3, <2>4 DEF First
<1> QED BY <1>2, <1>3
-----------------------------------------------------------------------------
(***************************************************************************)
(* The table                                                               *)
(***************************************************************************)
Marks == {Free, DEAD}
Hashed == strhash \in [Names -> Nat]

Table(d, n) ==
    /\ n \in Nat \ {0}
    /\ d \in [name   : [0..n - 1 -> Names \cup Marks],
              value  : [0..n - 1 -> Values \cup {NoValue}],
              remain : Int]

\* A name has one slot and a value, and a probe for it stops no earlier.
Good(d, n) ==
    /\ Table(d, n)
    /\ \A i, j \in 0..n - 1 : d.name[i] \in Names /\ d.name[i] = d.name[j] => i = j
    /\ \A i \in 0..n - 1 : d.name[i] \in Names => d.value[i] \in Values
    /\ \A nm \in Names : \A k \in 0..n - 1 :
          d.name[At(n, strhash[nm], k)] = nm =>
             \A m \in 0..k - 1 : d.name[At(n, strhash[nm], m)] # Free

\* get finds the slot of a name, and none for a name that is not there.
LEMMA GetFinds ==
    ASSUME DictAssumption, Hashed, NEW n, NEW d, Good(d, n), NEW nm \in Names
    PROVE  /\ \A i \in 0..n - 1 : d.name[i] = nm => slot(d, nm) = i /\ get(d, nm) = d.value[i]
           /\ (\A i \in 0..n - 1 : d.name[i] # nm) => get(d, nm) = NoValue
<1> DEFINE h == strhash[nm]
           s == slot(d, nm)
<1>1. h \in Nat /\ n \in Nat \ {0} /\ DOMAIN d.name = 0..n - 1
  BY DEF Hashed, Good, Table
<1>2. \/ s = n /\ \A j \in 0..n - 1 : d.name[j] \notin {nm, Free}
      \/ First(d, n, h, {nm, Free}, s)
  <2>1. s = ProbeFor(d, h, {nm, Free})
    BY DEF slot, ProbeFor, Probe
  <2> HIDE DEF s
  <2> QED BY <1>1, <2>1, ProbeFirst
<1>3. get(d, nm) = IF s \in 0..n - 1 /\ d.name[s] = nm THEN d.value[s] ELSE NoValue
  BY <1>1 DEF get, Found
<1> HIDE DEF s
<1>4. ASSUME NEW i \in 0..n - 1, d.name[i] = nm PROVE s = i
  <2>1. PICK k \in 0..n - 1 : /\ s = At(n, h, k) /\ d.name[s] \in {nm, Free}
                             /\ \A m \in 0..k - 1 : d.name[At(n, h, m)] \notin {nm, Free}
    BY <1>2, <1>4 DEF First
  <2>2. PICK l \in 0..n - 1 : At(n, h, l) = i
    BY <1>1, AtMeets, ZenonT(60)
  <2>3. ~(l < k)
    BY <1>4, <2>1, <2>2
  <2>4. CASE k = l
    BY <2>1, <2>2, <2>4
  <2>5. CASE k < l
    <3>1. k \in 0..l - 1
      BY <2>5
    <3>2. d.name[At(n, h, k)] # Free
      BY <1>4, <2>2, <3>1 DEF Good
    <3>3. d.name[s] = nm /\ s \in 0..n - 1
      BY <1>1, <2>1, <3>2, AtIs
    <3> QED BY <1>4, <3>3 DEF Good
  <2> QED BY <2>3, <2>4, <2>5
<1>5. ASSUME NEW i \in 0..n - 1, d.name[i] = nm PROVE s = i /\ get(d, nm) = d.value[i]
  BY <1>3, <1>4, <1>5
<1> QED BY <1>3, <1>5 DEF s

\* In other words: get of nm is v.
Has(d, n, nm, v) ==
    \/ \E i \in 0..n - 1 : d.name[i] = nm /\ d.value[i] = v
    \/ v = NoValue /\ \A i \in 0..n - 1 : d.name[i] # nm

LEMMA HasGet ==
    ASSUME DictAssumption, Hashed, NEW n, NEW d, Good(d, n), NEW nm \in Names
    PROVE  /\ Has(d, n, nm, get(d, nm))
           /\ \A v : Has(d, n, nm, v) => get(d, nm) = v
           /\ get(d, nm) = NoValue <=> \A i \in 0..n - 1 : d.name[i] # nm
<1>1. Has(d, n, nm, get(d, nm))
  BY GetFinds DEF Has
<1>2. ASSUME NEW v, Has(d, n, nm, v) PROVE get(d, nm) = v
  BY <1>2, GetFinds DEF Has
<1>3. ASSUME NEW i \in 0..n - 1, d.name[i] = nm PROVE get(d, nm) # NoValue
  <2>1. d.value[i] \in Values
    BY <1>3 DEF Good
  <2> QED BY <1>3, <2>1, GetFinds DEF DictAssumption
<1> QED BY <1>1, <1>2, <1>3, GetFinds
-----------------------------------------------------------------------------
(***************************************************************************)
(* putIn                                                                   *)
(***************************************************************************)
FreeSlots(d, n) == {i \in 0..n - 1 : d.name[i] = Free}

\* remain counts the free slots above the third that is to stay free.
Balanced(d, n) == Cardinality(FreeSlots(d, n)) = d.remain + (n - REMAIN(n))

LEMMA PutIs ==
    ASSUME DictAssumption, Hashed, NEW n, NEW d, Good(d, n), FreeSlots(d, n) # {},
           NEW nm \in Names, NEW v
    PROVE  \E i \in 0..n - 1 :
              /\ d.name[i] \in Marks
              /\ putIn(d, nm, v) = [name   |-> [d.name EXCEPT ![i] = nm],
                                    value  |-> [d.value EXCEPT ![i] = v],
                                    remain |-> IF d.name[i] = Free THEN d.remain - 1 ELSE d.remain]
              /\ \E k \in 0..n - 1 : /\ i = At(n, strhash[nm], k)
                                     /\ \A m \in 0..k - 1 :
                                           d.name[At(n, strhash[nm], m)] # Free
<1> DEFINE h == strhash[nm]
           i == ProbeFor(d, h, Marks)
<1>1. h \in Nat /\ n \in Nat \ {0} /\ DOMAIN d.name = 0..n - 1
  BY DEF Hashed, Good, Table
<1>2. First(d, n, h, Marks, i)
  BY <1>1, ProbeFirst DEF FreeSlots, Marks
<1>3. putIn(d, nm, v) = [name   |-> [d.name EXCEPT ![i] = nm],
                         value  |-> [d.value EXCEPT ![i] = v],
                         remain |-> IF d.name[i] = Free THEN d.remain - 1 ELSE d.remain]
  BY DEF putIn, ProbeFor, Probe, Marks
<1> HIDE DEF i
<1>4. i \in 0..n - 1
  BY <1>1, <1>2, AtIs DEF First
<1> QED BY <1>2, <1>3, <1>4 DEF First, Marks

LEMMA PutGood ==
    ASSUME DictAssumption, Hashed, NEW n, NEW d, Good(d, n), FreeSlots(d, n) # {},
           NEW nm \in Names, \A i \in 0..n - 1 : d.name[i] # nm, NEW v \in Values
    PROVE  /\ Good(putIn(d, nm, v), n)
           /\ Has(putIn(d, nm, v), n, nm, v)
           /\ \A x \in Names \ {nm} : \A w : Has(d, n, x, w) => Has(putIn(d, nm, v), n, x, w)
<1> DEFINE e == putIn(d, nm, v)
<1>1. PICK i \in 0..n - 1 :
         /\ d.name[i] \in Marks
         /\ e = [name   |-> [d.name EXCEPT ![i] = nm],
                 value  |-> [d.value EXCEPT ![i] = v],
                 remain |-> IF d.name[i] = Free THEN d.remain - 1 ELSE d.remain]
         /\ \E k \in 0..n - 1 : /\ i = At(n, strhash[nm], k)
                                /\ \A m \in 0..k - 1 : d.name[At(n, strhash[nm], m)] # Free
  BY PutIs
<1>2. /\ n \in Nat \ {0} /\ d.name \in [0..n - 1 -> Names \cup Marks]
      /\ d.value \in [0..n - 1 -> Values \cup {NoValue}] /\ d.remain \in Int
  BY DEF Good, Table
<1> HIDE DEF e
<1>3. /\ \A j \in 0..n - 1 : /\ e.name[j] = IF j = i THEN nm ELSE d.name[j]
                             /\ e.value[j] = IF j = i THEN v ELSE d.value[j]
  BY <1>1, <1>2
<1>4. Table(e, n)
  <2>1. [d.name EXCEPT ![i] = nm] \in [0..n - 1 -> Names \cup Marks]
    BY <1>2
  <2>2. [d.value EXCEPT ![i] = v] \in [0..n - 1 -> Values \cup {NoValue}]
    BY <1>2
  <2>3. (IF d.name[i] = Free THEN d.remain - 1 ELSE d.remain) \in Int
    BY <1>2
  <2> QED BY <1>1, <1>2, <2>1, <2>2, <2>3 DEF Table
<1>5. \A a, b \in 0..n - 1 : e.name[a] \in Names /\ e.name[a] = e.name[b] => a = b
  BY <1>3 DEF Good
<1>6. \A a \in 0..n - 1 : e.name[a] \in Names => e.value[a] \in Values
  BY <1>3 DEF Good
<1>7. ASSUME NEW x \in Names, NEW k \in 0..n - 1, e.name[At(n, strhash[x], k)] = x,
             NEW m \in 0..k - 1
      PROVE  e.name[At(n, strhash[x], m)] # Free
  <2>1. strhash[x] \in Nat /\ m \in 0..n - 1 /\ nm # Free
    BY <1>2 DEF Hashed, DictAssumption
  <2>2. At(n, strhash[x], k) \in 0..n - 1 /\ At(n, strhash[x], m) \in 0..n - 1
    BY <1>2, <2>1, AtIs
  <2>3. CASE At(n, strhash[x], k) = i
    <3>1. x = nm
      BY <1>3, <1>7, <2>3
    <3>2. PICK l \in 0..n - 1 : /\ i = At(n, strhash[nm], l)
                               /\ \A o \in 0..l - 1 : d.name[At(n, strhash[nm], o)] # Free
      BY <1>1
    <3>3. k = l
      <4>1. At(n, strhash[x], k) = At(n, strhash[x], l)
        BY <2>3, <3>1, <3>2
      <4>2. \A a, b \in 0..n - 1 : At(n, strhash[x], a) = At(n, strhash[x], b) => a = b
        BY <1>2, <2>1, AtMeets
      <4> QED BY <4>1, <4>2
    <3> QED BY <1>3, <2>1, <2>2, <3>1, <3>2, <3>3
  <2>4. CASE At(n, strhash[x], k) # i
    <3>1. d.name[At(n, strhash[x], k)] = x
      BY <1>3, <1>7, <2>2, <2>4
    <3>2. d.name[At(n, strhash[x], m)] # Free
      BY <3>1 DEF Good
    <3> QED BY <1>3, <2>1, <2>2, <3>2
  <2> QED BY <2>3, <2>4
<1>8. Good(e, n)
  BY <1>4, <1>5, <1>6, <1>7 DEF Good
<1>9. Has(e, n, nm, v)
  BY <1>3 DEF Has
<1>10. ASSUME NEW x \in Names \ {nm}, NEW w, Has(d, n, x, w) PROVE Has(e, n, x, w)
  <2>1. d.name[i] # x
    BY <1>1 DEF Marks, DictAssumption
  <2> QED BY <1>3, <1>10, <2>1 DEF Has
<1> QED BY <1>8, <1>9, <1>10 DEF e

\* The slots that are left: remain, and the names a table has taken.
LEMMA PutCounts ==
    ASSUME DictAssumption, Hashed, NEW n, NEW d, Good(d, n), FreeSlots(d, n) # {},
           NEW nm \in Names, NEW v, Balanced(d, n)
    PROVE  /\ Balanced(putIn(d, nm, v), n)
           /\ putIn(d, nm, v).remain \in {d.remain, d.remain - 1}
<1> DEFINE e == putIn(d, nm, v)
<1>1. PICK i \in 0..n - 1 :
         /\ d.name[i] \in Marks
         /\ e = [name   |-> [d.name EXCEPT ![i] = nm],
                 value  |-> [d.value EXCEPT ![i] = v],
                 remain |-> IF d.name[i] = Free THEN d.remain - 1 ELSE d.remain]
  BY PutIs
<1>2. n \in Nat \ {0} /\ d.name \in [0..n - 1 -> Names \cup Marks] /\ d.remain \in Int
  BY DEF Good, Table
<1> HIDE DEF e
<1>3. \A j \in 0..n - 1 : e.name[j] = IF j = i THEN nm ELSE d.name[j]
  BY <1>1, <1>2
<1>4. nm # Free
  BY DEF DictAssumption
<1>5. IsFiniteSet(FreeSlots(d, n)) /\ Cardinality(FreeSlots(d, n)) \in Nat
  <2>1. IsFiniteSet(0..n - 1) /\ FreeSlots(d, n) \subseteq 0..n - 1
    BY <1>2, FS_Interval DEF FreeSlots
  <2> QED BY <2>1, FS_Subset, FS_CardinalityType
<1>6. FreeSlots(e, n) = FreeSlots(d, n) \ {i}
  BY <1>3, <1>4 DEF FreeSlots
<1>7. Cardinality(FreeSlots(e, n)) = IF d.name[i] = Free THEN Cardinality(FreeSlots(d, n)) - 1
                                     ELSE Cardinality(FreeSlots(d, n))
  <2>1. d.name[i] = Free <=> i \in FreeSlots(d, n)
    BY DEF FreeSlots
  <2> QED BY <1>5, <1>6, <2>1, FS_RemoveElement
<1>8. REMAIN(n) \in Int
  BY <1>2 DEF REMAIN
<1> QED BY <1>1, <1>2, <1>5, <1>7, <1>8 DEF Balanced, e
-----------------------------------------------------------------------------
(***************************************************************************)
(* GROW                                                                    *)
(***************************************************************************)

\* The new table after k slots of d.
Carry(d, r, k) == IF d.name[k - 1] \in Marks THEN r ELSE putIn(r, d.name[k - 1], d.value[k - 1])
Carries(d, n, to, f, m) ==
    f = [k \in 0..m |-> IF k = 0 THEN to ELSE Carry(d, f[k - 1], k)]

LEMMA GrowIs ==
    ASSUME NEW n \in Nat, NEW d, DOMAIN d.name = 0..n - 1
    PROVE  \E f : Carries(d, n, mkdict(2 * n), f, n) /\ GROW(d) = f[n]
<1> DEFINE to == mkdict(2 * n)
           S == {m \in Nat : \E f : Carries(d, n, to, f, m)}
           g == CHOOSE f : Carries(d, n, to, f, n)
<1> HIDE DEF to
<1>1. 0 \in S
  <2>1. Carries(d, n, to, [k \in 0..0 |-> to], 0)
    BY DEF Carries
  <2> QED BY <2>1
<1>2. ASSUME NEW m \in Nat, m \in S PROVE m + 1 \in S
  <2>1. PICK f : Carries(d, n, to, f, m)
    BY <1>2
  <2> DEFINE h == [k \in 0..m + 1 |-> IF k = m + 1 THEN Carry(d, f[m], m + 1) ELSE f[k]]
  <2>2. \A k \in 0..m : f[k] = IF k = 0 THEN to ELSE Carry(d, f[k - 1], k)
    BY <2>1 DEF Carries
  <2>3. ASSUME NEW k \in 0..m + 1
        PROVE  h[k] = IF k = 0 THEN to ELSE Carry(d, h[k - 1], k)
    <3>1. CASE k = m + 1
      <4>1. h[k] = Carry(d, f[m], k) /\ h[k - 1] = f[m] /\ k # 0
        BY <3>1
      <4> QED BY <4>1
    <3>2. CASE k # m + 1
      <4>1. k \in 0..m /\ h[k] = f[k] /\ (k # 0 => h[k - 1] = f[k - 1])
        BY <3>2
      <4> QED BY <2>2, <4>1
    <3> QED BY <3>1, <3>2
  <2>4. Carries(d, n, to, h, m + 1)
    BY <2>3 DEF Carries
  <2> QED BY <2>4
<1>3. n \in S
  <2> HIDE DEF S
  <2>1. Nat \subseteq S
    BY <1>1, <1>2, Induction
  <2> QED BY <2>1
<1>4. Carries(d, n, to, g, n)
  BY <1>3
<1>5. GROW(d) = g[n]
  <2>1. size(d) = n
    BY SizeIs
  <2> QED BY <2>1 DEF GROW, dictforall, Carries, Carry, Marks, to
<1> QED BY <1>4, <1>5 DEF to

LEMMA MkGood ==
    ASSUME DictAssumption, Hashed, NEW n \in Nat \ {0}
    PROVE  /\ Good(mkdict(n), n) /\ Balanced(mkdict(n), n)
           /\ mkdict(n).remain = REMAIN(n)
           /\ \A nm \in Names : Has(mkdict(n), n, nm, NoValue)
<1> DEFINE e == mkdict(n)
<1>1. e = [name   |-> [i \in 0..n - 1 |-> Free],
           value  |-> [i \in 0..n - 1 |-> NoValue],
           remain |-> REMAIN(n)]
  BY DEF mkdict
<1>2. REMAIN(n) \in Nat
  BY DEF REMAIN
<1> HIDE DEF e
<1>3. \A i \in 0..n - 1 : e.name[i] = Free /\ e.name[i] \notin Names
  BY <1>1 DEF DictAssumption
<1>4. Table(e, n)
  BY <1>1, <1>2 DEF Table, Marks
<1>5. ASSUME NEW nm \in Names, NEW k \in 0..n - 1 PROVE e.name[At(n, strhash[nm], k)] # nm
  <2>1. strhash[nm] \in Nat
    BY DEF Hashed
  <2>2. At(n, strhash[nm], k) \in 0..n - 1
    BY <2>1, AtIs
  <2> QED BY <1>3, <2>2
<1>6. FreeSlots(e, n) = 0..n - 1
  BY <1>3 DEF FreeSlots
<1>7. Cardinality(0..n - 1) = IF 0 > n - 1 THEN 0 ELSE n - 1 - 0 + 1
  BY FS_Interval
<1>8. Balanced(e, n)
  BY <1>1, <1>2, <1>6, <1>7 DEF Balanced
<1> QED BY <1>1, <1>3, <1>4, <1>5, <1>8 DEF Good, Has, e

\* The slots of d before the k-th that hold a name.
Taken(d, k) == {i \in 0..k - 1 : d.name[i] \notin Marks}

LEMMA TakenCounts ==
    ASSUME NEW n, NEW d, Table(d, n), NEW k \in 0..n - 1
    PROVE  /\ Cardinality(Taken(d, k)) \in 0..k
           /\ d.name[k] \in Marks => Cardinality(Taken(d, k + 1)) = Cardinality(Taken(d, k))
           /\ d.name[k] \notin Marks => Cardinality(Taken(d, k + 1)) = Cardinality(Taken(d, k)) + 1
<1>1. n \in Nat \ {0} /\ k \in Nat
  BY DEF Table
<1>2. /\ IsFiniteSet(0..k - 1) /\ Cardinality(0..k - 1) = IF 0 > k - 1 THEN 0 ELSE k - 1 - 0 + 1
  BY <1>1, FS_Interval
<1>3. Taken(d, k) \subseteq 0..k - 1
  BY DEF Taken
<1>4. /\ IsFiniteSet(Taken(d, k)) /\ Cardinality(Taken(d, k)) \in Nat
      /\ Cardinality(Taken(d, k)) <= Cardinality(0..k - 1)
  BY <1>2, <1>3, FS_Subset, FS_CardinalityType
<1>5. k \notin Taken(d, k)
  BY <1>1 DEF Taken
<1>6. CASE d.name[k] \in Marks
  <2>1. Taken(d, k + 1) = Taken(d, k)
    BY <1>1, <1>6 DEF Taken
  <2> QED BY <1>1, <1>2, <1>4, <1>6, <2>1
<1>7. CASE d.name[k] \notin Marks
  <2>1. Taken(d, k + 1) = Taken(d, k) \cup {k}
    BY <1>1, <1>7 DEF Taken
  <2>2. Cardinality(Taken(d, k) \cup {k}) = Cardinality(Taken(d, k)) + 1
    BY <1>4, <1>5, FS_AddElement
  <2>3. Cardinality(Taken(d, k + 1)) = Cardinality(Taken(d, k)) + 1
    BY <2>1, <2>2, Zenon
  <2> QED BY <1>1, <1>2, <1>4, <1>7, <2>3
<1> QED BY <1>6, <1>7

\* e holds what d holds in its first k slots.
Copied(d, e, n, k) ==
    /\ Good(e, 2 * n) /\ Balanced(e, 2 * n)
    /\ e.remain >= REMAIN(2 * n) - Cardinality(Taken(d, k))
    /\ \A nm \in Names : \A w :
          \/ \E i \in 0..k - 1 : d.name[i] = nm /\ d.value[i] = w
          \/ w = NoValue /\ \A i \in 0..k - 1 : d.name[i] # nm
          => Has(e, 2 * n, nm, w)

LEMMA CarryCopies ==
    ASSUME DictAssumption, Hashed, NEW n, NEW d, Good(d, n), NEW k \in 0..n - 1,
           NEW e, Copied(d, e, n, k)
    PROVE  Copied(d, Carry(d, e, k + 1), n, k + 1)
<1> DEFINE N == 2 * n
           r == Carry(d, e, k + 1)
           nm == d.name[k]
           v == d.value[k]
<1>1. /\ n \in Nat \ {0} /\ N \in Nat \ {0} /\ k + 1 - 1 = k /\ k \in Nat
      /\ Table(d, n) /\ REMAIN(N) \in Int /\ e.remain \in Int
  BY DEF Good, Table, REMAIN, Copied
<1>2. /\ Cardinality(Taken(d, k)) \in 0..k
      /\ nm \in Marks => Cardinality(Taken(d, k + 1)) = Cardinality(Taken(d, k))
      /\ nm \notin Marks => Cardinality(Taken(d, k + 1)) = Cardinality(Taken(d, k)) + 1
  <2>1. Table(d, n)
    BY DEF Good
  <2> QED BY <2>1, TakenCounts
<1>3. r = IF nm \in Marks THEN e ELSE putIn(e, nm, v)
  BY <1>1 DEF Carry
<1>4. 0..k = (0..k - 1) \cup {k}
  BY <1>1
<1>5. CASE nm \in Marks
  <2>1. nm \notin Names
    BY <1>5 DEF Marks, DictAssumption
  <2> HIDE DEF r
  <2>2. ASSUME NEW x \in Names, NEW w,
               \/ \E i \in 0..k : d.name[i] = x /\ d.value[i] = w
               \/ w = NoValue /\ \A i \in 0..k : d.name[i] # x
        PROVE  Has(r, N, x, w)
    BY <1>3, <1>4, <1>5, <2>1, <2>2 DEF Copied
  <2> QED BY <1>1, <1>2, <1>3, <1>5, <2>2 DEF Copied, r
<1>6. CASE nm \notin Marks
  <2>1. nm \in Names /\ v \in Values
    BY <1>1, <1>6 DEF Table, Good
  <2>2. \A i \in 0..k - 1 : d.name[i] # nm
    <3> SUFFICES ASSUME NEW i \in 0..k - 1, d.name[i] = nm PROVE FALSE
      OBVIOUS
    <3>1. i \in 0..n - 1 /\ i # k
      BY <1>1
    <3> QED BY <2>1, <3>1 DEF Good
  <2>3. Has(e, N, nm, NoValue)
    BY <2>1, <2>2 DEF Copied
  <2>4. Good(e, N) /\ Balanced(e, N)
    BY DEF Copied
  <2>5. \A i \in 0..N - 1 : e.name[i] # nm
    <3> SUFFICES ASSUME NEW i \in 0..N - 1, e.name[i] = nm PROVE FALSE
      OBVIOUS
    <3>1. e.value[i] \in Values
      BY <2>1, <2>4 DEF Good
    <3>2. PICK j \in 0..N - 1 : e.name[j] = nm /\ e.value[j] = NoValue
      BY <2>3 DEF Has
    <3> QED BY <2>1, <2>4, <3>1, <3>2 DEF Good, DictAssumption
  <2>6. FreeSlots(e, N) # {}
    <3>1. e.remain + (N - REMAIN(N)) > 0
      BY <1>1, <1>2 DEF Copied
    <3> QED BY <2>4, <3>1, FS_EmptySet DEF Balanced
  <2> HIDE DEF N, nm, v
  <2>7. /\ Good(putIn(e, nm, v), N) /\ Has(putIn(e, nm, v), N, nm, v)
        /\ \A x \in Names \ {nm} : \A w : Has(e, N, x, w) => Has(putIn(e, nm, v), N, x, w)
    BY <2>1, <2>4, <2>5, <2>6, PutGood
  <2>8. /\ Balanced(putIn(e, nm, v), N)
        /\ putIn(e, nm, v).remain \in {e.remain, e.remain - 1}
    BY <2>1, <2>4, <2>6, PutCounts
  <2>9. r = putIn(e, nm, v)
    BY <1>3, <1>6
  <2> HIDE DEF r
  <2>10. r.remain >= REMAIN(N) - Cardinality(Taken(d, k + 1))
    BY <1>1, <1>2, <1>6, <2>8, <2>9 DEF Copied, N, nm
  <2>11. ASSUME NEW x \in Names, NEW w,
                \/ \E i \in 0..k : d.name[i] = x /\ d.value[i] = w
                \/ w = NoValue /\ \A i \in 0..k : d.name[i] # x
         PROVE  Has(r, N, x, w)
    <3>1. CASE x = nm
      <4>1. w = v
        BY <1>4, <2>2, <2>11, <3>1 DEF nm, v
      <4> QED BY <2>7, <2>9, <3>1, <4>1
    <3>2. CASE x # nm
      <4>1. \/ \E i \in 0..k - 1 : d.name[i] = x /\ d.value[i] = w
            \/ w = NoValue /\ \A i \in 0..k - 1 : d.name[i] # x
        BY <1>4, <2>11, <3>2 DEF nm
      <4>2. Has(e, N, x, w)
        BY <4>1 DEF Copied, N
      <4> QED BY <2>7, <2>9, <3>2, <4>2
    <3> QED BY <3>1, <3>2
  <2> QED BY <1>1, <2>7, <2>8, <2>9, <2>10, <2>11 DEF Copied, r, N
<1> QED BY <1>5, <1>6

\* Twice the size leaves room for a name at least.
LEMMA RemainGrows ==
    ASSUME NEW n \in Nat, n >= 2
    PROVE  /\ REMAIN(n) \in Nat /\ REMAIN(n) < n /\ REMAIN(2 * n) \in Nat
           /\ REMAIN(2 * n) >= REMAIN(n) + 1
BY DEF REMAIN

LEMMA GrowGood ==
    ASSUME DictAssumption, Hashed, NEW n, NEW d, n >= 2,
           Good(d, n), Balanced(d, n), d.remain \in Nat
    PROVE  /\ Good(GROW(d), 2 * n) /\ Balanced(GROW(d), 2 * n) /\ GROW(d).remain >= 1
           /\ \A nm \in Names : \A w : Has(d, n, nm, w) => Has(GROW(d), 2 * n, nm, w)
<1>1. n \in Nat /\ n \in Nat \ {0} /\ 2 * n \in Nat \ {0} /\ DOMAIN d.name = 0..n - 1
  BY DEF Good, Table
<1>2. PICK f : Carries(d, n, mkdict(2 * n), f, n) /\ GROW(d) = f[n]
  BY <1>1, GrowIs
<1>3. f[0] = mkdict(2 * n) /\ \A k \in 0..n - 1 : f[k + 1] = Carry(d, f[k], k + 1)
  <2>1. \A k \in 0..n : f[k] = IF k = 0 THEN mkdict(2 * n) ELSE Carry(d, f[k - 1], k)
    BY <1>2 DEF Carries
  <2>2. 0 \in 0..n /\ \A k \in 0..n - 1 : k + 1 \in 0..n /\ k + 1 # 0 /\ k + 1 - 1 = k
    BY <1>1
  <2> QED BY <2>1, <2>2
<1> DEFINE S == {k \in Nat : k <= n => Copied(d, f[k], n, k)}
<1>4. 0 \in S
  <2>1. Cardinality(Taken(d, 0)) = 0
    <3>1. Taken(d, 0) = {}
      BY DEF Taken
    <3> QED BY <3>1, FS_EmptySet
  <2>2. /\ Good(f[0], 2 * n) /\ Balanced(f[0], 2 * n) /\ f[0].remain = REMAIN(2 * n)
        /\ \A nm \in Names : Has(f[0], 2 * n, nm, NoValue)
    BY <1>1, <1>3, MkGood
  <2>3. REMAIN(2 * n) \in Nat
    BY <1>1, RemainGrows
  <2>4. f[0].remain >= REMAIN(2 * n) - Cardinality(Taken(d, 0))
    BY <2>1, <2>2, <2>3
  <2>5. Copied(d, f[0], n, 0)
    BY <2>2, <2>4 DEF Copied
  <2> QED BY <2>5
<1>5. ASSUME NEW k \in Nat, k \in S PROVE k + 1 \in S
  <2> SUFFICES ASSUME k + 1 <= n PROVE Copied(d, f[k + 1], n, k + 1)
    OBVIOUS
  <2>1. k \in 0..n - 1 /\ Copied(d, f[k], n, k)
    BY <1>1, <1>5
  <2> QED BY <1>3, <2>1, CarryCopies
<1>6. Copied(d, f[n], n, n)
  <2> HIDE DEF S
  <2>1. Nat \subseteq S
    BY <1>4, <1>5, Induction
  <2> QED BY <1>1, <2>1 DEF S
<1>7. Cardinality(Taken(d, n)) \in Nat /\ Cardinality(Taken(d, n)) <= REMAIN(n) - d.remain
  <2>1. IsFiniteSet(0..n - 1) /\ Cardinality(0..n - 1) = n
    BY <1>1, SlotCount
  <2>2. Taken(d, n) \subseteq 0..n - 1 /\ FreeSlots(d, n) \subseteq 0..n - 1
    BY DEF Taken, FreeSlots
  <2>3. Taken(d, n) \cap FreeSlots(d, n) = {}
    BY DEF Taken, FreeSlots, Marks
  <2>4. /\ IsFiniteSet(Taken(d, n)) /\ IsFiniteSet(FreeSlots(d, n))
        /\ Cardinality(Taken(d, n)) \in Nat /\ Cardinality(FreeSlots(d, n)) \in Nat
    BY <2>1, <2>2, FS_Subset, FS_CardinalityType
  <2>5. Cardinality(Taken(d, n) \cup FreeSlots(d, n)) =
          Cardinality(Taken(d, n)) + Cardinality(FreeSlots(d, n)) - Cardinality(Taken(d, n) \cap FreeSlots(d, n))
    BY <2>4, FS_Union
  <2>6. Cardinality(Taken(d, n) \cap FreeSlots(d, n)) = 0
    BY <2>3, FS_EmptySet
  <2>7. Taken(d, n) \cup FreeSlots(d, n) \subseteq 0..n - 1
    BY <2>2
  <2>8. Cardinality(Taken(d, n) \cup FreeSlots(d, n)) <= Cardinality(0..n - 1)
    BY <2>1, <2>7, FS_Subset
  <2>9. Cardinality(Taken(d, n)) + Cardinality(FreeSlots(d, n)) <= n
    BY <1>1, <2>1, <2>4, <2>5, <2>6, <2>8
  <2>10. Cardinality(FreeSlots(d, n)) = d.remain + (n - REMAIN(n)) /\ REMAIN(n) \in Nat
    BY <1>1, RemainGrows DEF Balanced
  <2> QED BY <1>1, <2>4, <2>9, <2>10
<1>8. GROW(d).remain >= 1
  <2>1. f[n].remain >= REMAIN(2 * n) - Cardinality(Taken(d, n)) /\ f[n].remain \in Int
    BY <1>6 DEF Copied, Good, Table
  <2>2. REMAIN(n) \in Nat /\ REMAIN(2 * n) \in Nat /\ REMAIN(2 * n) >= REMAIN(n) + 1
    BY <1>1, RemainGrows
  <2> QED BY <1>2, <1>7, <2>1, <2>2
<1>9. ASSUME NEW nm \in Names, NEW w, Has(d, n, nm, w) PROVE Has(f[n], 2 * n, nm, w)
  BY <1>6, <1>9 DEF Copied, Has
<1> QED BY <1>2, <1>6, <1>8, <1>9 DEF Copied
-----------------------------------------------------------------------------
(***************************************************************************)
(* rm                                                                      *)
(***************************************************************************)

\* The way from a slot to another one.
Way(n, j, after) == (after + n - j) % n

LEMMA WayIs ==
    ASSUME NEW n \in Nat \ {0}, NEW j \in 0..n - 1, NEW after \in 0..n - 1, j # after
    PROVE  Way(n, j, after) \in 1..n - 1 /\ At(n, j, Way(n, j, after)) = after
<1>1. j \in Nat /\ j % n = j
  OBVIOUS
<1>2. CASE after > j
  <2>1. after - j \in 0..n - 1 /\ after + n - j = (n * 1) + (after - j)
    BY <1>2
  <2>2. ((n * 1) + (after - j)) % n = after - j
    BY <2>1, QuotientUnique
  <2>3. Way(n, j, after) = after - j
    BY <2>1, <2>2 DEF Way
  <2>4. At(n, j, after - j) = IF j + (after - j) < n THEN j + (after - j) ELSE j + (after - j) - n
    BY <1>1, <2>1, AtIs, ZenonT(60)
  <2> QED BY <1>2, <2>3, <2>4
<1>3. CASE after < j
  <2>1. after + n - j \in 0..n - 1 /\ after + n - j = (n * 0) + (after + n - j)
    BY <1>3
  <2>2. ((n * 0) + (after + n - j)) % n = after + n - j
    BY <2>1, QuotientUnique
  <2>3. Way(n, j, after) = after + n - j
    BY <2>1, <2>2 DEF Way
  <2>4. At(n, j, after + n - j) = IF j + (after + n - j) < n THEN j + (after + n - j)
                                  ELSE j + (after + n - j) - n
    BY <1>1, <2>1, AtIs, ZenonT(60)
  <2> QED BY <1>3, <2>3, <2>4
<1> QED BY <1>2, <1>3

\* The dead slots before a slot.
Dying(d, i) == [d EXCEPT !.name[i] = DEAD, !.value[i] = NoValue]
Run(dead, n, after) ==
    {j \in 0..n - 1 : \A k \in 1..Way(n, j, after) : dead.name[(j + k - 1) % n] = DEAD}

Freed(dead, n, after) ==
    [dead EXCEPT !.name = [j \in 0..n - 1 |-> IF j \in Run(dead, n, after) THEN Free
                                              ELSE dead.name[j]],
                 !.remain = @ + Cardinality(Run(dead, n, after) \ {after})]
Removed(d, dead, n, after) ==
    LET run == {j \in DOMAIN d.name : \A k \in 1..(after + n - j) % n :
                                         dead.name[(j + k - 1) % n] = DEAD}
    IN  IF dead.name[after] # Free THEN dead
        ELSE [dead EXCEPT
                 !.name = [j \in DOMAIN d.name |-> IF j \in run THEN Free ELSE dead.name[j]],
                 !.remain = @ + Cardinality(run \ {after})]

LEMMA RmIs ==
    ASSUME DictAssumption, NEW n, NEW d, Good(d, n), FreeSlots(d, n) # {},
           NEW i \in 0..n - 1, d.name[i] \in Names
    PROVE  LET dead == Dying(d, i)
           IN  \/ rm(d, i) = dead
               \/ \E after \in 0..n - 1 :
                     dead.name[after] = Free /\ rm(d, i) = Freed(dead, n, after)
<1> DEFINE dead == Dying(d, i)
           after == ProbeFor(dead, i + 1, Names \cup {Free})
<1>1. n \in Nat \ {0} /\ d.name \in [0..n - 1 -> Names \cup Marks] /\ DOMAIN d.name = 0..n - 1
  BY DEF Good, Table
<1>2. /\ DOMAIN dead.name = 0..n - 1
      /\ \A j \in 0..n - 1 : dead.name[j] = IF j = i THEN DEAD ELSE d.name[j]
  <2>1. dead.name = [d.name EXCEPT ![i] = DEAD]
    BY DEF Dying, Good, Table
  <2> QED BY <1>1, <2>1
<1>3. size(d) = n /\ size(dead) = n
  BY <1>1, <1>2, SizeIs
<1>4. Probe(dead, i + 1, LAMBDA x : x # DEAD) = after
  <2>1. \A k \in 0..n - 1 : (i + 1 + k) % n \in 0..n - 1
    BY <1>1
  <2>2. \A j \in 0..n - 1 : dead.name[j] # DEAD <=> dead.name[j] \in Names \cup {Free}
    BY <1>1, <1>2 DEF DictAssumption, Marks, Free, DEAD
  <2> DEFINE at(k) == (i + 1 + k) % n
             others == {k \in 0..n - 1 : dead.name[at(k)] # DEAD}
             hits == {k \in 0..n - 1 : dead.name[at(k)] \in Names \cup {Free}}
  <2>3. others = hits
    BY <2>1, <2>2
  <2>4. Probe(dead, i + 1, LAMBDA x : x # DEAD) =
          IF others = {} THEN n ELSE at(CHOOSE k \in others : \A m \in others : k <= m)
    <3> HIDE DEF dead
    <3> QED BY <1>2, <1>3 DEF Probe
  <2>5. after = IF hits = {} THEN n ELSE at(CHOOSE k \in hits : \A m \in hits : k <= m)
    <3> HIDE DEF dead
    <3> QED BY <1>2, <1>3 DEF Probe, ProbeFor
  <2> HIDE DEF others, hits, at, after, dead
  <2> QED BY <2>3, <2>4, <2>5
<1>5. after \in 0..n - 1
  <2>1. PICK j \in 0..n - 1 : d.name[j] = Free
    BY DEF FreeSlots
  <2>2. dead.name[j] = Free
    BY <1>2, <2>1 DEF DictAssumption
  <2>3. i + 1 \in Nat /\ dead.name[j] \in Names \cup {Free}
    BY <1>1, <2>2
  <2>4. First(dead, n, i + 1, Names \cup {Free}, after)
    <3> HIDE DEF dead
    <3> QED BY <1>1, <1>2, <2>3, ProbeFirst
  <2> QED BY <1>1, <2>3, <2>4, AtIs DEF First
<1>6. rm(d, i) = IF dead.name[after] # Free THEN dead ELSE Freed(dead, n, after)
  <2> DEFINE run == {j \in DOMAIN d.name : \A k \in 1..(after + n - j) % n :
                                           dead.name[(j + k - 1) % n] = DEAD}
  <2>1. rm(d, i) = Removed(d, dead, n, after)
    <3>1. Probe(Dying(d, i), i + 1, LAMBDA x : x # DEAD) = after /\ size(d) = n
      BY <1>3, <1>4
    <3>2. rm(d, i) = Removed(d, Dying(d, i), size(d), Probe(Dying(d, i), i + 1, LAMBDA x : x # DEAD))
      BY DEF rm, Removed, Dying
    <3> HIDE DEF after
    <3> QED BY <3>1, <3>2, Zenon
  <2>2. run = Run(dead, n, after)
    <3> HIDE DEF dead, after
    <3> QED BY <1>1 DEF Run, Way
  <2>3. Removed(d, dead, n, after) =
          IF dead.name[after] # Free THEN dead
          ELSE [dead EXCEPT
                   !.name = [j \in DOMAIN d.name |-> IF j \in run THEN Free ELSE dead.name[j]],
                   !.remain = @ + Cardinality(run \ {after})]
    <3> HIDE DEF dead, after
    <3> QED BY DEF Removed
  <2> HIDE DEF run, dead, after
  <2> QED BY <1>1, <2>1, <2>2, <2>3 DEF Freed
<1> QED BY <1>5, <1>6

\* A name taken out leaves the probes for the others as they were.
LEMMA DyingGood ==
    ASSUME DictAssumption, Hashed, NEW n, NEW d, Good(d, n),
           NEW i \in 0..n - 1, d.name[i] \in Names
    PROVE  LET dead == Dying(d, i)
           IN  /\ \A j \in 0..n - 1 : /\ dead.name[j] = IF j = i THEN DEAD ELSE d.name[j]
                                      /\ dead.value[j] = IF j = i THEN NoValue ELSE d.value[j]
               /\ dead.remain = d.remain
               /\ Good(dead, n) /\ FreeSlots(dead, n) = FreeSlots(d, n)
               /\ Has(dead, n, d.name[i], NoValue)
               /\ \A x \in Names \ {d.name[i]} : \A w : Has(d, n, x, w) => Has(dead, n, x, w)
<1> DEFINE dead == Dying(d, i)
<1>1. /\ n \in Nat \ {0} /\ d.name \in [0..n - 1 -> Names \cup Marks]
      /\ d.value \in [0..n - 1 -> Values \cup {NoValue}] /\ d.remain \in Int
  BY DEF Good, Table
<1>2. /\ dead.name = [d.name EXCEPT ![i] = DEAD] /\ dead.value = [d.value EXCEPT ![i] = NoValue]
      /\ dead.remain = d.remain
      /\ DOMAIN dead = {"name", "value", "remain"} /\ dead = [x \in DOMAIN dead |-> dead[x]]
  <2>1. d \in [name : {d.name}, value : {d.value}, remain : {d.remain}]
    BY DEF Good, Table
  <2>2. dead.name = [d.name EXCEPT ![i] = DEAD]
    BY <2>1 DEF Dying
  <2>3. dead.value = [d.value EXCEPT ![i] = NoValue]
    BY <2>1 DEF Dying
  <2>4. dead.remain = d.remain
    BY <2>1 DEF Dying
  <2>5. DOMAIN dead = {"name", "value", "remain"} /\ dead = [x \in DOMAIN dead |-> dead[x]]
    <3>1. DOMAIN d = {"name", "value", "remain"}
      BY <2>1
    <3> QED BY <3>1 DEF Dying
  <2> QED BY <2>2, <2>3, <2>4, <2>5
<1> HIDE DEF dead
<1>3. \A j \in 0..n - 1 : /\ dead.name[j] = IF j = i THEN DEAD ELSE d.name[j]
                          /\ dead.value[j] = IF j = i THEN NoValue ELSE d.value[j]
  BY <1>1, <1>2
<1>4. Table(dead, n)
  <2>1. [d.name EXCEPT ![i] = DEAD] \in [0..n - 1 -> Names \cup Marks]
    BY <1>1 DEF Marks
  <2>2. [d.value EXCEPT ![i] = NoValue] \in [0..n - 1 -> Values \cup {NoValue}]
    BY <1>1
  <2> QED BY <1>1, <1>2, <2>1, <2>2 DEF Table
<1>5. \A a, b \in 0..n - 1 : dead.name[a] \in Names /\ dead.name[a] = dead.name[b] => a = b
  BY <1>3 DEF Good, DictAssumption
<1>6. \A a \in 0..n - 1 : dead.name[a] \in Names => dead.value[a] \in Values
  BY <1>3 DEF Good, DictAssumption
<1>7. ASSUME NEW x \in Names, NEW k \in 0..n - 1, dead.name[At(n, strhash[x], k)] = x,
             NEW m \in 0..k - 1
      PROVE  dead.name[At(n, strhash[x], m)] # Free
  <2>1. strhash[x] \in Nat /\ m \in 0..n - 1
    BY <1>1 DEF Hashed
  <2>2. At(n, strhash[x], k) \in 0..n - 1 /\ At(n, strhash[x], m) \in 0..n - 1
    BY <1>1, <2>1, AtIs
  <2>3. d.name[At(n, strhash[x], k)] = x
    BY <1>3, <1>7, <2>2 DEF DictAssumption
  <2>4. d.name[At(n, strhash[x], m)] # Free
    BY <2>3 DEF Good
  <2> QED BY <1>3, <2>2, <2>4 DEF Free, DEAD
<1>8. FreeSlots(dead, n) = FreeSlots(d, n)
  BY <1>3 DEF FreeSlots, DictAssumption, Free, DEAD
<1>9. Has(dead, n, d.name[i], NoValue)
  BY <1>3 DEF Has, Good, DictAssumption
<1>10. \A x \in Names \ {d.name[i]} : \A w : Has(d, n, x, w) => Has(dead, n, x, w)
  BY <1>3 DEF Has, DictAssumption
<1>11. Good(dead, n)
  BY <1>4, <1>5, <1>6, <1>7 DEF Good
<1> QED BY <1>2, <1>3, <1>8, <1>9, <1>10, <1>11 DEF dead

\* Nor do the dead slots that become free: no probe for a name comes through them.
LEMMA FreedGood ==
    ASSUME DictAssumption, Hashed, NEW n, NEW dead, Good(dead, n),
           NEW after \in 0..n - 1, dead.name[after] = Free, NEW e, Table(e, n),
           \A j \in 0..n - 1 : /\ e.value[j] = dead.value[j]
                               /\ e.name[j] = IF j \in Run(dead, n, after) THEN Free
                                              ELSE dead.name[j]
    PROVE  /\ \A j \in Run(dead, n, after) : j # after => dead.name[j] = DEAD
           /\ Good(e, n)
           /\ \A x \in Names : \A w : Has(dead, n, x, w) => Has(e, n, x, w)
<1> DEFINE run == Run(dead, n, after)
<1>1. n \in Nat \ {0} /\ Free # DEAD
  BY DEF Good, Table, Free, DEAD
<1>2. ASSUME NEW j \in run, j # after
      PROVE  /\ Way(n, j, after) \in 1..n - 1 /\ At(n, j, Way(n, j, after)) = after
             /\ \A u \in 0..Way(n, j, after) - 1 : dead.name[At(n, j, u)] = DEAD
  <2>1. j \in 0..n - 1 /\ Way(n, j, after) \in 1..n - 1 /\ At(n, j, Way(n, j, after)) = after
    BY <1>1, <1>2, WayIs DEF Run
  <2>2. ASSUME NEW u \in 0..Way(n, j, after) - 1 PROVE dead.name[At(n, j, u)] = DEAD
    <3>1. u + 1 \in 1..Way(n, j, after) /\ j + (u + 1) - 1 = j + u
      BY <2>1
    <3>2. dead.name[(j + (u + 1) - 1) % n] = DEAD
      BY <3>1 DEF Run
    <3> QED BY <3>1, <3>2 DEF At
  <2> QED BY <2>1, <2>2
<1>3. ASSUME NEW j \in run, j # after PROVE dead.name[j] = DEAD
  <2>1. j \in 0..n - 1 /\ 0 \in 0..Way(n, j, after) - 1
    BY <1>1, <1>2, <1>3 DEF Run
  <2>2. At(n, j, 0) = j
    BY <1>1, <2>1 DEF At
  <2> QED BY <1>2, <1>3, <2>1, <2>2
<1>4. \A j \in 0..n - 1 : dead.name[j] \in Names => j \notin run
  BY <1>3 DEF DictAssumption
<1>5. \A j \in 0..n - 1 : e.name[j] \in Names <=> dead.name[j] \in Names
  BY <1>4 DEF DictAssumption
<1>6. \A j \in 0..n - 1 : e.name[j] \in Names => e.name[j] = dead.name[j]
  BY DEF DictAssumption
<1>7. \A a, b \in 0..n - 1 : e.name[a] \in Names /\ e.name[a] = e.name[b] => a = b
  BY <1>6 DEF Good
<1>8. \A a \in 0..n - 1 : e.name[a] \in Names => e.value[a] \in Values
  BY <1>5 DEF Good
<1>9. ASSUME NEW x \in Names, NEW k \in 0..n - 1, e.name[At(n, strhash[x], k)] = x,
             NEW m \in 0..k - 1, e.name[At(n, strhash[x], m)] = Free
      PROVE  FALSE
  <2> DEFINE h == strhash[x]
             s == At(n, h, m)
             p == At(n, h, k)
             t == Way(n, s, after)
  <2>1. h \in Nat /\ m \in 0..n - 1 /\ k - m \in 1..n - 1
    BY <1>1 DEF Hashed
  <2>2. s \in 0..n - 1 /\ p \in 0..n - 1
    BY <1>1, <2>1, AtIs
  <2>3. dead.name[p] = x
    BY <1>6, <1>9, <2>2
  <2>4. dead.name[s] # Free
    BY <2>3 DEF Good
  <2>5. s \in run /\ s # after
    BY <1>9, <2>2, <2>4
  <2>6. /\ t \in 1..n - 1 /\ At(n, s, t) = after
        /\ \A u \in 0..t - 1 : dead.name[At(n, s, u)] = DEAD
    BY <1>2, <2>5
  <2> HIDE DEF t
  <2>7. CASE m + t < k
    <3>1. At(n, h, m + t) = after
      BY <1>1, <2>1, <2>6, <2>7, AtAdd
    <3>2. m + t \in 0..k - 1
      BY <2>1, <2>6, <2>7
    <3> QED BY <2>3, <3>1, <3>2 DEF Good
  <2>8. CASE m + t = k
    <3>1. At(n, h, m + t) = after
      BY <1>1, <2>1, <2>6, <2>8, AtAdd
    <3> QED BY <2>3, <2>8, <3>1 DEF DictAssumption
  <2>9. CASE m + t > k
    <3>1. At(n, s, k - m) = At(n, h, m + (k - m))
      <4>1. k - m \in 0..n - 1 /\ m + (k - m) < n
        BY <1>1, <2>1
      <4> QED BY <1>1, <2>1, <4>1, AtAdd
    <3>2. m + (k - m) = k /\ k - m \in 0..t - 1
      BY <1>1, <2>1, <2>6, <2>9
    <3> QED BY <2>3, <2>6, <3>1, <3>2 DEF DictAssumption
  <2> QED BY <1>1, <2>1, <2>6, <2>7, <2>8, <2>9
<1>10. Good(e, n)
  BY <1>7, <1>8, <1>9 DEF Good
<1>11. ASSUME NEW x \in Names, NEW w, Has(dead, n, x, w) PROVE Has(e, n, x, w)
  BY <1>4, <1>5, <1>6, <1>11 DEF Has
<1> QED BY <1>3, <1>10, <1>11

LEMMA RmGood ==
    ASSUME DictAssumption, Hashed, NEW n, NEW d, Good(d, n), Balanced(d, n),
           FreeSlots(d, n) # {}, NEW i \in 0..n - 1, d.name[i] \in Names
    PROVE  LET e == rm(d, i)
           IN  /\ Good(e, n) /\ Balanced(e, n) /\ e.remain >= d.remain
               /\ Has(e, n, d.name[i], NoValue)
               /\ \A x \in Names \ {d.name[i]} : \A w : Has(d, n, x, w) => Has(e, n, x, w)
<1> DEFINE dead == Dying(d, i)
           e == rm(d, i)
<1>1. /\ dead.remain = d.remain /\ Good(dead, n) /\ FreeSlots(dead, n) = FreeSlots(d, n)
      /\ Has(dead, n, d.name[i], NoValue)
      /\ \A x \in Names \ {d.name[i]} : \A w : Has(d, n, x, w) => Has(dead, n, x, w)
  BY DyingGood
<1>2. n \in Nat \ {0} /\ d.remain \in Int /\ Table(dead, n)
  BY <1>1 DEF Good, Table
<1>3. \/ e = dead
      \/ \E after \in 0..n - 1 :
            dead.name[after] = Free /\ e = Freed(dead, n, after)
  BY RmIs
<1> HIDE DEF dead, e
<1>4. ASSUME e = dead
      PROVE  /\ Good(e, n) /\ Balanced(e, n) /\ e.remain >= d.remain
             /\ Has(e, n, d.name[i], NoValue)
             /\ \A x \in Names \ {d.name[i]} : \A w : Has(d, n, x, w) => Has(e, n, x, w)
  BY <1>1, <1>2, <1>4 DEF Balanced
<1>5. ASSUME NEW after \in 0..n - 1, dead.name[after] = Free,
             e = Freed(dead, n, after)
      PROVE  /\ Good(e, n) /\ Balanced(e, n) /\ e.remain >= d.remain
             /\ Has(e, n, d.name[i], NoValue)
             /\ \A x \in Names \ {d.name[i]} : \A w : Has(d, n, x, w) => Has(e, n, x, w)
  <2> DEFINE freed == Run(dead, n, after) \ {after}
  <2>1. IsFiniteSet(freed) /\ Cardinality(freed) \in Nat
    <3>1. IsFiniteSet(0..n - 1) /\ freed \subseteq 0..n - 1
      BY <1>2, SlotCount DEF Run
    <3> QED BY <3>1, FS_Subset, FS_CardinalityType
  <2>2. /\ dead.name \in [0..n - 1 -> Names \cup Marks]
        /\ dead.value \in [0..n - 1 -> Values \cup {NoValue}] /\ dead.remain \in Int
        /\ DOMAIN dead = {"name", "value", "remain"}
    BY <1>2 DEF Table
  <2>3. /\ e.name = [j \in 0..n - 1 |-> IF j \in Run(dead, n, after) THEN Free ELSE dead.name[j]]
        /\ e.value = dead.value /\ e.remain = dead.remain + Cardinality(freed)
        /\ DOMAIN e = {"name", "value", "remain"} /\ e = [x \in DOMAIN e |-> e[x]]
    BY <1>5, <2>2 DEF Freed
  <2> HIDE DEF freed
  <2>4. Table(e, n)
    <3>1. e.name \in [0..n - 1 -> Names \cup Marks]
      BY <2>2, <2>3 DEF Marks
    <3>2. e.remain \in Int
      BY <2>1, <2>2, <2>3
    <3> QED BY <1>2, <2>2, <2>3, <3>1, <3>2 DEF Table
  <2>5. \A j \in 0..n - 1 : /\ e.value[j] = dead.value[j]
                            /\ e.name[j] = IF j \in Run(dead, n, after) THEN Free
                                           ELSE dead.name[j]
    BY <2>3
  <2>6. /\ \A j \in Run(dead, n, after) : j # after => dead.name[j] = DEAD
        /\ Good(e, n)
        /\ \A x \in Names : \A w : Has(dead, n, x, w) => Has(e, n, x, w)
    <3>1. Good(dead, n) /\ dead.name[after] = Free
      BY <1>1, <1>5
    <3> QED BY <2>4, <2>5, <3>1, FreedGood, Zenon
  <2>7. FreeSlots(e, n) = FreeSlots(dead, n) \cup freed
    <3>1. Run(dead, n, after) \subseteq 0..n - 1
      BY DEF Run
    <3> QED BY <1>5, <2>5, <3>1 DEF FreeSlots, freed
  <2>8. FreeSlots(dead, n) \cap freed = {}
    BY <2>6 DEF FreeSlots, freed, Free, DEAD
  <2>9. IsFiniteSet(FreeSlots(dead, n)) /\ Cardinality(FreeSlots(dead, n)) \in Nat
    <3>1. IsFiniteSet(0..n - 1) /\ FreeSlots(dead, n) \subseteq 0..n - 1
      BY <1>2, SlotCount DEF FreeSlots
    <3> QED BY <3>1, FS_Subset, FS_CardinalityType
  <2>10. Cardinality(FreeSlots(e, n)) = Cardinality(FreeSlots(dead, n)) + Cardinality(freed)
    <3>1. Cardinality(FreeSlots(dead, n) \cup freed) = Cardinality(FreeSlots(dead, n))
             + Cardinality(freed) - Cardinality(FreeSlots(dead, n) \cap freed)
      BY <2>1, <2>9, FS_Union
    <3>2. Cardinality(FreeSlots(dead, n) \cap freed) = 0
      BY <2>8, FS_EmptySet
    <3>3. Cardinality(FreeSlots(dead, n) \cup freed) = Cardinality(FreeSlots(dead, n)) + Cardinality(freed)
      BY <2>1, <2>9, <3>1, <3>2
    <3> QED BY <2>7, <3>3, Zenon
  <2>11. Balanced(e, n)
    <3>1. REMAIN(n) \in Nat
      BY <1>2 DEF REMAIN
    <3>2. Cardinality(FreeSlots(dead, n)) = d.remain + (n - REMAIN(n))
      BY <1>1, Zenon DEF Balanced
    <3> QED BY <1>1, <1>2, <2>1, <2>3, <2>9, <2>10, <3>1, <3>2 DEF Balanced
  <2>12. e.remain >= d.remain
    BY <1>1, <1>2, <2>1, <2>3
  <2> QED BY <1>1, <1>5, <2>6, <2>11, <2>12
<1>6. /\ Good(e, n) /\ Balanced(e, n) /\ e.remain >= d.remain
      /\ Has(e, n, d.name[i], NoValue)
      /\ \A x \in Names \ {d.name[i]} : \A w : Has(d, n, x, w) => Has(e, n, x, w)
  BY <1>3, <1>4, <1>5
<1> QED BY <1>6 DEF e
-----------------------------------------------------------------------------
(***************************************************************************)
(* dictput                                                                 *)
(***************************************************************************)
Kept(d, n) == n >= 2 /\ Good(d, n) /\ Balanced(d, n) /\ d.remain \in Nat

\* A third of the slots is free: every probe ends.
LEMMA KeptFree ==
    ASSUME NEW n, NEW d, Kept(d, n)
    PROVE  FreeSlots(d, n) # {}
<1>1. n \in Nat /\ n >= 2 /\ d.remain \in Nat
  BY DEF Kept, Good, Table
<1>2. Cardinality(FreeSlots(d, n)) = d.remain + (n - REMAIN(n))
  BY Zenon DEF Kept, Balanced
<1>3. Cardinality(FreeSlots(d, n)) > 0
  <2>1. REMAIN(n) \in Nat /\ REMAIN(n) < n
    BY <1>1, RemainGrows
  <2> QED BY <1>1, <1>2, <2>1
<1> QED BY <1>3, FS_EmptySet

LEMMA HasNone ==
    ASSUME DictAssumption, NEW n, NEW d, Good(d, n), NEW nm \in Names, Has(d, n, nm, NoValue)
    PROVE  \A i \in 0..n - 1 : d.name[i] # nm
<1> SUFFICES ASSUME NEW i \in 0..n - 1, d.name[i] = nm PROVE FALSE
  OBVIOUS
<1>1. d.value[i] \in Values
  BY DEF Good
<1>2. PICK j \in 0..n - 1 : d.name[j] = nm /\ d.value[j] = NoValue
  BY DEF Has
<1> QED BY <1>1, <1>2 DEF Good, DictAssumption

\* The value of a name that is there.
LEMMA SetGood ==
    ASSUME DictAssumption, Hashed, NEW n, NEW d, Kept(d, n), NEW i \in 0..n - 1,
           d.name[i] \in Names, NEW v \in Values
    PROVE  LET e == [d EXCEPT !.value[i] = v]
           IN  /\ Kept(e, n) /\ Has(e, n, d.name[i], v)
               /\ \A x \in Names \ {d.name[i]} : \A w : Has(d, n, x, w) => Has(e, n, x, w)
<1> DEFINE e == [d EXCEPT !.value[i] = v]
<1>1. /\ n \in Nat \ {0} /\ d \in [name : {d.name}, value : {d.value}, remain : {d.remain}]
      /\ d.value \in [0..n - 1 -> Values \cup {NoValue}]
  BY DEF Kept, Good, Table
<1>2. /\ e.name = d.name /\ e.remain = d.remain /\ e.value = [d.value EXCEPT ![i] = v]
      /\ DOMAIN e = {"name", "value", "remain"} /\ e = [x \in DOMAIN e |-> e[x]]
  <2>1. DOMAIN d = {"name", "value", "remain"}
    BY <1>1
  <2> QED BY <1>1, <2>1
<1> HIDE DEF e
<1>3. \A j \in 0..n - 1 : e.value[j] = IF j = i THEN v ELSE d.value[j]
  BY <1>1, <1>2
<1>4. Table(e, n)
  <2>1. [d.value EXCEPT ![i] = v] \in [0..n - 1 -> Values \cup {NoValue}]
    BY <1>1
  <2> QED BY <1>2, <2>1 DEF Kept, Good, Table
<1>5. \A a \in 0..n - 1 : e.name[a] \in Names => e.value[a] \in Values
  BY <1>2, <1>3 DEF Kept, Good
<1>6. Good(e, n)
  BY <1>2, <1>4, <1>5 DEF Kept, Good
<1>7. FreeSlots(e, n) = FreeSlots(d, n)
  BY <1>2 DEF FreeSlots
<1>8. Balanced(e, n)
  BY <1>2, <1>7 DEF Kept, Balanced
<1>9. Has(e, n, d.name[i], v)
  BY <1>2, <1>3 DEF Has
<1>10. \A x \in Names \ {d.name[i]} : \A w : Has(d, n, x, w) => Has(e, n, x, w)
  BY <1>2, <1>3 DEF Has
<1>11. Kept(e, n)
  BY <1>2, <1>6, <1>8 DEF Kept
<1> QED BY <1>9, <1>10, <1>11 DEF e

LEMMA PutKept ==
    ASSUME DictAssumption, Hashed, NEW n, NEW d, Kept(d, n), NEW nm \in Names,
           \A i \in 0..n - 1 : d.name[i] # nm, NEW v \in Values
    PROVE  \E m : /\ Kept(put(d, nm, v), m) /\ Has(put(d, nm, v), m, nm, v)
                  /\ \A x \in Names \ {nm} : \A w : Has(d, n, x, w) => Has(put(d, nm, v), m, x, w)
<1>1. n \in Nat /\ n >= 2 /\ Good(d, n) /\ Balanced(d, n) /\ d.remain \in Nat
  BY DEF Kept, Good, Table
<1>2. ASSUME NEW e, NEW m, m >= 2, Good(e, m), Balanced(e, m), e.remain >= 1,
             \A i \in 0..m - 1 : e.name[i] # nm,
             \A x \in Names \ {nm} : \A w : Has(d, n, x, w) => Has(e, m, x, w)
      PROVE  /\ Kept(putIn(e, nm, v), m) /\ Has(putIn(e, nm, v), m, nm, v)
             /\ \A x \in Names \ {nm} : \A w : Has(d, n, x, w) => Has(putIn(e, nm, v), m, x, w)
  <2>1. e.remain \in Int /\ Kept(e, m)
    BY <1>2 DEF Kept, Good, Table
  <2>2. FreeSlots(e, m) # {}
    BY <2>1, KeptFree
  <2>3. /\ Good(putIn(e, nm, v), m) /\ Has(putIn(e, nm, v), m, nm, v)
        /\ \A x \in Names \ {nm} : \A w : Has(e, m, x, w) => Has(putIn(e, nm, v), m, x, w)
    BY <1>2, <2>2, PutGood
  <2>4. Balanced(putIn(e, nm, v), m) /\ putIn(e, nm, v).remain \in {e.remain, e.remain - 1}
    BY <1>2, <2>2, PutCounts
  <2>5. putIn(e, nm, v).remain \in Nat
    BY <1>2, <2>1, <2>4
  <2> QED BY <1>2, <2>3, <2>4, <2>5 DEF Kept
<1>3. CASE d.remain <= 1
  <2> DEFINE e == GROW(d)
  <2>1. /\ Good(e, 2 * n) /\ Balanced(e, 2 * n) /\ e.remain >= 1
        /\ \A x \in Names : \A w : Has(d, n, x, w) => Has(e, 2 * n, x, w)
    BY <1>1, GrowGood
  <2>2. put(d, nm, v) = putIn(e, nm, v)
    BY <1>3 DEF put
  <2> HIDE DEF e
  <2>3. Has(d, n, nm, NoValue)
    BY DEF Has
  <2>4. \A i \in 0..(2 * n) - 1 : e.name[i] # nm
    BY <2>1, <2>3, HasNone
  <2>5. 2 * n >= 2
    BY <1>1
  <2> QED BY <1>2, <2>1, <2>2, <2>4, <2>5
<1>4. CASE ~(d.remain <= 1)
  <2>1. put(d, nm, v) = putIn(d, nm, v)
    BY <1>4 DEF put
  <2>2. d.remain >= 1
    BY <1>1, <1>4
  <2> QED BY <1>1, <1>2, <2>1, <2>2
<1> QED BY <1>3, <1>4

LEMMA DictputKept ==
    ASSUME DictAssumption, Hashed, NEW n, NEW d, Kept(d, n), NEW nm \in Names,
           NEW v \in Values \cup {NoValue}
    PROVE  \E m : /\ Kept(dictput(d, nm, v), m) /\ Has(dictput(d, nm, v), m, nm, v)
                  /\ \A x \in Names \ {nm} : \A w :
                        Has(d, n, x, w) => Has(dictput(d, nm, v), m, x, w)
<1>1. Good(d, n) /\ Balanced(d, n)
  BY DEF Kept
<1>2. get(d, nm) = NoValue <=> \A i \in 0..n - 1 : d.name[i] # nm
  BY <1>1, HasGet
<1>3. CASE v # NoValue /\ get(d, nm) = NoValue
  <2>1. dictput(d, nm, v) = put(d, nm, v)
    BY <1>3 DEF dictput
  <2> QED BY <1>2, <1>3, <2>1, PutKept
<1>4. CASE v # NoValue /\ get(d, nm) # NoValue
  <2>1. PICK i \in 0..n - 1 : d.name[i] = nm
    BY <1>2, <1>4
  <2>2. slot(d, nm) = i
    BY <1>1, <2>1, GetFinds
  <2>3. dictput(d, nm, v) = [d EXCEPT !.value[i] = v]
    BY <1>4, <2>2 DEF dictput
  <2> QED BY <1>4, <2>1, <2>3, SetGood
<1>5. CASE v = NoValue /\ get(d, nm) # NoValue
  <2>1. PICK i \in 0..n - 1 : d.name[i] = nm
    BY <1>2, <1>5
  <2>2. slot(d, nm) = i
    BY <1>1, <2>1, GetFinds
  <2>3. dictput(d, nm, v) = rm(d, i)
    BY <1>5, <2>2 DEF dictput
  <2> DEFINE e == rm(d, i)
  <2>4. FreeSlots(d, n) # {}
    BY KeptFree
  <2>5. /\ Good(e, n) /\ Balanced(e, n) /\ e.remain >= d.remain
        /\ Has(e, n, nm, NoValue)
        /\ \A x \in Names \ {nm} : \A w : Has(d, n, x, w) => Has(e, n, x, w)
    BY <1>1, <2>1, <2>4, RmGood
  <2> HIDE DEF e
  <2>6. e.remain \in Nat
    BY <2>5 DEF Kept, Good, Table
  <2>7. Kept(e, n)
    BY <2>5, <2>6 DEF Kept
  <2> QED BY <1>5, <2>3, <2>5, <2>7 DEF e
<1>6. CASE v = NoValue /\ get(d, nm) = NoValue
  <2>1. dictput(d, nm, v) = d
    BY <1>6 DEF dictput
  <2>2. Has(d, n, nm, v)
    BY <1>2, <1>6 DEF Has
  <2> QED BY <2>1, <2>2
<1> QED BY <1>3, <1>4, <1>5, <1>6
-----------------------------------------------------------------------------
(***************************************************************************)
(* The specification                                                       *)
(***************************************************************************)
DictInv == Hashed /\ \E n : Kept(dict, n)

LEMMA DictInit == ASSUME DictAssumption, Init PROVE DictInv /\ \A nm \in Names : get(dict, nm) = NoValue
<1>1. Hashed /\ dict = mkdict(2)
  BY DEF Init, Hashed, DictAssumption
<1>2. /\ Good(dict, 2) /\ Balanced(dict, 2) /\ dict.remain = REMAIN(2)
      /\ \A nm \in Names : Has(dict, 2, nm, NoValue)
  BY <1>1, MkGood
<1>3. dict.remain \in Nat
  BY <1>2 DEF REMAIN
<1>4. \A nm \in Names : get(dict, nm) = NoValue
  BY <1>1, <1>2, HasGet
<1> QED BY <1>1, <1>2, <1>3, <1>4 DEF DictInv, Kept

\* The operators after a step, which never changes the hash.
LEMMA SameHash ==
    ASSUME strhash' = strhash
    PROVE  /\ Hashed' <=> Hashed
           /\ \A n : Kept(dict, n)' <=> Kept(dict', n)
           /\ \A nm : get(dict, nm)' = get(dict', nm)
<1>1. \A n : Kept(dict, n)' <=> Kept(dict', n)
  BY DEF Kept, Good, Table, Balanced, FreeSlots
<1>2. \A nm : get(dict, nm)' = get(dict', nm)
  BY DEF get, slot, Probe, Found, size
<1> QED BY <1>1, <1>2 DEF Hashed

LEMMA PutStep ==
    ASSUME DictAssumption, DictInv, NEW nm \in Names, NEW v \in Values \cup {NoValue}, Put(nm, v)
    PROVE  /\ DictInv'
           /\ get(dict, nm)' = v
           /\ \A x \in Names \ {nm} : get(dict, x)' = get(dict, x)
<1>1. PICK n : Kept(dict, n) /\ Hashed
  BY DEF DictInv
<1>2. dict' = dictput(dict, nm, v) /\ strhash' = strhash
  BY DEF Put
<1>3. PICK m : /\ Kept(dict', m) /\ Has(dict', m, nm, v)
               /\ \A x \in Names \ {nm} : \A w : Has(dict, n, x, w) => Has(dict', m, x, w)
  BY <1>1, <1>2, DictputKept
<1>4. Good(dict, n) /\ Good(dict', m)
  BY <1>1, <1>3 DEF Kept
<1>5. get(dict', nm) = v
  BY <1>1, <1>3, <1>4, HasGet
<1>6. ASSUME NEW x \in Names \ {nm} PROVE get(dict', x) = get(dict, x)
  <2>1. Has(dict, n, x, get(dict, x))
    BY <1>1, <1>4, HasGet
  <2>2. Has(dict', m, x, get(dict, x))
    BY <1>3, <2>1
  <2> QED BY <1>1, <1>4, <2>2, HasGet
<1>7. DictInv'
  BY <1>1, <1>2, <1>3, SameHash DEF DictInv
<1> QED BY <1>2, <1>5, <1>6, <1>7, SameHash

LEMMA DictStep == DictAssumption /\ DictInv /\ [Next]_vars => DictInv'
<1> SUFFICES ASSUME DictAssumption, DictInv, [Next]_vars PROVE DictInv'
  OBVIOUS
<1>1. CASE Next
  BY <1>1, PutStep DEF Next
<1>2. CASE UNCHANGED vars
  BY <1>2, SameHash DEF vars, DictInv
<1> QED BY <1>1, <1>2

LEMMA DictAlways == DictAssumption => (Spec => []DictInv)
<1> SUFFICES ASSUME DictAssumption PROVE Spec => []DictInv
  OBVIOUS
<1>1. Init => DictInv
  BY DictInit
<1>2. DictInv /\ [Next]_vars => DictInv'
  BY DictStep
<1> QED BY <1>1, <1>2, PTL DEF Spec

\* The loops of get, put and rm have no end but a slot whose name is NULL
\* (dict.c:92-94, 122-127, 142-151): however many names have been put and removed,
\* there is always one.
ProbesEnd == \E i \in DOMAIN dict.name : dict.name[i] = Free
THEOREM ProbesAlwaysEnd == DictAssumption => (Spec => []ProbesEnd)
<1> SUFFICES ASSUME DictAssumption PROVE Spec => []ProbesEnd
  OBVIOUS
<1>1. DictInv => ProbesEnd
  <2> SUFFICES ASSUME NEW n, Kept(dict, n) PROVE ProbesEnd
    BY DEF DictInv
  <2>1. FreeSlots(dict, n) # {} /\ DOMAIN dict.name = 0..n - 1
    BY KeptFree DEF Kept, Good, Table
  <2> QED BY <2>1 DEF FreeSlots, ProbesEnd
<1>2. Spec => []DictInv
  BY DictAlways
<1> QED BY <1>1, <1>2, PTL

LEMMA MapStep ==
    ASSUME DictAssumption, DictInv, [Next]_vars
    PROVE  [Map!Next]_<<[nm \in Names |-> get(dict, nm)], call>>
<1>1. ASSUME NEW nm \in Names, NEW v \in Values \cup {NoValue}, Put(nm, v)
      PROVE  Map!Next
  <2>1. /\ get(dict, nm)' = v
        /\ \A x \in Names \ {nm} : get(dict, x)' = get(dict, x)
    BY <1>1, PutStep
  <2>2. call' = <<nm, v>>
    BY <1>1 DEF Put
  <2>3. [x \in Names |-> get(dict, x)]' = [[x \in Names |-> get(dict, x)] EXCEPT ![nm] = v]
    BY <2>1
  <2>4. Map!dictput(nm, v)
    BY <2>2, <2>3 DEF Map!dictput
  <2> QED BY <2>4 DEF Map!Next
<1>2. CASE UNCHANGED vars
  <2>1. \A x : get(dict, x)' = get(dict, x)
    BY <1>2, SameHash DEF vars
  <2> QED BY <1>2, <2>1 DEF vars
<1> QED BY <1>1, <1>2 DEF Next

\* The hash table implements a map (dict.c:105-162): whatever names collide, are
\* removed and put again, and however often the table grows, a call changes what
\* get returns for its name and for no other.
THEOREM TableIsMap == DictAssumption => (Spec => ImplementsMap)
<1> SUFFICES ASSUME DictAssumption PROVE Spec => ImplementsMap
  OBVIOUS
<1>1. Init => Map!Init
  BY DictInit DEF Init, Map!Init
<1>2. DictInv /\ [Next]_vars => [Map!Next]_<<[nm \in Names |-> get(dict, nm)], call>>
  BY MapStep
<1>3. Spec => []DictInv
  BY DictAlways
<1> QED BY <1>1, <1>2, <1>3, PTL DEF Spec, ImplementsMap, Map!Spec
=============================================================================
