--------------------------- MODULE ProcListProofs ---------------------------
(***************************************************************************)
(* Theorems about ProcList as long as no pid is recycled, for every set of *)
(* pids and every finite memory.                                           *)
(***************************************************************************)
EXTENDS ProcList, FiniteSetTheorems, SequenceTheorems, TLAPS

-----------------------------------------------------------------------------
(***************************************************************************)
(* Induction, stated of a set: it holds of every n in Nat that n is in S.  *)
(***************************************************************************)

LEMMA Least ==
    ASSUME NEW T, T \subseteq Nat, T # {}
    PROVE  \E x \in T : \A y \in T : x <= y
<1> DEFINE R == OpToRel(<, Nat)
<1>1. IsWellFoundedOn(R, Nat)
  BY NatLessThanWellFounded
<1>2. \A x, y \in Nat : x < y => <<x, y>> \in R
  BY DEF OpToRel
<1> HIDE DEF R
<1>3. PICK x \in T : \A y \in T : ~(<<y, x>> \in R)
  BY <1>1, WFMin
<1>4. ASSUME NEW y \in T PROVE x <= y
  <2>1. ~(y < x)
    BY <1>2, <1>3
  <2> QED BY <2>1
<1> QED BY <1>4

\* Induction on the natural numbers.
LEMMA Induction ==
    ASSUME NEW S, 0 \in S, \A n \in Nat : n \in S => n + 1 \in S
    PROVE  Nat \subseteq S
<1> DEFINE T == Nat \ S
<1> SUFFICES ASSUME T # {} PROVE FALSE
  OBVIOUS
<1>1. PICK x \in T : \A y \in T : x <= y
  BY Least
<1>2. x # 0 /\ x - 1 \in Nat
  OBVIOUS
<1>3. x - 1 \notin T
  BY <1>1, <1>2
<1> QED BY <1>2, <1>3
-----------------------------------------------------------------------------
(***************************************************************************)
(* Sequences                                                               *)
(***************************************************************************)

\* No element comes twice in the sequence q.
Distinct(q) == \A i, j \in DOMAIN q : q[i] = q[j] => i = j

\* The elements of the sequence q.
Elements(q) == {q[i] : i \in DOMAIN q}

LEMMA DistinctCount ==
    ASSUME NEW S, NEW q \in Seq(S), Distinct(q)
    PROVE  /\ IsFiniteSet(Elements(q)) /\ Cardinality(Elements(q)) = Len(q)
           /\ IsFiniteSet(S) => Len(q) <= Cardinality(S)
<1>1. Len(q) \in Nat /\ DOMAIN q = 1..Len(q) /\ q \in [1..Len(q) -> S]
  OBVIOUS
<1>2. IsFiniteSet(1..Len(q)) /\ Cardinality(1..Len(q)) = Len(q)
  <2>1. IsFiniteSet(1..Len(q)) /\ Cardinality(1..Len(q)) = IF 1 > Len(q) THEN 0 ELSE Len(q) - 1 + 1
    BY <1>1, FS_Interval
  <2> QED BY <1>1, <2>1
<1>3. q \in [1..Len(q) -> Elements(q)]
  BY <1>1 DEF Elements
<1>4. q \in Bijection(1..Len(q), Elements(q))
  BY <1>1, <1>3 DEF Bijection, Injection, Surjection, IsInjective, Distinct, Elements
<1>5. ExistsBijection(1..Len(q), Elements(q))
  BY <1>4 DEF ExistsBijection
<1>6. IsFiniteSet(Elements(q)) /\ Cardinality(Elements(q)) = Len(q)
  BY <1>2, <1>5, FS_Bijection
<1>7. Elements(q) \subseteq S
  BY <1>1 DEF Elements
<1>8. IsFiniteSet(S) => Cardinality(Elements(q)) <= Cardinality(S)
  BY <1>7, FS_Subset
<1> QED BY <1>6, <1>8

\* A sequence with a new element before its first.
LEMMA PushFirst ==
    ASSUME NEW S, NEW q \in Seq(S), NEW c \in S
    PROVE  /\ <<c>> \o q \in Seq(S) /\ Len(<<c>> \o q) = Len(q) + 1
           /\ (<<c>> \o q)[1] = c
           /\ \A i \in 1..Len(q) : (<<c>> \o q)[i + 1] = q[i]
           /\ \A i \in 2..Len(q) + 1 : (<<c>> \o q)[i] = q[i - 1]
OBVIOUS

LEMMA PushDistinct ==
    ASSUME NEW S, NEW q \in Seq(S), Distinct(q), NEW c \in S, c \notin Elements(q)
    PROVE  /\ Distinct(<<c>> \o q)
           /\ Elements(<<c>> \o q) = Elements(q) \cup {c}
<1> DEFINE r == <<c>> \o q
<1>1. /\ r \in Seq(S) /\ Len(r) = Len(q) + 1 /\ r[1] = c
      /\ \A i \in 1..Len(q) : r[i + 1] = q[i]
      /\ \A i \in 2..Len(q) + 1 : r[i] = q[i - 1]
  BY PushFirst
<1> HIDE DEF r
<1>2. /\ Len(q) \in Nat /\ DOMAIN q = 1..Len(q) /\ DOMAIN r = 1..(Len(q) + 1)
  BY <1>1
<1>3. \A i \in DOMAIN r : i = 1 \/ (i - 1 \in DOMAIN q /\ r[i] = q[i - 1])
  BY <1>1, <1>2
<1>4. Distinct(r)
  BY <1>1, <1>2, <1>3 DEF Distinct, Elements
<1>5. Elements(r) \subseteq Elements(q) \cup {c}
  BY <1>1, <1>3 DEF Elements
<1>6. \A i \in DOMAIN q : i + 1 \in DOMAIN r /\ r[i + 1] = q[i]
  BY <1>1, <1>2
<1>7. Elements(q) \cup {c} \subseteq Elements(r)
  <2>1. 1 \in DOMAIN r
    BY <1>2
  <2> QED BY <1>1, <1>6, <2>1 DEF Elements
<1> QED BY <1>4, <1>5, <1>7 DEF r

\* The sequence q without its k-th element.
Without(q, k) == [i \in 1..Len(q) - 1 |-> IF i < k THEN q[i] ELSE q[i + 1]]

LEMMA WithoutElements ==
    ASSUME NEW S, NEW q \in Seq(S), Distinct(q), NEW k \in DOMAIN q
    PROVE  /\ Without(q, k) \in Seq(S) /\ Len(Without(q, k)) = Len(q) - 1
           /\ Distinct(Without(q, k))
           /\ Elements(Without(q, k)) = Elements(q) \ {q[k]}
<1> DEFINE r == Without(q, k)
<1>1. Len(q) \in Nat /\ DOMAIN q = 1..Len(q) /\ k \in 1..Len(q) /\ Len(q) - 1 \in Nat
  OBVIOUS
<1>2. \A i \in 1..Len(q) - 1 : /\ i + 1 \in 1..Len(q) /\ i \in 1..Len(q)
                               /\ r[i] = IF i < k THEN q[i] ELSE q[i + 1]
  BY <1>1 DEF Without
<1>3. r \in [1..Len(q) - 1 -> S]
  BY <1>1, <1>2 DEF Without
<1> HIDE DEF r
<1>4. r \in Seq(S) /\ Len(r) = Len(q) - 1 /\ DOMAIN r = 1..Len(q) - 1
  <2> DEFINE m == Len(q) - 1
  <2>1. m \in Nat /\ r \in [1..m -> S]
    BY <1>1, <1>3
  <2> HIDE DEF m
  <2>2. r \in Seq(S) /\ Len(r) = m /\ DOMAIN r = 1..m
    BY <2>1
  <2> QED BY <2>2 DEF m
<1>5. Distinct(r)
  <2> SUFFICES ASSUME NEW i \in DOMAIN r, NEW j \in DOMAIN r, r[i] = r[j] PROVE i = j
    BY DEF Distinct
  <2>1. i \in 1..Len(q) - 1 /\ j \in 1..Len(q) - 1
    BY <1>4
  <2>2. PICK a \in 1..Len(q) : r[i] = q[a] /\ a = IF i < k THEN i ELSE i + 1
    BY <1>2, <2>1
  <2>3. PICK b \in 1..Len(q) : r[j] = q[b] /\ b = IF j < k THEN j ELSE j + 1
    BY <1>2, <2>1
  <2>4. a = b
    BY <1>1, <2>2, <2>3 DEF Distinct
  <2> QED BY <1>1, <2>1, <2>2, <2>3, <2>4
<1>6. ASSUME NEW i \in DOMAIN r PROVE r[i] \in Elements(q) \ {q[k]}
  <2>1. PICK a \in 1..Len(q) : r[i] = q[a] /\ a = IF i < k THEN i ELSE i + 1
    BY <1>2, <1>4
  <2>2. a # k
    BY <1>1, <1>4, <2>1
  <2> QED BY <1>1, <2>1, <2>2 DEF Elements, Distinct
<1>7. ASSUME NEW i \in DOMAIN q, i # k PROVE \E j \in DOMAIN r : r[j] = q[i]
  <2>1. CASE i < k
    <3>1. i \in 1..Len(q) - 1 /\ r[i] = q[i]
      BY <1>1, <1>2, <2>1
    <3> QED BY <1>4, <3>1
  <2>2. CASE i > k
    <3>1. i - 1 \in 1..Len(q) - 1 /\ r[i - 1] = q[i]
      BY <1>1, <1>2, <2>2
    <3> QED BY <1>4, <3>1
  <2> QED BY <1>1, <1>7, <2>1, <2>2
<1>8. Elements(r) = Elements(q) \ {q[k]}
  BY <1>6, <1>7 DEF Elements
<1> QED BY <1>4, <1>5, <1>8 DEF r

\* RemoveAt of SequencesExt, element by element.
LEMMA RemoveAtIsWithout ==
    ASSUME NEW S, NEW q \in Seq(S), NEW k \in DOMAIN q
    PROVE  SubSeq(q, 1, k - 1) \o SubSeq(q, k + 1, Len(q)) = Without(q, k)
<1> DEFINE s == SubSeq(q, 1, k - 1)
           t == SubSeq(q, k + 1, Len(q))
<1>1. Len(q) \in Nat /\ k \in 1..Len(q) /\ \A i \in 1..Len(q) : q[i] \in S
  OBVIOUS
<1>2. /\ s \in Seq(S) /\ Len(s) = k - 1
      /\ \A i \in 1..k - 1 : s[i] = q[i]
  <2>1. \A i \in 1..k - 1 : q[i] \in S
    BY <1>1
  <2>2. /\ s \in Seq(S)
        /\ Len(s) = IF 1 <= k - 1 THEN k - 1 - 1 + 1 ELSE 0
        /\ \A i \in 1..k - 1 - 1 + 1 : s[i] = q[1 + i - 1]
    BY <1>1, <2>1, SubSeqProperties
  <2> QED BY <1>1, <2>2
<1>3. /\ t \in Seq(S) /\ Len(t) = Len(q) - k
      /\ \A i \in 1..Len(q) - k : t[i] = q[k + i]
  <2>1. \A i \in k + 1..Len(q) : q[i] \in S
    BY <1>1
  <2>2. /\ t \in Seq(S)
        /\ Len(t) = IF k + 1 <= Len(q) THEN Len(q) - (k + 1) + 1 ELSE 0
        /\ \A i \in 1..Len(q) - (k + 1) + 1 : t[i] = q[k + 1 + i - 1]
    BY <1>1, <2>1, SubSeqProperties
  <2> QED BY <1>1, <2>2
<1> HIDE DEF s, t
<1>4. /\ s \o t \in Seq(S) /\ Len(s \o t) = Len(q) - 1
      /\ \A i \in 1..Len(q) - 1 :
            (s \o t)[i] = IF i <= k - 1 THEN s[i] ELSE t[i - (k - 1)]
  <2>1. /\ s \o t \in Seq(S) /\ Len(s \o t) = Len(s) + Len(t)
        /\ \A i \in 1..Len(s) + Len(t) :
              (s \o t)[i] = IF i <= Len(s) THEN s[i] ELSE t[i - Len(s)]
    BY <1>2, <1>3, ConcatProperties
  <2>2. Len(s) + Len(t) = Len(q) - 1
    BY <1>1, <1>2, <1>3
  <2> QED BY <1>2, <2>1, <2>2
<1>5. ASSUME NEW i \in 1..Len(q) - 1
      PROVE  (s \o t)[i] = IF i < k THEN q[i] ELSE q[i + 1]
  <2>1. CASE i < k
    BY <1>1, <1>2, <1>4, <2>1
  <2>2. CASE i >= k
    <3>1. i - (k - 1) \in 1..Len(q) - k /\ k + (i - (k - 1)) = i + 1
      BY <1>1, <2>2
    <3>2. t[i - (k - 1)] = q[i + 1]
      BY <1>3, <3>1
    <3> QED BY <1>1, <1>4, <2>2, <3>2
  <2>3. i < k \/ i >= k
    BY <1>1
  <2> QED BY <2>1, <2>2, <2>3
<1>6. s \o t = [i \in 1..Len(q) - 1 |-> (s \o t)[i]]
  <2> DEFINE u == s \o t
  <2>1. u \in Seq(S) /\ Len(u) = Len(q) - 1
    BY <1>4
  <2> HIDE DEF u
  <2>2. u = [i \in 1..Len(u) |-> u[i]]
    BY <2>1
  <2> QED BY <2>1, <2>2 DEF u
<1> QED BY <1>5, <1>6 DEF Without, s, t

-----------------------------------------------------------------------------
\* A finite memory; fork returns the pid of no record on the list.
ListAssumption == IsFiniteSet(Cells) /\ Null \notin Cells /\ Recycle = FALSE

TypeList ==
    /\ children \subseteq Pids
    /\ next \in [Cells -> Cells \cup {Null}] /\ prev \in [Cells -> Cells \cup {Null}]
    /\ InUse \subseteq Cells /\ rec \in [InUse -> Proc]
    /\ \A c, d \in InUse : rec[c].pid = rec[d].pid => c = d
    /\ walk \in InUse \cup {Null}

\* The links follow the sequence q, which has every record in use once.
Follows(q) ==
    /\ Distinct(q) /\ Elements(q) = InUse
    /\ proclist = IF q = <<>> THEN Null ELSE q[1]
    /\ \A i \in DOMAIN q : /\ next[q[i]] = IF i = Len(q) THEN Null ELSE q[i + 1]
                           /\ prev[q[i]] = IF i = 1 THEN Null ELSE q[i - 1]

ListInv == TypeList /\ \E q \in Seq(Cells) : Follows(q)
-----------------------------------------------------------------------------
(***************************************************************************)
(* Walking a list whose links follow a sequence                            *)
(***************************************************************************)

LEMMA WalkFollows ==
    ASSUME ListAssumption, TypeList, NEW q \in Seq(Cells), Follows(q)
    PROVE  Walk = [n \in Nat |-> IF n < Len(q) THEN q[n + 1] ELSE Null]
<1> DEFINE w == [n \in Nat |-> IF n < Len(q) THEN q[n + 1] ELSE Null]
           step(v) == [n \in Nat |-> IF n = 0 THEN proclist
                                     ELSE IF v[n - 1] = Null THEN Null ELSE next[v[n - 1]]]
<1>1. Len(q) \in Nat /\ DOMAIN q = 1..Len(q) /\ \A i \in 1..Len(q) : q[i] \in Cells /\ q[i] # Null
  BY DEF ListAssumption
<1>2. ASSUME NEW n \in Nat
      PROVE  w[n] = IF n = 0 THEN proclist
                    ELSE IF w[n - 1] = Null THEN Null ELSE next[w[n - 1]]
  <2>1. CASE n = 0
    BY <1>1, <2>1 DEF Follows
  <2>2. CASE n # 0 /\ n - 1 < Len(q)
    <3>1. n \in 1..Len(q) /\ n - 1 \in Nat /\ w[n - 1] = q[n]
      BY <1>1, <2>2, SMTT(40)
    <3>2. next[q[n]] = IF n = Len(q) THEN Null ELSE q[n + 1]
      BY <1>1, <3>1 DEF Follows
    <3> QED BY <1>1, <2>2, <3>1, <3>2
  <2>3. CASE n # 0 /\ ~(n - 1 < Len(q))
    <3>1. n - 1 \in Nat /\ w[n - 1] = Null /\ ~(n < Len(q))
      BY <1>1, <2>3
    <3> QED BY <2>3, <3>1
  <2> QED BY <2>1, <2>2, <2>3
<1>3. w = step(w)
  BY <1>2
<1>4. Walk = CHOOSE v : v = step(v)
  BY DEF Walk
<1>5. Walk = step(Walk)
  <2> HIDE DEF w, step
  <2> QED BY <1>3, <1>4
<1> DEFINE S == {n \in Nat : Walk[n] = w[n]}
<1>6. 0 \in S
  BY <1>2, <1>5
<1>7. ASSUME NEW n \in Nat, n \in S PROVE n + 1 \in S
  <2>1. n + 1 \in Nat /\ n + 1 # 0 /\ (n + 1) - 1 = n
    OBVIOUS
  <2>2. Walk[n + 1] = IF Walk[n] = Null THEN Null ELSE next[Walk[n]]
    BY <1>5, <2>1
  <2>3. w[n + 1] = IF w[n] = Null THEN Null ELSE next[w[n]]
    <3> HIDE DEF w
    <3>1. w[n + 1] = IF n + 1 = 0 THEN proclist
                     ELSE IF w[(n + 1) - 1] = Null THEN Null ELSE next[w[(n + 1) - 1]]
      BY <1>2, <2>1
    <3> QED BY <2>1, <3>1
  <2> QED BY <1>7, <2>1, <2>2, <2>3
<1>8. Nat \subseteq S
  <2> HIDE DEF S
  <2> QED BY <1>6, <1>7, Induction
<1>9. \A n \in Nat : Walk[n] = w[n]
  BY <1>8
<1>10. Walk = [n \in Nat |-> Walk[n]]
  BY <1>5
<1>11. w = [n \in Nat |-> w[n]]
  OBVIOUS
<1> QED BY <1>9, <1>10, <1>11

\* The operators that walk find the sequence.
LEMMA ChainFollows ==
    ASSUME ListAssumption, TypeList, NEW q \in Seq(Cells), Follows(q)
    PROVE  /\ Len(q) <= Cardinality(Cells) /\ Cardinality(Cells) \in Nat
           /\ OnList = InUse
           /\ DOMAIN Chain = DOMAIN q /\ \A i \in DOMAIN q : Chain[i] = q[i]
<1>1. Walk = [n \in Nat |-> IF n < Len(q) THEN q[n + 1] ELSE Null]
  BY WalkFollows
<1>2. /\ Cardinality(Elements(q)) = Len(q) /\ Len(q) <= Cardinality(Cells)
      /\ Cardinality(Cells) \in Nat
  BY DistinctCount, FS_CardinalityType DEF Follows, ListAssumption
<1>3. Len(q) \in Nat /\ DOMAIN q = 1..Len(q) /\ \A i \in 1..Len(q) : q[i] \in Cells /\ q[i] # Null
  BY DEF ListAssumption
<1> HIDE DEF Walk
<1>4. OnList \subseteq Elements(q)
  <2> SUFFICES ASSUME NEW n \in 0..Cardinality(Cells), Walk[n] # Null
               PROVE  Walk[n] \in Elements(q)
    BY DEF OnList
  <2>1. n < Len(q) /\ Walk[n] = q[n + 1] /\ n + 1 \in 1..Len(q)
    BY <1>1, <1>2, <1>3
  <2> QED BY <1>3, <2>1 DEF Elements
<1>5. Elements(q) \subseteq OnList
  <2> SUFFICES ASSUME NEW i \in 1..Len(q) PROVE q[i] \in OnList
    BY <1>3 DEF Elements
  <2>1. i - 1 \in 0..Cardinality(Cells) /\ Walk[i - 1] = q[i] /\ q[i] # Null
    BY <1>1, <1>2, <1>3
  <2> QED BY <2>1 DEF OnList
<1>6. OnList = InUse /\ Cardinality(OnList) = Len(q)
  <2>1. OnList = Elements(q)
    BY <1>4, <1>5
  <2> QED BY <1>2, <2>1 DEF Follows
<1>7. \A i \in 1..Len(q) : Walk[i - 1] = q[i]
  BY <1>1, <1>3
<1> QED BY <1>2, <1>3, <1>6, <1>7 DEF Chain

\* The record of a pid is found when there is one.
LEMMA FindRecord ==
    ASSUME ListAssumption, TypeList, NEW q \in Seq(Cells), Follows(q), NEW p
    PROVE  \/ Find(p) = Null /\ \A c \in InUse : rec[c].pid # p
           \/ /\ Find(p) \in InUse /\ Find(p) # Null /\ rec[Find(p)].pid = p
              /\ \E k \in DOMAIN q : q[k] = Find(p)
<1> DEFINE at == {n \in DOMAIN Chain : Chain[n] \in InUse /\ rec[Chain[n]].pid = p}
<1>1. DOMAIN Chain = DOMAIN q /\ \A i \in DOMAIN q : Chain[i] = q[i]
  BY ChainFollows
<1>2. Len(q) \in Nat /\ DOMAIN q = 1..Len(q) /\ \A i \in DOMAIN q : q[i] \in InUse /\ q[i] # Null
  BY DEF ListAssumption, Follows, Elements
<1>3. at = {n \in DOMAIN q : rec[q[n]].pid = p}
  BY <1>1, <1>2
<1>4. Find(p) = IF at = {} THEN Null ELSE Chain[CHOOSE n \in at : \A m \in at : n <= m]
  BY DEF Find
<1> HIDE DEF at
<1>5. CASE at = {}
  BY <1>3, <1>4, <1>5 DEF Follows, Elements
<1>6. CASE at # {}
  <2>1. PICK n \in at : \A m \in at : n <= m
    <3>1. at \subseteq Nat
      BY <1>2, <1>3
    <3> QED BY <1>6, <3>1, Least
  <2>2. (CHOOSE x \in at : \A m \in at : x <= m) \in at
    BY <2>1
  <2> DEFINE k == CHOOSE x \in at : \A m \in at : x <= m
  <2>3. k \in DOMAIN q /\ Find(p) = q[k] /\ rec[q[k]].pid = p
    BY <1>1, <1>3, <1>4, <1>6, <2>2
  <2> QED BY <1>2, <2>3
<1> QED BY <1>5, <1>6
-----------------------------------------------------------------------------
(***************************************************************************)
(* The operations on the list                                              *)
(***************************************************************************)

\* mkproc and efork: a new cell comes before the head.
LEMMA PushFollows ==
    ASSUME ListAssumption, TypeList, NEW q \in Seq(Cells), Follows(q),
           NEW p \in Pids, NEW c \in Cells \ InUse,
           next' = [next EXCEPT ![c] = proclist],
           prev' = LET new == [prev EXCEPT ![c] = Null]
                   IN  IF proclist = Null THEN new ELSE [new EXCEPT ![proclist] = c],
           rec' = [d \in InUse \cup {c} |-> IF d = c THEN mkproc(p) ELSE rec[d]],
           proclist' = c
    PROVE  <<c>> \o q \in Seq(Cells) /\ Follows(<<c>> \o q)'
<1> DEFINE r == <<c>> \o q
<1>1. Len(q) \in Nat /\ DOMAIN q = 1..Len(q)
  OBVIOUS
<1>2. \A i \in 1..Len(q) : q[i] \in Cells /\ q[i] # Null /\ q[i] # c
  BY DEF ListAssumption, Follows, Elements
<1>3. r \in Seq(Cells) /\ Len(r) = Len(q) + 1 /\ DOMAIN r = 1..Len(q) + 1
  BY PushFirst
<1>4. r[1] = c /\ r # <<>> /\ \A i \in 1..Len(q) : r[i + 1] = q[i]
  BY <1>1, <1>3, PushFirst
<1>5. Distinct(r) /\ Elements(r) = InUse'
  <2>1. Distinct(r) /\ Elements(r) = Elements(q) \cup {c}
    BY PushDistinct DEF Follows
  <2> QED BY <2>1 DEF Follows, InUse
<1> HIDE DEF r
<1>6. proclist = IF q = <<>> THEN Null ELSE q[1]
  BY DEF Follows
<1>7. next'[c] = proclist /\ \A d \in Cells : d # c => next'[d] = next[d]
  BY DEF TypeList
<1>8. /\ prev'[c] = Null
      /\ \A d \in Cells : d # c => prev'[d] = IF d = proclist THEN c ELSE prev[d]
  <2>1. prev \in [Cells -> Cells \cup {Null}]
    BY DEF TypeList
  <2>2. CASE proclist = Null
    <3>1. prev' = [prev EXCEPT ![c] = Null]
      BY <2>2
    <3> QED BY <2>1, <2>2, <3>1 DEF ListAssumption
  <2>3. CASE proclist # Null
    <3>1. proclist \in Cells /\ proclist # c
      <4>1. proclist = q[1] /\ 1 \in 1..Len(q)
        BY <1>1, <1>6, <2>3
      <4> QED BY <1>2, <4>1
    <3>2. prev' = [[prev EXCEPT ![c] = Null] EXCEPT ![proclist] = c]
      BY <2>3
    <3> QED BY <2>1, <3>1, <3>2
  <2> QED BY <2>2, <2>3
<1>9. next'[r[1]] = (IF 1 = Len(r) THEN Null ELSE r[2]) /\ prev'[r[1]] = Null
  <2>1. CASE q = <<>>
    BY <1>3, <1>4, <1>6, <1>7, <1>8, <2>1
  <2>2. CASE q # <<>>
    <3>1. 1 \in 1..Len(q) /\ 1 # Len(r) /\ 1 + 1 = 2
      BY <1>1, <1>3, <2>2
    <3>2. r[2] = q[1]
      BY <1>4, <3>1
    <3> QED BY <1>4, <1>6, <1>7, <1>8, <2>2, <3>1, <3>2
  <2> QED BY <2>1, <2>2
<1>10. ASSUME NEW j \in 1..Len(q)
       PROVE  /\ next'[r[j + 1]] = IF j + 1 = Len(r) THEN Null ELSE r[(j + 1) + 1]
              /\ prev'[r[j + 1]] = r[j]
  <2>0. j \in Nat /\ 1 <= j /\ j <= Len(q) /\ Len(q) \in Nat
    BY <1>1
  <2>1. r[j + 1] = q[j] /\ q[j] \in Cells /\ q[j] # c
    BY <1>2, <1>4
  <2>2. j + 1 = Len(r) <=> j = Len(q)
    <3>1. Len(q) \in Nat /\ Len(r) = Len(q) + 1 /\ j \in Nat
      BY <1>1, <1>3, SMTT(40)
    <3> QED BY <3>1
  <2>3. next'[q[j]] = IF j = Len(q) THEN Null ELSE q[j + 1]
    BY <1>1, <1>7, <2>1 DEF Follows
  <2>4. ASSUME j # Len(q) PROVE r[(j + 1) + 1] = q[j + 1]
    <3>1. j + 1 \in 1..Len(q)
      BY <2>0, <2>4
    <3> QED BY <1>4, <3>1
  <2>5. next'[r[j + 1]] = IF j + 1 = Len(r) THEN Null ELSE r[(j + 1) + 1]
    BY <2>1, <2>2, <2>3, <2>4
  <2>6. q # <<>> /\ 1 \in 1..Len(q)
    BY <1>1
  <2>7. CASE j = 1
    <3>1. q[j] = proclist /\ r[j] = c
      BY <1>4, <1>6, <2>6, <2>7
    <3>2. prev'[q[j]] = c
      BY <1>8, <2>1, <3>1
    <3> QED BY <2>1, <2>5, <3>1, <3>2
  <2>8. CASE j # 1
    <3>1. q[j] # proclist
      BY <1>1, <1>6, <2>6, <2>8 DEF Follows, Distinct
    <3>2. prev[q[j]] = q[j - 1]
      BY <1>1, <2>8 DEF Follows
    <3>3. j - 1 \in 1..Len(q) /\ (j - 1) + 1 = j
      BY <1>1, <2>8
    <3>4. r[j] = q[j - 1]
      <4>1. r[(j - 1) + 1] = q[j - 1]
        BY <1>4, <3>3
      <4> QED BY <3>3, <4>1
    <3>5. prev'[q[j]] = prev[q[j]]
      BY <1>8, <2>1, <3>1
    <3> QED BY <2>1, <2>5, <3>2, <3>4, <3>5
  <2> QED BY <2>7, <2>8
<1>11. ASSUME NEW i \in 1..Len(q) + 1
       PROVE  /\ next'[r[i]] = IF i = Len(r) THEN Null ELSE r[i + 1]
              /\ prev'[r[i]] = IF i = 1 THEN Null ELSE r[i - 1]
  <2>1. CASE i = 1
    BY <1>9, <2>1
  <2>2. CASE i # 1
    <3>1. i - 1 \in 1..Len(q) /\ (i - 1) + 1 = i
      BY <1>1, <2>2
    <3>2. /\ next'[r[(i - 1) + 1]] = IF (i - 1) + 1 = Len(r) THEN Null ELSE r[((i - 1) + 1) + 1]
          /\ prev'[r[(i - 1) + 1]] = r[i - 1]
      BY <1>10, <3>1
    <3> QED BY <2>2, <3>1, <3>2
  <2> QED BY <2>1, <2>2
<1>12. proclist' = IF r = <<>> THEN Null ELSE r[1]
  BY <1>4
<1> QED BY <1>3, <1>5, <1>11, <1>12 DEF Follows, r

\* unlinkproc takes one cell out of the list, wherever it is.
LEMMA UnlinkFollows ==
    ASSUME ListAssumption, TypeList, NEW q \in Seq(Cells), Follows(q),
           NEW k \in DOMAIN q, unlinkproc(q[k])
    PROVE  Without(q, k) \in Seq(Cells) /\ Follows(Without(q, k))'
<1> DEFINE r == Without(q, k)
           c == q[k]
<1>1. Len(q) \in Nat /\ DOMAIN q = 1..Len(q) /\ k \in 1..Len(q) /\ q # <<>>
  OBVIOUS
<1>2. \A i \in 1..Len(q) : q[i] \in Cells /\ q[i] # Null
  BY DEF ListAssumption
<1>3. \A i, j \in 1..Len(q) : q[i] = q[j] => i = j
  BY <1>1 DEF Follows, Distinct
<1>4. c = q[k] /\ c \in Cells /\ unlinkproc(c)
  BY <1>1, <1>2
<1>5. r \in Seq(Cells) /\ Len(r) = Len(q) - 1 /\ Distinct(r) /\ Elements(r) = InUse'
  <2>1. /\ r \in Seq(Cells) /\ Len(r) = Len(q) - 1 /\ Distinct(r)
        /\ Elements(r) = Elements(q) \ {c}
    BY WithoutElements DEF Follows
  <2> QED BY <2>1 DEF Follows, unlinkproc, InUse
<1>6. /\ DOMAIN r = 1..Len(q) - 1
      /\ \A i \in 1..Len(q) - 1 : r[i] = IF i < k THEN q[i] ELSE q[i + 1]
  BY SMTT(40) DEF Without
<1>7. \A i \in 1..Len(q) : /\ next[q[i]] = IF i = Len(q) THEN Null ELSE q[i + 1]
                           /\ prev[q[i]] = IF i = 1 THEN Null ELSE q[i - 1]
  BY <1>1 DEF Follows
<1>8. next[c] = (IF k = Len(q) THEN Null ELSE q[k + 1]) /\ prev[c] = IF k = 1 THEN Null ELSE q[k - 1]
  BY <1>1, <1>7
<1>9. proclist = q[1]
  BY <1>1 DEF Follows
<1> HIDE DEF r, c
<1>10. k # 1 => k - 1 \in 1..Len(q) /\ prev[c] = q[k - 1] /\ prev[c] # Null /\ prev[c] \in Cells
  <2> SUFFICES ASSUME k # 1
               PROVE  k - 1 \in 1..Len(q) /\ prev[c] = q[k - 1] /\ prev[c] # Null /\ prev[c] \in Cells
    OBVIOUS
  <2>1. k - 1 \in 1..Len(q)
    BY <1>1
  <2> QED BY <1>2, <1>8, <2>1
<1>11. k # Len(q) => k + 1 \in 1..Len(q) /\ next[c] = q[k + 1] /\ next[c] # Null /\ next[c] \in Cells
  <2> SUFFICES ASSUME k # Len(q)
               PROVE  k + 1 \in 1..Len(q) /\ next[c] = q[k + 1] /\ next[c] # Null /\ next[c] \in Cells
    OBVIOUS
  <2>1. k + 1 \in 1..Len(q)
    BY <1>1
  <2> QED BY <1>2, <1>8, <2>1
\* What unlinkproc makes of the links of the cells that stay.
<1>12. ASSUME NEW d \in Cells, d # c
       PROVE  /\ next'[d] = IF k # 1 /\ d = prev[c] THEN next[c] ELSE next[d]
              /\ prev'[d] = IF k # Len(q) /\ d = next[c] THEN prev[c] ELSE prev[d]
  <2>1. /\ next \in [Cells -> Cells \cup {Null}] /\ prev \in [Cells -> Cells \cup {Null}]
        /\ next[c] \in Cells \cup {Null} /\ prev[c] \in Cells \cup {Null}
    BY <1>4 DEF TypeList
  <2>2. next' = [SkipNext(c) EXCEPT ![c] = Null] /\ prev' = [SkipPrev(c) EXCEPT ![c] = Null]
    BY <1>4 DEF unlinkproc
  <2>3. next'[d] = IF k # 1 /\ d = prev[c] THEN next[c] ELSE next[d]
    <3>1. CASE k = 1
      <4>1. SkipNext(c) = next
        BY <1>8, <3>1 DEF SkipNext
      <4> QED BY <1>12, <2>1, <2>2, <3>1, <4>1
    <3>2. CASE k # 1
      <4>1. SkipNext(c) = [next EXCEPT ![prev[c]] = next[c]]
        BY <1>10, <3>2 DEF SkipNext
      <4> QED BY <1>10, <1>12, <2>1, <2>2, <3>2, <4>1
    <3> QED BY <3>1, <3>2
  <2>4. prev'[d] = IF k # Len(q) /\ d = next[c] THEN prev[c] ELSE prev[d]
    <3>1. CASE k = Len(q)
      <4>1. SkipPrev(c) = prev
        BY <1>8, <3>1 DEF SkipPrev
      <4> QED BY <1>12, <2>1, <2>2, <3>1, <4>1
    <3>2. CASE k # Len(q)
      <4>1. SkipPrev(c) = [prev EXCEPT ![next[c]] = prev[c]]
        BY <1>11, <3>2 DEF SkipPrev
      <4> QED BY <1>11, <1>12, <2>1, <2>2, <3>2, <4>1
    <3> QED BY <3>1, <3>2
  <2> QED BY <2>3, <2>4
<1>13. ASSUME NEW i \in 1..Len(q), i # k
       PROVE  /\ next'[q[i]] = IF k # 1 /\ i = k - 1 THEN next[c] ELSE next[q[i]]
              /\ prev'[q[i]] = IF k # Len(q) /\ i = k + 1 THEN prev[c] ELSE prev[q[i]]
  <2>1. q[i] \in Cells /\ q[i] # c
    BY <1>1, <1>2, <1>3, <1>4, <1>13
  <2>2. k # 1 => (q[i] = prev[c] <=> i = k - 1)
    BY <1>3, <1>10
  <2>3. k # Len(q) => (q[i] = next[c] <=> i = k + 1)
    BY <1>3, <1>11
  <2> QED BY <1>12, <2>1, <2>2, <2>3
<1>14. ASSUME NEW i \in 1..Len(q) - 1
       PROVE  /\ next'[r[i]] = IF i = Len(r) THEN Null ELSE r[i + 1]
              /\ prev'[r[i]] = IF i = 1 THEN Null ELSE r[i - 1]
  <2>0. i \in Nat /\ k \in Nat /\ Len(q) \in Nat /\ 1 <= i /\ i <= Len(q) - 1 /\ 1 <= k /\ k <= Len(q)
    BY <1>1
  <2>1. CASE i < k
    <3>1. i \in 1..Len(q) /\ i # k /\ r[i] = q[i] /\ i # Len(q)
      BY <1>6, <2>0, <2>1
    <3>2. next[q[i]] = q[i + 1] /\ prev[q[i]] = IF i = 1 THEN Null ELSE q[i - 1]
      BY <1>7, <3>1
    <3>3. next'[q[i]] = IF i = k - 1 THEN next[c] ELSE q[i + 1]
      <4>1. k # 1
        BY <1>1, <2>1
      <4> QED BY <1>13, <3>1, <3>2, <4>1
    <3>4. prev'[q[i]] = IF i = 1 THEN Null ELSE q[i - 1]
      <4>1. i # k + 1
        BY <1>1, <2>1
      <4> QED BY <1>13, <3>1, <3>2, <4>1
    <3>5. i # 1 => r[i - 1] = q[i - 1]
      <4> SUFFICES ASSUME i # 1 PROVE r[i - 1] = q[i - 1]
        OBVIOUS
      <4>1. i - 1 \in 1..Len(q) - 1 /\ i - 1 < k
        BY <1>1, <2>1
      <4> QED BY <1>6, <4>1
    <3>6. CASE i = Len(q) - 1
      <4>1. k = Len(q) /\ i = k - 1
        BY <1>1, <2>1, <3>6
      <4> QED BY <1>5, <1>8, <3>1, <3>3, <3>4, <3>5, <3>6, <4>1
    <3>7. CASE i # Len(q) - 1
      <4>1. i + 1 \in 1..Len(q) - 1 /\ r[i + 1] = IF i + 1 < k THEN q[i + 1] ELSE q[(i + 1) + 1]
        <5>1. i + 1 \in 1..Len(q) - 1
          BY <2>0, <3>7
        <5> QED BY <1>6, <5>1
      <4>2. i + 1 < k <=> i # k - 1
        BY <1>1, <2>1
      <4>3. i = k - 1 => k # Len(q) /\ (i + 1) + 1 = k + 1
        BY <1>1, <3>7
      <4>4. next'[q[i]] = r[i + 1]
        BY <1>8, <3>3, <4>1, <4>2, <4>3
      <4> QED BY <1>5, <3>1, <3>4, <3>5, <3>7, <4>4
    <3> QED BY <3>6, <3>7
  <2>2. CASE ~(i < k)
    <3>1. i + 1 \in 1..Len(q) /\ i + 1 # k /\ r[i] = q[i + 1] /\ i + 1 # 1
      BY <1>1, <1>6, <2>2
    <3>2. /\ next[q[i + 1]] = IF i + 1 = Len(q) THEN Null ELSE q[(i + 1) + 1]
          /\ prev[q[i + 1]] = q[(i + 1) - 1]
      BY <1>7, <3>1
    <3>3. next'[q[i + 1]] = IF i + 1 = Len(q) THEN Null ELSE q[(i + 1) + 1]
      <4>1. i + 1 # k - 1
        BY <1>1, <2>2
      <4> QED BY <1>13, <3>1, <3>2, <4>1
    <3>4. prev'[q[i + 1]] = IF i = k THEN prev[c] ELSE q[i]
      <4>1. (i = k <=> i + 1 = k + 1) /\ (i + 1) - 1 = i /\ (i = k => k # Len(q))
        BY <1>1
      <4> QED BY <1>13, <3>1, <3>2, <4>1
    <3>5. i # Len(q) - 1 => r[i + 1] = q[(i + 1) + 1]
      <4> SUFFICES ASSUME i # Len(q) - 1 PROVE r[i + 1] = q[(i + 1) + 1]
        OBVIOUS
      <4>1. i + 1 \in 1..Len(q) - 1 /\ ~(i + 1 < k)
        BY <2>0, <2>2
      <4> QED BY <1>6, <4>1
    <3>6. i = Len(q) - 1 <=> i + 1 = Len(q)
      BY <1>1
    <3>7. prev'[q[i + 1]] = IF i = 1 THEN Null ELSE r[i - 1]
      <4>1. CASE i = 1
        <5>1. i = k
          BY <1>1, <2>2, <4>1
        <5> QED BY <1>8, <3>4, <4>1, <5>1
      <4>2. CASE i # 1
        <5>1. i - 1 \in 1..Len(q) - 1 /\ (i - 1) + 1 = i
          BY <1>1, <4>2
        <5>2. r[i - 1] = IF i - 1 < k THEN q[i - 1] ELSE q[i]
          BY <1>6, <5>1
        <5>3. i - 1 < k <=> i = k
          BY <2>0, <2>2
        <5> QED BY <1>8, <3>4, <4>2, <5>2, <5>3
      <4> QED BY <4>1, <4>2
    <3> QED BY <1>5, <3>1, <3>3, <3>5, <3>6, <3>7
  <2> QED BY <2>1, <2>2
<1>15. proclist' = IF r = <<>> THEN Null ELSE r[1]
  <2>1. proclist' = IF prev[c] = Null THEN next[c] ELSE proclist
    BY <1>4 DEF unlinkproc
  <2>2. r = <<>> <=> Len(q) = 1
    BY <1>1, <1>5
  <2>3. Len(q) # 1 => r[1] = IF 1 < k THEN q[1] ELSE q[2]
    <3> SUFFICES ASSUME Len(q) # 1 PROVE r[1] = IF 1 < k THEN q[1] ELSE q[1 + 1]
      OBVIOUS
    <3>1. 1 \in 1..Len(q) - 1
      BY <1>1
    <3> QED BY <1>6, <3>1
  <2>4. CASE k = 1
    BY <1>8, <2>1, <2>2, <2>3, <2>4
  <2>5. CASE k # 1
    <3>1. 1 < k /\ Len(q) # 1
      BY <1>1, <2>5
    <3> QED BY <1>9, <1>10, <2>1, <2>2, <2>3, <2>5, <3>1
  <2> QED BY <2>4, <2>5
<1> QED BY <1>5, <1>6, <1>14, <1>15 DEF Follows, r
-----------------------------------------------------------------------------
(***************************************************************************)
(* The inductive invariant                                                 *)
(***************************************************************************)

LEMMA ListInit == Init => ListInv
<1> SUFFICES ASSUME Init PROVE ListInv
  OBVIOUS
<1>1. InUse = {} /\ rec \in [InUse -> Proc]
  BY DEF Init, InUse
<1>2. TypeList
  BY <1>1 DEF Init, TypeList
<1>3. <<>> \in Seq(Cells) /\ DOMAIN <<>> = {}
  OBVIOUS
<1>4. Follows(<<>>)
  BY <1>1, <1>3 DEF Init, Follows, Distinct, Elements
<1> QED BY <1>2, <1>3, <1>4 DEF ListInv

LEMMA EforkStep ==
    ASSUME ListAssumption, TypeList, NEW q \in Seq(Cells), Follows(q),
           NEW p \in Pids, efork(p)
    PROVE  /\ TypeList'
           /\ \A c \in InUse : rec[c].pid # p
           /\ \E c \in Cells \ InUse :
                 /\ rec' = [d \in InUse \cup {c} |-> IF d = c THEN mkproc(p) ELSE rec[d]]
                 /\ <<c>> \o q \in Seq(Cells) /\ Follows(<<c>> \o q)'
<1>1. Find(p) = Null /\ \A c \in InUse : rec[c].pid # p
  BY FindRecord DEF efork, ListAssumption
<1>2. PICK c \in Cells \ InUse :
         /\ next' = [next EXCEPT ![c] = proclist]
         /\ prev' = LET new == [prev EXCEPT ![c] = Null]
                    IN  IF proclist = Null THEN new ELSE [new EXCEPT ![proclist] = c]
         /\ rec' = [d \in InUse \cup {c} |-> IF d = c THEN mkproc(p) ELSE rec[d]]
         /\ proclist' = c
  BY <1>1 DEF efork, BeforeHead
<1>3. <<c>> \o q \in Seq(Cells) /\ Follows(<<c>> \o q)'
  BY <1>2, PushFollows
<1>4. TypeList'
  <2>1. /\ next \in [Cells -> Cells \cup {Null}] /\ prev \in [Cells -> Cells \cup {Null}]
        /\ proclist \in Cells \cup {Null}
    BY DEF TypeList, Follows
  <2>2. next' \in [Cells -> Cells \cup {Null}]
    BY <1>2, <2>1
  <2>3. prev' \in [Cells -> Cells \cup {Null}]
    <3>1. [prev EXCEPT ![c] = Null] \in [Cells -> Cells \cup {Null}]
      BY <2>1
    <3>2. [[prev EXCEPT ![c] = Null] EXCEPT ![proclist] = c] \in [Cells -> Cells \cup {Null}]
      BY <2>1, <3>1
    <3> QED BY <1>2, <3>1, <3>2
  <2>4. InUse' = InUse \cup {c} /\ InUse' \subseteq Cells
    BY <1>2 DEF InUse, TypeList
  <2>5. mkproc(p) \in Proc /\ mkproc(p).pid = p
    BY DEF mkproc, Proc
  <2>6. rec' \in [InUse' -> Proc]
    BY <1>2, <2>4, <2>5 DEF TypeList
  <2>7. \A d, e \in InUse' : rec'[d].pid = rec'[e].pid => d = e
    BY <1>1, <1>2, <2>4, <2>5 DEF TypeList
  <2>8. walk' \in InUse' \cup {Null} /\ children' \subseteq Pids
    BY <2>4 DEF efork, TypeList
  <2> QED BY <2>2, <2>3, <2>4, <2>6, <2>7, <2>8 DEF TypeList
<1> QED BY <1>1, <1>2, <1>3, <1>4

LEMMA UnlinkType ==
    ASSUME ListAssumption, TypeList, NEW c \in InUse, unlinkproc(c)
    PROVE  /\ next' \in [Cells -> Cells \cup {Null}] /\ prev' \in [Cells -> Cells \cup {Null}]
           /\ InUse' = InUse \ {c} /\ rec' \in [InUse' -> Proc]
           /\ \A d \in InUse' : rec'[d] = rec[d]
<1>1. /\ next \in [Cells -> Cells \cup {Null}] /\ prev \in [Cells -> Cells \cup {Null}]
      /\ c \in Cells
  BY DEF TypeList
<1>2. SkipNext(c) \in [Cells -> Cells \cup {Null}] /\ SkipPrev(c) \in [Cells -> Cells \cup {Null}]
  BY <1>1 DEF SkipNext, SkipPrev
<1>3. next' \in [Cells -> Cells \cup {Null}] /\ prev' \in [Cells -> Cells \cup {Null}]
  BY <1>1, <1>2 DEF unlinkproc
<1>4. InUse' = InUse \ {c}
  BY DEF unlinkproc, InUse
<1> QED BY <1>3, <1>4 DEF unlinkproc, TypeList

\* A cell is taken out, by procfree or by cleanproclist, which goes on at walk'.
LEMMA UnlinkStep ==
    ASSUME ListAssumption, TypeList, NEW q \in Seq(Cells), Follows(q),
           NEW k \in DOMAIN q, unlinkproc(q[k]),
           children' = children, walk' \in {Null, next[q[k]]}
    PROVE  /\ TypeList'
           /\ Without(q, k) \in Seq(Cells) /\ Follows(Without(q, k))'
           /\ \A d \in InUse' : rec'[d] = rec[d]
<1>1. q[k] \in InUse /\ q[k] \in Cells
  BY DEF Follows, Elements
<1>2. /\ next' \in [Cells -> Cells \cup {Null}] /\ prev' \in [Cells -> Cells \cup {Null}]
      /\ InUse' = InUse \ {q[k]} /\ rec' \in [InUse' -> Proc]
      /\ \A d \in InUse' : rec'[d] = rec[d]
  BY <1>1, UnlinkType
<1>3. next[q[k]] \in InUse' \cup {Null}
  <2>1. Len(q) \in Nat /\ DOMAIN q = 1..Len(q) /\ k \in Nat
    OBVIOUS
  <2>2. next[q[k]] = IF k = Len(q) THEN Null ELSE q[k + 1]
    BY DEF Follows
  <2>3. k # Len(q) => k + 1 \in DOMAIN q /\ q[k + 1] # q[k]
    BY <2>1 DEF Follows, Distinct
  <2> QED BY <1>2, <2>2, <2>3 DEF Follows, Elements
<1>4. TypeList'
  <2>1. \A d, e \in InUse' : rec'[d].pid = rec'[e].pid => d = e
    BY <1>2 DEF TypeList
  <2>2. InUse' \subseteq Cells /\ children' \subseteq Pids
    BY <1>2 DEF TypeList
  <2> QED BY <1>2, <1>3, <2>1, <2>2 DEF TypeList
<1> QED BY <1>2, <1>4, UnlinkFollows

LEMMA ProcfreeStep ==
    ASSUME ListAssumption, TypeList, NEW q \in Seq(Cells), Follows(q),
           NEW p \in Pids, procfree(p)
    PROVE  /\ TypeList'
           /\ \E k \in DOMAIN q : /\ rec[q[k]].pid = p
                                 /\ Without(q, k) \in Seq(Cells) /\ Follows(Without(q, k))'
                                 /\ \A d \in InUse' : rec'[d] = rec[d]
<1>1. PICK k \in DOMAIN q : q[k] = Find(p) /\ rec[q[k]].pid = p
  BY FindRecord DEF procfree
<1>2. unlinkproc(q[k]) /\ children' = children /\ walk' = Null
  BY <1>1 DEF procfree
<1> QED BY <1>1, <1>2, UnlinkStep

LEMMA CleanStepStep ==
    ASSUME ListAssumption, TypeList, NEW q \in Seq(Cells), Follows(q), CleanStep
    PROVE  /\ TypeList'
           /\ \/ Follows(q)' /\ rec' = rec
              \/ \E k \in DOMAIN q : /\ Without(q, k) \in Seq(Cells) /\ Follows(Without(q, k))'
                                    /\ \A d \in InUse' : rec'[d] = rec[d]
<1>1. PICK k \in DOMAIN q : q[k] = walk
  BY DEF CleanStep, TypeList, Follows, Elements
<1>2. children' = children /\ walk' = next[q[k]]
  BY <1>1 DEF CleanStep
<1>3. CASE unlinkproc(q[k])
  BY <1>2, <1>3, UnlinkStep
<1>4. CASE UNCHANGED <<links, rec>>
  <2>1. next[q[k]] \in InUse \cup {Null}
    <3>1. Len(q) \in Nat /\ DOMAIN q = 1..Len(q) /\ k \in Nat
      OBVIOUS
    <3>2. next[q[k]] = IF k = Len(q) THEN Null ELSE q[k + 1]
      BY DEF Follows
    <3>3. k # Len(q) => k + 1 \in DOMAIN q
      BY <3>1
    <3> QED BY <3>2, <3>3 DEF Follows, Elements
  <2>2. TypeList'
    BY <1>2, <1>4, <2>1 DEF TypeList, links, InUse
  <2> QED BY <1>4, <2>2 DEF Follows, links, InUse
<1> QED BY <1>1, <1>3, <1>4 DEF CleanStep

LEMMA ReapStep ==
    ASSUME ListAssumption, TypeList, NEW q \in Seq(Cells), Follows(q),
           NEW p \in Pids, reap(p)
    PROVE  /\ TypeList' /\ Follows(q)'
           /\ \E k \in DOMAIN q : /\ rec[q[k]].pid = p
                                 /\ rec' = [rec EXCEPT ![q[k]].alive = FALSE]
<1>1. PICK k \in DOMAIN q : q[k] = Find(p) /\ rec[q[k]].pid = p
  BY FindRecord DEF reap
<1>2. q[k] \in InUse
  BY DEF Follows, Elements
<1>3. rec' = [rec EXCEPT ![q[k]].alive = FALSE]
  BY <1>1 DEF reap
<1>4. rec \in [InUse -> Proc]
  BY DEF TypeList
<1>5. [rec[q[k]] EXCEPT !.alive = FALSE] \in Proc /\ [rec[q[k]] EXCEPT !.alive = FALSE].pid = p
  BY <1>1, <1>2, <1>4 DEF Proc
<1>6. InUse' = InUse /\ rec' \in [InUse -> Proc]
  BY <1>3, <1>4, <1>5 DEF InUse
<1>7. \A c \in InUse : rec'[c].pid = rec[c].pid
  BY <1>1, <1>2, <1>3, <1>4, <1>5
<1>8. UNCHANGED <<links, walk>> /\ children' \subseteq Pids
  BY DEF reap, TypeList
<1>9. TypeList'
  BY <1>6, <1>7, <1>8 DEF TypeList, links
<1>10. Follows(q)'
  BY <1>6, <1>8 DEF Follows, links
<1> QED BY <1>1, <1>3, <1>9, <1>10

LEMMA ListStep == ListAssumption /\ ListInv /\ [Next]_vars => ListInv'
<1> SUFFICES ASSUME ListAssumption, ListInv, [Next]_vars PROVE ListInv'
  OBVIOUS
<1>1. TypeList
  BY DEF ListInv
<1>2. PICK q \in Seq(Cells) : Follows(q)
  BY DEF ListInv
<1>3. ASSUME NEW p \in Pids, efork(p) PROVE ListInv'
  BY <1>1, <1>2, <1>3, EforkStep DEF ListInv
<1>4. ASSUME NEW p \in Pids, reap(p) PROVE ListInv'
  BY <1>1, <1>2, <1>4, ReapStep DEF ListInv
<1>5. ASSUME NEW p \in Pids, procfree(p) PROVE ListInv'
  BY <1>1, <1>2, <1>5, ProcfreeStep DEF ListInv
<1>6. CASE cleanproclist
  <2>1. proclist \in InUse \cup {Null}
    <3>1. CASE q = <<>>
      BY <1>2, <3>1 DEF Follows
    <3>2. CASE q # <<>>
      <4>1. 1 \in DOMAIN q /\ proclist = q[1]
        BY <1>2, <3>2 DEF Follows
      <4> QED BY <1>2, <4>1 DEF Follows, Elements
    <3> QED BY <3>1, <3>2
  <2>2. TypeList'
    BY <1>1, <1>6, <2>1 DEF cleanproclist, links, TypeList, InUse
  <2>3. Follows(q)'
    BY <1>2, <1>6 DEF cleanproclist, links, Follows, InUse
  <2> QED BY <2>2, <2>3 DEF ListInv
<1>7. CASE CleanStep
  BY <1>1, <1>2, <1>7, CleanStepStep DEF ListInv
<1>8. CASE UNCHANGED vars
  BY <1>1, <1>2, <1>8, ZenonT(60) DEF vars, links, ListInv, TypeList, Follows, InUse
<1> QED BY <1>3, <1>4, <1>5, <1>6, <1>7, <1>8 DEF Next

LEMMA ListAlways == ListAssumption => (Spec => []ListInv)
<1> SUFFICES ASSUME ListAssumption PROVE Spec => []ListInv
  OBVIOUS
<1>1. ListInv /\ [Next]_vars => ListInv'
  BY ListStep
<1> QED BY <1>1, ListInit, PTL DEF Spec

\* What the invariant says of the list.
LEMMA ListWellLinked == ListAssumption /\ ListInv => WellLinked /\ WalkInUse /\ KnownListed
<1> SUFFICES ASSUME ListAssumption, TypeList, NEW q \in Seq(Cells), Follows(q)
             PROVE  WellLinked /\ WalkInUse /\ KnownListed
  BY DEF ListInv
<1>1. /\ Len(q) <= Cardinality(Cells) /\ Cardinality(Cells) \in Nat /\ OnList = InUse
  BY ChainFollows
<1>2. Walk[Cardinality(Cells)] = Null
  <2>1. Walk = [n \in Nat |-> IF n < Len(q) THEN q[n + 1] ELSE Null]
    BY WalkFollows
  <2> HIDE DEF Walk
  <2>2. Len(q) \in Nat /\ ~(Cardinality(Cells) < Len(q))
    BY <1>1
  <2> QED BY <1>1, <2>1, <2>2
<1>3. Len(q) \in Nat /\ DOMAIN q = 1..Len(q)
  OBVIOUS
<1>4. proclist # Null => prev[proclist] = Null
  <2> SUFFICES ASSUME proclist # Null PROVE prev[proclist] = Null
    OBVIOUS
  <2>1. q # <<>> /\ proclist = q[1]
    BY DEF Follows
  <2>2. 1 \in DOMAIN q
    BY <1>3, <2>1
  <2> QED BY <2>1, <2>2 DEF Follows
<1>5. ASSUME NEW c \in InUse, next[c] # Null PROVE prev[next[c]] = c
  <2>1. PICK i \in DOMAIN q : q[i] = c
    BY DEF Follows, Elements
  <2>2. i # Len(q) /\ next[c] = q[i + 1] /\ i \in Nat
    BY <1>3, <1>5, <2>1 DEF Follows
  <2>3. i + 1 \in DOMAIN q /\ i + 1 # 1 /\ (i + 1) - 1 = i
    BY <1>3, <2>2
  <2>4. prev[q[i + 1]] = q[(i + 1) - 1]
    BY <2>3 DEF Follows
  <2> QED BY <2>1, <2>2, <2>3, <2>4
<1>6. WalkInUse
  BY DEF WalkInUse, TypeList
<1> QED BY <1>1, <1>2, <1>4, <1>5, <1>6 DEF WellLinked, KnownListed

JobsAreRecords ==
    \A q \in Seq(Cells) : ListAssumption /\ TypeList /\ Follows(q) =>
        jobs = [n \in DOMAIN q |-> rec[q[n]]]

LEMMA JobsFollow == JobsAreRecords
<1> SUFFICES ASSUME ListAssumption, NEW q \in Seq(Cells), TypeList, Follows(q)
             PROVE  jobs = [n \in DOMAIN q |-> rec[q[n]]]
  BY DEF JobsAreRecords
<1>1. DOMAIN Chain = DOMAIN q /\ \A i \in DOMAIN q : Chain[i] = q[i]
  BY ChainFollows
<1> HIDE DEF Chain
<1> QED BY <1>1 DEF jobs

\* As long as fork returns no pid that is still listed, the list is well linked
\* after every operation (proc.c:43-46, 66-87, 122-124, 201-208): each record in
\* use is on it once, the walk from the head ends and prev undoes next.
THEOREM ListLinked == ListAssumption => (Spec => []WellLinked)
<1> SUFFICES ASSUME ListAssumption PROVE Spec => []WellLinked
  OBVIOUS
<1>1. ListInv => WellLinked
  BY ListWellLinked
<1>2. Spec => []ListInv
  BY ListAlways
<1> QED BY <1>1, <1>2, PTL

\* cleanproclist stands on a record in use at each of its steps, though it frees
\* the record it has just left (proc.c:62-87, 201-208).
THEOREM WalkSafe == ListAssumption => (Spec => []WalkInUse)
<1> SUFFICES ASSUME ListAssumption PROVE Spec => []WalkInUse
  OBVIOUS
<1>1. ListInv => WalkInUse
  BY ListWellLinked
<1>2. Spec => []ListInv
  BY ListAlways
<1> QED BY <1>1, <1>2, PTL

\* No operation loses a record that has not been freed (initial.es:913-914), as
\* long as no pid is recycled; the run procs_recycle shows what happens else.
THEOREM AllListed == ListAssumption => (Spec => []KnownListed)
<1> SUFFICES ASSUME ListAssumption PROVE Spec => []KnownListed
  OBVIOUS
<1>1. ListInv => KnownListed
  BY ListWellLinked
<1>2. Spec => []ListInv
  BY ListAlways
<1> QED BY <1>1, <1>2, PTL
-----------------------------------------------------------------------------
(***************************************************************************)
(* The list implements a sequence                                          *)
(***************************************************************************)

\* The records of the cells of q, in their order.
RecordsOf(q) == [n \in DOMAIN q |-> rec[q[n]]]

LEMMA RecordsType ==
    ASSUME TypeList, NEW q \in Seq(Cells), Follows(q)
    PROVE  /\ RecordsOf(q) \in Seq(Proc) /\ Len(RecordsOf(q)) = Len(q)
           /\ DOMAIN RecordsOf(q) = DOMAIN q
<1>1. \A n \in DOMAIN q : rec[q[n]] \in Proc
  BY DEF TypeList, Follows, Elements
<1>2. DOMAIN q = 1..Len(q) /\ Len(q) \in Nat
  OBVIOUS
<1> QED BY <1>1, <1>2 DEF RecordsOf

LEMMA ForkRefines ==
    ASSUME ListAssumption, TypeList, NEW q \in Seq(Cells), Follows(q), jobs = RecordsOf(q),
           NEW p \in Pids, \A c \in InUse : rec[c].pid # p,
           NEW c \in Cells \ InUse,
           rec' = [d \in InUse \cup {c} |-> IF d = c THEN mkproc(p) ELSE rec[d]],
           jobs' = [n \in DOMAIN (<<c>> \o q) |-> rec'[(<<c>> \o q)[n]]]
    PROVE  Sequence!Fork(p)
<1> DEFINE r == <<c>> \o q
           s == <<mkproc(p)>> \o RecordsOf(q)
<1>1. Len(q) \in Nat /\ DOMAIN q = 1..Len(q) /\ \A i \in 1..Len(q) : q[i] \in InUse /\ q[i] # c
  BY DEF Follows, Elements
<1>2. /\ DOMAIN r = 1..Len(q) + 1 /\ r[1] = c
      /\ \A i \in 2..Len(q) + 1 : r[i] = q[i - 1]
  BY PushFirst
<1>3. mkproc(p) \in Proc /\ mkproc(p) = [pid |-> p, alive |-> TRUE]
  BY DEF mkproc, Proc
<1>4. /\ s \in Seq(Proc) /\ Len(s) = Len(q) + 1 /\ s[1] = mkproc(p)
      /\ \A i \in 2..Len(q) + 1 : s[i] = RecordsOf(q)[i - 1]
  <2>1. RecordsOf(q) \in Seq(Proc) /\ Len(RecordsOf(q)) = Len(q)
    BY RecordsType
  <2> QED BY <1>3, <2>1, PushFirst
<1> HIDE DEF r, s
<1>5. ASSUME NEW i \in 1..Len(q) + 1 PROVE rec'[r[i]] = s[i]
  <2>1. CASE i = 1
    BY <1>2, <1>4, <2>1
  <2>2. CASE i # 1
    <3>1. i - 1 \in 1..Len(q) /\ i \in 2..Len(q) + 1
      BY <1>1, <2>2
    <3>2. r[i] = q[i - 1] /\ s[i] = rec[q[i - 1]]
      BY <1>1, <1>2, <1>4, <3>1 DEF RecordsOf
    <3>3. q[i - 1] \in InUse /\ q[i - 1] # c
      BY <1>1, <3>1
    <3> QED BY <3>2, <3>3
  <2> QED BY <2>1, <2>2
<1>6. s = [i \in 1..Len(q) + 1 |-> s[i]]
  <2>1. s = [i \in 1..Len(s) |-> s[i]]
    BY <1>4
  <2> QED BY <1>4, <2>1
<1>7. jobs' = s
  BY <1>2, <1>5, <1>6 DEF r
<1>8. p \notin Sequence!Listed
  BY <1>1 DEF Sequence!Listed, RecordsOf
<1> QED BY <1>3, <1>7, <1>8 DEF Sequence!Fork, s

LEMMA FreeRefines ==
    ASSUME ListAssumption, TypeList, NEW q \in Seq(Cells), Follows(q), jobs = RecordsOf(q),
           NEW k \in DOMAIN q, NEW p, rec[q[k]].pid = p, Follows(Without(q, k))',
           \A d \in InUse' : rec'[d] = rec[d],
           jobs' = [n \in DOMAIN Without(q, k) |-> rec'[Without(q, k)[n]]]
    PROVE  Sequence!Free(p)
<1> DEFINE r == Without(q, k)
<1>1. Len(q) \in Nat /\ DOMAIN q = 1..Len(q) /\ k \in 1..Len(q)
  OBVIOUS
<1>2. /\ RecordsOf(q) \in Seq(Proc) /\ Len(RecordsOf(q)) = Len(q)
      /\ DOMAIN RecordsOf(q) = DOMAIN q
  BY RecordsType
<1>3. /\ DOMAIN r = 1..Len(q) - 1
      /\ \A i \in 1..Len(q) - 1 : r[i] = IF i < k THEN q[i] ELSE q[i + 1]
  BY DEF Without
<1>4. \A i \in 1..Len(q) - 1 : r[i] \in InUse'
  BY <1>3 DEF Follows, Elements
<1>5. \A i \in 1..Len(q) - 1 : i \in DOMAIN q /\ i + 1 \in DOMAIN q
  BY <1>1
<1>6. ASSUME NEW i \in 1..Len(q) - 1
      PROVE  rec'[r[i]] = IF i < k THEN RecordsOf(q)[i] ELSE RecordsOf(q)[i + 1]
  BY <1>3, <1>4, <1>5 DEF RecordsOf
<1>7. jobs' = Without(RecordsOf(q), k)
  BY <1>2, <1>3, <1>6 DEF Without
<1>8. jobs' = SubSeq(jobs, 1, k - 1) \o SubSeq(jobs, k + 1, Len(jobs))
  BY <1>2, <1>7, RemoveAtIsWithout
<1>9. k \in DOMAIN jobs /\ jobs[k].pid = p
  BY <1>2 DEF RecordsOf
<1> QED BY <1>8, <1>9 DEF Sequence!Free, Sequence!RemoveAt

LEMMA DieRefines ==
    ASSUME TypeList, NEW q \in Seq(Cells), Follows(q), jobs = RecordsOf(q),
           NEW p \in Pids, NEW k \in DOMAIN q, rec[q[k]].pid = p,
           rec' = [rec EXCEPT ![q[k]].alive = FALSE], jobs' = [n \in DOMAIN q |-> rec'[q[n]]]
    PROVE  Sequence!Die(p) \/ jobs' = jobs
<1>1. \A i \in DOMAIN q : q[i] \in InUse /\ rec[q[i]] \in Proc
  BY DEF TypeList, Follows, Elements
<1>2. \A i \in DOMAIN q : q[i] = q[k] => i = k
  BY DEF Follows, Distinct
<1>3. \A i \in DOMAIN q : rec'[q[i]] = IF i = k THEN [rec[q[k]] EXCEPT !.alive = FALSE] ELSE rec[q[i]]
  BY <1>1, <1>2 DEF TypeList
<1>4. jobs' = [jobs EXCEPT ![k] = [jobs[k] EXCEPT !.alive = FALSE]]
  BY <1>3 DEF RecordsOf
<1>5. k \in DOMAIN jobs /\ jobs[k] = rec[q[k]] /\ rec[q[k]] \in Proc
  BY <1>1 DEF RecordsOf
<1>6. CASE rec[q[k]].alive
  <2>1. jobs[k] = [pid |-> p, alive |-> TRUE]
    BY <1>5, <1>6 DEF Proc
  <2> QED BY <1>4, <1>5, <2>1 DEF Sequence!Die
<1>7. CASE ~rec[q[k]].alive
  <2>1. [rec[q[k]] EXCEPT !.alive = FALSE] = rec[q[k]]
    BY <1>5, <1>7 DEF Proc
  <2> QED BY <1>4, <1>5, <2>1 DEF RecordsOf
<1> QED BY <1>6, <1>7

\* Every operation on the list is one on the sequence, or none.
LEMMA RefineStep ==
    ASSUME ListAssumption, ListInv, [Next]_vars, JobsAreRecords, JobsAreRecords'
    PROVE  [Sequence!Next]_jobs
<1>1. TypeList /\ TypeList'
  BY ListStep DEF ListInv
<1>2. PICK q \in Seq(Cells) : Follows(q)
  BY DEF ListInv
<1>3. jobs = RecordsOf(q)
  BY <1>1, <1>2 DEF JobsAreRecords, RecordsOf
<1>4. \A r \in Seq(Cells) : Follows(r)' => jobs' = [n \in DOMAIN r |-> rec'[r[n]]]
  BY <1>1 DEF JobsAreRecords, ListAssumption
<1> HIDE DEF jobs
<1>5. ASSUME NEW p \in Pids, efork(p) PROVE Sequence!Next
  <2>1. /\ \A c \in InUse : rec[c].pid # p
        /\ \E c \in Cells \ InUse :
              /\ rec' = [d \in InUse \cup {c} |-> IF d = c THEN mkproc(p) ELSE rec[d]]
              /\ <<c>> \o q \in Seq(Cells) /\ Follows(<<c>> \o q)'
    BY <1>1, <1>2, <1>5, EforkStep
  <2>2. PICK c \in Cells \ InUse :
           /\ rec' = [d \in InUse \cup {c} |-> IF d = c THEN mkproc(p) ELSE rec[d]]
           /\ <<c>> \o q \in Seq(Cells) /\ Follows(<<c>> \o q)'
    BY <2>1
  <2>3. jobs' = [n \in DOMAIN (<<c>> \o q) |-> rec'[(<<c>> \o q)[n]]]
    BY <1>4, <2>2
  <2>4. Sequence!Fork(p)
    BY <1>1, <1>2, <1>3, <2>1, <2>2, <2>3, ForkRefines
  <2> QED BY <2>4 DEF Sequence!Next
<1>6. ASSUME NEW p \in Pids, reap(p) PROVE Sequence!Next \/ jobs' = jobs
  <2>1. Follows(q)'
    BY <1>1, <1>2, <1>6, ReapStep
  <2>2. PICK k \in DOMAIN q : /\ rec[q[k]].pid = p
                             /\ rec' = [rec EXCEPT ![q[k]].alive = FALSE]
    BY <1>1, <1>2, <1>6, ReapStep, ZenonT(60)
  <2>3. jobs' = [n \in DOMAIN q |-> rec'[q[n]]]
    BY <1>4, <2>1
  <2>4. Sequence!Die(p) \/ jobs' = jobs
    BY <1>1, <1>2, <1>3, <2>2, <2>3, DieRefines
  <2> QED BY <2>4 DEF Sequence!Next
<1>7. ASSUME NEW k \in DOMAIN q, Without(q, k) \in Seq(Cells), Follows(Without(q, k))',
             \A d \in InUse' : rec'[d] = rec[d]
      PROVE  Sequence!Next
  <2>1. jobs' = [n \in DOMAIN Without(q, k) |-> rec'[Without(q, k)[n]]]
    BY <1>4, <1>7
  <2>2. q[k] \in InUse /\ rec[q[k]].pid \in Pids
    BY <1>1, <1>2 DEF Follows, Elements, TypeList, Proc
  <2>3. Sequence!Free(rec[q[k]].pid)
    BY <1>1, <1>2, <1>3, <1>7, <2>1, FreeRefines
  <2> QED BY <2>2, <2>3 DEF Sequence!Next
<1>8. ASSUME NEW p \in Pids, procfree(p) PROVE Sequence!Next
  <2>1. PICK k \in DOMAIN q : /\ Without(q, k) \in Seq(Cells) /\ Follows(Without(q, k))'
                             /\ \A d \in InUse' : rec'[d] = rec[d]
    BY <1>1, <1>2, <1>8, ProcfreeStep
  <2> QED BY <1>7, <2>1
<1>9. ASSUME Follows(q)', rec' = rec PROVE jobs' = jobs
  <2>1. jobs' = [n \in DOMAIN q |-> rec'[q[n]]]
    BY <1>4, <1>9
  <2> QED BY <1>3, <1>9, <2>1 DEF RecordsOf
<1>10. CASE cleanproclist \/ UNCHANGED vars
  <2>1. Follows(q)' /\ rec' = rec
    BY <1>2, <1>10 DEF cleanproclist, vars, links, Follows, InUse
  <2> QED BY <1>9, <2>1
<1>11. CASE CleanStep
  <2>1. \/ Follows(q)' /\ rec' = rec
        \/ \E k \in DOMAIN q : /\ Without(q, k) \in Seq(Cells) /\ Follows(Without(q, k))'
                              /\ \A d \in InUse' : rec'[d] = rec[d]
    BY <1>1, <1>2, <1>11, CleanStepStep
  <2>2. CASE Follows(q)' /\ rec' = rec
    BY <1>9, <2>2
  <2>3. CASE \E k \in DOMAIN q : /\ Without(q, k) \in Seq(Cells) /\ Follows(Without(q, k))'
                                /\ \A d \in InUse' : rec'[d] = rec[d]
    BY <1>7, <2>3
  <2> QED BY <2>1, <2>2, <2>3
<1> QED BY <1>5, <1>6, <1>8, <1>10, <1>11 DEF Next

LEMMA RefineInit == ASSUME ListAssumption, Init, JobsAreRecords PROVE jobs = <<>>
<1>1. TypeList
  BY ListInit DEF ListInv
<1>2. <<>> \in Seq(Cells) /\ DOMAIN <<>> = {} /\ InUse = {} /\ proclist = Null
  BY DEF Init, InUse
<1>3. Follows(<<>>)
  BY <1>2 DEF Follows, Distinct, Elements
<1>4. jobs = [n \in DOMAIN <<>> |-> rec[<<>>[n]]]
  BY <1>1, <1>2, <1>3 DEF JobsAreRecords
<1> HIDE DEF jobs
<1> QED BY <1>2, <1>4

\* The linked list of proc.c implements the sequence of children (ProcSeq): efork
\* puts one in front, ewait marks one dead, procfree and each step of
\* cleanproclist take out one and leave the order of the others.
THEOREM ListImplements == ListAssumption => (Spec => ImplementsSequence)
<1> SUFFICES ASSUME ListAssumption PROVE Spec => ImplementsSequence
  OBVIOUS
<1>1. JobsAreRecords
  BY JobsFollow
<1>2. Init /\ JobsAreRecords => Sequence!Init
  BY RefineInit DEF Sequence!Init
<1>3. ListInv /\ [Next]_vars /\ JobsAreRecords /\ JobsAreRecords' => [Sequence!Next]_jobs
  BY RefineStep
<1>4. Spec => []ListInv
  BY ListAlways
<1> QED BY <1>1, <1>2, <1>3, <1>4, PTL DEF Spec, ImplementsSequence, Sequence!Spec
=============================================================================
