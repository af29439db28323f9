---------------------------- MODULE ReaderProofs ----------------------------
(***************************************************************************)
(* Theorems about the reader, for every set of sources: texts of any       *)
(* length, cut into reads in any way, with any reads that fail.            *)
(*                                                                         *)
(* The invariant, ReaderInv, has six parts.  TypeInv: what each variable   *)
(* holds where the reader is, and that the here documents read so far are  *)
(* exact.  StreamInv: the buffer and the push-back hold what is still to   *)
(* come, and the echo is as long as what was taken from the source.        *)
(* UngetInv: how much is pushed back at each point of the lexer, which is  *)
(* why the array of two is enough.  CleanInv: what the parser holds        *)
(* between commands.  PlaceInv: the buffer and the reads to come are a     *)
(* suffix of the text, so that a place of the text is known wherever       *)
(* nothing is pushed back.  DocInv: in a quoted here document, where its   *)
(* lines began and what part of the marker was matched (Partial).  A lemma *)
(* says of each action of Reader that it keeps the invariant.              *)
(*                                                                         *)
(* The last theorem, that a printed word is read back, has an invariant of *)
(* its own, RoundInv, and one assumption, PrintedAssumption.  RoundInv     *)
(* has the place in the word that the reader has come to: what is still to *)
(* be read is what Sconv prints from there, and the tokens given so far    *)
(* say the word up to there.                                               *)
(***************************************************************************)
EXTENDS Reader, Integers, FiniteSetTheorems, SequenceTheorems, TLAPS

-----------------------------------------------------------------------------
LEMMA Least ==
    ASSUME NEW T, T \subseteq Nat, T # {}
    PROVE  \E x \in T : \A y \in T : x <= y
<1> DEFINE R == OpToRel(<, Nat)
<1>1. IsWellFoundedOn(R, Nat)
  BY NatLessThanWellFounded
<1>2. \A x, y \in Nat : x < y => <<x, y>> \in R
  BY DEF OpToRel
<1> HIDE DEF R
<1>3. PICK x \in T : \A y \in T : ~(<<y, x>> \in R)
  BY <1>1, WFMin
<1>4. ASSUME NEW y \in T PROVE x <= y
  <2>1. ~(y < x)
    BY <1>2, <1>3
  <2> QED BY <2>1
<1> QED BY <1>4

\* Induction on the natural numbers.
LEMMA Induction ==
    ASSUME NEW S, 0 \in S, \A n \in Nat : n \in S => n + 1 \in S
    PROVE  Nat \subseteq S
<1> DEFINE T == Nat \ S
<1> SUFFICES ASSUME T # {} PROVE FALSE
  OBVIOUS
<1>1. PICK x \in T : \A y \in T : x <= y
  BY Least
<1>2. x # 0 /\ x - 1 \in Nat
  OBVIOUS
<1>3. x - 1 \notin T
  BY <1>1, <1>2
<1> QED BY <1>2, <1>3
\* A sequence with a new element before its first.
LEMMA PushFirst ==
    ASSUME NEW S, NEW q \in Seq(S), NEW x \in S
    PROVE  /\ <<x>> \o q \in Seq(S) /\ Len(<<x>> \o q) = Len(q) + 1
           /\ (<<x>> \o q)[1] = x
           /\ \A i \in 1..Len(q) : (<<x>> \o q)[i + 1] = q[i]
           /\ \A i \in 2..Len(q) + 1 : (<<x>> \o q)[i] = q[i - 1]
OBVIOUS

-----------------------------------------------------------------------------
(***************************************************************************)
(* Sequences of characters                                                 *)
(***************************************************************************)

LEMMA FirstOf ==
    ASSUME NEW s \in Seq(Char), NEW ch \in Char
    PROVE  /\ <<ch>> \o s \in Seq(Char) /\ <<ch>> \o s # <<>>
           /\ Head(<<ch>> \o s) = ch /\ Tail(<<ch>> \o s) = s
           /\ Len(<<ch>> \o s) = Len(s) + 1
<1> DEFINE r == <<ch>> \o s
<1>1. r \in Seq(Char) /\ Len(r) = Len(s) + 1 /\ r[1] = ch /\ \A i \in 1..Len(s) : r[i + 1] = s[i]
  BY PushFirst
<1> HIDE DEF r
<1>2. r # <<>> /\ Head(r) = ch
  BY <1>1
<1>3. Tail(r) \in Seq(Char) /\ Len(Tail(r)) = Len(s) /\ \A i \in 1..Len(s) : Tail(r)[i] = s[i]
  BY <1>1, <1>2, HeadTailProperties
<1>4. Tail(r) = s
  BY <1>3, SeqEqual
<1> QED BY <1>1, <1>2, <1>4 DEF r

LEMMA FirstAndRest ==
    ASSUME NEW s \in Seq(Char), s # <<>>
    PROVE  s = <<Head(s)>> \o Tail(s) /\ Head(s) \in Char /\ Tail(s) \in Seq(Char)
<1>1. Len(s) \in Nat \ {0} /\ Head(s) = s[1] /\ Head(s) \in Char /\ Tail(s) \in Seq(Char)
  BY EmptySeq, HeadTailProperties
<1>2. SubSeq(s, 1, Len(s)) = <<s[1]>> \o SubSeq(s, 2, Len(s))
  BY <1>1, SubSeqRecursiveFirst
<1> QED BY <1>1, <1>2, SubSeqFull, TailIsSubSeq

LEMMA RestOf ==
    ASSUME NEW b \in Seq(Char), NEW k \in 1..Len(b)
    PROVE  /\ SubSeq(b, k, Len(b)) = <<b[k]>> \o SubSeq(b, k + 1, Len(b))
           /\ b[k] \in Char /\ SubSeq(b, k + 1, Len(b)) \in Seq(Char)
           /\ Len(SubSeq(b, k + 1, Len(b))) = Len(b) - k
<1>1. Len(b) \in Nat /\ k \in Int /\ k <= Len(b) /\ \A i \in 1..Len(b) : b[i] \in Char
  OBVIOUS
<1>2. \A i \in k + 1..Len(b) : b[i] \in Char
  BY <1>1
<1>3. SubSeq(b, k + 1, Len(b)) \in Seq(Char)
      /\ Len(SubSeq(b, k + 1, Len(b))) = IF k + 1 <= Len(b) THEN Len(b) - (k + 1) + 1 ELSE 0
  BY <1>1, <1>2, SubSeqProperties
<1> QED BY <1>1, <1>3, SubSeqRecursiveFirst

LEMMA ReverseAppend ==
    ASSUME NEW u \in Seq(Char), NEW ch \in Char
    PROVE  /\ Append(u, ch) \in Seq(Char) /\ Len(Append(u, ch)) = Len(u) + 1
           /\ Append(u, ch) # <<>> /\ Last(Append(u, ch)) = ch
           /\ Reverse(Append(u, ch)) = <<ch>> \o Reverse(u)
           /\ Reverse(u) \in Seq(Char)
<1> DEFINE v == Append(u, ch)
<1>1. /\ v \in Seq(Char) /\ v # <<>> /\ Len(v) = Len(u) + 1 /\ Len(u) \in Nat
      /\ \A i \in 1..Len(u) : v[i] = u[i] /\ u[i] \in Char
      /\ v[Len(u) + 1] = ch
  BY AppendProperties
<1> HIDE DEF v
<1>2. Reverse(u) \in Seq(Char) /\ Len(Reverse(u)) = Len(u)
  BY <1>1 DEF Reverse
<1>3. Reverse(v) \in Seq(Char) /\ Len(Reverse(v)) = Len(u) + 1
  <2>1. \A i \in 1..Len(v) : v[Len(v) - i + 1] \in Char
    BY <1>1
  <2> QED BY <1>1, <2>1 DEF Reverse
<1>4. <<ch>> \o Reverse(u) \in Seq(Char) /\ Len(<<ch>> \o Reverse(u)) = Len(u) + 1
      /\ (<<ch>> \o Reverse(u))[1] = ch
      /\ \A i \in 1..Len(u) : (<<ch>> \o Reverse(u))[i + 1] = Reverse(u)[i]
  BY <1>2, PushFirst
<1>5. ASSUME NEW i \in 1..Len(u) + 1 PROVE Reverse(v)[i] = (<<ch>> \o Reverse(u))[i]
  <2>1. Reverse(v)[i] = v[Len(u) + 1 - i + 1]
    BY <1>1 DEF Reverse
  <2>2. CASE i = 1
    BY <1>1, <1>4, <2>1, <2>2
  <2>3. CASE i # 1
    <3>1. i - 1 \in 1..Len(u) /\ (i - 1) + 1 = i /\ Len(u) - (i - 1) + 1 \in 1..Len(u)
      BY <1>1, <2>3
    <3>2. Reverse(u)[i - 1] = u[Len(u) - (i - 1) + 1]
      BY <1>1, <3>1 DEF Reverse
    <3>3. (<<ch>> \o Reverse(u))[i] = Reverse(u)[i - 1]
      BY <1>4, <3>1
    <3>4. Len(u) + 1 - i + 1 = Len(u) - (i - 1) + 1
      BY <1>1
    <3> QED BY <1>1, <2>1, <3>1, <3>2, <3>3, <3>4
  <2> QED BY <2>2, <2>3
<1>6. Reverse(v) = <<ch>> \o Reverse(u)
  BY <1>3, <1>4, <1>5, SeqEqual
<1>7. Last(v) = ch
  BY <1>1 DEF Last
<1> QED BY <1>1, <1>2, <1>6, <1>7 DEF v

LEMMA ReverseFront ==
    ASSUME NEW u \in Seq(Char), u # <<>>
    PROVE  /\ Front(u) \in Seq(Char) /\ Len(Front(u)) = Len(u) - 1
           /\ Last(u) \in Char /\ u = Append(Front(u), Last(u))
           /\ Reverse(u) = <<Last(u)>> \o Reverse(Front(u))
           /\ Reverse(Front(u)) \in Seq(Char)
           /\ \A i \in 1..Len(u) - 1 : Front(u)[i] = u[i]
<1>1. PICK s \in Seq(Char), e \in Char : u = Append(s, e)
  BY SequenceEmptyOrAppend
<1>2. Len(u) = Len(s) + 1 /\ \A i \in 1..Len(s) : u[i] = s[i]
  BY <1>1, AppendProperties
<1>3. Last(u) = e /\ Reverse(u) = <<e>> \o Reverse(s) /\ Reverse(s) \in Seq(Char)
  BY <1>1, ReverseAppend
<1>4. Front(u) = s
  <2>1. Len(u) - 1 = Len(s) /\ Len(s) \in Nat
    BY <1>2
  <2>2. \A i \in 1..Len(s) : u[i] \in Char
    BY <1>2
  <2>3. Front(u) \in Seq(Char) /\ Len(Front(u)) = Len(s) /\ \A i \in 1..Len(s) : Front(u)[i] = u[i]
    <3>1. /\ SubSeq(u, 1, Len(s)) \in Seq(Char)
          /\ Len(SubSeq(u, 1, Len(s))) = IF 1 <= Len(s) THEN Len(s) - 1 + 1 ELSE 0
          /\ \A i \in 1..Len(s) - 1 + 1 : SubSeq(u, 1, Len(s))[i] = u[1 + i - 1]
      BY <2>1, <2>2, SubSeqProperties
    <3> QED BY <2>1, <3>1 DEF Front
  <2> QED BY <1>2, <2>3, SeqEqual
<1> QED BY <1>1, <1>2, <1>3, <1>4

LEMMA ReverseNone == Reverse(<<>>) = <<>>
BY DEF Reverse

-----------------------------------------------------------------------------
(***************************************************************************)
(* The characters that a sequence of reads gives                           *)
(***************************************************************************)

\* f gives what is left from each read on.
IsFrom(f, reads) ==
    f = [k \in 1..Len(reads) + 1 |->
            IF k > Len(reads) THEN <<>> ELSE Given(reads[k]) \o f[k + 1]]

LEMMA GivenIs == ASSUME NEW r \in Read PROVE Given(r) \in Seq(Byte)
BY DEF Given, Read

LEMMA CharsChoose == ASSUME NEW reads PROVE Chars(reads) = (CHOOSE f : IsFrom(f, reads))[1]
BY DEF Chars, IsFrom

LEMMA FromUnique ==
    ASSUME NEW reads \in Reads, NEW f, NEW g, IsFrom(f, reads), IsFrom(g, reads)
    PROVE  f = g
<1> DEFINE n == Len(reads)
           S == {i \in Nat : \A k \in 1..n + 1 : k + i >= n + 1 => f[k] = g[k]}
<1>1. n \in Nat
  BY DEF Reads
<1> DEFINE F(h, k) == IF k > n THEN <<>> ELSE Given(reads[k]) \o h[k + 1]
<1>2. f = [k \in 1..n + 1 |-> F(f, k)] /\ g = [k \in 1..n + 1 |-> F(g, k)]
  BY DEF IsFrom
<1>3. \A k \in 1..n + 1 : f[k] = F(f, k) /\ g[k] = F(g, k)
  <2> HIDE DEF F
  <2> QED BY <1>2
<1> HIDE DEF n
<1>4. 0 \in S
  <2> SUFFICES ASSUME NEW k \in 1..n + 1, k + 0 >= n + 1 PROVE f[k] = g[k]
    OBVIOUS
  <2>1. k > n
    BY <1>1
  <2> QED BY <1>3, <2>1
<1>5. ASSUME NEW i \in Nat, i \in S PROVE i + 1 \in S
  <2> SUFFICES ASSUME NEW k \in 1..n + 1, k + (i + 1) >= n + 1 PROVE f[k] = g[k]
    BY <1>1
  <2>1. CASE k > n
    BY <1>3, <2>1
  <2>2. CASE ~(k > n)
    <3>1. k + 1 \in 1..n + 1 /\ (k + 1) + i >= n + 1
      BY <1>1, <2>2
    <3>2. f[k + 1] = g[k + 1]
      BY <1>5, <3>1
    <3> QED BY <1>3, <2>2, <3>2
  <2> QED BY <2>1, <2>2
<1>6. Nat \subseteq S
  <2> HIDE DEF S
  <2> QED BY <1>4, <1>5, Induction
<1>7. ASSUME NEW k \in 1..n + 1 PROVE f[k] = g[k]
  <2>1. n + 1 \in Nat /\ n + 1 \in S /\ k + (n + 1) >= n + 1
    BY <1>1, <1>6
  <2> QED BY <2>1
<1>8. F(f, 1) = F(f, 1) /\ \A k \in 1..n + 1 : F(f, k) = F(g, k)
  BY <1>3, <1>7
<1> HIDE DEF F
<1> QED BY <1>2, <1>8

LEMMA NoReads ==
    ASSUME NEW reads \in Reads, Len(reads) = 0
    PROVE  /\ \E f : IsFrom(f, reads)
           /\ \A f : IsFrom(f, reads) => f[1] = <<>>
<1> DEFINE f == [k \in 1..1 |-> <<>>]
<1>1. IsFrom(f, reads)
  BY DEF IsFrom
<1>2. ASSUME NEW g, IsFrom(g, reads) PROVE g[1] = <<>>
  BY <1>2 DEF IsFrom
<1> QED BY <1>1, <1>2

LEMMA FromTail ==
    ASSUME NEW reads \in Reads, reads # <<>>, NEW f, IsFrom(f, Tail(reads))
    PROVE  \E g : IsFrom(g, reads) /\ g[1] = Given(Head(reads)) \o f[1]
<1> DEFINE n == Len(reads)
           t == Tail(reads)
           g == [k \in 1..n + 1 |-> IF k = 1 THEN Given(Head(reads)) \o f[1] ELSE f[k - 1]]
<1>1. n \in Nat /\ n > 0 /\ Len(t) = n - 1 /\ Head(reads) = reads[1] /\ \A i \in 1..n - 1 : t[i] = reads[i + 1]
  BY EmptySeq, HeadTailProperties DEF Reads
<1> HIDE DEF n
<1>2. \A k \in 1..n : f[k] = IF k > n - 1 THEN <<>> ELSE Given(t[k]) \o f[k + 1]
  <2>1. Len(t) + 1 = n
    BY <1>1
  <2> HIDE DEF t
  <2>2. f = [k \in 1..n |-> IF k > Len(t) THEN <<>> ELSE Given(t[k]) \o f[k + 1]]
    BY <2>1 DEF IsFrom, t
  <2>3. Len(t) = n - 1
    BY <1>1
  <2> QED BY <2>2, <2>3
<1> HIDE DEF t
<1>3. ASSUME NEW k \in 1..n + 1
      PROVE  g[k] = IF k > n THEN <<>> ELSE Given(reads[k]) \o g[k + 1]
  <2>1. CASE k = 1
    <3>1. 1 \in 1..n + 1 /\ 2 \in 1..n + 1 /\ ~(1 > n) /\ 2 # 1 /\ 2 - 1 = 1 /\ 1 + 1 = 2
      BY <1>1
    <3> DEFINE first == Given(Head(reads)) \o f[1]
    <3> HIDE DEF first
    <3>2. \A j \in 1..n + 1 : g[j] = IF j = 1 THEN first ELSE f[j - 1]
      BY DEF first
    <3> HIDE DEF g
    <3>3. g[1] = first /\ g[2] = f[1]
      BY <3>1, <3>2
    <3> QED BY <1>1, <2>1, <3>1, <3>3 DEF first
  <2>2. CASE k # 1 /\ k > n
    <3>1. k - 1 \in 1..n /\ k - 1 > n - 1 /\ g[k] = f[k - 1]
      BY <1>1, <2>2
    <3> QED BY <1>2, <2>2, <3>1
  <2>3. CASE k # 1 /\ ~(k > n)
    <3>1. /\ k - 1 \in 1..n - 1 /\ k - 1 \in 1..n /\ ~(k - 1 > n - 1) /\ (k - 1) + 1 = k
          /\ k + 1 \in 1..n + 1 /\ k + 1 # 1 /\ (k + 1) - 1 = k
      BY <1>1, <2>3
    <3>2. g[k] = f[k - 1] /\ g[k + 1] = f[k]
      BY <2>3, <3>1
    <3>3. t[k - 1] = reads[k]
      BY <1>1, <3>1
    <3> HIDE DEF g
    <3> QED BY <1>2, <2>3, <3>1, <3>2, <3>3
  <2> QED BY <2>1, <2>2, <2>3
<1>4. IsFrom(g, reads)
  <2> DEFINE h == [k \in 1..n + 1 |-> IF k > n THEN <<>> ELSE Given(reads[k]) \o g[k + 1]]
  <2>1. g = [k \in 1..n + 1 |-> g[k]]
    OBVIOUS
  <2> HIDE DEF g
  <2>2. g = h
    BY <1>3, <2>1
  <2> QED BY <2>2 DEF IsFrom, n
<1>5. g[1] = Given(Head(reads)) \o f[1]
  <2>1. 1 \in 1..n + 1
    BY <1>1
  <2> DEFINE first == Given(Head(reads)) \o f[1]
  <2> HIDE DEF first
  <2>2. g[1] = first
    BY <2>1 DEF first
  <2> QED BY <2>2 DEF first
<1> QED BY <1>4, <1>5

LEMMA FromExists ==
    ASSUME NEW reads \in Reads
    PROVE  \E f : IsFrom(f, reads) /\ f[1] \in Seq(Byte)
<1> DEFINE S == {n \in Nat : \A r \in Reads : Len(r) = n => \E f : IsFrom(f, r) /\ f[1] \in Seq(Byte)}
<1>1. 0 \in S
  <2>1. <<>> \in Seq(Byte)
    OBVIOUS
  <2> QED BY <2>1, NoReads
<1>2. ASSUME NEW n \in Nat, n \in S PROVE n + 1 \in S
  <2> SUFFICES ASSUME NEW r \in Reads, Len(r) = n + 1 PROVE \E f : IsFrom(f, r) /\ f[1] \in Seq(Byte)
    OBVIOUS
  <2>1. r # <<>> /\ Tail(r) \in Reads /\ Len(Tail(r)) = n /\ Head(r) \in Read
    BY HeadTailProperties DEF Reads
  <2>2. PICK f : IsFrom(f, Tail(r)) /\ f[1] \in Seq(Byte)
    BY <1>2, <2>1
  <2>3. PICK g : IsFrom(g, r) /\ g[1] = Given(Head(r)) \o f[1]
    BY <2>1, <2>2, FromTail
  <2>4. g[1] \in Seq(Byte)
    BY <2>1, <2>2, <2>3, GivenIs, ConcatProperties
  <2> QED BY <2>3, <2>4
<1>3. Nat \subseteq S
  <2> HIDE DEF S
  <2> QED BY <1>1, <1>2, Induction
<1>4. Len(reads) \in Nat
  BY DEF Reads
<1> QED BY <1>3, <1>4

LEMMA CharsFrom ==
    ASSUME NEW reads \in Reads
    PROVE  /\ Chars(reads) \in Seq(Byte)
           /\ \A f : IsFrom(f, reads) => Chars(reads) = f[1]
<1>1. PICK f : IsFrom(f, reads) /\ f[1] \in Seq(Byte)
  BY FromExists
<1>2. IsFrom(CHOOSE g : IsFrom(g, reads), reads)
  BY <1>1
<1>3. \A g : IsFrom(g, reads) => g = CHOOSE h : IsFrom(h, reads)
  BY <1>2, FromUnique
<1> QED BY <1>1, <1>3, CharsChoose

\* What is still to come after a read.
LEMMA CharsIs ==
    ASSUME NEW reads \in Reads
    PROVE  /\ Chars(reads) \in Seq(Byte)
           /\ reads = <<>> => Chars(reads) = <<>>
           /\ reads # <<>> => /\ Tail(reads) \in Reads /\ Head(reads) \in Read
                              /\ Chars(reads) = Given(Head(reads)) \o Chars(Tail(reads))
<1>1. Chars(reads) \in Seq(Byte)
  BY CharsFrom
<1>2. ASSUME reads = <<>> PROVE Chars(reads) = <<>>
  <2>1. Len(reads) = 0
    BY <1>2
  <2> QED BY <2>1, CharsFrom, NoReads
<1>3. ASSUME reads # <<>>
      PROVE  /\ Tail(reads) \in Reads /\ Head(reads) \in Read
             /\ Chars(reads) = Given(Head(reads)) \o Chars(Tail(reads))
  <2>1. Tail(reads) \in Reads /\ Head(reads) \in Read
    BY <1>3, HeadTailProperties DEF Reads
  <2>2. PICK f : IsFrom(f, Tail(reads))
    BY <2>1, FromExists
  <2>3. PICK g : IsFrom(g, reads) /\ g[1] = Given(Head(reads)) \o f[1]
    BY <1>3, <2>2, FromTail
  <2> QED BY <2>1, <2>2, <2>3, CharsFrom
<1> QED BY <1>1, <1>2, <1>3

-----------------------------------------------------------------------------
(***************************************************************************)
(* struct Input: the buffer, the place saved in it and the push-back       *)
(***************************************************************************)

Fills == {"fdfill", "stringfill", "eoffill"}
InputType ==
    [reads : Reads, buf : Seq(Byte), at : Nat, rat : Nat, ungot : Seq(Char),
     fill : Fills \cup {"ungetfill"}, rfill : Fills \cup {"NULL"},
     intr : BOOLEAN, verbose : BOOLEAN, echoed : Nat]

\* The place in the buffer and the fill routine, once the push-back is empty.
Place(i) == IF i.fill = "ungetfill" THEN i.rat ELSE i.at
Filler(i) == IF i.fill = "ungetfill" THEN i.rfill ELSE i.fill

\* What is to be read of the source, and what GETC will return before its end.
Unread(i) == SubSeq(i.buf, Place(i), Len(i.buf)) \o Chars(i.reads)
Held(i) == Reverse(i.ungot) \o Unread(i)

\* While something is pushed back the buffer is at its end, so that ungetfill
\* is what GETC calls; a source with no reads left is a string or at its end.
Shaped(i) ==
    /\ i \in InputType
    /\ i.fill = "ungetfill" <=> i.ungot # <<>>
    /\ i.fill = "ungetfill" => i.at = Len(i.buf) + 1 /\ i.rfill \in Fills
    /\ Place(i) \in 1..Len(i.buf) + 1
    /\ Filler(i) # "fdfill" => i.reads = <<>>

\* GETC has a character, or the end of the source.
AtHand(i) == Buffered(i) \/ i.fill # "fdfill"

LEMMA Characters == "eof" \in Char /\ " " \in Char /\ "\\" \in Char /\ "\n" \in Char
BY DEF Char, non_word

LEMMA Bytes == ASSUME NEW s \in Seq(Byte) PROVE s \in Seq(Char)
BY SeqMonotonic DEF Byte

LEMMA InputFacts ==
    ASSUME NEW i, Shaped(i)
    PROVE  /\ i \in InputType /\ i.reads \in Reads /\ i.ungot \in Seq(Char)
           /\ i.buf \in Seq(Byte) /\ i.buf \in Seq(Char) /\ Len(i.buf) \in Nat
           /\ i.at \in Nat /\ i.rat \in Nat
           /\ Chars(i.reads) \in Seq(Byte) /\ Chars(i.reads) \in Seq(Char)
<1>1. i \in InputType /\ i.reads \in Reads /\ i.ungot \in Seq(Char) /\ i.buf \in Seq(Byte)
      /\ i.at \in Nat /\ i.rat \in Nat
  BY DEF Shaped, InputType
<1>2. Chars(i.reads) \in Seq(Byte)
  BY <1>1, CharsIs
<1> QED BY <1>1, <1>2, Bytes

LEMMA PlaceIs ==
    ASSUME NEW S, NEW b \in Seq(S), NEW p \in 1..Len(b) + 1
    PROVE  /\ SubSeq(b, p, Len(b)) \in Seq(S)
           /\ Len(SubSeq(b, p, Len(b))) = Len(b) + 1 - p
<1>1. Len(b) \in Nat /\ \A k \in p..Len(b) : b[k] \in S
  OBVIOUS
<1>2. /\ SubSeq(b, p, Len(b)) \in Seq(S)
      /\ Len(SubSeq(b, p, Len(b))) = IF p <= Len(b) THEN Len(b) - p + 1 ELSE 0
  BY <1>1, SubSeqProperties
<1> QED BY <1>1, <1>2

LEMMA HeldIs ==
    ASSUME NEW i, Shaped(i)
    PROVE  /\ Unread(i) \in Seq(Byte) /\ Unread(i) \in Seq(Char) /\ Held(i) \in Seq(Char)
           /\ Len(Unread(i)) = Len(i.buf) + 1 - Place(i) + Len(Chars(i.reads))
           /\ Reverse(i.ungot) \in Seq(Char)
           /\ i.ungot = <<>> => Held(i) = Unread(i)
<1>1. /\ i.buf \in Seq(Byte) /\ i.ungot \in Seq(Char) /\ i.reads \in Reads
      /\ Chars(i.reads) \in Seq(Byte) /\ Place(i) \in 1..Len(i.buf) + 1
  BY InputFacts DEF Shaped
<1> DEFINE b == SubSeq(i.buf, Place(i), Len(i.buf))
<1>2. b \in Seq(Byte) /\ Len(b) = Len(i.buf) + 1 - Place(i)
  BY <1>1, PlaceIs
<1> HIDE DEF b
<1>3. Unread(i) = b \o Chars(i.reads)
  BY DEF Unread, b
<1>4. Unread(i) \in Seq(Byte) /\ Len(Unread(i)) = Len(b) + Len(Chars(i.reads))
  BY <1>1, <1>2, <1>3, ConcatProperties
<1>5. Unread(i) \in Seq(Char)
  BY <1>4, Bytes
<1>6. Reverse(i.ungot) \in Seq(Char)
  <2>1. CASE i.ungot = <<>>
    BY <2>1, ReverseNone, EmptySeq
  <2>2. CASE i.ungot # <<>>
    BY <1>1, <2>2, ReverseFront, FirstOf
  <2> QED BY <2>1, <2>2
<1>7. Held(i) \in Seq(Char)
  BY <1>5, <1>6, ConcatProperties DEF Held
<1>8. ASSUME i.ungot = <<>> PROVE Held(i) = Unread(i)
  BY <1>5, <1>8, ReverseNone, ConcatEmptySeq DEF Held
<1> QED BY <1>2, <1>4, <1>5, <1>6, <1>7, <1>8

\* A character of the buffer is the first of what is unread.
LEMMA FromBuffer ==
    ASSUME NEW b \in Seq(Char), NEW p \in 1..Len(b), NEW r \in Seq(Char)
    PROVE  /\ SubSeq(b, p, Len(b)) \o r = <<b[p]>> \o (SubSeq(b, p + 1, Len(b)) \o r)
           /\ b[p] \in Char /\ SubSeq(b, p + 1, Len(b)) \o r \in Seq(Char)
<1>1. /\ SubSeq(b, p, Len(b)) = <<b[p]>> \o SubSeq(b, p + 1, Len(b))
      /\ b[p] \in Char /\ SubSeq(b, p + 1, Len(b)) \in Seq(Char)
  BY RestOf
<1> DEFINE s == SubSeq(b, p + 1, Len(b))
           h == <<b[p]>>
<1>2. h \in Seq(Char) /\ s \in Seq(Char)
  BY <1>1
<1>3. SubSeq(b, p, Len(b)) = h \o s
  BY <1>1
<1> HIDE DEF s, h
<1>4. (h \o s) \o r = h \o (s \o r) /\ s \o r \in Seq(Char)
  <2>1. (h \o s) \o r = h \o (s \o r)
    BY <1>2, ConcatAssociative, SMTT(30)
  <2>2. s \o r \in Seq(Char)
    BY <1>2, ConcatProperties
  <2> QED BY <2>1, <2>2
<1> QED BY <1>1, <1>3, <1>4 DEF s, h

\* GETC takes the first of what is held; at the end there is nothing to take.
TakenIs(i) ==
    /\ Shaped(taken(i))
    /\ Held(i) = <<>> => peek(i) = "eof" /\ Held(taken(i)) = <<>>
    /\ Held(i) # <<>> => Held(i) = <<peek(i)>> \o Held(taken(i))
    /\ taken(i).ungot = IF i.ungot = <<>> THEN <<>> ELSE Front(i.ungot)
    /\ peek(i) \in Char
    /\ i.ungot # <<>> => peek(i) = Last(i.ungot)
    /\ taken(i).verbose = i.verbose /\ taken(i).buf = i.buf /\ taken(i).reads = i.reads

LEMMA TakenFields ==
    ASSUME NEW i, Shaped(i)
    PROVE  LET u == ungetfill(i)
               t == taken(i)
           IN  /\ t \in InputType
               /\ t.buf = i.buf /\ t.reads = i.reads /\ t.verbose = i.verbose
               /\ Buffered(i) => t.at = i.at + 1 /\ t.rat = i.rat /\ t.ungot = i.ungot
                                 /\ t.fill = i.fill /\ t.rfill = i.rfill
               /\ ~Buffered(i) /\ i.fill = "ungetfill" =>
                     /\ t.at = u.at /\ t.rat = u.rat /\ t.ungot = u.ungot
                     /\ t.fill = u.fill /\ t.rfill = u.rfill
               /\ ~Buffered(i) /\ i.fill # "ungetfill" =>
                     /\ t.at = i.at /\ t.rat = i.rat /\ t.ungot = i.ungot /\ t.rfill = i.rfill
                     /\ t.fill = IF i.fill = "stringfill" THEN "eoffill" ELSE i.fill
               /\ t.echoed = IF i.verbose /\ i.fill # "ungetfill" /\ peek(i) # "eof"
                             THEN i.echoed + 1 ELSE i.echoed
               /\ Len(i.ungot) > 1 =>
                     /\ u.ungot = Front(i.ungot) /\ u.at = i.at /\ u.rat = i.rat
                     /\ u.fill = i.fill /\ u.rfill = i.rfill
               /\ ~(Len(i.ungot) > 1) =>
                     /\ u.ungot = <<>> /\ u.at = i.rat /\ u.rat = 0
                     /\ u.fill = i.rfill /\ u.rfill = "NULL"
<1>1. i \in InputType
  BY DEF Shaped
<1>2. i.fill = "ungetfill" => i.rfill \in Fills /\ i.ungot # <<>>
  BY DEF Shaped
<1>3. i.fill = "ungetfill" => Front(i.ungot) \in Seq(Char)
  BY <1>1, <1>2, ReverseFront DEF InputType
<1>4. <<>> \in Seq(Char)
  OBVIOUS
<1>5. i.fill = "ungetfill" => ungetfill(i) \in InputType
  BY <1>1, <1>2, <1>3, <1>4 DEF ungetfill, InputType, Fills
<1> DEFINE u == ungetfill(i)
           ch == peek(i)
<1>6. /\ Len(i.ungot) > 1 =>
            /\ u.ungot = Front(i.ungot) /\ u.at = i.at /\ u.rat = i.rat
            /\ u.fill = i.fill /\ u.rfill = i.rfill
            /\ u.buf = i.buf /\ u.reads = i.reads /\ u.verbose = i.verbose
            /\ u.intr = i.intr /\ u.echoed = i.echoed
      /\ ~(Len(i.ungot) > 1) =>
            /\ u.ungot = <<>> /\ u.at = i.rat /\ u.rat = 0
            /\ u.fill = i.rfill /\ u.rfill = "NULL"
            /\ u.buf = i.buf /\ u.reads = i.reads /\ u.verbose = i.verbose
            /\ u.intr = i.intr /\ u.echoed = i.echoed
  BY <1>1 DEF ungetfill, InputType
<1> HIDE DEF u, ch
<1> DEFINE j == IF Buffered(i) THEN [i EXCEPT !.at = @ + 1]
                ELSE IF i.fill = "ungetfill" THEN u
                ELSE IF i.fill = "stringfill" THEN [i EXCEPT !.fill = "eoffill"] ELSE i
<1>7. taken(i) = [j EXCEPT !.intr = @ /\ ch # "nul",
                          !.echoed = IF i.verbose /\ i.fill # "ungetfill" /\ ch # "eof"
                                     THEN @ + 1 ELSE @]
  BY DEF taken, u, ch
<1>8. /\ j \in InputType
      /\ j.buf = i.buf /\ j.reads = i.reads /\ j.verbose = i.verbose
      /\ j.intr = i.intr /\ j.echoed = i.echoed
      /\ Buffered(i) => j.at = i.at + 1 /\ j.rat = i.rat /\ j.ungot = i.ungot
                        /\ j.fill = i.fill /\ j.rfill = i.rfill
      /\ ~Buffered(i) /\ i.fill = "ungetfill" => j = u
      /\ ~Buffered(i) /\ i.fill # "ungetfill" =>
            /\ j.at = i.at /\ j.rat = i.rat /\ j.ungot = i.ungot /\ j.rfill = i.rfill
            /\ j.fill = IF i.fill = "stringfill" THEN "eoffill" ELSE i.fill
  <2>1. CASE Buffered(i)
    BY <1>1, <2>1 DEF InputType
  <2>2. CASE ~Buffered(i) /\ i.fill = "ungetfill"
    BY <1>5, <1>6, <2>2 DEF u
  <2>3. CASE ~Buffered(i) /\ i.fill # "ungetfill"
    BY <1>1, <2>3 DEF InputType, Fills
  <2> QED BY <2>1, <2>2, <2>3
<1> HIDE DEF j
<1> DEFINE t == taken(i)
<1> DEFINE b == j.intr /\ ch # "nul"
           e == IF i.verbose /\ i.fill # "ungetfill" /\ ch # "eof"
                THEN j.echoed + 1 ELSE j.echoed
<1>9. /\ t \in InputType
      /\ t.buf = j.buf /\ t.reads = j.reads /\ t.verbose = j.verbose
      /\ t.at = j.at /\ t.rat = j.rat /\ t.ungot = j.ungot /\ t.fill = j.fill /\ t.rfill = j.rfill
      /\ t.echoed = e
  <2>1. b \in BOOLEAN /\ e \in Nat
    BY <1>8 DEF InputType
  <2>2. t = [j EXCEPT !.intr = b, !.echoed = e]
    BY <1>7
  <2> HIDE DEF b, e, t
  <2> QED BY <1>8, <2>1, <2>2 DEF InputType
<1> HIDE DEF t
<1>10. u.buf = i.buf /\ t.buf = i.buf
  BY <1>6, <1>8, <1>9
<1> QED BY <1>6, <1>8, <1>9 DEF u, ch, t, e
LEMMA Taken ==
    ASSUME NEW i, Shaped(i), AtHand(i)
    PROVE  TakenIs(i)
<1> DEFINE t == taken(i)
<1>1. i \in InputType /\ i.buf \in Seq(Char) /\ i.reads \in Reads /\ i.ungot \in Seq(Char)
      /\ i.at \in Nat /\ Len(i.buf) \in Nat /\ Chars(i.reads) \in Seq(Char)
  BY InputFacts
<1>2. /\ t \in InputType
      /\ t.buf = i.buf /\ t.reads = i.reads /\ t.verbose = i.verbose
      /\ Buffered(i) => t.at = i.at + 1 /\ t.rat = i.rat /\ t.ungot = i.ungot
                        /\ t.fill = i.fill /\ t.rfill = i.rfill
      /\ ~Buffered(i) /\ i.fill # "ungetfill" =>
            /\ t.at = i.at /\ t.rat = i.rat /\ t.ungot = i.ungot /\ t.rfill = i.rfill
            /\ t.fill = IF i.fill = "stringfill" THEN "eoffill" ELSE i.fill
      /\ ~Buffered(i) /\ i.fill = "ungetfill" /\ Len(i.ungot) > 1 =>
            /\ t.ungot = Front(i.ungot) /\ t.at = i.at /\ t.rat = i.rat
            /\ t.fill = i.fill /\ t.rfill = i.rfill
      /\ ~Buffered(i) /\ i.fill = "ungetfill" /\ ~(Len(i.ungot) > 1) =>
            /\ t.ungot = <<>> /\ t.at = i.rat /\ t.rat = 0
            /\ t.fill = i.rfill /\ t.rfill = "NULL"
  BY TakenFields
<1> HIDE DEF t
<1>3. CASE Buffered(i)
  <2>1. i.fill # "ungetfill" /\ i.ungot = <<>> /\ i.at \in 1..Len(i.buf)
    BY <1>1, <1>3 DEF Shaped, Buffered, Place
  <2>2. peek(i) = i.buf[i.at]
    BY <1>3 DEF peek
  <2>3. /\ Place(i) = i.at /\ Place(t) = i.at + 1 /\ t.ungot = <<>> /\ t.fill = i.fill
        /\ Filler(t) = Filler(i)
    BY <1>2, <1>3, <2>1 DEF Place, Filler
  <2>4. Shaped(t)
    BY <1>1, <1>2, <2>1, <2>3 DEF Shaped
  <2>5. /\ Unread(i) = <<peek(i)>> \o Unread(t) /\ peek(i) \in Char
    <3> DEFINE b == i.buf
               p == i.at
               r == Chars(i.reads)
    <3>1. Unread(i) = SubSeq(b, p, Len(b)) \o r /\ Unread(t) = SubSeq(b, p + 1, Len(b)) \o r
      BY <1>2, <2>3 DEF Unread
    <3>2. b \in Seq(Char) /\ p \in 1..Len(b) /\ r \in Seq(Char) /\ peek(i) = b[p]
      BY <1>1, <2>1, <2>2
    <3> HIDE DEF b, p, r
    <3>3. SubSeq(b, p, Len(b)) \o r = <<b[p]>> \o (SubSeq(b, p + 1, Len(b)) \o r) /\ b[p] \in Char
      BY <3>2, FromBuffer
    <3> QED BY <3>1, <3>2, <3>3
  <2>6. Held(i) = Unread(i) /\ Held(t) = Unread(t) /\ Unread(t) \in Seq(Char)
    BY <2>1, <2>3, <2>4, HeldIs
  <2>7. Held(i) # <<>>
    BY <2>5, <2>6, FirstOf
  <2> QED BY <1>2, <2>1, <2>3, <2>4, <2>5, <2>6, <2>7 DEF TakenIs, t
<1>4. CASE ~Buffered(i) /\ i.fill = "ungetfill"
  <2>1. i.ungot # <<>> /\ peek(i) = Last(i.ungot) /\ Place(i) = i.rat /\ i.rfill \in Fills
        /\ Filler(i) = i.rfill /\ i.at = Len(i.buf) + 1
    BY <1>4 DEF peek, Shaped, Place, Filler
  <2>2. /\ Front(i.ungot) \in Seq(Char) /\ Len(Front(i.ungot)) = Len(i.ungot) - 1
        /\ peek(i) \in Char /\ Reverse(i.ungot) = <<peek(i)>> \o Reverse(Front(i.ungot))
        /\ Reverse(Front(i.ungot)) \in Seq(Char)
    BY <1>1, <2>1, ReverseFront
  <2>3. t.ungot = Front(i.ungot) /\ Place(t) = i.rat /\ Filler(t) = i.rfill
    <3>1. CASE Len(i.ungot) > 1
      BY <1>2, <1>4, <2>1, <3>1 DEF Place, Filler
    <3>2. CASE ~(Len(i.ungot) > 1)
      <4>1. Len(Front(i.ungot)) = 0
        BY <1>1, <2>1, <2>2, <3>2
      <4>2. Front(i.ungot) = <<>>
        BY <2>2, <4>1
      <4>3. t.ungot = <<>> /\ t.at = i.rat /\ t.fill = i.rfill /\ i.rfill # "ungetfill"
        BY <1>2, <1>4, <2>1, <3>2 DEF Fills
      <4> QED BY <4>2, <4>3 DEF Place, Filler
    <3> QED BY <3>1, <3>2
  <2>4. Shaped(t)
    <3>1. CASE Len(i.ungot) > 1
      <4>1. Front(i.ungot) # <<>>
        BY <1>1, <2>2, <3>1
      <4> QED BY <1>2, <1>4, <2>1, <2>3, <3>1, <4>1 DEF Shaped
    <3>2. CASE ~(Len(i.ungot) > 1)
      <4>1. t.ungot = <<>> /\ t.fill = i.rfill /\ i.rfill # "ungetfill"
        BY <1>2, <1>4, <2>1, <3>2 DEF Fills
      <4> QED BY <1>2, <2>1, <2>3, <4>1 DEF Shaped
    <3> QED BY <3>1, <3>2
  <2>5. Unread(t) = Unread(i) /\ Unread(i) \in Seq(Char)
    BY <1>2, <2>1, <2>3, HeldIs DEF Unread
  <2>6. Held(i) = <<peek(i)>> \o Held(t) /\ Held(i) # <<>>
    <3> DEFINE r == Reverse(Front(i.ungot))
               w == Unread(i)
               h == <<peek(i)>>
    <3>1. Held(i) = (h \o r) \o w /\ Held(t) = r \o w
      BY <2>2, <2>3, <2>5 DEF Held
    <3>2. h \in Seq(Char) /\ r \in Seq(Char) /\ w \in Seq(Char)
      BY <2>2, <2>5
    <3> HIDE DEF r, w, h
    <3>3. (h \o r) \o w = h \o (r \o w) /\ r \o w \in Seq(Char)
      BY <3>2, ConcatAssociative, ConcatProperties, SMTT(40)
    <3> QED BY <2>2, <3>1, <3>3, FirstOf DEF h
  <2> QED BY <1>2, <2>1, <2>2, <2>3, <2>4, <2>6 DEF TakenIs, t
<1>5. CASE ~Buffered(i) /\ i.fill # "ungetfill"
  <2>1. /\ i.fill \in {"stringfill", "eoffill"} /\ i.ungot = <<>> /\ i.reads = <<>>
        /\ i.at = Len(i.buf) + 1 /\ peek(i) = "eof"
    BY <1>1, <1>5 DEF AtHand, Shaped, Filler, Place, Buffered, peek, InputType, Fills
  <2>2. Held(i) = <<>>
    <3>1. Place(i) = i.at /\ Len(SubSeq(i.buf, Place(i), Len(i.buf))) = 0
          /\ SubSeq(i.buf, Place(i), Len(i.buf)) \in Seq(Char)
      BY <1>1, <1>5, <2>1, PlaceIs DEF Place
    <3>2. SubSeq(i.buf, Place(i), Len(i.buf)) = <<>> /\ Chars(i.reads) = <<>>
      BY <1>1, <2>1, <3>1, CharsIs
    <3>3. Held(i) = Unread(i)
      BY <2>1, HeldIs
    <3> QED BY <3>2, <3>3 DEF Unread
  <2>3. /\ t.fill = "eoffill" /\ t.ungot = <<>> /\ t.at = i.at /\ t.reads = i.reads /\ t.buf = i.buf
    BY <1>2, <1>5, <2>1
  <2>4. Place(t) = Place(i) /\ Shaped(t)
    BY <1>1, <1>2, <1>5, <2>1, <2>3 DEF Place, Filler, Shaped, Fills
  <2>5. Held(t) = Held(i)
    BY <2>1, <2>3, <2>4 DEF Held, Unread
  <2>6. peek(i) \in Char
    BY <2>1, Characters
  <2> QED BY <1>2, <2>1, <2>2, <2>3, <2>4, <2>5, <2>6 DEF TakenIs, t
<1> QED BY <1>3, <1>4, <1>5

\* An echoed source is echoed as it is read.
LEMMA TakenEcho ==
    ASSUME NEW i, Shaped(i), AtHand(i), i.verbose
    PROVE  /\ taken(i).echoed \in Nat /\ i.echoed \in Nat
           /\ taken(i).echoed + Len(Unread(taken(i))) = i.echoed + Len(Unread(i))
<1> DEFINE t == taken(i)
<1>1. i \in InputType /\ i.at \in Nat /\ Len(i.buf) \in Nat /\ i.echoed \in Nat
      /\ i.buf \in Seq(Byte) /\ Len(Chars(i.reads)) \in Nat
  BY InputFacts DEF InputType
<1>2. Shaped(t) /\ t.buf = i.buf /\ t.reads = i.reads
  BY Taken DEF TakenIs
<1>3. /\ Len(Unread(i)) = Len(i.buf) + 1 - Place(i) + Len(Chars(i.reads))
      /\ Len(Unread(t)) = Len(i.buf) + 1 - Place(t) + Len(Chars(i.reads))
      /\ Place(i) \in 1..Len(i.buf) + 1 /\ Place(t) \in 1..Len(i.buf) + 1
  BY <1>2, HeldIs DEF Shaped
<1>4. t.echoed = IF i.fill # "ungetfill" /\ peek(i) # "eof" THEN i.echoed + 1 ELSE i.echoed
  BY TakenFields
<1>5. CASE Buffered(i)
  <2>1. i.fill # "ungetfill" /\ i.at \in 1..Len(i.buf) /\ peek(i) = i.buf[i.at]
    BY <1>1, <1>5 DEF Shaped, Buffered, Place, peek
  <2>2. peek(i) # "eof"
    BY <1>1, <2>1 DEF Byte
  <2>3. t.at = i.at + 1 /\ t.fill = i.fill
    BY <1>5, TakenFields
  <2>4. Place(i) = i.at /\ Place(t) = i.at + 1
    BY <2>1, <2>3 DEF Place
  <2> HIDE DEF t
  <2>5. t.echoed = i.echoed + 1
    BY <1>4, <2>1, <2>2
  <2>6. Len(Unread(i)) = Len(Unread(t)) + 1 /\ Len(Unread(t)) \in Int
    <3> DEFINE L == Len(i.buf)
               C == Len(Chars(i.reads))
               a == i.at
    <3>1. /\ Len(Unread(i)) = L + 1 - a + C /\ Len(Unread(t)) = L + 1 - (a + 1) + C
          /\ L \in Nat /\ C \in Nat /\ a \in Nat
      BY <1>1, <1>3, <2>4
    <3> HIDE DEF L, C, a
    <3> QED BY <3>1
  <2>7. t.echoed \in Nat /\ t.echoed + Len(Unread(t)) = i.echoed + Len(Unread(i))
    BY <1>1, <2>5, <2>6
  <2> QED BY <1>1, <2>7 DEF t
<1>6. CASE ~Buffered(i)
  <2>1. Place(t) = Place(i)
    <3>1. CASE i.fill = "ungetfill" /\ Len(i.ungot) > 1
      BY <1>6, <3>1, TakenFields DEF Place
    <3>2. CASE i.fill = "ungetfill" /\ ~(Len(i.ungot) > 1)
      <4>1. t.at = i.rat /\ t.fill = i.rfill /\ i.rfill \in Fills
        BY <1>6, <3>2, TakenFields DEF Shaped
      <4> QED BY <3>2, <4>1 DEF Place, Fills
    <3>3. CASE i.fill # "ungetfill"
      <4>1. t.at = i.at /\ t.fill = IF i.fill = "stringfill" THEN "eoffill" ELSE i.fill
        BY <1>6, <3>3, TakenFields
      <4> QED BY <3>3, <4>1 DEF Place
    <3> QED BY <3>1, <3>2, <3>3
  <2>2. i.fill # "ungetfill" => peek(i) = "eof"
    BY <1>6 DEF peek
  <2> HIDE DEF t
  <2>3. t.echoed = i.echoed
    BY <1>4, <2>2
  <2> QED BY <1>1, <1>3, <2>1, <2>3 DEF t
<1> QED BY <1>5, <1>6

\* unget puts a character before what is held.
LEMMA Pushed ==
    ASSUME NEW i, Shaped(i), NEW ch \in Char
    PROVE  /\ Shaped(unget(i, ch))
           /\ Held(unget(i, ch)) = <<ch>> \o Held(i)
           /\ unget(i, ch).ungot \in {Append(i.ungot, ch), <<>>}
           /\ i.ungot # <<>> => unget(i, ch).ungot = Append(i.ungot, ch)
           /\ unget(i, ch).verbose = i.verbose /\ unget(i, ch).echoed = i.echoed
           /\ unget(i, ch).buf = i.buf /\ unget(i, ch).reads = i.reads
           /\ i.verbose => Unread(unget(i, ch)) = Unread(i)
<1> DEFINE u == unget(i, ch)
<1>1. i \in InputType /\ i.buf \in Seq(Char) /\ i.reads \in Reads /\ i.ungot \in Seq(Char)
      /\ i.at \in Nat /\ i.rat \in Nat /\ Len(i.buf) \in Nat /\ Chars(i.reads) \in Seq(Char)
  BY InputFacts
<1>2. /\ Append(i.ungot, ch) \in Seq(Char) /\ Append(i.ungot, ch) # <<>>
      /\ Reverse(Append(i.ungot, ch)) = <<ch>> \o Reverse(i.ungot) /\ Reverse(i.ungot) \in Seq(Char)
  BY <1>1, ReverseAppend
<1>3. Unread(i) \in Seq(Char) /\ <<ch>> \in Seq(Char)
  BY HeldIs
<1>4. ASSUME NEW v, Shaped(v), v.ungot = Append(i.ungot, ch), Unread(v) = Unread(i)
      PROVE  Held(v) = <<ch>> \o Held(i)
  <2> DEFINE r == Reverse(i.ungot)
             w == Unread(i)
             h == <<ch>>
  <2>1. Held(v) = (h \o r) \o w /\ Held(i) = r \o w
    BY <1>2, <1>4 DEF Held
  <2>2. h \in Seq(Char) /\ r \in Seq(Char) /\ w \in Seq(Char)
    BY <1>2, <1>3
  <2> HIDE DEF r, w, h
  <2>3. (h \o r) \o w = h \o (r \o w)
    BY <2>2, ConcatAssociative
  <2> QED BY <2>1, <2>3 DEF h
<1>5. CASE i.ungot # <<>>
  <2>1. u = [i EXCEPT !.ungot = Append(@, ch)]
    BY <1>5 DEF unget
  <2>2. /\ u \in InputType /\ u.ungot = Append(i.ungot, ch) /\ u.fill = i.fill /\ u.rfill = i.rfill
        /\ u.at = i.at /\ u.rat = i.rat /\ u.buf = i.buf /\ u.reads = i.reads
        /\ u.verbose = i.verbose /\ u.echoed = i.echoed
    BY <1>1, <1>2, <2>1 DEF InputType
  <2> HIDE DEF u
  <2>3. Place(u) = Place(i) /\ Filler(u) = Filler(i)
    BY <2>2 DEF Place, Filler
  <2>4. Shaped(u)
    BY <1>2, <1>5, <2>2, <2>3 DEF Shaped
  <2>5. Unread(u) = Unread(i)
    BY <2>2, <2>3 DEF Unread
  <2> QED BY <1>4, <2>2, <2>4, <2>5 DEF u
<1>6. CASE i.ungot = <<>> /\ i.at > 1 /\ i.buf[i.at - 1] = ch /\ ~i.verbose
  <2>1. u = [i EXCEPT !.at = @ - 1]
    BY <1>6 DEF unget
  <2>2. /\ u \in InputType /\ u.ungot = i.ungot /\ u.fill = i.fill /\ u.rfill = i.rfill
        /\ u.at = i.at - 1 /\ u.rat = i.rat /\ u.buf = i.buf /\ u.reads = i.reads
        /\ u.verbose = i.verbose /\ u.echoed = i.echoed
    <3> DEFINE p == i.at - 1
    <3>1. p \in Nat
      BY <1>1, <1>6
    <3>2. u = [i EXCEPT !.at = p]
      BY <2>1
    <3> HIDE DEF u, p
    <3>3. /\ u \in InputType /\ u.ungot = i.ungot /\ u.fill = i.fill /\ u.rfill = i.rfill
          /\ u.at = p /\ u.rat = i.rat /\ u.buf = i.buf /\ u.reads = i.reads
          /\ u.verbose = i.verbose /\ u.echoed = i.echoed
      BY <1>1, <3>1, <3>2 DEF InputType
    <3> QED BY <3>3 DEF p
  <2> HIDE DEF u
  <2>3. /\ i.fill # "ungetfill" /\ i.at \in 1..Len(i.buf) + 1 /\ i.at - 1 \in 1..Len(i.buf)
        /\ (i.at - 1) + 1 = i.at
    BY <1>1, <1>6 DEF Shaped, Place
  <2>4. Place(i) = i.at /\ Place(u) = i.at - 1 /\ Filler(u) = Filler(i)
    BY <2>2, <2>3 DEF Place, Filler
  <2>5. Shaped(u)
    BY <1>1, <1>6, <2>2, <2>3, <2>4 DEF Shaped
  <2>6. Unread(u) = <<ch>> \o Unread(i)
    <3> DEFINE b == i.buf
               p == i.at - 1
               r == Chars(i.reads)
    <3>1. Unread(u) = SubSeq(b, p, Len(b)) \o r /\ Unread(i) = SubSeq(b, p + 1, Len(b)) \o r
      BY <2>2, <2>3, <2>4 DEF Unread
    <3>2. b \in Seq(Char) /\ p \in 1..Len(b) /\ r \in Seq(Char) /\ ch = b[p]
      BY <1>1, <1>6, <2>3
    <3> HIDE DEF b, p, r
    <3>3. SubSeq(b, p, Len(b)) \o r = <<b[p]>> \o (SubSeq(b, p + 1, Len(b)) \o r)
      BY <3>2, FromBuffer
    <3> QED BY <3>1, <3>2, <3>3
  <2>7. Held(u) = Unread(u) /\ Held(i) = Unread(i)
    BY <1>6, <2>2, <2>5, HeldIs
  <2> QED BY <1>6, <2>2, <2>5, <2>6, <2>7 DEF u
<1>7. CASE i.ungot = <<>> /\ ~(i.at > 1 /\ i.buf[i.at - 1] = ch /\ ~i.verbose)
  <2>1. u = [i EXCEPT !.rfill = i.fill, !.fill = "ungetfill", !.rat = i.at,
                      !.at = Len(i.buf) + 1, !.ungot = <<ch>>]
    BY <1>7 DEF unget
  <2>2. i.fill \in Fills /\ i.fill # "ungetfill" /\ Append(i.ungot, ch) = <<ch>>
    BY <1>1, <1>7 DEF Shaped, InputType
  <2>3. /\ u \in InputType /\ u.ungot = Append(i.ungot, ch) /\ u.fill = "ungetfill" /\ u.rfill = i.fill
        /\ u.at = Len(i.buf) + 1 /\ u.rat = i.at /\ u.buf = i.buf /\ u.reads = i.reads
        /\ u.verbose = i.verbose /\ u.echoed = i.echoed
    <3> DEFINE end == Len(i.buf) + 1
               pushed == <<ch>>
    <3>1. end \in Nat /\ pushed \in Seq(Char) /\ pushed = Append(i.ungot, ch) /\ i.fill \in Fills
      BY <1>1, <1>2, <2>2
    <3>2. u = [i EXCEPT !.rfill = i.fill, !.fill = "ungetfill", !.rat = i.at,
                        !.at = end, !.ungot = pushed]
      BY <2>1
    <3> HIDE DEF u, end, pushed
    <3>3. /\ u \in InputType /\ u.ungot = pushed /\ u.fill = "ungetfill" /\ u.rfill = i.fill
          /\ u.at = end /\ u.rat = i.at /\ u.buf = i.buf /\ u.reads = i.reads
          /\ u.verbose = i.verbose /\ u.echoed = i.echoed
      BY <1>1, <3>1, <3>2 DEF InputType
    <3> QED BY <3>1, <3>3 DEF end
  <2> HIDE DEF u
  <2>4. Place(u) = Place(i) /\ Filler(u) = Filler(i)
    BY <2>2, <2>3 DEF Place, Filler
  <2>5. Shaped(u)
    BY <1>2, <2>2, <2>3, <2>4 DEF Shaped
  <2>6. Unread(u) = Unread(i)
    BY <2>3, <2>4 DEF Unread
  <2> QED BY <1>4, <2>3, <2>5, <2>6 DEF u
<1> QED BY <1>5, <1>6, <1>7

-----------------------------------------------------------------------------
(***************************************************************************)
(* The lexer.  L is a set of characters: what a token is made of.          *)
(***************************************************************************)

Kinds == {"NL", "ENDFILE", "ERROR", "^", "~", "@", "CALL", "WORD", "QWORD", "!", "SUB", "(",
          ";", ")", "=", "{", "}", "BACKBACK", "bq", "ANDAND", "&", "COUNT", "FLAT", "PRIM",
          "$", "OROR", "PIPE", "DUP", "HEREDOC", "REDIR", "EXTRACT", "LOCAL", "OTHER"}
Commands == {"NULL", "|", "%open", "%open-append", "%open-write", "%here", "%heredoc",
             "%open-create", "%create", "%append"}
Wants == {"none", "marker", "word", "file"}
Brackets == {"top", "{", "(", "SUB", "bind"}
Lasts == {"word", "caret", "more", "binder", "bound", "not", "is"}

LexType(L) ==
    [w : {"non", "real", "key"}, newline : BOOLEAN, goterror : BOOLEAN, dollar : BOOLEAN,
     meta : {"non_word", "argument", "dollar"}, acc : Seq(L), cmd : Commands, m : Nat, from : Int]
TokType(L) == [kind : Kinds, s : Seq(L)]
MarkerType(L) == [eof : Seq(L), quoted : BOOLEAN, literal : BOOLEAN]
FrameType(L) == [open : Brackets, begun : BOOLEAN, outer : Seq(MarkerType(L)),
                 leads : Seq(MarkerType(L)), trail : Seq(MarkerType(L))]
NestType(L) == {n \in Seq(FrameType(L)) : n # <<>> /\ n[1].open = "top"}
DocType(L) == [eof : Seq(L), quoted : BOOLEAN, from : Int, doc : Seq(L)]
ParType(L) ==
    [lineno : Nat, prompt2 : BOOLEAN, error : BOOLEAN, gcblocked : Int,
     nest : NestType(L), last : Lasts, want : Wants, marker : Seq(MarkerType(L)), queue : Seq(MarkerType(L)),
     skip : BOOLEAN, bad : BOOLEAN, ok : BOOLEAN, toks : Seq(TokType(L)), docs : Seq(DocType(L))]
Typed(L) == lex \in LexType(L) /\ tok \in TokType(L) /\ par \in ParType(L)

\* Where the lexer reads.
Scanning == {"top", "word", "quote", "quote2", "slash", "comment", "dollar", "backquote", "esc",
             "coded", "amp", "pipe", "less", "lessgreat", "lessless", "greater", "greatgreat",
             "slash2", "fds", "fd0", "fd0s", "fd1", "fd1s", "scanerror"}

\* What a step of the lexer leaves of the parser.
ParKept ==
    /\ par'.gcblocked = par.gcblocked /\ par'.nest = par.nest /\ par'.last = par.last /\ par'.want = par.want
    /\ par'.marker = par.marker /\ par'.queue = par.queue /\ par'.docs = par.docs
    /\ par'.skip = par.skip /\ par'.bad = par.bad
    /\ par'.error = par.error \/ (pc = "scanerror" /\ par'.error)

\* A step of the lexer that reads: the characters it may be made of, where it
\* leads, and when it looks at a character without taking it.
LexStep(L) ==
    /\ Typed(L)' /\ src' = src /\ ParKept
    /\ AtHand(in) /\ (Get \/ Look \/ UNCHANGED <<in, stream>>)
    /\ pc \in Scanning /\ pc' \in Scanning \cup {"token"}
    /\ pc' # "esc"
    /\ pc' = "slash" => pc = "top" /\ c = "\\" /\ Get /\ lex'.w = lex.w
    /\ pc' = "top" => pc = "top" /\ Get
    /\ lex'.goterror => pc = "scanerror" /\ Get /\ pc' = "token" /\ tok'.kind = "ERROR"
    /\ pc' = "token" /\ tok'.kind = "NL" => Get /\ c = "\n"
    /\ pc = "top" /\ lex.w = "non" => Get
    /\ pc = "top" /\ lex.w = "non" /\ c = "\\" => pc' = "slash"

LEMMA Constants ==
    {"a", "c", "n", "x", "1", "0", "'", "\\", "soh", "bel", "\n", "\t", "var"} \subseteq Byte
BY DEF Byte, Char, non_word, dollar_word, alnum

LEMMA ReadyIs ==
    ASSUME Shaped(in), Ready
    PROVE  AtHand(in) /\ c \in Char
<1>1. AtHand(in)
  BY DEF Ready, AtHand
<1> QED BY <1>1, Taken DEF TakenIs, c

LEMMA AppendL ==
    ASSUME NEW L, NEW s \in Seq(L), NEW ch \in L
    PROVE  Append(s, ch) \in Seq(L) /\ <<ch>> \in Seq(L) /\ <<>> \in Seq(L)
OBVIOUS

Lefts == {"non", "real", "key"}
Metas == {"non_word", "argument", "dollar"}

\* The lexer's record after a step of each shape.
LEMMA LexScan ==
    ASSUME NEW L, lex \in LexType(L), NEW a \in Seq(L), NEW w \in Lefts, NEW l, l = [lex EXCEPT !.acc = a, !.w = w]
    PROVE  l \in LexType(L) /\ l.goterror = lex.goterror /\ l.w = w
BY DEF LexType, Lefts, Metas

LEMMA LexMark ==
    ASSUME NEW L, lex \in LexType(L), NEW w \in Lefts, NEW l, l = [lex EXCEPT !.w = w]
    PROVE  l \in LexType(L) /\ l.goterror = lex.goterror /\ l.w = w
BY DEF LexType, Lefts, Metas

LEMMA LexWord ==
    ASSUME NEW L, lex \in LexType(L), NEW a \in Seq(L), NEW w \in Lefts, NEW mt \in Metas, NEW l, l = [lex EXCEPT !.acc = a, !.w = w, !.meta = mt]
    PROVE  l \in LexType(L) /\ l.goterror = lex.goterror
BY DEF LexType, Lefts, Metas

LEMMA LexDollar ==
    ASSUME NEW L, lex \in LexType(L), NEW b \in BOOLEAN, NEW l, l = [lex EXCEPT !.dollar = b]
    PROVE  l \in LexType(L) /\ l.goterror = lex.goterror /\ l.w = lex.w
BY DEF LexType, Lefts, Metas

LEMMA LexLine ==
    ASSUME NEW L, lex \in LexType(L), NEW w \in Lefts, NEW b \in BOOLEAN, NEW l, l = [lex EXCEPT !.w = w, !.newline = b]
    PROVE  l \in LexType(L) /\ l.goterror = lex.goterror
BY DEF LexType, Lefts, Metas

LEMMA LexQuote ==
    ASSUME NEW L, lex \in LexType(L), NEW a \in Seq(L), NEW l, l = [lex EXCEPT !.acc = a]
    PROVE  l \in LexType(L) /\ l.goterror = lex.goterror /\ l.w = lex.w
BY DEF LexType, Lefts, Metas

LEMMA LexRedirect ==
    ASSUME NEW L, lex \in LexType(L), NEW cmd \in Commands, NEW w \in Lefts, NEW l, l = [lex EXCEPT !.cmd = cmd, !.w = w]
    PROVE  l \in LexType(L) /\ l.goterror = lex.goterror
BY DEF LexType, Lefts, Metas

LEMMA LexError ==
    ASSUME NEW L, lex \in LexType(L), NEW b \in BOOLEAN, NEW l, l = [lex EXCEPT !.goterror = b]
    PROVE  l \in LexType(L) /\ l.goterror = b /\ l.w = lex.w
BY DEF LexType, Lefts, Metas

\* The parser's record after a line end.
LEMMA ParLine ==
    ASSUME NEW L, par \in ParType(L), NEW p,
           p = [par EXCEPT !.lineno = @ + 1] \/ p = [par EXCEPT !.lineno = @ + 1, !.prompt2 = TRUE]
    PROVE  /\ p \in ParType(L)
           /\ p.gcblocked = par.gcblocked /\ p.nest = par.nest /\ p.last = par.last /\ p.want = par.want
           /\ p.marker = par.marker /\ p.queue = par.queue /\ p.docs = par.docs
           /\ p.skip = par.skip /\ p.bad = par.bad /\ p.error = par.error
<1>1. CASE p = [par EXCEPT !.lineno = @ + 1]
  <2>1. par.lineno + 1 \in Nat
    BY DEF ParType
  <2> QED BY <1>1, <2>1 DEF ParType
<1>2. CASE p = [par EXCEPT !.lineno = @ + 1, !.prompt2 = TRUE]
  <2>1. par.lineno + 1 \in Nat
    BY DEF ParType
  <2> QED BY <1>2, <2>1 DEF ParType
<1> QED BY <1>1, <1>2

\* Where a step of the lexer leads, and what it makes.
Made(L, p) ==
    /\ Typed(L)' /\ src' = src /\ ParKept /\ pc' = p
    /\ lex'.goterror = lex.goterror

LEMMA Scans ==
    ASSUME NEW L, Typed(L), NEW p, NEW a \in Seq(L), NEW w \in Lefts, Scan(p, a, w)
    PROVE  Made(L, p) /\ lex'.w = w
<1>1. lex' = [lex EXCEPT !.acc = a, !.w = w] /\ pc' = p /\ UNCHANGED <<tok, par, src>>
  BY DEF Scan, Goto, ShellStays
<1>2. lex' \in LexType(L) /\ lex'.goterror = lex.goterror /\ lex'.w = w
  BY <1>1 DEF Typed, LexType, Lefts
<1> QED BY <1>1, <1>2 DEF Made, Typed, ParKept

LEMMA Tokens ==
    ASSUME NEW L, Typed(L), NEW kind \in Kinds, NEW s \in Seq(L), NEW w \in Lefts, Token(kind, s, w)
    PROVE  Made(L, "token") /\ lex'.w = w /\ tok'.kind = kind /\ tok'.s = s
<1>1. lex' = [lex EXCEPT !.w = w] /\ pc' = "token" /\ UNCHANGED <<par, src>> /\ tok' = [kind |-> kind, s |-> s]
  BY DEF Token
<1>2. lex' \in LexType(L) /\ lex'.goterror = lex.goterror /\ lex'.w = w
  BY <1>1, LexMark DEF Typed
<1>3. tok' \in TokType(L) /\ tok'.kind = kind /\ tok'.s = s
  BY <1>1 DEF TokType
<1> QED BY <1>1, <1>2, <1>3 DEF Made, Typed, ParKept

LEMMA Returns ==
    ASSUME NEW L, Typed(L), NEW kind \in Kinds, NEW w \in Lefts, Return(kind, w)
    PROVE  Made(L, "token") /\ lex'.w = w /\ tok'.kind = kind
<1>1. <<>> \in Seq(L) /\ Token(kind, <<>>, w)
  BY DEF Return
<1> QED BY <1>1, Tokens

LEMMA Scanerrors ==
    ASSUME NEW L, Typed(L), NEW w \in Lefts, Scanerror(w)
    PROVE  Made(L, "scanerror") /\ lex'.w = w
<1>1. lex' = [lex EXCEPT !.w = w] /\ pc' = "scanerror" /\ UNCHANGED <<tok, par, src>>
  BY DEF Scanerror, Goto, ShellStays
<1>2. lex' \in LexType(L) /\ lex'.goterror = lex.goterror /\ lex'.w = w
  BY <1>1, LexMark DEF Typed
<1> QED BY <1>1, <1>2 DEF Made, Typed, ParKept

LEMMA LineEnds ==
    ASSUME NEW L, Typed(L), LineEnd
    PROVE  Made(L, "token") /\ tok'.kind = "NL"
<1>1. /\ lex' = [lex EXCEPT !.w = "non", !.newline = TRUE] /\ pc' = "token" /\ src' = src
      /\ tok' = [kind |-> "NL", s |-> <<>>] /\ par' = [par EXCEPT !.lineno = @ + 1]
  BY DEF LineEnd
<1>2. lex' \in LexType(L) /\ lex'.goterror = lex.goterror
  BY <1>1, LexLine DEF Typed, Lefts
<1>3. tok' \in TokType(L) /\ tok'.kind = "NL"
  <2>1. "NL" \in Kinds /\ <<>> \in Seq(L)
    BY DEF Kinds
  <2> QED BY <1>1, <2>1 DEF TokType
<1>4. par' \in ParType(L) /\ ParKept
  BY <1>1, ParLine DEF Typed, ParKept
<1> QED BY <1>1, <1>2, <1>3, <1>4 DEF Made, Typed

LEMMA CtrlCs ==
    ASSUME NEW L, Typed(L), CtrlC
    PROVE  Made(L, "scanerror") /\ c = "nul" /\ Get
<1>1. Scanerror("non") /\ "non" \in Lefts
  BY DEF CtrlC, Lefts
<1> QED BY <1>1, Scanerrors DEF CtrlC

\* A step of the lexer at a place where it decides nothing of what follows.
Within(L) ==
    /\ pc \in Scanning \ {"top", "slash"}
    /\ Get \/ Look \/ UNCHANGED <<in, stream>>
    /\ \E p \in Scanning \ {"top", "slash", "esc"} : Made(L, p)

LEMMA TopSteps ==
    ASSUME NEW L, Byte \subseteq L, L \subseteq Char, Typed(L), Shaped(in), ~lex.goterror,
           Blank \/ TopEof \/ TopCtrlC \/ TopCaret \/ TopWord \/ TopNewline
    PROVE  LexStep(L)
<1>1. Ready /\ pc = "top" /\ pc \in Scanning
  BY DEF Blank, TopEof, TopCtrlC, TopCaret, TopWord, TopNewline, At, Scanning
<1>2. AtHand(in) /\ c \in Char /\ (c # "eof" => c \in L) /\ <<>> \in Seq(L)
  BY <1>1, ReadyIs, AppendL DEF Byte
<1>3. lex.w \in Lefts /\ {"NL", "ENDFILE", "^"} \subseteq Kinds /\ {"non", "real"} \subseteq Lefts
  BY DEF Typed, LexType, Lefts, Kinds
<1>4. "scanerror" \in Scanning /\ "word" \in Scanning
  BY DEF Scanning
<1> HIDE DEF c
<1>5. CASE Blank
  <2>1. Made(L, "top") /\ Get /\ c \in {" ", "\t"}
    BY <1>2, <1>3, <1>5, Scans DEF Blank
  <2> QED BY <1>1, <1>2, <2>1 DEF LexStep, Made
<1>6. CASE TopEof
  <2>1. Made(L, "token") /\ tok'.kind = "ENDFILE" /\ Get /\ c = "eof"
    BY <1>2, <1>3, <1>6, Returns DEF TopEof
  <2> QED BY <1>1, <1>2, <2>1 DEF LexStep, Made
<1>7. CASE TopCtrlC
  <2>1. Made(L, "scanerror") /\ Get /\ c = "nul"
    BY <1>7, CtrlCs DEF TopCtrlC
  <2> QED BY <1>1, <1>2, <1>4, <2>1 DEF LexStep, Made
<1>8. CASE TopCaret
  <2>1. Made(L, "token") /\ tok'.kind = "^" /\ Look /\ lex.w # "non"
    BY <1>2, <1>3, <1>8, Returns DEF TopCaret
  <2> QED BY <1>1, <1>2, <2>1 DEF LexStep, Made
<1>9. CASE TopWord
  <2>1. c \in L /\ c # "\\" /\ Get
    BY <1>1, <1>2, <1>9 DEF TopWord, StartsWord, InWord, Meta, non_word, argument_non_word, dollar_word, alnum, Typed, LexType
  <2> DEFINE mt == IF lex.meta = "non_word" /\ c = "-" THEN "argument" ELSE lex.meta
             a == <<c>>
  <2>2. a \in Seq(L) /\ mt \in Metas
    BY <2>1, AppendL DEF Typed, LexType, Metas
  <2>3. lex' = [lex EXCEPT !.acc = a, !.w = "real", !.meta = mt] /\ pc' = "word" /\ UNCHANGED <<tok, par, src>>
    BY <1>9 DEF TopWord, Goto, ShellStays
  <2> HIDE DEF a, mt
  <2>4. lex' \in LexType(L) /\ lex'.goterror = lex.goterror
    <3>1. lex \in LexType(L) /\ "real" \in Lefts
      BY <1>3 DEF Typed
    <3> QED BY <2>2, <2>3, <3>1 DEF LexType, Lefts, Metas
  <2>5. Made(L, "word")
    BY <2>3, <2>4 DEF Made, Typed, ParKept
  <2> QED BY <1>1, <1>2, <1>4, <2>1, <2>5 DEF LexStep, Made
<1>10. CASE TopNewline
  <2>1. Made(L, "token") /\ tok'.kind = "NL" /\ Get /\ c = "\n"
    BY <1>10, LineEnds DEF TopNewline
  <2> QED BY <1>1, <1>2, <2>1 DEF LexStep, Made
<1> QED BY <1>5, <1>6, <1>7, <1>8, <1>9, <1>10

\* Where a step of the lexer that is not at the start of a token leads.
Inner == Scanning \ {"top", "slash", "esc"}
Goes(L) == (\E p \in Inner : Made(L, p)) \/ (Made(L, "token") /\ tok'.kind # "NL")

LEMMA InnerStep ==
    ASSUME NEW L, Shaped(in), Ready, pc \in Scanning \ {"top", "slash"}, ~lex.goterror,
           Get \/ Look \/ UNCHANGED <<in, stream>>, Goes(L)
    PROVE  LexStep(L)
<1>1. AtHand(in)
  BY ReadyIs
<1>2. CASE \E p \in Inner : Made(L, p)
  <2>1. PICK p \in Inner : Made(L, p)
    BY <1>2
  <2>2. pc' = p /\ p \in Scanning /\ p \notin {"top", "slash", "esc", "token"}
    BY <2>1 DEF Made, Inner, Scanning
  <2> QED BY <1>1, <2>1, <2>2 DEF LexStep, Made
<1>3. CASE Made(L, "token") /\ tok'.kind # "NL"
  BY <1>1, <1>3 DEF LexStep, Made
<1> QED BY <1>2, <1>3 DEF Goes

LEMMA KindsAre ==
    /\ {"NL", "ENDFILE", "ERROR", "^", "~", "@", "CALL", "WORD", "QWORD", "!", "SUB", "(",
        ";", ")", "=", "{", "}", "BACKBACK", "bq", "ANDAND", "&", "COUNT", "FLAT", "PRIM",
        "$", "OROR", "PIPE", "DUP", "HEREDOC", "REDIR", "EXTRACT", "LOCAL", "OTHER"} = Kinds
    /\ {"non", "real", "key"} = Lefts
BY DEF Kinds, Lefts

LEMMA Places ==
    {"word", "quote", "quote2", "comment", "dollar", "backquote", "coded", "amp", "pipe", "less",
     "lessgreat", "lessless", "greater", "greatgreat", "slash2", "fds", "fd0", "fd0s", "fd1",
     "fd1s", "scanerror"} = Inner
BY DEF Inner, Scanning

\* What the steps of the lexer are proved from.
Lexing(L) ==
    /\ Byte \subseteq L /\ L \subseteq Char /\ Typed(L) /\ Shaped(in)
    /\ lex.goterror => pc \notin Scanning

LEMMA LexingIs ==
    ASSUME NEW L, Lexing(L), Ready, pc \in Scanning
    PROVE  /\ AtHand(in) /\ c \in Char /\ (c # "eof" => c \in L) /\ Typed(L) /\ ~lex.goterror
           /\ Shaped(in) /\ <<>> \in Seq(L) /\ lex.acc \in Seq(L) /\ lex.w \in Lefts
           /\ lex.meta \in Metas /\ lex \in LexType(L)
           /\ {"a", "c", "n", "x", "1", "0", "'", "\\", "soh", "bel", "\n", "\t", "var"} \subseteq L
<1>1. Typed(L) /\ Shaped(in) /\ ~lex.goterror
  BY DEF Lexing
<1>2. AtHand(in) /\ c \in Char
  BY <1>1, ReadyIs
<1>3. c # "eof" => c \in L
  BY <1>2 DEF Lexing, Byte
<1>4. lex.acc \in Seq(L) /\ lex.w \in Lefts /\ lex.meta \in Metas
  BY <1>1 DEF Typed, LexType, Lefts, Metas
<1> QED BY <1>1, <1>2, <1>3, <1>4, Constants DEF Lexing, Typed

LEMMA WordSteps ==
    ASSUME NEW L, Lexing(L), WordChar \/ WordEnd
    PROVE  LexStep(L)
<1>1. Ready /\ pc = "word" /\ pc \in Scanning \ {"top", "slash"}
  BY DEF WordChar, WordEnd, At, Scanning
<1>2. /\ c \in Char /\ (c # "eof" => c \in L) /\ Typed(L) /\ ~lex.goterror /\ Shaped(in)
      /\ lex.acc \in Seq(L) /\ lex.w \in Lefts
  BY <1>1, LexingIs
<1>3. "word" \in Inner /\ {"~", "@", "CALL", "WORD", "EXTRACT", "LOCAL"} \subseteq Kinds /\ {"key", "real"} \subseteq Lefts
  BY Places, KindsAre
<1> HIDE DEF c
<1>4. CASE WordChar
  <2>1. Append(lex.acc, c) \in Seq(L)
    BY <1>2, <1>4, AppendL DEF WordChar
  <2>2. Made(L, "word") /\ Get
    BY <1>2, <1>4, <2>1, Scans DEF WordChar
  <2> QED BY <1>1, <1>2, <1>3, <2>2, InnerStep DEF Goes
<1>5. CASE WordEnd
  <2>1. Look
    BY <1>5 DEF WordEnd
  <2>2. CASE lex.acc \in {<<"~">>, <<"@">>}
    <3>1. Return(lex.acc[1], "key") /\ lex.acc[1] \in {"~", "@"}
      BY <1>5, <2>2 DEF WordEnd
    <3>2. Made(L, "token") /\ tok'.kind = lex.acc[1]
      BY <1>2, <1>3, <3>1, Returns
    <3> QED BY <1>1, <1>2, <2>1, <3>1, <3>2, InnerStep DEF Goes
  <2>3. CASE lex.acc \notin {<<"~">>, <<"@">>} /\ Len(lex.acc) = 1 /\ c = "{"
    <3>1. Return("CALL", "key")
      BY <1>5, <2>3 DEF WordEnd
    <3>2. Made(L, "token") /\ tok'.kind = "CALL"
      BY <1>2, <1>3, <3>1, Returns
    <3> QED BY <1>1, <1>2, <2>1, <3>2, InnerStep DEF Goes
  <2> DEFINE k1 == lex.acc = <<"~", "~">>
             k2 == lex.acc = <<"l", "o", "c", "a", "l">>
  <2>0. CASE lex.acc \notin {<<"~">>, <<"@">>} /\ ~(Len(lex.acc) = 1 /\ c = "{") /\ (k1 \/ k2)
    <3>1. PICK k \in {"EXTRACT", "LOCAL"} : Return(k, "key")
      BY <1>5, <2>0 DEF WordEnd
    <3>2. Made(L, "token") /\ tok'.kind = k
      BY <1>2, <1>3, <3>1, Returns
    <3> QED BY <1>1, <1>2, <2>1, <3>2, InnerStep DEF Goes
  <2>4. CASE lex.acc \notin {<<"~">>, <<"@">>} /\ ~(Len(lex.acc) = 1 /\ c = "{") /\ ~(k1 \/ k2)
    <3>1. Token("WORD", lex.acc, "real")
      BY <1>5, <2>4 DEF WordEnd
    <3>2. Made(L, "token") /\ tok'.kind = "WORD"
      BY <1>2, <1>3, <3>1, Tokens
    <3> QED BY <1>1, <1>2, <2>1, <3>2, InnerStep DEF Goes
  <2> QED BY <2>0, <2>2, <2>3, <2>4
<1> QED BY <1>4, <1>5

LEMMA SpecialSteps ==
    ASSUME NEW L, Lexing(L), TopSpecial
    PROVE  LexStep(L)
<1>1. Ready /\ pc = "top" /\ pc \in Scanning
  BY DEF TopSpecial, At, Scanning
<1>2. /\ AtHand(in) /\ Typed(L) /\ ~lex.goterror /\ Shaped(in)
      /\ lex.w \in Lefts /\ <<>> \in Seq(L) /\ lex \in LexType(L)
  BY <1>1, LexingIs
<1>3. /\ {"!", "SUB", "(", ";", "^", ")", "=", "{", "}", "~", "@", "OTHER"} \subseteq Kinds /\ {"key", "real", "non"} \subseteq Lefts
      /\ {"backquote", "dollar", "quote", "slash", "comment", "amp", "pipe", "less", "greater"} \subseteq Scanning
  BY KindsAre DEF Scanning
<1> HIDE DEF c
<1> DEFINE Done == Get /\ \/ c # "\\" /\ Made(L, "token") /\ tok'.kind # "NL"
                          \/ c # "\\" /\ \E p \in Inner : Made(L, p)
                          \/ c = "\\" /\ Made(L, "slash") /\ lex'.w = lex.w
<1>4. ASSUME Done PROVE LexStep(L)
  <2>1. CASE c # "\\" /\ Made(L, "token") /\ tok'.kind # "NL"
    BY <1>1, <1>2, <1>4, <2>1 DEF LexStep, Made
  <2>2. CASE c # "\\" /\ \E p \in Inner : Made(L, p)
    <3>1. PICK p \in Inner : Made(L, p)
      BY <2>2
    <3>2. pc' = p /\ p \in Scanning /\ p \notin {"top", "slash", "esc", "token"}
      BY <3>1 DEF Made, Inner, Scanning
    <3> QED BY <1>1, <1>2, <1>4, <2>2, <3>1, <3>2 DEF LexStep, Made
  <2>3. CASE c = "\\" /\ Made(L, "slash") /\ lex'.w = lex.w
    BY <1>1, <1>2, <1>3, <1>4, <2>3 DEF LexStep, Made
  <2> QED BY <1>4, <2>1, <2>2, <2>3
<1>5. {"backquote", "dollar", "quote", "comment", "amp", "pipe", "less", "greater"} \subseteq Inner
  BY Places
<1>6. CASE c = "!" /\ Get /\ Return("!", "key")
  BY <1>2, <1>3, <1>4, <1>6, Returns
<1>7. CASE c = "bq" /\ Get /\ Scan("backquote", <<>>, lex.w)
  <2>1. Made(L, "backquote")
    BY <1>2, <1>7, Scans
  <2> QED BY <1>4, <1>5, <1>7, <2>1
<1>8. CASE c = "$" /\ Get /\ lex' = [lex EXCEPT !.dollar = TRUE] /\ Goto("dollar")
  <2>1. lex' \in LexType(L) /\ lex'.goterror = lex.goterror
    BY <1>2, <1>8 DEF LexType
  <2>2. Made(L, "dollar")
    BY <1>2, <1>8, <2>1 DEF Made, Goto, ShellStays, Typed, ParKept
  <2> QED BY <1>4, <1>5, <1>8, <2>2
<1>9. CASE c = "'" /\ Get /\ Scan("quote", <<>>, "real")
  <2>1. Made(L, "quote")
    BY <1>2, <1>3, <1>9, Scans
  <2> QED BY <1>4, <1>5, <1>9, <2>1
<1>10. CASE c = "\\" /\ Get /\ Scan("slash", <<>>, lex.w)
  <2>1. Made(L, "slash") /\ lex'.w = lex.w
    BY <1>2, <1>10, Scans
  <2> QED BY <1>4, <1>10, <2>1
<1>11. CASE c = "#" /\ Get /\ Scan("comment", <<>>, lex.w)
  <2>1. Made(L, "comment")
    BY <1>2, <1>11, Scans
  <2> QED BY <1>4, <1>5, <1>11, <2>1
<1>12. CASE c = "(" /\ Get /\ Return(IF lex.w = "real" THEN "SUB" ELSE "(", "non")
  <2>1. CASE lex.w = "real"
    <3>1. Return("SUB", "non")
      BY <1>12, <2>1
    <3>2. Made(L, "token") /\ tok'.kind = "SUB"
      BY <1>2, <1>3, <3>1, Returns
    <3> QED BY <1>4, <1>12, <3>2
  <2>2. CASE lex.w # "real"
    <3>1. Return("(", "non")
      BY <1>12, <2>2
    <3>2. Made(L, "token") /\ tok'.kind = "("
      BY <1>2, <1>3, <3>1, Returns
    <3> QED BY <1>4, <1>12, <3>2
  <2> QED BY <2>1, <2>2
<1>13. CASE c \in {";", "^", ")", "=", "{", "}"} /\ Get /\ Return(c, "non")
  <2>1. Made(L, "token") /\ tok'.kind = c /\ c \notin {"\\", "NL"}
    BY <1>2, <1>3, <1>13, Returns
  <2> QED BY <1>4, <1>13, <2>1
<1>14. CASE c = "&" /\ Get /\ Scan("amp", <<>>, "non")
  <2>1. Made(L, "amp")
    BY <1>2, <1>3, <1>14, Scans
  <2> QED BY <1>4, <1>5, <1>14, <2>1
<1>15. CASE c = "|" /\ Get /\ Scan("pipe", <<>>, "non")
  <2>1. Made(L, "pipe")
    BY <1>2, <1>3, <1>15, Scans
  <2> QED BY <1>4, <1>5, <1>15, <2>1
<1>16. CASE c = "<" /\ Get /\ Scan("less", <<>>, lex.w)
  <2>1. Made(L, "less")
    BY <1>2, <1>16, Scans
  <2> QED BY <1>4, <1>5, <1>16, <2>1
<1>17. CASE c = ">" /\ Get /\ Scan("greater", <<>>, lex.w)
  <2>1. Made(L, "greater")
    BY <1>2, <1>17, Scans
  <2> QED BY <1>4, <1>5, <1>17, <2>1
<1>18. CASE c \notin non_word /\ Get /\ Return(IF c \in {"~", "@"} THEN c ELSE "OTHER", "non")
  <2>1. PICK k \in {"~", "@", "OTHER"} : Return(k, "non")
    BY <1>18
  <2>2. Made(L, "token") /\ tok'.kind = k
    BY <1>2, <1>3, <2>1, Returns
  <2>3. c # "\\"
    BY <1>18 DEF non_word
  <2> QED BY <1>4, <1>18, <2>2, <2>3
<1> QED BY <1>6, <1>7, <1>8, <1>9, <1>10, <1>11, <1>12, <1>13, <1>14, <1>15, <1>16, <1>17, <1>18 DEF TopSpecial

LEMMA CommentSteps ==
    ASSUME NEW L, Lexing(L), Comment
    PROVE  LexStep(L)
<1>1. Ready /\ pc = "comment" /\ pc \in Scanning \ {"top", "slash"}
  BY DEF Comment, At, Scanning
<1>2. /\ AtHand(in) /\ Typed(L) /\ ~lex.goterror /\ Shaped(in) /\ lex.w \in Lefts /\ <<>> \in Seq(L)
  BY <1>1, LexingIs
<1>3. {"comment", "scanerror"} \subseteq Inner /\ "ENDFILE" \in Kinds
  BY Places, KindsAre
<1> HIDE DEF c
<1>4. CASE c \notin {"\n", "eof", "nul"} /\ Get /\ Scan("comment", <<>>, lex.w)
  <2>1. Made(L, "comment")
    BY <1>2, <1>4, Scans
  <2> QED BY <1>1, <1>2, <1>3, <1>4, <2>1, InnerStep DEF Goes
<1>5. CASE c = "\n" /\ Get /\ LineEnd
  <2>1. Made(L, "token")
    BY <1>2, <1>5, LineEnds
  <2> QED BY <1>1, <1>2, <1>5, <2>1 DEF LexStep, Made
<1>6. CASE c = "eof" /\ Get /\ Return("ENDFILE", lex.w)
  <2>1. Made(L, "token") /\ tok'.kind = "ENDFILE"
    BY <1>2, <1>3, <1>6, Returns
  <2> QED BY <1>1, <1>2, <1>6, <2>1, InnerStep DEF Goes
<1>7. CASE CtrlC
  <2>1. Made(L, "scanerror") /\ Get
    BY <1>2, <1>7, CtrlCs
  <2> QED BY <1>1, <1>2, <1>3, <2>1, InnerStep DEF Goes
<1> QED BY <1>4, <1>5, <1>6, <1>7 DEF Comment

LEMMA BackquoteSteps ==
    ASSUME NEW L, Lexing(L), Backquote
    PROVE  LexStep(L)
<1>1. Ready /\ pc = "backquote" /\ pc \in Scanning \ {"top", "slash"}
  BY DEF Backquote, At, Scanning, Two
<1>2. /\ AtHand(in) /\ Typed(L) /\ ~lex.goterror /\ Shaped(in) /\ lex.w \in Lefts /\ <<>> \in Seq(L)
      /\ c \in Char /\ (c # "eof" => c \in L) /\ lex.acc \in Seq(L) /\ lex \in LexType(L)
      /\ {"a", "c", "n", "x", "1", "0", "'", "\\", "soh", "bel", "\n", "\t", "var"} \subseteq L
  BY <1>1, LexingIs
<1>3. /\ Kinds = {"NL", "ENDFILE", "ERROR", "^", "~", "@", "CALL", "WORD", "QWORD", "!", "SUB", "(",
                  ";", ")", "=", "{", "}", "BACKBACK", "bq", "ANDAND", "&", "COUNT", "FLAT", "PRIM",
                  "$", "OROR", "PIPE", "DUP", "HEREDOC", "REDIR", "EXTRACT", "LOCAL", "OTHER"}
      /\ Lefts = {"non", "real", "key"}
  BY KindsAre
<1> HIDE DEF c
<1>4. CASE c = "bq" /\ Get /\ Return("BACKBACK", lex.w)
  <2>1. Made(L, "token") /\ tok'.kind = "BACKBACK"
    BY <1>2, <1>3, <1>4, Returns
  <2> QED BY <1>1, <1>2, <1>4, <2>1, InnerStep DEF Goes
<1>5. CASE c # "bq" /\ Look /\ Return("bq", lex.w)
  <2>1. Made(L, "token") /\ tok'.kind = "bq"
    BY <1>2, <1>3, <1>5, Returns
  <2> QED BY <1>1, <1>2, <1>5, <2>1, InnerStep DEF Goes
<1> QED BY <1>4, <1>5 DEF Backquote, Two

LEMMA AmpersandSteps ==
    ASSUME NEW L, Lexing(L), Ampersand
    PROVE  LexStep(L)
<1>1. Ready /\ pc = "amp" /\ pc \in Scanning \ {"top", "slash"}
  BY DEF Ampersand, At, Scanning, Two
<1>2. /\ AtHand(in) /\ Typed(L) /\ ~lex.goterror /\ Shaped(in) /\ lex.w \in Lefts /\ <<>> \in Seq(L)
      /\ c \in Char /\ (c # "eof" => c \in L) /\ lex.acc \in Seq(L) /\ lex \in LexType(L)
      /\ {"a", "c", "n", "x", "1", "0", "'", "\\", "soh", "bel", "\n", "\t", "var"} \subseteq L
  BY <1>1, LexingIs
<1>3. /\ Kinds = {"NL", "ENDFILE", "ERROR", "^", "~", "@", "CALL", "WORD", "QWORD", "!", "SUB", "(",
                  ";", ")", "=", "{", "}", "BACKBACK", "bq", "ANDAND", "&", "COUNT", "FLAT", "PRIM",
                  "$", "OROR", "PIPE", "DUP", "HEREDOC", "REDIR", "EXTRACT", "LOCAL", "OTHER"}
      /\ Lefts = {"non", "real", "key"}
  BY KindsAre
<1> HIDE DEF c
<1>4. CASE c = "&" /\ Get /\ Return("ANDAND", "non")
  <2>1. Made(L, "token") /\ tok'.kind = "ANDAND"
    BY <1>2, <1>3, <1>4, Returns
  <2> QED BY <1>1, <1>2, <1>4, <2>1, InnerStep DEF Goes
<1>5. CASE c # "&" /\ Look /\ Return("&", "non")
  <2>1. Made(L, "token") /\ tok'.kind = "&"
    BY <1>2, <1>3, <1>5, Returns
  <2> QED BY <1>1, <1>2, <1>5, <2>1, InnerStep DEF Goes
<1> QED BY <1>4, <1>5 DEF Ampersand, Two

LEMMA DollarSteps ==
    ASSUME NEW L, Lexing(L), Dollar
    PROVE  LexStep(L)
<1>1. Ready /\ pc = "dollar" /\ pc \in Scanning \ {"top", "slash"}
  BY DEF Dollar, At, Scanning
<1>2. /\ AtHand(in) /\ Typed(L) /\ ~lex.goterror /\ Shaped(in) /\ lex.w \in Lefts /\ <<>> \in Seq(L)
      /\ c \in Char /\ (c # "eof" => c \in L) /\ lex.acc \in Seq(L) /\ lex \in LexType(L)
      /\ {"a", "c", "n", "x", "1", "0", "'", "\\", "soh", "bel", "\n", "\t", "var"} \subseteq L
  BY <1>1, LexingIs
<1>3. /\ Kinds = {"NL", "ENDFILE", "ERROR", "^", "~", "@", "CALL", "WORD", "QWORD", "!", "SUB", "(",
                  ";", ")", "=", "{", "}", "BACKBACK", "bq", "ANDAND", "&", "COUNT", "FLAT", "PRIM",
                  "$", "OROR", "PIPE", "DUP", "HEREDOC", "REDIR", "EXTRACT", "LOCAL", "OTHER"}
      /\ Lefts = {"non", "real", "key"}
  BY KindsAre
<1> HIDE DEF c
<1>4. CASE c = "#" /\ Get /\ Return("COUNT", lex.w)
  <2>1. Made(L, "token") /\ tok'.kind = "COUNT"
    BY <1>2, <1>3, <1>4, Returns
  <2> QED BY <1>1, <1>2, <1>4, <2>1, InnerStep DEF Goes
<1>5. CASE c = "^" /\ Get /\ Return("FLAT", lex.w)
  <2>1. Made(L, "token") /\ tok'.kind = "FLAT"
    BY <1>2, <1>3, <1>5, Returns
  <2> QED BY <1>1, <1>2, <1>5, <2>1, InnerStep DEF Goes
<1>6. CASE c = "&" /\ Get /\ Return("PRIM", lex.w)
  <2>1. Made(L, "token") /\ tok'.kind = "PRIM"
    BY <1>2, <1>3, <1>6, Returns
  <2> QED BY <1>1, <1>2, <1>6, <2>1, InnerStep DEF Goes
<1>7. CASE c \notin {"#", "^", "&"} /\ Look /\ Return("$", lex.w)
  <2>1. Made(L, "token") /\ tok'.kind = "$"
    BY <1>2, <1>3, <1>7, Returns
  <2> QED BY <1>1, <1>2, <1>7, <2>1, InnerStep DEF Goes
<1> QED BY <1>4, <1>5, <1>6, <1>7 DEF Dollar

LEMMA QuoteSteps ==
    ASSUME NEW L, Lexing(L), Quote
    PROVE  LexStep(L)
<1>1. Ready /\ pc = "quote" /\ pc \in Scanning \ {"top", "slash"}
  BY DEF Quote, At, Scanning
<1>2. /\ AtHand(in) /\ Typed(L) /\ ~lex.goterror /\ Shaped(in) /\ lex.w \in Lefts /\ <<>> \in Seq(L)
      /\ c \in Char /\ (c # "eof" => c \in L) /\ lex.acc \in Seq(L) /\ lex \in LexType(L)
      /\ {"a", "c", "n", "x", "1", "0", "'", "\\", "soh", "bel", "\n", "\t", "var"} \subseteq L
  BY <1>1, LexingIs
<1>3. /\ Kinds = {"NL", "ENDFILE", "ERROR", "^", "~", "@", "CALL", "WORD", "QWORD", "!", "SUB", "(",
                  ";", ")", "=", "{", "}", "BACKBACK", "bq", "ANDAND", "&", "COUNT", "FLAT", "PRIM",
                  "$", "OROR", "PIPE", "DUP", "HEREDOC", "REDIR", "EXTRACT", "LOCAL", "OTHER"}
      /\ Lefts = {"non", "real", "key"}
  BY KindsAre
<1> HIDE DEF c
<1>4. CASE c = "'" /\ Get /\ Scan("quote2", lex.acc, lex.w)
  <2>1. Made(L, "quote2")
    BY <1>2, <1>3, <1>4, Scans
  <2> QED BY <1>1, <1>2, <1>4, <2>1, Places, InnerStep DEF Goes
<1>5. CASE c = "\\" /\ Get /\ Scan("slash2", lex.acc, lex.w)
  <2>1. Made(L, "slash2")
    BY <1>2, <1>3, <1>5, Scans
  <2> QED BY <1>1, <1>2, <1>5, <2>1, Places, InnerStep DEF Goes
<1>6. CASE CtrlC
  <2>1. Made(L, "scanerror") /\ Get
    BY <1>2, <1>6, CtrlCs
  <2> QED BY <1>1, <1>2, <2>1, Places, InnerStep DEF Goes
<1>7. CASE c = "eof" /\ Get /\ Scanerror("non")
  <2>1. Made(L, "scanerror")
    BY <1>2, <1>3, <1>7, Scanerrors
  <2> QED BY <1>1, <1>2, <1>7, <2>1, Places, InnerStep DEF Goes
<1>8. CASE /\ c \notin {"'", "\\", "nul", "eof"} /\ Get
           /\ lex' = [lex EXCEPT !.acc = Append(@, c)]
           /\ IF c = "\n" THEN print_prompt2 ELSE UNCHANGED par
           /\ UNCHANGED <<pc, tok, src>>
  <2>1. Append(lex.acc, c) \in Seq(L)
    BY <1>2, <1>8, AppendL
  <2>2. lex' \in LexType(L) /\ lex'.goterror = lex.goterror
    BY <1>2, <1>8, <2>1 DEF LexType
  <2>3. par' \in ParType(L) /\ ParKept
    <3>1. par \in ParType(L)
      BY <1>2 DEF Typed
    <3>2. CASE c = "\n"
      <4>1. par' = [par EXCEPT !.lineno = @ + 1, !.prompt2 = TRUE]
        BY <1>8, <3>2 DEF print_prompt2
      <4> QED BY <3>1, <4>1, ParLine DEF ParKept
    <3>3. CASE c # "\n"
      BY <1>8, <3>1, <3>3 DEF ParKept
    <3> QED BY <3>2, <3>3
  <2>4. Made(L, "quote")
    <3> HIDE DEF print_prompt2
    <3>0. UNCHANGED <<pc, tok, src>> /\ pc = "quote"
      BY <1>1, <1>8
    <3>1. tok' = tok /\ src' = src /\ pc' = "quote"
      BY <3>0
    <3>2. tok \in TokType(L)
      BY <1>2 DEF Typed
    <3> QED BY <2>2, <2>3, <3>1, <3>2 DEF Made, Typed
  <2> QED BY <1>1, <1>2, <1>8, <2>4, Places, InnerStep DEF Goes
<1> QED BY <1>4, <1>5, <1>6, <1>7, <1>8 DEF Quote

LEMMA QuoteQuoteSteps ==
    ASSUME NEW L, Lexing(L), QuoteQuote
    PROVE  LexStep(L)
<1>1. Ready /\ pc = "quote2" /\ pc \in Scanning \ {"top", "slash"}
  BY DEF QuoteQuote, At, Scanning
<1>2. /\ AtHand(in) /\ Typed(L) /\ ~lex.goterror /\ Shaped(in) /\ lex.w \in Lefts /\ <<>> \in Seq(L)
      /\ c \in Char /\ (c # "eof" => c \in L) /\ lex.acc \in Seq(L) /\ lex \in LexType(L)
      /\ {"a", "c", "n", "x", "1", "0", "'", "\\", "soh", "bel", "\n", "\t", "var"} \subseteq L
  BY <1>1, LexingIs
<1>3. /\ Kinds = {"NL", "ENDFILE", "ERROR", "^", "~", "@", "CALL", "WORD", "QWORD", "!", "SUB", "(",
                  ";", ")", "=", "{", "}", "BACKBACK", "bq", "ANDAND", "&", "COUNT", "FLAT", "PRIM",
                  "$", "OROR", "PIPE", "DUP", "HEREDOC", "REDIR", "EXTRACT", "LOCAL", "OTHER"}
      /\ Lefts = {"non", "real", "key"}
  BY KindsAre
<1> HIDE DEF c
<1>4. CASE c = "'" /\ Get /\ Scan("quote", Append(lex.acc, "'"), lex.w)
  <2>1. Append(lex.acc, "'") \in Seq(L)
    BY <1>2, AppendL
  <2>2. Made(L, "quote")
    BY <1>2, <1>4, <2>1, Scans
  <2> QED BY <1>1, <1>2, <1>4, <2>2, Places, InnerStep DEF Goes
<1>5. CASE c # "'" /\ Look /\ Token("QWORD", lex.acc, lex.w)
  <2>1. Made(L, "token") /\ tok'.kind = "QWORD"
    BY <1>2, <1>3, <1>5, Tokens, ZenonT(60)
  <2> QED BY <1>1, <1>2, <1>5, <2>1, InnerStep DEF Goes
<1> QED BY <1>4, <1>5 DEF QuoteQuote

LEMMA QuoteSlashSteps ==
    ASSUME NEW L, Lexing(L), QuoteSlash
    PROVE  LexStep(L)
<1>1. Ready /\ pc = "slash2" /\ pc \in Scanning \ {"top", "slash"}
  BY DEF QuoteSlash, At, Scanning
<1>2. /\ AtHand(in) /\ Typed(L) /\ ~lex.goterror /\ Shaped(in) /\ lex.w \in Lefts /\ <<>> \in Seq(L)
      /\ c \in Char /\ (c # "eof" => c \in L) /\ lex.acc \in Seq(L) /\ lex \in LexType(L)
      /\ {"a", "c", "n", "x", "1", "0", "'", "\\", "soh", "bel", "\n", "\t", "var"} \subseteq L
  BY <1>1, LexingIs
<1>3. /\ Kinds = {"NL", "ENDFILE", "ERROR", "^", "~", "@", "CALL", "WORD", "QWORD", "!", "SUB", "(",
                  ";", ")", "=", "{", "}", "BACKBACK", "bq", "ANDAND", "&", "COUNT", "FLAT", "PRIM",
                  "$", "OROR", "PIPE", "DUP", "HEREDOC", "REDIR", "EXTRACT", "LOCAL", "OTHER"}
      /\ Lefts = {"non", "real", "key"}
  BY KindsAre
<1> HIDE DEF c
<1>4. CASE c = "\n" /\ Get /\ print_prompt2 /\ pc' = "quote" /\ UNCHANGED <<lex, tok, src>>
  <2>1. par' \in ParType(L) /\ ParKept
    BY <1>2, <1>4, ParLine DEF Typed, ParKept, print_prompt2
  <2>2. Made(L, "quote")
    BY <1>2, <1>4, <2>1 DEF Made, Typed
  <2> QED BY <1>1, <1>2, <1>4, <2>2, Places, InnerStep DEF Goes
<1>5. CASE c = "'" /\ Get /\ Scan("quote", Append(lex.acc, "'"), lex.w)
  <2>1. Append(lex.acc, "'") \in Seq(L)
    BY <1>2, AppendL
  <2>2. Made(L, "quote")
    BY <1>2, <1>5, <2>1, Scans
  <2> QED BY <1>1, <1>2, <1>5, <2>2, Places, InnerStep DEF Goes
<1>6. CASE c \notin {"\n", "'"} /\ Look /\ Scan("quote", Append(lex.acc, "\\"), lex.w)
  <2>1. Append(lex.acc, "\\") \in Seq(L)
    BY <1>2, AppendL
  <2>2. Made(L, "quote")
    BY <1>2, <1>6, <2>1, Scans
  <2> QED BY <1>1, <1>2, <1>6, <2>2, Places, InnerStep DEF Goes
<1> QED BY <1>4, <1>5, <1>6 DEF QuoteSlash

LEMMA EscSteps ==
    ASSUME NEW L, Lexing(L), Esc, c \in L
    PROVE  LexStep(L)
<1>1. Ready /\ pc = "esc" /\ pc \in Scanning \ {"top", "slash"}
  BY DEF Esc, At, Scanning
<1>2. /\ AtHand(in) /\ Typed(L) /\ ~lex.goterror /\ Shaped(in) /\ lex.w \in Lefts /\ <<>> \in Seq(L)
      /\ c \in Char /\ (c # "eof" => c \in L) /\ lex.acc \in Seq(L) /\ lex \in LexType(L)
      /\ {"a", "c", "n", "x", "1", "0", "'", "\\", "soh", "bel", "\n", "\t", "var"} \subseteq L
  BY <1>1, LexingIs
<1>3. /\ Kinds = {"NL", "ENDFILE", "ERROR", "^", "~", "@", "CALL", "WORD", "QWORD", "!", "SUB", "(",
                  ";", ")", "=", "{", "}", "BACKBACK", "bq", "ANDAND", "&", "COUNT", "FLAT", "PRIM",
                  "$", "OROR", "PIPE", "DUP", "HEREDOC", "REDIR", "EXTRACT", "LOCAL", "OTHER"}
      /\ Lefts = {"non", "real", "key"}
  BY KindsAre
<1> HIDE DEF c
<1>4. CASE CtrlC
  <2>1. Made(L, "scanerror") /\ Get
    BY <1>2, <1>4, CtrlCs
  <2> QED BY <1>1, <1>2, <2>1, Places, InnerStep DEF Goes
<1>5. CASE c \in DOMAIN Letter /\ Get /\ Token("QWORD", <<Letter[c]>>, lex.w)
  <2>1. Letter[c] \in {"bel", "\n", "\t"}
    BY <1>5 DEF Letter
  <2>2. <<Letter[c]>> \in Seq(L)
    BY <1>2, <2>1, AppendL
  <2>3. Made(L, "token") /\ tok'.kind = "QWORD"
    BY <1>2, <1>3, <1>5, <2>2, Tokens, ZenonT(60)
  <2> QED BY <1>1, <1>2, <1>5, <2>3, InnerStep DEF Goes
<1>6. CASE c = "x" /\ Get /\ Scan("coded", <<"x">>, lex.w)
  <2>1. <<"x">> \in Seq(L)
    BY <1>2, AppendL
  <2>2. Made(L, "coded")
    BY <1>2, <1>6, <2>1, Scans
  <2> QED BY <1>1, <1>2, <1>6, <2>2, Places, InnerStep DEF Goes
<1>7. CASE c \in odigit /\ Get /\ Scan("coded", <<"0", c>>, lex.w)
  <2>1. <<"0", c>> \in Seq(L)
    <3>1. "0" \in L /\ c \in L
      BY <1>2
    <3> QED BY <3>1
  <2>2. Made(L, "coded")
    BY <1>2, <1>7, <2>1, Scans
  <2> QED BY <1>1, <1>2, <1>7, <2>2, Places, InnerStep DEF Goes
<1>8. CASE c \in alnum \ ({"x"} \cup odigit \cup DOMAIN Letter) /\ Get /\ Scanerror(lex.w)
  <2>1. Made(L, "scanerror")
    BY <1>2, <1>3, <1>8, Scanerrors
  <2> QED BY <1>1, <1>2, <1>8, <2>1, Places, InnerStep DEF Goes
<1>9. CASE c \notin alnum \cup {"nul"} /\ Get /\ Token("QWORD", <<c>>, lex.w)
  <2>1. <<c>> \in Seq(L)
    BY AppendL
  <2>2. Made(L, "token") /\ tok'.kind = "QWORD"
    BY <1>2, <1>3, <1>9, <2>1, Tokens, ZenonT(60)
  <2> QED BY <1>1, <1>2, <1>9, <2>2, InnerStep DEF Goes
<1> QED BY <1>4, <1>5, <1>6, <1>7, <1>8, <1>9 DEF Esc

LEMMA CodingSteps ==
    ASSUME NEW L, Lexing(L), Coding
    PROVE  LexStep(L)
<1>1. Ready /\ pc = "coded" /\ pc \in Scanning \ {"top", "slash"}
  BY DEF Coding, At, Scanning
<1>2. /\ AtHand(in) /\ Typed(L) /\ ~lex.goterror /\ Shaped(in) /\ lex.w \in Lefts /\ <<>> \in Seq(L)
      /\ c \in Char /\ (c # "eof" => c \in L) /\ lex.acc \in Seq(L) /\ lex \in LexType(L)
      /\ {"a", "c", "n", "x", "1", "0", "'", "\\", "soh", "bel", "\n", "\t", "var"} \subseteq L
  BY <1>1, LexingIs
<1>3. /\ Kinds = {"NL", "ENDFILE", "ERROR", "^", "~", "@", "CALL", "WORD", "QWORD", "!", "SUB", "(",
                  ";", ")", "=", "{", "}", "BACKBACK", "bq", "ANDAND", "&", "COUNT", "FLAT", "PRIM",
                  "$", "OROR", "PIPE", "DUP", "HEREDOC", "REDIR", "EXTRACT", "LOCAL", "OTHER"}
      /\ Lefts = {"non", "real", "key"}
  BY KindsAre
<1> HIDE DEF c
<1> DEFINE base == IF Zero(lex.acc) THEN <<Radix(lex.acc)>> ELSE lex.acc
           more == Append(base, c)
<1>4. CASE CodedMore /\ Get /\ Scan("coded", more, lex.w)
  <2>1. c \in L
    BY <1>2, <1>4 DEF CodedMore, xdigit, odigit, digit
  <2>2. more \in Seq(L)
    <3>1. Radix(lex.acc) \in L
      BY <1>2 DEF Radix
    <3>2. base \in Seq(L)
      BY <1>2, <3>1
    <3> QED BY <2>1, <3>2, AppendL
  <2> HIDE DEF more
  <2>3. Made(L, "coded")
    BY <1>2, <1>4, <2>2, Scans
  <2> QED BY <1>1, <1>2, <1>4, <2>3, Places, InnerStep DEF Goes
<1>5. CASE ~CodedMore /\ Zero(lex.acc) /\ Get /\ Scanerror(lex.w)
  <2>1. Made(L, "scanerror")
    BY <1>2, <1>3, <1>5, Scanerrors
  <2> QED BY <1>1, <1>2, <1>5, <2>1, Places, InnerStep DEF Goes
<1>6. CASE ~CodedMore /\ ~Zero(lex.acc) /\ Look /\ Token("QWORD", <<Coded(lex.acc)>>, lex.w)
  <2>1. Coded(lex.acc) \in {"soh", "\t", "a"}
    BY DEF Coded
  <2>2. <<Coded(lex.acc)>> \in Seq(L)
    BY <1>2, <2>1, AppendL
  <2>3. Made(L, "token") /\ tok'.kind = "QWORD"
    <3> DEFINE s == <<Coded(lex.acc)>>
    <3>1. s \in Seq(L) /\ Token("QWORD", s, lex.w)
      BY <1>6, <2>2
    <3> HIDE DEF s
    <3> QED BY <1>2, <1>3, <3>1, Tokens, ZenonT(60)
  <2> QED BY <1>1, <1>2, <1>6, <2>3, InnerStep DEF Goes
<1> QED BY <1>4, <1>5, <1>6 DEF Coding

LEMMA Redirects ==
    ASSUME NEW L, Typed(L), NEW cmd \in Commands, Redirect(cmd)
    PROVE  Made(L, "fds")
<1>1. lex' = [lex EXCEPT !.cmd = cmd, !.w = "non"] /\ pc' = "fds" /\ UNCHANGED <<tok, par, src>>
  BY DEF Redirect, Goto, ShellStays
<1>2. lex' \in LexType(L) /\ lex'.goterror = lex.goterror
  BY <1>1 DEF Typed, LexType
<1> QED BY <1>1, <1>2 DEF Made, Typed, ParKept

LEMMA Redirecteds ==
    ASSUME NEW L, Typed(L), NEW fd1, Redirected(fd1)
    PROVE  Made(L, "token") /\ tok'.kind # "NL"
<1>1. {"PIPE", "DUP", "HEREDOC", "REDIR"} \subseteq Kinds /\ "non" \in Lefts /\ <<>> \in Seq(L)
  BY KindsAre DEF Kinds, Lefts
<1>2. CASE lex.cmd = "|"
  <2>1. Return("PIPE", "non")
    BY <1>2 DEF Redirected
  <2>2. Made(L, "token") /\ tok'.kind = "PIPE"
    BY <1>1, <2>1, Returns
  <2> QED BY <2>2
<1>3. CASE lex.cmd # "|" /\ fd1
  <2>1. Return("DUP", "non")
    BY <1>3 DEF Redirected
  <2>2. Made(L, "token") /\ tok'.kind = "DUP"
    BY <1>1, <2>1, Returns
  <2> QED BY <2>2
<1>4. CASE lex.cmd # "|" /\ ~fd1
  <2> DEFINE kind == IF lex.cmd = "%heredoc" THEN "HEREDOC" ELSE "REDIR"
  <2>1. Token(kind, <<>>, "non") /\ kind \in {"HEREDOC", "REDIR"}
    BY <1>4 DEF Redirected
  <2> HIDE DEF kind
  <2>2. Made(L, "token") /\ tok'.kind = kind
    BY <1>1, <2>1, Tokens
  <2> QED BY <2>1, <2>2
<1> QED BY <1>2, <1>3, <1>4

LEMMA CommandsAre ==
    {"|", "%open", "%open-append", "%open-write", "%here", "%heredoc", "%open-create", "%create",
     "%append"} \subseteq Commands
BY DEF Commands

LEMMA PipeSteps ==
    ASSUME NEW L, Lexing(L), Pipe
    PROVE  LexStep(L)
<1>1. Ready /\ pc = "pipe" /\ pc \in Scanning \ {"top", "slash"}
  BY DEF Pipe, At, Scanning
<1>2. /\ AtHand(in) /\ Typed(L) /\ ~lex.goterror /\ Shaped(in) /\ lex.w \in Lefts /\ <<>> \in Seq(L)
      /\ c \in Char /\ (c # "eof" => c \in L) /\ lex.acc \in Seq(L) /\ lex \in LexType(L)
      /\ {"a", "c", "n", "x", "1", "0", "'", "\\", "soh", "bel", "\n", "\t", "var"} \subseteq L
  BY <1>1, LexingIs
<1>3. /\ Kinds = {"NL", "ENDFILE", "ERROR", "^", "~", "@", "CALL", "WORD", "QWORD", "!", "SUB", "(",
                  ";", ")", "=", "{", "}", "BACKBACK", "bq", "ANDAND", "&", "COUNT", "FLAT", "PRIM",
                  "$", "OROR", "PIPE", "DUP", "HEREDOC", "REDIR", "EXTRACT", "LOCAL", "OTHER"}
      /\ Lefts = {"non", "real", "key"}
  BY KindsAre DEF Kinds, Lefts
<1> HIDE DEF c
<1>4. CASE c = "|" /\ Get /\ Return("OROR", "non")
  <2>1. Made(L, "token") /\ tok'.kind = "OROR"
    BY <1>2, <1>3, <1>4, Returns
  <2> QED BY <1>1, <1>2, <1>4, <2>1, InnerStep DEF Goes
<1>5. CASE c # "|" /\ UNCHANGED <<in, stream>> /\ Redirect("|")
  <2>1. Made(L, "fds")
    BY <1>2, <1>5, Redirects, CommandsAre
  <2> QED BY <1>1, <1>2, <1>5, <2>1, Places, InnerStep DEF Goes
<1> QED BY <1>4, <1>5 DEF Pipe

LEMMA LessSteps ==
    ASSUME NEW L, Lexing(L), Less, pc = "less"
    PROVE  LexStep(L)
<1>1. Ready /\ pc = "less" /\ pc \in Scanning \ {"top", "slash"}
  BY DEF Less, At, Scanning
<1>2. /\ AtHand(in) /\ Typed(L) /\ ~lex.goterror /\ Shaped(in) /\ lex.w \in Lefts /\ <<>> \in Seq(L)
      /\ c \in Char /\ (c # "eof" => c \in L) /\ lex.acc \in Seq(L) /\ lex \in LexType(L)
      /\ {"a", "c", "n", "x", "1", "0", "'", "\\", "soh", "bel", "\n", "\t", "var"} \subseteq L
  BY <1>1, LexingIs
<1>3. /\ Kinds = {"NL", "ENDFILE", "ERROR", "^", "~", "@", "CALL", "WORD", "QWORD", "!", "SUB", "(",
                  ";", ")", "=", "{", "}", "BACKBACK", "bq", "ANDAND", "&", "COUNT", "FLAT", "PRIM",
                  "$", "OROR", "PIPE", "DUP", "HEREDOC", "REDIR", "EXTRACT", "LOCAL", "OTHER"}
      /\ Lefts = {"non", "real", "key"}
  BY KindsAre DEF Kinds, Lefts
<1> HIDE DEF c
<1>4. CASE c = ">" /\ Get /\ Scan("lessgreat", <<>>, lex.w)
  <2>1. Made(L, "lessgreat")
    BY <1>2, <1>3, <1>4, Scans
  <2> QED BY <1>1, <1>2, <1>4, <2>1, Places, InnerStep DEF Goes
<1>5. CASE c = "<" /\ Get /\ Scan("lessless", <<>>, lex.w)
  <2>1. Made(L, "lessless")
    BY <1>2, <1>3, <1>5, Scans
  <2> QED BY <1>1, <1>2, <1>5, <2>1, Places, InnerStep DEF Goes
<1>6. CASE c = "=" /\ Get /\ Return("CALL", lex.w)
  <2>1. Made(L, "token") /\ tok'.kind = "CALL"
    BY <1>2, <1>3, <1>6, Returns
  <2> QED BY <1>1, <1>2, <1>6, <2>1, InnerStep DEF Goes
<1>7. CASE c \notin {">", "<", "="} /\ UNCHANGED <<in, stream>> /\ Redirect("%open")
  <2>1. Made(L, "fds")
    BY <1>2, <1>7, Redirects, CommandsAre
  <2> QED BY <1>1, <1>2, <1>7, <2>1, Places, InnerStep DEF Goes
<1> QED BY <1>1, <1>4, <1>5, <1>6, <1>7 DEF Less, At

LEMMA LessGreatSteps ==
    ASSUME NEW L, Lexing(L), Less, pc = "lessgreat"
    PROVE  LexStep(L)
<1>1. Ready /\ pc = "lessgreat" /\ pc \in Scanning \ {"top", "slash"}
  BY DEF Less, At, Scanning
<1>2. /\ AtHand(in) /\ Typed(L) /\ ~lex.goterror /\ Shaped(in) /\ lex.w \in Lefts /\ <<>> \in Seq(L)
      /\ c \in Char /\ (c # "eof" => c \in L) /\ lex.acc \in Seq(L) /\ lex \in LexType(L)
      /\ {"a", "c", "n", "x", "1", "0", "'", "\\", "soh", "bel", "\n", "\t", "var"} \subseteq L
  BY <1>1, LexingIs
<1>3. /\ Kinds = {"NL", "ENDFILE", "ERROR", "^", "~", "@", "CALL", "WORD", "QWORD", "!", "SUB", "(",
                  ";", ")", "=", "{", "}", "BACKBACK", "bq", "ANDAND", "&", "COUNT", "FLAT", "PRIM",
                  "$", "OROR", "PIPE", "DUP", "HEREDOC", "REDIR", "EXTRACT", "LOCAL", "OTHER"}
      /\ Lefts = {"non", "real", "key"}
  BY KindsAre DEF Kinds, Lefts
<1> HIDE DEF c
<1>4. CASE c = ">" /\ Get /\ Redirect("%open-append")
  <2>1. Made(L, "fds")
    BY <1>2, <1>4, Redirects, CommandsAre
  <2> QED BY <1>1, <1>2, <1>4, <2>1, Places, InnerStep DEF Goes
<1>5. CASE c # ">" /\ UNCHANGED <<in, stream>> /\ Redirect("%open-write")
  <2>1. Made(L, "fds")
    BY <1>2, <1>5, Redirects, CommandsAre
  <2> QED BY <1>1, <1>2, <1>5, <2>1, Places, InnerStep DEF Goes
<1> QED BY <1>1, <1>4, <1>5 DEF Less, At

LEMMA LessLessSteps ==
    ASSUME NEW L, Lexing(L), Less, pc = "lessless"
    PROVE  LexStep(L)
<1>1. Ready /\ pc = "lessless" /\ pc \in Scanning \ {"top", "slash"}
  BY DEF Less, At, Scanning
<1>2. /\ AtHand(in) /\ Typed(L) /\ ~lex.goterror /\ Shaped(in) /\ lex.w \in Lefts /\ <<>> \in Seq(L)
      /\ c \in Char /\ (c # "eof" => c \in L) /\ lex.acc \in Seq(L) /\ lex \in LexType(L)
      /\ {"a", "c", "n", "x", "1", "0", "'", "\\", "soh", "bel", "\n", "\t", "var"} \subseteq L
  BY <1>1, LexingIs
<1>3. /\ Kinds = {"NL", "ENDFILE", "ERROR", "^", "~", "@", "CALL", "WORD", "QWORD", "!", "SUB", "(",
                  ";", ")", "=", "{", "}", "BACKBACK", "bq", "ANDAND", "&", "COUNT", "FLAT", "PRIM",
                  "$", "OROR", "PIPE", "DUP", "HEREDOC", "REDIR", "EXTRACT", "LOCAL", "OTHER"}
      /\ Lefts = {"non", "real", "key"}
  BY KindsAre DEF Kinds, Lefts
<1> HIDE DEF c
<1>4. CASE c = "<" /\ Get /\ Redirect("%here")
  <2>1. Made(L, "fds")
    BY <1>2, <1>4, Redirects, CommandsAre
  <2> QED BY <1>1, <1>2, <1>4, <2>1, Places, InnerStep DEF Goes
<1>5. CASE c # "<" /\ UNCHANGED <<in, stream>> /\ Redirect("%heredoc")
  <2>1. Made(L, "fds")
    BY <1>2, <1>5, Redirects, CommandsAre
  <2> QED BY <1>1, <1>2, <1>5, <2>1, Places, InnerStep DEF Goes
<1> QED BY <1>1, <1>4, <1>5 DEF Less, At

LEMMA GreaterSteps ==
    ASSUME NEW L, Lexing(L), Greater, pc = "greater"
    PROVE  LexStep(L)
<1>1. Ready /\ pc = "greater" /\ pc \in Scanning \ {"top", "slash"}
  BY DEF Greater, At, Scanning
<1>2. /\ AtHand(in) /\ Typed(L) /\ ~lex.goterror /\ Shaped(in) /\ lex.w \in Lefts /\ <<>> \in Seq(L)
      /\ c \in Char /\ (c # "eof" => c \in L) /\ lex.acc \in Seq(L) /\ lex \in LexType(L)
      /\ {"a", "c", "n", "x", "1", "0", "'", "\\", "soh", "bel", "\n", "\t", "var"} \subseteq L
  BY <1>1, LexingIs
<1>3. /\ Kinds = {"NL", "ENDFILE", "ERROR", "^", "~", "@", "CALL", "WORD", "QWORD", "!", "SUB", "(",
                  ";", ")", "=", "{", "}", "BACKBACK", "bq", "ANDAND", "&", "COUNT", "FLAT", "PRIM",
                  "$", "OROR", "PIPE", "DUP", "HEREDOC", "REDIR", "EXTRACT", "LOCAL", "OTHER"}
      /\ Lefts = {"non", "real", "key"}
  BY KindsAre DEF Kinds, Lefts
<1> HIDE DEF c
<1>4. CASE c = ">" /\ Get /\ Scan("greatgreat", <<>>, lex.w)
  <2>1. Made(L, "greatgreat")
    BY <1>2, <1>3, <1>4, Scans
  <2> QED BY <1>1, <1>2, <1>4, <2>1, Places, InnerStep DEF Goes
<1>5. CASE c = "<" /\ Get /\ Redirect("%open-create")
  <2>1. Made(L, "fds")
    BY <1>2, <1>5, Redirects, CommandsAre
  <2> QED BY <1>1, <1>2, <1>5, <2>1, Places, InnerStep DEF Goes
<1>6. CASE c \notin {">", "<"} /\ UNCHANGED <<in, stream>> /\ Redirect("%create")
  <2>1. Made(L, "fds")
    BY <1>2, <1>6, Redirects, CommandsAre
  <2> QED BY <1>1, <1>2, <1>6, <2>1, Places, InnerStep DEF Goes
<1> QED BY <1>1, <1>4, <1>5, <1>6 DEF Greater, At

LEMMA GreatGreatSteps ==
    ASSUME NEW L, Lexing(L), Greater, pc = "greatgreat"
    PROVE  LexStep(L)
<1>1. Ready /\ pc = "greatgreat" /\ pc \in Scanning \ {"top", "slash"}
  BY DEF Greater, At, Scanning
<1>2. /\ AtHand(in) /\ Typed(L) /\ ~lex.goterror /\ Shaped(in) /\ lex.w \in Lefts /\ <<>> \in Seq(L)
      /\ c \in Char /\ (c # "eof" => c \in L) /\ lex.acc \in Seq(L) /\ lex \in LexType(L)
      /\ {"a", "c", "n", "x", "1", "0", "'", "\\", "soh", "bel", "\n", "\t", "var"} \subseteq L
  BY <1>1, LexingIs
<1>3. /\ Kinds = {"NL", "ENDFILE", "ERROR", "^", "~", "@", "CALL", "WORD", "QWORD", "!", "SUB", "(",
                  ";", ")", "=", "{", "}", "BACKBACK", "bq", "ANDAND", "&", "COUNT", "FLAT", "PRIM",
                  "$", "OROR", "PIPE", "DUP", "HEREDOC", "REDIR", "EXTRACT", "LOCAL", "OTHER"}
      /\ Lefts = {"non", "real", "key"}
  BY KindsAre DEF Kinds, Lefts
<1> HIDE DEF c
<1>4. CASE c = "<" /\ Get /\ Redirect("%open-append")
  <2>1. Made(L, "fds")
    BY <1>2, <1>4, Redirects, CommandsAre
  <2> QED BY <1>1, <1>2, <1>4, <2>1, Places, InnerStep DEF Goes
<1>5. CASE c # "<" /\ UNCHANGED <<in, stream>> /\ Redirect("%append")
  <2>1. Made(L, "fds")
    BY <1>2, <1>5, Redirects, CommandsAre
  <2> QED BY <1>1, <1>2, <1>5, <2>1, Places, InnerStep DEF Goes
<1> QED BY <1>1, <1>4, <1>5 DEF Greater, At

LEMMA FdsSteps ==
    ASSUME NEW L, Lexing(L), getfds, pc = "fds"
    PROVE  LexStep(L)
<1>1. Ready /\ pc = "fds" /\ pc \in Scanning \ {"top", "slash"}
  BY DEF getfds, At, Scanning
<1>2. /\ AtHand(in) /\ Typed(L) /\ ~lex.goterror /\ Shaped(in) /\ lex.w \in Lefts /\ <<>> \in Seq(L)
      /\ c \in Char /\ (c # "eof" => c \in L) /\ lex.acc \in Seq(L) /\ lex \in LexType(L)
      /\ {"a", "c", "n", "x", "1", "0", "'", "\\", "soh", "bel", "\n", "\t", "var"} \subseteq L
  BY <1>1, LexingIs
<1>3. /\ Kinds = {"NL", "ENDFILE", "ERROR", "^", "~", "@", "CALL", "WORD", "QWORD", "!", "SUB", "(",
                  ";", ")", "=", "{", "}", "BACKBACK", "bq", "ANDAND", "&", "COUNT", "FLAT", "PRIM",
                  "$", "OROR", "PIPE", "DUP", "HEREDOC", "REDIR", "EXTRACT", "LOCAL", "OTHER"}
      /\ Lefts = {"non", "real", "key"}
  BY KindsAre DEF Kinds, Lefts
<1> HIDE DEF c
<1>4. CASE c = "[" /\ Get /\ Scan("fd0", <<>>, "non")
  <2>1. Made(L, "fd0")
    BY <1>2, <1>3, <1>4, Scans
  <2> QED BY <1>1, <1>2, <1>4, <2>1, Places, InnerStep DEF Goes
<1>5. CASE c # "[" /\ Look /\ Redirected(FALSE)
  <2>1. Made(L, "token") /\ tok'.kind # "NL"
    BY <1>2, <1>5, Redirecteds
  <2> QED BY <1>1, <1>2, <1>5, <2>1, InnerStep DEF Goes
<1> QED BY <1>1, <1>4, <1>5 DEF getfds, At

LEMMA Fd0Steps ==
    ASSUME NEW L, Lexing(L), getfds, pc = "fd0"
    PROVE  LexStep(L)
<1>1. Ready /\ pc = "fd0" /\ pc \in Scanning \ {"top", "slash"}
  BY DEF getfds, At, Scanning
<1>2. /\ AtHand(in) /\ Typed(L) /\ ~lex.goterror /\ Shaped(in) /\ lex.w \in Lefts /\ <<>> \in Seq(L)
      /\ c \in Char /\ (c # "eof" => c \in L) /\ lex.acc \in Seq(L) /\ lex \in LexType(L)
      /\ {"a", "c", "n", "x", "1", "0", "'", "\\", "soh", "bel", "\n", "\t", "var"} \subseteq L
  BY <1>1, LexingIs
<1>3. /\ Kinds = {"NL", "ENDFILE", "ERROR", "^", "~", "@", "CALL", "WORD", "QWORD", "!", "SUB", "(",
                  ";", ")", "=", "{", "}", "BACKBACK", "bq", "ANDAND", "&", "COUNT", "FLAT", "PRIM",
                  "$", "OROR", "PIPE", "DUP", "HEREDOC", "REDIR", "EXTRACT", "LOCAL", "OTHER"}
      /\ Lefts = {"non", "real", "key"}
  BY KindsAre DEF Kinds, Lefts
<1> HIDE DEF c
<1>4. CASE c \in digit /\ Get /\ Scan("fd0s", <<>>, "non")
  <2>1. Made(L, "fd0s")
    BY <1>2, <1>3, <1>4, Scans
  <2> QED BY <1>1, <1>2, <1>4, <2>1, Places, InnerStep DEF Goes
<1>5. CASE c \notin digit /\ Get /\ Scanerror("non")
  <2>1. Made(L, "scanerror")
    BY <1>2, <1>3, <1>5, Scanerrors
  <2> QED BY <1>1, <1>2, <1>5, <2>1, Places, InnerStep DEF Goes
<1> QED BY <1>1, <1>4, <1>5 DEF getfds, At

LEMMA Fd0sSteps ==
    ASSUME NEW L, Lexing(L), getfds, pc = "fd0s"
    PROVE  LexStep(L)
<1>1. Ready /\ pc = "fd0s" /\ pc \in Scanning \ {"top", "slash"}
  BY DEF getfds, At, Scanning
<1>2. /\ AtHand(in) /\ Typed(L) /\ ~lex.goterror /\ Shaped(in) /\ lex.w \in Lefts /\ <<>> \in Seq(L)
      /\ c \in Char /\ (c # "eof" => c \in L) /\ lex.acc \in Seq(L) /\ lex \in LexType(L)
      /\ {"a", "c", "n", "x", "1", "0", "'", "\\", "soh", "bel", "\n", "\t", "var"} \subseteq L
  BY <1>1, LexingIs
<1>3. /\ Kinds = {"NL", "ENDFILE", "ERROR", "^", "~", "@", "CALL", "WORD", "QWORD", "!", "SUB", "(",
                  ";", ")", "=", "{", "}", "BACKBACK", "bq", "ANDAND", "&", "COUNT", "FLAT", "PRIM",
                  "$", "OROR", "PIPE", "DUP", "HEREDOC", "REDIR", "EXTRACT", "LOCAL", "OTHER"}
      /\ Lefts = {"non", "real", "key"}
  BY KindsAre DEF Kinds, Lefts
<1> HIDE DEF c
<1>4. CASE c \in digit /\ Get /\ Scan("fd0s", <<>>, "non")
  <2>1. Made(L, "fd0s")
    BY <1>2, <1>3, <1>4, Scans
  <2> QED BY <1>1, <1>2, <1>4, <2>1, Places, InnerStep DEF Goes
<1>5. CASE c = "=" /\ Get /\ Scan("fd1", <<>>, "non")
  <2>1. Made(L, "fd1")
    BY <1>2, <1>3, <1>5, Scans
  <2> QED BY <1>1, <1>2, <1>5, <2>1, Places, InnerStep DEF Goes
<1>6. CASE c = "]" /\ Get /\ Redirected(FALSE)
  <2>1. Made(L, "token") /\ tok'.kind # "NL"
    BY <1>2, <1>6, Redirecteds
  <2> QED BY <1>1, <1>2, <1>6, <2>1, InnerStep DEF Goes
<1>7. CASE c \notin digit \cup {"=", "]"} /\ Get /\ Scanerror("non")
  <2>1. Made(L, "scanerror")
    BY <1>2, <1>3, <1>7, Scanerrors
  <2> QED BY <1>1, <1>2, <1>7, <2>1, Places, InnerStep DEF Goes
<1> QED BY <1>1, <1>4, <1>5, <1>6, <1>7 DEF getfds, At

LEMMA Fd1Steps ==
    ASSUME NEW L, Lexing(L), getfds, pc = "fd1"
    PROVE  LexStep(L)
<1>1. Ready /\ pc = "fd1" /\ pc \in Scanning \ {"top", "slash"}
  BY DEF getfds, At, Scanning
<1>2. /\ AtHand(in) /\ Typed(L) /\ ~lex.goterror /\ Shaped(in) /\ lex.w \in Lefts /\ <<>> \in Seq(L)
      /\ c \in Char /\ (c # "eof" => c \in L) /\ lex.acc \in Seq(L) /\ lex \in LexType(L)
      /\ {"a", "c", "n", "x", "1", "0", "'", "\\", "soh", "bel", "\n", "\t", "var"} \subseteq L
  BY <1>1, LexingIs
<1>3. /\ Kinds = {"NL", "ENDFILE", "ERROR", "^", "~", "@", "CALL", "WORD", "QWORD", "!", "SUB", "(",
                  ";", ")", "=", "{", "}", "BACKBACK", "bq", "ANDAND", "&", "COUNT", "FLAT", "PRIM",
                  "$", "OROR", "PIPE", "DUP", "HEREDOC", "REDIR", "EXTRACT", "LOCAL", "OTHER"}
      /\ Lefts = {"non", "real", "key"}
  BY KindsAre DEF Kinds, Lefts
<1> HIDE DEF c
<1>4. CASE c \in digit /\ Get /\ Scan("fd1s", <<>>, "non")
  <2>1. Made(L, "fd1s")
    BY <1>2, <1>3, <1>4, Scans
  <2> QED BY <1>1, <1>2, <1>4, <2>1, Places, InnerStep DEF Goes
<1>5. CASE c = "]" /\ lex.cmd = "|" /\ Get /\ Scanerror("non")
  <2>1. Made(L, "scanerror")
    BY <1>2, <1>3, <1>5, Scanerrors
  <2> QED BY <1>1, <1>2, <1>5, <2>1, Places, InnerStep DEF Goes
<1>6. CASE c = "]" /\ lex.cmd # "|" /\ Get /\ Redirected(TRUE)
  <2>1. Made(L, "token") /\ tok'.kind # "NL"
    BY <1>2, <1>6, Redirecteds
  <2> QED BY <1>1, <1>2, <1>6, <2>1, InnerStep DEF Goes
<1>7. CASE c \notin digit \cup {"]"} /\ Get /\ Scanerror("non")
  <2>1. Made(L, "scanerror")
    BY <1>2, <1>3, <1>7, Scanerrors
  <2> QED BY <1>1, <1>2, <1>7, <2>1, Places, InnerStep DEF Goes
<1> QED BY <1>1, <1>4, <1>5, <1>6, <1>7 DEF getfds, At

LEMMA Fd1sSteps ==
    ASSUME NEW L, Lexing(L), getfds, pc = "fd1s"
    PROVE  LexStep(L)
<1>1. Ready /\ pc = "fd1s" /\ pc \in Scanning \ {"top", "slash"}
  BY DEF getfds, At, Scanning
<1>2. /\ AtHand(in) /\ Typed(L) /\ ~lex.goterror /\ Shaped(in) /\ lex.w \in Lefts /\ <<>> \in Seq(L)
      /\ c \in Char /\ (c # "eof" => c \in L) /\ lex.acc \in Seq(L) /\ lex \in LexType(L)
      /\ {"a", "c", "n", "x", "1", "0", "'", "\\", "soh", "bel", "\n", "\t", "var"} \subseteq L
  BY <1>1, LexingIs
<1>3. /\ Kinds = {"NL", "ENDFILE", "ERROR", "^", "~", "@", "CALL", "WORD", "QWORD", "!", "SUB", "(",
                  ";", ")", "=", "{", "}", "BACKBACK", "bq", "ANDAND", "&", "COUNT", "FLAT", "PRIM",
                  "$", "OROR", "PIPE", "DUP", "HEREDOC", "REDIR", "EXTRACT", "LOCAL", "OTHER"}
      /\ Lefts = {"non", "real", "key"}
  BY KindsAre DEF Kinds, Lefts
<1> HIDE DEF c
<1>4. CASE c \in digit /\ Get /\ Scan("fd1s", <<>>, "non")
  <2>1. Made(L, "fd1s")
    BY <1>2, <1>3, <1>4, Scans
  <2> QED BY <1>1, <1>2, <1>4, <2>1, Places, InnerStep DEF Goes
<1>5. CASE c = "]" /\ Get /\ Redirected(TRUE)
  <2>1. Made(L, "token") /\ tok'.kind # "NL"
    BY <1>2, <1>5, Redirecteds
  <2> QED BY <1>1, <1>2, <1>5, <2>1, InnerStep DEF Goes
<1>6. CASE c \notin digit \cup {"]"} /\ Get /\ Scanerror("non")
  <2>1. Made(L, "scanerror")
    BY <1>2, <1>3, <1>6, Scanerrors
  <2> QED BY <1>1, <1>2, <1>6, <2>1, Places, InnerStep DEF Goes
<1> QED BY <1>1, <1>4, <1>5, <1>6 DEF getfds, At

LEMMA SkipLineSteps ==
    ASSUME NEW L, Lexing(L), SkipLine
    PROVE  LexStep(L)
<1>1. Ready /\ pc = "scanerror" /\ pc \in Scanning \ {"top", "slash"}
  BY DEF SkipLine, At, Scanning
<1>2. /\ AtHand(in) /\ Typed(L) /\ ~lex.goterror /\ Shaped(in) /\ lex.w \in Lefts /\ <<>> \in Seq(L)
      /\ c \in Char /\ (c # "eof" => c \in L) /\ lex.acc \in Seq(L) /\ lex \in LexType(L)
      /\ {"a", "c", "n", "x", "1", "0", "'", "\\", "soh", "bel", "\n", "\t", "var"} \subseteq L
  BY <1>1, LexingIs
<1>3. /\ Kinds = {"NL", "ENDFILE", "ERROR", "^", "~", "@", "CALL", "WORD", "QWORD", "!", "SUB", "(",
                  ";", ")", "=", "{", "}", "BACKBACK", "bq", "ANDAND", "&", "COUNT", "FLAT", "PRIM",
                  "$", "OROR", "PIPE", "DUP", "HEREDOC", "REDIR", "EXTRACT", "LOCAL", "OTHER"}
      /\ Lefts = {"non", "real", "key"}
  BY KindsAre DEF Kinds, Lefts
<1> HIDE DEF c
<1>4. CASE Get /\ c \notin {"\n", "eof"} /\ UNCHANGED <<lex, pc, tok, par, src>>
  <2>1. Made(L, "scanerror")
    BY <1>1, <1>2, <1>4 DEF Made, Typed, ParKept
  <2> QED BY <1>1, <1>2, <1>4, <2>1, Places, InnerStep DEF Goes
<1>5. CASE /\ Get /\ lex' = [lex EXCEPT !.goterror = TRUE]
           /\ par' = [par EXCEPT !.error = TRUE]
           /\ tok' = [kind |-> "ERROR", s |-> <<>>] /\ pc' = "token" /\ UNCHANGED src
  <2>1. lex' \in LexType(L)
    BY <1>2, <1>5 DEF LexType
  <2>2. tok' \in TokType(L) /\ tok'.kind = "ERROR"
    BY <1>2, <1>3, <1>5 DEF TokType
  <2>3. par \in ParType(L)
    BY <1>2 DEF Typed
  <2>4. par' \in ParType(L) /\ ParKept
    <3>1. par' = [par EXCEPT !.error = TRUE]
      BY <1>5
    <3> QED BY <1>1, <2>3, <3>1 DEF ParType, ParKept
  <2> QED BY <1>1, <1>2, <1>5, <2>1, <2>2, <2>4 DEF LexStep, Typed
<1> QED BY <1>4, <1>5 DEF SkipLine

\* The steps of the lexer that read, but for a backslash outside quotes.
LEMMA LexerSteps ==
    ASSUME NEW L, Lexing(L), pc = "esc" /\ AtHand(in) => c \in L, yylex, ~Yylex, ~Backslash
    PROVE  LexStep(L)
<1>0. pc = "top" /\ Ready => Byte \subseteq L /\ L \subseteq Char /\ Typed(L) /\ Shaped(in) /\ ~lex.goterror
  BY LexingIs DEF Scanning, Lexing
<1>1. CASE Blank \/ TopEof \/ TopCtrlC \/ TopCaret \/ TopWord \/ TopNewline
  <2>1. pc = "top" /\ Ready
    BY <1>1 DEF Blank, TopEof, TopCtrlC, TopCaret, TopWord, TopNewline, At
  <2> QED BY <1>0, <1>1, <2>1, TopSteps
<1>2. CASE WordChar \/ WordEnd
  BY <1>2, WordSteps
<1>3. CASE TopSpecial
  BY <1>3, SpecialSteps
<1>4. CASE Comment \/ Backquote \/ Ampersand \/ Dollar
  BY <1>4, CommentSteps, BackquoteSteps, AmpersandSteps, DollarSteps
<1>5. CASE Quote \/ QuoteQuote \/ QuoteSlash
  BY <1>5, QuoteSteps, QuoteQuoteSteps, QuoteSlashSteps
<1>6. CASE Esc
  <2>1. Ready /\ pc = "esc" /\ pc \in Scanning
    BY <1>6 DEF Esc, At, Scanning
  <2>2. c \in L
    BY <2>1, LexingIs
  <2> QED BY <1>6, <2>2, EscSteps
<1>7. CASE Coding \/ Pipe \/ SkipLine
  BY <1>7, CodingSteps, PipeSteps, SkipLineSteps
<1>8. CASE Less
  <2>1. pc \in {"less", "lessgreat", "lessless"}
    BY <1>8 DEF Less, At
  <2> QED BY <1>8, <2>1, LessSteps, LessGreatSteps, LessLessSteps
<1>9. CASE Greater
  <2>1. pc \in {"greater", "greatgreat"}
    BY <1>9 DEF Greater, At
  <2> QED BY <1>9, <2>1, GreaterSteps, GreatGreatSteps
<1>10. CASE getfds
  <2>1. pc \in {"fds", "fd0", "fd0s", "fd1", "fd1s"}
    BY <1>10 DEF getfds, At
  <2> QED BY <1>10, <2>1, FdsSteps, Fd0Steps, Fd0sSteps, Fd1Steps, Fd1sSteps
<1> QED BY <1>1, <1>2, <1>3, <1>4, <1>5, <1>6, <1>7, <1>8, <1>9, <1>10 DEF yylex

Outside == {"parse", "end", "thrown", "abort"}
Between == {"parse", "end", "thrown", "term"}
Hereing == {"here", "mark", "copy", "heredollar", "herevar"}
Points == Scanning \cup Hereing \cup Between \cup {"token", "lex", "finish", "abort", "hang"}

\* Without NULs in the source no token holds its end.
NulFree == "nul" \notin Range(Text)
Letters == IF NulFree THEN Byte ELSE Char

TypeInv == Typed(Letters) /\ pc \in Points /\ src \in Sources

StreamInv ==
    /\ Shaped(in) /\ Held(in) = stream
    /\ in.verbose /\ src.sound => in.echoed + Len(Unread(in)) = Len(Text)
    /\ src.sound => Sound(in.reads)

UngetInv ==
    /\ Len(in.ungot) <= 2
    /\ Len(in.ungot) = 2 => /\ in.ungot[2] = "\\" /\ lex.w = "non" /\ ~lex.goterror
                            /\ pc \in {"token", "lex", "top", "finish", "parse", "abort", "end"}
                            /\ (pc = "token" => tok.kind = "^") /\ (pc = "finish" => par.bad)
    /\ pc = "slash" /\ in.ungot # <<>> => Len(in.ungot) = 1 /\ lex.w = "non"
    /\ lex.goterror => /\ in.ungot = <<>> /\ pc \in {"token", "lex", "finish", "parse", "abort", "end"}
                       /\ pc = "token" => tok.kind = "ERROR"
                       /\ pc = "finish" => par.bad \/ par.error
    /\ (pc = "token" /\ tok.kind = "NL") \/ pc \in {"here", "mark"} => in.ungot = <<>>

CleanInv == src.sound =>
    /\ pc # "abort"
    /\ par.gcblocked = IF pc \in Between THEN 0 ELSE 1
    /\ pc \in Between => ~par.error
    /\ pc \notin Between => (par.skip => par.error) /\ (par.bad => par.error)

Suffix(s) == Len(s) <= Len(Text) /\ s = SubSeq(Text, Len(Text) - Len(s) + 1, Len(Text))
PlaceInv ==
    /\ pc \notin Outside \/ in.fill # "eoffill" => Suffix(in.buf \o Chars(in.reads))
    /\ NulFree => stream \in Seq(Char \ {"nul"})
    /\ NulFree /\ pc = "esc" => stream # <<>> /\ Head(stream) # "eof"

\* A place p of the text t where the marker m stands, and a place where a
\* line of the document from on begins.
Marker(t, p, m) ==
    /\ p + Len(m) <= Len(t) + 1 /\ \A k \in DOMAIN m : t[p + k - 1] = m[k]
    /\ p + Len(m) <= Len(t) => t[p + Len(m)] = "\n"
LineOf(t, from, p) == p = from \/ t[p - 1] = "\n"
NoMarker(t, from, till, m) == \A q \in from..till : ~(LineOf(t, from, q) /\ Marker(t, q, m))
Copies(t, s, p) == p + Len(s) <= Len(t) + 1 /\ \A k \in DOMAIN s : s[k] = t[p + k - 1]

\* A document that is being read: l is the lexer's record, e the marker, p the
\* place in the text.
Partial(t, l, e, p, at) ==
    /\ l.from \in 1..Len(t) + 1 /\ p <= Len(t) + 1
    /\ l.m <= Len(e) /\ (at = "copy" => l.m = 0)
    /\ p = l.from + Len(l.acc) + l.m
    /\ Copies(t, l.acc, l.from)
    /\ \A k \in 1..l.m : t[p - l.m + k - 1] = e[k]
    /\ at = "mark" => LineOf(t, l.from, p - l.m) /\ NoMarker(t, l.from, p - l.m - 1, e)
    /\ at = "copy" => NoMarker(t, l.from, p, e)

Pos == Len(Text) - Len(stream) + 1
DocInv ==
    /\ pc \in Hereing => par.queue # <<>>
    /\ pc \in Hereing \ {"here"} => "\n" \notin Range(eof)
    /\ pc = "mark" => lex.m <= Len(eof)
    /\ pc \in {"heredollar", "herevar"} => ~quoted
    /\ NulFree /\ pc \in {"mark", "copy"} /\ quoted =>
          in.ungot = <<>> /\ Partial(Text, lex, eof, Pos, pc)
    /\ HeredocExact

-----------------------------------------------------------------------------
(***************************************************************************)
(* What a step of the lexer does to the input                              *)
(***************************************************************************)

LEMMA CharIs ==
    ASSUME StreamInv, AtHand(in)
    PROVE  /\ c \in Char /\ stream \in Seq(Char)
           /\ stream = <<>> => c = "eof" /\ Rest = <<>>
           /\ stream # <<>> => c = Head(stream) /\ Rest = Tail(stream) /\ stream = <<c>> \o Rest
           /\ Rest \in Seq(Char)
<1>1. Shaped(in) /\ Held(in) = stream
  BY DEF StreamInv
<1>2. TakenIs(in) /\ stream \in Seq(Char)
  BY <1>1, Taken, HeldIs
<1>3. c \in Char
  BY <1>2 DEF TakenIs, c
<1>4. ASSUME stream = <<>> PROVE c = "eof" /\ Rest = <<>>
  BY <1>1, <1>2, <1>4 DEF TakenIs, c, Rest
<1>5. ASSUME stream # <<>> PROVE c = Head(stream) /\ Rest = Tail(stream) /\ stream = <<c>> \o Rest /\ Rest \in Seq(Char)
  <2>1. stream = <<c>> \o Held(taken(in)) /\ Shaped(taken(in))
    BY <1>1, <1>2, <1>5 DEF TakenIs, c
  <2>2. Held(taken(in)) \in Seq(Char)
    BY <2>1, HeldIs
  <2> HIDE DEF c
  <2>3. Head(stream) = c /\ Tail(stream) = Held(taken(in))
    BY <1>3, <2>1, <2>2, FirstOf
  <2> QED BY <1>5, <2>1, <2>2, <2>3 DEF Rest
<1> QED BY <1>2, <1>3, <1>4, <1>5

\* GETC takes the first character of the stream.
LEMMA TakenStream ==
    ASSUME StreamInv, AtHand(in)
    PROVE  /\ Shaped(taken(in)) /\ Held(taken(in)) = Rest
           /\ taken(in).buf = in.buf /\ taken(in).reads = in.reads
           /\ taken(in).verbose = in.verbose
           /\ taken(in).ungot = IF in.ungot = <<>> THEN <<>> ELSE Front(in.ungot)
           /\ taken(in).verbose /\ src.sound =>
                 taken(in).echoed + Len(Unread(taken(in))) = Len(Text)
<1>1. Shaped(in) /\ Held(in) = stream
  BY DEF StreamInv
<1>2. TakenIs(in)
  BY <1>1, Taken
<1>3. Held(taken(in)) = Rest
  <2>1. CASE stream = <<>>
    BY <1>1, <1>2, <2>1 DEF TakenIs, Rest
  <2>2. CASE stream # <<>>
    <3>1. stream = <<peek(in)>> \o Held(taken(in)) /\ peek(in) \in Char
      BY <1>1, <1>2, <2>2 DEF TakenIs
    <3>2. Held(taken(in)) \in Seq(Char)
      BY <1>2, HeldIs DEF TakenIs
    <3>3. Tail(stream) = Held(taken(in))
      BY <3>1, <3>2, FirstOf
    <3> QED BY <2>2, <3>3 DEF Rest
  <2> QED BY <2>1, <2>2
<1>4. in.verbose /\ src.sound => taken(in).echoed + Len(Unread(taken(in))) = Len(Text)
  BY <1>1, TakenEcho DEF StreamInv
<1> QED BY <1>2, <1>3, <1>4 DEF TakenIs

LEMMA TextStays == ASSUME src' = src PROVE Text' = Text
BY DEF Text

\* The stream invariant after a step that leaves the reads alone.
LEMMA StreamAfter ==
    ASSUME StreamInv, src' = src, Shaped(in)', Held(in)' = stream', in'.reads = in.reads,
           in'.verbose /\ src.sound => in'.echoed + Len(Unread(in')) = Len(Text)
    PROVE  StreamInv'
<1>1. Text' = Text /\ Unread(in)' = Unread(in')
  BY TextStays
<1> HIDE DEF Text, Unread, Held, Shaped
<1> QED BY <1>1 DEF StreamInv

Kept == in'.reads = in.reads /\ in'.buf = in.buf

LEMMA GetStep ==
    ASSUME StreamInv, AtHand(in), Get, src' = src
    PROVE  /\ StreamInv' /\ Kept /\ stream' = Rest
           /\ in'.ungot = IF in.ungot = <<>> THEN <<>> ELSE Front(in.ungot)
<1>1. in' = taken(in) /\ stream' = Rest
  BY DEF Get
<1>2. /\ Shaped(in') /\ Held(in') = stream' /\ in'.reads = in.reads /\ in'.buf = in.buf
      /\ in'.verbose /\ src.sound => in'.echoed + Len(Unread(in')) = Len(Text)
      /\ in'.ungot = IF in.ungot = <<>> THEN <<>> ELSE Front(in.ungot)
  BY <1>1, TakenStream
<1>3. Shaped(in)' /\ Held(in)' = stream'
  BY <1>2
<1>4. StreamInv'
  BY <1>2, <1>3, StreamAfter
<1> QED BY <1>1, <1>2, <1>4 DEF Kept

\* A character is put before what is left after GETC.
LEMMA PushedBack ==
    ASSUME StreamInv, AtHand(in), src' = src, NEW ch \in Char,
           in' = unget(taken(in), ch), stream' = <<ch>> \o Rest
    PROVE  /\ StreamInv' /\ Kept
           /\ in'.ungot = <<>> \/ in'.ungot = Append(taken(in).ungot, ch)
<1> DEFINE t == taken(in)
<1>1. /\ Shaped(t) /\ Held(t) = Rest /\ t.buf = in.buf /\ t.reads = in.reads
      /\ t.verbose /\ src.sound => t.echoed + Len(Unread(t)) = Len(Text)
  BY TakenStream
<1> HIDE DEF t
<1>2. in' = unget(t, ch)
  BY DEF t
<1>3. /\ Shaped(in') /\ Held(in') = <<ch>> \o Held(t) /\ in'.ungot \in {Append(t.ungot, ch), <<>>}
      /\ in'.verbose = t.verbose /\ in'.echoed = t.echoed /\ in'.buf = t.buf /\ in'.reads = t.reads
      /\ t.verbose => Unread(in') = Unread(t)
  BY <1>1, <1>2, Pushed, SMTT(40)
<1>4. Shaped(in)' /\ Held(in)' = stream'
  BY <1>1, <1>3
<1>5. StreamInv'
  BY <1>1, <1>3, <1>4, StreamAfter
<1> QED BY <1>1, <1>3, <1>5 DEF Kept, t

LEMMA Regroup ==
    ASSUME NEW a \in Seq(Char), NEW b \in Seq(Char), NEW r \in Seq(Char)
    PROVE  a \o (b \o r) = (a \o b) \o r
BY ConcatAssociative

LEMMA Appended ==
    ASSUME NEW a \in Seq(Char), NEW ch \in Char
    PROVE  /\ Append(a, ch) \in Seq(Char) /\ Len(Append(a, ch)) = Len(a) + 1
           /\ \A i \in 1..Len(a) : Append(a, ch)[i] = a[i]
           /\ Append(a, ch)[Len(a) + 1] = ch
BY AppendProperties

LEMMA Pairs ==
    ASSUME NEW ch \in Char, NEW ch2 \in Char
    PROVE  /\ <<ch2>> \o <<ch>> = <<ch2, ch>>
           /\ Append(<<ch2>>, ch) = <<ch2, ch>> /\ Append(<<>>, ch) = <<ch>>
<1> DEFINE a == <<ch2>>
           b == <<ch>>
           d == <<ch2, ch>>
<1>1. a \in Seq(Char) /\ b \in Seq(Char) /\ d \in Seq(Char)
  OBVIOUS
<1>2. Len(a) = 1 /\ Len(b) = 1 /\ Len(d) = 2 /\ a[1] = ch2 /\ b[1] = ch /\ d[1] = ch2 /\ d[2] = ch
  OBVIOUS
<1>3. Append(<<>>, ch) = b
  OBVIOUS
<1> HIDE DEF a, b, d
<1>4. /\ a \o b \in Seq(Char) /\ Len(a \o b) = 2 /\ (a \o b)[1] = ch2 /\ (a \o b)[2] = ch
  <2>1. a \o b \in Seq(Char) /\ Len(a \o b) = Len(a) + Len(b)
        /\ \A i \in 1..Len(a) + Len(b) : (a \o b)[i] = IF i <= Len(a) THEN a[i] ELSE b[i - Len(a)]
    BY <1>1, ConcatProperties
  <2> QED BY <1>2, <2>1
<1>5. a \o b = d
  BY <1>1, <1>2, <1>4, SeqEqual
<1>6. Append(a, ch) \in Seq(Char) /\ Len(Append(a, ch)) = 2 /\ Append(a, ch)[1] = ch2 /\ Append(a, ch)[2] = ch
  BY <1>1, <1>2, Appended
<1>7. Append(a, ch) = d
  BY <1>1, <1>2, <1>6, SeqEqual
<1> QED BY <1>3, <1>5, <1>7 DEF a, b, d

LEMMA LookStep ==
    ASSUME StreamInv, AtHand(in), Look, src' = src
    PROVE  /\ StreamInv' /\ Kept /\ stream' = <<c>> \o Rest
           /\ in'.ungot = <<>> \/ in'.ungot = Append(taken(in).ungot, c)
<1>1. in' = unget(taken(in), c) /\ stream' = <<c>> \o Rest
  BY DEF Look
<1>2. c \in Char
  BY CharIs
<1> HIDE DEF c
<1> QED BY <1>1, <1>2, PushedBack

\* Two characters are put back: the backslash of a word that touches another.
LEMMA PushedTwice ==
    ASSUME StreamInv, AtHand(in), src' = src, NEW ch \in Char, NEW ch2 \in Char,
           in' = unget(unget(taken(in), ch), ch2), stream' = <<ch2, ch>> \o Rest,
           taken(in).ungot = <<>>
    PROVE  /\ StreamInv' /\ Kept
           /\ in'.ungot = <<>> \/ in'.ungot = <<ch2>> \/ in'.ungot = <<ch, ch2>>
<1> DEFINE t == taken(in)
           v == unget(t, ch)
<1>1. /\ Shaped(t) /\ Held(t) = Rest /\ t.buf = in.buf /\ t.reads = in.reads
      /\ t.verbose /\ src.sound => t.echoed + Len(Unread(t)) = Len(Text)
      /\ t.ungot = <<>>
  BY TakenStream
<1> HIDE DEF t
<1>2. /\ Shaped(v) /\ Held(v) = <<ch>> \o Held(t) /\ v.ungot \in {Append(t.ungot, ch), <<>>}
      /\ v.verbose = t.verbose /\ v.echoed = t.echoed /\ v.buf = t.buf /\ v.reads = t.reads
      /\ t.verbose => Unread(v) = Unread(t)
  BY <1>1, Pushed
<1> HIDE DEF v
<1>3. in' = unget(v, ch2)
  BY DEF t, v
<1>4. /\ Shaped(in') /\ Held(in') = <<ch2>> \o Held(v) /\ in'.ungot \in {Append(v.ungot, ch2), <<>>}
      /\ in'.verbose = v.verbose /\ in'.echoed = v.echoed /\ in'.buf = v.buf /\ in'.reads = v.reads
      /\ v.verbose => Unread(in') = Unread(v)
  BY <1>2, <1>3, Pushed, ZenonT(60)
<1>5. Held(in') = stream'
  <2> DEFINE a == <<ch2>>
             b == <<ch>>
             r == Rest
  <2>1. a \in Seq(Char) /\ b \in Seq(Char) /\ r \in Seq(Char)
    BY CharIs
  <2>2. Held(in') = a \o (b \o r)
    BY <1>1, <1>2, <1>4
  <2>3. a \o b = <<ch2, ch>>
    BY Pairs
  <2> HIDE DEF a, b, r
  <2>4. a \o (b \o r) = (a \o b) \o r
    BY <2>1, Regroup
  <2>5. stream' = (a \o b) \o r
    BY <2>3 DEF r
  <2> QED BY <2>2, <2>4, <2>5
<1>6. Shaped(in)' /\ Held(in)' = stream'
  BY <1>4, <1>5
<1>7. StreamInv'
  BY <1>1, <1>2, <1>4, <1>6, StreamAfter
<1>8. in'.ungot = <<>> \/ in'.ungot = <<ch2>> \/ in'.ungot = <<ch, ch2>>
  <2>1. v.ungot = <<ch>> \/ v.ungot = <<>>
    BY <1>1, <1>2
  <2>2. Append(<<ch>>, ch2) = <<ch, ch2>> /\ Append(<<>>, ch2) = <<ch2>>
    BY Pairs
  <2> QED BY <1>4, <2>1, <2>2
<1> QED BY <1>1, <1>2, <1>4, <1>7, <1>8 DEF Kept

\* The invariant of the reader.
ReaderInv == TypeInv /\ StreamInv /\ UngetInv /\ CleanInv /\ PlaceInv /\ DocInv

LEMMA LettersAre ==
    ASSUME NEW L, L = Letters
    PROVE  /\ Byte \subseteq L /\ L \subseteq Char
           /\ src' = src => L = Letters' /\ NulFree' = NulFree /\ Text' = Text
           /\ NulFree => L = Byte
BY TextStays DEF Letters, NulFree, Byte

LEMMA TypeAfter ==
    ASSUME NEW L, L = Letters, TypeInv, src' = src, Typed(L)', pc' \in Points
    PROVE  TypeInv'
BY LettersAre DEF TypeInv, Typed

LEMMA ExactOne ==
    ASSUME NEW e, Text' = Text, Exact(e)
    PROVE  Exact(e)'
<1> DEFINE t == Text
<1>1. Exact(e) <=> \E p \in e.from..Len(t) + 1 :
        /\ (p = e.from \/ t[p - 1] = "\n")
        /\ /\ p + Len(e.eof) <= Len(t) + 1 /\ \A k \in DOMAIN e.eof : t[p + k - 1] = e.eof[k]
           /\ p + Len(e.eof) <= Len(t) => t[p + Len(e.eof)] = "\n"
        /\ e.doc = SubSeq(t, e.from, p - 1)
        /\ \A q \in e.from..p - 1 :
              ~(/\ (q = e.from \/ t[q - 1] = "\n")
                /\ /\ q + Len(e.eof) <= Len(t) + 1 /\ \A k \in DOMAIN e.eof : t[q + k - 1] = e.eof[k]
                   /\ q + Len(e.eof) <= Len(t) => t[q + Len(e.eof)] = "\n")
  BY Zenon DEF Exact, LineAt, MarkerAt
<1>2. Exact(e)' <=> \E p \in e.from..Len(t') + 1 :
        /\ (p = e.from \/ t'[p - 1] = "\n")
        /\ /\ p + Len(e.eof) <= Len(t') + 1 /\ \A k \in DOMAIN e.eof : t'[p + k - 1] = e.eof[k]
           /\ p + Len(e.eof) <= Len(t') => t'[p + Len(e.eof)] = "\n"
        /\ e.doc = SubSeq(t', e.from, p - 1)
        /\ \A q \in e.from..p - 1 :
              ~(/\ (q = e.from \/ t'[q - 1] = "\n")
                /\ /\ q + Len(e.eof) <= Len(t') + 1 /\ \A k \in DOMAIN e.eof : t'[q + k - 1] = e.eof[k]
                   /\ q + Len(e.eof) <= Len(t') => t'[q + Len(e.eof)] = "\n")
  BY Zenon DEF Exact, LineAt, MarkerAt
<1>3. t' = t
  OBVIOUS
<1> HIDE DEF t
<1> QED BY <1>1, <1>2, <1>3

LEMMA ExactStays ==
    ASSUME HeredocExact, src' = src, par'.docs \in {par.docs, <<>>}
    PROVE  HeredocExact'
<1>1. Text' = Text /\ NulFree' = NulFree
  BY TextStays DEF NulFree
<1>2. HeredocExact' <=> (NulFree' => \A k \in DOMAIN par'.docs : par'.docs[k].quoted => Exact(par.docs[k])')
  BY Zenon DEF HeredocExact, NulFree
<1>3. SUFFICES ASSUME NulFree', NEW k \in DOMAIN par'.docs, par'.docs[k].quoted
               PROVE  Exact(par.docs[k])'
  BY <1>2
<1>4. par'.docs = par.docs /\ NulFree
  BY <1>1, <1>3
<1>5. Exact(par.docs[k])
  BY <1>3, <1>4 DEF HeredocExact, NulFree
<1>6. PICK e : e = par.docs[k]
  OBVIOUS
<1>7. Exact(e)
  BY <1>5, <1>6
<1>8. Exact(e)'
  BY <1>1, <1>7, ExactOne
<1>9. e = (par.docs[k])'
  BY <1>4, <1>6
<1> QED BY <1>8, <1>9

LEMMA UpToTwo ==
    ASSUME NEW n
    PROVE  /\ n \in Nat /\ n <= 2 <=> n \in {0, 1, 2}
           /\ n \in {0, 1, 2} => n = 2 \/ n <= 1
OBVIOUS

LEMMA ShortUngot ==
    ASSUME StreamInv', Len(in'.ungot) <= 1
    PROVE  Len(in'.ungot) <= 2 /\ Len(in'.ungot) # 2
<1>1. Len(in'.ungot) \in Nat
  <2>1. in'.ungot \in Seq(Char)
    BY InputFacts DEF StreamInv
  <2> QED BY <2>1
<1> DEFINE n == Len(in'.ungot)
<1>2. n \in Nat /\ n <= 1
  BY <1>1
<1> HIDE DEF n
<1>3. n <= 2 /\ n # 2
  BY <1>2
<1> QED BY <1>3 DEF n

\* What GETC and unget do to the push-back.
LEMMA Ungot ==
    ASSUME StreamInv, Len(in.ungot) <= 2
    PROVE  /\ in.ungot \in Seq(Char) /\ Len(in.ungot) \in {0, 1, 2}
           /\ in.ungot = <<>> <=> Len(in.ungot) = 0
           /\ in.ungot # <<>> => Len(Front(in.ungot)) = Len(in.ungot) - 1
           /\ Len(in.ungot) = 1 => Front(in.ungot) = <<>>
<1>1. in.ungot \in Seq(Char)
  BY InputFacts DEF StreamInv
<1> DEFINE u == in.ungot
<1>2. u \in Seq(Char)
  BY <1>1
<1> HIDE DEF u
<1>3. u # <<>> => Len(Front(u)) = Len(u) - 1 /\ Front(u) \in Seq(Char)
  BY <1>2, ReverseFront
<1>4. Len(u) \in Nat /\ (u = <<>> <=> Len(u) = 0)
  BY <1>2, EmptySeq
<1>5. Len(u) <= 2
  BY DEF u
<1>6. Len(u) = 1 => Front(u) = <<>>
  BY <1>3, <1>4, EmptySeq
<1>7. Len(u) \in {0, 1, 2}
  BY <1>4, <1>5, UpToTwo
<1> QED BY <1>2, <1>3, <1>4, <1>6, <1>7 DEF u

LEMMA GetUngot ==
    ASSUME StreamInv, Len(in.ungot) <= 2, AtHand(in), Get, src' = src
    PROVE  /\ Len(in'.ungot) = IF in.ungot = <<>> THEN 0 ELSE Len(in.ungot) - 1
           /\ Len(in.ungot) <= 1 => in'.ungot = <<>>
<1>1. in'.ungot = IF in.ungot = <<>> THEN <<>> ELSE Front(in.ungot)
  BY GetStep
<1> QED BY <1>1, Ungot

LEMMA PushUngot ==
    ASSUME StreamInv, Len(in.ungot) <= 1, AtHand(in), src' = src, NEW ch \in Char,
           in' = unget(taken(in), ch), stream' = <<ch>> \o Rest
    PROVE  Len(in'.ungot) <= 1
<1>1. taken(in).ungot = <<>>
  BY TakenStream, Ungot
<1>2. in'.ungot = <<>> \/ in'.ungot = Append(taken(in).ungot, ch)
  BY PushedBack
<1>3. Append(<<>>, ch) = <<ch>> /\ Len(<<ch>>) = 1 /\ Len(<<>>) = 0
  BY Pairs
<1>4. in'.ungot = <<>> \/ in'.ungot = <<ch>>
  BY <1>1, <1>2, <1>3
<1>5. Len(in'.ungot) = 0 \/ Len(in'.ungot) = 1
  BY <1>3, <1>4
<1> DEFINE n == Len(in'.ungot)
<1> HIDE DEF n
<1>6. n = 0 \/ n = 1
  BY <1>5 DEF n
<1>7. n <= 1
  BY <1>6
<1> QED BY <1>7 DEF n

LEMMA LookUngot ==
    ASSUME StreamInv, Len(in.ungot) <= 1, AtHand(in), Look, src' = src
    PROVE  Len(in'.ungot) <= 1
<1>1. in' = unget(taken(in), c) /\ stream' = <<c>> \o Rest
  BY DEF Look
<1>2. c \in Char
  BY CharIs
<1> HIDE DEF c
<1> QED BY <1>1, <1>2, PushUngot

\* A character that stands for no NUL goes before the rest of the stream.
LEMMA NulFreeChar ==
    ASSUME StreamInv, AtHand(in), stream \in Seq(Char \ {"nul"})
    PROVE  /\ c \in Char \ {"nul"} /\ Rest \in Seq(Char \ {"nul"})
           /\ \A ch \in Char \ {"nul"} : <<ch>> \o Rest \in Seq(Char \ {"nul"})
<1>1. /\ stream = <<>> => c = "eof" /\ Rest = <<>>
      /\ stream # <<>> => c = Head(stream) /\ Rest = Tail(stream)
  BY CharIs
<1>2. "eof" \in Char \ {"nul"}
  BY Characters
<1> DEFINE K == Char \ {"nul"}
<1> HIDE DEF c, K
<1>3. stream \in Seq(K) /\ "eof" \in K
  BY <1>2 DEF K
<1>4. stream # <<>> => Head(stream) \in K /\ Tail(stream) \in Seq(K)
  BY <1>3, HeadTailProperties
<1>5. c \in K /\ Rest \in Seq(K)
  BY <1>1, <1>3, <1>4
<1>6. \A ch \in K : <<ch>> \o Rest \in Seq(K)
  BY <1>5
<1> QED BY <1>5, <1>6 DEF K

LEMMA OneOf == ASSUME NEW K, NEW ch \in K PROVE <<ch>> \in Seq(K)
OBVIOUS

LEMMA PlaceStays ==
    ASSUME PlaceInv, StreamInv, AtHand(in), src' = src, Kept, pc \notin Outside,
           stream' \in {Rest, <<c>> \o Rest, <<" ">> \o Rest, <<"\\">> \o (<<c>> \o Rest), stream},
           NulFree /\ pc' = "esc" => stream' # <<>> /\ Head(stream') # "eof"
    PROVE  PlaceInv'
<1>1. Text' = Text /\ NulFree' = NulFree
  BY TextStays DEF NulFree
<1>2. Suffix(in.buf \o Chars(in.reads))'
  <2>1. Suffix(in.buf \o Chars(in.reads))
    BY DEF PlaceInv
  <2> QED BY <1>1, <2>1 DEF Kept, Suffix
<1>3. NulFree => stream' \in Seq(Char \ {"nul"})
  <2> DEFINE K == Char \ {"nul"}
  <2>0. " " \in K /\ "\\" \in K
    BY Characters
  <2>1. SUFFICES ASSUME NulFree PROVE stream' \in Seq(K)
    OBVIOUS
  <2>2. stream \in Seq(K)
    BY <2>1 DEF PlaceInv
  <2>3. c \in K /\ Rest \in Seq(K) /\ \A ch \in K : <<ch>> \o Rest \in Seq(K)
    BY <2>2, NulFreeChar
  <2> HIDE DEF K, c
  <2>4. <<"\\">> \o (<<c>> \o Rest) \in Seq(K)
    <3>1. <<c>> \o Rest \in Seq(K)
      BY <2>3
    <3>2. "\\" \in K
      BY Characters DEF K
    <3>3. <<"\\">> \in Seq(K)
      BY <3>2, OneOf
    <3> QED BY <3>1, <3>3, ConcatProperties
  <2> QED BY <2>0, <2>2, <2>3, <2>4
<1> QED BY <1>1, <1>2, <1>3 DEF PlaceInv

\* A step of the lexer that reads.
LEMMA LexStepStream ==
    ASSUME StreamInv, AtHand(in), src' = src, Get \/ Look \/ UNCHANGED <<in, stream>>
    PROVE  StreamInv' /\ Kept /\ stream' \in {Rest, <<c>> \o Rest, stream}
<1>1. CASE Get
  BY <1>1, GetStep
<1>2. CASE Look
  BY <1>2, LookStep
<1>3. CASE UNCHANGED <<in, stream>>
  <2>1. Text' = Text
    BY TextStays
  <2>2. StreamInv'
    <3> HIDE DEF Text
    <3> QED BY <1>3, <2>1 DEF StreamInv
  <2> QED BY <1>3, <2>2 DEF Kept
<1> QED BY <1>1, <1>2, <1>3

LEMMA LexStepUnget ==
    ASSUME NEW L, StreamInv, UngetInv, LexStep(L)
    PROVE  UngetInv'
<1> DEFINE u == in.ungot
<1>1. /\ AtHand(in) /\ src' = src /\ (Get \/ Look \/ UNCHANGED <<in, stream>>)
      /\ pc \in Scanning /\ pc' \in Scanning \cup {"token"}
  BY DEF LexStep
<1>2. /\ u \in Seq(Char) /\ Len(u) \in {0, 1, 2} /\ (u = <<>> <=> Len(u) = 0) /\ Len(u) <= 2
  BY Ungot DEF UngetInv
<1>3. CASE Len(u) = 2
  <2>1. u[2] = "\\" /\ lex.w = "non" /\ pc = "top"
    BY <1>1, <1>3 DEF UngetInv, Scanning
  <2>2. c = "\\"
    <3>0. u # <<>>
      BY <1>2, <1>3
    <3>1. peek(in) = Last(u)
      <4>1. TakenIs(in)
        BY <1>1, Taken DEF StreamInv
      <4> QED BY <3>0, <4>1 DEF TakenIs
    <3> QED BY <1>3, <2>1, <3>1 DEF c, Last
  <2> HIDE DEF c
  <2>3. Get /\ pc' = "slash" /\ lex'.w = "non" /\ ~lex'.goterror
    BY <2>1, <2>2 DEF LexStep
  <2>4. Len(in'.ungot) = 1
    <3>1. Len(in'.ungot) = IF u = <<>> THEN 0 ELSE Len(u) - 1
      BY <1>1, <1>2, <2>3, GetUngot
    <3> HIDE DEF u
    <3> QED BY <1>2, <1>3, <3>1
  <2> QED BY <2>3, <2>4 DEF UngetInv
<1>4. CASE Len(u) <= 1
  <2>1. Get => in'.ungot = <<>>
    BY <1>1, <1>2, <1>4, GetUngot
  <2>2. Len(in'.ungot) <= 1
    <3>1. CASE Get
      BY <2>1, <3>1
    <3>2. CASE Look
      BY <1>1, <1>4, <3>2, LookUngot
    <3>3. CASE UNCHANGED <<in, stream>>
      BY <1>4, <3>3
    <3> QED BY <1>1, <3>1, <3>2, <3>3
  <2>3. ~(Len(in'.ungot) = 2) /\ Len(in'.ungot) <= 2
    <3>1. StreamInv'
      BY <1>1, LexStepStream
    <3> QED BY <2>2, <3>1, ShortUngot
  <2>4. pc' = "slash" => in'.ungot = <<>>
    BY <2>1 DEF LexStep
  <2>5. lex'.goterror => in'.ungot = <<>> /\ pc' = "token" /\ tok'.kind = "ERROR"
    BY <2>1 DEF LexStep
  <2>6. pc' = "token" /\ tok'.kind = "NL" => in'.ungot = <<>>
    BY <2>1 DEF LexStep
  <2>7. pc' \notin {"here", "mark"}
    BY <1>1 DEF Scanning
  <2> QED BY <2>3, <2>4, <2>5, <2>6, <2>7 DEF UngetInv
<1>5. Len(u) = 2 \/ Len(u) <= 1
  <2> HIDE DEF u
  <2>1. Len(u) \in {0, 1, 2}
    BY <1>2
  <2> QED BY <2>1, UpToTwo
<1> QED BY <1>3, <1>4, <1>5

LEMMA Apart ==
    /\ Scanning \cap Outside = {} /\ Scanning \cap Between = {} /\ Scanning \cap Hereing = {}
    /\ "abort" \notin Scanning /\ Scanning \subseteq Points /\ "token" \in Points
BY DEF Scanning, Outside, Between, Hereing, Points

LEMMA LexStepInv ==
    ASSUME NEW L, L = Letters, ReaderInv, LexStep(L)
    PROVE  ReaderInv'
<1>1. /\ Typed(L)' /\ src' = src /\ ParKept /\ AtHand(in)
      /\ (Get \/ Look \/ UNCHANGED <<in, stream>>)
      /\ pc \in Scanning /\ pc' \in Scanning \cup {"token"} /\ pc' # "esc"
  BY DEF LexStep
<1>2. StreamInv' /\ Kept /\ stream' \in {Rest, <<c>> \o Rest, stream}
  BY <1>1, LexStepStream DEF ReaderInv
<1>3. UngetInv'
  BY LexStepUnget DEF ReaderInv
<1>4. TypeInv'
  BY <1>1, TypeAfter, Apart DEF ReaderInv
<1>5. CleanInv'
  BY <1>1, Apart DEF ReaderInv, CleanInv, ParKept, Between
<1>6. PlaceInv'
  <2>1. pc \notin Outside
    BY <1>1, Apart
  <2> HIDE DEF c
  <2> QED BY <1>1, <1>2, <2>1, PlaceStays DEF ReaderInv
<1>7. DocInv'
  <2>1. pc' \notin Hereing
    BY <1>1, Apart DEF Hereing
  <2>2. HeredocExact'
    BY <1>1, ExactStays DEF ReaderInv, DocInv, ParKept
  <2> QED BY <2>1, <2>2 DEF DocInv, Hereing
<1> QED BY <1>2, <1>3, <1>4, <1>5, <1>6, <1>7 DEF ReaderInv

LEMMA StreamSame ==
    ASSUME StreamInv, UNCHANGED <<in, stream>>, src' = src
    PROVE  StreamInv'
<1>1. Text' = Text
  BY TextStays
<1> HIDE DEF Text
<1> QED BY <1>1 DEF StreamInv

LEMMA PlaceSame ==
    ASSUME PlaceInv, UNCHANGED <<in, stream>>, src' = src, pc' # "esc",
           pc' \in Outside \/ pc \notin Outside \/ in.fill # "eoffill"
    PROVE  PlaceInv'
<1>1. Text' = Text /\ NulFree' = NulFree
  BY TextStays DEF NulFree
<1> HIDE DEF Text, NulFree
<1> QED BY <1>1 DEF PlaceInv, Suffix

\* yylex is entered.
LEMMA YylexInv ==
    ASSUME NEW L, L = Letters, ReaderInv, Yylex
    PROVE  ReaderInv'
<1>1. /\ pc = "lex" /\ src' = src /\ UNCHANGED <<in, stream>> /\ pc' \in {"token", "top"}
  BY DEF Yylex
<1>2. lex \in LexType(L) /\ tok \in TokType(L) /\ par \in ParType(L)
  BY DEF ReaderInv, TypeInv, Typed
<1>3. CASE lex.goterror
  <2>1. /\ lex' = [lex EXCEPT !.goterror = FALSE]
        /\ tok' = [kind |-> "NL", s |-> <<>>] /\ pc' = "token" /\ par' = par
    BY <1>3 DEF Yylex
  <2>2. lex' \in LexType(L) /\ ~lex'.goterror /\ lex'.w = lex.w
    BY <1>2, <2>1, LexError
  <2>3. tok' \in TokType(L) /\ tok'.kind = "NL"
    <3>1. "NL" \in Kinds /\ <<>> \in Seq(L)
      BY DEF Kinds
    <3> QED BY <2>1, <3>1 DEF TokType
  <2>4. TypeInv'
    <3>1. Typed(L)'
      BY <1>2, <2>1, <2>2, <2>3 DEF Typed
    <3> QED BY <1>1, <2>1, <3>1, TypeAfter, Apart DEF ReaderInv
  <2>5. StreamInv'
    BY <1>1, StreamSame DEF ReaderInv
  <2>6. UngetInv'
    <3>1. in.ungot = <<>>
      BY <1>3 DEF ReaderInv, UngetInv
    <3>2. in'.ungot = <<>> /\ Len(in'.ungot) = 0
      BY <1>1, <3>1
    <3> QED BY <2>1, <2>2, <3>2 DEF UngetInv
  <2>7. CleanInv'
    BY <1>1, <2>1 DEF ReaderInv, CleanInv, Between
  <2>8. PlaceInv'
    BY <1>1, <2>1, PlaceSame DEF ReaderInv, Outside
  <2>9. DocInv'
    <3>1. HeredocExact'
      BY <1>1, <2>1, ExactStays DEF ReaderInv, DocInv
    <3> QED BY <2>1, <3>1 DEF DocInv, Hereing
  <2> QED BY <2>4, <2>5, <2>6, <2>7, <2>8, <2>9 DEF ReaderInv
<1>4. CASE ~lex.goterror
  <2>1. /\ lex' = [lex EXCEPT !.meta = IF lex.dollar THEN "dollar" ELSE "non_word",
                              !.dollar = FALSE, !.newline = FALSE]
        /\ par' = [par EXCEPT !.prompt2 = @ \/ lex.newline]
        /\ pc' = "top" /\ tok' = tok
    BY <1>4 DEF Yylex
  <2>2. lex' \in LexType(L) /\ ~lex'.goterror /\ lex'.w = lex.w
    BY <1>2, <1>4, <2>1 DEF LexType
  <2>3. /\ par' \in ParType(L) /\ ParKept
    <3> DEFINE b == par.prompt2 \/ lex.newline
    <3>1. b \in BOOLEAN
      OBVIOUS
    <3>2. par' = [par EXCEPT !.prompt2 = b]
      BY <2>1
    <3> HIDE DEF b
    <3> QED BY <1>2, <3>1, <3>2 DEF ParType, ParKept
  <2>4. TypeInv'
    <3>1. Typed(L)'
      BY <1>2, <2>1, <2>2, <2>3 DEF Typed
    <3>2. "top" \in Points
      BY DEF Points, Scanning
    <3> QED BY <1>1, <2>1, <3>1, <3>2, TypeAfter DEF ReaderInv
  <2>5. StreamInv'
    BY <1>1, StreamSame DEF ReaderInv
  <2>6. UngetInv'
    BY <1>1, <1>4, <2>1, <2>2 DEF ReaderInv, UngetInv
  <2>7. CleanInv'
    BY <1>1, <2>1, <2>3 DEF ReaderInv, CleanInv, Between, ParKept
  <2>8. PlaceInv'
    BY <1>1, <2>1, PlaceSame DEF ReaderInv, Outside
  <2>9. DocInv'
    <3>1. HeredocExact'
      BY <1>1, <2>3, ExactStays DEF ReaderInv, DocInv, ParKept
    <3> QED BY <2>1, <3>1 DEF DocInv, Hereing
  <2> QED BY <2>4, <2>5, <2>6, <2>7, <2>8, <2>9 DEF ReaderInv
<1> QED BY <1>3, <1>4

\* What a step says that leaves the parser's decisions and the documents alone.
LEMMA LexerGoesOn ==
    ASSUME NEW L, L = Letters, ReaderInv, pc \in Scanning, pc' \in Scanning \cup {"token"},
           src' = src, Typed(L)', ParKept, StreamInv', UngetInv', PlaceInv'
    PROVE  ReaderInv'
<1>1. TypeInv'
  BY TypeAfter, Apart DEF ReaderInv
<1>2. CleanInv'
  BY Apart DEF ReaderInv, CleanInv, ParKept, Between
<1>3. DocInv'
  <2>1. pc' \notin Hereing
    BY Apart DEF Hereing
  <2>2. HeredocExact'
    BY ExactStays DEF ReaderInv, DocInv, ParKept
  <2> QED BY <2>1, <2>2 DEF DocInv, Hereing
<1> QED BY <1>1, <1>2, <1>3 DEF ReaderInv

LEMMA Upto ==
    ASSUME NEW u, NEW ch, u = <<>> \/ u = <<"\\">> \/ u = <<ch, "\\">>
    PROVE  Len(u) <= 2 /\ (Len(u) = 2 => u[2] = "\\")
<1>1. CASE u = <<>>
  <2>1. Len(u) = 0
    BY <1>1
  <2> QED BY <2>1
<1>2. CASE u = <<"\\">>
  <2>1. Len(u) = 1
    BY <1>2
  <2> QED BY <2>1
<1>3. CASE u = <<ch, "\\">>
  <2>1. Len(u) = 2 /\ u[2] = "\\"
    BY <1>3
  <2> QED BY <2>1
<1> QED BY <1>1, <1>2, <1>3

\* A backslash: a continued line, the end of the source, a word that touches
\* another, or an escape.
LEMMA BackslashInv ==
    ASSUME NEW L, L = Letters, ReaderInv, Backslash
    PROVE  ReaderInv'
<1>1. /\ pc = "slash" /\ Ready /\ pc \in Scanning /\ pc \notin Outside
  BY DEF Backslash, At, Scanning, Outside
<1>2. StreamInv /\ UngetInv /\ PlaceInv /\ Shaped(in) /\ AtHand(in) /\ c \in Char /\ Typed(L)
  BY <1>1, ReadyIs DEF ReaderInv, StreamInv, TypeInv
<1>3. /\ in.ungot \in Seq(Char) /\ Len(in.ungot) <= 1 /\ ~lex.goterror
      /\ in.ungot # <<>> => lex.w = "non"
  BY <1>1, <1>2, Ungot DEF UngetInv
<1>4. /\ lex \in LexType(L) /\ tok \in TokType(L) /\ par \in ParType(L)
      /\ lex.w \in Lefts /\ "non" \in Lefts /\ "real" \in Lefts
      /\ "^" \in Kinds /\ <<>> \in Seq(L)
  <2>1. "non" \in Lefts /\ "real" \in Lefts /\ "^" \in Kinds
    BY DEF Lefts, Kinds
  <2>2. <<>> \in Seq(L)
    OBVIOUS
  <2> QED BY <1>2, <2>1, <2>2 DEF Typed, LexType, Lefts
<1>5. taken(in).ungot = <<>>
  BY <1>2, <1>3, TakenStream, Ungot
<1> HIDE DEF c
<1>6. CASE /\ c = "\n"
           /\ in' = unget(taken(in), " ") /\ stream' = <<" ">> \o Rest
           /\ print_prompt2 /\ pc' = "top" /\ UNCHANGED <<lex, tok, src>>
  <2>1. StreamInv' /\ Kept /\ Len(in'.ungot) <= 1
    BY <1>2, <1>3, <1>6, Characters, PushedBack, PushUngot
  <2>2. UngetInv'
    BY <1>3, <1>6, <2>1, ShortUngot DEF UngetInv
  <2>3. PlaceInv'
    BY <1>1, <1>2, <1>6, <2>1, PlaceStays
  <2>4. par' \in ParType(L) /\ ParKept
    BY <1>4, <1>6, ParLine DEF print_prompt2, ParKept
  <2>5. Typed(L)' /\ pc' \in Scanning
    BY <1>4, <1>6, <2>4 DEF Typed, Scanning
  <2> QED BY <1>1, <1>6, <2>1, <2>2, <2>3, <2>4, <2>5, LexerGoesOn
<1>7. CASE c = "eof" /\ Look /\ Scanerror(lex.w)
  <2>1. Made(L, "scanerror")
    BY <1>2, <1>4, <1>7, Scanerrors
  <2>2. src' = src /\ ParKept /\ pc' = "scanerror" /\ Typed(L)' /\ ~lex'.goterror
    BY <1>3, <2>1 DEF Made
  <2>3. StreamInv' /\ Kept /\ Len(in'.ungot) <= 1 /\ stream' = <<c>> \o Rest
    BY <1>2, <1>3, <1>7, <2>2, LookStep, LookUngot
  <2>4. UngetInv'
    BY <2>2, <2>3, ShortUngot DEF UngetInv
  <2>5. PlaceInv'
    BY <1>1, <1>2, <2>2, <2>3, PlaceStays
  <2>6. pc' \in Scanning
    BY <2>2 DEF Scanning
  <2> QED BY <1>1, <2>2, <2>3, <2>4, <2>5, <2>6, LexerGoesOn
<1>8. CASE /\ c \notin {"\n", "eof"} /\ lex.w # "non"
           /\ in' = unget(unget(taken(in), c), "\\") /\ stream' = <<"\\", c>> \o Rest
           /\ Return("^", "non")
  <2>1. Made(L, "token") /\ lex'.w = "non" /\ tok'.kind = "^"
    BY <1>2, <1>4, <1>8, Returns
  <2>2. src' = src /\ ParKept /\ pc' = "token" /\ Typed(L)' /\ ~lex'.goterror
    BY <1>3, <2>1 DEF Made
  <2>3. /\ StreamInv' /\ Kept
        /\ in'.ungot = <<>> \/ in'.ungot = <<"\\">> \/ in'.ungot = <<c, "\\">>
    BY <1>2, <1>5, <1>8, <2>2, Characters, PushedTwice
  <2>4. UngetInv'
    <3>1. Len(in'.ungot) <= 2 /\ (Len(in'.ungot) = 2 => in'.ungot[2] = "\\")
      BY <2>3, Upto
    <3> QED BY <2>1, <2>2, <3>1 DEF UngetInv
  <2>5. PlaceInv'
    <3>1. stream' = <<"\\">> \o (<<c>> \o Rest)
      <4> DEFINE a == <<"\\">>
                 b == <<c>>
                 r == Rest
      <4>1. a \in Seq(Char) /\ b \in Seq(Char) /\ r \in Seq(Char)
        BY <1>2, CharIs, Characters, OneOf
      <4>2. a \o b = <<"\\", c>>
        BY <1>2, Pairs, Characters
      <4> HIDE DEF a, b, r
      <4>3. a \o (b \o r) = (a \o b) \o r
        BY <4>1, Regroup
      <4>4. stream' = (a \o b) \o r
        BY <1>8, <4>2 DEF r
      <4> QED BY <4>3, <4>4 DEF a, b, r
    <3> QED BY <1>1, <1>2, <2>2, <2>3, <3>1, PlaceStays
  <2> QED BY <1>1, <2>2, <2>3, <2>4, <2>5, LexerGoesOn
<1>9. CASE c \notin {"\n", "eof"} /\ lex.w = "non" /\ Look /\ Scan("esc", <<>>, "real")
  <2>1. Made(L, "esc")
    BY <1>2, <1>4, <1>9, Scans
  <2>2. src' = src /\ ParKept /\ pc' = "esc" /\ Typed(L)' /\ ~lex'.goterror
    BY <1>3, <2>1 DEF Made
  <2>3. StreamInv' /\ Kept /\ Len(in'.ungot) <= 1 /\ stream' = <<c>> \o Rest
    BY <1>2, <1>3, <1>9, <2>2, LookStep, LookUngot
  <2>4. UngetInv'
    BY <2>2, <2>3, ShortUngot DEF UngetInv
  <2>5. PlaceInv'
    <3>1. Rest \in Seq(Char)
      BY <1>2, CharIs
    <3>2. stream' # <<>> /\ Head(stream') = c
      BY <1>2, <2>3, <3>1, FirstOf
    <3> QED BY <1>1, <1>2, <1>9, <2>2, <2>3, <3>2, PlaceStays
  <2>6. pc' \in Scanning
    BY <2>2 DEF Scanning
  <2> QED BY <1>1, <2>2, <2>3, <2>4, <2>5, <2>6, LexerGoesOn
<1> QED BY <1>6, <1>7, <1>8, <1>9 DEF Backslash

-----------------------------------------------------------------------------
(***************************************************************************)
(* Filling the buffer                                                      *)
(***************************************************************************)

LEMMA ReadingIs ==
    /\ Reading = Scanning \cup {"mark", "copy", "heredollar", "herevar", "term"}
    /\ Reading \cap Outside = {} /\ Reading \subseteq Points
    /\ Reading \cap {"token", "lex", "finish", "parse", "abort", "end"} = {}
<1>1. Reading = Scanning \cup {"mark", "copy", "heredollar", "herevar", "term"}
  BY DEF Reading, Scanning
<1>2. Reading \cap Outside = {} /\ Reading \cap {"token", "lex", "finish", "parse", "abort", "end"} = {}
  BY DEF Reading, Outside
<1>3. Reading \subseteq Points
  BY <1>1 DEF Points, Hereing, Between
<1> QED BY <1>1, <1>2, <1>3

\* A NUL that stands for no interrupt is left out.
LEMMA SkipNulInv ==
    ASSUME NEW L, L = Letters, ReaderInv, SkipNul
    PROVE  ReaderInv'
<1>1. /\ pc \in Reading /\ c = "nul" /\ Get /\ UNCHANGED <<lex, pc, tok, par, src>>
  BY DEF SkipNul
<1>2. AtHand(in)
  BY <1>1 DEF c, peek, AtHand
<1> HIDE DEF c
<1>3. StreamInv /\ UngetInv /\ PlaceInv /\ TypeInv /\ DocInv /\ CleanInv
  BY DEF ReaderInv
<1>4. StreamInv' /\ Kept /\ stream' = Rest
  BY <1>1, <1>2, <1>3, GetStep
<1>5. ~NulFree
  BY <1>1, <1>2, <1>3, NulFreeChar DEF PlaceInv
<1>6. in.ungot # <<>> => c = Last(in.ungot)
  BY <1>2, <1>3, Taken DEF TakenIs, StreamInv, c
<1>7. Len(in.ungot) # 2
  BY <1>1, <1>3, <1>6, Ungot DEF Last, UngetInv
<1>8. in'.ungot = <<>>
  <2>1. Len(in.ungot) <= 1
    BY <1>3, <1>7, Ungot, UpToTwo DEF UngetInv
  <2> QED BY <1>1, <1>2, <1>3, <2>1, GetUngot DEF UngetInv
<1>9. TypeInv'
  <2>1. Typed(L)' /\ pc' \in Points
    BY <1>1, <1>3 DEF TypeInv, Typed
  <2> QED BY <1>1, <1>3, <2>1, TypeAfter
<1>10. UngetInv'
  <2>1. Len(in'.ungot) = 0
    BY <1>8
  <2> QED BY <1>1, <1>3, <1>8, <2>1, ReadingIs DEF UngetInv
<1>11. CleanInv'
  BY <1>1, <1>3 DEF CleanInv
<1>12. NulFree' = NulFree
  BY <1>1, LettersAre
<1>13. PlaceInv'
  <2>1. pc \notin Outside
    BY <1>1, ReadingIs
  <2> QED BY <1>1, <1>2, <1>3, <1>4, <1>5, <2>1, PlaceStays
<1>14. DocInv'
  <2>1. HeredocExact'
    BY <1>1, <1>3, ExactStays DEF DocInv
  <2>2. eof' = eof /\ quoted' = quoted
    BY <1>1 DEF eof, quoted
  <2> HIDE DEF NulFree, eof, quoted
  <2> QED BY <1>1, <1>3, <1>5, <1>12, <2>1, <2>2 DEF DocInv
<1> QED BY <1>4, <1>9, <1>10, <1>11, <1>13, <1>14 DEF ReaderInv

\* A suffix of a suffix is one.
LEMMA SuffixOf ==
    ASSUME NEW a \in Seq(Char), NEW b \in Seq(Char), NEW t \in Seq(Char),
           Len(a \o b) <= Len(t), a \o b = SubSeq(t, Len(t) - Len(a \o b) + 1, Len(t))
    PROVE  Len(b) <= Len(t) /\ b = SubSeq(t, Len(t) - Len(b) + 1, Len(t))
<1> DEFINE n == Len(t)
           k == Len(a)
           l == Len(b)
           p == n - (k + l) + 1
           ab == a \o b
<1>1. n \in Nat /\ k \in Nat /\ l \in Nat
  BY EmptySeq
<1>2. /\ Len(ab) = k + l
      /\ \A i \in 1..k + l : ab[i] = IF i <= k THEN a[i] ELSE b[i - k]
  BY ConcatProperties
<1>3. k + l <= n /\ ab = SubSeq(t, p, n)
  BY <1>2
<1>4. \A i \in 1..n : t[i] \in Char
  BY <1>1
<1> HIDE DEF n, k, l, ab
<1>5. p \in Int /\ p >= 1 /\ p <= n + 1 /\ \A i \in p..n : i \in 1..n
  BY <1>1, <1>3
<1>6. \A i \in 1..n - p + 1 : SubSeq(t, p, n)[i] = t[p + i - 1]
  <2>1. \A i \in p..n : t[i] \in Char
    BY <1>4, <1>5
  <2> HIDE DEF p
  <2> QED BY <1>1, <1>5, <2>1, SubSeqProperties
<1> DEFINE q == n - l + 1
<1>7. /\ q \in Int /\ q >= 1 /\ \A i \in q..n : i \in 1..n
      /\ n - q + 1 = l /\ (q <= n <=> l > 0)
  BY <1>1, <1>3
<1>8. /\ SubSeq(t, q, n) \in Seq(Char) /\ Len(SubSeq(t, q, n)) = l
      /\ \A i \in 1..l : SubSeq(t, q, n)[i] = t[q + i - 1]
  <2>1. \A i \in q..n : t[i] \in Char
    BY <1>4, <1>7
  <2> HIDE DEF q
  <2>2. /\ SubSeq(t, q, n) \in Seq(Char)
        /\ Len(SubSeq(t, q, n)) = IF q <= n THEN n - q + 1 ELSE 0
        /\ \A i \in 1..n - q + 1 : SubSeq(t, q, n)[i] = t[q + i - 1]
    BY <1>1, <1>7, <2>1, SubSeqProperties
  <2> QED BY <1>1, <1>7, <2>2
<1>9. ASSUME NEW i \in 1..l PROVE b[i] = SubSeq(t, q, n)[i]
  <2>1. k + i \in 1..k + l /\ ~(k + i <= k) /\ (k + i) - k = i
    BY <1>1
  <2>2. ab[k + i] = b[i]
    BY <1>2, <2>1
  <2>3. k + i \in 1..n - p + 1 /\ p + (k + i) - 1 = q + i - 1
    BY <1>1, <2>1
  <2>4. ab[k + i] = t[q + i - 1]
    <3> DEFINE j == k + i
    <3>1. j \in 1..n - p + 1 /\ p + j - 1 = q + i - 1
      BY <2>3
    <3> HIDE DEF j, p, q
    <3>2. ab[j] = t[p + j - 1]
      BY <1>3, <1>6, <3>1
    <3> QED BY <3>1, <3>2 DEF j
  <2> HIDE DEF q
  <2> QED BY <1>8, <2>2, <2>4
<1>10. b = SubSeq(t, q, n)
  <2> HIDE DEF q
  <2>1. Len(b) = l
    BY DEF l
  <2> QED BY <1>8, <1>9, <2>1, SeqEqual
<1> QED BY <1>1, <1>3, <1>10 DEF n, l

\* What a buffer that is used up holds.
LEMMA FillIs ==
    ASSUME StreamInv, FillWanted
    PROVE  /\ in.ungot = <<>> /\ in.fill = "fdfill" /\ Unread(in) = stream
           /\ Chars(in.reads) = stream /\ in.reads \in Reads /\ in \in InputType
<1>1. Shaped(in) /\ Held(in) = stream /\ in.fill = "fdfill" /\ ~Buffered(in)
  BY DEF StreamInv, FillWanted
<1>2. in.ungot = <<>> /\ Unread(in) = stream
  BY <1>1, HeldIs DEF Shaped
<1>3. Chars(in.reads) \in Seq(Char) /\ in.reads \in Reads /\ in \in InputType /\ in.buf \in Seq(Char) /\ Len(in.buf) \in Nat
  BY <1>1, InputFacts
<1>4. in.at = Len(in.buf) + 1 /\ Place(in) = in.at
  <2>1. in.at \in 1..Len(in.buf) + 1
    BY <1>1 DEF Shaped, Place
  <2>2. in.at > Len(in.buf)
    BY <1>1, <1>3, <2>1 DEF Buffered
  <2> QED BY <1>1, <1>3, <2>1, <2>2 DEF Place
<1>5. SubSeq(in.buf, Place(in), Len(in.buf)) = <<>>
  <2> DEFINE s == SubSeq(in.buf, Place(in), Len(in.buf))
  <2>1. s \in Seq(Char) /\ Len(s) = 0
    BY <1>1, <1>3, <1>4, PlaceIs
  <2> HIDE DEF s
  <2>2. s = <<>>
    BY <2>1, EmptySeq
  <2> QED BY <2>2 DEF s
<1>6. Unread(in) = Chars(in.reads)
  BY <1>3, <1>5, ConcatEmptySeq DEF Unread
<1> QED BY <1>1, <1>2, <1>3, <1>6

\* The input after a fill: it holds what it held.
LEMMA FilledStream ==
    ASSUME StreamInv, FillWanted, src' = src, stream' = stream,
           Shaped(in'), in'.ungot = <<>>, Unread(in') = Unread(in),
           in'.verbose = in.verbose, in'.echoed = in.echoed,
           Range(in'.reads) \subseteq Range(in.reads)
    PROVE  StreamInv'
<1>1. Held(in') = stream'
  BY FillIs, HeldIs
<1>2. Text' = Text /\ Unread(in)' = Unread(in') /\ Held(in)' = Held(in') /\ Shaped(in)' = Shaped(in')
  BY TextStays
<1>3. in.verbose /\ src.sound => in.echoed + Len(Unread(in)) = Len(Text)
  BY DEF StreamInv
<1>4. src.sound => Sound(in.reads)
  BY DEF StreamInv
<1> HIDE DEF Text, Unread, Held, Shaped
<1>5. (src.sound => Sound(in.reads))'
  BY <1>4 DEF Sound
<1> QED BY <1>1, <1>2, <1>3, <1>5 DEF StreamInv

\* Nothing but the input and perhaps the parser's error changes, or it is thrown.
LEMMA FilledOther ==
    ASSUME NEW L, L = Letters, ReaderInv, FillWanted, in'.ungot = <<>>, stream' \in {stream, <<>>},
           UNCHANGED <<lex, tok, src>>, par' \in ParType(L),
           /\ par'.queue = par.queue /\ par'.docs = par.docs
           /\ pc' \in {pc, "thrown"} /\ (pc' # "thrown" => stream' = stream),
           src.sound => IF pc' = pc THEN par' = par ELSE ~par'.error /\ par'.gcblocked = 0,
           pc' \notin Outside \/ in'.fill # "eoffill" => Suffix(in'.buf \o Chars(in'.reads)),
           StreamInv'
    PROVE  ReaderInv'
<1>1. /\ pc \in Reading /\ in.ungot = <<>>
      /\ StreamInv /\ UngetInv /\ PlaceInv /\ TypeInv /\ DocInv /\ CleanInv
  BY FillIs DEF ReaderInv, FillWanted
<1>2. Text' = Text /\ NulFree' = NulFree
  BY LettersAre
<1>3. TypeInv'
  <2>1. Typed(L)'
    BY <1>1 DEF TypeInv, Typed
  <2>2. pc' \in Points
    BY <1>1, ReadingIs DEF Points, Between
  <2> QED BY <1>1, <2>1, <2>2, TypeAfter
<1>4. UngetInv'
  <2>1. Len(in'.ungot) = 0
    OBVIOUS
  <2>2. ~lex.goterror
    BY <1>1, ReadingIs DEF UngetInv
  <2> QED BY <2>1, <2>2 DEF UngetInv
<1>5. CleanInv'
  <2>1. CASE pc' = pc
    BY <1>1, <2>1 DEF CleanInv
  <2>2. CASE pc' # pc
    BY <1>1, <2>2 DEF CleanInv, Between
  <2> QED BY <2>1, <2>2
<1>6. PlaceInv'
  <2>1. Suffix(in.buf \o Chars(in.reads))' <=> Suffix(in'.buf \o Chars(in'.reads))
    BY <1>2 DEF Suffix
  <2> HIDE DEF Suffix, NulFree
  <2>2. NulFree => stream' \in Seq(Char \ {"nul"})
    <3> DEFINE K == Char \ {"nul"}
    <3>1. NulFree => stream \in Seq(K)
      BY <1>1 DEF PlaceInv
    <3> HIDE DEF K
    <3>2. <<>> \in Seq(K)
      OBVIOUS
    <3>3. NulFree => stream' \in Seq(K)
      BY <3>1, <3>2
    <3> QED BY <3>3 DEF K
  <2>3. NulFree /\ pc' = "esc" => stream' # <<>> /\ Head(stream') # "eof"
    <3> SUFFICES ASSUME NulFree, pc' = "esc" PROVE stream' # <<>> /\ Head(stream') # "eof"
      OBVIOUS
    <3>1. pc = "esc" /\ stream' = stream
      OBVIOUS
    <3>2. stream # <<>> /\ Head(stream) # "eof"
      BY <1>1, <3>1 DEF PlaceInv
    <3> QED BY <3>1, <3>2
  <2> QED BY <1>2, <2>1, <2>2, <2>3 DEF PlaceInv
<1>7. DocInv'
  <2>1. HeredocExact'
    BY <1>1, ExactStays DEF DocInv
  <2>2. CASE pc' = "thrown"
    BY <2>1, <2>2 DEF DocInv, Hereing
  <2>3. CASE pc' # "thrown"
    <3>1. pc' = pc /\ stream' = stream /\ in'.ungot = in.ungot
      BY <1>1, <2>3
    <3>2. (eof)' = eof /\ (quoted)' = quoted
      BY DEF eof, quoted
    <3>3. Pos' = Pos
      BY <1>2, <3>1 DEF Pos
    <3> HIDE DEF Text, NulFree, eof, quoted, Pos
    <3> QED BY <1>1, <1>2, <2>1, <3>1, <3>2, <3>3 DEF DocInv
  <2> QED BY <2>2, <2>3
<1> QED BY <1>3, <1>4, <1>5, <1>6, <1>7 DEF ReaderInv

LEMMA RangeTail ==
    ASSUME NEW S, NEW q \in Seq(S), q # <<>>
    PROVE  Range(Tail(q)) \subseteq Range(q) /\ Head(q) \in Range(q)
<1>1. Tail(q) \in Seq(S) /\ Len(Tail(q)) = Len(q) - 1 /\ Head(q) = q[1]
      /\ \A i \in 1..Len(Tail(q)) : Tail(q)[i] = q[i + 1]
  BY HeadTailProperties
<1>2. Len(q) \in Nat /\ Len(q) > 0 /\ DOMAIN q = 1..Len(q) /\ DOMAIN Tail(q) = 1..Len(Tail(q))
  BY <1>1, EmptySeq
<1>3. \A i \in 1..Len(Tail(q)) : i + 1 \in 1..Len(q)
  BY <1>1, <1>2
<1> QED BY <1>1, <1>2, <1>3 DEF Range

\* A fill gives the lexer what the next read gives.
LEMMA FillInv ==
    ASSUME NEW L, L = Letters, SourcesAssumption, ReaderInv, Fill
    PROVE  ReaderInv'
<1>1. /\ FillWanted /\ in.reads # <<>> /\ Head(in.reads).fails = "no"
      /\ in' = [in EXCEPT !.buf = Head(in.reads).chars, !.at = 1, !.reads = Tail(@),
                          !.intr = src.tty /\ Head(Head(in.reads).chars) = "nul"]
      /\ UNCHANGED <<lex, pc, tok, par, src, stream>>
  BY DEF Fill, NextRead
<1>2. StreamInv /\ Shaped(in) /\ src \in Sources /\ Typed(L) /\ CleanInv
  BY DEF ReaderInv, StreamInv, TypeInv
<1>3. /\ in.ungot = <<>> /\ in.fill = "fdfill" /\ Unread(in) = stream
      /\ Chars(in.reads) = stream /\ in.reads \in Reads /\ in \in InputType
  BY <1>1, <1>2, FillIs
<1> DEFINE h == Head(in.reads).chars
           t == Tail(in.reads)
           b == src.tty /\ Head(h) = "nul"
<1>4. h \in Seq(Byte) /\ t \in Reads /\ Chars(in.reads) = h \o Chars(t) /\ Chars(t) \in Seq(Byte)
  <2>1. /\ t \in Reads /\ Head(in.reads) \in Read
        /\ Chars(in.reads) = Given(Head(in.reads)) \o Chars(t) /\ Chars(t) \in Seq(Byte)
    BY <1>1, <1>3, CharsIs
  <2> QED BY <1>1, <2>1 DEF Given, Read
<1>5. b \in BOOLEAN
  BY <1>2 DEF SourcesAssumption
<1>6. in' = [in EXCEPT !.buf = h, !.at = 1, !.reads = t, !.intr = b]
  BY <1>1
<1>7. Range(t) \subseteq Range(in.reads)
  BY <1>1, <1>3, RangeTail DEF Reads
<1> HIDE DEF h, t, b
<1>8. /\ in' \in InputType /\ in'.buf = h /\ in'.at = 1 /\ in'.reads = t /\ in'.ungot = <<>>
      /\ in'.fill = "fdfill" /\ in'.verbose = in.verbose /\ in'.echoed = in.echoed
  BY <1>3, <1>4, <1>5, <1>6 DEF InputType
<1>9. Len(h) \in Nat /\ SubSeq(h, 1, Len(h)) = h /\ h \in Seq(Char) /\ Chars(t) \in Seq(Char)
  BY <1>4, Bytes, SubSeqFull
<1>10. Shaped(in') /\ Unread(in') = Unread(in)
  <2>1. Place(in') = 1 /\ Filler(in') = "fdfill" /\ 1 \in 1..Len(h) + 1
    BY <1>8, <1>9 DEF Place, Filler
  <2>2. Shaped(in')
    BY <1>8, <2>1 DEF Shaped
  <2>3. Unread(in') = h \o Chars(t)
    BY <1>8, <1>9, <2>1 DEF Unread
  <2> QED BY <1>3, <1>4, <2>2, <2>3
<1>11. StreamInv'
  BY <1>1, <1>2, <1>7, <1>8, <1>10, FilledStream
<1>12. Suffix(in'.buf \o Chars(in'.reads))
  <2>1. Suffix(in.buf \o stream)
    BY <1>1, <1>3, ReadingIs DEF ReaderInv, PlaceInv, FillWanted
  <2>2. in.buf \in Seq(Char) /\ stream \in Seq(Char) /\ Text \in Seq(Char)
    <3>1. src.reads \in Reads
      BY <1>2 DEF SourcesAssumption
    <3> QED BY <1>2, <1>3, <3>1, InputFacts, CharsIs, Bytes DEF Text
  <2>3. Suffix(stream)
    <3> HIDE DEF Text
    <3> QED BY <2>1, <2>2, SuffixOf DEF Suffix
  <2> QED BY <1>3, <1>4, <1>8, <2>3
<1>13. par \in ParType(L)
  BY <1>2 DEF Typed
<1> QED BY <1>1, <1>8, <1>11, <1>12, <1>13, FilledOther

LEMMA FillEofInv ==
    ASSUME NEW L, L = Letters, ReaderInv, FillEof
    PROVE  ReaderInv'
<1>1. /\ FillWanted /\ in.reads = <<>> /\ in' = [in EXCEPT !.fill = "eoffill"]
      /\ UNCHANGED <<lex, pc, tok, par, src, stream>>
  BY DEF FillEof
<1>2. StreamInv /\ Shaped(in) /\ Typed(L)
  BY DEF ReaderInv, StreamInv, TypeInv
<1>3. in.ungot = <<>> /\ in.fill = "fdfill" /\ Unread(in) = stream /\ in \in InputType
  BY <1>1, <1>2, FillIs
<1>4. /\ in' \in InputType /\ in'.buf = in.buf /\ in'.at = in.at /\ in'.reads = in.reads
      /\ in'.ungot = <<>> /\ in'.fill = "eoffill" /\ in'.verbose = in.verbose /\ in'.echoed = in.echoed
  BY <1>1, <1>3 DEF InputType, Fills
<1>5. Shaped(in') /\ Unread(in') = Unread(in)
  <2>1. Place(in') = Place(in)
    BY <1>3, <1>4 DEF Place
  <2> QED BY <1>1, <1>2, <1>4, <2>1 DEF Shaped, Filler, Unread
<1>6. StreamInv'
  BY <1>1, <1>2, <1>4, <1>5, FilledStream
<1>7. Suffix(in'.buf \o Chars(in'.reads))
  BY <1>1, <1>4, ReadingIs DEF ReaderInv, PlaceInv, FillWanted
<1>8. par \in ParType(L)
  BY <1>2 DEF Typed
<1> QED BY <1>1, <1>4, <1>6, <1>7, <1>8, FilledOther

\* A read that gives nothing and is thrown away.
LEMMA DroppedRead ==
    ASSUME StreamInv, FillWanted, in.reads # <<>>, Head(in.reads).fails # "no",
           in' = [in EXCEPT !.reads = Tail(@)], src' = src, stream' = stream
    PROVE  /\ StreamInv' /\ in'.ungot = <<>> /\ in'.fill = "fdfill"
           /\ in'.buf \o Chars(in'.reads) = in.buf \o Chars(in.reads)
           /\ Head(in.reads) \in Range(in.reads)
<1>1. /\ in.ungot = <<>> /\ in.fill = "fdfill" /\ in.reads \in Reads /\ in \in InputType /\ Shaped(in)
  BY FillIs DEF StreamInv
<1> DEFINE h == Head(in.reads)
           t == Tail(in.reads)
<1>2. t \in Reads /\ Chars(in.reads) = Chars(t)
  <2>1. t \in Reads /\ Chars(in.reads) = Given(h) \o Chars(t) /\ Chars(t) \in Seq(Byte)
    BY <1>1, CharsIs
  <2>2. Given(h) = <<>>
    BY DEF Given
  <2> QED BY <2>1, <2>2, ConcatEmptySeq
<1>3. Range(t) \subseteq Range(in.reads) /\ h \in Range(in.reads)
  BY <1>1, RangeTail DEF Reads
<1>4. in' = [in EXCEPT !.reads = t]
  OBVIOUS
<1> HIDE DEF t, h
<1>5. /\ in' \in InputType /\ in'.buf = in.buf /\ in'.at = in.at /\ in'.reads = t
      /\ in'.ungot = <<>> /\ in'.fill = "fdfill" /\ in'.verbose = in.verbose /\ in'.echoed = in.echoed
  BY <1>1, <1>2, <1>4 DEF InputType
<1>6. Shaped(in') /\ Unread(in') = Unread(in)
  <2>1. Place(in') = Place(in)
    BY <1>1, <1>5 DEF Place
  <2> QED BY <1>1, <1>2, <1>5, <2>1 DEF Shaped, Filler, Unread
<1>7. StreamInv'
  BY <1>3, <1>5, <1>6, FilledStream
<1> QED BY <1>2, <1>3, <1>5, <1>7 DEF h

LEMMA FillSignalInv ==
    ASSUME NEW L, L = Letters, ReaderInv, FillSignal
    PROVE  ReaderInv'
<1>1. /\ FillWanted /\ in.reads # <<>> /\ Head(in.reads).fails # "no"
      /\ in' = [in EXCEPT !.reads = Tail(@)] /\ par' = [par EXCEPT !.error = FALSE, !.gcblocked = 0]
      /\ pc' = "thrown" /\ UNCHANGED <<lex, tok, src, stream>>
  BY DEF FillSignal, NextRead, Signal
<1>2. StreamInv /\ par \in ParType(L)
  BY DEF ReaderInv, TypeInv, Typed
<1>3. /\ StreamInv' /\ in'.ungot = <<>> /\ in'.fill = "fdfill"
      /\ in'.buf \o Chars(in'.reads) = in.buf \o Chars(in.reads)
  BY <1>1, <1>2, DroppedRead
<1>4. Suffix(in'.buf \o Chars(in'.reads))
  BY <1>1, <1>3, ReadingIs DEF ReaderInv, PlaceInv, FillWanted
<1>5. /\ par' \in ParType(L) /\ ~par'.error /\ par'.gcblocked = 0
      /\ par'.queue = par.queue /\ par'.docs = par.docs
  <2>1. 0 \in Int /\ FALSE \in BOOLEAN
    OBVIOUS
  <2>2. par' \in ParType(L)
    BY <1>1, <1>2, <2>1 DEF ParType
  <2>3. ~par'.error /\ par'.gcblocked = 0 /\ par'.queue = par.queue /\ par'.docs = par.docs
    BY <1>1, <1>2 DEF ParType
  <2> QED BY <2>2, <2>3
<1>6. pc' # pc
  BY <1>1, ReadingIs DEF FillWanted, Outside
<1> QED BY <1>1, <1>3, <1>4, <1>5, <1>6, FilledOther

LEMMA FillNoopInv ==
    ASSUME NEW L, L = Letters, ReaderInv, FillNoop
    PROVE  ReaderInv'
<1>1. /\ FillWanted /\ in.reads # <<>> /\ Head(in.reads).fails \in {"error", "noop"}
      /\ in' = [in EXCEPT !.reads = Tail(@)] /\ par' = [par EXCEPT !.error = FALSE]
      /\ UNCHANGED <<lex, pc, tok, src, stream>>
  BY DEF FillNoop, NextRead
<1>2. StreamInv /\ par \in ParType(L)
  BY DEF ReaderInv, TypeInv, Typed
<1>3. /\ StreamInv' /\ in'.ungot = <<>> /\ in'.fill = "fdfill"
      /\ in'.buf \o Chars(in'.reads) = in.buf \o Chars(in.reads)
      /\ Head(in.reads) \in Range(in.reads)
  BY <1>1, <1>2, DroppedRead
<1>4. Suffix(in'.buf \o Chars(in'.reads))
  BY <1>1, <1>3, ReadingIs DEF ReaderInv, PlaceInv, FillWanted
<1>5. par' \in ParType(L) /\ par'.queue = par.queue /\ par'.docs = par.docs
  BY <1>1, <1>2 DEF ParType
<1>6. ~src.sound
  BY <1>1, <1>2, <1>3 DEF StreamInv, Sound
<1>7. pc # "thrown"
  BY <1>1, ReadingIs DEF FillWanted, Outside
<1> QED BY <1>1, <1>3, <1>4, <1>5, <1>6, <1>7, FilledOther

\* A read that fails ends the source.
LEMMA FillErrorInv ==
    ASSUME NEW L, L = Letters, ReaderInv, FillError
    PROVE  ReaderInv'
<1>1. /\ FillWanted /\ in.reads # <<>> /\ Head(in.reads).fails \in {"error", "noop"}
      /\ in' = [in EXCEPT !.reads = <<>>, !.fill = "eoffill"] /\ stream' = <<>>
      /\ pc' = "thrown" /\ UNCHANGED <<lex, tok, par, src>>
  BY DEF FillError, NextRead
<1>2. StreamInv /\ Shaped(in) /\ par \in ParType(L)
  BY DEF ReaderInv, TypeInv, Typed, StreamInv
<1>3. /\ in.ungot = <<>> /\ in.fill = "fdfill" /\ in.reads \in Reads /\ in \in InputType
      /\ Unread(in) = Chars(in.reads)
  BY <1>1, <1>2, FillIs
<1>4. ~src.sound
  <2>1. Head(in.reads) \in Range(in.reads)
    BY <1>1, <1>3, RangeTail DEF Reads
  <2> QED BY <1>1, <1>2, <2>1 DEF StreamInv, Sound
<1>5. /\ in' \in InputType /\ in'.buf = in.buf /\ in'.at = in.at /\ in'.reads = <<>>
      /\ in'.ungot = <<>> /\ in'.fill = "eoffill"
  <2>1. <<>> \in Reads
    BY DEF Reads
  <2> QED BY <1>1, <1>3, <2>1 DEF InputType, Fills
<1>6. Shaped(in') /\ Held(in') = <<>>
  <2>1. Place(in') = Place(in) /\ Place(in) = in.at
    BY <1>3, <1>5 DEF Place
  <2>2. Shaped(in')
    BY <1>2, <1>5, <2>1 DEF Shaped, Filler
  <2>3. /\ Len(Unread(in)) = Len(in.buf) + 1 - Place(in) + Len(Chars(in.reads))
        /\ Len(Unread(in')) = Len(in.buf) + 1 - Place(in) + Len(Chars(<<>>))
        /\ Held(in') = Unread(in') /\ Unread(in') \in Seq(Char)
    BY <1>2, <1>5, <2>1, <2>2, HeldIs
  <2>4. Chars(<<>>) = <<>> /\ Len(Chars(in.reads)) \in Nat /\ Len(<<>>) = 0
    <3>1. <<>> \in Reads
      BY DEF Reads
    <3> QED BY <1>3, <3>1, CharsIs
  <2>5. in.at \in Nat /\ Len(in.buf) \in Nat
    BY <1>2, InputFacts
  <2> DEFINE k == Len(Chars(in.reads))
             n == Len(in.buf)
             z == Len(Unread(in'))
  <2>6. k = n + 1 - in.at + k /\ z = n + 1 - in.at + 0 /\ k \in Nat /\ n \in Nat
    BY <1>3, <2>1, <2>3, <2>4, <2>5
  <2> HIDE DEF k, n, z
  <2>7. z = 0
    BY <2>5, <2>6, SMTT(40)
  <2> QED BY <2>2, <2>3, <2>7, EmptySeq DEF z
<1>7. StreamInv'
  <2>1. Held(in)' = stream' /\ Shaped(in)'
    BY <1>1, <1>6
  <2>2. ~src'.sound
    BY <1>1, <1>4
  <2> HIDE DEF Held, Shaped
  <2> QED BY <2>1, <2>2 DEF StreamInv
<1>8. pc' # pc /\ pc' \in Outside
  BY <1>1, ReadingIs DEF FillWanted, Outside
<1> QED BY <1>1, <1>2, <1>4, <1>5, <1>7, <1>8, FilledOther

LEMMA ReadInv ==
    ASSUME NEW L, L = Letters, SourcesAssumption, ReaderInv, read
    PROVE  ReaderInv'
BY SkipNulInv, FillInv, FillEofInv, FillSignalInv, FillNoopInv, FillErrorInv DEF read

-----------------------------------------------------------------------------
(***************************************************************************)
(* The parser                                                              *)
(***************************************************************************)

\* Where the parser leads.
Parsing == {"lex", "token", "finish", "here", "parse", "end", "abort", "term"}

LEMMA ParserGoesOn ==
    ASSUME NEW L, L = Letters, ReaderInv, UNCHANGED <<in, stream>>, src' = src, Typed(L)',
           pc' \in Parsing, pc' \in Outside \/ pc \notin Outside \/ in.fill # "eoffill",
           UngetInv', CleanInv', par'.docs \in {par.docs, <<>>},
           pc' = "here" => par'.queue # <<>>
    PROVE  ReaderInv'
<1>1. TypeInv'
  <2>1. pc' \in Points
    BY DEF Parsing, Points, Between, Hereing
  <2> QED BY <2>1, TypeAfter DEF ReaderInv
<1>2. StreamInv'
  BY StreamSame DEF ReaderInv
<1>3. PlaceInv'
  <2>1. pc' # "esc"
    BY DEF Parsing
  <2> QED BY <2>1, PlaceSame DEF ReaderInv
<1>4. DocInv'
  <2>1. HeredocExact'
    BY ExactStays DEF ReaderInv, DocInv
  <2>2. pc' \in Hereing => pc' = "here"
    BY DEF Parsing, Hereing
  <2>3. pc' \notin {"mark", "copy", "heredollar", "herevar"}
    BY DEF Parsing
  <2> HIDE DEF NulFree
  <2> QED BY <2>1, <2>2, <2>3 DEF DocInv
<1> QED BY <1>1, <1>2, <1>3, <1>4 DEF ReaderInv

\* The constructs that are open.
LEMMA OpenedIs ==
    ASSUME NEW L, NEW b \in Brackets
    PROVE  Opened(b) \in FrameType(L) /\ Opened(b).open = b
BY DEF Opened, FrameType

LEMMA NestFirst ==
    ASSUME NEW L
    PROVE  <<Opened("top")>> \in NestType(L)
<1>1. Opened("top") \in FrameType(L) /\ Opened("top").open = "top"
  BY OpenedIs DEF Brackets
<1> QED BY <1>1 DEF NestType

LEMMA ReverseIs ==
    ASSUME NEW S, NEW q \in Seq(S)
    PROVE  Reverse(q) \in Seq(S) /\ Len(Reverse(q)) = Len(q)
<1>1. \A i \in 1..Len(q) : q[Len(q) - i + 1] \in S
  OBVIOUS
<1> QED BY <1>1 DEF Reverse

LEMMA FrameIs ==
    ASSUME NEW L, par \in ParType(L)
    PROVE  /\ frame \in FrameType(L) /\ frame.open = Last(par.nest).open
           /\ Pending \in Seq(MarkerType(L)) /\ Reduced \in Seq(MarkerType(L))
<1> DEFINE f == Last(par.nest)
<1>1. par.nest \in NestType(L) /\ par.marker \in Seq(MarkerType(L))
  BY DEF ParType
<1>2. f \in FrameType(L)
  BY <1>1 DEF NestType, Last
<1>3. /\ f.trail \o par.marker \in Seq(MarkerType(L)) /\ f.leads \o par.marker \in Seq(MarkerType(L))
  BY <1>1, <1>2 DEF FrameType
<1> HIDE DEF f
<1>4. frame = IF f.begun THEN [f EXCEPT !.trail = f.trail \o par.marker]
              ELSE [f EXCEPT !.leads = f.leads \o par.marker]
  BY DEF frame, f
<1>5. frame \in FrameType(L) /\ frame.open = f.open
  BY <1>2, <1>3, <1>4 DEF FrameType
<1>6. /\ frame.trail \in Seq(MarkerType(L)) /\ frame.leads \in Seq(MarkerType(L))
      /\ frame.outer \in Seq(MarkerType(L))
  BY <1>5 DEF FrameType
<1>7. /\ Reverse(frame.leads) \in Seq(MarkerType(L))
      /\ Reverse(frame.outer \o frame.leads) \in Seq(MarkerType(L))
  BY <1>6, ReverseIs, ConcatProperties
<1>8. Pending \in Seq(MarkerType(L))
  BY <1>6, <1>7, ConcatProperties DEF Pending
<1>9. Reduced \in {Pending, frame.trail, frame.trail \o Reverse(frame.leads)}
  BY DEF Reduced
<1>10. frame.trail \o Reverse(frame.leads) \in Seq(MarkerType(L))
  BY <1>6, <1>7, ConcatProperties
<1> QED BY <1>5, <1>6, <1>8, <1>9, <1>10 DEF f

\* All but the last of a sequence.
LEMMA FrontIs ==
    ASSUME NEW S, NEW n \in Seq(S), n # <<>>
    PROVE  /\ Front(n) \in Seq(S) /\ Len(Front(n)) = Len(n) - 1
           /\ \A i \in 1..Len(n) - 1 : Front(n)[i] = n[i]
<1>1. Len(n) \in Nat \ {0}
  BY EmptySeq
<1>2. Front(n) = SubSeq(n, 1, Len(n) - 1)
  BY DEF Front
<1>3. Len(n) - 1 \in Int /\ \A i \in 1..Len(n) - 1 : n[i] \in S
  BY <1>1
<1>4. /\ Front(n) \in Seq(S) /\ Len(Front(n)) = IF 1 <= Len(n) - 1 THEN Len(n) - 1 - 1 + 1 ELSE 0
      /\ \A i \in 1..Len(n) - 1 - 1 + 1 : Front(n)[i] = n[1 + i - 1]
  BY <1>2, <1>3, SubSeqProperties
<1>5. \A m \in Nat \ {0} : /\ m - 1 - 1 + 1 = m - 1 /\ (~(1 <= m - 1) => m - 1 = 0)
                           /\ \A i \in 1..m - 1 : i \in 1..m - 1 - 1 + 1 /\ 1 + i - 1 = i
  OBVIOUS
<1>6. /\ Len(n) - 1 - 1 + 1 = Len(n) - 1 /\ (~(1 <= Len(n) - 1) => Len(n) - 1 = 0)
      /\ \A i \in 1..Len(n) - 1 : i \in 1..Len(n) - 1 - 1 + 1 /\ 1 + i - 1 = i
  BY <1>1, <1>5, Zenon
<1>7. Len(Front(n)) = Len(n) - 1
  BY <1>4, <1>6, Zenon
<1>8. \A i \in 1..Len(n) - 1 : Front(n)[i] = n[i]
  BY <1>4, <1>6
<1> QED BY <1>4, <1>7, <1>8

\* The innermost construct goes on, another one is opened in it, or it is closed.
LEMMA NestBecomes ==
    ASSUME NEW L, par \in ParType(L), NEW f \in FrameType(L), f.open = frame.open
    PROVE  Innermost(f) \in NestType(L)
<1> DEFINE n == par.nest
<1>1. n \in Seq(FrameType(L)) /\ n # <<>> /\ n[1].open = "top" /\ Len(n) \in Nat \ {0}
  BY EmptySeq DEF ParType, NestType
<1>2. f.open = n[Len(n)].open
  BY FrameIs DEF Last
<1> HIDE DEF n
<1>3. Front(n) \in Seq(FrameType(L)) /\ Len(Front(n)) = Len(n) - 1 /\ \A i \in 1..Len(n) - 1 : Front(n)[i] = n[i]
  BY <1>1, FrontIs
<1> DEFINE m == Front(n) \o <<f>>
<1>4. /\ m \in Seq(FrameType(L)) /\ Len(m) = Len(n)
      /\ \A i \in 1..Len(n) : m[i] = IF i <= Len(n) - 1 THEN Front(n)[i] ELSE f
  BY <1>1, <1>3
<1> HIDE DEF m
<1>5. m # <<>> /\ m[1] = IF 1 <= Len(n) - 1 THEN Front(n)[1] ELSE f
  BY <1>1, <1>4
<1>6. m[1].open = "top"
  <2>1. CASE Len(n) = 1
    BY <1>1, <1>2, <1>5, <2>1
  <2>2. CASE Len(n) # 1
    BY <1>1, <1>3, <1>5, <2>2
  <2> QED BY <2>1, <2>2
<1> QED BY <1>4, <1>5, <1>6 DEF NestType, Innermost, m, n

LEMMA NestOpens ==
    ASSUME NEW L, NEW n \in NestType(L), NEW b \in Brackets
    PROVE  n \o <<Opened(b)>> \in NestType(L)
<1>1. Opened(b) \in FrameType(L)
  BY OpenedIs
<1> DEFINE f == Opened(b)
           m == n \o <<f>>
<1>2. n \in Seq(FrameType(L)) /\ n # <<>> /\ n[1].open = "top" /\ f \in FrameType(L)
  BY <1>1 DEF NestType
<1> HIDE DEF f
<1>3. m \in Seq(FrameType(L)) /\ m # <<>> /\ m[1] = n[1]
  BY <1>2
<1> QED BY <1>2, <1>3 DEF NestType, f

LEMMA NestCloses ==
    ASSUME NEW L, par \in ParType(L), frame.open # "top"
    PROVE  Front(par.nest) \in NestType(L)
<1> DEFINE n == par.nest
<1>1. n \in Seq(FrameType(L)) /\ n # <<>> /\ n[1].open = "top" /\ Len(n) \in Nat \ {0}
  BY EmptySeq DEF ParType, NestType
<1>2. n[Len(n)].open # "top"
  BY FrameIs DEF Last
<1> HIDE DEF n
<1>3. Front(n) \in Seq(FrameType(L)) /\ Len(Front(n)) = Len(n) - 1 /\ \A i \in 1..Len(n) - 1 : Front(n)[i] = n[i]
  BY <1>1, FrontIs
<1>4. Len(n) # 1
  BY <1>1, <1>2
<1>5. Front(n) # <<>> /\ Front(n)[1] = n[1]
  BY <1>1, <1>3, <1>4
<1> QED BY <1>1, <1>3, <1>5 DEF NestType, n

\* What a token that is shifted leaves of the parser.
Kept2(p) ==
    /\ p.docs = par.docs /\ p.error = par.error /\ p.gcblocked = par.gcblocked
    /\ p.skip = par.skip /\ p.bad = par.bad
LEMMA ShiftedIs ==
    ASSUME NEW L, par \in ParType(L), tok \in TokType(L), NEW nest \in NestType(L),
           NEW last \in Lasts, NEW ms \in Seq(MarkerType(L))
    PROVE  Shifted(nest, last, ms) \in ParType(L) /\ Kept2(Shifted(nest, last, ms))
<1> DEFINE toks == Append(par.toks, tok)
           queue == Reverse(ms) \o par.queue
           q == [par EXCEPT !.toks = toks, !.nest = nest, !.last = last, !.want = "none",
                            !.marker = <<>>, !.queue = queue]
<1>1. toks \in Seq(TokType(L))
  BY DEF ParType
<1>2. queue \in Seq(MarkerType(L))
  <2>1. par.queue \in Seq(MarkerType(L)) /\ Reverse(ms) \in Seq(MarkerType(L))
    BY ReverseIs DEF ParType
  <2> QED BY <2>1, ConcatProperties
<1>3. Shifted(nest, last, ms) = q
  BY DEF Shifted
<1>4. "none" \in Wants /\ <<>> \in Seq(MarkerType(L))
  BY DEF Wants
<1> HIDE DEF toks, queue
<1>5. q \in ParType(L)
  BY <1>1, <1>2, <1>4 DEF ParType
<1>6. Kept2(q)
  BY DEF ParType, Kept2
<1> QED BY <1>3, <1>5, <1>6

Shifts(L) == par' \in ParType(L) /\ Kept2(par')
LEMMA BecomesIs ==
    ASSUME NEW L, par \in ParType(L), tok \in TokType(L), NEW f \in FrameType(L), f.open = frame.open,
           NEW last \in Lasts, NEW ms \in Seq(MarkerType(L)), par' = Shifted(Innermost(f), last, ms)
    PROVE  Shifts(L)
BY NestBecomes, ShiftedIs DEF Shifts

LEMMA TargetShifts ==
    ASSUME NEW L, par \in ParType(L), tok \in TokType(L), Target
    PROVE  Shifts(L)
<1> DEFINE toks == Append(par.toks, tok)
           last == IF tok.kind = "^" THEN "caret" ELSE "word"
           want == IF tok.kind \in {"WORD", "QWORD"} THEN "file" ELSE "word"
           new == [eof |-> tok.s, quoted |-> tok.kind = "QWORD", literal |-> tok.kind # "$"]
           old == [k \in DOMAIN par.marker |-> [par.marker[k] EXCEPT !.literal = FALSE]]
           marker == IF par.want = "marker" THEN <<new>> ELSE old
<1>1. par' = [par EXCEPT !.toks = toks, !.last = last, !.want = want, !.marker = marker]
  BY DEF Target, Step
<1>2. toks \in Seq(TokType(L)) /\ last \in Lasts /\ want \in Wants
  BY DEF ParType, Lasts, Wants
<1>3. new \in MarkerType(L)
  BY DEF TokType, MarkerType
<1>4. old \in Seq(MarkerType(L))
  <2>1. par.marker \in Seq(MarkerType(L))
    BY DEF ParType
  <2>2. \A k \in 1..Len(par.marker) : [par.marker[k] EXCEPT !.literal = FALSE] \in MarkerType(L)
    <3> SUFFICES ASSUME NEW k \in 1..Len(par.marker)
                 PROVE  [par.marker[k] EXCEPT !.literal = FALSE] \in MarkerType(L)
      OBVIOUS
    <3> DEFINE m == par.marker[k]
    <3>1. m \in MarkerType(L)
      BY <2>1
    <3> HIDE DEF m
    <3>2. [m EXCEPT !.literal = FALSE] \in MarkerType(L)
      BY <3>1 DEF MarkerType
    <3> QED BY <3>2 DEF m
  <2>3. DOMAIN par.marker = 1..Len(par.marker) /\ Len(par.marker) \in Nat
    BY <2>1
  <2> DEFINE each(k) == [par.marker[k] EXCEPT !.literal = FALSE]
  <2>4. \A k \in 1..Len(par.marker) : each(k) \in MarkerType(L)
    BY <2>2
  <2> HIDE DEF each
  <2>5. [k \in 1..Len(par.marker) |-> each(k)] \in Seq(MarkerType(L))
    BY <2>3, <2>4
  <2> QED BY <2>3, <2>5 DEF each
<1> HIDE DEF toks, last, want, new, old
<1>5. marker \in Seq(MarkerType(L))
  BY <1>3, <1>4
<1> HIDE DEF marker
<1>6. par' \in ParType(L)
  BY <1>1, <1>2, <1>5 DEF ParType
<1>7. Kept2(par')
  BY <1>1 DEF ParType, Kept2
<1> QED BY <1>6, <1>7 DEF Shifts

LEMMA WordShifts ==
    ASSUME NEW L, par \in ParType(L), tok \in TokType(L), Word
    PROVE  Shifts(L)
<1>1. frame \in FrameType(L) /\ <<>> \in Seq(MarkerType(L))
  BY FrameIs
<1>2. CASE \E last \in Lasts : par' = Shifted(Innermost(frame), last, <<>>)
  BY <1>1, <1>2, BecomesIs
<1>3. CASE par' = Shifted(Innermost([frame EXCEPT !.outer = @ \o frame.leads, !.leads = <<>>]), "binder", <<>>)
  <2> DEFINE f == [frame EXCEPT !.outer = @ \o frame.leads, !.leads = <<>>]
  <2>1. frame.outer \o frame.leads \in Seq(MarkerType(L))
    BY <1>1 DEF FrameType
  <2>2. f \in FrameType(L) /\ f.open = frame.open
    BY <1>1, <2>1 DEF FrameType
  <2>3. "binder" \in Lasts
    BY DEF Lasts
  <2> HIDE DEF f
  <2>4. par' = Shifted(Innermost(f), "binder", <<>>)
    BY <1>3 DEF f
  <2> QED BY <1>1, <2>2, <2>3, <2>4, BecomesIs
<1>4. CASE \E last \in Lasts : par' = Shifted(Innermost([frame EXCEPT !.begun = TRUE]), last, <<>>)
  <2> DEFINE f == [frame EXCEPT !.begun = TRUE]
  <2>1. f \in FrameType(L) /\ f.open = frame.open
    BY <1>1 DEF FrameType
  <2> QED BY <1>1, <1>4, <2>1, BecomesIs
<1>5. {"word", "not", "binder", "caret", "is"} \subseteq Lasts
  BY DEF Lasts
<1> DEFINE last == CASE tok.kind = "^" -> "caret" [] tok.kind = "=" -> "is" [] OTHER -> "word"
<1>6. last \in Lasts
  BY DEF Lasts
<1>7. \/ par' = Shifted(Innermost(frame), "word", <<>>)
      \/ par' = Shifted(Innermost(frame), "not", <<>>)
      \/ par' = Shifted(Innermost([frame EXCEPT !.outer = @ \o frame.leads, !.leads = <<>>]), "binder", <<>>)
      \/ par' = Shifted(Innermost([frame EXCEPT !.begun = TRUE]), last, <<>>)
  BY DEF Word, Becomes, Step
<1> QED BY <1>2, <1>3, <1>4, <1>5, <1>6, <1>7

LEMMA BracketShifts ==
    ASSUME NEW L, par \in ParType(L), tok \in TokType(L), Open \/ Close
    PROVE  Shifts(L)
<1>1. /\ frame \in FrameType(L) /\ <<>> \in Seq(MarkerType(L)) /\ Pending \in Seq(MarkerType(L))
      /\ {"word", "bound"} \subseteq Lasts
  BY FrameIs DEF Lasts
<1>2. CASE Open
  <2> DEFINE f == [frame EXCEPT !.begun = TRUE]
  <2>1. f \in FrameType(L) /\ f.open = frame.open
    BY <1>1 DEF FrameType
  <2>2. Innermost(frame) \in NestType(L) /\ Innermost(f) \in NestType(L)
    BY <1>1, <2>1, NestBecomes
  <2>3. PICK n \in {Innermost(frame), Innermost(f)}, b \in {"bind", "(", "SUB", "{"} :
           par' = Shifted(n \o <<Opened(b)>>, "word", <<>>)
    BY <1>2 DEF Open, Step
  <2>4. n \o <<Opened(b)>> \in NestType(L)
    BY <2>2, NestOpens DEF Brackets
  <2> QED BY <1>1, <2>3, <2>4, ShiftedIs DEF Shifts
<1>3. CASE Close
  <2>1. PICK last \in {"word", "bound"}, ms \in {<<>>, Pending} :
           par' = Shifted(Front(par.nest), last, ms) /\ frame.open # "top"
    BY <1>3 DEF Close, Step
  <2>2. Front(par.nest) \in NestType(L)
    BY <2>1, NestCloses
  <2> QED BY <1>1, <2>1, <2>2, ShiftedIs DEF Shifts
<1> QED BY <1>2, <1>3

LEMMA RedirectionShifts ==
    ASSUME NEW L, par \in ParType(L), tok \in TokType(L), Redirection
    PROVE  Shifts(L)
<1> DEFINE want == CASE tok.kind = "HEREDOC" -> "marker" [] tok.kind = "REDIR" -> "word" [] OTHER -> "none"
           q == Shifted(Innermost(frame), "word", <<>>)
<1>1. par' = [q EXCEPT !.want = want]
  BY DEF Redirection, Step
<1>2. frame \in FrameType(L) /\ <<>> \in Seq(MarkerType(L)) /\ "word" \in Lasts /\ want \in Wants
  BY FrameIs DEF Lasts, Wants
<1>3. q \in ParType(L) /\ Kept2(q)
  BY <1>2, NestBecomes, ShiftedIs
<1> HIDE DEF q, want
<1>4. par' \in ParType(L)
  BY <1>1, <1>2, <1>3 DEF ParType
<1>5. Kept2(par')
  BY <1>1, <1>3 DEF ParType, Kept2
<1> QED BY <1>4, <1>5 DEF Shifts

LEMMA SeparatorShifts ==
    ASSUME NEW L, par \in ParType(L), tok \in TokType(L), Separator
    PROVE  Shifts(L)
<1>1. /\ frame \in FrameType(L) /\ <<>> \in Seq(MarkerType(L)) /\ Reduced \in Seq(MarkerType(L))
      /\ {"word", "more"} \subseteq Lasts /\ frame.open \in Brackets /\ frame.outer \in Seq(MarkerType(L))
  BY FrameIs DEF Lasts, FrameType
<1>2. CASE par' = Shifted(Innermost(frame), "word", <<>>)
  BY <1>1, <1>2, BecomesIs
<1> DEFINE f1 == [frame EXCEPT !.trail = <<>>, !.begun = FALSE]
           f2 == [Opened(frame.open) EXCEPT !.outer = frame.outer]
           f3 == Opened(frame.open)
<1>3. f1 \in FrameType(L) /\ f1.open = frame.open
  BY <1>1 DEF FrameType
<1>4. f3 \in FrameType(L) /\ f3.open = frame.open
  BY <1>1, OpenedIs
<1>5. f2 \in FrameType(L) /\ f2.open = frame.open
  BY <1>1, <1>4 DEF FrameType
<1>6. CASE \E f \in {f1, f2, f3}, last \in {"word", "more"} : par' = Shifted(Innermost(f), last, Reduced)
  <2> HIDE DEF f1, f2, f3
  <2> QED BY <1>1, <1>3, <1>4, <1>5, <1>6, BecomesIs
<1> DEFINE f == CASE tok.kind = "PIPE" -> f1 [] tok.kind \in {"ANDAND", "OROR"} -> f2 [] OTHER -> f3
           last == IF tok.kind \in {";", "&"} THEN "word" ELSE "more"
<1>7. f \in {f1, f2, f3} /\ last \in {"word", "more"}
  <2> HIDE DEF f1, f2, f3
  <2> QED OBVIOUS
<1>8. par' = Shifted(Innermost(frame), "word", <<>>) \/ par' = Shifted(Innermost(f), last, Reduced)
  BY DEF Separator, Becomes, Step
<1> HIDE DEF f, last, f1, f2, f3
<1> QED BY <1>2, <1>6, <1>7, <1>8

LEMMA ShiftInv ==
    ASSUME NEW L, L = Letters, ReaderInv, Shift \/ SkipNL
    PROVE  ReaderInv'
<1>1. UngetInv /\ CleanInv /\ lex \in LexType(L) /\ tok \in TokType(L) /\ par \in ParType(L)
  BY DEF ReaderInv, TypeInv, Typed
<1>2. pc = "token" /\ pc' = "lex" /\ UNCHANGED <<in, lex, tok, src, stream>> /\ tok.kind # "ERROR"
  <2>1. CASE Target
    BY <2>1 DEF Shift, SkipNL, Target, Step
  <2>2. CASE Word
    BY <2>2 DEF Shift, SkipNL, Word, word, Becomes, Step
  <2>3. CASE Open \/ Close
    BY <2>3 DEF Shift, SkipNL, Open, Close, Step
  <2>4. CASE Redirection
    BY <2>4 DEF Shift, SkipNL, Redirection, Step
  <2>5. CASE Separator
    BY <2>5 DEF Shift, SkipNL, Separator, Becomes, Step
  <2>6. CASE SkipNL
    BY <2>6 DEF SkipNL, Step
  <2> QED BY <2>1, <2>2, <2>3, <2>4, <2>5, <2>6 DEF Shift
<1>3. Shifts(L)
  <2>1. CASE SkipNL
    BY <1>1, <2>1 DEF SkipNL, Step, Shifts, Kept2
  <2> QED BY <1>1, <2>1, TargetShifts, WordShifts, BracketShifts, RedirectionShifts, SeparatorShifts DEF Shift
<1>4. CleanInv' /\ Typed(L)'
  BY <1>1, <1>2, <1>3 DEF CleanInv, Between, Typed, Shifts, Kept2
<1>5. UngetInv'
  BY <1>1, <1>2 DEF UngetInv
<1> QED BY <1>2, <1>3, <1>4, <1>5, ParserGoesOn DEF Parsing, Outside, Shifts, Kept2

LEMMA ParseInv ==
    ASSUME NEW L, L = Letters, ReaderInv, Parse
    PROVE  ReaderInv'
<1>1. /\ pc = "parse" /\ lex' = [lex EXCEPT !.newline = FALSE, !.w = "non", !.dollar = FALSE]
      /\ UNCHANGED <<in, tok, src, stream>>
  BY DEF Parse
<1>2. /\ UngetInv /\ CleanInv /\ lex \in LexType(L) /\ tok \in TokType(L) /\ par \in ParType(L)
      /\ par.gcblocked \in Int
  BY DEF ReaderInv, TypeInv, Typed, ParType
<1>3. lex' \in LexType(L) /\ lex'.goterror = lex.goterror
  BY <1>1, <1>2 DEF LexType
<1>4. CASE par.error /\ pc' = "abort" /\ par' = par
  <2>1. ~src.sound
    BY <1>1, <1>2, <1>4 DEF CleanInv, Between
  <2>2. CleanInv' /\ Typed(L)'
    BY <1>1, <1>2, <1>3, <1>4, <2>1 DEF CleanInv, Typed
  <2>3. UngetInv'
    BY <1>1, <1>2, <1>3, <1>4 DEF UngetInv
  <2> QED BY <1>1, <1>4, <2>2, <2>3, ParserGoesOn DEF Parsing, Outside
<1>5. CASE pc' = "end" /\ par' = [par EXCEPT !.queue = <<>>]
  <2>1. par' \in ParType(L) /\ par'.docs = par.docs /\ par'.error = par.error /\ par'.gcblocked = par.gcblocked
    <3>1. <<>> \in Seq(MarkerType(L))
      OBVIOUS
    <3> QED BY <1>2, <1>5, <3>1 DEF ParType
  <2>2. CleanInv' /\ Typed(L)'
    BY <1>1, <1>2, <1>3, <1>5, <2>1 DEF CleanInv, Typed, Between
  <2>3. UngetInv'
    BY <1>1, <1>2, <1>3, <1>5 DEF UngetInv
  <2> QED BY <1>1, <1>5, <2>1, <2>2, <2>3, ParserGoesOn DEF Parsing, Outside
<1>6. CASE /\ ~par.error /\ in.fill # "eoffill" /\ pc' = "lex"
           /\ par' = [par EXCEPT !.queue = <<>>, !.prompt2 = FALSE, !.gcblocked = @ + 1,
                                 !.nest = <<Opened("top")>>, !.want = "none", !.marker = <<>>,
                                 !.last = "word", !.skip = FALSE, !.bad = FALSE,
                                 !.toks = <<>>, !.docs = <<>>]
  <2>1. par' \in ParType(L)
    <3> DEFINE nest == <<Opened("top")>>
    <3>1. /\ <<>> \in Seq(MarkerType(L)) /\ <<>> \in Seq(TokType(L)) /\ <<>> \in Seq(DocType(L))
          /\ "none" \in Wants /\ par.gcblocked + 1 \in Int /\ "word" \in Lasts /\ nest \in NestType(L)
      BY <1>2, NestFirst DEF Wants, Lasts
    <3> HIDE DEF nest
    <3>2. par' = [par EXCEPT !.queue = <<>>, !.prompt2 = FALSE, !.gcblocked = @ + 1,
                             !.nest = nest, !.want = "none", !.marker = <<>>,
                             !.last = "word", !.skip = FALSE, !.bad = FALSE,
                             !.toks = <<>>, !.docs = <<>>]
      BY <1>6 DEF nest
    <3> QED BY <1>2, <3>1, <3>2 DEF ParType
  <2>2. par'.docs = <<>> /\ par'.error = par.error /\ par'.gcblocked = par.gcblocked + 1
        /\ ~par'.skip /\ ~par'.bad
    BY <1>2, <1>6 DEF ParType
  <2>3. CleanInv'
    BY <1>1, <1>2, <1>6, <2>2 DEF CleanInv, Between
  <2>4. Typed(L)'
    BY <1>1, <1>2, <1>3, <2>1 DEF Typed
  <2>5. UngetInv'
    BY <1>1, <1>2, <1>3, <1>6 DEF UngetInv
  <2> QED BY <1>1, <1>6, <2>2, <2>3, <2>4, <2>5, ParserGoesOn DEF Parsing
<1> QED BY <1>4, <1>5, <1>6 DEF Parse

\* A marker of more than one word, or the grammar's refusal: the parser has an error.
LEMMA RefuseInv ==
    ASSUME NEW L, L = Letters, ReaderInv, BadMarker \/ Refuse \/ Discard
    PROVE  ReaderInv'
<1>1. UngetInv /\ CleanInv /\ lex \in LexType(L) /\ tok \in TokType(L) /\ par \in ParType(L)
  BY DEF ReaderInv, TypeInv, Typed
<1>2. CASE BadMarker
  <2>1. /\ pc = "token" /\ pc' = "finish" /\ UNCHANGED <<in, lex, tok, src, stream>>
        /\ par' = [par EXCEPT !.error = TRUE, !.bad = TRUE]
    BY <1>2 DEF BadMarker, Step
  <2>2. /\ par' \in ParType(L) /\ par'.docs = par.docs /\ par'.error /\ par'.bad
        /\ par'.gcblocked = par.gcblocked
    BY <1>1, <2>1 DEF ParType
  <2>3. CleanInv' /\ Typed(L)'
    BY <1>1, <2>1, <2>2 DEF CleanInv, Between, Typed
  <2>4. UngetInv'
    BY <1>1, <2>1, <2>2 DEF UngetInv
  <2> QED BY <2>1, <2>2, <2>3, <2>4, ParserGoesOn DEF Parsing, Outside
<1>3. CASE Refuse
  <2>1. PICK n \in Int :
        /\ pc = "token" /\ pc' = "token" /\ UNCHANGED <<in, lex, tok, src, stream>>
        /\ n = 0 \/ n \in 0..Len(Pending)
        /\ par' = [par EXCEPT !.error = TRUE, !.skip = TRUE, !.nest = <<Opened("top")>>,
                              !.want = "none", !.marker = <<>>, !.last = "word",
                              !.queue = Reverse(SubSeq(Pending, 1, n)) \o @]
    <3>1. Len(Pending) \in Nat
      BY FrameIs, <1>1
    <3>2. PICK k \in 0..(IF Complete /\ Literal(Pending) THEN Len(Pending) ELSE 0) :
            Step("token", [par EXCEPT !.error = TRUE, !.skip = TRUE, !.nest = <<Opened("top")>>,
                                      !.want = "none", !.marker = <<>>, !.last = "word",
                                      !.queue = Reverse(SubSeq(Pending, 1, k)) \o @])
      BY <1>3 DEF Refuse
    <3>3. k \in Int /\ (k = 0 \/ k \in 0..Len(Pending))
      BY <3>1, <3>2
    <3>4. pc = "token"
      BY <1>3 DEF Refuse
    <3> QED BY <3>2, <3>3, <3>4 DEF Step
  <2> DEFINE nest == <<Opened("top")>>
             queue == Reverse(SubSeq(Pending, 1, n)) \o par.queue
  <2>2. /\ queue \in Seq(MarkerType(L)) /\ "none" \in Wants /\ "word" \in Lasts
        /\ nest \in NestType(L) /\ <<>> \in Seq(MarkerType(L))
    <3>1. Pending \in Seq(MarkerType(L)) /\ Len(Pending) \in Nat
      BY <1>1, FrameIs
    <3>2. \A i \in 1..n : Pending[i] \in MarkerType(L)
      BY <2>1, <3>1
    <3>3. SubSeq(Pending, 1, n) \in Seq(MarkerType(L))
      BY <2>1, <3>1, <3>2, SubSeqProperties
    <3>4. Reverse(SubSeq(Pending, 1, n)) \in Seq(MarkerType(L)) /\ par.queue \in Seq(MarkerType(L))
      BY <1>1, <3>3, ReverseIs DEF ParType
    <3> QED BY <3>4, ConcatProperties, NestFirst DEF Wants, Lasts
  <2> HIDE DEF nest, queue
  <2>0. par' = [par EXCEPT !.error = TRUE, !.skip = TRUE, !.nest = nest, !.want = "none",
                           !.marker = <<>>, !.last = "word", !.queue = queue]
    BY <2>1 DEF nest, queue
  <2>3. par' \in ParType(L)
    BY <1>1, <2>0, <2>2 DEF ParType
  <2>4. par'.docs = par.docs /\ par'.error /\ par'.gcblocked = par.gcblocked
    BY <1>1, <2>1 DEF ParType
  <2>5. CleanInv' /\ Typed(L)'
    BY <1>1, <2>1, <2>3, <2>4 DEF CleanInv, Between, Typed
  <2>6. UngetInv'
    BY <1>1, <2>1 DEF UngetInv
  <2> QED BY <2>1, <2>4, <2>5, <2>6, ParserGoesOn DEF Parsing, Outside
<1>4. CASE Discard
  <2>1. pc = "token" /\ pc' = "lex" /\ par' = par /\ UNCHANGED <<in, lex, tok, src, stream>>
    BY <1>4 DEF Discard, Step
  <2>2. CleanInv' /\ Typed(L)' /\ UngetInv'
    BY <1>1, <2>1 DEF CleanInv, Between, Typed, UngetInv
  <2> QED BY <2>1, <2>2, ParserGoesOn DEF Parsing, Outside
<1> QED BY <1>2, <1>3, <1>4

LEMMA EndLineInv ==
    ASSUME NEW L, L = Letters, ReaderInv, EndLine
    PROVE  ReaderInv'
<1> DEFINE queue == Reverse(Pending) \o par.queue
           nest == Innermost(Opened(frame.open))
           q == [par EXCEPT !.queue = queue, !.nest = nest, !.last = "word",
                            !.want = "none", !.marker = <<>>, !.bad = par.skip]
<1>1. /\ pc = "token" /\ tok.kind \in {"NL", "ENDFILE"} /\ UNCHANGED <<in, lex, tok, src, stream>>
      /\ IF queue = <<>> THEN pc' = After(q) /\ par' = q
         ELSE IF tok.kind = "ENDFILE" THEN pc' = "finish" /\ par' = [q EXCEPT !.error = TRUE, !.bad = TRUE]
         ELSE pc' = "here" /\ par' = q
  BY DEF EndLine, Step
<1>2. /\ UngetInv /\ CleanInv /\ lex \in LexType(L) /\ tok \in TokType(L) /\ par \in ParType(L)
      /\ par.skip \in BOOLEAN
  BY DEF ReaderInv, TypeInv, Typed, ParType
<1>3. /\ q \in ParType(L) /\ q.docs = par.docs /\ q.error = par.error /\ q.gcblocked = par.gcblocked
      /\ q.skip = par.skip /\ q.bad = par.skip /\ q.queue = queue
  <2>1. /\ queue \in Seq(MarkerType(L)) /\ "none" \in Wants /\ "word" \in Lasts /\ nest \in NestType(L)
        /\ <<>> \in Seq(MarkerType(L))
    <3>1. Reverse(Pending) \in Seq(MarkerType(L)) /\ par.queue \in Seq(MarkerType(L))
      BY <1>2, FrameIs, ReverseIs DEF ParType
    <3>2. frame.open \in Brackets
      BY <1>2, FrameIs DEF FrameType
    <3> QED BY <1>2, <3>1, <3>2, ConcatProperties, NestBecomes, OpenedIs DEF Wants, Lasts
  <2> HIDE DEF queue, nest
  <2>2. q \in ParType(L)
    BY <1>2, <2>1 DEF ParType
  <2>3. /\ q.docs = par.docs /\ q.error = par.error /\ q.gcblocked = par.gcblocked
        /\ q.skip = par.skip /\ q.bad = par.skip /\ q.queue = queue
    BY <1>2 DEF ParType
  <2> QED BY <2>2, <2>3
<1>4. ~lex.goterror /\ Len(in.ungot) # 2 /\ (tok.kind = "NL" => in.ungot = <<>>)
  BY <1>1, <1>2 DEF UngetInv
<1> HIDE DEF q, queue, nest
<1>5. CASE par' = q /\ pc' \in {"finish", "lex", "here"} /\ (pc' = "here" => queue # <<>> /\ tok.kind = "NL")
  <2>1. CleanInv' /\ Typed(L)'
    BY <1>1, <1>2, <1>3, <1>5 DEF CleanInv, Between, Typed
  <2>2. UngetInv'
    BY <1>1, <1>2, <1>4, <1>5 DEF UngetInv
  <2> QED BY <1>1, <1>3, <1>5, <2>1, <2>2, ParserGoesOn DEF Parsing, Outside
<1>6. CASE par' = [q EXCEPT !.error = TRUE, !.bad = TRUE] /\ pc' = "finish"
  <2>1. /\ par' \in ParType(L) /\ par'.docs = q.docs /\ par'.error /\ par'.bad
        /\ par'.gcblocked = q.gcblocked /\ par'.skip = q.skip
    BY <1>3, <1>6 DEF ParType
  <2>2. CleanInv' /\ Typed(L)'
    BY <1>1, <1>2, <1>3, <1>6, <2>1 DEF CleanInv, Between, Typed
  <2>3. UngetInv'
    BY <1>1, <1>2, <1>4, <1>6 DEF UngetInv
  <2> QED BY <1>1, <1>3, <1>6, <2>1, <2>2, <2>3, ParserGoesOn DEF Parsing, Outside
<1>7. After(q) \in {"finish", "lex"}
  BY DEF After
<1> QED BY <1>1, <1>5, <1>6, <1>7

LEMMA FinishInv ==
    ASSUME NEW L, L = Letters, ReaderInv, Finish
    PROVE  ReaderInv'
<1> DEFINE q == [par EXCEPT !.gcblocked = @ - 1]
<1>1. /\ pc = "finish" /\ UNCHANGED <<in, lex, tok, src, stream>>
      /\ \/ /\ par.bad \/ par.error
            /\ pc' = IF ~par.error THEN "abort" ELSE IF src.tty THEN "parse" ELSE "end"
            /\ par' = [q EXCEPT !.error = FALSE]
         \/ /\ ~(par.bad \/ par.error)
            /\ pc' = IF src.one THEN "term" ELSE "parse"
            /\ par' = [q EXCEPT !.ok = TRUE]
  BY DEF Finish, Step
<1>2. /\ UngetInv /\ CleanInv /\ lex \in LexType(L) /\ tok \in TokType(L) /\ par \in ParType(L)
      /\ par.gcblocked \in Int /\ par.error \in BOOLEAN
  BY DEF ReaderInv, TypeInv, Typed, ParType
<1>3. /\ q \in ParType(L) /\ q.docs = par.docs /\ q.error = par.error /\ q.gcblocked = par.gcblocked - 1
      /\ q.queue = par.queue
  <2>1. par.gcblocked - 1 \in Int
    BY <1>2
  <2>2. q \in ParType(L)
    BY <1>2, <2>1 DEF ParType
  <2>3. /\ q.docs = par.docs /\ q.error = par.error /\ q.gcblocked = par.gcblocked - 1 /\ q.queue = par.queue
    BY <1>2 DEF ParType
  <2> QED BY <2>2, <2>3
<1>4. /\ (Len(in.ungot) = 2 => par.bad) /\ (lex.goterror => par.bad \/ par.error)
      /\ src.sound => par.gcblocked = 1 /\ (par.bad => par.error)
  BY <1>1, <1>2 DEF UngetInv, CleanInv, Between
<1> HIDE DEF q
<1>5. /\ par' \in ParType(L) /\ par'.docs = par.docs /\ par'.gcblocked = par.gcblocked - 1
      /\ src.sound => ~par'.error
  <2>1. CASE par' = [q EXCEPT !.error = FALSE]
    BY <1>3, <2>1 DEF ParType
  <2>2. CASE par' = [q EXCEPT !.ok = TRUE] /\ ~(par.bad \/ par.error)
    BY <1>3, <2>2 DEF ParType
  <2> QED BY <1>1, <2>1, <2>2
<1>6. pc' \in {"abort", "parse", "end", "term"} /\ (src.sound => pc' # "abort")
      /\ (lex.goterror \/ Len(in.ungot) = 2 => pc' # "term")
  BY <1>1, <1>4
<1>7. CleanInv' /\ Typed(L)'
  <2>1. src.sound => par'.gcblocked = 0
    BY <1>4, <1>5
  <2> QED BY <1>1, <1>2, <1>5, <1>6, <2>1 DEF CleanInv, Between, Typed
<1>8. UngetInv'
  BY <1>1, <1>2, <1>4, <1>6 DEF UngetInv
<1> QED BY <1>1, <1>5, <1>6, <1>7, <1>8, ParserGoesOn DEF Parsing, Outside

LEMMA ThrownInv ==
    ASSUME NEW L, L = Letters, ReaderInv, Thrown
    PROVE  ReaderInv'
<1>1. pc = "thrown" /\ pc' \in {"parse", "end"} /\ par' = par /\ UNCHANGED <<in, lex, tok, src, stream>>
  BY DEF Thrown, Step
<1>2. UngetInv /\ CleanInv /\ Typed(L)
  BY DEF ReaderInv, TypeInv
<1>3. CleanInv' /\ Typed(L)' /\ UngetInv'
  BY <1>1, <1>2 DEF CleanInv, Between, Typed, UngetInv
<1> QED BY <1>1, <1>3, ParserGoesOn DEF Parsing, Outside

\* parseinput reads on after the command.
LEMMA TermInv ==
    ASSUME NEW L, L = Letters, ReaderInv, Term
    PROVE  ReaderInv'
<1>1. /\ pc = "term" /\ Ready /\ Get /\ pc' = "end" /\ par' = [par EXCEPT !.ok = (c = "eof")]
      /\ UNCHANGED <<lex, tok, src>>
  BY DEF Term, At
<1>2. /\ StreamInv /\ UngetInv /\ CleanInv /\ PlaceInv /\ DocInv /\ Shaped(in)
      /\ lex \in LexType(L) /\ tok \in TokType(L) /\ par \in ParType(L)
  BY DEF ReaderInv, TypeInv, Typed, StreamInv
<1>3. AtHand(in)
  BY <1>1, <1>2, ReadyIs
<1>4. StreamInv' /\ Kept /\ stream' = Rest
  BY <1>1, <1>2, <1>3, GetStep
<1>5. /\ par' \in ParType(L) /\ par'.docs = par.docs /\ par'.error = par.error
      /\ par'.gcblocked = par.gcblocked
  <2> DEFINE b == c = "eof"
  <2>1. b \in BOOLEAN
    OBVIOUS
  <2> HIDE DEF b
  <2>2. par' = [par EXCEPT !.ok = b]
    BY <1>1 DEF b
  <2> QED BY <1>2, <2>1, <2>2 DEF ParType
<1> HIDE DEF c
<1>6. TypeInv'
  <2>1. Typed(L)' /\ pc' \in Points
    BY <1>1, <1>2, <1>5 DEF Typed, Points, Between
  <2> QED BY <1>1, <2>1, TypeAfter DEF ReaderInv
<1>7. UngetInv'
  <2>1. ~lex.goterror /\ Len(in.ungot) <= 2 /\ Len(in.ungot) # 2
    BY <1>1, <1>2 DEF UngetInv
  <2>2. Len(in.ungot) <= 1
    BY <1>2, <2>1, Ungot, UpToTwo
  <2>3. in'.ungot = <<>>
    BY <1>1, <1>2, <1>3, <2>1, <2>2, GetUngot
  <2>4. Len(in'.ungot) = 0
    BY <2>3
  <2> QED BY <1>1, <2>1, <2>3, <2>4 DEF UngetInv
<1>8. CleanInv'
  BY <1>1, <1>2, <1>5 DEF CleanInv, Between
<1>9. PlaceInv'
  BY <1>1, <1>2, <1>3, <1>4, PlaceStays DEF Outside
<1>10. DocInv'
  <2>1. HeredocExact'
    BY <1>1, <1>2, <1>5, ExactStays DEF DocInv
  <2> HIDE DEF NulFree
  <2> QED BY <1>1, <2>1 DEF DocInv, Hereing
<1> QED BY <1>4, <1>6, <1>7, <1>8, <1>9, <1>10 DEF ReaderInv

LEMMA ParserInv ==
    ASSUME NEW L, L = Letters, ReaderInv, yyparse
    PROVE  ReaderInv'
BY ParseInv, ShiftInv, RefuseInv, EndLineInv, FinishInv, TermInv, ThrownInv DEF yyparse

-----------------------------------------------------------------------------
(***************************************************************************)
(* A document that is being read                                           *)
(***************************************************************************)

\* The text, the marker and what was read of the document are characters.
Document(t, l, e, p) ==
    /\ t \in Seq(Char) /\ l.acc \in Seq(Char) /\ l.m \in Nat /\ l.from \in Int
    /\ e \in Seq(Char) /\ p \in Int

LEMMA ReadIs ==
    ASSUME NEW t, NEW l, NEW e, NEW p, Document(t, l, e, p)
    PROVE  /\ Len(t) \in Nat /\ Len(l.acc) \in Nat /\ Len(e) \in Nat /\ DOMAIN e = 1..Len(e)
           /\ DOMAIN l.acc = 1..Len(l.acc)
BY DEF Document

\* The first line of a document.
LEMMA PartialStart ==
    ASSUME NEW t, NEW l, NEW e, NEW p \in 1..Len(t) + 1, Document(t, l, e, p),
           l.acc = <<>>, l.m = 0, l.from = p
    PROVE  Partial(t, l, e, p, "mark")
<1>1. Len(t) \in Nat /\ Len(e) \in Nat /\ Len(l.acc) = 0 /\ DOMAIN l.acc = {}
  BY ReadIs
<1>2. Copies(t, l.acc, l.from)
  BY <1>1 DEF Copies
<1>3. LineOf(t, l.from, p - l.m) /\ NoMarker(t, l.from, p - l.m - 1, e)
  <2>1. p - l.m = p /\ p - l.m - 1 < p
    OBVIOUS
  <2> QED BY <2>1 DEF LineOf, NoMarker
<1> QED BY <1>1, <1>2, <1>3 DEF Partial

\* One more character of the marker.
LEMMA PartialMatch ==
    ASSUME NEW t, NEW l, NEW e, NEW p, NEW l2, Document(t, l, e, p), Partial(t, l, e, p, "mark"),
           l2.from = l.from, l2.acc = l.acc, l2.m = l.m + 1,
           l.m < Len(e), p <= Len(t), t[p] = e[l.m + 1]
    PROVE  Partial(t, l2, e, p + 1, "mark")
<1> DEFINE m == l.m
           n == Len(t)
           k0 == Len(e)
           a == Len(l.acc)
           f == l.from
<1>1. n \in Nat /\ a \in Nat /\ k0 \in Nat /\ m \in Nat /\ p \in Int /\ f \in Int
  BY ReadIs DEF Document
<1>2. /\ f \in 1..n + 1 /\ p = f + a + m /\ Copies(t, l.acc, f)
      /\ \A k \in 1..m : t[p - m + k - 1] = e[k]
      /\ LineOf(t, f, p - m) /\ NoMarker(t, f, p - m - 1, e)
  BY DEF Partial
<1>3. l2.m = m + 1 /\ l2.from = f /\ l2.acc = l.acc /\ m < k0 /\ p <= n /\ t[p] = e[m + 1]
  OBVIOUS
<1> HIDE DEF m, n, k0, a, f
<1>4. (p + 1) - l2.m = p - m /\ p + 1 = f + a + l2.m /\ l2.m <= k0 /\ p + 1 <= n + 1
  <2> DEFINE m2 == l2.m
  <2>1. m2 = m + 1
    BY <1>3
  <2>2. p = f + a + m /\ m < k0 /\ p <= n
    BY <1>2, <1>3
  <2> HIDE DEF m2
  <2>3. (p + 1) - m2 = p - m /\ p + 1 = f + a + m2 /\ m2 <= k0 /\ p + 1 <= n + 1
    BY <1>1, <2>1, <2>2
  <2> QED BY <2>3 DEF m2
<1>5. ASSUME NEW k \in 1..l2.m PROVE t[(p + 1) - l2.m + k - 1] = e[k]
  <2>1. CASE k = m + 1
    <3>1. (p + 1) - l2.m + k - 1 = p
      BY <1>1, <1>3, <2>1
    <3> QED BY <1>3, <2>1, <3>1
  <2>2. CASE k # m + 1
    <3>1. k \in 1..m
      BY <1>1, <1>3, <2>2
    <3> QED BY <1>2, <1>4, <3>1
  <2> QED BY <2>1, <2>2
<1>6. LineOf(t, f, (p + 1) - l2.m) /\ NoMarker(t, f, (p + 1) - l2.m - 1, e)
  BY <1>2, <1>4
<1> QED BY <1>2, <1>3, <1>4, <1>5, <1>6 DEF Partial, n, k0, a, f

\* The line is not the marker: what was matched belongs to the document.
LEMMA PartialMiss ==
    ASSUME NEW t, NEW l, NEW e, NEW p, NEW l2, Document(t, l, e, p), Partial(t, l, e, p, "mark"),
           l2.from = l.from, l2.acc = l.acc \o SubSeq(e, 1, l.m), l2.m = 0,
           "\n" \notin Range(e),
           ~(l.m < Len(e) /\ p <= Len(t) /\ t[p] = e[l.m + 1]),
           ~(l.m = Len(e) /\ (p <= Len(t) => t[p] = "\n"))
    PROVE  Partial(t, l2, e, p, "copy")
<1> DEFINE m == l.m
           n == Len(t)
           k0 == Len(e)
           a == Len(l.acc)
           f == l.from
           s == SubSeq(e, 1, m)
<1>1. n \in Nat /\ a \in Nat /\ k0 \in Nat /\ m \in Nat /\ p \in Int /\ f \in Int
      /\ DOMAIN e = 1..k0 /\ DOMAIN l.acc = 1..a /\ l.acc \in Seq(Char) /\ e \in Seq(Char)
  BY ReadIs DEF Document
<1>2. /\ f \in 1..n + 1 /\ p <= n + 1 /\ m <= k0 /\ p = f + a + m
      /\ \A k \in 1..a : l.acc[k] = t[f + k - 1]
      /\ \A k \in 1..m : t[p - m + k - 1] = e[k]
      /\ NoMarker(t, f, p - m - 1, e)
  BY <1>1 DEF Partial, Copies
<1>3. /\ ~(m < k0 /\ p <= n /\ t[p] = e[m + 1]) /\ ~(m = k0 /\ (p <= n => t[p] = "\n"))
      /\ l2.from = f /\ l2.acc = l.acc \o s /\ l2.m = 0
  OBVIOUS
<1>4. \A k \in 1..k0 : e[k] # "\n"
  BY <1>1 DEF Range
<1>5. s \in Seq(Char) /\ Len(s) = m /\ \A k \in 1..m : s[k] = e[k]
  <2>1. \A k \in 1..m : e[k] \in Char
    BY <1>1, <1>2
  <2> HIDE DEF m
  <2>2. /\ SubSeq(e, 1, m) \in Seq(Char) /\ Len(SubSeq(e, 1, m)) = IF 1 <= m THEN m - 1 + 1 ELSE 0
        /\ \A k \in 1..m - 1 + 1 : SubSeq(e, 1, m)[k] = e[1 + k - 1]
    BY <1>1, <2>1, SubSeqProperties
  <2> QED BY <1>1, <2>2
<1> HIDE DEF s
<1> DEFINE b == l.acc
           d == b \o s
<1>6. b \in Seq(Char) /\ Len(b) = a
  BY <1>1
<1> HIDE DEF b, a
<1>7. /\ d \in Seq(Char) /\ Len(d) = a + m
      /\ \A k \in 1..a + m : d[k] = IF k <= a THEN b[k] ELSE s[k - a]
  <2>1. /\ b \o s \in Seq(Char) /\ Len(b \o s) = Len(b) + Len(s)
        /\ \A k \in 1..Len(b) + Len(s) : (b \o s)[k] = IF k <= Len(b) THEN b[k] ELSE s[k - Len(b)]
    <3>1. b \in Seq(Char) /\ s \in Seq(Char)
      BY <1>5, <1>6
    <3> HIDE DEF m
    <3> QED BY <3>1, ConcatProperties
  <2> HIDE DEF m
  <2> QED BY <1>5, <1>6, <2>1
<1>11. DOMAIN d = 1..a + m /\ d = l2.acc
  <2> HIDE DEF d, m
  <2>1. DOMAIN d = 1..Len(d)
    BY <1>7
  <2> QED BY <1>3, <1>7, <2>1 DEF d, b
<1>12. b = l.acc
  BY DEF b
<1> HIDE DEF d, m, n, k0, a, f
<1>8. Copies(t, d, f)
  <2>1. ASSUME NEW k \in 1..a + m PROVE d[k] = t[f + k - 1]
    <3>1. CASE k <= a
      <4>1. k \in 1..a
        BY <1>1, <3>1
      <4> QED BY <1>2, <1>7, <1>12, <3>1, <4>1
    <3>2. CASE ~(k <= a)
      <4>1. k - a \in 1..m /\ p - m + (k - a) - 1 = f + k - 1
        BY <1>1, <1>2, <3>2, SMTT(40)
      <4> DEFINE j == k - a
      <4>2. d[k] = s[j] /\ j \in 1..m /\ p - m + j - 1 = f + k - 1
        BY <1>7, <3>2, <4>1
      <4> HIDE DEF j
      <4>3. s[j] = e[j] /\ t[p - m + j - 1] = e[j]
        BY <1>2, <1>5, <4>2
      <4> QED BY <4>2, <4>3
    <3> QED BY <3>1, <3>2
  <2>2. f + Len(d) <= n + 1
    BY <1>1, <1>2, <1>7
  <2> QED BY <1>7, <1>11, <2>1, <2>2 DEF Copies, n
<1>9. NoMarker(t, f, p, e)
  <2>1. SUFFICES ASSUME NEW q \in f..p, LineOf(t, f, q), Marker(t, q, e) PROVE FALSE
    BY DEF NoMarker
  <2>2. /\ q + k0 <= n + 1 /\ \A k \in 1..k0 : t[q + k - 1] = e[k]
        /\ q + k0 <= n => t[q + k0] = "\n"
    BY <1>1, <2>1 DEF Marker, k0, n
  <2>3. CASE q <= p - m - 1
    <3>1. q \in f..p - m - 1
      BY <1>1, <2>3
    <3> QED BY <1>2, <2>1, <3>1 DEF NoMarker
  <2>4. CASE q = p - m
    <3>1. CASE m < k0
      <4>1. m + 1 \in 1..k0 /\ q + (m + 1) - 1 = p /\ p <= n
        <5>1. q + k0 <= n + 1 /\ q \in Int
          BY <1>1, <2>1, <2>2
        <5>2. q + m = p
          BY <1>1, <2>4
        <5> QED BY <1>1, <3>1, <5>1, <5>2
      <4> QED BY <1>3, <2>2, <3>1, <4>1
    <3>2. CASE m = k0
      <4>1. q + k0 = p
        BY <1>1, <2>4, <3>2
      <4> QED BY <1>3, <2>2, <3>2, <4>1
    <3> QED BY <1>1, <1>2, <3>1, <3>2
  <2>5. CASE q > p - m
    <3>1. q # f /\ q - (p - m) \in 1..m /\ p - m + (q - (p - m)) - 1 = q - 1
      BY <1>1, <1>2, <2>5
    <3> DEFINE j == q - (p - m)
    <3>2. j \in 1..m /\ p - m + j - 1 = q - 1
      BY <3>1
    <3> HIDE DEF j
    <3>3. t[q - 1] = e[j]
      BY <1>2, <3>2
    <3>4. j \in 1..k0
      BY <1>1, <1>2, <3>2
    <3> QED BY <1>4, <2>1, <3>1, <3>3, <3>4 DEF LineOf
  <2> QED BY <1>1, <2>3, <2>4, <2>5
<1>10. p = f + Len(d) + 0 /\ 0 <= k0
  BY <1>1, <1>2, <1>7
<1>13. /\ l2.from \in 1..n + 1 /\ l2.m <= k0 /\ p = l2.from + Len(l2.acc) + l2.m
       /\ Copies(t, l2.acc, l2.from) /\ NoMarker(t, l2.from, p, e) /\ l2.m = 0 /\ p <= n + 1
  BY <1>2, <1>3, <1>8, <1>9, <1>10, <1>11
<1>14. \A k \in 1..l2.m : t[p - l2.m + k - 1] = e[k]
  BY <1>13
<1> QED BY <1>13, <1>14 DEF Partial, n, k0

\* A character of the document.
LEMMA PartialCopy ==
    ASSUME NEW t, NEW l, NEW e, NEW p, NEW l2, Document(t, l, e, p), Partial(t, l, e, p, "copy"),
           p <= Len(t), l2.from = l.from, l2.acc = Append(l.acc, t[p]), l2.m = 0,
           NEW at \in {"mark", "copy"}, at = "mark" <=> t[p] = "\n"
    PROVE  Partial(t, l2, e, p + 1, at)
<1> DEFINE n == Len(t)
           a == Len(l.acc)
           f == l.from
           d == Append(l.acc, t[p])
           q == p + 1
<1>1. n \in Nat /\ a \in Nat /\ Len(e) \in Nat /\ p \in Int /\ f \in Int /\ l.acc \in Seq(Char)
      /\ t \in Seq(Char)
  BY ReadIs DEF Document
<1>2. /\ f \in 1..n + 1 /\ l.m = 0 /\ p = f + a + l.m
      /\ \A k \in 1..a : l.acc[k] = t[f + k - 1]
      /\ NoMarker(t, f, p, e)
  BY <1>1 DEF Partial, Copies
<1>3. p = f + a /\ q = f + a + 1 /\ p <= n /\ q <= n + 1 /\ p \in 1..n
  BY <1>1, <1>2
<1>4. t[p] \in Char
  BY <1>1, <1>3
<1>5. /\ d \in Seq(Char) /\ Len(d) = a + 1 /\ DOMAIN d = 1..a + 1 /\ d = l2.acc
      /\ \A k \in 1..a : d[k] = l.acc[k]
      /\ d[a + 1] = t[p]
  BY <1>1, <1>4, Appended
<1>6. l2.m = 0 /\ l2.from = f
  OBVIOUS
<1> HIDE DEF n, a, f, d, q
<1>7. Copies(t, d, f)
  <2>1. ASSUME NEW k \in 1..a + 1 PROVE d[k] = t[f + k - 1]
    <3>1. CASE k = a + 1
      <4>1. f + k - 1 = p
        BY <1>1, <1>3, <3>1
      <4> QED BY <1>5, <3>1, <4>1
    <3>2. CASE k # a + 1
      <4>1. k \in 1..a
        BY <1>1, <3>2
      <4> QED BY <1>2, <1>5, <4>1
    <3> QED BY <3>1, <3>2
  <2>2. f + Len(d) <= n + 1
    BY <1>1, <1>3, <1>5
  <2> QED BY <1>5, <2>1, <2>2 DEF Copies, n
<1>8. ASSUME at = "mark" PROVE LineOf(t, f, q - 0) /\ NoMarker(t, f, q - 0 - 1, e)
  <2>1. q - 0 = q /\ q - 1 = p /\ q - 0 - 1 = p
    BY <1>1, <1>3
  <2>2. t[q - 1] = "\n"
    BY <1>8, <2>1
  <2> QED BY <1>2, <2>1, <2>2 DEF LineOf
<1>9. ASSUME at = "copy" PROVE NoMarker(t, f, q, e)
  <2>1. q - 1 = p /\ q # f /\ \A i \in f..q : i \in f..p \/ i = q
    BY <1>1, <1>3
  <2>2. ~LineOf(t, f, q)
    BY <1>9, <2>1 DEF LineOf
  <2> QED BY <1>2, <2>1, <2>2 DEF NoMarker
<1>10. q = f + Len(d) + 0
  BY <1>1, <1>3, <1>5
<1>11. Len(e) >= 0
  BY <1>1
<1> QED BY <1>1, <1>2, <1>3, <1>5, <1>6, <1>7, <1>8, <1>9, <1>10, <1>11 DEF Partial, n, q

\* The line is the marker: the document is what stands before it.
LEMMA PartialDone ==
    ASSUME NEW l, NEW e, NEW p, Document(Text, l, e, p), Partial(Text, l, e, p, "mark"),
           l.m = Len(e), p <= Len(Text) => Text[p] = "\n",
           NEW d, d.eof = e, d.from = l.from, d.doc = l.acc
    PROVE  Exact(d)
<1> DEFINE t == Text
           n == Len(t)
           m == Len(e)
           a == Len(l.acc)
           f == l.from
           q == p - m
<1>1. n \in Nat /\ a \in Nat /\ m \in Nat /\ p \in Int /\ f \in Int /\ l.acc \in Seq(Char)
      /\ t \in Seq(Char) /\ DOMAIN e = 1..m /\ DOMAIN l.acc = 1..a
  BY ReadIs DEF Document
<1>2. /\ f \in 1..n + 1 /\ p <= n + 1 /\ p = f + a + m
      /\ \A k \in 1..a : l.acc[k] = t[f + k - 1]
      /\ \A k \in 1..m : t[p - m + k - 1] = e[k]
      /\ LineOf(t, f, p - m) /\ NoMarker(t, f, p - m - 1, e)
  BY <1>1 DEF Partial, Copies
<1>3. d.eof = e /\ d.from = f /\ d.doc = l.acc /\ (p <= n => t[p] = "\n")
  OBVIOUS
<1>4. \A i : LineAt(d, i) <=> LineOf(t, f, i)
  BY <1>3 DEF LineAt, LineOf
<1>5. \A i : MarkerAt(i, d.eof) <=> Marker(t, i, e)
  BY <1>3 DEF MarkerAt, Marker
<1> HIDE DEF t, n, m, a, f, q
<1>6. q \in f..n + 1 /\ q = f + a /\ q + m = p /\ q - 1 = f + a - 1 /\ f..q - 1 = f..p - m - 1
  BY <1>1, <1>2 DEF q
<1>7. Marker(t, q, e)
  <2>1. \A k \in 1..m : t[q + k - 1] = e[k]
    BY <1>2 DEF q
  <2> QED BY <1>1, <1>2, <1>3, <1>6, <2>1 DEF Marker, m, n
<1>8. l.acc = SubSeq(t, f, q - 1)
  <2>1. \A k \in f..q - 1 : t[k] \in Char
    <3>1. \A k \in f..q - 1 : k \in 1..n
      BY <1>1, <1>2, <1>6
    <3> QED BY <1>1, <3>1 DEF n
  <2> DEFINE z == q - 1
             s == SubSeq(t, f, z)
  <2>2. z \in Int /\ z = f + a - 1 /\ (f <= z <=> a > 0) /\ z - f + 1 = a
    BY <1>1, <1>2, <1>6
  <2>3. \A k \in f..z : t[k] \in Char
    BY <2>1
  <2> HIDE DEF z
  <2>4. s \in Seq(Char) /\ Len(s) = (IF f <= z THEN z - f + 1 ELSE 0)
        /\ \A i \in 1..z - f + 1 : s[i] = t[f + i - 1]
    BY <1>1, <2>2, <2>3, SubSeqProperties
  <2> HIDE DEF s
  <2>5. Len(s) = a /\ \A i \in 1..a : s[i] = l.acc[i]
    BY <1>1, <1>2, <2>2, <2>4
  <2>6. l.acc = s
    BY <1>1, <2>4, <2>5, SeqEqual DEF a
  <2> QED BY <2>6 DEF s, z
<1>9. \A i \in f..q - 1 : ~(LineAt(d, i) /\ MarkerAt(i, d.eof))
  BY <1>2, <1>4, <1>5, <1>6 DEF NoMarker
<1>10. LineAt(d, q) /\ MarkerAt(q, d.eof)
  BY <1>2, <1>4, <1>5, <1>7 DEF q
<1> HIDE DEF Text
<1> QED BY <1>3, <1>6, <1>8, <1>9, <1>10 DEF Exact, t, n

-----------------------------------------------------------------------------
(***************************************************************************)
(* Here documents                                                          *)
(***************************************************************************)

\* With nothing pushed back the reader is at a place of the text.
LEMMA AtText ==
    ASSUME SourcesAssumption, src \in Sources, StreamInv, in.ungot = <<>>,
           Suffix(in.buf \o Chars(in.reads))
    PROVE  /\ Text \in Seq(Byte) /\ Text \in Seq(Char) /\ stream \in Seq(Byte)
           /\ Suffix(stream) /\ Pos \in 1..Len(Text) + 1 /\ Len(Text) \in Nat /\ Len(stream) \in Nat
           /\ stream = <<>> <=> Pos = Len(Text) + 1
           /\ stream # <<>> => Pos <= Len(Text) /\ Head(stream) = Text[Pos] /\ Text[Pos] \in Byte
<1>1. Text \in Seq(Byte) /\ Text \in Seq(Char)
  <2>1. src.reads \in Reads
    BY DEF SourcesAssumption
  <2> QED BY <2>1, CharsIs, Bytes DEF Text
<1>2. Shaped(in) /\ Held(in) = stream /\ Unread(in) = stream /\ stream \in Seq(Byte)
  BY HeldIs DEF StreamInv
<1>3. /\ in.buf \in Seq(Char) /\ Chars(in.reads) \in Seq(Char) /\ Place(in) \in 1..Len(in.buf) + 1
      /\ Len(in.buf) \in Nat
  BY <1>2, InputFacts DEF Shaped
<1> DEFINE b == in.buf
           p == Place(in)
           h == SubSeq(b, 1, p - 1)
           r == SubSeq(b, p, Len(b))
           s == Chars(in.reads)
<1>4. b \in Seq(Char) /\ Len(b) \in Nat /\ p \in 1..Len(b) + 1 /\ s \in Seq(Char)
  BY <1>3
<1>5. stream = r \o s
  BY <1>2 DEF Unread
<1>6. Suffix(b \o s)
  OBVIOUS
<1> HIDE DEF b, p, s, Text
<1>7. h \in Seq(Char) /\ r \in Seq(Char) /\ b = h \o r
  <2>1. \A i \in 1..Len(b) : b[i] \in Char
    BY <1>4
  <2>2. p - 1 \in Int /\ Len(b) \in Int /\ p \in Int /\ 1 \in Int
    BY <1>4
  <2>3. (\A i \in 1..p - 1 : b[i] \in Char) /\ (\A i \in p..Len(b) : b[i] \in Char)
    BY <1>4, <2>1
  <2>4. h \in Seq(Char) /\ r \in Seq(Char)
    BY <2>2, <2>3, SubSeqProperties
  <2> DEFINE k == p - 1
  <2>5. k \in 1 - 1..Len(b) /\ k + 1 = p /\ 1 \in 1..Len(b) + 1 /\ Len(b) \in k..Len(b)
    BY <1>4
  <2> HIDE DEF k
  <2>6. SubSeq(b, 1, k) \o SubSeq(b, k + 1, Len(b)) = SubSeq(b, 1, Len(b))
    BY <1>4, <2>5, ConcatAdjacentSubSeq
  <2>7. SubSeq(b, 1, Len(b)) = b
    BY <1>4, SubSeqFull
  <2> QED BY <2>4, <2>5, <2>6, <2>7 DEF k
<1> HIDE DEF h, r
<1>8. b \o s = h \o (r \o s) /\ r \o s \in Seq(Char)
  BY <1>4, <1>7, Regroup, ConcatProperties, SMTT(40)
<1>9. Suffix(stream)
  <2>1. stream \in Seq(Char) /\ b \o s = h \o stream
    BY <1>5, <1>8
  <2>2. Suffix(h \o stream)
    BY <1>6, <2>1
  <2>3. Len(h \o stream) <= Len(Text)
        /\ h \o stream = SubSeq(Text, Len(Text) - Len(h \o stream) + 1, Len(Text))
    BY <2>2 DEF Suffix
  <2>4. Len(stream) <= Len(Text) /\ stream = SubSeq(Text, Len(Text) - Len(stream) + 1, Len(Text))
    BY <1>1, <1>7, <2>1, <2>3, SuffixOf, ZenonT(60)
  <2> QED BY <2>4 DEF Suffix
<1> DEFINE n == Len(Text)
           l == Len(stream)
<1>10. n \in Nat /\ l \in Nat /\ l <= n /\ Pos = n - l + 1 /\ (stream = <<>> <=> l = 0)
  BY <1>1, <1>2, <1>9, EmptySeq DEF Suffix, Pos
<1> HIDE DEF n, l
<1>11. Pos \in 1..n + 1 /\ (stream = <<>> <=> Pos = n + 1) /\ (stream # <<>> => Pos <= n)
  BY <1>10
<1>12. ASSUME stream # <<>> PROVE Head(stream) = Text[Pos] /\ Text[Pos] \in Byte
  <2>1. Pos \in 1..n /\ n \in Pos..n
    BY <1>10, <1>11, <1>12
  <2>2. stream = SubSeq(Text, Pos, n)
    BY <1>9 DEF Suffix, Pos, n
  <2> HIDE DEF Pos
  <2>3. Head(SubSeq(Text, Pos, n)) = Text[Pos]
    BY <1>1, <2>1, HeadTailOfSubSeq DEF n
  <2>4. Text[Pos] \in Byte
    BY <1>1, <2>1 DEF n
  <2> QED BY <2>2, <2>3, <2>4
<1> QED BY <1>1, <1>2, <1>9, <1>10, <1>11, <1>12 DEF n, l

\* A character that is read there, and the place after it.
LEMMA ReadText ==
    ASSUME SourcesAssumption, src \in Sources, StreamInv, in.ungot = <<>>,
           Suffix(in.buf \o Chars(in.reads)), AtHand(in), src' = src
    PROVE  /\ Pos <= Len(Text) => c = Text[Pos] /\ c \in Byte
           /\ ~(Pos <= Len(Text)) => c = "eof"
           /\ Get /\ Pos <= Len(Text) => Pos' = Pos + 1
<1>1. /\ Pos \in 1..Len(Text) + 1 /\ Len(Text) \in Nat /\ Len(stream) \in Nat /\ stream \in Seq(Byte)
      /\ stream = <<>> <=> Pos = Len(Text) + 1
      /\ stream # <<>> => Pos <= Len(Text) /\ Head(stream) = Text[Pos] /\ Text[Pos] \in Byte
  BY AtText
<1>2. /\ stream = <<>> => c = "eof"
      /\ stream # <<>> => c = Head(stream) /\ Rest = Tail(stream)
  BY CharIs
<1>3. Text' = Text
  BY TextStays
<1> HIDE DEF c, Text
<1>4. ASSUME Get, stream # <<>> PROVE Pos' = Pos + 1
  <2>1. stream' = Tail(stream)
    BY <1>2, <1>4 DEF Get
  <2>2. Len(Tail(stream)) = Len(stream) - 1
    BY <1>1, <1>4, HeadTailProperties
  <2>3. Len(stream') = Len(stream) - 1 /\ Len(Text') = Len(Text)
    BY <1>3, <2>1, <2>2
  <2> DEFINE l == Len(stream)
             l2 == Len(stream')
             n == Len(Text)
  <2>4. Pos' = n - l2 + 1 /\ Pos = n - l + 1 /\ l2 = l - 1 /\ n \in Nat /\ l \in Nat
    BY <1>1, <2>3 DEF Pos
  <2> HIDE DEF l, l2, n, Pos
  <2>5. n - l2 + 1 = n - l + 1 + 1
    BY <2>4
  <2> QED BY <2>4, <2>5
<1>5. stream # <<>> <=> Pos <= Len(Text)
  <2> DEFINE n == Len(Text)
             p == Pos
  <2>1. n \in Nat /\ p \in 1..n + 1 /\ (stream = <<>> <=> p = n + 1)
    BY <1>1
  <2> HIDE DEF n, p
  <2>2. stream # <<>> <=> p <= n
    BY <2>1
  <2> QED BY <2>2 DEF n, p
<1> QED BY <1>1, <1>2, <1>4, <1>5

\* The marker at the front of the queue.
LEMMA MarkerIs ==
    ASSUME NEW L, L = Letters, par \in ParType(L), par.queue # <<>>
    PROVE  /\ eof \in Seq(L) /\ eof \in Seq(Char) /\ quoted \in BOOLEAN
           /\ Len(eof) \in Nat /\ DOMAIN eof = 1..Len(eof)
           /\ Tail(par.queue) \in Seq(MarkerType(L))
           /\ NulFree => \A k \in 1..Len(eof) : eof[k] # "eof"
<1>1. par.queue \in Seq(MarkerType(L))
  BY DEF ParType
<1>2. Head(par.queue) \in MarkerType(L) /\ Tail(par.queue) \in Seq(MarkerType(L))
  BY <1>1, HeadTailProperties
<1>3. eof \in Seq(L) /\ quoted \in BOOLEAN
  BY <1>2 DEF MarkerType, eof, quoted
<1>4. L \subseteq Char /\ (NulFree => L = Byte)
  BY LettersAre
<1> HIDE DEF eof, quoted, NulFree
<1>5. eof \in Seq(Char)
  BY <1>3, <1>4, SeqMonotonic
<1>6. NulFree => \A k \in 1..Len(eof) : eof[k] # "eof"
  BY <1>3, <1>4 DEF Byte
<1> QED BY <1>2, <1>3, <1>5, <1>6

Inside == {"mark", "copy", "heredollar", "herevar"}

\* What a step that reads a document leaves of the parser.
HereKept ==
    /\ par'.gcblocked = par.gcblocked /\ par'.skip = par.skip
    /\ \/ par'.error
       \/ par'.error = par.error /\ par'.bad = par.bad

LEMMA HereGoesOn ==
    ASSUME NEW L, L = Letters, ReaderInv, pc \in Inside, AtHand(in), src' = src,
           Get \/ Look \/ UNCHANGED <<in, stream>>, Typed(L)', HereKept,
           lex'.goterror = lex.goterror,
           pc' \in Hereing \cup {"finish", "lex", "hang"}, pc' \in {"here", "mark"} => Get,
           StreamInv' /\ Kept => DocInv'
    PROVE  ReaderInv'
<1>1. /\ StreamInv /\ UngetInv /\ PlaceInv /\ CleanInv /\ pc \notin Outside /\ ~lex.goterror
      /\ Len(in.ungot) <= 1
  <2>1. StreamInv /\ UngetInv /\ PlaceInv /\ CleanInv /\ pc \notin Outside
    BY DEF ReaderInv, Inside, Outside
  <2>2. ~lex.goterror /\ Len(in.ungot) # 2 /\ Len(in.ungot) <= 2
    BY <2>1 DEF UngetInv, Inside
  <2>3. Len(in.ungot) <= 1
    BY <2>1, <2>2, Ungot, UpToTwo
  <2> QED BY <2>1, <2>2, <2>3
<1>2. StreamInv' /\ Kept /\ stream' \in {Rest, <<c>> \o Rest, stream}
  BY <1>1, LexStepStream
<1>3. Get => in'.ungot = <<>>
  BY <1>1, GetUngot, UpToTwo, Ungot DEF UngetInv
<1>4. Len(in'.ungot) <= 1
  <2>1. CASE Get
    <3>1. Len(in'.ungot) = 0
      BY <1>3, <2>1
    <3> QED BY <3>1
  <2>2. CASE Look
    BY <1>1, <2>2, LookUngot
  <2>3. CASE UNCHANGED <<in, stream>>
    BY <1>1, <2>3
  <2> QED BY <2>1, <2>2, <2>3
<1>5. UngetInv'
  <2>1. Len(in'.ungot) <= 2 /\ Len(in'.ungot) # 2
    BY <1>2, <1>4, ShortUngot
  <2>2. pc' \notin {"slash", "token"}
    BY DEF Hereing
  <2> QED BY <1>1, <1>3, <2>1, <2>2 DEF UngetInv
<1>6. TypeInv'
  <2>1. pc' \in Points
    BY DEF Hereing, Points
  <2> QED BY <2>1, TypeAfter DEF ReaderInv
<1>7. CleanInv'
  <2>1. pc \notin Between /\ pc' \notin Between /\ pc' # "abort"
    BY DEF Inside, Between, Hereing
  <2> QED BY <1>1, <2>1 DEF CleanInv, HereKept
<1>8. PlaceInv'
  <2>1. pc' # "esc"
    BY DEF Hereing
  <2> HIDE DEF c
  <2> QED BY <1>1, <1>2, <2>1, PlaceStays
<1> QED BY <1>2, <1>5, <1>6, <1>7, <1>8 DEF ReaderInv

\* The parts of a document's state that most steps leave alone.
LEMMA DocGoesOn ==
    ASSUME HeredocExact, src' = src, par'.queue = par.queue, par'.docs = par.docs,
           par.queue # <<>>,
           pc' \in Hereing \ {"here"} => "\n" \notin Range(eof),
           pc' \in {"heredollar", "herevar"} => ~quoted,
           pc' = "mark" => lex'.m <= Len(eof),
           NulFree /\ pc' \in {"mark", "copy"} /\ quoted =>
              in'.ungot = <<>> /\ Partial(Text, lex', eof, Pos', pc')
    PROVE  DocInv'
<1>1. Text' = Text /\ NulFree' = NulFree
  BY TextStays DEF NulFree
<1>2. eof' = eof /\ quoted' = quoted
  BY DEF eof, quoted
<1>3. HeredocExact'
  BY ExactStays
<1> HIDE DEF Text, NulFree, eof, quoted, Pos
<1> QED BY <1>1, <1>2, <1>3 DEF DocInv

LEMMA SnarfInv ==
    ASSUME NEW L, L = Letters, SourcesAssumption, ReaderInv, Snarf
    PROVE  ReaderInv'
<1>1. /\ StreamInv /\ UngetInv /\ PlaceInv /\ CleanInv /\ DocInv /\ pc = "here" /\ src \in Sources
      /\ lex \in LexType(L) /\ tok \in TokType(L) /\ par \in ParType(L) /\ par.queue # <<>>
  BY DEF ReaderInv, TypeInv, Typed, Snarf, DocInv, Hereing
<1>2. in.ungot = <<>> /\ ~lex.goterror
  BY <1>1 DEF UngetInv
<1>3. CASE "\n" \in Range(eof) /\ Incomplete
  <2>1. pc' = "finish" /\ par' = [par EXCEPT !.error = TRUE, !.bad = TRUE] /\ UNCHANGED <<in, lex, tok, src, stream>>
    BY <1>3 DEF Incomplete, Step
  <2>2. /\ par' \in ParType(L) /\ par'.error /\ par'.gcblocked = par.gcblocked /\ par'.docs = par.docs
    BY <1>1, <2>1 DEF ParType
  <2>3. CleanInv' /\ Typed(L)'
    BY <1>1, <2>1, <2>2 DEF CleanInv, Between, Typed
  <2>4. UngetInv'
    BY <1>1, <1>2, <2>1 DEF UngetInv
  <2> QED BY <1>1, <2>1, <2>2, <2>3, <2>4, ParserGoesOn DEF Parsing, Outside
<1>4. CASE /\ "\n" \notin Range(eof) /\ print_prompt2
           /\ lex' = [lex EXCEPT !.acc = <<>>, !.m = 0, !.from = Len(Text) - Len(stream) + 1]
           /\ pc' = "mark" /\ UNCHANGED <<in, tok, src, stream>>
  <2>1. Suffix(in.buf \o Chars(in.reads))
    BY <1>1 DEF PlaceInv, Outside
  <2>2. Pos \in 1..Len(Text) + 1 /\ Text \in Seq(Char) /\ Len(Text) \in Nat
    BY <1>1, <1>2, <2>1, AtText
  <2>3. lex' = [lex EXCEPT !.acc = <<>>, !.m = 0, !.from = Pos]
    BY <1>4 DEF Pos
  <2>4. Pos' = Pos
    <3>1. Text' = Text
      BY <1>4, TextStays
    <3> HIDE DEF Text
    <3> QED BY <1>4, <3>1 DEF Pos
  <2>5. Pos \in Int /\ <<>> \in Seq(L)
    BY <2>2
  <2> HIDE DEF Pos, Text
  <2>6. lex' \in LexType(L) /\ lex'.acc = <<>> /\ lex'.m = 0 /\ lex'.from = Pos /\ lex'.goterror = lex.goterror
    BY <1>1, <2>3, <2>5 DEF LexType
  <2>7. /\ par' \in ParType(L) /\ ParKept
    BY <1>1, <1>4, ParLine DEF print_prompt2, ParKept
  <2>8. Typed(L)' /\ TypeInv'
    <3>1. Typed(L)'
      BY <1>1, <1>4, <2>6, <2>7 DEF Typed
    <3> QED BY <1>4, <3>1, TypeAfter DEF ReaderInv, Points, Hereing
  <2>9. StreamInv'
    BY <1>1, <1>4, StreamSame
  <2>10. UngetInv'
    BY <1>1, <1>2, <1>4, <2>6 DEF UngetInv
  <2>11. CleanInv'
    BY <1>1, <1>4, <2>7 DEF CleanInv, Between, ParKept
  <2>12. PlaceInv'
    BY <1>1, <1>4, PlaceSame DEF Outside
  <2>13. DocInv'
    <3>1. eof \in Seq(Char)
      BY <1>1, MarkerIs
    <3> DEFINE e == eof
               l == lex'
               p == Pos
    <3>2. e \in Seq(Char) /\ p \in 1..Len(Text) + 1 /\ p \in Int /\ l.acc = <<>> /\ l.m = 0 /\ l.from = p
      BY <2>2, <2>5, <2>6, <3>1
    <3> HIDE DEF e, l, p
    <3>3. Document(Text, l, e, p)
      <4>1. <<>> \in Seq(Char)
        OBVIOUS
      <4> QED BY <2>2, <3>2, <4>1 DEF Document
    <3>4. Partial(Text, l, e, p, "mark")
      BY <3>2, <3>3, PartialStart
    <3>5. Partial(Text, lex', eof, Pos', pc')
      BY <1>4, <2>4, <3>4 DEF e, l, p
    <3>6. in'.ungot = <<>>
      BY <1>2, <1>4
    <3>7. HeredocExact /\ par'.queue = par.queue /\ par'.docs = par.docs
      BY <1>1, <2>7 DEF DocInv, ParKept
    <3>8. lex'.m <= Len(eof)
      BY <1>1, <2>6, MarkerIs
    <3> HIDE DEF eof, quoted
    <3> QED BY <1>1, <1>4, <3>5, <3>6, <3>7, <3>8, DocGoesOn
  <2> QED BY <2>8, <2>9, <2>10, <2>11, <2>12, <2>13 DEF ReaderInv
<1> QED BY <1>3, <1>4 DEF Snarf

\* What is known where a document is read.
LEMMA InsideIs ==
    ASSUME NEW L, L = Letters, SourcesAssumption, ReaderInv, pc \in Inside, Ready
    PROVE  /\ AtHand(in) /\ c \in Char /\ (c # "eof" => c \in L)
           /\ StreamInv /\ src \in Sources /\ ~lex.goterror /\ Len(in.ungot) <= 1
           /\ lex \in LexType(L) /\ tok \in TokType(L) /\ par \in ParType(L)
           /\ lex.acc \in Seq(L) /\ lex.m \in Nat
           /\ par.queue # <<>> /\ eof \in Seq(L) /\ quoted \in BOOLEAN
           /\ "\n" \notin Range(eof) /\ HeredocExact
           /\ Suffix(in.buf \o Chars(in.reads))
<1>1. /\ StreamInv /\ UngetInv /\ PlaceInv /\ DocInv /\ src \in Sources /\ Shaped(in)
      /\ lex \in LexType(L) /\ tok \in TokType(L) /\ par \in ParType(L)
  BY DEF ReaderInv, TypeInv, Typed, StreamInv
<1>2. AtHand(in) /\ c \in Char
  BY <1>1, ReadyIs
<1>3. c # "eof" => c \in L
  <2>1. Byte \subseteq L
    BY LettersAre
  <2> HIDE DEF c
  <2> QED BY <1>2, <2>1 DEF Byte
<1>4. ~lex.goterror /\ Len(in.ungot) # 2 /\ Len(in.ungot) <= 2
  BY <1>1 DEF UngetInv, Inside
<1>5. Len(in.ungot) <= 1
  BY <1>1, <1>4, Ungot, UpToTwo
<1>6. par.queue # <<>> /\ "\n" \notin Range(eof) /\ HeredocExact
  BY <1>1 DEF DocInv, Hereing, Inside
<1>7. eof \in Seq(L) /\ quoted \in BOOLEAN
  BY <1>1, <1>6, MarkerIs
<1>8. Suffix(in.buf \o Chars(in.reads))
  BY <1>1 DEF PlaceInv, Inside, Outside
<1>9. lex.acc \in Seq(L) /\ lex.m \in Nat
  BY <1>1 DEF LexType
<1> HIDE DEF c, eof, quoted
<1> QED BY <1>1, <1>2, <1>3, <1>4, <1>5, <1>6, <1>7, <1>8, <1>9

\* Where a quoted document is read.
LEMMA DocPlace ==
    ASSUME NEW L, L = Letters, SourcesAssumption, ReaderInv, pc \in {"mark", "copy"}, Ready,
           NulFree, quoted, src' = src
    PROVE  /\ in.ungot = <<>> /\ Partial(Text, lex, eof, Pos, pc) /\ Document(Text, lex, eof, Pos)
           /\ Pos <= Len(Text) => c = Text[Pos] /\ c # "eof"
           /\ ~(Pos <= Len(Text)) => c = "eof"
           /\ Get => in'.ungot = <<>> /\ (Pos <= Len(Text) => Pos' = Pos + 1)
           /\ \A k \in 1..Len(eof) : eof[k] # "eof"
<1>1. /\ AtHand(in) /\ StreamInv /\ src \in Sources /\ Len(in.ungot) <= 1
      /\ lex \in LexType(L) /\ par \in ParType(L) /\ lex.acc \in Seq(L) /\ lex.m \in Nat
      /\ par.queue # <<>> /\ Suffix(in.buf \o Chars(in.reads))
  BY InsideIs DEF Inside
<1>2. in.ungot = <<>> /\ Partial(Text, lex, eof, Pos, pc)
  BY DEF ReaderInv, DocInv
<1>3. /\ Pos <= Len(Text) => c = Text[Pos] /\ c \in Byte
      /\ ~(Pos <= Len(Text)) => c = "eof"
      /\ Get /\ Pos <= Len(Text) => Pos' = Pos + 1
  BY <1>1, <1>2, ReadText
<1>4. Get => in'.ungot = <<>>
  BY <1>1, <1>2, GetStep
<1>5. Text \in Seq(Char) /\ Pos \in Int
  BY <1>1, <1>2, AtText
<1>6. lex.from \in Int /\ lex.acc \in Seq(Char)
  <2>1. L \subseteq Char
    BY LettersAre
  <2> QED BY <1>1, <2>1, SeqMonotonic DEF LexType
<1>7. eof \in Seq(Char) /\ \A k \in 1..Len(eof) : eof[k] # "eof"
  BY <1>1, MarkerIs
<1>8. Document(Text, lex, eof, Pos)
  <2> HIDE DEF Text, Pos, eof
  <2> QED BY <1>1, <1>5, <1>6, <1>7 DEF Document
<1>9. c \in Byte => c # "eof"
  BY DEF Byte
<1> HIDE DEF c, Text, Pos, eof
<1> QED BY <1>2, <1>3, <1>4, <1>7, <1>8, <1>9

\* Out of a document that does not end.
LEMMA HereFailsInv ==
    ASSUME NEW L, L = Letters, SourcesAssumption, ReaderInv, pc \in Inside, Ready, HereFails
    PROVE  ReaderInv'
<1>1. /\ AtHand(in) /\ lex \in LexType(L) /\ tok \in TokType(L) /\ par \in ParType(L)
      /\ par.queue # <<>> /\ HeredocExact
  BY InsideIs
<1>2. /\ Get /\ pc' = "finish" /\ par' = [par EXCEPT !.error = TRUE, !.bad = TRUE]
      /\ UNCHANGED <<lex, tok, src>>
  BY DEF HereFails
<1>3. /\ par' \in ParType(L) /\ HereKept /\ par'.queue = par.queue /\ par'.docs = par.docs
  BY <1>1, <1>2 DEF ParType, HereKept
<1>4. Typed(L)'
  BY <1>1, <1>2, <1>3 DEF Typed
<1>5. DocInv'
  <2> HIDE DEF eof, quoted, NulFree
  <2> QED BY <1>1, <1>2, <1>3, DocGoesOn DEF Hereing
<1> QED BY <1>1, <1>2, <1>3, <1>4, <1>5, HereGoesOn

\* One more character of the marker.
LEMMA MatchingInv ==
    ASSUME NEW L, L = Letters, SourcesAssumption, ReaderInv, pc = "mark", Ready,
           Matching, Get, lex' = [lex EXCEPT !.m = @ + 1], Goto("mark")
    PROVE  ReaderInv'
<1>1. /\ AtHand(in) /\ lex \in LexType(L) /\ tok \in TokType(L) /\ par \in ParType(L)
      /\ par.queue # <<>> /\ HeredocExact /\ "\n" \notin Range(eof)
      /\ lex.m \in Nat /\ eof \in Seq(L)
  BY InsideIs DEF Inside
<1>2. pc' = "mark" /\ UNCHANGED <<tok, par, src>>
  BY DEF Goto, ShellStays
<1>3. lex.m < Len(eof) /\ c = eof[lex.m + 1]
  BY DEF Matching
<1>4. /\ lex' \in LexType(L) /\ lex'.m = lex.m + 1 /\ lex'.acc = lex.acc /\ lex'.from = lex.from
      /\ lex'.goterror = lex.goterror
  BY <1>1 DEF LexType
<1>5. Typed(L)' /\ HereKept
  BY <1>1, <1>2, <1>4 DEF Typed, HereKept
<1>6. lex'.m <= Len(eof)
  <2> DEFINE n == Len(eof)
             m == lex.m
  <2>1. n \in Nat /\ m \in Nat /\ m < n /\ lex'.m = m + 1
    BY <1>1, <1>3, <1>4
  <2> HIDE DEF n, m
  <2>2. m + 1 <= n
    BY <2>1
  <2> QED BY <2>1, <2>2 DEF n
<1>7. ASSUME NulFree, quoted PROVE in'.ungot = <<>> /\ Partial(Text, lex', eof, Pos', "mark")
  <2>1. /\ in.ungot = <<>> /\ Partial(Text, lex, eof, Pos, pc) /\ Document(Text, lex, eof, Pos)
        /\ Pos <= Len(Text) => c = Text[Pos] /\ c # "eof"
        /\ ~(Pos <= Len(Text)) => c = "eof"
        /\ in'.ungot = <<>> /\ (Pos <= Len(Text) => Pos' = Pos + 1)
        /\ \A k \in 1..Len(eof) : eof[k] # "eof"
    BY <1>2, <1>7, DocPlace
  <2>2. lex.m + 1 \in 1..Len(eof)
    <3> DEFINE n == Len(eof)
               m == lex.m
    <3>1. n \in Nat /\ m \in Nat /\ m < n
      BY <1>1, <1>3
    <3> HIDE DEF n, m
    <3>2. m + 1 \in 1..n
      BY <3>1
    <3> QED BY <3>2 DEF n, m
  <2> DEFINE t == Text
             e == eof
             p == Pos
             l == lex
             l2 == lex'
  <2>3. /\ Document(t, l, e, p) /\ Partial(t, l, e, p, "mark")
        /\ l2.from = l.from /\ l2.acc = l.acc /\ l2.m = l.m + 1
        /\ l.m < Len(e) /\ p <= Len(t) /\ t[p] = e[l.m + 1]
    BY <1>3, <1>4, <2>1, <2>2
  <2> HIDE DEF t, e, p, l, l2
  <2>4. Partial(t, l2, e, p + 1, "mark")
    BY <2>3, PartialMatch
  <2>5. Pos' = p + 1
    BY <2>1, <2>3 DEF p, t
  <2> QED BY <2>1, <2>4, <2>5 DEF t, e, l2
<1>8. DocInv'
  <2> HIDE DEF eof, quoted, NulFree, Text, Pos
  <2> QED BY <1>1, <1>2, <1>6, <1>7, DocGoesOn
<1> QED BY <1>1, <1>2, <1>4, <1>5, <1>8, HereGoesOn DEF Hereing, Inside

\* The line is not the marker.
LEMMA MissInv ==
    ASSUME NEW L, L = Letters, SourcesAssumption, ReaderInv, pc = "mark", Ready,
           ~Matching, ~(lex.m = Len(eof) /\ c \in {"\n", "eof"}), UNCHANGED <<in, stream>>,
           lex' = [lex EXCEPT !.acc = @ \o PutBack, !.m = 0], Goto("copy")
    PROVE  ReaderInv'
<1>1. /\ AtHand(in) /\ lex \in LexType(L) /\ tok \in TokType(L) /\ par \in ParType(L)
      /\ par.queue # <<>> /\ HeredocExact /\ "\n" \notin Range(eof)
      /\ lex.acc \in Seq(L) /\ lex.m \in Nat /\ eof \in Seq(L)
  BY InsideIs DEF Inside
<1>2. pc' = "copy" /\ UNCHANGED <<tok, par, src>>
  BY DEF Goto, ShellStays
<1>3. lex.m <= Len(eof)
  BY DEF ReaderInv, DocInv
<1>4. PutBack \in Seq(L)
  <2>1. lex.m \in Int /\ \A k \in 1..lex.m : eof[k] \in L
    <3> DEFINE n == Len(eof)
               m == lex.m
    <3>1. n \in Nat /\ m \in Nat /\ m <= n /\ \A k \in 1..n : eof[k] \in L
      BY <1>1, <1>3
    <3> HIDE DEF n, m
    <3>2. \A k \in 1..m : k \in 1..n
      BY <3>1
    <3> QED BY <3>1, <3>2 DEF m
  <2> QED BY <2>1, SubSeqProperties DEF PutBack
<1>5. lex.acc \o PutBack \in Seq(L)
  <2> HIDE DEF PutBack
  <2> QED BY <1>1, <1>4, ConcatProperties
<1>6. /\ lex' \in LexType(L) /\ lex'.m = 0 /\ lex'.acc = lex.acc \o PutBack /\ lex'.from = lex.from
      /\ lex'.goterror = lex.goterror
  <2> HIDE DEF PutBack
  <2> QED BY <1>1, <1>5 DEF LexType
<1>7. Typed(L)' /\ HereKept
  BY <1>1, <1>2, <1>6 DEF Typed, HereKept
<1>8. ASSUME NulFree, quoted PROVE in'.ungot = <<>> /\ Partial(Text, lex', eof, Pos', "copy")
  <2>1. /\ in.ungot = <<>> /\ Partial(Text, lex, eof, Pos, pc) /\ Document(Text, lex, eof, Pos)
        /\ Pos <= Len(Text) => c = Text[Pos] /\ c # "eof"
        /\ ~(Pos <= Len(Text)) => c = "eof"
    BY <1>2, <1>8, DocPlace
  <2>2. Pos' = Pos
    <3>1. Text' = Text
      BY <1>2, TextStays
    <3> HIDE DEF Text
    <3> QED BY <3>1 DEF Pos
  <2>3. ~(lex.m < Len(eof) /\ c = eof[lex.m + 1])
    BY DEF Matching
  <2> DEFINE t == Text
             e == eof
             p == Pos
             l == lex
             l2 == lex'
  <2> HIDE DEF c
  <2>4. /\ Document(t, l, e, p) /\ Partial(t, l, e, p, "mark")
        /\ l2.from = l.from /\ l2.acc = l.acc \o SubSeq(e, 1, l.m) /\ l2.m = 0
        /\ "\n" \notin Range(e)
        /\ ~(l.m < Len(e) /\ p <= Len(t) /\ t[p] = e[l.m + 1])
        /\ ~(l.m = Len(e) /\ (p <= Len(t) => t[p] = "\n"))
    BY <1>1, <1>6, <2>1, <2>3 DEF PutBack
  <2> HIDE DEF t, e, p, l, l2
  <2>5. Partial(t, l2, e, p, "copy")
    BY <2>4, PartialMiss
  <2> QED BY <2>1, <2>2, <2>5 DEF t, e, p, l2
<1>9. DocInv'
  <2> HIDE DEF eof, quoted, NulFree, Text, Pos
  <2> QED BY <1>1, <1>2, <1>8, DocGoesOn
<1> QED BY <1>1, <1>2, <1>6, <1>7, <1>9, HereGoesOn DEF Hereing, Inside

\* The line is the marker: the document is complete.
LEMMA DoneInv ==
    ASSUME NEW L, L = Letters, SourcesAssumption, ReaderInv, pc = "mark", Ready,
           lex.m = Len(eof), c \in {"\n", "eof"}, Get,
           par' = [par EXCEPT !.queue = Tail(@),
                              !.docs = Append(@, [eof |-> eof, quoted |-> quoted,
                                                  from |-> lex.from, doc |-> lex.acc])],
           pc' = (IF Len(par.queue) > 1 THEN "here" ELSE After(par)), UNCHANGED <<lex, tok, src>>
    PROVE  ReaderInv'
<1> DEFINE d == [eof |-> eof, quoted |-> quoted, from |-> lex.from, doc |-> lex.acc]
           q == Tail(par.queue)
           docs == Append(par.docs, d)
<1>1. /\ AtHand(in) /\ lex \in LexType(L) /\ tok \in TokType(L) /\ par \in ParType(L)
      /\ par.queue # <<>> /\ HeredocExact /\ quoted \in BOOLEAN
      /\ lex.acc \in Seq(L) /\ lex.m \in Nat /\ eof \in Seq(L) /\ lex.from \in Int
  BY InsideIs DEF Inside, LexType
<1>2. d \in DocType(L) /\ d.eof = eof /\ d.quoted = quoted /\ d.from = lex.from /\ d.doc = lex.acc
  BY <1>1 DEF DocType
<1>3. /\ q \in Seq(MarkerType(L)) /\ Len(q) = Len(par.queue) - 1 /\ Len(par.queue) \in Nat
      /\ Len(q) \in Nat /\ (q = <<>> <=> Len(q) = 0)
  <2>1. par.queue \in Seq(MarkerType(L))
    BY <1>1 DEF ParType
  <2> DEFINE T == MarkerType(L)
             w == par.queue
  <2>2. w \in Seq(T) /\ w # <<>>
    BY <1>1, <2>1
  <2> HIDE DEF T, w
  <2>3. Tail(w) \in Seq(T) /\ Len(Tail(w)) = Len(w) - 1
    BY <2>2, HeadTailProperties
  <2>4. Len(w) \in Nat /\ Len(Tail(w)) \in Nat
    BY <2>2, <2>3, LenProperties
  <2>5. Tail(w) = <<>> <=> Len(Tail(w)) = 0
    BY <2>3, EmptySeq
  <2> QED BY <2>3, <2>4, <2>5 DEF T, w
<1>4. par' = [par EXCEPT !.queue = q, !.docs = docs]
  OBVIOUS
<1> HIDE DEF d
<1>5. /\ docs \in Seq(DocType(L)) /\ DOMAIN docs = 1..Len(par.docs) + 1 /\ Len(par.docs) \in Nat
      /\ DOMAIN par.docs = 1..Len(par.docs)
      /\ \A k \in 1..Len(par.docs) : docs[k] = par.docs[k]
      /\ docs[Len(par.docs) + 1] = d
  <2>1. par.docs \in Seq(DocType(L))
    BY <1>1 DEF ParType
  <2> QED BY <1>2, <2>1, AppendProperties
<1> HIDE DEF q, docs
<1>6. /\ par' \in ParType(L) /\ HereKept /\ par'.queue = q /\ par'.docs = docs
  BY <1>1, <1>3, <1>4, <1>5 DEF ParType, HereKept
<1>7. Typed(L)'
  BY <1>1, <1>6 DEF Typed
<1>8. Text' = Text /\ NulFree' = NulFree
  BY TextStays DEF NulFree
<1>9. ASSUME NulFree, quoted PROVE Exact(d)
  <2>1. /\ Partial(Text, lex, eof, Pos, pc) /\ Document(Text, lex, eof, Pos)
        /\ Pos <= Len(Text) => c = Text[Pos] /\ c # "eof"
    BY <1>9, DocPlace
  <2> DEFINE e == eof
             p == Pos
             l == lex
  <2> HIDE DEF c, Text
  <2>2. /\ Document(Text, l, e, p) /\ Partial(Text, l, e, p, "mark") /\ l.m = Len(e)
        /\ p <= Len(Text) => Text[p] = "\n"
        /\ d.eof = e /\ d.from = l.from /\ d.doc = l.acc
    BY <1>2, <2>1
  <2> HIDE DEF e, p, l
  <2> QED BY <2>2, PartialDone
<1>10. HeredocExact'
  <2>1. SUFFICES ASSUME NulFree', NEW k \in DOMAIN par'.docs, par'.docs[k].quoted
                 PROVE  Exact(par.docs[k])'
    BY Zenon DEF HeredocExact, NulFree
  <2>2. NulFree /\ k \in 1..Len(par.docs) + 1 /\ docs[k].quoted
    BY <1>5, <1>6, <1>8, <2>1
  <2>3. Exact(docs[k])
    <3>1. CASE k = Len(par.docs) + 1
      BY <1>2, <1>5, <1>9, <2>2, <3>1
    <3>2. CASE k # Len(par.docs) + 1
      <4>1. k \in 1..Len(par.docs)
        BY <1>5, <2>2, <3>2
      <4>2. k \in DOMAIN par.docs /\ par.docs[k] = docs[k]
        BY <1>5, <4>1
      <4> QED BY <1>1, <2>2, <4>2 DEF HeredocExact, NulFree
    <3> QED BY <3>1, <3>2
  <2>4. PICK e : e = docs[k]
    OBVIOUS
  <2>5. Exact(e)'
    BY <1>8, <2>3, <2>4, ExactOne
  <2>6. e = (par.docs[k])'
    BY <1>6, <2>4
  <2> QED BY <2>5, <2>6
<1>11. pc' \in {"here", "finish", "lex"} /\ (pc' = "here" => q # <<>>)
  <2>1. After(par) \in {"finish", "lex"}
    BY DEF After
  <2> DEFINE n == Len(par.queue)
             m == Len(q)
  <2>2. n \in Nat /\ m = n - 1 /\ (q = <<>> <=> m = 0)
    BY <1>3
  <2>3. pc' = IF n > 1 THEN "here" ELSE After(par)
    OBVIOUS
  <2> HIDE DEF n, m
  <2> QED BY <2>1, <2>2, <2>3
<1>12. DocInv'
  <2> HIDE DEF NulFree, eof, quoted
  <2>1. pc' \in Hereing => pc' = "here"
    BY <1>11 DEF Hereing
  <2>2. pc' \notin {"mark", "copy", "heredollar", "herevar"}
    BY <1>11
  <2> QED BY <1>6, <1>10, <1>11, <2>1, <2>2 DEF DocInv
<1> QED BY <1>1, <1>6, <1>7, <1>11, <1>12, HereGoesOn DEF Hereing, Inside

LEMMA MarkInv ==
    ASSUME NEW L, L = Letters, SourcesAssumption, ReaderInv, Mark
    PROVE  ReaderInv'
<1>1. pc = "mark" /\ Ready
  BY DEF Mark, At
<1> HIDE DEF c, eof, quoted
<1> QED BY <1>1, MatchingInv, HereFailsInv, DoneInv, MissInv DEF Mark, Inside

\* A character is copied into the document.
LEMMA CopiedInv ==
    ASSUME NEW L, L = Letters, SourcesAssumption, ReaderInv, pc \in {"copy", "heredollar"}, Ready,
           c # "eof", pc = "heredollar" => c # "\n", Copied(lex.acc)
    PROVE  ReaderInv'
<1>1. /\ AtHand(in) /\ lex \in LexType(L) /\ tok \in TokType(L) /\ par \in ParType(L)
      /\ par.queue # <<>> /\ HeredocExact /\ "\n" \notin Range(eof)
      /\ lex.acc \in Seq(L) /\ eof \in Seq(L) /\ c \in L
  BY InsideIs DEF Inside
<1>2. /\ Get /\ lex' = [lex EXCEPT !.acc = Append(lex.acc, c), !.m = 0] /\ UNCHANGED <<tok, src>>
      /\ \/ c = "\n" /\ print_prompt2 /\ pc' = "mark"
         \/ c # "\n" /\ pc' = "copy" /\ par' = par
  BY DEF Copied
<1> HIDE DEF c
<1>3. /\ lex' \in LexType(L) /\ lex'.m = 0 /\ lex'.acc = Append(lex.acc, c) /\ lex'.from = lex.from
      /\ lex'.goterror = lex.goterror
  <2>1. Append(lex.acc, c) \in Seq(L)
    BY <1>1
  <2> QED BY <1>1, <1>2, <2>1 DEF LexType
<1>4. /\ par' \in ParType(L) /\ par'.gcblocked = par.gcblocked /\ par'.skip = par.skip
      /\ par'.error = par.error /\ par'.bad = par.bad /\ par'.queue = par.queue /\ par'.docs = par.docs
  BY <1>1, <1>2, ParLine DEF print_prompt2
<1>5. Typed(L)' /\ HereKept
  BY <1>1, <1>2, <1>3, <1>4 DEF Typed, HereKept
<1>6. pc' \in {"mark", "copy"} /\ (pc' = "mark" <=> c = "\n")
  BY <1>2
<1>7. lex'.m <= Len(eof)
  <2>1. Len(eof) \in Nat
    BY <1>1
  <2> QED BY <1>3, <2>1
<1>8. ASSUME NulFree, quoted PROVE in'.ungot = <<>> /\ Partial(Text, lex', eof, Pos', pc')
  <2>1. pc = "copy"
    BY <1>8 DEF ReaderInv, DocInv
  <2>2. /\ in.ungot = <<>> /\ Partial(Text, lex, eof, Pos, pc) /\ Document(Text, lex, eof, Pos)
        /\ Pos <= Len(Text) => c = Text[Pos]
        /\ ~(Pos <= Len(Text)) => c = "eof"
        /\ in'.ungot = <<>> /\ (Pos <= Len(Text) => Pos' = Pos + 1)
    BY <1>2, <1>8, <2>1, DocPlace
  <2> DEFINE t == Text
             e == eof
             p == Pos
             l == lex
             l2 == lex'
             at == pc'
  <2>3. /\ Document(t, l, e, p) /\ Partial(t, l, e, p, "copy") /\ p <= Len(t)
        /\ l2.from = l.from /\ l2.acc = Append(l.acc, t[p]) /\ l2.m = 0
        /\ at \in {"mark", "copy"} /\ (at = "mark" <=> t[p] = "\n")
    BY <1>3, <1>6, <2>1, <2>2
  <2> HIDE DEF t, e, p, l, l2, at
  <2>4. Partial(t, l2, e, p + 1, at)
    BY <2>3, PartialCopy
  <2>5. Pos' = p + 1
    BY <2>2, <2>3 DEF p, t
  <2> QED BY <2>2, <2>4, <2>5 DEF t, e, l2, at
<1>9. DocInv'
  <2> HIDE DEF eof, quoted, NulFree, Text, Pos
  <2> QED BY <1>1, <1>2, <1>4, <1>6, <1>7, <1>8, DocGoesOn
<1> QED BY <1>1, <1>2, <1>3, <1>5, <1>6, <1>9, HereGoesOn DEF Hereing, Inside

\* What is left to do of a document that is not quoted, or past its dollars.
LEMMA ExpandInv ==
    ASSUME NEW L, L = Letters, SourcesAssumption, ReaderInv, pc \in Inside, Ready, ~quoted,
           Get \/ Look, lex' \in LexType(L), lex'.goterror = lex.goterror,
           pc' \in {"copy", "heredollar", "herevar", "hang"}, UNCHANGED <<tok, par, src>>
    PROVE  ReaderInv'
<1>1. /\ AtHand(in) /\ tok \in TokType(L) /\ par \in ParType(L)
      /\ par.queue # <<>> /\ HeredocExact /\ "\n" \notin Range(eof)
  BY InsideIs
<1>2. Typed(L)' /\ HereKept
  BY <1>1 DEF Typed, HereKept
<1>3. DocInv'
  <2> HIDE DEF eof, quoted, NulFree, Text, Pos
  <2> QED BY <1>1, DocGoesOn
<1> QED BY <1>1, <1>2, <1>3, HereGoesOn DEF Hereing

LEMMA CopyInv ==
    ASSUME NEW L, L = Letters, SourcesAssumption, ReaderInv, Copy
    PROVE  ReaderInv'
<1>1. pc = "copy" /\ Ready
  BY DEF Copy, At
<1>2. lex \in LexType(L)
  BY DEF ReaderInv, TypeInv, Typed
<1> HIDE DEF c, eof, quoted
<1>3. CASE HereFails
  BY <1>1, <1>3, HereFailsInv DEF Inside
<1>4. CASE ~quoted /\ Get /\ Goto("heredollar") /\ UNCHANGED lex
  <2>1. pc' = "heredollar" /\ UNCHANGED <<lex, tok, par, src>>
    BY <1>4 DEF Goto, ShellStays
  <2> QED BY <1>1, <1>2, <1>4, <2>1, ExpandInv DEF Inside
<1>5. CASE c # "eof" /\ Copied(lex.acc)
  BY <1>1, <1>5, CopiedInv
<1> QED BY <1>3, <1>4, <1>5 DEF Copy

LEMMA DollarsInv ==
    ASSUME NEW L, L = Letters, SourcesAssumption, ReaderInv, HereDollar \/ HereVar
    PROVE  ReaderInv'
<1>1. pc \in {"heredollar", "herevar"} /\ Ready /\ (HereDollar => pc = "heredollar")
  BY DEF HereDollar, HereVar, At
<1>2. lex \in LexType(L) /\ ~quoted
  BY <1>1 DEF ReaderInv, TypeInv, Typed, DocInv
<1> HIDE DEF c, eof, quoted
<1>3. CASE HereDollar /\ c = "$"
  <2>1. Copied(lex.acc)
    BY <1>3 DEF HereDollar
  <2> QED BY <1>1, <1>3, <2>1, CopiedInv
<1>4. CASE HereDollar /\ c # "$"
  <2>1. Look /\ lex' = [lex EXCEPT !.acc = Append(@, "var")] /\ pc' = "herevar" /\ UNCHANGED <<tok, par, src>>
    BY <1>4 DEF HereDollar, Goto, ShellStays
  <2>2. Append(lex.acc, "var") \in Seq(L)
    <3>1. "var" \in L
      BY LettersAre, Constants
    <3> QED BY <1>2, <3>1 DEF LexType
  <2>3. lex' \in LexType(L) /\ lex'.goterror = lex.goterror
    BY <1>2, <2>1, <2>2 DEF LexType
  <2> QED BY <1>1, <1>2, <2>1, <2>3, ExpandInv DEF Inside
<1>5. CASE HereVar
  <2>1. (Get \/ Look) /\ pc' \in {"copy", "herevar", "hang"} /\ UNCHANGED <<lex, tok, par, src>>
    BY <1>5 DEF HereVar, Goto, ShellStays
  <2> QED BY <1>1, <1>2, <2>1, ExpandInv DEF Inside
<1> QED BY <1>3, <1>4, <1>5

LEMMA HereInv ==
    ASSUME NEW L, L = Letters, SourcesAssumption, ReaderInv, readheredocs
    PROVE  ReaderInv'
BY SnarfInv, MarkInv, CopyInv, DollarsInv DEF readheredocs

-----------------------------------------------------------------------------
(***************************************************************************)
(* The invariant holds                                                     *)
(***************************************************************************)

LEMMA LexerInv ==
    ASSUME NEW L, L = Letters, ReaderInv, yylex
    PROVE  ReaderInv'
<1>1. CASE Yylex
  BY <1>1, YylexInv
<1>2. CASE Backslash
  BY <1>2, BackslashInv
<1>3. CASE ~Yylex /\ ~Backslash
  <2>1. /\ StreamInv /\ UngetInv /\ PlaceInv /\ Typed(L) /\ Shaped(in)
    BY DEF ReaderInv, TypeInv, StreamInv
  <2>2. Byte \subseteq L /\ L \subseteq Char /\ (NulFree => L = Byte) /\ (~NulFree => L = Char)
    BY LettersAre DEF Letters
  <2>3. lex.goterror => pc \notin Scanning
    BY <2>1 DEF UngetInv, Scanning
  <2>4. Lexing(L)
    BY <2>1, <2>2, <2>3 DEF Lexing
  <2>5. pc = "esc" /\ AtHand(in) => c \in L
    <3> SUFFICES ASSUME pc = "esc", AtHand(in) PROVE c \in L
      OBVIOUS
    <3>1. c \in Char /\ (stream # <<>> => c = Head(stream))
      BY <2>1, CharIs
    <3>2. NulFree => c # "eof"
      BY <2>1, <3>1 DEF PlaceInv
    <3> HIDE DEF c, NulFree
    <3> QED BY <2>2, <3>1, <3>2 DEF Byte
  <2> HIDE DEF c
  <2>6. LexStep(L)
    BY <1>3, <2>4, <2>5, LexerSteps
  <2> QED BY <2>6, LexStepInv
<1> QED BY <1>1, <1>2, <1>3

LEMMA StutterInv ==
    ASSUME NEW L, L = Letters, ReaderInv, UNCHANGED vars
    PROVE  ReaderInv'
<1>1. UNCHANGED <<in, lex, pc, tok, par, src, stream>>
  BY DEF vars
<1>2. TypeInv'
  BY <1>1, TypeAfter DEF ReaderInv, TypeInv, Typed
<1>3. StreamInv'
  BY <1>1, StreamSame DEF ReaderInv
<1>4. UngetInv' /\ CleanInv'
  BY <1>1 DEF ReaderInv, UngetInv, CleanInv
<1>5. Text' = Text /\ NulFree' = NulFree
  BY <1>1, LettersAre
<1>6. PlaceInv'
  <2> HIDE DEF Text, NulFree
  <2> QED BY <1>1, <1>5 DEF ReaderInv, PlaceInv, Suffix
<1>7. DocInv'
  <2>1. HeredocExact'
    BY <1>1, ExactStays DEF ReaderInv, DocInv
  <2>2. eof' = eof /\ quoted' = quoted
    BY <1>1 DEF eof, quoted
  <2>3. Pos' = Pos
    BY <1>1, <1>5 DEF Pos
  <2> HIDE DEF Text, NulFree, eof, quoted, Pos
  <2> QED BY <1>1, <1>5, <2>1, <2>2, <2>3 DEF ReaderInv, DocInv
<1> QED BY <1>2, <1>3, <1>4, <1>6, <1>7 DEF ReaderInv

LEMMA StepInv ==
    ASSUME SourcesAssumption, ReaderInv, [Next]_vars
    PROVE  ReaderInv'
<1>1. PICK L : L = Letters
  OBVIOUS
<1> QED BY <1>1, ReadInv, LexerInv, ParserInv, HereInv, StutterInv DEF Next

\* A behaviour begins at the start of the text.
LEMMA InitInv ==
    ASSUME SourcesAssumption, Init
    PROVE  ReaderInv
<1>1. PICK L : L = Letters
  OBVIOUS
<1>2. /\ src \in Sources /\ src.reads \in Reads /\ src.str \in BOOLEAN /\ src.verbose \in BOOLEAN
      /\ src.sound => Sound(src.reads)
      /\ Text \in Seq(Byte) /\ Text \in Seq(Char) /\ stream = Text /\ pc = "parse"
  <2>1. /\ src \in Sources /\ src.reads \in Reads /\ src.str \in BOOLEAN /\ src.verbose \in BOOLEAN
        /\ src.sound => Sound(src.reads)
    BY DEF Init, SourcesAssumption
  <2> QED BY <2>1, CharsIs, Bytes DEF Init, Text
<1> DEFINE reads == IF src.str THEN <<>> ELSE src.reads
           buf == IF src.str THEN Text ELSE <<>>
           fill == IF src.str THEN "stringfill" ELSE "fdfill"
<1>3. /\ in = [reads |-> reads, buf |-> buf, at |-> 1, rat |-> 0, ungot |-> <<>>,
               fill |-> fill, rfill |-> "NULL", intr |-> FALSE, verbose |-> src.verbose, echoed |-> 0]
      /\ lex = [w |-> "non", newline |-> FALSE, goterror |-> FALSE, dollar |-> FALSE,
                meta |-> "non_word", acc |-> <<>>, cmd |-> "NULL", m |-> 0, from |-> 0]
      /\ tok = [kind |-> "NL", s |-> <<>>]
      /\ par = [lineno |-> 1, prompt2 |-> FALSE, error |-> FALSE, gcblocked |-> 0,
                nest |-> <<Opened("top")>>, want |-> "none", marker |-> <<>>, last |-> "word",
                queue |-> <<>>, skip |-> FALSE, bad |-> FALSE, ok |-> FALSE, toks |-> <<>>, docs |-> <<>>]
  BY DEF Init
<1>4. /\ reads \in Reads /\ buf \in Seq(Byte) /\ fill \in Fills
      /\ Range(reads) \subseteq Range(src.reads) /\ (src.str <=> fill # "fdfill")
      /\ src.str => reads = <<>> /\ buf = Text
      /\ ~src.str => reads = src.reads /\ buf = <<>>
  <2>1. <<>> \in Reads /\ <<>> \in Seq(Byte) /\ Range(<<>>) = {}
    BY DEF Reads, Range
  <2> HIDE DEF Text
  <2> QED BY <1>2, <2>1 DEF Fills
<1> HIDE DEF reads, buf, fill, Text
<1>5. buf \o Chars(reads) = Text
  <2>1. CASE src.str
    BY <1>2, <1>4, <2>1, CharsIs, ConcatEmptySeq
  <2>2. CASE ~src.str
    <3>1. Chars(src.reads) = Text
      BY DEF Text
    <3> QED BY <1>2, <1>4, <2>2, <3>1, ConcatEmptySeq
  <2> QED BY <2>1, <2>2
<1>6. /\ in \in InputType /\ in.ungot = <<>> /\ in.fill = fill /\ in.reads = reads /\ in.buf = buf
      /\ in.at = 1 /\ in.echoed = 0
  <2>1. <<>> \in Seq(Char) /\ fill \in Fills \cup {"ungetfill"} /\ "NULL" \in Fills \cup {"NULL"}
    BY <1>4
  <2> QED BY <1>2, <1>3, <1>4, <2>1 DEF InputType
<1>7. fill # "ungetfill"
  BY <1>4 DEF Fills
<1>8. Shaped(in) /\ Unread(in) = Text /\ Held(in) = Text
  <2>1. Place(in) = 1 /\ Filler(in) = fill /\ Len(buf) \in Nat /\ 1 \in 1..Len(buf) + 1
    BY <1>4, <1>6, <1>7 DEF Place, Filler
  <2>2. Shaped(in)
    BY <1>4, <1>6, <1>7, <2>1 DEF Shaped
  <2>3. SubSeq(buf, 1, Len(buf)) = buf
    BY <1>4, SubSeqFull
  <2>4. Unread(in) = Text
    BY <1>5, <1>6, <2>1, <2>3 DEF Unread
  <2> QED BY <1>6, <2>2, <2>4, HeldIs
<1>9. StreamInv
  <2>1. in.echoed + Len(Unread(in)) = Len(Text)
    <3>1. Len(Text) \in Nat
      BY <1>2
    <3> QED BY <1>6, <1>8, <3>1
  <2>2. src.sound => Sound(in.reads)
    BY <1>2, <1>4, <1>6 DEF Sound
  <2> QED BY <1>2, <1>8, <2>1, <2>2 DEF StreamInv
<1>10. TypeInv
  <2>1. <<>> \in Seq(L) /\ 0 \in Int
    OBVIOUS
  <2>2. lex \in LexType(L)
    BY <1>3, <2>1 DEF LexType, Commands
  <2>3. tok \in TokType(L)
    BY <1>3, <2>1 DEF TokType, Kinds
  <2>4. par \in ParType(L)
    <3> DEFINE nest == <<Opened("top")>>
    <3>1. /\ "none" \in Wants /\ "word" \in Lasts /\ nest \in NestType(L)
          /\ <<>> \in Seq(MarkerType(L)) /\ <<>> \in Seq(TokType(L)) /\ <<>> \in Seq(DocType(L))
      BY <2>1, NestFirst DEF Wants, Lasts
    <3> HIDE DEF nest
    <3>2. par = [lineno |-> 1, prompt2 |-> FALSE, error |-> FALSE, gcblocked |-> 0,
                 nest |-> nest, want |-> "none", marker |-> <<>>, last |-> "word",
                 queue |-> <<>>, skip |-> FALSE, bad |-> FALSE, ok |-> FALSE, toks |-> <<>>, docs |-> <<>>]
      BY <1>3 DEF nest
    <3> QED BY <2>1, <3>1, <3>2 DEF ParType
  <2> QED BY <1>1, <1>2, <2>2, <2>3, <2>4 DEF TypeInv, Typed, Points, Between
<1>11. UngetInv
  <2>1. Len(in.ungot) = 0
    BY <1>6
  <2>2. ~lex.goterror
    BY <1>3
  <2> QED BY <1>2, <1>6, <2>1, <2>2 DEF UngetInv
<1>12. CleanInv
  BY <1>2, <1>3 DEF CleanInv, Between
<1>13. PlaceInv
  <2>1. Suffix(in.buf \o Chars(in.reads))
    <3>1. Len(Text) \in Nat /\ SubSeq(Text, 1, Len(Text)) = Text
      BY <1>2, SubSeqFull
    <3>2. Len(Text) - Len(Text) + 1 = 1 /\ Len(Text) <= Len(Text)
      BY <3>1
    <3> QED BY <1>5, <1>6, <3>1, <3>2 DEF Suffix
  <2>2. NulFree => stream \in Seq(Char \ {"nul"})
    <3> DEFINE K == Char \ {"nul"}
               n == Len(Text)
    <3>1. n \in Nat /\ Text \in [1..n -> Char] /\ (NulFree => \A k \in 1..n : Text[k] # "nul")
      BY <1>2 DEF NulFree, Range
    <3>2. NulFree => Text \in [1..n -> K]
      BY <3>1
    <3> HIDE DEF n, K
    <3>3. [1..n -> K] \subseteq Seq(K)
      BY <3>1
    <3> QED BY <1>2, <3>2, <3>3 DEF K
  <2> QED BY <1>2, <2>1, <2>2 DEF PlaceInv
<1>14. DocInv
  <2>1. par.docs = <<>>
    BY <1>3
  <2>2. HeredocExact
    BY <2>1 DEF HeredocExact
  <2> QED BY <1>2, <2>2 DEF DocInv, Hereing
<1> QED BY <1>9, <1>10, <1>11, <1>12, <1>13, <1>14 DEF ReaderInv

\* What the properties say of a state.
LEMMA ReaderSays ==
    ASSUME SourcesAssumption, ReaderInv
    PROVE  DeliversStream /\ ParserClean /\ HeredocExact
<1>1. /\ StreamInv /\ UngetInv /\ CleanInv /\ Shaped(in) /\ Held(in) = stream
      /\ HeredocExact /\ src \in Sources
  BY DEF ReaderInv, StreamInv, DocInv, TypeInv
<1>2. SubSeq(in.buf, IF in.fill = "ungetfill" THEN in.rat ELSE in.at, Len(in.buf)) \o Chars(in.reads)
      = Unread(in)
  BY DEF Unread, Place
<1>3. Reverse(in.ungot) \o Unread(in) = stream
  BY <1>1 DEF Held
<1>4. Len(in.ungot) <= MAXUNGET
  <2> DEFINE n == Len(in.ungot)
  <2>1. n \in Nat /\ n <= 2 /\ MAXUNGET \in Nat /\ MAXUNGET >= 2
    <3>1. in.ungot \in Seq(Char)
      BY <1>1, InputFacts
    <3> QED BY <1>1, <3>1 DEF UngetInv, SourcesAssumption
  <2> HIDE DEF n
  <2>2. n <= MAXUNGET
    BY <2>1
  <2> QED BY <2>2 DEF n
<1>5. in.fill = "ungetfill" <=> in.ungot # <<>>
  BY <1>1 DEF Shaped
<1>6. in.verbose /\ src.sound => in.echoed = Len(Text) - Len(Unread(in))
  <2> SUFFICES ASSUME in.verbose, src.sound PROVE in.echoed = Len(Text) - Len(Unread(in))
    OBVIOUS
  <2> DEFINE n == Len(Text)
             m == Len(Unread(in))
             k == in.echoed
  <2>1. k + m = n
    BY <1>1 DEF StreamInv
  <2>2. k \in Nat /\ m \in Nat
    <3>1. in \in InputType /\ Unread(in) \in Seq(Char)
      BY <1>1, InputFacts, HeldIs
    <3> QED BY <3>1 DEF InputType
  <2> HIDE DEF n, m, k
  <2>3. k = n - m
    BY <2>1, <2>2
  <2> QED BY <2>3 DEF n, m, k
<1>7. DeliversStream
  <2> HIDE DEF Text, Unread
  <2> QED BY <1>2, <1>3, <1>4, <1>5, <1>6 DEF DeliversStream
<1>8. ParserClean
  <2>1. pc \in {"parse", "end"} => pc \in Between
    BY DEF Between
  <2> QED BY <1>1, <2>1 DEF ParserClean, CleanInv
<1> QED BY <1>1, <1>7, <1>8

-----------------------------------------------------------------------------
(***************************************************************************)
(* The theorems                                                            *)
(***************************************************************************)

LEMMA ReaderAlways == Spec => []ReaderInv
<1>1. Init => ReaderInv
  BY InitInv, SourcesAre
<1>2. ReaderInv /\ [Next]_vars => ReaderInv'
  BY StepInv, SourcesAre
<1> QED BY <1>1, <1>2, PTL DEF Spec

\* Whatever is read, looked at and pushed back, what GETC returns is the source
\* in order, each character of it once; the push-back never outgrows its array
\* of two, and a source whose reads do not fail is echoed once (input.cpp: get,
\* unget, ungetfill, getverbose; token.c: yylex).
THEOREM ReaderDeliversStream == Spec => []DeliversStream
<1>1. ReaderInv => DeliversStream
  BY ReaderSays, SourcesAre
<1> QED BY <1>1, ReaderAlways, PTL

\* However a command ends, parsed, refused, at the end of the source or cut off
\* by a signal, the next one finds no error and the collector enabled: the
\* assertions of parse hold, unless a read fails (input.cpp: parse).
THEOREM ReaderParserClean == Spec => []ParserClean
<1>1. ReaderInv => ParserClean
  BY ReaderSays, SourcesAre
<1> QED BY <1>1, ReaderAlways, PTL

\* Whatever the marker and the text, a quoted here document is what stands
\* before the first line that is its marker, although snarfheredoc never goes
\* back in the source (heredoc.c: snarfheredoc).
THEOREM ReaderHeredocExact == Spec => []HeredocExact
<1>1. ReaderInv => HeredocExact
  BY ReaderSays, SourcesAre
<1> QED BY <1>1, ReaderAlways, PTL

-----------------------------------------------------------------------------
(***************************************************************************)
(* Sequences of sequences put together                                     *)
(***************************************************************************)

\* f gives what the first sequences of ss are together.
IsFlat(f, ss) ==
    f = [i \in 1..Len(ss) |-> IF i = 1 THEN ss[i] ELSE f[i - 1] \o ss[i]]

LEMMA FlattenChoose ==
    ASSUME NEW ss
    PROVE  FlattenSeq(ss) = IF Len(ss) = 0 THEN ss ELSE (CHOOSE f : IsFlat(f, ss))[Len(ss)]
BY DEF FlattenSeq, IsFlat

LEMMA FlatUnique ==
    ASSUME NEW ss \in Seq(Seq(Char)), NEW f, NEW g, IsFlat(f, ss), IsFlat(g, ss)
    PROVE  f = g
<1> DEFINE n == Len(ss)
           F(h, i) == IF i = 1 THEN ss[i] ELSE h[i - 1] \o ss[i]
           S == {k \in Nat : \A i \in 1..n : i <= k => f[i] = g[i]}
<1>1. n \in Nat
  OBVIOUS
<1>2. f = [i \in 1..n |-> F(f, i)] /\ g = [i \in 1..n |-> F(g, i)]
  BY DEF IsFlat
<1>3. \A i \in 1..n : f[i] = F(f, i) /\ g[i] = F(g, i)
  <2> HIDE DEF F
  <2> QED BY <1>2
<1> HIDE DEF n
<1>4. 0 \in S
  OBVIOUS
<1>5. ASSUME NEW k \in Nat, k \in S PROVE k + 1 \in S
  <2> SUFFICES ASSUME NEW i \in 1..n, i <= k + 1 PROVE f[i] = g[i]
    OBVIOUS
  <2>1. CASE i = 1
    BY <1>3, <2>1
  <2>2. CASE i # 1
    <3>1. i - 1 \in 1..n /\ i - 1 <= k
      BY <1>1, <2>2
    <3>2. f[i - 1] = g[i - 1]
      BY <1>5, <3>1
    <3> QED BY <1>3, <2>2, <3>2
  <2> QED BY <2>1, <2>2
<1>6. Nat \subseteq S
  <2> HIDE DEF S
  <2> QED BY <1>4, <1>5, Induction
<1>7. ASSUME NEW i \in 1..n PROVE f[i] = g[i]
  <2>1. i \in Nat /\ i \in S
    BY <1>1, <1>6
  <2> QED BY <2>1
<1>8. \A i \in 1..n : F(f, i) = F(g, i)
  BY <1>3, <1>7
<1> HIDE DEF F
<1> QED BY <1>2, <1>8

LEMMA FlatMore ==
    ASSUME NEW ss \in Seq(Seq(Char)), NEW x \in Seq(Char), NEW f, IsFlat(f, ss)
    PROVE  \E g : /\ IsFlat(g, Append(ss, x))
                  /\ g[Len(ss) + 1] = IF Len(ss) = 0 THEN x ELSE f[Len(ss)] \o x
<1> DEFINE n == Len(ss)
           t == Append(ss, x)
           last == IF n = 0 THEN x ELSE f[n] \o x
           g == [i \in 1..n + 1 |-> IF i = n + 1 THEN last ELSE f[i]]
<1>1. n \in Nat /\ Len(t) = n + 1 /\ t[n + 1] = x /\ \A i \in 1..n : t[i] = ss[i]
  BY AppendProperties
<1>2. \A i \in 1..n : f[i] = IF i = 1 THEN ss[i] ELSE f[i - 1] \o ss[i]
  <2> DEFINE F(i) == IF i = 1 THEN ss[i] ELSE f[i - 1] \o ss[i]
  <2>1. f = [i \in 1..n |-> F(i)]
    BY DEF IsFlat
  <2> HIDE DEF F
  <2>2. \A i \in 1..n : f[i] = F(i)
    BY <2>1
  <2> QED BY <2>2 DEF F
<1> HIDE DEF n, t
<1>3. ASSUME NEW i \in 1..n + 1
      PROVE  g[i] = IF i = 1 THEN t[i] ELSE g[i - 1] \o t[i]
  <2> HIDE DEF last
  <2>1. \A j \in 1..n + 1 : g[j] = IF j = n + 1 THEN last ELSE f[j]
    OBVIOUS
  <2> HIDE DEF g
  <2>2. CASE i = n + 1
    <3>1. CASE n = 0
      <4>1. last = x
        BY <3>1 DEF last
      <4> QED BY <1>1, <2>1, <2>2, <3>1, <4>1
    <3>2. CASE n # 0
      <4>1. last = f[n] \o x /\ i # 1 /\ n \in 1..n + 1 /\ n # n + 1 /\ i - 1 = n
        BY <1>1, <2>2, <3>2 DEF last
      <4> QED BY <1>1, <2>1, <2>2, <4>1
    <3> QED BY <3>1, <3>2
  <2>3. CASE i # n + 1
    <3>1. i \in 1..n
      BY <1>1, <2>3
    <3>2. CASE i = 1
      BY <1>1, <1>2, <2>1, <2>3, <3>1, <3>2
    <3>3. CASE i # 1
      <4>1. i - 1 \in 1..n + 1 /\ i - 1 # n + 1
        BY <1>1, <3>1, <3>3
      <4> QED BY <1>1, <1>2, <2>1, <2>3, <3>1, <3>3, <4>1
    <3> QED BY <3>2, <3>3
  <2> QED BY <2>2, <2>3
<1>4. IsFlat(g, t)
  <2> DEFINE h == [i \in 1..n + 1 |-> IF i = 1 THEN t[i] ELSE g[i - 1] \o t[i]]
  <2>1. g = [i \in 1..n + 1 |-> g[i]]
    OBVIOUS
  <2> HIDE DEF g
  <2>2. g = h
    BY <1>3, <2>1
  <2> QED BY <1>1, <2>2 DEF IsFlat
<1>5. g[n + 1] = last
  <2>1. n + 1 \in 1..n + 1
    BY <1>1
  <2> HIDE DEF last
  <2> QED BY <2>1
<1> QED BY <1>4, <1>5 DEF n, t

LEMMA FlatExists ==
    ASSUME NEW ss \in Seq(Seq(Char))
    PROVE  \E f : IsFlat(f, ss) /\ (Len(ss) > 0 => f[Len(ss)] \in Seq(Char))
<1> DEFINE S == {n \in Nat : \A r \in Seq(Seq(Char)) : Len(r) = n =>
                                \E f : IsFlat(f, r) /\ (n > 0 => f[n] \in Seq(Char))}
<1>1. 0 \in S
  <2> SUFFICES ASSUME NEW r \in Seq(Seq(Char)), Len(r) = 0 PROVE \E f : IsFlat(f, r)
    OBVIOUS
  <2> DEFINE f == [i \in 1..0 |-> <<>>]
  <2>1. IsFlat(f, r)
    BY DEF IsFlat
  <2> QED BY <2>1
<1>2. ASSUME NEW n \in Nat, n \in S PROVE n + 1 \in S
  <2> SUFFICES ASSUME NEW r \in Seq(Seq(Char)), Len(r) = n + 1
               PROVE  \E f : IsFlat(f, r) /\ f[n + 1] \in Seq(Char)
    OBVIOUS
  <2> DEFINE T == Seq(Char)
  <2>1. r # <<>>
    OBVIOUS
  <2> HIDE DEF T
  <2>2. PICK s \in Seq(T), x \in T : r = Append(s, x)
    BY <2>1, SequenceEmptyOrAppend DEF T
  <2>3. Len(s) = n
    BY <2>2, AppendProperties
  <2>4. PICK f : IsFlat(f, s) /\ (n > 0 => f[n] \in Seq(Char))
    BY <1>2, <2>2, <2>3 DEF T
  <2>5. PICK g : IsFlat(g, Append(s, x)) /\ g[n + 1] = IF n = 0 THEN x ELSE f[n] \o x
    BY <2>2, <2>3, <2>4, FlatMore DEF T
  <2>6. g[n + 1] \in Seq(Char)
    <3> DEFINE y == f[n]
    <3>1. n = 0 \/ y \in Seq(Char)
      BY <2>4
    <3> HIDE DEF y
    <3>2. n = 0 \/ y \o x \in Seq(Char)
      BY <2>2, <3>1, ConcatProperties DEF T
    <3> QED BY <2>2, <2>5, <3>2 DEF y, T
  <2> QED BY <2>2, <2>5, <2>6
<1>3. Nat \subseteq S
  <2> HIDE DEF S
  <2> QED BY <1>1, <1>2, Induction
<1> QED BY <1>3

LEMMA FlattenNone == FlattenSeq(<<>>) = <<>>
BY DEF FlattenSeq

LEMMA FlattenAppend ==
    ASSUME NEW ss \in Seq(Seq(Char)), NEW x \in Seq(Char)
    PROVE  /\ FlattenSeq(ss) \in Seq(Char)
           /\ FlattenSeq(Append(ss, x)) = FlattenSeq(ss) \o x
<1> DEFINE t == Append(ss, x)
           n == Len(ss)
<1>1. t \in Seq(Seq(Char)) /\ Len(t) = n + 1 /\ n \in Nat
  BY AppendProperties
<1>2. PICK f : IsFlat(f, ss) /\ (n > 0 => f[n] \in Seq(Char))
  BY FlatExists
<1>3. PICK g : IsFlat(g, t) /\ g[n + 1] = IF n = 0 THEN x ELSE f[n] \o x
  BY <1>2, FlatMore
<1> HIDE DEF t
<1>4. (CHOOSE h : IsFlat(h, ss)) = f /\ (CHOOSE h : IsFlat(h, t)) = g
  BY <1>1, <1>2, <1>3, FlatUnique
<1>5. FlattenSeq(t) = g[n + 1]
  <2> DEFINE k == Len(t)
  <2>1. FlattenSeq(t) = IF k = 0 THEN t ELSE (CHOOSE h : IsFlat(h, t))[k]
    BY FlattenChoose
  <2>2. k = n + 1 /\ k # 0
    BY <1>1
  <2> HIDE DEF k
  <2> QED BY <1>4, <2>1, <2>2
<1>6. FlattenSeq(ss) = IF n = 0 THEN ss ELSE f[n]
  BY <1>4, FlattenChoose
<1>7. CASE n = 0
  <2>1. ss = <<>> /\ <<>> \o x = x
    BY <1>7, EmptySeq
  <2> QED BY <1>3, <1>5, <1>6, <1>7, <2>1 DEF t
<1>8. CASE n # 0
  BY <1>1, <1>2, <1>3, <1>5, <1>6, <1>8 DEF t
<1> QED BY <1>7, <1>8

LEMMA Together ==
    ASSUME NEW s \in Seq(Char), NEW t \in Seq(Char), NEW u \in Seq(Char)
    PROVE  /\ s \o t \in Seq(Char) /\ <<>> \o s = s /\ s \o <<>> = s /\ <<>> \in Seq(Char)
           /\ (s \o t) \o u = s \o (t \o u)
BY ConcatProperties, ConcatEmptySeq, ConcatAssociative, EmptySeq, SMTT(40)

LEMMA FlattenFirst ==
    ASSUME NEW ss \in Seq(Seq(Char)), NEW x \in Seq(Char)
    PROVE  FlattenSeq(<<x>> \o ss) = x \o FlattenSeq(ss)
<1> DEFINE T == Seq(Char)
           S == {n \in Nat : \A r \in Seq(T) : Len(r) = n =>
                                FlattenSeq(<<x>> \o r) = x \o FlattenSeq(r)}
<1>1. 0 \in S
  <2> SUFFICES ASSUME NEW r \in Seq(T), Len(r) = 0 PROVE FlattenSeq(<<x>> \o r) = x \o FlattenSeq(r)
    OBVIOUS
  <2>1. r = <<>> /\ <<x>> \o r = Append(<<>>, x)
    BY EmptySeq
  <2>2. FlattenSeq(Append(<<>>, x)) = <<>> \o x
    BY FlattenAppend, FlattenNone, EmptySeq
  <2> QED BY <2>1, <2>2, FlattenNone, Together
<1>2. ASSUME NEW n \in Nat, n \in S PROVE n + 1 \in S
  <2> DEFINE Good(m) == \A r \in Seq(T) : Len(r) = m => FlattenSeq(<<x>> \o r) = x \o FlattenSeq(r)
  <2>0. n + 1 \in Nat /\ S = {m \in Nat : Good(m)}
    OBVIOUS
  <2> HIDE DEF S
  <2> SUFFICES ASSUME NEW r \in Seq(T), Len(r) = n + 1 PROVE FlattenSeq(<<x>> \o r) = x \o FlattenSeq(r)
    <3>1. Good(n + 1) => n + 1 \in S
      <4> HIDE DEF Good
      <4> QED BY <2>0
    <3> QED BY <3>1
  <2>1. r # <<>> /\ x \in T
    <3>1. Len(<<>>) = 0 /\ n + 1 # 0
      BY EmptySeq
    <3> QED BY <3>1
  <2> HIDE DEF T
  <2>2. PICK s \in Seq(T), y \in T : r = Append(s, y)
    BY <2>1, SequenceEmptyOrAppend
  <2>3. Len(s) = n
    BY <2>2, AppendProperties
  <2>4. FlattenSeq(<<x>> \o s) = x \o FlattenSeq(s)
    <3>1. Good(n)
      <4> HIDE DEF Good
      <4> QED BY <1>2, <2>0
    <3> QED BY <2>2, <2>3, <3>1
  <2>5. <<x>> \o s \in Seq(T) /\ <<x>> \o Append(s, y) = Append(<<x>> \o s, y)
    BY <2>1, <2>2
  <2>6. FlattenSeq(Append(<<x>> \o s, y)) = FlattenSeq(<<x>> \o s) \o y
    BY <2>2, <2>5, FlattenAppend DEF T
  <2>7. FlattenSeq(r) = FlattenSeq(s) \o y /\ FlattenSeq(s) \in Seq(Char)
    BY <2>2, FlattenAppend DEF T
  <2>8. (x \o FlattenSeq(s)) \o y = x \o (FlattenSeq(s) \o y)
    BY <2>2, <2>7, Together DEF T
  <2> QED BY <2>2, <2>4, <2>5, <2>6, <2>7, <2>8
<1>3. Nat \subseteq S
  <2> HIDE DEF S
  <2> QED BY <1>1, <1>2, Induction
<1> QED BY <1>3, SMTT(40)

-----------------------------------------------------------------------------
(***************************************************************************)
(* What is printed of a word from a character on                           *)
(***************************************************************************)

Printing == Byte \ {"nul"}
\* The pieces of the word w from character k on, and with them its last quote.
Pieces(w, k) == [i \in 1..Len(w) - k + 1 |-> Piece(w, i + k - 1)]
Closing(w) == IF Last(w) \in nonprint THEN <<>> ELSE <<"'">>
Left(w, k) == FlattenSeq(Pieces(w, k)) \o Closing(w)

\* What is left where the quotes are open, where a token begins with character
\* k, and where a token has ended before it.
InQuotes(w, k) ==
    IF k > Len(w) THEN <<"'">>
    ELSE IF w[k] \in nonprint THEN <<"'">> \o (<<"^">> \o (Escape(w[k]) \o Left(w, k + 1)))
    ELSE Doubled(w[k]) \o Left(w, k + 1)
Starting(w, k) ==
    IF k <= Len(w) /\ w[k] \in nonprint THEN Escape(w[k]) \o Left(w, k + 1)
    ELSE <<"'">> \o InQuotes(w, k)
Joined(w, k) == IF k > Len(w) THEN <<>> ELSE <<"^">> \o Starting(w, k)

LEMMA PrintedChars ==
    /\ Printing \subseteq Char /\ nonprint \subseteq Printing
    /\ {"'", "^", "\\", "n", "t", "a", "1"} \subseteq Printing
    /\ {"'", "^", "\\", "n", "t", "a", "1"} \cap nonprint = {}
BY DEF Printing, nonprint, Byte, Char, non_word, dollar_word, alnum

LEMMA EscapeIs ==
    ASSUME NEW ch \in Printing
    PROVE  Escape(ch) \in Seq(Char) /\ Doubled(ch) \in Seq(Char)
<1>1. ch \in Char /\ {"'", "\\", "n", "t", "a", "1"} \subseteq Char
  BY PrintedChars
<1> QED BY <1>1 DEF Escape, Doubled

LEMMA PieceIs ==
    ASSUME NEW w \in Seq(Printing), NEW k \in 1..Len(w)
    PROVE  /\ Piece(w, k) \in Seq(Char)
           /\ k = 1 => Piece(w, k) = IF w[k] \in nonprint THEN Escape(w[k]) ELSE <<"'">> \o Doubled(w[k])
           /\ k > 1 /\ w[k - 1] \in nonprint =>
                Piece(w, k) = IF w[k] \in nonprint THEN <<"^">> \o Escape(w[k])
                              ELSE <<"^">> \o (<<"'">> \o Doubled(w[k]))
           /\ k > 1 /\ w[k - 1] \notin nonprint =>
                Piece(w, k) = IF w[k] \in nonprint THEN <<"'">> \o (<<"^">> \o Escape(w[k]))
                              ELSE Doubled(w[k])
<1> DEFINE e == Escape(w[k])
           d == Doubled(w[k])
           none == <<>>
           quote == <<"'">>
           caret == <<"^">>
           p == Piece(w, k)
<1>1. w[k] \in Printing
  OBVIOUS
<1>2. e \in Seq(Char) /\ d \in Seq(Char) /\ none \in Seq(Char) /\ quote \in Seq(Char) /\ caret \in Seq(Char)
  BY <1>1, EscapeIs, PrintedChars, SMTT(40)
<1>3. /\ k = 1 => p = IF w[k] \in nonprint THEN (none \o none) \o e ELSE (none \o quote) \o d
      /\ k # 1 /\ w[k - 1] \in nonprint =>
           p = IF w[k] \in nonprint THEN (none \o caret) \o e ELSE (caret \o quote) \o d
      /\ k # 1 /\ w[k - 1] \notin nonprint =>
           p = IF w[k] \in nonprint THEN (quote \o caret) \o e ELSE (none \o none) \o d
  BY DEF Piece
<1>4. none = <<>> /\ quote = <<"'">> /\ caret = <<"^">> /\ (k # 1 <=> k > 1)
  OBVIOUS
<1> HIDE DEF e, d, none, quote, caret, p
<1>5. /\ none \o none = none /\ none \o quote = quote /\ none \o caret = caret /\ none \o e = e /\ none \o d = d
      /\ (caret \o quote) \o d = caret \o (quote \o d) /\ (quote \o caret) \o e = quote \o (caret \o e)
      /\ quote \o d \in Seq(Char) /\ caret \o e \in Seq(Char)
      /\ caret \o (quote \o d) \in Seq(Char) /\ quote \o (caret \o e) \in Seq(Char)
  BY <1>2, <1>4, Together
<1>6. p \in Seq(Char)
  BY <1>2, <1>3, <1>5
<1> QED BY <1>3, <1>4, <1>5, <1>6 DEF e, d, p

LEMMA LeftStep ==
    ASSUME NEW w \in Seq(Printing), w # <<>>
    PROVE  /\ \A k \in 1..Len(w) + 1 : Left(w, k) \in Seq(Char)
           /\ Left(w, Len(w) + 1) = Closing(w)
           /\ \A k \in 1..Len(w) : Left(w, k) = Piece(w, k) \o Left(w, k + 1)
           /\ Sconv(w) = Left(w, 1)
<1> DEFINE n == Len(w)
           T == Seq(Char)
<1>1. n \in Nat /\ n > 0 /\ \A k \in 1..n : Piece(w, k) \in T
  BY PieceIs, EmptySeq
<1>2. Closing(w) \in T
  BY PrintedChars DEF Closing
<1> HIDE DEF n, T
<1>3. \A k \in 1..n + 1 : Pieces(w, k) \in Seq(T)
  <2> TAKE k \in 1..n + 1
  <2> DEFINE m == n - k + 1
             q == Pieces(w, k)
  <2>1. m \in Nat /\ \A i \in 1..m : i + k - 1 \in 1..n
    BY <1>1
  <2>2. q = [i \in 1..m |-> Piece(w, i + k - 1)]
    BY DEF Pieces, n
  <2> HIDE DEF m, q
  <2>3. q \in [1..m -> T]
    BY <1>1, <2>1, <2>2
  <2> QED BY <2>1, <2>3 DEF q
<1>4. \A k \in 1..n + 1 : FlattenSeq(Pieces(w, k)) \in T /\ Left(w, k) \in T
  <2> TAKE k \in 1..n + 1
  <2>1. FlattenSeq(Pieces(w, k)) \in T
    <3>1. <<>> \in Seq(Char) /\ Pieces(w, k) \in Seq(Seq(Char))
      BY <1>3, EmptySeq DEF T
    <3> QED BY <3>1, FlattenAppend DEF T
  <2> QED BY <1>2, <2>1, ConcatProperties DEF Left, T
<1>5. Left(w, n + 1) = Closing(w)
  <2>1. Pieces(w, n + 1) = <<>>
    <3>1. Len(w) - (n + 1) + 1 = 0
      BY <1>1 DEF n
    <3> QED BY <3>1 DEF Pieces
  <2>2. FlattenSeq(Pieces(w, n + 1)) = <<>>
    BY <2>1, FlattenNone
  <2> QED BY <1>2, <2>2, Together DEF Left, T
<1>6. ASSUME NEW k \in 1..n PROVE Left(w, k) = Piece(w, k) \o Left(w, k + 1)
  <2> DEFINE q == Pieces(w, k)
             r == Pieces(w, k + 1)
             x == Piece(w, k)
  <2>1. k + 1 \in 1..n + 1 /\ k \in 1..n + 1
    BY <1>1
  <2>2. q \in Seq(T) /\ r \in Seq(T) /\ x \in T
    BY <1>1, <1>3, <2>1
  <2>3. q = [i \in 1..n - k + 1 |-> Piece(w, i + k - 1)] /\ r = [i \in 1..n - k |-> Piece(w, i + k)]
    <3>1. n - (k + 1) + 1 = n - k /\ \A i \in 1..n - k : i + (k + 1) - 1 = i + k
      BY <1>1
    <3> QED BY <3>1 DEF Pieces, n
  <2> HIDE DEF q, r, x
  <2>4. q = <<x>> \o r
    <3> DEFINE s == <<x>> \o r
               m == n - k
    <3>1. m \in Nat /\ \A i \in 1..m + 1 : i + k - 1 \in Int
      BY <1>1
    <3>2. Len(q) = m + 1 /\ Len(r) = m /\ \A i \in 1..m : r[i] = Piece(w, i + k)
      BY <2>2, <2>3, <3>1
    <3>3. /\ s \in Seq(T) /\ Len(s) = m + 1 /\ s[1] = x
          /\ \A i \in 2..m + 1 : s[i] = r[i - 1]
      BY <2>2, <3>2, PushFirst
    <3>4. \A i \in 1..m + 1 : q[i] = Piece(w, i + k - 1)
      BY <2>3, <3>1
    <3> HIDE DEF s, m
    <3>5. ASSUME NEW i \in 1..m + 1 PROVE q[i] = s[i]
      <4>1. CASE i = 1
        <5>1. i + k - 1 = k
          BY <1>1, <4>1
        <5> QED BY <3>3, <3>4, <4>1, <5>1 DEF x
      <4>2. CASE i # 1
        <5>1. i - 1 \in 1..m /\ i \in 2..m + 1 /\ (i - 1) + k = i + k - 1
          BY <1>1, <3>1, <4>2
        <5>2. s[i] = r[i - 1] /\ r[i - 1] = Piece(w, (i - 1) + k)
          BY <3>2, <3>3, <5>1
        <5> QED BY <3>4, <5>1, <5>2
      <4> QED BY <4>1, <4>2
    <3> QED BY <2>2, <3>2, <3>3, <3>5, SeqEqual DEF s
  <2>5. FlattenSeq(q) = x \o FlattenSeq(r)
    BY <2>2, <2>4, FlattenFirst DEF T
  <2>6. FlattenSeq(r) \in T
    BY <1>4, <2>1 DEF r
  <2>7. (x \o FlattenSeq(r)) \o Closing(w) = x \o (FlattenSeq(r) \o Closing(w))
    BY <1>2, <2>2, <2>6, Together DEF T
  <2> QED BY <2>5, <2>7 DEF Left, q, r, x
<1>7. Sconv(w) = Left(w, 1)
  <2>1. Pieces(w, 1) = [i \in 1..Len(w) |-> Piece(w, i)]
    <3>1. Len(w) - 1 + 1 = Len(w) /\ \A i \in 1..Len(w) : i + 1 - 1 = i
      BY <1>1 DEF n
    <3> QED BY <3>1 DEF Pieces
  <2> QED BY <2>1 DEF Sconv, Left, Closing
<1> QED BY <1>4, <1>5, <1>6, <1>7 DEF n, T

LEMMA PrintedIs ==
    ASSUME NEW w \in Seq(Printing), NEW k \in 1..Len(w)
    PROVE  /\ Escape(w[k]) \in Seq(Char) /\ Doubled(w[k]) \in Seq(Char) /\ Left(w, k + 1) \in Seq(Char)
           /\ <<"'">> \in Seq(Char) /\ <<"^">> \in Seq(Char) /\ <<>> \in Seq(Char)
<1>1. w[k] \in Printing /\ w # <<>> /\ k + 1 \in 1..Len(w) + 1
  BY EmptySeq
<1>2. Escape(w[k]) \in Seq(Char) /\ Doubled(w[k]) \in Seq(Char)
  BY <1>1, EscapeIs
<1>3. Left(w, k + 1) \in Seq(Char)
  BY <1>1, LeftStep
<1>4. <<"'">> \in Seq(Char) /\ <<"^">> \in Seq(Char) /\ <<>> \in Seq(Char)
  BY PrintedChars
<1> QED BY <1>2, <1>3, <1>4

\* What is left after a character: inside the quotes, or after an escape.
LEMMA LeftIs ==
    ASSUME NEW w \in Seq(Printing), NEW k \in 1..Len(w)
    PROVE  /\ w[k] \in nonprint => Left(w, k + 1) = Joined(w, k + 1)
           /\ w[k] \notin nonprint => Left(w, k + 1) = InQuotes(w, k + 1)
<1> DEFINE n == Len(w)
           j == k + 1
<1>1. n \in Nat /\ n > 0 /\ w # <<>> /\ j > 1 /\ j \in 1..n + 1 /\ j - 1 = k
  BY EmptySeq
<1>2. CASE j = n + 1
  <2>1. Left(w, j) = Closing(w) /\ Last(w) = w[k]
    BY <1>1, <1>2, LeftStep DEF Last
  <2>2. j > Len(w)
    BY <1>1, <1>2
  <2> QED BY <2>1, <2>2 DEF Closing, Joined, InQuotes
<1>3. CASE j # n + 1
  <2> DEFINE e == Escape(w[j])
             d == Doubled(w[j])
             l == Left(w, j + 1)
             quote == <<"'">>
             caret == <<"^">>
  <2>1. j \in 1..Len(w) /\ ~(j > Len(w)) /\ j <= Len(w)
    BY <1>1, <1>3
  <2>2. e \in Seq(Char) /\ d \in Seq(Char) /\ l \in Seq(Char) /\ quote \in Seq(Char) /\ caret \in Seq(Char)
    BY <2>1, PrintedIs
  <2>3. Left(w, j) = Piece(w, j) \o l
    BY <1>1, <2>1, LeftStep
  <2>4. /\ w[k] \in nonprint => Piece(w, j) = IF w[j] \in nonprint THEN caret \o e ELSE caret \o (quote \o d)
        /\ w[k] \notin nonprint => Piece(w, j) = IF w[j] \in nonprint THEN quote \o (caret \o e) ELSE d
    BY <1>1, <2>1, PieceIs
  <2>5. /\ Joined(w, j) = caret \o Starting(w, j)
        /\ Starting(w, j) = IF w[j] \in nonprint THEN e \o l ELSE quote \o InQuotes(w, j)
        /\ InQuotes(w, j) = IF w[j] \in nonprint THEN quote \o (caret \o (e \o l)) ELSE d \o l
    BY <2>1 DEF Joined, Starting, InQuotes
  <2> HIDE DEF e, d, l, quote, caret, j
  <2>6. /\ (caret \o e) \o l = caret \o (e \o l)
        /\ (caret \o (quote \o d)) \o l = caret \o (quote \o (d \o l))
        /\ (quote \o (caret \o e)) \o l = quote \o (caret \o (e \o l))
    <3> DEFINE qd == quote \o d
               ce == caret \o e
    <3>1. qd \in Seq(Char) /\ ce \in Seq(Char)
      BY <2>2, ConcatProperties
    <3>2. qd \o l = quote \o (d \o l) /\ ce \o l = caret \o (e \o l)
      BY <2>2, Regroup, ZenonT(60)
    <3> HIDE DEF qd, ce
    <3>3. (caret \o qd) \o l = caret \o (qd \o l)
      BY <2>2, <3>1, Regroup, ZenonT(60)
    <3>4. (quote \o ce) \o l = quote \o (ce \o l)
      BY <2>2, <3>1, Regroup, ZenonT(60)
    <3> QED BY <3>2, <3>3, <3>4 DEF qd, ce
  <2>7. w[k] \in nonprint => Left(w, j) = Joined(w, j)
    BY <2>3, <2>4, <2>5, <2>6
  <2>8. w[k] \notin nonprint => Left(w, j) = InQuotes(w, j)
    BY <2>3, <2>4, <2>5, <2>6
  <2> QED BY <2>7, <2>8 DEF j
<1> QED BY <1>2, <1>3

\* The three are what a reader of them needs to know.
LEMMA Printed ==
    ASSUME NEW w \in Seq(Printing)
    PROVE  /\ Sconv(w) = Starting(w, 1)
           /\ \A k \in 1..Len(w) + 1 :
                /\ Starting(w, k) \in Seq(Char) /\ InQuotes(w, k) \in Seq(Char) /\ Joined(w, k) \in Seq(Char)
                /\ k > Len(w) \/ w[k] \notin nonprint => Starting(w, k) = <<"'">> \o InQuotes(w, k)
                /\ k > Len(w) \/ w[k] \in nonprint => InQuotes(w, k) = <<"'">> \o Joined(w, k)
                /\ k > Len(w) => Joined(w, k) = <<>>
           /\ \A k \in 1..Len(w) :
                /\ w[k] \in nonprint => Starting(w, k) = Escape(w[k]) \o Joined(w, k + 1)
                /\ w[k] \notin nonprint => InQuotes(w, k) = Doubled(w[k]) \o InQuotes(w, k + 1)
                /\ Joined(w, k) = <<"^">> \o Starting(w, k)
<1>0. Len(w) \in Nat
  OBVIOUS
<1>1. ASSUME NEW k \in 1..Len(w)
      PROVE  /\ w[k] \in nonprint => Starting(w, k) = Escape(w[k]) \o Joined(w, k + 1)
             /\ w[k] \notin nonprint => InQuotes(w, k) = Doubled(w[k]) \o InQuotes(w, k + 1)
             /\ Joined(w, k) = <<"^">> \o Starting(w, k)
  <2>1. ~(k > Len(w)) /\ k <= Len(w)
    BY <1>0
  <2>2. CASE w[k] \in nonprint
    BY <2>1, <2>2, LeftIs DEF Starting, Joined
  <2>3. CASE w[k] \notin nonprint
    BY <2>1, <2>3, LeftIs DEF InQuotes, Joined
  <2> QED BY <2>2, <2>3
<1>2. ASSUME NEW k \in 1..Len(w) + 1
      PROVE  /\ Starting(w, k) \in Seq(Char) /\ InQuotes(w, k) \in Seq(Char) /\ Joined(w, k) \in Seq(Char)
             /\ k > Len(w) \/ w[k] \notin nonprint => Starting(w, k) = <<"'">> \o InQuotes(w, k)
             /\ k > Len(w) \/ w[k] \in nonprint => InQuotes(w, k) = <<"'">> \o Joined(w, k)
             /\ k > Len(w) => Joined(w, k) = <<>>
  <2> DEFINE quote == <<"'">>
             caret == <<"^">>
             none == <<>>
  <2>1. quote \in Seq(Char) /\ caret \in Seq(Char) /\ none \in Seq(Char) /\ none = <<>>
    BY PrintedChars
  <2>2. CASE k > Len(w)
    <3>1. InQuotes(w, k) = quote /\ Starting(w, k) = quote \o InQuotes(w, k) /\ Joined(w, k) = none
      BY <1>0, <2>2 DEF InQuotes, Starting, Joined
    <3> HIDE DEF quote, caret, none
    <3>2. quote \o quote \in Seq(Char) /\ quote \o none = quote
      BY <2>1, Together
    <3> QED BY <2>1, <2>2, <3>1, <3>2 DEF quote
  <2>3. CASE ~(k > Len(w))
    <3> DEFINE e == Escape(w[k])
               d == Doubled(w[k])
               l == Left(w, k + 1)
    <3>1. k \in 1..Len(w) /\ k <= Len(w)
      BY <1>0, <2>3
    <3>2. e \in Seq(Char) /\ d \in Seq(Char) /\ l \in Seq(Char)
      BY <3>1, PrintedIs
    <3>3. /\ Starting(w, k) = IF w[k] \in nonprint THEN e \o l ELSE quote \o InQuotes(w, k)
          /\ InQuotes(w, k) = IF w[k] \in nonprint THEN quote \o (caret \o (e \o l)) ELSE d \o l
          /\ Joined(w, k) = caret \o Starting(w, k)
      BY <2>3, <3>1 DEF Starting, InQuotes, Joined
    <3> HIDE DEF e, d, l, quote, caret, none
    <3>4. /\ e \o l \in Seq(Char) /\ d \o l \in Seq(Char) /\ quote \o (d \o l) \in Seq(Char)
          /\ caret \o (e \o l) \in Seq(Char) /\ quote \o (caret \o (e \o l)) \in Seq(Char)
          /\ caret \o (quote \o (d \o l)) \in Seq(Char)
      BY <2>1, <3>2, Together
    <3>5. CASE w[k] \in nonprint
      BY <2>3, <3>3, <3>4, <3>5 DEF quote
    <3>6. CASE w[k] \notin nonprint
      BY <2>3, <3>3, <3>4, <3>6 DEF quote
    <3> QED BY <3>5, <3>6
  <2> QED BY <2>2, <2>3
<1>3. Sconv(w) = Starting(w, 1)
  <2>1. CASE w = <<>>
    <3>1. Len(w) = 0 /\ 1 > Len(w) /\ ~(1 <= Len(w))
      BY <2>1
    <3>2. Starting(w, 1) = <<"'">> \o <<"'">>
      BY <3>1 DEF Starting, InQuotes
    <3>3. <<"'">> \o <<"'">> = <<"'", "'">>
      BY PrintedChars, Pairs
    <3> QED BY <2>1, <3>2, <3>3 DEF Sconv
  <2>2. CASE w # <<>>
    <3>1. 1 \in 1..Len(w) /\ 1 + 1 = 2 /\ 1 <= Len(w) /\ ~(1 > Len(w))
      BY <2>2, EmptySeq
    <3> DEFINE e == Escape(w[1])
               d == Doubled(w[1])
               l == Left(w, 1 + 1)
               quote == <<"'">>
    <3>2. e \in Seq(Char) /\ d \in Seq(Char) /\ l \in Seq(Char) /\ quote \in Seq(Char)
      BY <3>1, PrintedIs
    <3>3. Sconv(w) = Piece(w, 1) \o l
      BY <2>2, <3>1, LeftStep
    <3>4. Piece(w, 1) = IF w[1] \in nonprint THEN e ELSE quote \o d
      BY <3>1, PieceIs
    <3>5. Starting(w, 1) = IF w[1] \in nonprint THEN e \o l ELSE quote \o InQuotes(w, 1)
      BY <3>1 DEF Starting
    <3>6. w[1] \notin nonprint => InQuotes(w, 1) = d \o l
      BY <3>1 DEF InQuotes
    <3> HIDE DEF e, d, l, quote
    <3>7. (quote \o d) \o l = quote \o (d \o l)
      BY <3>2, Together, SMTT(40)
    <3> QED BY <3>3, <3>4, <3>5, <3>6, <3>7
  <2> QED BY <2>1, <2>2
<1> QED BY <1>1, <1>2, <1>3

-----------------------------------------------------------------------------
(***************************************************************************)
(* How far a printed word has been read                                    *)
(***************************************************************************)

\* What the tokens say, the order of their kinds, and the word up to character k.
Said(toks) == FlattenSeq([k \in DOMAIN toks |-> toks[k].s])
Alternate(toks) == \A k \in DOMAIN toks : toks[k].kind = IF k % 2 = 1 THEN "QWORD" ELSE "^"
Before(k) == SubSeq(src.word, 1, k - 1)
Whole == Alternate(par.toks) /\ Said(par.toks) = src.word

\* The parser, unless it skips tokens, has so many, and with s they say the
\* word up to character k.
Parsed(parity, s, k) ==
    par.skip \/ /\ Alternate(par.toks) /\ Len(par.toks) % 2 = parity
                /\ Said(par.toks) \o s = Before(k)

\* The piece that ended is the last one, or another one is joined to it.
Ended(k) == stream = Joined(src.word, k) \/ (k = Len(src.word) + 1 /\ stream = <<"eof">>)
\* The rest of the escape that stands for character k.
Escaping(k) == k <= Len(src.word) /\ src.word[k] \in nonprint
             /\ stream = Tail(Escape(src.word[k])) \o Joined(src.word, k + 1)

Beginning(k) == lex.w = "non" /\ stream = Starting(src.word, k) /\ Parsed(0, <<>>, k)
Going(k) == lex.w = "real" /\ Ended(k) /\ Parsed(1, <<>>, k)
Quoting(k) == lex.w = "real" /\ stream = InQuotes(src.word, k) /\ Parsed(0, lex.acc, k)
Doubling(k) ==
    /\ lex.w = "real" /\ Parsed(0, lex.acc, k)
    /\ \/ stream = Joined(src.word, k)
       \/ k <= Len(src.word) /\ src.word[k] = "'" /\ stream = <<"'">> \o InQuotes(src.word, k + 1)
Slashing(k) ==
    /\ lex.w = "real" /\ Parsed(0, lex.acc, k)
    /\ k <= Len(src.word) /\ src.word[k] = "\\" /\ stream = InQuotes(src.word, k + 1)
Octal(k) ==
    /\ lex.w = "real" /\ Parsed(0, <<>>, k) /\ k <= Len(src.word)
    /\ src.word[k] = "soh" /\ lex.acc = <<"0", "1">> /\ stream = Joined(src.word, k + 1)
Handed(k) ==
    \/ tok.kind = "QWORD" /\ lex.w = "real" /\ Ended(k) /\ Parsed(0, tok.s, k)
    \/ tok.kind = "^" /\ tok.s = <<>> /\ lex.w = "non" /\ stream = Starting(src.word, k) /\ Parsed(1, <<>>, k)
    \/ tok.kind = "ENDFILE" /\ k = Len(src.word) + 1 /\ Parsed(1, <<>>, k)

\* What is so at each place while character k is next.
Reached(k) ==
    \/ pc = "lex" /\ (Beginning(k) \/ Going(k))
    \/ pc = "top" /\ lex.meta = "non_word" /\ (Beginning(k) \/ Going(k))
    \/ pc = "quote" /\ Quoting(k)
    \/ pc = "quote2" /\ Doubling(k)
    \/ pc = "slash2" /\ Slashing(k)
    \/ pc = "slash" /\ lex.w = "non" /\ Escaping(k) /\ Parsed(0, <<>>, k)
    \/ pc = "esc" /\ lex.w = "real" /\ Escaping(k) /\ Parsed(0, <<>>, k)
    \/ pc = "coded" /\ Octal(k)
    \/ pc = "token" /\ Handed(k)

\* Nothing but words is read: no '$', no error, no block, no here document.
Plain == [open : {"top"}, begun : BOOLEAN, outer : {<<>>}, leads : {<<>>}, trail : {<<>>}]
Calm ==
    /\ ~lex.goterror /\ ~lex.dollar
    /\ par.nest \in {<<f>> : f \in Plain} /\ par.marker = <<>> /\ par.last \in {"word", "caret"}
    /\ par.want = "none" /\ par.queue = <<>> /\ ~par.ok

\* The command is no more than its words.
LEMMA CalmIs ==
    ASSUME Calm
    PROVE  /\ frame \in Plain /\ frame.open = "top" /\ Complete /\ InCommand
           /\ Pending = <<>> /\ Literal(Pending) /\ \A f : Innermost(f) = <<f>>
<1>1. PICK f \in Plain : par.nest = <<f>>
  BY DEF Calm
<1>2. /\ f.open = "top" /\ f.begun \in BOOLEAN /\ f.outer = <<>> /\ f.leads = <<>> /\ f.trail = <<>>
      /\ f = [open |-> "top", begun |-> f.begun, outer |-> <<>>, leads |-> <<>>, trail |-> <<>>]
  BY <1>1 DEF Plain
<1>3. Last(par.nest) = f
  BY <1>1 DEF Last
<1>4. par.marker = <<>> /\ <<>> \o <<>> = <<>>
  BY DEF Calm
<1> HIDE DEF Calm
<1>5. frame = f
  <2>1. [f EXCEPT !.trail = <<>> \o <<>>] = f /\ [f EXCEPT !.leads = <<>> \o <<>>] = f
    BY <1>2, <1>4
  <2>2. frame = IF f.begun THEN [f EXCEPT !.trail = f.trail \o par.marker]
                ELSE [f EXCEPT !.leads = f.leads \o par.marker]
    BY <1>3 DEF frame
  <2> QED BY <1>2, <1>4, <2>1, <2>2
<1> HIDE DEF frame
<1>6. Reverse(<<>>) = <<>> /\ Pending = <<>>
  <2>1. Reverse(<<>>) = <<>>
    BY ReverseNone
  <2> QED BY <1>2, <1>4, <1>5, <2>1 DEF Pending
<1>7. Literal(Pending)
  BY <1>6 DEF Literal
<1>8. ASSUME NEW g PROVE Innermost(g) = <<g>>
  <2> DEFINE n == par.nest
  <2>1. n = <<f>> /\ n \in Seq({f}) /\ n # <<>> /\ Len(n) = 1
    BY <1>1
  <2> HIDE DEF n
  <2>2. Front(n) \in Seq({f}) /\ Len(Front(n)) = 0
    <3> DEFINE S == {f}
    <3>1. n \in Seq(S) /\ n # <<>>
      BY <2>1
    <3> HIDE DEF S
    <3>2. Front(n) \in Seq(S) /\ Len(Front(n)) = Len(n) - 1
      BY <3>1, FrontIs
    <3> QED BY <2>1, <3>2 DEF S
  <2>3. Front(n) = <<>>
    BY <2>2, EmptySeq
  <2>4. <<>> \o <<g>> = <<g>>
    OBVIOUS
  <2> QED BY <2>3, <2>4 DEF Innermost, n
<1>9. Complete /\ InCommand
  <2>1. par.want = "none"
    BY DEF Calm
  <2> QED BY <1>2, <1>5, <2>1 DEF Complete, InCommand
<1> QED BY <1>1, <1>2, <1>5, <1>6, <1>7, <1>8, <1>9

Spelling == {"lex", "top", "quote", "quote2", "slash2", "slash", "esc", "coded", "token"}
RoundInv ==
    src.printed =>
        /\ in.reads = <<>>
        /\ pc \in Spelling \cup {"parse", "finish", "term", "end", "abort"}
        /\ pc \in Spelling \cup {"parse", "finish"} => Calm
        /\ pc = "parse" => stream = Starting(src.word, 1)
        /\ pc \in Spelling => \E k \in 1..Len(src.word) + 1 : Reached(k)
        /\ pc = "finish" => par.bad \/ Whole
        /\ pc = "term" \/ (pc = "end" /\ par.ok) => Whole

LEMMA SaidIs ==
    ASSUME NEW L, L \subseteq Char, NEW toks \in Seq(TokType(L)), NEW t \in TokType(L)
    PROVE  /\ Said(toks) \in Seq(Char) /\ Said(Append(toks, t)) = Said(toks) \o t.s
           /\ Alternate(toks) /\ t.kind = (IF Len(toks) % 2 = 0 THEN "QWORD" ELSE "^") =>
                 Alternate(Append(toks, t))
           /\ Len(toks) % 2 = 0 => Len(Append(toks, t)) % 2 = 1
           /\ Len(toks) % 2 = 1 => Len(Append(toks, t)) % 2 = 0
<1> DEFINE T == Seq(Char)
           n == Len(toks)
           u == Append(toks, t)
           r == [k \in DOMAIN toks |-> toks[k].s]
           s == t.s
           K == TokType(L)
<1>1. \A x \in K : x.s \in Seq(L)
  BY DEF TokType
<1>2. Seq(L) \subseteq T
  BY SeqMonotonic
<1>3. \A x \in K : x.s \in T
  BY <1>1, <1>2
<1>4. /\ n \in Nat /\ DOMAIN toks = 1..n /\ toks \in [1..n -> K]
      /\ u \in Seq(K) /\ Len(u) = n + 1 /\ u[n + 1] = t /\ \A k \in 1..n : u[k] = toks[k]
  <2> HIDE DEF K
  <2> QED BY AppendProperties DEF K
<1>5. DOMAIN u = 1..n + 1
  BY <1>4
<1> HIDE DEF T, n, u, K, s
<1>6. s \in T
  BY <1>3 DEF s, K
<1>7. r \in Seq(T) /\ Len(r) = n /\ \A k \in 1..n : r[k] = toks[k].s
  <2>1. r = [k \in 1..n |-> toks[k].s]
    BY <1>4
  <2>2. r \in [1..n -> T]
    BY <1>3, <1>4, <2>1
  <2> HIDE DEF r
  <2> QED BY <1>4, <2>1, <2>2
<1>8. [k \in DOMAIN u |-> u[k].s] = Append(r, s)
  <2> DEFINE q == [k \in 1..n + 1 |-> u[k].s]
             p == Append(r, s)
  <2>1. p \in Seq(T) /\ Len(p) = n + 1 /\ p[n + 1] = s /\ \A k \in 1..n : p[k] = r[k]
    BY <1>6, <1>7, AppendProperties
  <2>2. \A k \in 1..n + 1 : q[k] = p[k]
    <3> TAKE k \in 1..n + 1
    <3>1. CASE k = n + 1
      BY <1>4, <2>1, <3>1 DEF s
    <3>2. CASE k # n + 1
      <4>1. k \in 1..n
        BY <1>4, <3>2
      <4> HIDE DEF p, r
      <4> QED BY <1>4, <1>7, <2>1, <4>1
    <3> QED BY <3>1, <3>2
  <2> HIDE DEF p
  <2>3. p = [k \in 1..n + 1 |-> p[k]]
    BY <1>4, <2>1
  <2>4. q = p
    BY <2>2, <2>3
  <2> QED BY <1>5, <2>4 DEF p
<1>9. Said(toks) = FlattenSeq(r) /\ Said(u) = FlattenSeq(Append(r, s))
  BY <1>8 DEF Said
<1>10. Said(toks) \in Seq(Char) /\ Said(u) = Said(toks) \o s
  <2> HIDE DEF r
  <2>1. r \in Seq(Seq(Char)) /\ s \in Seq(Char)
    BY <1>6, <1>7 DEF T
  <2>2. FlattenSeq(r) \in Seq(Char) /\ FlattenSeq(Append(r, s)) = FlattenSeq(r) \o s
    BY <2>1, FlattenAppend
  <2> QED BY <1>9, <2>2
<1>11. /\ n % 2 = 0 => (n + 1) % 2 = 1
       /\ n % 2 = 1 => (n + 1) % 2 = 0
       /\ n % 2 = 0 \/ n % 2 = 1
  BY <1>4
<1>12. ASSUME Alternate(toks), t.kind = IF n % 2 = 0 THEN "QWORD" ELSE "^" PROVE Alternate(u)
  <2>1. \A k \in 1..n : toks[k].kind = IF k % 2 = 1 THEN "QWORD" ELSE "^"
    BY <1>4, <1>12 DEF Alternate
  <2>2. t.kind = IF (n + 1) % 2 = 1 THEN "QWORD" ELSE "^"
    BY <1>11, <1>12
  <2>3. \A k \in 1..n + 1 : u[k].kind = IF k % 2 = 1 THEN "QWORD" ELSE "^"
    <3> TAKE k \in 1..n + 1
    <3>1. CASE k = n + 1
      BY <1>4, <2>2, <3>1
    <3>2. CASE k # n + 1
      <4>1. k \in 1..n
        BY <1>4, <3>2
      <4> QED BY <1>4, <2>1, <4>1
    <3> QED BY <3>1, <3>2
  <2> QED BY <1>5, <2>3 DEF Alternate
<1> QED BY <1>4, <1>10, <1>11, <1>12 DEF n, u, s

LEMMA SaidNone == Said(<<>>) = <<>> /\ Alternate(<<>>)
BY FlattenNone DEF Said, Alternate

LEMMA BeforeIs ==
    ASSUME src.word \in Seq(Printing)
    PROVE  /\ Before(1) = <<>> /\ Before(Len(src.word) + 1) = src.word
           /\ \A k \in 1..Len(src.word) + 1 : Before(k) \in Seq(Char)
           /\ \A k \in 1..Len(src.word) : Before(k + 1) = Before(k) \o <<src.word[k]>>
<1> DEFINE w == src.word
           n == Len(w)
<1>1. w \in Seq(Char) /\ n \in Nat /\ \A k \in 1..n : w[k] \in Char
  BY PrintedChars, SeqMonotonic
<1> HIDE DEF w, n
<1>2. \A k \in 1..n + 1 : /\ SubSeq(w, 1, k - 1) \in Seq(Char) /\ Len(SubSeq(w, 1, k - 1)) = k - 1
                          /\ \A i \in 1..k - 1 : SubSeq(w, 1, k - 1)[i] = w[i]
  <2> TAKE k \in 1..n + 1
  <2>1. k - 1 \in 0..n /\ \A i \in 1..k - 1 : w[i] \in Char
    BY <1>1
  <2> QED BY <1>1, <2>1 DEF n
<1>3. SubSeq(w, 1, 0) = <<>> /\ SubSeq(w, 1, n) = w
  BY <1>1, SubSeqFull, SubSeqEmpty DEF n
<1>4. ASSUME NEW k \in 1..n PROVE SubSeq(w, 1, k) = SubSeq(w, 1, k - 1) \o <<w[k]>>
  <2> DEFINE a == SubSeq(w, 1, k - 1)
             b == SubSeq(w, 1, k)
             ch == <<w[k]>>
             d == a \o ch
  <2>1. k \in 1..n + 1 /\ k + 1 \in 1..n + 1 /\ (k + 1) - 1 = k
    BY <1>1
  <2>2. a \in Seq(Char) /\ Len(a) = k - 1 /\ \A i \in 1..k - 1 : a[i] = w[i]
    BY <1>2, <2>1
  <2>3. b \in Seq(Char) /\ Len(b) = k /\ \A i \in 1..k : b[i] = w[i]
    BY <1>2, <2>1
  <2>4. ch \in Seq(Char) /\ Len(ch) = 1 /\ ch[1] = w[k]
    BY <1>1
  <2> HIDE DEF a, b, ch
  <2>5. /\ d \in Seq(Char) /\ Len(d) = Len(a) + Len(ch)
        /\ \A i \in 1..Len(a) + Len(ch) : d[i] = IF i <= Len(a) THEN a[i] ELSE ch[i - Len(a)]
    BY <2>2, <2>4, ConcatProperties
  <2> HIDE DEF d
  <2>6. Len(d) = k /\ \A i \in 1..k : d[i] = IF i <= k - 1 THEN a[i] ELSE ch[i - (k - 1)]
    BY <1>1, <2>2, <2>4, <2>5
  <2>7. \A i \in 1..k : d[i] = w[i]
    <3> TAKE i \in 1..k
    <3>1. CASE i = k
      <4>1. ~(i <= k - 1) /\ i - (k - 1) = 1
        BY <1>1, <3>1
      <4> QED BY <2>4, <2>6, <3>1, <4>1
    <3>2. CASE i # k
      <4>1. i <= k - 1 /\ i \in 1..k - 1
        BY <1>1, <3>2
      <4> QED BY <2>2, <2>6, <4>1
    <3> QED BY <3>1, <3>2
  <2>8. b = d
    BY <2>3, <2>5, <2>6, <2>7, SeqEqual
  <2> QED BY <2>8 DEF a, b, ch, d
<1>5. 1 - 1 = 0 /\ (n + 1) - 1 = n /\ \A k \in 1..n : (k + 1) - 1 = k
  BY <1>1
<1> QED BY <1>2, <1>3, <1>4, <1>5 DEF Before, w, n

\* One more character of the word.
LEMMA ParsedMore ==
    ASSUME src.word \in Seq(Printing), NEW k \in 1..Len(src.word), NEW L, L \subseteq Char,
           par.toks \in Seq(TokType(L)), TokType(L) # {}, NEW p, NEW s \in Seq(Char), Parsed(p, s, k)
    PROVE  Parsed(p, s \o <<src.word[k]>>, k + 1)
<1> DEFINE a == Said(par.toks)
           x == <<src.word[k]>>
<1>1. a \in Seq(Char)
  BY SaidIs
<1>2. x \in Seq(Char)
  <2>1. src.word[k] \in Char
    BY PrintedChars
  <2> QED BY <2>1
<1>3. Before(k + 1) = Before(k) \o x
  BY BeforeIs
<1> HIDE DEF a, x
<1>4. (a \o s) \o x = a \o (s \o x)
  BY <1>1, <1>2, Regroup
<1>5. par.skip \/ (Alternate(par.toks) /\ Len(par.toks) % 2 = p /\ a \o s = Before(k))
  BY DEF Parsed, a
<1>6. par.skip \/ (Alternate(par.toks) /\ Len(par.toks) % 2 = p /\ a \o (s \o x) = Before(k + 1))
  BY <1>3, <1>4, <1>5
<1> QED BY <1>6 DEF Parsed, a, x

\* What GETC returns, and what is left after it or after looking at it.
LEMMA HeadIs ==
    ASSUME StreamInv, AtHand(in), NEW x \in Char, NEW r \in Seq(Char), stream = <<x>> \o r
    PROVE  c = x /\ (Get => stream' = r) /\ (Look => stream' = stream)
<1>1. stream # <<>> /\ Head(stream) = x /\ Tail(stream) = r
  BY FirstOf
<1>2. c = x /\ Rest = r
  BY <1>1, CharIs
<1> HIDE DEF c, Rest
<1> QED BY <1>2 DEF Get, Look

LEMMA NoneLeft ==
    ASSUME StreamInv, AtHand(in), stream = <<>>
    PROVE  c = "eof" /\ (Get => stream' = <<>>) /\ (Look => stream' = <<"eof">>)
<1>1. c = "eof" /\ Rest = <<>>
  BY CharIs
<1>2. <<"eof">> \o <<>> = <<"eof">>
  <2>1. "eof" \in Char
    BY Characters
  <2>2. <<"eof">> \in Seq(Char)
    BY <2>1, OneOf
  <2> QED BY <2>2, Together
<1> HIDE DEF c, Rest
<1> QED BY <1>1, <1>2 DEF Get, Look

\* After a piece: its end is that of the word, or the next is joined to it.
LEMMA EndedIs ==
    ASSUME StreamInv, AtHand(in), src.word \in Seq(Printing), NEW k \in 1..Len(src.word) + 1,
           Ended(k)
    PROVE  /\ \/ k <= Len(src.word) /\ c = "^" /\ (Get => stream' = Starting(src.word, k))
              \/ k = Len(src.word) + 1 /\ c = "eof"
           /\ Look /\ src' = src => Ended(k)'
<1> DEFINE w == src.word
           n == Len(w)
<1>0. n \in Nat /\ "^" \in Char /\ "eof" \in Char
  <2>1. n \in Nat
    OBVIOUS
  <2> HIDE DEF n
  <2> QED BY <2>1, PrintedChars, Characters
<1>1. CASE k <= n
  <2>1. k \in 1..n /\ k # n + 1
    BY <1>0, <1>1
  <2>2. stream = <<"^">> \o Starting(w, k) /\ Starting(w, k) \in Seq(Char)
    BY <2>1, Printed DEF Ended
  <2>3. c = "^" /\ (Get => stream' = Starting(w, k)) /\ (Look => stream' = stream)
    BY <1>0, <2>2, HeadIs
  <2> HIDE DEF c
  <2> QED BY <1>1, <2>3 DEF Ended
<1>2. CASE ~(k <= n)
  <2>1. k = n + 1 /\ k > n
    BY <1>0, <1>2
  <2>2. Joined(w, k) = <<>>
    BY <2>1, Printed
  <2>3. CASE stream = <<>>
    <3>1. c = "eof" /\ (Look => stream' = <<"eof">>)
      BY <2>3, NoneLeft
    <3> HIDE DEF c
    <3> QED BY <2>1, <3>1 DEF Ended
  <2>4. CASE stream = <<"eof">>
    <3>1. <<"eof">> = <<"eof">> \o <<>> /\ <<>> \in Seq(Char)
      <4>1. <<"eof">> \in Seq(Char)
        BY <1>0
      <4> QED BY <4>1, Together
    <3>2. c = "eof" /\ (Look => stream' = stream)
      BY <1>0, <2>4, <3>1, HeadIs
    <3> HIDE DEF c
    <3> QED BY <2>1, <2>4, <3>2 DEF Ended
  <2> QED BY <2>2, <2>3, <2>4 DEF Ended
<1> QED BY <1>1, <1>2

\* A piece begins with an escape or with a quote.
LEMMA StartingIs ==
    ASSUME StreamInv, AtHand(in), src.word \in Seq(Printing), NEW k \in 1..Len(src.word) + 1,
           stream = Starting(src.word, k)
    PROVE  \/ /\ k <= Len(src.word) /\ src.word[k] \in nonprint /\ c = "\\"
              /\ Get => stream' = Tail(Escape(src.word[k])) \o Joined(src.word, k + 1)
           \/ c = "'" /\ (Get => stream' = InQuotes(src.word, k))
<1> DEFINE w == src.word
           n == Len(w)
<1>0. n \in Nat /\ "'" \in Char /\ "\\" \in Char
  BY PrintedChars
<1>1. CASE k <= n /\ w[k] \in nonprint
  <2> DEFINE e == Escape(w[k])
             t == Tail(e)
             r == Joined(w, k + 1)
             b == <<"\\">>
  <2>1. k \in 1..n /\ k + 1 \in 1..n + 1
    BY <1>0, <1>1
  <2>2. stream = e \o r /\ r \in Seq(Char) /\ w[k] \in Printing
    <3>1. w \in Seq(Printing) /\ w[k] \in Printing /\ stream = Starting(w, k)
      BY <2>1
    <3>2. r \in Seq(Char)
      BY <2>1, <3>1, Printed
    <3>3. Starting(w, k) = e \o r
      BY <1>1, <2>1, <3>1, Printed
    <3> QED BY <3>1, <3>2, <3>3
  <2>3. e = b \o t /\ t \in Seq(Char) /\ b \in Seq(Char)
    <3>1. {"\\", "n", "a", "t", "1"} \subseteq Char
      BY PrintedChars
    <3>2. e \in Seq(Char) /\ e # <<>> /\ Head(e) = "\\"
      BY <2>2, <3>1, EscapeIs DEF Escape
    <3> HIDE DEF e
    <3>3. e = <<Head(e)>> \o Tail(e) /\ Tail(e) \in Seq(Char)
      BY <3>2, FirstAndRest
    <3> QED BY <1>0, <3>2, <3>3
  <2> HIDE DEF e, t, r, b
  <2>4. stream = b \o (t \o r) /\ t \o r \in Seq(Char)
    <3>1. (b \o t) \o r = b \o (t \o r)
      BY <2>2, <2>3, Regroup
    <3>2. t \o r \in Seq(Char)
      BY <2>2, <2>3, ConcatProperties
    <3> QED BY <2>2, <2>3, <3>1, <3>2
  <2>5. c = "\\" /\ (Get => stream' = t \o r)
    BY <1>0, <2>4, HeadIs DEF b
  <2> QED BY <1>1, <2>5 DEF t, e, r
<1>2. CASE ~(k <= n /\ w[k] \in nonprint)
  <2>1. k > n \/ w[k] \notin nonprint
    BY <1>0, <1>2
  <2>2. stream = <<"'">> \o InQuotes(w, k) /\ InQuotes(w, k) \in Seq(Char)
    BY <2>1, Printed
  <2> QED BY <1>0, <2>2, HeadIs
<1> QED BY <1>1, <1>2

\* Between the quotes: their end, a quote of the word, or another character of it.
LEMMA QuotedIs ==
    ASSUME StreamInv, AtHand(in), src.word \in Seq(Printing), NEW k \in 1..Len(src.word) + 1,
           stream = InQuotes(src.word, k)
    PROVE  \/ c = "'" /\ (Get => stream' = Joined(src.word, k))
           \/ /\ k \in 1..Len(src.word) /\ src.word[k] = "'" /\ c = "'"
              /\ Get => stream' = <<"'">> \o InQuotes(src.word, k + 1)
           \/ /\ k \in 1..Len(src.word) /\ src.word[k] \notin nonprint \cup {"'"} /\ c = src.word[k]
              /\ Get => stream' = InQuotes(src.word, k + 1)
<1> DEFINE w == src.word
           n == Len(w)
           q == <<"'">>
           r == InQuotes(w, k + 1)
<1>0. n \in Nat /\ "'" \in Char /\ q \in Seq(Char)
  BY PrintedChars
<1>1. CASE k > n \/ w[k] \in nonprint
  <2>1. stream = q \o Joined(w, k) /\ Joined(w, k) \in Seq(Char)
    BY <1>1, Printed
  <2> QED BY <1>0, <2>1, HeadIs
<1>2. CASE ~(k > n \/ w[k] \in nonprint)
  <2>1. k \in 1..n /\ k + 1 \in 1..n + 1 /\ w[k] \in Char
    <3>1. k \in 1..n /\ k + 1 \in 1..n + 1
      BY <1>0, <1>2
    <3> QED BY <3>1, PrintedChars
  <2>2. stream = Doubled(w[k]) \o r /\ r \in Seq(Char)
    BY <1>2, <2>1, Printed
  <2>3. CASE w[k] = "'"
    <3>1. Doubled(w[k]) = q \o q
      BY <1>0, <2>3, Pairs DEF Doubled
    <3> HIDE DEF q, r
    <3>2. stream = q \o (q \o r) /\ q \o r \in Seq(Char)
      <4>1. (q \o q) \o r = q \o (q \o r)
        BY <1>0, <2>2, Regroup
      <4>2. q \o r \in Seq(Char)
        BY <1>0, <2>2, ConcatProperties
      <4> QED BY <2>2, <3>1, <4>1, <4>2
    <3>3. c = "'" /\ (Get => stream' = q \o r)
      BY <1>0, <3>2, HeadIs DEF q
    <3> QED BY <2>1, <2>3, <3>3 DEF q, r
  <2>4. CASE w[k] # "'"
    <3>1. stream = <<w[k]>> \o r
      BY <2>2, <2>4 DEF Doubled
    <3>2. c = w[k] /\ (Get => stream' = r)
      BY <2>1, <2>2, <3>1, HeadIs
    <3> QED BY <1>2, <2>1, <2>4, <3>2
  <2> QED BY <2>3, <2>4
<1> QED BY <1>1, <1>2

\* After the backslash of an escape.
LEMMA EscapedIs ==
    ASSUME StreamInv, AtHand(in), src.word \in Seq(Printing), NEW k \in 1..Len(src.word) + 1,
           Escaping(k)
    PROVE  /\ Look => stream' = stream
           /\ \/ src.word[k] = "\n" /\ c = "n" /\ (Get => stream' = Joined(src.word, k + 1))
              \/ src.word[k] = "bel" /\ c = "a" /\ (Get => stream' = Joined(src.word, k + 1))
              \/ src.word[k] = "\t" /\ c = "t" /\ (Get => stream' = Joined(src.word, k + 1))
              \/ src.word[k] = "soh" /\ c = "1" /\ (Get => stream' = Joined(src.word, k + 1))
<1> DEFINE w == src.word
           n == Len(w)
           r == Joined(w, k + 1)
           t == Tail(Escape(w[k]))
<1>1. n \in Nat /\ k \in 1..n /\ k + 1 \in 1..n + 1 /\ w[k] \in nonprint /\ stream = t \o r
  BY DEF Escaping
<1>2. r \in Seq(Char) /\ {"n", "a", "t", "1"} \subseteq Char
  <2>1. r \in Seq(Char)
    BY <1>1, Printed
  <2>2. {"n", "a", "t", "1"} \subseteq Char
    BY PrintedChars
  <2> QED BY <2>1, <2>2
<1>3. w[k] \in {"soh", "bel", "\n", "\t"}
  BY <1>1 DEF nonprint
<1> HIDE DEF r
<1>4. CASE w[k] = "\n"
  <2>1. t = <<"n">>
    BY <1>4 DEF Escape
  <2> HIDE DEF t
  <2>2. stream = <<"n">> \o r
    BY <1>1, <2>1
  <2> QED BY <1>2, <1>4, <2>2, HeadIs DEF r
<1>5. CASE w[k] = "bel"
  <2>1. t = <<"a">>
    BY <1>5 DEF Escape
  <2> HIDE DEF t
  <2>2. stream = <<"a">> \o r
    BY <1>1, <2>1
  <2> QED BY <1>2, <1>5, <2>2, HeadIs DEF r
<1>6. CASE w[k] = "soh"
  <2>1. t = <<"1">>
    BY <1>6 DEF Escape
  <2> HIDE DEF t
  <2>2. stream = <<"1">> \o r
    BY <1>1, <2>1
  <2> QED BY <1>2, <1>6, <2>2, HeadIs DEF r
<1>7. CASE w[k] = "\t"
  <2>1. t = <<"t">>
    BY <1>7 DEF Escape
  <2> HIDE DEF t
  <2>2. stream = <<"t">> \o r
    BY <1>1, <2>1
  <2> QED BY <1>2, <1>7, <2>2, HeadIs DEF r
<1> QED BY <1>3, <1>4, <1>5, <1>6, <1>7

\* A printed word is read.
WordRead == PrintedAssumption /\ ReaderInv /\ src.printed /\ RoundInv

LEMMA SpellingIs ==
    ASSUME WordRead, NEW L, L = Letters
    PROVE  /\ src \in Sources /\ src.word \in Seq(Printing) /\ Safe(src.word) /\ src.one /\ ~src.tty
           /\ Len(src.word) \in Nat
           /\ StreamInv /\ Shaped(in) /\ L \subseteq Char /\ TokType(L) # {}
           /\ lex \in LexType(L) /\ tok \in TokType(L) /\ par \in ParType(L)
           /\ par.toks \in Seq(TokType(L)) /\ par.skip \in BOOLEAN
           /\ Said(par.toks) \in Seq(Char) /\ lex.acc \in Seq(Char) /\ tok.s \in Seq(Char)
<1>1. src \in Sources /\ StreamInv /\ Shaped(in) /\ lex \in LexType(L) /\ tok \in TokType(L) /\ par \in ParType(L)
  BY DEF WordRead, ReaderInv, TypeInv, StreamInv, Typed
<1>2. src.word \in Seq(Printing) /\ Safe(src.word) /\ src.one /\ ~src.tty
  BY <1>1 DEF WordRead, PrintedAssumption, Printing
<1>3. L \subseteq Char
  BY LettersAre DEF Letters
<1>4. par.toks \in Seq(TokType(L)) /\ par.skip \in BOOLEAN
  BY <1>1 DEF ParType
<1>5. Said(par.toks) \in Seq(Char)
  BY <1>1, <1>3, <1>4, SaidIs
<1>6. lex.acc \in Seq(Char) /\ tok.s \in Seq(Char)
  <2>1. lex.acc \in Seq(L) /\ tok.s \in Seq(L)
    BY <1>1 DEF LexType, TokType
  <2>2. Seq(L) \subseteq Seq(Char)
    BY <1>3, SeqMonotonic
  <2> QED BY <2>1, <2>2
<1>7. Len(src.word) \in Nat
  BY <1>2
<1> QED BY <1>1, <1>2, <1>3, <1>4, <1>5, <1>6, <1>7

LEMMA RoundAfter ==
    ASSUME WordRead, src' = src, in'.reads = in.reads, pc' \in Spelling, Calm',
           NEW k \in 1..Len(src.word) + 1, Reached(k)'
    PROVE  RoundInv'
<1>1. in'.reads = <<>>
  BY DEF WordRead, RoundInv
<1>2. pc' \notin {"parse", "finish", "term", "end"}
  BY DEF Spelling
<1> HIDE DEF Reached, Calm
<1> QED BY <1>1, <1>2 DEF RoundInv

LEMMA ParsedAfter ==
    ASSUME src' = src, par'.skip = par.skip, par'.toks = par.toks,
           NEW p, NEW s, NEW k, Parsed(p, s, k)
    PROVE  Parsed(p, s, k)'
BY DEF Parsed, Before

\* Steps that scan on, or hand over a token.
LEMMA ScanOn ==
    ASSUME WordRead, Calm, NEW p, NEW a, NEW w, Scan(p, a, w)
    PROVE  /\ Calm' /\ lex'.acc = a /\ lex'.w = w /\ pc' = p /\ par' = par /\ tok' = tok /\ src' = src
           /\ lex'.meta = lex.meta
<1>1. PICK L : L = Letters
  OBVIOUS
<1>2. lex \in LexType(L)
  BY <1>1, SpellingIs
<1>3. lex' = [lex EXCEPT !.acc = a, !.w = w] /\ pc' = p /\ UNCHANGED <<tok, par, src>>
  BY DEF Scan, Goto, ShellStays
<1>4. lex'.acc = a /\ lex'.w = w /\ lex'.meta = lex.meta /\ lex'.goterror = lex.goterror /\ lex'.dollar = lex.dollar
  BY <1>2, <1>3 DEF LexType
<1> QED BY <1>3, <1>4 DEF Calm

LEMMA HandOver ==
    ASSUME WordRead, Calm, NEW kind, NEW s, NEW w, Token(kind, s, w)
    PROVE  /\ Calm' /\ lex'.w = w /\ pc' = "token" /\ par' = par /\ src' = src
           /\ tok'.kind = kind /\ tok'.s = s
<1>1. PICK L : L = Letters
  OBVIOUS
<1>2. lex \in LexType(L)
  BY <1>1, SpellingIs
<1>3. lex' = [lex EXCEPT !.w = w] /\ pc' = "token" /\ UNCHANGED <<par, src>> /\ tok' = [kind |-> kind, s |-> s]
  BY DEF Token
<1>4. lex'.w = w /\ lex'.goterror = lex.goterror /\ lex'.dollar = lex.dollar
  BY <1>2, <1>3 DEF LexType
<1> QED BY <1>3, <1>4 DEF Calm

\* What is so where a character is read.
LEMMA Somewhere ==
    ASSUME WordRead, pc \in Spelling, NEW L, L = Letters
    PROVE  /\ Calm /\ StreamInv /\ src.word \in Seq(Printing) /\ Len(src.word) \in Nat
           /\ \E k \in 1..Len(src.word) + 1 : Reached(k)
           /\ Ready => AtHand(in)
           /\ AtHand(in) /\ src' = src /\ (Get \/ Look) => in'.reads = in.reads
<1>1. Calm /\ \E k \in 1..Len(src.word) + 1 : Reached(k)
  <2> HIDE DEF Calm, Reached
  <2> QED BY DEF WordRead, RoundInv, Spelling
<1>2. StreamInv /\ src.word \in Seq(Printing) /\ Shaped(in) /\ Len(src.word) \in Nat
  BY SpellingIs
<1>3. Ready => AtHand(in)
  BY <1>2, ReadyIs
<1>4. AtHand(in) /\ src' = src /\ (Get \/ Look) => in'.reads = in.reads
  BY <1>2, GetStep, LookStep DEF Kept
<1> QED BY <1>1, <1>2, <1>3, <1>4

\* yylex is entered.
LEMMA YylexRound ==
    ASSUME WordRead, Yylex
    PROVE  RoundInv'
<1>1. PICK L : L = Letters
  OBVIOUS
<1>2. pc = "lex" /\ pc \in Spelling
  BY DEF Yylex, Spelling
<1>3. PICK k \in 1..Len(src.word) + 1 : Reached(k)
  BY <1>1, <1>2, Somewhere
<1>4. Calm
  BY <1>1, <1>2, Somewhere
<1>5. Beginning(k) \/ Going(k)
  BY <1>2, <1>3 DEF Reached
<1>6. /\ lex' = [lex EXCEPT !.meta = "non_word", !.dollar = FALSE, !.newline = FALSE]
      /\ par' = [par EXCEPT !.prompt2 = @ \/ lex.newline]
      /\ pc' = "top" /\ in' = in /\ src' = src /\ stream' = stream
  BY <1>4 DEF Yylex, Calm
<1>7. lex \in LexType(L) /\ par \in ParType(L)
  BY <1>1, SpellingIs
<1>8. /\ lex'.meta = "non_word" /\ ~lex'.dollar /\ lex'.goterror = lex.goterror /\ lex'.w = lex.w
      /\ par'.nest = par.nest /\ par'.last = par.last /\ par'.want = par.want /\ par'.queue = par.queue /\ par'.ok = par.ok
      /\ par'.skip = par.skip /\ par'.toks = par.toks /\ par'.marker = par.marker
  BY <1>6, <1>7 DEF LexType, ParType
<1>9. Calm'
  BY <1>4, <1>8 DEF Calm
<1>10. Parsed(0, <<>>, k) => Parsed(0, <<>>, k)'
  BY <1>6, <1>8, ParsedAfter
<1>11. Parsed(1, <<>>, k) => Parsed(1, <<>>, k)'
  BY <1>6, <1>8, ParsedAfter
<1>12. (Beginning(k) \/ Going(k))'
  BY <1>5, <1>6, <1>8, <1>10, <1>11 DEF Beginning, Going, Ended
<1>13. Reached(k)' /\ pc' \in Spelling
  BY <1>6, <1>8, <1>12 DEF Reached, Spelling
<1> QED BY <1>3, <1>6, <1>9, <1>13, RoundAfter

\* At the start of a token.
LEMMA TopIs ==
    ASSUME WordRead, pc = "top", Ready, NEW k \in 1..Len(src.word) + 1, Reached(k)
    PROVE  /\ AtHand(in) /\ c \in {"\\", "'", "^", "eof"} /\ ~StartsWord
           /\ \/ /\ lex.w = "non" /\ Parsed(0, <<>>, k)
                 /\ \/ /\ k <= Len(src.word) /\ src.word[k] \in nonprint /\ c = "\\"
                       /\ Get => stream' = Tail(Escape(src.word[k])) \o Joined(src.word, k + 1)
                    \/ c = "'" /\ (Get => stream' = InQuotes(src.word, k))
              \/ /\ lex.w = "real" /\ Parsed(1, <<>>, k)
                 /\ \/ k <= Len(src.word) /\ c = "^" /\ (Get => stream' = Starting(src.word, k))
                    \/ k = Len(src.word) + 1 /\ c = "eof"
<1>1. StreamInv /\ src.word \in Seq(Printing) /\ AtHand(in)
  BY Somewhere DEF Spelling
<1>2. lex.meta = "non_word" /\ (Beginning(k) \/ Going(k))
  BY DEF Reached
<1>3. \/ /\ lex.w = "non" /\ Parsed(0, <<>>, k)
         /\ \/ /\ k <= Len(src.word) /\ src.word[k] \in nonprint /\ c = "\\"
               /\ Get => stream' = Tail(Escape(src.word[k])) \o Joined(src.word, k + 1)
            \/ c = "'" /\ (Get => stream' = InQuotes(src.word, k))
      \/ /\ lex.w = "real" /\ Parsed(1, <<>>, k)
         /\ \/ k <= Len(src.word) /\ c = "^" /\ (Get => stream' = Starting(src.word, k))
            \/ k = Len(src.word) + 1 /\ c = "eof"
  <2>1. CASE Beginning(k)
    <3>1. lex.w = "non" /\ Parsed(0, <<>>, k) /\ stream = Starting(src.word, k)
      BY <2>1 DEF Beginning
    <3> QED BY <1>1, <3>1, StartingIs
  <2>2. CASE Going(k)
    <3>1. lex.w = "real" /\ Parsed(1, <<>>, k) /\ Ended(k)
      BY <2>2 DEF Going
    <3> QED BY <1>1, <3>1, EndedIs
  <2> QED BY <1>2, <2>1, <2>2
<1> HIDE DEF c, Get
<1>4. c \in {"\\", "'", "^", "eof"}
  BY <1>3
<1>5. ~StartsWord
  BY <1>2, <1>4 DEF StartsWord, InWord, Meta, non_word
<1> QED BY <1>1, <1>3, <1>4, <1>5

LEMMA TopRound ==
    ASSUME WordRead,
           Blank \/ TopEof \/ TopCtrlC \/ TopCaret \/ TopWord \/ TopSpecial \/ TopNewline
    PROVE  RoundInv'
<1>1. PICK L : L = Letters
  OBVIOUS
<1>2. pc = "top" /\ Ready /\ pc \in Spelling
  BY DEF Blank, TopEof, TopCtrlC, TopCaret, TopWord, TopSpecial, TopNewline, At, Spelling
<1>3. Calm /\ (AtHand(in) /\ src' = src /\ (Get \/ Look) => in'.reads = in.reads)
  BY <1>1, <1>2, Somewhere
<1>4. PICK k \in 1..Len(src.word) + 1 : Reached(k)
  BY <1>1, <1>2, Somewhere
<1>5. /\ AtHand(in) /\ c \in {"\\", "'", "^", "eof"} /\ ~StartsWord
      /\ \/ /\ lex.w = "non" /\ Parsed(0, <<>>, k)
            /\ \/ /\ k <= Len(src.word) /\ src.word[k] \in nonprint /\ c = "\\"
                  /\ Get => stream' = Tail(Escape(src.word[k])) \o Joined(src.word, k + 1)
               \/ c = "'" /\ (Get => stream' = InQuotes(src.word, k))
         \/ /\ lex.w = "real" /\ Parsed(1, <<>>, k)
            /\ \/ k <= Len(src.word) /\ c = "^" /\ (Get => stream' = Starting(src.word, k))
               \/ k = Len(src.word) + 1 /\ c = "eof"
  BY <1>2, <1>4, TopIs
<1> HIDE DEF c, Get, Look
<1>6. CASE TopEof
  <2>1. c = "eof" /\ Get /\ Token("ENDFILE", <<>>, lex.w)
    BY <1>6 DEF TopEof, Return
  <2>2. k = Len(src.word) + 1 /\ Parsed(1, <<>>, k)
    BY <1>5, <2>1
  <2>3. Calm' /\ pc' = "token" /\ par' = par /\ src' = src /\ tok'.kind = "ENDFILE"
    BY <1>3, <2>1, HandOver
  <2>4. Parsed(1, <<>>, k)'
    BY <2>2, <2>3, ParsedAfter
  <2>5. Reached(k)' /\ pc' \in Spelling
    BY <2>2, <2>3, <2>4 DEF Reached, Handed, Spelling
  <2>6. in'.reads = in.reads
    BY <1>3, <1>5, <2>1, <2>3
  <2> QED BY <2>3, <2>5, <2>6, RoundAfter
<1>7. CASE TopSpecial /\ c = "\\"
  <2>1. Get /\ Scan("slash", <<>>, lex.w)
    BY <1>7 DEF TopSpecial, non_word
  <2>2. /\ lex.w = "non" /\ Parsed(0, <<>>, k) /\ k <= Len(src.word) /\ src.word[k] \in nonprint
        /\ stream' = Tail(Escape(src.word[k])) \o Joined(src.word, k + 1)
    BY <1>5, <1>7, <2>1
  <2>3. Calm' /\ pc' = "slash" /\ par' = par /\ src' = src /\ lex'.w = lex.w
    BY <1>3, <2>1, ScanOn
  <2>4. Parsed(0, <<>>, k)'
    BY <2>2, <2>3, ParsedAfter
  <2>5. Escaping(k)'
    BY <2>2, <2>3 DEF Escaping
  <2>6. Reached(k)' /\ pc' \in Spelling
    BY <2>2, <2>3, <2>4, <2>5 DEF Reached, Spelling
  <2>7. in'.reads = in.reads
    BY <1>3, <1>5, <2>1, <2>3
  <2> QED BY <2>3, <2>6, <2>7, RoundAfter
<1>8. CASE TopSpecial /\ c = "'"
  <2>1. Get /\ Scan("quote", <<>>, "real")
    BY <1>8 DEF TopSpecial, non_word
  <2>2. Parsed(0, <<>>, k) /\ stream' = InQuotes(src.word, k)
    BY <1>5, <1>8, <2>1
  <2>3. Calm' /\ pc' = "quote" /\ par' = par /\ src' = src /\ lex'.w = "real" /\ lex'.acc = <<>>
    BY <1>3, <2>1, ScanOn
  <2>4. Parsed(0, <<>>, k)'
    BY <2>2, <2>3, ParsedAfter
  <2>5. Quoting(k)'
    BY <2>2, <2>3, <2>4 DEF Quoting, Parsed
  <2>6. Reached(k)' /\ pc' \in Spelling
    BY <2>3, <2>5 DEF Reached, Spelling
  <2>7. in'.reads = in.reads
    BY <1>3, <1>5, <2>1, <2>3
  <2> QED BY <2>3, <2>6, <2>7, RoundAfter
<1>9. CASE TopSpecial /\ c = "^"
  <2>1. Get /\ Token("^", <<>>, "non")
    BY <1>9 DEF TopSpecial, Return, non_word
  <2>2. Parsed(1, <<>>, k) /\ stream' = Starting(src.word, k)
    BY <1>5, <1>9, <2>1
  <2>3. Calm' /\ pc' = "token" /\ par' = par /\ src' = src /\ lex'.w = "non" /\ tok'.kind = "^" /\ tok'.s = <<>>
    BY <1>3, <2>1, HandOver
  <2>4. Parsed(1, <<>>, k)'
    BY <2>2, <2>3, ParsedAfter
  <2>5. Reached(k)' /\ pc' \in Spelling
    BY <2>2, <2>3, <2>4 DEF Reached, Handed, Spelling
  <2>6. in'.reads = in.reads
    BY <1>3, <1>5, <2>1, <2>3
  <2> QED BY <2>3, <2>5, <2>6, RoundAfter
<1>10. CASE Blank \/ TopCtrlC \/ TopNewline
  BY <1>5, <1>10 DEF Blank, TopCtrlC, CtrlC, TopNewline
<1>11. CASE TopCaret
  <2>1. lex.w # "non" /\ c \in {"bq", "!", "$", "'"}
    BY <1>5, <1>11 DEF TopCaret
  <2> QED BY <1>5, <2>1
<1>12. CASE TopWord
  BY <1>5, <1>12 DEF TopWord
<1>13. CASE TopSpecial /\ c = "eof"
  BY <1>13 DEF TopSpecial, non_word
<1> QED BY <1>5, <1>6, <1>7, <1>8, <1>9, <1>10, <1>11, <1>12, <1>13

\* A character of the word between quotes.
LEMMA QuoteRound ==
    ASSUME WordRead, Quote
    PROVE  RoundInv'
<1>1. PICK L : L = Letters
  OBVIOUS
<1>2. pc = "quote" /\ Ready /\ pc \in Spelling
  BY DEF Quote, At, Spelling
<1>3. /\ Calm /\ (AtHand(in) /\ src' = src /\ (Get \/ Look) => in'.reads = in.reads)
      /\ AtHand(in) /\ StreamInv /\ src.word \in Seq(Printing) /\ Len(src.word) \in Nat
  BY <1>1, <1>2, Somewhere
<1>4. PICK k \in 1..Len(src.word) + 1 : Reached(k)
  BY <1>1, <1>2, Somewhere
<1>5. lex.w = "real" /\ stream = InQuotes(src.word, k) /\ Parsed(0, lex.acc, k)
  BY <1>2, <1>4 DEF Reached, Quoting
<1>6. \/ c = "'" /\ (Get => stream' = Joined(src.word, k))
      \/ /\ k \in 1..Len(src.word) /\ src.word[k] = "'" /\ c = "'"
         /\ Get => stream' = <<"'">> \o InQuotes(src.word, k + 1)
      \/ /\ k \in 1..Len(src.word) /\ src.word[k] \notin nonprint \cup {"'"} /\ c = src.word[k]
         /\ Get => stream' = InQuotes(src.word, k + 1)
  BY <1>3, <1>5, QuotedIs
<1>7. k \in 1..Len(src.word) => k <= Len(src.word) /\ src.word[k] \in Printing /\ k + 1 \in 1..Len(src.word) + 1
  BY <1>3
<1>8. "nul" \notin Printing /\ "eof" \notin Printing /\ "\n" \in nonprint
  BY DEF Printing, Byte, nonprint
<1> HIDE DEF c, Get, Look
<1>9. CASE c = "'"
  <2>1. Get /\ Scan("quote2", lex.acc, lex.w)
    BY <1>9 DEF Quote, CtrlC
  <2>2. Calm' /\ pc' = "quote2" /\ par' = par /\ src' = src /\ lex'.w = lex.w /\ lex'.acc = lex.acc
    BY <1>3, <2>1, ScanOn
  <2>3. Parsed(0, lex.acc, k)'
    BY <1>5, <2>2 DEF Parsed, Before
  <2>4. Doubling(k)'
    BY <1>5, <1>6, <1>7, <1>9, <2>1, <2>2, <2>3 DEF Doubling
  <2>5. Reached(k)' /\ pc' \in Spelling
    BY <2>2, <2>4 DEF Reached, Spelling
  <2>6. in'.reads = in.reads
    BY <1>3, <2>1, <2>2
  <2> QED BY <2>2, <2>5, <2>6, RoundAfter
<1>10. CASE c = "\\"
  <2>1. Get /\ Scan("slash2", lex.acc, lex.w)
    BY <1>10 DEF Quote, CtrlC
  <2>2. Calm' /\ pc' = "slash2" /\ par' = par /\ src' = src /\ lex'.w = lex.w /\ lex'.acc = lex.acc
    BY <1>3, <2>1, ScanOn
  <2>3. Parsed(0, lex.acc, k)'
    BY <1>5, <2>2 DEF Parsed, Before
  <2>4. k \in 1..Len(src.word) /\ src.word[k] = "\\" /\ stream' = InQuotes(src.word, k + 1)
    BY <1>6, <1>10, <2>1
  <2>5. Slashing(k)'
    BY <1>5, <1>7, <2>2, <2>3, <2>4 DEF Slashing
  <2>6. Reached(k)' /\ pc' \in Spelling
    BY <2>2, <2>5 DEF Reached, Spelling
  <2>7. in'.reads = in.reads
    BY <1>3, <2>1, <2>2
  <2> QED BY <2>2, <2>6, <2>7, RoundAfter
<1>11. CASE c \notin {"'", "\\"}
  <2>1. k \in 1..Len(src.word) /\ src.word[k] \notin nonprint /\ c = src.word[k]
        /\ (Get => stream' = InQuotes(src.word, k + 1))
    BY <1>6, <1>11
  <2>2. c \notin {"'", "\\", "nul", "eof", "\n"}
    BY <1>7, <1>8, <1>11, <2>1
  <2>3. Get /\ lex' = [lex EXCEPT !.acc = Append(@, c)] /\ UNCHANGED <<par, pc, tok, src>>
    BY <2>2 DEF Quote, CtrlC
  <2>4. lex \in LexType(L) /\ lex.acc \in Seq(Char) /\ L \subseteq Char /\ par.toks \in Seq(TokType(L)) /\ TokType(L) # {}
    BY <1>1, SpellingIs
  <2>5. /\ lex'.acc = Append(lex.acc, c) /\ lex'.w = lex.w
        /\ lex'.goterror = lex.goterror /\ lex'.dollar = lex.dollar
    BY <2>3, <2>4 DEF LexType
  <2>6. Calm'
    BY <1>3, <2>3, <2>5 DEF Calm
  <2>7. Parsed(0, lex.acc \o <<src.word[k]>>, k + 1)
    BY <1>3, <1>5, <2>1, <2>4, ParsedMore
  <2>8. lex'.acc = lex.acc \o <<src.word[k]>>
    <3>1. c \in Char
      BY <1>3, CharIs
    <3>2. Append(lex.acc, c) = lex.acc \o <<c>>
      BY <2>4, <3>1, AppendIsConcat
    <3> QED BY <2>1, <2>5, <3>2
  <2>9. Parsed(0, lex.acc, k + 1)'
    BY <2>3, <2>7, <2>8 DEF Parsed, Before
  <2>10. Quoting(k + 1)'
    BY <1>5, <2>1, <2>3, <2>5, <2>9 DEF Quoting
  <2>11. Reached(k + 1)' /\ pc' \in Spelling
    BY <1>2, <2>3, <2>10 DEF Reached
  <2>12. in'.reads = in.reads
    BY <1>3, <2>3
  <2> QED BY <1>7, <2>1, <2>3, <2>6, <2>11, <2>12, RoundAfter
<1> QED BY <1>9, <1>10, <1>11

\* After a quote: a second one, or the end of the piece.
LEMMA QuoteQuoteRound ==
    ASSUME WordRead, QuoteQuote
    PROVE  RoundInv'
<1>1. PICK L : L = Letters
  OBVIOUS
<1>2. pc = "quote2" /\ Ready /\ pc \in Spelling
  BY DEF QuoteQuote, At, Spelling
<1>3. /\ Calm /\ (AtHand(in) /\ src' = src /\ (Get \/ Look) => in'.reads = in.reads)
      /\ AtHand(in) /\ StreamInv /\ src.word \in Seq(Printing) /\ Len(src.word) \in Nat
  BY <1>1, <1>2, Somewhere
<1>4. PICK k \in 1..Len(src.word) + 1 : Reached(k)
  BY <1>1, <1>2, Somewhere
<1>5. Doubling(k)
  BY <1>2, <1>4 DEF Reached
<1>6. lex.w = "real" /\ Parsed(0, lex.acc, k)
  BY <1>5 DEF Doubling
<1>7. CASE stream = Joined(src.word, k)
  <2>1. Ended(k)
    BY <1>7 DEF Ended
  <2>2. c \in {"^", "eof"} /\ (Look /\ src' = src => Ended(k)')
    BY <1>3, <2>1, EndedIs
  <2> HIDE DEF c
  <2>3. Look /\ Token("QWORD", lex.acc, lex.w)
    BY <2>2 DEF QuoteQuote
  <2> HIDE DEF Look
  <2>4. /\ Calm' /\ lex'.w = lex.w /\ pc' = "token" /\ par' = par /\ src' = src
        /\ tok'.kind = "QWORD" /\ tok'.s = lex.acc
    BY <1>3, <2>3, HandOver
  <2>5. Parsed(0, tok.s, k)'
    BY <1>6, <2>4 DEF Parsed, Before
  <2>6. Reached(k)' /\ pc' \in Spelling
    BY <1>6, <2>2, <2>3, <2>4, <2>5 DEF Reached, Handed, Spelling
  <2>7. in'.reads = in.reads
    BY <1>3, <2>3, <2>4
  <2> QED BY <2>4, <2>6, <2>7, RoundAfter
<1>8. CASE k <= Len(src.word) /\ src.word[k] = "'" /\ stream = <<"'">> \o InQuotes(src.word, k + 1)
  <2>1. k \in 1..Len(src.word) /\ k + 1 \in 1..Len(src.word) + 1
    BY <1>3, <1>8
  <2>2. InQuotes(src.word, k + 1) \in Seq(Char) /\ "'" \in Char
    BY <1>3, <2>1, Printed, PrintedChars
  <2>3. c = "'" /\ (Get => stream' = InQuotes(src.word, k + 1))
    BY <1>3, <1>8, <2>2, HeadIs
  <2> HIDE DEF c
  <2>4. Get /\ Scan("quote", Append(lex.acc, "'"), lex.w)
    BY <2>3 DEF QuoteQuote
  <2> HIDE DEF Get
  <2>5. Calm' /\ lex'.acc = Append(lex.acc, "'") /\ lex'.w = lex.w /\ pc' = "quote" /\ par' = par /\ src' = src
    BY <1>3, <2>4, ScanOn
  <2>6. lex.acc \in Seq(Char) /\ L \subseteq Char /\ par.toks \in Seq(TokType(L)) /\ TokType(L) # {}
    BY <1>1, SpellingIs
  <2>7. Parsed(0, lex.acc \o <<src.word[k]>>, k + 1)
    BY <1>3, <1>6, <2>1, <2>6, ParsedMore
  <2>8. lex'.acc = lex.acc \o <<src.word[k]>>
    <3>1. Append(lex.acc, "'") = lex.acc \o <<"'">>
      BY <2>2, <2>6, AppendIsConcat
    <3> QED BY <1>8, <2>5, <3>1
  <2>9. Parsed(0, lex.acc, k + 1)'
    BY <2>5, <2>7, <2>8 DEF Parsed, Before
  <2>10. Quoting(k + 1)'
    BY <1>6, <2>3, <2>4, <2>5, <2>9 DEF Quoting
  <2>11. Reached(k + 1)' /\ pc' \in Spelling
    BY <2>5, <2>10 DEF Reached, Spelling
  <2>12. in'.reads = in.reads
    BY <1>3, <2>4, <2>5
  <2> QED BY <2>1, <2>5, <2>11, <2>12, RoundAfter
<1> QED BY <1>5, <1>7, <1>8 DEF Doubling

\* A backslash between quotes stands for itself: what is after it is no quote
\* and no line end.
LEMMA QuoteSlashRound ==
    ASSUME WordRead, QuoteSlash
    PROVE  RoundInv'
<1>1. PICK L : L = Letters
  OBVIOUS
<1>2. pc = "slash2" /\ Ready /\ pc \in Spelling
  BY DEF QuoteSlash, At, Spelling
<1>3. /\ Calm /\ (AtHand(in) /\ src' = src /\ (Get \/ Look) => in'.reads = in.reads)
      /\ AtHand(in) /\ StreamInv /\ src.word \in Seq(Printing) /\ Len(src.word) \in Nat
  BY <1>1, <1>2, Somewhere
<1>4. PICK k \in 1..Len(src.word) + 1 : Reached(k)
  BY <1>1, <1>2, Somewhere
<1>5. /\ lex.w = "real" /\ Parsed(0, lex.acc, k)
      /\ k <= Len(src.word) /\ src.word[k] = "\\" /\ stream = InQuotes(src.word, k + 1)
  BY <1>2, <1>4 DEF Reached, Slashing
<1> DEFINE j == k + 1
<1>6. k \in 1..Len(src.word) /\ j \in 1..Len(src.word) + 1
  BY <1>3, <1>5
<1>7. j \in 1..Len(src.word) /\ src.word[j] \notin nonprint \cup {"'"}
  <2>1. Safe(src.word) /\ k \in DOMAIN src.word
    BY <1>1, <1>3, <1>6, SpellingIs
  <2>2. k < Len(src.word) /\ src.word[j] \notin nonprint \cup {"'"}
    BY <1>5, <2>1 DEF Safe
  <2> QED BY <1>3, <1>6, <2>2
<1> HIDE DEF j
<1>8. c = src.word[j] /\ (Look => stream' = stream)
  <2> DEFINE r == InQuotes(src.word, j + 1)
  <2>1. j + 1 \in 1..Len(src.word) + 1 /\ src.word[j] \in Char
    <3>1. src.word[j] \in Printing /\ j + 1 \in 1..Len(src.word) + 1
      BY <1>3, <1>7
    <3> QED BY <3>1, PrintedChars
  <2>2. r \in Seq(Char)
    BY <1>3, <2>1, Printed
  <2>3. InQuotes(src.word, j) = Doubled(src.word[j]) \o r
    BY <1>3, <1>7, Printed
  <2>4. Doubled(src.word[j]) = <<src.word[j]>>
    BY <1>7 DEF Doubled
  <2>5. stream = <<src.word[j]>> \o r
    BY <1>5, <2>3, <2>4 DEF j
  <2> HIDE DEF r
  <2> QED BY <1>3, <2>1, <2>2, <2>5, HeadIs
<1>9. c \notin {"\n", "'"}
  BY <1>7, <1>8 DEF nonprint
<1> HIDE DEF c
<1>10. Look /\ Scan("quote", Append(lex.acc, "\\"), lex.w)
  BY <1>9 DEF QuoteSlash
<1> HIDE DEF Look
<1>11. Calm' /\ lex'.acc = Append(lex.acc, "\\") /\ lex'.w = lex.w /\ pc' = "quote" /\ par' = par /\ src' = src
  BY <1>3, <1>10, ScanOn
<1>12. lex.acc \in Seq(Char) /\ L \subseteq Char /\ par.toks \in Seq(TokType(L)) /\ TokType(L) # {}
  BY <1>1, SpellingIs
<1>13. Parsed(0, lex.acc \o <<src.word[k]>>, j)
  BY <1>3, <1>5, <1>6, <1>12, ParsedMore DEF j
<1>14. lex'.acc = lex.acc \o <<src.word[k]>>
  <2>1. "\\" \in Char
    BY PrintedChars
  <2>2. Append(lex.acc, "\\") = lex.acc \o <<"\\">>
    BY <1>12, <2>1, AppendIsConcat
  <2> QED BY <1>5, <1>11, <2>2
<1>15. Parsed(0, lex.acc, j)'
  BY <1>11, <1>13, <1>14 DEF Parsed, Before, j
<1>16. Quoting(j)'
  BY <1>5, <1>8, <1>10, <1>11, <1>15 DEF Quoting, j
<1>17. Reached(j)' /\ pc' \in Spelling
  BY <1>11, <1>16 DEF Reached, Spelling
<1>18. in'.reads = in.reads
  BY <1>3, <1>10, <1>11
<1> QED BY <1>6, <1>11, <1>17, <1>18, RoundAfter

\* The backslash of an escape.
LEMMA BackslashRound ==
    ASSUME WordRead, Backslash
    PROVE  RoundInv'
<1>1. PICK L : L = Letters
  OBVIOUS
<1>2. pc = "slash" /\ Ready /\ pc \in Spelling
  BY DEF Backslash, At, Spelling
<1>3. /\ Calm /\ (AtHand(in) /\ src' = src /\ (Get \/ Look) => in'.reads = in.reads)
      /\ AtHand(in) /\ StreamInv /\ src.word \in Seq(Printing) /\ Len(src.word) \in Nat
  BY <1>1, <1>2, Somewhere
<1>4. PICK k \in 1..Len(src.word) + 1 : Reached(k)
  BY <1>1, <1>2, Somewhere
<1>5. lex.w = "non" /\ Escaping(k) /\ Parsed(0, <<>>, k)
  BY <1>2, <1>4 DEF Reached
<1>6. c \in {"n", "a", "t", "1"} /\ (Look => stream' = stream)
  BY <1>3, <1>5, EscapedIs
<1> HIDE DEF c
<1>7. Look /\ Scan("esc", <<>>, "real")
  BY <1>5, <1>6 DEF Backslash
<1> HIDE DEF Look
<1>8. Calm' /\ lex'.w = "real" /\ pc' = "esc" /\ par' = par /\ src' = src
  BY <1>3, <1>7, ScanOn
<1>9. Parsed(0, <<>>, k)'
  BY <1>5, <1>8, ParsedAfter
<1>10. Escaping(k)'
  BY <1>5, <1>6, <1>7, <1>8 DEF Escaping
<1>11. Reached(k)' /\ pc' \in Spelling
  BY <1>8, <1>9, <1>10 DEF Reached, Spelling
<1>12. in'.reads = in.reads
  BY <1>3, <1>7, <1>8
<1> QED BY <1>8, <1>11, <1>12, RoundAfter

\* The token of an escape is its character.
LEMMA OneCharacter ==
    ASSUME WordRead, Calm, NEW k \in 1..Len(src.word), Parsed(0, <<>>, k),
           NEW w, Token("QWORD", <<src.word[k]>>, w), w = "real",
           Ended(k + 1)', in'.reads = in.reads
    PROVE  RoundInv'
<1>1. PICK L : L = Letters
  OBVIOUS
<1>2. /\ L \subseteq Char /\ par.toks \in Seq(TokType(L)) /\ TokType(L) # {}
      /\ src.word \in Seq(Printing) /\ Len(src.word) \in Nat
  BY <1>1, SpellingIs
<1>3. Parsed(0, <<>> \o <<src.word[k]>>, k + 1)
  <2>1. <<>> \in Seq(Char)
    OBVIOUS
  <2> QED BY <1>2, <2>1, ParsedMore
<1>4. <<>> \o <<src.word[k]>> = <<src.word[k]>>
  <2>1. src.word[k] \in Char
    BY <1>2, PrintedChars
  <2>2. <<src.word[k]>> \in Seq(Char)
    BY <2>1
  <2> QED BY <2>2, Together
<1>5. /\ Calm' /\ lex'.w = w /\ pc' = "token" /\ par' = par /\ src' = src
      /\ tok'.kind = "QWORD" /\ tok'.s = <<src.word[k]>>
  BY HandOver
<1>6. Parsed(0, tok.s, k + 1)'
  BY <1>3, <1>4, <1>5 DEF Parsed, Before
<1>7. Reached(k + 1)' /\ pc' \in Spelling
  BY <1>5, <1>6 DEF Reached, Handed, Spelling
<1>8. k + 1 \in 1..Len(src.word) + 1
  BY <1>2
<1> QED BY <1>5, <1>7, <1>8, RoundAfter

LEMMA EscRound ==
    ASSUME WordRead, Esc
    PROVE  RoundInv'
<1>1. PICK L : L = Letters
  OBVIOUS
<1>2. pc = "esc" /\ Ready /\ pc \in Spelling
  BY DEF Esc, At, Spelling
<1>3. /\ Calm /\ (AtHand(in) /\ src' = src /\ (Get \/ Look) => in'.reads = in.reads)
      /\ AtHand(in) /\ StreamInv /\ src.word \in Seq(Printing) /\ Len(src.word) \in Nat
  BY <1>1, <1>2, Somewhere
<1>4. PICK k \in 1..Len(src.word) + 1 : Reached(k)
  BY <1>1, <1>2, Somewhere
<1>5. lex.w = "real" /\ Escaping(k) /\ Parsed(0, <<>>, k)
  BY <1>2, <1>4 DEF Reached
<1>6. k \in 1..Len(src.word) /\ k <= Len(src.word)
  BY <1>3, <1>5 DEF Escaping
<1>7. \/ src.word[k] = "\n" /\ c = "n" /\ (Get => stream' = Joined(src.word, k + 1))
      \/ src.word[k] = "bel" /\ c = "a" /\ (Get => stream' = Joined(src.word, k + 1))
      \/ src.word[k] = "\t" /\ c = "t" /\ (Get => stream' = Joined(src.word, k + 1))
      \/ src.word[k] = "soh" /\ c = "1" /\ (Get => stream' = Joined(src.word, k + 1))
  BY <1>3, <1>5, EscapedIs
<1>8. DOMAIN Letter = {"a", "n", "t"} /\ Letter["a"] = "bel" /\ Letter["n"] = "\n" /\ Letter["t"] = "\t"
  BY DEF Letter
<1> HIDE DEF c
<1>9. CASE c \in {"n", "a", "t"}
  <2>1. Get /\ Token("QWORD", <<Letter[c]>>, lex.w)
    BY <1>8, <1>9 DEF Esc, CtrlC, odigit, digit, alnum
  <2> HIDE DEF Get
  <2>2. Letter[c] = src.word[k] /\ stream' = Joined(src.word, k + 1)
    BY <1>7, <1>8, <1>9, <2>1
  <2>3. Token("QWORD", <<src.word[k]>>, lex.w)
    BY <2>1, <2>2
  <2>4. src' = src
    BY <2>1 DEF Token
  <2>5. Ended(k + 1)'
    BY <2>2, <2>4 DEF Ended
  <2>6. in'.reads = in.reads
    BY <1>3, <2>1, <2>4
  <2> QED BY <1>3, <1>5, <1>6, <2>3, <2>5, <2>6, OneCharacter
<1>10. CASE c = "1"
  <2>1. Get /\ Scan("coded", <<"0", c>>, lex.w)
    BY <1>8, <1>10 DEF Esc, CtrlC, odigit, digit, alnum
  <2> HIDE DEF Get
  <2>2. Calm' /\ lex'.acc = <<"0", "1">> /\ lex'.w = lex.w /\ pc' = "coded" /\ par' = par /\ src' = src
    BY <1>3, <1>10, <2>1, ScanOn
  <2>3. src.word[k] = "soh" /\ stream' = Joined(src.word, k + 1)
    BY <1>7, <1>10, <2>1
  <2>4. Parsed(0, <<>>, k)'
    BY <1>5, <2>2, ParsedAfter
  <2>5. Octal(k)'
    BY <1>5, <1>6, <2>2, <2>3, <2>4 DEF Octal
  <2>6. Reached(k)' /\ pc' \in Spelling
    BY <2>2, <2>5 DEF Reached, Spelling
  <2>7. in'.reads = in.reads
    BY <1>3, <2>1, <2>2
  <2> QED BY <2>2, <2>6, <2>7, RoundAfter
<1> QED BY <1>7, <1>9, <1>10

LEMMA CodingRound ==
    ASSUME WordRead, Coding
    PROVE  RoundInv'
<1>1. PICK L : L = Letters
  OBVIOUS
<1>2. pc = "coded" /\ Ready /\ pc \in Spelling
  BY DEF Coding, At, Spelling
<1>3. /\ Calm /\ (AtHand(in) /\ src' = src /\ (Get \/ Look) => in'.reads = in.reads)
      /\ AtHand(in) /\ StreamInv /\ src.word \in Seq(Printing) /\ Len(src.word) \in Nat
  BY <1>1, <1>2, Somewhere
<1>4. PICK k \in 1..Len(src.word) + 1 : Reached(k)
  BY <1>1, <1>2, Somewhere
<1>5. Octal(k)
  BY <1>2, <1>4 DEF Reached
<1>6. lex.w = "real" /\ Parsed(0, <<>>, k) /\ k \in 1..Len(src.word) /\ k + 1 \in 1..Len(src.word) + 1
      /\ k <= Len(src.word)
  BY <1>3, <1>5 DEF Octal
<1>7. src.word[k] = "soh" /\ lex.acc = <<"0", "1">> /\ stream = Joined(src.word, k + 1)
  BY <1>5 DEF Octal
<1>8. Ended(k + 1)
  BY <1>7 DEF Ended
<1>9. c \in {"^", "eof"} /\ (Look /\ src' = src => Ended(k + 1)')
  BY <1>3, <1>6, <1>8, EndedIs
<1> HIDE DEF c
<1>10. ~CodedMore /\ ~Zero(lex.acc) /\ Coded(lex.acc) = src.word[k]
  <2>1. ~CodedMore
    BY <1>7, <1>9 DEF CodedMore, Radix, odigit, digit
  <2>2. Tail(lex.acc) = <<"1">>
    BY <1>7
  <2>3. Range(<<"1">>) = {"1"}
    BY DEF Range
  <2>4. ~Zero(lex.acc)
    BY <2>2, <2>3 DEF Zero
  <2>5. Coded(lex.acc) = src.word[k]
    BY <1>7 DEF Coded
  <2> QED BY <2>1, <2>4, <2>5
<1>11. Look /\ Token("QWORD", <<Coded(lex.acc)>>, lex.w)
  <2> HIDE DEF CodedMore, Coded, Zero
  <2> QED BY <1>10 DEF Coding
<1>12. Token("QWORD", <<src.word[k]>>, lex.w)
  BY <1>10, <1>11
<1> HIDE DEF Look
<1>13. src' = src
  BY <1>11 DEF Token
<1>14. Ended(k + 1)'
  BY <1>9, <1>11, <1>13
<1>15. in'.reads = in.reads
  BY <1>3, <1>11, <1>13
<1> QED BY <1>3, <1>6, <1>12, <1>14, <1>15, OneCharacter

LEMMA LexerRound ==
    ASSUME WordRead, yylex
    PROVE  RoundInv'
<1>1. pc \in Spelling \cup {"parse", "finish", "term", "end", "abort"}
  BY DEF WordRead, RoundInv
<1>2. CASE WordChar \/ WordEnd \/ Comment \/ Backquote \/ Ampersand \/ Dollar \/ SkipLine
  <2>1. pc \in {"word", "comment", "backquote", "amp", "dollar", "scanerror"}
    BY <1>2 DEF WordChar, WordEnd, Comment, Backquote, Ampersand, Dollar, SkipLine, Two, At
  <2> QED BY <1>1, <2>1 DEF Spelling
<1>3. CASE Pipe \/ Less \/ Greater \/ getfds
  <2>1. pc \in {"pipe", "less", "lessgreat", "lessless", "greater", "greatgreat", "fds", "fd0", "fd0s", "fd1", "fd1s"}
    BY <1>3 DEF Pipe, Less, Greater, getfds, At
  <2> QED BY <1>1, <2>1 DEF Spelling
<1> QED BY <1>2, <1>3, YylexRound, TopRound, QuoteRound, QuoteQuoteRound, QuoteSlashRound,
           BackslashRound, EscRound, CodingRound DEF yylex

\* No NUL is read.
LEMMA NoNul ==
    ASSUME WordRead, pc \in Spelling \cap Reading, AtHand(in)
    PROVE  c # "nul"
<1>1. PICK L : L = Letters
  OBVIOUS
<1>2. StreamInv /\ src.word \in Seq(Printing) /\ Len(src.word) \in Nat
  BY <1>1, Somewhere
<1>3. PICK k \in 1..Len(src.word) + 1 : Reached(k)
  BY <1>1, Somewhere
<1>4. pc \in {"top", "quote", "quote2", "slash2", "slash", "esc", "coded"}
  BY DEF Spelling, Reading
<1>5. ASSUME NEW j \in 1..Len(src.word) + 1, stream = InQuotes(src.word, j) PROVE c # "nul"
  <2>1. c = "'" \/ (j \in 1..Len(src.word) /\ c = src.word[j])
    BY <1>2, <1>5, QuotedIs
  <2>2. j \in 1..Len(src.word) => src.word[j] \in Printing
    BY <1>2
  <2> HIDE DEF c
  <2> QED BY <2>1, <2>2 DEF Printing
<1>6. ASSUME NEW j \in 1..Len(src.word) + 1, Ended(j) PROVE c # "nul"
  <2>1. c \in {"^", "eof"}
    BY <1>2, <1>6, EndedIs
  <2> HIDE DEF c
  <2> QED BY <2>1
<1>7. ASSUME NEW j \in 1..Len(src.word) + 1, stream = Starting(src.word, j) PROVE c # "nul"
  <2>1. c \in {"\\", "'"}
    BY <1>2, <1>7, StartingIs
  <2> HIDE DEF c
  <2> QED BY <2>1
<1>8. ASSUME Escaping(k) PROVE c # "nul"
  <2>1. c \in {"n", "a", "t", "1"}
    BY <1>2, <1>8, EscapedIs
  <2> HIDE DEF c
  <2> QED BY <2>1
<1>9. ASSUME NEW x \in {"1", "'"}, NEW r \in Seq(Char), stream = <<x>> \o r PROVE c # "nul"
  <2>1. c = x
    BY <1>2, <1>9, HeadIs, PrintedChars
  <2> HIDE DEF c
  <2> QED BY <2>1
<1>10. k <= Len(src.word) => /\ k + 1 \in 1..Len(src.word) + 1
                             /\ InQuotes(src.word, k + 1) \in Seq(Char) /\ Joined(src.word, k + 1) \in Seq(Char)
  <2>1. k <= Len(src.word) => k + 1 \in 1..Len(src.word) + 1
    BY <1>2
  <2> QED BY <1>2, <2>1, Printed
<1> HIDE DEF c
<1>11. CASE pc = "top"
  BY <1>3, <1>6, <1>7, <1>11 DEF Reached, Beginning, Going
<1>12. CASE pc = "quote"
  BY <1>3, <1>5, <1>12 DEF Reached, Quoting
<1>13. CASE pc = "quote2"
  <2>1. Doubling(k)
    BY <1>3, <1>13 DEF Reached
  <2> QED BY <1>6, <1>9, <1>10, <2>1 DEF Doubling, Ended
<1>14. CASE pc = "slash2"
  BY <1>3, <1>5, <1>10, <1>14 DEF Reached, Slashing
<1>15. CASE pc \in {"slash", "esc"}
  BY <1>3, <1>8, <1>15 DEF Reached
<1>16. CASE pc = "coded"
  <2>1. Octal(k)
    BY <1>3, <1>16 DEF Reached
  <2>2. k <= Len(src.word) /\ (stream = Joined(src.word, k + 1) => Ended(k + 1))
    BY <2>1 DEF Octal, Ended
  <2> QED BY <1>6, <1>9, <1>10, <2>1, <2>2 DEF Octal
<1> QED BY <1>4, <1>11, <1>12, <1>13, <1>14, <1>15, <1>16

\* The source is a string: nothing is read from a file.
LEMMA ReadRound ==
    ASSUME WordRead, read
    PROVE  RoundInv'
<1>1. in.reads = <<>> /\ pc \in Spelling \cup {"parse", "finish", "term", "end", "abort"}
  BY DEF WordRead, RoundInv
<1>2. CASE SkipNul
  <2>1. pc \in Reading /\ c = "nul" /\ Get /\ UNCHANGED <<lex, pc, tok, par, src>>
    BY <1>2 DEF SkipNul
  <2>2. AtHand(in)
    <3>1. peek(in) = "nul"
      BY <2>1 DEF c
    <3> QED BY <3>1 DEF AtHand, peek
  <2>3. pc = "term"
    <3>1. pc \notin Spelling
      BY <2>1, <2>2, NoNul
    <3> QED BY <1>1, <2>1, <3>1 DEF Reading
  <2>4. in'.reads = in.reads
    <3>1. StreamInv
      BY DEF WordRead, ReaderInv
    <3> QED BY <2>1, <2>2, <3>1, GetStep DEF Kept
  <2>5. Whole
    BY <2>3 DEF WordRead, RoundInv
  <2>6. Whole'
    BY <2>1, <2>5 DEF Whole
  <2> HIDE DEF Get, Whole
  <2> QED BY <1>1, <2>1, <2>3, <2>4, <2>6 DEF RoundInv, Spelling
<1>3. CASE FillEof
  <2>1. in' = [in EXCEPT !.fill = "eoffill"] /\ UNCHANGED <<lex, pc, tok, par, src, stream>>
    BY <1>3 DEF FillEof
  <2>2. in'.reads = in.reads
    <3>1. Shaped(in)
      BY DEF WordRead, ReaderInv, StreamInv
    <3> QED BY <2>1, <3>1 DEF Shaped, InputType
  <2>3. Calm' = Calm /\ Whole' = Whole
    BY <2>1 DEF Calm, Whole
  <2>4. \A k : Reached(k)' = Reached(k)
    BY <2>1 DEF Reached, Beginning, Going, Quoting, Doubling, Slashing, Escaping, Octal, Handed, Ended, Parsed, Before
  <2> HIDE DEF Calm, Whole, Reached
  <2> QED BY <2>1, <2>2, <2>3, <2>4 DEF WordRead, RoundInv
<1>4. CASE Fill \/ FillSignal \/ FillNoop \/ FillError
  BY <1>1, <1>4 DEF Fill, FillSignal, FillNoop, FillError, NextRead
<1> QED BY <1>2, <1>3, <1>4 DEF read

\* What a step of the parser leaves.
LEMMA StepIs ==
    ASSUME NEW p, NEW q, Step(p, q)
    PROVE  /\ pc' = p /\ par' = q /\ in' = in /\ lex' = lex /\ tok' = tok /\ src' = src /\ stream' = stream
BY DEF Step

LEMMA ParseRound ==
    ASSUME WordRead, Parse
    PROVE  RoundInv'
<1>1. PICK L : L = Letters
  OBVIOUS
<1>2. /\ in.reads = <<>> /\ pc = "parse" /\ Calm /\ stream = Starting(src.word, 1)
  BY DEF WordRead, RoundInv, Parse
<1>3. lex \in LexType(L) /\ par \in ParType(L) /\ src.word \in Seq(Printing) /\ Len(src.word) \in Nat
  BY <1>1, SpellingIs
<1>4. /\ lex' = [lex EXCEPT !.newline = FALSE, !.w = "non", !.dollar = FALSE]
      /\ in' = in /\ tok' = tok /\ src' = src /\ stream' = stream
  BY DEF Parse
<1>5. lex'.goterror = lex.goterror /\ ~lex'.dollar /\ lex'.w = "non"
  BY <1>3, <1>4 DEF LexType
<1>6. CASE pc' = "abort"
  BY <1>2, <1>4, <1>6 DEF RoundInv, Spelling
<1>7. CASE pc' = "end" /\ par' = [par EXCEPT !.queue = <<>>]
  <2>1. ~par'.ok
    BY <1>2, <1>3, <1>7 DEF Calm, ParType
  <2> QED BY <1>2, <1>4, <1>7, <2>1 DEF RoundInv, Spelling
<1>8. CASE /\ pc' = "lex"
           /\ par' = [par EXCEPT !.queue = <<>>, !.prompt2 = FALSE, !.gcblocked = @ + 1,
                                 !.nest = <<Opened("top")>>, !.want = "none", !.marker = <<>>,
                                 !.last = "word", !.skip = FALSE, !.bad = FALSE,
                                 !.toks = <<>>, !.docs = <<>>]
  <2> DEFINE nest == <<Opened("top")>>
  <2>0. nest \in {<<f>> : f \in Plain}
    BY DEF Plain, Opened
  <2> HIDE DEF nest
  <2>1. /\ par'.queue = <<>> /\ par'.nest = nest /\ par'.marker = <<>> /\ par'.last = "word"
        /\ par'.want = "none" /\ par'.toks = <<>> /\ par'.ok = par.ok
    BY <1>3, <1>8 DEF ParType, nest
  <2>2. Calm'
    BY <1>2, <1>5, <2>0, <2>1 DEF Calm
  <2>3. Parsed(0, <<>>, 1)'
    <3>1. Before(1) = <<>> /\ Before(1)' = Before(1)
      BY <1>3, <1>4, BeforeIs DEF Before
    <3>2. Len(<<>>) % 2 = 0 /\ <<>> \o <<>> = <<>>
      OBVIOUS
    <3> HIDE DEF Before
    <3> QED BY <2>1, <3>1, <3>2, SaidNone DEF Parsed
  <2>4. Beginning(1)'
    BY <1>2, <1>4, <1>5, <2>3 DEF Beginning
  <2>5. Reached(1)' /\ pc' \in Spelling
    BY <1>8, <2>4 DEF Reached, Spelling
  <2>6. 1 \in 1..Len(src.word) + 1
    BY <1>3
  <2> QED BY <1>4, <2>2, <2>5, <2>6, RoundAfter
<1> QED BY <1>6, <1>7, <1>8 DEF Parse

\* A word, or the '^' that joins two, is taken.
LEMMA ShiftRound ==
    ASSUME WordRead, Shift
    PROVE  RoundInv'
<1>1. PICK L : L = Letters
  OBVIOUS
<1>2. pc = "token" /\ ~par.skip /\ tok.kind # "ENDFILE" /\ pc \in Spelling
  BY DEF Shift, Target, Word, word, Open, Close, Redirection, Separator, Spelling
<1>3. Calm
  BY <1>1, <1>2, Somewhere
<1>4. PICK k \in 1..Len(src.word) + 1 : Reached(k)
  BY <1>1, <1>2, Somewhere
<1>5. /\ par \in ParType(L) /\ par.toks \in Seq(TokType(L)) /\ tok \in TokType(L) /\ L \subseteq Char
      /\ Said(par.toks) \in Seq(Char) /\ tok.s \in Seq(Char)
  BY <1>1, SpellingIs
<1>6. Handed(k)
  BY <1>2, <1>4 DEF Reached
<1>7. tok.kind \in {"QWORD", "^"}
  BY <1>2, <1>6 DEF Handed
<1>8. frame \in Plain /\ frame.open = "top" /\ par.want = "none" /\ par.last \in {"word", "caret"} /\ \A f : Innermost(f) = <<f>>
  <2>1. par.want = "none" /\ par.last \in {"word", "caret"}
    BY <1>3 DEF Calm
  <2> QED BY <1>3, <2>1, CalmIs
<1> HIDE DEF frame, Innermost, Calm
<1>9. PICK f \in Plain, last \in {"word", "caret"} : Step("lex", Shifted(<<f>>, last, <<>>))
  <2>1. ~Target
    BY <1>8 DEF Target
  <2>2. ~(Open \/ Close \/ Redirection \/ Separator)
    BY <1>7 DEF Open, Close, Redirection, Separator
  <2>3. Word
    BY <2>1, <2>2 DEF Shift
  <2>4. tok.kind # "!" /\ tok.kind # "LOCAL" /\ tok.kind # "=" /\ par.last \notin {"not", "is"}
    BY <1>7, <1>8
  <2> DEFINE last == IF tok.kind = "^" THEN "caret" ELSE "word"
             g == [frame EXCEPT !.begun = TRUE]
  <2>5. Becomes(g, last)
    BY <2>3, <2>4 DEF Word
  <2>6. g \in Plain
    BY <1>8 DEF Plain
  <2>7. last \in {"word", "caret"}
    OBVIOUS
  <2> HIDE DEF g, last
  <2>8. Step("lex", Shifted(<<g>>, last, <<>>))
    BY <1>8, <2>5 DEF Becomes
  <2> QED BY <2>6, <2>7, <2>8
<1> DEFINE nest == <<f>>
           toks == Append(par.toks, tok)
<1>10. /\ pc' = "lex" /\ in' = in /\ lex' = lex /\ tok' = tok /\ src' = src /\ stream' = stream
       /\ par'.toks = toks /\ par'.skip = par.skip /\ par'.ok = par.ok
       /\ par'.nest = nest /\ par'.marker = <<>> /\ par'.last = last /\ par'.queue = <<>> /\ par'.want = "none"
  <2>1. /\ pc' = "lex" /\ in' = in /\ lex' = lex /\ tok' = tok /\ src' = src /\ stream' = stream
        /\ par' = Shifted(nest, last, <<>>)
    BY <1>9 DEF Step
  <2>2. Reverse(<<>>) \o par.queue = <<>>
    <3>1. par.queue = <<>> /\ <<>> \o <<>> = <<>>
      BY <1>3 DEF Calm
    <3> QED BY <3>1, ReverseNone
  <2> HIDE DEF nest, toks
  <2>3. Shifted(nest, last, <<>>) = [par EXCEPT !.toks = toks, !.nest = nest, !.last = last,
                                       !.want = "none", !.marker = <<>>, !.queue = <<>>]
    BY <2>2 DEF Shifted, toks
  <2> QED BY <1>5, <2>1, <2>3 DEF ParType
<1>11. Calm'
  <2>1. nest \in {<<g>> : g \in Plain}
    OBVIOUS
  <2> HIDE DEF nest
  <2> QED BY <1>3, <1>10, <2>1 DEF Calm
<1> HIDE DEF Calm
<1> DEFINE a == Said(par.toks)
           b == Said(Append(par.toks, tok))
<1>12. /\ b = a \o tok.s
       /\ Alternate(par.toks) /\ tok.kind = (IF Len(par.toks) % 2 = 0 THEN "QWORD" ELSE "^") =>
             Alternate(Append(par.toks, tok))
       /\ Len(par.toks) % 2 = 0 => Len(Append(par.toks, tok)) % 2 = 1
       /\ Len(par.toks) % 2 = 1 => Len(Append(par.toks, tok)) % 2 = 0
  BY <1>5, SaidIs
<1> HIDE DEF a, b
<1>13. b \in Seq(Char) /\ b \o <<>> = b
  <2>1. a \in Seq(Char) /\ a \o tok.s \in Seq(Char)
    BY <1>5, ConcatProperties DEF a
  <2> QED BY <1>12, <2>1, Together
<1>14. CASE tok.kind = "QWORD"
  <2>1. lex.w = "real" /\ Ended(k) /\ Parsed(0, tok.s, k)
    BY <1>6, <1>14 DEF Handed
  <2>2. Alternate(par.toks) /\ Len(par.toks) % 2 = 0 /\ a \o tok.s = Before(k)
    BY <1>2, <2>1 DEF Parsed, a
  <2>3. /\ Alternate(Append(par.toks, tok)) /\ Len(Append(par.toks, tok)) % 2 = 1 /\ b \o <<>> = Before(k)
    BY <1>12, <1>13, <1>14, <2>2
  <2>4. Parsed(1, <<>>, k)'
    BY <1>10, <2>3 DEF Parsed, Before, b
  <2>5. Going(k)'
    BY <1>10, <2>1, <2>4 DEF Going, Ended
  <2>6. Reached(k)' /\ pc' \in Spelling
    BY <1>10, <2>5 DEF Reached, Spelling
  <2> QED BY <1>10, <1>11, <2>6, RoundAfter
<1>15. CASE tok.kind = "^"
  <2>1. tok.s = <<>> /\ lex.w = "non" /\ stream = Starting(src.word, k) /\ Parsed(1, <<>>, k)
    BY <1>6, <1>15 DEF Handed
  <2>2. Alternate(par.toks) /\ Len(par.toks) % 2 = 1 /\ a \o tok.s = Before(k)
    BY <1>2, <2>1 DEF Parsed, a
  <2>3. Alternate(Append(par.toks, tok)) /\ Len(Append(par.toks, tok)) % 2 = 0 /\ b \o <<>> = Before(k)
    <3> DEFINE parity == Len(par.toks) % 2
    <3>0. parity = 1
      BY <2>2
    <3> HIDE DEF parity
    <3>1. parity # 0
      BY <3>0
    <3>2. tok.kind = IF parity = 0 THEN "QWORD" ELSE "^"
      BY <1>15, <3>1
    <3>3. Alternate(Append(par.toks, tok)) /\ Len(Append(par.toks, tok)) % 2 = 0
      BY <1>12, <2>2, <3>2 DEF parity
    <3>4. b \o <<>> = Before(k)
      BY <1>12, <1>13, <2>2
    <3> QED BY <3>3, <3>4
  <2>4. Parsed(0, <<>>, k)'
    BY <1>10, <2>3 DEF Parsed, Before, b
  <2>5. Beginning(k)'
    BY <1>10, <2>1, <2>4 DEF Beginning
  <2>6. Reached(k)' /\ pc' \in Spelling
    BY <1>10, <2>5 DEF Reached, Spelling
  <2> QED BY <1>10, <1>11, <2>6, RoundAfter
<1> QED BY <1>7, <1>14, <1>15

\* The grammar refuses a token: what is read of the word is read all the same.
LEMMA RefuseRound ==
    ASSUME WordRead, Refuse
    PROVE  RoundInv'
<1>1. PICK L : L = Letters
  OBVIOUS
<1>2. pc = "token" /\ pc \in Spelling
  BY DEF Refuse, Spelling
<1>3. Calm
  BY <1>1, <1>2, Somewhere
<1>4. PICK k \in 1..Len(src.word) + 1 : Reached(k)
  BY <1>1, <1>2, Somewhere
<1>5. par \in ParType(L)
  BY <1>1, SpellingIs
<1>6. Handed(k)
  BY <1>2, <1>4 DEF Reached
<1>7. Pending = <<>> /\ par.queue = <<>>
  <2>1. par.queue = <<>>
    BY <1>3 DEF Calm
  <2> QED BY <1>3, <2>1, CalmIs
<1> HIDE DEF Pending, Calm
<1> DEFINE nest == <<Opened("top")>>
<1>8. nest \in {<<f>> : f \in Plain}
  BY DEF Plain, Opened
<1> HIDE DEF nest
<1>9. /\ pc' = "token" /\ in' = in /\ lex' = lex /\ tok' = tok /\ src' = src /\ stream' = stream
      /\ par' = [par EXCEPT !.error = TRUE, !.skip = TRUE, !.nest = nest, !.want = "none",
                            !.marker = <<>>, !.last = "word", !.queue = <<>>]
  <2>1. PICK i \in 0..(IF Complete /\ Literal(Pending) THEN Len(Pending) ELSE 0) :
          Step("token", [par EXCEPT !.error = TRUE, !.skip = TRUE, !.nest = nest,
                                    !.want = "none", !.marker = <<>>, !.last = "word",
                                    !.queue = Reverse(SubSeq(Pending, 1, i)) \o @])
    BY DEF Refuse, nest
  <2>2. i = 0
    <3>1. Len(Pending) = 0
      BY <1>7
    <3> QED BY <2>1, <3>1
  <2>3. SubSeq(Pending, 1, i) = <<>>
    BY <2>2, SubSeqEmpty
  <2>4. Reverse(SubSeq(Pending, 1, i)) \o par.queue = <<>>
    <3>1. <<>> \o <<>> = <<>>
      OBVIOUS
    <3> QED BY <1>7, <2>3, <3>1, ReverseNone
  <2> QED BY <2>1, <2>4 DEF Step
<1>10. /\ par'.skip /\ par'.nest = nest /\ par'.marker = <<>> /\ par'.last = "word"
       /\ par'.want = "none" /\ par'.queue = <<>> /\ par'.ok = par.ok
  BY <1>5, <1>9 DEF ParType
<1>11. Calm'
  BY <1>3, <1>8, <1>9, <1>10 DEF Calm
<1>12. Handed(k)'
  BY <1>6, <1>9, <1>10 DEF Handed, Parsed, Ended
<1>13. Reached(k)' /\ pc' \in Spelling
  BY <1>9, <1>12 DEF Reached, Spelling
<1> QED BY <1>9, <1>11, <1>13, RoundAfter

LEMMA DiscardRound ==
    ASSUME WordRead, Discard
    PROVE  RoundInv'
<1>1. PICK L : L = Letters
  OBVIOUS
<1>2. pc = "token" /\ par.skip /\ tok.kind # "ENDFILE" /\ pc \in Spelling
  BY DEF Discard, Spelling
<1>3. Calm
  BY <1>1, <1>2, Somewhere
<1>4. PICK k \in 1..Len(src.word) + 1 : Reached(k)
  BY <1>1, <1>2, Somewhere
<1>5. Handed(k)
  BY <1>2, <1>4 DEF Reached
<1>6. /\ pc' = "lex" /\ in' = in /\ lex' = lex /\ tok' = tok /\ src' = src /\ stream' = stream /\ par' = par
  BY DEF Discard, Step
<1>7. Calm'
  BY <1>3, <1>6 DEF Calm
<1>8. \A p : Parsed(p, <<>>, k)'
  BY <1>2, <1>6 DEF Parsed
<1>9. (Beginning(k) \/ Going(k))'
  BY <1>2, <1>5, <1>6, <1>8 DEF Handed, Beginning, Going, Ended
<1>10. Reached(k)' /\ pc' \in Spelling
  BY <1>6, <1>9 DEF Reached, Spelling
<1> QED BY <1>6, <1>7, <1>10, RoundAfter

\* The end of the source ends the command: what was parsed is the word.
LEMMA EndLineRound ==
    ASSUME WordRead, EndLine
    PROVE  RoundInv'
<1>1. PICK L : L = Letters
  OBVIOUS
<1>2. pc = "token" /\ tok.kind \in {"NL", "ENDFILE"} /\ pc \in Spelling
  BY DEF EndLine, Spelling
<1>3. Calm /\ in.reads = <<>>
  BY <1>1, <1>2, Somewhere DEF WordRead, RoundInv
<1>4. PICK k \in 1..Len(src.word) + 1 : Reached(k)
  BY <1>1, <1>2, Somewhere
<1>5. par \in ParType(L) /\ src.word \in Seq(Printing) /\ Said(par.toks) \in Seq(Char) /\ Len(src.word) \in Nat
  BY <1>1, SpellingIs
<1>6. tok.kind = "ENDFILE" /\ k = Len(src.word) + 1 /\ Parsed(1, <<>>, k)
  BY <1>2, <1>4 DEF Reached, Handed
<1>7. Pending = <<>> /\ par.queue = <<>> /\ frame.open = "top" /\ \A f : Innermost(f) = <<f>>
  <2>1. par.queue = <<>>
    BY <1>3 DEF Calm
  <2> QED BY <1>3, <2>1, CalmIs
<1> HIDE DEF Pending, frame, Innermost, Calm
<1> DEFINE nest == <<Opened("top")>>
           q == [par EXCEPT !.queue = <<>>, !.nest = nest, !.last = "word",
                            !.want = "none", !.marker = <<>>, !.bad = par.skip]
<1>8. nest \in {<<f>> : f \in Plain} /\ Len(nest) = 1
  BY DEF Plain, Opened
<1>9. Step(After(q), q)
  <2>1. Reverse(Pending) \o par.queue = <<>>
    <3>1. <<>> \o <<>> = <<>>
      OBVIOUS
    <3> QED BY <1>7, <3>1, ReverseNone
  <2>2. Innermost(Opened(frame.open)) = nest
    BY <1>7
  <2> HIDE DEF nest, After
  <2> QED BY <2>1, <2>2 DEF EndLine
<1> HIDE DEF nest
<1>10. /\ q.nest = nest /\ q.marker = <<>> /\ q.last = "word" /\ q.queue = <<>> /\ q.want = "none"
       /\ q.ok = par.ok /\ q.bad = par.skip /\ q.toks = par.toks
  BY <1>5 DEF ParType
<1> HIDE DEF q
<1>11. pc' = "finish" /\ par' = q /\ in' = in /\ lex' = lex /\ tok' = tok /\ src' = src /\ stream' = stream
  BY <1>8, <1>9, <1>10, StepIs DEF After
<1>14. Calm'
  BY <1>3, <1>8, <1>10, <1>11 DEF Calm
<1>12. par.skip \/ Whole
  <2>1. Before(k) = src.word
    BY <1>5, <1>6, BeforeIs
  <2>2. Said(par.toks) \o <<>> = Said(par.toks)
    BY <1>5, Together
  <2> QED BY <1>6, <2>1, <2>2 DEF Parsed, Whole
<1>13. par'.bad \/ Whole'
  BY <1>10, <1>11, <1>12 DEF Whole
<1> HIDE DEF Whole
<1> QED BY <1>3, <1>11, <1>13, <1>14 DEF RoundInv, Spelling

LEMMA FinishRound ==
    ASSUME WordRead, Finish
    PROVE  RoundInv'
<1>1. PICK L : L = Letters
  OBVIOUS
<1>2. pc = "finish" /\ in.reads = <<>> /\ Calm /\ (par.bad \/ Whole)
  BY DEF WordRead, RoundInv, Finish
<1>3. par \in ParType(L) /\ src.one /\ ~src.tty
  BY <1>1, SpellingIs
<1> DEFINE q == [par EXCEPT !.gcblocked = @ - 1]
           bad == [q EXCEPT !.error = FALSE]
           good == [q EXCEPT !.ok = TRUE]
<1>4. \/ Step("abort", bad) \/ Step("end", bad)
      \/ ~par.bad /\ Step("term", good)
  BY <1>3 DEF Finish
<1>5. bad.ok = par.ok /\ good.toks = par.toks
  BY <1>3 DEF ParType
<1> HIDE DEF bad, good
<1>6. CASE Step("abort", bad) \/ Step("end", bad)
  <2>1. pc' \in {"abort", "end"} /\ par' = bad /\ in' = in /\ src' = src
    BY <1>6, StepIs
  <2>2. ~par'.ok
    BY <1>2, <1>5, <2>1 DEF Calm
  <2> QED BY <1>2, <2>1, <2>2 DEF RoundInv, Spelling
<1>7. CASE ~par.bad /\ Step("term", good)
  <2>1. pc' = "term" /\ par' = good /\ in' = in /\ src' = src
    BY <1>7, StepIs
  <2>2. Whole'
    BY <1>2, <1>5, <1>7, <2>1 DEF Whole
  <2> HIDE DEF Whole
  <2> QED BY <1>2, <2>1, <2>2 DEF RoundInv, Spelling
<1> QED BY <1>4, <1>6, <1>7

LEMMA TermRound ==
    ASSUME WordRead, Term
    PROVE  RoundInv'
<1>1. pc = "term" /\ Ready /\ Get /\ pc' = "end" /\ UNCHANGED <<lex, tok, src>>
      /\ par' = [par EXCEPT !.ok = c = "eof"]
  BY DEF Term, At
<1>2. in.reads = <<>> /\ Whole
  BY <1>1 DEF WordRead, RoundInv
<1>3. in'.reads = in.reads
  <2>1. StreamInv /\ AtHand(in)
    BY <1>1, ReadyIs DEF WordRead, ReaderInv, StreamInv
  <2> QED BY <1>1, <2>1, GetStep DEF Kept
<1>4. PICK L : L = Letters
  OBVIOUS
<1>5. par \in ParType(L)
  BY <1>4, SpellingIs
<1>6. par'.toks = par.toks
  BY <1>1, <1>5 DEF ParType
<1>7. Whole'
  BY <1>1, <1>2, <1>6 DEF Whole
<1> HIDE DEF Whole, Get
<1> QED BY <1>1, <1>2, <1>3, <1>7 DEF RoundInv, Spelling

LEMMA StepRound ==
    ASSUME WordRead, [Next]_vars
    PROVE  RoundInv'
<1>1. pc \in Spelling \cup {"parse", "finish", "term", "end", "abort"}
  BY DEF WordRead, RoundInv
<1>2. CASE BadMarker
  <2>1. pc \in Spelling /\ ~Literal(Pending)
    BY <1>2 DEF BadMarker, Spelling
  <2>2. Calm
    BY <2>1 DEF WordRead, RoundInv
  <2> QED BY <2>1, <2>2, CalmIs
<1>6. CASE SkipNL
  <2>1. pc = "token" /\ pc \in Spelling /\ tok.kind = "NL"
    BY <1>6 DEF SkipNL, Spelling
  <2>2. PICK k \in 1..Len(src.word) + 1 : Reached(k)
    <3> HIDE DEF Reached
    <3> QED BY <2>1 DEF WordRead, RoundInv
  <2> QED BY <2>1, <2>2 DEF Reached, Handed
<1>3. CASE Thrown
  BY <1>1, <1>3 DEF Thrown, Spelling
<1>4. CASE readheredocs
  <2>1. pc \in {"here", "mark", "copy", "heredollar", "herevar"}
    BY <1>4 DEF readheredocs, Snarf, Mark, Copy, HereDollar, HereVar, At
  <2> QED BY <1>1, <2>1 DEF Spelling
<1>5. CASE UNCHANGED vars
  <2>1. UNCHANGED <<in, lex, pc, tok, par, src, stream>>
    BY <1>5 DEF vars
  <2>2. Calm' = Calm /\ Whole' = Whole
    BY <2>1 DEF Calm, Whole
  <2>3. \A k : Reached(k)' = Reached(k)
    BY <2>1 DEF Reached, Beginning, Going, Quoting, Doubling, Slashing, Escaping, Octal, Handed, Ended, Parsed, Before
  <2> HIDE DEF Calm, Whole, Reached
  <2> QED BY <2>1, <2>2, <2>3 DEF WordRead, RoundInv
<1> QED BY <1>2, <1>3, <1>4, <1>5, <1>6, ReadRound, LexerRound, ParseRound, ShiftRound, RefuseRound,
           DiscardRound, EndLineRound, FinishRound, TermRound DEF Next, yyparse

LEMMA SourceStays == ASSUME [Next]_vars PROVE src' = src
<1>1. CASE read
  BY <1>1 DEF read, SkipNul, Fill, FillEof, FillSignal, FillNoop, FillError, NextRead
<1>2. CASE Yylex \/ Blank \/ TopEof \/ TopCtrlC \/ TopCaret \/ TopWord \/ WordChar \/ WordEnd
           \/ TopNewline \/ Comment \/ Backquote \/ Ampersand \/ Dollar
  BY <1>2 DEF Yylex, Blank, TopEof, TopCtrlC, TopCaret, TopWord, WordChar, WordEnd, TopNewline, Comment,
     Backquote, Ampersand, Dollar, CtrlC, Scanerror, Scan, Goto, ShellStays, Return, Token, Two, LineEnd
<1>3. CASE TopSpecial \/ Quote \/ QuoteQuote \/ QuoteSlash \/ Backslash \/ Esc \/ Coding \/ SkipLine
  BY <1>3 DEF TopSpecial, Quote, QuoteQuote, QuoteSlash, Backslash, Esc, Coding, SkipLine,
     CtrlC, Scanerror, Scan, Goto, ShellStays, Return, Token
<1>4. CASE Pipe \/ Less \/ Greater \/ getfds
  BY <1>4 DEF Pipe, Less, Greater, getfds, Redirect, Redirected, Scanerror, Scan, Goto, ShellStays, Return, Token
<1>5. CASE yyparse
  BY <1>5 DEF yyparse, Parse, Shift, Target, Word, Becomes, Open, Close, Redirection, Separator, SkipNL,
     BadMarker, Refuse, Discard, EndLine, Finish, Term, Thrown, Step
<1>6. CASE readheredocs
  BY <1>6 DEF readheredocs, Snarf, Incomplete, Mark, Copy, HereDollar, HereVar, HereFails, Copied,
     Goto, ShellStays, Step
<1>7. CASE UNCHANGED vars
  BY <1>7 DEF vars
<1> QED BY <1>1, <1>2, <1>3, <1>4, <1>5, <1>6, <1>7 DEF Next, yylex

LEMMA InitRound ==
    ASSUME PrintedAssumption, SourcesAssumption, Init
    PROVE  RoundInv
<1> SUFFICES ASSUME src.printed PROVE RoundInv
  BY DEF RoundInv
<1>1. /\ src \in Sources /\ pc = "parse" /\ stream = Text /\ in.reads = (IF src.str THEN <<>> ELSE src.reads)
      /\ ~lex.goterror /\ ~lex.dollar
      /\ par.nest = <<Opened("top")>> /\ par.marker = <<>> /\ par.last = "word"
      /\ par.want = "none" /\ par.queue = <<>> /\ ~par.ok
  BY DEF Init
<1> DEFINE s == Sconv(src.word)
           r == [fails |-> "no", chars |-> s]
           reads == src.reads
<1>2. src.word \in Seq(Printing) /\ reads = <<r>> /\ src.str /\ reads \in Reads
  BY <1>1 DEF PrintedAssumption, SourcesAssumption, Printing
<1>3. s = Starting(src.word, 1) /\ s \in Seq(Char)
  <2>1. 1 \in 1..Len(src.word) + 1
    BY <1>2
  <2> QED BY <1>2, <2>1, Printed
<1> HIDE DEF s, reads
<1>4. Given(r) = s
  BY DEF Given
<1> HIDE DEF r
<1>5. Chars(reads) = s
  <2>1. reads # <<>> /\ Head(reads) = r /\ Tail(reads) = <<>>
    BY <1>2
  <2>2. Chars(reads) = Given(r) \o Chars(<<>>) /\ Chars(<<>>) = <<>>
    <3>1. <<>> \in Reads
      BY DEF Reads
    <3>2. Chars(<<>>) = <<>>
      BY <3>1, CharsIs
    <3>3. Chars(reads) = Given(Head(reads)) \o Chars(Tail(reads))
      BY <1>2, <2>1, CharsIs
    <3> QED BY <2>1, <3>2, <3>3
  <2> QED BY <1>3, <1>4, <2>2, Together
<1>6. stream = Starting(src.word, 1)
  BY <1>1, <1>3, <1>5 DEF Text, reads
<1>7. Calm
  <2>1. Opened("top") \in Plain
    BY DEF Plain, Opened
  <2>2. par.nest \in {<<f>> : f \in Plain}
    BY <1>1, <2>1
  <2> QED BY <1>1, <2>2 DEF Calm
<1> QED BY <1>1, <1>2, <1>6, <1>7 DEF RoundInv, Spelling

\* What the invariant says of a printed word.
LEMMA RoundSays ==
    ASSUME RoundInv
    PROVE  RoundTrip
<1> SUFFICES ASSUME src.printed PROVE RoundTrip
  BY DEF RoundTrip
<1>1. pc = "token" => tok.kind # "ERROR"
  <2> SUFFICES ASSUME pc = "token" PROVE tok.kind # "ERROR"
    OBVIOUS
  <2>1. PICK k \in 1..Len(src.word) + 1 : Reached(k)
    <3> HIDE DEF Reached
    <3> QED BY DEF RoundInv, Spelling
  <2> QED BY <2>1 DEF Reached, Handed
<1>2. pc = "end" /\ par.ok => Whole
  BY DEF RoundInv
<1> QED BY <1>1, <1>2 DEF RoundTrip, Whole, Said, Alternate

\* Whatever the word, printing and reading it back gives the word: each
\* character inside quotes or escaped, and none taken for anything else
\* (conv.c: Sconv; token.c: yylex, and parse.y, which may refuse any token).
THEOREM ReaderRoundTrip ==
    ASSUME PrintedAssumption
    PROVE  Spec => []RoundTrip
<1>1. Init => ReaderInv /\ RoundInv
  BY InitInv, InitRound, SourcesAre
<1>2. ReaderInv /\ RoundInv /\ [Next]_vars => (ReaderInv /\ RoundInv)'
  <2> SUFFICES ASSUME ReaderInv, RoundInv, [Next]_vars PROVE ReaderInv' /\ RoundInv'
    OBVIOUS
  <2>1. ReaderInv'
    BY StepInv, SourcesAre
  <2>2. CASE src.printed
    BY <2>1, <2>2, StepRound DEF WordRead
  <2>3. CASE ~src.printed
    BY <2>1, <2>3, SourceStays DEF RoundInv
  <2> QED BY <2>2, <2>3
<1>3. ReaderInv /\ RoundInv => RoundTrip
  BY RoundSays
<1> QED BY <1>1, <1>2, <1>3, PTL DEF Spec
=============================================================================
