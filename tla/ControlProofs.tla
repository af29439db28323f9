---------------------------- MODULE ControlProofs ---------------------------
(***************************************************************************)
(* Theorems about the control stacks, in every world: whatever variables   *)
(* have settors, whether settors throw, however many signals come and      *)
(* however few evaluations nest.                                           *)
(*                                                                         *)
(* The invariant says which frames have their handler on the stack. Live   *)
(* defines them from the frames alone, for any prefix of the C stack, so   *)
(* that a frame that is entered or left changes the set by that frame, a   *)
(* settor that throw calls cuts it at the handler of the throw, a fork     *)
(* leaves main's, and a throw comes back to the set as it was below its    *)
(* handler. A step is a composition of the model's operators; each lemma   *)
(* says what one of them does to a state of which the invariant holds, or  *)
(* of which it holds but for the handler of the innermost frame (Opened).  *)
(*                                                                         *)
(* The second half, from Passes on, is about the stacks beside the C stack *)
(* in the worlds of OrderlyWorlds. There b[k] are the bindings that the    *)
(* first k frames have made (Chain), and every handler and every suspended *)
(* throw has saved how many of them its frame had seen (Saved). Settled is *)
(* a state in which the program runs, Flying one with a throw under way,   *)
(* Bare and Clean the ones between the arrival at a handler and the end of *)
(* its catch clause.                                                       *)
(***************************************************************************)
EXTENDS Control, Integers, FiniteSetTheorems, SequenceTheorems, TLAPS

-----------------------------------------------------------------------------
(***************************************************************************)
(* Induction, stated of a set: it holds of every n in Nat that n is in S.  *)
(***************************************************************************)

LEMMA Least ==
    ASSUME NEW T, T \subseteq Nat, T # {}
    PROVE  \E x \in T : \A y \in T : x <= y
<1> DEFINE R == OpToRel(<, Nat)
<1>1. IsWellFoundedOn(R, Nat)
  BY NatLessThanWellFounded
<1>2. \A x, y \in Nat : x < y => <<x, y>> \in R
  BY DEF OpToRel
<1> HIDE DEF R
<1>3. PICK x \in T : \A y \in T : ~(<<y, x>> \in R)
  BY <1>1, WFMin
<1>4. ASSUME NEW y \in T PROVE x <= y
  <2>1. ~(y < x)
    BY <1>2, <1>3
  <2> QED BY <2>1
<1> QED BY <1>4

\* Induction on the natural numbers.
LEMMA Induction ==
    ASSUME NEW S, 0 \in S, \A n \in Nat : n \in S => n + 1 \in S
    PROVE  Nat \subseteq S
<1> DEFINE T == Nat \ S
<1> SUFFICES ASSUME T # {} PROVE FALSE
  OBVIOUS
<1>1. PICK x \in T : \A y \in T : x <= y
  BY Least
<1>2. x # 0 /\ x - 1 \in Nat
  OBVIOUS
<1>3. x - 1 \notin T
  BY <1>1, <1>2
<1> QED BY <1>2, <1>3

-----------------------------------------------------------------------------
(***************************************************************************)
(* The frames                                                              *)
(***************************************************************************)
AllKinds  == Catching \cup Evaluated \cup {"local"}
Text      == Vars \cup Exceptions
             \cup {"", "0", "fn-%dispatch", "fd", "none", "signal", "no", "first", "body", "push", "pop"}
Depths    == [at : Nat, pushes : Nat, evaldepth : Int]
Throws    == {x \in [e : Text, h : Depths] : x.e = "none" => x = NoThrow}
FrameType == [kind : AllKinds, v : Text, inchild : BOOLEAN, stage : Text, thr : Throws, n : Nat]
Fields    == {"frames", "handlers", "pushes", "inputs", "defers", "evaldepth", "blocked",
              "hasforked", "thr", "dead"}
Typed(t) ==
    /\ DOMAIN t = Fields
    /\ t.frames \in Seq(FrameType) /\ t.handlers \in Seq(Depths) /\ t.pushes \in Seq(Text)
    /\ t.inputs \in Seq(Nat) /\ t.defers \in Seq(Nat)
    /\ t.evaldepth \in Int /\ t.blocked \in Int
    /\ t.hasforked \in BOOLEAN /\ t.thr \in Throws /\ t.dead \in Text

\* Frame k is the parent's, seen from the first n frames.
Parents(f, n, k) == \E m \in k..n : f[m].kind = "child"
\* The throw that frame j suspends has used the handler of frame k up.
Takes(f, n, j, k) ==
    \/ f[j].thr.h.at < k /\ k < j /\ (Parents(f, n, k) => Parents(f, n, j))
    \/ f[j].thr.h.at = k /\ ~Parents(f, n, j)
\* The frames of the first n that have a handler.
Live(f, n) ==
    {k \in 1..n : /\ f[k].kind \in Catching
                  /\ k = 1 \/ ~Parents(f, n, k)
                  /\ \A j \in 1..n : f[j].thr # NoThrow => ~Takes(f, n, j, k)}
Below(f, b) == {k \in Live(f, Len(f)) : k < b}

\* What local leaves to its settor: the frame of local, before its binding or after.
OverLocal(x) == x.kind = "local" /\ x.stage \in {"push", "pop"}

\* A suspended throw is one of a settor, and has a handler to go to.
Good(f) ==
    /\ Len(f) \in Nat \ {0} /\ f[1].kind = "main" /\ \A k \in 2..Len(f) : f[k].kind # "main"
    /\ \A j \in 1..Len(f) : f[j].thr # NoThrow => f[j].kind = "settor" /\ f[j].thr.h.at \in Live(f, j - 1)
    /\ \A j \in 2..Len(f) : f[j].kind = "settor" /\ f[j].thr = NoThrow => OverLocal(f[j - 1])

Alike(f, g, n) ==
    \A k \in 1..n : /\ f[k].kind \in Catching <=> g[k].kind \in Catching
                    /\ f[k].kind = "child" <=> g[k].kind = "child"
                    /\ f[k].thr = g[k].thr

LEMMA LiveAlike ==
    ASSUME NEW n \in Int, NEW f, NEW g, Alike(f, g, n)
    PROVE  Live(f, n) = Live(g, n)
<1>1. \A k \in 1..n : Parents(f, n, k) <=> Parents(g, n, k)
  BY DEF Alike, Parents
<1>2. \A j, k \in 1..n : Takes(f, n, j, k) <=> Takes(g, n, j, k)
  BY <1>1 DEF Takes, Alike
<1>3. \A k \in 1..n : k \in Live(f, n) <=> k \in Live(g, n)
  BY <1>1, <1>2 DEF Live, Alike
<1> QED BY <1>3 DEF Live

LEMMA LiveOrdinary ==
    ASSUME NEW n \in Nat, NEW f, f[n + 1].kind # "child", f[n + 1].thr = NoThrow,
           \A j \in 1..n : f[j].thr # NoThrow => f[j].thr.h.at \in 1..j - 1
    PROVE  Live(f, n + 1) = Live(f, n) \cup (IF f[n + 1].kind \in Catching THEN {n + 1} ELSE {})
<1>1. \A k \in 1..n : Parents(f, n + 1, k) <=> Parents(f, n, k)
  BY DEF Parents
<1>2. \A k \in 1..n : \A j \in 1..n : Takes(f, n + 1, j, k) <=> Takes(f, n, j, k)
  BY <1>1 DEF Takes
<1>3. \A k \in 1..n : k \in Live(f, n + 1) <=> k \in Live(f, n)
  BY <1>1, <1>2 DEF Live
<1>4. n + 1 \in Live(f, n + 1) <=> f[n + 1].kind \in Catching
  <2>1. ~Parents(f, n + 1, n + 1)
    BY DEF Parents
  <2>2. \A j \in 1..n : f[j].thr # NoThrow => ~Takes(f, n + 1, j, n + 1)
    BY DEF Takes
  <2> QED BY <2>1, <2>2 DEF Live
<1> QED BY <1>3, <1>4 DEF Live

LEMMA LiveSuspended ==
    ASSUME NEW n \in Nat, NEW f, f[n + 1].kind = "settor", f[n + 1].thr # NoThrow,
           f[n + 1].thr.h.at \in Live(f, n),
           \A j \in 1..n : f[j].thr # NoThrow => f[j].thr.h.at \in 1..j - 1
    PROVE  Live(f, n + 1) = {k \in Live(f, n) : k < f[n + 1].thr.h.at}
<1> DEFINE h == f[n + 1].thr.h.at
<1>1. \A k \in 1..n : Parents(f, n + 1, k) <=> Parents(f, n, k)
  BY SMTT(40) DEF Parents
<1>2. \A k \in 1..n : \A j \in 1..n : Takes(f, n + 1, j, k) <=> Takes(f, n, j, k)
  BY <1>1 DEF Takes
<1>3. h \in 1..n /\ (h = 1 \/ ~Parents(f, n, h)) /\ ~Parents(f, n + 1, n + 1)
  BY DEF Live, Parents
<1>4. ASSUME NEW k \in 1..n PROVE k \in Live(f, n + 1) <=> k \in Live(f, n) /\ k < h
  <2>1. (k = 1 \/ ~Parents(f, n, k)) => (Takes(f, n + 1, n + 1, k) <=> h <= k)
    BY <1>1, <1>3 DEF Takes, Parents
  <2> HIDE DEF h
  <2>2. k \in Live(f, n) => (k = 1 \/ ~Parents(f, n, k))
    BY DEF Live
  <2>3. k \in Live(f, n + 1) <=> k \in Live(f, n) /\ ~Takes(f, n + 1, n + 1, k)
    BY <1>1, <1>2 DEF Live
  <2> QED BY <1>3, <2>1, <2>2, <2>3
<1>5. n + 1 \notin Live(f, n + 1)
  BY DEF Live, Catching
<1> QED BY <1>4, <1>5 DEF Live

LEMMA LiveForked ==
    ASSUME NEW n \in Nat \ {0}, NEW f, f[n + 1].kind = "child", f[1].kind = "main",
           f[n + 1].thr = NoThrow,
           \A j \in 1..n : f[j].thr # NoThrow => f[j].thr.h.at \in 1..j - 1
    PROVE  Live(f, n + 1) = {1}
<1>1. \A k \in 1..n + 1 : Parents(f, n + 1, k)
  BY DEF Parents
<1>2. 1 \in Live(f, n + 1)
  BY <1>1 DEF Live, Takes, Catching
<1> QED BY <1>1, <1>2 DEF Live

\* A live frame and what is live before it, when the frames after it are gone.
LEMMA LiveCut ==
    ASSUME NEW f, Good(f), NEW m \in Live(f, Len(f)), m # 1
    PROVE  /\ Live(f, m) = {k \in Live(f, Len(f)) : k <= m}
           /\ ~Parents(f, Len(f), m)
           /\ \A j \in m + 1..Len(f) : f[j].thr # NoThrow => f[j].thr.h.at > m
<1> DEFINE n == Len(f)
<1>1. n \in Nat \ {0} /\ m \in 1..n /\ ~Parents(f, n, m)
  BY DEF Good, Live
<1>2. \A j \in 1..n : f[j].thr # NoThrow => f[j].thr.h.at \in 1..j - 1
  BY DEF Good, Live
<1>3. ASSUME NEW j \in m + 1..n, f[j].thr # NoThrow PROVE f[j].thr.h.at > m
  <2>1. ~Takes(f, n, j, m) /\ ~Parents(f, n, j)
    BY <1>1, <1>3 DEF Live, Parents
  <2> QED BY <1>1, <1>2, <1>3, <2>1 DEF Takes
<1>4. \A k \in 1..m : Parents(f, n, k) <=> Parents(f, m, k)
  BY <1>1 DEF Parents
<1>5. ASSUME NEW k \in 1..m PROVE k \in Live(f, n) <=> k \in Live(f, m)
  <2>1. \A j \in 1..m : Takes(f, n, j, k) <=> Takes(f, m, j, k)
    BY <1>4 DEF Takes
  <2>2. \A j \in m + 1..n : f[j].thr # NoThrow => ~Takes(f, n, j, k)
    BY <1>1, <1>2, <1>3 DEF Takes
  <2> HIDE DEF n
  <2> QED BY <1>1, <1>4, <2>1, <2>2 DEF Live
<1>6. \A k \in Live(f, m) : k \in 1..m
  BY DEF Live
<1> HIDE DEF n
<1>7. \A k : k \in Live(f, m) <=> k \in Live(f, n) /\ k <= m
  BY <1>1, <1>5, <1>6 DEF Live
<1> QED BY <1>1, <1>3, <1>7 DEF n

\* A frame that hands EVAL_INCHILD on has an exec or a fork under it, and nothing
\* between that is left to be done.
Alone(f, k) ==
    \E m \in 1..k : /\ f[m].kind \in {"exec", "child"}
                    /\ \A j \in m..k : /\ f[j].kind \notin {"run", "loop", "for", "settor"}
                                       /\ j < k => f[j].stage # "first"
Exec(f) == \A k \in 1..Len(f) : f[k].inchild => Alone(f, k)

LEMMA CutKeeps ==
    ASSUME NEW f \in Seq(FrameType), Good(f), Exec(f), NEW m \in 1..Len(f)
    PROVE  LET g == SubSeq(f, 1, m) IN
           /\ g \in Seq(FrameType) /\ Len(g) = m /\ \A k \in 1..m : g[k] = f[k]
           /\ Good(g) /\ Exec(g) /\ \A j \in 0..m : Live(g, j) = Live(f, j)
<1> DEFINE g == SubSeq(f, 1, m)
<1>1. g \in Seq(FrameType) /\ Len(g) = m /\ \A k \in 1..m : g[k] = f[k]
  OBVIOUS
<1> HIDE DEF g
<1>2. \A j \in 0..m : Live(g, j) = Live(f, j)
  <2> SUFFICES ASSUME NEW j \in 0..m PROVE Live(g, j) = Live(f, j)
    OBVIOUS
  <2>1. Alike(g, f, j)
    BY <1>1 DEF Alike
  <2> QED BY <2>1, LiveAlike
<1>3. Good(g)
  <2>1. Len(g) \in Nat \ {0} /\ g[1].kind = "main" /\ \A k \in 2..Len(g) : g[k].kind # "main"
    BY <1>1, SMTT(40) DEF Good
  <2>2. ASSUME NEW j \in 1..Len(g), g[j].thr # NoThrow
        PROVE  g[j].kind = "settor" /\ g[j].thr.h.at \in Live(g, j - 1)
    <3>1. j \in 1..Len(f) /\ f[j] = g[j] /\ j - 1 \in 0..m
      BY <1>1
    <3> QED BY <1>2, <2>2, <3>1 DEF Good
  <2>3. ASSUME NEW j \in 2..Len(g), g[j].kind = "settor", g[j].thr = NoThrow
        PROVE  OverLocal(g[j - 1])
    <3>1. j \in 2..Len(f) /\ f[j] = g[j] /\ f[j - 1] = g[j - 1]
      BY <1>1
    <3> QED BY <2>3, <3>1 DEF Good
  <2> QED BY <2>1, <2>2, <2>3 DEF Good
<1>4. Exec(g)
  <2> SUFFICES ASSUME NEW k \in 1..m, g[k].inchild PROVE Alone(g, k)
    BY <1>1 DEF Exec
  <2>1. Alone(f, k)
    BY <1>1 DEF Exec
  <2> QED BY <1>1, <2>1 DEF Alone
<1> QED BY <1>1, <1>2, <1>3, <1>4 DEF g

LEMMA AppendKeeps ==
    ASSUME NEW f \in Seq(FrameType), Good(f), Exec(f), NEW x \in FrameType, x.kind # "main",
           x.thr # NoThrow => x.kind = "settor" /\ x.thr.h.at \in Live(f, Len(f)),
           x.kind = "settor" /\ x.thr = NoThrow => OverLocal(f[Len(f)]),
           x.inchild => \/ x.kind \in {"exec", "child"}
                        \/ /\ f[Len(f)].inchild /\ f[Len(f)].stage # "first"
                           /\ x.kind \notin {"run", "loop", "for", "settor"}
    PROVE  LET g == Append(f, x) IN
           /\ g \in Seq(FrameType) /\ Len(g) = Len(f) + 1
           /\ g[Len(f) + 1] = x /\ \A k \in 1..Len(f) : g[k] = f[k]
           /\ Good(g) /\ Exec(g) /\ \A j \in 0..Len(f) : Live(g, j) = Live(f, j)
<1> DEFINE g == Append(f, x)
           n == Len(f)
<1>1. /\ g \in Seq(FrameType) /\ Len(g) = n + 1 /\ n \in Nat \ {0}
      /\ g[n + 1] = x /\ \A k \in 1..n : g[k] = f[k]
  BY DEF Good
<1> HIDE DEF g, n
<1>2. \A j \in 0..n : Live(g, j) = Live(f, j)
  <2> SUFFICES ASSUME NEW j \in 0..n PROVE Live(g, j) = Live(f, j)
    OBVIOUS
  <2>1. Alike(g, f, j)
    BY <1>1 DEF Alike
  <2> QED BY <2>1, LiveAlike
<1>3. Good(g)
  <2>1. g[1].kind = "main" /\ \A k \in 2..n + 1 : g[k].kind # "main"
    BY <1>1 DEF Good, n
  <2>2. ASSUME NEW j \in 1..n + 1, g[j].thr # NoThrow
        PROVE  g[j].kind = "settor" /\ g[j].thr.h.at \in Live(g, j - 1)
    <3>1. CASE j = n + 1
      BY <1>1, <1>2, <2>2, <3>1 DEF n
    <3>2. CASE j # n + 1
      <4>1. j \in 1..n /\ j - 1 \in 0..n
        BY <1>1, <3>2
      <4> QED BY <1>1, <1>2, <2>2, <4>1 DEF Good, n
    <3> QED BY <3>1, <3>2
  <2>3. ASSUME NEW j \in 2..n + 1, g[j].kind = "settor", g[j].thr = NoThrow
        PROVE  OverLocal(g[j - 1])
    BY <1>1, <2>3 DEF Good, n
  <2> QED BY <1>1, <2>1, <2>2, <2>3 DEF Good
<1>4. Exec(g)
  <2> SUFFICES ASSUME NEW k \in 1..n + 1, g[k].inchild PROVE Alone(g, k)
    BY <1>1 DEF Exec
  <2>1. CASE k = n + 1
    <3>1. CASE x.kind \in {"exec", "child"}
      BY <1>1, <2>1, <3>1 DEF Alone
    <3>2. CASE ~(x.kind \in {"exec", "child"})
      <4>1. /\ f[n].inchild /\ f[n].stage # "first"
            /\ x.kind \notin {"run", "loop", "for", "settor"}
        BY <1>1, <2>1, <3>2 DEF n
      <4>2. Alone(f, n)
        BY <1>1, <4>1 DEF Exec, n
      <4>3. PICK m \in 1..n : /\ f[m].kind \in {"exec", "child"}
                    /\ \A j \in m..n : /\ f[j].kind \notin {"run", "loop", "for", "settor"}
                                       /\ j < n => f[j].stage # "first"
        BY <4>2 DEF Alone
      <4>4. \A j \in m..n + 1 : /\ g[j].kind \notin {"run", "loop", "for", "settor"}
                                /\ j < n + 1 => g[j].stage # "first"
        BY <1>1, <4>1, <4>3, SMTT(40)
      <4> QED BY <1>1, <2>1, <4>3, <4>4 DEF Alone
    <3> QED BY <3>1, <3>2
  <2>2. CASE k # n + 1
    <3>1. k \in 1..n /\ f[k].inchild
      BY <1>1, <2>2
    <3>2. Alone(f, k)
      BY <3>1 DEF Exec, n
    <3> QED BY <1>1, <3>1, <3>2, SMTT(40) DEF Alone
  <2> QED BY <2>1, <2>2
<1> QED BY <1>1, <1>2, <1>3, <1>4 DEF g, n

\* The stage of the innermost frame changes, or a catch becomes its catcher.
LEMMA TopKeeps ==
    ASSUME NEW f \in Seq(FrameType), Good(f), Exec(f), NEW g \in Seq(FrameType), Len(g) = Len(f),
           \A k \in 1..Len(f) - 1 : g[k] = f[k],
           g[Len(f)].thr = f[Len(f)].thr, g[Len(f)].inchild = f[Len(f)].inchild,
           \/ g[Len(f)].kind = f[Len(f)].kind
           \/ {f[Len(f)].kind, g[Len(f)].kind} \subseteq {"catch", "catcher"}
    PROVE  Good(g) /\ Exec(g) /\ \A j \in 0..Len(f) : Live(g, j) = Live(f, j)
<1> DEFINE n == Len(f)
<1>1. n \in Nat \ {0}
  BY DEF Good
<1> HIDE DEF n
<1>2. \A j \in 0..n : Live(g, j) = Live(f, j)
  <2> SUFFICES ASSUME NEW j \in 0..n PROVE Live(g, j) = Live(f, j)
    OBVIOUS
  <2>1. Alike(g, f, j)
    BY <1>1 DEF Alike, n, Catching
  <2> QED BY <2>1, LiveAlike
<1>3. Good(g)
  <2>1. g[1].kind = "main" /\ \A k \in 2..n : g[k].kind # "main"
    BY <1>1 DEF Good, n
  <2>2. ASSUME NEW j \in 1..n, g[j].thr # NoThrow
        PROVE  g[j].kind = "settor" /\ g[j].thr.h.at \in Live(g, j - 1)
    <3>1. j - 1 \in 0..n /\ f[j].thr = g[j].thr
      BY <1>1 DEF n
    <3>2. f[j].kind = "settor" /\ f[j].thr.h.at \in Live(f, j - 1)
      BY <2>2, <3>1 DEF Good, n
    <3> QED BY <1>1, <1>2, <3>1, <3>2 DEF n
  <2>3. ASSUME NEW j \in 2..n, g[j].kind = "settor", g[j].thr = NoThrow
        PROVE  OverLocal(g[j - 1])
    <3>1. f[j].kind = "settor" /\ f[j].thr = NoThrow /\ g[j - 1] = f[j - 1]
      BY <1>1, <2>3 DEF n
    <3> QED BY <1>1, <3>1 DEF Good, n
  <2> QED BY <1>1, <2>1, <2>2, <2>3 DEF Good, n
<1>4. Exec(g)
  <2> SUFFICES ASSUME NEW k \in 1..n, g[k].inchild PROVE Alone(g, k)
    BY DEF Exec, n
  <2>1. f[k].inchild
    BY <1>1 DEF n
  <2>2. Alone(f, k)
    BY <2>1 DEF Exec, n
  <2>3. PICK m \in 1..k : /\ f[m].kind \in {"exec", "child"}
                    /\ \A j \in m..k : /\ f[j].kind \notin {"run", "loop", "for", "settor"}
                                       /\ j < k => f[j].stage # "first"
    BY <2>2 DEF Alone
  <2>4. g[m].kind = f[m].kind
    BY <1>1, <2>3 DEF n
  <2>5. \A j \in m..k : /\ g[j].kind \notin {"run", "loop", "for", "settor"}
                        /\ j < k => g[j].stage # "first"
    BY <1>1, <2>3 DEF n
  <2> QED BY <2>3, <2>4, <2>5 DEF Alone
<1> QED BY <1>2, <1>3, <1>4 DEF n

-----------------------------------------------------------------------------
(***************************************************************************)
(* The handlers                                                            *)
(***************************************************************************)
Ats(q)    == {q[i].at : i \in DOMAIN q}
Rising(q) == \A i, j \in DOMAIN q : i < j => q[i].at < q[j].at

LEMMA FrontRising ==
    ASSUME NEW q \in Seq(Depths), q # <<>>, Rising(q)
    PROVE  /\ Front(q) \in Seq(Depths) /\ Rising(Front(q))
           /\ Last(q) \in Depths /\ Last(q).at \in Ats(q)
           /\ Ats(Front(q)) = {k \in Ats(q) : k < Last(q).at}
           /\ \A k \in Ats(q) : k <= Last(q).at
<1> DEFINE n == Len(q)
           p == Front(q)
<1>1. n \in Nat \ {0} /\ DOMAIN q = 1..n /\ Last(q) = q[n]
  BY DEF Last
<1>2. p \in Seq(Depths) /\ DOMAIN p = 1..n - 1 /\ \A i \in 1..n - 1 : p[i] = q[i]
  BY <1>1 DEF Front
<1>3. \A i \in 1..n : q[i] \in Depths /\ q[i].at \in Nat
  <2>1. \A i \in 1..n : q[i] \in Depths
    BY <1>1
  <2>2. \A h \in Depths : h.at \in Nat
    BY DEF Depths
  <2> QED BY <2>1, <2>2
<1> HIDE DEF p
<1>4. \A i \in 1..n - 1 : q[i].at < q[n].at
  BY <1>1 DEF Rising
<1>5. Rising(p)
  BY <1>1, <1>2 DEF Rising
<1>6. Ats(p) = {k \in Ats(q) : k < q[n].at}
  <2>1. ASSUME NEW k \in Ats(p) PROVE k \in Ats(q) /\ k < q[n].at
    BY <1>1, <1>2, <1>4 DEF Ats
  <2>2. ASSUME NEW k \in Ats(q), k < q[n].at PROVE k \in Ats(p)
    <3>1. PICK i \in 1..n : k = q[i].at
      BY <1>1 DEF Ats
    <3>2. i # n
      BY <1>3, <2>2, <3>1
    <3>3. i \in 1..n - 1
      <4> HIDE DEF n
      <4> QED BY <1>1, <3>1, <3>2
    <3>4. i \in DOMAIN p /\ k = p[i].at
      BY <1>2, <3>1, <3>3
    <3> QED BY <3>4 DEF Ats
  <2> QED BY <2>1, <2>2
<1>7. \A k \in Ats(q) : k <= q[n].at
  BY <1>1, <1>3, <1>4 DEF Ats
<1> QED BY <1>1, <1>2, <1>3, <1>5, <1>6, <1>7 DEF p, Ats

LEMMA AppendRising ==
    ASSUME NEW q \in Seq(Depths), Rising(q), NEW h \in Depths, \A k \in Ats(q) : k < h.at
    PROVE  /\ Append(q, h) \in Seq(Depths) /\ Rising(Append(q, h))
           /\ Ats(Append(q, h)) = Ats(q) \cup {h.at}
<1> DEFINE n == Len(q)
           p == Append(q, h)
<1>1. /\ n \in Nat /\ DOMAIN q = 1..n /\ p \in Seq(Depths) /\ DOMAIN p = 1..n + 1
      /\ p[n + 1] = h /\ \A i \in 1..n : p[i] = q[i]
  OBVIOUS
<1> HIDE DEF p, n
<1>2. \A i \in 1..n : q[i].at \in Ats(q)
  BY <1>1 DEF Ats
<1>3. Rising(p)
  BY <1>1, <1>2 DEF Rising
<1>4. Ats(p) = Ats(q) \cup {h.at}
  <2>1. ASSUME NEW k \in Ats(p) PROVE k \in Ats(q) \cup {h.at}
    <3>1. PICK i \in 1..n + 1 : k = p[i].at
      BY <1>1 DEF Ats
    <3> QED BY <1>1, <1>2, <3>1
  <2>2. ASSUME NEW k \in Ats(q) PROVE k \in Ats(p)
    <3>1. PICK i \in 1..n : k = q[i].at
      BY <1>1 DEF Ats
    <3>2. i \in DOMAIN p /\ k = p[i].at
      BY <1>1, <3>1
    <3> QED BY <3>2 DEF Ats
  <2>3. h.at \in Ats(p)
    <3>1. n + 1 \in DOMAIN p /\ h.at = p[n + 1].at
      BY <1>1
    <3> QED BY <3>1 DEF Ats
  <2> QED BY <2>1, <2>2, <2>3
<1> QED BY <1>1, <1>3, <1>4 DEF p

-----------------------------------------------------------------------------
(***************************************************************************)
(* States, thrown and not                                                  *)
(***************************************************************************)
Alive(t) == Typed(t) /\ t.dead = "no" /\ Good(t.frames) /\ Exec(t.frames) /\ Rising(t.handlers)
\* Nothing is thrown: the handlers are those of the live frames.
Holds(t) ==
    Alive(t) /\ t.thr = NoThrow /\ Ats(t.handlers) = Live(t.frames, Len(t.frames))
\* A throw is under way: its handler was taken, and the ones above it before.
Thrown(t) ==
    /\ Alive(t) /\ t.thr # NoThrow
    /\ t.thr.h.at \in Live(t.frames, Len(t.frames))
    /\ Ats(t.handlers) = Below(t.frames, t.thr.h.at)
Gone(t) == t.dead \in {"exit", "nohandler", "badhandler"}
Ok(t)   == Holds(t) \/ Thrown(t) \/ Gone(t)

LEMMA Texts ==
    {"error", "break", "return", "retry", "eof", "signal", "none", "", "0", "fd", "fn-%dispatch",
     "first", "body", "push", "pop", "no"} \subseteq Text
BY DEF Text, Exceptions, Vars

LEMMA NoThrowType == NoThrow \in Throws /\ Root \in Depths
<1>1. [at |-> 0, pushes |-> 0, evaldepth |-> 0] \in Depths /\ Root \in Depths
  BY DEF Depths, Root
<1>2. "none" \in Text
  BY Texts
<1> QED BY <1>1, <1>2 DEF Throws, NoThrow

LEMMA NamedThrows ==
    ASSUME NEW e \in Text, e # "none", NEW h \in Depths
    PROVE  [e |-> e, h |-> h] \in Throws /\ [e |-> e, h |-> h] # NoThrow
BY DEF Throws, NoThrow

LEMMA Throwing ==
    ASSUME NEW t, Alive(t), NEW b \in Int,
           Ats(t.handlers) = Live(t.frames, Len(t.frames)) \/ Ats(t.handlers) = Below(t.frames, b),
           NEW e \in Text, e # "none"
    PROVE  Ok(Throw(t, e))
<1> DEFINE u == Throw(t, e)
<1>1. CASE t.handlers = <<>>
  <2>1. u.dead = "nohandler"
    BY <1>1 DEF Throw, Dead, Alive, Typed, Fields
  <2> QED BY <2>1 DEF Ok, Gone
<1>2. CASE t.handlers # <<>>
  <2> DEFINE q == t.handlers
             h == Last(q)
  <2>1. /\ Front(q) \in Seq(Depths) /\ Rising(Front(q)) /\ h \in Depths /\ h.at \in Ats(q)
        /\ Ats(Front(q)) = {k \in Ats(q) : k < h.at}
    BY <1>2, FrontRising DEF Alive, Typed
  <2>2. [e |-> e, h |-> h] \in Throws /\ [e |-> e, h |-> h] # NoThrow
    BY <2>1, NamedThrows
  <2>3. /\ DOMAIN u = Fields /\ u.thr = [e |-> e, h |-> h] /\ u.handlers = Front(q)
        /\ u.frames = t.frames /\ u.pushes = t.pushes /\ u.inputs = t.inputs
        /\ u.defers = t.defers /\ u.evaldepth = t.evaldepth /\ u.blocked = t.blocked
        /\ u.hasforked = t.hasforked /\ u.dead = t.dead
    BY <1>2 DEF Throw, Alive, Typed, Fields
  <2> HIDE DEF u, h
  <2>4. Alive(u)
    BY <2>1, <2>2, <2>3 DEF Alive, Typed
  <2>5. u.thr.h = h
    BY <2>3
  <2>6. h.at \in Live(t.frames, Len(t.frames))
    BY <2>1 DEF Below
  <2>7. \A k \in Live(t.frames, Len(t.frames)) : k \in Int
    BY DEF Live
  <2>8. Ats(Front(q)) = Below(t.frames, h.at)
    <3>1. CASE Ats(q) = Live(t.frames, Len(t.frames))
      BY <2>1, <3>1 DEF Below
    <3>2. CASE Ats(q) = Below(t.frames, b)
      <4> SUFFICES ASSUME NEW k \in Live(t.frames, Len(t.frames))
                   PROVE  k < h.at => k \in Below(t.frames, b)
        BY <2>1, <3>2 DEF Below
      <4> QED BY <2>1, <2>7, <3>2 DEF Below
    <3> QED BY <3>1, <3>2
  <2>9. u.thr # NoThrow /\ Ats(u.handlers) = Below(u.frames, u.thr.h.at)
    BY <2>2, <2>3, <2>5, <2>8
  <2>10. u.thr.h.at \in Live(u.frames, Len(u.frames))
    BY <2>3, <2>5, <2>6
  <2>11. Thrown(u)
    BY <2>4, <2>9, <2>10 DEF Thrown
  <2> QED BY <2>11 DEF Ok, u
<1> QED BY <1>1, <1>2

\* A live frame has a handler to return to, and is no child of the frames below.
LEMMA LiveFrames ==
    ASSUME NEW f, Good(f), NEW m \in Live(f, Len(f))
    PROVE  m \in 1..Len(f) /\ f[m].kind \in Catching /\ f[m].thr = NoThrow
<1>1. m \in 1..Len(f) /\ f[m].kind \in Catching
  BY DEF Live
<1>2. f[m].thr # NoThrow => f[m].kind = "settor"
  BY <1>1 DEF Good
<1> QED BY <1>1, <1>2 DEF Catching

LEMMA GoodBefore ==
    ASSUME NEW f, Good(f)
    PROVE  \A j \in 1..Len(f) : f[j].thr # NoThrow => f[j].thr.h.at \in 1..j - 1
BY DEF Good, Live

LEMMA FrameSuspends ==
    ASSUME NEW x \in FrameType, NEW a \in Throws, NEW m \in Nat
    PROVE  LET y == [x EXCEPT !.thr = a, !.n = m] IN
           /\ y \in FrameType /\ y.thr = a
           /\ y.kind = x.kind /\ y.inchild = x.inchild /\ y.stage = x.stage /\ y.v = x.v
BY DEF FrameType

LEMMA FrameStage ==
    ASSUME NEW x \in FrameType, NEW stage \in Text
    PROVE  LET y == [x EXCEPT !.stage = stage] IN
           /\ y \in FrameType /\ y.stage = stage
           /\ y.kind = x.kind /\ y.inchild = x.inchild /\ y.thr = x.thr /\ y.v = x.v
BY DEF FrameType

LEMMA FrameKind ==
    ASSUME NEW x \in FrameType, NEW kind \in AllKinds
    PROVE  LET y == [x EXCEPT !.kind = kind] IN
           /\ y \in FrameType /\ y.kind = kind
           /\ y.stage = x.stage /\ y.inchild = x.inchild /\ y.thr = x.thr /\ y.v = x.v
BY DEF FrameType

LEMMA Pushed ==
    ASSUME NEW q \in Seq(Text), NEW v \in Text
    PROVE  Append(q, v) \in Seq(Text) /\ Len(q) \in Nat
OBVIOUS

\* A settor begins, in throw or in local.
LEMMA SettorBegins ==
    ASSUME NEW t, \/ Holds(t) /\ OverLocal(t.frames[Len(t.frames)])
                  \/ Thrown(t),
           NEW v \in Text
    PROVE  Ok(callsettor(t, v))
<1> DEFINE f == t.frames
           n == Len(f)
           u == Push(Eval([t EXCEPT !.thr = NoThrow], "settor"), "0")
           x == [Frame("settor", v, FALSE, "body") EXCEPT !.thr = t.thr, !.n = Len(t.pushes)]
           w == Push([Eval(t, "settor") EXCEPT !.frames = Append(t.frames, x),
                                                   !.thr = NoThrow], "0")
<1>1. Alive(t) /\ Typed(t) /\ Good(f) /\ Exec(f) /\ f \in Seq(FrameType) /\ n \in Nat \ {0}
  BY DEF Holds, Thrown, Alive, Typed, Good
<1>2. /\ t.pushes \in Seq(Text) /\ Append(t.pushes, "0") \in Seq(Text) /\ Len(t.pushes) \in Nat
      /\ t.evaldepth + 1 \in Int
  <2>1. t.pushes \in Seq(Text) /\ t.evaldepth \in Int
    BY <1>1 DEF Typed
  <2>2. "0" \in Text
    BY Texts
  <2> QED BY <2>1, <2>2, Pushed
<1>3. CASE TooDeep(t, "settor")
  <2>1. /\ DOMAIN u = Fields /\ u.thr = NoThrow /\ u.handlers = t.handlers /\ u.frames = f
        /\ u.pushes = Append(t.pushes, "0") /\ u.inputs = t.inputs /\ u.defers = t.defers
        /\ u.evaldepth = t.evaldepth + 1 /\ u.blocked = t.blocked
        /\ u.hasforked = t.hasforked /\ u.dead = t.dead
    BY <1>1 DEF Typed, Fields, Push, Eval, Evaluated
  <2> HIDE DEF u
  <2>2. Alive(u)
    BY <1>1, <1>2, <2>1, NoThrowType DEF Alive, Typed
  <2>3. Ok(Throw(u, "error"))
    <3>1. "error" \in Text /\ "error" # "none"
      BY Texts
    <3>2. CASE Holds(t)
      <4>1. Ats(u.handlers) = Live(u.frames, Len(u.frames)) /\ 0 \in Int
        BY <2>1, <3>2 DEF Holds
      <4> QED BY <2>2, <3>1, <4>1, Throwing
    <3>3. CASE Thrown(t)
      <4>1. Ats(u.handlers) = Below(u.frames, t.thr.h.at) /\ t.thr.h.at \in Int
        BY <2>1, <3>3 DEF Thrown, Live
      <4> QED BY <2>2, <3>1, <4>1, Throwing
    <3> QED BY <3>2, <3>3
  <2>4. callsettor(t, v) = Throw(u, "error")
    BY <1>3 DEF callsettor, u
  <2> QED BY <2>3, <2>4
<1>4. CASE ~TooDeep(t, "settor")
  <2>1. t.thr \in Throws
    BY <1>1 DEF Typed
  <2>2. x \in FrameType /\ x.kind = "settor" /\ x.thr = t.thr /\ ~x.inchild
    <3> DEFINE y == Frame("settor", v, FALSE, "body")
    <3>1. "settor" \in AllKinds /\ "body" \in Text
      BY Texts DEF AllKinds, Evaluated
    <3>2. y \in FrameType /\ y.kind = "settor" /\ ~y.inchild
      BY <3>1, NoThrowType DEF Frame, FrameType
    <3>3. Len(t.pushes) \in Nat
      BY <1>2
    <3>4. x \in FrameType /\ x.thr = t.thr
      BY <2>1, <3>2, <3>3, FrameSuspends
    <3>5. x.kind = y.kind /\ x.inchild = y.inchild
      BY <2>1, <3>2, <3>3, FrameSuspends, ZenonT(60)
    <3> QED BY <3>2, <3>4, <3>5
  <2>3. /\ DOMAIN w = Fields /\ w.thr = NoThrow /\ w.handlers = t.handlers
        /\ w.frames = Append(f, x)
        /\ w.pushes = Append(t.pushes, "0") /\ w.inputs = t.inputs /\ w.defers = t.defers
        /\ w.evaldepth = t.evaldepth + 1 /\ w.blocked = t.blocked
        /\ w.hasforked = t.hasforked /\ w.dead = t.dead
    BY <1>1 DEF Typed, Fields, Push, Eval, Evaluated
  <2> DEFINE g == Append(f, x)
  <2>4. x.kind = "settor" /\ x.thr = t.thr /\ ~x.inchild
    BY <2>2
  <2>5. /\ g \in Seq(FrameType) /\ Len(g) = n + 1 /\ g[n + 1] = x /\ \A k \in 1..n : g[k] = f[k]
        /\ Good(g) /\ Exec(g) /\ Live(g, n) = Live(f, n)
    <3>1. x.thr # NoThrow => x.thr.h.at \in Live(f, n)
      BY <2>4 DEF Holds, Thrown
    <3>2. x.thr = NoThrow => OverLocal(f[n])
      BY <2>4 DEF Holds, Thrown
    <3>3. x.kind # "main"
      BY <2>4
    <3> HIDE DEF x, w, u
    <3>4. n \in 0..n
      BY <1>1
    <3> QED BY <1>1, <2>2, <2>4, <3>1, <3>2, <3>3, <3>4, AppendKeeps
  <2> HIDE DEF x, w, u, g
  <2>6. Alive(w)
    BY <1>1, <1>2, <2>3, <2>5, NoThrowType DEF Alive, Typed, g
  <2>7. n \in Nat /\ \A j \in 1..n : g[j].thr # NoThrow => g[j].thr.h.at \in 1..j - 1
    BY <1>1, <2>5, GoodBefore
  <2>8. Ats(w.handlers) = Live(g, n + 1)
    <3>1. CASE Holds(t)
      <4>1. /\ Ats(w.handlers) = Live(g, n) /\ g[n + 1].kind = "settor"
            /\ g[n + 1].thr = NoThrow
        BY <2>3, <2>4, <2>5, <3>1 DEF Holds
      <4>2. "settor" \notin Catching /\ "settor" # "child"
        BY DEF Catching
      <4> QED BY <2>7, <4>1, <4>2, LiveOrdinary
    <3>2. CASE Thrown(t)
      <4>1. /\ Ats(w.handlers) = {k \in Live(g, n) : k < g[n + 1].thr.h.at}
            /\ g[n + 1].kind = "settor" /\ g[n + 1].thr # NoThrow
            /\ g[n + 1].thr.h.at \in Live(g, n)
        BY <2>3, <2>4, <2>5, <3>2 DEF Thrown, Below
      <4> QED BY <2>7, <4>1, LiveSuspended
    <3> QED BY <3>1, <3>2
  <2>9. Holds(w)
    BY <2>3, <2>5, <2>6, <2>8 DEF Holds, g
  <2>10. callsettor(t, v) = w
    BY <1>4 DEF callsettor, w, x
  <2> QED BY <2>9, <2>10 DEF Ok
<1> QED BY <1>3, <1>4

-----------------------------------------------------------------------------
(***************************************************************************)
(* Operations beside the frames and the handlers                           *)
(***************************************************************************)
\* u differs from t in the stacks that no throw looks at.
Beside(t, u) ==
    Typed(u) /\ u.frames = t.frames /\ u.handlers = t.handlers /\ u.thr = t.thr /\ u.dead = t.dead
\* The innermost frame is without its handler.
Opened(t) ==
    /\ Alive(t) /\ t.thr = NoThrow /\ Len(t.frames) # 1
    /\ Ats(t.handlers) = Live(t.frames, Len(t.frames) - 1)

LEMMA BesideKeeps ==
    ASSUME NEW t, NEW u, Beside(t, u)
    PROVE  /\ Alive(t) => Alive(u)
           /\ Holds(t) => Holds(u)
           /\ Thrown(t) => Thrown(u)
           /\ Opened(t) => Opened(u)
BY DEF Beside, Alive, Holds, Thrown, Opened

LEMMA FrontType ==
    ASSUME NEW S, NEW q \in Seq(S)
    PROVE  Front(q) \in Seq(S)
<1>1. CASE q = <<>>
  <2>1. Front(q) = <<>>
    BY <1>1 DEF Front
  <2> QED BY <1>1, <2>1
<1>2. CASE q # <<>>
  BY <1>2 DEF Front
<1> QED BY <1>1, <1>2

LEMMA PopBeside == ASSUME NEW t, Typed(t) PROVE Beside(t, Pop(t))
<1> DEFINE u == Pop(t)
<1>1. Front(t.pushes) \in Seq(Text)
  BY FrontType DEF Typed
<1>2. /\ DOMAIN u = Fields /\ u.thr = t.thr /\ u.handlers = t.handlers /\ u.frames = t.frames
      /\ u.pushes = Front(t.pushes) /\ u.inputs = t.inputs /\ u.defers = t.defers
      /\ u.evaldepth = t.evaldepth /\ u.blocked = t.blocked
      /\ u.hasforked = t.hasforked /\ u.dead = t.dead
  BY DEF Typed, Fields, Pop
<1> HIDE DEF u
<1> QED BY <1>1, <1>2 DEF Beside, Typed, u

LEMMA PushBeside == ASSUME NEW t, Typed(t), NEW v \in Text PROVE Beside(t, Push(t, v))
<1> DEFINE u == Push(t, v)
<1>1. Append(t.pushes, v) \in Seq(Text)
  BY Pushed DEF Typed
<1>2. /\ DOMAIN u = Fields /\ u.thr = t.thr /\ u.handlers = t.handlers /\ u.frames = t.frames
      /\ u.pushes = Append(t.pushes, v) /\ u.inputs = t.inputs /\ u.defers = t.defers
      /\ u.evaldepth = t.evaldepth /\ u.blocked = t.blocked
      /\ u.hasforked = t.hasforked /\ u.dead = t.dead
  BY DEF Typed, Fields, Push
<1> HIDE DEF u
<1> QED BY <1>1, <1>2 DEF Beside, Typed, u

LEMMA EndinputBeside == ASSUME NEW t, Typed(t) PROVE Beside(t, endinput(t))
<1> DEFINE u == endinput(t)
<1>1. Front(t.inputs) \in Seq(Nat)
  BY FrontType DEF Typed
<1>2. /\ DOMAIN u = Fields /\ u.thr = t.thr /\ u.handlers = t.handlers /\ u.frames = t.frames
      /\ u.pushes = t.pushes /\ u.inputs = Front(t.inputs) /\ u.defers = t.defers
      /\ u.evaldepth = t.evaldepth /\ u.blocked = t.blocked
      /\ u.hasforked = t.hasforked /\ u.dead = t.dead
  BY DEF Typed, Fields, endinput
<1> HIDE DEF u
<1> QED BY <1>1, <1>2 DEF Beside, Typed, u

LEMMA UndeferBeside == ASSUME NEW t, Typed(t) PROVE Beside(t, undefer(t))
<1> DEFINE u == [t EXCEPT !.defers = Front(@)]
<1>1. Front(t.defers) \in Seq(Nat)
  BY FrontType DEF Typed
<1>2. /\ DOMAIN u = Fields /\ u.thr = t.thr /\ u.handlers = t.handlers /\ u.frames = t.frames
      /\ u.pushes = t.pushes /\ u.inputs = t.inputs /\ u.defers = Front(t.defers)
      /\ u.evaldepth = t.evaldepth /\ u.blocked = t.blocked
      /\ u.hasforked = t.hasforked /\ u.dead = t.dead
  BY DEF Typed, Fields
<1>3. undefer(t) \in {t, u}
  BY DEF undefer
<1> HIDE DEF u
<1>4. Beside(t, u) /\ Beside(t, t)
  BY <1>1, <1>2 DEF Beside, Typed
<1> QED BY <1>3, <1>4

LEMMA BlockBeside ==
    ASSUME NEW t, Typed(t)
    PROVE  Beside(t, unblocksignals(t)) /\ Beside(t, [t EXCEPT !.blocked = t.blocked + 1])
BY DEF Beside, Typed, Fields, unblocksignals

\* A return without the handlers being touched.
LEMMA Returned ==
    ASSUME NEW t, Alive(t), Len(t.frames) # 1
    PROVE  LET u == Return(t)
               n == Len(t.frames) - 1
           IN  /\ Alive(u) /\ u.handlers = t.handlers /\ u.thr = t.thr
               /\ Len(u.frames) = n /\ n \in Nat \ {0} /\ \A k \in 1..n : u.frames[k] = t.frames[k]
               /\ \A j \in 0..n : Live(u.frames, j) = Live(t.frames, j)
<1> DEFINE u == Return(t)
           f == t.frames
           n == Len(f) - 1
           g == SubSeq(f, 1, n)
<1>0. /\ Typed(t) /\ f \in Seq(FrameType) /\ Good(f) /\ Exec(f)
      /\ Len(f) \in Nat \ {0} /\ Len(f) # 1
  BY DEF Alive, Typed, Good
<1>1. /\ Typed(t) /\ f \in Seq(FrameType) /\ Good(f) /\ Exec(f) /\ n \in Nat \ {0}
      /\ n \in 1..Len(f)
  <2>1. Len(f) \in Nat \ {0} /\ Len(f) # 1
    BY <1>0
  <2>2. \A k \in Nat \ {0} : k # 1 => k - 1 \in Nat \ {0} /\ k - 1 \in 1..k
    OBVIOUS
  <2>3. n \in Nat \ {0} /\ n \in 1..Len(f)
    BY ONLY <2>1, <2>2
  <2> QED BY <1>0, <2>3
<1>2. /\ g \in Seq(FrameType) /\ Len(g) = n /\ \A k \in 1..n : g[k] = f[k]
      /\ Good(g) /\ Exec(g) /\ \A j \in 0..n : Live(g, j) = Live(f, j)
  <2> HIDE DEF n
  <2> QED BY <1>1, CutKeeps
<1>3. /\ DOMAIN u = Fields /\ u.thr = t.thr /\ u.handlers = t.handlers /\ u.frames = g
      /\ u.pushes = t.pushes /\ u.inputs = t.inputs /\ u.defers = t.defers
      /\ u.blocked = t.blocked
      /\ u.hasforked = t.hasforked /\ u.dead = t.dead
  BY <1>1 DEF Typed, Fields, Return, Front
<1>4. u.evaldepth \in Int
  BY <1>1 DEF Typed, Fields, Return
<1> HIDE DEF u, g
<1>5. Alive(u)
  BY <1>1, <1>2, <1>3, <1>4 DEF Alive, Typed
<1> QED BY <1>1, <1>2, <1>3, <1>5 DEF u

LEMMA Returning == ASSUME NEW t, Opened(t) PROVE Holds(Return(t))
<1>1. Alive(t) /\ Len(t.frames) # 1 /\ t.thr = NoThrow
      /\ Ats(t.handlers) = Live(t.frames, Len(t.frames) - 1)
  BY DEF Opened
<1> DEFINE u == Return(t)
           n == Len(t.frames) - 1
<1>2. /\ Alive(u) /\ u.handlers = t.handlers /\ u.thr = t.thr
      /\ Len(u.frames) = n /\ n \in Nat \ {0}
      /\ \A j \in 0..n : Live(u.frames, j) = Live(t.frames, j)
  BY <1>1, Returned
<1> HIDE DEF u, n
<1>3. Live(u.frames, n) = Live(t.frames, n)
  BY <1>2
<1> QED BY <1>1, <1>2, <1>3 DEF Holds, u, n

\* What the innermost frame adds to the live ones.
LEMMA LiveTop ==
    ASSUME NEW t, Holds(t), Len(t.frames) # 1
    PROVE  LET f == t.frames
               n == Len(t.frames)
           IN  /\ n - 1 \in Nat \ {0}
               /\ f[n].kind # "child" /\ f[n].thr = NoThrow =>
                    Ats(t.handlers) = Live(f, n - 1) \cup (IF f[n].kind \in Catching THEN {n} ELSE {})
<1> DEFINE f == t.frames
           m == Len(f) - 1
<1>1. Good(f) /\ Ats(t.handlers) = Live(f, m + 1) /\ m \in Nat \ {0} /\ m + 1 = Len(f)
  <2>1. Good(f) /\ Ats(t.handlers) = Live(f, Len(f)) /\ Len(f) # 1
    BY DEF Holds, Alive
  <2>2. Len(f) \in Nat \ {0}
    BY <2>1 DEF Good
  <2> HIDE DEF f
  <2>3. m \in Nat \ {0} /\ m + 1 = Len(f)
    BY <2>1, <2>2
  <2> QED BY <2>1, <2>3
<1>2. \A j \in 1..m : f[j].thr # NoThrow => f[j].thr.h.at \in 1..j - 1
  BY <1>1, GoodBefore
<1>3. f[m + 1].kind # "child" /\ f[m + 1].thr = NoThrow =>
        Live(f, m + 1) = Live(f, m) \cup (IF f[m + 1].kind \in Catching THEN {m + 1} ELSE {})
  <2> HIDE DEF m, f
  <2> QED BY <1>1, <1>2, LiveOrdinary
<1> QED BY <1>1, <1>3

LEMMA Popped ==
    ASSUME NEW t, Holds(t), Len(t.frames) # 1, t.frames[Len(t.frames)].kind \in Catching
    PROVE  Opened(pophandler(t)) /\ pophandler(t).frames = t.frames
<1> DEFINE u == pophandler(t)
           f == t.frames
           n == Len(f)
           q == t.handlers
<1>1. /\ Alive(t) /\ Typed(t) /\ Good(f) /\ n \in Nat \ {0} /\ t.thr = NoThrow
      /\ q \in Seq(Depths) /\ Rising(q)
  BY DEF Holds, Alive, Typed, Good
<1>2. f[n].kind # "child" /\ f[n].kind # "settor" /\ f[n].thr = NoThrow
  BY <1>1 DEF Catching, Good
<1>3. Ats(q) = Live(f, n - 1) \cup {n} /\ n - 1 \in Nat \ {0}
  BY <1>2, LiveTop
<1>4. q # <<>>
  BY <1>3 DEF Ats
<1>5. /\ Front(q) \in Seq(Depths) /\ Rising(Front(q))
      /\ Ats(Front(q)) = {k \in Ats(q) : k < Last(q).at}
      /\ \A k \in Ats(q) : k <= Last(q).at
      /\ Last(q).at \in Ats(q)
  BY <1>1, <1>4, FrontRising
<1>6. \A k \in Live(f, n - 1) : k \in 1..n - 1
  BY DEF Live
<1>7. Last(q).at = n
  BY <1>1, <1>3, <1>5, <1>6
<1>8. Ats(Front(q)) = Live(f, n - 1)
  BY <1>1, <1>3, <1>5, <1>6, <1>7
<1>9. /\ DOMAIN u = Fields /\ u.thr = t.thr /\ u.handlers = Front(q) /\ u.frames = f
      /\ u.pushes = t.pushes /\ u.inputs = t.inputs /\ u.defers = t.defers
      /\ u.evaldepth = t.evaldepth /\ u.blocked = t.blocked
      /\ u.hasforked = t.hasforked /\ u.dead = t.dead
  BY <1>1 DEF Typed, Fields, pophandler
<1> HIDE DEF u
<1>10. Alive(u)
  BY <1>1, <1>5, <1>9 DEF Alive, Typed
<1> QED BY <1>1, <1>8, <1>9, <1>10 DEF Opened, u

-----------------------------------------------------------------------------
(***************************************************************************)
(* A handler more, the next stage                                          *)
(***************************************************************************)
\* The frame of a construct, and its handler.
LEMMA Handling ==
    ASSUME NEW t, Alive(t), t.thr = NoThrow, NEW h \in Depths, h.at = Len(t.frames),
           t.frames[h.at].kind \in Catching, h.at # 1,
           Ats(t.handlers) = Live(t.frames, Len(t.frames) - 1)
    PROVE  Holds([t EXCEPT !.handlers = Append(t.handlers, h)])
<1> DEFINE f == t.frames
           n == Len(f)
           m == n - 1
           q == t.handlers
           u == [t EXCEPT !.handlers = Append(t.handlers, h)]
<1>1. /\ Typed(t) /\ Good(f) /\ n \in Nat \ {0} /\ q \in Seq(Depths) /\ Rising(q)
  BY DEF Alive, Typed, Good
<1>2. m \in Nat \ {0} /\ m + 1 = n
  BY <1>1
<1>3. f[n].kind # "child" /\ f[n].thr = NoThrow
  BY <1>1 DEF Catching, Good
<1>4. \A j \in 1..m : f[j].thr # NoThrow => f[j].thr.h.at \in 1..j - 1
  BY <1>1, <1>2, GoodBefore
<1>5. Live(f, n) = Live(f, m) \cup {n}
  <2> HIDE DEF m, f, n
  <2>1. /\ m \in Nat /\ f[m + 1].kind # "child" /\ f[m + 1].thr = NoThrow
        /\ f[m + 1].kind \in Catching
    BY <1>2, <1>3 DEF n, f
  <2> QED BY <1>2, <1>4, <2>1, LiveOrdinary
<1>6. \A k \in Live(f, m) : k < n
  BY <1>1 DEF Live
<1>7. /\ Append(q, h) \in Seq(Depths) /\ Rising(Append(q, h))
      /\ Ats(Append(q, h)) = Live(f, m) \cup {n}
  BY <1>1, <1>6, AppendRising
<1>8. /\ DOMAIN u = Fields /\ u.thr = t.thr /\ u.handlers = Append(q, h) /\ u.frames = f
      /\ u.pushes = t.pushes /\ u.inputs = t.inputs /\ u.defers = t.defers
      /\ u.evaldepth = t.evaldepth /\ u.blocked = t.blocked
      /\ u.hasforked = t.hasforked /\ u.dead = t.dead
  BY <1>1 DEF Typed, Fields
<1> HIDE DEF u
<1>9. Alive(u)
  BY <1>1, <1>7, <1>8 DEF Alive, Typed
<1> QED BY <1>5, <1>7, <1>8, <1>9 DEF Holds, u

LEMMA Pushhandler ==
    ASSUME NEW t, Alive(t), t.thr = NoThrow, Len(t.frames) # 1,
           t.frames[Len(t.frames)].kind \in Catching,
           Ats(t.handlers) = Live(t.frames, Len(t.frames) - 1)
    PROVE  Holds(pushhandler(t))
<1>1. Handler(t) \in Depths /\ Handler(t).at = Len(t.frames)
  BY DEF Handler, Depths, Alive, Typed
<1> QED BY <1>1, Handling DEF pushhandler

\* The innermost frame goes on to its next stage.
LEMMA Staging ==
    ASSUME NEW t, Holds(t), NEW stage \in Text,
           t.frames[Len(t.frames)].kind # "settor"
    PROVE  LET u == Stage(t, stage) IN
           /\ Holds(u) /\ Len(u.frames) = Len(t.frames)
           /\ u.frames[Len(u.frames)].kind = t.frames[Len(t.frames)].kind
           /\ u.frames[Len(u.frames)].stage = stage
<1> DEFINE f == t.frames
           n == Len(f)
           u == Stage(t, stage)
           y == [f[n] EXCEPT !.stage = stage]
           g == [f EXCEPT ![n] = y]
<1>1. /\ Typed(t) /\ Alive(t) /\ Good(f) /\ Exec(f) /\ f \in Seq(FrameType) /\ n \in Nat \ {0}
      /\ f[n] \in FrameType
  BY DEF Holds, Alive, Typed, Good
<1>2. /\ y \in FrameType /\ y.stage = stage
      /\ y.kind = f[n].kind /\ y.inchild = f[n].inchild /\ y.thr = f[n].thr
  BY <1>1, FrameStage
<1>3. /\ DOMAIN u = Fields /\ u.thr = t.thr /\ u.handlers = t.handlers /\ u.frames = g
      /\ u.pushes = t.pushes /\ u.inputs = t.inputs /\ u.defers = t.defers
      /\ u.evaldepth = t.evaldepth /\ u.blocked = t.blocked
      /\ u.hasforked = t.hasforked /\ u.dead = t.dead
  BY <1>1 DEF Typed, Fields, Stage
<1> HIDE DEF u, y
<1>4. g \in Seq(FrameType) /\ Len(g) = n /\ g[n] = y /\ \A k \in 1..n - 1 : g[k] = f[k]
  BY <1>1, <1>2
<1> HIDE DEF g
<1>5. Good(g) /\ Exec(g) /\ \A j \in 0..n : Live(g, j) = Live(f, j)
  BY <1>1, <1>2, <1>4, TopKeeps
<1>6. Alive(u)
  BY <1>1, <1>3, <1>4, <1>5 DEF Alive, Typed
<1>7. Live(g, n) = Live(f, n)
  BY <1>1, <1>5
<1>8. Holds(u)
  BY <1>3, <1>4, <1>6, <1>7 DEF Holds
<1> QED BY <1>2, <1>3, <1>4, <1>8 DEF u

LEMMA Binding ==
    ASSUME NEW t, Holds(t), NEW v \in Text, t.frames[Len(t.frames)].kind # "settor"
    PROVE  Holds(Bind(t, v))
<1> DEFINE u == Push(t, v)
<1>1. Beside(t, u)
  BY PushBeside DEF Holds, Alive
<1>2. Holds(u) /\ u.frames = t.frames
  BY <1>1, BesideKeeps DEF Beside
<1>3. "body" \in Text
  BY Texts
<1> HIDE DEF u
<1>4. Holds(Stage(u, "body"))
  BY <1>2, <1>3, Staging
<1> QED BY <1>4 DEF Bind, u

\* A catch becomes its catcher, or the catcher the catch.
LEMMA Becoming ==
    ASSUME NEW t, Opened(t), NEW kind \in {"catch", "catcher"},
           t.frames[Len(t.frames)].kind \in {"catch", "catcher"}
    PROVE  Holds(Becomes(t, kind))
<1> DEFINE f == t.frames
           n == Len(f)
           y == [f[n] EXCEPT !.kind = kind]
           g == Append(Front(f), y)
           u == [t EXCEPT !.frames = g]
<1>1. /\ Typed(t) /\ Alive(t) /\ Good(f) /\ Exec(f) /\ f \in Seq(FrameType) /\ n \in Nat \ {0}
      /\ n # 1 /\ f[n] \in FrameType
  BY DEF Opened, Alive, Typed, Good
<1>2. kind \in AllKinds
  BY DEF AllKinds, Catching
<1>3. /\ y \in FrameType /\ y.kind = kind
      /\ y.stage = f[n].stage /\ y.inchild = f[n].inchild /\ y.thr = f[n].thr
  BY <1>1, <1>2, FrameKind
<1>4. /\ DOMAIN u = Fields /\ u.thr = t.thr /\ u.handlers = t.handlers /\ u.frames = g
      /\ u.pushes = t.pushes /\ u.inputs = t.inputs /\ u.defers = t.defers
      /\ u.evaldepth = t.evaldepth /\ u.blocked = t.blocked
      /\ u.hasforked = t.hasforked /\ u.dead = t.dead
  BY <1>1 DEF Typed, Fields
<1>5. Becomes(t, kind) = pushhandler(u)
  <2>1. Last(f) = f[n]
    BY DEF Last
  <2> QED BY <2>1 DEF Becomes
<1> HIDE DEF u, y
<1>6. g \in Seq(FrameType) /\ Len(g) = n /\ g[n] = y /\ \A k \in 1..n - 1 : g[k] = f[k]
  <2>1. Front(f) \in Seq(FrameType) /\ Len(Front(f)) = n - 1
        /\ \A k \in 1..n - 1 : Front(f)[k] = f[k]
    BY <1>1 DEF Front
  <2> QED BY <1>1, <1>3, <2>1
<1> HIDE DEF g
<1>7. Good(g) /\ Exec(g) /\ \A j \in 0..n : Live(g, j) = Live(f, j)
  BY <1>1, <1>3, <1>6, TopKeeps
<1>8. Alive(u)
  BY <1>1, <1>4, <1>6, <1>7 DEF Alive, Typed
<1>9. Ats(u.handlers) = Live(u.frames, Len(u.frames) - 1) /\ u.thr = NoThrow
  BY <1>1, <1>4, <1>6, <1>7 DEF Opened
<1>10. Len(u.frames) # 1 /\ u.frames[Len(u.frames)].kind \in Catching
  BY <1>1, <1>3, <1>4, <1>6 DEF Catching
<1>11. Holds(pushhandler(u))
  BY <1>8, <1>9, <1>10, Pushhandler
<1> QED BY <1>5, <1>11

-----------------------------------------------------------------------------
(***************************************************************************)
(* Throwing                                                                *)
(***************************************************************************)
\* Control is back with the handler of a throw: the frames above its own are gone.
Back(t) ==
    [t EXCEPT !.evaldepth = t.thr.h.evaldepth, !.thr = NoThrow,
              !.frames = SubSeq(t.frames, 1, t.thr.h.at)]

LEMMA GoingBack ==
    ASSUME NEW t, Thrown(t), t.thr.h.at # 1
    PROVE  Opened(Back(t)) /\ Back(t).frames[Len(Back(t).frames)].kind \in Catching \ {"main"}
<1> DEFINE f == t.frames
           m == t.thr.h.at
           g == SubSeq(f, 1, m)
           u == Back(t)
<1>1. /\ Typed(t) /\ Alive(t) /\ Good(f) /\ Exec(f) /\ f \in Seq(FrameType) /\ m \in Live(f, Len(f))
      /\ Len(f) \in Nat \ {0}
  BY DEF Thrown, Alive, Typed, Good
<1>2. m \in 1..Len(f) /\ f[m].kind \in Catching /\ f[m].thr = NoThrow /\ m # 1
  BY <1>1, LiveFrames
<1>3. f[m].kind # "main"
  BY <1>1, <1>2 DEF Good
<1>4. /\ g \in Seq(FrameType) /\ Len(g) = m /\ \A k \in 1..m : g[k] = f[k]
      /\ Good(g) /\ Exec(g) /\ \A j \in 0..m : Live(g, j) = Live(f, j)
  <2> HIDE DEF m
  <2> QED BY <1>1, <1>2, CutKeeps
<1>5. /\ DOMAIN u = Fields /\ u.thr = NoThrow /\ u.handlers = t.handlers /\ u.frames = g
      /\ u.evaldepth = t.thr.h.evaldepth
      /\ u.pushes = t.pushes /\ u.inputs = t.inputs /\ u.defers = t.defers
      /\ u.blocked = t.blocked
      /\ u.hasforked = t.hasforked /\ u.dead = t.dead
  BY <1>1 DEF Typed, Fields, Back
<1>6. t.thr.h.evaldepth \in Int
  BY <1>1 DEF Typed, Throws, Depths
<1> HIDE DEF u, g
<1>7. Alive(u)
  BY <1>1, <1>4, <1>5, <1>6, NoThrowType DEF Alive, Typed
<1>8. Live(f, m) = {k \in Live(f, Len(f)) : k <= m}
  <2> HIDE DEF m, f
  <2> QED BY <1>1, <1>2, LiveCut
<1>9. \A j \in 1..m - 1 : f[j].thr # NoThrow => f[j].thr.h.at \in 1..j - 1
  BY <1>1, <1>2, GoodBefore, SMTT(40)
<1>10. Live(f, m) = Live(f, m - 1) \cup {m}
  <2> DEFINE i == m - 1
  <2>1. i \in Nat /\ i + 1 = m
    BY <1>2
  <2>2. f[i + 1].kind \in Catching /\ f[i + 1].kind # "child" /\ f[i + 1].thr = NoThrow
    BY <1>2, <2>1 DEF Catching
  <2> HIDE DEF i, f, m
  <2>3. \A j \in 1..i : f[j].thr # NoThrow => f[j].thr.h.at \in 1..j - 1
    BY <1>9 DEF i
  <2>4. Live(f, i + 1) = Live(f, i) \cup {i + 1}
    BY <2>1, <2>2, <2>3, LiveOrdinary
  <2> QED BY <2>1, <2>4 DEF i
<1>11. \A k \in Live(f, m - 1) : k < m
  BY <1>2 DEF Live
<1>12. \A k \in Live(f, Len(f)) : k \in Int
  BY DEF Live
<1>13. Below(f, m) = Live(f, m - 1)
  <2> HIDE DEF m, f
  <2>1. m \in Int
    BY <1>2
  <2> QED BY <1>8, <1>10, <1>11, <1>12, <2>1 DEF Below
<1>14. Ats(u.handlers) = Live(g, m - 1)
  BY <1>2, <1>4, <1>5, <1>13 DEF Thrown
<1> QED BY <1>2, <1>3, <1>4, <1>5, <1>7, <1>14 DEF Opened, u

\* A construct that rethrows, its handler off.
LEMMA Rethrowing ==
    ASSUME NEW t, Opened(t), t.frames[Len(t.frames)].kind \in Catching,
           NEW e \in Text, e # "none"
    PROVE  Ok(Rethrow(t, e))
<1> DEFINE f == t.frames
           n == Len(f)
           m == n - 1
<1>1. Alive(t) /\ Good(f) /\ n \in Nat \ {0} /\ n # 1 /\ Ats(t.handlers) = Live(f, m)
  BY DEF Opened, Alive, Good
<1>2. m \in Nat /\ m + 1 = n /\ f[n].kind # "child" /\ f[n].thr = NoThrow
  BY <1>1 DEF Catching, Good
<1>3. \A j \in 1..m : f[j].thr # NoThrow => f[j].thr.h.at \in 1..j - 1
  BY <1>1, GoodBefore
<1>4. Live(f, n) = Live(f, m) \cup {n}
  <2>1. f[n].kind \in Catching
    OBVIOUS
  <2> HIDE DEF m, f, n
  <2> QED BY <1>2, <1>3, <2>1, LiveOrdinary
<1>5. \A k \in Live(f, m) : k < n
  BY <1>1 DEF Live
<1>6. Below(f, n) = Live(f, m) /\ n \in Int
  <2> HIDE DEF m
  <2> QED BY <1>1, <1>4, <1>5 DEF Below
<1>7. Ats(t.handlers) = Below(t.frames, n)
  BY <1>1, <1>6
<1> HIDE DEF n
<1> QED BY <1>1, <1>6, <1>7, Throwing DEF Rethrow

LEMMA Opens ==
    ASSUME NEW t, Opened(t), NEW u, Beside(t, u)
    PROVE  Opened(u) /\ u.frames = t.frames
BY BesideKeeps DEF Beside

LEMMA OpenTyped == ASSUME NEW t, Opened(t) PROVE Typed(t)
BY DEF Opened, Alive

LEMMA ReturningOn ==
    ASSUME NEW t, Opened(t), t.frames[Len(t.frames)].kind \in Catching,
           NEW e \in Text, e # "none", NEW caught
    PROVE  Ok(ReturnOn(t, e, caught))
BY Rethrowing, Returning DEF ReturnOn, Ok

\* The catch clauses.
LEMMA Catches ==
    ASSUME NEW t, Opened(t), t.frames[Len(t.frames)].kind \in Catching \ {"main"},
           NEW e \in Text, e # "none"
    PROVE  Ok(Caught(t, e))
<1> DEFINE kind == Last(t.frames).kind
           u == Caught(t, e)
<1>1. kind = t.frames[Len(t.frames)].kind
  BY DEF Last
<1>2. kind \in Catching \ {"main"}
  BY <1>1
<1>3. Typed(t)
  BY OpenTyped
<1>4. CASE kind = "run"
  <2>1. Opened(endinput(t)) /\ endinput(t).frames = t.frames
    BY <1>3, EndinputBeside, Opens
  <2>2. Ok(Rethrow(endinput(t), e))
    BY <2>1, Rethrowing
  <2> QED BY <1>4, <2>2 DEF Caught
<1>5. CASE kind = "loop"
  BY <1>5, ReturningOn DEF Caught
<1>6. CASE kind = "catch"
  <2> DEFINE w == [t EXCEPT !.blocked = t.blocked + 1]
  <2>1. Opened(w) /\ w.frames = t.frames
    BY <1>3, BlockBeside, Opens
  <2> HIDE DEF w
  <2>2. Holds(Becomes(w, "catcher"))
    BY <1>1, <1>6, <2>1, Becoming
  <2> QED BY <1>6, <2>2 DEF Caught, frombody, Ok, w
<1>7. CASE kind = "catcher"
  <2> DEFINE w == unblocksignals(t)
  <2>1. Opened(w) /\ w.frames = t.frames
    BY <1>3, BlockBeside, Opens
  <2> HIDE DEF w
  <2>2. Holds(Becomes(w, "catch")) /\ Ok(Rethrow(w, e))
    BY <1>1, <1>7, <2>1, Becoming, Rethrowing
  <2> QED BY <1>7, <2>2 DEF Caught, fromcatcher, Ok, w
<1>8. CASE kind = "fn"
  BY <1>8, ReturningOn DEF Caught
<1>9. CASE kind = "for"
  BY <1>9, ReturningOn DEF Caught
<1>10. CASE kind = "redir"
  <2>1. Opened(undefer(t)) /\ undefer(t).frames = t.frames
    BY <1>3, UndeferBeside, Opens
  <2>2. Ok(Rethrow(undefer(t), e))
    BY <2>1, Rethrowing
  <2> QED BY <1>10, <2>2 DEF Caught
<1>11. CASE kind \in {"readfrom", "writeto"}
  <2>1. Ok(Rethrow(t, e))
    BY Rethrowing
  <2> QED BY <1>11, <2>1 DEF Caught
<1> QED BY <1>2, <1>4, <1>5, <1>6, <1>7, <1>8, <1>9, <1>10, <1>11 DEF Catching

\* A step of throw.
LEMMA Unwinding == ASSUME NEW t, Thrown(t) PROVE Ok(Unwind(t))
<1> DEFINE h == t.thr.h
           v == Last(t.pushes)
<1>1. Typed(t) /\ Good(t.frames) /\ t.pushes \in Seq(Text) /\ t.thr \in Throws /\ t.thr # NoThrow
  BY DEF Thrown, Alive, Typed
<1>2. CASE Len(t.pushes) > h.pushes
  <2>1. h.pushes \in Nat
    BY <1>1 DEF Throws, Depths
  <2>2. v \in Text
    BY <1>1, <1>2, <2>1 DEF Last
  <2>3. Ok(callsettor(t, v))
    BY <2>2, SettorBegins
  <2>4. Thrown(Pop(t))
    BY <1>1, PopBeside, BesideKeeps
  <2> QED BY <1>2, <2>3, <2>4 DEF Unwind, Ok
<1>3. CASE ~(Len(t.pushes) > h.pushes)
  <2>1. Unwind(t) = Caught(Back(t), t.thr.e)
    BY <1>3 DEF Unwind, Back
  <2>2. CASE h.at # 1
    <3>1. /\ Opened(Back(t))
          /\ Back(t).frames[Len(Back(t).frames)].kind \in Catching \ {"main"}
      BY <2>2, GoingBack
    <3>2. t.thr.e \in Text
      BY <1>1 DEF Throws
    <3>3. t.thr.e # "none"
      BY <1>1 DEF Throws
    <3> QED BY <2>1, <3>1, <3>2, <3>3, Catches
  <2>3. CASE h.at = 1
    <3> DEFINE u == Back(t)
    <3>1. DOMAIN u = Fields /\ u.frames = SubSeq(t.frames, 1, 1)
      BY <1>1, <2>3 DEF Back, Typed, Fields
    <3>2. Last(u.frames).kind = "main"
      <4>1. t.frames \in Seq(FrameType) /\ Len(t.frames) \in Nat \ {0} /\ t.frames[1].kind = "main"
        BY <1>1 DEF Good, Typed
      <4>2. Len(SubSeq(t.frames, 1, 1)) = 1 /\ SubSeq(t.frames, 1, 1)[1] = t.frames[1]
        BY <4>1
      <4> QED BY <3>1, <4>1, <4>2 DEF Last
    <3> HIDE DEF u
    <3>3. Caught(u, t.thr.e).dead = "exit"
      BY <3>1, <3>2 DEF Caught, Dead, Fields
    <3> QED BY <2>1, <3>3 DEF Ok, Gone, u
  <2> QED BY <2>2, <2>3
<1> QED BY <1>2, <1>3

-----------------------------------------------------------------------------
(***************************************************************************)
(* Constructs                                                              *)
(***************************************************************************)
\* The frame that a construct begins with, and t with that frame.
First(t, kind, v) ==
    Frame(kind, v, Inchild(kind, Handed(t)),
            CASE kind = "seq" -> "first" [] kind = "local" -> "push" [] OTHER -> "body")
Into(t, kind, v) == [Eval(t, kind) EXCEPT !.frames = Append(t.frames, First(t, kind, v))]
Kinds == ((Catching \cup Evaluated) \ {"main", "catcher", "settor"}) \cup {"local"}

LEMMA FirstFrame ==
    ASSUME NEW t, Holds(t), NEW kind \in Kinds, NEW v \in Text
    PROVE  LET x == First(t, kind, v)
               y == t.frames[Len(t.frames)]
           IN  /\ x \in FrameType /\ x.kind = kind /\ x.thr = NoThrow /\ x.v = v
               /\ x.inchild => \/ x.kind \in {"exec", "child"}
                               \/ /\ y.inchild /\ y.stage # "first"
                                  /\ x.kind \notin {"run", "loop", "for", "settor"}
               /\ kind = "local" => x.stage = "push"
<1> DEFINE y == t.frames[Len(t.frames)]
           inchild == Inchild(kind, Handed(t))
           stage == CASE kind = "seq" -> "first" [] kind = "local" -> "push" [] OTHER -> "body"
           x == First(t, kind, v)
<1>1. kind \in AllKinds
  BY DEF Kinds, AllKinds
<1>2. stage \in Text /\ (kind = "local" => stage = "push")
  BY Texts
<1>3. y \in FrameType /\ y.inchild \in BOOLEAN
  <2>1. y \in FrameType
    BY DEF Holds, Alive, Typed, Good
  <2> HIDE DEF y
  <2> QED BY <2>1 DEF FrameType
<1>4. inchild \in BOOLEAN
  BY <1>3 DEF Inchild, Handed, Last
<1>5. inchild => \/ kind \in {"exec", "child"}
                 \/ /\ y.inchild /\ y.stage # "first"
                    /\ kind \notin {"run", "loop", "for", "settor"}
  BY DEF Inchild, Handed, Last, Kinds
<1>6. /\ x \in FrameType /\ x.kind = kind /\ x.thr = NoThrow /\ x.v = v
      /\ x.inchild = inchild /\ x.stage = stage
  <2>1. x = Frame(kind, v, inchild, stage)
    BY DEF First
  <2> HIDE DEF inchild, stage, x
  <2> QED BY <1>1, <1>2, <1>4, <2>1, NoThrowType DEF Frame, FrameType
<1> HIDE DEF inchild, stage, x
<1> QED BY <1>2, <1>5, <1>6 DEF x

LEMMA Entered ==
    ASSUME NEW t, Holds(t), NEW kind \in Kinds, NEW v \in Text
    PROVE  LET u == Into(t, kind, v)
               n == Len(t.frames)
               x == First(t, kind, v)
           IN  /\ Alive(u) /\ u.thr = NoThrow /\ n \in Nat \ {0}
               /\ Len(u.frames) = n + 1 /\ u.frames[n + 1] = x /\ u.frames[1].kind = "main"
               /\ x.kind = kind /\ x.thr = NoThrow /\ (kind = "local" => x.stage = "push")
               /\ Ats(u.handlers) = Live(u.frames, n) /\ u.pushes = t.pushes
<1> DEFINE u == Into(t, kind, v)
           f == t.frames
           n == Len(f)
           x == First(t, kind, v)
           g == Append(f, x)
<1>1. /\ Typed(t) /\ Alive(t) /\ Good(f) /\ Exec(f) /\ f \in Seq(FrameType) /\ n \in Nat \ {0}
      /\ t.thr = NoThrow /\ Ats(t.handlers) = Live(f, n)
  BY DEF Holds, Alive, Typed, Good
<1>2. /\ x \in FrameType /\ x.kind = kind /\ x.thr = NoThrow
      /\ x.inchild => \/ x.kind \in {"exec", "child"}
                      \/ /\ f[n].inchild /\ f[n].stage # "first"
                         /\ x.kind \notin {"run", "loop", "for", "settor"}
      /\ kind = "local" => x.stage = "push"
  BY FirstFrame
<1>3. x.kind # "main" /\ x.kind # "settor"
  BY <1>2 DEF Kinds
<1>4. /\ DOMAIN u = Fields /\ u.thr = NoThrow /\ u.handlers = t.handlers /\ u.frames = g
      /\ u.pushes = t.pushes /\ u.inputs = t.inputs /\ u.defers = t.defers
      /\ u.blocked = t.blocked
      /\ u.hasforked = t.hasforked /\ u.dead = t.dead
  BY <1>1 DEF Typed, Fields, Into, Eval
<1>5. u.evaldepth \in Int
  BY <1>1 DEF Typed, Fields, Into, Eval
<1> HIDE DEF u, x
<1>6. /\ g \in Seq(FrameType) /\ Len(g) = n + 1 /\ g[n + 1] = x /\ \A k \in 1..n : g[k] = f[k]
      /\ Good(g) /\ Exec(g) /\ \A j \in 0..n : Live(g, j) = Live(f, j)
  BY <1>1, <1>2, <1>3, AppendKeeps
<1> HIDE DEF g
<1>7. Alive(u)
  BY <1>1, <1>4, <1>5, <1>6, NoThrowType DEF Alive, Typed
<1>8. Ats(u.handlers) = Live(g, n)
  BY <1>1, <1>4, <1>6
<1>9. g[1].kind = "main"
  BY <1>1, <1>6 DEF Good
<1> QED BY <1>1, <1>2, <1>4, <1>6, <1>7, <1>8, <1>9 DEF u, x

\* A construct without a handler.
LEMMA Plainly ==
    ASSUME NEW t, Holds(t), NEW kind \in Kinds \ Catching, kind # "child", NEW v \in Text
    PROVE  Holds(Into(t, kind, v))
<1> DEFINE u == Into(t, kind, v)
           n == Len(t.frames)
           g == u.frames
<1>1. /\ Alive(u) /\ u.thr = NoThrow /\ n \in Nat \ {0} /\ Len(g) = n + 1
      /\ g[n + 1].kind = kind /\ g[n + 1].thr = NoThrow
      /\ Ats(u.handlers) = Live(g, n)
  BY Entered
<1> HIDE DEF u, n
<1>2. Good(g)
  BY <1>1 DEF Alive
<1> HIDE DEF g
<1>3. \A j \in 1..n : g[j].thr # NoThrow => g[j].thr.h.at \in 1..j - 1
  BY <1>1, <1>2, GoodBefore
<1>4. Live(g, n + 1) = Live(g, n)
  BY <1>1, <1>3, LiveOrdinary
<1> QED BY <1>1, <1>4 DEF Holds, u, g

\* One with a handler, when u is as well off as at its beginning.
LEMMA Guarded ==
    ASSUME NEW t, Holds(t), NEW kind \in Kinds \cap Catching, NEW v \in Text,
           NEW u, Beside(Into(t, kind, v), u)
    PROVE  Holds(pushhandler(u))
<1> DEFINE w == Into(t, kind, v)
           n == Len(t.frames)
<1>1. kind \in Kinds /\ kind \in Catching
  OBVIOUS
<1>2. /\ Alive(w) /\ w.thr = NoThrow /\ n \in Nat \ {0} /\ Len(w.frames) = n + 1
      /\ w.frames[n + 1].kind = kind /\ Ats(w.handlers) = Live(w.frames, n)
  BY <1>1, Entered
<1> HIDE DEF w, n
<1>3. Alive(u) /\ u.frames = w.frames /\ u.handlers = w.handlers /\ u.thr = w.thr
  BY <1>2, BesideKeeps DEF Beside, w
<1>4. Len(u.frames) = n + 1
  BY <1>2, <1>3
<1>5. Len(u.frames) # 1 /\ Len(u.frames) - 1 = n
  <2>1. \A k : k = n + 1 => k # 1 /\ k - 1 = n
    BY <1>2
  <2> QED BY <1>4, <2>1
<1>6. u.frames[Len(u.frames)].kind \in Catching /\ Ats(u.handlers) = Live(u.frames, n)
  BY <1>1, <1>2, <1>3, <1>4
<1> QED BY <1>2, <1>3, <1>5, <1>6, Pushhandler

LEMMA RootHandler == <<Root>> \in Seq(Depths) /\ Rising(<<Root>>) /\ Ats(<<Root>>) = {1}
<1>1. Root \in Depths /\ Root.at = 1
  BY NoThrowType DEF Root
<1>2. \A i : i \in DOMAIN <<Root>> <=> i = 1
  OBVIOUS
<1> QED BY <1>1, <1>2 DEF Rising, Ats

LEMMA Forked ==
    ASSUME NEW t, Holds(t), NEW v \in Text
    PROVE  Holds(newchildcatcher(Into(t, "child", v)))
<1> DEFINE w == Into(t, "child", v)
           n == Len(t.frames)
           g == w.frames
           u == newchildcatcher(w)
<1>1. "child" \in Kinds
  BY DEF Kinds, Evaluated
<1>2. /\ Alive(w) /\ w.thr = NoThrow /\ n \in Nat \ {0} /\ Len(g) = n + 1
      /\ g[n + 1].kind = "child" /\ g[n + 1].thr = NoThrow /\ g[1].kind = "main"
  BY <1>1, Entered
<1> HIDE DEF w, n
<1>3. Good(g) /\ Typed(w)
  BY <1>2 DEF Alive
<1>4. /\ DOMAIN u = Fields /\ u.thr = w.thr /\ u.handlers = <<Root>> /\ u.frames = g
      /\ u.pushes = w.pushes /\ u.inputs = w.inputs /\ u.defers = w.defers
      /\ u.evaldepth = w.evaldepth /\ u.blocked = w.blocked
      /\ u.hasforked = TRUE /\ u.dead = w.dead
  BY <1>3 DEF Typed, Fields, newchildcatcher
<1> HIDE DEF u, g
<1>5. \A j \in 1..n : g[j].thr # NoThrow => g[j].thr.h.at \in 1..j - 1
  BY <1>2, <1>3, GoodBefore
<1>6. Live(g, n + 1) = {1}
  BY <1>2, <1>5, LiveForked
<1>7. <<Root>> \in Seq(Depths) /\ Rising(<<Root>>) /\ Ats(<<Root>>) = {1}
  BY RootHandler
<1>8. Alive(u)
  BY <1>2, <1>3, <1>4, <1>7 DEF Alive, Typed, g
<1>9. Ats(u.handlers) = Live(u.frames, Len(u.frames)) /\ u.thr = NoThrow
  BY <1>2, <1>4, <1>6, <1>7
<1> QED BY <1>8, <1>9 DEF Holds, u, w, g

LEMMA Entering ==
    ASSUME NEW t, Holds(t), NEW kind \in Kinds, NEW v \in Text
    PROVE  Ok(Enter(t, kind, v))
<1> DEFINE u == Into(t, kind, v)
           e == Enter(t, kind, v)
           d == [t EXCEPT !.evaldepth = t.evaldepth + 1]
<1>1. Alive(u) /\ Typed(u) /\ u.frames[Len(u.frames)].kind = kind /\ u.thr = NoThrow
      /\ Beside(u, u) /\ (kind = "local" => u.frames[Len(u.frames)].stage = "push")
  <2>1. /\ Alive(u) /\ Len(u.frames) = Len(t.frames) + 1 /\ u.thr = NoThrow
        /\ u.frames[Len(t.frames) + 1] = First(t, kind, v)
        /\ First(t, kind, v).kind = kind
        /\ kind = "local" => First(t, kind, v).stage = "push"
    BY Entered
  <2> HIDE DEF u
  <2> QED BY <2>1 DEF Alive, Beside
<1>2. CASE TooDeep(t, kind)
  <2>1. Typed(t)
    BY DEF Holds, Alive
  <2>2. Beside(t, d)
    BY <2>1 DEF Beside, Typed, Fields
  <2> HIDE DEF d
  <2>3. Holds(d)
    BY <2>2, BesideKeeps
  <2>4. "error" \in Text /\ "error" # "none"
    BY Texts
  <2>5. Ok(Throw(d, "error"))
    <3>1. Alive(d) /\ Ats(d.handlers) = Live(d.frames, Len(d.frames)) /\ 0 \in Int
      BY <2>3 DEF Holds
    <3> QED BY <2>4, <3>1, Throwing
  <2> QED BY <1>2, <2>5 DEF Enter, d
<1>3. CASE ~TooDeep(t, kind)
  <2>1. \A w : Beside(u, w) /\ kind \in Catching => Holds(pushhandler(w))
    BY Guarded
  <2>2. \A w : Beside(u, w) => Typed(w)
    BY DEF Beside
  <2>3. \A w, x : Beside(u, w) /\ Beside(w, x) => Beside(u, x)
    BY DEF Beside
  <2>4. "0" \in Text /\ "fd" \in Text /\ "fn-%dispatch" \in Text
    BY Texts
  <2>5. CASE kind = "run"
    <3> DEFINE w == [u EXCEPT !.inputs = Append(@, Len(u.frames))]
    <3>1. Beside(u, w)
      <4>1. Append(u.inputs, Len(u.frames)) \in Seq(Nat)
        BY <1>1 DEF Typed
      <4> HIDE DEF u
      <4> QED BY <1>1, <4>1 DEF Beside, Typed, Fields
    <3> HIDE DEF w
    <3>2. Holds(pushhandler(w))
      BY <2>1, <2>5, <3>1 DEF Catching
    <3>3. Holds(Push(pushhandler(w), "fn-%dispatch"))
      BY <2>4, <3>2, PushBeside, BesideKeeps DEF Holds, Alive
    <3>4. e = Push(pushhandler(w), "fn-%dispatch")
      BY <1>3, <2>5 DEF Enter, runinput, Into, First, w
    <3> QED BY <3>3, <3>4 DEF Ok
  <2>6. CASE kind = "fn"
    <3>1. Holds(pushhandler(u))
      BY <1>1, <2>1, <2>6 DEF Catching
    <3>2. Holds(Push(pushhandler(u), "0"))
      BY <2>4, <3>1, PushBeside, BesideKeeps DEF Holds, Alive
    <3>3. e = Push(pushhandler(u), "0")
      BY <1>3, <2>6 DEF Enter, lambda, Into, First
    <3> QED BY <3>2, <3>3 DEF Ok
  <2>7. CASE kind = "redir"
    <3> DEFINE w == IF Last(u.frames).inchild THEN u
                    ELSE [u EXCEPT !.defers = Append(@, Len(u.frames))]
    <3>1. Beside(u, w)
      <4>1. Append(u.defers, Len(u.frames)) \in Seq(Nat)
        BY <1>1 DEF Typed
      <4> HIDE DEF u
      <4>2. Beside(u, [u EXCEPT !.defers = Append(@, Len(u.frames))])
        BY <1>1, <4>1 DEF Beside, Typed, Fields
      <4> QED BY <1>1, <4>2
    <3> HIDE DEF w
    <3>2. Holds(pushhandler(w))
      BY <2>1, <2>7, <3>1 DEF Catching
    <3>3. e = pushhandler(w)
      BY <1>3, <2>7 DEF Enter, redir, Into, First, w
    <3> QED BY <3>2, <3>3 DEF Ok
  <2>8. CASE kind \in {"readfrom", "writeto"}
    <3>1. Beside(u, Push(u, "fd"))
      BY <1>1, <2>4, PushBeside
    <3>2. Holds(pushhandler(Push(u, "fd")))
      BY <2>1, <2>8, <3>1 DEF Catching
    <3>3. e = pushhandler(Push(u, "fd"))
      BY <1>3, <2>8 DEF Enter, readfrom, Into, First
    <3> QED BY <3>2, <3>3 DEF Ok
  <2>9. CASE kind \in {"loop", "catch", "for"}
    <3>1. Holds(pushhandler(u))
      BY <1>1, <2>1, <2>9 DEF Catching
    <3>2. e = pushhandler(u)
      BY <1>3, <2>9 DEF Enter, batchloop, catch, forloop, Into, First
    <3> QED BY <3>1, <3>2 DEF Ok
  <2>10. CASE kind = "local"
    <3>1. kind \in Kinds \ Catching /\ kind # "child"
      BY <2>10 DEF Catching
    <3>2. Holds(u)
      BY <3>1, Plainly
    <3>3. e = localbind(u, v)
      BY <1>3, <2>10 DEF Enter, Into, First
    <3> HIDE DEF u
    <3>4. OverLocal(u.frames[Len(u.frames)])
      BY <1>1, <2>10 DEF OverLocal
    <3>5. Ok(callsettor(u, v))
      BY <3>2, <3>4, SettorBegins
    <3>6. Holds(Bind(u, v))
      BY <1>1, <2>10, <3>2, Binding
    <3> QED BY <3>3, <3>5, <3>6 DEF localbind, Ok
  <2>11. CASE kind = "child"
    <3>1. Holds(newchildcatcher(u))
      BY <2>11, Forked
    <3>2. e = newchildcatcher(u)
      BY <1>3, <2>11 DEF Enter, Into, First
    <3> QED BY <3>1, <3>2 DEF Ok
  <2>12. CASE kind \in {"seq", "exec"}
    <3>1. kind \in Kinds \ Catching /\ kind # "child"
      BY <2>12 DEF Catching
    <3>2. Holds(u)
      BY <3>1, Plainly
    <3>3. e = u
      BY <1>3, <2>12 DEF Enter, Into, First
    <3> QED BY <3>2, <3>3 DEF Ok
  <2> QED BY <2>5, <2>6, <2>7, <2>8, <2>9, <2>10, <2>11, <2>12
           DEF Kinds, Catching, Evaluated
<1> QED BY <1>2, <1>3

LEMMA Leaving ==
    ASSUME NEW t, Holds(t), Last(t.frames).kind # "loop"
    PROVE  Ok(Leave(t))
<1> DEFINE n == Len(t.frames)
           f == Last(t.frames)
           kind == f.kind
           e == Leave(t)
<1>1. Typed(t) /\ Alive(t) /\ Good(t.frames) /\ n \in Nat \ {0} /\ t.thr = NoThrow
      /\ f = t.frames[n] /\ f \in FrameType /\ kind \in AllKinds
  <2>1. Typed(t) /\ Alive(t) /\ Good(t.frames) /\ n \in Nat \ {0} /\ t.thr = NoThrow
        /\ f = t.frames[n] /\ f \in FrameType
    BY DEF Holds, Alive, Typed, Good, Last
  <2>2. \A x \in FrameType : x.kind \in AllKinds
    BY DEF FrameType
  <2> QED BY <2>1, <2>2
<1>2. CASE kind \in {"main", "child"}
  <2>1. e.dead = "exit"
    BY <1>1, <1>2 DEF Leave, Dead, Typed, Fields
  <2> QED BY <2>1 DEF Ok, Gone
<1>3. kind # "main" => n # 1
  BY <1>1 DEF Good
<1>4. \A w : Typed(w) /\ Opened(w) => Opened(Pop(w)) /\ Opened(endinput(w))
                        /\ Opened(undefer(w)) /\ Opened(unblocksignals(w))
  BY PopBeside, EndinputBeside, UndeferBeside, BlockBeside, Opens
<1>5. Holds(Pop(t)) /\ Pop(t).frames = t.frames /\ Typed(Pop(t))
  BY <1>1, PopBeside, BesideKeeps DEF Beside
<1>5a. kind \notin Catching /\ kind # "child" /\ kind # "settor" => Opened(t)
  <2> SUFFICES ASSUME kind \notin Catching, kind # "child", kind # "settor" PROVE Opened(t)
    OBVIOUS
  <2>1. n # 1
    BY <1>3 DEF Catching
  <2>2. f.thr = NoThrow
    BY <1>1 DEF Good
  <2>3. Ats(t.handlers) = Live(t.frames, n - 1)
    BY <1>1, <2>1, <2>2, LiveTop
  <2> QED BY <1>1, <2>1, <2>3 DEF Opened
<1>6. CASE kind = "run"
  <2>1. Opened(pophandler(Pop(t)))
    BY <1>1, <1>3, <1>5, <1>6, Popped DEF Catching
  <2>2. Opened(endinput(pophandler(Pop(t))))
    BY <1>4, <2>1, OpenTyped
  <2>3. e = Return(endinput(pophandler(Pop(t))))
    BY <1>6 DEF Leave
  <2> QED BY <2>2, <2>3, Returning DEF Ok
<1>7. CASE kind \in {"catch", "for"}
  <2>1. Opened(pophandler(t))
    BY <1>1, <1>3, <1>7, Popped DEF Catching
  <2>2. e = Return(pophandler(t))
    BY <1>7 DEF Leave, LeaveFor
  <2> QED BY <2>1, <2>2, Returning DEF Ok
<1>8. CASE kind = "catcher"
  <2>1. Holds(unblocksignals(t)) /\ unblocksignals(t).frames = t.frames
    BY <1>1, BlockBeside, BesideKeeps DEF Beside
  <2>2. Opened(pophandler(unblocksignals(t)))
    BY <1>1, <1>3, <1>8, <2>1, Popped DEF Catching
  <2>3. e = Return(pophandler(unblocksignals(t)))
    BY <1>8 DEF Leave
  <2> QED BY <2>2, <2>3, Returning DEF Ok
<1>9. CASE kind = "fn"
  <2>1. Opened(pophandler(Pop(t)))
    BY <1>1, <1>3, <1>5, <1>9, Popped DEF Catching
  <2>2. e = Return(pophandler(Pop(t)))
    BY <1>9 DEF Leave
  <2> QED BY <2>1, <2>2, Returning DEF Ok
<1>10. CASE kind = "redir"
  <2>1. Holds(undefer(t)) /\ undefer(t).frames = t.frames
    BY <1>1, UndeferBeside, BesideKeeps DEF Beside
  <2>2. Opened(pophandler(undefer(t)))
    BY <1>1, <1>3, <1>10, <2>1, Popped DEF Catching
  <2>3. e = Return(pophandler(undefer(t)))
    BY <1>10 DEF Leave
  <2> QED BY <2>2, <2>3, Returning DEF Ok
<1>11. CASE kind = "readfrom"
  <2>1. Opened(pophandler(t))
    BY <1>1, <1>3, <1>11, Popped DEF Catching
  <2>2. Opened(Pop(pophandler(t)))
    BY <1>4, <2>1, OpenTyped
  <2>3. e = Return(Pop(pophandler(t)))
    BY <1>11 DEF Leave
  <2> QED BY <2>2, <2>3, Returning DEF Ok
<1>12. CASE kind = "writeto"
  <2>1. e.dead = "badhandler"
    BY <1>1, <1>12 DEF Leave, Dead, Typed, Fields
  <2> QED BY <2>1 DEF Ok, Gone
<1>13. CASE kind = "local"
  <2>1. f.v \in Text /\ "pop" \in Text
    BY <1>1, Texts DEF FrameType
  <2>2. /\ Holds(Stage(t, "pop"))
        /\ OverLocal(Stage(t, "pop").frames[Len(Stage(t, "pop").frames)])
    BY <1>1, <1>13, <2>1, Staging DEF OverLocal
  <2>3. Ok(callsettor(Stage(t, "pop"), f.v))
    BY <2>1, <2>2, SettorBegins
  <2>4. Opened(t)
    <3>1. kind \notin Catching /\ kind # "child" /\ kind # "settor"
      BY <1>13 DEF Catching
    <3> QED BY <1>5a, <3>1
  <2>5. Ok(Return(Pop(t)))
    BY <1>1, <1>4, <2>4, Returning DEF Ok
  <2> QED BY <1>13, <2>3, <2>5 DEF Leave
<1>14. CASE kind \in {"seq", "exec"}
  <2>1. Opened(t)
    <3>1. kind \notin Catching /\ kind # "child" /\ kind # "settor"
      BY <1>14 DEF Catching
    <3> QED BY <1>5a, <3>1
  <2>2. Ok(Return(t))
    BY <2>1, Returning DEF Ok
  <2>3. Ok(Stage(t, "body"))
    BY <1>1, <1>14, Texts, Staging DEF Ok
  <2> QED BY <1>14, <2>2, <2>3 DEF Leave
<1>15. CASE kind = "settor"
  <2> DEFINE p == Pop(t)
             u == Return(p)
             m == n - 1
             g == u.frames
  <2>1. /\ Alive(p) /\ Typed(p) /\ p.frames = t.frames /\ p.handlers = t.handlers /\ p.thr = NoThrow
        /\ Ats(t.handlers) = Live(t.frames, n) /\ n # 1
    <3>1. n # 1
      BY <1>3, <1>15
    <3>2. Alive(p) /\ Typed(p) /\ p.frames = t.frames /\ p.handlers = t.handlers /\ p.thr = t.thr
      BY <1>1, PopBeside, BesideKeeps DEF Beside
    <3> HIDE DEF p
    <3> QED BY <1>1, <3>1, <3>2 DEF Holds
  <2>2. /\ Alive(u) /\ u.handlers = t.handlers /\ u.thr = NoThrow
        /\ Len(g) = m /\ m \in Nat \ {0} /\ \A k \in 1..m : g[k] = t.frames[k]
        /\ \A j \in 0..m : Live(g, j) = Live(t.frames, j)
    <3> HIDE DEF p
    <3> QED BY <2>1, Returned
  <2>3. e = settorends(f, u)
    BY <1>15 DEF Leave
  <2> HIDE DEF p, u, g
  <2>4. Live(g, m) = Live(t.frames, m)
    BY <2>2
  <2>5. CASE f.thr # NoThrow
    <3> DEFINE w == [u EXCEPT !.thr = f.thr]
    <3>1. f.thr.h.at \in Live(t.frames, m)
      BY <1>1, <2>5 DEF Good
    <3>2. Live(t.frames, n) = {k \in Live(t.frames, m) : k < f.thr.h.at}
      <4>1. \A j \in 1..m : t.frames[j].thr # NoThrow => t.frames[j].thr.h.at \in 1..j - 1
        BY <1>1, GoodBefore
      <4>2. m \in Nat /\ m + 1 = n
        BY <1>1, <2>2
      <4>3. t.frames[m + 1] = f
        BY <1>1, <4>2
      <4> HIDE DEF m, n, f
      <4> QED BY <1>15, <2>5, <3>1, <4>1, <4>2, <4>3, LiveSuspended
    <3>3. f.thr \in Throws
      <4>1. \A x \in FrameType : x.thr \in Throws
        BY DEF FrameType
      <4> QED BY <1>1, <4>1
    <3>4. /\ DOMAIN w = Fields /\ w.thr = f.thr /\ w.handlers = u.handlers /\ w.frames = u.frames
          /\ w.pushes = u.pushes /\ w.inputs = u.inputs /\ w.defers = u.defers
          /\ w.evaldepth = u.evaldepth /\ w.blocked = u.blocked
          /\ w.hasforked = u.hasforked /\ w.dead = u.dead
      BY <2>2 DEF Alive, Typed, Fields
    <3> HIDE DEF w
    <3>5. Alive(w)
      BY <2>2, <3>3, <3>4 DEF Alive, Typed
    <3>6. Thrown(w)
      BY <2>1, <2>2, <2>4, <2>5, <3>1, <3>2, <3>4, <3>5 DEF Thrown, Below, g
    <3>7. Thrown(Pop(w))
      BY <3>5, <3>6, PopBeside, BesideKeeps DEF Alive
    <3>8. e = Pop(w)
      BY <2>3, <2>5 DEF settorends, Resume, w
    <3> QED BY <3>7, <3>8 DEF Ok
  <2>6. CASE f.thr = NoThrow
    <3>1. OverLocal(t.frames[m])
      <4>1. n \in 2..n /\ n = Len(t.frames)
        <5>1. n \in Nat \ {0} /\ n # 1
          BY <1>1, <2>1
        <5> HIDE DEF n
        <5>2. n \in 2..n
          BY <5>1
        <5> QED BY <5>2 DEF n
      <4> QED BY <1>1, <1>15, <2>6, <4>1 DEF Good
    <3>2. Last(u.frames) = g[m] /\ g[m] = t.frames[m]
      <4>1. Last(u.frames) = g[Len(g)]
        BY DEF Last, g
      <4>2. Len(g) = m /\ m \in 1..m /\ \A k \in 1..m : g[k] = t.frames[k]
        <5>1. Len(g) = m /\ m \in Nat \ {0} /\ \A k \in 1..m : g[k] = t.frames[k]
          BY <2>2
        <5> HIDE DEF m
        <5> QED BY <5>1
      <4> HIDE DEF m
      <4> QED BY <4>1, <4>2
    <3>3. Holds(u)
      <4>1. \A j \in 1..m : t.frames[j].thr # NoThrow => t.frames[j].thr.h.at \in 1..j - 1
        BY <1>1, GoodBefore
      <4>2. m \in Nat /\ m + 1 = n
        BY <1>1, <2>2
      <4>3. t.frames[m + 1] = f /\ "settor" \notin Catching
        BY <1>1, <4>2 DEF Catching
      <4>4. Live(t.frames, n) = Live(t.frames, m)
        <5> HIDE DEF m, n, f
        <5> QED BY <1>15, <2>6, <4>1, <4>2, <4>3, LiveOrdinary
      <4> QED BY <2>1, <2>2, <2>4, <4>4 DEF Holds, g
    <3>4. g[m].kind = "local" /\ g[m].stage \in {"push", "pop"}
      BY <3>1, <3>2 DEF OverLocal
    <3>5. f.v \in Text
      BY <1>1 DEF FrameType
    <3>6. Holds(Bind(u, f.v))
      <4>1. u.frames[Len(u.frames)].kind # "settor"
        BY <2>2, <3>4 DEF g
      <4> QED BY <3>3, <3>5, <4>1, Binding
    <3>7. Holds(Return(Pop(u)))
      <4>1. Good(u.frames) /\ Typed(u)
        BY <2>2 DEF Alive
      <4>2. Len(u.frames) # 1
        BY <2>2, <3>4, <4>1 DEF Good, g
      <4>3. u.frames[Len(u.frames)].kind = "local" /\ "local" \notin Catching
        BY <2>2, <3>4 DEF g, Catching
      <4>4. u.frames[Len(u.frames)].thr = NoThrow
        <5>1. Len(u.frames) \in Nat \ {0}
          BY <4>1 DEF Good
        <5>2. Len(u.frames) \in 1..Len(u.frames)
          BY <5>1
        <5> QED BY <4>1, <4>3, <5>2 DEF Good
      <4>5. Opened(u)
        BY <3>3, <4>2, <4>3, <4>4, LiveTop DEF Opened, Holds
      <4>6. Opened(Pop(u))
        BY <1>4, <4>1, <4>5
      <4> QED BY <4>6, Returning
    <3>8. e \in {Bind(u, f.v), Return(Pop(u))}
      BY <2>3, <2>6, <3>2, <3>4 DEF settorends
    <3> QED BY <3>6, <3>7, <3>8 DEF Ok
  <2> QED BY <2>5, <2>6
<1>16. kind \in {"main", "child", "run", "loop", "for", "catch", "catcher", "fn", "redir", "readfrom",
                 "writeto", "local", "seq", "exec", "settor"}
  BY <1>1 DEF AllKinds, Catching, Evaluated
<1> QED BY <1>2, <1>6, <1>7, <1>8, <1>9, <1>10, <1>11, <1>12, <1>13, <1>14, <1>15, <1>16

-----------------------------------------------------------------------------
(***************************************************************************)
(* The steps                                                               *)
(***************************************************************************)
\* The inductive invariant, in any world.
ControlInv == s.dead = "exec" \/ Ok(s)

LEMMA ControlInit == Init => ControlInv
<1> SUFFICES ASSUME Init PROVE Holds(s)
  BY DEF Init, ControlInv, Ok
<1> DEFINE x == Frame("main", "", FALSE, "body")
           f == <<x>>
<1>1. /\ "" \in Text /\ "no" \in Text /\ "body" \in Text /\ "main" \in AllKinds
      /\ NoThrow \in Throws /\ Root \in Depths /\ Root.at = 1
  BY Texts, NoThrowType DEF AllKinds, Catching, Root
<1>2. /\ x \in FrameType /\ x.kind = "main" /\ x.thr = NoThrow /\ ~x.inchild
  BY <1>1 DEF Frame, FrameType
<1>3. /\ DOMAIN s = Fields /\ s.frames = f /\ s.handlers = <<Root>> /\ s.pushes = <<>>
      /\ s.inputs = <<>> /\ s.defers = <<>> /\ s.evaldepth = 0 /\ s.blocked = 0
      /\ s.hasforked = FALSE /\ s.thr = NoThrow /\ s.dead = "no"
  BY DEF Init, Fields
<1> HIDE DEF x
<1>4. f \in Seq(FrameType) /\ Len(f) = 1 /\ f[1] = x
  BY <1>2
<1>5. <<Root>> \in Seq(Depths) /\ Rising(<<Root>>) /\ Ats(<<Root>>) = {1}
  BY RootHandler
<1> HIDE DEF f
<1>6. Live(f, 1) = {1}
  BY <1>2, <1>4 DEF Live, Catching
<1>7. Good(f) /\ Exec(f)
  <2>1. \A k \in 1..1 : k = 1
    OBVIOUS
  <2> QED BY <1>2, <1>4, <2>1 DEF Good, Exec
<1>8. Typed(s)
  <2>1. <<>> \in Seq(Text) /\ <<>> \in Seq(Nat) /\ 0 \in Int
    OBVIOUS
  <2> QED BY <1>1, <1>3, <1>4, <1>5, <2>1 DEF Typed
<1> QED BY <1>3, <1>4, <1>5, <1>6, <1>7, <1>8 DEF Holds, Alive

\* Every step but execve's.
LEMMA ControlSteps ==
    ASSUME ControlInv, s.dead = "no", Next, ~execve
    PROVE  Ok(s')
<1>1. Ok(s) /\ ~Gone(s)
  BY DEF ControlInv, Gone
<1>2. Running => Holds(s)
  BY <1>1 DEF Running, Ok, Thrown
<1>3. s.thr # NoThrow => Thrown(s)
  BY <1>1 DEF Ok, Holds
<1>4. \A e \in Text : Running /\ e # "none" => Ok(Throw(s, e))
  <2> SUFFICES ASSUME NEW e \in Text, Holds(s), e # "none" PROVE Ok(Throw(s, e))
    BY <1>2
  <2>1. Alive(s) /\ Ats(s.handlers) = Live(s.frames, Len(s.frames)) /\ 0 \in Int
    BY DEF Holds
  <2> QED BY <2>1, Throwing
<1>5. ASSUME NEW kind \in (Catching \cup Evaluated) \ {"main", "catcher", "settor"},
             begin(kind, "")
      PROVE  Ok(s')
  <2>1. kind \in Kinds /\ "" \in Text
    BY Texts DEF Kinds
  <2> QED BY <1>2, <1>5, <2>1, Entering DEF begin
<1>6. ASSUME NEW v \in Vars, begin("local", v) PROVE Ok(s')
  <2>1. "local" \in Kinds /\ v \in Text
    BY DEF Kinds, Text
  <2> QED BY <1>2, <1>6, <2>1, Entering DEF begin
<1>7. CASE end
  BY <1>2, <1>7, Leaving DEF end, Top
<1>8. CASE unwind
  BY <1>3, <1>8, Unwinding DEF unwind
<1>9. CASE catcher
  BY <1>1, <1>9 DEF catcher
<1>10. CASE sigchk
  <2>1. "signal" \in Text /\ "signal" # "none"
    BY Texts
  <2>2. Ok(Throw(s, "signal"))
    BY <1>4, <1>10, <2>1 DEF sigchk
  <2>3. Ok(Dead(s, "exit"))
    <3>1. DOMAIN s = Fields
      BY <1>2, <1>10 DEF sigchk, Holds, Alive, Typed
    <3>2. Dead(s, "exit").dead = "exit"
      BY <3>1 DEF Dead, Fields
    <3> QED BY <3>2 DEF Ok, Gone
  <2> QED BY <1>10, <2>2, <2>3 DEF sigchk
<1>11. ASSUME NEW e \in Exceptions, throw(e) PROVE Ok(s')
  <2>1. e \in Text /\ e # "none"
    BY DEF Text, Exceptions
  <2> QED BY <1>4, <1>11, <2>1 DEF throw
<1> QED BY <1>5, <1>6, <1>7, <1>8, <1>9, <1>10, <1>11 DEF Next

LEMMA ControlStep ==
    ASSUME ControlInv, [Next]_vars
    PROVE  ControlInv'
<1>1. Next \/ s' = s
  BY DEF Next, vars
<1>2. CASE s' = s
  BY <1>2 DEF ControlInv, Ok, Holds, Thrown, Gone, Alive, Typed
<1>3. CASE Next /\ s.dead # "no"
  BY <1>3 DEF Next, begin, end, unwind, execve, catcher, sigchk, throw, Running,
              ControlInv, Ok, Holds, Thrown, Gone, Alive, Typed
<1>4. CASE Next /\ s.dead = "no" /\ ~execve
  BY <1>4, ControlSteps DEF ControlInv
<1>5. CASE execve
  <2>1. Ok(s) /\ s.dead = "no" /\ ~Gone(s)
    BY <1>5 DEF execve, Running, ControlInv, Gone
  <2>2. DOMAIN s = Fields
    BY <2>1 DEF Ok, Holds, Thrown, Alive, Typed
  <2>3. s'.dead = "exec"
    BY <1>5, <2>2 DEF execve, Dead, Fields
  <2> QED BY <2>3 DEF ControlInv
<1> QED BY <1>1, <1>2, <1>3, <1>4, <1>5

LEMMA ControlAlways == Spec => []ControlInv
BY ControlInit, ControlStep, PTL DEF Spec

\* tophandler leads to the innermost construct under way, and below it every
\* handler to the next, whatever was thrown, caught and retried, by settors, by
\* signals and by too deep an evaluation too: in any world, at any depth
\* (except.c:13-26, 65-68; eval.c:389-415; prim-ctl.c:58-89).
THEOREM HandlersStayLive == Spec => []HandlersLive
<1>1. ControlInv => HandlersLive
  <2> SUFFICES ASSUME ControlInv, Running PROVE HandlersLive
    BY DEF HandlersLive
  <2> DEFINE f == s.frames
             n == Len(f)
             q == [i \in DOMAIN s.handlers |-> s.handlers[i].at]
             Here(k) == /\ Kind(k) \in Catching
                        /\ k = 1 \/ ~InParent(k)
                        /\ ~Taken(k)
  <2>1. Holds(s)
    BY DEF ControlInv, Running, Ok, Thrown, Gone
  <2>2. DOMAIN f = 1..n /\ Good(f) /\ n \in Nat \ {0}
    BY <2>1, SMTT(40) DEF Holds, Alive, Typed, Good
  <2>3. \A k : InParent(k) <=> Parents(f, n, k)
    BY DEF InParent, Kind, Parents
  <2>4. ASSUME NEW k \in 1..n PROVE Taken(k) <=> \E j \in 1..n : f[j].thr # NoThrow /\ Takes(f, n, j, k)
    <3>1. \A j : j \in Suspended <=> j \in 1..n /\ f[j].thr # NoThrow
      BY <2>2 DEF Suspended
    <3> HIDE DEF n
    <3> QED BY <2>3, <3>1 DEF Taken, Passed, Takes
  <2>5. {k \in DOMAIN f : Here(k)} = Live(f, n)
    <3> SUFFICES ASSUME NEW k \in 1..n PROVE Here(k) <=> k \in Live(f, n)
      BY <2>2 DEF Live
    <3> QED BY <2>3, <2>4 DEF Live, Kind
  <2>6. Frames(Here) = {k \in DOMAIN f : Here(k)}
    BY DEF Frames
  <2>7. Range(q) = Ats(s.handlers)
    BY DEF Range, Ats
  <2>8. \A i, j \in DOMAIN q : i < j => q[i] < q[j]
    BY <2>1 DEF Holds, Alive, Rising
  <2>9. InOrder(q, Frames(Here))
    BY <2>1, <2>5, <2>6, <2>7, <2>8 DEF InOrder, Holds
  <2> QED BY <2>9 DEF HandlersLive
<1> QED BY <1>1, ControlAlways, PTL

\* A command takes the place of the process only where a fork or exec is under
\* way and no construct from there on has anything left to do, but for readfrom
\* and writeto, which wait for a child: in any world (prim-ctl.c:10,
\* input.cpp:781, eval.c:220; prim-io.c:308-318, 349-360).
THEOREM ExecEndsShell == Spec => ExecIsLast
<1> DEFINE Lasts ==
      s'.dead = "exec" /\ s.dead = "no" =>
        \E k \in DOMAIN s.frames : /\ Kind(k) \in {"exec", "child"}
                                   /\ \A j \in k..Len(s.frames) :
                                        LeavesNothing(s.frames[j]) \/ s.frames[j].kind \in Unwaited
<1>1. ControlInv /\ [Next]_vars => [Lasts]_s
  <2> SUFFICES ASSUME ControlInv, [Next]_vars,
                      s' # s, s.dead = "no", s'.dead = "exec"
               PROVE  \E k \in DOMAIN s.frames :
                        /\ Kind(k) \in {"exec", "child"}
                        /\ \A j \in k..Len(s.frames) :
                             LeavesNothing(s.frames[j]) \/ s.frames[j].kind \in Unwaited
    OBVIOUS
  <2>1. Next
    BY DEF Next, vars
  <2>2. execve
    <3> SUFFICES ASSUME ~execve PROVE FALSE
      OBVIOUS
    <3>1. Ok(s')
      BY <2>1, ControlSteps
    <3> QED BY <3>1 DEF Ok, Holds, Thrown, Alive, Gone
  <2> DEFINE f == s.frames
             n == Len(f)
  <2>3. Exec(f) /\ n \in Nat \ {0} /\ DOMAIN f = 1..n
    BY <2>2 DEF execve, Running, ControlInv, Ok, Holds, Thrown, Gone, Alive, Typed, Good
  <2>4. f[n].inchild /\ f[n].stage = "body"
    BY <2>2 DEF execve, Handed, Last
  <2> HIDE DEF f
  <2>5. n \in 1..n
    BY <2>3
  <2>6. Alone(f, n)
    BY <2>3, <2>4, <2>5 DEF Exec
  <2>7. PICK m \in 1..n : /\ f[m].kind \in {"exec", "child"}
                    /\ \A j \in m..n : /\ f[j].kind \notin {"run", "loop", "for", "settor"}
                                       /\ j < n => f[j].stage # "first"
    BY <2>6 DEF Alone
  <2>8. \A j \in m..n : LeavesNothing(f[j]) \/ f[j].kind \in Unwaited
    <3> HIDE DEF n
    <3> QED BY <2>3, <2>4, <2>7 DEF LeavesNothing, Unwaited
  <2>9. m \in DOMAIN f /\ Kind(m) \in {"exec", "child"}
    BY <2>3, <2>7 DEF Kind, f
  <2> QED BY <2>8, <2>9 DEF f
<1>2. Spec => [][Lasts]_s
  BY <1>1, ControlAlways, PTL DEF Spec
<1> QED BY <1>2 DEF ExecIsLast, ExecUnder

-----------------------------------------------------------------------------
(***************************************************************************)
(* What a suspended throw has passed                                       *)
(***************************************************************************)
\* The throw that frame j suspends has passed frame k.
Passes(f, n, j, k) == f[j].thr.h.at < k /\ k < j /\ (Parents(f, n, k) => Parents(f, n, j))
\* The frames with a handler that none has passed.
Still(f, n) ==
    {k \in 1..n : /\ f[k].kind \in Catching
                  /\ \A j \in 1..n : f[j].thr # NoThrow => ~Passes(f, n, j, k)}
\* Those that are left when a throw comes down to frame m.
Left(f, n, m) == {k \in Still(f, n) : k <= m \/ Parents(f, n, k)}

\* A throw is one of a frame before.
Backward(f, n) == \A j \in 1..n : f[j].thr # NoThrow => f[j].thr.h.at \in 1..j - 1

LEMMA StillAlike ==
    ASSUME NEW n \in Int, NEW f, NEW g, Alike(f, g, n)
    PROVE  /\ Still(f, n) = Still(g, n)
           /\ \A m : Left(f, n, m) = Left(g, n, m)
<1>1. \A k \in 1..n : Parents(f, n, k) <=> Parents(g, n, k)
  BY DEF Alike, Parents
<1>2. \A j, k \in 1..n : Passes(f, n, j, k) <=> Passes(g, n, j, k)
  BY <1>1 DEF Passes, Alike
<1>3. \A k \in 1..n : k \in Still(f, n) <=> k \in Still(g, n)
  BY <1>2 DEF Still, Alike
<1>4. Still(f, n) = Still(g, n)
  BY <1>3 DEF Still
<1>5. \A k \in Still(f, n) : k \in 1..n
  BY DEF Still
<1> QED BY <1>1, <1>4, <1>5 DEF Left

LEMMA StillPlain ==
    ASSUME NEW n \in Nat, NEW f, f[n + 1].thr = NoThrow,
           f[n + 1].kind = "child" => \A k \in 1..n : f[k].kind # "child"
    PROVE  Still(f, n + 1) = Still(f, n) \cup (IF f[n + 1].kind \in Catching THEN {n + 1} ELSE {})
<1>1. \A k, j \in 1..n : (Parents(f, n + 1, k) => Parents(f, n + 1, j)) <=> (Parents(f, n, k) => Parents(f, n, j))
  <2>1. CASE f[n + 1].kind = "child"
    <3>1. \A k \in 1..n : Parents(f, n + 1, k) /\ ~Parents(f, n, k)
      BY <2>1 DEF Parents
    <3> QED BY <3>1
  <2>2. CASE f[n + 1].kind # "child"
    <3>1. \A k \in 1..n : Parents(f, n + 1, k) <=> Parents(f, n, k)
      BY <2>2 DEF Parents
    <3> QED BY <3>1
  <2> QED BY <2>1, <2>2
<1>2. \A k \in 1..n : \A j \in 1..n : Passes(f, n + 1, j, k) <=> Passes(f, n, j, k)
  BY <1>1 DEF Passes
<1>3. \A k \in 1..n : k \in Still(f, n + 1) <=> k \in Still(f, n)
  BY <1>2 DEF Still
<1>4. n + 1 \in Still(f, n + 1) <=> f[n + 1].kind \in Catching
  <2>1. \A j \in 1..n : ~Passes(f, n + 1, j, n + 1)
    BY DEF Passes
  <2> QED BY <2>1 DEF Still
<1> QED BY <1>3, <1>4 DEF Still

LEMMA StillSuspended ==
    ASSUME NEW n \in Nat, NEW f, f[n + 1].kind = "settor", f[n + 1].thr # NoThrow,
           f[n + 1].thr.h.at \in Int
    PROVE  Still(f, n + 1) = Left(f, n, f[n + 1].thr.h.at)
<1> DEFINE h == f[n + 1].thr.h.at
<1>1. \A k \in 1..n : Parents(f, n + 1, k) <=> Parents(f, n, k)
  BY DEF Parents
<1>2. \A k \in 1..n : \A j \in 1..n : Passes(f, n + 1, j, k) <=> Passes(f, n, j, k)
  BY <1>1 DEF Passes
<1>3. ~Parents(f, n + 1, n + 1)
  BY DEF Parents
<1>4. ASSUME NEW k \in 1..n PROVE k \in Still(f, n + 1) <=> k \in Still(f, n) /\ (k <= h \/ Parents(f, n, k))
  <2>1. Passes(f, n + 1, n + 1, k) <=> ~(k <= h \/ Parents(f, n, k))
    BY <1>1, <1>3 DEF Passes
  <2> HIDE DEF h
  <2> QED BY <1>2, <2>1 DEF Still
<1>5. n + 1 \notin Still(f, n + 1)
  BY DEF Still, Catching
<1> QED BY <1>4, <1>5 DEF Still, Left

\* Without the frames above m, if no throw they suspend has come down so far.
LEMMA StillCut ==
    ASSUME NEW n \in Nat, NEW f, NEW m \in 1..n, ~Parents(f, n, m),
           \A j \in m + 1..n : f[j].thr # NoThrow => f[j].thr.h.at \in Int /\ f[j].thr.h.at >= m
    PROVE  Still(f, m) = Left(f, n, m)
<1>1. \A k \in 1..m : Parents(f, n, k) <=> Parents(f, m, k)
  BY DEF Parents
<1>2. \A k \in 1..n : k > m => ~Parents(f, n, k)
  BY DEF Parents
<1>3. \A k, j \in 1..m : Passes(f, n, j, k) <=> Passes(f, m, j, k)
  BY <1>1 DEF Passes
<1>4. \A k \in 1..m : \A j \in m + 1..n : f[j].thr # NoThrow => ~Passes(f, n, j, k)
  BY DEF Passes
<1>5. ASSUME NEW k \in 1..m PROVE k \in Still(f, m) <=> k \in Still(f, n)
  BY <1>3, <1>4 DEF Still
<1>6. \A k \in Left(f, n, m) : k \in 1..m
  BY <1>2 DEF Left, Still
<1>7. \A k \in Still(f, m) : k \in 1..m
  BY DEF Still
<1> QED BY <1>5, <1>6, <1>7 DEF Left

\* What is left when the innermost handler below L is taken, if it is above
\* every settor.
LEMMA StillLeft ==
    ASSUME NEW f, Good(f), NEW L \in {Len(f), Len(f) - 1}, L # 0,
           L = Len(f) - 1 => f[Len(f)].kind \in Catching,
           NEW m \in Live(f, L), \A k \in Live(f, L) : k <= m,
           \A i \in 1..Len(f) : f[i].kind = "settor" => i < m
    PROVE  Left(f, Len(f), m) = Still(f, L)
<1> DEFINE n == Len(f)
<1>1. n \in Nat \ {0} /\ L \in 1..n /\ m \in 1..L /\ Backward(f, n)
  BY GoodBefore, SMTT(40) DEF Good, Live, Backward
<1>2. \A j \in 1..n : f[j].thr # NoThrow => f[j].kind = "settor"
  BY DEF Good
<1>3. L = n - 1 => f[n].kind # "child" /\ f[n].thr = NoThrow /\ f[n].kind \in Catching
  BY <1>1, <1>2 DEF Catching
<1>4. \A k \in 1..L : Parents(f, n, k) <=> Parents(f, L, k)
  BY <1>1, <1>3 DEF Parents
<1>5. \A k, j \in 1..L : Passes(f, n, j, k) <=> Passes(f, L, j, k)
  BY <1>4 DEF Passes
<1>6. ASSUME NEW k \in 1..L PROVE k \in Still(f, n) <=> k \in Still(f, L)
  <2>1. \A j \in 1..n : f[j].thr # NoThrow => j \in 1..L
    BY <1>1, <1>3
  <2> HIDE DEF n
  <2> QED BY <1>1, <1>5, <2>1 DEF Still
<1>7. ASSUME NEW k \in Still(f, L) PROVE k <= m \/ Parents(f, n, k)
  <2>1. k \in 1..L /\ f[k].kind \in Catching
    BY DEF Still
  <2>2. CASE k \in Live(f, L)
    BY <2>2
  <2>3. CASE k \notin Live(f, L) /\ ~Parents(f, L, k)
    <3>1. PICK j \in 1..L : f[j].thr # NoThrow /\ Takes(f, L, j, k)
      BY <2>1, <2>3 DEF Live
    <3>2. ~Passes(f, L, j, k)
      BY <3>1 DEF Still
    <3>3. f[j].thr.h.at = k
      BY <3>1, <3>2 DEF Takes, Passes
    <3>4. j \in 1..n /\ f[j].kind = "settor" /\ k < j
      BY <1>1, <1>2, <3>1, <3>3 DEF Backward
    <3>5. j < m
      BY <3>4
    <3> HIDE DEF n
    <3> QED BY <1>1, <2>1, <3>4, <3>5
  <2>4. CASE Parents(f, L, k)
    BY <1>4, <2>1, <2>4
  <2> QED BY <2>2, <2>3, <2>4
<1>8. ASSUME NEW k \in Left(f, n, m) PROVE k \in 1..L
  <2>1. k \in 1..n /\ (k <= m \/ Parents(f, n, k))
    BY DEF Left, Still
  <2>2. L # n /\ k = n => FALSE
    <3> SUFFICES ASSUME L # n, k = n PROVE FALSE
      OBVIOUS
    <3>1. L = n - 1 /\ f[n].kind # "child"
      BY <1>3
    <3>2. Parents(f, n, n) => f[n].kind = "child"
      BY <1>1 DEF Parents
    <3> HIDE DEF n
    <3> QED BY <1>1, <2>1, <3>1, <3>2
  <2>3. L = n \/ L = n - 1
    OBVIOUS
  <2> HIDE DEF n
  <2> QED BY <1>1, <2>1, <2>2, <2>3
<1>9. \A k \in Still(f, L) : k \in 1..L
  BY DEF Still
<1> HIDE DEF n
<1>10. \A k : k \in Left(f, n, m) <=> k \in Still(f, L)
  BY <1>6, <1>7, <1>8, <1>9 DEF Left
<1> QED BY <1>10 DEF n

-----------------------------------------------------------------------------
(***************************************************************************)
(* The bindings of the first frames                                        *)
(***************************************************************************)
\* b[k] are the bindings that the first k frames have made.
Ground(f, b, k) == IF f[k].thr # NoThrow THEN SubSeq(b[k - 1], 1, f[k].n) ELSE b[k - 1]
Chain(f, b) ==
    /\ b[0] = <<>>
    /\ \A k \in 0..Len(f) : b[k] \in Seq(Text)
    /\ \A k \in 1..Len(f) : b[k] = Ground(f, b, k) \o Bound(f[k])
\* How many of them the handler of frame m has seen.
Depth(f, b, m) == IF f[m].kind \in {"run", "fn"} THEN Len(b[m - 1]) ELSE Len(b[m])
Evals(f, m) == {k \in 1..m : f[k].kind \in Evaluated}
Saved(f, b, h) == h.pushes = Depth(f, b, h.at) /\ h.evaldepth = Cardinality(Evals(f, h.at))

LEMMA BoundType ==
    ASSUME NEW x \in FrameType
    PROVE  /\ Bound(x) \in Seq(Text) /\ Len(Bound(x)) \in {0, 1}
           /\ x.kind \notin {"run", "fn", "settor", "readfrom", "writeto", "local"} => Bound(x) = <<>>
           /\ x.kind = "run" => Bound(x) = <<"fn-%dispatch">>
           /\ x.kind \in {"fn", "settor"} => Bound(x) = <<"0">>
           /\ x.kind \in {"readfrom", "writeto"} => Bound(x) = <<"fd">>
           /\ x.kind = "local" => Bound(x) = IF x.stage = "push" THEN <<>> ELSE <<x.v>>
<1>1. {"fn-%dispatch", "0", "fd"} \subseteq Text /\ x.v \in Text
  BY Texts DEF FrameType
<1>2. x.kind \notin {"run", "fn", "settor", "readfrom", "writeto", "local"} => Bound(x) = <<>>
  BY DEF Bound
<1>3. x.kind = "run" => Bound(x) = <<"fn-%dispatch">>
  BY DEF Bound
<1>4. x.kind \in {"fn", "settor"} => Bound(x) = <<"0">>
  BY DEF Bound
<1>5. x.kind \in {"readfrom", "writeto"} => Bound(x) = <<"fd">>
  BY DEF Bound
<1>6. x.kind = "local" => Bound(x) = IF x.stage = "push" THEN <<>> ELSE <<x.v>>
  BY DEF Bound
<1>7. \A v \in Text : <<v>> \in Seq(Text) /\ Len(<<v>>) = 1
  OBVIOUS
<1>8. <<>> \in Seq(Text) /\ Len(<<>>) = 0
  OBVIOUS
<1>9. Bound(x) = <<>> \/ \E v \in Text : Bound(x) = <<v>>
  BY <1>1, <1>2, <1>3, <1>4, <1>5, <1>6
<1> QED BY <1>2, <1>3, <1>4, <1>5, <1>6, <1>7, <1>8, <1>9

LEMMA Longer ==
    ASSUME NEW q \in Seq(Text), NEW w \in Seq(Text)
    PROVE  /\ q \o w \in Seq(Text) /\ Len(q \o w) = Len(q) + Len(w)
           /\ Len(q) \in Nat /\ Len(q \o w) \in Nat /\ Len(q) <= Len(q \o w)
OBVIOUS

\* q begins with the first d of r.
Begins(r, d, q) == d \in 0..Len(q) /\ SubSeq(q, 1, d) = SubSeq(r, 1, d)

LEMMA BeginsLonger ==
    ASSUME NEW r \in Seq(Text), NEW d \in 0..Len(r), NEW q \in Seq(Text), Begins(r, d, q), NEW w \in Seq(Text)
    PROVE  Begins(r, d, q \o w)
<1>1. q \o w \in Seq(Text) /\ Len(q \o w) = Len(q) + Len(w) /\ \A i \in 1..Len(q) : (q \o w)[i] = q[i]
  OBVIOUS
<1>2. d \in 0..Len(q) /\ SubSeq(q, 1, d) = SubSeq(r, 1, d)
  BY DEF Begins
<1> DEFINE z == q \o w
<1>3. z \in Seq(Text) /\ Len(z) = Len(q) + Len(w) /\ \A i \in 1..Len(q) : z[i] = q[i]
  BY <1>1
<1> HIDE DEF z
<1>4. SubSeq(z, 1, d) = SubSeq(q, 1, d)
  BY <1>2, <1>3
<1> QED BY <1>2, <1>3, <1>4 DEF Begins, z

\* What the handler of frame m has seen is at the bottom of the bindings of the
\* frames above it.
LEMMA SeenStays ==
    ASSUME NEW f \in Seq(FrameType), Good(f), NEW b, Chain(f, b),
           NEW m \in 1..Len(f), f[m].thr = NoThrow,
           \A j \in m + 1..Len(f) : f[j].thr = NoThrow
    PROVE  /\ Depth(f, b, m) \in 0..Len(b[m])
           /\ Begins(b[m], Depth(f, b, m), b[m])
           /\ \A k \in m..Len(f) : Begins(b[m], Depth(f, b, m), b[k])
<1> DEFINE n == Len(f)
           d == Depth(f, b, m)
           S == {i \in Nat : \A k \in m..n : k <= m + i => Begins(b[m], d, b[k])}
<1>1. n \in Nat \ {0} /\ m \in 1..n /\ \A k \in 1..n : f[k] \in FrameType /\ Bound(f[k]) \in Seq(Text)
  BY BoundType DEF Good
<1>2. \A k \in 0..n : b[k] \in Seq(Text)
  BY DEF Chain
<1>3. d \in 0..Len(b[m])
  <2>1. m \in 0..n /\ m - 1 \in 0..n /\ Ground(f, b, m) = b[m - 1]
    BY <1>1 DEF Ground
  <2>2. b[m] = b[m - 1] \o Bound(f[m]) /\ b[m - 1] \in Seq(Text) /\ Bound(f[m]) \in Seq(Text)
    BY <1>1, <1>2, <2>1 DEF Chain
  <2>3. Len(b[m - 1]) \in Nat /\ Len(b[m]) \in Nat /\ Len(b[m - 1]) <= Len(b[m])
    BY <2>2, Longer
  <2>4. d = Len(b[m - 1]) \/ d = Len(b[m])
    BY DEF Depth
  <2> HIDE DEF d
  <2> QED BY <2>3, <2>4
<1>4. Begins(b[m], d, b[m])
  BY <1>1, <1>2, <1>3 DEF Begins
<1> HIDE DEF d, n
<1>5. 0 \in S
  BY <1>1, <1>4
<1>6. ASSUME NEW i \in Nat, i \in S PROVE i + 1 \in S
  <2>0. \A k \in m..n : k <= m + (i + 1) => k <= m + i \/ k = m + (i + 1)
    BY <1>1
  <2> SUFFICES ASSUME NEW k \in m..n, k = m + (i + 1) PROVE Begins(b[m], d, b[k])
    BY <1>6, <2>0
  <2>1. k \in 1..n /\ k - 1 \in m..n /\ k - 1 = m + i /\ k \in m + 1..n /\ k - 1 \in 0..n
    BY <1>1
  <2>2. b[k - 1] \in Seq(Text) /\ b[m] \in Seq(Text) /\ Bound(f[k]) \in Seq(Text)
    BY <1>1, <1>2, <2>1
  <2>3. Begins(b[m], d, b[k - 1])
    BY <1>6, <2>1
  <2>4. b[k] = Ground(f, b, k) \o Bound(f[k])
    BY <2>1 DEF Chain, n
  <2>5. f[k].thr = NoThrow
    BY <2>1 DEF n
  <2> QED BY <1>3, <2>2, <2>3, <2>4, <2>5, BeginsLonger DEF Ground
<1>7. Nat \subseteq S
  <2> HIDE DEF S
  <2> QED BY <1>5, <1>6, Induction
<1>8. ASSUME NEW k \in m..n PROVE Begins(b[m], d, b[k])
  <2>1. k - m \in Nat /\ k <= m + (k - m)
    BY <1>1
  <2> QED BY <1>7, <2>1
<1> QED BY <1>3, <1>4, <1>8 DEF d, n

-----------------------------------------------------------------------------
(***************************************************************************)
(* Inputs, deferred redirections and blocked signals                       *)
(***************************************************************************)
LEMMA AppendOrder ==
    ASSUME NEW q \in Seq(Nat), NEW S, InOrder(q, S), NEW k \in Nat, \A i \in S : i < k
    PROVE  InOrder(Append(q, k), S \cup {k})
<1> DEFINE n == Len(q)
           r == Append(q, k)
<1>1. /\ n \in Nat /\ DOMAIN q = 1..n /\ DOMAIN r = 1..n + 1
      /\ r[n + 1] = k /\ \A i \in 1..n : r[i] = q[i]
  OBVIOUS
<1> HIDE DEF r, n
<1>2. S = {q[i] : i \in DOMAIN q} /\ \A i, j \in DOMAIN q : i < j => q[i] < q[j]
  BY DEF InOrder, Range
<1>3. \A i \in 1..n : q[i] \in S
  BY <1>1, <1>2
<1>4. ASSUME NEW i \in DOMAIN r, NEW j \in DOMAIN r, i < j PROVE r[i] < r[j]
  <2>1. i \in 1..n /\ r[i] = q[i]
    BY <1>1, <1>4
  <2>2. CASE j = n + 1
    BY <1>1, <1>3, <2>1, <2>2
  <2>3. CASE j \in 1..n
    BY <1>1, <1>2, <1>4, <2>1, <2>3
  <2> QED BY <1>1, <2>2, <2>3
<1>5. {r[i] : i \in DOMAIN r} = S \cup {k}
  <2>1. \A x \in {r[i] : i \in DOMAIN r} : x \in S \cup {k}
    BY <1>1, <1>3
  <2>2. ASSUME NEW x \in S PROVE x \in {r[i] : i \in DOMAIN r}
    <3>1. PICK i \in 1..n : x = q[i]
      BY <1>1, <1>2
    <3>2. i \in DOMAIN r /\ x = r[i]
      BY <1>1, <3>1
    <3> QED BY <3>2
  <2>3. n + 1 \in DOMAIN r
    BY <1>1
  <2> QED BY <1>1, <2>1, <2>2, <2>3
<1> QED BY <1>4, <1>5 DEF InOrder, Range, r

LEMMA FrontOrder ==
    ASSUME NEW q \in Seq(Nat), NEW S, NEW k \in Nat, InOrder(q, S \cup {k}), \A i \in S : i \in Nat /\ i < k
    PROVE  InOrder(Front(q), S)
<1> DEFINE n == Len(q)
           r == Front(q)
<1>1. n \in Nat /\ DOMAIN q = 1..n /\ \A i \in 1..n : q[i] \in Nat
  OBVIOUS
<1>2. S \cup {k} = {q[i] : i \in DOMAIN q} /\ \A i, j \in DOMAIN q : i < j => q[i] < q[j]
  BY DEF InOrder, Range
<1>3. n # 0
  BY <1>1, <1>2
<1>4. DOMAIN r = 1..n - 1 /\ \A i \in 1..n - 1 : r[i] = q[i]
  BY <1>1, <1>3 DEF Front
<1> HIDE DEF r, n
<1>5. PICK j \in 1..n : q[j] = k
  BY <1>1, <1>2
<1>6. \A i \in 1..n : q[i] <= k
  BY <1>1, <1>2
<1>7. j = n
  <2> SUFFICES ASSUME j # n PROVE FALSE
    OBVIOUS
  <2>1. j < n /\ n \in 1..n
    BY <1>1, <1>3, <1>5
  <2>2. q[j] < q[n] /\ q[n] <= k /\ q[n] \in Nat
    BY <1>1, <1>2, <1>6, <2>1
  <2> QED BY <1>5, <2>2
<1>8. \A i, l \in DOMAIN r : i < l => r[i] < r[l]
  BY <1>1, <1>2, <1>4
<1>9. {r[i] : i \in DOMAIN r} = S
  <2>1. ASSUME NEW i \in 1..n - 1 PROVE q[i] \in S
    <3>1. i \in 1..n /\ n \in 1..n /\ i < n
      BY <1>1, <1>3
    <3>2. q[i] < q[n] /\ q[n] = k /\ q[i] \in Nat
      BY <1>1, <1>2, <1>5, <1>7, <3>1
    <3>3. q[i] \in S \cup {k}
      BY <1>1, <1>2, <3>1
    <3> QED BY <3>2, <3>3
  <2>2. ASSUME NEW x \in S PROVE \E i \in 1..n - 1 : x = q[i]
    <3>1. PICK i \in 1..n : x = q[i]
      BY <1>1, <1>2
    <3>2. i # n
      BY <1>5, <1>7, <3>1
    <3>3. i \in 1..n - 1
      BY <1>1, <3>2
    <3> QED BY <3>1, <3>3
  <2> QED BY <1>4, <2>1, <2>2
<1> QED BY <1>8, <1>9 DEF InOrder, Range, r

\* What a frame adds to the stacks.
Source(x)   == x.kind = "run"
Deferred(x) == x.kind = "redir" /\ ~x.inchild
Blocks(x)   == x.kind = "catcher"

\* The stacks and the counter are those of the frames Q.
Stocked(t, Q) ==
    /\ InOrder(t.inputs, {k \in Q : Source(t.frames[k])})
    /\ InOrder(t.defers, {k \in Q : Deferred(t.frames[k])})
    /\ t.blocked = Cardinality({k \in Q : Blocks(t.frames[k])})

\* From t to u the stacks do not change, or gain or lose what frame x, at k, has.
Unstirred(t, u) == u.inputs = t.inputs /\ u.defers = t.defers /\ u.blocked = t.blocked
Gains(t, u, x, k) ==
    /\ u.inputs = IF Source(x) THEN Append(t.inputs, k) ELSE t.inputs
    /\ u.defers = IF Deferred(x) THEN Append(t.defers, k) ELSE t.defers
    /\ u.blocked = IF Blocks(x) THEN t.blocked + 1 ELSE t.blocked
Loses(t, u, x) ==
    /\ u.inputs = IF Source(x) THEN Front(t.inputs) ELSE t.inputs
    /\ u.defers = IF Deferred(x) THEN Front(t.defers) ELSE t.defers
    /\ u.blocked = IF Blocks(x) THEN t.blocked - 1 ELSE t.blocked
Same(t, u, Q) == \A k \in Q : u.frames[k].kind = t.frames[k].kind /\ u.frames[k].inchild = t.frames[k].inchild

LEMMA StockedSame ==
    ASSUME NEW t, NEW u, NEW Q, Stocked(t, Q), Same(t, u, Q), Unstirred(t, u)
    PROVE  Stocked(u, Q)
<1>1. /\ {k \in Q : Source(u.frames[k])} = {k \in Q : Source(t.frames[k])}
      /\ {k \in Q : Deferred(u.frames[k])} = {k \in Q : Deferred(t.frames[k])}
      /\ {k \in Q : Blocks(u.frames[k])} = {k \in Q : Blocks(t.frames[k])}
  BY DEF Same, Source, Deferred, Blocks
<1> QED BY <1>1 DEF Stocked, Unstirred

LEMMA OneMore ==
    ASSUME NEW n \in Nat, NEW S, S \subseteq 1..n, NEW k, k \notin S
    PROVE  Cardinality(S) \in Nat /\ Cardinality(S \cup {k}) = Cardinality(S) + 1
<1>1. IsFiniteSet(1..n)
  <2>1. 1 \in Int /\ n \in Int
    OBVIOUS
  <2> QED BY <2>1, FS_Interval
<1>2. IsFiniteSet(S)
  BY <1>1, FS_Subset
<1> QED BY <1>2, FS_CardinalityType, FS_AddElement

LEMMA StockedMore ==
    ASSUME NEW t, NEW u, NEW n \in Nat, NEW Q, Q \subseteq 1..n, Stocked(t, Q), Same(t, u, Q),
           t.inputs \in Seq(Nat), t.defers \in Seq(Nat), NEW k \in Nat, k > n,
           Gains(t, u, u.frames[k], k)
    PROVE  Stocked(u, Q \cup {k})
<1> DEFINE x == u.frames[k]
           SA == {i \in Q : Source(t.frames[i])}
           DA == {i \in Q : Deferred(t.frames[i])}
           BA == {i \in Q : Blocks(t.frames[i])}
           R == Q \cup {k}
<1>1. /\ {i \in R : Source(u.frames[i])} = IF Source(x) THEN SA \cup {k} ELSE SA
      /\ {i \in R : Deferred(u.frames[i])} = IF Deferred(x) THEN DA \cup {k} ELSE DA
      /\ {i \in R : Blocks(u.frames[i])} = IF Blocks(x) THEN BA \cup {k} ELSE BA
  BY DEF Same, Source, Deferred, Blocks
<1>2. SA \subseteq 1..n /\ DA \subseteq 1..n /\ BA \subseteq 1..n
  OBVIOUS
<1>3. InOrder(t.inputs, SA) /\ InOrder(t.defers, DA) /\ t.blocked = Cardinality(BA)
  BY DEF Stocked
<1> HIDE DEF SA, DA, BA, R, x
<1>4. (\A i \in SA : i < k) /\ (\A i \in DA : i < k) /\ k \notin BA
  <2>1. \A i \in 1..n : i < k
    OBVIOUS
  <2>2. ~(k < k)
    OBVIOUS
  <2> QED BY <1>2, <2>1, <2>2
<1>5. InOrder(u.inputs, IF Source(x) THEN SA \cup {k} ELSE SA)
  BY <1>3, <1>4, AppendOrder DEF Gains, x
<1>6. InOrder(u.defers, IF Deferred(x) THEN DA \cup {k} ELSE DA)
  BY <1>3, <1>4, AppendOrder DEF Gains, x
<1>7. u.blocked = Cardinality(IF Blocks(x) THEN BA \cup {k} ELSE BA)
  BY <1>2, <1>3, <1>4, OneMore DEF Gains, x
<1> QED BY <1>1, <1>5, <1>6, <1>7 DEF Stocked, R

LEMMA StockedLess ==
    ASSUME NEW t, NEW u, NEW n \in Nat, NEW Q, Q \subseteq 1..n, NEW k \in Nat, k > n,
           Stocked(t, Q \cup {k}), Same(t, u, Q),
           t.inputs \in Seq(Nat), t.defers \in Seq(Nat), Loses(t, u, t.frames[k])
    PROVE  Stocked(u, Q)
<1> DEFINE x == t.frames[k]
           SA == {i \in Q : Source(u.frames[i])}
           DA == {i \in Q : Deferred(u.frames[i])}
           BA == {i \in Q : Blocks(u.frames[i])}
           R == Q \cup {k}
<1>1. /\ {i \in R : Source(t.frames[i])} = IF Source(x) THEN SA \cup {k} ELSE SA
      /\ {i \in R : Deferred(t.frames[i])} = IF Deferred(x) THEN DA \cup {k} ELSE DA
      /\ {i \in R : Blocks(t.frames[i])} = IF Blocks(x) THEN BA \cup {k} ELSE BA
  BY DEF Same, Source, Deferred, Blocks
<1>2. SA \subseteq 1..n /\ DA \subseteq 1..n /\ BA \subseteq 1..n
  OBVIOUS
<1>3. /\ InOrder(t.inputs, IF Source(x) THEN SA \cup {k} ELSE SA)
      /\ InOrder(t.defers, IF Deferred(x) THEN DA \cup {k} ELSE DA)
      /\ t.blocked = Cardinality(IF Blocks(x) THEN BA \cup {k} ELSE BA)
  BY <1>1 DEF Stocked
<1> HIDE DEF SA, DA, BA, R, x
<1>4. (\A i \in SA : i \in Nat /\ i < k) /\ (\A i \in DA : i \in Nat /\ i < k) /\ k \notin BA
  BY <1>2
<1>5. InOrder(u.inputs, SA)
  BY <1>3, <1>4, FrontOrder DEF Loses, x
<1>6. InOrder(u.defers, DA)
  BY <1>3, <1>4, FrontOrder DEF Loses, x
<1>7. u.blocked = Cardinality(BA)
  <2>1. Cardinality(BA) \in Nat /\ Cardinality(BA \cup {k}) = Cardinality(BA) + 1
    BY <1>2, <1>4, OneMore
  <2> QED BY <1>3, <2>1 DEF Loses, x
<1> QED BY <1>5, <1>6, <1>7 DEF Stocked, SA, DA, BA

\* A frame more.
LEMMA EvalsMore ==
    ASSUME NEW f, NEW n \in Nat
    PROVE  /\ Cardinality(Evals(f, n)) \in 0..n
           /\ Cardinality(Evals(f, n + 1)) = IF f[n + 1].kind \in Evaluated THEN Cardinality(Evals(f, n)) + 1
                                             ELSE Cardinality(Evals(f, n))
<1>1. Evals(f, n) \subseteq 1..n /\ n + 1 \notin Evals(f, n)
  BY DEF Evals
<1>2. Evals(f, n + 1) = IF f[n + 1].kind \in Evaluated THEN Evals(f, n) \cup {n + 1} ELSE Evals(f, n)
  BY DEF Evals
<1>3. Cardinality(Evals(f, n)) \in Nat /\ Cardinality(Evals(f, n)) <= n
  <2>1. IsFiniteSet(1..n) /\ Cardinality(1..n) = IF 1 > n THEN 0 ELSE n - 1 + 1
    BY FS_Interval
  <2>2. Cardinality(1..n) = n
    BY <2>1
  <2>3. IsFiniteSet(Evals(f, n)) /\ Cardinality(Evals(f, n)) <= Cardinality(1..n)
    BY <1>1, <2>1, FS_Subset
  <2> QED BY <2>2, <2>3, FS_CardinalityType
<1>4. Cardinality(Evals(f, n) \cup {n + 1}) = Cardinality(Evals(f, n)) + 1
  BY <1>1, OneMore
<1> QED BY <1>2, <1>3, <1>4

LEMMA EvalsSame ==
    ASSUME NEW f, NEW g, NEW n \in Int, \A k \in 1..n : f[k].kind \in Evaluated <=> g[k].kind \in Evaluated
    PROVE  Evals(f, n) = Evals(g, n)
BY DEF Evals

LEMMA CardinalityIs == \A S : Cardinality(S) = Cardinality(S)
BY DEF Cardinality, Cardinality

-----------------------------------------------------------------------------
(***************************************************************************)
(* What the frames say of the stacks                                       *)
(***************************************************************************)
\* Settors do not throw, and do not fail for being too deep: what such a settor
\* does to a throw under way is the finding of ControlDeep.
CalmWorld ==
    /\ MaxFrames \in Nat \ {0} /\ ~world.throwing /\ world.maxevaldepth \in Int
    /\ world.settors = {} \/ (world.signals = 0 /\ world.maxevaldepth > MaxFrames + 2)

\* Above every settor of the first n frames there is a live one, at m or below,
\* that stops e.
Stopped(f, n, m, e) ==
    \A i \in 1..n : f[i].kind = "settor" => \E k \in Live(f, n) : i < k /\ k <= m /\ Stops(f[k], e)

QuietAt(f, b, j) ==
    /\ f[j].thr # NoThrow =>
         /\ Saved(f, b, f[j].thr.h) /\ f[j].n > f[j].thr.h.pushes /\ f[j].n <= Len(b[j - 1])
         /\ Stopped(f, j - 1, f[j].thr.h.at, f[j].thr.e)
    /\ f[j].kind = "settor" =>
         /\ world.settors # {}
         /\ f[j].thr = NoThrow => f[j].v = f[j - 1].v
    /\ j # 1 /\ OverLocal(f[j - 1]) => f[j].kind = "settor" /\ f[j].thr = NoThrow
Quiet(f, b) == \A j \in 1..Len(f) : QuietAt(f, b, j)
Fits(f) == Len(f) <= MaxFrames \/ (Len(f) = MaxFrames + 1 /\ f[Len(f)].kind = "settor")

\* b are the bindings of the frames of t, and what has been saved agrees.
Matching(t, b) ==
    /\ Chain(t.frames, b) /\ Quiet(t.frames, b) /\ Fits(t.frames)
    /\ \A i \in DOMAIN t.handlers : Saved(t.frames, b, t.handlers[i])
    /\ (\E k \in 1..Len(t.frames) : t.frames[k].kind = "child") => t.hasforked

\* f and g, with b and c, are the same up to frame n.
Equal(f, b, g, c, n) == (\A k \in 1..n : g[k] = f[k]) /\ (\A k \in 0..n : c[k] = b[k])

LEMMA SavedEqual ==
    ASSUME NEW f, NEW b, NEW g, NEW c, NEW n \in Nat, Equal(f, b, g, c, n), NEW h, h.at \in 1..n
    PROVE  Saved(f, b, h) <=> Saved(g, c, h)
<1>1. h.at \in 0..n /\ h.at - 1 \in 0..n
  OBVIOUS
<1>2. Depth(f, b, h.at) = Depth(g, c, h.at)
  BY <1>1 DEF Equal, Depth
<1>3. Evals(f, h.at) = Evals(g, h.at)
  <2>1. \A k \in 1..h.at : g[k] = f[k]
    BY DEF Equal
  <2> QED BY <2>1 DEF Evals
<1> QED BY <1>2, <1>3 DEF Saved

LEMMA QuietEqual ==
    ASSUME NEW f, NEW b, NEW g, NEW c, NEW n \in Nat, Equal(f, b, g, c, n), Backward(f, n),
           NEW j \in 1..n, QuietAt(f, b, j), f[1].kind # "settor"
    PROVE  QuietAt(g, c, j)
<1>1. g[j] = f[j] /\ c[j - 1] = b[j - 1] /\ j - 1 \in 0..n
  BY DEF Equal
<1>2. j # 1 => g[j - 1] = f[j - 1]
  <2> SUFFICES ASSUME j # 1 PROVE g[j - 1] = f[j - 1]
    OBVIOUS
  <2>1. j - 1 \in 1..n
    OBVIOUS
  <2> QED BY <2>1 DEF Equal
<1>2a. f[j].kind = "settor" => j # 1
  OBVIOUS
<1>3. ASSUME f[j].thr # NoThrow
      PROVE  /\ Saved(g, c, g[j].thr.h)
             /\ Stopped(g, j - 1, g[j].thr.h.at, g[j].thr.e)
  <2>1. f[j].thr.h.at \in 1..n
    BY <1>3 DEF Backward
  <2>2. Saved(g, c, g[j].thr.h)
    BY <1>1, <1>3, <2>1, SavedEqual DEF QuietAt
  <2>3. Alike(f, g, j - 1)
    BY DEF Alike, Equal
  <2>4. Live(f, j - 1) = Live(g, j - 1)
    BY <1>1, <2>3, LiveAlike
  <2>5. \A k \in Live(f, j - 1) : k \in 1..j - 1
    BY DEF Live
  <2>6. \A k \in 1..j - 1 : g[k] = f[k]
    BY DEF Equal
  <2>7. Stopped(f, j - 1, f[j].thr.h.at, f[j].thr.e)
    BY <1>3 DEF QuietAt
  <2> QED BY <1>1, <2>2, <2>4, <2>5, <2>6, <2>7 DEF Stopped
<1> QED BY <1>1, <1>2, <1>2a, <1>3 DEF QuietAt

\* The bindings with those of one frame more, or of another innermost one.
Extended(b, n, q) == [k \in 0..n |-> IF k = n THEN q ELSE b[k]]

\* The bindings with frame k.
Above(f, b, k) == Ground(f, b, k) \o Bound(f[k])

\* The frames of g up to n are those of f; g may have one more.
LEMMA MatchingTop ==
    ASSUME NEW f, Good(f), NEW b, Chain(f, b), Quiet(f, b), NEW n \in Nat, n <= Len(f),
           NEW g, Good(g), Len(g) = n + 1, \A k \in 1..n : g[k] = f[k],
           Ground(g, b, n + 1) \in Seq(Text), Bound(g[n + 1]) \in Seq(Text),
           QuietAt(g, b, n + 1)
    PROVE  \E c : /\ Chain(g, c) /\ Quiet(g, c) /\ Equal(f, b, g, c, n)
                  /\ c[n + 1] = Above(g, b, n + 1)
<1> DEFINE c == Extended(b, n + 1, Ground(g, b, n + 1) \o Bound(g[n + 1]))
<1>0. /\ n + 1 \in 0..n + 1 /\ \A k \in 0..n : k \in 0..n + 1 /\ k # n + 1
      /\ (n + 1) - 1 = n /\ n \in 0..n /\ 0 \in 0..n /\ n + 1 \in 1..n + 1
      /\ \A k \in 0..n + 1 : k \in 0..n \/ k = n + 1
      /\ \A k \in 1..n + 1 : k \in 1..n \/ k = n + 1
      /\ \A k \in 1..n : k \in 0..n /\ k - 1 \in 0..n /\ k \in 1..n + 1
  OBVIOUS
<1>0a. /\ \A k \in 1..n : k \in 1..Len(f)
       /\ \A k \in 0..n : k \in 0..Len(f)
  BY DEF Good
<1>1. /\ c[n + 1] = Ground(g, b, n + 1) \o Bound(g[n + 1]) /\ \A k \in 0..n : c[k] = b[k]
  BY <1>0 DEF Extended
<1> HIDE DEF c
<1>2. Equal(f, b, g, c, n)
  BY <1>1 DEF Equal
<1>3. Chain(g, c)
  <2>1. c[0] = <<>> /\ \A k \in 0..n : c[k] \in Seq(Text)
    BY <1>0, <1>0a, <1>1 DEF Chain
  <2>2. c[n + 1] \in Seq(Text) /\ c[n + 1] = Ground(g, c, n + 1) \o Bound(g[n + 1])
    <3>1. Ground(g, c, n + 1) = Ground(g, b, n + 1)
      BY <1>0, <1>1 DEF Ground
    <3> QED BY <1>1, <3>1, Longer
  <2>3. ASSUME NEW k \in 1..n PROVE c[k] = Ground(g, c, k) \o Bound(g[k])
    <3>1. k \in 1..Len(f) /\ k \in 0..n /\ k - 1 \in 0..n
      BY <1>0, <1>0a
    <3>2. b[k] = Ground(f, b, k) \o Bound(f[k])
      BY <3>1 DEF Chain
    <3>3. g[k] = f[k] /\ c[k] = b[k] /\ c[k - 1] = b[k - 1]
      BY <1>1, <3>1
    <3> QED BY <3>2, <3>3 DEF Ground
  <2> QED BY <1>0, <2>1, <2>2, <2>3 DEF Chain
<1>4. Backward(f, n) /\ f[1].kind # "settor"
  BY <1>0a, GoodBefore DEF Good, Backward
<1>5. \A j \in 1..n : QuietAt(g, c, j)
  BY <1>0a, <1>2, <1>4, QuietEqual DEF Quiet
<1>6. QuietAt(g, c, n + 1)
  <2>1. g[n + 1].thr # NoThrow => g[n + 1].thr.h.at \in 1..n
    BY <1>0, GoodBefore
  <2>2. Equal(g, b, g, c, n)
    BY <1>1 DEF Equal
  <2>3. g[n + 1].thr # NoThrow => (Saved(g, b, g[n + 1].thr.h) <=> Saved(g, c, g[n + 1].thr.h))
    BY <2>1, <2>2, SavedEqual
  <2>4. c[(n + 1) - 1] = b[(n + 1) - 1]
    BY <1>0, <1>1
  <2> QED BY <2>3, <2>4 DEF QuietAt
<1>7. Quiet(g, c)
  BY <1>0, <1>5, <1>6 DEF Quiet
<1>8. c[n + 1] = Above(g, b, n + 1)
  BY <1>1 DEF Above
<1> QED BY <1>2, <1>3, <1>7, <1>8

LEMMA MatchingCut ==
    ASSUME NEW f, Good(f), NEW b, Chain(f, b), Quiet(f, b), NEW n \in Nat, n <= Len(f),
           NEW g, Len(g) = n, \A k \in 1..n : g[k] = f[k]
    PROVE  Chain(g, b) /\ Quiet(g, b) /\ Equal(f, b, g, b, n)
<1>0. /\ \A k \in 1..n : k \in 1..Len(f)
      /\ \A k \in 0..n : k \in 0..Len(f)
  BY DEF Good
<1>1. Equal(f, b, g, b, n)
  BY DEF Equal
<1>2. Backward(f, n) /\ f[1].kind # "settor"
  BY <1>0, GoodBefore DEF Good, Backward
<1>3. Quiet(g, b)
  BY <1>0, <1>1, <1>2, QuietEqual DEF Quiet
<1>4. ASSUME NEW k \in 1..n PROVE b[k] = Ground(g, b, k) \o Bound(g[k])
  <2>1. b[k] = Ground(f, b, k) \o Bound(f[k])
    BY <1>0 DEF Chain
  <2>2. g[k] = f[k]
    OBVIOUS
  <2> QED BY <2>1, <2>2 DEF Ground
<1>5. Chain(g, b)
  BY <1>0, <1>4 DEF Chain
<1> QED BY <1>1, <1>3, <1>5

\* What an operator makes of each field.
Has(u, frames, handlers, pushes, sources, defers, evaldepth, blocked, hasforked, thr, dead) ==
    /\ DOMAIN u = Fields
    /\ u.frames = frames /\ u.handlers = handlers /\ u.pushes = pushes /\ u.inputs = sources
    /\ u.defers = defers /\ u.evaldepth = evaldepth /\ u.blocked = blocked
    /\ u.hasforked = hasforked /\ u.thr = thr /\ u.dead = dead

LEMMA PushHas ==
    ASSUME NEW t, DOMAIN t = Fields, NEW v
    PROVE  Has(Push(t, v), t.frames, t.handlers, Append(t.pushes, v), t.inputs, t.defers, t.evaldepth, t.blocked,
               t.hasforked, t.thr, t.dead)
BY DEF Has, Fields, Push

LEMMA PopHas ==
    ASSUME NEW t, DOMAIN t = Fields
    PROVE  Has(Pop(t), t.frames, t.handlers, Front(t.pushes), t.inputs, t.defers, t.evaldepth, t.blocked,
               t.hasforked, t.thr, t.dead)
BY DEF Has, Fields, Pop

LEMMA PushhandlerHas ==
    ASSUME NEW t, DOMAIN t = Fields
    PROVE  Has(pushhandler(t), t.frames, Append(t.handlers, Handler(t)), t.pushes, t.inputs, t.defers,
               t.evaldepth, t.blocked, t.hasforked, t.thr, t.dead)
BY DEF Has, Fields, pushhandler

LEMMA PophandlerHas ==
    ASSUME NEW t, DOMAIN t = Fields
    PROVE  Has(pophandler(t), t.frames, Front(t.handlers), t.pushes, t.inputs, t.defers,
               t.evaldepth, t.blocked, t.hasforked, t.thr, t.dead)
BY DEF Has, Fields, pophandler

LEMMA ReturnHas ==
    ASSUME NEW t, DOMAIN t = Fields
    PROVE  Has(Return(t), Front(t.frames), t.handlers, t.pushes, t.inputs, t.defers,
               IF t.frames[Len(t.frames)].kind \in Evaluated THEN t.evaldepth - 1 ELSE t.evaldepth,
               t.blocked, t.hasforked, t.thr, t.dead)
BY DEF Has, Fields, Return, Last

LEMMA EndinputHas ==
    ASSUME NEW t, DOMAIN t = Fields
    PROVE  Has(endinput(t), t.frames, t.handlers, t.pushes, Front(t.inputs), t.defers,
               t.evaldepth, t.blocked, t.hasforked, t.thr, t.dead)
BY DEF Has, Fields, endinput

LEMMA UndeferHas ==
    ASSUME NEW t, DOMAIN t = Fields
    PROVE  Has(undefer(t), t.frames, t.handlers, t.pushes, t.inputs,
               IF t.frames[Len(t.frames)].inchild THEN t.defers ELSE Front(t.defers),
               t.evaldepth, t.blocked, t.hasforked, t.thr, t.dead)
BY DEF Has, Fields, undefer, Last

LEMMA BlockHas ==
    ASSUME NEW t, DOMAIN t = Fields, NEW m
    PROVE  Has([t EXCEPT !.blocked = m], t.frames, t.handlers, t.pushes, t.inputs, t.defers,
               t.evaldepth, m, t.hasforked, t.thr, t.dead)
BY DEF Has, Fields

LEMMA InputsHas ==
    ASSUME NEW t, DOMAIN t = Fields, NEW q
    PROVE  /\ Has([t EXCEPT !.inputs = q], t.frames, t.handlers, t.pushes, q, t.defers,
                  t.evaldepth, t.blocked, t.hasforked, t.thr, t.dead)
           /\ Has([t EXCEPT !.defers = q], t.frames, t.handlers, t.pushes, t.inputs, q,
                  t.evaldepth, t.blocked, t.hasforked, t.thr, t.dead)
BY DEF Has, Fields

LEMMA StageHas ==
    ASSUME NEW t, DOMAIN t = Fields, NEW stage
    PROVE  Has(Stage(t, stage), [t.frames EXCEPT ![Len(t.frames)] = [@ EXCEPT !.stage = stage]],
               t.handlers, t.pushes, t.inputs, t.defers, t.evaldepth, t.blocked, t.hasforked, t.thr, t.dead)
BY DEF Has, Fields, Stage

LEMMA ThrHas ==
    ASSUME NEW t, DOMAIN t = Fields, NEW a
    PROVE  Has([t EXCEPT !.thr = a], t.frames, t.handlers, t.pushes, t.inputs, t.defers,
               t.evaldepth, t.blocked, t.hasforked, a, t.dead)
BY DEF Has, Fields

LEMMA DepthHas ==
    ASSUME NEW t, DOMAIN t = Fields, NEW m
    PROVE  Has([t EXCEPT !.evaldepth = m], t.frames, t.handlers, t.pushes, t.inputs, t.defers,
               m, t.blocked, t.hasforked, t.thr, t.dead)
BY DEF Has, Fields

LEMMA FramesHas ==
    ASSUME NEW t, DOMAIN t = Fields, NEW g
    PROVE  Has([t EXCEPT !.frames = g], g, t.handlers, t.pushes, t.inputs, t.defers,
               t.evaldepth, t.blocked, t.hasforked, t.thr, t.dead)
BY DEF Has, Fields

LEMMA ForkHas ==
    ASSUME NEW t, DOMAIN t = Fields
    PROVE  Has(newchildcatcher(t), t.frames, <<Root>>, t.pushes, t.inputs, t.defers,
               t.evaldepth, t.blocked, TRUE, t.thr, t.dead)
BY DEF Has, Fields, newchildcatcher

LEMMA BackHas ==
    ASSUME NEW t, DOMAIN t = Fields
    PROVE  Has(Back(t), SubSeq(t.frames, 1, t.thr.h.at), t.handlers, t.pushes, t.inputs, t.defers,
               t.thr.h.evaldepth, t.blocked, t.hasforked, NoThrow, t.dead)
BY DEF Has, Fields, Back

LEMMA ThrowHas ==
    ASSUME NEW t, DOMAIN t = Fields, NEW e, t.handlers # <<>>
    PROVE  Has(Throw(t, e), t.frames, Front(t.handlers), t.pushes, t.inputs, t.defers,
               t.evaldepth, t.blocked, t.hasforked, [e |-> e, h |-> Last(t.handlers)], t.dead)
BY DEF Has, Fields, Throw

LEMMA IntoHas ==
    ASSUME NEW t, DOMAIN t = Fields, NEW kind, NEW v
    PROVE  Has(Into(t, kind, v), Append(t.frames, First(t, kind, v)), t.handlers, t.pushes, t.inputs, t.defers,
               IF kind \in Evaluated THEN t.evaldepth + 1 ELSE t.evaldepth, t.blocked,
               t.hasforked, t.thr, t.dead)
BY DEF Has, Fields, Into, Eval

\* The settor's frame.
Settor(t, v) == [Frame("settor", v, FALSE, "body") EXCEPT !.thr = t.thr, !.n = Len(t.pushes)]

LEMMA SettorHas ==
    ASSUME NEW t, DOMAIN t = Fields, NEW v, ~TooDeep(t, "settor")
    PROVE  Has(callsettor(t, v), Append(t.frames, Settor(t, v)), t.handlers, Append(t.pushes, "0"),
               t.inputs, t.defers, t.evaldepth + 1, t.blocked, t.hasforked, NoThrow, t.dead)
<1>1. "settor" \in Evaluated
  BY DEF Evaluated
<1> DEFINE x == Settor(t, v)
           w == Push([Eval(t, "settor") EXCEPT !.frames = Append(t.frames, x),
                                                   !.thr = NoThrow], "0")
<1>2. callsettor(t, v) = w
  BY DEF callsettor, Settor
<1> HIDE DEF x
<1>3. Has(w, Append(t.frames, x), t.handlers, Append(t.pushes, "0"),
               t.inputs, t.defers, t.evaldepth + 1, t.blocked, t.hasforked, NoThrow, t.dead)
  BY <1>1 DEF Has, Fields, Push, Eval
<1> QED BY <1>2, <1>3 DEF x

\* The stacks of t are those of its frames; so are its bindings; nothing is thrown.
Base(t, b) ==
    /\ Matching(t, b) /\ Stocked(t, Still(t.frames, Len(t.frames)))
    /\ t.evaldepth = Cardinality(Evals(t.frames, Len(t.frames)))
Stands(t, b) == Holds(t) /\ Base(t, b) /\ t.pushes = b[Len(t.frames)]
\* The innermost frame does not wait for a settor to be called.
Settled(t, b) == Stands(t, b) /\ ~OverLocal(t.frames[Len(t.frames)])

LEMMA RootSaved ==
    ASSUME NEW f \in Seq(FrameType), Good(f), NEW b, Chain(f, b)
    PROVE  Saved(f, b, Root)
<1>1. Len(f) \in Nat \ {0} /\ 1 \in 1..Len(f) /\ f[1].kind = "main" /\ f[1] \in FrameType
  BY DEF Good
<1>2. f[1].thr = NoThrow
  BY <1>1 DEF Good
<1>3. Bound(f[1]) = <<>>
  BY <1>1, BoundType
<1>4. b[1] = b[0] \o <<>> /\ b[0] = <<>>
  BY <1>1, <1>2, <1>3 DEF Chain, Ground
<1>5. Len(b[1]) = 0
  BY <1>4
<1>6. Evals(f, 1) = {}
  BY <1>1 DEF Evals, Evaluated
<1>7. Cardinality(Evals(f, 1)) = 0
  BY <1>6, FS_EmptySet
<1> QED BY <1>1, <1>5, <1>7 DEF Saved, Depth, Root

\* A handler of u: one that t has, the root, or that of frame k.
Kept(t, u, k, h, p) ==
    \/ h.at < k /\ \E i \in DOMAIN t.handlers : t.handlers[i] = h
    \/ h = Root
    \/ /\ h.at = k /\ h.evaldepth = u.evaldepth
       /\ h.pushes = IF u.frames[k].kind \in {"run", "fn"} THEN p ELSE Len(u.pushes)

\* u is t with frame n + 1 on the first n.
LEMMA Placing ==
    ASSUME NEW t, Typed(t), Good(t.frames), NEW b, Matching(t, b), NEW n \in 1..Len(t.frames),
           NEW u, Holds(u), Len(u.frames) = n + 1, \A k \in 1..n : u.frames[k] = t.frames[k],
           QuietAt(u.frames, b, n + 1), Fits(u.frames),
           (\E k \in 1..Len(u.frames) : u.frames[k].kind = "child") => u.hasforked,
           Ground(u.frames, b, n + 1) \in Seq(Text),
           u.pushes = Ground(u.frames, b, n + 1) \o Bound(u.frames[n + 1]),
           NEW Q, Q \subseteq 1..n, Stocked(t, Q),
           Still(u.frames, n + 1) = Q \cup (IF u.frames[n + 1].kind \in Catching THEN {n + 1} ELSE {}),
           Gains(t, u, u.frames[n + 1], n + 1),
           u.evaldepth = IF u.frames[n + 1].kind \in Evaluated THEN Cardinality(Evals(t.frames, n)) + 1
                         ELSE Cardinality(Evals(t.frames, n)),
           \A i \in DOMAIN u.handlers : Kept(t, u, n + 1, u.handlers[i], Len(b[n]))
    PROVE  \E c : Stands(u, c)
<1> DEFINE f == t.frames
           g == u.frames
<1>1. /\ f \in Seq(FrameType) /\ g \in Seq(FrameType) /\ Good(g) /\ n \in Nat \ {0} /\ n <= Len(f)
      /\ g[n + 1] \in FrameType
  <2>1. Typed(u) /\ Good(g)
    BY DEF Holds, Alive
  <2>2. f \in Seq(FrameType) /\ g \in Seq(FrameType)
    BY <2>1 DEF Typed
  <2>3. n \in Nat \ {0} /\ n <= Len(f) /\ n + 1 \in 1..Len(g)
    BY DEF Good
  <2> QED BY <2>1, <2>2, <2>3
<1>2. Bound(g[n + 1]) \in Seq(Text)
  BY <1>1, BoundType
<1>3. PICK c : /\ Chain(g, c) /\ Quiet(g, c) /\ Equal(f, b, g, c, n)
               /\ c[n + 1] = Above(g, b, n + 1)
  <2>1. Chain(f, b) /\ Quiet(f, b)
    BY DEF Matching
  <2> HIDE DEF f, g
  <2>2. Good(f) /\ Len(g) = n + 1 /\ \A k \in 1..n : g[k] = f[k]
    BY DEF f, g
  <2>3. Ground(g, b, n + 1) \in Seq(Text) /\ QuietAt(g, b, n + 1)
    BY DEF g
  <2>5. n \in Nat /\ n <= Len(f) /\ Good(g) /\ Bound(g[n + 1]) \in Seq(Text)
    BY <1>1, <1>2
  <2> QED BY <2>1, <2>2, <2>3, <2>5, MatchingTop
<1>4. u.pushes = c[n + 1] /\ c[n] = b[n]
  BY <1>1, <1>3 DEF Equal, Above
<1>5. u.evaldepth = Cardinality(Evals(g, n + 1))
  <2>1. Evals(f, n) = Evals(g, n)
    BY <1>1, EvalsSame
  <2>2. n \in Nat
    BY <1>1
  <2>3. Cardinality(Evals(g, n + 1)) = IF g[n + 1].kind \in Evaluated THEN Cardinality(Evals(g, n)) + 1
                                       ELSE Cardinality(Evals(g, n))
    <3> HIDE DEF g
    <3> QED BY <2>2, EvalsMore
  <2> QED BY <2>1, <2>3
<1>6. ASSUME NEW i \in DOMAIN u.handlers PROVE Saved(g, c, u.handlers[i])
  <2> DEFINE h == u.handlers[i]
  <2>1. Kept(t, u, n + 1, h, Len(b[n]))
    OBVIOUS
  <2>2. h.at \in 1..n + 1
    <3>1. h.at \in Ats(u.handlers)
      BY DEF Ats
    <3>2. h.at \in Live(g, n + 1)
      BY <3>1 DEF Holds
    <3> HIDE DEF h, g
    <3> QED BY <3>2 DEF Live
  <2> HIDE DEF h
  <2>3. ASSUME h.at < n + 1, \E j \in DOMAIN t.handlers : t.handlers[j] = h PROVE Saved(g, c, h)
    <3>1. Saved(f, b, h) /\ h.at \in 1..n
      BY <1>1, <2>2, <2>3 DEF Matching
    <3>2. n \in Nat /\ Equal(f, b, g, c, n)
      BY <1>1, <1>3
    <3> HIDE DEF f, g
    <3> QED BY <3>1, <3>2, SavedEqual
  <2>4. ASSUME h = Root PROVE Saved(g, c, h)
    <3>1. Saved(g, c, Root)
      <4>1. g \in Seq(FrameType) /\ Good(g) /\ Chain(g, c)
        BY <1>1, <1>3
      <4> HIDE DEF g
      <4> QED BY <4>1, RootSaved
    <3> QED BY <2>4, <3>1
  <2>5. ASSUME h.at = n + 1, h.evaldepth = u.evaldepth,
               h.pushes = IF u.frames[n + 1].kind \in {"run", "fn"} THEN Len(b[n]) ELSE Len(u.pushes)
        PROVE  Saved(g, c, h)
    <3>1. Depth(g, c, n + 1) = IF g[n + 1].kind \in {"run", "fn"} THEN Len(c[n]) ELSE Len(c[n + 1])
      <4>1. (n + 1) - 1 = n
        BY <1>1
      <4> HIDE DEF g
      <4> QED BY <4>1 DEF Depth
    <3>2. h.at = n + 1 /\ h.evaldepth = Cardinality(Evals(g, n + 1)) /\ h.pushes = Depth(g, c, n + 1)
      BY <1>4, <1>5, <2>5, <3>1
    <3> HIDE DEF g
    <3> QED BY <3>2 DEF Saved
  <2> QED BY <2>1, <2>3, <2>4, <2>5 DEF Kept, h
<1>7. Stocked(u, Still(g, n + 1))
  <2>1. Same(t, u, Q)
    BY DEF Same
  <2>2. t.inputs \in Seq(Nat) /\ t.defers \in Seq(Nat) /\ n \in Nat /\ n + 1 \in Nat /\ n + 1 > n
    BY <1>1 DEF Typed
  <2>3. CASE g[n + 1].kind \in Catching
    <3>1. Stocked(u, Q \cup {n + 1})
      BY <2>1, <2>2, StockedMore
    <3> QED BY <2>3, <3>1
  <2>4. CASE g[n + 1].kind \notin Catching
    <3>1. Unstirred(t, u)
      BY <2>4 DEF Gains, Unstirred, Source, Deferred, Blocks, Catching
    <3>2. Stocked(u, Q)
      BY <2>1, <3>1, StockedSame
    <3> QED BY <2>4, <3>2
  <2> QED BY <2>3, <2>4
<1>8. Matching(u, c)
  BY <1>3, <1>6 DEF Matching
<1>9. Base(u, c)
  BY <1>5, <1>7, <1>8 DEF Base
<1>10. Stands(u, c)
  BY <1>4, <1>9 DEF Stands
<1> QED BY <1>10

\* The same, where frame n + 1 suspends nothing.
LEMMA Placed ==
    ASSUME NEW t, Typed(t), Good(t.frames), NEW b, Matching(t, b), NEW n \in 1..Len(t.frames),
           Stocked(t, Still(t.frames, n)),
           NEW u, Holds(u), Len(u.frames) = n + 1, \A k \in 1..n : u.frames[k] = t.frames[k],
           u.frames[n + 1].thr = NoThrow, Fits(u.frames),
           u.frames[n + 1].kind = "settor" => world.settors # {} /\ u.frames[n + 1].v = t.frames[n].v,
           OverLocal(t.frames[n]) => u.frames[n + 1].kind = "settor",
           u.frames[n + 1].kind = "child" => u.hasforked /\ ~t.hasforked,
           t.hasforked => u.hasforked,
           u.pushes = b[n] \o Bound(u.frames[n + 1]),
           Gains(t, u, u.frames[n + 1], n + 1),
           u.evaldepth = IF u.frames[n + 1].kind \in Evaluated THEN Cardinality(Evals(t.frames, n)) + 1
                         ELSE Cardinality(Evals(t.frames, n)),
           \A i \in DOMAIN u.handlers : Kept(t, u, n + 1, u.handlers[i], Len(b[n]))
    PROVE  \E c : Stands(u, c)
<1> DEFINE f == t.frames
           g == u.frames
           Q == Still(f, n)
<1>1. /\ n \in Nat \ {0} /\ n <= Len(f) /\ (n + 1) - 1 = n /\ n \in 0..Len(f) /\ n \in 1..n
      /\ \A k \in 1..n : k \in 1..Len(f)
      /\ \A k \in 1..n + 1 : k \in 1..n \/ k = n + 1
  BY DEF Good
<1>2. Ground(g, b, n + 1) = b[n] /\ b[n] \in Seq(Text)
  <2>1. Chain(f, b)
    BY DEF Matching
  <2> QED BY <1>1, <2>1 DEF Ground, Chain
<1>3. QuietAt(g, b, n + 1)
  <2>1. g[n] = f[n]
    BY <1>1
  <2> QED BY <1>1, <2>1 DEF QuietAt
<1>4. (\E k \in 1..n : f[k].kind = "child") => t.hasforked
  BY <1>1 DEF Matching
<1>5. (\E k \in 1..Len(g) : g[k].kind = "child") => u.hasforked
  <2>1. \A k \in 1..n : g[k].kind = f[k].kind
    OBVIOUS
  <2> QED BY <1>1, <1>4, <2>1
<1>6. Still(g, n + 1) = Q \cup (IF g[n + 1].kind \in Catching THEN {n + 1} ELSE {})
  <2>1. Alike(f, g, n)
    BY DEF Alike
  <2>2. Still(f, n) = Still(g, n)
    <3> HIDE DEF f, g
    <3> QED BY <1>1, <2>1, StillAlike
  <2>3. g[n + 1].kind = "child" => \A k \in 1..n : g[k].kind # "child"
    BY <1>4
  <2>4. Still(g, n + 1) = Still(g, n) \cup (IF g[n + 1].kind \in Catching THEN {n + 1} ELSE {})
    <3> HIDE DEF f, g
    <3>1. g[n + 1].thr = NoThrow /\ n \in Nat
      BY <1>1 DEF g
    <3> QED BY <2>3, <3>1, StillPlain
  <2> QED BY <2>2, <2>4
<1>7. Q \subseteq 1..n
  BY DEF Still
<1>8. Stocked(t, Q)
  OBVIOUS
<1> HIDE DEF Q
<1> QED BY <1>2, <1>3, <1>5, <1>6, <1>7, <1>8, Placing

\* The handler of the innermost frame is off, and what the frame adds to the
\* stacks but for its binding.
Clean(t, b) ==
    /\ Opened(t) /\ Matching(t, b) /\ Stocked(t, Still(t.frames, Len(t.frames) - 1))
    /\ t.evaldepth = Cardinality(Evals(t.frames, Len(t.frames)))

LEMMA CleanEnds ==
    ASSUME NEW t, Alive(t), NEW b, Base(t, b), Len(t.frames) # 1,
           t.frames[Len(t.frames)].kind # "child", t.frames[Len(t.frames)].thr = NoThrow,
           NEW u, Opened(u), u.frames = t.frames, u.evaldepth = t.evaldepth,
           u.hasforked = t.hasforked, Loses(t, u, t.frames[Len(t.frames)]),
           \A i \in DOMAIN u.handlers : \E j \in DOMAIN t.handlers : t.handlers[j] = u.handlers[i]
    PROVE  Clean(u, b)
<1> DEFINE f == t.frames
           m == Len(f) - 1
<1>1. /\ Typed(t) /\ Good(f) /\ m \in Nat \ {0} /\ m + 1 = Len(f) /\ m + 1 > m
      /\ \A k \in 1..m : k \in 1..Len(f)
      /\ Len(f) \in 1..Len(f)
  BY DEF Alive, Good
<1>2. f[m + 1].thr = NoThrow
  BY <1>1
<1>3. Still(f, m + 1) = Still(f, m) \cup (IF f[m + 1].kind \in Catching THEN {m + 1} ELSE {})
  <2>1. f[m + 1].kind # "child"
    BY <1>1
  <2> HIDE DEF f, m
  <2>2. m \in Nat
    BY <1>1
  <2> QED BY <1>2, <2>1, <2>2, StillPlain
<1>4. Stocked(u, Still(f, m))
  <2>1. Same(t, u, Still(f, m))
    BY DEF Same
  <2>2. Stocked(t, Still(f, m + 1)) /\ t.inputs \in Seq(Nat) /\ t.defers \in Seq(Nat)
    BY <1>1 DEF Base, Typed
  <2>3. Still(f, m) \subseteq 1..m
    BY DEF Still
  <2>4. Loses(t, u, f[m + 1]) /\ m \in Nat /\ m + 1 \in Nat
    BY <1>1
  <2> DEFINE S == Still(f, m)
  <2>5. Same(t, u, S) /\ S \subseteq 1..m
    BY <2>1, <2>3
  <2>6. CASE f[m + 1].kind \in Catching
    <3>1. Stocked(t, S \cup {m + 1})
      BY <1>3, <2>2, <2>6
    <3> HIDE DEF S, m
    <3> QED BY <1>1, <2>2, <2>4, <2>5, <3>1, StockedLess DEF S
  <2>7. CASE f[m + 1].kind \notin Catching
    <3>1. Stocked(t, S)
      BY <1>3, <2>2, <2>7
    <3>2. Unstirred(t, u)
      BY <2>4, <2>7 DEF Loses, Unstirred, Source, Deferred, Blocks, Catching
    <3> HIDE DEF S
    <3> QED BY <2>5, <3>1, <3>2, StockedSame DEF S
  <2> QED BY <2>6, <2>7
<1>5. Matching(u, b)
  BY DEF Base, Matching
<1> QED BY <1>4, <1>5 DEF Clean, Base

LEMMA Cleaning ==
    ASSUME NEW t, Alive(t), NEW b, Base(t, b), Len(t.frames) # 1,
           t.frames[Len(t.frames)].kind \notin {"settor", "child"},
           NEW u, Opened(u), u.frames = t.frames, u.evaldepth = t.evaldepth,
           u.hasforked = t.hasforked, Loses(t, u, t.frames[Len(t.frames)]),
           \A i \in DOMAIN u.handlers : \E j \in DOMAIN t.handlers : t.handlers[j] = u.handlers[i]
    PROVE  Clean(u, b)
<1>1. Good(t.frames) /\ Len(t.frames) \in 1..Len(t.frames)
  BY DEF Alive, Good
<1>2. t.frames[Len(t.frames)].thr = NoThrow
  BY <1>1 DEF Good
<1> QED BY <1>2, CleanEnds

\* A frame that ends leaves the stacks of the frames before it.
LEMMA CleanStands ==
    ASSUME CalmWorld, NEW t, NEW b, Clean(t, b), t.pushes = b[Len(t.frames) - 1]
    PROVE  Stands(Return(t), b)
<1> DEFINE f == t.frames
           n == Len(f) - 1
           u == Return(t)
           g == u.frames
<1>1. /\ Opened(t) /\ Alive(t) /\ Typed(t) /\ Good(f) /\ f \in Seq(FrameType)
      /\ n \in Nat \ {0} /\ n + 1 = Len(f) /\ n <= Len(f)
      /\ n + 1 \in 1..Len(f) /\ n \in 1..n
  <2>1. Opened(t) /\ Alive(t) /\ Typed(t) /\ Good(f) /\ f \in Seq(FrameType)
    BY DEF Clean, Opened, Alive, Typed
  <2>2. Len(f) \in Nat \ {0} /\ Len(f) # 1
    BY <2>1 DEF Good, Opened
  <2>3. \A k \in Nat \ {0} : k # 1 =>
          /\ k - 1 \in Nat \ {0} /\ (k - 1) + 1 = k /\ k - 1 <= k
          /\ (k - 1) + 1 \in 1..k /\ k - 1 \in 1..k - 1
    OBVIOUS
  <2>4. /\ n \in Nat \ {0} /\ n + 1 = Len(f) /\ n <= Len(f)
        /\ n + 1 \in 1..Len(f) /\ n \in 1..n
    BY ONLY <2>2, <2>3
  <2> QED BY <2>1, <2>4
<1>2. Holds(u)
  BY <1>1, Returning
<1>3. Len(g) = n /\ \A k \in 1..n : g[k] = f[k]
  BY <1>1, Returned DEF Opened
<1>4. Has(u, Front(f), t.handlers, t.pushes, t.inputs, t.defers,
          IF f[Len(f)].kind \in Evaluated THEN t.evaldepth - 1 ELSE t.evaldepth,
          t.blocked, t.hasforked, t.thr, t.dead)
  BY <1>1, ReturnHas DEF Typed
<1> HIDE DEF u
<1>5. Chain(f, b) /\ Quiet(f, b) /\ Fits(f) /\ Matching(t, b)
  BY DEF Clean, Matching
<1>6. Chain(g, b) /\ Quiet(g, b) /\ Equal(f, b, g, b, n)
  <2>1. n \in Nat /\ n <= Len(f) /\ Good(f)
    BY <1>1
  <2> HIDE DEF f, g, n
  <2> QED BY <1>3, <1>5, <2>1, MatchingCut
<1>7. Fits(g)
  BY <1>1, <1>3, <1>5 DEF Fits, CalmWorld
<1>8. \A i \in DOMAIN u.handlers : Saved(g, b, u.handlers[i])
  <2> SUFFICES ASSUME NEW i \in DOMAIN t.handlers PROVE Saved(g, b, t.handlers[i])
    BY <1>4 DEF Has
  <2>1. Saved(f, b, t.handlers[i])
    BY <1>5 DEF Matching
  <2>2. t.handlers[i].at \in Live(f, n)
    BY <1>1 DEF Opened, Ats
  <2>3. t.handlers[i].at \in 1..n
    BY <2>2 DEF Live
  <2>4. n \in Nat
    BY <1>1
  <2> HIDE DEF f, g, n
  <2> QED BY <1>6, <2>1, <2>3, <2>4, SavedEqual
<1>9. (\E k \in 1..Len(g) : g[k].kind = "child") => u.hasforked
  <2> SUFFICES ASSUME NEW k \in 1..n, g[k].kind = "child" PROVE u.hasforked
    BY <1>3
  <2>1. k \in 1..Len(f) /\ f[k].kind = "child"
    BY <1>1, <1>3
  <2>2. t.hasforked
    BY <1>5, <2>1 DEF Matching
  <2> QED BY <1>4, <2>2 DEF Has
<1>10. Matching(u, b)
  BY <1>6, <1>7, <1>8, <1>9 DEF Matching
<1>11. Stocked(u, Still(g, Len(g)))
  <2>1. Still(f, n) = Still(g, n)
    <3>1. Alike(f, g, n) /\ n \in Int
      BY <1>1, <1>3 DEF Alike
    <3> HIDE DEF f, g, n
    <3> QED BY <3>1, StillAlike
  <2>2. Stocked(t, Still(f, n))
    BY DEF Clean
  <2>3. Still(f, n) \subseteq 1..n
    BY DEF Still
  <2>4. Same(t, u, Still(f, n))
    BY <1>3, <2>3 DEF Same
  <2>5. Unstirred(t, u)
    BY <1>4 DEF Has, Unstirred
  <2> HIDE DEF n
  <2>6. Stocked(u, Still(f, n))
    BY <2>2, <2>4, <2>5, StockedSame
  <2> QED BY <1>3, <2>1, <2>6
<1>12. u.evaldepth = Cardinality(Evals(g, Len(g)))
  <2>1. Evals(f, n) = Evals(g, n)
    <3>1. n \in Int /\ \A k \in 1..n : f[k].kind \in Evaluated <=> g[k].kind \in Evaluated
      BY <1>1, <1>3
    <3> HIDE DEF f, g, n
    <3> QED BY <3>1, EvalsSame
  <2>2. /\ Cardinality(Evals(f, n)) \in 0..n
        /\ Cardinality(Evals(f, n + 1)) = IF f[n + 1].kind \in Evaluated THEN Cardinality(Evals(f, n)) + 1
                                          ELSE Cardinality(Evals(f, n))
    <3>1. n \in Nat
      BY <1>1
    <3> HIDE DEF f, n
    <3> QED BY <3>1, EvalsMore
  <2>3. t.evaldepth = Cardinality(Evals(f, n + 1))
    BY <1>1 DEF Clean
  <2>4. u.evaldepth = IF f[n + 1].kind \in Evaluated THEN t.evaldepth - 1 ELSE t.evaldepth
    BY <1>1, <1>4 DEF Has
  <2> HIDE DEF n, f, g
  <2> QED BY <1>3, <2>1, <2>2, <2>3, <2>4
<1>14. u.pushes = b[Len(g)]
  BY <1>3, <1>4 DEF Has
<1> QED BY <1>2, <1>10, <1>11, <1>12, <1>14 DEF Stands, Base, u

LEMMA CleanReturns ==
    ASSUME CalmWorld, NEW t, NEW b, Clean(t, b), t.pushes = b[Len(t.frames) - 1],
           t.frames[Len(t.frames)].kind # "settor"
    PROVE  Settled(Return(t), b)
<1> DEFINE f == t.frames
           n == Len(f)
           g == Return(t).frames
<1>1. Opened(t) /\ Alive(t) /\ Good(f) /\ n \in Nat \ {0} /\ n # 1 /\ Quiet(f, b)
  BY DEF Clean, Opened, Alive, Good, Matching
<1>2. n - 1 \in 1..n - 1 /\ n \in 1..n
  <2> HIDE DEF n
  <2> QED BY <1>1
<1>3. Len(g) = n - 1 /\ \A k \in 1..n - 1 : g[k] = f[k]
  BY <1>1, Returned
<1>4. ~OverLocal(f[n - 1])
  <2>1. QuietAt(f, b, n)
    BY <1>1, <1>2 DEF Quiet
  <2> QED BY <1>1, <2>1 DEF QuietAt
<1>5. ~OverLocal(g[Len(g)])
  BY <1>2, <1>3, <1>4
<1> QED BY <1>5, CleanStands DEF Settled

\* A throw is under way: the bindings above p are gone, the settors stay below
\* a handler that stops it.
Flying(t, b) ==
    /\ Thrown(t) /\ Matching(t, b) /\ ~OverLocal(t.frames[Len(t.frames)])
    /\ Saved(t.frames, b, t.thr.h)
    /\ \E p \in t.thr.h.pushes..Len(b[Len(t.frames)]) : t.pushes = SubSeq(b[Len(t.frames)], 1, p)
    /\ Stocked(t, Left(t.frames, Len(t.frames), t.thr.h.at))
    /\ world.settors # {} => t.evaldepth = Cardinality(Evals(t.frames, Len(t.frames)))
    /\ Stopped(t.frames, Len(t.frames), t.thr.h.at, t.thr.e)

LEMMA LiveInto ==
    ASSUME NEW f, Good(f), NEW L \in {Len(f), Len(f) - 1}, L # 0,
           L = Len(f) - 1 => f[Len(f)].kind \in Catching
    PROVE  /\ Live(f, L) \subseteq Live(f, Len(f))
           /\ \A i \in 1..Len(f) : f[i].kind = "settor" => i \in 1..L
<1>1. Len(f) \in Nat \ {0}
  BY DEF Good
<1>2. CASE L = Len(f)
  BY <1>2
<1>3. CASE L = Len(f) - 1
  <2>1. f[L + 1].kind \in Catching /\ L \in Nat /\ L + 1 = Len(f)
    BY <1>1, <1>3
  <2>2. f[L + 1].kind # "settor" /\ f[L + 1].kind # "child"
    BY <2>1 DEF Catching
  <2>3. f[L + 1].thr = NoThrow
    BY <1>1, <2>1, <2>2 DEF Good
  <2>4. \A j \in 1..L : f[j].thr # NoThrow => f[j].thr.h.at \in 1..j - 1
    BY <1>1, <2>1, GoodBefore
  <2>5. Live(f, L + 1) = Live(f, L) \cup {L + 1}
    BY <2>1, <2>2, <2>3, <2>4, LiveOrdinary
  <2>6. \A i \in 1..L + 1 : i \in 1..L \/ i = L + 1
    BY <2>1
  <2> QED BY <2>1, <2>2, <2>5, <2>6
<1> QED BY <1>2, <1>3

LEMMA Launch ==
    ASSUME NEW t, Alive(t), NEW b, Matching(t, b),
           NEW L \in {Len(t.frames), Len(t.frames) - 1}, L # 0,
           L = Len(t.frames) - 1 => t.frames[Len(t.frames)].kind \in Catching,
           Ats(t.handlers) = Live(t.frames, L), ~OverLocal(t.frames[Len(t.frames)]),
           Stocked(t, Still(t.frames, L)),
           world.settors # {} => t.evaldepth = Cardinality(Evals(t.frames, Len(t.frames))),
           NEW p \in {Len(b[Len(t.frames)]), Len(b[L])}, t.pushes = SubSeq(b[Len(t.frames)], 1, p),
           NEW e \in Text, e # "none",
           \A i \in 1..Len(t.frames) : t.frames[i].kind = "settor" =>
              \E k \in Live(t.frames, L) : i < k /\ Stops(t.frames[k], e),
           Ok(Throw(t, e)), Throw(t, e).dead = "no"
    PROVE  Flying(Throw(t, e), b) /\ Throw(t, e).frames = t.frames
<1> DEFINE f == t.frames
           n == Len(f)
           q == t.handlers
           u == Throw(t, e)
           h == Last(q)
           m == h.at
<1>1. /\ Typed(t) /\ Good(f) /\ f \in Seq(FrameType) /\ q \in Seq(Depths) /\ Rising(q) /\ n \in Nat \ {0}
      /\ L \in Nat \ {0} /\ L \in 1..n /\ DOMAIN t = Fields
  <2>1. Typed(t) /\ Good(f) /\ f \in Seq(FrameType) /\ q \in Seq(Depths) /\ Rising(q) /\ DOMAIN t = Fields
    BY DEF Alive, Typed
  <2>2. n \in Nat \ {0}
    BY <2>1 DEF Good
  <2> HIDE DEF f, q
  <2>3. L \in Nat \ {0} /\ L \in 1..n
    BY <2>2 DEF f
  <2> QED BY <2>1, <2>2, <2>3
<1>2. q # <<>>
  <2> SUFFICES ASSUME q = <<>> PROVE FALSE
    OBVIOUS
  <2>1. u.dead = "nohandler"
    BY <1>1 DEF Throw, Dead, Fields
  <2> QED BY <2>1
<1>3. /\ Has(u, f, Front(q), t.pushes, t.inputs, t.defers, t.evaldepth, t.blocked, t.hasforked,
             [e |-> e, h |-> h], t.dead)
  BY <1>1, <1>2, ThrowHas
<1>4. /\ h \in Depths /\ m \in Live(f, L) /\ \A k \in Live(f, L) : k <= m
      /\ h = q[Len(q)] /\ Len(q) \in DOMAIN q
  BY <1>1, <1>2, FrontRising DEF Last
<1> HIDE DEF u, h
<1>5. Thrown(u)
  <2>1. u.thr # NoThrow
    BY <1>3, <1>4, NamedThrows DEF Has
  <2>2. Ok(u) /\ u.dead = "no"
    BY DEF u
  <2> QED BY <2>1, <2>2 DEF Ok, Holds, Gone
<1>6. u.thr.h = h /\ u.thr.e = e /\ u.frames = f /\ u.pushes = t.pushes /\ u.handlers = Front(q)
      /\ u.inputs = t.inputs /\ u.defers = t.defers /\ u.blocked = t.blocked
      /\ u.evaldepth = t.evaldepth /\ u.hasforked = t.hasforked
  BY <1>3 DEF Has
<1>7. Saved(f, b, h)
  BY <1>4 DEF Matching
<1>8. \A i \in 1..n : f[i].kind = "settor" => i < m
  <2> SUFFICES ASSUME NEW i \in 1..n, f[i].kind = "settor" PROVE i < m
    OBVIOUS
  <2>1. PICK k \in Live(f, L) : i < k
    OBVIOUS
  <2>2. k <= m /\ k \in Int /\ m \in Int
    BY <1>4 DEF Live
  <2> QED BY <2>1, <2>2
<1>9. m \in 1..L /\ m \in 1..n /\ f[m].kind \in Catching /\ f[m].thr = NoThrow
  <2>1. m \in 1..L /\ f[m].kind \in Catching
    BY <1>4 DEF Live
  <2>2. m \in 1..n
    BY <1>1, <2>1
  <2>3. f[m].kind # "settor"
    BY <2>1 DEF Catching
  <2> QED BY <1>1, <2>1, <2>2, <2>3 DEF Good
<1>10. h.pushes \in Nat /\ h.pushes <= Len(b[L]) /\ Len(b[L]) <= Len(b[n]) /\ Len(b[L]) \in Nat /\ Len(b[n]) \in Nat
  <2>1. \A j \in m + 1..n : f[j].thr = NoThrow
    <3> SUFFICES ASSUME NEW j \in m + 1..n PROVE f[j].thr = NoThrow
      OBVIOUS
    <3>1. j \in 1..n /\ ~(j < m)
      BY <1>1, <1>9
    <3>2. f[j].kind # "settor"
      BY <1>8, <3>1
    <3> QED BY <1>1, <3>1, <3>2 DEF Good
  <2>2. /\ Depth(f, b, m) \in 0..Len(b[m])
        /\ \A k \in m..n : Begins(b[m], Depth(f, b, m), b[k])
    <3>1. Chain(f, b)
      BY DEF Matching
    <3> HIDE DEF f, m
    <3> QED BY <1>1, <1>9, <2>1, <3>1, SeenStays
  <2>3. L \in m..n
    BY <1>1, <1>9
  <2>4. h.pushes = Depth(f, b, m)
    BY <1>7 DEF Saved
  <2>5. h.pushes \in 0..Len(b[L])
    BY <2>2, <2>3, <2>4 DEF Begins
  <2>6. b[L] \in Seq(Text) /\ b[n] \in Seq(Text)
    BY <1>1 DEF Matching, Chain
  <2>7. Len(b[L]) <= Len(b[n])
    <3>1. CASE L = n
      BY <2>6, <3>1
    <3>2. CASE L = n - 1
      <4>1. f[n].thr = NoThrow /\ n \in 1..n /\ f[n] \in FrameType
        BY <1>1, <3>2, SMTT(40) DEF Good, Catching
      <4>2. b[n] = b[L] \o Bound(f[n]) /\ Bound(f[n]) \in Seq(Text)
        BY <1>1, <3>2, <4>1, BoundType DEF Matching, Chain, Ground
      <4> QED BY <2>6, <4>2, Longer
    <3> QED BY <3>1, <3>2
  <2>8. Len(b[L]) \in Nat /\ Len(b[n]) \in Nat
    BY <2>6
  <2> QED BY <2>5, <2>7, <2>8
<1>11. p \in h.pushes..Len(b[n])
  BY <1>10
<1>12. Left(f, n, m) = Still(f, L)
  <2>1. Good(f) /\ L # 0 /\ (L = Len(f) - 1 => f[Len(f)].kind \in Catching)
    BY <1>1
  <2>2. L \in {Len(f), Len(f) - 1}
    OBVIOUS
  <2> HIDE DEF f, m
  <2> QED BY <1>4, <1>8, <2>1, <2>2, StillLeft
<1>13. Stocked(u, Left(f, n, m))
  <2>1. Stocked(t, Still(f, L))
    OBVIOUS
  <2>2. Unstirred(t, u) /\ Same(t, u, Still(f, L))
    BY <1>6 DEF Unstirred, Same
  <2> HIDE DEF f
  <2> QED BY <1>12, <2>1, <2>2, StockedSame
<1>14. Stopped(f, n, m, e)
  <2>1. Live(f, L) \subseteq Live(f, n)
    BY <1>1, LiveInto
  <2> SUFFICES ASSUME NEW i \in 1..n, f[i].kind = "settor"
               PROVE  \E k \in Live(f, n) : i < k /\ k <= m /\ Stops(f[k], e)
    BY DEF Stopped
  <2>2. PICK k \in Live(f, L) : i < k /\ Stops(f[k], e)
    OBVIOUS
  <2> QED BY <1>4, <2>1, <2>2
<1>15. Matching(u, b)
  <2>1. \A i \in DOMAIN u.handlers : i \in DOMAIN q /\ u.handlers[i] = q[i]
    BY <1>1, <1>2, <1>6 DEF Front
  <2> QED BY <1>6, <2>1 DEF Matching
<1>16. \E x \in h.pushes..Len(b[n]) : t.pushes = SubSeq(b[n], 1, x)
  BY <1>11
<1>17. /\ ~OverLocal(f[n])
       /\ world.settors # {} => t.evaldepth = Cardinality(Evals(f, n))
  OBVIOUS
<1>18. Flying(u, b)
  BY <1>5, <1>6, <1>7, <1>13, <1>14, <1>15, <1>16, <1>17 DEF Flying
<1> QED BY <1>6, <1>18 DEF u

Matches(u) == u.dead = "no" => \E c : Settled(u, c) \/ Flying(u, c)

\* Control is back with a handler, what its frame has added still there.
Bare(t, b, e) ==
    /\ Opened(t) /\ Base(t, b) /\ t.frames[Len(t.frames)].kind \in Catching \ {"main"}
    /\ t.pushes = SubSeq(b[Len(t.frames)], 1, Depth(t.frames, b, Len(t.frames)))
    /\ Stopped(t.frames, Len(t.frames), Len(t.frames), e)

LEMMA BareBack ==
    ASSUME CalmWorld, NEW t, NEW b, Flying(t, b), t.thr.h.at # 1, ~(Len(t.pushes) > t.thr.h.pushes)
    PROVE  /\ Bare(Back(t), b, t.thr.e) /\ Len(Back(t).frames) = t.thr.h.at
           /\ \A j \in 1..Len(t.frames) : t.frames[j].thr # NoThrow => j < t.thr.h.at
<1> DEFINE f == t.frames
           n == Len(f)
           h == t.thr.h
           m == h.at
           g == SubSeq(f, 1, m)
           u == Back(t)
<1>1. /\ Thrown(t) /\ Alive(t) /\ Typed(t) /\ Good(f) /\ Exec(f) /\ f \in Seq(FrameType) /\ m \in Live(f, n)
      /\ n \in Nat \ {0} /\ DOMAIN t = Fields /\ t.thr \in Throws
  BY DEF Flying, Thrown, Alive, Typed, Good
<1>2. /\ m \in 1..n /\ f[m].kind \in Catching /\ f[m].thr = NoThrow /\ m # 1
      /\ m \in Nat /\ m <= n /\ m \in 1..m
  <2>1. m \in 1..n /\ f[m].kind \in Catching /\ f[m].thr = NoThrow /\ m # 1
    BY <1>1, LiveFrames
  <2> HIDE DEF m, n
  <2> QED BY <1>1, <2>1
<1>3. Opened(u) /\ u.frames[Len(u.frames)].kind \in Catching \ {"main"}
  BY <1>1, GoingBack
<1>4. Has(u, g, t.handlers, t.pushes, t.inputs, t.defers, h.evaldepth, t.blocked, t.hasforked, NoThrow, t.dead)
  BY <1>1, BackHas
<1> HIDE DEF u
<1>5. Len(g) = m /\ \A k \in 1..m : g[k] = f[k]
  BY <1>1, <1>2
<1>6. /\ Matching(t, b) /\ Chain(f, b) /\ Quiet(f, b) /\ Fits(f) /\ Saved(f, b, h) /\ Stopped(f, n, m, t.thr.e)
      /\ Stocked(t, Left(f, n, m))
  BY DEF Flying, Matching
<1>7. Live(f, m) = {k \in Live(f, n) : k <= m} /\ ~Parents(f, n, m)
  <2> HIDE DEF m, f
  <2> QED BY <1>1, <1>2, LiveCut
<1>8. \A j \in 1..n : f[j].kind = "settor" => j < m
  <2> SUFFICES ASSUME NEW j \in 1..n, f[j].kind = "settor" PROVE j < m
    OBVIOUS
  <2>1. PICK k \in Live(f, n) : j < k /\ k <= m
    BY <1>6 DEF Stopped
  <2>2. k \in Int /\ m \in Int
    BY <1>2, <2>1 DEF Live
  <2> QED BY <2>1, <2>2
<1>9. \A j \in 1..n : f[j].thr # NoThrow => j < m
  BY <1>1, <1>8 DEF Good
<1>10. Chain(g, b) /\ Quiet(g, b) /\ Equal(f, b, g, b, m)
  <2> HIDE DEF f, g, m
  <2> QED BY <1>1, <1>2, <1>5, <1>6, MatchingCut
<1>11. Fits(g)
  <2>1. m # MaxFrames + 1
    <3> SUFFICES ASSUME m = MaxFrames + 1 PROVE FALSE
      OBVIOUS
    <3>1. n = m
      BY <1>1, <1>2, <1>6 DEF Fits, CalmWorld
    <3>2. f[m].kind # "settor"
      BY <1>2 DEF Catching
    <3> QED BY <1>6, <3>1, <3>2 DEF Fits, CalmWorld
  <2> HIDE DEF f, g, m, n
  <2> QED BY <1>1, <1>2, <1>5, <1>6, <2>1 DEF Fits, CalmWorld, n
<1>12. \A i \in DOMAIN t.handlers : t.handlers[i].at \in 1..m
  <2> SUFFICES ASSUME NEW i \in DOMAIN t.handlers PROVE t.handlers[i].at \in 1..m
    OBVIOUS
  <2>1. t.handlers[i].at \in Below(f, m)
    BY <1>1 DEF Thrown, Ats
  <2>2. t.handlers[i].at \in 1..n /\ t.handlers[i].at < m
    BY <2>1 DEF Below, Live
  <2> HIDE DEF m, f
  <2> QED BY <1>2, <2>2
<1>13. \A i \in DOMAIN u.handlers : Saved(g, b, u.handlers[i])
  <2> SUFFICES ASSUME NEW i \in DOMAIN t.handlers PROVE Saved(g, b, t.handlers[i])
    BY <1>4 DEF Has
  <2>1. Saved(f, b, t.handlers[i]) /\ t.handlers[i].at \in 1..m
    BY <1>6, <1>12 DEF Matching
  <2> HIDE DEF f, g, m
  <2> QED BY <1>2, <1>10, <2>1, SavedEqual
<1>14. (\E k \in 1..Len(g) : g[k].kind = "child") => u.hasforked
  <2>1. \A k \in 1..m : k \in 1..n /\ g[k] = f[k]
    BY <1>1, <1>2, <1>5
  <2>2. (\E k \in 1..n : f[k].kind = "child") => t.hasforked
    BY <1>6 DEF Matching
  <2>3. u.hasforked = t.hasforked
    BY <1>4 DEF Has
  <2> HIDE DEF f, g, m, n
  <2> QED BY <1>5, <2>1, <2>2, <2>3
<1>15. u.frames = g /\ u.inputs = t.inputs /\ u.defers = t.defers /\ u.blocked = t.blocked
       /\ u.evaldepth = h.evaldepth /\ u.pushes = t.pushes
  BY <1>4 DEF Has
<1>16. Matching(u, b)
  <2> HIDE DEF g
  <2> QED BY <1>10, <1>11, <1>13, <1>14, <1>15 DEF Matching
<1>17. Stocked(u, Still(g, m))
  <2>1. Still(f, m) = Left(f, n, m)
    <3>1. \A j \in m + 1..n : f[j].thr # NoThrow => f[j].thr.h.at \in Int /\ f[j].thr.h.at >= m
      <4>1. \A j \in m + 1..n : j \in 1..n /\ ~(j < m)
        BY <1>1, <1>2
      <4> QED BY <1>9, <4>1
    <3> HIDE DEF f, m, n
    <3> QED BY <1>1, <1>2, <1>7, <3>1, StillCut
  <2>2. Still(g, m) = Still(f, m)
    <3>1. Alike(f, g, m) /\ m \in Int
      BY <1>2, <1>5 DEF Alike
    <3> HIDE DEF f, m, g
    <3> QED BY <3>1, StillAlike
  <2>3. Still(g, m) \subseteq 1..m
    BY DEF Still
  <2>4. Same(t, u, Still(g, m))
    BY <1>5, <1>15, <2>3 DEF Same
  <2>5. Unstirred(t, u)
    BY <1>15 DEF Unstirred
  <2> HIDE DEF f, m, n, g
  <2> QED BY <1>6, <2>1, <2>2, <2>4, <2>5, StockedSame
<1>18. h.pushes = Depth(f, b, m) /\ h.evaldepth = Cardinality(Evals(f, m))
  BY <1>6 DEF Saved
<1>19. u.evaldepth = Cardinality(Evals(g, m))
  <2>1. Evals(f, m) = Evals(g, m)
    <3>1. m \in Int /\ \A k \in 1..m : f[k].kind \in Evaluated <=> g[k].kind \in Evaluated
      BY <1>2, <1>5
    <3> HIDE DEF f, g, m
    <3> QED BY <3>1, EvalsSame
  <2> QED BY <1>15, <1>18, <2>1
<1>20. t.pushes = SubSeq(b[m], 1, Depth(f, b, m))
  <2>1. PICK p \in h.pushes..Len(b[n]) : t.pushes = SubSeq(b[n], 1, p)
    BY DEF Flying
  <2>2. b[n] \in Seq(Text) /\ h.pushes \in Nat
    BY <1>1, <1>6 DEF Chain, Throws, Depths
  <2>3. p \in Nat /\ p <= Len(b[n]) /\ p >= h.pushes
    BY <2>1, <2>2
  <2>4. Len(SubSeq(b[n], 1, p)) = p
    BY <2>2, <2>3
  <2>5. p = h.pushes
    BY <2>1, <2>2, <2>3, <2>4
  <2>6. \A j \in m + 1..n : f[j].thr = NoThrow
    <3>1. \A j \in m + 1..n : j \in 1..n /\ ~(j < m)
      BY <1>1, <1>2
    <3> QED BY <1>9, <3>1
  <2>7. \A k \in m..n : Begins(b[m], Depth(f, b, m), b[k])
    <3> HIDE DEF f, m
    <3> QED BY <1>1, <1>2, <1>6, <2>6, SeenStays
  <2>8. n \in m..n
    BY <1>1, <1>2
  <2>9. Begins(b[m], Depth(f, b, m), b[n])
    BY <2>7, <2>8
  <2> HIDE DEF f, m, n, h
  <2> QED BY <1>18, <2>1, <2>5, <2>9 DEF Begins, m
<1>21. Depth(g, b, m) = Depth(f, b, m)
  BY <1>2, <1>5 DEF Depth
<1>22. Stopped(g, m, m, t.thr.e)
  <2>1. Live(g, m) = Live(f, m)
    <3>1. Alike(f, g, m) /\ m \in Int
      BY <1>2, <1>5 DEF Alike
    <3> HIDE DEF f, m, g
    <3> QED BY <3>1, LiveAlike
  <2> SUFFICES ASSUME NEW i \in 1..m, g[i].kind = "settor"
               PROVE  \E k \in Live(g, m) : i < k /\ k <= m /\ Stops(g[k], t.thr.e)
    BY DEF Stopped
  <2>2. i \in 1..n /\ f[i].kind = "settor"
    BY <1>1, <1>2, <1>5
  <2>3. PICK k \in Live(f, n) : i < k /\ k <= m /\ Stops(f[k], t.thr.e)
    BY <1>6, <2>2 DEF Stopped
  <2>4. k \in Live(g, m)
    BY <1>7, <2>1, <2>3
  <2>5. k \in 1..m
    BY <2>4 DEF Live
  <2> QED BY <1>5, <2>3, <2>4, <2>5
<1>23. Bare(u, b, t.thr.e)
  <2> HIDE DEF g
  <2> QED BY <1>3, <1>5, <1>15, <1>16, <1>17, <1>19, <1>20, <1>21, <1>22 DEF Bare, Base
<1> QED BY <1>5, <1>9, <1>15, <1>23 DEF u

LEMMA CleanThrows ==
    ASSUME NEW t, NEW b, Clean(t, b), NEW e \in Text, e # "none",
           t.frames[Len(t.frames)].kind \in Catching,
           t.pushes = SubSeq(b[Len(t.frames)], 1, Depth(t.frames, b, Len(t.frames))),
           Stopped(t.frames, Len(t.frames), Len(t.frames), e),
           ~Stops(t.frames[Len(t.frames)], e)
    PROVE  Matches(Rethrow(t, e)) /\ (Rethrow(t, e).dead = "no" => Rethrow(t, e).frames = t.frames)
<1> DEFINE f == t.frames
           n == Len(f)
           m == n - 1
           u == Rethrow(t, e)
<1> SUFFICES ASSUME u.dead = "no" PROVE Flying(u, b) /\ u.frames = f
  BY DEF Matches
<1>1. /\ Opened(t) /\ Alive(t) /\ Good(f) /\ n \in Nat \ {0} /\ n # 1 /\ Ats(t.handlers) = Live(f, m)
      /\ Matching(t, b) /\ Stocked(t, Still(f, m)) /\ t.evaldepth = Cardinality(Evals(f, n))
  BY DEF Clean, Opened, Alive, Good
<1>2. /\ m \in Nat \ {0} /\ m + 1 = n /\ f[m + 1].kind \in Catching /\ f[m + 1].kind # "child"
      /\ f[m + 1].kind # "settor" /\ m # 0
  BY <1>1 DEF Catching
<1>3. f[m + 1].thr = NoThrow
  BY <1>1, <1>2 DEF Good
<1>4. Live(f, n) = Live(f, m) \cup {n}
  <2>1. \A j \in 1..m : f[j].thr # NoThrow => f[j].thr.h.at \in 1..j - 1
    BY <1>1, <1>2, GoodBefore
  <2>2. Live(f, m + 1) = Live(f, m) \cup {m + 1}
    <3> HIDE DEF m, f
    <3> QED BY <1>2, <1>3, <2>1, LiveOrdinary
  <2> QED BY <1>2, <2>2
<1>5. \A i \in 1..n : f[i].kind = "settor" => \E k \in Live(f, m) : i < k /\ Stops(f[k], e)
  <2> SUFFICES ASSUME NEW i \in 1..n, f[i].kind = "settor"
               PROVE  \E k \in Live(f, m) : i < k /\ Stops(f[k], e)
    OBVIOUS
  <2>1. PICK k \in Live(f, n) : i < k /\ k <= n /\ Stops(f[k], e)
    BY DEF Stopped
  <2> QED BY <1>4, <2>1
<1>6. Ok(Throw(t, e)) /\ Throw(t, e) = u
  <2>1. Ok(u)
    BY <1>1, Rethrowing
  <2> QED BY <2>1 DEF Rethrow
<1>7. ~OverLocal(f[n])
  BY DEF OverLocal, Catching
<1> DEFINE p == Depth(f, b, n)
<1>8. p \in {Len(b[n]), Len(b[m])}
  BY DEF Depth
<1> HIDE DEF p, u
<1>9. t.pushes = SubSeq(b[n], 1, p)
  BY DEF p
<1> QED BY <1>1, <1>2, <1>5, <1>6, <1>7, <1>8, <1>9, Launch DEF u

LEMMA Under ==
    ASSUME NEW q \in Seq(Text), NEW w \in Seq(Text)
    PROVE  SubSeq(q \o w, 1, Len(q)) = q
<1> DEFINE z == q \o w
           y == SubSeq(z, 1, Len(q))
<1>1. z \in Seq(Text) /\ Len(z) = Len(q) + Len(w) /\ \A i \in 1..Len(q) : z[i] = q[i]
  OBVIOUS
<1> HIDE DEF z
<1>2. Len(q) \in Nat /\ Len(w) \in Nat /\ Len(q) <= Len(z)
  BY <1>1
<1>3. y \in Seq(Text) /\ Len(y) = Len(q) /\ \A i \in 1..Len(q) : y[i] = z[i]
  BY <1>1, <1>2
<1> HIDE DEF y
<1>4. y = q
  BY <1>1, <1>3
<1> QED BY <1>4 DEF y, z

\* What throw has popped, down to the handler.
LEMMA BarePushes ==
    ASSUME NEW t, NEW b, NEW e, Bare(t, b, e), t.frames[Len(t.frames)].kind \notin {"readfrom", "writeto"}
    PROVE  t.pushes = b[Len(t.frames) - 1]
<1> DEFINE f == t.frames
           n == Len(f)
           m == n - 1
<1>1. /\ Opened(t) /\ Alive(t) /\ Typed(t) /\ Good(f) /\ f \in Seq(FrameType) /\ n \in Nat \ {0} /\ n # 1
      /\ Chain(f, b) /\ f[n].kind \in Catching \ {"main"}
      /\ t.pushes = SubSeq(b[n], 1, Depth(f, b, n))
  BY DEF Bare, Base, Matching, Opened, Alive, Typed, Good
<1>2. m \in Nat /\ n \in 1..n /\ m \in 0..n /\ f[n] \in FrameType /\ f[n].kind # "settor"
  BY <1>1 DEF Catching
<1>3. f[n].thr = NoThrow
  BY <1>1, <1>2 DEF Good
<1>4. b[n] = b[m] \o Bound(f[n]) /\ b[m] \in Seq(Text) /\ Bound(f[n]) \in Seq(Text)
  BY <1>1, <1>2, <1>3, BoundType DEF Chain, Ground
<1> HIDE DEF n, m, f
<1>5. CASE f[n].kind \in {"run", "fn"}
  <2>1. t.pushes = SubSeq(b[m] \o Bound(f[n]), 1, Len(b[m]))
    BY <1>1, <1>4, <1>5 DEF Depth, m
  <2>2. SubSeq(b[m] \o Bound(f[n]), 1, Len(b[m])) = b[m]
    BY <1>4, Under
  <2> QED BY <2>1, <2>2 DEF m, n, f
<1>6. CASE f[n].kind \notin {"run", "fn"}
  <2>1. f[n].kind \notin {"run", "fn", "settor", "readfrom", "writeto", "local"}
    BY <1>1, <1>6 DEF Catching, n, f
  <2>2. Bound(f[n]) = <<>>
    BY <1>2, <2>1, BoundType
  <2>3. b[n] = b[m]
    BY <1>4, <2>2
  <2>4. t.pushes = SubSeq(b[m], 1, Len(b[m]))
    BY <1>1, <1>6, <2>3 DEF Depth
  <2>5. SubSeq(b[m], 1, Len(b[m])) = b[m]
    BY <1>4
  <2> QED BY <2>4, <2>5 DEF m, n, f
<1> QED BY <1>5, <1>6

\* The frame of a catch becomes that of its catcher, or the other way.
LEMMA CleanBecomes ==
    ASSUME CalmWorld, NEW t, NEW b, Clean(t, b), t.pushes = b[Len(t.frames) - 1],
           NEW kind \in {"catch", "catcher"}, t.frames[Len(t.frames)].kind \in {"catch", "catcher"},
           NEW w, Opened(w), w.frames = t.frames, w.handlers = t.handlers, w.pushes = t.pushes,
           w.inputs = t.inputs, w.defers = t.defers, w.evaldepth = t.evaldepth, w.hasforked = t.hasforked,
           w.blocked = IF kind = "catcher" THEN t.blocked + 1 ELSE t.blocked
    PROVE  Matches(Becomes(w, kind)) /\ Len(Becomes(w, kind).frames) = Len(t.frames)
<1> DEFINE f == t.frames
           n == Len(f) - 1
           y == [f[Len(f)] EXCEPT !.kind = kind]
           g == Append(Front(f), y)
           x == [w EXCEPT !.frames = g]
           u == Becomes(w, kind)
<1>1. /\ Opened(t) /\ Alive(t) /\ Typed(t) /\ Good(f) /\ f \in Seq(FrameType) /\ Len(f) \in Nat \ {0} /\ Len(f) # 1
      /\ Matching(t, b) /\ Stocked(t, Still(f, n)) /\ t.evaldepth = Cardinality(Evals(f, Len(f)))
      /\ Ats(t.handlers) = Live(f, n)
  BY DEF Clean, Opened, Alive, Typed, Good
<1>2. /\ n \in Nat \ {0} /\ n + 1 = Len(f) /\ n \in 1..Len(f) /\ n + 1 \in 1..Len(f) /\ (n + 1) - 1 = n
      /\ n + 1 # 1
  <2>1. \A k \in Nat \ {0} : k # 1 =>
          /\ k - 1 \in Nat \ {0} /\ (k - 1) + 1 = k /\ k - 1 \in 1..k
          /\ (k - 1) + 1 \in 1..k /\ ((k - 1) + 1) - 1 = k - 1 /\ (k - 1) + 1 # 1
    OBVIOUS
  <2>2. Len(f) \in Nat \ {0} /\ Len(f) # 1
    BY <1>1
  <2> QED BY ONLY <2>1, <2>2
<1>3. f[n + 1] \in FrameType /\ f[n + 1].thr = NoThrow /\ kind \in AllKinds
      /\ f[n + 1].kind \in {"catch", "catcher"}
  BY <1>1, <1>2 DEF Good, AllKinds, Catching
<1>4. /\ y \in FrameType /\ y.kind = kind /\ y.thr = NoThrow
  BY <1>2, <1>3, FrameKind
<1> HIDE DEF y
<1>5. g \in Seq(FrameType) /\ Len(g) = n + 1 /\ g[n + 1] = y /\ \A k \in 1..n : g[k] = f[k]
  <2>1. Front(f) \in Seq(FrameType) /\ Len(Front(f)) = n
        /\ \A k \in 1..n : Front(f)[k] = f[k]
    BY <1>1, <1>2 DEF Front
  <2> HIDE DEF f, n
  <2> QED BY <1>2, <1>4, <2>1
<1> HIDE DEF g
<1>6. DOMAIN w = Fields
  BY DEF Opened, Alive, Typed
<1>7. Has(x, g, w.handlers, w.pushes, w.inputs, w.defers, w.evaldepth, w.blocked, w.hasforked, w.thr, w.dead)
  BY <1>6, FramesHas
<1>8. u = pushhandler(x)
  BY DEF Becomes, Last, g, y
<1> HIDE DEF x
<1>9. Has(u, g, Append(t.handlers, Handler(x)), t.pushes, t.inputs, t.defers, t.evaldepth,
          IF kind = "catcher" THEN t.blocked + 1 ELSE t.blocked, t.hasforked, w.thr, w.dead)
  <2>1. DOMAIN x = Fields
    BY <1>7 DEF Has
  <2>2. Has(u, x.frames, Append(x.handlers, Handler(x)), x.pushes, x.inputs, x.defers,
            x.evaldepth, x.blocked, x.hasforked, x.thr, x.dead)
    BY <1>8, <2>1, PushhandlerHas
  <2> HIDE DEF u
  <2> QED BY <1>7, <2>2 DEF Has
<1>10. Holds(u)
  BY Becoming
<1> HIDE DEF u
<1>11. Handler(x) = [at |-> n + 1, pushes |-> Len(t.pushes), evaldepth |-> t.evaldepth]
  BY <1>5, <1>7 DEF Handler, Has
<1>12. /\ u.frames = g /\ u.pushes = t.pushes /\ u.evaldepth = t.evaldepth /\ u.hasforked = t.hasforked
       /\ u.inputs = t.inputs /\ u.defers = t.defers
       /\ u.blocked = (IF kind = "catcher" THEN t.blocked + 1 ELSE t.blocked)
       /\ u.handlers = Append(t.handlers, Handler(x))
  BY <1>9 DEF Has
<1>13. \A i \in DOMAIN u.handlers : Kept(t, u, n + 1, u.handlers[i], Len(b[n]))
  <2> SUFFICES ASSUME NEW i \in DOMAIN u.handlers PROVE Kept(t, u, n + 1, u.handlers[i], Len(b[n]))
    OBVIOUS
  <2>1. t.handlers \in Seq(Depths)
    BY <1>1 DEF Typed
  <2>2. CASE i \in DOMAIN t.handlers
    <3>1. u.handlers[i] = t.handlers[i]
      BY <1>12, <2>1, <2>2
    <3>2. t.handlers[i].at \in Live(f, n)
      BY <1>1, <2>2 DEF Ats
    <3>3. t.handlers[i].at < n + 1
      BY <1>2, <3>2 DEF Live
    <3> QED BY <2>2, <3>1, <3>3 DEF Kept
  <2>3. CASE i \notin DOMAIN t.handlers
    <3>1. u.handlers[i] = Handler(x)
      BY <1>12, <2>1, <2>3
    <3>2. u.frames[n + 1].kind \notin {"run", "fn"}
      BY <1>4, <1>5, <1>12
    <3>3. u.handlers[i].at = n + 1 /\ u.handlers[i].evaldepth = t.evaldepth /\ u.handlers[i].pushes = Len(t.pushes)
      BY <1>11, <3>1
    <3> QED BY <1>12, <3>2, <3>3 DEF Kept
  <2> QED BY <2>2, <2>3
<1>14. u.pushes = b[n] \o Bound(u.frames[n + 1])
  <2>1. Bound(y) = <<>>
    BY <1>4, BoundType
  <2>2. b[n] \in Seq(Text)
    BY <1>1, <1>2 DEF Matching, Chain
  <2>3. b[n] \o <<>> = b[n]
    BY <2>2
  <2> QED BY <1>5, <1>12, <2>1, <2>3
<1>15. Gains(t, u, u.frames[n + 1], n + 1)
  BY <1>4, <1>5, <1>12 DEF Gains, Source, Deferred, Blocks
<1>16. u.evaldepth = IF u.frames[n + 1].kind \in Evaluated THEN Cardinality(Evals(t.frames, n)) + 1
                     ELSE Cardinality(Evals(t.frames, n))
  <2>1. Cardinality(Evals(f, n + 1)) = IF f[n + 1].kind \in Evaluated THEN Cardinality(Evals(f, n)) + 1
                                       ELSE Cardinality(Evals(f, n))
    <3> HIDE DEF f, n
    <3> QED BY <1>2, EvalsMore
  <2>2. f[n + 1].kind \in Evaluated /\ u.frames[n + 1].kind \in Evaluated
    BY <1>3, <1>4, <1>5, <1>12 DEF Evaluated
  <2> QED BY <1>1, <1>2, <1>12, <2>1, <2>2
<1>17. Fits(u.frames)
  <2>1. Fits(f)
    BY <1>1 DEF Matching
  <2>2. f[Len(f)].kind # "settor"
    BY <1>2, <1>3
  <2>3. Len(f) <= MaxFrames
    BY <2>1, <2>2 DEF Fits
  <2> QED BY <1>2, <1>5, <1>12, <2>3 DEF Fits
<1>18. ~OverLocal(f[n])
  <2>1. QuietAt(f, b, n + 1)
    BY <1>1, <1>2 DEF Matching, Quiet
  <2> QED BY <1>2, <1>3, <2>1 DEF QuietAt
<1>19. \E c : Stands(u, c)
  <2>1. /\ u.frames[n + 1].thr = NoThrow /\ u.frames[n + 1].kind # "settor" /\ u.frames[n + 1].kind # "child"
        /\ Len(u.frames) = n + 1 /\ \A k \in 1..n : u.frames[k] = t.frames[k]
    BY <1>4, <1>5, <1>12
  <2>2. Stocked(t, Still(t.frames, n)) /\ n \in 1..Len(t.frames) /\ (t.hasforked => u.hasforked)
    BY <1>1, <1>2, <1>12
  <2> HIDE DEF n
  <2> QED BY <1>1, <1>10, <1>13, <1>14, <1>15, <1>16, <1>17, <1>18, <2>1, <2>2, Placed
<1>20. ~OverLocal(u.frames[Len(u.frames)])
  BY <1>4, <1>5, <1>12 DEF OverLocal
<1> QED BY <1>2, <1>5, <1>12, <1>19, <1>20 DEF Settled, Matches, u

LEMMA BareClean ==
    ASSUME NEW t, NEW b, NEW e \in Text, e # "none", Bare(t, b, e), NEW u, Opened(u), u.frames = t.frames, u.handlers = t.handlers,
           u.pushes = t.pushes, u.evaldepth = t.evaldepth, u.hasforked = t.hasforked,
           Loses(t, u, t.frames[Len(t.frames)])
    PROVE  /\ Clean(u, b)
           /\ ~Stops(u.frames[Len(u.frames)], e) =>
                Matches(Rethrow(u, e)) /\ (Rethrow(u, e).dead = "no" => Rethrow(u, e).frames = t.frames)
<1>1. /\ Alive(t) /\ Base(t, b) /\ Len(t.frames) # 1 /\ t.frames[Len(t.frames)].kind \in Catching
      /\ Stopped(t.frames, Len(t.frames), Len(t.frames), e)
      /\ t.pushes = SubSeq(b[Len(t.frames)], 1, Depth(t.frames, b, Len(t.frames)))
  BY DEF Bare, Opened
<1>2. t.frames[Len(t.frames)].kind \notin {"settor", "child"}
  BY <1>1 DEF Catching
<1>3. Clean(u, b)
  BY <1>1, <1>2, Cleaning
<1> QED BY <1>1, <1>3, CleanThrows

LEMMA BareReturns ==
    ASSUME CalmWorld, NEW t, NEW b, Clean(t, b), t.pushes = b[Len(t.frames) - 1],
           t.frames[Len(t.frames)].kind \in Catching
    PROVE  Matches(Return(t)) /\ Len(Return(t).frames) = Len(t.frames) - 1
<1>1. t.frames[Len(t.frames)].kind # "settor"
  BY DEF Catching
<1>2. Settled(Return(t), b)
  BY <1>1, CleanReturns
<1>3. Len(Return(t).frames) = Len(t.frames) - 1
  BY Returned DEF Clean, Opened
<1> QED BY <1>2, <1>3 DEF Matches

LEMMA BareCatches ==
    ASSUME CalmWorld, NEW t, NEW b, NEW e \in Text, e # "none", Bare(t, b, e)
    PROVE  /\ Matches(Caught(t, e))
           /\ Caught(t, e).dead = "no" => Len(Caught(t, e).frames) >= Len(t.frames) - 1
<1> DEFINE n == Len(t.frames)
           x == t.frames[n]
           u == Caught(t, e)
           Good1(w) == Matches(w) /\ (w.dead = "no" => Len(w.frames) >= n - 1)
<1>1. /\ Opened(t) /\ Alive(t) /\ Typed(t) /\ DOMAIN t = Fields /\ n \in Nat \ {0}
      /\ x.kind \in Catching \ {"main"} /\ Last(t.frames) = x
  BY DEF Bare, Opened, Alive, Typed, Good, Last
<1>2. x.kind \notin {"readfrom", "writeto"} => t.pushes = b[n - 1]
  BY BarePushes
<1>3. ASSUME NEW w, Opened(w), w.frames = t.frames, w.handlers = t.handlers,
             w.pushes = t.pushes, w.evaldepth = t.evaldepth, w.hasforked = t.hasforked,
             Loses(t, w, x)
      PROVE  Clean(w, b) /\ (~Stops(x, e) => Good1(Rethrow(w, e)))
  <2>1. Clean(w, b) /\ (~Stops(x, e) =>
          Matches(Rethrow(w, e)) /\ (Rethrow(w, e).dead = "no" => Rethrow(w, e).frames = t.frames))
    BY <1>3, BareClean
  <2>2. \A k \in Nat : k >= k - 1
    OBVIOUS
  <2> QED BY <1>1, <2>1, <2>2
<1>4. x.kind \in {"loop", "catch", "fn", "for", "readfrom", "writeto"} =>
        Clean(t, b) /\ (~Stops(x, e) => Good1(Rethrow(t, e)))
  <2> SUFFICES ASSUME x.kind \in {"loop", "catch", "fn", "for", "readfrom", "writeto"} PROVE Loses(t, t, x)
    BY <1>1, <1>3
  <2> QED BY DEF Loses, Source, Deferred, Blocks
<1>5. ASSUME NEW caught, x.kind \in {"loop", "fn", "for"}, e # caught => ~Stops(x, e)
      PROVE  Good1(ReturnOn(t, e, caught))
  <2>1. Clean(t, b) /\ (~Stops(x, e) => Good1(Rethrow(t, e))) /\ t.pushes = b[n - 1]
    BY <1>2, <1>4, <1>5
  <2>2. Matches(Return(t)) /\ Len(Return(t).frames) = n - 1
    BY <1>1, <2>1, BareReturns
  <2>3. \A k \in Nat : k - 1 >= k - 1
    OBVIOUS
  <2>4. Good1(Return(t))
    BY <1>1, <2>2, <2>3
  <2> QED BY <1>5, <2>1, <2>4 DEF ReturnOn
<1>6. CASE x.kind = "run"
  <2> DEFINE w == endinput(t)
  <2>1. Opened(w)
    BY <1>1, EndinputBeside, Opens
  <2>2. Has(w, t.frames, t.handlers, t.pushes, Front(t.inputs), t.defers,
            t.evaldepth, t.blocked, t.hasforked, t.thr, t.dead)
    BY <1>1, EndinputHas
  <2> HIDE DEF w
  <2>3. Loses(t, w, x)
    BY <1>6, <2>2 DEF Has, Loses, Source, Deferred, Blocks
  <2>4. ~Stops(x, e)
    BY <1>6 DEF Stops
  <2>5. Good1(Rethrow(w, e))
    <3> HIDE DEF Good1
    <3> QED BY <1>3, <2>1, <2>2, <2>3, <2>4 DEF Has
  <2>6. u = Rethrow(w, e)
    BY <1>1, <1>6 DEF Caught, w
  <2> QED BY <2>5, <2>6
<1>7. CASE x.kind \in {"loop", "fn", "for"}
  <2> HIDE DEF Good1
  <2>1. CASE x.kind = "loop"
    <3>1. u = ReturnOn(t, e, "eof")
      BY <1>1, <2>1 DEF Caught
    <3>2. Good1(ReturnOn(t, e, "eof"))
      BY <1>5, <2>1 DEF Stops
    <3> QED BY <3>1, <3>2 DEF Good1
  <2>2. CASE x.kind = "fn"
    <3>1. u = ReturnOn(t, e, "return")
      BY <1>1, <2>2 DEF Caught
    <3>2. Good1(ReturnOn(t, e, "return"))
      BY <1>5, <2>2 DEF Stops
    <3> QED BY <3>1, <3>2 DEF Good1
  <2>3. CASE x.kind = "for"
    <3>1. u = ReturnOn(t, e, "break")
      BY <1>1, <2>3 DEF Caught
    <3>2. Good1(ReturnOn(t, e, "break"))
      BY <1>5, <2>3 DEF Stops
    <3> QED BY <3>1, <3>2 DEF Good1
  <2> QED BY <1>7, <2>1, <2>2, <2>3
<1>8. CASE x.kind = "catch"
  <2> DEFINE w == [t EXCEPT !.blocked = t.blocked + 1]
  <2>1. Opened(w)
    BY <1>1, BlockBeside, Opens
  <2>2. Has(w, t.frames, t.handlers, t.pushes, t.inputs, t.defers,
            t.evaldepth, t.blocked + 1, t.hasforked, t.thr, t.dead)
    BY <1>1, BlockHas
  <2> HIDE DEF w
  <2>3. Clean(t, b) /\ t.pushes = b[n - 1] /\ "catcher" \in {"catch", "catcher"}
    BY <1>2, <1>4, <1>8
  <2>4. Matches(Becomes(w, "catcher")) /\ Len(Becomes(w, "catcher").frames) = n
    BY <1>8, <2>1, <2>2, <2>3, CleanBecomes DEF Has
  <2>5. u = Becomes(w, "catcher")
    BY <1>1, <1>8 DEF Caught, frombody, w
  <2>6. n >= n - 1
    BY <1>1
  <2> QED BY <2>4, <2>5, <2>6
<1>9. CASE x.kind = "catcher"
  <2> DEFINE w == unblocksignals(t)
  <2>1. Opened(w)
    BY <1>1, BlockBeside, Opens
  <2>2. Has(w, t.frames, t.handlers, t.pushes, t.inputs, t.defers,
            t.evaldepth, t.blocked - 1, t.hasforked, t.thr, t.dead)
    BY <1>1, BlockHas DEF unblocksignals
  <2> HIDE DEF w
  <2>3. Loses(t, w, x)
    BY <1>9, <2>2 DEF Has, Loses, Source, Deferred, Blocks
  <2>4. Clean(w, b) /\ (~Stops(x, e) => Good1(Rethrow(w, e)))
    <3> HIDE DEF Good1
    <3> QED BY <1>3, <2>1, <2>2, <2>3 DEF Has
  <2>5. u = IF e = "retry" THEN Becomes(w, "catch") ELSE Rethrow(w, e)
    BY <1>1, <1>9 DEF Caught, fromcatcher, w
  <2>6. CASE e = "retry"
    <3>1. w.pushes = b[Len(w.frames) - 1] /\ "catch" \in {"catch", "catcher"} /\ Len(w.frames) = n
          /\ w.frames[Len(w.frames)].kind = "catcher"
      BY <1>2, <1>9, <2>2 DEF Has
    <3>2. Matches(Becomes(w, "catch")) /\ Len(Becomes(w, "catch").frames) = Len(w.frames)
      BY <2>1, <2>4, <3>1, CleanBecomes
    <3>3. n >= n - 1
      BY <1>1
    <3> QED BY <2>5, <2>6, <3>1, <3>2, <3>3
  <2>7. CASE e # "retry"
    <3>1. ~Stops(x, e)
      BY <1>9, <2>7 DEF Stops
    <3> QED BY <2>4, <2>5, <2>7, <3>1
  <2> QED BY <2>6, <2>7
<1>10. CASE x.kind = "redir"
  <2> DEFINE w == undefer(t)
  <2>1. Opened(w)
    BY <1>1, UndeferBeside, Opens
  <2>2. Has(w, t.frames, t.handlers, t.pushes, t.inputs, IF x.inchild THEN t.defers ELSE Front(t.defers),
            t.evaldepth, t.blocked, t.hasforked, t.thr, t.dead)
    BY <1>1, UndeferHas
  <2> HIDE DEF w
  <2>3. Loses(t, w, x)
    BY <1>10, <2>2 DEF Has, Loses, Source, Deferred, Blocks
  <2>4. ~Stops(x, e)
    BY <1>10 DEF Stops
  <2>5. Good1(Rethrow(w, e))
    <3> HIDE DEF Good1
    <3> QED BY <1>3, <2>1, <2>2, <2>3, <2>4 DEF Has
  <2>6. u = Rethrow(w, e)
    BY <1>1, <1>10 DEF Caught, w
  <2> QED BY <2>5, <2>6
<1>11. CASE x.kind \in {"readfrom", "writeto"}
  <2>1. ~Stops(x, e)
    BY <1>11 DEF Stops
  <2>2. u = Rethrow(t, e)
    BY <1>1, <1>11 DEF Caught
  <2> QED BY <1>4, <1>11, <2>1, <2>2
<1>12. x.kind \in {"run", "loop", "fn", "for", "catch", "catcher", "redir", "readfrom", "writeto"}
  BY <1>1 DEF Catching
<1> QED BY <1>6, <1>7, <1>8, <1>9, <1>10, <1>11, <1>12

\* A throw that a settor suspends stays with the settor, or goes on.
Keeps(t, u) ==
    u.dead = "no" =>
      \A j \in 1..Len(t.frames) :
        t.frames[j].thr # NoThrow => j <= Len(u.frames) \/ u.thr = t.frames[j].thr

LEMMA PrefixPop ==
    ASSUME NEW q \in Seq(Text), NEW p \in 0..Len(q)
    PROVE  /\ SubSeq(q, 1, p) \in Seq(Text) /\ Len(SubSeq(q, 1, p)) = p
           /\ p # 0 => Front(SubSeq(q, 1, p)) = SubSeq(q, 1, p - 1)
<1> DEFINE z == SubSeq(q, 1, p)
<1>1. z \in Seq(Text) /\ Len(z) = p /\ \A i \in 1..p : z[i] = q[i]
  OBVIOUS
<1> HIDE DEF z
<1>2. ASSUME p # 0 PROVE Front(z) = SubSeq(q, 1, p - 1)
  <2>1. Front(z) = SubSeq(z, 1, p - 1)
    BY <1>1 DEF Front
  <2>2. SubSeq(z, 1, p - 1) = SubSeq(q, 1, p - 1)
    BY <1>1, <1>2
  <2> QED BY <2>1, <2>2
<1> QED BY <1>1, <1>2 DEF z

LEMMA FlyPops ==
    ASSUME NEW t, NEW b, Flying(t, b), Len(t.pushes) > t.thr.h.pushes
    PROVE  Flying(Pop(t), b) /\ Pop(t).frames = t.frames
<1> DEFINE f == t.frames
           n == Len(f)
           h == t.thr.h
           u == Pop(t)
<1>1. Typed(t) /\ DOMAIN t = Fields /\ n \in Nat \ {0} /\ t.thr \in Throws
  BY DEF Flying, Thrown, Alive, Typed, Good
<1>2. Thrown(u)
  BY <1>1, PopBeside, BesideKeeps DEF Flying
<1>3. Has(u, f, t.handlers, Front(t.pushes), t.inputs, t.defers, t.evaldepth, t.blocked,
          t.hasforked, t.thr, t.dead)
  BY <1>1, PopHas
<1> HIDE DEF u
<1>4. PICK p \in h.pushes..Len(b[n]) : t.pushes = SubSeq(b[n], 1, p)
  BY DEF Flying
<1>5. b[n] \in Seq(Text) /\ h.pushes \in Nat
  BY <1>1 DEF Flying, Matching, Chain, Throws, Depths
<1>6. p \in 0..Len(b[n]) /\ p >= h.pushes /\ p \in Nat /\ Len(b[n]) \in Nat
  BY <1>4, <1>5
<1>7. Len(t.pushes) = p /\ (p # 0 => Front(t.pushes) = SubSeq(b[n], 1, p - 1))
  BY <1>4, <1>5, <1>6, PrefixPop
<1>8. p # 0 /\ p - 1 \in h.pushes..Len(b[n])
  BY <1>5, <1>6, <1>7
<1>9. \E y \in h.pushes..Len(b[n]) : u.pushes = SubSeq(b[n], 1, y)
  BY <1>3, <1>7, <1>8 DEF Has
<1>10. Matching(u, b)
  BY <1>3 DEF Flying, Matching, Has
<1>11. Stocked(u, Left(f, n, h.at))
  <2>1. Unstirred(t, u) /\ Same(t, u, Left(f, n, h.at))
    BY <1>3 DEF Unstirred, Same, Has
  <2>2. Stocked(t, Left(f, n, h.at))
    BY DEF Flying
  <2> HIDE DEF n, f, h
  <2> QED BY <2>1, <2>2, StockedSame
<1>12. u.frames = f /\ u.thr = t.thr /\ u.evaldepth = t.evaldepth
  BY <1>3 DEF Has
<1> QED BY <1>2, <1>9, <1>10, <1>11, <1>12 DEF Flying, u

\* What a settor's frame is.
LEMMA SettorIs ==
    ASSUME NEW t, NEW v
    PROVE  /\ Settor(t, v).kind = "settor" /\ Settor(t, v).thr = t.thr /\ Settor(t, v).n = Len(t.pushes)
           /\ Settor(t, v).v = v /\ Bound(Settor(t, v)) = <<"0">>
<1>1. /\ Settor(t, v).kind = "settor" /\ Settor(t, v).thr = t.thr /\ Settor(t, v).n = Len(t.pushes)
      /\ Settor(t, v).v = v
  BY DEF Settor, Frame
<1> QED BY <1>1 DEF Bound

\* There is room for a settor.
LEMMA Roomy ==
    ASSUME CalmWorld, world.settors # {}, NEW t, Good(t.frames), Fits(t.frames),
           t.frames[Len(t.frames)].kind # "settor",
           t.evaldepth = Cardinality(Evals(t.frames, Len(t.frames)))
    PROVE  ~TooDeep(t, "settor") /\ Len(t.frames) <= MaxFrames
<1>1. Len(t.frames) \in Nat /\ Len(t.frames) <= MaxFrames
  BY DEF Fits, Good
<1>2. t.evaldepth \in 0..Len(t.frames)
  BY <1>1, EvalsMore
<1>3. world.maxevaldepth \in Int /\ world.maxevaldepth > MaxFrames + 2 /\ MaxFrames \in Nat
  BY DEF CalmWorld
<1>4. ~(t.evaldepth + 1 >= world.maxevaldepth)
  BY <1>1, <1>2, <1>3
<1> QED BY <1>1, <1>4 DEF TooDeep

\* throw calls a settor.
LEMMA FlyCalls ==
    ASSUME CalmWorld, world.settors # {}, NEW t, NEW b, Flying(t, b), Len(t.pushes) > t.thr.h.pushes,
           NEW v \in Text
    PROVE  /\ \E c : Settled(callsettor(t, v), c)
           /\ Len(callsettor(t, v).frames) = Len(t.frames) + 1
<1> DEFINE f == t.frames
           n == Len(f)
           h == t.thr.h
           m == h.at
           x == Settor(t, v)
           w == callsettor(t, v)
           g == w.frames
           Q == Left(f, n, m)
<1>1. /\ Thrown(t) /\ Alive(t) /\ Typed(t) /\ Good(f) /\ f \in Seq(FrameType) /\ DOMAIN t = Fields
      /\ n \in Nat \ {0} /\ t.thr \in Throws /\ t.thr # NoThrow /\ m \in Live(f, n)
      /\ Ats(t.handlers) = Below(f, m) /\ t.pushes \in Seq(Text)
  BY DEF Flying, Thrown, Alive, Typed, Good
<1>2. /\ Matching(t, b) /\ Chain(f, b) /\ Quiet(f, b) /\ Fits(f) /\ Saved(f, b, h)
      /\ Stopped(f, n, m, t.thr.e) /\ Stocked(t, Q) /\ ~OverLocal(f[n])
      /\ t.evaldepth = Cardinality(Evals(f, n))
  BY DEF Flying, Matching
<1>3. f[n].kind # "settor"
  <2> SUFFICES ASSUME f[n].kind = "settor" PROVE FALSE
    OBVIOUS
  <2>1. n \in 1..n
    BY <1>1
  <2>2. PICK k \in Live(f, n) : n < k
    BY <1>2, <2>1 DEF Stopped
  <2>3. k \in 1..n
    BY <2>2 DEF Live
  <2> QED BY <1>1, <2>2, <2>3
<1>4. ~TooDeep(t, "settor") /\ n <= MaxFrames
  BY <1>1, <1>2, <1>3, Roomy
<1>5. Has(w, Append(f, x), t.handlers, Append(t.pushes, "0"), t.inputs, t.defers, t.evaldepth + 1, t.blocked,
          t.hasforked, NoThrow, t.dead)
  BY <1>1, <1>4, SettorHas
<1>6. /\ x.kind = "settor" /\ x.thr = t.thr /\ x.n = Len(t.pushes) /\ x.v = v /\ Bound(x) = <<"0">>
  BY SettorIs
<1>7. Holds(w)
  <2>1. Ok(w)
    BY <1>1, SettorBegins
  <2>2. w.dead = "no" /\ w.thr = NoThrow
    BY <1>1, <1>5 DEF Has, Alive
  <2> HIDE DEF w
  <2> QED BY <2>1, <2>2 DEF Ok, Thrown, Gone
<1> HIDE DEF w, x
<1>8. Len(g) = n + 1 /\ g[n + 1] = x /\ \A k \in 1..n : g[k] = f[k]
  BY <1>1, <1>5 DEF Has
<1>9. /\ w.handlers = t.handlers /\ w.pushes = Append(t.pushes, "0") /\ w.inputs = t.inputs
      /\ w.defers = t.defers /\ w.evaldepth = t.evaldepth + 1 /\ w.blocked = t.blocked
      /\ w.hasforked = t.hasforked
  BY <1>5 DEF Has
<1>10. PICK p \in h.pushes..Len(b[n]) : t.pushes = SubSeq(b[n], 1, p)
  BY DEF Flying
<1>11. b[n] \in Seq(Text) /\ h.pushes \in Nat /\ Len(b[n]) \in Nat
  BY <1>1, <1>2 DEF Chain, Throws, Depths
<1>12. p \in 0..Len(b[n]) /\ Len(t.pushes) = p
  BY <1>10, <1>11, PrefixPop
<1>13. (n + 1) - 1 = n /\ n \in 1..n /\ n \in Nat /\ n + 1 \in Nat
  BY <1>1
<1> HIDE DEF g
<1>14. Ground(g, b, n + 1) = t.pushes
  BY <1>1, <1>6, <1>8, <1>10, <1>12, <1>13 DEF Ground
<1>15. w.pushes = Ground(g, b, n + 1) \o Bound(g[n + 1])
  <2>1. Append(t.pushes, "0") = t.pushes \o <<"0">>
    BY <1>1
  <2> QED BY <1>6, <1>8, <1>9, <1>14, <2>1
<1>16. Alike(f, g, n)
  BY <1>8 DEF Alike
<1>17. Q \subseteq 1..n
  BY DEF Left, Still
<1>18. Still(g, n + 1) = Q \cup (IF g[n + 1].kind \in Catching THEN {n + 1} ELSE {})
  <2>1. m \in Int
    BY <1>1 DEF Live
  <2>2. g[n + 1].kind = "settor" /\ g[n + 1].thr # NoThrow /\ g[n + 1].thr.h.at = m
    BY <1>1, <1>6, <1>8
  <2>3. Still(g, n + 1) = Left(g, n, g[n + 1].thr.h.at)
    <3> HIDE DEF n, m
    <3> QED BY <1>13, <2>1, <2>2, StillSuspended
  <2>4. Left(g, n, m) = Left(f, n, m)
    <3>1. n \in Int
      BY <1>1
    <3> HIDE DEF n, m, f
    <3> QED BY <1>16, <3>1, StillAlike
  <2>5. "settor" \notin Catching
    BY DEF Catching
  <2> HIDE DEF n, m
  <2> QED BY <2>2, <2>3, <2>4, <2>5
<1>19. QuietAt(g, b, n + 1)
  <2>1. Saved(g, b, h)
    <3>1. Equal(f, b, g, b, n) /\ h.at \in 1..n
      BY <1>1, <1>8 DEF Equal, Live
    <3> HIDE DEF n, f, h
    <3> QED BY <1>2, <1>13, <3>1, SavedEqual DEF h
  <2>2. Live(g, n) = Live(f, n)
    <3>1. n \in Int
      BY <1>1
    <3> HIDE DEF n, f
    <3> QED BY <1>16, <3>1, LiveAlike
  <2>3. \A k \in Live(f, n) : k \in 1..n
    BY DEF Live
  <2>4. Stopped(g, n, m, t.thr.e)
    <3> HIDE DEF n, m, f
    <3> QED BY <1>2, <1>8, <2>2, <2>3 DEF Stopped
  <2>5. g[n] = f[n]
    BY <1>8, <1>13
  <2>6. x.n > h.pushes /\ x.n <= Len(b[n])
    BY <1>6, <1>11, <1>12
  <2> HIDE DEF n, f
  <2> QED BY <1>1, <1>2, <1>6, <1>8, <1>13, <2>1, <2>4, <2>5, <2>6 DEF QuietAt
<1>20. Fits(g)
  <2>1. MaxFrames \in Nat
    BY DEF CalmWorld
  <2>2. g[Len(g)].kind = "settor"
    BY <1>6, <1>8
  <2> HIDE DEF n
  <2> QED BY <1>4, <1>8, <1>13, <2>1, <2>2 DEF Fits
<1>21. (\E k \in 1..Len(g) : g[k].kind = "child") => w.hasforked
  <2> SUFFICES ASSUME NEW k \in 1..n + 1, g[k].kind = "child" PROVE t.hasforked
    BY <1>8, <1>9
  <2>1. k # n + 1
    BY <1>6, <1>8
  <2>2. k \in 1..n
    <3> HIDE DEF n
    <3> QED BY <1>13, <2>1
  <2> QED BY <1>2, <1>8, <2>2 DEF Matching
<1>22. Gains(t, w, g[n + 1], n + 1)
  BY <1>6, <1>8, <1>9 DEF Gains, Source, Deferred, Blocks
<1>23. w.evaldepth = IF g[n + 1].kind \in Evaluated THEN Cardinality(Evals(f, n)) + 1
                     ELSE Cardinality(Evals(f, n))
  BY <1>2, <1>6, <1>8, <1>9 DEF Evaluated
<1>24. \A i \in DOMAIN w.handlers : Kept(t, w, n + 1, w.handlers[i], Len(b[n]))
  <2> SUFFICES ASSUME NEW i \in DOMAIN t.handlers PROVE t.handlers[i].at < n + 1
    BY <1>9 DEF Kept
  <2>1. t.handlers[i].at \in Below(f, m)
    BY <1>1 DEF Ats
  <2>2. t.handlers[i].at \in 1..n
    BY <2>1 DEF Below, Live
  <2> HIDE DEF n
  <2> QED BY <1>13, <2>2
<1>25. \E c : Stands(w, c)
  <2>1. Ground(g, b, n + 1) \in Seq(Text) /\ n \in 1..Len(f)
    BY <1>1, <1>13, <1>14
  <2> HIDE DEF n, Q
  <2> QED BY <1>1, <1>2, <1>7, <1>8, <1>15, <1>17, <1>18, <1>19, <1>20, <1>21, <1>22, <1>23, <1>24, <2>1,
             Placing DEF g
<1>26. ~OverLocal(g[Len(g)])
  BY <1>6, <1>8 DEF OverLocal
<1> QED BY <1>8, <1>25, <1>26 DEF Settled, w, g

\* A step of a throw.
LEMMA Unwinds ==
    ASSUME CalmWorld, NEW t, NEW b, Flying(t, b)
    PROVE  Matches(Unwind(t)) /\ Keeps(t, Unwind(t))
<1> DEFINE n == Len(t.frames)
           h == t.thr.h
           v == Last(t.pushes)
           u == Unwind(t)
<1>1. /\ Thrown(t) /\ Typed(t) /\ Good(t.frames) /\ n \in Nat \ {0} /\ t.pushes \in Seq(Text) /\ t.thr \in Throws
      /\ t.thr # NoThrow /\ h.pushes \in Nat
  <2>1. /\ Thrown(t) /\ Typed(t) /\ Good(t.frames) /\ n \in Nat \ {0} /\ t.pushes \in Seq(Text)
        /\ t.thr \in Throws /\ t.thr # NoThrow
    BY DEF Flying, Thrown, Alive, Typed, Good
  <2>2. h.pushes \in Nat
    BY <2>1 DEF Throws, Depths
  <2> QED BY <2>1, <2>2
<1>2. CASE Len(t.pushes) > h.pushes /\ v \notin world.settors
  <2>1. u = Pop(t)
    BY <1>2 DEF Unwind
  <2>2. Flying(u, b) /\ u.frames = t.frames
    BY <1>2, <2>1, FlyPops
  <2> QED BY <2>2 DEF Matches, Keeps
<1>3. CASE Len(t.pushes) > h.pushes /\ v \in world.settors
  <2>1. u = callsettor(t, v)
    BY <1>3 DEF Unwind
  <2>2. v \in Text /\ world.settors # {}
    BY <1>1, <1>3 DEF Last
  <2> HIDE DEF u, v
  <2>3. (\E c : Settled(u, c)) /\ Len(u.frames) = n + 1
    BY <1>3, <2>1, <2>2, FlyCalls
  <2>4. \A j \in 1..n : j <= n + 1
    BY <1>1
  <2> QED BY <2>3, <2>4 DEF Matches, Keeps, u
<1>4. CASE ~(Len(t.pushes) > h.pushes) /\ h.at # 1
  <2>1. u = Caught(Back(t), t.thr.e)
    BY <1>4 DEF Unwind, Back
  <2>2. /\ Bare(Back(t), b, t.thr.e) /\ Len(Back(t).frames) = h.at
        /\ \A j \in 1..n : t.frames[j].thr # NoThrow => j < h.at
    BY <1>4, BareBack
  <2>3. t.thr.e \in Text /\ t.thr.e # "none"
    BY <1>1 DEF Throws
  <2>4. Matches(u) /\ (u.dead = "no" => Len(u.frames) >= h.at - 1)
    <3> HIDE DEF u
    <3> QED BY <2>1, <2>2, <2>3, BareCatches
  <2>5. h.at \in Int
    BY <1>1 DEF Thrown, Live
  <2>6. u.dead = "no" => Len(u.frames) \in Int
    <3> SUFFICES ASSUME u.dead = "no" PROVE Len(u.frames) \in Int
      OBVIOUS
    <3>1. PICK c : Settled(u, c) \/ Flying(u, c)
      BY <2>4 DEF Matches
    <3>2. Good(u.frames)
      BY <3>1 DEF Settled, Stands, Flying, Thrown, Holds, Alive
    <3> QED BY <3>2 DEF Good
  <2> HIDE DEF u, h
  <2>7. Keeps(t, u)
    BY <1>1, <2>2, <2>4, <2>5, <2>6 DEF Keeps
  <2> QED BY <2>4, <2>7 DEF u
<1>5. CASE ~(Len(t.pushes) > h.pushes) /\ h.at = 1
  <2> DEFINE w == Back(t)
  <2>1. u = Caught(w, t.thr.e)
    BY <1>5 DEF Unwind, Back
  <2>2. DOMAIN w = Fields /\ w.frames = SubSeq(t.frames, 1, 1)
    BY <1>1, <1>5 DEF Back, Typed, Fields
  <2>3. Last(w.frames).kind = "main"
    <3>1. t.frames \in Seq(FrameType) /\ t.frames[1].kind = "main"
      BY <1>1 DEF Good, Typed
    <3>2. Len(SubSeq(t.frames, 1, 1)) = 1 /\ SubSeq(t.frames, 1, 1)[1] = t.frames[1]
      BY <1>1, <3>1
    <3> QED BY <2>2, <3>1, <3>2 DEF Last
  <2> HIDE DEF w
  <2>4. Caught(w, t.thr.e).dead = "exit"
    BY <2>2, <2>3 DEF Caught, Dead, Fields
  <2> HIDE DEF u
  <2>5. u.dead = "exit"
    BY <2>1, <2>4
  <2> QED BY <2>5 DEF Matches, Keeps, u
<1> QED BY <1>2, <1>3, <1>4, <1>5

\* local calls a settor.
LEMMA OverCalls ==
    ASSUME CalmWorld, world.settors # {}, NEW t, NEW b, Stands(t, b), OverLocal(t.frames[Len(t.frames)]),
           NEW v \in Text, v = t.frames[Len(t.frames)].v
    PROVE  /\ \E c : Settled(callsettor(t, v), c)
           /\ Len(callsettor(t, v).frames) = Len(t.frames) + 1
<1> DEFINE f == t.frames
           n == Len(f)
           x == Settor(t, v)
           w == callsettor(t, v)
           g == w.frames
<1>1. /\ Holds(t) /\ Alive(t) /\ Typed(t) /\ Good(f) /\ f \in Seq(FrameType) /\ DOMAIN t = Fields
      /\ n \in Nat \ {0} /\ t.thr = NoThrow /\ Ats(t.handlers) = Live(f, n) /\ t.pushes \in Seq(Text)
      /\ t.dead = "no"
  BY DEF Stands, Holds, Alive, Typed, Good
<1>2. /\ Matching(t, b) /\ Fits(f) /\ Stocked(t, Still(f, n)) /\ t.pushes = b[n]
      /\ t.evaldepth = Cardinality(Evals(f, n))
  BY DEF Stands, Base, Matching
<1>3. f[n].kind # "settor"
  BY DEF OverLocal
<1>4. ~TooDeep(t, "settor") /\ n <= MaxFrames
  BY <1>1, <1>2, <1>3, Roomy
<1>5. Has(w, Append(f, x), t.handlers, Append(t.pushes, "0"), t.inputs, t.defers, t.evaldepth + 1, t.blocked,
          t.hasforked, NoThrow, t.dead)
  BY <1>1, <1>4, SettorHas
<1>6. /\ x.kind = "settor" /\ x.thr = t.thr /\ x.n = Len(t.pushes) /\ x.v = v /\ Bound(x) = <<"0">>
  BY SettorIs
<1>7. Holds(w)
  <2>1. Ok(w)
    BY <1>1, SettorBegins
  <2>2. w.dead = "no" /\ w.thr = NoThrow
    BY <1>1, <1>5 DEF Has
  <2> HIDE DEF w
  <2> QED BY <2>1, <2>2 DEF Ok, Thrown, Gone
<1> HIDE DEF w, x
<1>8. Len(g) = n + 1 /\ g[n + 1] = x /\ \A k \in 1..n : g[k] = f[k]
  BY <1>1, <1>5 DEF Has
<1>9. /\ w.handlers = t.handlers /\ w.pushes = Append(t.pushes, "0") /\ w.inputs = t.inputs
      /\ w.defers = t.defers /\ w.evaldepth = t.evaldepth + 1 /\ w.blocked = t.blocked
      /\ w.hasforked = t.hasforked
  BY <1>5 DEF Has
<1>13. n \in 1..n /\ n \in Nat /\ n + 1 \in Nat
  BY <1>1
<1> HIDE DEF g
<1>15. w.pushes = b[n] \o Bound(g[n + 1])
  <2>1. Append(t.pushes, "0") = t.pushes \o <<"0">>
    BY <1>1
  <2> QED BY <1>2, <1>6, <1>8, <1>9, <2>1
<1>20. Fits(g)
  <2>1. MaxFrames \in Nat
    BY DEF CalmWorld
  <2>2. g[Len(g)].kind = "settor"
    BY <1>6, <1>8
  <2> HIDE DEF n
  <2> QED BY <1>4, <1>8, <1>13, <2>1, <2>2 DEF Fits
<1>22. Gains(t, w, g[n + 1], n + 1)
  BY <1>6, <1>8, <1>9 DEF Gains, Source, Deferred, Blocks
<1>23. w.evaldepth = IF g[n + 1].kind \in Evaluated THEN Cardinality(Evals(f, n)) + 1
                     ELSE Cardinality(Evals(f, n))
  BY <1>2, <1>6, <1>8, <1>9 DEF Evaluated
<1>24. \A i \in DOMAIN w.handlers : Kept(t, w, n + 1, w.handlers[i], Len(b[n]))
  <2> SUFFICES ASSUME NEW i \in DOMAIN t.handlers PROVE t.handlers[i].at < n + 1
    BY <1>9 DEF Kept
  <2>1. t.handlers[i].at \in Live(f, n)
    BY <1>1 DEF Ats
  <2>2. t.handlers[i].at \in 1..n
    BY <2>1 DEF Live
  <2> HIDE DEF n
  <2> QED BY <1>13, <2>2
<1>25. \E c : Stands(w, c)
  <2>1. g[n + 1].thr = NoThrow /\ g[n + 1].kind = "settor" /\ g[n + 1].v = f[n].v /\ g[n + 1].kind # "child"
    BY <1>1, <1>6, <1>8
  <2> HIDE DEF n
  <2> QED BY <1>1, <1>2, <1>7, <1>8, <1>9, <1>13, <1>15, <1>20, <1>22, <1>23, <1>24, <2>1,
             Placed DEF g, n
<1>26. ~OverLocal(g[Len(g)])
  BY <1>6, <1>8 DEF OverLocal
<1> QED BY <1>8, <1>25, <1>26 DEF Settled, w, g

LEMMA Down ==
    ASSUME NEW k \in Nat \ {0}, k # 1
    PROVE  /\ k - 1 \in Nat \ {0} /\ (k - 1) + 1 = k /\ k - 1 <= k /\ k - 1 \in 1..k /\ k \in 1..k /\ k - 1 \in Int
           /\ k - 1 \in 0..k /\ k - 1 \in Nat /\ k - 1 \in 1..k - 1
           /\ \A j \in 1..k : j \in 1..k - 1 \/ j = k
           /\ \A j \in 1..k - 1 : j \in 1..k /\ j < k /\ j # k
OBVIOUS

\* The bindings q, and that of frame x at the stage.
Staged(q, x, stage) == q \o Bound([x EXCEPT !.stage = stage])

LEMMA Appended ==
    ASSUME NEW q \in Seq(Text), NEW v \in Text
    PROVE  Append(q, v) = q \o <<v>>
OBVIOUS

\* The innermost frame goes on to another stage.
LEMMA Restaged ==
    ASSUME CalmWorld, NEW t, NEW b, Stands(t, b), Len(t.frames) # 1, NEW stage \in Text,
           t.frames[Len(t.frames)].kind \in {"seq", "local"}, NEW w, NEW q,
           Has(w, t.frames, t.handlers, q, t.inputs, t.defers, t.evaldepth, t.blocked,
               t.hasforked, t.thr, t.dead),
           q = Staged(b[Len(t.frames) - 1], t.frames[Len(t.frames)], stage),
           Holds(Stage(w, stage))
    PROVE  /\ \E c : Stands(Stage(w, stage), c)
           /\ Len(Stage(w, stage).frames) = Len(t.frames)
           /\ Stage(w, stage).frames[Len(t.frames)] = [t.frames[Len(t.frames)] EXCEPT !.stage = stage]
<1> DEFINE f == t.frames
           n == Len(f)
           m == n - 1
           x == f[n]
           y == [x EXCEPT !.stage = stage]
           u == Stage(w, stage)
           g == u.frames
<1>1. /\ Alive(t) /\ Typed(t) /\ Good(f) /\ f \in Seq(FrameType) /\ n \in Nat \ {0} /\ n # 1
      /\ Ats(t.handlers) = Live(f, n) /\ Matching(t, b) /\ Fits(f) /\ Quiet(f, b) /\ Stocked(t, Still(f, n))
      /\ t.evaldepth = Cardinality(Evals(f, n))
  BY DEF Stands, Holds, Alive, Typed, Good, Base, Matching
<1>2. /\ m \in Nat \ {0} /\ m + 1 = n /\ m \in 1..n /\ n \in 1..n /\ m \in Nat
      /\ \A j \in 1..n : j \in 1..m \/ j = n
      /\ \A j \in 1..m : j \in 1..n /\ j < n /\ j # n
  <2> HIDE DEF n
  <2> QED BY <1>1, Down
<1>3. x \in FrameType /\ x.thr = NoThrow /\ x.kind \in {"seq", "local"}
  <2>1. x \in FrameType /\ x.kind \in {"seq", "local"}
    BY <1>1, <1>2
  <2>2. x.thr # NoThrow => x.kind = "settor"
    BY <1>1, <1>2 DEF Good
  <2> QED BY <2>1, <2>2
<1>4. y \in FrameType /\ y.stage = stage /\ y.kind = x.kind /\ y.thr = NoThrow
  BY <1>3, FrameStage
<1>5. Has(u, [w.frames EXCEPT ![Len(w.frames)] = [@ EXCEPT !.stage = stage]],
          w.handlers, w.pushes, w.inputs, w.defers, w.evaldepth, w.blocked, w.hasforked, w.thr, w.dead)
  <2>1. DOMAIN w = Fields
    BY DEF Has
  <2> QED BY <2>1, StageHas
<1> HIDE DEF u
<1>6. /\ g = [f EXCEPT ![n] = y] /\ u.handlers = t.handlers /\ u.pushes = q /\ u.inputs = t.inputs
      /\ u.defers = t.defers /\ u.evaldepth = t.evaldepth /\ u.blocked = t.blocked
      /\ u.hasforked = t.hasforked
  BY <1>5 DEF Has
<1> HIDE DEF y
<1>7. Len(g) = n /\ g[n] = y /\ \A k \in 1..m : g[k] = f[k]
  BY <1>1, <1>2, <1>6, SMTT(40)
<1>8. y.kind \notin Catching /\ y.kind \notin {"settor", "child"} /\ x.kind \notin Catching
      /\ x.kind \notin {"settor", "child"}
  BY <1>3, <1>4 DEF Catching
<1>9. Stocked(t, Still(f, m))
  <2>1. Still(f, m + 1) = Still(f, m) \cup {}
    <3>1. /\ m \in Nat /\ f[m + 1].thr = NoThrow /\ f[m + 1].kind # "child"
          /\ f[m + 1].kind \notin Catching
      BY <1>2, <1>3, <1>8
    <3> HIDE DEF m, f
    <3> QED BY <3>1, StillPlain
  <2>2. Still(f, n) = Still(f, m)
    BY <1>2, <2>1
  <2> QED BY <1>1, <2>2
<1>10. Fits(g)
  <2>1. n <= MaxFrames
    BY <1>1, <1>8 DEF Fits
  <2> QED BY <1>7, <2>1 DEF Fits
<1>11. ~OverLocal(f[m])
  <2>1. QuietAt(f, b, n)
    BY <1>1, <1>2 DEF Quiet
  <2> QED BY <1>1, <1>8, <2>1 DEF QuietAt
<1>12. Gains(t, u, g[n], n)
  <2>1. y.kind \notin {"run", "redir", "catcher"}
    BY <1>3, <1>4
  <2> QED BY <1>6, <1>7, <2>1 DEF Gains, Source, Deferred, Blocks
<1>13. u.evaldepth = IF g[n].kind \in Evaluated THEN Cardinality(Evals(f, m)) + 1
                     ELSE Cardinality(Evals(f, m))
  <2>1. Cardinality(Evals(f, m + 1)) = IF f[m + 1].kind \in Evaluated THEN Cardinality(Evals(f, m)) + 1
                                       ELSE Cardinality(Evals(f, m))
    <3> HIDE DEF f, m
    <3> QED BY <1>2, EvalsMore
  <2> QED BY <1>1, <1>2, <1>4, <1>6, <1>7, <2>1
<1>14. \A i \in DOMAIN u.handlers : Kept(t, u, n, u.handlers[i], Len(b[m]))
  <2> SUFFICES ASSUME NEW i \in DOMAIN t.handlers PROVE t.handlers[i].at < n
    BY <1>6 DEF Kept
  <2>1. t.handlers[i].at \in Live(f, n)
    BY <1>1 DEF Ats
  <2>2. t.handlers[i].at \in 1..n /\ t.handlers[i].at # n
    BY <1>8, <2>1 DEF Live
  <2> HIDE DEF n
  <2> QED BY <1>2, <2>2
<1>15. \E c : Stands(u, c)
  <2>1. u.pushes = b[m] \o Bound(g[m + 1])
    BY <1>2, <1>6, <1>7 DEF y, Staged
  <2>2. /\ Len(g) = m + 1 /\ g[m + 1].thr = NoThrow /\ g[m + 1].kind \notin {"settor", "child"}
        /\ Gains(t, u, g[m + 1], m + 1)
        /\ u.evaldepth = IF g[m + 1].kind \in Evaluated THEN Cardinality(Evals(f, m)) + 1
                         ELSE Cardinality(Evals(f, m))
        /\ \A i \in DOMAIN u.handlers : Kept(t, u, m + 1, u.handlers[i], Len(b[m]))
    BY <1>2, <1>4, <1>7, <1>8, <1>12, <1>13, <1>14
  <2>3. Holds(u) /\ m \in 1..Len(f)
    BY <1>2 DEF u
  <2> HIDE DEF m
  <2> QED BY <1>1, <1>6, <1>7, <1>9, <1>10, <1>11, <2>1, <2>2, <2>3, Placed
<1> QED BY <1>7, <1>15 DEF u, y

\* A seq has done its first command.
LEMMA SeqGoesOn ==
    ASSUME CalmWorld, NEW t, NEW b, Stands(t, b), t.frames[Len(t.frames)].kind = "seq"
    PROVE  /\ \E c : Settled(Stage(t, "body"), c)
           /\ Len(Stage(t, "body").frames) = Len(t.frames)
<1> DEFINE f == t.frames
           n == Len(f)
           m == n - 1
           x == f[n]
           y == [x EXCEPT !.stage = "body"]
           u == Stage(t, "body")
<1>1. /\ Holds(t) /\ Typed(t) /\ Good(f) /\ n \in Nat \ {0} /\ n # 1 /\ Chain(f, b) /\ t.pushes = b[n]
      /\ DOMAIN t = Fields /\ f \in Seq(FrameType) /\ "body" \in Text
  BY Texts DEF Stands, Holds, Alive, Typed, Good, Base, Matching
<1>2. m \in 0..n /\ n \in 1..n /\ n \in 0..n
  <2> HIDE DEF n
  <2> QED BY <1>1, Down
<1>3. x \in FrameType /\ x.thr = NoThrow
  BY <1>1, <1>2 DEF Good
<1>4. y \in FrameType /\ y.kind = "seq" /\ y.stage = "body"
  BY <1>1, <1>3, FrameStage
<1> HIDE DEF y
<1>5. Bound(x) = <<>> /\ Bound(y) = <<>>
  BY <1>3, <1>4, BoundType
<1>6. t.pushes = b[m] \o Bound(y)
  <2>1. Ground(f, b, n) = b[m]
    BY <1>3 DEF Ground
  <2>2. b[n] = b[m] \o Bound(x)
    BY <1>1, <1>2, <2>1 DEF Chain
  <2> QED BY <1>1, <1>5, <2>2
<1>7. Holds(u)
  BY <1>1, Staging
<1>8. Has(t, f, t.handlers, t.pushes, t.inputs, t.defers, t.evaldepth, t.blocked, t.hasforked, t.thr, t.dead)
  BY <1>1 DEF Has
<1>9. (\E c : Stands(u, c)) /\ Len(u.frames) = n /\ u.frames[n] = y
  <2>1. t.pushes = Staged(b[m], x, "body")
    BY <1>6 DEF y, Staged
  <2> HIDE DEF u
  <2> QED BY <1>1, <1>7, <1>8, <2>1, Restaged DEF y, u
<1> HIDE DEF u
<1>10. ~OverLocal(u.frames[Len(u.frames)])
  BY <1>4, <1>9 DEF OverLocal
<1> QED BY <1>9, <1>10 DEF Settled, u

\* local binds its variable.
LEMMA LocalBinds ==
    ASSUME CalmWorld, NEW t, NEW b, Stands(t, b), t.frames[Len(t.frames)].kind = "local",
           t.frames[Len(t.frames)].stage = "push", NEW v, v = t.frames[Len(t.frames)].v
    PROVE  /\ \E c : Settled(Bind(t, v), c)
           /\ Len(Bind(t, v).frames) = Len(t.frames)
<1> DEFINE f == t.frames
           n == Len(f)
           m == n - 1
           x == f[n]
           y == [x EXCEPT !.stage = "body"]
           w == Push(t, v)
           u == Stage(w, "body")
<1>1. /\ Holds(t) /\ Typed(t) /\ Good(f) /\ n \in Nat \ {0} /\ n # 1 /\ Chain(f, b) /\ t.pushes = b[n]
      /\ DOMAIN t = Fields /\ f \in Seq(FrameType) /\ "body" \in Text
  BY Texts DEF Stands, Holds, Alive, Typed, Good, Base, Matching
<1>2. m \in 0..n /\ n \in 1..n /\ n \in 0..n
  <2> HIDE DEF n
  <2> QED BY <1>1, Down
<1>3. x \in FrameType /\ x.thr = NoThrow /\ x.v = v /\ v \in Text
  <2>1. x \in FrameType /\ x.thr = NoThrow /\ x.v = v
    BY <1>1, <1>2 DEF Good
  <2>2. \A z \in FrameType : z.v \in Text
    BY DEF FrameType
  <2> QED BY <2>1, <2>2
<1>4. y \in FrameType /\ y.kind = "local" /\ y.stage = "body" /\ y.v = v
  BY <1>1, <1>3, FrameStage
<1> HIDE DEF y
<1>5. Bound(x) = <<>> /\ Bound(y) = <<v>>
  BY <1>3, <1>4, BoundType
<1>6. Append(t.pushes, v) = b[m] \o Bound(y)
  <2>1. Ground(f, b, n) = b[m] /\ b[m] \in Seq(Text)
    BY <1>1, <1>2, <1>3 DEF Ground, Chain
  <2>2. b[n] = b[m] \o Bound(x)
    BY <1>1, <1>2, <2>1 DEF Chain
  <2>3. b[n] = b[m]
    BY <1>5, <2>1, <2>2
  <2>4. Append(b[m], v) = b[m] \o <<v>>
    BY <1>3, <2>1, Appended
  <2> QED BY <1>1, <1>5, <2>3, <2>4
<1>7. Holds(u) /\ Bind(t, v) = u
  <2>1. Holds(Bind(t, v))
    BY <1>1, <1>3, Binding
  <2> QED BY <2>1 DEF Bind
<1>8. Has(w, f, t.handlers, Append(t.pushes, v), t.inputs, t.defers, t.evaldepth, t.blocked, t.hasforked, t.thr, t.dead)
  BY <1>1, PushHas
<1> HIDE DEF w
<1>9. (\E c : Stands(u, c)) /\ Len(u.frames) = n /\ u.frames[n] = y
  <2>1. Append(t.pushes, v) = Staged(b[m], x, "body")
    BY <1>6 DEF y, Staged
  <2> HIDE DEF u
  <2> QED BY <1>1, <1>7, <1>8, <2>1, Restaged, SMTT(40) DEF y, u
<1> HIDE DEF u
<1>10. ~OverLocal(u.frames[Len(u.frames)])
  BY <1>4, <1>9 DEF OverLocal
<1> QED BY <1>7, <1>9, <1>10 DEF Settled

\* local begins to take its binding off.
LEMMA LocalEnds ==
    ASSUME CalmWorld, NEW t, NEW b, Settled(t, b), t.frames[Len(t.frames)].kind = "local"
    PROVE  /\ \E c : Stands(Stage(t, "pop"), c)
           /\ Len(Stage(t, "pop").frames) = Len(t.frames)
           /\ OverLocal(Stage(t, "pop").frames[Len(t.frames)])
           /\ Stage(t, "pop").frames[Len(t.frames)].v = t.frames[Len(t.frames)].v
<1> DEFINE f == t.frames
           n == Len(f)
           m == n - 1
           x == f[n]
           y == [x EXCEPT !.stage = "pop"]
           u == Stage(t, "pop")
<1>1. /\ Holds(t) /\ Typed(t) /\ Good(f) /\ n \in Nat \ {0} /\ n # 1 /\ Chain(f, b) /\ t.pushes = b[n]
      /\ DOMAIN t = Fields /\ f \in Seq(FrameType) /\ "pop" \in Text /\ x.stage # "push" /\ Stands(t, b)
  BY Texts DEF Settled, OverLocal, Stands, Holds, Alive, Typed, Good, Base, Matching
<1>2. m \in 0..n /\ n \in 1..n /\ n \in 0..n
  <2> HIDE DEF n
  <2> QED BY <1>1, Down
<1>3. x \in FrameType /\ x.thr = NoThrow
  BY <1>1, <1>2 DEF Good
<1>4. y \in FrameType /\ y.kind = "local" /\ y.stage = "pop" /\ y.v = x.v
  BY <1>1, <1>3, FrameStage
<1> HIDE DEF y
<1>5. Bound(x) = Bound(y)
  BY <1>1, <1>3, <1>4, BoundType
<1>6. t.pushes = b[m] \o Bound(y)
  <2>1. Ground(f, b, n) = b[m]
    BY <1>3 DEF Ground
  <2>2. b[n] = b[m] \o Bound(x)
    BY <1>1, <1>2, <2>1 DEF Chain
  <2> QED BY <1>1, <1>5, <2>2
<1>7. Holds(u)
  BY <1>1, Staging
<1>8. Has(t, f, t.handlers, t.pushes, t.inputs, t.defers, t.evaldepth, t.blocked, t.hasforked, t.thr, t.dead)
  BY <1>1 DEF Has
<1>9. (\E c : Stands(u, c)) /\ Len(u.frames) = n /\ u.frames[n] = y
  <2>1. t.pushes = Staged(b[m], x, "pop")
    BY <1>6 DEF y, Staged
  <2> HIDE DEF u
  <2> QED BY <1>1, <1>7, <1>8, <2>1, Restaged DEF y, u
<1> HIDE DEF u
<1> QED BY <1>4, <1>9 DEF OverLocal, u

LEMMA FrontOf ==
    ASSUME NEW q \in Seq(Text), NEW v \in Text
    PROVE  Front(q \o <<v>>) = q
<1> DEFINE z == q \o <<v>>
           y == Front(z)
<1>1. z \in Seq(Text) /\ Len(z) = Len(q) + 1 /\ Len(q) \in Nat /\ \A i \in 1..Len(q) : z[i] = q[i]
  OBVIOUS
<1> HIDE DEF z
<1>2. y \in Seq(Text) /\ Len(y) = Len(q) /\ \A i \in 1..Len(q) : y[i] = z[i]
  BY <1>1 DEF Front
<1> HIDE DEF y
<1>3. y = q
  BY <1>1, <1>2
<1> QED BY <1>3 DEF y, z

LEMMA FrontWithin ==
    ASSUME NEW q \in Seq(Depths)
    PROVE  \A i \in DOMAIN Front(q) : \E j \in DOMAIN q : q[j] = Front(q)[i]
<1>1. Len(q) \in Nat /\ DOMAIN q = 1..Len(q)
  OBVIOUS
<1>2. CASE Len(q) = 0
  <2>1. DOMAIN Front(q) = {}
    BY <1>2 DEF Front
  <2> QED BY <2>1
<1>3. CASE Len(q) # 0
  <2>1. DOMAIN Front(q) = 1..Len(q) - 1 /\ \A i \in 1..Len(q) - 1 : Front(q)[i] = q[i]
    BY <1>1, <1>3 DEF Front
  <2>2. \A i \in 1..Len(q) - 1 : i \in DOMAIN q
    BY <1>1
  <2> QED BY <2>1, <2>2
<1> QED BY <1>2, <1>3

\* What the innermost frame has bound.
LEMMA TopBinds ==
    ASSUME NEW t, NEW b, Stands(t, b), Len(t.frames) # 1, t.frames[Len(t.frames)].thr = NoThrow
    PROVE  /\ t.frames[Len(t.frames)] \in FrameType
           /\ b[Len(t.frames) - 1] \in Seq(Text)
           /\ Bound(t.frames[Len(t.frames)]) = <<>> => t.pushes = b[Len(t.frames) - 1]
           /\ \A v \in Text : Bound(t.frames[Len(t.frames)]) = <<v>> =>
                Front(t.pushes) = b[Len(t.frames) - 1]
<1> DEFINE f == t.frames
           n == Len(f)
           m == n - 1
           x == f[n]
<1>1. /\ Good(f) /\ n \in Nat \ {0} /\ n # 1 /\ Chain(f, b) /\ t.pushes = b[n] /\ f \in Seq(FrameType)
  BY DEF Stands, Holds, Alive, Typed, Good, Base, Matching
<1>2. m \in 0..n /\ n \in 1..n /\ n \in 0..n
  <2> HIDE DEF n
  <2> QED BY <1>1, Down
<1>3. x \in FrameType /\ b[m] \in Seq(Text)
  BY <1>1, <1>2 DEF Chain
<1>4. b[n] = b[m] \o Bound(x)
  <2>1. Ground(f, b, n) = b[m]
    BY DEF Ground
  <2> QED BY <1>1, <1>2, <2>1 DEF Chain
<1>5. ASSUME Bound(x) = <<>> PROVE t.pushes = b[m]
  <2>1. b[m] \o <<>> = b[m]
    BY <1>3
  <2> QED BY <1>1, <1>4, <1>5, <2>1
<1>6. ASSUME NEW v \in Text, Bound(x) = <<v>> PROVE Front(t.pushes) = b[m]
  <2>1. Front(b[m] \o <<v>>) = b[m]
    BY <1>3, FrontOf
  <2> QED BY <1>1, <1>4, <1>6, <2>1
<1> QED BY <1>3, <1>5, <1>6

\* The innermost frame has taken off what it added, and returns.
LEMMA LeaveClean ==
    ASSUME CalmWorld, NEW t, NEW b, Stands(t, b), Len(t.frames) # 1,
           t.frames[Len(t.frames)].kind \notin {"settor", "child"},
           NEW w, Opened(w), w.frames = t.frames, w.evaldepth = t.evaldepth, w.hasforked = t.hasforked,
           Loses(t, w, t.frames[Len(t.frames)]), w.pushes = b[Len(t.frames) - 1],
           \A i \in DOMAIN w.handlers : \E j \in DOMAIN t.handlers : t.handlers[j] = w.handlers[i]
    PROVE  Matches(Return(w)) /\ Keeps(t, Return(w))
<1> DEFINE n == Len(t.frames)
<1>1. Alive(t) /\ Base(t, b) /\ Good(t.frames) /\ n \in Nat \ {0} /\ n # 1
  BY DEF Stands, Holds, Alive, Good
<1>2. Clean(w, b)
  BY <1>1, Cleaning
<1>3. Settled(Return(w), b)
  BY <1>2, CleanReturns
<1>4. Len(Return(w).frames) = n - 1
  BY <1>1, Returned DEF Opened
<1>5. /\ \A j \in 1..n : j \in 1..n - 1 \/ j = n
      /\ \A j \in 1..n - 1 : j <= n - 1
      /\ n \in 1..n
  <2> HIDE DEF n
  <2> QED BY <1>1, Down
<1>6. t.frames[n].thr = NoThrow
  BY <1>1, <1>5 DEF Good
<1> HIDE DEF n
<1> QED BY <1>3, <1>4, <1>5, <1>6 DEF Matches, Keeps, n

\* The end of a construct with a handler, but for that the handler is off.
LEMMA LeaveHandler ==
    ASSUME CalmWorld, NEW t, NEW b, Stands(t, b), Len(t.frames) # 1,
           t.frames[Len(t.frames)].kind \in Catching,
           NEW w, Opened(w), w.frames = t.frames, w.handlers = Front(t.handlers),
           w.evaldepth = t.evaldepth, w.hasforked = t.hasforked,
           Loses(t, w, t.frames[Len(t.frames)]),
           \/ Bound(t.frames[Len(t.frames)]) = <<>> /\ w.pushes = t.pushes
           \/ (\E v \in Text : Bound(t.frames[Len(t.frames)]) = <<v>>) /\ w.pushes = Front(t.pushes)
    PROVE  Matches(Return(w)) /\ Keeps(t, Return(w))
<1> DEFINE n == Len(t.frames)
<1>1. Good(t.frames) /\ n \in Nat \ {0} /\ t.handlers \in Seq(Depths)
  BY DEF Stands, Holds, Alive, Typed, Good
<1>2. t.frames[n].kind \notin {"settor", "child"}
  BY DEF Catching
<1>3. t.frames[n].thr = NoThrow
  <2>1. n \in 1..n
    BY <1>1
  <2> QED BY <1>1, <1>2, <2>1 DEF Good
<1>4. w.pushes = b[n - 1]
  BY <1>3, TopBinds
<1>5. \A i \in DOMAIN w.handlers : \E j \in DOMAIN t.handlers : t.handlers[j] = w.handlers[i]
  BY <1>1, FrontWithin
<1> QED BY <1>2, <1>4, <1>5, LeaveClean

LEMMA Leaves ==
    ASSUME CalmWorld, NEW t, NEW b, Settled(t, b), Last(t.frames).kind \notin {"loop", "settor"}
    PROVE  Matches(Leave(t)) /\ Keeps(t, Leave(t))
<1> DEFINE n == Len(t.frames)
           x == t.frames[n]
           e == Leave(t)
           Fine(u) == Matches(u) /\ Keeps(t, u)
<1>1. /\ Holds(t) /\ Typed(t) /\ Alive(t) /\ Good(t.frames) /\ n \in Nat \ {0} /\ t.thr = NoThrow
      /\ Last(t.frames) = x /\ x \in FrameType /\ DOMAIN t = Fields /\ Stands(t, b) /\ t.handlers \in Seq(Depths)
      /\ ~OverLocal(x) /\ x.kind \notin {"loop", "settor"}
  BY DEF Settled, Stands, Holds, Alive, Typed, Good, Last
<1>2. x.kind \in AllKinds
  <2>1. \A z \in FrameType : z.kind \in AllKinds
    BY DEF FrameType
  <2> HIDE DEF x
  <2> QED BY <1>1, <2>1
<1>3. x.kind # "main" => n # 1
  BY <1>1 DEF Good
<1>4. \A w : Typed(w) /\ Opened(w) => Opened(Pop(w)) /\ Opened(endinput(w))
                        /\ Opened(undefer(w)) /\ Opened(unblocksignals(w))
  BY PopBeside, EndinputBeside, UndeferBeside, BlockBeside, Opens
<1>5. Holds(Pop(t)) /\ Pop(t).frames = t.frames /\ Typed(Pop(t))
  BY <1>1, PopBeside, BesideKeeps DEF Beside
<1>6. /\ x.kind = "run" => \E v \in Text : Bound(x) = <<v>>
      /\ x.kind = "fn" => \E v \in Text : Bound(x) = <<v>>
      /\ x.kind = "readfrom" => \E v \in Text : Bound(x) = <<v>>
      /\ x.kind = "local" => \E v \in Text : Bound(x) = <<v>>
      /\ x.kind \in {"catch", "for", "catcher", "redir", "seq", "exec"} => Bound(x) = <<>>
  <2>1. "0" \in Text /\ "fd" \in Text /\ "fn-%dispatch" \in Text /\ x.v \in Text
    <3>1. \A z \in FrameType : z.v \in Text
      BY DEF FrameType
    <3> HIDE DEF x
    <3> QED BY <1>1, <3>1, Texts
  <2> HIDE DEF x
  <2> QED BY <1>1, <2>1, BoundType DEF OverLocal
<1>7. ASSUME NEW w, x.kind \in Catching \ {"main"}, Opened(w), w.frames = t.frames, w.handlers = Front(t.handlers),
             w.evaldepth = t.evaldepth, w.hasforked = t.hasforked, Loses(t, w, x),
             \/ Bound(x) = <<>> /\ w.pushes = t.pushes
             \/ (\E v \in Text : Bound(x) = <<v>>) /\ w.pushes = Front(t.pushes)
      PROVE  Fine(Return(w))
  BY <1>1, <1>3, <1>7, LeaveHandler
<1>8. Opened(pophandler(t)) \/ x.kind \notin Catching \ {"main"}
  BY <1>1, <1>3, Popped
<1> HIDE DEF Fine
<1>9. CASE x.kind \in {"main", "child", "writeto"}
  <2>1. e.dead # "no"
    BY <1>1, <1>9 DEF Leave, Dead, Fields
  <2> QED BY <2>1 DEF Matches, Keeps
<1>10. CASE x.kind = "run"
  <2> DEFINE p == Pop(t)
             h == pophandler(p)
             w == endinput(h)
  <2>1. Opened(w)
    <3>1. Opened(h)
      BY <1>1, <1>3, <1>5, <1>10, Popped DEF Catching
    <3> QED BY <1>4, <3>1, OpenTyped
  <2>2. Has(p, t.frames, t.handlers, Front(t.pushes), t.inputs, t.defers, t.evaldepth, t.blocked,
            t.hasforked, t.thr, t.dead)
    BY <1>1, PopHas
  <2> HIDE DEF p
  <2>3. Has(h, t.frames, Front(t.handlers), Front(t.pushes), t.inputs, t.defers, t.evaldepth, t.blocked,
            t.hasforked, t.thr, t.dead)
    BY <2>2, PophandlerHas DEF Has
  <2> HIDE DEF h
  <2>4. Has(w, t.frames, Front(t.handlers), Front(t.pushes), Front(t.inputs), t.defers, t.evaldepth, t.blocked,
            t.hasforked, t.thr, t.dead)
    BY <2>3, EndinputHas DEF Has
  <2> HIDE DEF w
  <2>5. Fine(Return(w))
    <3>1. Loses(t, w, x)
      BY <1>10, <2>4 DEF Loses, Source, Deferred, Blocks, Has
    <3>2. x.kind \in Catching \ {"main"}
      BY <1>10 DEF Catching
    <3> QED BY <1>6, <1>7, <1>10, <2>1, <2>4, <3>1, <3>2 DEF Has
  <2>6. e = Return(w)
    BY <1>1, <1>10 DEF Leave, w, h, p
  <2> QED BY <2>5, <2>6 DEF Fine
<1>11. CASE x.kind \in {"catch", "for"}
  <2> DEFINE w == pophandler(t)
  <2>1. Opened(w)
    BY <1>8, <1>11 DEF Catching
  <2>2. Has(w, t.frames, Front(t.handlers), t.pushes, t.inputs, t.defers, t.evaldepth, t.blocked,
            t.hasforked, t.thr, t.dead)
    BY <1>1, PophandlerHas
  <2> HIDE DEF w
  <2>3. Fine(Return(w))
    <3>1. Loses(t, w, x)
      BY <1>11, <2>2 DEF Loses, Source, Deferred, Blocks, Has
    <3>2. x.kind \in Catching \ {"main"}
      BY <1>11 DEF Catching
    <3> QED BY <1>6, <1>7, <1>11, <2>1, <2>2, <3>1, <3>2 DEF Has
  <2>4. e = Return(w)
    BY <1>1, <1>11 DEF Leave, LeaveFor, w
  <2> QED BY <2>3, <2>4 DEF Fine
<1>12. CASE x.kind = "catcher"
  <2> DEFINE p == unblocksignals(t)
             w == pophandler(p)
  <2>1. Opened(w)
    <3>1. Holds(p) /\ p.frames = t.frames
      BY <1>1, BlockBeside, BesideKeeps DEF Beside
    <3> QED BY <1>1, <1>3, <1>12, <3>1, Popped DEF Catching
  <2>2. Has(p, t.frames, t.handlers, t.pushes, t.inputs, t.defers, t.evaldepth, t.blocked - 1,
            t.hasforked, t.thr, t.dead)
    BY <1>1, BlockHas DEF unblocksignals
  <2> HIDE DEF p
  <2>3. Has(w, t.frames, Front(t.handlers), t.pushes, t.inputs, t.defers, t.evaldepth, t.blocked - 1,
            t.hasforked, t.thr, t.dead)
    BY <2>2, PophandlerHas DEF Has
  <2> HIDE DEF w
  <2>4. Fine(Return(w))
    <3>1. Loses(t, w, x)
      BY <1>12, <2>3 DEF Loses, Source, Deferred, Blocks, Has
    <3>2. x.kind \in Catching \ {"main"}
      BY <1>12 DEF Catching
    <3> QED BY <1>6, <1>7, <1>12, <2>1, <2>3, <3>1, <3>2 DEF Has
  <2>5. e = Return(w)
    BY <1>1, <1>12 DEF Leave, w, p
  <2> QED BY <2>4, <2>5 DEF Fine
<1>13. CASE x.kind = "fn"
  <2> DEFINE p == Pop(t)
             w == pophandler(p)
  <2>1. Opened(w)
    BY <1>1, <1>3, <1>5, <1>13, Popped DEF Catching
  <2>2. Has(p, t.frames, t.handlers, Front(t.pushes), t.inputs, t.defers, t.evaldepth, t.blocked,
            t.hasforked, t.thr, t.dead)
    BY <1>1, PopHas
  <2> HIDE DEF p
  <2>3. Has(w, t.frames, Front(t.handlers), Front(t.pushes), t.inputs, t.defers, t.evaldepth, t.blocked,
            t.hasforked, t.thr, t.dead)
    BY <2>2, PophandlerHas DEF Has
  <2> HIDE DEF w
  <2>4. Fine(Return(w))
    <3>1. Loses(t, w, x)
      BY <1>13, <2>3 DEF Loses, Source, Deferred, Blocks, Has
    <3>2. x.kind \in Catching \ {"main"}
      BY <1>13 DEF Catching
    <3> QED BY <1>6, <1>7, <1>13, <2>1, <2>3, <3>1, <3>2 DEF Has
  <2>5. e = Return(w)
    BY <1>1, <1>13 DEF Leave, w, p
  <2> QED BY <2>4, <2>5 DEF Fine
<1>14. CASE x.kind = "redir"
  <2> DEFINE p == undefer(t)
             w == pophandler(p)
  <2>1. Opened(w)
    <3>1. Holds(p) /\ p.frames = t.frames
      BY <1>1, UndeferBeside, BesideKeeps DEF Beside
    <3> QED BY <1>1, <1>3, <1>14, <3>1, Popped DEF Catching
  <2>2. Has(p, t.frames, t.handlers, t.pushes, t.inputs, IF x.inchild THEN t.defers ELSE Front(t.defers),
            t.evaldepth, t.blocked, t.hasforked, t.thr, t.dead)
    BY <1>1, UndeferHas
  <2> HIDE DEF p
  <2>3. Has(w, t.frames, Front(t.handlers), t.pushes, t.inputs, IF x.inchild THEN t.defers ELSE Front(t.defers),
            t.evaldepth, t.blocked, t.hasforked, t.thr, t.dead)
    BY <2>2, PophandlerHas DEF Has
  <2> HIDE DEF w
  <2>4. Fine(Return(w))
    <3>1. Loses(t, w, x)
      BY <1>14, <2>3 DEF Loses, Source, Deferred, Blocks, Has
    <3>2. x.kind \in Catching \ {"main"}
      BY <1>14 DEF Catching
    <3> QED BY <1>6, <1>7, <1>14, <2>1, <2>3, <3>1, <3>2 DEF Has
  <2>5. e = Return(w)
    BY <1>1, <1>14 DEF Leave, w, p
  <2> QED BY <2>4, <2>5 DEF Fine
<1>15. CASE x.kind = "readfrom"
  <2> DEFINE h == pophandler(t)
             w == Pop(h)
  <2>1. Opened(w)
    <3>1. Opened(h)
      BY <1>8, <1>15 DEF Catching
    <3> QED BY <1>4, <3>1, OpenTyped
  <2>2. Has(h, t.frames, Front(t.handlers), t.pushes, t.inputs, t.defers, t.evaldepth, t.blocked,
            t.hasforked, t.thr, t.dead)
    BY <1>1, PophandlerHas
  <2> HIDE DEF h
  <2>3. Has(w, t.frames, Front(t.handlers), Front(t.pushes), t.inputs, t.defers, t.evaldepth, t.blocked,
            t.hasforked, t.thr, t.dead)
    BY <2>2, PopHas DEF Has
  <2> HIDE DEF w
  <2>4. Fine(Return(w))
    <3>1. Loses(t, w, x)
      BY <1>15, <2>3 DEF Loses, Source, Deferred, Blocks, Has
    <3>2. x.kind \in Catching \ {"main"}
      BY <1>15 DEF Catching
    <3> QED BY <1>6, <1>7, <1>15, <2>1, <2>3, <3>1, <3>2 DEF Has
  <2>5. e = Return(w)
    BY <1>1, <1>15 DEF Leave, w, h
  <2> QED BY <2>4, <2>5 DEF Fine
<1>16. x.kind \in {"local", "seq", "exec"} => Opened(t) /\ n # 1 /\ x.thr = NoThrow
  <2> SUFFICES ASSUME x.kind \in {"local", "seq", "exec"} PROVE Opened(t) /\ n # 1 /\ x.thr = NoThrow
    OBVIOUS
  <2>1. x.kind \notin Catching /\ x.kind # "child" /\ x.kind # "settor" /\ n # 1
    BY <1>3 DEF Catching
  <2>2. x.thr = NoThrow
    <3>1. n \in 1..n
      BY <1>1
    <3> QED BY <1>1, <2>1, <3>1 DEF Good
  <2>3. Ats(t.handlers) = Live(t.frames, n - 1)
    BY <1>1, <2>1, <2>2, LiveTop
  <2> QED BY <1>1, <2>1, <2>2, <2>3 DEF Opened
<1>17. CASE x.kind \in {"seq", "exec"}
  <2>1. Fine(Return(t))
    <3>1. Loses(t, t, x)
      BY <1>17 DEF Loses, Source, Deferred, Blocks
    <3>2. t.pushes = b[n - 1]
      BY <1>1, <1>6, <1>16, <1>17, TopBinds
    <3> QED BY <1>1, <1>16, <1>17, <3>1, <3>2, LeaveClean DEF Fine
  <2>2. x.kind = "seq" => Fine(Stage(t, "body"))
    <3> SUFFICES ASSUME x.kind = "seq" PROVE Fine(Stage(t, "body"))
      OBVIOUS
    <3>1. (\E c : Settled(Stage(t, "body"), c)) /\ Len(Stage(t, "body").frames) = n
      BY <1>1, SeqGoesOn
    <3> QED BY <1>1, <3>1 DEF Fine, Matches, Keeps
  <2> QED BY <1>1, <1>17, <2>1, <2>2 DEF Leave, Fine
<1>18. CASE x.kind = "local"
  <2>1. Fine(Return(Pop(t)))
    <3> DEFINE w == Pop(t)
    <3>1. Has(w, t.frames, t.handlers, Front(t.pushes), t.inputs, t.defers, t.evaldepth, t.blocked,
              t.hasforked, t.thr, t.dead)
      BY <1>1, PopHas
    <3>2. Opened(w)
      BY <1>1, <1>4, <1>16, <1>18
    <3> HIDE DEF w
    <3>3. Loses(t, w, x)
      BY <1>18, <3>1 DEF Loses, Source, Deferred, Blocks, Has
    <3>4. w.pushes = b[n - 1]
      BY <1>1, <1>6, <1>16, <1>18, <3>1, TopBinds DEF Has
    <3>5. Matches(Return(w)) /\ Keeps(t, Return(w))
      BY <1>1, <1>16, <1>18, <3>1, <3>2, <3>3, <3>4, LeaveClean DEF Has
    <3> QED BY <3>5 DEF w, Fine
  <2>2. ASSUME x.v \in world.settors PROVE Fine(callsettor(Stage(t, "pop"), x.v))
    <3> DEFINE w == Stage(t, "pop")
    <3>1. /\ \E c : Stands(w, c)
          /\ Len(w.frames) = n /\ OverLocal(w.frames[n]) /\ w.frames[n].v = x.v
      BY <1>18, LocalEnds
    <3> HIDE DEF w
    <3>2. x.v \in Text
      <4>1. \A z \in FrameType : z.v \in Text
        BY DEF FrameType
      <4> HIDE DEF x
      <4> QED BY <1>1, <4>1
    <3>3. PICK c : Stands(w, c)
      BY <3>1
    <3>4. (\E d : Settled(callsettor(w, x.v), d)) /\ Len(callsettor(w, x.v).frames) = n + 1
      BY <2>2, <3>1, <3>2, <3>3, OverCalls
    <3>5. \A j \in 1..n : j <= n + 1
      BY <1>1
    <3> QED BY <3>4, <3>5 DEF Fine, Matches, Keeps, w
  <2> QED BY <1>1, <1>18, <2>1, <2>2 DEF Leave, Fine
<1>19. x.kind \in {"main", "child", "run", "for", "catch", "catcher", "fn", "redir", "readfrom",
                   "writeto", "local", "seq", "exec"}
  BY <1>1, <1>2 DEF AllKinds, Catching, Evaluated
<1> QED BY <1>9, <1>10, <1>11, <1>12, <1>13, <1>14, <1>15, <1>17, <1>18, <1>19 DEF Fine

\* The settor that throw called is done.
LEMMA SettorResumes ==
    ASSUME CalmWorld, NEW t, NEW b, Stands(t, b), Len(t.frames) # 1,
           t.frames[Len(t.frames)].kind = "settor", t.frames[Len(t.frames)].thr # NoThrow
    PROVE  Flying(Leave(t), b) /\ Keeps(t, Leave(t))
<1> DEFINE f == t.frames
           n == Len(f)
           m == n - 1
           x == f[n]
           h == x.thr.h
           p == Pop(t)
           u == Return(p)
           w == [u EXCEPT !.thr = x.thr]
           e == Pop(w)
           g == e.frames
<1>1. /\ Holds(t) /\ Alive(t) /\ Typed(t) /\ Good(f) /\ f \in Seq(FrameType) /\ n \in Nat \ {0} /\ n # 1
      /\ DOMAIN t = Fields /\ Chain(f, b) /\ Quiet(f, b) /\ Fits(f) /\ Matching(t, b) /\ t.pushes = b[n]
      /\ Stocked(t, Still(f, n)) /\ t.evaldepth = Cardinality(Evals(f, n)) /\ t.dead = "no"
      /\ Ats(t.handlers) = Live(f, n) /\ Last(f) = x
  BY DEF Stands, Holds, Alive, Typed, Good, Base, Matching, Last
<1>2. /\ m \in Nat \ {0} /\ m + 1 = n /\ m \in 1..n /\ n \in 1..n /\ m \in Nat /\ m \in 0..n /\ n \in 0..n
      /\ m <= n /\ m \in 1..m
      /\ \A j \in 1..n : j \in 1..m \/ j = n
      /\ \A j \in 1..m : j \in 1..n /\ j < n /\ j # n /\ j <= m
  <2> HIDE DEF n
  <2> QED BY <1>1, Down
<1>3. Leave(t) = e
  BY <1>1 DEF Leave, settorends, Resume
<1>4. Has(p, f, t.handlers, Front(t.pushes), t.inputs, t.defers, t.evaldepth, t.blocked,
          t.hasforked, t.thr, t.dead)
  BY <1>1, PopHas
<1> HIDE DEF p
<1>5. Has(u, Front(f), t.handlers, Front(t.pushes), t.inputs, t.defers, t.evaldepth - 1,
          t.blocked, t.hasforked, t.thr, t.dead)
  <2>1. "settor" \in Evaluated
    BY DEF Evaluated
  <2>2. DOMAIN p = Fields
    BY <1>4 DEF Has
  <2>3. Has(u, Front(p.frames), p.handlers, p.pushes, p.inputs, p.defers,
            IF p.frames[Len(p.frames)].kind \in Evaluated THEN p.evaldepth - 1 ELSE p.evaldepth,
            p.blocked, p.hasforked, p.thr, p.dead)
    BY <2>2, ReturnHas
  <2> HIDE DEF u
  <2> QED BY <1>4, <2>1, <2>3 DEF Has
<1> HIDE DEF u
<1>6. Has(w, Front(f), t.handlers, Front(t.pushes), t.inputs, t.defers, t.evaldepth - 1,
          t.blocked, t.hasforked, x.thr, t.dead)
  BY <1>5, ThrHas DEF Has
<1> HIDE DEF w
<1>7. Has(e, Front(f), t.handlers, Front(Front(t.pushes)), t.inputs, t.defers, t.evaldepth - 1,
          t.blocked, t.hasforked, x.thr, t.dead)
  BY <1>6, PopHas DEF Has
<1> HIDE DEF e
<1>8. Thrown(e)
  <2>1. Last(t.frames).kind # "loop"
    BY <1>1
  <2>2. Ok(e)
    BY <1>1, <1>3, <2>1, Leaving
  <2> QED BY <1>1, <1>7, <2>2 DEF Ok, Holds, Gone, Has
<1>9. Len(g) = m /\ \A k \in 1..m : g[k] = f[k]
  <2>1. g = Front(f)
    BY <1>7 DEF Has
  <2> QED BY <1>1, <1>2, <2>1 DEF Front
<1>10. /\ e.handlers = t.handlers /\ e.inputs = t.inputs /\ e.defers = t.defers /\ e.evaldepth = t.evaldepth - 1
       /\ e.blocked = t.blocked /\ e.hasforked = t.hasforked /\ e.thr = x.thr
       /\ e.pushes = Front(Front(t.pushes))
  BY <1>7, SMTT(40) DEF Has
<1> HIDE DEF g
<1>11. Chain(g, b) /\ Quiet(g, b) /\ Equal(f, b, g, b, m)
  <2> HIDE DEF f, m
  <2> QED BY <1>1, <1>2, <1>9, MatchingCut DEF m
<1>12. Fits(g)
  <2>1. MaxFrames \in Nat
    BY DEF CalmWorld
  <2>2. n <= MaxFrames + 1
    BY <1>1, <2>1 DEF Fits
  <2>3. m <= MaxFrames
    BY <1>1, <2>1, <2>2
  <2> QED BY <1>9, <2>3 DEF Fits
<1>13. QuietAt(f, b, n)
  BY <1>1, <1>2 DEF Quiet
<1>14. /\ Saved(f, b, h) /\ x.n > h.pushes /\ x.n <= Len(b[m]) /\ Stopped(f, m, h.at, x.thr.e)
       /\ ~OverLocal(f[m])
  BY <1>1, <1>13 DEF QuietAt
<1>15. h.at \in Live(f, m) /\ x.thr \in Throws /\ x.n \in Nat /\ h.pushes \in Nat /\ x \in FrameType
  <2>1. h.at \in Live(f, m) /\ x \in FrameType
    BY <1>1, <1>2, SMTT(40) DEF Good
  <2>2. \A z \in FrameType : z.thr \in Throws /\ z.n \in Nat
    BY DEF FrameType
  <2>3. \A z \in Throws : z.h.pushes \in Nat
    BY DEF Throws, Depths
  <2> HIDE DEF x
  <2> QED BY <2>1, <2>2, <2>3
<1>16. h.at \in 1..m /\ h.at \in Int
  BY <1>15 DEF Live
<1>17. Still(f, n) = Left(f, m, h.at)
  <2>1. f[m + 1].kind = "settor" /\ f[m + 1].thr # NoThrow /\ f[m + 1].thr.h.at \in Int /\ f[m + 1].thr.h.at = h.at
    BY <1>2, <1>16
  <2>2. Still(f, m + 1) = Left(f, m, f[m + 1].thr.h.at)
    <3> HIDE DEF m, f, x
    <3> QED BY <1>2, <2>1, StillSuspended
  <2> QED BY <1>2, <2>1, <2>2
<1>18. Live(f, n) = {k \in Live(f, m) : k < h.at}
  <2>1. \A j \in 1..m : f[j].thr # NoThrow => f[j].thr.h.at \in 1..j - 1
    BY <1>1, <1>2, GoodBefore
  <2>2. f[m + 1].kind = "settor" /\ f[m + 1].thr # NoThrow /\ f[m + 1].thr.h.at \in Live(f, m) /\ f[m + 1].thr.h.at = h.at
    BY <1>2, <1>15
  <2>3. Live(f, m + 1) = {k \in Live(f, m) : k < f[m + 1].thr.h.at}
    <3> HIDE DEF m, f, x
    <3> QED BY <1>2, <2>1, <2>2, LiveSuspended
  <2> QED BY <1>2, <2>2, <2>3
<1>19. Alike(f, g, m) /\ m \in Int
  <2> HIDE DEF f, m, x
  <2> QED BY <1>2, <1>9 DEF Alike
<1>20. \A i \in DOMAIN t.handlers : Saved(g, b, t.handlers[i])
  <2> SUFFICES ASSUME NEW i \in DOMAIN t.handlers PROVE Saved(g, b, t.handlers[i])
    OBVIOUS
  <2>1. Saved(f, b, t.handlers[i])
    BY <1>1 DEF Matching
  <2>2. t.handlers[i].at \in Live(f, n)
    BY <1>1 DEF Ats
  <2>3. t.handlers[i].at \in 1..m
    BY <1>18, <2>2 DEF Live
  <2> HIDE DEF f, m
  <2> QED BY <1>2, <1>11, <2>1, <2>3, SavedEqual
<1>21. Saved(g, b, h)
  <2> HIDE DEF f, m, h
  <2> QED BY <1>2, <1>11, <1>14, <1>16, SavedEqual
<1>22. (\E k \in 1..Len(g) : g[k].kind = "child") => e.hasforked
  <2> SUFFICES ASSUME NEW k \in 1..m, g[k].kind = "child" PROVE t.hasforked
    BY <1>9, <1>10
  <2>1. k \in 1..n /\ f[k].kind = "child"
    BY <1>2, <1>9
  <2> QED BY <1>1, <2>1 DEF Matching
<1>23. Matching(e, b)
  BY <1>10, <1>11, <1>12, <1>20, <1>22 DEF Matching, g
<1>24. Stocked(e, Left(g, m, h.at))
  <2>1. Left(g, m, h.at) = Left(f, m, h.at)
    <3> HIDE DEF f, m, h
    <3> QED BY <1>19, StillAlike
  <2>2. Left(f, m, h.at) \subseteq 1..m
    BY DEF Left, Still
  <2>3. Same(t, e, Left(f, m, h.at))
    BY <1>9, <2>2 DEF Same, g
  <2>4. Unstirred(t, e)
    BY <1>10 DEF Unstirred
  <2>5. Stocked(t, Left(f, m, h.at))
    BY <1>1, <1>17
  <2> HIDE DEF f, m, h
  <2> QED BY <2>1, <2>3, <2>4, <2>5, StockedSame
<1>25. Stopped(g, m, h.at, x.thr.e)
  <2>1. Live(g, m) = Live(f, m)
    <3> HIDE DEF f, m
    <3> QED BY <1>19, LiveAlike
  <2>2. \A k \in Live(f, m) : k \in 1..m
    BY DEF Live
  <2> HIDE DEF f, m, h, x
  <2> QED BY <1>9, <1>14, <2>1, <2>2 DEF Stopped
<1>26. e.evaldepth = Cardinality(Evals(g, m))
  <2>1. Evals(f, m) = Evals(g, m)
    <3>1. m \in Int /\ \A k \in 1..m : f[k].kind \in Evaluated <=> g[k].kind \in Evaluated
      BY <1>9, <1>19
    <3> HIDE DEF f, m
    <3> QED BY <3>1, EvalsSame
  <2>2. /\ Cardinality(Evals(f, m)) \in 0..m
        /\ Cardinality(Evals(f, m + 1)) = IF f[m + 1].kind \in Evaluated THEN Cardinality(Evals(f, m)) + 1
                                          ELSE Cardinality(Evals(f, m))
    <3> HIDE DEF f, m
    <3> QED BY <1>2, EvalsMore
  <2>3. f[m + 1].kind \in Evaluated
    BY <1>2 DEF Evaluated
  <2>4. t.evaldepth = Cardinality(Evals(f, m)) + 1 /\ Cardinality(Evals(f, m)) \in Int
    BY <1>1, <1>2, <2>2, <2>3
  <2> HIDE DEF f, m
  <2> QED BY <1>10, <2>1, <2>4
<1>27. \E y \in h.pushes..Len(b[m]) : e.pushes = SubSeq(b[m], 1, y)
  <2>1. b[m] \in Seq(Text) /\ Len(b[m]) \in Nat
    <3>1. b[m] \in Seq(Text)
      BY <1>1, <1>2 DEF Chain
    <3> HIDE DEF m
    <3> QED BY <3>1
  <2>2. x.n \in 0..Len(b[m]) /\ x.n # 0 /\ x.n - 1 \in h.pushes..Len(b[m])
    <3>1. \A i, j, k \in Nat : i > j /\ i <= k => i \in 0..k /\ i # 0 /\ i - 1 \in j..k
      OBVIOUS
    <3>2. x.n \in Nat /\ h.pushes \in Nat /\ Len(b[m]) \in Nat /\ x.n > h.pushes /\ x.n <= Len(b[m])
      BY <1>14, <1>15, <2>1
    <3> HIDE DEF x, h, m, f
    <3> QED BY ONLY <3>1, <3>2
  <2>3. Ground(f, b, n) = SubSeq(b[m], 1, x.n)
    BY DEF Ground
  <2>4. Bound(x) = <<"0">> /\ "0" \in Text
    BY <1>15, BoundType, Texts
  <2>5. t.pushes = SubSeq(b[m], 1, x.n) \o <<"0">>
    <3>1. b[n] = Ground(f, b, n) \o Bound(f[n])
      BY <1>1, <1>2 DEF Chain
    <3> QED BY <1>1, <2>3, <2>4, <3>1
  <2> HIDE DEF x, m, n, f, h
  <2>6. SubSeq(b[m], 1, x.n) \in Seq(Text) /\ Front(SubSeq(b[m], 1, x.n)) = SubSeq(b[m], 1, x.n - 1)
    BY <2>1, <2>2, PrefixPop
  <2>7. Front(SubSeq(b[m], 1, x.n) \o <<"0">>) = SubSeq(b[m], 1, x.n)
    BY <2>4, <2>6, FrontOf
  <2>8. e.pushes = SubSeq(b[m], 1, x.n - 1)
    BY <1>10, <2>5, <2>6, <2>7
  <2> QED BY <2>2, <2>8
<1>28. ~OverLocal(g[m])
  BY <1>2, <1>9, <1>14
<1>29. Flying(e, b)
  <2> HIDE DEF x, m, n, f, h
  <2> QED BY <1>8, <1>9, <1>10, <1>21, <1>23, <1>24, <1>25, <1>26, <1>27, <1>28 DEF Flying, g, h
<1>30. Keeps(t, e)
  <2> HIDE DEF n, m
  <2> QED BY <1>2, <1>9, <1>10 DEF Keeps, g, n
<1> QED BY <1>3, <1>29, <1>30

\* The settor that local called is done.
LEMMA SettorGoesOn ==
    ASSUME CalmWorld, NEW t, NEW b, Stands(t, b),
           t.frames[Len(t.frames)].kind = "settor", t.frames[Len(t.frames)].thr = NoThrow
    PROVE  Matches(Leave(t)) /\ Keeps(t, Leave(t))
<1> DEFINE f == t.frames
           n == Len(f)
           m == n - 1
           x == f[n]
           y == f[m]
           p == Pop(t)
           u == Return(p)
           g == u.frames
           e == Leave(t)
<1>1. /\ Holds(t) /\ Alive(t) /\ Typed(t) /\ Good(f) /\ f \in Seq(FrameType) /\ n \in Nat \ {0} /\ n # 1
      /\ DOMAIN t = Fields /\ Quiet(f, b) /\ Base(t, b) /\ t.thr = NoThrow /\ Last(f) = x
  BY DEF Stands, Holds, Alive, Typed, Good, Base, Matching, Last
<1>2. /\ m \in Nat \ {0} /\ m + 1 = n /\ m \in 1..n /\ n \in 1..n /\ m \in 1..m
      /\ \A j \in 1..n : j \in 1..m \/ j = n
      /\ \A j \in 1..m : j \in 1..n /\ j <= m
  <2> HIDE DEF n
  <2> QED BY <1>1, Down
<1>3. n \in 2..n /\ (m # 1 => m \in 2..m)
  <2> HIDE DEF n
  <2> QED BY <1>1, <1>2
<1>4. OverLocal(y)
  BY <1>1, <1>3 DEF Good
<1>5. world.settors # {} /\ x.v = y.v
  <2>1. QuietAt(f, b, n)
    BY <1>1, <1>2 DEF Quiet
  <2> QED BY <2>1 DEF QuietAt
<1>6. m # 1 /\ y.kind = "local" /\ y.stage \in {"push", "pop"}
  BY <1>1, <1>4 DEF OverLocal, Good
<1>7. x \in FrameType /\ y \in FrameType /\ x.v \in Text /\ y.thr = NoThrow
  <2>1. x \in FrameType /\ y \in FrameType
    BY <1>1, <1>2
  <2>2. \A z \in FrameType : z.v \in Text
    BY DEF FrameType
  <2>3. y.thr = NoThrow
    BY <1>1, <1>2, <1>6 DEF Good
  <2> HIDE DEF x, y
  <2> QED BY <2>1, <2>2, <2>3
<1>8. Has(p, f, t.handlers, Front(t.pushes), t.inputs, t.defers, t.evaldepth, t.blocked,
          t.hasforked, t.thr, t.dead)
  BY <1>1, PopHas
<1>9. Opened(p)
  <2>1. Ats(t.handlers) = Live(f, m)
    <3>1. x.kind \notin Catching /\ x.kind # "child"
      BY DEF Catching
    <3> QED BY <1>1, <3>1, LiveTop
  <2>2. Opened(t)
    BY <1>1, <2>1 DEF Opened
  <2> QED BY <1>1, <2>2, PopBeside, Opens
<1> HIDE DEF p
<1>10. p.pushes = b[m]
  <2>1. Bound(x) = <<"0">> /\ "0" \in Text
    BY <1>7, BoundType, Texts
  <2> QED BY <1>1, <1>8, <2>1, TopBinds DEF Has
<1>11. Stands(u, b)
  <2>1. Loses(t, p, x)
    BY <1>8 DEF Loses, Source, Deferred, Blocks, Has
  <2>2. Clean(p, b)
    BY <1>1, <1>8, <1>9, <2>1, CleanEnds DEF Has
  <2> QED BY <1>8, <1>10, <2>2, CleanStands DEF Has
<1>12. Len(g) = m /\ \A k \in 1..m : g[k] = f[k]
  BY <1>8, <1>9, Returned DEF Opened, Has
<1>13. e = IF y.stage = "pop" THEN Return(Pop(u)) ELSE Bind(u, x.v)
  <2>1. Last(g) = y
    BY <1>2, <1>12 DEF Last
  <2>2. e = settorends(x, u)
    BY <1>1 DEF Leave, p
  <2> HIDE DEF u, g, e, x, y
  <2>3. x.thr = NoThrow
    BY DEF x
  <2> QED BY <1>6, <2>1, <2>2, <2>3 DEF settorends, g
<1> HIDE DEF u, e
<1>14. Len(g) # 1 /\ g[Len(g)] = y
  BY <1>2, <1>6, <1>12
<1>15. CASE y.stage = "push"
  <2>1. (\E c : Settled(Bind(u, x.v), c)) /\ Len(Bind(u, x.v).frames) = m
    BY <1>5, <1>6, <1>11, <1>12, <1>14, <1>15, LocalBinds
  <2>2. e = Bind(u, x.v)
    BY <1>13, <1>15
  <2> QED BY <1>2, <2>1, <2>2 DEF Matches, Keeps, e
<1>16. CASE y.stage = "pop"
  <2> DEFINE w == Pop(u)
  <2>1. Holds(u) /\ Typed(u) /\ Good(g) /\ DOMAIN u = Fields /\ Len(g) = m
    BY <1>11, <1>12 DEF Stands, Holds, Alive, Typed
  <2>2. Opened(w)
    <3>1. Ats(u.handlers) = Live(g, Len(g) - 1)
      <4>1. y.kind \notin Catching /\ y.kind # "child"
        BY <1>6 DEF Catching
      <4> QED BY <1>7, <1>14, <2>1, <4>1, LiveTop
    <3>2. Opened(u)
      BY <1>14, <2>1, <3>1 DEF Opened, Holds
    <3> QED BY <2>1, <3>2, PopBeside, Opens
  <2>3. Has(w, g, u.handlers, Front(u.pushes), u.inputs, u.defers, u.evaldepth, u.blocked,
            u.hasforked, u.thr, u.dead)
    BY <2>1, PopHas
  <2> HIDE DEF w
  <2>4. w.pushes = b[Len(g) - 1]
    <3>1. Bound(y) = <<y.v>> /\ y.v \in Text
      BY <1>5, <1>6, <1>7, <1>16, BoundType
    <3> QED BY <1>7, <1>11, <1>14, <2>3, <3>1, TopBinds DEF Has
  <2>5. Loses(u, w, y)
    BY <1>6, <2>3 DEF Loses, Source, Deferred, Blocks, Has
  <2>6. Matches(Return(w)) /\ Keeps(u, Return(w))
    <3>1. y.kind \notin {"settor", "child"}
      BY <1>6
    <3> HIDE DEF y
    <3> QED BY <1>11, <1>14, <2>2, <2>3, <2>4, <2>5, <3>1, LeaveClean DEF Has
  <2>7. Keeps(t, Return(w))
    <3> HIDE DEF n, m
    <3> QED BY <1>2, <1>12, <2>6 DEF Keeps, n
  <2>8. e = Return(w)
    BY <1>13, <1>16 DEF w
  <2> QED BY <2>6, <2>7, <2>8 DEF e
<1> QED BY <1>6, <1>15, <1>16 DEF e

\* A command throws, or fails for being too deep.
LEMMA Flies ==
    ASSUME NEW t, NEW b, Settled(t, b), NEW d \in Int,
           d = t.evaldepth \/ world.settors = {}, NEW w,
           Has(w, t.frames, t.handlers, t.pushes, t.inputs, t.defers, d, t.blocked, t.hasforked, t.thr, t.dead),
           NEW e \in Text, e # "none",
           \A i \in 1..Len(t.frames) : t.frames[i].kind = "settor" =>
              \E k \in Live(t.frames, Len(t.frames)) : i < k /\ Stops(t.frames[k], e)
    PROVE  Matches(Throw(w, e)) /\ Keeps(t, Throw(w, e))
<1> DEFINE f == t.frames
           n == Len(f)
           u == Throw(w, e)
<1>1. /\ Holds(t) /\ Alive(t) /\ Typed(t) /\ Good(f) /\ n \in Nat \ {0} /\ Base(t, b) /\ Matching(t, b)
      /\ t.pushes = b[n] /\ ~OverLocal(f[n]) /\ Stocked(t, Still(f, n)) /\ Ats(t.handlers) = Live(f, n)
      /\ t.evaldepth = Cardinality(Evals(f, n)) /\ Chain(f, b) /\ t.dead = "no"
  BY DEF Settled, Stands, Holds, Alive, Good, Base, Matching
<1>2. Alive(w) /\ Ats(w.handlers) = Live(w.frames, n) /\ w.frames = f /\ w.pushes = t.pushes /\ w.evaldepth = d
  BY <1>1 DEF Has, Alive, Typed
<1>3. Matching(w, b)
  BY <1>1 DEF Matching, Has
<1>4. Stocked(w, Still(f, n))
  <2>1. Unstirred(t, w) /\ Same(t, w, Still(f, n))
    BY DEF Unstirred, Same, Has
  <2> HIDE DEF f, n
  <2> QED BY <1>1, <2>1, StockedSame
<1>5. w.pushes = SubSeq(b[n], 1, Len(b[n]))
  <2>1. n \in 0..n
    BY <1>1
  <2>2. b[n] \in Seq(Text)
    BY <1>1, <2>1 DEF Chain
  <2>3. \A q \in Seq(Text) : SubSeq(q, 1, Len(q)) = q
    OBVIOUS
  <2> QED BY <1>1, <1>2, <2>2, <2>3
<1>6. Ok(u)
  BY <1>2, Throwing
<1>7. ASSUME u.dead = "no" PROVE Flying(u, b) /\ u.frames = f
  <2> DEFINE L == Len(w.frames)
  <2>0. L \in {Len(w.frames), Len(w.frames) - 1} /\ L # 0 /\ L # Len(w.frames) - 1 /\ L = n
    BY <1>1, <1>2
  <2>1. Len(b[n]) \in {Len(b[Len(w.frames)]), Len(b[L])}
    BY <2>0
  <2>2. \A i \in 1..Len(w.frames) : w.frames[i].kind = "settor" =>
           \E k \in Live(w.frames, L) : i < k /\ Stops(w.frames[k], e)
    BY <1>2
  <2>3. world.settors # {} => w.evaldepth = Cardinality(Evals(w.frames, Len(w.frames)))
    BY <1>1, <1>2
  <2>4. Ats(w.handlers) = Live(w.frames, L) /\ ~OverLocal(w.frames[Len(w.frames)])
        /\ Stocked(w, Still(w.frames, L)) /\ w.pushes = SubSeq(b[Len(w.frames)], 1, Len(b[n]))
    BY <1>1, <1>2, <1>4, <1>5
  <2> HIDE DEF L
  <2> QED BY <1>2, <1>3, <1>6, <1>7, <2>0, <2>1, <2>2, <2>3, <2>4, Launch, SMTT(40)
<1> HIDE DEF u
<1>8. \A j \in 1..n : j <= n
  BY <1>1
<1> QED BY <1>7, <1>8 DEF Matches, Keeps, u

\* The bindings q are those of t and of frame x; the handlers a are those of t
\* and of u's innermost frame.
Binds(t, x, q) ==
    \/ Bound(x) = <<>> /\ q = t.pushes
    \/ \E z \in Text : Bound(x) = <<z>> /\ q = Append(t.pushes, z)
Guards(t, u, kind, a, q) ==
    \/ kind \notin Catching /\ kind # "child" /\ a = t.handlers
    \/ kind = "child" /\ a = <<Root>>
    \/ \E h : /\ a = Append(t.handlers, h) /\ h.at = Len(t.frames) + 1 /\ h.evaldepth = u.evaldepth
              /\ h.pushes = IF kind \in {"run", "fn"} THEN Len(t.pushes) ELSE Len(q)

\* A construct begins: what it has added to the stacks is what its frame says.
LEMMA Enters ==
    ASSUME CalmWorld, NEW t, NEW b, Settled(t, b), Len(t.frames) < MaxFrames,
           NEW kind \in Kinds, NEW v \in Text, kind = "child" => ~t.hasforked,
           NEW u, Holds(u), NEW a, NEW q, NEW i, NEW d, NEW o,
           Has(u, Append(t.frames, First(t, kind, v)), a, q, i, d,
               IF kind \in Evaluated THEN t.evaldepth + 1 ELSE t.evaldepth,
               o, IF kind = "child" THEN TRUE ELSE t.hasforked, NoThrow, "no"),
           Gains(t, u, First(t, kind, v), Len(t.frames) + 1),
           Binds(t, First(t, kind, v), q), Guards(t, u, kind, a, q)
    PROVE  /\ \E c : Stands(u, c)
           /\ Len(u.frames) = Len(t.frames) + 1
           /\ u.frames[Len(t.frames) + 1] = First(t, kind, v)
<1> DEFINE f == t.frames
           n == Len(f)
           g == u.frames
           x == First(t, kind, v)
<1>1. /\ Holds(t) /\ Typed(t) /\ Good(f) /\ f \in Seq(FrameType) /\ n \in Nat \ {0} /\ n \in 1..n
      /\ Matching(t, b) /\ t.pushes = b[n] /\ ~OverLocal(f[n]) /\ Stocked(t, Still(f, n))
      /\ t.evaldepth = Cardinality(Evals(f, n)) /\ Ats(t.handlers) = Live(f, n) /\ t.pushes \in Seq(Text)
      /\ t.handlers \in Seq(Depths)
  <2>1. Holds(t) /\ Base(t, b) /\ t.pushes = b[n] /\ ~OverLocal(f[n])
    BY DEF Settled, Stands
  <2>2. Typed(t) /\ Good(f) /\ Ats(t.handlers) = Live(f, n)
    BY <2>1 DEF Holds, Alive
  <2>3. Matching(t, b) /\ Stocked(t, Still(f, n)) /\ t.evaldepth = Cardinality(Evals(f, n))
    BY <2>1 DEF Base
  <2>4. f \in Seq(FrameType) /\ t.pushes \in Seq(Text) /\ t.handlers \in Seq(Depths)
    BY <2>2 DEF Typed
  <2>5. n \in Nat \ {0} /\ n \in 1..n
    BY <2>2 DEF Good
  <2> QED BY <2>1, <2>2, <2>3, <2>4, <2>5
<1>2. x \in FrameType /\ x.kind = kind /\ x.thr = NoThrow
  BY <1>1, FirstFrame
<1>3. kind # "settor"
  BY DEF Kinds
<1> HIDE DEF x
<1>4. Len(g) = n + 1 /\ g[n + 1] = x /\ \A k \in 1..n : g[k] = f[k]
  BY <1>1 DEF Has, x
<1>5. /\ u.handlers = a /\ u.pushes = q /\ u.hasforked = IF kind = "child" THEN TRUE ELSE t.hasforked
      /\ u.evaldepth = IF kind \in Evaluated THEN t.evaldepth + 1 ELSE t.evaldepth
  BY DEF Has
<1> HIDE DEF g
<1>6. Fits(g)
  <2>1. MaxFrames \in Nat /\ n < MaxFrames
    BY DEF CalmWorld
  <2> HIDE DEF n
  <2> QED BY <1>1, <1>4, <2>1 DEF Fits
<1>7. u.pushes = b[n] \o Bound(g[n + 1])
  <2>1. CASE Bound(x) = <<>> /\ q = t.pushes
    <3>1. t.pushes \o <<>> = t.pushes
      BY <1>1
    <3> QED BY <1>1, <1>4, <1>5, <2>1, <3>1
  <2>2. CASE \E z \in Text : Bound(x) = <<z>> /\ q = Append(t.pushes, z)
    <3>1. PICK z \in Text : Bound(x) = <<z>> /\ q = Append(t.pushes, z)
      BY <2>2
    <3>2. Append(t.pushes, z) = t.pushes \o <<z>>
      BY <1>1, Appended
    <3> QED BY <1>1, <1>4, <1>5, <3>1, <3>2
  <2> QED BY <2>1, <2>2 DEF x, Binds
<1>8. \A j \in DOMAIN u.handlers : Kept(t, u, n + 1, u.handlers[j], Len(b[n]))
  <2>1. ASSUME NEW j \in DOMAIN t.handlers PROVE Kept(t, u, n + 1, t.handlers[j], Len(b[n]))
    <3>1. t.handlers[j].at \in Live(f, n)
      BY <1>1 DEF Ats
    <3>2. t.handlers[j].at \in 1..n
      BY <3>1 DEF Live
    <3>3. t.handlers[j].at < n + 1
      <4> HIDE DEF n
      <4> QED BY <1>1, <3>2
    <3> QED BY <3>3 DEF Kept
  <2>2. CASE kind \notin Catching /\ kind # "child" /\ a = t.handlers
    BY <1>5, <2>1, <2>2
  <2>3. CASE kind = "child" /\ a = <<Root>>
    <3>1. \A j \in DOMAIN <<Root>> : <<Root>>[j] = Root
      OBVIOUS
    <3> QED BY <1>5, <2>3, <3>1 DEF Kept
  <2>4. CASE \E h : /\ a = Append(t.handlers, h) /\ h.at = n + 1 /\ h.evaldepth = u.evaldepth
                    /\ h.pushes = IF kind \in {"run", "fn"} THEN Len(t.pushes) ELSE Len(q)
    <3>1. PICK h : /\ a = Append(t.handlers, h) /\ h.at = n + 1 /\ h.evaldepth = u.evaldepth
                   /\ h.pushes = IF kind \in {"run", "fn"} THEN Len(t.pushes) ELSE Len(q)
      BY <2>4
    <3>2. Kept(t, u, n + 1, h, Len(b[n]))
      BY <1>1, <1>2, <1>4, <1>5, <3>1 DEF Kept, g
    <3>3. \A j \in DOMAIN a : a[j] = h \/ (j \in DOMAIN t.handlers /\ a[j] = t.handlers[j])
      BY <1>1, <3>1
    <3> HIDE DEF n
    <3> QED BY <1>5, <2>1, <3>2, <3>3
  <2> QED BY <2>2, <2>3, <2>4 DEF Guards
<1>9. /\ g[n + 1].thr = NoThrow /\ g[n + 1].kind # "settor"
      /\ g[n + 1].kind = "child" => u.hasforked /\ ~t.hasforked
      /\ t.hasforked => u.hasforked
      /\ Gains(t, u, g[n + 1], n + 1)
      /\ u.evaldepth = IF g[n + 1].kind \in Evaluated THEN Cardinality(Evals(f, n)) + 1
                       ELSE Cardinality(Evals(f, n))
  BY <1>1, <1>2, <1>3, <1>4, <1>5 DEF x
<1>10. \E c : Stands(u, c)
  <2> HIDE DEF n
  <2> QED BY <1>1, <1>4, <1>6, <1>7, <1>8, <1>9, Placed DEF g, n
<1> QED BY <1>4, <1>10 DEF g, x

\* A construct begins.
LEMMA EnterSettles ==
    ASSUME CalmWorld, NEW t, NEW b, Settled(t, b), Len(t.frames) < MaxFrames,
           NEW kind \in Kinds, NEW v \in Text, kind = "child" => ~t.hasforked
    PROVE  Matches(Enter(t, kind, v)) /\ Keeps(t, Enter(t, kind, v))
<1> DEFINE f == t.frames
           n == Len(f)
           x == First(t, kind, v)
           g == Append(f, x)
           u == Into(t, kind, v)
           e == Enter(t, kind, v)
           o == IF kind \in Evaluated THEN t.evaldepth + 1 ELSE t.evaldepth
           hf == IF kind = "child" THEN TRUE ELSE t.hasforked
           Fine(w) == Matches(w) /\ Keeps(t, w)
<1>1. /\ Holds(t) /\ Alive(t) /\ Typed(t) /\ Good(f) /\ n \in Nat \ {0} /\ t.thr = NoThrow /\ t.dead = "no"
      /\ DOMAIN t = Fields /\ t.evaldepth = Cardinality(Evals(f, n)) /\ Quiet(f, b) /\ Fits(f)
      /\ t.evaldepth \in Int /\ ~OverLocal(f[n])
  BY DEF Settled, Stands, Holds, Alive, Typed, Good, Base, Matching
<1>2. CASE TooDeep(t, kind)
  <2> DEFINE d == t.evaldepth + 1
             w == [t EXCEPT !.evaldepth = d]
  <2>1. world.settors = {}
    <3>1. t.evaldepth \in 0..n
      BY <1>1, EvalsMore
    <3>2. MaxFrames \in Nat /\ n < MaxFrames /\ world.maxevaldepth \in Int
      BY DEF CalmWorld
    <3>3. t.evaldepth + 1 >= world.maxevaldepth
      BY <1>2 DEF TooDeep
    <3>4. ~(world.maxevaldepth > MaxFrames + 2)
      <4> HIDE DEF n
      <4> QED BY <1>1, <3>1, <3>2, <3>3
    <3> QED BY <3>4 DEF CalmWorld
  <2>2. Has(w, f, t.handlers, t.pushes, t.inputs, t.defers, d, t.blocked, t.hasforked, t.thr, t.dead)
    BY <1>1, DepthHas
  <2>3. \A i \in 1..n : f[i].kind # "settor"
    BY <1>1, <2>1 DEF Quiet, QuietAt
  <2>4. e = Throw(w, "error")
    BY <1>2 DEF Enter
  <2>5. "error" \in Text /\ "error" # "none" /\ d \in Int
    <3>1. "error" \in Text
      BY Texts
    <3> QED BY <1>1, <3>1
  <2> HIDE DEF w, d, e
  <2>6. Matches(Throw(w, "error")) /\ Keeps(t, Throw(w, "error"))
    BY <2>1, <2>2, <2>3, <2>5, Flies
  <2> QED BY <2>4, <2>6 DEF e
<1>3. CASE ~TooDeep(t, kind)
  <2>1. /\ x \in FrameType /\ x.kind = kind /\ x.thr = NoThrow /\ x.v = v
        /\ kind = "local" => x.stage = "push"
    BY <1>1, FirstFrame
  <2>2. Has(u, g, t.handlers, t.pushes, t.inputs, t.defers, o, t.blocked, t.hasforked, t.thr, t.dead)
    BY <1>1, IntoHas
  <2>3. /\ Alive(u) /\ Typed(u) /\ Beside(u, u) /\ Len(g) = n + 1 /\ g[n + 1] = x /\ DOMAIN u = Fields
    <3>1. Alive(u) /\ Len(u.frames) = n + 1 /\ u.frames[n + 1] = x
      BY <1>1, Entered
    <3> HIDE DEF u, x, g
    <3> QED BY <2>2, <3>1 DEF Has, Alive, Beside
  <2>4. \A w : Beside(u, w) /\ kind \in Catching => Holds(pushhandler(w))
    BY <1>1, Guarded
  <2>5. \A w : Beside(u, w) => Typed(w)
    BY DEF Beside
  <2>6. "0" \in Text /\ "fd" \in Text /\ "fn-%dispatch" \in Text
    BY Texts
  <2>7. /\ kind \in {"run", "fn", "redir", "readfrom", "writeto", "loop", "catch", "for", "local", "child", "seq", "exec"}
        /\ kind \in {"run", "fn", "redir", "readfrom", "writeto", "loop", "catch", "for"} => kind \in Catching
        /\ kind \in {"local", "child", "seq", "exec"} => kind \notin Catching
    BY DEF Kinds, Catching, Evaluated
  <2>8. /\ kind = "run" => Bound(x) = <<"fn-%dispatch">>
        /\ kind = "fn" => Bound(x) = <<"0">>
        /\ kind \in {"readfrom", "writeto"} => Bound(x) = <<"fd">>
        /\ kind \in {"redir", "loop", "catch", "for", "child", "seq", "exec", "local"} => Bound(x) = <<>>
    <3> HIDE DEF x
    <3> QED BY <2>1, BoundType
  \* The frame is there, and its handler.
  <2>9. ASSUME NEW w, NEW a, NEW q, NEW i, NEW d, kind # "child",
               Has(w, g, a, q, i, d, o, t.blocked, t.hasforked, NoThrow, "no"), Holds(w),
               i = IF Source(x) THEN Append(t.inputs, n + 1) ELSE t.inputs,
               d = IF Deferred(x) THEN Append(t.defers, n + 1) ELSE t.defers,
               \/ Bound(x) = <<>> /\ q = t.pushes
               \/ \E z \in Text : Bound(x) = <<z>> /\ q = Append(t.pushes, z),
               \/ kind \notin Catching /\ a = t.handlers
               \/ \E h : /\ a = Append(t.handlers, h) /\ h.at = n + 1 /\ h.evaldepth = w.evaldepth
                         /\ h.pushes = IF kind \in {"run", "fn"} THEN Len(t.pushes) ELSE Len(q)
        PROVE  (\E c : Stands(w, c)) /\ Len(w.frames) = n + 1 /\ w.frames[n + 1] = x
    <3>1. Gains(t, w, x, n + 1)
      <4>1. ~Blocks(x)
        BY <2>1, <2>7 DEF Blocks
      <4>2. w.inputs = i /\ w.defers = d /\ w.blocked = t.blocked
        BY <2>9 DEF Has
      <4> HIDE DEF x, n
      <4> QED BY <2>9, <4>1, <4>2 DEF Gains
    <3>2. Has(w, Append(f, x), a, q, i, d, o, t.blocked,
               IF kind = "child" THEN TRUE ELSE t.hasforked, NoThrow, "no")
      BY <2>9
    <3>3. Holds(w) /\ (kind = "child" => ~t.hasforked) /\ Binds(t, x, q)
      BY <2>9 DEF Binds
    <3>4. Guards(t, w, kind, a, q)
      <4> HIDE DEF x, g, o
      <4> QED BY <2>9 DEF Guards
    <3> HIDE DEF x, o, g, u, e, n, Fine
    <3>5. (\E c : Stands(w, c)) /\ Len(w.frames) = Len(f) + 1 /\ w.frames[Len(f) + 1] = x
      <4>1. Gains(t, w, First(t, kind, v), Len(t.frames) + 1)
        BY <3>1 DEF x, n
      <4>2. Has(w, Append(t.frames, First(t, kind, v)), a, q, i, d,
               IF kind \in Evaluated THEN t.evaldepth + 1 ELSE t.evaldepth,
               t.blocked, IF kind = "child" THEN TRUE ELSE t.hasforked, NoThrow, "no")
        BY <3>2 DEF x, o
      <4>3. Binds(t, First(t, kind, v), q)
        BY <3>3 DEF x
      <4> QED BY <3>3, <3>4, <4>1, <4>2, <4>3, Enters DEF x
    <3> QED BY <3>5 DEF n
  <2>10. ASSUME NEW w, \E c : Stands(w, c), Len(w.frames) = n + 1, w.frames[n + 1] = x, kind # "local"
         PROVE  Fine(w)
    <3>1. ~OverLocal(w.frames[Len(w.frames)])
      <4>1. w.frames[Len(w.frames)].kind # "local"
        BY <2>1, <2>10
      <4> QED BY <4>1 DEF OverLocal
    <3>2. \A j \in 1..n : j <= n + 1
      BY <1>1
    <3> HIDE DEF n
    <3> QED BY <2>10, <3>1, <3>2 DEF Settled, Matches, Keeps, n
  <2> HIDE DEF u, x, g, o, Fine
  <2>11. ASSUME NEW w, NEW q, NEW i, NEW d, NEW de, Has(w, g, t.handlers, q, i, d, de, t.blocked, t.hasforked, t.thr, t.dead)
         PROVE  /\ Handler(w) = [at |-> n + 1, pushes |-> Len(q), evaldepth |-> de]
    BY <2>3, <2>11 DEF Handler, Has
  <2>12. CASE kind = "run"
    <3> DEFINE i == Append(t.inputs, n + 1)
               w == [u EXCEPT !.inputs = i]
               h == Handler(w)
               p == pushhandler(w)
               r == Push(p, "fn-%dispatch")
    <3>1. Has(w, g, t.handlers, t.pushes, i, t.defers, o, t.blocked, t.hasforked, t.thr, t.dead)
      <4>1. Has(w, u.frames, u.handlers, u.pushes, i, u.defers, u.evaldepth, u.blocked, u.hasforked, u.thr, u.dead)
        BY <2>3, InputsHas
      <4> HIDE DEF w, i
      <4> QED BY <2>2, <4>1 DEF Has
    <3>2. Beside(u, w)
      <4>1. i \in Seq(Nat)
        <5>1. t.inputs \in Seq(Nat) /\ n + 1 \in Nat
          BY <1>1 DEF Typed
        <5> HIDE DEF n
        <5> QED BY <5>1
      <4> HIDE DEF i
      <4> QED BY <2>3, <4>1 DEF Beside, Typed, Fields
    <3>3. e = r
      <4>1. Len(u.frames) = n + 1 /\ u.inputs = t.inputs
        BY <2>2, <2>3 DEF Has
      <4>2. w = [u EXCEPT !.inputs = Append(@, Len(u.frames))]
        BY <4>1
      <4>3. e = runinput(Into(t, kind, v))
        BY <1>3, <2>12 DEF Enter, Into, First
      <4> HIDE DEF w, e
      <4> QED BY <4>2, <4>3 DEF runinput, u
    <3> HIDE DEF w, e
    <3>4. h = [at |-> n + 1, pushes |-> Len(t.pushes), evaldepth |-> o]
      BY <2>11, <3>1
    <3>5. Holds(p)
      BY <2>4, <2>7, <2>12, <3>2
    <3>6. Has(p, g, Append(t.handlers, h), t.pushes, i, t.defers, o, t.blocked, t.hasforked, t.thr, t.dead)
      BY <3>1, PushhandlerHas DEF Has
    <3> HIDE DEF p, h
    <3>7. Has(r, g, Append(t.handlers, h), Append(t.pushes, "fn-%dispatch"), i, t.defers, o, t.blocked,
              t.hasforked, t.thr, t.dead)
      BY <3>6, PushHas DEF Has
    <3>8. Holds(r)
      BY <2>6, <3>5, PushBeside, BesideKeeps DEF Holds, Alive
    <3> HIDE DEF r
    <3>9. Source(x) /\ ~Deferred(x)
      BY <2>1, <2>12 DEF Source, Deferred
    <3>10. h.at = n + 1 /\ h.evaldepth = r.evaldepth /\ h.pushes = Len(t.pushes)
      BY <3>4, <3>7 DEF Has
    <3>11. (\E c : Stands(r, c)) /\ Len(r.frames) = n + 1 /\ r.frames[n + 1] = x
      <4> DEFINE q == Append(t.pushes, "fn-%dispatch")
                 a == Append(t.handlers, h)
      <4>1. \E z \in Text : Bound(x) = <<z>> /\ q = Append(t.pushes, z)
        BY <2>6, <2>8, <2>12
      <4>2. \E y : /\ a = Append(t.handlers, y) /\ y.at = n + 1 /\ y.evaldepth = r.evaldepth
                   /\ y.pushes = IF kind \in {"run", "fn"} THEN Len(t.pushes) ELSE Len(q)
        BY <2>12, <3>10
      <4>3. Has(r, g, a, q, i, t.defers, o, t.blocked, t.hasforked, NoThrow, "no")
        BY <1>1, <3>7
      <4> HIDE DEF n, q, a
      <4> QED BY <2>9, <2>12, <3>8, <3>9, <4>1, <4>2, <4>3
    <3> QED BY <2>10, <2>12, <3>3, <3>11 DEF e, Fine
  <2>13. CASE kind = "fn"
    <3> DEFINE h == Handler(u)
               p == pushhandler(u)
               r == Push(p, "0")
    <3>3. e = r
      BY <1>3, <2>13 DEF Enter, lambda, Into, First, u
    <3> HIDE DEF e
    <3>4. h = [at |-> n + 1, pushes |-> Len(t.pushes), evaldepth |-> o]
      BY <2>2, <2>11
    <3>5. Holds(p)
      BY <2>3, <2>4, <2>7, <2>13
    <3>6. Has(p, g, Append(t.handlers, h), t.pushes, t.inputs, t.defers, o, t.blocked, t.hasforked, t.thr, t.dead)
      BY <2>2, PushhandlerHas DEF Has
    <3> HIDE DEF p, h
    <3>7. Has(r, g, Append(t.handlers, h), Append(t.pushes, "0"), t.inputs, t.defers, o, t.blocked,
              t.hasforked, t.thr, t.dead)
      BY <3>6, PushHas DEF Has
    <3>8. Holds(r)
      BY <2>6, <3>5, PushBeside, BesideKeeps DEF Holds, Alive
    <3> HIDE DEF r
    <3>9. ~Source(x) /\ ~Deferred(x)
      BY <2>1, <2>13 DEF Source, Deferred
    <3>10. h.at = n + 1 /\ h.evaldepth = r.evaldepth /\ h.pushes = Len(t.pushes)
      BY <3>4, <3>7 DEF Has
    <3>11. (\E c : Stands(r, c)) /\ Len(r.frames) = n + 1 /\ r.frames[n + 1] = x
      <4> DEFINE q == Append(t.pushes, "0")
                 a == Append(t.handlers, h)
      <4>1. \E z \in Text : Bound(x) = <<z>> /\ q = Append(t.pushes, z)
        BY <2>6, <2>8, <2>13
      <4>2. \E y : /\ a = Append(t.handlers, y) /\ y.at = n + 1 /\ y.evaldepth = r.evaldepth
                   /\ y.pushes = IF kind \in {"run", "fn"} THEN Len(t.pushes) ELSE Len(q)
        BY <2>13, <3>10
      <4>3. Has(r, g, a, q, t.inputs, t.defers, o, t.blocked, t.hasforked, NoThrow, "no")
        BY <1>1, <3>7
      <4> HIDE DEF n, q, a
      <4> QED BY <2>9, <2>13, <3>8, <3>9, <4>1, <4>2, <4>3
    <3> QED BY <2>10, <2>13, <3>3, <3>11 DEF e, Fine
  <2>14. CASE kind \in {"readfrom", "writeto"}
    <3> DEFINE q == Append(t.pushes, "fd")
               p == Push(u, "fd")
               h == Handler(p)
               r == pushhandler(p)
    <3>3. e = r
      BY <1>3, <2>14 DEF Enter, readfrom, Into, First, u
    <3> HIDE DEF e
    <3>5. Holds(r)
      BY <2>3, <2>4, <2>6, <2>7, <2>14, PushBeside
    <3>6. Has(p, g, t.handlers, q, t.inputs, t.defers, o, t.blocked, t.hasforked, t.thr, t.dead)
      BY <2>2, PushHas DEF Has
    <3> HIDE DEF p
    <3>4. h = [at |-> n + 1, pushes |-> Len(q), evaldepth |-> o]
      <4> HIDE DEF q
      <4> QED BY <2>11, <3>6
    <3>7. Has(r, g, Append(t.handlers, h), q, t.inputs, t.defers, o, t.blocked, t.hasforked, t.thr, t.dead)
      BY <3>6, PushhandlerHas DEF Has
    <3> HIDE DEF r, h
    <3>9. ~Source(x) /\ ~Deferred(x)
      BY <2>1, <2>14 DEF Source, Deferred
    <3>10. h.at = n + 1 /\ h.evaldepth = r.evaldepth /\ h.pushes = Len(q)
      BY <3>4, <3>7 DEF Has
    <3>11. (\E c : Stands(r, c)) /\ Len(r.frames) = n + 1 /\ r.frames[n + 1] = x
      <4> DEFINE a == Append(t.handlers, h)
      <4>1. \E z \in Text : Bound(x) = <<z>> /\ q = Append(t.pushes, z)
        BY <2>6, <2>8, <2>14
      <4>2. \E y : /\ a = Append(t.handlers, y) /\ y.at = n + 1 /\ y.evaldepth = r.evaldepth
                   /\ y.pushes = IF kind \in {"run", "fn"} THEN Len(t.pushes) ELSE Len(q)
        BY <2>14, <3>10
      <4>3. Has(r, g, a, q, t.inputs, t.defers, o, t.blocked, t.hasforked, NoThrow, "no")
        BY <1>1, <3>7
      <4> HIDE DEF n, q, a
      <4> QED BY <2>9, <2>14, <3>5, <3>9, <4>1, <4>2, <4>3
    <3> QED BY <2>10, <2>14, <3>3, <3>11 DEF e, Fine
  <2>15. CASE kind = "redir"
    <3> DEFINE d == IF x.inchild THEN t.defers ELSE Append(t.defers, n + 1)
               w == IF x.inchild THEN u ELSE [u EXCEPT !.defers = Append(t.defers, n + 1)]
               h == Handler(w)
               r == pushhandler(w)
    <3>1. Has(w, g, t.handlers, t.pushes, t.inputs, d, o, t.blocked, t.hasforked, t.thr, t.dead)
      <4> DEFINE y == Append(t.defers, n + 1)
                 z == [u EXCEPT !.defers = y]
      <4>1. Has(z, u.frames, u.handlers, u.pushes, u.inputs, y, u.evaldepth, u.blocked, u.hasforked, u.thr, u.dead)
        BY <2>3, InputsHas
      <4> HIDE DEF z, y
      <4>2. Has(z, g, t.handlers, t.pushes, t.inputs, y, o, t.blocked, t.hasforked, t.thr, t.dead)
        BY <2>2, <4>1 DEF Has
      <4>3. w = IF x.inchild THEN u ELSE z
        BY DEF z, y
      <4>4. d = IF x.inchild THEN t.defers ELSE y
        BY DEF y
      <4> HIDE DEF w, d
      <4> QED BY <2>2, <4>2, <4>3, <4>4
    <3>2. Beside(u, w)
      <4> DEFINE y == Append(t.defers, n + 1)
                 z == [u EXCEPT !.defers = y]
      <4>1. y \in Seq(Nat)
        <5>1. t.defers \in Seq(Nat) /\ n + 1 \in Nat
          BY <1>1 DEF Typed
        <5> HIDE DEF n
        <5> QED BY <5>1
      <4> HIDE DEF y
      <4>2. Beside(u, z)
        BY <2>3, <4>1 DEF Beside, Typed, Fields
      <4> QED BY <2>3, <4>2 DEF y
    <3>3. e = r
      <4>1. Len(u.frames) = n + 1 /\ u.defers = t.defers /\ Last(u.frames) = x
        BY <2>2, <2>3 DEF Has, Last
      <4>2. w = IF Last(u.frames).inchild THEN u ELSE [u EXCEPT !.defers = Append(@, Len(u.frames))]
        BY <4>1
      <4>3. e = redir(Into(t, kind, v))
        BY <1>3, <2>15 DEF Enter, Into, First
      <4> HIDE DEF w, e
      <4> QED BY <4>2, <4>3 DEF redir, u
    <3> HIDE DEF w, e, d
    <3>4. h = [at |-> n + 1, pushes |-> Len(t.pushes), evaldepth |-> o]
      BY <2>11, <3>1
    <3>5. Holds(r)
      BY <2>4, <2>7, <2>15, <3>2
    <3>7. Has(r, g, Append(t.handlers, h), t.pushes, t.inputs, d, o, t.blocked, t.hasforked, t.thr, t.dead)
      BY <3>1, PushhandlerHas DEF Has
    <3> HIDE DEF r, h
    <3>9. ~Source(x) /\ d = IF Deferred(x) THEN Append(t.defers, n + 1) ELSE t.defers
      BY <2>1, <2>15 DEF Source, Deferred, d
    <3>10. h.at = n + 1 /\ h.evaldepth = r.evaldepth /\ h.pushes = Len(t.pushes)
      BY <3>4, <3>7 DEF Has
    <3>11. (\E c : Stands(r, c)) /\ Len(r.frames) = n + 1 /\ r.frames[n + 1] = x
      <4> DEFINE a == Append(t.handlers, h)
      <4>1. Bound(x) = <<>>
        BY <2>8, <2>15
      <4>2. \E y : /\ a = Append(t.handlers, y) /\ y.at = n + 1 /\ y.evaldepth = r.evaldepth
                   /\ y.pushes = IF kind \in {"run", "fn"} THEN Len(t.pushes) ELSE Len(t.pushes)
        BY <3>10
      <4>3. Has(r, g, a, t.pushes, t.inputs, d, o, t.blocked, t.hasforked, NoThrow, "no")
        BY <1>1, <3>7
      <4> HIDE DEF n, a
      <4> QED BY <2>9, <2>15, <3>5, <3>9, <4>1, <4>2, <4>3
    <3> QED BY <2>10, <2>15, <3>3, <3>11 DEF e, Fine
  <2>16. CASE kind \in {"loop", "catch", "for"}
    <3> DEFINE h == Handler(u)
               r == pushhandler(u)
    <3>3. e = r
      BY <1>3, <2>16 DEF Enter, batchloop, catch, forloop, Into, First, u
    <3> HIDE DEF e
    <3>4. h = [at |-> n + 1, pushes |-> Len(t.pushes), evaldepth |-> o]
      BY <2>2, <2>11
    <3>5. Holds(r)
      BY <2>3, <2>4, <2>7, <2>16
    <3>7. Has(r, g, Append(t.handlers, h), t.pushes, t.inputs, t.defers, o, t.blocked, t.hasforked, t.thr, t.dead)
      BY <2>2, PushhandlerHas DEF Has
    <3> HIDE DEF r, h
    <3>9. ~Source(x) /\ ~Deferred(x)
      BY <2>1, <2>16 DEF Source, Deferred
    <3>10. h.at = n + 1 /\ h.evaldepth = r.evaldepth /\ h.pushes = Len(t.pushes)
      BY <3>4, <3>7 DEF Has
    <3>11. (\E c : Stands(r, c)) /\ Len(r.frames) = n + 1 /\ r.frames[n + 1] = x
      <4> DEFINE a == Append(t.handlers, h)
      <4>1. Bound(x) = <<>>
        BY <2>8, <2>16
      <4>2. \E y : /\ a = Append(t.handlers, y) /\ y.at = n + 1 /\ y.evaldepth = r.evaldepth
                   /\ y.pushes = IF kind \in {"run", "fn"} THEN Len(t.pushes) ELSE Len(t.pushes)
        BY <3>10
      <4>3. Has(r, g, a, t.pushes, t.inputs, t.defers, o, t.blocked, t.hasforked, NoThrow, "no")
        BY <1>1, <3>7
      <4> HIDE DEF n, a
      <4> QED BY <2>9, <2>16, <3>5, <3>9, <4>1, <4>2, <4>3
    <3> QED BY <2>10, <2>16, <3>3, <3>11 DEF e, Fine
  <2>17. CASE kind \in {"local", "seq", "exec"}
    <3>1. Holds(u)
      <4>1. kind \in Kinds \ Catching /\ kind # "child"
        BY <2>7, <2>17
      <4> QED BY <1>1, <4>1, Plainly DEF u
    <3>2. (\E c : Stands(u, c)) /\ Len(u.frames) = n + 1 /\ u.frames[n + 1] = x
      <4>1. ~Source(x) /\ ~Deferred(x)
        BY <2>1, <2>17 DEF Source, Deferred
      <4>2. Has(u, g, t.handlers, t.pushes, t.inputs, t.defers, o, t.blocked, t.hasforked, NoThrow, "no")
        BY <1>1, <2>2
      <4>3. kind # "child" /\ kind \notin Catching /\ Bound(x) = <<>>
        BY <2>7, <2>8, <2>17
      <4> HIDE DEF n
      <4> QED BY <2>9, <3>1, <4>1, <4>2, <4>3
    <3>3. CASE kind # "local"
      <4>1. e = u
        BY <1>3, <2>17, <3>3 DEF Enter, Into, First, u
      <4> HIDE DEF e
      <4> QED BY <2>10, <3>2, <3>3, <4>1 DEF e, Fine
    <3>4. CASE kind = "local"
      <4>1. e = localbind(u, v)
        BY <1>3, <3>4 DEF Enter, Into, First, u
      <4>2. u.frames[Len(u.frames)].kind = "local" /\ u.frames[Len(u.frames)].stage = "push"
            /\ v = u.frames[Len(u.frames)].v
        BY <2>1, <3>2, <3>4
      <4>3. OverLocal(u.frames[Len(u.frames)])
        BY <4>2 DEF OverLocal
      <4>4. PICK c : Stands(u, c)
        BY <3>2
      <4>5. \A j \in 1..n : j <= n + 1 /\ j <= n + 2
        BY <1>1
      <4> HIDE DEF e, n
      <4>6. CASE v \in world.settors
        <5>1. (\E y : Settled(callsettor(u, v), y)) /\ Len(callsettor(u, v).frames) = Len(u.frames) + 1
          BY <4>2, <4>3, <4>4, <4>6, OverCalls
        <5>2. e = callsettor(u, v)
          BY <4>1, <4>6 DEF localbind
        <5>3. Len(e.frames) = n + 1 + 1
          BY <3>2, <5>1, <5>2
        <5>4. \A j \in 1..n : j <= n + 1 + 1
          BY <1>1 DEF n
        <5> HIDE DEF n
        <5>5. Matches(e) /\ Keeps(t, e)
          BY <5>1, <5>2, <5>3, <5>4 DEF Matches, Keeps, n
        <5> QED BY <5>5 DEF e
      <4>7. CASE v \notin world.settors
        <5>1. (\E y : Settled(Bind(u, v), y)) /\ Len(Bind(u, v).frames) = Len(u.frames)
          BY <4>2, <4>4, LocalBinds
        <5>2. e = Bind(u, v)
          BY <4>1, <4>7 DEF localbind
        <5>3. Matches(e) /\ Keeps(t, e)
          BY <3>2, <4>5, <5>1, <5>2 DEF Matches, Keeps, n
        <5> QED BY <5>3 DEF e
      <4> QED BY <4>6, <4>7
    <3> QED BY <3>3, <3>4
  <2>18. CASE kind = "child"
    <3> DEFINE w == newchildcatcher(u)
    <3>1. Holds(w)
      BY <1>1, <2>18, Forked DEF u
    <3>2. Has(w, g, <<Root>>, t.pushes, t.inputs, t.defers, o, t.blocked, TRUE, t.thr, t.dead)
      BY <2>2, ForkHas DEF Has
    <3>3. e = w
      BY <1>3, <2>18 DEF Enter, Into, First, u
    <3> HIDE DEF w, e
    <3>4. (\E c : Stands(w, c)) /\ Len(w.frames) = n + 1 /\ w.frames[n + 1] = x
      <4>1. ~Source(x) /\ ~Deferred(x) /\ ~Blocks(x)
        BY <2>1, <2>18 DEF Source, Deferred, Blocks
      <4>2. Gains(t, w, x, n + 1)
        BY <3>2, <4>1 DEF Gains, Has
      <4>3. Has(w, Append(f, x), <<Root>>, t.pushes, t.inputs, t.defers,
                IF kind \in Evaluated THEN t.evaldepth + 1 ELSE t.evaldepth,
                t.blocked, IF kind = "child" THEN TRUE ELSE t.hasforked, NoThrow, "no")
        BY <1>1, <2>18, <3>2 DEF g, o
      <4>4. Binds(t, x, t.pushes) /\ Guards(t, w, kind, <<Root>>, t.pushes)
        BY <2>8, <2>18 DEF Binds, Guards
      <4> QED BY <2>18, <3>1, <4>2, <4>3, <4>4, Enters DEF x
    <3> QED BY <2>10, <2>18, <3>3, <3>4 DEF e, Fine
  <2> QED BY <2>7, <2>12, <2>13, <2>14, <2>15, <2>16, <2>17, <2>18
<1> QED BY <1>2, <1>3

\* A settor's frame is below a live one that stops what the program throws.
LEMMA ContainedStops ==
    ASSUME Holds(s), NEW e, Contained(e)
    PROVE  \A i \in 1..Len(s.frames) : s.frames[i].kind = "settor" =>
              \E k \in Live(s.frames, Len(s.frames)) : i < k /\ Stops(s.frames[k], e)
<1> DEFINE f == s.frames
           n == Len(f)
           T == {y \in Nat : n - y \in 1..n /\ f[n - y].kind = "settor"}
<1>1. Good(f) /\ n \in Nat \ {0} /\ DOMAIN f = 1..n
  BY DEF Holds, Alive, Typed, Good
<1> SUFFICES ASSUME NEW i \in 1..n, f[i].kind = "settor"
             PROVE  \E k \in Live(f, n) : i < k /\ Stops(f[k], e)
  OBVIOUS
<1> HIDE DEF f
<1>2. PICK j \in 1..n : f[j].kind = "settor" /\ \A l \in 1..n : f[l].kind = "settor" => l <= j
  <2>1. n - i \in Nat /\ n - (n - i) = i
    BY <1>1
  <2>2. n - i \in T
    BY <2>1
  <2>3. PICK y \in T : \A z \in T : y <= z
    <3>1. T \subseteq Nat /\ T # {}
      BY <2>2
    <3> HIDE DEF T
    <3> QED BY <3>1, Least
  <2>4. y \in Nat /\ n - y \in 1..n /\ f[n - y].kind = "settor"
    OBVIOUS
  <2>5. ASSUME NEW l \in 1..n, f[l].kind = "settor" PROVE l <= n - y
    <3>1. n - l \in Nat /\ n - (n - l) = l
      BY <1>1
    <3>2. n - l \in T
      BY <2>5, <3>1
    <3>3. y <= n - l
      BY <2>3, <3>2
    <3> HIDE DEF n
    <3> QED BY <1>1, <2>4, <3>3
  <2> QED BY <2>4, <2>5
<1>3. PICK k \in j + 1..n : Stops(f[k], e) /\ \A m \in k..n : f[m].kind # "child"
  BY <1>1, <1>2 DEF Contained, f
<1>4. k \in 1..n /\ j < k /\ i < k
  <2>1. i <= j
    BY <1>2
  <2> HIDE DEF n
  <2> QED BY <1>1, <1>2, <1>3, <2>1
<1>5. f[k].kind \in Catching /\ ~Parents(f, n, k)
  BY <1>3 DEF Stops, Catching, Parents
<1>6. ASSUME NEW l \in 1..n, f[l].thr # NoThrow PROVE ~Takes(f, n, l, k)
  <2>1. f[l].kind = "settor"
    BY <1>1, <1>6 DEF Good
  <2>2. l <= j
    BY <1>2, <2>1
  <2>3. f[l].thr.h.at \in 1..l - 1
    BY <1>1, <1>6, GoodBefore
  <2> HIDE DEF n, f
  <2>4. l < k /\ f[l].thr.h.at < k /\ ~(k < l) /\ f[l].thr.h.at # k
    BY <1>1, <1>4, <2>2, <2>3
  <2> QED BY <2>4 DEF Takes
<1>7. k \in Live(f, n)
  BY <1>4, <1>5, <1>6 DEF Live
<1> QED BY <1>3, <1>4, <1>7

-----------------------------------------------------------------------------
(***************************************************************************)
(* The invariant                                                           *)
(***************************************************************************)
\* Worlds whose settors do not throw and have room for their evaluation.
OrderlyWorlds ==
    /\ MaxFrames \in Nat \ {0}
    /\ \A w \in Worlds :
         /\ ~w.throwing /\ w.maxevaldepth \in Int
         /\ w.settors = {} \/ (w.signals = 0 /\ w.maxevaldepth > MaxFrames + 2)

Calm == CalmWorld /\ (pending > 0 => world.signals # 0)
StacksInv == Calm /\ Matches(s)

\* Every step but those that do not change s.
LEMMA StacksSteps ==
    ASSUME Calm, Matches(s), s.dead = "no", Next, ~execve, ~catcher
    PROVE  Matches(s') /\ Keeps(s, s')
<1> DEFINE Fine(u) == Matches(u) /\ Keeps(s, u)
<1>1. PICK b : Settled(s, b) \/ Flying(s, b)
  BY DEF Matches
<1>2. Running => Settled(s, b) /\ Holds(s)
  BY <1>1 DEF Running, Flying, Thrown, Settled, Stands
<1>3. s.thr # NoThrow => Flying(s, b)
  BY <1>1 DEF Settled, Stands, Holds
<1>4. CalmWorld
  BY DEF Calm
<1>5. Running => /\ s.evaldepth \in Int /\ Good(s.frames)
                   /\ Has(s, s.frames, s.handlers, s.pushes, s.inputs, s.defers, s.evaldepth, s.blocked,
                          s.hasforked, s.thr, s.dead)
  BY <1>2 DEF Holds, Alive, Typed, Has
<1> HIDE DEF Fine
<1>6. ASSUME NEW e \in Text, e # "none", Running,
             \A i \in 1..Len(s.frames) : s.frames[i].kind = "settor" =>
               \E k \in Live(s.frames, Len(s.frames)) : i < k /\ Stops(s.frames[k], e)
      PROVE  Fine(Throw(s, e))
  BY <1>2, <1>5, <1>6, Flies DEF Fine
<1>7. ASSUME NEW kind \in Kinds, NEW v \in Text, begin(kind, v) PROVE Fine(s')
  <2>1. Fine(Enter(s, kind, v))
    BY <1>2, <1>4, <1>7, EnterSettles DEF begin, Fine
  <2> QED BY <1>7, <2>1 DEF begin
<1>8. ASSUME NEW kind \in (Catching \cup Evaluated) \ {"main", "catcher", "settor"},
             begin(kind, "")
      PROVE  Fine(s')
  <2>1. kind \in Kinds /\ "" \in Text
    BY Texts DEF Kinds
  <2> QED BY <1>7, <1>8, <2>1
<1>9. ASSUME NEW v \in Vars, begin("local", v) PROVE Fine(s')
  <2>1. "local" \in Kinds /\ v \in Text
    BY DEF Kinds, Text
  <2> QED BY <1>7, <1>9, <2>1
<1>10. CASE end
  <2> DEFINE x == s.frames[Len(s.frames)]
  <2>1. Last(s.frames) = x /\ x.kind # "loop" /\ s' = Leave(s) /\ Running /\ Settled(s, b)
    BY <1>2, <1>10 DEF end, Top, Last
  <2>2. CASE x.kind # "settor"
    BY <1>4, <2>1, <2>2, Leaves DEF Fine
  <2>3. CASE x.kind = "settor" /\ x.thr = NoThrow
    BY <1>4, <2>1, <2>3, SettorGoesOn DEF Fine, Settled
  <2>4. CASE x.kind = "settor" /\ x.thr # NoThrow
    <3>1. Len(s.frames) # 1
      BY <1>5, <2>1, <2>4 DEF Good
    <3>2. Flying(Leave(s), b) /\ Keeps(s, Leave(s))
      BY <1>4, <2>1, <2>4, <3>1, SettorResumes DEF Settled
    <3> QED BY <2>1, <3>2 DEF Fine, Matches
  <2> QED BY <2>2, <2>3, <2>4
<1>11. CASE unwind
  BY <1>3, <1>4, <1>11, Unwinds DEF unwind, Fine
<1>12. CASE sigchk
  <2>1. world.settors = {}
    BY <1>4, <1>12 DEF sigchk, Calm, CalmWorld
  <2>2. \A i \in 1..Len(s.frames) : s.frames[i].kind # "settor"
    BY <1>2, <1>12, <2>1 DEF sigchk, Settled, Stands, Base, Matching, Quiet, QuietAt
  <2>3. "signal" \in Text /\ "signal" # "none"
    BY Texts
  <2>4. Fine(Throw(s, "signal"))
    BY <1>6, <1>12, <2>2, <2>3 DEF sigchk
  <2>5. Fine(Dead(s, "exit"))
    <3>1. Dead(s, "exit").dead = "exit"
      BY <1>5, <1>12 DEF sigchk, Dead, Has, Fields
    <3> QED BY <3>1 DEF Fine, Matches, Keeps
  <2> QED BY <1>12, <2>4, <2>5 DEF sigchk, Fine
<1>13. ASSUME NEW e \in Exceptions, throw(e) PROVE Fine(s')
  <2>1. e \in Text /\ e # "none"
    BY DEF Text, Exceptions
  <2>2. Contained(e) /\ Running
    BY <1>4, <1>13 DEF throw, CalmWorld
  <2>3. Fine(Throw(s, e))
    BY <1>2, <1>6, <2>1, <2>2, ContainedStops
  <2> QED BY <1>13, <2>3 DEF throw
<1>14. Fine(s')
  BY <1>8, <1>9, <1>10, <1>11, <1>12, <1>13 DEF Next, Fine
<1> QED BY <1>14 DEF Fine

LEMMA StacksInit == ASSUME OrderlyWorlds PROVE Init => StacksInv
<1> SUFFICES ASSUME Init PROVE StacksInv
  OBVIOUS
<1> DEFINE x == Frame("main", "", FALSE, "body")
           f == s.frames
           b == [k \in 0..1 |-> <<>>]
<1>2. /\ f = <<x>> /\ s.handlers = <<Root>>
      /\ s.pushes = <<>> /\ s.inputs = <<>> /\ s.defers = <<>> /\ s.evaldepth = 0 /\ s.blocked = 0
      /\ s.thr = NoThrow /\ s.dead = "no"
  BY DEF Init
<1>3. x.kind = "main" /\ x.thr = NoThrow /\ Bound(x) = <<>>
  <2>1. x.kind = "main" /\ x.thr = NoThrow
    BY DEF Frame
  <2> HIDE DEF x
  <2> QED BY <2>1 DEF Bound
<1> HIDE DEF x, f
<1>4. Len(f) = 1 /\ f[1] = x /\ f[Len(f)] = x /\ \A k \in 1..Len(f) : k = 1
  BY <1>2
<1>5. Holds(s)
  BY <1>2, ControlInit DEF ControlInv, Ok, Thrown, Gone
<1>6. Calm
  <2>1. world \in Worlds /\ pending = 0
    BY DEF Init
  <2> QED BY <2>1 DEF OrderlyWorlds, Calm, CalmWorld
<1>7. Chain(f, b)
  <2>1. <<>> \in Seq(Text) /\ b[0] = <<>> /\ b[1] = <<>> /\ \A k \in 0..1 : b[k] = <<>>
    OBVIOUS
  <2>2. Ground(f, b, 1) = b[0]
    BY <1>3, <1>4 DEF Ground
  <2>3. <<>> \o <<>> = <<>>
    OBVIOUS
  <2> HIDE DEF b
  <2> QED BY <1>3, <1>4, <2>1, <2>2, <2>3 DEF Chain
<1>8. Quiet(f, b) /\ Fits(f)
  <2>1. MaxFrames \in Nat \ {0}
    BY DEF OrderlyWorlds
  <2>2. Fits(f)
    BY <1>4, <2>1 DEF Fits
  <2> HIDE DEF b
  <2> QED BY <1>3, <1>4, <2>2 DEF Quiet, QuietAt
<1>9. \A i \in DOMAIN s.handlers : Saved(f, b, s.handlers[i])
  <2>1. f \in Seq(FrameType) /\ Good(f)
    BY <1>5 DEF Holds, Alive, Typed, f
  <2> HIDE DEF b
  <2>2. Saved(f, b, Root)
    BY <1>7, <2>1, RootSaved
  <2>3. \A i \in DOMAIN <<Root>> : <<Root>>[i] = Root
    OBVIOUS
  <2> QED BY <1>2, <2>2, <2>3
<1>10. Matching(s, b)
  BY <1>3, <1>4, <1>7, <1>8, <1>9 DEF Matching, f
<1>11. Stocked(s, Still(f, Len(f)))
  <2> DEFINE Q == Still(f, Len(f))
  <2>1. \A k \in Q : k = 1
    BY <1>4 DEF Still
  <2>2. {k \in Q : Source(f[k])} = {} /\ {k \in Q : Deferred(f[k])} = {} /\ {k \in Q : Blocks(f[k])} = {}
    BY <1>3, <1>4, <2>1 DEF Source, Deferred, Blocks
  <2>3. InOrder(<<>>, {})
    BY DEF InOrder, Range
  <2>4. Cardinality({}) = 0
    BY FS_EmptySet
  <2> QED BY <1>2, <2>2, <2>3, <2>4 DEF Stocked, f
<1>12. s.evaldepth = Cardinality(Evals(f, Len(f)))
  <2>1. Evals(f, Len(f)) = {}
    BY <1>3, <1>4 DEF Evals, Evaluated
  <2> QED BY <1>2, <2>1, FS_EmptySet
<1>13. s.pushes = b[Len(f)]
  BY <1>2, <1>4
<1> HIDE DEF b
<1>14. ~OverLocal(f[Len(f)])
  BY <1>3, <1>4 DEF OverLocal
<1>15. Settled(s, b)
  BY <1>5, <1>10, <1>11, <1>12, <1>13, <1>14 DEF Settled, Stands, Base, f
<1> QED BY <1>6, <1>15 DEF StacksInv, Matches

\* Only the world is read beside the state.
LEMMA MatchesNext ==
    ASSUME world' = world, Matches(s')
    PROVE  Matches(s)'
<1>1. \A f, b, j : QuietAt(f, b, j)' <=> QuietAt(f, b, j)
  BY DEF QuietAt
<1> QED BY DEF Matches, Settled, Stands, Base, Matching, Quiet, QuietAt, Flying

LEMMA StacksStep ==
    ASSUME StacksInv, [Next]_vars
    PROVE  /\ StacksInv'
           /\ s' = s \/ s'.dead # "no" \/ (Matches(s') /\ Keeps(s, s'))
<1>1. Next \/ (s' = s /\ world' = world /\ pending' = pending)
  BY DEF Next, vars
<1>2. Calm /\ Matches(s)
  BY DEF StacksInv
<1>3. world' = world
  BY <1>1 DEF Next, begin, end, unwind, execve, catcher, sigchk, throw
<1>4. Calm'
  <2>1. CalmWorld'
    BY <1>2, <1>3 DEF Calm, CalmWorld
  <2>2. (pending > 0 => world.signals # 0)'
    <3>1. pending' = pending \/ world.signals > 0 \/ pending' = 0
      BY <1>1 DEF Next, begin, end, unwind, execve, catcher, sigchk, throw
    <3> QED BY <1>2, <1>3, <3>1 DEF Calm
  <2> QED BY <2>1, <2>2 DEF Calm
<1>5. CASE s' = s
  <2>1. Matches(s')
    BY <1>2, <1>5
  <2> QED BY <1>3, <1>4, <1>5, <2>1, MatchesNext DEF StacksInv
<1>6. CASE Next /\ s' # s /\ ~execve
  <2>1. s.dead = "no" /\ ~catcher
    BY <1>6 DEF Next, begin, end, unwind, execve, catcher, sigchk, throw, Running
  <2>2. Matches(s') /\ Keeps(s, s')
    BY <1>2, <1>6, <2>1, StacksSteps
  <2> QED BY <1>3, <1>4, <2>2, MatchesNext DEF StacksInv
<1>7. CASE execve
  <2>1. s.dead = "no" /\ s' = Dead(s, "exec")
    BY <1>7 DEF execve, Running
  <2>2. DOMAIN s = Fields
    BY <1>2, <2>1 DEF Matches, Settled, Stands, Flying, Holds, Thrown, Alive, Typed
  <2>3. s'.dead = "exec"
    BY <2>1, <2>2 DEF Dead, Fields
  <2>4. Matches(s')
    BY <2>3 DEF Matches
  <2> QED BY <1>3, <1>4, <2>3, <2>4, MatchesNext DEF StacksInv
<1> QED BY <1>1, <1>5, <1>6, <1>7

LEMMA StacksAlways == ASSUME OrderlyWorlds PROVE Spec => []StacksInv
<1>1. Init => StacksInv
  BY StacksInit
<1>2. StacksInv /\ [Next]_vars => StacksInv'
  BY StacksStep
<1> QED BY <1>1, <1>2, PTL DEF Spec

\* What the model binds in the first n frames are the bindings that b names.
Bindings(f, n) ==
    LET bound[k \in 0..n] ==
          IF k = 0 THEN <<>>
          ELSE (IF f[k].thr # NoThrow THEN SubSeq(bound[k - 1], 1, f[k].n) ELSE bound[k - 1])
               \o Bound(f[k])
    IN  bound[n]

LEMMA BoundIs ==
    ASSUME NEW f, NEW n \in Nat, NEW b, b[0] = <<>>,
           \A k \in 1..n : b[k] = Ground(f, b, k) \o Bound(f[k])
    PROVE  Bindings(f, n) = b[n]
<1> DEFINE B(p, k) == (IF f[k].thr # NoThrow THEN SubSeq(p, 1, f[k].n) ELSE p) \o Bound(f[k])
           E(u) == u = [k \in 0..n |-> IF k = 0 THEN <<>> ELSE B(u[k - 1], k)]
           c == [k \in 0..n |-> b[k]]
           g == CHOOSE u : E(u)
<1>0. b[0] = <<>> /\ \A k \in 1..n : b[k] = B(b[k - 1], k)
  BY DEF Ground
<1> HIDE DEF B
<1>1. E(c)
  <2>1. ASSUME NEW k \in 0..n PROVE c[k] = IF k = 0 THEN <<>> ELSE B(c[k - 1], k)
    <3>1. k # 0 => k \in 1..n /\ k - 1 \in 0..n
      OBVIOUS
    <3>2. k # 0 => c[k - 1] = b[k - 1]
      BY <3>1
    <3> QED BY <1>0, <3>1, <3>2
  <2> QED BY <2>1
<1>2. E(g)
  BY <1>1, Zenon
<1>3. g[0] = <<>> /\ \A k \in 1..n : g[k] = B(g[k - 1], k)
  <2> HIDE DEF g
  <2> QED BY <1>2
<1> HIDE DEF g
<1> DEFINE T == {k \in Nat : k <= n => g[k] = b[k]}
<1>4. 0 \in T
  BY <1>0, <1>3
<1>5. ASSUME NEW k \in Nat, k \in T PROVE k + 1 \in T
  <2> SUFFICES ASSUME k + 1 <= n PROVE g[k + 1] = b[k + 1]
    OBVIOUS
  <2>1. g[k] = b[k] /\ k + 1 \in 1..n /\ k + 1 - 1 = k
    BY <1>5
  <2> QED BY <1>0, <1>3, <2>1
<1>6. Nat \subseteq T
  <2> HIDE DEF T
  <2> QED BY <1>4, <1>5, Induction
<1>7. g[n] = b[n]
  BY <1>6
<1> QED BY <1>7, Zenon DEF Bindings, g, B

\* In every world whose settors do not throw and have room for what they
\* evaluate, the dynamic bindings, the input sources, the deferred redirections,
\* the count of blocked signals and evaldepth are, whenever the program runs,
\* those of the constructs under way, whatever was thrown, caught and retried
\* (var.c:203-266, except.c:28-31; input.cpp:784-814; prim-ctl.c:67-85;
\* eval.c:360-466).
THEOREM StacksStayMatched == ASSUME OrderlyWorlds PROVE Spec => []StacksMatch
<1>1. StacksInv => StacksMatch
  <2> SUFFICES ASSUME StacksInv, Running PROVE StacksMatch
    BY DEF StacksMatch, BindingsMatch, SourcesMatch, CountersMatch
  <2> DEFINE f == s.frames
             n == Len(f)
  <2>1. PICK b : Settled(s, b)
    BY DEF StacksInv, Matches, Running, Flying, Thrown
  <2>2. /\ DOMAIN f = 1..n /\ n \in Nat \ {0} /\ Chain(f, b) /\ s.pushes = b[n]
        /\ Stocked(s, Still(f, n)) /\ s.evaldepth = Cardinality(Evals(f, n))
    BY <2>1 DEF Settled, Stands, Base, Holds, Alive, Typed, Good, Matching
  <2>3. BindingsMatch
    <3>1. b[0] = <<>> /\ \A k \in 1..n : b[k] = Ground(f, b, k) \o Bound(f[k])
      BY <2>2 DEF Chain
    <3>2. Bindings(f, n) = b[n]
      <4> HIDE DEF n, f
      <4> QED BY <2>2, <3>1, BoundIs, ZenonT(60)
    <3> QED BY <2>2, <3>2, Zenon DEF BindingsMatch, Bindings
  <2>4. \A k : InParent(k) <=> Parents(f, n, k)
    BY DEF InParent, Kind, Parents
  <2>5. ASSUME NEW k \in 1..n
        PROVE  Passed(k) <=> \E j \in 1..n : f[j].thr # NoThrow /\ Passes(f, n, j, k)
    <3>1. \A j : j \in Suspended <=> j \in 1..n /\ f[j].thr # NoThrow
      BY <2>2 DEF Suspended
    <3> HIDE DEF n
    <3> QED BY <2>4, <3>1 DEF Passed, Passes
  <2>6. ASSUME NEW k \in 1..n
        PROVE  k \in Still(f, n) <=> f[k].kind \in Catching /\ ~Passed(k)
    BY <2>5 DEF Still
  <2>7. \A k \in Still(f, n) : k \in 1..n
    BY DEF Still
  <2>8. SourcesMatch
    <3> DEFINE Read(k) == Kind(k) = "run" /\ ~Passed(k)
               Wait(k) == Kind(k) = "redir" /\ ~s.frames[k].inchild /\ ~Passed(k)
    <3>1. {k \in DOMAIN f : Read(k)} = {k \in Still(f, n) : Source(f[k])}
      <4>1. ASSUME NEW k \in 1..n PROVE Read(k) <=> k \in Still(f, n) /\ Source(f[k])
        BY <2>6 DEF Kind, Source, Catching
      <4> HIDE DEF Read, n
      <4> QED BY <2>2, <2>7, <4>1
    <3>2. {k \in DOMAIN f : Wait(k)} = {k \in Still(f, n) : Deferred(f[k])}
      <4>1. ASSUME NEW k \in 1..n PROVE Wait(k) <=> k \in Still(f, n) /\ Deferred(f[k])
        BY <2>6 DEF Kind, Deferred, Catching
      <4> HIDE DEF Wait, n
      <4> QED BY <2>2, <2>7, <4>1
    <3>3. Frames(Read) = {k \in DOMAIN f : Read(k)} /\ Frames(Wait) = {k \in DOMAIN f : Wait(k)}
      BY DEF Frames
    <3>4. InOrder(s.inputs, Frames(Read)) /\ InOrder(s.defers, Frames(Wait))
      <4> HIDE DEF Read, Wait, n
      <4> QED BY <2>2, <3>1, <3>2, <3>3 DEF Stocked, f
    <3> QED BY <3>4 DEF SourcesMatch
  <2>9. CountersMatch
    <3> DEFINE Stop(k) == Kind(k) = "catcher" /\ ~Passed(k)
               Open(k) == Kind(k) \in Evaluated
    <3>1. {k \in DOMAIN f : Stop(k)} = {k \in Still(f, n) : Blocks(f[k])}
      <4>1. ASSUME NEW k \in 1..n PROVE Stop(k) <=> k \in Still(f, n) /\ Blocks(f[k])
        BY <2>6 DEF Kind, Blocks, Catching
      <4> HIDE DEF Stop, n
      <4> QED BY <2>2, <2>7, <4>1
    <3>2. {k \in DOMAIN f : Open(k)} = Evals(f, n)
      BY <2>2 DEF Evals, Kind
    <3>3. Frames(Stop) = {k \in DOMAIN f : Stop(k)} /\ Frames(Open) = {k \in DOMAIN f : Open(k)}
      BY DEF Frames
    <3>4. s.blocked = Cardinality(Frames(Stop)) /\ s.evaldepth = Cardinality(Frames(Open))
      <4> HIDE DEF Stop, Open, n
      <4> QED BY <2>2, <3>1, <3>2, <3>3 DEF Stocked, f
    <3> QED BY <3>4, CardinalityIs DEF CountersMatch
  <2> QED BY <2>3, <2>8, <2>9, Zenon DEF StacksMatch
<1> QED BY <1>1, StacksAlways, PTL

\* In the same worlds a throw that a settor suspends goes on, with its exception
\* and its handler, whenever the settor's frame is gone, whatever was thrown and
\* caught in the settor (except.c:28-31).
THEOREM ThrowsGoOn == ASSUME OrderlyWorlds PROVE Spec => ExceptionKept
<1> DEFINE Goes ==
      \A j \in DOMAIN s.frames :
        s.frames[j].thr # NoThrow /\ s'.dead = "no" /\ j > Len(s'.frames) =>
          s'.thr = s.frames[j].thr
<1>1. StacksInv /\ [Next]_vars => [Goes]_s
  <2> SUFFICES ASSUME StacksInv, [Next]_vars, s' # s,
                      NEW j \in DOMAIN s.frames, s.frames[j].thr # NoThrow, s'.dead = "no",
                      j > Len(s'.frames)
               PROVE  s'.thr = s.frames[j].thr
    OBVIOUS
  <2>1. Matches(s') /\ Keeps(s, s')
    BY StacksStep
  <2>2. Len(s'.frames) \in Nat
    BY <2>1 DEF Matches, Settled, Stands, Flying, Holds, Thrown, Alive, Good
  <2>3. s.dead = "no" => j \in 1..Len(s.frames)
    BY DEF StacksInv, Matches, Settled, Stands, Flying, Holds, Thrown, Alive, Typed
  <2>4. s.dead = "no"
    BY DEF Next, vars, begin, end, unwind, execve, catcher, sigchk, throw,
           Running
  <2> QED BY <2>1, <2>2, <2>3, <2>4 DEF Keeps
<1>2. Spec => [][Goes]_s
  BY <1>1, StacksAlways, PTL DEF Spec
<1> QED BY <1>2 DEF ExceptionKept
=============================================================================
