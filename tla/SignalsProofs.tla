---------------------------- MODULE SignalsProofs ----------------------------
(***************************************************************************)
(* Proofs about Signals: no longjmp into a dead frame, no sleep over a     *)
(* signal, no count of a signal that is not there but by the one race that *)
(* is named, for any signals and any nesting of handlers.                  *)
(***************************************************************************)
EXTENDS Signals, SequenceTheorems, FiniteSetTheorems, WellFoundedInduction, TLAPS

\* The handlers that have marked their signal and not yet counted it.
Counting(h)  == h.at \in {"load", "store"}
Unfinished == {handlers[i].sig : i \in {j \in 1..Len(handlers) : Counting(handlers[j])}}

\* The caught signals sigcount need not count: theirs, and the one sigchk has
\* taken off sigcount and not yet off caught.
Uncounted == Unfinished \cup (IF pc = "forget" THEN {found} ELSE {})

\* A signal has one handler at a time, and the kernel holds it back. A call of
\* catcher by ewait is the outermost one, and the program is in no slow call.
Nested ==
    /\ \A i \in 1..Len(handlers) : ~handlers[i].direct => handlers[i].sig \in masked
    /\ \A i, j \in 1..Len(handlers) :
          i # j /\ ~handlers[i].direct /\ ~handlers[j].direct
             => handlers[i].sig # handlers[j].sig
    /\ \A i \in 1..Len(handlers) : handlers[i].direct => i = Len(handlers) /\ pc = "run"

\* No signal is counted by two at once: a handler is about to mark its signal
\* only while nobody else has.
Marking ==
    /\ \A i \in 1..Len(handlers) :
          handlers[i].at = "mark" /\ ~handlers[i].direct => handlers[i].sig \notin caught
    /\ \A i, j \in 1..Len(handlers) :
          i # j /\ Counting(handlers[i]) /\ Counting(handlers[j])
             => handlers[i].sig # handlers[j].sig

\* What a handler, or sigchk, has loaded is not more than what sigcount is now:
\* whoever interrupts it has only added.
Loaded ==
    /\ \A i \in 1..Len(handlers) :
          Counting(handlers[i]) => handlers[i].sig \in caught
    /\ \A i \in 1..Len(handlers) :
          handlers[i].at = "store" => handlers[i].count <= sigcount
    /\ \A i, j \in 1..Len(handlers) :
          i < j /\ handlers[i].at = "store" /\ handlers[j].at = "store"
             => handlers[j].count <= handlers[i].count
    /\ pc = "store" => /\ 1 <= count /\ count <= sigcount
                       /\ \A i \in 1..Len(handlers) :
                             handlers[i].at = "store" => count <= handlers[i].count
    /\ pc \in {"scan", "load"} => 1 <= sigcount
    /\ pc \in {"load", "store", "forget"} => found \in caught \ Unfinished

Counted == sigcount <= Cardinality(caught \ Uncounted) + double

\* Between the setjmp and the system call, slow is set and interrupted is not.
Awake == pc = "test" \/ pc = "syscall" => slow
Asleep == pc = "syscall" => ~interrupted

SlowInv == SlowFrameLive /\ Awake /\ Asleep
IInv    == TypeOK /\ Nested /\ Loaded /\ Marking /\ Counted /\ SlowInv
-----------------------------------------------------------------------------
(***************************************************************************)
(* Sets and sequences                                                      *)
(***************************************************************************)

\* A nonempty set of numbers has a least one.
LEMMA LeastElement ==
    ASSUME NEW S \in SUBSET Nat, S # {}
    PROVE  \E s \in S : \A t \in S : s <= t
<1> DEFINE R == {ss \in Nat \X Nat : ss[1] < ss[2]}
<1>1. IsWellFoundedOn(R, Nat) BY NatLessThanWellFounded DEF OpToRel
<1>2. \A t \in S : \A s \in S : t < s => <<t, s>> \in R
  OBVIOUS
<1> HIDE DEF R
<1>3. PICK s \in S : \A t \in S : ~(<<t, s>> \in R)
  BY <1>1, WFMin
<1>4. \A t \in S : ~(t < s) BY <1>2, <1>3
<1> QED BY <1>4

\* A sequence with one more element in front.
LEMMA PushFront ==
    ASSUME NEW S, NEW s \in Seq(S), NEW f \in S
    PROVE  /\ <<f>> \o s \in Seq(S) /\ Len(s) \in Nat
           /\ Len(<<f>> \o s) = Len(s) + 1
           /\ (<<f>> \o s)[1] = f
           /\ \A i \in 2..(Len(s) + 1) : (<<f>> \o s)[i] = s[i - 1]
<1>1. <<f>> \in Seq(S) /\ Len(<<f>>) = 1 /\ <<f>>[1] = f
  OBVIOUS
<1>2. Len(s) \in Nat BY LenProperties
<1> QED BY <1>1, <1>2, ConcatProperties

\* A sequence without its first element.
LEMMA DropFront ==
    ASSUME NEW S, NEW s \in Seq(S), s # <<>>
    PROVE  /\ Head(s) \in S /\ Head(s) = s[1] /\ Tail(s) \in Seq(S)
           /\ Len(s) \in Nat \ {0} /\ Len(Tail(s)) = Len(s) - 1
           /\ \A i \in 1..(Len(s) - 1) : Tail(s)[i] = s[i + 1]
<1>1. Len(s) \in Nat \ {0} BY LenProperties, EmptySeq
<1> QED BY <1>1, HeadTailProperties

\* A sequence with another first element.
LEMMA ReplaceFront ==
    ASSUME NEW S, NEW s \in Seq(S), s # <<>>, NEW f \in S
    PROVE  /\ <<f>> \o Tail(s) \in Seq(S)
           /\ Len(s) \in Nat \ {0} /\ Len(<<f>> \o Tail(s)) = Len(s)
           /\ (<<f>> \o Tail(s))[1] = f
           /\ \A i \in 2..Len(s) : (<<f>> \o Tail(s))[i] = s[i]
BY DropFront, PushFront

\* catcher goes on: its frame changes, the ones it has interrupted stay.
LEMMA GoOnFrames ==
    ASSUME TypeOK, handlers # <<>>, NEW a \in Ats, NEW n \in Nat, GoOn(a, n)
    PROVE  /\ handlers' \in Seq(Frame)
           /\ Len(handlers) \in Nat \ {0} /\ Len(handlers') = Len(handlers)
           /\ Handler = handlers[1] /\ Handler \in Frame
           /\ handlers'[1].sig = Handler.sig /\ handlers'[1].at = a
           /\ handlers'[1].count = n
           /\ \A i \in 2..Len(handlers) : handlers'[i] = handlers[i]
           /\ \A i \in 1..Len(handlers) : /\ handlers'[i].sig = handlers[i].sig
                                          /\ handlers'[i].direct = handlers[i].direct
<1> DEFINE f == [Handler EXCEPT !.at = a, !.count = n]
<1>1. handlers \in Seq(Frame) BY DEF TypeOK
<1>2. Handler \in Frame /\ Handler = handlers[1] BY <1>1, DropFront DEF Handler
<1>3. /\ f \in Frame /\ f.sig = Handler.sig /\ f.at = a /\ f.count = n
      /\ f.direct = Handler.direct
  BY <1>2 DEF Frame
<1>4. handlers' = <<f>> \o Tail(handlers) BY DEF GoOn
<1> HIDE DEF f
<1>5. /\ handlers' \in Seq(Frame)
      /\ Len(handlers) \in Nat \ {0} /\ Len(handlers') = Len(handlers)
      /\ handlers'[1] = f
      /\ \A i \in 2..Len(handlers) : handlers'[i] = handlers[i]
  BY <1>1, <1>3, <1>4, ReplaceFront
<1>6. \A i \in 1..Len(handlers) : i = 1 \/ i \in 2..Len(handlers)
  BY <1>5
<1> QED BY <1>2, <1>3, <1>5, <1>6

\* A frame is a frame.
LEMMA FrameTypes ==
    ASSUME TypeOK
    PROVE  /\ Len(handlers) \in Nat
           /\ \A i \in 1..Len(handlers) : handlers[i] \in Frame
           /\ handlers = <<>> <=> Len(handlers) = 0
<1>1. handlers \in Seq(Frame) BY DEF TypeOK
<1> QED BY <1>1, LenProperties, ElementOfSeq, EmptySeq

\* The sizes of sets of signals.
LEMMA SignalSets ==
    ASSUME NEW S \in SUBSET Sigs
    PROVE  /\ IsFiniteSet(S) /\ Cardinality(S) \in Nat
           /\ \A T \in SUBSET S : Cardinality(T) <= Cardinality(S) /\ Cardinality(T) \in Nat
           /\ \A x : Cardinality(S \cup {x}) =
                       IF x \in S THEN Cardinality(S) ELSE Cardinality(S) + 1
           /\ \A x : Cardinality(S \ {x}) =
                       IF x \in S THEN Cardinality(S) - 1 ELSE Cardinality(S)
<1>1. IsFiniteSet(S) BY SigsAssumption, FS_Subset
<1>2. \A T \in SUBSET S : IsFiniteSet(T) /\ Cardinality(T) <= Cardinality(S)
  BY <1>1, FS_Subset
<1>3. \A T \in SUBSET S : Cardinality(T) \in Nat BY <1>2, FS_CardinalityType
<1>4. Cardinality(S) \in Nat BY <1>3
<1> QED BY <1>1, <1>2, <1>3, <1>4, FS_AddElement, FS_RemoveElement
-----------------------------------------------------------------------------
(***************************************************************************)
(* The slow call                                                           *)
(***************************************************************************)
\* Every step keeps slow inside the slow call, and its sleep awake.
LEMMA SlowStep == SlowInv /\ [Next]_vars => SlowInv'
<1> SUFFICES ASSUME SlowInv, [Next]_vars PROVE SlowInv'
  OBVIOUS
<1> USE DEF SlowInv, SlowFrameLive, Awake, Asleep
<1>0. UNCHANGED <<pc, slow, interrupted>> => SlowInv'
  OBVIOUS
<1>1. ASSUME Catcher PROVE SlowInv'
  <2>1. ASSUME CatcherNote PROVE SlowInv'
    <3>1. /\ slow' = slow /\ interrupted' = TRUE
          /\ IF slow THEN pc' = "disarm" ELSE pc' = pc
      BY <2>1 DEF CatcherNote
    <3> QED BY <3>1
  <2>2. ASSUME CatcherTest \/ CatcherMark \/ CatcherLoad \/ CatcherStore \/ CatcherReturn
        PROVE  UNCHANGED <<pc, slow, interrupted>>
    BY <2>2 DEF CatcherTest, CatcherMark, CatcherLoad, CatcherStore, CatcherReturn, flags
  <2> QED BY <1>0, <1>1, <2>1, <2>2 DEF Catcher
<1>2. ASSUME Slow \/ SyscallReturns PROVE SlowInv'
  BY <1>2 DEF Slow, EnterSlow, Clear, Arm, Test, Disarm, SyscallReturns, Step, flags
<1>3. ASSUME Sigchk PROVE SlowInv'
  BY <1>3 DEF Sigchk, EnterSigchk, SigchkTest, SigchkScan, SigchkLoad, SigchkStore,
              SigchkForget, SigchkThrow, Step, flags
<1>4. ASSUME Setting PROVE SlowInv'
  BY <1>4 DEF Setting, Block, Unblock, SetSignal, Step
<1>5. ASSUME Kernel \/ \E s \in Sigs : Deliver(s) \/ Ewait(s) PROVE SlowInv'
  <2>1. UNCHANGED <<pc, flags>> BY <1>5 DEF Kernel, Send, Deliver, Ewait, Step
  <2> QED BY <1>0, <2>1 DEF flags
<1>6. CASE UNCHANGED vars BY <1>0, <1>6 DEF vars, flags
<1> QED BY <1>1, <1>2, <1>3, <1>4, <1>5, <1>6 DEF Next

\* catcher longjmps only into a frame that is still there (signal.c:96-97).
THEOREM LongjmpHasFrame == Spec => []SlowFrameLive
<1>1. Init => SlowInv BY DEF Init, SlowInv, SlowFrameLive, Awake, Asleep
<1>2. SlowInv => SlowFrameLive BY DEF SlowInv
<1> QED BY <1>1, <1>2, SlowStep, PTL DEF Spec

\* Whoever sleeps in the system call has missed no signal (util.c:106-115).
THEOREM NoLostWakeup == Spec => []WakeupNotLost
<1>1. Init => SlowInv BY DEF Init, SlowInv, SlowFrameLive, Awake, Asleep
<1>2. SlowInv => WakeupNotLost BY DEF SlowInv, Asleep, WakeupNotLost
<1> QED BY <1>1, <1>2, SlowStep, PTL DEF Spec
-----------------------------------------------------------------------------
(***************************************************************************)
(* Types                                                                   *)
(***************************************************************************)
\* Every step keeps the types.
LEMMA TypeStep == TypeOK /\ Loaded /\ [Next]_vars => TypeOK'
<1> SUFFICES ASSUME TypeOK, Loaded, [Next]_vars PROVE TypeOK'
  OBVIOUS
<1>1. ASSUME NEW s \in Sigs, Send(s) PROVE TypeOK'
  BY <1>1, BoundsAssumption DEF TypeOK, Send, flags
<1>2. ASSUME NEW s \in Sigs, Deliver(s) PROVE TypeOK'
  <2>1. Call(s, FALSE) \in Frame BY DEF Frame, Ats, Call
  <2>2. handlers' \in Seq(Frame) BY <1>2, <2>1, PushFront DEF Deliver, TypeOK
  <2> QED BY <1>2, <2>2 DEF TypeOK, Deliver, flags
<1>3. ASSUME Catcher PROVE TypeOK'
  <2>1. handlers # <<>> BY <1>3 DEF Catcher, CatcherTest, CatcherMark, CatcherLoad, CatcherStore,
                              CatcherNote, CatcherReturn, At
  <2>2. Handler \in Frame /\ Tail(handlers) \in Seq(Frame)
    BY <2>1, DropFront DEF TypeOK, Handler
  <2>3. Handler.sig \in Sigs /\ Handler.count \in Nat BY <2>2 DEF Frame
  <2>4. ASSUME CatcherMark PROVE TypeOK'
    <3>1. handlers' \in Seq(Frame)
      BY <2>1, <2>4, GoOnFrames DEF CatcherMark, Ats
    <3> QED BY <2>3, <2>4, <3>1 DEF CatcherMark, TypeOK, signal
  <2>5. ASSUME CatcherLoad PROVE TypeOK'
    <3>1. handlers' \in Seq(Frame)
      BY <2>1, <2>5, GoOnFrames DEF CatcherLoad, Ats, TypeOK
    <3> QED BY <2>5, <3>1 DEF CatcherLoad, TypeOK, signal, flags
  <2>6. ASSUME CatcherStore PROVE TypeOK'
    <3>1. handlers' \in Seq(Frame)
      BY <2>1, <2>6, GoOnFrames DEF CatcherStore, Ats
    <3> QED BY <2>3, <2>6, <3>1 DEF CatcherStore, TypeOK, signal
  <2>7. ASSUME CatcherNote PROVE TypeOK'
    <3>1. handlers' \in Seq(Frame) /\ pc' \in PCs
      BY <2>1, <2>7, GoOnFrames, EmptySeq DEF CatcherNote, Ats, TypeOK, PCs
    <3> QED BY <2>7, <3>1 DEF CatcherNote, TypeOK, signal
  <2>9. ASSUME CatcherTest PROVE TypeOK'
    <3>1. handlers' \in Seq(Frame)
      BY <2>1, <2>9, GoOnFrames DEF CatcherTest, Ats
    <3> QED BY <2>9, <3>1 DEF CatcherTest, TypeOK, signal, flags
  <2>8. ASSUME CatcherReturn PROVE TypeOK'
    BY <2>2, <2>8 DEF CatcherReturn, TypeOK, flags
  <2> QED BY <1>3, <2>4, <2>5, <2>6, <2>7, <2>8, <2>9 DEF Catcher
<1>4. ASSUME Slow \/ SyscallReturns PROVE TypeOK'
  BY <1>4 DEF Slow, EnterSlow, Clear, Arm, Test, Disarm, SyscallReturns, Step, flags,
              signal, TypeOK, PCs
<1>5. ASSUME Sigchk PROVE TypeOK'
  <2>1. ASSUME EnterSigchk \/ SigchkTest \/ SigchkThrow PROVE TypeOK'
    BY <2>1 DEF EnterSigchk, SigchkTest, SigchkThrow, Step, flags, signal, TypeOK, PCs
  <2>2. ASSUME SigchkScan PROVE TypeOK'
    <3>1. CASE caught = {}
      BY <2>2, <3>1 DEF SigchkScan, Step, signal, TypeOK, PCs
    <3>2. CASE caught # {}
      <4>1. caught \in SUBSET Nat BY SigsAssumption DEF TypeOK
      <4>2. \E s \in caught : \A t \in caught : s <= t BY <3>2, <4>1, LeastElement
      <4>3. found' \in caught BY <2>2, <3>2, <4>2 DEF SigchkScan
      <4> QED BY <2>2, <3>2, <4>3 DEF SigchkScan, Step, signal, TypeOK, PCs
    <3> QED BY <3>1, <3>2
  <2>3. ASSUME SigchkLoad PROVE TypeOK'
    BY <2>3 DEF SigchkLoad, Step, flags, signal, TypeOK, PCs
  <2>4. ASSUME SigchkStore PROVE TypeOK'
    BY <2>4 DEF SigchkStore, Step, signal, TypeOK, PCs, Loaded
  <2>5. ASSUME SigchkForget PROVE TypeOK'
    BY <2>5 DEF SigchkForget, Step, signal, TypeOK, PCs
  <2> QED BY <1>5, <2>1, <2>2, <2>3, <2>4, <2>5 DEF Sigchk
<1>6. ASSUME Setting PROVE TypeOK'
  <2>1. ASSUME Block \/ Unblock PROVE TypeOK'
    BY <2>1, BoundsAssumption DEF Block, Unblock, Step, signal, TypeOK, PCs
  <2>2. ASSUME NEW s \in Sigs, NEW e \in Effects, SetSignal(s, e) PROVE TypeOK'
    BY <2>2 DEF SetSignal, Step, TypeOK, PCs
  <2> QED BY <1>6, <2>1, <2>2 DEF Setting
<1>7. CASE UNCHANGED vars
  BY <1>7 DEF TypeOK, vars, flags, signal
<1>8. ASSUME NEW s \in Sigs, Ewait(s) PROVE TypeOK'
  <2>1. Call(s, TRUE) \in Frame BY DEF Frame, Ats, Call
  <2> DEFINE f == Call(s, TRUE)
  <2> HIDE DEF f
  <2>2. f \in Frame BY <2>1 DEF f
  <2>3. <<f>> \in Seq(Frame) BY <2>2
  <2>4. handlers' = <<f>> BY <1>8 DEF Ewait, f
  <2>5. pc' \in PCs BY <1>8 DEF Ewait, Step, PCs
  <2>6. sends' \in 0..MaxSends BY <1>8, BoundsAssumption DEF TypeOK, Ewait
  <2> QED BY <1>8, <2>3, <2>4, <2>5, <2>6 DEF TypeOK, Ewait, flags
<1> QED BY <1>1, <1>2, <1>3, <1>4, <1>5, <1>6, <1>7, <1>8 DEF Next, Kernel
-----------------------------------------------------------------------------
(***************************************************************************)
(* The count                                                               *)
(***************************************************************************)

\* Nothing the count depends on changes.
LEMMA SameCount ==
    ASSUME Loaded, Marking, Counted,
           UNCHANGED <<count, found, handlers, caught, sigcount, double>>,
           pc' \notin {"scan", "load", "store", "forget"} \/ pc' = pc,
           pc # "forget" \/ pc' = pc
    PROVE  Loaded' /\ Marking' /\ Counted'
<1>1. Unfinished' = Unfinished BY DEF Unfinished, Counting
<1>2. Uncounted' = Uncounted BY <1>1 DEF Uncounted
<1> QED BY <1>1, <1>2 DEF Loaded, Marking, Counting, Counted

Count == Nested /\ Loaded /\ Marking /\ Counted

\* The kernel starts a handler.
LEMMA DeliverCount ==
    ASSUME TypeOK, Count, NEW s \in Sigs, Deliver(s)
    PROVE  Count'
<1> USE DEF Count
<1> DEFINE f == Call(s, FALSE)
<1>1. /\ f \in Frame /\ f.sig = s /\ ~Counting(f) /\ f.at \notin {"store", "mark"}
      /\ ~f.direct
  BY DEF Frame, Ats, Counting, Call
<1>2. handlers' = <<f>> \o handlers BY DEF Deliver
<1> HIDE DEF f
<1>3. /\ Len(handlers) \in Nat /\ Len(handlers') = Len(handlers) + 1
      /\ handlers'[1] = f
      /\ \A i \in 2..(Len(handlers) + 1) : handlers'[i] = handlers[i - 1]
  BY <1>1, <1>2, PushFront DEF TypeOK
<1>4. \A i \in 1..Len(handlers') : i = 1 \/ (i \in 2..(Len(handlers) + 1) /\ i - 1 \in 1..Len(handlers))
  BY <1>3
<1>5. \A i \in 1..Len(handlers) : i + 1 \in 1..Len(handlers') /\ handlers'[i + 1] = handlers[i]
  BY <1>3
<1>6. s \notin masked /\ masked' = masked \cup {s} BY DEF Deliver
<1>7. \A i \in 2..(Len(handlers) + 1) : i - 1 \in 1..Len(handlers)
  BY <1>3
<1>8. \A i, j \in 2..(Len(handlers) + 1) : i # j => i - 1 # j - 1
  BY <1>3
<1>9. Nested'
  <2>1. \A i \in 1..Len(handlers') :
           ~handlers'[i].direct => handlers'[i].sig \in masked'
    BY <1>1, <1>3, <1>4, <1>6 DEF Nested
  <2>2. \A i \in 2..(Len(handlers) + 1) : ~handlers'[i].direct => handlers'[i].sig # s
    BY <1>3, <1>6, <1>7 DEF Nested
  <2>3. \A i, j \in 1..Len(handlers') :
           i # j /\ ~handlers'[i].direct /\ ~handlers'[j].direct
              => handlers'[i].sig # handlers'[j].sig
    <3> SUFFICES ASSUME NEW i \in 1..Len(handlers'), NEW j \in 1..Len(handlers'), i # j,
                        ~handlers'[i].direct, ~handlers'[j].direct
                 PROVE  handlers'[i].sig # handlers'[j].sig
      OBVIOUS
    <3>1. CASE i = 1
      <4>1. j \in 2..(Len(handlers) + 1) BY <1>4, <3>1
      <4> QED BY <1>1, <1>3, <2>2, <3>1, <4>1
    <3>2. CASE j = 1
      <4>1. i \in 2..(Len(handlers) + 1) BY <1>4, <3>2
      <4> QED BY <1>1, <1>3, <2>2, <3>2, <4>1
    <3>3. CASE i # 1 /\ j # 1
      <4>1. i \in 2..(Len(handlers) + 1) /\ j \in 2..(Len(handlers) + 1)
        BY <1>4, <3>3
      <4>2. /\ i - 1 \in 1..Len(handlers) /\ j - 1 \in 1..Len(handlers) /\ i - 1 # j - 1
            /\ handlers'[i] = handlers[i - 1] /\ handlers'[j] = handlers[j - 1]
        BY <1>3, <1>4, <1>8, <3>3, <4>1
      <4> QED BY <4>2 DEF Nested
    <3> QED BY <3>1, <3>2, <3>3
  <2>4. \A i \in 1..Len(handlers') :
           handlers'[i].direct => i = Len(handlers') /\ pc' = "run"
    <3> SUFFICES ASSUME NEW i \in 1..Len(handlers'), handlers'[i].direct
                 PROVE  i = Len(handlers') /\ pc' = "run"
      OBVIOUS
    <3>1. i \in 2..(Len(handlers) + 1) /\ i - 1 \in 1..Len(handlers)
          /\ handlers[i - 1].direct
      BY <1>1, <1>3, <1>4
    <3>2. i - 1 = Len(handlers) /\ pc = "run" BY <3>1 DEF Nested
    <3> QED BY <1>3, <3>1, <3>2 DEF Deliver
  <2> QED BY <2>1, <2>3, <2>4 DEF Nested
<1>10. Unfinished' = Unfinished
  <2>1. ASSUME NEW x \in Unfinished' PROVE x \in Unfinished
    <3>1. PICK i \in 1..Len(handlers') : Counting(handlers'[i]) /\ x = handlers'[i].sig
      BY <2>1 DEF Unfinished, Counting
    <3>2. i \in 2..(Len(handlers) + 1) /\ i - 1 \in 1..Len(handlers)
      BY <1>1, <1>3, <1>4, <3>1
    <3> QED BY <1>3, <3>1, <3>2 DEF Unfinished
  <2>2. ASSUME NEW x \in Unfinished PROVE x \in Unfinished'
    <3>1. PICK i \in 1..Len(handlers) : Counting(handlers[i]) /\ x = handlers[i].sig
      BY <2>2 DEF Unfinished
    <3> QED BY <1>5, <3>1 DEF Unfinished, Counting
  <2> QED BY <2>1, <2>2
<1>11. UNCHANGED <<pc, count, found, caught, sigcount, double>> BY DEF Deliver, flags
<1>12. Counted' BY <1>10, <1>11 DEF Counted, Uncounted
<1>13. \A i \in 1..Len(handlers') :
          /\ Counting(handlers'[i]) => handlers'[i].sig \in caught
          /\ handlers'[i].at = "store" => handlers'[i].count <= sigcount
          /\ pc = "store" /\ handlers'[i].at = "store" => count <= handlers'[i].count
  BY <1>1, <1>3, <1>4 DEF Loaded
<1>14. \A i, j \in 1..Len(handlers') :
          i < j /\ handlers'[i].at = "store" /\ handlers'[j].at = "store"
             => handlers'[j].count <= handlers'[i].count
  <2> SUFFICES ASSUME NEW i \in 1..Len(handlers'), NEW j \in 1..Len(handlers'), i < j,
                      handlers'[i].at = "store", handlers'[j].at = "store"
               PROVE  handlers'[j].count <= handlers'[i].count
    OBVIOUS
  <2>1. i # 1 BY <1>1, <1>3
  <2>2. /\ i - 1 < j - 1 /\ i - 1 \in 1..Len(handlers) /\ j - 1 \in 1..Len(handlers)
        /\ handlers'[i] = handlers[i - 1] /\ handlers'[j] = handlers[j - 1]
    BY <1>3, <1>4, <2>1
  <2> QED BY <2>2 DEF Loaded
<1>15. Loaded'
  BY <1>10, <1>11, <1>13, <1>14 DEF Loaded, Counting
<1>16. Marking'
  <2>1. \A i \in 1..Len(handlers') :
           handlers'[i].at = "mark" /\ ~handlers'[i].direct => handlers'[i].sig \notin caught
    BY <1>1, <1>3, <1>4 DEF Marking
  <2>2. \A i, j \in 1..Len(handlers') :
           i # j /\ Counting(handlers'[i]) /\ Counting(handlers'[j])
              => handlers'[i].sig # handlers'[j].sig
    BY <1>1, <1>3, <1>4, <1>8, SMTT(40) DEF Marking
  <2> QED BY <1>11, <2>1, <2>2 DEF Marking, Counting
<1> QED BY <1>9, <1>12, <1>15, <1>16

\* ewait calls catcher: no other handler runs.
LEMMA EwaitCount ==
    ASSUME TypeOK, Count, NEW s \in Sigs, Ewait(s)
    PROVE  Count'
<1> USE DEF Count
<1>1. /\ handlers = <<>> /\ handlers' = <<Call(s, TRUE)>> /\ pc = "run" /\ pc' = "run"
      /\ UNCHANGED <<count, found, caught, sigcount, double>>
  BY DEF Ewait, Step, flags
<1>2. /\ Len(handlers) = 0 /\ Len(handlers') = 1 /\ handlers'[1].direct
      /\ handlers'[1].at = "test"
  BY <1>1 DEF Call
<1>3. Unfinished = {} /\ Unfinished' = {}
  BY <1>2 DEF Unfinished, Counting
<1>4. Counted' BY <1>1, <1>3 DEF Counted, Uncounted
<1>5. /\ \A i \in 1..Len(handlers') : i = 1 /\ handlers'[i].direct /\ handlers'[i].at = "test"
      /\ \A i, j \in 1..Len(handlers') : i = j
  BY <1>2
<1>7. Nested' BY <1>1, <1>2, <1>5 DEF Nested
<1>8. Marking' BY <1>5 DEF Marking
<1>6. Loaded' BY <1>1, <1>3, <1>5 DEF Loaded, Counting
<1> QED BY <1>4, <1>6, <1>7, <1>8

\* A step of catcher inside its frame keeps the nesting.
LEMMA GoOnNested ==
    ASSUME TypeOK, handlers # <<>>, Nested, NEW a \in Ats, NEW n \in Nat, GoOn(a, n),
           UNCHANGED <<pc, masked>>
    PROVE  Nested'
BY GoOnFrames DEF Nested

\* A step that neither starts nor ends the counting of a signal.
LEMMA GoOnUnfinished ==
    ASSUME TypeOK, handlers # <<>>, NEW a \in Ats, NEW n \in Nat, GoOn(a, n),
           Handler.at \in {"load", "store"} <=> a \in {"load", "store"}
    PROVE  /\ Unfinished' = Unfinished
           /\ \A i \in 1..Len(handlers) : Counting(handlers[i]) <=> Counting(handlers'[i])
<1>1. \A i \in 1..Len(handlers) : i = 1 \/ i \in 2..Len(handlers)
  BY GoOnFrames
<1>2. \A i \in 1..Len(handlers) : Counting(handlers[i]) <=> Counting(handlers'[i])
  BY <1>1, GoOnFrames DEF Counting
<1>3. Len(handlers') = Len(handlers)
      /\ \A i \in 1..Len(handlers) : handlers'[i].sig = handlers[i].sig
  BY GoOnFrames
<1>4. \A x : x \in Unfinished' <=> x \in Unfinished
  BY <1>2, <1>3 DEF Unfinished, Counting
<1> QED BY <1>2, <1>4

\* catcher looks whether its signal is caught.
LEMMA TestCount ==
    ASSUME TypeOK, Count, CatcherTest
    PROVE  Count'
<1> USE DEF Count
<1>0. handlers # <<>> /\ Handler.at = "test" BY DEF CatcherTest, At
<1>1. UNCHANGED <<pc, count, found, caught, sigcount, masked, double>>
  BY DEF CatcherTest, signal, flags
<1>2. PICK a \in {"note", "mark"} : GoOn(a, 0) /\ (a = "mark" => Handler.sig \notin caught)
  BY DEF CatcherTest
<1>3. Unfinished' = Unfinished
  BY <1>0, <1>2, GoOnUnfinished DEF Ats
<1>4. /\ Len(handlers) \in Nat \ {0} /\ Len(handlers') = Len(handlers)
      /\ handlers'[1].at = a /\ handlers'[1].sig = Handler.sig
      /\ \A i \in 2..Len(handlers) : handlers'[i] = handlers[i]
  BY <1>0, <1>2, GoOnFrames DEF Ats
<1>5. \A i \in 1..Len(handlers) : i = 1 \/ (i \in 2..Len(handlers) /\ handlers'[i] = handlers[i])
  BY <1>4
<1>6. Nested' BY <1>0, <1>1, <1>2, GoOnNested DEF Ats
<1>7. Counted' BY <1>1, <1>3 DEF Counted, Uncounted
<1>8. \A i \in 1..Len(handlers) : Counting(handlers'[i]) => handlers'[i] = handlers[i]
  BY <1>2, <1>4, <1>5 DEF Counting
<1>9. Loaded' BY <1>1, <1>3, <1>4, <1>8 DEF Loaded, Counting
<1>10. Marking' BY <1>1, <1>2, <1>4, <1>5, <1>8 DEF Marking, Counting
<1> QED BY <1>6, <1>7, <1>9, <1>10

\* catcher marks its signal.
LEMMA MarkCount ==
    ASSUME TypeOK, Count, CatcherMark
    PROVE  Count'
<1> USE DEF Count
<1> DEFINE s == Handler.sig
<1>1. handlers # <<>> /\ Handler.at = "mark" /\ GoOn("load", 0) BY DEF CatcherMark, At
<1>2. UNCHANGED <<pc, count, found, sigcount, masked>> /\ caught' = caught \cup {s}
  BY DEF CatcherMark, signal
<1>3. /\ Len(handlers) \in Nat \ {0} /\ Len(handlers') = Len(handlers)
      /\ handlers[1] = Handler /\ Handler \in Frame
      /\ handlers'[1].sig = s /\ handlers'[1].at = "load"
      /\ \A i \in 2..Len(handlers) : handlers'[i] = handlers[i]
  BY <1>1, GoOnFrames DEF Ats
<1>4. \A i \in 1..Len(handlers) : i = 1 \/ (i \in 2..Len(handlers) /\ handlers'[i] = handlers[i])
  BY <1>3
<1>5. 1 \in 1..Len(handlers) BY <1>3
<1>6. Nested' BY <1>1, <1>2, GoOnNested DEF Ats
<1>7. \A x : x \in Unfinished' <=> x \in Unfinished \/ x = s
  <2>1. ASSUME NEW x \in Unfinished' PROVE x \in Unfinished \/ x = s
    <3>1. PICK i \in 1..Len(handlers) : Counting(handlers'[i]) /\ x = handlers'[i].sig
      BY <1>3, <2>1 DEF Unfinished, Counting
    <3> QED BY <1>3, <1>4, <3>1 DEF Unfinished
  <2>2. ASSUME NEW x \in Unfinished PROVE x \in Unfinished'
    <3>1. PICK i \in 1..Len(handlers) : Counting(handlers[i]) /\ x = handlers[i].sig
      BY <2>2 DEF Unfinished
    <3>2. handlers'[i] = handlers[i] BY <1>1, <1>3, <1>4, <3>1 DEF Counting
    <3> QED BY <1>3, <3>1, <3>2 DEF Unfinished, Counting
  <2>3. s \in Unfinished'
    <3>1. 1 \in 1..Len(handlers') /\ Counting(handlers'[1]) BY <1>3, <1>5 DEF Counting
    <3> QED BY <1>3, <3>1 DEF Unfinished, Counting
  <2> QED BY <2>1, <2>2, <2>3
<1>8. \A i \in 1..Len(handlers) : Counting(handlers[i]) => handlers[i].sig \in caught
  BY DEF Loaded
<1>9. CASE s \notin caught
  <2>1. double' = double BY <1>9 DEF CatcherMark
  <2>2. pc \in {"load", "store", "forget"} => found # s /\ found \notin Unfinished'
    BY <1>7, <1>9 DEF Loaded
  <2>3. caught' \ Uncounted' = caught \ Uncounted
    BY <1>2, <1>7, <1>9 DEF Uncounted
  <2>4. Counted' BY <1>2, <2>1, <2>3 DEF Counted
  <2>5. \A i \in 1..Len(handlers) :
           /\ Counting(handlers'[i]) => handlers'[i].sig \in caught'
           /\ handlers'[i].at = "store" => handlers[i].at = "store" /\ handlers'[i] = handlers[i]
    BY <1>2, <1>3, <1>4, <1>8
  <2>6. Loaded' BY <1>2, <1>3, <2>2, <2>5 DEF Loaded, Counting
  <2>7. \A i \in 2..Len(handlers) : ~handlers[1].direct /\ i \in 1..Len(handlers) /\ i # 1
    BY <1>3, <1>5 DEF Nested
  <2>8. \A i \in 1..Len(handlers') :
           handlers'[i].at = "mark" /\ ~handlers'[i].direct
              => handlers'[i].sig \notin caught'
    BY <1>2, <1>3, <1>4, <1>5, <2>7 DEF Marking, Nested
  <2>9. \A i \in 2..Len(handlers) : Counting(handlers'[i]) => handlers'[i].sig # s
    BY <1>3, <1>4, <1>8, <1>9, <2>7
  <2>10. \A i, j \in 1..Len(handlers') :
            i # j /\ Counting(handlers'[i]) /\ Counting(handlers'[j])
               => handlers'[i].sig # handlers'[j].sig
    BY <1>3, <1>4, <2>9 DEF Marking
  <2>11. Marking' BY <2>8, <2>10 DEF Marking, Counting
  <2> QED BY <1>6, <2>4, <2>6, <2>11
<1>10. CASE s \in caught
  <2>1. Handler.direct BY <1>1, <1>3, <1>5, <1>10 DEF Marking
  <2>2. Len(handlers) = 1 /\ pc = "run" BY <1>3, <1>5, <2>1 DEF Nested
  <2>3. double' = double + 1 /\ double \in Nat BY <1>10, <2>1 DEF CatcherMark, TypeOK
  <2>4. Unfinished = {} BY <1>1, <1>3, <2>2 DEF Unfinished, Counting
  <2>5. caught' \ Uncounted' = caught \ {s} /\ caught \ Uncounted = caught
    BY <1>2, <1>7, <1>10, <2>2, <2>4 DEF Uncounted
  <2>6. Cardinality(caught \ {s}) = Cardinality(caught) - 1 /\ Cardinality(caught) \in Nat
    BY <1>10, SignalSets DEF TypeOK
  <2>7. Counted'
    <3>1. sigcount <= Cardinality(caught) + double BY <2>5 DEF Counted
    <3> DEFINE n == Cardinality(caught)
               m == Cardinality(caught' \ Uncounted')
    <3>2. m = n - 1 /\ n \in Nat BY <2>5, <2>6
    <3>3. sigcount <= n + double BY <3>1
    <3>4. sigcount \in Nat /\ sigcount' = sigcount BY <1>2 DEF TypeOK
    <3> HIDE DEF n, m
    <3>5. sigcount' <= m + double' BY <2>3, <3>2, <3>3, <3>4
    <3> QED BY <3>5 DEF Counted, m
  <2>8. Loaded' BY <1>2, <1>3, <2>2, <1>10 DEF Loaded, Counting
  <2>9. Marking' BY <1>3, <2>2 DEF Marking, Counting
  <2> QED BY <1>6, <2>7, <2>8, <2>9
<1> QED BY <1>9, <1>10

\* catcher loads sigcount.
LEMMA LoadCount ==
    ASSUME TypeOK, Count, CatcherLoad
    PROVE  Count'
<1> USE DEF Count
<1>0. handlers # <<>> /\ Handler.at = "load" /\ GoOn("store", sigcount) /\ sigcount \in Nat
  BY DEF CatcherLoad, At, TypeOK
<1>1. UNCHANGED <<pc, count, found, sigcount, caught, masked, double>>
  BY DEF CatcherLoad, signal, flags
<1>2. /\ Len(handlers) \in Nat \ {0} /\ Len(handlers') = Len(handlers)
      /\ handlers[1].at = "load" /\ handlers'[1].at = "store"
      /\ handlers'[1].count = sigcount /\ handlers'[1].sig = handlers[1].sig
      /\ \A i \in 2..Len(handlers) : handlers'[i] = handlers[i]
  BY <1>0, GoOnFrames DEF Ats
<1>3. \A i \in 1..Len(handlers) : i = 1 \/ (i \in 2..Len(handlers) /\ handlers'[i] = handlers[i])
  BY <1>2
<1>4. Nested' BY <1>0, <1>1, GoOnNested DEF Ats
<1>5. Unfinished' = Unfinished BY <1>0, GoOnUnfinished DEF Ats
<1>6. Counted' BY <1>1, <1>5 DEF Counted, Uncounted
<1>7. \A i \in 1..Len(handlers') :
         /\ Counting(handlers'[i]) => handlers'[i].sig \in caught
         /\ handlers'[i].at = "store" => handlers'[i].count <= sigcount
         /\ pc = "store" /\ handlers'[i].at = "store" => count <= handlers'[i].count
  BY <1>0, <1>2, <1>3 DEF Loaded, Counting
<1>8. \A i, j \in 1..Len(handlers') :
          i < j /\ handlers'[i].at = "store" /\ handlers'[j].at = "store"
             => handlers'[j].count <= handlers'[i].count
  <2> SUFFICES ASSUME NEW i \in 1..Len(handlers'), NEW j \in 1..Len(handlers'), i < j,
                      handlers'[i].at = "store", handlers'[j].at = "store"
               PROVE  handlers'[j].count <= handlers'[i].count
    OBVIOUS
  <2>1. handlers'[j] = handlers[j] BY <1>2, <1>3
  <2> QED BY <1>2, <1>3, <2>1 DEF Loaded
<1>9. Loaded' BY <1>1, <1>5, <1>7, <1>8 DEF Loaded, Counting
<1>10. \A i \in 1..Len(handlers) :
          /\ Counting(handlers'[i]) => Counting(handlers[i])
          /\ handlers'[i].sig = handlers[i].sig
          /\ handlers'[i].at = "mark" => handlers'[i] = handlers[i]
  BY <1>2, <1>3 DEF Counting
<1>11. Marking' BY <1>1, <1>2, <1>10 DEF Marking, Counting
<1> QED BY <1>4, <1>6, <1>9, <1>11

\* catcher stores sigcount, which counts its signal.
LEMMA StoreCount ==
    ASSUME TypeOK, Count, CatcherStore
    PROVE  Count'
<1> USE DEF Count
<1> DEFINE s == Handler.sig
           c == Handler.count
<1>0. handlers # <<>> /\ Handler.at = "store" /\ GoOn("note", 0) /\ sigcount \in Nat
  BY DEF CatcherStore, At, TypeOK
<1>1. UNCHANGED <<pc, count, found, caught, masked, double>> /\ sigcount' = c + 1
  BY DEF CatcherStore, signal
<1>2. /\ Len(handlers) \in Nat \ {0} /\ Len(handlers') = Len(handlers)
      /\ handlers[1] = Handler /\ handlers'[1].at = "note"
      /\ \A i \in 2..Len(handlers) : handlers'[i] = handlers[i]
      /\ handlers[1].sig = s /\ handlers[1].count = c /\ handlers[1].at = "store"
      /\ c \in Nat /\ s \in Sigs
  BY <1>0, GoOnFrames DEF Ats, Frame
<1>3. \A i \in 1..Len(handlers) : i = 1 \/ (i \in 2..Len(handlers) /\ handlers'[i] = handlers[i])
  BY <1>2
<1>4. Nested' BY <1>0, <1>1, GoOnNested DEF Ats
<1>5. c <= sigcount /\ s \in caught /\ s \in Unfinished
  <2>1. 1 \in 1..Len(handlers) /\ Counting(handlers[1]) BY <1>2 DEF Counting
  <2>2. handlers[1].sig \in Unfinished BY <2>1 DEF Unfinished
  <2> QED BY <1>2, <2>1, <2>2 DEF Loaded
<1>6. \A x : x \in Unfinished' <=> x \in Unfinished /\ x # s
  <2>1. ASSUME NEW x \in Unfinished' PROVE x \in Unfinished /\ x # s
    <3>1. PICK i \in 1..Len(handlers) : Counting(handlers'[i]) /\ x = handlers'[i].sig
      BY <1>2, <2>1 DEF Unfinished, Counting
    <3>2. i # 1 /\ handlers'[i] = handlers[i] BY <1>2, <1>3, <3>1 DEF Counting
    <3>3. x # s
      <4>1. 1 \in 1..Len(handlers) /\ Counting(handlers[1]) BY <1>2 DEF Counting
      <4> QED BY <1>2, <3>1, <3>2, <4>1 DEF Marking
    <3> QED BY <3>1, <3>2, <3>3 DEF Unfinished
  <2>2. ASSUME NEW x \in Unfinished, x # s PROVE x \in Unfinished'
    <3>1. PICK i \in 1..Len(handlers) : Counting(handlers[i]) /\ x = handlers[i].sig
      BY <2>2 DEF Unfinished
    <3>2. handlers'[i] = handlers[i] BY <1>2, <1>3, <2>2, <3>1
    <3> QED BY <1>2, <3>1, <3>2 DEF Unfinished, Counting
  <2> QED BY <2>1, <2>2
<1>7. pc = "forget" => found # s
  BY <1>5 DEF Loaded
<1>8. Counted'
  <2>1. caught' \ Uncounted' = (caught \ Uncounted) \cup {s}
    BY <1>1, <1>5, <1>6, <1>7 DEF Uncounted
  <2>2. s \notin caught \ Uncounted BY <1>5 DEF Uncounted
  <2>3. caught \ Uncounted \in SUBSET Sigs BY DEF TypeOK
  <2>4. Cardinality((caught \ Uncounted) \cup {s}) = Cardinality(caught \ Uncounted) + 1
        /\ Cardinality(caught \ Uncounted) \in Nat
    BY <2>2, <2>3, SignalSets
  <2>5. sigcount <= Cardinality(caught \ Uncounted) + double /\ double \in Nat
    BY DEF Counted, TypeOK
  <2>6. sigcount' <= Cardinality(caught \ Uncounted) + 1 + double
    BY <1>0, <1>1, <1>2, <1>5, <2>4, <2>5
  <2> QED BY <1>1, <2>1, <2>4, <2>5, <2>6 DEF Counted
<1>9. \A i \in 2..Len(handlers) : handlers[i].at = "store" => handlers[i].count <= c
  <2> SUFFICES ASSUME NEW i \in 2..Len(handlers), handlers[i].at = "store"
               PROVE  handlers[i].count <= c
    OBVIOUS
  <2>1. 1 \in 1..Len(handlers) /\ i \in 1..Len(handlers) /\ 1 < i BY <1>2
  <2> QED BY <1>2, <2>1 DEF Loaded
<1>10. \A i \in 1..Len(handlers) : handlers'[i].at = "store" =>
          /\ handlers'[i] = handlers[i] /\ handlers[i].count <= c /\ handlers[i].count \in Nat
  <2> SUFFICES ASSUME NEW i \in 1..Len(handlers), handlers'[i].at = "store"
               PROVE  /\ handlers'[i] = handlers[i] /\ handlers[i].count <= c
                      /\ handlers[i].count \in Nat
    OBVIOUS
  <2>1. i \in 2..Len(handlers) /\ handlers'[i] = handlers[i] BY <1>2, <1>3
  <2>2. handlers[i].count \in Nat BY FrameTypes DEF Frame
  <2> QED BY <1>9, <2>1, <2>2
<1>11. \A i \in 1..Len(handlers) : Counting(handlers'[i]) => handlers'[i] = handlers[i]
  BY <1>2, <1>3 DEF Counting
<1>12. pc = "store" => 1 <= count /\ count <= c
  BY <1>2 DEF Loaded
<1>13. /\ \A i \in 1..Len(handlers') :
             Counting(handlers'[i]) => handlers'[i].sig \in caught'
       /\ \A i \in 1..Len(handlers') :
             handlers'[i].at = "store" => handlers'[i].count <= sigcount'
  <2>1. \A i \in 1..Len(handlers') :
             Counting(handlers'[i]) => handlers'[i].sig \in caught'
    BY <1>1, <1>2, <1>11 DEF Loaded
  <2>2. \A i \in 1..Len(handlers') :
             handlers'[i].at = "store" => handlers'[i].count <= sigcount'
    BY <1>1, <1>2, <1>10
  <2> QED BY <2>1, <2>2
<1>14. \A i, j \in 1..Len(handlers') :
          i < j /\ handlers'[i].at = "store" /\ handlers'[j].at = "store"
             => handlers'[j].count <= handlers'[i].count
  BY <1>2, <1>10 DEF Loaded
<1>15. pc' = "store" => /\ 1 <= count' /\ count' <= sigcount'
                       /\ \A i \in 1..Len(handlers') :
                             handlers'[i].at = "store" => count' <= handlers'[i].count
  <2> SUFFICES ASSUME pc' = "store"
               PROVE  /\ 1 <= count' /\ count' <= sigcount'
                      /\ \A i \in 1..Len(handlers') :
                             handlers'[i].at = "store" => count' <= handlers'[i].count
    OBVIOUS
  <2>1. 1 <= count' /\ count' <= sigcount' BY <1>1, <1>2, <1>12 DEF TypeOK
  <2>2. \A i \in 1..Len(handlers') :
             handlers'[i].at = "store" => count' <= handlers'[i].count
    BY <1>1, <1>2, <1>10 DEF Loaded
  <2> QED BY <2>1, <2>2
<1>16. pc' \in {"scan", "load"} => 1 <= sigcount'
  BY <1>1, <1>2
<1>17. pc' \in {"load", "store", "forget"} => found' \in caught' \ Unfinished'
  BY <1>1, <1>6 DEF Loaded
<1>18. Loaded' BY <1>13, <1>14, <1>15, <1>16, <1>17 DEF Loaded, Counting
<1>19. Marking' BY <1>1, <1>2, <1>3, <1>11 DEF Marking, Counting
<1> QED BY <1>4, <1>8, <1>18, <1>19

\* catcher notes the interruption; in a slow call, all handlers are left.
LEMMA NoteCount ==
    ASSUME TypeOK, SlowFrameLive, Count, CatcherNote
    PROVE  Count'
<1> USE DEF Count
<1>0. handlers # <<>> /\ Handler.at = "note" BY DEF CatcherNote, At
<1>1. UNCHANGED <<count, found, caught, sigcount, masked, double>> BY DEF CatcherNote, signal
<1>2. CASE slow
  <2>1. handlers' = <<>> /\ pc' = "disarm" BY <1>2 DEF CatcherNote
  <2>2. Len(handlers') = 0 BY <2>1, EmptySeq
  <2>3. Uncounted' = {} BY <2>1, <2>2 DEF Uncounted, Unfinished
  <2>4. Cardinality(caught \ Uncounted) <= Cardinality(caught)
        /\ Cardinality(caught) \in Nat /\ Cardinality(caught \ Uncounted) \in Nat
    BY SignalSets DEF TypeOK
  <2>5. caught' \ Uncounted' = caught BY <1>1, <2>3
  <2>6. Counted'
    <3>1. /\ sigcount \in Nat /\ double \in Nat
          /\ sigcount <= Cardinality(caught \ Uncounted) + double
      BY DEF Counted, TypeOK
    <3>2. sigcount <= Cardinality(caught) + double BY <2>4, <3>1
    <3> QED BY <1>1, <2>5, <3>2 DEF Counted
  <2>7. Nested' /\ Loaded' /\ Marking' BY <2>1, <2>2 DEF Nested, Loaded, Marking
  <2> QED BY <2>6, <2>7
<1>3. CASE ~slow
  <2>1. GoOn("return", 0) /\ pc' = pc BY <1>3 DEF CatcherNote
  <2>2. Unfinished' = Unfinished
    BY <1>0, <2>1, GoOnUnfinished DEF Ats
  <2>3. /\ Len(handlers') = Len(handlers)
        /\ \A i \in 1..Len(handlers) : handlers'[i] = handlers[i]
                                       \/ (i = 1 /\ handlers'[i].at = "return")
    BY <1>0, <2>1, GoOnFrames DEF Ats
  <2>4. Nested' BY <1>0, <1>1, <2>1, GoOnNested DEF Ats
  <2>5. Counted' BY <1>1, <2>1, <2>2 DEF Counted, Uncounted
  <2>6. Loaded' BY <1>1, <2>1, <2>2, <2>3 DEF Loaded, Counting
  <2>7. Marking' BY <1>1, <2>3 DEF Marking, Counting
  <2> QED BY <2>4, <2>5, <2>6, <2>7
<1> QED BY <1>2, <1>3

\* catcher returns.
LEMMA ReturnCount ==
    ASSUME TypeOK, Count, CatcherReturn
    PROVE  Count'
<1> USE DEF Count
<1>0. handlers # <<>> /\ Handler.at = "return" /\ handlers' = Tail(handlers)
  BY DEF CatcherReturn, At
<1>1. /\ UNCHANGED <<pc, count, found, caught, sigcount, double>>
      /\ masked' = IF Handler.direct THEN masked ELSE masked \ {Handler.sig}
  BY DEF CatcherReturn, flags
<1>2. /\ Len(handlers) \in Nat \ {0} /\ Len(handlers') = Len(handlers) - 1
      /\ handlers[1] = Handler
      /\ \A i \in 1..(Len(handlers) - 1) : handlers'[i] = handlers[i + 1]
  BY <1>0, DropFront DEF TypeOK, Handler
<1>3. \A i \in 1..Len(handlers') : i + 1 \in 2..Len(handlers) /\ i + 1 \in 1..Len(handlers)
                                 /\ handlers'[i] = handlers[i + 1]
  BY <1>2
<1>4. \A i \in 2..Len(handlers) : i - 1 \in 1..Len(handlers') /\ handlers'[i - 1] = handlers[i]
  BY <1>2
<1>5. \A i \in 1..Len(handlers) : i = 1 \/ i \in 2..Len(handlers)
  BY <1>2
<1>6. Nested'
  <2>1. 1 \in 1..Len(handlers) BY <1>2
  <2>2. \A i \in 2..Len(handlers) : ~Handler.direct /\ i \in 1..Len(handlers) /\ i # 1
    BY <1>2, <2>1 DEF Nested
  <2>3. \A i \in 1..Len(handlers') : ~handlers'[i].direct => handlers'[i].sig \in masked'
    BY <1>1, <1>2, <1>3, <2>1, <2>2 DEF Nested
  <2>4. \A i, j \in 1..Len(handlers') :
           i # j /\ ~handlers'[i].direct /\ ~handlers'[j].direct
              => handlers'[i].sig # handlers'[j].sig
    <3> SUFFICES ASSUME NEW i \in 1..Len(handlers'), NEW j \in 1..Len(handlers'), i # j,
                        ~handlers'[i].direct, ~handlers'[j].direct
                 PROVE  handlers'[i].sig # handlers'[j].sig
      OBVIOUS
    <3>1. i + 1 # j + 1 OBVIOUS
    <3> QED BY <1>3, <3>1 DEF Nested
  <2>5. ASSUME NEW i \in 1..Len(handlers'), handlers'[i].direct
        PROVE  i = Len(handlers') /\ pc' = "run"
    <3>1. i + 1 = Len(handlers) /\ pc = "run" BY <1>3, <2>5 DEF Nested
    <3> QED BY <1>1, <1>2, <3>1
  <2> QED BY <2>3, <2>4, <2>5 DEF Nested
<1>7. Unfinished' = Unfinished
  <2>1. ASSUME NEW x \in Unfinished' PROVE x \in Unfinished
    <3>1. PICK i \in 1..Len(handlers') : Counting(handlers'[i]) /\ x = handlers'[i].sig
      BY <2>1 DEF Unfinished, Counting
    <3> QED BY <1>3, <3>1 DEF Unfinished
  <2>2. ASSUME NEW x \in Unfinished PROVE x \in Unfinished'
    <3>1. PICK i \in 1..Len(handlers) : Counting(handlers[i]) /\ x = handlers[i].sig
      BY <2>2 DEF Unfinished
    <3>2. i \in 2..Len(handlers) BY <1>0, <1>2, <1>5, <3>1 DEF Counting
    <3> QED BY <1>4, <3>1, <3>2 DEF Unfinished, Counting
  <2> QED BY <2>1, <2>2
<1>8. Counted' BY <1>1, <1>7 DEF Counted, Uncounted
<1>9. \A i \in 1..Len(handlers') :
         /\ Counting(handlers'[i]) => handlers'[i].sig \in caught
         /\ handlers'[i].at = "store" => handlers'[i].count <= sigcount
         /\ pc = "store" /\ handlers'[i].at = "store" => count <= handlers'[i].count
  BY <1>3 DEF Loaded
<1>10. \A i, j \in 1..Len(handlers') :
          i < j /\ handlers'[i].at = "store" /\ handlers'[j].at = "store"
             => handlers'[j].count <= handlers'[i].count
  <2> SUFFICES ASSUME NEW i \in 1..Len(handlers'), NEW j \in 1..Len(handlers'), i < j,
                      handlers'[i].at = "store", handlers'[j].at = "store"
               PROVE  handlers'[j].count <= handlers'[i].count
    OBVIOUS
  <2>1. i + 1 < j + 1 OBVIOUS
  <2> QED BY <1>3, <2>1 DEF Loaded
<1>11. Loaded' BY <1>1, <1>7, <1>9, <1>10 DEF Loaded, Counting
<1>12. \A i, j \in 1..Len(handlers') : i # j => i + 1 # j + 1 OBVIOUS
<1>13. Marking' BY <1>1, <1>3, <1>12, SMTT(40) DEF Marking, Counting
<1> QED BY <1>6, <1>8, <1>11, <1>13

\* No handler runs: nothing is half counted.
LEMMA NoHandlers ==
    ASSUME handlers = <<>>, UNCHANGED handlers
    PROVE  /\ Len(handlers) = 0 /\ Len(handlers') = 0
           /\ Unfinished = {} /\ Unfinished' = {} /\ Nested' /\ Marking'
<1>1. Len(handlers) = 0 /\ Len(handlers') = 0 BY EmptySeq
<1>2. Unfinished = {} /\ Unfinished' = {} BY <1>1 DEF Unfinished
<1>3. Nested' /\ Marking' BY <1>1 DEF Nested, Marking
<1> QED BY <1>1, <1>2, <1>3

\* sigchk takes a signal off the count, and then off caught.
LEMMA SigchkCount ==
    ASSUME TypeOK, Count, Sigchk
    PROVE  Count'
<1> USE DEF Count
<1>0. handlers = <<>> /\ UNCHANGED handlers
  BY DEF Sigchk, EnterSigchk, SigchkTest, SigchkScan, SigchkLoad, SigchkStore,
         SigchkForget, SigchkThrow, Step, signal
<1>1. /\ Len(handlers) = 0 /\ Len(handlers') = 0
      /\ Unfinished = {} /\ Unfinished' = {} /\ Nested' /\ Marking'
  BY <1>0, NoHandlers
<1>2. sigcount \in Nat /\ count \in Nat /\ caught \in SUBSET Sigs /\ double \in Nat
  BY DEF TypeOK
<1>3. ASSUME EnterSigchk PROVE Count'
  BY <1>0, <1>1, <1>3, SameCount DEF EnterSigchk, Step, flags
<1>4. ASSUME SigchkTest PROVE Count'
  <2>1. /\ UNCHANGED <<count, found, caught, sigcount, double>> /\ pc = "sigchk"
        /\ pc' = "run" \/ (pc' = "scan" /\ sigcount # 0)
    BY <1>4 DEF SigchkTest, Step, flags
  <2>2. Counted' BY <1>1, <2>1 DEF Counted, Uncounted
  <2>3. Loaded' BY <1>1, <1>2, <2>1 DEF Loaded
  <2> QED BY <1>1, <2>2, <2>3
<1>5. ASSUME SigchkScan PROVE Count'
  <2>1. CASE caught = {}
    <3>1. pc' = "run" /\ sigcount' = 0 /\ double' = 0 /\ caught' = {} BY <1>5, <2>1 DEF SigchkScan, Step
    <3>2. caught' \ Uncounted' = {} BY <3>1
    <3>3. Counted' BY <3>1, <3>2, FS_EmptySet DEF Counted
    <3>4. Loaded' BY <1>1, <3>1 DEF Loaded
    <3> QED BY <1>1, <3>3, <3>4
  <2>2. CASE caught # {}
    <3>1. caught \in SUBSET Nat BY <1>2, SigsAssumption
    <3>2. \E s \in caught : \A t \in caught : s <= t BY <2>2, <3>1, LeastElement
    <3>3. found' \in caught BY <1>5, <2>2, <3>2 DEF SigchkScan
    <3>4. pc = "scan" /\ pc' = "load" /\ sigcount' = sigcount /\ UNCHANGED <<count, caught, double>>
      BY <1>5, <2>2 DEF SigchkScan, Step
    <3>5. Uncounted = {} /\ Uncounted' = {} BY <1>1, <3>4 DEF Uncounted
    <3>6. Counted' BY <3>4, <3>5 DEF Counted
    <3>7. Loaded' BY <1>1, <3>3, <3>4 DEF Loaded
    <3> QED BY <1>1, <3>6, <3>7
  <2> QED BY <2>1, <2>2
<1>6. ASSUME SigchkLoad PROVE Count'
  <2>1. /\ pc = "load" /\ pc' = "store" /\ count' = sigcount
        /\ UNCHANGED <<found, caught, sigcount, double>>
    BY <1>6 DEF SigchkLoad, Step, flags
  <2>2. Counted' BY <1>1, <2>1 DEF Counted, Uncounted
  <2>3. Loaded' BY <1>1, <1>2, <2>1 DEF Loaded
  <2> QED BY <1>1, <2>2, <2>3
<1>7. ASSUME SigchkStore PROVE Count'
  <2>1. /\ pc = "store" /\ pc' = "forget" /\ sigcount' = count - 1
        /\ UNCHANGED <<found, caught, double>>
    BY <1>7 DEF SigchkStore, Step
  <2>2. 1 <= count /\ count <= sigcount /\ found \in caught
    BY <2>1 DEF Loaded
  <2>3. Uncounted = {} /\ Uncounted' = {found} BY <1>1, <2>1 DEF Uncounted
  <2>4. caught \ Uncounted = caught /\ caught' \ Uncounted' = caught \ {found}
    BY <2>1, <2>3
  <2>5. Cardinality(caught \ {found}) = Cardinality(caught) - 1 /\ Cardinality(caught) \in Nat
    BY <1>2, <2>2, SignalSets
  <2>6. sigcount <= Cardinality(caught) + double BY <2>4 DEF Counted
  <2>7. sigcount' <= Cardinality(caught \ {found}) + double BY <1>2, <2>1, <2>2, <2>5, <2>6
  <2>8. Counted' BY <2>1, <2>4, <2>7 DEF Counted
  <2>9. Loaded' BY <1>1, <2>1, <2>2 DEF Loaded
  <2> QED BY <1>1, <2>8, <2>9
<1>8. ASSUME SigchkForget PROVE Count'
  <2>1. /\ pc = "forget" /\ pc' = "throw" /\ caught' = caught \ {found}
        /\ UNCHANGED <<found, sigcount, count, double>>
    BY <1>8 DEF SigchkForget, Step
  <2>2. Uncounted = {found} /\ Uncounted' = {} BY <1>1, <2>1 DEF Uncounted
  <2>3. caught' \ Uncounted' = caught \ Uncounted BY <2>1, <2>2
  <2>4. Counted' BY <2>1, <2>3 DEF Counted
  <2>5. Loaded' BY <1>1, <2>1 DEF Loaded
  <2> QED BY <1>1, <2>4, <2>5
<1>9. ASSUME SigchkThrow PROVE Count'
  <2>1. /\ pc = "throw" /\ pc' = "run" /\ UNCHANGED <<caught, sigcount, double>>
    BY <1>9 DEF SigchkThrow, Step, flags
  <2>2. Counted' BY <1>1, <2>1 DEF Counted, Uncounted
  <2>3. Loaded' BY <1>1, <2>1 DEF Loaded
  <2> QED BY <1>1, <2>2, <2>3
<1> QED BY <1>3, <1>4, <1>5, <1>6, <1>7, <1>8, <1>9 DEF Sigchk

\* Every step keeps sigcount in its bounds.
LEMMA CountStep == TypeOK /\ SlowFrameLive /\ Count /\ [Next]_vars => Count'
<1> SUFFICES ASSUME TypeOK, SlowFrameLive, Count, [Next]_vars PROVE Count'
  OBVIOUS
<1>0. UNCHANGED <<handlers, masked, pc>> => Nested' BY DEF Nested, Count
<1>1. ASSUME Kernel PROVE Count'
  <2>1. UNCHANGED <<pc, count, found, handlers, caught, sigcount, masked, double>>
    BY <1>1 DEF Kernel, Send, flags
  <2> QED BY <1>0, <2>1, SameCount DEF Count
<1>2. ASSUME Catcher PROVE Count'
  BY <1>2, TestCount, MarkCount, LoadCount, StoreCount, NoteCount, ReturnCount DEF Catcher
<1>3. ASSUME Slow \/ SyscallReturns PROVE Count'
  <2>1. UNCHANGED <<count, found, handlers, caught, sigcount, masked, double>>
        /\ pc' \notin {"scan", "load", "store", "forget"} /\ pc # "forget"
    BY <1>3 DEF Slow, EnterSlow, Clear, Arm, Test, Disarm, SyscallReturns, Step, flags, signal
  <2>2. handlers = <<>>
    BY <1>3 DEF Slow, EnterSlow, Clear, Arm, Test, Disarm, SyscallReturns, Step
  <2> QED BY <2>1, <2>2, NoHandlers, SameCount DEF Count
<1>4. ASSUME Setting PROVE Count'
  <2>1. UNCHANGED <<pc, count, found, handlers, caught, sigcount, masked, double>>
    BY <1>4 DEF Setting, Block, Unblock, SetSignal, Step, signal
  <2> QED BY <1>0, <2>1, SameCount DEF Count
<1>5. CASE UNCHANGED vars
  BY <1>0, <1>5, SameCount DEF Count, vars, flags, signal
<1> QED BY <1>1, <1>2, <1>3, <1>4, <1>5, DeliverCount, EwaitCount, SigchkCount DEF Next
-----------------------------------------------------------------------------
(***************************************************************************)
(* Theorems about the count                                                *)
(***************************************************************************)

\* The inductive invariant.
LEMMA Invariance == Spec => []IInv
<1>1. Init => IInv
  <2> SUFFICES ASSUME Init PROVE IInv
    OBVIOUS
  <2>1. TypeOK
    <3>1. handlers \in Seq(Frame) BY EmptySeq DEF Init
    <3>2. blocked \in 0..MaxBlocked /\ sends \in 0..MaxSends
      BY BoundsAssumption DEF Init
    <3>3. effect \in [Sigs -> Effects] BY DEF Init, Effects
    <3> QED BY <3>1, <3>2, <3>3 DEF Init, TypeOK, PCs
  <2>2. handlers = <<>> /\ pc = "run" /\ caught = {} /\ sigcount = 0 BY DEF Init
  <2>3. Len(handlers) = 0 BY <2>2, EmptySeq
  <2>4. Nested /\ Loaded /\ Marking BY <2>2, <2>3 DEF Nested, Loaded, Marking
  <2>5. caught \ Uncounted = {} BY <2>2
  <2>6. Counted BY <2>2, <2>5, FS_EmptySet DEF Counted, Init
  <2>7. SlowInv BY DEF Init, SlowInv, SlowFrameLive, Awake, Asleep
  <2> QED BY <2>1, <2>4, <2>6, <2>7 DEF IInv
<1>2. IInv /\ [Next]_vars => IInv'
  BY TypeStep, CountStep, SlowStep DEF IInv, Count, SlowInv
<1> QED BY <1>1, <1>2, PTL DEF Spec

\* The registers of handlers and program keep their types; sigcount never wraps
\* below zero.
THEOREM SignalTypes == Spec => []TypeOK
<1>1. IInv => TypeOK BY DEF IInv
<1> QED BY <1>1, Invariance, PTL

\* sigcount counts more than the caught signals only by those that were counted
\* twice, in ewait's own call of catcher and in the handler that came between its
\* test and its mark; otherwise sigchk never looks for one in vain (signal.c:91-94,
\* 330-340; proc.c:261, 268).
THEOREM CountIsCaught == Spec => []CountNeverOver
<1>1. IInv => CountNeverOver
  <2> SUFFICES ASSUME IInv PROVE CountNeverOver
    OBVIOUS
  <2>1. caught \in SUBSET Sigs /\ sigcount \in Nat /\ double \in Nat BY DEF IInv, TypeOK
  <2>2. Cardinality(caught \ Uncounted) <= Cardinality(caught)
        /\ Cardinality(caught \ Uncounted) \in Nat /\ Cardinality(caught) \in Nat
    BY <2>1, SignalSets
  <2>3. sigcount <= Cardinality(caught \ Uncounted) + double BY DEF IInv, Counted
  <2>4. sigcount <= Cardinality(caught) + double BY <2>1, <2>2, <2>3
  <2>5. pc = "scan" => 1 <= sigcount BY DEF IInv, Loaded
  <2>6. pc = "scan" /\ caught = {} => double > 0 BY <2>1, <2>4, <2>5, FS_EmptySet
  <2> QED BY <2>4, <2>6 DEF CountNeverOver
<1> QED BY <1>1, Invariance, PTL
=============================================================================
