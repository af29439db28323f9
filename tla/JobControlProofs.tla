-------------------------- MODULE JobControlProofs --------------------------
(***************************************************************************)
(* Theorems about JobControl, for every set of pids, every set of commands *)
(* and every combination of faults; those about the terminal and about the *)
(* processes left in the foreground, for an interactive session without    *)
(* faults and here documents (Session).                                    *)
(***************************************************************************)
EXTENDS JobControl, FiniteSetTheorems, SequenceTheorems, TLAPS

\* The parts of TypeOK a step of a child, of a wait or of a fork disturbs.
KernelType == /\ kstate \in [Pids -> KStates]
              /\ knote \in [Pids -> BOOLEAN]
              /\ kpgid \in [Pids -> PGids]
              /\ setup \in [Pids -> Setups]
              /\ tty \in PGids /\ resumed \in BOOLEAN
TableType  == proclist \subseteq Pids /\ rec \in [Pids -> Proc]
ShellType  == /\ pc \in PCs
              /\ cmd \in {NoCmd, "job", "here", "fg", "wait"}
              /\ forks \in 0..MaxPipe
              /\ group \in PGids
              /\ todo \in Seq(Target)
              /\ pc \in {"enter", "wait", "broke"} => todo # <<>>
              /\ pend \in BOOLEAN
              /\ ret \in Statuses

LEMMA TypeParts == TypeOK <=> KernelType /\ TableType /\ ShellType
BY DEF TypeOK, KernelType, TableType, ShellType

\* What the operators on records return: a record again.
LEMMA RecordTypes ==
    /\ NoProc \in Proc
    /\ \A r \in Proc : Died(r) \in Proc /\ Halted(r) \in Proc
    /\ \A r \in Proc, b \in BOOLEAN :
          /\ [r EXCEPT !.haschanged = b] \in Proc
          /\ [r EXCEPT !.background = b, !.stopped = FALSE] \in Proc
    /\ \A b \in BOOLEAN, g \in PGids : mkproc(b, g) \in Proc
BY DEF Proc, Died, Halted, mkproc, NoProc, PGids

LEMMA ReapType ==
    ASSUME KernelType, NEW D, Reap(D)
    PROVE  kstate' \in [Pids -> KStates] /\ kpgid' \in [Pids -> PGids]
BY DEF KernelType, Reap, KStates, PGids

LEMMA DonotwaitType ==
    ASSUME TypeOK, NEW lost, donotwait(lost)
    PROVE  /\ kstate' \in [Pids -> KStates] /\ kpgid' \in [Pids -> PGids]
           /\ rec' \in [Pids -> Proc] /\ pend' \in BOOLEAN
<1>1. kstate' \in [Pids -> KStates] /\ kpgid' \in [Pids -> PGids]
  BY ReapType, TypeParts DEF donotwait
<1>2. \A p \in Pids : rec[p] \in Proc /\ Died(rec[p]) \in Proc
  BY RecordTypes DEF TypeOK
<1>3. rec' \in [Pids -> Proc]
  BY <1>2 DEF donotwait
<1>4. pend' \in BOOLEAN
  BY DEF donotwait, TypeOK
<1> QED BY <1>1, <1>3, <1>4

LEMMA UnwindType ==
    ASSUME Unwind, ret' \in Statuses
    PROVE  ShellType'
<1>1. todo' \in Seq(Target)
  BY EmptySeq DEF Unwind
<1>2. forks' \in 0..MaxPipe
  BY MaxPipeAssumption DEF Unwind
<1>3. /\ pc' \in PCs
      /\ pc' \in {"enter", "wait", "broke"} => todo' # <<>>
      /\ cmd' \in {NoCmd, "job", "here", "fg", "wait"}
      /\ group' \in PGids /\ pend' \in BOOLEAN
  BY DEF Unwind, PCs, PGids
<1> QED BY <1>1, <1>2, <1>3 DEF ShellType

LEMMA TargetTypes == \A p \in Pids : PidTarget(p) \in Target
BY DEF PidTarget, Target, Kinds, PGids
-----------------------------------------------------------------------------
LEMMA InitType == Init => TypeOK
<1> SUFFICES ASSUME Init PROVE TypeOK OBVIOUS
<1>1. KernelType BY DEF Init, KernelType, KStates, PGids, Setups
<1>2. TableType BY DEF Init, TableType, NoProc, Proc, PGids
<1>3. ShellType
  <2>1. todo \in Seq(Target)
    BY EmptySeq DEF Init
  <2>2. forks \in 0..MaxPipe
    BY MaxPipeAssumption DEF Init
  <2>3. /\ pc \in PCs
        /\ pc \in {"enter", "wait", "broke"} => todo # <<>>
        /\ cmd \in {NoCmd, "job", "here", "fg", "wait"}
        /\ group \in PGids /\ pend \in BOOLEAN /\ ret \in Statuses
    BY DEF Init, PCs, PGids, Statuses
  <2> QED BY <2>1, <2>2, <2>3 DEF ShellType
<1> QED BY <1>1, <1>2, <1>3, TypeParts

\* Each group of actions keeps the types.
LEMMA ChildType == TypeOK /\ Child => TypeOK'
<1> SUFFICES ASSUME TypeOK, NEW p \in Pids,
                    ChildSetup(p) \/ ChildExit(p) \/ ChildStop(p) \/ ChildContinue(p)
             PROVE  TypeOK'
  BY DEF Child
<1>1. KernelType /\ TableType /\ ShellType
  BY TypeParts
<1>2. UNCHANGED <<table, shell>>
  BY DEF ChildSetup, ChildExit, ChildStop, ChildContinue, terminal
<1>3. TableType' /\ ShellType'
  BY <1>1, <1>2 DEF TableType, ShellType, table, shell
<1>4. CASE ChildSetup(p)
  <2>1. kpgid' \in [Pids -> PGids]
    BY <1>1, <1>4 DEF ChildSetup, KernelType, PGids, terminal
  <2>2. tty' \in PGids /\ resumed' \in BOOLEAN
    BY <1>1, <1>4, <2>1, ZenonT(60) DEF ChildSetup, KernelType, TableType, Proc, Moved, terminal
  <2> QED BY <1>1, <1>3, <1>4, <2>1, <2>2, TypeParts
          DEF ChildSetup, KernelType, Setups, TypeOK, TableType, ShellType, terminal
<1>5. CASE ChildExit(p)
  <2>1. KernelType' BY <1>1, <1>5 DEF ChildExit, KernelType, KStates, Setups, terminal
  <2> QED BY <1>3, <2>1 DEF TypeOK, KernelType, TableType, ShellType
<1>6. CASE ChildStop(p)
  <2>1. KernelType' BY <1>1, <1>6 DEF ChildStop, KernelType, KStates, terminal
  <2> QED BY <1>3, <2>1 DEF TypeOK, KernelType, TableType, ShellType
<1>7. CASE ChildContinue(p)
  <2>1. KernelType' BY <1>1, <1>7 DEF ChildContinue, KernelType, KStates, terminal
  <2> QED BY <1>3, <2>1 DEF TypeOK, KernelType, TableType, ShellType
<1> QED BY <1>4, <1>5, <1>6, <1>7

LEMMA PromptType == TypeOK /\ Prompt => TypeOK'
<1> SUFFICES ASSUME TypeOK, Prompt PROVE TypeOK'
  OBVIOUS
<1>1. KernelType /\ TableType /\ ShellType
  BY TypeParts
<1>2. CASE checkprocs
  <2>1. \A p \in Pids : rec[p] \in Proc /\ [rec[p] EXCEPT !.haschanged = FALSE] \in Proc
    BY <1>1, RecordTypes DEF TableType
  <2>2. TableType'
    BY <1>1, <1>2, <2>1, RecordTypes DEF checkprocs, Kept, TableType
  <2>3. ShellType'
    BY <1>1, <1>2 DEF checkprocs, ShellType, PCs
  <2>4. KernelType'
    BY <1>1, <1>2 DEF checkprocs, KernelType, kernel, terminal
  <2> QED BY <2>2, <2>3, <2>4 DEF TypeOK, KernelType, TableType, ShellType
<1>3. CASE ReadLine
  <2>1. ShellType' BY <1>1, <1>3 DEF ReadLine, ShellType, PCs
  <2> QED BY <1>1, <1>3, <2>1
          DEF ReadLine, kernel, table, TypeOK, KernelType, TableType, ShellType, terminal
<1>4. CASE EndLine
  <2>1. PICK lost : donotwait(lost)
    BY <1>4 DEF EndLine, terminal
  <2>2. ShellType'
    BY <1>1, <1>4, <2>1, DonotwaitType DEF EndLine, ShellType, PCs, terminal
  <2> QED BY <1>1, <1>4, <2>1, <2>2, DonotwaitType
          DEF EndLine, TypeOK, KernelType, TableType, ShellType, terminal
<1>5. CASE sigchk
  <2>1. ShellType' BY <1>1, <1>5, UnwindType DEF sigchk, ShellType
  <2> QED BY <1>1, <1>5, <2>1
          DEF sigchk, kernel, table, TypeOK, KernelType, TableType, ShellType, terminal
<1> QED BY <1>2, <1>3, <1>4, <1>5 DEF Prompt

\* efork, with a group that is one of the shell's or the child's.
LEMMA EforkType ==
    ASSUME TypeOK, NEW p \in Pids, NEW b \in BOOLEAN, NEW g \in PGids, efork(p, b, g)
    PROVE  KernelType' /\ TableType'
<1>1. KernelType /\ TableType
  BY TypeParts
<1>2. KernelType'
  BY <1>1, ShellAssumption DEF efork, KernelType, KStates, Setups, PGids, terminal
<1>3. mkproc(b, IF Interactive THEN g ELSE Shell) \in Proc
  BY RecordTypes DEF PGids
<1>4. TableType'
  BY <1>1, <1>3 DEF efork, TableType
<1> QED BY <1>2, <1>4

LEMMA PushType ==
    ASSUME NEW p \in Pids, NEW s \in Seq(Target)
    PROVE  <<PidTarget(p)>> \o s \in Seq(Target) /\ <<PidTarget(p)>> \o s # <<>>
<1>1. PidTarget(p) \in Target
  BY TargetTypes
<1>2. <<PidTarget(p)>> \in Seq(Target) /\ Len(<<PidTarget(p)>>) = 1
  BY <1>1
<1>3. <<PidTarget(p)>> \o s \in Seq(Target) /\ Len(<<PidTarget(p)>> \o s) = 1 + Len(s)
  BY <1>2
<1>4. Len(s) \in Nat /\ Len(<<>>) = 0
  OBVIOUS
<1> QED BY <1>3, <1>4

LEMMA ForkType == TypeOK /\ Fork => TypeOK'
<1> SUFFICES ASSUME TypeOK, Fork PROVE TypeOK'
  OBVIOUS
<1>1. KernelType /\ TableType /\ ShellType
  BY TypeParts
<1>2. ASSUME NEW n \in 1..MaxPipe, StartJob(n) PROVE TypeOK'
  <2>1. todo' \in Seq(Target)
    BY <1>2, EmptySeq DEF StartJob
  <2>2. forks' \in 0..MaxPipe
    BY <1>2, MaxPipeAssumption DEF StartJob
  <2>3. ShellType'
    BY <1>1, <1>2, <2>1, <2>2 DEF StartJob, ShellType, PCs, PGids
  <2> QED BY <1>1, <1>2, <2>3
          DEF StartJob, kernel, table, TypeOK, KernelType, TableType, ShellType, terminal
<1>3. ASSUME NEW p \in Pids, ForkMember(p) PROVE TypeOK'
  <2> DEFINE g == IF group = Shell THEN p ELSE group
  <2>1. g \in PGids
    BY <1>1 DEF ShellType, PGids
  <2>2. efork(p, FALSE, g) /\ group' = g
    BY <1>3 DEF ForkMember
  <2> HIDE DEF g
  <2>3. KernelType' /\ TableType'
    BY <2>1, <2>2, EforkType
  <2>4. todo' \in Seq(Target) /\ todo' # <<>>
    BY <1>1, <1>3, PushType DEF ForkMember, ShellType
  <2>5. forks' \in 0..MaxPipe
    BY <1>1, <1>3, MaxPipeAssumption DEF ForkMember, ShellType
  <2>6. pc' \in PCs /\ cmd' = cmd /\ pend' = pend /\ ret' = ret
    BY <1>3 DEF ForkMember, PCs
  <2>7. ShellType'
    BY <1>1, <2>1, <2>2, <2>4, <2>5, <2>6 DEF ShellType
  <2> QED BY <2>3, <2>7 DEF TypeOK, KernelType, TableType, ShellType
<1>4. ASSUME NEW p \in Pids, StartHere(p) PROVE TypeOK'
  <2>1. KernelType' /\ TableType'
    BY <1>4, EforkType DEF StartHere, PGids
  <2>2. todo' \in Seq(Target)
    BY <1>4, TargetTypes DEF StartHere
  <2>3. forks' \in 0..MaxPipe
    BY <1>4, MaxPipeAssumption DEF StartHere
  <2>4. ShellType'
    BY <1>1, <1>4, <2>2, <2>3 DEF StartHere, ShellType, PCs, PGids
  <2> QED BY <2>1, <2>4 DEF TypeOK, KernelType, TableType, ShellType
<1>5. ASSUME NEW p \in Pids, Background(p) PROVE TypeOK'
  <2>1. KernelType'
    BY <1>1, <1>5 DEF Background, KernelType, KStates, PGids, Setups, terminal
  <2>2. mkproc(TRUE, IF Interactive THEN p ELSE Shell) \in Proc
    BY RecordTypes DEF PGids
  <2>3. TableType'
    BY <1>1, <1>5, <2>2 DEF Background, TableType, terminal
  <2>4. ShellType'
    BY <1>1, <1>5 DEF Background, ShellType, shell, terminal
  <2> QED BY <2>1, <2>3, <2>4 DEF TypeOK, KernelType, TableType, ShellType
<1>6. CASE ForkFail
  <2>1. ShellType' BY <1>1, <1>6, UnwindType DEF ForkFail, ShellType
  <2> QED BY <1>1, <1>6, <2>1
          DEF ForkFail, kernel, table, TypeOK, KernelType, TableType, ShellType, terminal
<1> QED BY <1>2, <1>3, <1>4, <1>5, <1>6 DEF Fork

LEMMA EwaitType == TypeOK /\ Ewait => TypeOK'
<1> SUFFICES ASSUME TypeOK, Ewait PROVE TypeOK'
  OBVIOUS
<1>1. KernelType /\ TableType /\ ShellType
  BY TypeParts
<1>2. CASE EwaitEnter
  <2>1. PICK lost : donotwait(lost)
    BY <1>2 DEF EwaitEnter, terminal
  <2>2. ShellType'
    BY <1>1, <1>2, <2>1, DonotwaitType DEF EwaitEnter, ShellType, PCs, Statuses, terminal
  <2> QED BY <1>1, <1>2, <2>1, <2>2, DonotwaitType
          DEF EwaitEnter, TypeOK, KernelType, TableType, ShellType, terminal
<1>3. ASSUME NEW p \in Pids, EwaitReap(p) PROVE TypeOK'
  <2>1. kstate' \in [Pids -> KStates] /\ kpgid' \in [Pids -> PGids]
    BY <1>1, <1>3, ReapType DEF EwaitReap, terminal
  <2>2. Died(rec[p]) \in Proc
    BY <1>1, RecordTypes DEF TableType
  <2>3. TableType'
    BY <1>1, <1>3, <2>2 DEF EwaitReap, TableType, terminal
  <2>4. ShellType'
    BY <1>1, <1>3 DEF EwaitReap, ShellType, Statuses, terminal
  <2> QED BY <1>1, <1>3, <2>1, <2>3, <2>4
          DEF EwaitReap, TypeOK, KernelType, TableType, ShellType, terminal
<1>4. ASSUME NEW p \in Pids, EwaitStop(p) PROVE TypeOK'
  <2>1. Halted(rec[p]) \in Proc
    BY <1>1, RecordTypes DEF TableType
  <2>2. TableType'
    BY <1>1, <1>4, <2>1 DEF EwaitStop, TableType, terminal
  <2>3. kstate[p] \in Statuses
    BY <1>1, <1>4 DEF EwaitStop, KernelType, KStates, Statuses, terminal
  <2>4. ShellType'
    BY <1>1, <1>4, <2>3 DEF EwaitStop, ShellType, PCs, terminal
  <2> QED BY <1>1, <1>4, <2>2, <2>4
          DEF EwaitStop, TypeOK, KernelType, TableType, ShellType, terminal
<1>5. CASE EwaitNoChild
  <2>1. ShellType' BY <1>1, <1>5, UnwindType DEF EwaitNoChild, ShellType
  <2>2. tty' \in PGids /\ resumed' \in BOOLEAN BY <1>1, <1>5 DEF EwaitNoChild, TakeTty, KernelType, PGids, terminal
  <2> QED BY <1>1, <1>5, <2>1, <2>2
          DEF EwaitNoChild, table, TypeOK, KernelType, TableType, ShellType
<1>6. CASE EwaitReturn
  <2>1. tty' \in PGids /\ resumed' \in BOOLEAN BY <1>1, <1>6 DEF EwaitReturn, TakeTty, KernelType, PGids, terminal
  <2>2. TableType'
    BY <1>1, <1>6, RecordTypes DEF EwaitReturn, TableType, table, Kept
  <2>3. ret' \in Statuses
    BY <1>1, <1>6 DEF EwaitReturn, ShellType
  <2>4. CASE Unwind
    BY <1>1, <1>6, <2>1, <2>2, <2>3, <2>4, UnwindType
       DEF EwaitReturn, TypeOK, KernelType, TableType, ShellType
  <2>5. CASE ~Unwind
    <3>1. todo \in Seq(Target) /\ todo # <<>>
      BY <1>1, <1>6 DEF EwaitReturn, ShellType
    <3>2. Tail(todo) \in Seq(Target)
      BY <3>1
    <3>3. /\ todo' \in Seq(Target)
          /\ pc' \in {"enter", "wait", "broke"} => todo' # <<>>
          /\ pc' \in PCs /\ cmd' \in {cmd, NoCmd}
          /\ group' = Shell /\ pend' = pend /\ forks' = forks
      BY <1>6, <2>5, <3>2, EmptySeq DEF EwaitReturn, More, PCs
    <3>4. ShellType'
      BY <1>1, <2>3, <3>3 DEF ShellType, PGids
    <3> QED BY <1>1, <1>6, <2>1, <2>2, <3>4
            DEF EwaitReturn, TypeOK, KernelType, TableType, ShellType
  <2> QED BY <2>4, <2>5
<1> QED BY <1>2, <1>3, <1>4, <1>5, <1>6 DEF Ewait

LEMMA FaultType == TypeOK /\ Fault => TypeOK'
<1> SUFFICES ASSUME TypeOK, Fault PROVE TypeOK'
  OBVIOUS
<1>1. KernelType /\ TableType /\ ShellType
  BY TypeParts
<1>2. CASE EwaitInterrupted
  <2>1. ShellType' BY <1>1, <1>2, UnwindType DEF EwaitInterrupted, ShellType
  <2>2. tty' \in PGids /\ resumed' \in BOOLEAN BY <1>1, <1>2 DEF EwaitInterrupted, TakeTty, KernelType, PGids, terminal
  <2> QED BY <1>1, <1>2, <2>1, <2>2
          DEF EwaitInterrupted, table, TypeOK, KernelType, TableType, ShellType
<1>3. CASE ShellSignal
  <2>1. ShellType' BY <1>1, <1>3 DEF ShellSignal, ShellType
  <2> QED BY <1>1, <1>3, <2>1
          DEF ShellSignal, kernel, table, TypeOK, KernelType, TableType, ShellType, terminal
<1>4. ASSUME NEW p \in Pids, EwaitLate(p) PROVE TypeOK'
  <2>1. ShellType' BY <1>1, <1>4, UnwindType DEF EwaitLate, ShellType
  <2>2. tty' \in PGids /\ resumed' \in BOOLEAN BY <1>1, <1>4 DEF EwaitLate, TakeTty, KernelType, PGids, terminal
  <2>3. kstate' \in [Pids -> KStates] /\ kpgid' \in [Pids -> PGids]
    BY <1>1, <1>4, ReapType DEF EwaitLate, KernelType
  <2>4. knote' \in [Pids -> BOOLEAN]
    BY <1>1, <1>4 DEF EwaitLate, KernelType
  <2> QED BY <1>1, <1>4, <2>1, <2>2, <2>3, <2>4
          DEF EwaitLate, table, TypeOK, KernelType, TableType, ShellType
<1> QED BY <1>2, <1>3, <1>4 DEF Fault

LEMMA ContinueType ==
    ASSUME KernelType, NEW M, Continue(M)
    PROVE  kstate' \in [Pids -> KStates] /\ knote' \in [Pids -> BOOLEAN]
BY DEF KernelType, Continue, KStates

LEMMA PutType ==
    ASSUME TableType, NEW M, NEW b \in BOOLEAN, Put(M, b)
    PROVE  rec' \in [Pids -> Proc]
<1>1. \A q \in Pids : rec[q] \in Proc /\ [rec[q] EXCEPT !.background = b, !.stopped = FALSE] \in Proc
  BY RecordTypes DEF TableType
<1> QED BY <1>1 DEF Put

LEMMA BuiltinType == TypeOK /\ Builtin => TypeOK'
<1> SUFFICES ASSUME TypeOK, Builtin PROVE TypeOK'
  OBVIOUS
<1>1. KernelType /\ TableType /\ ShellType
  BY TypeParts
<1>2. ASSUME NEW t \in Target, Wait(t) PROVE TypeOK'
  <2>1. todo' \in Seq(Target) /\ todo' # <<>>
    BY <1>2 DEF Wait
  <2>2. ShellType'
    BY <1>1, <1>2, <2>1 DEF Wait, ShellType, PCs
  <2> QED BY <1>1, <1>2, <2>2
          DEF Wait, kernel, table, TypeOK, KernelType, TableType, ShellType, terminal
<1>3. ASSUME NEW p \in Pids, fg(p) PROVE TypeOK'
  <2>1. kstate' \in [Pids -> KStates] /\ knote' \in [Pids -> BOOLEAN]
    BY <1>1, <1>3, ContinueType DEF fg, terminal
  <2>2. rec' \in [Pids -> Proc]
    BY <1>1, <1>3, PutType DEF fg, terminal
  <2>3. tty' \in PGids /\ resumed' \in BOOLEAN
    <3>1. rec[p].pgid \in PGids BY <1>1 DEF TableType, Proc
    <3> QED BY <1>1, <1>3, <3>1 DEF fg, KernelType, terminal
  <2>4. PICK s \in Orders(Members(p)) : todo' = [i \in DOMAIN s |-> PidTarget(s[i])]
    BY <1>3 DEF fg, terminal
  <2> DEFINE n == Cardinality(Members(p))
  <2>5. n \in Nat
    <3>1. Members(p) \subseteq Pids
      BY <1>1 DEF Members, TableType
    <3>2. IsFiniteSet(Members(p))
      BY <3>1, PidsAssumption, FS_Subset
    <3> QED BY <3>2, FS_CardinalityType
  <2>6. s \in [1..n -> Members(p)] /\ p \in Members(p)
    BY <1>3, <2>4 DEF Orders, fg, Members, terminal
  <2>7. PICK i \in 1..n : s[i] = p
    BY <2>4, <2>6 DEF Orders
  <2>8. \A q \in Members(p) : PidTarget(q) \in Target
    BY <1>1, TargetTypes DEF Members, TableType
  <2>9. todo' \in [1..n -> Target] /\ n >= 1
    BY <2>4, <2>5, <2>6, <2>7, <2>8
  <2>10. todo' \in Seq(Target) /\ Len(todo') = n
    BY <2>5, <2>9
  <2>11. todo' # <<>>
    BY <2>9, <2>10
  <2>12. ShellType'
    BY <1>1, <1>3, <2>10, <2>11 DEF fg, ShellType, PCs, terminal
  <2> QED BY <1>1, <1>3, <2>1, <2>2, <2>3, <2>12
          DEF fg, TypeOK, KernelType, TableType, ShellType, terminal
<1>4. ASSUME NEW p \in Pids, bg(p) PROVE TypeOK'
  <2>1. kstate' \in [Pids -> KStates] /\ knote' \in [Pids -> BOOLEAN]
    BY <1>1, <1>4, ContinueType DEF bg, terminal
  <2>2. rec' \in [Pids -> Proc]
    BY <1>1, <1>4, PutType DEF bg, terminal
  <2> QED BY <1>1, <1>4, <2>1, <2>2
          DEF bg, shell, TypeOK, KernelType, TableType, ShellType, terminal
<1> QED BY <1>2, <1>3, <1>4 DEF Builtin

LEMMA StutterType == TypeOK /\ UNCHANGED vars => TypeOK'
BY DEF TypeOK, vars, kernel, table, shell, terminal

\* Every variable keeps its type, and the shell is inside ewait only with a
\* target to wait for (proc.c:244-291, prim-io.c:271-277).
THEOREM TypeCorrect == Spec => []TypeOK
<1>1. Init => TypeOK
  BY InitType
<1>2. TypeOK /\ [Next]_vars => TypeOK'
  BY ChildType, PromptType, ForkType, EwaitType, FaultType, BuiltinType, StutterType DEF Next
<1> QED BY <1>1, <1>2, PTL DEF Spec
-----------------------------------------------------------------------------
(***************************************************************************)
(* The process table and the kernel                                        *)
(***************************************************************************)

LEMMA DonotwaitKeepsChildren ==
    ASSUME TypeOK, NoUnrecordedChild, NEW lost, donotwait(lost), proclist' = proclist
    PROVE  NoUnrecordedChild'
<1> SUFFICES ASSUME NEW p \in Pids, kstate'[p] # "none"
             PROVE  p \in proclist' /\ rec'[p].alive
  BY DEF NoUnrecordedChild
<1>1. p \notin Finished /\ kstate[p] # "none"
  BY DEF donotwait, Reap
<1>2. rec'[p] = rec[p]
  BY <1>1 DEF donotwait
<1> QED BY <1>1, <1>2 DEF NoUnrecordedChild

\* A step that changes neither the records nor which children exist.
LEMMA SameChildren ==
    ASSUME NoUnrecordedChild,
           UNCHANGED table,
           \A p \in Pids : kstate'[p] # "none" => kstate[p] # "none"
    PROVE  NoUnrecordedChild'
BY DEF NoUnrecordedChild, table

LEMMA NoUnrecordedChildStep ==
    TypeOK /\ NoUnrecordedChild /\ [Next]_vars => NoUnrecordedChild'
<1> SUFFICES ASSUME TypeOK, NoUnrecordedChild, [Next]_vars
             PROVE  NoUnrecordedChild'
  OBVIOUS
<1> USE DEF KStates
<1>1. /\ kstate \in [Pids -> KStates] /\ rec \in [Pids -> Proc]
      /\ proclist \subseteq Pids
  BY DEF TypeOK
<1>2. ASSUME NEW p \in Pids,
             ChildSetup(p) \/ ChildExit(p) \/ ChildStop(p) \/ ChildContinue(p)
      PROVE  NoUnrecordedChild'
  BY <1>1, <1>2, SameChildren
     DEF ChildSetup, ChildExit, ChildStop, ChildContinue, Stopped, Zombies
<1>3. CASE checkprocs
  BY <1>1, <1>3 DEF checkprocs, kernel, Kept, NoUnrecordedChild, Proc
<1>4. CASE ReadLine \/ sigchk \/ ForkFail \/ ShellSignal \/ EwaitNoChild \/ EwaitInterrupted
  BY <1>4, SameChildren
     DEF ReadLine, sigchk, ForkFail, ShellSignal, EwaitNoChild, EwaitInterrupted, kernel
<1>5. CASE EndLine \/ EwaitEnter
  BY <1>5, DonotwaitKeepsChildren DEF EndLine, EwaitEnter
<1>6. ASSUME NEW p \in Pids, NEW b, NEW g, efork(p, b, g) PROVE NoUnrecordedChild'
  BY <1>1, <1>6 DEF efork, mkproc, NoUnrecordedChild
<1>7. ASSUME NEW p \in Pids, ForkMember(p) \/ StartHere(p) PROVE NoUnrecordedChild'
  BY <1>6, <1>7 DEF ForkMember, StartHere
<1>8. ASSUME NEW p \in Pids, Background(p) PROVE NoUnrecordedChild'
  BY <1>1, <1>8 DEF Background, mkproc, NoUnrecordedChild
<1>9. ASSUME NEW n \in 1..MaxPipe, StartJob(n) PROVE NoUnrecordedChild'
  BY <1>9, SameChildren DEF StartJob, kernel
<1>10. ASSUME NEW p \in Pids, EwaitReap(p) PROVE NoUnrecordedChild'
  BY <1>1, <1>10 DEF EwaitReap, Reap, NoUnrecordedChild
<1>11. ASSUME NEW p \in Pids, EwaitLate(p) PROVE NoUnrecordedChild'
  BY <1>1, <1>11, SameChildren DEF EwaitLate, Reap
<1>12. ASSUME NEW p \in Pids, EwaitStop(p) PROVE NoUnrecordedChild'
  BY <1>1, <1>12 DEF EwaitStop, Halted, NoUnrecordedChild, Proc
<1>13. CASE EwaitReturn
  BY <1>1, <1>13 DEF EwaitReturn, table, Kept, NoUnrecordedChild
<1>14. ASSUME NEW t \in Target, Wait(t) PROVE NoUnrecordedChild'
  BY <1>14, SameChildren DEF Wait, kernel
<1>15. ASSUME NEW M, NEW b, Put(M, b), Continue(M), proclist' = proclist
       PROVE  NoUnrecordedChild'
  BY <1>1, <1>15 DEF Put, Continue, NoUnrecordedChild, Proc, Stopped
<1>16. ASSUME NEW p \in Pids, fg(p) \/ bg(p) PROVE NoUnrecordedChild'
  BY <1>15, <1>16 DEF fg, bg
<1>17. CASE UNCHANGED vars
  BY <1>17, SameChildren DEF vars, kernel
<1> QED
  BY <1>2, <1>3, <1>4, <1>5, <1>7, <1>8, <1>9, <1>10, <1>11, <1>12, <1>13, <1>14, <1>16, <1>17
     DEF Next, Child, Prompt, Fork, Ewait, Fault, Builtin

\* Whatever signals and failing forks do, a child the kernel holds for the shell
\* has a live record on proclist (proc.c:101-126, 200-227, 449-472).
THEOREM ChildrenRecorded == Spec => []NoUnrecordedChild
<1>1. Init => NoUnrecordedChild
  BY DEF Init, NoUnrecordedChild
<1> QED BY <1>1, NoUnrecordedChildStep, TypeCorrect, PTL DEF Spec
-----------------------------------------------------------------------------
\* The converse of NoUnrecordedChild: a live record is a child the kernel holds.
NoGhost == \A p \in proclist : rec[p].alive => kstate[p] # "none"

LEMMA MatchIsBoth ==
    TypeOK => (RecordsMatchKernel <=> NoUnrecordedChild /\ NoGhost)
BY DEF TypeOK, RecordsMatchKernel, NoUnrecordedChild, NoGhost

LEMMA DonotwaitNoGhost ==
    ASSUME TypeOK, NoGhost, "late" \notin Faults, NEW lost, donotwait(lost),
           proclist' = proclist
    PROVE  NoGhost'
<1>1. \A p \in Finished : rec'[p] = Died(rec[p])
  BY DEF donotwait, Finished, TypeOK
<1>2. \A p \in Finished : ~rec'[p].alive
  BY <1>1, ZenonT(60) DEF Died, TypeOK, Proc, Finished
<1>3. \A p \in Pids \ Finished : rec'[p] = rec[p] /\ kstate'[p] = kstate[p]
  BY DEF donotwait, Reap
<1> QED BY <1>2, <1>3 DEF NoGhost, TypeOK

LEMMA SameLives ==
    ASSUME NoGhost,
           UNCHANGED table,
           \A p \in Pids : kstate[p] # "none" => kstate'[p] # "none",
           proclist \subseteq Pids
    PROVE  NoGhost'
BY DEF NoGhost, table

LEMMA NoGhostStep ==
    "late" \notin Faults /\ TypeOK /\ NoGhost /\ [Next]_vars => NoGhost'
<1> SUFFICES ASSUME "late" \notin Faults, TypeOK, NoGhost, [Next]_vars
             PROVE  NoGhost'
  OBVIOUS
<1>1. /\ kstate \in [Pids -> KStates] /\ rec \in [Pids -> Proc]
      /\ proclist \subseteq Pids
  BY DEF TypeOK
<1>2. ASSUME NEW p \in Pids,
             ChildSetup(p) \/ ChildExit(p) \/ ChildStop(p) \/ ChildContinue(p)
      PROVE  NoGhost'
  BY <1>1, <1>2, SameLives
     DEF ChildSetup, ChildExit, ChildStop, ChildContinue, Stopped, Zombies
<1>3. CASE checkprocs
  BY <1>1, <1>3 DEF checkprocs, kernel, Kept, NoGhost, Proc
<1>4. CASE ReadLine \/ sigchk \/ ForkFail \/ ShellSignal \/ EwaitNoChild \/ EwaitInterrupted
  BY <1>1, <1>4, SameLives
     DEF ReadLine, sigchk, ForkFail, ShellSignal, EwaitNoChild, EwaitInterrupted, kernel
<1>5. CASE EndLine \/ EwaitEnter
  BY <1>5, DonotwaitNoGhost DEF EndLine, EwaitEnter
<1>6. ASSUME NEW p \in Pids, NEW b, NEW g, efork(p, b, g) PROVE NoGhost'
  BY <1>1, <1>6 DEF efork, NoGhost
<1>7. ASSUME NEW p \in Pids, ForkMember(p) \/ StartHere(p) PROVE NoGhost'
  BY <1>6, <1>7 DEF ForkMember, StartHere
<1>8. ASSUME NEW p \in Pids, Background(p) PROVE NoGhost'
  BY <1>1, <1>8 DEF Background, NoGhost
<1>9. ASSUME NEW n \in 1..MaxPipe, StartJob(n) PROVE NoGhost'
  BY <1>1, <1>9, SameLives DEF StartJob, kernel
<1>10. ASSUME NEW p \in Pids, EwaitReap(p) PROVE NoGhost'
  <2>1. rec' = [rec EXCEPT ![p] = Died(rec[p])] /\ proclist' = proclist
    BY <1>10 DEF EwaitReap
  <2>2. ~rec'[p].alive
    BY <1>1, <2>1 DEF Died, Proc
  <2>3. \A q \in Pids \ {p} : rec'[q] = rec[q] /\ kstate'[q] = kstate[q]
    BY <1>1, <1>10, <2>1 DEF EwaitReap, Reap
  <2> QED BY <1>1, <2>1, <2>2, <2>3 DEF NoGhost
<1>11. ASSUME NEW p \in Pids, EwaitStop(p) PROVE NoGhost'
  BY <1>1, <1>11 DEF EwaitStop, Halted, NoGhost, Proc
<1>12. CASE EwaitReturn
  BY <1>1, <1>12 DEF EwaitReturn, table, Kept, NoGhost
<1>13. ASSUME NEW t \in Target, Wait(t) PROVE NoGhost'
  BY <1>1, <1>13, SameLives DEF Wait, kernel
<1>14. ASSUME NEW M, NEW b, Put(M, b), Continue(M), proclist' = proclist
       PROVE  NoGhost'
  BY <1>1, <1>14 DEF Put, Continue, NoGhost, Proc
<1>15. ASSUME NEW p \in Pids, fg(p) \/ bg(p) PROVE NoGhost'
  BY <1>14, <1>15 DEF fg, bg
<1>16. CASE UNCHANGED vars
  BY <1>1, <1>16, SameLives DEF vars, kernel
<1>17. ~ \E p \in Pids : EwaitLate(p)
  BY DEF EwaitLate
<1> QED
  BY <1>2, <1>3, <1>4, <1>5, <1>7, <1>8, <1>9, <1>10, <1>11, <1>12, <1>13, <1>15, <1>16, <1>17
     DEF Next, Child, Prompt, Fork, Ewait, Fault, Builtin

\* Unless a signal longjmps over a status that waitpid has returned, the live
\* records and the kernel's children are the same (proc.c:211-274): ewait waits
\* for nothing that is gone, and no process is collected behind its record.
THEOREM RecordsMatch == "late" \notin Faults => (Spec => []RecordsMatchKernel)
<1> SUFFICES ASSUME "late" \notin Faults PROVE Spec => []RecordsMatchKernel
  OBVIOUS
<1>1. Init => NoGhost
  BY DEF Init, NoGhost
<1>2. TypeOK /\ NoGhost /\ [Next]_vars => NoGhost'
  BY NoGhostStep
<1>3. Spec => []NoGhost
  BY <1>1, <1>2, TypeCorrect, PTL DEF Spec
<1> QED BY <1>3, TypeCorrect, ChildrenRecorded, MatchIsBoth, PTL
-----------------------------------------------------------------------------
(***************************************************************************)
(* Stopped processes                                                       *)
(***************************************************************************)

LEMMA StoppedStep == TypeOK /\ StoppedIsBackground /\ [Next]_vars => StoppedIsBackground'
<1> SUFFICES ASSUME TypeOK, StoppedIsBackground, [Next]_vars
             PROVE  StoppedIsBackground'
  OBVIOUS
<1>1. rec \in [Pids -> Proc] /\ proclist \subseteq Pids
  BY DEF TypeOK
<1>2. CASE UNCHANGED table
  BY <1>2 DEF StoppedIsBackground, table
<1>3. CASE checkprocs
  BY <1>1, <1>3 DEF checkprocs, Kept, StoppedIsBackground, Proc
<1>4. ASSUME NEW lost, donotwait(lost), proclist' = proclist PROVE StoppedIsBackground'
  BY <1>1, <1>4 DEF donotwait, Died, StoppedIsBackground, Proc
<1>5. ASSUME NEW p \in Pids, NEW b, NEW g, efork(p, b, g) PROVE StoppedIsBackground'
  BY <1>1, <1>5 DEF efork, mkproc, StoppedIsBackground
<1>6. ASSUME NEW p \in Pids, Background(p) PROVE StoppedIsBackground'
  BY <1>1, <1>6 DEF Background, mkproc, StoppedIsBackground
<1>7. ASSUME NEW p \in Pids, EwaitReap(p) PROVE StoppedIsBackground'
  BY <1>1, <1>7 DEF EwaitReap, Died, StoppedIsBackground, Proc
<1>8. ASSUME NEW p \in Pids, EwaitStop(p) PROVE StoppedIsBackground'
  BY <1>1, <1>8 DEF EwaitStop, Halted, StoppedIsBackground, Proc
<1>9. CASE EwaitReturn
  BY <1>1, <1>9 DEF EwaitReturn, table, Kept, StoppedIsBackground
<1>10. ASSUME NEW p \in Pids, NEW b \in BOOLEAN, Put(Members(p), b), proclist' = proclist
       PROVE  StoppedIsBackground'
  BY <1>1, <1>10 DEF Put, StoppedIsBackground, Proc
<1>11. ASSUME NEW p \in Pids, fg(p) \/ bg(p) PROVE StoppedIsBackground'
  BY <1>10, <1>11 DEF fg, bg
<1>12. CASE EndLine \/ EwaitEnter
  BY <1>4, <1>12 DEF EndLine, EwaitEnter
<1>13. ASSUME NEW p \in Pids, ForkMember(p) \/ StartHere(p) PROVE StoppedIsBackground'
  BY <1>5, <1>13 DEF ForkMember, StartHere
<1> QED
  BY <1>2, <1>3, <1>6, <1>7, <1>8, <1>9, <1>11, <1>12, <1>13
     DEF Next, Child, Prompt, Fork, Ewait, Fault, Builtin, vars,
         ChildSetup, ChildExit, ChildStop, ChildContinue, ReadLine, sigchk, ForkFail,
         StartJob, EwaitNoChild, EwaitInterrupted, ShellSignal, EwaitLate, Wait

\* A process recorded as stopped is a background process (proc.c:260-265,
\* 354-360, 387-393), whatever was interrupted on the way.
THEOREM StoppedBackground == Spec => []StoppedIsBackground
<1>1. Init => StoppedIsBackground
  BY DEF Init, StoppedIsBackground
<1> QED BY <1>1, StoppedStep, TypeCorrect, PTL DEF Spec
-----------------------------------------------------------------------------
(***************************************************************************)
(* What ewait waits for                                                    *)
(***************************************************************************)

\* A command is being run that has children to fork or to wait for.
Busy == {"fork", "enter", "wait", "broke"}

\* A live record that is not of a background process.
Foreground(p) == p \in proclist /\ rec[p].alive /\ ~rec[p].background

\* The ewait calls a job, a here document or fg still has to begin are for
\* different processes, each one live and in the foreground.
TodoRight ==
    pc \in Busy /\ cmd # "wait" =>
        /\ \A i \in DOMAIN todo :
              /\ todo[i].kind = "pid" /\ todo[i].id \in Pids
              /\ i > 1 \/ pc \in {"fork", "enter"} => Foreground(todo[i].id)
        /\ \A i, j \in DOMAIN todo : todo[i].id = todo[j].id => i = j

\* The one under way waits for a process that was in the foreground and is live
\* as long as no status has been returned.
HeadRight ==
    cmd # "wait" =>
        /\ pc = "wait" => /\ ~rec[Head(todo).id].background
                          /\ ret = "uninit" => Foreground(Head(todo).id)
        /\ pc = "broke" => ret # "uninit"

WaitInv == TodoRight /\ HeadRight

LEMMA PushElements ==
    ASSUME NEW p \in Pids, NEW s \in Seq(Target), NEW t, t = <<PidTarget(p)>> \o s
    PROVE  /\ t \in Seq(Target) /\ Len(t) = Len(s) + 1
           /\ t[1] = PidTarget(p)
           /\ \A i \in 1..Len(t) : i > 1 => i - 1 \in 1..Len(s) /\ t[i] = s[i - 1]
<1>1. PidTarget(p) \in Target
  BY TargetTypes
<1> DEFINE one == <<PidTarget(p)>>
<1>2. one \in Seq(Target) /\ Len(one) = 1 /\ one[1] = PidTarget(p)
  BY <1>1
<1> HIDE DEF one
<1>3. /\ one \o s \in Seq(Target) /\ Len(one \o s) = Len(one) + Len(s)
      /\ \A i \in 1..Len(one) + Len(s) :
            (one \o s)[i] = IF i <= Len(one) THEN one[i] ELSE s[i - Len(one)]
  BY <1>2, ConcatProperties, Zenon
<1>4. t = one \o s
  BY DEF one
<1>5. Len(s) \in Nat
  OBVIOUS
<1> QED BY <1>2, <1>3, <1>4, <1>5

LEMMA TailElements ==
    ASSUME NEW s \in Seq(Target), s # <<>>
    PROVE  /\ 1 \in DOMAIN s /\ Head(s) = s[1]
           /\ Tail(s) \in Seq(Target) /\ Len(Tail(s)) = Len(s) - 1
           /\ \A i \in DOMAIN Tail(s) : i + 1 \in DOMAIN s /\ Tail(s)[i] = s[i + 1]
OBVIOUS

\* The head of the list while ewait runs.
LEMMA HeadTarget ==
    ASSUME TypeOK, pc \in {"enter", "wait", "broke"}
    PROVE  todo \in Seq(Target) /\ todo # <<>> /\ 1 \in DOMAIN todo /\ Head(todo) = todo[1]
BY TailElements DEF TypeOK

\* ewait for a pid reaps or stops that process and no other.
LEMMA HeadIsWaited ==
    ASSUME TypeOK, TodoRight, pc = "wait", cmd # "wait"
    PROVE  /\ Head(todo).kind = "pid" /\ Head(todo).id \in Pids
           /\ \A p \in Waitable(Head(todo)) : p = Head(todo).id
           /\ \A p \in Matching(Head(todo)) : p = Head(todo).id
           /\ Foreground(Head(todo).id) => Head(todo).id \in Matching(Head(todo))
BY HeadTarget DEF TodoRight, Waitable, Matching, Foreground, Busy

\* Steps that end the command, or begin one that may wait for anything.
LEMMA IdleWait ==
    ASSUME pc' \notin Busy \/ cmd' = "wait" PROVE WaitInv'
BY DEF WaitInv, TodoRight, HeadRight, Busy

\* Steps that change neither the command nor a record.
LEMMA SameWait ==
    ASSUME WaitInv, UNCHANGED <<table, pc, cmd, todo, ret>> PROVE WaitInv'
BY DEF WaitInv, TodoRight, HeadRight, Foreground, table

LEMMA DonotwaitForeground ==
    ASSUME TypeOK, NEW lost, donotwait(lost), proclist' = proclist
    PROVE  /\ \A p \in Pids : Foreground(p) <=> Foreground(p)'
           /\ \A p \in Pids : rec'[p].background = rec[p].background
<1>1. ASSUME NEW p \in Pids
      PROVE  /\ Foreground(p) <=> Foreground(p)'
             /\ rec'[p].background = rec[p].background
  <2>1. rec'[p] = IF p \in Finished \ lost THEN Died(rec[p]) ELSE rec[p]
    BY DEF donotwait
  <2>2. rec[p] \in Proc
    BY DEF TypeOK
  <2>3. Died(rec[p]).background = rec[p].background
    BY <2>2 DEF Died, Proc
  <2>4. p \in Finished => rec[p].background
    BY DEF Finished
  <2> QED BY <2>1, <2>3, <2>4 DEF Foreground
<1> QED BY <1>1

LEMMA ForkWait ==
    ASSUME TypeOK, WaitInv, NEW p \in Pids, NEW g, efork(p, FALSE, g),
           todo' = <<PidTarget(p)>> \o todo,
           pc' \in {"fork", "enter"},
           (pc \in Busy /\ cmd # "wait") \/ todo = <<>>,
           pc = "fork" \/ todo = <<>>
    PROVE  WaitInv'
<1>1. todo \in Seq(Target) /\ rec \in [Pids -> Proc] /\ proclist \subseteq Pids
  BY DEF TypeOK
<1>2. /\ todo' \in Seq(Target) /\ Len(todo') = Len(todo) + 1
      /\ todo'[1] = PidTarget(p)
      /\ \A i \in 1..Len(todo') :
            i > 1 => i - 1 \in 1..Len(todo) /\ todo'[i] = todo[i - 1]
  BY <1>1, PushElements
<1>3. p \notin proclist /\ Foreground(p)'
  BY <1>1 DEF efork, Fresh, Foreground, mkproc
<1>4. \A q \in Pids : Foreground(q) => q # p /\ Foreground(q)'
  BY <1>1, <1>3 DEF efork, Foreground
<1>5. \A i \in 1..Len(todo) :
         todo[i].kind = "pid" /\ todo[i].id \in Pids /\ Foreground(todo[i].id)
  BY <1>1 DEF WaitInv, TodoRight
<1>6. \A i, j \in 1..Len(todo) : todo[i].id = todo[j].id => i = j
  BY <1>1 DEF WaitInv, TodoRight
<1>7. PidTarget(p).kind = "pid" /\ PidTarget(p).id = p
  BY DEF PidTarget
<1>8. DOMAIN todo' = 1..Len(todo') /\ Len(todo) \in Nat
  BY <1>1, <1>2
<1>9. \A i \in DOMAIN todo' : /\ todo'[i].kind = "pid" /\ todo'[i].id \in Pids
                              /\ Foreground(todo[i].id)'
  <2> SUFFICES ASSUME NEW i \in 1..Len(todo')
               PROVE  /\ todo'[i].kind = "pid" /\ todo'[i].id \in Pids
                      /\ todo'[i].id \in proclist' /\ rec'[todo'[i].id].alive
                      /\ ~rec'[todo'[i].id].background
    BY <1>8 DEF Foreground
  <2>1. CASE i = 1
    BY <2>1, <1>2, <1>3, <1>7 DEF Foreground
  <2>2. CASE i > 1
    BY <2>2, <1>2, <1>4, <1>5, SMTT(40) DEF Foreground
  <2> QED BY <2>1, <2>2, <1>8
<1>10. \A i, j \in DOMAIN todo' : todo'[i].id = todo'[j].id => i = j
  <2> SUFFICES ASSUME NEW i \in 1..Len(todo'), NEW j \in 1..Len(todo'), i < j,
                      todo'[i].id = todo'[j].id
               PROVE  FALSE
    BY <1>8
  <2>1. todo'[j] = todo[j - 1] /\ j - 1 \in 1..Len(todo)
    BY <1>2
  <2>2. CASE i = 1
    BY <2>1, <2>2, <1>2, <1>4, <1>5, <1>7
  <2>3. CASE i > 1
    <3>1. todo'[i] = todo[i - 1] /\ i - 1 \in 1..Len(todo)
      BY <2>3, <1>2
    <3>2. i - 1 = j - 1
      BY <2>1, <3>1, <1>6
    <3> QED BY <3>2
  <2> QED BY <2>2, <2>3
<1> QED BY <1>9, <1>10 DEF WaitInv, TodoRight, HeadRight, Foreground

\* Every order of the members of a group has each of them once.
LEMMA OrdersOnce ==
    ASSUME NEW M, IsFiniteSet(M), NEW s \in Orders(M)
    PROVE  /\ Cardinality(M) \in Nat /\ s \in [1..Cardinality(M) -> M]
           /\ \A q \in M : \E i \in 1..Cardinality(M) : s[i] = q
           /\ \A i, j \in 1..Cardinality(M) : s[i] = s[j] => i = j
<1> DEFINE n == Cardinality(M)
<1>1. n \in Nat
  BY FS_CardinalityType
<1>2. s \in [1..n -> M] /\ \A q \in M : \E i \in 1..n : s[i] = q
  BY DEF Orders
<1>3. IsFiniteSet(1..n) /\ Cardinality(1..n) = n
  <2>1. IsFiniteSet(1..n) /\ Cardinality(1..n) = IF 1 > n THEN 0 ELSE n - 1 + 1
    BY <1>1, FS_Interval
  <2> QED BY <1>1, <2>1
<1>4. s \in Surjection(1..n, M)
  BY <1>2 DEF Surjection
<1>5. s \in Injection(1..n, M)
  BY <1>3, <1>4, FS_SurjSameCardinalityImpliesInj
<1>6. \A i, j \in 1..n : s[i] = s[j] => i = j
  BY <1>5 DEF Injection, IsInjective
<1> QED BY <1>1, <1>2, <1>6

\* PRIM(fg): the ewait calls are for the members of the group, each once.
LEMMA FgTargets ==
    ASSUME TypeOK, NEW p \in Pids, fg(p)
    PROVE  /\ todo' \in Seq(Target)
           /\ \A i \in DOMAIN todo' : todo'[i].kind = "pid" /\ todo'[i].id \in Members(p)
           /\ \A q \in Members(p) : \E i \in DOMAIN todo' : todo'[i].id = q
           /\ \A i, j \in DOMAIN todo' : todo'[i].id = todo'[j].id => i = j
<1>1. proclist \subseteq Pids
  BY DEF TypeOK
<1>2. Members(p) \subseteq Pids /\ IsFiniteSet(Members(p))
  <2>1. Members(p) \subseteq Pids
    BY <1>1 DEF Members
  <2> QED BY <2>1, PidsAssumption, FS_Subset
<1>3. PICK s \in Orders(Members(p)) : todo' = [i \in DOMAIN s |-> PidTarget(s[i])]
  BY DEF fg
<1> DEFINE n == Cardinality(Members(p))
<1>4. /\ n \in Nat /\ s \in [1..n -> Members(p)]
      /\ \A q \in Members(p) : \E i \in 1..n : s[i] = q
      /\ \A i, j \in 1..n : s[i] = s[j] => i = j
  BY <1>2, OrdersOnce
<1> HIDE DEF n
<1>5. \A q : PidTarget(q).kind = "pid" /\ PidTarget(q).id = q
  BY DEF PidTarget
<1>6. \A i \in 1..n : s[i] \in Members(p) /\ PidTarget(s[i]) \in Target
  BY <1>2, <1>4, TargetTypes
<1>7. DOMAIN todo' = 1..n /\ \A i \in 1..n : todo'[i] = PidTarget(s[i])
  BY <1>3, <1>4
<1>8. todo' \in Seq(Target)
  <2>1. todo' \in [1..n -> Target]
    BY <1>3, <1>4, <1>6
  <2> QED BY <1>4, <2>1
<1> QED BY <1>4, <1>5, <1>6, <1>7, <1>8

\* The members of a group that PRIM(fg) has put in the foreground.
LEMMA FgForeground ==
    ASSUME TypeOK, NEW p \in Pids, fg(p)
    PROVE  /\ \A q \in Members(p) : q \in Pids /\ Foreground(q)'
           /\ \A q \in Pids : Foreground(q)' => q \in Members(p) \/ Foreground(q)
<1>1. rec \in [Pids -> Proc] /\ proclist \subseteq Pids /\ proclist' = proclist
  BY DEF TypeOK, fg
<1>2. \A q \in Pids : rec'[q] = IF q \in Members(p)
                               THEN [rec[q] EXCEPT !.background = FALSE, !.stopped = FALSE]
                               ELSE rec[q]
  BY DEF fg, Put
<1>4. \A q \in Members(p) : q \in Pids /\ q \in proclist /\ rec[q].alive
  BY <1>1 DEF Members
<1>5. ASSUME NEW q \in Members(p) PROVE rec'[q].alive /\ ~rec'[q].background
  <2>1. rec[q] \in Proc /\ rec[q].alive
    BY <1>1, <1>4
  <2>2. rec'[q] = [rec[q] EXCEPT !.background = FALSE, !.stopped = FALSE]
    BY <1>2, <1>4
  <2> QED BY <2>1, <2>2 DEF Proc
<1> QED BY <1>1, <1>2, <1>4, <1>5 DEF Foreground

LEMMA WaitStep == TypeOK /\ WaitInv /\ [Next]_vars => WaitInv'
<1> SUFFICES ASSUME TypeOK, WaitInv, [Next]_vars PROVE WaitInv'
  OBVIOUS
<1>1. /\ todo \in Seq(Target) /\ rec \in [Pids -> Proc] /\ proclist \subseteq Pids
      /\ pc \in {"enter", "wait", "broke"} => todo # <<>>
  BY DEF TypeOK
<1>2. TodoRight /\ HeadRight
  BY DEF WaitInv
<1>3. CASE Child \/ ShellSignal \/ UNCHANGED vars
  BY <1>3, SameWait
     DEF Child, ChildSetup, ChildExit, ChildStop, ChildContinue, ShellSignal, vars, shell
<1>4. CASE Prompt \/ ForkFail \/ EwaitNoChild \/ EwaitInterrupted \/ \E p \in Pids : EwaitLate(p)
  BY <1>4, IdleWait
     DEF Prompt, checkprocs, ReadLine, EndLine, sigchk, ForkFail, EwaitNoChild,
         EwaitInterrupted, EwaitLate, Unwind, Busy
<1>5. ASSUME NEW t \in Target, Wait(t) PROVE WaitInv'
  BY <1>5, IdleWait DEF Wait
<1>6. ASSUME NEW p \in Pids, bg(p) \/ Background(p) PROVE WaitInv'
  BY <1>6, IdleWait DEF bg, Background, shell, Busy
<1>7. ASSUME NEW n \in 1..MaxPipe, StartJob(n) PROVE WaitInv'
  BY <1>7 DEF StartJob, WaitInv, TodoRight, HeadRight
<1>8. ASSUME NEW p \in Pids, StartHere(p) PROVE WaitInv'
  <2>1. /\ todo' = <<PidTarget(p)>> /\ pc' = "fork"
        /\ p \in proclist' /\ rec'[p].alive /\ ~rec'[p].background
    BY <1>1, <1>8 DEF StartHere, efork, mkproc
  <2>2. DOMAIN todo' = {1} /\ todo'[1] = PidTarget(p)
    BY <2>1
  <2> QED BY <2>1, <2>2 DEF WaitInv, TodoRight, HeadRight, Foreground, PidTarget
<1>9. ASSUME NEW p \in Pids, ForkMember(p) PROVE WaitInv'
  <2>1. PICK g : efork(p, FALSE, g)
    BY <1>9 DEF ForkMember
  <2>2. cmd = "wait" \/ cmd # "wait"
    OBVIOUS
  <2>3. CASE cmd = "wait"
    BY <1>9, <2>3, IdleWait DEF ForkMember
  <2>4. CASE cmd # "wait"
    BY <1>9, <2>1, <2>4, ForkWait DEF ForkMember, Busy
  <2> QED BY <2>3, <2>4
<1>10. CASE EwaitEnter
  <2>1. PICK lost : donotwait(lost)
    BY <1>10 DEF EwaitEnter
  <2>2. /\ pc = "enter" /\ pc' = "wait" /\ cmd' = cmd /\ todo' = todo /\ ret' = "uninit"
        /\ proclist' = proclist
    BY <1>10 DEF EwaitEnter
  <2>3. /\ \A p \in Pids : Foreground(p) <=> Foreground(p)'
        /\ \A p \in Pids : rec'[p].background = rec[p].background
    BY <2>1, <2>2, DonotwaitForeground
  <2>4. SUFFICES ASSUME cmd # "wait" PROVE WaitInv'
    BY <2>2, IdleWait
  <2>5. TodoRight'
    BY <1>2, <2>2, <2>3, <2>4 DEF TodoRight, Busy
  <2>6. 1 \in DOMAIN todo /\ Head(todo) = todo[1]
    BY <2>2, HeadTarget
  <2>7. Head(todo).id \in Pids /\ Foreground(Head(todo).id)
    BY <1>2, <2>2, <2>4, <2>6 DEF TodoRight, Busy
  <2>8. Foreground(Head(todo).id)' /\ ~rec'[Head(todo).id].background
    BY <2>2, <2>3, <2>7 DEF Foreground
  <2>9. HeadRight'
    BY <2>2, <2>8 DEF HeadRight
  <2> QED BY <2>5, <2>9 DEF WaitInv
<1>11. ASSUME NEW p \in Pids, EwaitReap(p) PROVE WaitInv'
  <2>1. /\ pc = "wait" /\ pc' = pc /\ cmd' = cmd /\ todo' = todo /\ proclist' = proclist
        /\ rec' = [rec EXCEPT ![p] = Died(rec[p])] /\ ret' \in Zombies
        /\ p \in Waitable(Head(todo))
    BY <1>11 DEF EwaitReap
  <2>2. SUFFICES ASSUME cmd # "wait" PROVE WaitInv'
    BY <2>1, IdleWait
  <2>3. p = Head(todo).id /\ 1 \in DOMAIN todo /\ Head(todo) = todo[1]
    BY <1>2, <2>1, <2>2, HeadIsWaited, HeadTarget
  <2>4. \A q \in Pids : rec'[q].background = rec[q].background
    BY <1>1, <2>1 DEF Died, Proc
  <2>5. \A q \in Pids : q # p /\ Foreground(q) => Foreground(q)'
    BY <1>1, <2>1 DEF Foreground
  <2>6. \A i \in DOMAIN todo : i > 1 => todo[i].id # p
    BY <1>2, <2>1, <2>2, <2>3 DEF TodoRight, Busy
  <2>7. TodoRight'
    BY <1>2, <2>1, <2>2, <2>5, <2>6 DEF TodoRight, Busy
  <2>8. HeadRight'
    BY <1>2, <2>1, <2>2, <2>3, <2>4 DEF HeadRight, Zombies
  <2> QED BY <2>7, <2>8 DEF WaitInv
<1>12. ASSUME NEW p \in Pids, EwaitStop(p) PROVE WaitInv'
  <2>1. /\ pc = "wait" /\ pc' = "broke" /\ cmd' = cmd /\ todo' = todo /\ proclist' = proclist
        /\ rec' = [rec EXCEPT ![p] = Halted(rec[p])] /\ ret' \in Stopped
        /\ p \in Waitable(Head(todo))
    BY <1>12 DEF EwaitStop
  <2>2. SUFFICES ASSUME cmd # "wait" PROVE WaitInv'
    BY <2>1, IdleWait
  <2>3. p = Head(todo).id /\ 1 \in DOMAIN todo /\ Head(todo) = todo[1]
    BY <1>2, <2>1, <2>2, HeadIsWaited, HeadTarget
  <2>4. \A q \in Pids : q # p /\ Foreground(q) => Foreground(q)'
    BY <1>1, <2>1 DEF Foreground
  <2>5. \A i \in DOMAIN todo : i > 1 => todo[i].id # p
    BY <1>2, <2>1, <2>2, <2>3 DEF TodoRight, Busy
  <2>6. TodoRight'
    BY <1>2, <2>1, <2>2, <2>4, <2>5 DEF TodoRight, Busy
  <2>7. HeadRight'
    BY <2>1 DEF HeadRight, Stopped
  <2> QED BY <2>6, <2>7 DEF WaitInv
<1>13. CASE EwaitReturn
  <2>1. pc \in {"wait", "broke"}
    BY <1>13 DEF EwaitReturn
  <2>2. \A q \in Pids : Foreground(q) => Foreground(q)'
    BY <1>1, <1>13 DEF EwaitReturn, Foreground, table, Kept
  <2>3. CASE pc' = "enter" /\ cmd # "wait"
    <3>1. cmd' = cmd /\ todo' = Tail(todo)
      BY <1>13, <2>3 DEF EwaitReturn, Unwind
    <3>2. /\ Tail(todo) \in Seq(Target)
          /\ \A i \in DOMAIN Tail(todo) : i + 1 \in DOMAIN todo /\ Tail(todo)[i] = todo[i + 1]
          /\ \A i \in DOMAIN Tail(todo) : i \in Nat /\ i + 1 > 1
      BY <1>1, <2>1, TailElements
    <3>3. \A i \in DOMAIN Tail(todo) :
             /\ Tail(todo)[i].kind = "pid" /\ Tail(todo)[i].id \in Pids
             /\ Foreground(Tail(todo)[i].id)
      BY <1>2, <2>1, <2>3, <3>2 DEF TodoRight, Busy
    <3>4. \A i, j \in DOMAIN Tail(todo) : Tail(todo)[i].id = Tail(todo)[j].id => i = j
      BY <1>2, <2>1, <2>3, <3>2 DEF TodoRight, Busy
    <3> QED BY <2>2, <2>3, <3>1, <3>3, <3>4 DEF WaitInv, TodoRight, HeadRight, Foreground
  <2>4. CASE ~(pc' = "enter" /\ cmd # "wait")
    <3>1. pc' \in {"prompt", "cmd"} \/ cmd' = "wait"
      BY <1>13, <2>4 DEF EwaitReturn, Unwind
    <3> QED BY <3>1, IdleWait DEF Busy
  <2> QED BY <2>3, <2>4
<1>14. ASSUME NEW p \in Pids, fg(p) PROVE WaitInv'
  <2>1. /\ \A i \in DOMAIN todo' : todo'[i].kind = "pid" /\ todo'[i].id \in Members(p)
        /\ \A i, j \in DOMAIN todo' : todo'[i].id = todo'[j].id => i = j
    BY <1>14, FgTargets
  <2>2. \A q \in Members(p) : q \in Pids /\ q \in proclist' /\ rec'[q].alive /\ ~rec'[q].background
    BY <1>14, FgForeground DEF Foreground
  <2>3. pc' = "enter"
    BY <1>14 DEF fg
  <2> QED BY <2>1, <2>2, <2>3 DEF WaitInv, TodoRight, HeadRight, Foreground
<1> QED
  BY <1>3, <1>4, <1>5, <1>6, <1>7, <1>8, <1>9, <1>10, <1>11, <1>12, <1>13, <1>14
     DEF Next, Fork, Ewait, Fault, Builtin

LEMMA InitWait == Init => WaitInv
BY DEF Init, WaitInv, TodoRight, HeadRight, Busy

LEMMA WaitAlways == Spec => []WaitInv
BY InitWait, WaitStep, TypeCorrect, PTL DEF Spec

\* ewait never returns an uninitialised status to a job, a here document or fg
\* (proc.c:246-290), whatever signals and failing forks come: the process it is
\* asked for is live and in the foreground when it begins.
THEOREM WaitStatus == Spec => []WaitHasStatus
<1>1. TypeOK /\ WaitInv => WaitHasStatus
  <2> SUFFICES ASSUME TypeOK, WaitInv, cmd # "wait",
                      pc = "broke" \/ (pc = "wait" /\ Matching(Head(todo)) = {})
               PROVE  ret # "uninit"
    BY DEF WaitHasStatus
  <2> QED BY HeadIsWaited DEF WaitInv, HeadRight
<1> QED BY <1>1, WaitAlways, TypeCorrect, PTL
-----------------------------------------------------------------------------
(***************************************************************************)
(* The stops of foreground processes                                       *)
(***************************************************************************)

\* The command being run is waiting for p or is going to.
Awaited(p) == pc \in Busy /\ cmd # "wait" /\ \E i \in DOMAIN todo : todo[i].id = p

\* waitpid has yet to report the stop of a stopped process in the foreground
\* that is waited for. (The report of another may have been dropped.)
NoteKept ==
    \A p \in Pids : Foreground(p) /\ Awaited(p) /\ kstate[p] \in Stopped => knote[p]

\* Steps that make the shell wait for no more processes in the foreground, stop
\* none, and lose no stop.
LEMMA SameNotes ==
    ASSUME NoteKept,
           \A q \in Pids : Foreground(q)' /\ Awaited(q)' /\ kstate'[q] \in Stopped =>
               /\ Foreground(q) /\ Awaited(q) /\ kstate[q] \in Stopped
               /\ knote[q] => knote'[q]
    PROVE  NoteKept'
BY DEF NoteKept, Foreground, Awaited

\* The same for steps that leave the command and its ewait calls alone.
LEMMA SameAwaits ==
    ASSUME NoteKept, UNCHANGED <<cmd, todo>>, pc \in Busy <=> pc' \in Busy,
           \A q \in Pids : Foreground(q)' /\ kstate'[q] \in Stopped =>
               /\ Foreground(q) /\ kstate[q] \in Stopped
               /\ knote[q] => knote'[q]
    PROVE  NoteKept'
<1>1. \A q : Awaited(q)' <=> Awaited(q)
  BY DEF Awaited, Busy
<1> QED BY <1>1, SameNotes

\* And for steps after which nothing is waited for that could have stopped.
LEMMA NoAwaits ==
    ASSUME pc' \notin Busy \/ cmd' = "wait" \/ todo' = <<>> PROVE NoteKept'
BY DEF NoteKept, Awaited, Foreground, Busy

LEMMA NoteStep == TypeOK /\ NoteKept /\ [Next]_vars => NoteKept'
<1> SUFFICES ASSUME TypeOK, NoteKept, [Next]_vars PROVE NoteKept'
  OBVIOUS
<1>1. /\ kstate \in [Pids -> KStates] /\ knote \in [Pids -> BOOLEAN]
      /\ rec \in [Pids -> Proc] /\ proclist \subseteq Pids
  BY DEF TypeOK
<1>2. ASSUME NEW p \in Pids, ChildSetup(p) PROVE NoteKept'
  BY <1>2, SameAwaits DEF ChildSetup, table, shell, Foreground
<1>3. ASSUME NEW p \in Pids, ChildExit(p) PROVE NoteKept'
  <2>1. \A q \in Pids : kstate'[q] \in Stopped =>
            kstate[q] \in Stopped /\ knote'[q] = knote[q]
    BY <1>1, <1>3 DEF ChildExit, Zombies, Stopped
  <2> QED BY <1>3, <2>1, SameAwaits DEF ChildExit, table, shell, Foreground
<1>4. ASSUME NEW p \in Pids, ChildStop(p) PROVE NoteKept'
  BY <1>1, <1>4 DEF ChildStop, table, shell, Foreground, Awaited, NoteKept
<1>5. ASSUME NEW p \in Pids, ChildContinue(p) PROVE NoteKept'
  <2>1. \A q \in Pids : kstate'[q] \in Stopped =>
            kstate[q] \in Stopped /\ knote'[q] = knote[q]
    BY <1>1, <1>5 DEF ChildContinue, Stopped
  <2> QED BY <1>5, <2>1, SameAwaits DEF ChildContinue, table, shell, Foreground
<1>6. CASE Prompt \/ ForkFail \/ EwaitNoChild \/ EwaitInterrupted \/ \E p \in Pids : EwaitLate(p)
  BY <1>6, NoAwaits
     DEF Prompt, checkprocs, ReadLine, EndLine, sigchk, ForkFail, EwaitNoChild,
         EwaitInterrupted, EwaitLate, Unwind, Busy
<1>7. ASSUME NEW n \in 1..MaxPipe, StartJob(n) PROVE NoteKept'
  BY <1>7, NoAwaits DEF StartJob
<1>8. ASSUME NEW D, Reap(D) PROVE \A q \in Pids : kstate'[q] \in Stopped => kstate[q] \in Stopped
  BY <1>8 DEF Reap, Stopped
<1>9. CASE EwaitEnter
  <2>1. PICK lost : donotwait(lost)
    BY <1>9 DEF EwaitEnter
  <2>2. proclist' = proclist /\ knote' = knote /\ Reap(Finished)
    BY <1>9, <2>1 DEF EwaitEnter, donotwait
  <2>3. \A q \in Pids : kstate'[q] \in Stopped => kstate[q] \in Stopped
    BY <1>8, <2>2
  <2>4. pc \in Busy /\ pc' \in Busy /\ UNCHANGED <<cmd, todo>>
    BY <1>9 DEF EwaitEnter, Busy
  <2> QED BY <2>1, <2>2, <2>3, <2>4, DonotwaitForeground, SameAwaits
<1>10. ASSUME NEW p \in Pids, NEW b, NEW g, efork(p, b, g), NEW q \in Pids,
               Foreground(q)', kstate'[q] \in Stopped
       PROVE  Foreground(q) /\ kstate[q] \in Stopped /\ q # p /\ knote' = knote
  BY <1>1, <1>10 DEF efork, Foreground, Stopped
<1>11. ASSUME NEW p \in Pids, ForkMember(p) PROVE NoteKept'
  <2>1. /\ pc \in Busy /\ cmd' = cmd /\ todo' = <<PidTarget(p)>> \o todo
        /\ todo \in Seq(Target)
    BY <1>11 DEF ForkMember, Busy, TypeOK
  <2>2. /\ Len(todo') = Len(todo) + 1 /\ todo' \in Seq(Target)
        /\ todo'[1] = PidTarget(p)
        /\ \A i \in 1..Len(todo') :
              i > 1 => i - 1 \in 1..Len(todo) /\ todo'[i] = todo[i - 1]
    BY <2>1, PushElements
  <2>3. ASSUME NEW q \in Pids, q # p, Awaited(q)' PROVE Awaited(q)
    <3>1. PICK i \in 1..Len(todo') : todo'[i].id = q /\ cmd' # "wait"
      BY <2>2, <2>3 DEF Awaited
    <3>2. i > 1
      BY <2>2, <2>3, <3>1 DEF PidTarget
    <3> QED BY <2>1, <2>2, <3>1, <3>2 DEF Awaited
  <2> QED BY <1>10, <1>11, <2>3, SameNotes DEF ForkMember
<1>18. ASSUME NEW p \in Pids, StartHere(p) PROVE NoteKept'
  <2>1. \A q \in Pids : Awaited(q)' => q = p
    BY <1>18 DEF StartHere, Awaited, PidTarget
  <2> QED BY <1>10, <1>18, <2>1, SameNotes DEF StartHere
<1>12. ASSUME NEW p \in Pids, Background(p) PROVE NoteKept'
  BY <1>12, NoAwaits DEF Background, shell, Busy
<1>13. ASSUME NEW p \in Pids, EwaitReap(p) PROVE NoteKept'
  <2>1. /\ Reap({p}) /\ proclist' = proclist /\ knote' = knote
        /\ rec' = [rec EXCEPT ![p] = Died(rec[p])]
    BY <1>13 DEF EwaitReap
  <2>2. \A q \in Pids : Foreground(q)' => Foreground(q)
    BY <1>1, <2>1 DEF Foreground, Died, Proc
  <2> QED BY <1>8, <1>13, <2>1, <2>2, SameAwaits DEF EwaitReap
<1>14. ASSUME NEW p \in Pids, EwaitStop(p) PROVE NoteKept'
  <2>1. /\ proclist' = proclist /\ knote' = [knote EXCEPT ![p] = FALSE] /\ kstate' = kstate
        /\ rec' = [rec EXCEPT ![p] = Halted(rec[p])]
    BY <1>14 DEF EwaitStop
  <2>2. \A q \in Pids : Foreground(q)' => Foreground(q) /\ q # p
    BY <1>1, <2>1 DEF Foreground, Halted, Proc
  <2>3. pc \in Busy /\ pc' \in Busy /\ UNCHANGED <<cmd, todo>>
    BY <1>14 DEF EwaitStop, Busy
  <2> QED BY <1>1, <2>1, <2>2, <2>3, SameAwaits
<1>15. CASE ShellSignal \/ UNCHANGED vars
  BY <1>15, SameAwaits DEF ShellSignal, vars, kernel, table, shell, Foreground
<1>16. CASE EwaitReturn
  <2>1. \A q \in Pids : Foreground(q)' => Foreground(q)
    BY <1>1, <1>16 DEF EwaitReturn, table, Kept, Foreground
  <2>2. pc \in Busy /\ todo \in Seq(Target) /\ todo # <<>>
    BY <1>16 DEF EwaitReturn, Busy, TypeOK
  <2>3. ASSUME pc' \in Busy PROVE cmd' = cmd /\ todo' = Tail(todo)
    BY <1>16, <2>3 DEF EwaitReturn, Unwind, Busy
  <2>4. \A q \in Pids : Awaited(q)' => Awaited(q)
    BY <2>2, <2>3, TailElements DEF Awaited
  <2> QED BY <1>16, <2>1, <2>4, SameNotes DEF EwaitReturn
<1>17. ASSUME NEW p \in Pids, fg(p) PROVE NoteKept'
  <2>1. \A q \in Pids : kstate'[q] \in Stopped => q \notin Members(p)
    BY <1>1, <1>17 DEF fg, Continue, Stopped
  <2>2. \A q \in Pids : Awaited(q)' => q \in Members(p)
    BY <1>17, FgTargets DEF Awaited
  <2> QED BY <2>1, <2>2 DEF NoteKept, Foreground, Awaited
<1>19. ASSUME NEW p \in Pids, bg(p) PROVE NoteKept'
  BY <1>19, NoAwaits DEF bg, shell, Busy
<1>20. ASSUME NEW t \in Target, Wait(t) PROVE NoteKept'
  BY <1>20, NoAwaits DEF Wait
<1> QED
  BY <1>2, <1>3, <1>4, <1>5, <1>6, <1>7, <1>9, <1>11, <1>12, <1>13, <1>14, <1>15, <1>16,
     <1>17, <1>18, <1>19, <1>20
     DEF Next, Child, Prompt, Fork, Ewait, Fault, Builtin

\* Whatever the faults, ewait never sleeps on a stopped foreground process whose
\* stop was already taken (proc.c:252, 354-365): PRIM(fg) continues what it puts
\* in the foreground, ewait puts in the background what it sees stopped, and a
\* command whose ewait dropped a stop to a late signal waits for nothing more.
THEOREM ForegroundAwake == Spec => []ForegroundWaitAwake
<1>1. Init => NoteKept
  BY DEF Init, NoteKept, Foreground
<1>2. TypeOK /\ WaitInv /\ NoteKept => ForegroundWaitAwake
  <2> SUFFICES ASSUME TypeOK, WaitInv, NoteKept, pc = "wait", cmd # "wait",
                      NEW p \in Matching(Head(todo)), kstate[p] \in Stopped
               PROVE  knote[p]
    BY DEF ForegroundWaitAwake
  <2>1. p = Head(todo).id /\ p \in Pids
    BY HeadIsWaited DEF WaitInv
  <2>2. Foreground(p) /\ Awaited(p)
    BY <2>1, HeadTarget DEF WaitInv, HeadRight, Matching, Foreground, Awaited, Busy
  <2> QED BY <2>1, <2>2 DEF NoteKept
<1> QED BY <1>1, <1>2, NoteStep, WaitAlways, TypeCorrect, PTL DEF Spec
-----------------------------------------------------------------------------
(***************************************************************************)
(* A session: the foreground and the terminal                              *)
(***************************************************************************)

\* An interactive shell that no signal interrupts and whose forks succeed, and
\* that runs no here documents: a signal thrown when the command of PRIM(here)
\* dies leaves its writer unwaited for, in the foreground.
Session == Interactive /\ Faults = {} /\ "here" \notin Commands

\* A child that has not finished its setup is alive.
SetupRuns == \A p \in Pids : setup[p] # "done" => kstate[p] \in {"run"} \cup Stopped

\* The command being run is going to wait for every foreground process.
ForegroundAwaited ==
    \A p \in Pids : Foreground(p) =>
        /\ pc \in Busy /\ cmd # "wait"
        /\ \E i \in DOMAIN todo : todo[i].id = p /\ (pc = "broke" => i > 1)

\* A child in the foreground that is yet to take the terminal takes it for the
\* job being run.
SetupTty ==
    \A p \in Pids :
        setup[p] = "tty" /\ Foreground(p) /\ cmd = "job" /\ group # Shell
            => kpgid[p] = group

\* Only PRIM(pipe) and forkexec fork, and the first fork sets the group.
ForkFirst ==
    /\ cmd # "here" /\ (pc = "fork" => cmd = "job")
    /\ pc = "fork" /\ group = Shell => todo = <<>>

TtyRight ==
    /\ pc \notin Busy => tty = Shell \/ resumed
    /\ pc \in Busy /\ cmd = "job" /\ group # Shell => tty = group \/ resumed

SessionInv == SetupRuns /\ ForegroundAwaited /\ SetupTty /\ ForkFirst /\ TtyRight

LEMMA SetupStep == TypeOK /\ SetupRuns /\ [Next]_vars => SetupRuns'
<1> SUFFICES ASSUME TypeOK, SetupRuns, [Next]_vars PROVE SetupRuns'
  OBVIOUS
<1>1. kstate \in [Pids -> KStates] /\ setup \in [Pids -> Setups]
  BY DEF TypeOK
<1>2. ASSUME NEW p \in Pids,
             ChildSetup(p) \/ ChildExit(p) \/ ChildStop(p) \/ ChildContinue(p)
      PROVE  SetupRuns'
  BY <1>1, <1>2 DEF ChildSetup, ChildExit, ChildStop, ChildContinue, SetupRuns
<1>3. ASSUME NEW D, \A p \in D : kstate[p] \in Zombies, Reap(D), setup' = setup
      PROVE  SetupRuns'
  BY <1>3 DEF Reap, SetupRuns, Zombies, Stopped
<1>4. CASE EndLine \/ EwaitEnter
  BY <1>3, <1>4 DEF EndLine, EwaitEnter, donotwait, Finished
<1>5. ASSUME NEW p \in Pids, EwaitReap(p) \/ EwaitLate(p) PROVE SetupRuns'
  <2>1. CASE kstate' = kstate /\ setup' = setup
    BY <2>1 DEF SetupRuns
  <2> QED BY <1>3, <1>5, <2>1 DEF EwaitReap, EwaitLate
<1>6. ASSUME NEW p \in Pids, NEW b, NEW g, efork(p, b, g) PROVE SetupRuns'
  BY <1>1, <1>6 DEF efork, SetupRuns
<1>7. ASSUME NEW p \in Pids, ForkMember(p) \/ StartHere(p) PROVE SetupRuns'
  BY <1>6, <1>7 DEF ForkMember, StartHere
<1>8. ASSUME NEW p \in Pids, Background(p) PROVE SetupRuns'
  BY <1>1, <1>8 DEF Background, SetupRuns
<1>9. ASSUME NEW p \in Pids, fg(p) \/ bg(p) PROVE SetupRuns'
  BY <1>9 DEF fg, bg, Continue, SetupRuns, Stopped
<1>10. CASE UNCHANGED <<kstate, setup>>
  BY <1>10 DEF SetupRuns
<1> QED
  BY <1>2, <1>4, <1>5, <1>7, <1>8, <1>9, <1>10
     DEF Next, Child, Prompt, Fork, Ewait, Fault, Builtin, vars, kernel,
         checkprocs, ReadLine, sigchk, ForkFail, StartJob, EwaitNoChild,
         EwaitInterrupted, EwaitReturn, EwaitStop, ShellSignal, Wait

\* A step of a session is none of the steps a fault makes.
LEMMA SessionNext ==
    ASSUME Session, [Next]_vars
    PROVE  \/ Child \/ Prompt \/ Ewait \/ Builtin \/ UNCHANGED vars
           \/ \E n \in 1..MaxPipe : StartJob(n)
           \/ \E p \in Pids : ForkMember(p) \/ Background(p)
BY DEF Session, Next, Fork, Fault, ForkFail, StartHere, EwaitInterrupted,
       ShellSignal, EwaitLate

LEMMA IdleNoForeground ==
    ASSUME SessionInv, pc \notin Busy \/ cmd = "wait"
    PROVE  \A p \in Pids : ~Foreground(p)
BY DEF SessionInv, ForegroundAwaited

LEMMA ForkFirstStep ==
    Session /\ TypeOK /\ SessionInv /\ [Next]_vars => ForkFirst'
<1> SUFFICES ASSUME Session, TypeOK, SessionInv, [Next]_vars PROVE ForkFirst'
  OBVIOUS
<1>1. ForkFirst
  BY DEF SessionInv
<1>2. CASE pc' # "fork" /\ (cmd' = cmd \/ cmd' # "here")
  BY <1>1, <1>2 DEF ForkFirst
<1>3. ASSUME NEW n \in 1..MaxPipe, StartJob(n) PROVE ForkFirst'
  BY <1>3 DEF ForkFirst, StartJob
<1>4. ASSUME NEW p \in Pids, ForkMember(p) PROVE ForkFirst'
  <2>1. p # Shell
    BY ShellAssumption
  <2> QED BY <1>1, <1>4, <2>1 DEF ForkFirst, ForkMember
<1>5. CASE UNCHANGED <<pc, cmd, group, todo>>
  BY <1>1, <1>5 DEF ForkFirst
<1> QED
  BY <1>2, <1>3, <1>4, <1>5, SessionNext
     DEF Child, Prompt, Ewait, Builtin, vars, shell, Unwind, NoCmd,
         ChildSetup, ChildExit, ChildStop, ChildContinue, checkprocs, ReadLine, EndLine,
         sigchk, EwaitEnter, EwaitReap, EwaitStop, EwaitNoChild, EwaitReturn,
         Wait, fg, bg, Background

\* Steps that bring no process to the foreground and change no ewait call.
LEMMA SameAwaited ==
    ASSUME ForegroundAwaited, UNCHANGED <<pc, cmd, todo>>,
           \A q \in Pids : Foreground(q)' => Foreground(q)
    PROVE  ForegroundAwaited'
BY DEF ForegroundAwaited, Foreground, Busy

LEMMA NoneAwaited ==
    ASSUME \A q \in Pids : ~Foreground(q)' PROVE ForegroundAwaited'
BY DEF ForegroundAwaited, Foreground

\* A process in the foreground is not the one ewait waits for when it returns.
LEMMA ReturnAwaited ==
    ASSUME TypeOK, WaitInv, SessionInv, EwaitReturn, NEW q \in Pids, Foreground(q)
    PROVE  \E i \in DOMAIN todo : todo[i].id = q /\ i > 1
<1>1. pc \in Busy /\ cmd # "wait"
  BY DEF SessionInv, ForegroundAwaited
<1>2. PICK i \in DOMAIN todo : todo[i].id = q /\ (pc = "broke" => i > 1)
  BY DEF SessionInv, ForegroundAwaited
<1>3. CASE pc = "broke"
  BY <1>2, <1>3
<1>4. CASE pc = "wait" /\ Matching(Head(todo)) = {}
  <2>1. Head(todo).id # q /\ Head(todo) = todo[1] /\ todo \in Seq(Target)
    BY <1>1, <1>4, HeadIsWaited, HeadTarget DEF WaitInv
  <2>2. i # 1 /\ i \in 1..Len(todo)
    BY <1>2, <2>1
  <2> QED BY <1>2, <2>2
<1> QED BY <1>3, <1>4 DEF EwaitReturn

\* waitpid fails for want of a child only in PRIM(wait).
LEMMA EwaitNoChildIdle ==
    ASSUME TypeOK, WaitInv, NoGhost, SessionInv, EwaitNoChild
    PROVE  \A q \in Pids : ~Foreground(q)
<1>1. pc = "wait" /\ Matching(Head(todo)) # {} /\ Waitable(Head(todo)) = {}
  BY DEF EwaitNoChild
<1>2. cmd = "wait"
  <2> SUFFICES ASSUME cmd # "wait" PROVE FALSE
    OBVIOUS
  <2>1. PICK p \in Matching(Head(todo)) : TRUE
    BY <1>1
  <2>2. p = Head(todo).id /\ Head(todo).kind = "pid" /\ p \in Pids
    BY <1>1, <2>1, HeadIsWaited DEF WaitInv
  <2>3. p \in proclist /\ rec[p].alive
    BY <2>1 DEF Matching
  <2>4. p \in Waitable(Head(todo))
    BY <2>2, <2>3 DEF NoGhost, Waitable
  <2> QED BY <1>1, <2>4
<1> QED BY <1>2, IdleNoForeground

LEMMA TailPosition ==
    ASSUME NEW s \in Seq(Target), NEW i \in DOMAIN s, i > 1
    PROVE  /\ Tail(s) # <<>> /\ i - 1 \in DOMAIN Tail(s) /\ Tail(s)[i - 1] = s[i]
OBVIOUS

LEMMA AwaitedStep ==
    Session /\ TypeOK /\ WaitInv /\ NoGhost /\ SessionInv /\ [Next]_vars
        => ForegroundAwaited'
<1> SUFFICES ASSUME Session, TypeOK, WaitInv, NoGhost, SessionInv, [Next]_vars
             PROVE  ForegroundAwaited'
  OBVIOUS
<1>1. /\ todo \in Seq(Target) /\ rec \in [Pids -> Proc] /\ proclist \subseteq Pids
      /\ kstate \in [Pids -> KStates]
  BY DEF TypeOK
<1>2. ForegroundAwaited /\ TodoRight /\ Interactive
  BY DEF SessionInv, WaitInv, Session
<1>3. CASE UNCHANGED <<table, pc, cmd, todo>>
  BY <1>2, <1>3, SameAwaited DEF table, Foreground
<1>4. CASE Prompt
  <2>1. \A q \in Pids : ~Foreground(q)
    BY <1>4, IdleNoForeground DEF Prompt, checkprocs, ReadLine, EndLine, sigchk, Busy
  <2>2. CASE checkprocs
    BY <1>1, <2>1, <2>2, NoneAwaited DEF checkprocs, Kept, Foreground, Proc
  <2>3. CASE EndLine
    <3>1. PICK lost : donotwait(lost) /\ proclist' = proclist
      BY <2>3 DEF EndLine
    <3> QED BY <2>1, <3>1, DonotwaitForeground, NoneAwaited
  <2>4. CASE ReadLine \/ sigchk
    BY <2>1, <2>4, NoneAwaited DEF ReadLine, sigchk, table, Foreground
  <2> QED BY <1>4, <2>2, <2>3, <2>4 DEF Prompt
<1>5. ASSUME NEW n \in 1..MaxPipe, StartJob(n) PROVE ForegroundAwaited'
  <2>1. \A q \in Pids : ~Foreground(q)
    BY <1>5, IdleNoForeground DEF StartJob, Busy
  <2> QED BY <1>5, <2>1, NoneAwaited DEF StartJob, table, Foreground
<1>6. ASSUME NEW p \in Pids, ForkMember(p) PROVE ForegroundAwaited'
  <2>1. /\ pc = "fork" /\ pc' \in {"fork", "enter"} /\ cmd' = "job"
        /\ todo' = <<PidTarget(p)>> \o todo
    BY <1>6 DEF ForkMember, SessionInv, ForkFirst
  <2>2. /\ Len(todo') = Len(todo) + 1 /\ todo' \in Seq(Target)
        /\ todo'[1] = PidTarget(p)
        /\ \A i \in 1..Len(todo') :
              i > 1 => i - 1 \in 1..Len(todo) /\ todo'[i] = todo[i - 1]
    BY <1>1, <2>1, PushElements
  <2>3. DOMAIN todo' = 1..Len(todo) + 1 /\ Len(todo) \in Nat /\ DOMAIN todo = 1..Len(todo)
    BY <1>1, <2>2
  <2>4. ASSUME NEW i \in DOMAIN todo PROVE i + 1 \in DOMAIN todo' /\ todo'[i + 1] = todo[i]
    BY <2>2, <2>3
  <2>5. 1 \in DOMAIN todo' /\ todo'[1].id = p
    BY <2>2, <2>3 DEF PidTarget
  <2>6. \A q \in Pids : Foreground(q)' => q = p \/ Foreground(q)
    BY <1>1, <1>6 DEF ForkMember, efork, Foreground
  <2>7. ASSUME NEW q \in Pids, Foreground(q)' PROVE \E i \in DOMAIN todo' : todo'[i].id = q
    <3>1. CASE q = p
      BY <2>5, <3>1
    <3>2. CASE Foreground(q)
      <4>1. PICK i \in DOMAIN todo : todo[i].id = q
        BY <1>2, <3>2 DEF ForegroundAwaited
      <4> QED BY <2>4, <4>1
    <3> QED BY <2>6, <2>7, <3>1, <3>2
  <2> QED BY <2>1, <2>7 DEF ForegroundAwaited, Foreground, Busy
<1>7. ASSUME NEW p \in Pids, Background(p) PROVE ForegroundAwaited'
  <2>1. \A q \in Pids : ~Foreground(q)
    BY <1>7, IdleNoForeground DEF Background, Busy
  <2>2. \A q \in Pids : ~Foreground(q)'
    BY <1>1, <1>7, <2>1 DEF Background, Foreground, mkproc
  <2> QED BY <2>2, NoneAwaited
<1>8. CASE EwaitEnter
  <2>1. PICK lost : donotwait(lost)
    BY <1>8 DEF EwaitEnter
  <2>2. pc = "enter" /\ pc' = "wait" /\ cmd' = cmd /\ todo' = todo /\ proclist' = proclist
    BY <1>8 DEF EwaitEnter
  <2>3. \A q \in Pids : Foreground(q)' => Foreground(q)
    BY <2>1, <2>2, DonotwaitForeground
  <2> QED BY <1>2, <2>2, <2>3 DEF ForegroundAwaited, Foreground, Busy
<1>9. ASSUME NEW p \in Pids, EwaitReap(p) PROVE ForegroundAwaited'
  <2>1. /\ UNCHANGED <<pc, cmd, todo, proclist>>
        /\ rec' = [rec EXCEPT ![p] = Died(rec[p])]
    BY <1>9 DEF EwaitReap
  <2>2. \A q \in Pids : Foreground(q)' => Foreground(q)
    BY <1>1, <2>1 DEF Foreground, Died, Proc
  <2> QED BY <1>2, <2>1, <2>2, SameAwaited
<1>10. ASSUME NEW p \in Pids, EwaitStop(p) PROVE ForegroundAwaited'
  <2>1. /\ pc = "wait" /\ pc' = "broke" /\ UNCHANGED <<cmd, todo, proclist>>
        /\ rec' = [rec EXCEPT ![p] = Halted(rec[p])] /\ p \in Waitable(Head(todo))
    BY <1>10 DEF EwaitStop
  <2>2. \A q \in Pids : Foreground(q)' => Foreground(q) /\ q # p
    BY <1>1, <2>1 DEF Foreground, Halted, Proc
  <2>3. ASSUME NEW q \in Pids, Foreground(q)'
        PROVE  cmd # "wait" /\ \E i \in DOMAIN todo : todo[i].id = q /\ i > 1
    <3>1. PICK i \in DOMAIN todo : cmd # "wait" /\ todo[i].id = q
      BY <1>2, <2>2, <2>3 DEF ForegroundAwaited
    <3>2. p = Head(todo).id /\ Head(todo) = todo[1]
      BY <1>2, <2>1, <3>1, HeadIsWaited, HeadTarget
    <3>3. i # 1 /\ i \in 1..Len(todo)
      BY <1>1, <2>2, <2>3, <3>1, <3>2
    <3> QED BY <3>1, <3>3
  <2> QED BY <2>1, <2>3 DEF ForegroundAwaited, Foreground, Busy
<1>11. CASE EwaitNoChild
  BY <1>11, EwaitNoChildIdle, NoneAwaited DEF EwaitNoChild, table, Foreground
<1>12. CASE EwaitReturn
  <2>1. \A q \in Pids : Foreground(q)' => Foreground(q)
    BY <1>2, <1>12 DEF EwaitReturn, table, Foreground
  <2>2. ASSUME NEW q \in Pids, Foreground(q)
        PROVE  /\ pc' = "enter" /\ cmd' # "wait"
               /\ \E i \in DOMAIN todo' : todo'[i].id = q
    <3>1. PICK i \in DOMAIN todo : todo[i].id = q /\ i > 1
      BY <1>12, <2>2, ReturnAwaited
    <3>2. Tail(todo) # <<>> /\ i - 1 \in DOMAIN Tail(todo) /\ Tail(todo)[i - 1].id = q
      BY <1>1, <3>1, TailPosition
    <3>3. cmd # "here" /\ cmd # "wait"
      BY <1>2, <2>2 DEF ForegroundAwaited, SessionInv, ForkFirst
    <3>4. pc' = "enter" /\ cmd' = cmd /\ todo' = Tail(todo)
      BY <1>12, <3>2, <3>3 DEF EwaitReturn, More
    <3> QED BY <3>2, <3>3, <3>4
  <2> QED BY <2>1, <2>2 DEF ForegroundAwaited, Foreground, Busy
<1>13. ASSUME NEW t \in Target, Wait(t) PROVE ForegroundAwaited'
  <2>1. \A q \in Pids : ~Foreground(q)
    BY <1>13, IdleNoForeground DEF Wait, Busy
  <2> QED BY <1>13, <2>1, NoneAwaited DEF Wait, table, Foreground
<1>14. ASSUME NEW p \in Pids, fg(p) PROVE ForegroundAwaited'
  <2>1. pc' = "enter" /\ cmd' = "fg" /\ \A q \in Pids : ~Foreground(q)
    BY <1>14, IdleNoForeground DEF fg, Busy
  <2>2. \A q \in Pids : Foreground(q)' => q \in Members(p)
    BY <1>14, <2>1, FgForeground
  <2>3. \A q \in Members(p) : \E i \in DOMAIN todo' : todo'[i].id = q
    BY <1>14, FgTargets
  <2> QED BY <2>1, <2>2, <2>3 DEF ForegroundAwaited, Foreground, Busy
<1>15. ASSUME NEW p \in Pids, bg(p) PROVE ForegroundAwaited'
  <2>1. \A q \in Pids : ~Foreground(q)
    BY <1>15, IdleNoForeground DEF bg, Busy
  <2>2. \A q \in Pids : ~Foreground(q)'
    BY <1>1, <1>15, <2>1 DEF bg, Put, Foreground, Proc
  <2> QED BY <2>2, NoneAwaited
<1> QED
  BY <1>3, <1>4, <1>5, <1>6, <1>7, <1>8, <1>9, <1>10, <1>11, <1>12, <1>13, <1>14, <1>15,
     SessionNext
     DEF Child, ChildSetup, ChildExit, ChildStop, ChildContinue, Ewait, Builtin, vars, shell

LEMMA SetupTtyStep ==
    Session /\ TypeOK /\ WaitInv /\ NoGhost /\ SessionInv /\ [Next]_vars
        => SetupTty'
<1> SUFFICES ASSUME Session, TypeOK, WaitInv, NoGhost, SessionInv, [Next]_vars
             PROVE  SetupTty'
  OBVIOUS
<1>1. /\ todo \in Seq(Target) /\ rec \in [Pids -> Proc] /\ proclist \subseteq Pids
      /\ kstate \in [Pids -> KStates] /\ kpgid \in [Pids -> PGids]
      /\ setup \in [Pids -> Setups]
  BY DEF TypeOK
<1>2. ForegroundAwaited /\ SetupTty /\ SetupRuns /\ Interactive
  BY DEF SessionInv, Session
<1>3. CASE pc' \notin Busy \/ cmd' # "job" \/ group' = Shell
  <2>1. ForegroundAwaited'
    BY AwaitedStep
  <2> QED BY <1>3, <2>1 DEF ForegroundAwaited, SetupTty, Foreground, Busy
<1>4. ASSUME UNCHANGED <<cmd, group, setup>>,
             \A q \in Pids : Foreground(q)' => Foreground(q),
             \A q \in Pids : kstate[q] \notin Zombies => kpgid'[q] = kpgid[q]
      PROVE  SetupTty'
  <2>1. \A q \in Pids : setup[q] = "tty" => kpgid'[q] = kpgid[q]
    BY <1>2, <1>4 DEF SetupRuns, Zombies, Stopped
  <2> QED BY <1>2, <1>4, <2>1 DEF SetupTty, Foreground
<1>5. CASE Child
  <2>1. PICK p \in Pids :
            ChildSetup(p) \/ ChildExit(p) \/ ChildStop(p) \/ ChildContinue(p)
    BY <1>5 DEF Child
  <2>2. UNCHANGED <<table, shell>>
    BY <2>1 DEF ChildSetup, ChildExit, ChildStop, ChildContinue
  <2>3. \A q \in Pids : setup'[q] = "tty" => setup[q] = "tty" /\ kpgid'[q] = kpgid[q]
    BY <1>1, <2>1 DEF ChildSetup, ChildExit, ChildStop, ChildContinue
  <2> QED BY <1>2, <2>2, <2>3 DEF SetupTty, Foreground, table, shell
<1>6. ASSUME NEW p \in Pids, ForkMember(p) PROVE SetupTty'
  <2> DEFINE g == IF group = Shell THEN p ELSE group
  <2>1. efork(p, FALSE, g) /\ group' = g /\ cmd = "job" /\ pc = "fork"
    BY <1>6 DEF ForkMember, SessionInv, ForkFirst
  <2>2. ASSUME NEW q \in Pids, q # p, setup[q] = "tty", Foreground(q)
        PROVE  kpgid[q] = g
    <3>1. todo # <<>>
      BY <1>2, <2>2 DEF ForegroundAwaited
    <3>2. group # Shell
      BY <2>1, <3>1 DEF SessionInv, ForkFirst
    <3> QED BY <1>2, <2>1, <2>2, <3>2 DEF SetupTty
  <2> HIDE DEF g
  <2>3. kpgid'[p] = g
    BY <1>1, <1>2, <2>1 DEF efork
  <2>4. \A q \in Pids : q # p =>
            setup'[q] = setup[q] /\ kpgid'[q] = kpgid[q] /\ (Foreground(q)' => Foreground(q))
    BY <1>1, <2>1 DEF efork, Foreground
  <2> QED BY <2>1, <2>2, <2>3, <2>4 DEF SetupTty
<1>7. CASE EwaitEnter
  <2>1. PICK lost : donotwait(lost)
    BY <1>7 DEF EwaitEnter
  <2>2. \A q \in Pids : Foreground(q)' => Foreground(q)
    BY <1>7, <2>1, DonotwaitForeground DEF EwaitEnter
  <2> QED BY <1>4, <1>7, <2>1, <2>2 DEF EwaitEnter, donotwait, Reap, Finished
<1>8. ASSUME NEW p \in Pids, EwaitReap(p) PROVE SetupTty'
  <2>1. \A q \in Pids : Foreground(q)' => Foreground(q)
    BY <1>1, <1>8 DEF EwaitReap, Foreground, Died, Proc
  <2> QED BY <1>4, <1>8, <2>1 DEF EwaitReap, Reap
<1>9. ASSUME NEW p \in Pids, EwaitStop(p) PROVE SetupTty'
  <2>1. \A q \in Pids : Foreground(q)' => Foreground(q)
    BY <1>1, <1>9 DEF EwaitStop, Foreground, Halted, Proc
  <2> QED BY <1>4, <1>9, <2>1 DEF EwaitStop
<1>10. CASE Prompt
  BY <1>2, <1>3, <1>10
     DEF Prompt, checkprocs, ReadLine, EndLine, sigchk, Unwind, Busy
<1>11. CASE EwaitNoChild \/ EwaitReturn
  BY <1>2, <1>3, <1>11 DEF EwaitNoChild, EwaitReturn, Unwind
<1>12. ASSUME NEW n \in 1..MaxPipe, StartJob(n) PROVE SetupTty'
  BY <1>3, <1>12 DEF StartJob
<1>13. ASSUME NEW t \in Target, Wait(t) PROVE SetupTty'
  BY <1>3, <1>13 DEF Wait
<1>14. ASSUME NEW p \in Pids, fg(p) \/ bg(p) \/ Background(p) PROVE SetupTty'
  BY <1>3, <1>14 DEF fg, bg, Background, shell, Busy
<1>15. CASE UNCHANGED vars
  BY <1>4, <1>15 DEF Foreground, vars, kernel, table, shell
<1> QED
  BY <1>5, <1>6, <1>7, <1>8, <1>9, <1>10, <1>11, <1>12, <1>13, <1>14, <1>15,
     SessionNext DEF Ewait, Builtin

LEMMA TtyStep ==
    Session /\ TypeOK /\ NoUnrecordedChild /\ SessionInv /\ [Next]_vars => TtyRight'
<1> SUFFICES ASSUME Session, TypeOK, NoUnrecordedChild, SessionInv, [Next]_vars
             PROVE  TtyRight'
  OBVIOUS
<1>1. /\ TtyRight /\ ForkFirst /\ ForegroundAwaited /\ SetupTty /\ Interactive
      /\ setup \in [Pids -> Setups]
  BY DEF SessionInv, Session, TypeOK
<1>2. CASE UNCHANGED <<terminal, pc, cmd, group>>
  BY <1>1, <1>2 DEF TtyRight, terminal
<1>3. ASSUME NEW p \in Pids, ChildSetup(p) PROVE TtyRight'
  <2>1. UNCHANGED <<pc, cmd, group>>
    BY <1>3 DEF ChildSetup, shell
  <2>2. CASE setup[p] = "tty" /\ rec[p].background
    BY <1>3, <2>2 DEF ChildSetup, WantsTty, Moved, TtyRight
  <2>3. CASE setup[p] = "tty" /\ ~rec[p].background
    <3>1. Foreground(p)
      BY <1>3, <2>3 DEF ChildSetup, NoUnrecordedChild, Foreground
    <3>2. pc \in Busy /\ (cmd = "job" /\ group # Shell => kpgid[p] = group)
      BY <1>1, <2>3, <3>1 DEF SetupTty, ForegroundAwaited
    <3>3. tty' = kpgid[p]
      BY <1>3, <2>3 DEF ChildSetup, WantsTty
    <3> QED BY <2>1, <3>2, <3>3 DEF TtyRight
  <2>4. CASE setup[p] # "tty"
    BY <1>2, <1>3, <2>1, <2>4 DEF ChildSetup, WantsTty
  <2> QED BY <2>2, <2>3, <2>4
<1>4. CASE Prompt
  BY <1>1, <1>4
     DEF Prompt, checkprocs, ReadLine, EndLine, sigchk, kernel, Unwind, TtyRight, Busy, terminal
<1>5. ASSUME NEW n \in 1..MaxPipe, StartJob(n) PROVE TtyRight'
  BY <1>1, <1>5 DEF StartJob, kernel, TtyRight, Busy, terminal
<1>6. ASSUME NEW p \in Pids, ForkMember(p) PROVE TtyRight'
  BY <1>1, <1>6 DEF ForkMember, efork, TtyRight, Busy, terminal
<1>7. CASE EwaitEnter
  BY <1>1, <1>7 DEF EwaitEnter, TtyRight, Busy, terminal
<1>8. CASE EwaitNoChild \/ EwaitReturn
  BY <1>1, <1>8 DEF EwaitNoChild, EwaitReturn, TakeTty, Unwind, TtyRight
<1>9. ASSUME NEW p \in Pids, EwaitReap(p) \/ EwaitStop(p) PROVE TtyRight'
  BY <1>1, <1>9 DEF EwaitReap, EwaitStop, TtyRight, Busy, terminal
<1>10. ASSUME NEW t \in Target, Wait(t) PROVE TtyRight'
  BY <1>10 DEF Wait, TtyRight, Busy, terminal
<1>11. ASSUME NEW p \in Pids, fg(p) PROVE TtyRight'
  BY <1>11 DEF fg, TtyRight, Busy
<1> QED
  BY <1>2, <1>3, <1>4, <1>5, <1>6, <1>7, <1>8, <1>9, <1>10, <1>11, SessionNext
     DEF Child, ChildExit, ChildStop, ChildContinue, Ewait, Builtin, Background, bg,
         vars, kernel, shell

LEMMA InitSession == Session /\ Init => SessionInv
BY DEF Session, Init, SessionInv, SetupRuns, ForegroundAwaited, SetupTty, ForkFirst,
       TtyRight, Foreground, Busy, NoCmd

LEMMA SessionAlways == Session => (Spec => []SessionInv)
<1> SUFFICES ASSUME Session PROVE Spec => []SessionInv
  OBVIOUS
<1>1. "late" \notin Faults
  BY DEF Session
<1>2. Init => SessionInv
  BY InitSession
<1>3. TypeOK /\ WaitInv /\ NoUnrecordedChild /\ NoGhost /\ SessionInv /\ [Next]_vars
        => SessionInv'
  <2> SUFFICES ASSUME TypeOK, WaitInv, NoUnrecordedChild, NoGhost, SessionInv, [Next]_vars
               PROVE  SessionInv'
    OBVIOUS
  <2>1. SetupRuns'
    BY SetupStep DEF SessionInv
  <2> QED BY <2>1, AwaitedStep, SetupTtyStep, ForkFirstStep, TtyStep DEF SessionInv
<1>4. Spec => []NoGhost
  <2>1. Init => NoGhost
    BY DEF Init, NoGhost
  <2>2. TypeOK /\ NoGhost /\ [Next]_vars => NoGhost'
    BY <1>1, NoGhostStep
  <2> QED BY <2>1, <2>2, TypeCorrect, PTL DEF Spec
<1> QED BY <1>2, <1>3, <1>4, TypeCorrect, ChildrenRecorded, WaitAlways, PTL DEF Spec

\* In a session, when the shell reads a line no live process is left in the
\* foreground (proc.c:251-274, prim-io.c:271-277): all that a pipeline, a job or
\* fg started or resumed has been waited for or was stopped into the background.
THEOREM ForegroundAllAwaited == Session => (Spec => []NoForegroundLeft)
<1> SUFFICES ASSUME Session PROVE Spec => []NoForegroundLeft
  OBVIOUS
<1>1. TypeOK /\ SessionInv => NoForegroundLeft
  BY IdleNoForeground DEF TypeOK, NoForegroundLeft, Foreground, Busy
<1> QED BY <1>1, SessionAlways, TypeCorrect, PTL

\* In a session the terminal is the shell's own whenever it reads a line
\* (proc.c:286-287): of the children that set it late, only one whose job was
\* moved to the background while it was stopped inside efork (proc.c:133-136)
\* takes it back.
THEOREM PromptHasTty == Session => (Spec => []TtyAtPrompt)
<1> SUFFICES ASSUME Session PROVE Spec => []TtyAtPrompt
  OBVIOUS
<1>1. SessionInv => TtyAtPrompt
  BY DEF SessionInv, TtyRight, TtyAtPrompt, Busy
<1> QED BY <1>1, SessionAlways, PTL

\* In a session a job has the terminal from its first fork to the return of its
\* first ewait (proc.c:118-120, 134-136; prim-sys.cpp:40-41), whichever of its
\* members and the shell sets it first, unless a child of an earlier job that
\* was stopped inside efork comes to set it.
THEOREM JobKeepsTty == Session => (Spec => []JobHoldsTty)
<1> SUFFICES ASSUME Session PROVE Spec => []JobHoldsTty
  OBVIOUS
<1>1. SessionInv => JobHoldsTty
  BY DEF SessionInv, TtyRight, JobHoldsTty, Busy
<1> QED BY <1>1, SessionAlways, PTL
=============================================================================
