------------------------------ MODULE Signals -------------------------------
(***************************************************************************)
(* Signal delivery in desh: catcher and sigchk (signal.c), and the slow    *)
(* system calls they interrupt (eread in util.c, waitpidwrapper in         *)
(* proc.c).                                                                *)
(*                                                                         *)
(* catcher runs between any two instructions of the program and of itself: *)
(* sa_mask is empty, so only the signal being handled is held back. The    *)
(* handlers that run form a stack; the program goes on when it is empty.   *)
(* ewait also calls catcher itself, for the signal that stopped or killed  *)
(* a child; that call holds no signal back and is the outermost frame.     *)
(* sigcount is volatile, so ++ and -- are a load and a store. A slow call  *)
(* is left by longjmp, which drops all running handlers and, with the      *)
(* setjmp of glibc, does not restore the signal mask.                      *)
(*                                                                         *)
(* CatcherTestNever, CatcherNoteOnly, TestNever, DisarmNever and           *)
(* SigchkTestOver, SigchkTestBlocked are slips in the actions they precede *)
(* that the properties exclude; no specification uses them.                *)
(***************************************************************************)
EXTENDS Naturals, Sequences, FiniteSets

CONSTANTS
    Sigs,        \* the signals that are sent in this instance
    MaxBlocked,  \* bound: nesting of blocksignals, by a catch in a catcher
    MaxSends     \* bound: signals sent and calls of catcher by ewait; finitely
                 \* many leave the program time to run

ASSUME SigsAssumption == Sigs \subseteq Nat /\ IsFiniteSet(Sigs)
ASSUME BoundsAssumption == MaxBlocked \in Nat /\ MaxSends \in Nat

VARIABLES
    pc,           \* where the program is
    count,        \* its register while it decrements sigcount
    found,        \* the signal sigchk has found
    handlers,     \* the running handlers, the innermost first
    caught, sigcount, slow, interrupted, blocked, effect,   \* signal.c
    masked,       \* kernel: blocked signals
    pending,      \* kernel: signals sent and not yet delivered
    sends,        \* signals sent and calls of catcher by ewait so far
    double        \* history: how often a caught signal was counted once more,
                  \* since sigchk last made sigcount zero

flags  == <<caught, sigcount, slow, interrupted, blocked, effect>>
signal == <<masked, pending, sends>>
vars   == <<pc, count, found, handlers, flags, signal, double>>

PCs == {"run", "clear", "arm", "test", "syscall", "disarm",
        "sigchk", "scan", "load", "store", "forget", "throw"}
Ats == {"test", "mark", "load", "store", "note", "return"}
Effects == {"catch", "noop", "ignore"}
NoSig == 0

\* A call of catcher; "direct" is the program's own.
Frame == [sig : Sigs, at : Ats, count : Nat, direct : BOOLEAN]
Call(s, direct) == [sig |-> s, at |-> "test", count |-> 0, direct |-> direct]

Init ==
    /\ pc = "run" /\ count = 0 /\ found = NoSig /\ handlers = <<>>
    /\ caught = {} /\ sigcount = 0 /\ slow = FALSE /\ interrupted = FALSE
    /\ blocked = 0 /\ effect = [s \in Sigs |-> "catch"]
    /\ masked = {} /\ pending = {} /\ sends = 0 /\ double = 0

(***************************************************************************)
(* The kernel                                                              *)
(***************************************************************************)

\* A signal is sent to the shell; a second one of its kind merges with it.
Send(s) ==
    /\ effect[s] # "ignore"
    /\ sends < MaxSends /\ sends' = sends + 1
    /\ pending' = pending \cup {s}
    /\ UNCHANGED <<pc, count, found, handlers, flags, masked, double>>

\* The kernel runs catcher for a signal that is not blocked.
Deliver(s) ==
    /\ s \in pending \ masked
    /\ pending' = pending \ {s} /\ masked' = masked \cup {s}
    /\ handlers' = <<Call(s, FALSE)>> \o handlers
    /\ UNCHANGED <<pc, count, found, flags, sends, double>>

(***************************************************************************)
(* catcher                                                                 *)
(***************************************************************************)
Handler == Head(handlers)
At(a) == handlers # <<>> /\ Handler.at = a
GoOn(a, n) == handlers' = <<[Handler EXCEPT !.at = a, !.count = n]>> \o Tail(handlers)

\* Counts a signal that is caught already once more.
CatcherTestNever ==
    /\ At("test")
    /\ GoOn("mark", 0)
    /\ UNCHANGED <<pc, count, found, flags, signal, double>>

\* if (caught[sig] == 0)
CatcherTest ==
    /\ At("test")
    /\ GoOn(IF Handler.sig \in caught THEN "note" ELSE "mark", 0)
    /\ UNCHANGED <<pc, count, found, flags, signal, double>>

\* caught[sig] = TRUE. The handler of the same signal may have come between the
\* test and this when catcher was called by ewait.
CatcherMark ==
    /\ At("mark")
    /\ caught' = caught \cup {Handler.sig}
    /\ double' = IF Handler.direct /\ Handler.sig \in caught THEN double + 1 ELSE double
    /\ GoOn("load", 0)
    /\ UNCHANGED <<pc, count, found, sigcount, slow, interrupted, blocked, effect, signal>>

\* ++sigcount
CatcherLoad ==
    /\ At("load")
    /\ GoOn("store", sigcount)
    /\ UNCHANGED <<pc, count, found, flags, signal, double>>

CatcherStore ==
    /\ At("store")
    /\ sigcount' = Handler.count + 1
    /\ GoOn("note", 0)
    /\ UNCHANGED <<pc, count, found, caught, slow, interrupted, blocked, effect, signal, double>>

\* Leaves it to the system call to fail.
CatcherNoteOnly ==
    /\ At("note")
    /\ interrupted' = TRUE
    /\ GoOn("return", 0)
    /\ UNCHANGED <<pc, count, found, caught, sigcount, slow, blocked, effect, signal, double>>

\* interrupted = TRUE; if (slow) longjmp(slowlabel, 1)
CatcherNote ==
    /\ At("note")
    /\ interrupted' = TRUE
    /\ IF slow
       THEN handlers' = <<>> /\ pc' = "disarm"
       ELSE GoOn("return", 0) /\ UNCHANGED pc
    /\ UNCHANGED <<count, found, caught, sigcount, slow, blocked, effect, signal, double>>

\* The kernel lets the signal through again, if it was the one to call catcher.
CatcherReturn ==
    /\ At("return")
    /\ handlers' = Tail(handlers)
    /\ masked' = IF Handler.direct THEN masked ELSE masked \ {Handler.sig}
    /\ UNCHANGED <<pc, count, found, flags, pending, sends, double>>

(***************************************************************************)
(* The program: slow system calls                                          *)
(***************************************************************************)
Step(from, to) == handlers = <<>> /\ pc = from /\ pc' = to

\* ewait passes the signal of a child to catcher (proc.c:261, 268).
Ewait(s) ==
    /\ Step("run", "run")
    /\ sends < MaxSends /\ sends' = sends + 1
    /\ handlers' = <<Call(s, TRUE)>>
    /\ UNCHANGED <<count, found, flags, masked, pending, double>>

\* eread and waitpidwrapper are called.
EnterSlow ==
    /\ Step("run", "clear")
    /\ UNCHANGED <<count, found, handlers, flags, signal, double>>

\* interrupted = FALSE
Clear ==
    /\ Step("clear", "arm")
    /\ interrupted' = FALSE
    /\ UNCHANGED <<count, found, handlers, caught, sigcount, slow, blocked, effect, signal, double>>

\* setjmp(slowlabel); slow = TRUE
Arm ==
    /\ Step("arm", "test")
    /\ slow' = TRUE
    /\ UNCHANGED <<count, found, handlers, caught, sigcount, interrupted, blocked, effect, signal, double>>

\* Goes to sleep without a look at interrupted.
TestNever ==
    /\ Step("test", "syscall")
    /\ UNCHANGED <<count, found, handlers, flags, signal, double>>

\* if (!interrupted) the system call
Test ==
    /\ Step("test", IF interrupted THEN "disarm" ELSE "syscall")
    /\ UNCHANGED <<count, found, handlers, flags, signal, double>>

\* The system call returns, with data or the status of a child.
SyscallReturns ==
    /\ Step("syscall", "disarm")
    /\ UNCHANGED <<count, found, handlers, flags, signal, double>>

\* Leaves slow set.
DisarmNever ==
    /\ \E to \in {"sigchk", "run"} : Step("disarm", to)
    /\ UNCHANGED <<count, found, handlers, flags, signal, double>>

\* slow = FALSE; eread goes on to SIGCHK(), waitpidwrapper returns.
Disarm ==
    /\ \E to \in {"sigchk", "run"} : Step("disarm", to)
    /\ slow' = FALSE
    /\ UNCHANGED <<count, found, handlers, caught, sigcount, interrupted, blocked, effect, signal, double>>

(***************************************************************************)
(* The program: sigchk                                                     *)
(***************************************************************************)

\* SIGCHK() between two commands
EnterSigchk ==
    /\ Step("run", "sigchk")
    /\ UNCHANGED <<count, found, handlers, flags, signal, double>>

\* Off by one, and without a look at sigcount.
SigchkTestOver ==
    /\ Step("sigchk", IF sigcount <= 1 \/ blocked > 0 THEN "run" ELSE "scan")
    /\ UNCHANGED <<count, found, handlers, flags, signal, double>>
SigchkTestBlocked ==
    /\ Step("sigchk", IF blocked > 0 THEN "run" ELSE "scan")
    /\ UNCHANGED <<count, found, handlers, flags, signal, double>>

\* if (sigcount == 0 || blocked) return
SigchkTest ==
    /\ Step("sigchk", IF sigcount = 0 \/ blocked > 0 THEN "run" ELSE "scan")
    /\ UNCHANGED <<count, found, handlers, flags, signal, double>>

\* The first caught signal, or none: sigcount = 0.
SigchkScan ==
    /\ IF caught = {}
       THEN Step("scan", "run") /\ sigcount' = 0 /\ double' = 0 /\ found' = found
       ELSE /\ Step("scan", "load") /\ UNCHANGED <<sigcount, double>>
            /\ found' = CHOOSE s \in caught : \A t \in caught : s <= t
    /\ UNCHANGED <<count, handlers, caught, slow, interrupted, blocked, effect, signal>>

\* --sigcount
SigchkLoad ==
    /\ Step("load", "store")
    /\ count' = sigcount
    /\ UNCHANGED <<found, handlers, flags, signal, double>>

SigchkStore ==
    /\ Step("store", "forget")
    /\ sigcount' = count - 1 /\ count' = 0
    /\ UNCHANGED <<found, handlers, caught, slow, interrupted, blocked, effect, signal, double>>

\* caught[sig] = 0
SigchkForget ==
    /\ Step("forget", "throw")
    /\ caught' = caught \ {found}
    /\ UNCHANGED <<count, found, handlers, sigcount, slow, interrupted, blocked, effect, signal, double>>

\* The signal is thrown, or dropped if it has no effect any more; either way
\* the program goes on evaluating.
SigchkThrow ==
    /\ Step("throw", "run")
    /\ found' = NoSig
    /\ UNCHANGED <<count, handlers, flags, signal, double>>

(***************************************************************************)
(* The program: blocksignals and $&setsignals                              *)
(***************************************************************************)

\* PRIM(catch) blocks delivery while its catcher runs.
Block ==
    /\ Step("run", "run") /\ blocked < MaxBlocked
    /\ blocked' = blocked + 1
    /\ UNCHANGED <<count, found, handlers, caught, sigcount, slow, interrupted, effect, signal, double>>

Unblock ==
    /\ Step("run", "run") /\ blocked > 0
    /\ blocked' = blocked - 1
    /\ UNCHANGED <<count, found, handlers, caught, sigcount, slow, interrupted, effect, signal, double>>

\* esignal: ignoring a signal discards one that is pending.
SetSignal(s, e) ==
    /\ Step("run", "run") /\ effect[s] # e
    /\ effect' = [effect EXCEPT ![s] = e]
    /\ pending' = IF e = "ignore" THEN pending \ {s} ELSE pending
    /\ UNCHANGED <<count, found, handlers, caught, sigcount, slow, interrupted, blocked, masked, sends, double>>
-----------------------------------------------------------------------------
Kernel  == \E s \in Sigs : Send(s)
Catcher == \/ CatcherTest \/ CatcherMark \/ CatcherLoad \/ CatcherStore
           \/ CatcherNote \/ CatcherReturn
Slow    == EnterSlow \/ Clear \/ Arm \/ Test \/ Disarm
Sigchk  == \/ EnterSigchk \/ SigchkTest \/ SigchkScan \/ SigchkLoad
           \/ SigchkStore \/ SigchkForget \/ SigchkThrow
Setting == Block \/ Unblock \/ \E s \in Sigs, e \in Effects : SetSignal(s, e)

Next == Kernel \/ (\E s \in Sigs : Deliver(s)) \/ Catcher \/ Slow \/ SyscallReturns
        \/ Sigchk \/ Setting \/ \E s \in Sigs : Ewait(s)

\* The kernel delivers what is not blocked, handlers and the program run. A
\* system call may block for ever.
Fairness == /\ \A s \in Sigs : WF_vars(Deliver(s))
            /\ WF_vars(Catcher)
            /\ WF_vars(Slow \/ Sigchk \/ Setting)

Spec == Init /\ [][Next]_vars /\ Fairness
-----------------------------------------------------------------------------
(***************************************************************************)
(* Properties                                                              *)
(***************************************************************************)

TypeOK ==
    /\ pc \in PCs /\ count \in Nat /\ found \in Sigs \cup {NoSig}
    /\ handlers \in Seq(Frame)
    /\ caught \subseteq Sigs /\ sigcount \in Nat
    /\ slow \in BOOLEAN /\ interrupted \in BOOLEAN
    /\ blocked \in 0..MaxBlocked /\ effect \in [Sigs -> Effects]
    /\ masked \subseteq Sigs /\ pending \subseteq Sigs /\ sends \in 0..MaxSends
    /\ double \in Nat

\* catcher longjmps only into a frame that is still there (signal.c:96-97,
\* util.c:107-115, proc.c:158-168): slow is set only between the setjmp of eread
\* or waitpidwrapper and the end of that call.
SlowFrameLive == slow => pc \in {"test", "syscall", "disarm"}

\* A signal handled since interrupted was cleared keeps the program from going
\* to sleep (util.c:106-115, proc.c:157-164): whoever sleeps in the system call
\* has no handler behind it that a longjmp should have followed.
WakeupNotLost == pc = "syscall" /\ handlers = <<>> => ~interrupted

\* sigcount counts a signal twice only when the handler of that signal ran in the
\* midst of ewait's own call of catcher (signal.c:91-94, 330-340; proc.c:261, 268),
\* whatever other races there are between handlers and with sigchk; without that,
\* sigchk never looks for a signal in vain.
CountNeverOver == /\ sigcount <= Cardinality(caught) + double
                  /\ pc = "scan" /\ caught = {} => double > 0

\* A signal that is sent and not blocked ends a slow system call (util.c:105-116,
\* signal.c:95-97), even if the call itself would sleep for ever.
SignalWakes ==
    \A s \in Sigs : (pc = "syscall" /\ s \in pending \ masked) ~> (pc # "syscall")

\* While a signal is caught and sigcount is not zero, a program that calls sigchk
\* again and again, with delivery enabled, is thrown a signal (signal.c:321-340).
CountedDelivers ==
    []<>(pc = "sigchk" /\ blocked = 0)
        => ((sigcount > 0 /\ caught # {}) ~> (pc = "throw"))

\* Every signal on $signals that is sent reaches the shell, to raise an exception
\* there (es.1:1617-1619).
SentIsDelivered == \A s \in Sigs : (s \in pending) ~> (s \notin pending)

\* Every signal that has reached the shell is taken up (es.1:1617-1619), by a
\* program that calls sigchk again and again with delivery enabled.
CaughtIsThrown ==
    []<>(pc = "sigchk" /\ blocked = 0) => \A s \in Sigs : (s \in caught) ~> (s \notin caught)
=============================================================================
