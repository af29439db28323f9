----------------------------- MODULE JobControl -----------------------------
(***************************************************************************)
(* Job control of desh: the process records of proc.c, the commands that   *)
(* start children and wait for them (eval.c, prim-io.c, prim-sys.cpp), the *)
(* prompt loop of initial.es, and as much of the kernel as they observe:   *)
(* the children's states, their process groups and the terminal's          *)
(* foreground group.                                                       *)
(*                                                                         *)
(* The shell is one thread. Its steps are cut where a child, the kernel or *)
(* a signal can get in between: at every fork, every waitpid and between   *)
(* the commands of a line. Children run on their own.                      *)
(*                                                                         *)
(* The order of proclist decides only in which order PRIM(fg) waits for    *)
(* the members of a group; it is modelled as any order, and the list as a  *)
(* set. ProcList models the linked list and what a recycled pid does to    *)
(* it; here fork never returns the pid of a record still on the list.      *)
(*                                                                         *)
(* DiedForgetful, HaltedForeground, FinishedAny, FinishedUnstopped,        *)
(* KeepTty, WantsTtyAlways, KeptRunning, MoreAlways, MoreNever and         *)
(* ContinueLeader are slips in the operators they precede that the         *)
(* properties exclude; no specification uses them.                         *)
(***************************************************************************)
EXTENDS Naturals, Sequences, FiniteSets

CONSTANTS
    Pids,         \* process ids fork may return
    Shell,        \* shell_pgid, the shell's own process group
    Interactive,  \* isinteractive() and has_job_control: a session with a tty
    Commands,     \* the commands a line may hold in this instance
    Faults,       \* what may go wrong: "signal", "late", "forkfail"
    MaxPipe       \* bound: processes in one pipeline

ASSUME PidsAssumption == IsFiniteSet(Pids)
ASSUME ShellAssumption == Shell \notin Pids
ASSUME InteractiveAssumption == Interactive \in BOOLEAN
ASSUME MaxPipeAssumption == MaxPipe \in Nat \ {0}

VARIABLES
    kstate,    \* kernel: state of each child; "none" once it is reaped
    knote,     \* kernel: a stop that no waitpid(WUNTRACED) has reported yet
    kpgid,     \* kernel: process group of each child
    setup,     \* child: what it still does in efork before running
    tty,       \* kernel: foreground process group of the terminal
    resumed,   \* history: the terminal was last set by a child Moved meanwhile
    proclist,  \* the pids that have a record
    rec,       \* the records
    pc,        \* where the shell is
    cmd,       \* the command being executed
    forks,     \* members of the job still to be forked
    group,     \* PRIM(pipe)'s pgid: 0 (here NoGroup) until the first fork
    todo,      \* the ewait calls the command still makes
    pend,      \* a caught signal that sigchk will throw
    ret        \* wstatus of the last ewait

terminal == <<tty, resumed>>
kernel == <<kstate, knote, kpgid, setup, terminal>>
table  == <<proclist, rec>>
shell  == <<pc, cmd, forks, group, todo, pend, ret>>
vars   == <<kernel, table, shell>>

PGids     == Pids \cup {Shell}
Zombies   == {"exited", "killed"}        \* "killed": by SIGINT, which throws
Stopped   == {"tstp", "stop"}            \* "tstp": by SIGTSTP, which throws
KStates   == {"none", "run"} \cup Zombies \cup Stopped
Setups    == {"done", "own", "tty"}
PCs       == {"prompt", "ready", "cmd", "fork", "enter", "wait", "broke"}
Statuses  == {"uninit"} \cup Zombies \cup Stopped
NoCmd     == "none"
Kinds     == {"pid", "group", "any"}

Target == [kind : Kinds, id : PGids]
Proc   == [alive : BOOLEAN, background : BOOLEAN, stopped : BOOLEAN,
           haschanged : BOOLEAN, pgid : PGids]

PidTarget(p) == [kind |-> "pid", id |-> p]
AnyTarget    == [kind |-> "any", id |-> Shell]

NoProc == [alive |-> FALSE, background |-> FALSE, stopped |-> FALSE,
           haschanged |-> FALSE, pgid |-> Shell]

(***************************************************************************)
(* The process table                                                       *)
(***************************************************************************)

\* getproc(pid, FALSE): the live records an ewait target matches.
Matching(t) ==
    {p \in proclist : /\ rec[p].alive
                      /\ \/ t.kind = "any"
                         \/ (t.kind = "pid" /\ p = t.id)
                         \/ (t.kind = "group" /\ rec[p].pgid = t.id)}

\* waitpid(pid): the children the kernel lets it wait for. A zero pid names
\* the caller's own process group.
Waitable(t) ==
    {p \in Pids : /\ kstate[p] # "none"
                  /\ \/ (t.kind = "any" /\ kpgid[p] = Shell)
                     \/ (t.kind = "pid" /\ p = t.id)
                     \/ (t.kind = "group" /\ kpgid[p] = t.id)}

\* mkproc: the record of a new child.
mkproc(background, pgid) ==
    [alive |-> TRUE, background |-> background, stopped |-> FALSE,
     haschanged |-> FALSE, pgid |-> pgid]

\* The pids fork may return: unused as a pid and as a group.
Fresh == {p \in Pids : /\ kstate[p] = "none" /\ p \notin proclist
                       /\ \A q \in Pids : kpgid[q] # p}

\* The record of a child that has died or stopped, as ewait leaves it.
DiedForgetful(r)  == [r EXCEPT !.haschanged = TRUE]
Died(r)           == [r EXCEPT !.alive = FALSE, !.haschanged = TRUE]
HaltedForeground(r) == [r EXCEPT !.stopped = TRUE, !.haschanged = TRUE]
Halted(r)         == [r EXCEPT !.stopped = TRUE, !.background = TRUE, !.haschanged = TRUE]

\* The kernel forgets the children of the set D, whose status was taken.
Reap(D) ==
    /\ kstate' = [p \in Pids |-> IF p \in D THEN "none" ELSE kstate[p]]
    /\ kpgid'  = [p \in Pids |-> IF p \in D THEN Shell ELSE kpgid[p]]

\* donotwait: background children that have died lose their zombie and their
\* records are marked; a signal after waitpid has succeeded longjmps over the
\* update, so that the status of the children in lost is gone.
FinishedAny      == {p \in proclist : rec[p].alive /\ kstate[p] \in Zombies}
FinishedUnstopped == {p \in FinishedAny : rec[p].background /\ ~rec[p].stopped}
Finished == {p \in proclist : rec[p].alive /\ rec[p].background /\ kstate[p] \in Zombies}
donotwait(lost) ==
    /\ lost \subseteq Finished
    /\ lost # {} => "late" \in Faults
    /\ Reap(Finished)
    /\ rec' = [p \in Pids |->
                 IF p \in Finished \ lost THEN Died(rec[p]) ELSE rec[p]]
    /\ pend' = (pend \/ lost # {})

(***************************************************************************)
(* Unwinding                                                               *)
(***************************************************************************)

\* An exception reaches the catch of %interactive-loop: the rest of the line
\* is dropped, the pending signal has been thrown or is thrown there.
Unwind ==
    /\ pc' = IF Interactive THEN "prompt" ELSE "cmd"
    /\ cmd' = NoCmd /\ forks' = 0 /\ group' = Shell /\ todo' = <<>>
    /\ pend' = FALSE

\* assign_tty(shell_tty, shell_pgid)
KeepTty == UNCHANGED terminal
TakeTty == IF Interactive THEN tty' = Shell /\ resumed' = FALSE ELSE UNCHANGED terminal
-----------------------------------------------------------------------------
Init ==
    /\ kstate = [p \in Pids |-> "none"]
    /\ knote  = [p \in Pids |-> FALSE]
    /\ kpgid  = [p \in Pids |-> Shell]
    /\ setup  = [p \in Pids |-> "done"]
    /\ tty = Shell /\ resumed = FALSE
    /\ proclist = {}
    /\ rec = [p \in Pids |-> NoProc]
    /\ pc = IF Interactive THEN "prompt" ELSE "cmd"
    /\ cmd = NoCmd /\ forks = 0 /\ group = Shell /\ todo = <<>>
    /\ pend = FALSE /\ ret = "uninit"

(***************************************************************************)
(* The children and the kernel                                             *)
(***************************************************************************)

\* The child's half of efork: it sets its own group (PRIM(background) may by
\* now have moved it to the shell's) and, unless it was forked for the
\* background, takes the terminal for its group. It does so even when it was
\* stopped before it came to that and its job was Moved to the background.
WantsTtyAlways(p) == setup[p] # "done"
WantsTty(p)       == setup[p] = "tty"
Moved(p)          == setup[p] = "tty" /\ rec[p].background
ChildSetup(p) ==
    /\ kstate[p] = "run" /\ setup[p] # "done"
    /\ setup' = [setup EXCEPT ![p] = "done"]
    /\ kpgid' = IF setup[p] = "own" THEN [kpgid EXCEPT ![p] = p] ELSE kpgid
    /\ IF WantsTty(p) THEN tty' = kpgid'[p] /\ resumed' = Moved(p) ELSE UNCHANGED terminal
    /\ UNCHANGED <<kstate, knote, table, shell>>

ChildExit(p) ==
    /\ kstate[p] \in {"run"} \cup Stopped
    /\ \E z \in Zombies : kstate' = [kstate EXCEPT ![p] = z]
    /\ knote' = [knote EXCEPT ![p] = FALSE]
    /\ setup' = [setup EXCEPT ![p] = "done"]
    /\ UNCHANGED <<kpgid, terminal, table, shell>>

\* A child stops, by ^Z ("tstp") or by SIGSTOP, SIGTTIN or SIGTTOU ("stop").
\* Inside efork it still has the shell's handlers, and only SIGSTOP stops it.
ChildStop(p) ==
    /\ kstate[p] = "run"
    /\ \E s \in Stopped : /\ setup[p] # "done" => s = "stop"
                          /\ kstate' = [kstate EXCEPT ![p] = s]
    /\ knote' = [knote EXCEPT ![p] = TRUE]
    /\ UNCHANGED <<kpgid, setup, terminal, table, shell>>

\* SIGCONT from somewhere else than the shell, such as kill -CONT.
ChildContinue(p) ==
    /\ kstate[p] \in Stopped
    /\ kstate' = [kstate EXCEPT ![p] = "run"]
    /\ knote' = [knote EXCEPT ![p] = FALSE]
    /\ UNCHANGED <<kpgid, setup, terminal, table, shell>>

(***************************************************************************)
(* The prompt                                                              *)
(***************************************************************************)

\* The processes checkprocs and cleanproclist leave on the list.
KeptRunning == {p \in proclist : rec[p].alive /\ ~rec[p].stopped}
Kept        == {p \in proclist : rec[p].alive}

\* checkprocs: dead processes are freed, stopped ones are reported once.
checkprocs ==
    /\ pc = "prompt"
    /\ LET reported == {p \in proclist : rec[p].alive /\ rec[p].stopped /\ rec[p].haschanged}
       IN /\ proclist' = Kept
          /\ rec' = [p \in Pids |->
                       IF p \in reported THEN [rec[p] EXCEPT !.haschanged = FALSE]
                       ELSE IF p \in Kept THEN rec[p] ELSE NoProc]
    /\ pc' = "ready"
    /\ UNCHANGED <<kernel, cmd, forks, group, todo, pend, ret>>

\* %parse returns a command line (an empty one has no commands).
ReadLine ==
    /\ pc = "ready"
    /\ pc' = "cmd"
    /\ UNCHANGED <<kernel, table, cmd, forks, group, todo, pend, ret>>

\* The line is done: %interactive-loop runs $&donotwait and prompts again.
EndLine ==
    /\ Interactive
    /\ pc = "cmd" /\ ~pend
    /\ \E lost \in SUBSET Finished : donotwait(lost)
    /\ pc' = "prompt"
    /\ UNCHANGED <<knote, setup, terminal, proclist, cmd, forks, group, todo, ret>>

(***************************************************************************)
(* Starting children                                                       *)
(***************************************************************************)

\* The parent's half of efork: the record, the group and the terminal are set
\* at once, the child does its own part later.
efork(p, background, pgid) ==
    /\ p \in Fresh
    /\ kstate' = [kstate EXCEPT ![p] = "run"]
    /\ kpgid' = [kpgid EXCEPT ![p] = IF Interactive THEN pgid ELSE Shell]
    /\ setup' = [setup EXCEPT ![p] = IF ~Interactive THEN "done"
                                     ELSE IF background THEN "own" ELSE "tty"]
    /\ IF Interactive /\ ~background THEN tty' = pgid /\ resumed' = FALSE
       ELSE UNCHANGED terminal
    /\ proclist' = proclist \cup {p}
    /\ rec' = [rec EXCEPT ![p] = mkproc(background, IF Interactive THEN pgid ELSE Shell)]
    /\ UNCHANGED knote

\* forkexec and PRIM(fork) are a job of one process, PRIM(pipe) of several.
StartJob(n) ==
    /\ pc = "cmd" /\ ~pend
    /\ IF n = 1 THEN "job" \in Commands ELSE "pipe" \in Commands
    /\ n <= Cardinality(Fresh)          \* bound: jobs for which there are pids
    /\ pc' = "fork" /\ cmd' = "job" /\ forks' = n /\ group' = Shell /\ todo' = <<>>
    /\ UNCHANGED <<kernel, table, pend, ret>>

\* The first member names the group, the others join it; the members are
\* waited for from the last to the first.
ForkMember(p) ==
    /\ pc = "fork" /\ forks > 0
    /\ LET g == IF group = Shell THEN p ELSE group
       IN efork(p, FALSE, g) /\ group' = g
    /\ forks' = forks - 1
    /\ todo' = <<PidTarget(p)>> \o todo
    /\ pc' = IF forks = 1 THEN "enter" ELSE "fork"
    /\ UNCHANGED <<cmd, pend, ret>>

\* fork fails: es:efork unwinds, and with it the members already started.
ForkFail ==
    /\ "forkfail" \in Faults
    /\ pc = "fork"
    /\ Unwind
    /\ UNCHANGED <<kernel, table, ret>>

\* PRIM(here): a child in the shell's own group writes the document, then the
\* command runs as a job of one, then the writer is waited for.
StartHere(p) ==
    /\ pc = "cmd" /\ ~pend /\ "here" \in Commands
    /\ Cardinality(Fresh) > 1           \* bound, as for StartJob
    /\ efork(p, FALSE, Shell)
    /\ pc' = "fork" /\ cmd' = "here" /\ forks' = 1 /\ group' = Shell
    /\ todo' = <<PidTarget(p)>>
    /\ UNCHANGED <<pend, ret>>

\* PRIM(background): efork, then the parent moves the child to the shell's
\* group. The child sets its own group before ("done") or after ("own") that,
\* or the move fails: the child has exec'ed, or the shell leads no group.
Background(p) ==
    /\ pc = "cmd" /\ ~pend /\ "background" \in Commands
    /\ p \in Fresh
    /\ kstate' = [kstate EXCEPT ![p] = "run"]
    /\ \E g \in {Shell, p}, s \in {"own", "done"} :
          /\ s = "own" => g = Shell
          /\ kpgid' = [kpgid EXCEPT ![p] = g]
          /\ setup' = [setup EXCEPT ![p] = s]
    /\ proclist' = proclist \cup {p}
    /\ rec' = [rec EXCEPT ![p] = mkproc(TRUE, IF Interactive THEN p ELSE Shell)]
    /\ UNCHANGED <<knote, terminal, shell>>

(***************************************************************************)
(* Waiting                                                                 *)
(***************************************************************************)

\* ewait, on entry: zombies of background children are collected.
EwaitEnter ==
    /\ pc = "enter"
    /\ \E lost \in SUBSET Finished : donotwait(lost)
    /\ pc' = "wait" /\ ret' = "uninit"
    /\ UNCHANGED <<knote, setup, terminal, proclist, cmd, forks, group, todo>>

\* waitpid returns a dead child; a death by SIGINT is passed to catcher.
EwaitReap(p) ==
    /\ pc = "wait" /\ Matching(Head(todo)) # {}
    /\ p \in Waitable(Head(todo)) /\ kstate[p] \in Zombies
    /\ Reap({p})
    /\ rec' = [rec EXCEPT ![p] = Died(@)]
    /\ pend' = (pend \/ kstate[p] = "killed")
    /\ ret' = kstate[p]
    /\ UNCHANGED <<knote, setup, terminal, proclist, pc, cmd, forks, group, todo>>

\* waitpid reports a stop: the child becomes a background child and ewait
\* stops waiting for the others; a stop by SIGTSTP is passed to catcher.
EwaitStop(p) ==
    /\ pc = "wait" /\ Matching(Head(todo)) # {}
    /\ p \in Waitable(Head(todo)) /\ kstate[p] \in Stopped /\ knote[p]
    /\ knote' = [knote EXCEPT ![p] = FALSE]
    /\ rec' = [rec EXCEPT ![p] = Halted(@)]
    /\ pend' = (pend \/ (Interactive /\ kstate[p] = "tstp"))
    /\ ret' = kstate[p]
    /\ pc' = "broke"
    /\ UNCHANGED <<kstate, kpgid, setup, terminal, proclist, cmd, forks, group, todo>>

\* waitpid fails with ECHILD: there is a record but no such child.
EwaitNoChild ==
    /\ pc = "wait" /\ Matching(Head(todo)) # {} /\ Waitable(Head(todo)) = {}
    /\ TakeTty
    /\ Unwind
    /\ UNCHANGED <<kstate, knote, kpgid, setup, table, ret>>

\* A signal caught while the shell is in waitpid makes ewait fail with EINTR.
EwaitInterrupted ==
    /\ "signal" \in Faults
    /\ pc = "wait" /\ Matching(Head(todo)) # {}
    /\ TakeTty
    /\ Unwind
    /\ UNCHANGED <<kstate, knote, kpgid, setup, table, ret>>

\* The same after waitpid has taken p's death or stop and before slow is reset:
\* neither is ever recorded.
EwaitLate(p) ==
    /\ "late" \in Faults
    /\ pc = "wait" /\ Matching(Head(todo)) # {}
    /\ p \in Waitable(Head(todo))
    /\ \/ kstate[p] \in Zombies /\ Reap({p}) /\ UNCHANGED knote
       \/ /\ kstate[p] \in Stopped /\ knote[p]
          /\ knote' = [knote EXCEPT ![p] = FALSE]
          /\ UNCHANGED <<kstate, kpgid>>
    /\ TakeTty
    /\ Unwind
    /\ UNCHANGED <<setup, table, ret>>

\* A signal caught anywhere else is only remembered; waitpidwrapper clears
\* interrupted, so a signal just before it does not keep ewait from blocking.
ShellSignal ==
    /\ "signal" \in Faults
    /\ pc # "ready" /\ ~pend
    /\ pend' = TRUE
    /\ UNCHANGED <<kernel, table, pc, cmd, forks, group, todo, ret>>

\* sigchk between two commands of a line or of checkprocs.
sigchk ==
    /\ pc \in {"cmd", "prompt"} /\ pend
    /\ Unwind
    /\ UNCHANGED <<kernel, table, ret>>

\* The command has more children to wait for.
MoreAlways(rest) == TRUE
MoreNever(rest)  == FALSE
More(rest)       == rest # <<>>

\* The end of ewait: a script's shell forgets its dead children
\* (cleanproclist), the terminal goes back to the shell. Then the command goes
\* on to its next ewait, or is done; PRIM(here)'s command is forkexec'ed, so
\* that a signal is thrown before its writer is waited for.
EwaitReturn ==
    /\ pc = "broke" \/ (pc = "wait" /\ Matching(Head(todo)) = {})
    /\ IF Interactive
       THEN UNCHANGED table
       ELSE /\ proclist' = Kept
            /\ rec' = [p \in Pids |-> IF p \in Kept THEN rec[p] ELSE NoProc]
    /\ TakeTty
    /\ IF pend /\ (cmd = "here" \/ ~More(Tail(todo)))
       THEN Unwind
       ELSE /\ IF More(Tail(todo))
               THEN pc' = "enter" /\ cmd' = cmd /\ todo' = Tail(todo)
               ELSE pc' = "cmd" /\ cmd' = NoCmd /\ todo' = <<>>
            /\ group' = Shell
            /\ UNCHANGED <<pend, forks>>
    /\ UNCHANGED <<kstate, knote, kpgid, setup, ret>>

(***************************************************************************)
(* wait, fg and bg                                                         *)
(***************************************************************************)

\* PRIM(wait), with a pid, a process group or no argument.
Wait(t) ==
    /\ pc = "cmd" /\ ~pend
    /\ \/ (t = AnyTarget /\ "waitany" \in Commands)
       \/ (t.kind = "pid" /\ t.id \in Pids /\ "wait" \in Commands)
       \/ (t.kind = "group" /\ t.id \in Pids /\ "waitgroup" \in Commands)
    /\ cmd' = "wait" /\ todo' = <<t>> /\ pc' = "enter"
    /\ UNCHANGED <<kernel, table, forks, group, pend, ret>>

\* tcsetpgrp fails for a group that no process is in.
Alive(g) == g = Shell \/ \E q \in Pids : kstate[q] # "none" /\ kpgid[q] = g

\* kill(pid, SIGCONT) for every member of a group, as its records have it.
Members(p) == {q \in proclist : rec[q].alive /\ rec[q].pgid = rec[p].pgid}
ContinueLeader(M) ==
    /\ kstate' = [q \in Pids |-> IF q \in M /\ rec[q].pgid = q /\ kstate[q] \in Stopped
                                 THEN "run" ELSE kstate[q]]
    /\ knote' = [q \in Pids |-> knote[q] /\ ~(q \in M /\ rec[q].pgid = q)]
Continue(M) ==
    /\ kstate' = [q \in Pids |-> IF q \in M /\ kstate[q] \in Stopped THEN "run" ELSE kstate[q]]
    /\ knote' = [q \in Pids |-> knote[q] /\ q \notin M]

\* The records of M are put in the foreground or the background.
Put(M, background) ==
    rec' = [q \in Pids |->
              IF q \in M
              THEN [rec[q] EXCEPT !.background = background, !.stopped = FALSE]
              ELSE rec[q]]

\* The orders in which the members of a group may be on proclist.
Orders(M) == {s \in [1..Cardinality(M) -> M] :
                \A q \in M : \E i \in DOMAIN s : s[i] = q}

\* PRIM(fg): the job gets the terminal, is continued and waited for, one
\* member after the other.
fg(p) ==
    /\ Interactive /\ "fg" \in Commands
    /\ pc = "cmd" /\ ~pend
    /\ p \in proclist /\ rec[p].alive
    /\ IF Alive(rec[p].pgid) THEN tty' = rec[p].pgid /\ resumed' = FALSE
       ELSE UNCHANGED terminal
    /\ Continue(Members(p))
    /\ Put(Members(p), FALSE)
    /\ \E s \in Orders(Members(p)) : todo' = [i \in DOMAIN s |-> PidTarget(s[i])]
    /\ cmd' = "fg" /\ pc' = "enter"
    /\ UNCHANGED <<kpgid, setup, proclist, forks, group, pend, ret>>

\* PRIM(bg)
bg(p) ==
    /\ Interactive /\ "bg" \in Commands
    /\ pc = "cmd" /\ ~pend
    /\ p \in proclist /\ rec[p].alive
    /\ Continue(Members(p))
    /\ Put(Members(p), TRUE)
    /\ UNCHANGED <<kpgid, setup, terminal, proclist, shell>>
-----------------------------------------------------------------------------
Child == \E p \in Pids : ChildSetup(p) \/ ChildExit(p) \/ ChildStop(p) \/ ChildContinue(p)

Prompt == checkprocs \/ ReadLine \/ EndLine \/ sigchk

Fork == \/ \E n \in 1..MaxPipe : StartJob(n)
        \/ \E p \in Pids : ForkMember(p) \/ StartHere(p) \/ Background(p)
        \/ ForkFail

Ewait == \/ EwaitEnter \/ EwaitNoChild \/ EwaitReturn
         \/ \E p \in Pids : EwaitReap(p) \/ EwaitStop(p)

Fault == EwaitInterrupted \/ ShellSignal \/ \E p \in Pids : EwaitLate(p)

Builtin == \/ \E t \in Target : Wait(t)
           \/ \E p \in Pids : fg(p) \/ bg(p)

Next == Child \/ Prompt \/ Fork \/ Ewait \/ Fault \/ Builtin

\* The shell keeps running as long as it is not blocked, and so does a child
\* between its fork and its command. Nothing makes a command exit or stop, and
\* nothing makes the user send a signal.
Fairness == /\ WF_vars(Prompt \/ Fork \/ Ewait \/ Builtin)
            /\ \A p \in Pids : WF_vars(ChildSetup(p))

Spec == Init /\ [][Next]_vars /\ Fairness
-----------------------------------------------------------------------------
(***************************************************************************)
(* Properties                                                              *)
(***************************************************************************)

TypeOK ==
    /\ kstate \in [Pids -> KStates]
    /\ knote \in [Pids -> BOOLEAN]
    /\ kpgid \in [Pids -> PGids]
    /\ setup \in [Pids -> Setups]
    /\ tty \in PGids /\ resumed \in BOOLEAN
    /\ proclist \subseteq Pids
    /\ rec \in [Pids -> Proc]
    /\ pc \in PCs
    /\ cmd \in {NoCmd, "job", "here", "fg", "wait"}
    /\ forks \in 0..MaxPipe
    /\ group \in PGids
    /\ todo \in Seq(Target)
    /\ pc \in {"enter", "wait", "broke"} => todo # <<>>
    /\ pend \in BOOLEAN
    /\ ret \in Statuses

\* No child is without a record (proc.c:101-126, 449-472; prim-io.c:164-172): a
\* zombie or a stopped process can always be waited for, whatever the faults.
NoUnrecordedChild ==
    \A p \in Pids : kstate[p] # "none" => p \in proclist /\ rec[p].alive

\* No child is lost (proc.c:101-126, 211-227, 244-274): the children the
\* kernel holds for the shell are exactly those it has a live record of, so no
\* zombie is left without a record and nobody waits for a process that is gone.
RecordsMatchKernel ==
    \A p \in Pids : kstate[p] # "none" <=> p \in proclist /\ rec[p].alive

\* ewait and PRIM(fg) keep a stopped job out of the foreground (proc.c:260-265,
\* 354-360, 387-393): a process recorded as stopped is a background process, the
\* only kind donotwait collects and apids lists for bg and fg to pick up.
StoppedIsBackground ==
    \A p \in proclist : rec[p].alive /\ rec[p].stopped => rec[p].background

\* ewait never sleeps on a stopped foreground job (proc.c:252, 354-365): while
\* the shell waits for a job or for fg, its target runs, or there is a death or
\* a stop waitpid has yet to report, even if a signal made an earlier ewait drop
\* the report of a stop. Only PRIM(wait) may sleep on a stopped one.
ForegroundWaitAwake ==
    pc = "wait" /\ cmd # "wait" =>
        \A p \in Matching(Head(todo)) : kstate[p] \in Stopped => knote[p]

\* assign_tty at the end of ewait (proc.c:286-287): whenever the shell reads a
\* command line, the terminal is its own again, unless the last to set it is a
\* child that was stopped inside efork and reported, and is resumed only now
\* (proc.c:133-136).
TtyAtPrompt == pc = "ready" => tty = Shell \/ resumed

\* The same without the exception.
TtyNeverLate == pc = "ready" => tty = Shell

\* Every foreground process has been waited for, or become a background process,
\* before the shell reads the next line (proc.c:251-274, prim-io.c:271-277):
\* what is left alive is what donotwait and checkprocs look after.
NoForegroundLeft ==
    pc = "ready" => \A p \in proclist : rec[p].alive => rec[p].background

\* A foreground job holds the terminal from its fork to the return of its first
\* ewait (proc.c:118-120, 134-136; prim-sys.cpp:40-41): no background child takes
\* it away meanwhile, and no earlier job but one stopped inside efork.
JobHoldsTty ==
    pc \in {"enter", "wait", "broke"} /\ cmd = "job" /\ group # Shell =>
        tty = group \/ resumed

\* A foreground job of which a member still runs in the foreground keeps the
\* terminal: ask_for_tty (proc.c:192-198) gives it to the shell only when no
\* foreground process is left.
LiveJobKeepsTty ==
    pc = "wait" /\ cmd = "job" =>
        \A p \in proclist :
            rec[p].alive /\ ~rec[p].background /\ kstate[p] = "run" => tty = rec[p].pgid

\* ewait returns the status of a process it has waited for (proc.c:246, 289-290):
\* a foreground job or fg never reports the uninitialised wstatus of an ewait
\* whose loop did not run.
WaitHasStatus ==
    cmd # "wait" /\ (pc = "broke" \/ (pc = "wait" /\ Matching(Head(todo)) = {}))
        => ret # "uninit"

\* wait without a pid waits for any child process (es.1:2121-2122): it does not
\* fail while there is a child to wait for.
WaitAnyFindsChild ==
    pc = "wait" /\ Head(todo) = AnyTarget /\ Matching(AnyTarget) # {} => Waitable(AnyTarget) # {}

\* A background child that has died is taken off the list, as long as the user
\* comes back to the prompt (initial.es:968-982, 1030-1034).
BackgroundReaped ==
    []<>(pc = "ready") =>
        \A p \in Pids :
            (p \in proclist /\ rec[p].background /\ kstate[p] \in Zombies) ~> (p \notin proclist)
=============================================================================
