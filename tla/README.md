# A TLA+ model of desh

desh is a job-control shell descended from es: a small functional language
(lists, closures, exceptions, dynamic and lexical binding) over Unix processes.
This directory holds TLA+ modules that model parts of it, the TLC configurations
that check them on small instances, and TLAPS proofs of their main invariants.
Line numbers refer to the sources beside this directory (`src/proc.c` and so on);
`PROJECT.json` maps every definition to the lines it stands for.

    tlc -workers 4 -config JobControl.cfg MCJobControl.tla
    tlapm JobControlProofs.tla

## The system

| part | sources | state | operations | hard behaviour |
|---|---|---|---|---|
| job control | proc.c, eval.c, prim-io.c, prim-sys.cpp, initial.es | process records, terminal owner, process groups | efork, ewait, donotwait, wait, fg, bg, background, pipe, here, the prompt loop | children run concurrently; both sides of a fork set group and terminal; signals between any two steps; forks fail half way |
| process list | proc.c | doubly linked list of records | mkproc, unlinkproc, cleanproclist, procfree, apids, procinfo | unlinking while walking; recycled pids |
| signals | signal.c, util.c | caught, sigcount, slow, interrupted, blocked, effects; the kernel's mask | catcher, sigchk, esignal, block, eread, ewrite, waitpidwrapper | handlers at every instruction, nested; longjmp out of a handler |
| descriptors | fd.c, prim-io.c | deferral stack, reserved descriptors | defer_mvfd, defer_close, undefer, fdmap, closefds, releasefd, newfd | operations postponed to the child; undone by exceptions |
| exceptions | except.c, prim-ctl.c | handler stack, push list, root list | throw, catch, pophandler, fail | settors run code, and throw, while the stacks unwind |
| variables | var.c | dictionary of variables, push list, cached environment | vardef, varpush, varpop, mkenv, setnoexport, initenv | isdirty, rebound and the cached strings may be stale |
| dictionary | dict.c | open-addressed table with tombstones | dictget, dictput, dictforall | deletion and growth on probe paths |
| collector | gc.c | spaces, roots, disable count, minspace | gcalloc, gc, forward, gcenable, gcdisable | collection at any allocation, into a chain of spaces |
| input | input.cpp, heredoc.c | stack of inputs, push-back, pending here documents, history | runinput, get, unget, parse, snarfheredoc | characters pushed back across a refill; signals in the middle of a command |
| matching, splitting, globbing, glomming | match.c, split.c, glob.cpp, glom.cpp, list.c | the separators and the word under way in split.c | match, extractmatches, splitstring, glob, glom | pure algorithms with many corner cases |
| lexer and printer | token.c, parse.y, conv.c | statics of the lexer | yylex, getfds, Sconv | words that touch, quotes and escapes, recovery from errors |
| evaluator | eval.c, closure.c, syntax.c, tree.c | trees, bindings, evaluation depth | eval, walk, forkexec | when a command may replace the shell's child (EVAL_INCHILD) |
| the rest | status.c, print.c, conv.c, decimal.c, prim-*.c, access.c, main.c, opt.c, dump.c, term.c, str.c | | | conversions, start-up, build-time dump |

How they interact: the evaluator starts children through `efork` and waits for
them through `ewait`. Both go to the kernel and to the records of `proc.c`. A
signal is noted by `catcher` at any moment and becomes an exception at the next
`sigchk`; in a slow call (`eread`, `ewrite`, `waitpidwrapper`) it ends the call by
a longjmp. An exception unwinds handlers, dynamic bindings and roots to the
innermost handler; in an interactive shell the last one is the `catch` of
`%interactive-loop`, which starts the prompt loop again. A forked child performs
the deferred descriptor operations, resets signals to their defaults and drops
the handlers.

What makes each part correct: no child is lost and none is waited for twice; a
stopped job can always be picked up again; the terminal belongs to the
foreground job, and to the shell at its prompt; a signal is neither slept over
nor thrown into a dead frame nor lost; a list operation keeps the list;
redirections act as if they were done one inside the other; after an exception
every stack is where it was; the exported environment is the one the variables
define.

## Modules

**JobControl** is the shell's one thread, its children and as much of the kernel as
they see. The shell's thread is cut at every fork, every `waitpid` and between
the commands of a line, since children, signals and the terminal can change
there and nowhere else matter. `pc` is `prompt` (checkprocs runs), `ready` (the
line is read), `cmd` (between commands), `fork` (between the forks of a job), and
`enter`, `wait`, `broke` inside `ewait`; `todo` are the `ewait` calls the command has
left. `rec` and `proclist` are the records; `kstate`, `knote`, `kpgid` and `tty` are the
kernel's side: the state of a child, a stop that has not been reported to
`waitpid`, its group, the terminal's group. `setup` is what a child still has to do
of its half of `efork`; a child may be stopped (by SIGSTOP) before that is done, and the
history `resumed` says that such a child, stopped and reported, was the last to set the
terminal when something resumed it (proc.c:133-136). Every C function is one action per way through it:
`EwaitReap`, `EwaitStop`, `EwaitNoChild`, `EwaitInterrupted`, `EwaitLate` are the outcomes
of one turn of `ewait`'s loop, `EwaitReturn` its end together with what the caller
does next. `StartJob` and `ForkMember` stand for `forkexec`, `$&fork` and `$&pipe`,
`StartHere` for `$&here`, `Background` for `$&background` with the race of the two
`setpgid` calls. `Faults` selects what may go wrong: `signal` (a signal to the
shell at any step), `late` (one between the success of `waitpid` and the end of
its wrapper, which loses the death or the stop that `waitpid` has reported), `forkfail`.

**Signals** models `catcher`, `sigchk`, `esignal`, `blocksignals` and a slow call one
memory access at a time. The running handlers are a stack; the program only
moves when it is empty. The test of `caught`, its setting, and the load and the store of
`++sigcount` and `--sigcount` are steps of their own. The kernel blocks a signal while its handler
runs and after a longjmp out of it; when `ewait` calls `catcher` itself (`Ewait`, for a child
that a signal has stopped or killed; proc.c:261, 268) it is not blocked. The history `double`
counts the handlers that ran in the midst of such a call for the same signal.

**ProcList** is the linked list at the level of cells and pointers, **ProcSeq** what it
stands for: a sequence of children from the latest to the earliest. Reading the
pointers from the head (`jobs`) is the refinement mapping.

**Dict** is the open-addressed table of dict.c, slot by slot, with tombstones, the count
`remain` of slots never used, and growth; **NameMap** is what it promises, a map. Looking
every name up (`get`) is the refinement mapping. The hash function is a parameter.

**Heap** is the collector: a chain of spaces, each a sequence of objects with a size
and pointers, the old chain during a collection, the forwarding of what was copied,
the roots, `minspace` and the disable count. A collection is one step per pointer
forwarded from the scan. `shadow` is the graph the shell has built, by the names of
its objects, which no collection changes.

**Descriptors** has the file descriptor table of one process, the deferral stack
(`deftab`), the descriptors the shell holds for its inputs, and, in `scope`, what the
user has asked each descriptor to be; for `%dup` that is what the user sees on the number
it names, whatever `fdmap` makes of it. The regions of redirections and inputs are
entered and left in nesting order; a fork goes on as the child, which does the
deferred operations, puts the ends of pipes in place and moves out of the way what
the shell holds.

**Control** is how the evaluator unwinds: the C stack as a sequence of frames, and
beside it the stacks the shell keeps in globals (handlers, dynamic bindings, inputs,
deferred redirections) with `evaldepth` and `blocked`. A step enters a construct, ends
the innermost one, or throws. The frames are the history from which the properties say
what the stacks should be. A throw that runs a settor is suspended in the settor's
frame. A fork goes on as the child.

**Reader** is the way from characters to tokens and here documents: `struct Input`
with its buffer, push-back and fill routine, `yylex` one character at a time with its
statics, the parser as far as it decides where a command ends, what it discards and
which here documents are queued, and `snarfheredoc`. The parser may refuse any token
(`Refuse`), which stands for the rest of the grammar: a refusal that the grammar does not make
only adds behaviours. A token
`NL` ends a command or is skipped (`Skips`: after an operator or a caret, in parentheses, around the
bindings of `local`), and the markers of here documents are queued where `redirect`
(syntax.c:185-205) is called, when a command or what the grammar combines it with is reduced
(`Pending`, `Reduced`). `stream` is what is left to be read; `src` is
the source: its reads, with the characters they hand over or the way they fail, a string or
a descriptor, a terminal or not, echoed or not. A read that a signal cuts off once read(2) has
succeeded has characters too, and they are lost. `Sconv` is the printer of words.

**Wildcards** holds `match`, `rangematch`, `listmatch` and the extraction as functions of
a subject, a pattern and its quote flags, index by index as the code goes, with `Beyond` for
the bytes `rangematch` reads behind the array `UNQUOTED`; **Match**
compares them with a denotation: a pattern is a sequence of elements, each the set of
words it stands for. **Split** is split.c call after call and piece after piece with its
statics; its reference cuts the text at its separators. **Words** makes lists of words
from trees (`glom1`, `glom2` with quote flags, `subscript`), then `glob`: home directories,
patterns over a small tree of files. Its reference carries with every character
whether it is quoted, and never moves a flag by itself.

**Environment** models var.c: the dictionary of variables (`vars`), the shared lexical
variable of closures (`bound`), the `noexport` list, the stack of dynamic bindings
(`pushlist`) and the two caches, the string of a variable (`vars[n].env`) and the
environment `mkenv` has made (`env`), with the marks `isdirty` and `rebound`. An
operation on a variable without a settor is one step. With a settor it is two,
the call and the return (`DefineCall` and `DefineReturn`, `PushCall` and `PushReturn`,
`PopCall` and `PopReturn`), and between them any operation may happen; `calls` is the
stack of the operations that wait. A settor may throw (`SettorThrows`), except the
one of `varpop`. A string is modelled as the value it was made of with the value
of the lexical variable at that time. `Risks` names three things the caches do not
stand: a settor of a local binding that runs commands (`exec`), a name that leaves
the noexport list (`export`), a settor that makes a word of a closure or a closure
of a word while `varpop` restores it (`kind`). The properties are checked and proved
without them; `environment_settor` shows the first one.

**MCJobControl**, **MCSignals**, **MCProcList**, **MCEnvironment** and the other MC modules
instantiate them for TLC. **MCInternals** and **MCLanguage** compose the modules of one
layer that share no variable: the initial state chooses the part that runs, and the
others stay where they are. So one run explores each of them in full, and the
state space is the sum of theirs and not the product. The operators listed at the end of each
module's first comment are deliberate slips: each property is known to fail when
the definition after them is replaced by one of them.

The proofs are in modules of their own. **JobControlProofs**, **SignalsProofs** and
**EnvironmentProofs** extend the module they are about, and so do **ProcListProofs**,
**DictProofs** and **ControlProofs**; **InternalsProofs** carries the results of these three over
to the properties that `MCInternals` checks, and in its second part proves those of
`Descriptors`. **ReaderProofs** extends Reader; its properties are those the run language
checks, since `MCLanguage` extends Reader and adds the other parts to it. A leaf
whose proof takes a prover more than a second or two names the prover and a longer time limit;
all the modules are proved with a quarter of the limits too (`tlapm --stretch 0.25`), which leaves
room for a slower machine. `InternalsProofs` is the slowest, with about
sixteen minutes.

## Runs

| run | module, cfg | shows |
|---|---|---|
| job_control | MCJobControl, JobControl | an interactive session without faults, two pids, pipelines of two: records match the kernel's children, a stopped process is a background one, the shell has the terminal and no foreground process at the prompt, a job keeps the terminal up to the end of its first `ewait` (both but for a child stopped inside `efork` and resumed), statuses are defined, dead background children leave the list |
| job_control_faults | MCJobControl, JobControlFaults | the same with here documents, signals, late signals and failing forks: what survives is that every child has a live record and that nobody sleeps on a stopped job |
| job_control_script | MCJobControl, JobControlScript | a script with three pids: one process group, no terminal, records freed in `ewait`: statuses are defined |
| wait_any (violation) | MCJobControl, JobControlWaitAny | `wait` without a pid fails while children exist |
| live_job_tty (violation) | MCJobControl, JobControlTty | the rest of a pipeline loses the terminal when its last member exits |
| signals | MCSignals, Signals | two signals, three sendings, one nested block: longjmp has a live frame, no lost wake-up, sigcount never counts what is not caught but for the signals counted twice in a direct call, a signal ends a sleep, counted signals are thrown |
| signals_sent (violation) | MCSignals, SignalsSent | a signal that is sent again is held back for ever after a longjmp out of its handler |
| internals | MCInternals, Internals | three pids in three cells; four names with four hash functions that collide in all ways; three objects of two words; redirections and inputs three deep over twelve descriptors and two forks; four frames of control with a settor or a signal: see below |
| language | MCLanguage, Language | sources of a few characters read one by one or all at once, words of up to three characters, patterns with every quoting, calls of split one after the other, trees of words over two directories: see below |
| proc_list_recycle (violation) | MCProcList, ProcListRecycle | a recycled pid loses records |
| environment | MCEnvironment, Environment | two variables, one with a settor, two words and a closure: a command gets the environment the variables define and no cached string is out of date, after any assignments, bindings, settors, exceptions and collections |
| environment_settor (violation) | MCEnvironment, EnvironmentSettor | a settor that runs a command keeps its local binding from being exported |

What internals checks, by part:

- processes: the links agree (`WellLinked`), walks stay on records in use (`WalkInUse`),
  and the list implements a sequence (`ImplementsSequence`).
- dictionary: the table implements a map (`ImplementsMap`), over deletions that shorten
  the probe path and growth of a table full of tombstones.
- heap: what is reachable keeps its contents, its pointers and its sharing (`Faithful`),
  and an allocation that collects gets room or asks for more (`MakesRoom`).
- descriptors: a child finds on every descriptor what the user has asked for, whatever
  the shell held on that number, and `fdmap` leads `%dup` to what the user sees on the number it
  names (`AsAsked`); `%newfd` gives a number nobody uses
  (`NewfdUnused`).
- control: the handlers, and with `StacksMatch` the bindings, inputs, deferred
  redirections and both counters, are those of the constructs under way
  (`HandlersLive`); a suspended throw goes on (`ExceptionKept`); a command takes the
  place of the shell only where no block, loop, input or settor has anything left to do
  (`ExecIsLast`; `readfrom` and `writeto` are excepted, see `ControlFindings` below).

What language checks, by part:

- reader: what the reads hand over comes as one stream, echoed once (`DeliversStream`); no error
  and no disabled collector is left for the next command (`ParserClean`); a here document
  without NULs, whose marker was quoted, is the text up to its marker (`HeredocExact`); a
  printed word is read back (`RoundTrip`).
- patterns: the matcher agrees with the denotation where `rangematch` stays inside of `UNQUOTED`
  (`MatchAgrees`), and for lists of subjects and patterns the extracted parts, put in place of the
  wildcards of the first pattern with wildcards that matches, give each subject back
  (`ExtractRebuilds`).
- splitting: the words are those of the text, whatever the pieces and the calls before
  (`WordsOfText`).
- words: the result of glom and glob is what the tree stands for (`WordsMean`).

Bounds. Two pids give a pipeline, a job beside a background child, a here
document and its command, and every order of their ends; the properties speak of
one process and its group, or of one process and the one waited for. Three are
needed in scripts, where all share one group. `MaxPipe` bounds a pipeline by the
pids. `StartJob` and `StartHere` begin only when there are pids for all members;
the record of a dead child is freed at the prompt, and its pid is then fresh
again, so no run is out of pids for good. For signals, two are the least that can
nest and race for `sigcount`; three sendings let one be sent again while the first
is handled. Three cells give a list with a head, a middle and a tail. In `Dict` a table
of eight slots grows to sixteen or not at all (`MaxSize`); four names fill half of it, and
with tombstones all of it. `Heap` has objects for a cycle and for one that nothing
reaches. `Descriptors` needs a number below and above those the shell holds, and a
child of a child; twelve numbers are exactly what the proof asks for (five that the user
names, three regions, room for a command's own and a pipe). Four frames in `Control` hold a loop or a binding with a settor
inside a catch, and one thing more inside that; `Contained` keeps a program from
throwing what nothing catches. In `Reader` each source aims at one construct of the
lexer or of the here documents; the short ones are read character by character and all at once,
and with a signal, an ignored signal or a failed read among the reads; `MAXUNGET` is
the array of the code. In `Split` the limit of the separators is two (`MaxIfs`, ten bytes
in the code), and three calls follow each other: one remembered, one too long to be,
and one more.
In `Environment` one variable has a settor and one has none; `MaxPush` and `MaxCalls`
bound the depth of local bindings and of settors, so that a settor can assign the
variable whose settor runs and a binding can be made inside one. Two words tell an
old value from a new one, one closure shows the effect of `rebound`. The proof
needs none of these bounds.

Fairness. `JobControl` assumes that the shell runs whenever it is not blocked in
`waitpid` and that a child gets through its half of `efork`; no fairness for exits,
stops, signals or the commands a user chooses. `BackgroundReaped` adds, as its
premise, that the prompt comes back again and again. `Signals` assumes that the
kernel delivers unblocked signals and that handlers and program run; the system
call itself may block for ever. `CountedDelivers` (and `CaughtIsThrown`) has the premise
that `sigchk` is called again and again with delivery enabled. The other modules have
only safety properties: their steps are those of one thread, which runs until it is
done.

What the violation runs show:
- `wait` without a pid is `waitpid(0)`: only the shell's own process group, in which
  an interactive shell has no child (proc.c:252; es.1:2121-2122).
- `ewait` gives the terminal back after each member of a pipeline (proc.c:287),
  past the test in `ask_for_tty` that was meant to decide it (proc.c:192-198).
- `catcher` longjmps to a label of `setjmp`, so that the signal stays blocked, and is not
  delivered when it is sent again (signal.c:97; es.1:1617-1619).
- mkproc reuses a record in place (proc.c:37-46) and `efork` makes it the head
  (122-124): `apids -a` no longer lists all children (initial.es:913-914).
- `varpush` and `varpop` set `isdirty` before the settor runs (var.c:212-214, 245-247),
  and a command run by the settor clears it: the new value is not exported
  (es.1:1253-1254). `vardef` sets it afterwards (184-186).

More disagreements, each with a configuration that TLC refutes at once
(`tlc -config X.cfg M`; with `-continue` where a cfg names several properties, of which the third
column says the one):

| cfg, module | shows | property |
|---|---|---|
| JobControlLate, MCJobControl | a child that was stopped inside `efork` and reported takes the terminal from the shell at its prompt when it is resumed (proc.c:133-136) | `TtyNeverLate` |
| SignalsCaught, MCSignals | `++sigcount` and `--sigcount` are not atomic: a count is lost, and a caught signal is never thrown (signal.c:93, 336; es.1:1617-1619) | `CaughtIsThrown` |
| ControlFindings, MCControl | `readfrom` and `writeto` hand EVAL_INCHILD on to their command, which takes the place of the process before they have waited for the other side (prim-io.c:308-318, 349-360) | `ExecLeavesNothing` |
| ControlFindings, MCControl | `writeto` pops a handler that was never pushed (prim-io.c:356), and the assertion of `pophandler` fails when its command returns | `OwnHandler` |
| ControlDeep, MCControl | settors that run while `throw` unwinds fail at the depth limit, as evaldepth is lowered last (except.c:28-32), and use the handlers up | `HandlerFound` |
| HeapScan, Heap | `scanspace` does not scan what is copied into the front space after its scan (gc.c:326-347) | `NoneDangling` |
| HeapRoom, Heap | with the live data below half of `minspace` and an object larger than what is left, `minspace` does not grow (gc.c:445-448, 484-485) and `gcalloc` collects for ever | `MakesRoom` |
| DescriptorsDup, MCDescriptors | `fdmap` maps its own result again (fd.c:92-104), and `%dup` copies another descriptor or fails | `FdmapSees` |
| DescriptorsPipe, MCDescriptors | the last member of a pipeline does not register its input before the deferred operations (prim-io.c:240) | `ChildAsAsked` |
| ReaderFindings, MCReader | a signal after the success of read(2) makes EINTR of it, and what was read is lost (util.c:107-120, input.cpp:695-708), with `sig_noop` silently | `LosesNothing` |
| ReaderFindings, MCReader | a backslash before a quote inside quotes is an escape to the lexer (token.c:319-329), not to the printer nor to es.1:258-260 | `RoundTrip` |
| MatchFindings, MCMatch | `rangematch` moves its pointer to the quoting even when that is `UNQUOTED`, and reads behind the array "RAW" (match.c:22, 31, 36, 39, 47; glob.cpp:9): an unquoted class of four characters may not end at its bracket | `TildeMeans` |
| MatchFindings, MCMatch | a matching pattern without wildcards does not end the extraction of a subject (match.c:179-181, 245-258; es.1:799-806) | `ExtractMovesOn` |
| MatchFindings, MCMatch | extraction with two stars together meets its assertion (match.c:195) | `ExtractAsserts` |
| SplitMoved, MCSplit | `fsplit` reads a word from where it was before a collection (split.c:94) | `WordsWhenMoved` |

The passing runs leave these cases out by their constants, each named at its
declaration (`Numbered`, `Chained`, `throwing` and `maxevaldepth` of a world, `Sizes`, the sources and
patterns of the MC modules), or by the properties: `TtyAtPrompt` and `JobHoldsTty` by `resumed`,
`CountNeverOver` by `double`, `ExecIsLast` by `Unwaited`, `MatchAgrees` by `AllInBounds`,
`ExtractRebuilds` by asking for the first pattern with wildcards, and `WordsOfText` by the field `spoilt` of a
result. `DeliversStream` speaks of what the reads hand over. Two
more are left out by `sound`: a read that fails throws with the collector disabled
(input.cpp:697-704), and a signal of effect `sig_noop` clears an error that the parser has
reported and is about to return, against its assertion (input.cpp:747).

## Proofs

`JobControlProofs` proves for every finite set of pids, every set of commands and
either kind of session:

| theorem | statement | argument |
|---|---|---|
| TypeCorrect | `Spec => []TypeOK` | one lemma per group of actions, split into kernel, table and shell variables |
| ChildrenRecorded | `Spec => []NoUnrecordedChild`, any faults | inductive with `TypeOK`: only `efork` makes a child, together with its record; a record dies only with a reaped child; `Kept` keeps live records |
| RecordsMatch | `Spec => []RecordsMatchKernel` without the fault `late` | the converse half (`NoGhost`, no live record without a child) is inductive when `waitpid` and the update of the record are one step |
| StoppedBackground | `Spec => []StoppedIsBackground` | inductive with `TypeOK`: `Halted` and `Put` change both marks together |
| WaitStatus | `Spec => []WaitHasStatus`, any faults | what `ewait` returns comes from `waitpid` or from a record that is dead |
| ForegroundAwake | `Spec => []ForegroundWaitAwake`, any faults | `NoteKept`: a stopped process in the foreground that the command is still to wait for has its report left. A report `ewait` takes makes it a background process; one that a signal makes `ewait` lose unwinds the command, and only `fg`, which continues the process first, waits for it again |
| ForegroundAllAwaited | `Session => (Spec => []NoForegroundLeft)` | the foreground processes are those that `todo` still names |
| PromptHasTty | `Session => (Spec => []TtyAtPrompt)` | the terminal belongs to the shell or to the job that `todo` names, unless `resumed`; a child that has still to set it is one of that job, or is stopped and recorded as such |
| JobKeepsTty | `Session => (Spec => []JobHoldsTty)` | the same invariant, at the first `ewait` of a job |

`Session` is an interactive session without faults and without `$&here`
(`Interactive /\ Faults = {} /\ "here" \notin Commands`). Each part is needed: with
a fault a job is left half waited for, and when the command of a here document dies
of a signal, `here` unwinds past its writer, which is then nobody's to wait for and
whose half of `efork` may even take the terminal from the next job.

`SignalsProofs` proves for every finite set of signals and any number of nested
handlers:

| theorem | statement | argument |
|---|---|---|
| LongjmpHasFrame | `Spec => []SlowFrameLive` | inductive: `slow` is set at `arm` and cleared at `disarm`, to where a longjmp goes |
| NoLostWakeup | `Spec => []WakeupNotLost` | inductive with the former: in the system call `slow` holds, so that a handler which sets `interrupted` also leaves the call |
| SignalTypes | `Spec => []TypeOK` | part of `IInv`: what sigchk has loaded is at least one |
| CountIsCaught | `Spec => []CountNeverOver` | `IInv` bounds `sigcount` by the caught signals that are not being counted: `Uncounted` are those of the handlers between their mark and their store, and the one sigchk has yet to forget; `double` makes up for those counted twice. `Loaded` says that a register holds no more than `sigcount` holds now, since whoever interrupts only adds; `Nested` that a signal has one handler at a time, and one more if the outermost is a direct call |

`EnvironmentProofs` proves for any sets of names, words and closures and any depth
of bindings and settors:

| theorem | statement | argument |
|---|---|---|
| EnvironmentTypes | `Spec => []TypeOK`, any `Risks` | inductive with `BasesRight`: the bindings below a running settor stay until it returns, among them the one it restores |
| StringsStayCurrent | `Risks = {} /\ Spec => []StringsCurrent` | part of `IInv`; the flags say what is a closure (`FlagsRight`, `SavedRight`), and no string is made of an internal variable |
| CommandsGetTheVariables | `Risks = {} /\ Spec => []CommandsGetVariables` | `IInv` has `Clean` (without `isdirty` and `rebound` the environment is the one the variables define) and `Announced` (`isdirty` stays set while the settor of an exported local binding runs), which is what the risk `exec` breaks |

`CommandsGetVariables` alone is not inductive: it says nothing of the strings a
later `mkenv` will take, nor of the binding a running settor is about to make.

`ProcListProofs`, `DictProofs` and `InternalsProofs` prove for any pids and memory cells, any
names, values and hash functions:

| theorem | statement | argument |
|---|---|---|
| LinksAgree, WalkSafe | `ListAssumption => (Spec => []WellLinked)`, `[]WalkInUse` | the invariant says that the records in use are the cells of one sequence without repetition and that `next` and `prev` are its neighbours; each operation inserts at its head or deletes one element |
| AllListed | `ListAssumption => (Spec => []KnownListed)` | the same sequence holds the pids of all children recorded |
| ListIsSequence | `ListAssumption => (Spec => ImplementsSequence)` | every step of the list is a step of `ProcSeq` under `jobs`, or leaves `jobs` alone |
| ProbesAlwaysEnd | `DictAssumption => (Spec => []ProbesEnd)` | the slots never used are `remain` and the part of the table that growth keeps in reserve: there is always one |
| TableIsMap | `DictAssumption => (Spec => ImplementsMap)` | names are unique in the table and no slot never used stands between a name's hash and its place, over insertion, tombstones and growth |

`ListAssumption`: the cells are finite and no pid is recycled; with recycled pids `KnownListed`
is false (`proc_list_recycle`). `DictAssumption`: hashes are natural numbers, the two marks
of unused slots are no names, `NULL` is no value. That a walk over the list ends and that
growth copies every entry are inductions over data. They are done over a set of
numbers (`Induction`: a set that holds 0 and with each number the next holds
them all), which takes a set where the library's theorem takes an operator, with
`dictforall` and the walk written as recursive functions.

The second part of `InternalsProofs` proves for any nesting of regions, any generations of
children and any numbers the user names:

| theorem | statement | argument |
|---|---|---|
| DescriptorsInvariant | `DescriptorsAssumption => (Spec => []DescriptorsInv)` | see below |
| ChildrenAsAsked | `DescriptorsAssumption => (Spec => []AsAsked)` | in a child with one region nothing is held, and the table that agrees is the one asked for |
| NewfdIsUnused | `DescriptorsAssumption => (Spec => []NewfdUnused)` | a number that is free and not the target of a deferred operation is one nobody has asked for |

`AsAsked` looks at one moment, the child between commands; what makes it true is spread over
all the regions before. `DescriptorsInv` says:

- `Agree`: the table is the one asked for at the outermost region, but for the numbers the
  shell holds, which are numbers that region has nothing on (so that `releasefd` may move
  them and `closefds` close them);
- `Apart`: no number is held by two deferred operations, two inputs or one of each;
- `Nested`: the table after each deferred operation, done in order from the outermost view,
  is the view of the region that deferred it; the other regions have the one below them. An
  operation lost, done early or in another order would break this one;
- `Counted`: the inputs that no region has opened are the script or, in a child, closed. So
  each region holds at most one number, and there is always a free one.

`remapfds` does the deferred operations in order, each moving what stands in its way; that
the result is the innermost view is an induction over the operations. `fdmap` leads to the
real descriptor of the last operation on a number; when no operation before that one has the real
descriptor for its own target (`Direct`), that is where `Nested` has put what the user sees.

`DescriptorsAssumption`: the user closes only descriptors above 2; pipes are on the standard
ones; a pipeline does not run with a descriptor above 2 redirected (`~Numbered`: with one the
last member loses its input, which `DescriptorsPipe` shows); `%dup` names no number that `fdmap` maps
twice (`~Chained`, see `DescriptorsDup`); and `MaxFd` leaves room, since a
failing open is not modelled.

`ControlProofs` proves of `Control`, and `InternalsProofs` of the part of `MCInternals` that is an
instance of it, for any nesting and, but for the last two, in every world: any variables with
settors, settors that throw or not, any number of signals, any limit of the depth of evaluation.
That includes what `ControlDeep` shows to go wrong with the number of handlers: also there each
is the one of a construct under way.

| theorem | statement | argument |
|---|---|---|
| HandlersStayLive | `Spec => []HandlersLive` | `Live(f, n)` says from the frames alone which of the first `n` have a handler. `ControlInv`: the handlers are those of `Live`, in order; while a throw is under way, those of `Live` below the one it has taken (`Below`). `Live` of a longer stack is that of the shorter one with the new frame (`LiveOrdinary`), cut at the handler of the throw a settor suspends (`LiveSuspended`), or main alone after a fork (`LiveForked`), and coming back to a handler gives it as it was (`LiveCut`) |
| ExecEndsShell | `Spec => ExecIsLast` | part of `ControlInv`: under a frame that hands EVAL_INCHILD on there is a fork or an exec, and nothing between them has anything left to do, but for the ends of `readfrom` and `writeto` (`Exec`) |
| StacksStayMatched | `OrderlyWorlds => (Spec => []StacksMatch)` | `StacksInv`, see below |
| ThrowsGoOn | `OrderlyWorlds => (Spec => ExceptionKept)` | by `StacksInv` whatever is thrown in a settor has a handler above the settor's frame (`Quiet`, `Stopped`), so that no throw passes it |

`HandlersLive` alone is not inductive: it says nothing while a throw is under way, nor of
the handlers below a suspended one. Nor is `StacksMatch`, for the same reason: what it says is
true again after a throw because each handler has saved the right depths. `StacksInv` has, with a
sequence `b[k]` of the bindings the first `k` frames have made (`Chain`):

- `Saved`: every handler on the stack, and that of every suspended throw, has saved the number
  of bindings and of evaluations its frame had seen;
- `Settled`, when the program runs: the bindings in force are `b` of the innermost frame, the
  input sources, deferred redirections and blocks are those of the frames no throw has passed
  (`Still`, `Stocked`), and `evaldepth` is the number of evaluations (`Evals`);
- `Flying`, when a throw is under way: the bindings are a prefix of `b` not shorter than the
  handler saved, and the other stacks are those that are left when the throw comes down to its
  handler (`Left`);
- `Quiet`: a throw that a settor suspends has bindings left to pop, and above every settor under
  way there is a live frame that stops whatever is being thrown (`Stopped`), also of the throws
  that are suspended.

`OrderlyWorlds`: settors do not throw (an exception in a settor is caught in it); a world with
settors has no signals, which sigchk would throw out of them; and `maxevaldepth` exceeds the
number of frames by more than two, so that no settor is refused for being too deep. With a settor that
throws, `StacksMatch` and `ExceptionKept` are both false after five frames, and so they are with a
signal in a settor: the throw that called the settor is forgotten together with what it had still
to pop (except.c:28-31). Worlds without settors may have any number of signals and any limit. In
`ControlDeep` a settor is refused for its depth.

`ReaderProofs` proves for any sources: texts of any length, cut into reads in any way, strings
or descriptors, with failing reads and signals between any two of them, and with a parser that
may refuse any token; the last theorem is about the sources that are a printed word:

| theorem | statement | argument |
|---|---|---|
| ReaderDeliversStream | `Spec => []DeliversStream` | `StreamInv`: the push-back reversed, then the buffer from its (saved) place, then the reads to come are the stream; `UngetInv` says at each point of the lexer how much is pushed back: two characters only when the second is the backslash of an escape that a free caret was put before |
| ReaderParserClean | `Spec => []ParserClean` | `CleanInv`: the collector is disabled exactly while a command is parsed, and an error that was reported stays reported until the command is given up |
| ReaderHeredocExact | `Spec => []HeredocExact` | `DocInv` with `Partial`: what was read of a document is the text from its first line to the place of the reader, but for the part of the marker matched so far, and no line that has begun before it was the marker |
| ReaderRoundTrip | `Spec => []RoundTrip`, assuming `PrintedAssumption` | `RoundInv`: there is a place in the word such that the tokens given so far say the word up to it, and what is still to be read is what `Sconv` prints from it on |

`DeliversStream` alone is not inductive: it bounds the push-back by two, and a lexer that had
pushed back one character too many at some point would break it only later; hence the table
of `UngetInv`. For `HeredocExact` the code matches the marker on the fly and puts a failed part
of it into the document: that is right because the part is put back at once and matching is
tried again only after a line end, and no marker holds one (`Snarf` refuses it). A place in the
document is a number, `Len(Text) - Len(stream) + 1`, which `PlaceInv` justifies: where nothing is
pushed back, the stream is a suffix of the text.

`RoundTrip` is about two programs, the printer (conv.c) and the lexer (token.c), that know
nothing of each other. What `Sconv` prints of a word is a concatenation of pieces, one for each
character; `Starting`, `InQuotes` and `Joined` say what is left of it from a character on, where a
token begins, inside quotes and after a token. `RoundInv` says for each point of the lexer which
character it has come to (`Reached`), with what in its buffer. Three cases need care: a quote
inside quotes, where the lexer looks one character past the second quote; a backslash inside
quotes, where it looks for a line end or a quote; and an octal escape, which has one
digit and ends only because a caret or the end of the source follows. `PrintedAssumption` allows
words of all the characters of the model but NUL and makes one exception: a backslash has to stand before
a printing character that is no quote. That is needed, since any other is printed before a quote, where the
lexer takes it for an escape (token.c:319-329): the disagreement that `ReaderFindings` finds. `MCLanguage` assumes the same,
so that TLC evaluates it for the words of the run.

The assumptions are named where the constants are: `Environment` (words, closures and
the empty list are distinct; no string is `NoString`), `Reader` (a read hands over characters or
fails in one of three ways, with or without characters that are lost; room for two characters of push-back, as in input.h), `Signals` (finitely many signals,
which are numbers) and `JobControl` (finite pids, the shell is not a pid, a Boolean
session kind, a positive pipeline bound), and in the proof modules for the parts of
`MCInternals`.

Only model-checked:

- `Faithful` and `MakesRoom` of Heap. They hold of the instance of `Internals.cfg` and not of
  every one: `HeapScan` and `HeapRoom` are instances in which the code breaks them.
- of the run language, the properties of patterns, splitting and words. They
  say of an algorithm what it computes, by induction over its input (a subject, a tree, a
  list); `Words` has RECURSIVE operators, which the provers cannot use.
- everything about liveness, which is out of the prover's reach.

## What is not modelled

Of job control: `readfrom`, `writeto`, `backquote` and `$&run` (a job that surrounds
another one), terminal modes, `setpgid` and `tcsetpgrp` errors other than the ones
named, the children's own shells. The order of the process list in JobControl
(any order there, ProcList here). Of signals: `ewrite`, `block`/`unblock`,
`initsignals`, `setsigdefaults`, the names. Of variables: the
import of the environment at start, `listvars`, numbered and special variables, and
exceptions thrown by a settor inside `varpop` (Control has those without the
variables). Of descriptors: here documents and background children as users of
them, failing opens. Of control: the writer that `$&here` forks and waits for, the root list,
`%exit-on-false`, the values of expressions. Of the collector: `gcreserve`, the protected spaces (GCPROTECT), the
growing buffers. Of the reader: strings in double quotes (token.c:284, 308), keywords other than
`local` and `~~`, targets of redirections other than words and variables, the syntax trees, which
tokens the grammar refuses,
history and terminal editing (an external library). Of words: calls and closures
inside words, `getclosure`. Left out as a whole: formatting but for `Sconv`, arithmetic
(a decimal library), exit statuses (a function of one word), options, the primitives
that wrap one system call, and what runs at build time (dump.c, mksignal.c): sequential
code with little state, where a model would restate the code.

## Plan

Done: the modules above; the proofs of all safety properties of JobControl, Signals and
Environment; of ProcList and Dict with their refinements; of Descriptors; of Control; of
Reader.

1. *JobControl*: nested jobs (`readfrom`, `writeto`, `backquote`).
2. *Signals*: the process mask with `block`/`unblock` and what children inherit.
3. *Environment*: runs for the risks `export` and `kind`.
