------------------------------ MODULE Control ------------------------------
(***************************************************************************)
(* How the evaluator unwinds. A command is evaluated by a C call stack of  *)
(* walk, eval and primitives; beside it the shell keeps stacks of its own  *)
(* in globals: the exception handlers (tophandler), the dynamic bindings   *)
(* (pushlist), the input sources (input), the deferred redirections, the   *)
(* depth of evaluation and the count of blocksignals. What a construct     *)
(* adds to them it takes off when it ends, and when throw passes by; throw *)
(* itself pops bindings, which calls the settors of their variables, which *)
(* are commands again.                                                     *)
(*                                                                         *)
(* The program is any: a step of it enters a construct, ends the innermost *)
(* one or throws. s is the state of one process; a fork goes on as the     *)
(* child, whose handlers are those of main alone.                          *)
(*                                                                         *)
(* breakFor, stayBlocked, forgetThrow and keepInchild are slips that the   *)
(* properties exclude; no specification uses them.                         *)
(***************************************************************************)
EXTENDS Naturals, Sequences, FiniteSets, SequencesExt

CONSTANTS
    Worlds,      \* what a run begins with: [settors, throwing, signals, maxevaldepth],
                 \* the variables that have a settor, whether one may end by a throw,
                 \* how many signals come, and the limit of evaldepth
    MaxFrames    \* bound: constructs one in another that the program enters

VARIABLES
    world,
    pending,     \* signals that are caught and not yet thrown
    s            \* the process, see Init

vars == <<world, pending, s>>

Vars       == {"v", "path"}                          \* that local binds
Exceptions == {"error", "break", "return", "retry", "eof"}
Catching   == {"main", "run", "loop", "catch", "catcher", "fn", "for", "redir", "readfrom", "writeto"}
Evaluated  == {"run", "loop", "catch", "catcher", "fn", "redir", "readfrom", "writeto",
               "seq", "exec", "settor", "child"}     \* an activation of eval each

\* A frame of the C stack. stage: a seq begins with commands left, a local with
\* its binding; inchild: the flag EVAL_INCHILD for what it evaluates; thr: the
\* throw that a settor suspends, with n bindings left.
NoThrow == [e |-> "none", h |-> [at |-> 0, pushes |-> 0, evaldepth |-> 0]]
Frame(kind, v, inchild, stage) ==
    [kind |-> kind, v |-> v, inchild |-> inchild, stage |-> stage, thr |-> NoThrow, n |-> 0]
Stage(t, stage) == [t EXCEPT !.frames[Len(t.frames)].stage = stage]
Root == [at |-> 1, pushes |-> 0, evaldepth |-> 0]    \* roothandler

\* What ExceptionHandler saves: the frame to return to and the stacks it sees.
Handler(t) == [at |-> Len(t.frames), pushes |-> Len(t.pushes), evaldepth |-> t.evaldepth]
pushhandler(t) == [t EXCEPT !.handlers = Append(t.handlers, Handler(t))]
pophandler(t)  == [t EXCEPT !.handlers = Front(t.handlers)]
Push(t, v)     == [t EXCEPT !.pushes = Append(t.pushes, v)]
Pop(t)         == [t EXCEPT !.pushes = Front(t.pushes)]
stayBlocked(t) == t
unblocksignals(t) == [t EXCEPT !.blocked = t.blocked - 1]
Dead(t, why)   == [t EXCEPT !.dead = why]

\* The innermost frame is gone, by return.
Return(t) ==
    [t EXCEPT !.frames = Front(t.frames),
              !.evaldepth = IF Last(t.frames).kind \in Evaluated THEN t.evaldepth - 1
                            ELSE t.evaldepth]

(***************************************************************************)
(* Throwing                                                                *)
(***************************************************************************)
\* throw takes the top handler and unwinds for it; assert(handler != NULL).
Throw(t, e) ==
    IF t.handlers = <<>> THEN Dead(t, "nohandler")
    ELSE [t EXCEPT !.thr = [e |-> e, h |-> Last(t.handlers)], !.handlers = Front(t.handlers)]

\* eval begins, unless it is too deep.
Eval(t, kind) ==
    IF kind \in Evaluated THEN [t EXCEPT !.evaldepth = t.evaldepth + 1] ELSE t
TooDeep(t, kind) == kind \in Evaluated /\ t.evaldepth + 1 >= world.maxevaldepth

\* callsettor: the settor's frame, with $0 bound. flags are 0.
callsettor(t, v) ==
    IF TooDeep(t, "settor") THEN Throw(Push(Eval([t EXCEPT !.thr = NoThrow], "settor"), "0"), "error")
    ELSE Push([Eval(t, "settor") EXCEPT
                 !.frames = Append(t.frames, [Frame("settor", v, FALSE, "body") EXCEPT
                                                !.thr = t.thr, !.n = Len(t.pushes)]),
                 !.thr = NoThrow], "0")

\* A settor that throw has called is done: its binding goes and throw goes on.
forgetThrow(t, thr) == Pop(t)
Resume(t, thr) == Pop([t EXCEPT !.thr = thr])

\* The catch clause of the innermost frame, for e.
Rethrow(t, e) == Throw(t, e)
ReturnOn(t, e, caught) == IF e = caught THEN Return(t) ELSE Rethrow(t, e)
Becomes(t, kind) ==
    pushhandler([t EXCEPT !.frames = Append(Front(@), [Last(@) EXCEPT !.kind = kind])])
frombody(t) == Becomes([t EXCEPT !.blocked = t.blocked + 1], "catcher")
fromcatcher(t, e) == LET u == unblocksignals(t)
                     IN  IF e = "retry" THEN Becomes(u, "catch") ELSE Rethrow(u, e)
endinput(t) == [t EXCEPT !.inputs = Front(@)]
undefer(t)  == IF Last(t.frames).inchild THEN t ELSE [t EXCEPT !.defers = Front(@)]
Caught(t, e) ==
    LET kind == Last(t.frames).kind
    IN  CASE kind = "main"     -> Dead(t, "exit")
          [] kind = "run"      -> Rethrow(endinput(t), e)
          [] kind = "loop"     -> ReturnOn(t, e, "eof")
          [] kind = "catch"    -> frombody(t)
          [] kind = "catcher"  -> fromcatcher(t, e)
          [] kind = "fn"       -> ReturnOn(t, e, "return")
          [] kind = "for"      -> ReturnOn(t, e, "break")
          [] kind = "redir"    -> Rethrow(undefer(t), e)
          [] kind \in {"readfrom", "writeto"} -> Rethrow(t, e)

\* A step of throw: the innermost binding is popped, its settor called first;
\* when no more is left than the handler saw, control is back with the handler.
Unwind(t) ==
    LET h == t.thr.h
    IN  IF Len(t.pushes) > h.pushes
        THEN IF Last(t.pushes) \in world.settors THEN callsettor(t, Last(t.pushes)) ELSE Pop(t)
        ELSE Caught([t EXCEPT !.evaldepth = h.evaldepth, !.thr = NoThrow,
                              !.frames = SubSeq(t.frames, 1, h.at)], t.thr.e)

(***************************************************************************)
(* Constructs                                                              *)
(***************************************************************************)
\* Whether a construct hands its flag EVAL_INCHILD on to what it evaluates.
keepInchild(kind, inchild) == kind \in {"exec", "child"} \/ inchild
Inchild(kind, inchild) ==
    CASE kind \in {"exec", "child"}       -> TRUE
      [] kind \in {"run", "loop", "for"} -> FALSE
      [] OTHER                            -> inchild

Handed(t) == Last(t.frames).inchild /\ Last(t.frames).stage = "body"

Bind(t, v) == Stage(Push(t, v), "body")

\* What each construct adds to the stacks before it comes to the command in it.
runinput(u) == Push(pushhandler([u EXCEPT !.inputs = Append(@, Len(u.frames))]), "fn-%dispatch")
lambda(u)   == Push(pushhandler(u), "0")
redir(u)    == pushhandler(IF Last(u.frames).inchild THEN u
                           ELSE [u EXCEPT !.defers = Append(@, Len(u.frames))])
readfrom(u) == pushhandler(Push(u, "fd"))
batchloop(u) == pushhandler(u)
catch(u)    == pushhandler(u)
forloop(u)  == pushhandler(u)
localbind(u, v) == IF v \in world.settors THEN callsettor(u, v) ELSE Bind(u, v)
newchildcatcher(u) == [u EXCEPT !.handlers = <<Root>>, !.hasforked = TRUE]

Enter(t, kind, v) ==
    LET f == Frame(kind, v, Inchild(kind, Handed(t)),
                   CASE kind = "seq" -> "first" [] kind = "local" -> "push" [] OTHER -> "body")
        u == [Eval(t, kind) EXCEPT !.frames = Append(t.frames, f)]
    IN  IF TooDeep(t, kind) THEN Throw([t EXCEPT !.evaldepth = t.evaldepth + 1], "error")
        ELSE CASE kind = "run"     -> runinput(u)
               [] kind = "fn"      -> lambda(u)
               [] kind = "redir"   -> redir(u)
               [] kind \in {"readfrom", "writeto"} -> readfrom(u)
               [] kind = "loop"    -> batchloop(u)
               [] kind = "catch"   -> catch(u)
               [] kind = "for"     -> forloop(u)
               [] kind = "local"   -> localbind(u, v)
               [] kind = "child"   -> newchildcatcher(u)
               [] kind \in {"seq", "exec"} -> u

\* A settor ends: control is back in throw, varpop or varpush.
settorends(f, t) ==
    IF f.thr # NoThrow THEN Resume(t, f.thr)
    ELSE CASE Last(t.frames).stage = "pop"  -> Return(Pop(t))
           [] Last(t.frames).stage = "push" -> Bind(t, f.v)

\* The epilogue, when the command in a construct has ended without a throw.
breakFor(t) == Return(t)
LeaveFor(t) == Return(pophandler(t))
Leave(t) ==
    LET f == Last(t.frames)
    IN  CASE f.kind \in {"main", "child"} -> Dead(t, "exit")
          [] f.kind = "run"      -> Return(endinput(pophandler(Pop(t))))
          [] f.kind = "catch"    -> Return(pophandler(t))
          [] f.kind = "catcher"  -> Return(pophandler(unblocksignals(t)))
          [] f.kind = "fn"       -> Return(pophandler(Pop(t)))
          [] f.kind = "for"      -> LeaveFor(t)
          [] f.kind = "redir"    -> Return(pophandler(undefer(t)))
          [] f.kind = "readfrom" -> Return(Pop(pophandler(t)))
          [] f.kind = "writeto"  -> Dead(t, "badhandler")     \* assert(tophandler == handler)
          [] f.kind = "local"    -> IF f.v \in world.settors THEN callsettor(Stage(t, "pop"), f.v)
                                    ELSE Return(Pop(t))
          [] f.kind = "seq"      -> IF f.stage = "first" THEN Stage(t, "body") ELSE Return(t)
          [] f.kind = "exec"     -> Return(t)
          [] f.kind = "settor"   -> settorends(f, Return(Pop(t)))

-----------------------------------------------------------------------------
Init ==
    /\ world \in Worlds
    /\ pending = 0
    /\ s = [frames |-> <<Frame("main", "", FALSE, "body")>>, handlers |-> <<Root>>,
            pushes |-> <<>>, inputs |-> <<>>, defers |-> <<>>, evaldepth |-> 0, blocked |-> 0,
            hasforked |-> FALSE, thr |-> NoThrow, dead |-> "no"]

Running == s.dead = "no" /\ s.thr = NoThrow
Top     == Last(s.frames)

begin(kind, v) ==
    /\ Running /\ Len(s.frames) < MaxFrames /\ (kind = "child" => ~s.hasforked)
    /\ s' = Enter(s, kind, v) /\ UNCHANGED <<world, pending>>

\* A loop over the input ends by eof alone.
end == /\ Running /\ Top.kind # "loop"
       /\ s' = Leave(s) /\ UNCHANGED <<world, pending>>

\* Whether f ends the passing of e; a settor that does not throw is one whose
\* exceptions are caught in it.
Stops(f, e) == \/ f.kind = "catch"
               \/ <<f.kind, e>> \in {<<"catcher", "retry">>, <<"fn", "return">>,
                                    <<"for", "break">>, <<"loop", "eof">>}
Contained(e) == \A j \in DOMAIN s.frames : s.frames[j].kind = "settor" =>
                  \E k \in j + 1..Len(s.frames) : /\ Stops(s.frames[k], e)
                                                /\ \A m \in k..Len(s.frames) :
                                                      s.frames[m].kind # "child"
throw(e) == /\ Running /\ (world.throwing \/ Contained(e))
            /\ s' = Throw(s, e) /\ UNCHANGED <<world, pending>>

unwind == /\ s.dead = "no" /\ s.thr # NoThrow
          /\ s' = Unwind(s) /\ UNCHANGED <<world, pending>>

\* An external command in place of the shell, or of its child.
execve == /\ Running /\ Handed(s)
          /\ s' = Dead(s, "exec") /\ UNCHANGED <<world, pending>>

\* A signal is caught; sigchk throws it, or ends a child.
catcher == /\ pending < world.signals /\ s.dead = "no" /\ world.signals > 0
           /\ pending' = pending + 1 /\ UNCHANGED <<world, s>>
sigchk == /\ Running /\ pending > 0 /\ s.blocked = 0
          /\ pending' = 0 /\ UNCHANGED world
          /\ s' = IF s.hasforked THEN Dead(s, "exit") ELSE Throw(s, "signal")

Next == \/ \E kind \in (Catching \cup Evaluated) \ {"main", "catcher", "settor"} : begin(kind, "")
        \/ \E v \in Vars : begin("local", v)
        \/ end \/ unwind \/ execve \/ catcher \/ sigchk
        \/ \E e \in Exceptions : throw(e)

Spec == Init /\ [][Next]_vars

-----------------------------------------------------------------------------
(***************************************************************************)
(* Properties                                                              *)
(***************************************************************************)
\* A suspended throw has passed the frames between its handler's and the settor:
\* they have rethrown. Those of the parent that a child leaves by it have not.
Kind(k)     == s.frames[k].kind
Suspended   == {j \in DOMAIN s.frames : s.frames[j].thr # NoThrow}
InParent(k) == \E m \in k..Len(s.frames) : Kind(m) = "child"
Passed(k)   == \E j \in Suspended : /\ s.frames[j].thr.h.at < k /\ k < j
                                    /\ InParent(k) => InParent(j)
Taken(k)    == Passed(k) \/ \E j \in Suspended : s.frames[j].thr.h.at = k /\ ~InParent(j)
Frames(P(_)) == {k \in DOMAIN s.frames : P(k)}
InOrder(q, S) == Range(q) = S /\ \A i, j \in DOMAIN q : i < j => q[i] < q[j]

\* The handlers are those of the constructs under way, innermost last, whatever
\* has been thrown, caught and retried: tophandler never leads to a frame that
\* has returned, and none is skipped; in a child they end with main's
\* (except.c:13-26, 65-68; eval.c:389-415; prim-ctl.c:58-89).
HandlersLive ==
    Running =>
      InOrder([i \in DOMAIN s.handlers |-> s.handlers[i].at],
              Frames(LAMBDA k : /\ Kind(k) \in Catching
                                /\ k = 1 \/ ~InParent(k)
                                /\ ~Taken(k)))

\* A dynamic binding is in force exactly while the construct that made it is
\* under way and no throw has passed it (var.c:203-266, except.c:28-31).
Bound(f) == CASE f.kind = "run" -> <<"fn-%dispatch">>
              [] f.kind \in {"fn", "settor"} -> <<"0">>
              [] f.kind \in {"readfrom", "writeto"} -> <<"fd">>
              [] f.kind = "local" /\ f.stage # "push" -> <<f.v>>
              [] OTHER -> <<>>
BindingsMatch ==
    LET bound[k \in 0..Len(s.frames)] ==
          IF k = 0 THEN <<>>
          ELSE (IF s.frames[k].thr # NoThrow THEN SubSeq(bound[k - 1], 1, s.frames[k].n)
                ELSE bound[k - 1]) \o Bound(s.frames[k])
    IN  Running => s.pushes = bound[Len(s.frames)]

\* So are the input sources and the deferred redirections: commands are read
\* from, and written to, what the constructs under way say (input.cpp:784-814,
\* prim-io.c:35-44, fd.c:79-90).
SourcesMatch ==
    Running =>
      /\ InOrder(s.inputs, Frames(LAMBDA k : Kind(k) = "run" /\ ~Passed(k)))
      /\ InOrder(s.defers, Frames(LAMBDA k : Kind(k) = "redir" /\ ~s.frames[k].inchild
                                            /\ ~Passed(k)))

\* Signals are blocked for as long as a catcher runs and no longer, retry or
\* not, and evaldepth is the number of evals under way, so that max-eval-depth
\* is not used up by what has been thrown past (prim-ctl.c:67-85, eval.c:360-466).
CountersMatch ==
    Running =>
      /\ s.blocked = Cardinality(Frames(LAMBDA k : Kind(k) = "catcher" /\ ~Passed(k)))
      /\ s.evaldepth = Cardinality(Frames(LAMBDA k : Kind(k) \in Evaluated))

\* An exception on its way is not lost: a throw that a settor suspends goes on
\* when the settor is done, whatever is thrown and caught in the settor
\* (except.c:28-31).
ExceptionKept ==
    [][\A j \in DOMAIN s.frames :
         s.frames[j].thr # NoThrow /\ s'.dead = "no" /\ j > Len(s'.frames) =>
            s'.thr = s.frames[j].thr]_s

\* readfrom and writeto hand EVAL_INCHILD on, although they have a file to close,
\* a child to wait for and its status to print when the command is done.
Unwaited == {"readfrom", "writeto"}
LeavesNothing(f) == f.kind \notin {"run", "loop", "for", "settor"} \cup Unwaited
                    /\ f.stage # "first"
ExecUnder(Done(_)) ==
    s'.dead = "exec" /\ s.dead = "no" =>
      \E k \in DOMAIN s.frames : /\ Kind(k) \in {"exec", "child"}
                                 /\ \A j \in k..Len(s.frames) : Done(s.frames[j])

\* A command takes the place of a child, or of a shell that was asked to exec,
\* when no block, loop, input or settor has anything left to be done after it;
\* readfrom and writeto may (prim-ctl.c:10, input.cpp:781, eval.c:220;
\* prim-io.c:308-318, 349-360).
ExecIsLast == [][ExecUnder(LAMBDA f : LeavesNothing(f) \/ f.kind \in Unwaited)]_s

\* The same without the exception: readfrom waits for its child when its command
\* is done, "status = ewaitfor(pid)" (prim-io.c:316, 358). It does not.
ExecLeavesNothing == [][ExecUnder(LeavesNothing)]_s

\* The stacks beside the C stack are, at any time and whatever was thrown and
\* caught, those of the constructs under way: the bindings in force, the sources
\* of commands, the deferred redirections, and the two counters.
StacksMatch == BindingsMatch /\ SourcesMatch /\ CountersMatch

\* throw has a handler to go to, as it asserts: "assert(handler != NULL)"
\* (except.c:25).
HandlerFound == s.dead # "nohandler"

\* Who takes its handler off takes off its own: "assert(tophandler == handler)"
\* (except.c:14).
OwnHandler == s.dead # "badhandler"
=============================================================================
