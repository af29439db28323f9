---------------------------- MODULE Descriptors ----------------------------
(***************************************************************************)
(* Redirections (prim-io.c) over the deferral stack and the registered     *)
(* descriptors of fd.c. A shell that has not forked for the command        *)
(* performs no redirection: it opens the file on whatever number is free,  *)
(* notes which number the user wants, and does what it has noted in the    *)
(* child, after the fork. The descriptors the shell holds for itself, the  *)
(* files it reads commands from and the ends of pipes, give way to the     *)
(* numbers the user names.                                                 *)
(*                                                                         *)
(* After a fork the model follows the child. scope is a ghost: for each    *)
(* region the evaluator is in, the descriptors the user has asked for.     *)
(*                                                                         *)
(* releasefdBare and newfdAny are slips that the properties exclude; no    *)
(* specification uses them.                                                *)
(***************************************************************************)
EXTENDS Naturals, Integers, Sequences, SequencesExt

CONSTANTS
    MaxFd,       \* bound: the highest descriptor, enough that open never fails
    Users,       \* descriptors that the user's redirections name
    Closes,      \* those of them that the user may close
    Ins, Outs,   \* descriptors that the user's pipes name
    Numbered,    \* whether a pipeline runs with descriptors above 2 redirected
    Chained,     \* whether %dup is asked for a number that fdmap looks up twice
    MaxRegions,  \* bound: regions entered and not left
    MaxForks     \* bound: generations of children

FD     == 0..MaxFd
Closed == "closed"
Script == "script"                      \* a file the shell reads commands from
Files  == <<"a", "b", "c", "d">>        \* what the user redirects to
File(n) == Files[(n % Len(Files)) + 1]  \* by depth

VARIABLES
    fds,       \* the descriptor table: what each number is open on
    deftab,    \* deferred operations, [real, user]; real is -1 for a close
    inputs,    \* the registered descriptors of the inputs, -1 once closed
    scope,     \* ghost: per region, what it is and the descriptors asked for
    forks

vars  == <<fds, deftab, inputs, scope, forks>>
table == [fds |-> fds, deftab |-> deftab, own |-> inputs]

View(t) == [fd \in FD |-> IF fd <= 2 THEN t[fd + 1] ELSE Closed]
Std     == View(<<"in", "out", "err">>)
view    == Last(scope).view             \* what the user has asked for

(***************************************************************************)
(* The descriptor table. A table record holds fds, deftab and own: the     *)
(* registered descriptors besides the deferred ones.                       *)
(***************************************************************************)
Free(t)  == CHOOSE fd \in FD : t[fd] = Closed /\ \A n \in 0..fd - 1 : t[n] # Closed
Dup(t, fd) == [t EXCEPT ![Free(t)] = t[fd]]
Close(t, fd) == IF fd = -1 THEN t ELSE [t EXCEPT ![fd] = Closed]

mvfd(t, old, new) == IF old = new THEN t
                     ELSE [t EXCEPT ![new] = t[old], ![old] = Closed]

\* releasefd: a registered descriptor with the number fd moves to a free one.
releasefdBare(c, fd) == c
releasefd(c, fd) ==
    LET new     == Free(c.fds)
        Put(n)  == IF n = fd THEN new ELSE n
        held    == {c.deftab[i].real : i \in DOMAIN c.deftab} \cup Range(c.own)
    IN  IF fd \notin held THEN c
        ELSE [fds    |-> mvfd(c.fds, fd, new),
              deftab |-> [i \in DOMAIN c.deftab |-> [c.deftab[i] EXCEPT !.real = Put(@)]],
              own    |-> [i \in DOMAIN c.own |-> Put(c.own[i])]]

dodeferred(c, real, user) ==
    LET r == releasefd(c, user)
    IN  [r EXCEPT !.fds = IF real = -1 THEN Close(@, user) ELSE mvfd(@, real, user)]

\* remapfds: in the order they were deferred, each one unregistered first.
remapfds(c) ==
    LET done[n \in 0..Len(c.deftab)] ==
          IF n = 0 THEN c
          ELSE dodeferred([done[n - 1] EXCEPT !.deftab = Tail(@)],
                          done[n - 1].deftab[1].real, c.deftab[n].user)
    IN  done[Len(c.deftab)]

\* closefds: n of the registered descriptors are inputs, closed in a child;
\* the others are ends of pipes, that are not.
closefds(c, n) ==
    LET r == remapfds(c)
    IN  [r EXCEPT !.fds = [fd \in FD |-> IF fd >= 3 /\ fd \in Range(SubSeq(r.own, 1, n))
                                         THEN Closed ELSE r.fds[fd]],
                  !.own = [i \in DOMAIN r.own |-> IF i <= n THEN -1 ELSE r.own[i]]]

\* fdmap: the real descriptor that a number stands for; the operations are
\* looked through from the last to the first, and what is found goes on.
Map(n, d) == IF n = d.user THEN d.real ELSE n
fdmap(fd) ==
    LET seen[n \in 0..Len(deftab)] ==
          IF n = 0 THEN fd ELSE Map(seen[n - 1], deftab[Len(deftab) + 1 - n])
    IN  seen[Len(deftab)]

newfdAny == LET free == {n \in FD : fds[n] = Closed}
            IN  CHOOSE n \in free : \A m \in free : n <= m

\* newfd: from 3 the first number that is not deferred, when it is free, else
\* the lowest free number that is not deferred.
newfd ==
    LET deferred == {deftab[i].user : i \in DOMAIN deftab}
        first    == CHOOSE n \in FD : n >= 3 /\ n \notin deferred
                                      /\ \A m \in 3..n - 1 : m \in deferred
        free     == {n \in FD : fds[n] = Closed /\ n \notin deferred}
    IN  IF fds[first] = Closed THEN first ELSE CHOOSE n \in free : \A m \in free : n <= m

-----------------------------------------------------------------------------
Set(c) == fds' = c.fds /\ deftab' = c.deftab /\ inputs' = SubSeq(c.own, 1, Len(inputs))
Region(kind, v) == Append(scope, [kind |-> kind, view |-> v])

\* Bounds: nobody does what the last generation would defer.
CanEnter == Len(scope) < MaxRegions /\ forks < MaxForks

Init ==
    /\ fds = [Std EXCEPT ![3] = Script] /\ deftab = <<>> /\ inputs = <<3>>
    /\ scope = <<[kind |-> "base", view |-> Std]>>
    /\ forks = 0

\* redir: in the shell the operation is deferred to the end of its region. In
\* a child that is to run nothing else it is done at once, for good. file is
\* what the user has asked for on user, whatever real is open on.
redir(t, real, user, file) ==
    LET asked == [view EXCEPT ![user] = file]
    IN  \/ /\ CanEnter
           /\ fds' = t
           /\ deftab' = Append(deftab, [real |-> real, user |-> user])
           /\ scope' = Region("redir", asked)
           /\ UNCHANGED inputs
        \/ /\ forks > 0 /\ Len(scope) = 1
           /\ Set(dodeferred([table EXCEPT !.fds = t], real, user))
           /\ scope' = <<[kind |-> "base", view |-> asked]>>

openfile(user) ==
    /\ redir([fds EXCEPT ![Free(fds)] = File(Len(scope))], Free(fds), user, File(Len(scope)))
    /\ UNCHANGED forks

\* The numbers the user speaks of: the standard descriptors, those redirected or
\* closed in a region, and those a child was started with.
Redirected == {deftab[i].user : i \in DOMAIN deftab}
Known(fd)  == fd <= 2 \/ fd \in Redirected \/ view[fd] # Closed

\* The last operation on fd left it on a number that no operation before is on.
Direct(fd) ==
    \A i \in DOMAIN deftab :
      /\ deftab[i].user = fd
      /\ \A j \in i + 1..Len(deftab) : deftab[j].user # fd
      => \A k \in 1..i - 1 : deftab[k].user # deftab[i].real

\* %dup asks for what the user has on from; dup(2) fails, and changes nothing,
\* when fdmap leads to nothing that is open.
dup(from, user) ==
    /\ Known(from) /\ (Chained \/ Direct(from))
    /\ fdmap(from) \in FD /\ fds[fdmap(from)] # Closed
    /\ redir(Dup(fds, fdmap(from)), Free(fds), user, view[from])
    /\ UNCHANGED forks

close(user) == redir(fds, -1, user, Closed) /\ UNCHANGED forks

\* undefer, at the end of the region or on an exception out of it.
undefer ==
    /\ Last(scope).kind = "redir"
    /\ fds' = Close(fds, Last(deftab).real)
    /\ deftab' = Front(deftab) /\ scope' = Front(scope)
    /\ UNCHANGED <<inputs, forks>>

\* A script, or a file for the dot command, is read.
runfd ==
    /\ CanEnter
    /\ fds' = [fds EXCEPT ![Free(fds)] = Script]
    /\ inputs' = Append(inputs, Free(fds))
    /\ scope' = Region("input", view)
    /\ UNCHANGED <<deftab, forks>>

fdcleanup ==
    /\ Last(scope).kind = "input"
    /\ fds' = Close(fds, Last(inputs))
    /\ inputs' = Front(inputs) /\ scope' = Front(scope)
    /\ UNCHANGED <<deftab, forks>>

\* The child of a fork starts with what the user has asked for, or with an end
\* of a pipe in its place.
Child(v) == /\ forks < MaxForks
            /\ forks' = forks + 1
            /\ scope' = <<[kind |-> "base", view |-> v]>>

efork == Child(view) /\ Set(closefds(table, Len(inputs)))

\* pipefork: both ends are registered, without close on fork, until the child
\* has done what was deferred. extra is the input of a pipeline's member.
pipefork(t, extra) ==
    LET r == Free(t)
        w == Free([t EXCEPT ![r] = "read"])
    IN  closefds([table EXCEPT !.fds = [t EXCEPT ![r] = "read", ![w] = "write"],
                               !.own = @ \o <<r, w>> \o extra],
                 Len(inputs))
End(c, i) == c.own[Len(inputs) + i]     \* an end of the pipe, in the child

\* The child that a backquote or %readfrom reads from, or %writeto writes to.
reader ==
    LET c == pipefork(fds, <<>>)
    IN  /\ Child([view EXCEPT ![1] = "write"])
        /\ Set([c EXCEPT !.fds = Close(mvfd(@, End(c, 2), 1), End(c, 1))])

writer ==
    LET c == pipefork(fds, <<>>)
    IN  /\ Child([view EXCEPT ![0] = "read"])
        /\ Set([c EXCEPT !.fds = mvfd(Close(@, End(c, 2)), End(c, 1), 0)])

\* The members of a pipeline. All but the last write to a pipe of their own,
\* all but the first read from the one of the member before, at inpipe.
pipe(first, last, infd, outfd) ==
    LET inpipe == Free(fds)
        t      == IF first THEN fds ELSE [fds EXCEPT ![inpipe] = "previous"]
        c      == IF last THEN closefds([table EXCEPT !.fds = t], Len(inputs))
                  ELSE pipefork(t, IF first THEN <<>> ELSE <<inpipe>>)
        from   == IF last THEN inpipe ELSE End(c, 3)
        rest   == [c EXCEPT !.own = SubSeq(@, 1, Len(inputs))]
        i      == IF first THEN rest
                  ELSE LET r == releasefd(rest, infd)
                       IN  [r EXCEPT !.fds = mvfd(@, from, infd)]
        o      == IF last THEN i
                  ELSE LET r == releasefd(i, outfd)
                       IN  [r EXCEPT !.fds = Close(mvfd(@, End(c, 2), outfd), End(c, 1))]
        asked  == [fd \in FD |-> IF ~last /\ fd = outfd THEN "write"
                                ELSE IF ~first /\ fd = infd THEN "previous" ELSE view[fd]]
    IN  Child(asked) /\ Set(o)

Next ==
    \/ \E u \in Closes : close(u)
    \/ \E u \in Users : openfile(u) \/ \E from \in Users \cup {0, 1, 2} : dup(from, u)
    \/ undefer \/ runfd \/ fdcleanup
    \/ efork \/ reader \/ writer
    \/ \E n \in Ins, m \in Outs : \/ \E first \in BOOLEAN : pipe(first, FALSE, n, m)
                                   \/ /\ Numbered \/ \A i \in DOMAIN deftab : deftab[i].user <= 2
                                      /\ pipe(FALSE, TRUE, n, m)

Spec == Init /\ [][Next]_vars
-----------------------------------------------------------------------------
(***************************************************************************)
(* Properties                                                              *)
(***************************************************************************)
\* A child that has nothing deferred has exactly the descriptors the user has
\* asked for, in whatever order redirections, inputs and pipes took and gave
\* back numbers (fd.c:117-124, 178-194; "Runs the command with file descriptor
\* fd set up to write to the file", es.1:2203).
ChildAsAsked == (forks > 0 /\ Len(scope) = 1) => fds = view

\* %newfd gives a number that hides no redirection in effect and no descriptor
\* of the shell (fd.c:205-224; "Returns a file descriptor that the shell thinks
\* is not currently in use", es.1:2492).
NewfdUnused == view[newfd] = Closed /\ newfd \notin Range(inputs)

\* A number that the user speaks of maps to what the user has on it, open or not
\* (fd.c:92-104; "Runs the command with the file descriptor oldfd copied to
\* file descriptor newfd", es.1:2209).
FdmapSees == \A fd \in FD : Known(fd) /\ (Chained \/ Direct(fd)) =>
                view[fd] = IF fdmap(fd) = -1 THEN Closed ELSE fds[fdmap(fd)]

\* Children have, and %dup copies, what the user has asked for.
AsAsked == ChildAsAsked /\ FdmapSees
=============================================================================
