---------------------------- MODULE MCInternals ----------------------------
(***************************************************************************)
(* The structures under the evaluator, checked in one run: the process     *)
(* list, a dictionary, the heap, the descriptors and the control stacks.   *)
(* They share no variable; a behaviour is one of one of them, chosen by    *)
(* part, while the others stay in an initial state.                        *)
(***************************************************************************)
EXTENDS Naturals, Sequences

CONSTANTS
    Pids, Cells, Null, Recycle,
    Names, Values, Hashes, MaxSize,
    Roots, Sizes, MinSpace, MaxObjects, MaxWords, MaxBlocked,
    MaxFd, Users, Closes, Ins, Outs, Numbered, Chained, MaxRegions, MaxForks,
    Worlds, MaxFrames

VARIABLES
    part,
    children, proclist, next, prev, rec, walk,
    strhash, dict, call,
    space, old, fwd, gen, minspace, gcblocked, root, pc, want, scan, shadow, shadowroot,
    fds, deftab, inputs, scope, forks,
    world, pending, s

pvars == <<children, proclist, next, prev, rec, walk>>
dvars == <<strhash, dict, call>>
hvars == <<space, old, fwd, gen, minspace, gcblocked, root, pc, want, scan, shadow, shadowroot>>
fvars == <<fds, deftab, inputs, scope, forks>>
cvars == <<world, pending, s>>

P == INSTANCE ProcList
D == INSTANCE Dict
H == INSTANCE Heap
F == INSTANCE Descriptors
C == INSTANCE Control

Parts == {"processes", "dictionary", "heap", "descriptors", "control"}
Init ==
    /\ part \in Parts
    /\ P!Init /\ D!Init /\ H!Init /\ F!Init /\ C!Init
    /\ part # "dictionary" => strhash = CHOOSE h \in Hashes : TRUE
    /\ part # "control" => world = CHOOSE w \in Worlds : TRUE
Next ==
    \/ part = "processes" /\ P!Next /\ UNCHANGED <<part, dvars, hvars, fvars, cvars>>
    \/ part = "dictionary" /\ D!Next /\ UNCHANGED <<part, pvars, hvars, fvars, cvars>>
    \/ part = "heap" /\ H!Next /\ UNCHANGED <<part, pvars, dvars, fvars, cvars>>
    \/ part = "descriptors" /\ F!Next /\ UNCHANGED <<part, pvars, dvars, hvars, cvars>>
    \/ part = "control" /\ C!Next /\ UNCHANGED <<part, pvars, dvars, hvars, fvars>>
Spec == Init /\ [][Next]_<<part, pvars, dvars, hvars, fvars, cvars>>

-----------------------------------------------------------------------------
(* The instances *)

\* Names and hash functions: all names on one slot, two and two on opposite
\* slots, runs that go round the end of the table, and one without collisions.
FourNames == {"a", "b", "c", "d"}
Hash(w, x, y, z) == [nm \in FourNames |-> CASE nm = "a" -> w [] nm = "b" -> x [] nm = "c" -> y [] nm = "d" -> z]
FourHashes == {Hash(7, 7, 7, 7), Hash(7, 0, 7, 0), Hash(6, 7, 6, 3), Hash(1, 2, 9, 3)}

\* Worlds without the faults of the findings: settors that do not throw, and
\* room for the settors that throw calls.
World(settors, signals, depth) ==
    [settors |-> settors, throwing |-> FALSE, signals |-> signals, maxevaldepth |-> depth]
Orderly == {World({"path"}, 0, 640), World({}, 1, 4)}

-----------------------------------------------------------------------------
(* The properties of the parts *)

\* The links of the process records agree (proc.c; see ProcList).
WellLinked == part = "processes" => P!WellLinked
\* cleanproclist walks over records in use (proc.c; see ProcList).
WalkInUse == part = "processes" => P!WalkInUse
\* The linked list implements a sequence (proc.c; see ProcList, ProcSeq).
Sequence == INSTANCE ProcSeq WITH
                Pids <- Pids, jobs <- IF part = "processes" THEN P!jobs ELSE <<>>
ImplementsSequence == Sequence!Spec
\* The hash table implements a map (dict.c; see Dict, NameMap).
Map == INSTANCE NameMap WITH
           Names <- Names, Values <- Values, NoValue <- D!NoValue, call <- call,
           map <- [nm \in Names |-> IF part = "dictionary" THEN D!get(dict, nm) ELSE D!NoValue]
ImplementsMap == Map!Spec
\* A collection changes nothing of what the shell has built (gc.c; see Heap).
Faithful == part = "heap" => H!Faithful
\* A collection makes room, or the next one has more (gc.c; see Heap).
MakesRoom == H!MakesRoom
\* A command finds its descriptors as the user has asked (fd.c; see Descriptors).
AsAsked == part = "descriptors" => F!AsAsked
\* %newfd gives a number that nothing uses (fd.c; see Descriptors).
NewfdUnused == part = "descriptors" => F!NewfdUnused
\* The exception handlers are those under way (except.c; see Control).
HandlersLive == part = "control" => C!HandlersLive
\* So are the other stacks and counters (except.c, prim-ctl.c; see Control).
StacksMatch == part = "control" => C!StacksMatch
\* A suspended throw goes on (except.c; see Control).
ExceptionKept == C!ExceptionKept
\* exec replaces a shell that has nothing left to do, but for a child of readfrom
\* or writeto (eval.c; see Control).
ExecIsLast == C!ExecIsLast
=============================================================================
