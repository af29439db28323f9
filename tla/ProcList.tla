------------------------------ MODULE ProcList ------------------------------
(***************************************************************************)
(* The doubly linked list of process records in proc.c: mkproc and efork   *)
(* put a record in front, unlinkproc takes one out, cleanproclist walks    *)
(* the list while it unlinks, and a recycled pid gets its old record back, *)
(* in place. Records live in cells; Null is no cell.                       *)
(*                                                                         *)
(* BeforeSecond, PrevStays and NextStays are slips in BeforeHead, SkipPrev *)
(* and SkipNext that the properties exclude; no specification uses them.   *)
(***************************************************************************)
EXTENDS Naturals, Sequences, FiniteSets

CONSTANTS
    Pids,      \* the pids fork returns
    Cells,     \* the memory for records
    Null,
    Recycle    \* whether fork may return the pid of a dead child still listed

VARIABLES
    children,      \* kernel: children that have not been waited for
    proclist,      \* the head of the list
    next, prev,    \* the links
    rec,           \* pid and alive of the records in use
    walk           \* the proc of cleanproclist, Null when it does not run

links == <<proclist, next, prev>>
vars  == <<children, links, rec, walk>>

Proc == [pid : Pids, alive : BOOLEAN]
InUse == DOMAIN rec                     \* the cells ealloc has given out

(***************************************************************************)
(* Walking the list                                                        *)
(***************************************************************************)

\* The n-th cell of a walk from the head. A list has no more cells than there
\* are, so that a longer walk is in a cycle.
Walk == LET w[n \in Nat] == IF n = 0 THEN proclist
                            ELSE IF w[n - 1] = Null THEN Null ELSE next[w[n - 1]]
        IN  w
OnList == {Walk[n] : n \in 0..Cardinality(Cells)} \ {Null}
Chain  == [n \in 1..Cardinality(OnList) |-> Walk[n - 1]]

\* The record of a pid, as every operation looks for it; Null if there is none.
Find(p) == LET at == {n \in DOMAIN Chain : Chain[n] \in InUse /\ rec[Chain[n]].pid = p}
           IN  IF at = {} THEN Null ELSE Chain[CHOOSE n \in at : \A m \in at : n <= m]

Init ==
    /\ children = {} /\ proclist = Null
    /\ next = [c \in Cells |-> Null] /\ prev = [c \in Cells |-> Null]
    /\ rec = <<>> /\ walk = Null

(***************************************************************************)
(* Operations                                                              *)
(***************************************************************************)

\* The record mkproc fills in.
mkproc(p) == [pid |-> p, alive |-> TRUE]

\* The links with a new cell before the head, and with one past it.
BeforeSecond(c) == [next EXCEPT ![c] = IF proclist = Null THEN Null ELSE next[proclist]]
BeforeHead(c)   == [next EXCEPT ![c] = proclist]

\* mkproc: the record of a recycled pid keeps its cell and its next, any other
\* is a new cell before the head. efork then makes it the head.
efork(p) ==
    /\ walk = Null
    /\ p \notin children
    /\ Recycle \/ Find(p) = Null
    /\ \E c \in IF Find(p) # Null THEN {Find(p)} ELSE Cells \ InUse :
          /\ next' = IF Find(p) # Null THEN next ELSE BeforeHead(c)
          /\ prev' = LET new == [prev EXCEPT ![c] = Null]
                     IN  IF proclist = Null THEN new ELSE [new EXCEPT ![proclist] = c]
          /\ rec' = [d \in InUse \cup {c} |->
                       IF d = c THEN mkproc(p) ELSE rec[d]]
          /\ proclist' = c
    /\ children' = children \cup {p}
    /\ UNCHANGED walk

\* ewait or donotwait: a child with a record is waited for.
reap(p) ==
    /\ walk = Null
    /\ p \in children /\ Find(p) # Null
    /\ children' = children \ {p}
    /\ rec' = [rec EXCEPT ![Find(p)].alive = FALSE]
    /\ UNCHANGED <<links, walk>>

\* next of the predecessor and prev of the successor, or the head, skip c. What
\* a freed cell holds is of no use to anybody: it is cleared.
PrevStays(c) == prev
NextStays(c) == next
SkipPrev(c) == IF next[c] = Null THEN prev ELSE [prev EXCEPT ![next[c]] = prev[c]]
SkipNext(c) == IF prev[c] = Null THEN next ELSE [next EXCEPT ![prev[c]] = next[c]]
unlinkproc(c) ==
    /\ prev' = [SkipPrev(c) EXCEPT ![c] = Null]
    /\ next' = [SkipNext(c) EXCEPT ![c] = Null]
    /\ proclist' = IF prev[c] = Null THEN next[c] ELSE proclist
    /\ rec' = [d \in InUse \ {c} |-> rec[d]]

\* PRIM(procfree), of a dead child or of a live one.
procfree(p) ==
    /\ walk = Null /\ Find(p) # Null
    /\ unlinkproc(Find(p))
    /\ UNCHANGED <<children, walk>>

\* cleanproclist: the walk goes on from the copy unlinkproc has kept.
cleanproclist ==
    /\ walk = Null
    /\ walk' = proclist
    /\ UNCHANGED <<children, links, rec>>

CleanStep ==
    /\ walk # Null
    /\ IF walk \in InUse /\ ~rec[walk].alive
       THEN unlinkproc(walk)
       ELSE UNCHANGED <<links, rec>>
    /\ walk' = next[walk]
    /\ UNCHANGED children

Next == \/ \E p \in Pids : efork(p) \/ reap(p) \/ procfree(p)
        \/ cleanproclist \/ CleanStep

Spec == Init /\ [][Next]_vars
-----------------------------------------------------------------------------
(***************************************************************************)
(* Properties                                                              *)
(***************************************************************************)
\* The list is well linked (proc.c:43-46, 66-87, 122-124, 201-208): a walk ends,
\* it meets exactly the records in use, and prev undoes next.
WellLinked ==
    /\ Walk[Cardinality(Cells)] = Null
    /\ OnList = InUse
    /\ proclist # Null => prev[proclist] = Null
    /\ \A c \in InUse : next[c] # Null => prev[next[c]] = c

\* cleanproclist walks over cells that are in use, though it frees the one it
\* stands on (proc.c:62-87, 201-208).
WalkInUse == walk # Null => walk \in InUse

\* All known children, even dead ones, are on the list that apids -a reports
\* (initial.es:913-914): no operation loses a record that has not been freed.
KnownListed == InUse \subseteq OnList

\* The list implements the sequence of children (ProcSeq).
jobs == [n \in DOMAIN Chain |-> rec[Chain[n]]]
Sequence == INSTANCE ProcSeq WITH Pids <- Pids, jobs <- jobs
ImplementsSequence == Sequence!Spec
=============================================================================
