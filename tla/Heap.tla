-------------------------------- MODULE Heap --------------------------------
(***************************************************************************)
(* The copying collector of gc.c. Objects are allocated at the end of the  *)
(* newest of a chain of spaces; there is more than one only while          *)
(* collection is disabled. gc copies what the roots hold to a new space    *)
(* and then scans the new spaces for pointers into the old ones, where a   *)
(* copied object leaves the address of its copy. Sizes are in words: one   *)
(* for the tag and one for every pointer of the object.                    *)
(*                                                                         *)
(* An address is <<gen, space, index>>; gen changes with every collection. *)
(* shadow and shadowroot are a ghost: the objects as the shell means them, *)
(* by identity. Of garbage only the place is kept: nothing reads it.       *)
(*                                                                         *)
(* forwardAgain and growLess are slips that the properties exclude; no     *)
(* specification uses them.                                                *)
(***************************************************************************)
EXTENDS Naturals, FiniteSets, Sequences, SequencesExt, TLC

CONSTANTS
    Roots,        \* the roots, on rootlist and on globalrootlist
    Sizes,        \* the sizes of objects
    MinSpace,     \* MIN_minspace
    MaxObjects,   \* bound: objects in use at a time
    MaxWords,     \* bound: words in use, garbage included, after an allocation
    MaxBlocked    \* bound: nesting of gcdisable

VARIABLES
    space,        \* new: the chain of spaces, the newest last: [top, objs]
    old,          \* the chain that is being collected
    fwd,          \* the addresses of copies that old objects hold
    gen, minspace, gcblocked,
    root,         \* the value of each root
    pc,           \* where the shell is: "run", "alloc", "gc", "scan" or "end"
    want,         \* the allocation under way: [r, n, args]
    scan,         \* scanspace: [front, scanned, sp, i]
    shadow, shadowroot

vars == <<space, old, fwd, gen, minspace, gcblocked, root, pc, want, scan, shadow, shadowroot>>

NULL   == <<2, 0, 0>>
Ids    == 1..MaxObjects
None   == 0                               \* no object
RootList == SetToSeq(Roots)
NoWant == [r |-> "nil", n |-> 0, args |-> <<>>]
NoScan == [front |-> 0, scanned |-> 0, sp |-> 0, i |-> 0]

Obj(id, ptrs)    == [id |-> id, ptrs |-> ptrs]
Words(o)         == Len(o.ptrs) + 1
USED(sp)         == FoldLeft(LAMBDA n, o : n + Words(o), 0, sp.objs)
Used(chain)      == FoldLeft(LAMBDA n, sp : n + USED(sp), 0, chain)
newspace(size)   == [top |-> size, objs |-> <<>>]
At(chain, a)     == chain[a[2]].objs[a[3]]
Fits(chain, n)   == USED(Last(chain)) + n <= Last(chain).top

\* An object at the end of the newest space, and the address it then has.
Place(chain, o) ==
    Append(Front(chain), [top |-> Last(chain).top, objs |-> Append(Last(chain).objs, o)])
Placed(g, chain) == <<g, Len(chain), Len(Last(chain).objs)>>

\* What MaxObjects rounds reach from a set, where Next[x] is the set next to x.
Reach(from, next) ==
    LET reached[k \in 0..MaxObjects] ==
          IF k = 0 THEN from
          ELSE LET xs == reached[k - 1] IN xs \cup UNION {next[x] : x \in xs}
    IN  reached[MaxObjects]
Addresses(chain, rs) ==
    LET all == UNION {{<<gen, s, i>> : i \in DOMAIN chain[s].objs} : s \in DOMAIN chain}
    IN  Reach(Range(rs), [a \in all \cup {NULL} |->
                IF a = NULL THEN {} ELSE Range(At(chain, a).ptrs)]) \ {NULL}

\* A step of the shell: the heap without what garbage holds, and the ghost.
Heap(chain, rs) ==
    \E live \in {Addresses(chain, rs)} :
       LET Kept(s, i) == LET o == chain[s].objs[i]
                         IN  IF <<gen, s, i>> \in live THEN o
                             ELSE Obj(None, [k \in DOMAIN o.ptrs |-> NULL])
       IN  /\ space' = [s \in DOMAIN chain |->
                 [top |-> chain[s].top, objs |-> [i \in DOMAIN chain[s].objs |-> Kept(s, i)]]]
           /\ root' = rs
Means(sh, rs) ==
    \E live \in {Reach(Range(rs) \ {None}, [i \in Ids |-> Range(sh[i]) \ {None}])} :
       shadow' = [i \in Ids |-> IF i \in live THEN sh[i] ELSE <<>>] /\ shadowroot' = rs
Idle == UNCHANGED <<old, fwd, gen, scan>>

Init ==
    /\ space = <<newspace(MinSpace)>> /\ minspace = MinSpace /\ gcblocked = 0
    /\ old = <<>> /\ fwd = <<>> /\ gen = 0
    /\ root = [r \in Roots |-> NULL]
    /\ pc = "run" /\ want = NoWant /\ scan = NoScan
    /\ shadow = [i \in Ids |-> <<>>] /\ shadowroot = [r \in Roots |-> None]

-----------------------------------------------------------------------------
(***************************************************************************)
(* Allocation                                                              *)
(***************************************************************************)
\* A primitive asks for an object to be kept in r, with pointers to the values
\* of roots as mklist and mkbinding make one.
New(r, n, args) ==
    /\ pc = "run" /\ pc' = "alloc" /\ want' = [r |-> r, n |-> n, args |-> args]
    /\ \E i \in Ids : shadow[i] = <<>>
    /\ Used(space) + n <= MaxWords \/ (gcblocked = 0 /\ ~Fits(space, n))
    /\ UNCHANGED <<space, root, minspace, gcblocked, shadow, shadowroot>> /\ Idle

\* gcalloc: the object is placed if it fits; the roots are read after that.
Allocate ==
    LET id == CHOOSE i \in Ids : shadow[i] = <<>> /\ \A j \in 1..i - 1 : shadow[j] # <<>>
        Ptr(q, rs, nil) == IF q \in Roots THEN rs[q] ELSE nil
    IN  /\ pc = "alloc" /\ Fits(space, want.n)
        /\ \E s \in {Place(space, Obj(id, [k \in 1..want.n - 1 |->
                                             Ptr(want.args[k], root, NULL)]))} :
              Heap(s, [root EXCEPT ![want.r] = Placed(gen, s)])
        /\ Means([shadow EXCEPT ![id] = [k \in 1..want.n - 1 |->
                                           Ptr(want.args[k], shadowroot, None)]],
                 [shadowroot EXCEPT ![want.r] = id])
        /\ pc' = "run" /\ want' = NoWant
        /\ UNCHANGED <<minspace, gcblocked>> /\ Idle

\* gcalloc: if not, another space or a collection, and again.
NoRoom ==
    LET min == IF minspace < want.n - 1 THEN want.n ELSE minspace
    IN  /\ pc = "alloc" /\ ~Fits(space, want.n) /\ minspace' = min
        /\ \/ gcblocked > 0 /\ space' = Append(space, newspace(min)) /\ UNCHANGED pc
           \/ gcblocked = 0 /\ pc' = "gc" /\ UNCHANGED space
        /\ UNCHANGED <<root, gcblocked, want, shadow, shadowroot>> /\ Idle

-----------------------------------------------------------------------------
(***************************************************************************)
(* Collection                                                              *)
(***************************************************************************)
\* The copy function of a tag allocates, while gc has collection disabled.
Copy(c, a) ==
    LET o   == At(c.old, a)
        new == Place(IF Fits(c.new, Words(o)) THEN c.new ELSE Append(c.new, newspace(minspace)), o)
    IN  [old |-> c.old, gen |-> c.gen, new |-> new, fwd |-> (a :> Placed(c.gen, new)) @@ c.fwd]

\* forward: a pointer into the old spaces is copied once and followed after.
forwardAgain(c, a) == IF a # NULL /\ a[1] # c.gen THEN Copy(c, a) ELSE c
forward(c, a) ==
    IF a # NULL /\ a[1] # c.gen /\ a \notin DOMAIN c.fwd THEN Copy(c, a) ELSE c
ForwardAll(c, as) == FoldLeft(forward, c, as)
Forwarded(c, a)   == IF a \in DOMAIN c.fwd THEN c.fwd[a] ELSE a

\* A pass of scanspace begins with the newest space.
Pass(n, scanned) == [front |-> n, scanned |-> scanned, sp |-> n, i |-> 1]

\* gc begins: the roots are forwarded to a new space of minspace words.
scanroots ==
    /\ pc = "gc" /\ pc' = "scan"
    /\ \E c \in {ForwardAll([old |-> space, new |-> <<newspace(minspace)>>, fwd |-> <<>>,
                            gen |-> 1 - gen], [k \in DOMAIN RootList |-> root[RootList[k]]])} :
        /\ old' = space /\ space' = c.new /\ fwd' = c.fwd /\ gen' = c.gen
        /\ root' = [r \in Roots |-> Forwarded(c, root[r])]
        /\ scan' = Pass(Len(c.new), 0)
        /\ UNCHANGED <<minspace, gcblocked, want, shadow, shadowroot>>

\* scanspace: the pointers of the next object of a space are forwarded.
scanobject ==
    /\ pc = "scan" /\ scan.sp # scan.scanned /\ scan.i <= Len(space[scan.sp].objs)
    /\ \E o \in {space[scan.sp].objs[scan.i]} :
       \E c \in {ForwardAll([old |-> old, new |-> space, fwd |-> fwd, gen |-> gen], o.ptrs)} :
        /\ space' = [c.new EXCEPT ![scan.sp].objs[scan.i] =
                       Obj(o.id, [k \in DOMAIN o.ptrs |-> Forwarded(c, o.ptrs[k])])]
        /\ fwd' = c.fwd
        /\ scan' = [scan EXCEPT !.i = scan.i + 1]
        /\ UNCHANGED <<old, gen, root, minspace, gcblocked, pc, want, shadow, shadowroot>>

\* scanspace: then the space before it, down to the first that the pass before
\* scanned; and another pass if a space was added meanwhile.
scanspace ==
    /\ pc = "scan"
    /\ \/ /\ scan.sp # scan.scanned /\ scan.i > Len(space[scan.sp].objs)
          /\ scan' = [scan EXCEPT !.sp = scan.sp - 1, !.i = 1] /\ UNCHANGED pc
       \/ /\ scan.sp = scan.scanned /\ Len(space) # scan.front
          /\ scan' = Pass(Len(space), scan.front) /\ UNCHANGED pc
       \/ /\ scan.sp = scan.scanned /\ Len(space) = scan.front
          /\ scan' = NoScan /\ pc' = "end"
    /\ UNCHANGED <<space, old, fwd, gen, root, minspace, gcblocked, want, shadow, shadowroot>>

\* gc ends: the old spaces are freed, minspace follows the live data, and there
\* is another collection while one space was not enough.
growLess(live) == IF minspace < live THEN live ELSE minspace
grow(live) ==
    IF minspace < live * 2 THEN live * 4
    ELSE IF minspace > live * 12 /\ minspace > MinSpace * 2 THEN minspace \div 2 ELSE minspace
gcend ==
    /\ pc = "end" /\ old' = <<>> /\ fwd' = <<>> /\ minspace' = grow(Used(space))
    /\ pc' = IF Len(space) > 1 THEN "gc" ELSE IF want # NoWant THEN "alloc" ELSE "run"
    /\ UNCHANGED <<space, gen, root, gcblocked, want, scan, shadow, shadowroot>>

-----------------------------------------------------------------------------
(***************************************************************************)
(* The shell between allocations                                           *)
(***************************************************************************)
\* A root is assigned the value of another, or NULL.
Assign(r, q) ==
    /\ pc = "run"
    /\ Heap(space, [root EXCEPT ![r] = IF q \in Roots THEN root[q] ELSE NULL])
    /\ Means(shadow, [shadowroot EXCEPT ![r] = IF q \in Roots THEN shadowroot[q] ELSE None])
    /\ UNCHANGED <<minspace, gcblocked, pc, want>> /\ Idle

\* A pointer of an object is assigned, as dictput and vardef do.
Store(r, q) ==
    LET a == root[r]
    IN  /\ pc = "run" /\ shadowroot[r] # None
        /\ Heap([space EXCEPT ![a[2]].objs[a[3]].ptrs[1] = root[q]], root)
        /\ Means([shadow EXCEPT ![shadowroot[r]][1] = shadowroot[q]], shadowroot)
        /\ UNCHANGED <<minspace, gcblocked, pc, want>> /\ Idle

\* $&collect, and gcreserve before the parser disables collection.
collect ==
    /\ pc = "run" /\ gcblocked = 0 /\ pc' = "gc"
    /\ UNCHANGED <<space, root, minspace, gcblocked, want, shadow, shadowroot>> /\ Idle
gcreserve(n) ==
    /\ pc = "run" /\ ~Fits(space, n)
    /\ minspace' = (IF minspace < n THEN n ELSE minspace)
    /\ pc' = IF gcblocked > 0 THEN "run" ELSE "gc"
    /\ UNCHANGED <<space, root, gcblocked, want, shadow, shadowroot>> /\ Idle

gcdisable ==
    /\ pc = "run" /\ gcblocked < MaxBlocked /\ gcblocked' = gcblocked + 1
    /\ UNCHANGED <<space, root, minspace, pc, want, shadow, shadowroot>> /\ Idle
gcenable ==
    /\ pc = "run" /\ gcblocked > 0 /\ gcblocked' = gcblocked - 1
    /\ pc' = IF gcblocked' = 0 /\ Len(space) > 1 THEN "gc" ELSE "run"
    /\ UNCHANGED <<space, root, minspace, want, shadow, shadowroot>> /\ Idle

Collect == Allocate \/ NoRoom \/ scanroots \/ scanobject \/ scanspace \/ gcend
Next == \/ Collect
        \/ \E r \in Roots, n \in Sizes : \E args \in [1..n - 1 -> Roots \cup {"nil"}] :
              New(r, n, args)
        \/ \E r, q \in Roots : (r # q /\ Assign(r, q)) \/ Store(r, q)
        \/ \E r \in Roots : Assign(r, "nil")
        \/ \E n \in Sizes : gcreserve(n)
        \/ collect \/ gcdisable \/ gcenable

Spec == Init /\ [][Next]_vars

-----------------------------------------------------------------------------
(***************************************************************************)
(* Properties                                                              *)
(***************************************************************************)
Settled == pc \in {"run", "alloc"}
Live    == Addresses(space, root)
Id(a)   == IF a = NULL THEN None ELSE At(space, a).id

\* Nothing reachable dangles: after "scan new space until it is up to date"
\* (gc.c:326-347) no object that the roots reach points into the freed spaces,
\* whatever chain of spaces the collection filled.
NoneDangling ==
    pc \notin {"gc", "scan"} =>
      \A s \in DOMAIN space : \A i \in DOMAIN space[s].objs :
         \A a \in Range(space[s].objs[i].ptrs) \cup Range(root) : a[1] \in {gen, NULL[1]}

\* What the roots reach is what the shell has built, with the same pointers and
\* the same sharing: an object has one copy however many pointers and cycles
\* lead to it (gc.c:290-315).
Faithful ==
    Settled =>
      /\ NoneDangling
      /\ \A r \in Roots : Id(root[r]) = shadowroot[r]
      /\ \A a \in Live : LET o == At(space, a)
                         IN  [k \in DOMAIN o.ptrs |-> Id(o.ptrs[k])] = shadow[o.id]
      /\ \A a, b \in Live : Id(a) = Id(b) => a = b

\* gcalloc does not collect for ever: a collection makes room for the object, or
\* the next one has a larger space (gc.c:472-494, 445-448).
MakesRoom ==
    [][pc = "end" /\ pc' = "alloc" => Fits(space', want.n) \/ minspace' > Last(space).top]_vars
=============================================================================
