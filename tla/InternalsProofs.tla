-------------------------- MODULE InternalsProofs --------------------------
(***************************************************************************)
(* Theorems about the parts that MCInternals runs together, for every value*)
(* of the constants of a part.                                             *)
(***************************************************************************)
EXTENDS MCInternals, Integers, FiniteSetTheorems, SequenceTheorems, TLAPS

PP == INSTANCE ProcListProofs

\* The memory for process records is finite, and no pid is recycled.
ListAssumption == PP!ListAssumption

ProcessInv == part = "processes" => PP!ListInv

LEMMA ProcessInit == Init => ProcessInv
<1>1. P!Init => PP!Init
  BY DEF P!Init, PP!Init
<1>2. PP!Init => PP!ListInv
  BY PP!ListInit
<1> QED BY <1>1, <1>2 DEF Init, ProcessInv

\* Both instances walk the same list.
LEMMA SameWalk ==
    /\ P!Walk = PP!Walk /\ P!InUse = PP!InUse
    /\ P!OnList = PP!OnList /\ P!Chain = PP!Chain
    /\ P!Cardinality(Cells) = PP!Cardinality(Cells)
<1>1. P!Walk = PP!Walk
  BY DEF P!Walk, PP!Walk
<1>2. \A S : P!Cardinality(S) = PP!Cardinality(S)
  BY DEF P!Cardinality, PP!Cardinality
<1>3. P!InUse = PP!InUse
  BY DEF P!InUse, PP!InUse
<1> HIDE DEF P!Walk, PP!Walk, P!Cardinality, PP!Cardinality
<1>4. P!OnList = PP!OnList
  BY <1>1, <1>2 DEF P!OnList, PP!OnList
<1>5. P!Chain = PP!Chain
  BY <1>1, <1>2, <1>4 DEF P!Chain, PP!Chain
<1> QED BY <1>1, <1>2, <1>3, <1>4, <1>5

LEMMA ProcessSteps ==
    ASSUME [Next]_<<part, pvars, dvars, hvars, fvars, cvars>>
    PROVE  part' = part /\ (part = "processes" => [PP!Next]_(PP!vars))
<1>1. P!Next => PP!Next
  <2>1. \A p : P!Find(p) = PP!Find(p)
    BY SameWalk DEF P!Find, PP!Find
  <2>2. \A c : P!unlinkproc(c) => PP!unlinkproc(c)
    BY DEF P!unlinkproc, PP!unlinkproc, P!InUse, PP!InUse,
           P!SkipNext, PP!SkipNext, P!SkipPrev, PP!SkipPrev
  <2>3. \A p : P!efork(p) => PP!efork(p)
    BY <2>1 DEF P!efork, PP!efork, P!BeforeHead, PP!BeforeHead, P!mkproc, PP!mkproc,
                P!InUse, PP!InUse
  <2>4. \A p : P!reap(p) => PP!reap(p)
    BY <2>1 DEF P!reap, PP!reap, P!links, PP!links
  <2>5. \A p : P!procfree(p) => PP!procfree(p)
    BY <2>1, <2>2 DEF P!procfree, PP!procfree
  <2>6. P!cleanproclist => PP!cleanproclist
    BY DEF P!cleanproclist, PP!cleanproclist, P!links, PP!links
  <2>7. P!CleanStep => PP!CleanStep
    BY <2>2 DEF P!CleanStep, PP!CleanStep, P!InUse, PP!InUse, P!links, PP!links
  <2> QED BY <2>3, <2>4, <2>5, <2>6, <2>7 DEF P!Next, PP!Next
<1>2. UNCHANGED pvars => UNCHANGED PP!vars
  BY DEF pvars, PP!vars, PP!links
<1> QED BY <1>1, <1>2 DEF Next, pvars

LEMMA ProcessStep ==
    ListAssumption /\ ProcessInv /\ [Next]_<<part, pvars, dvars, hvars, fvars, cvars>> => ProcessInv'
<1> SUFFICES ASSUME ListAssumption, ProcessInv, part' = "processes",
                    [Next]_<<part, pvars, dvars, hvars, fvars, cvars>>
             PROVE  PP!ListInv'
  BY DEF ProcessInv
<1>1. PP!ListInv /\ [PP!Next]_(PP!vars)
  BY ProcessSteps DEF ProcessInv
<1> QED BY <1>1, PP!ListStep DEF ListAssumption

LEMMA ProcessAlways == ListAssumption => (Spec => []ProcessInv)
<1> SUFFICES ASSUME ListAssumption PROVE Spec => []ProcessInv
  OBVIOUS
<1>1. ProcessInv /\ [Next]_<<part, pvars, dvars, hvars, fvars, cvars>> => ProcessInv'
  BY ProcessStep
<1> QED BY <1>1, ProcessInit, PTL DEF Spec

LEMMA ProcessLinks == ListAssumption /\ ProcessInv => WellLinked /\ WalkInUse
<1> SUFFICES ASSUME ListAssumption, PP!ListInv PROVE P!WellLinked /\ P!WalkInUse
  BY DEF WellLinked, WalkInUse, ProcessInv
<1>1. PP!WellLinked /\ PP!WalkInUse
  BY PP!ListWellLinked DEF ListAssumption
<1> QED BY <1>1, SameWalk DEF P!WellLinked, PP!WellLinked, P!WalkInUse, PP!WalkInUse

\* The links of the process records agree after every operation (proc.c:43-46,
\* 66-87, 122-124, 201-208): a walk from the head ends, it meets every record in
\* use, and prev undoes next.
THEOREM LinksAgree == ListAssumption => (Spec => []WellLinked)
<1> SUFFICES ASSUME ListAssumption PROVE Spec => []WellLinked
  OBVIOUS
<1>1. ProcessInv => WellLinked
  BY ProcessLinks
<1>2. Spec => []ProcessInv
  BY ProcessAlways
<1> QED BY <1>1, <1>2, PTL

\* cleanproclist stands on a record in use at each of its steps, though it frees
\* the record it has just left (proc.c:62-87, 201-208).
THEOREM WalkSafe == ListAssumption => (Spec => []WalkInUse)
<1> SUFFICES ASSUME ListAssumption PROVE Spec => []WalkInUse
  OBVIOUS
<1>1. ProcessInv => WalkInUse
  BY ProcessLinks
<1>2. Spec => []ProcessInv
  BY ProcessAlways
<1> QED BY <1>1, <1>2, PTL

SameJobs == P!jobs = PP!jobs
LEMMA JobsSame == SameJobs
BY SameWalk DEF SameJobs, P!jobs, PP!jobs

LEMMA SequenceStep ==
    ASSUME ListAssumption, ProcessInv, [Next]_<<part, pvars, dvars, hvars, fvars, cvars>>,
           PP!JobsAreRecords, PP!JobsAreRecords', SameJobs, SameJobs'
    PROVE  [Sequence!Next]_(IF part = "processes" THEN P!jobs ELSE <<>>)
<1>1. part' = part /\ (part = "processes" => [PP!Next]_(PP!vars))
  BY ProcessSteps
<1>2. CASE part # "processes"
  BY <1>1, <1>2
<1>3. CASE part = "processes"
  <2>1. [PP!Sequence!Next]_(PP!jobs)
    BY <1>1, <1>3, PP!RefineStep DEF ListAssumption, ProcessInv
  <2>2. P!jobs = PP!jobs /\ P!jobs' = PP!jobs'
    BY DEF SameJobs
  <2> HIDE DEF P!jobs, PP!jobs
  <2> QED BY <1>1, <1>3, <2>1, <2>2
        DEF Sequence!Next, PP!Sequence!Next, Sequence!Fork, PP!Sequence!Fork,
            Sequence!Die, PP!Sequence!Die, Sequence!Free, PP!Sequence!Free,
            Sequence!Listed, PP!Sequence!Listed, Sequence!RemoveAt, PP!Sequence!RemoveAt
<1> QED BY <1>2, <1>3

LEMMA SequenceInit ==
    ASSUME ListAssumption, Init, PP!JobsAreRecords, SameJobs
    PROVE  Sequence!Init
<1>1. PP!Init
  BY DEF Init, P!Init, PP!Init
<1>2. PP!jobs = <<>>
  BY <1>1, PP!RefineInit DEF ListAssumption
<1> HIDE DEF P!jobs, PP!jobs
<1> QED BY <1>2 DEF SameJobs, Sequence!Init

\* The linked list of proc.c implements the sequence of children (ProcSeq): efork
\* puts one in front, ewait marks one dead, procfree and each step of
\* cleanproclist take one out and leave the order of the others.
THEOREM ListIsSequence == ListAssumption => (Spec => ImplementsSequence)
<1> SUFFICES ASSUME ListAssumption PROVE Spec => ImplementsSequence
  OBVIOUS
<1>1. PP!JobsAreRecords
  BY PP!JobsFollow
<1>2. SameJobs
  BY JobsSame
<1>3. Init /\ PP!JobsAreRecords /\ SameJobs => Sequence!Init
  BY SequenceInit
<1>4. ProcessInv /\ [Next]_<<part, pvars, dvars, hvars, fvars, cvars>>
      /\ PP!JobsAreRecords /\ PP!JobsAreRecords' /\ SameJobs /\ SameJobs'
      => [Sequence!Next]_(IF part = "processes" THEN P!jobs ELSE <<>>)
  BY SequenceStep
<1>5. Spec => []ProcessInv
  BY ProcessAlways
<1> QED BY <1>1, <1>2, <1>3, <1>4, <1>5, PTL DEF Spec, ImplementsSequence, Sequence!Spec
-----------------------------------------------------------------------------
(***************************************************************************)
(* The dictionary                                                          *)
(***************************************************************************)
DD == INSTANCE DictProofs

\* Hashes are numbers, the marks of unused slots no names and NULL is no value.
DictAssumption == DD!DictAssumption

TableInv == part = "dictionary" => DD!DictInv

\* Both instances compute the same on every dictionary.
LEMMA SamePut == \A d, nm, v : D!putIn(d, nm, v) = DD!putIn(d, nm, v)
BY DEF D!putIn, DD!putIn, D!Probe, DD!Probe, D!size, DD!size, D!Cardinality, DD!Cardinality, D!Free, DD!Free, D!DEAD, DD!DEAD

LEMMA SameSlot == \A d, nm : D!slot(d, nm) = DD!slot(d, nm)
BY Zenon DEF D!slot, DD!slot, D!Probe, DD!Probe, D!size, DD!size, D!Cardinality, DD!Cardinality, D!Free, DD!Free

LEMMA SameGet == \A d, nm : D!get(d, nm) = DD!get(d, nm)
<1> SUFFICES ASSUME NEW d, NEW nm PROVE D!get(d, nm) = DD!get(d, nm)
  OBVIOUS
<1>1. D!slot(d, nm) = DD!slot(d, nm)
  BY SameSlot
<1> QED BY <1>1, Zenon DEF D!get, DD!get, D!Found, DD!Found, D!NoValue, DD!NoValue

LEMMA SameGrow == \A d : D!GROW(d) = DD!GROW(d)
BY DEF D!GROW, DD!GROW, D!dictforall, DD!dictforall, D!mkdict, DD!mkdict, D!REMAIN, DD!REMAIN,
       D!putIn, DD!putIn, D!Probe, DD!Probe, D!size, DD!size, D!Cardinality, DD!Cardinality,
       D!Free, DD!Free, D!DEAD, DD!DEAD, D!NoValue, DD!NoValue

LEMMA SameRm == \A d, i : D!rm(d, i) = DD!rm(d, i)
BY DEF D!rm, DD!rm, D!Probe, DD!Probe, D!size, DD!size, D!Cardinality, DD!Cardinality,
       D!Free, DD!Free, D!DEAD, DD!DEAD, D!NoValue, DD!NoValue

LEMMA SameDictput == \A d, nm, v : D!dictput(d, nm, v) = DD!dictput(d, nm, v)
<1> SUFFICES ASSUME NEW d, NEW nm, NEW v PROVE D!dictput(d, nm, v) = DD!dictput(d, nm, v)
  OBVIOUS
<1>1. D!put(d, nm, v) = DD!put(d, nm, v)
  <2> DEFINE e == IF d.remain <= 1 THEN D!GROW(d) ELSE d
             f == IF d.remain <= 1 THEN DD!GROW(d) ELSE d
  <2>1. e = f
    BY SameGrow
  <2>2. D!putIn(e, nm, v) = DD!putIn(e, nm, v)
    BY SamePut
  <2>3. D!put(d, nm, v) = D!putIn(e, nm, v)
    BY DEF D!put
  <2>4. DD!put(d, nm, v) = DD!putIn(f, nm, v)
    BY DEF DD!put
  <2> HIDE DEF e, f
  <2> QED BY <2>1, <2>2, <2>3, <2>4, Zenon
<1>2. D!slot(d, nm) = DD!slot(d, nm) /\ D!get(d, nm) = DD!get(d, nm)
  BY SameSlot, SameGet
<1>3. D!rm(d, D!slot(d, nm)) = DD!rm(d, DD!slot(d, nm))
  BY <1>2, SameRm
<1> QED BY <1>1, <1>2, <1>3, Zenon DEF D!dictput, DD!dictput, D!NoValue, DD!NoValue

LEMMA SamePuts == \A nm, v : D!Put(nm, v) => DD!Put(nm, v)
<1> SUFFICES ASSUME NEW nm, NEW v, D!Put(nm, v) PROVE DD!Put(nm, v)
  OBVIOUS
<1>1. D!get(dict, nm) = DD!get(dict, nm) /\ D!dictput(dict, nm, v) = DD!dictput(dict, nm, v)
  BY SameGet, SameDictput
<1>2. D!size(dict) = DD!size(dict) /\ D!NoValue = DD!NoValue
  BY DEF D!size, DD!size, D!Cardinality, DD!Cardinality, D!NoValue, DD!NoValue
<1>3. v = D!NoValue \/ D!get(dict, nm) # D!NoValue \/ dict.remain > 1 \/ D!size(dict) < MaxSize
  BY Zenon DEF D!Put
<1>4. dict' = D!dictput(dict, nm, v) /\ call' = <<nm, v>> /\ UNCHANGED strhash
  BY Zenon DEF D!Put
<1>5. v = DD!NoValue \/ DD!get(dict, nm) # DD!NoValue \/ dict.remain > 1 \/ DD!size(dict) < MaxSize
  BY <1>1, <1>2, <1>3, Zenon
<1> QED BY <1>1, <1>4, <1>5, Zenon DEF DD!Put

LEMMA SameNext == D!Next => DD!Next
<1>1. D!NoValue = DD!NoValue
  BY DEF D!NoValue, DD!NoValue
<1> QED BY <1>1, SamePuts, Zenon DEF D!Next, DD!Next

\* The entries of the map; the other parts leave them empty.
Entries == [nm \in Names |-> IF part = "dictionary" THEN D!get(dict, nm) ELSE D!NoValue]
SameEntries == \A nm : D!get(dict, nm) = DD!get(dict, nm)
LEMMA EntriesSame == SameEntries
BY SameGet DEF SameEntries

LEMMA SameInit == D!Init => DD!Init
BY DEF D!Init, DD!Init, D!mkdict, DD!mkdict, D!REMAIN, DD!REMAIN, D!Free, DD!Free, D!NoValue, DD!NoValue

LEMMA SameNull == D!NoValue = DD!NoValue
BY DEF D!NoValue, DD!NoValue

LEMMA TableInit == DictAssumption /\ Init => TableInv /\ Map!Init
<1> SUFFICES ASSUME DictAssumption, Init PROVE TableInv /\ Map!Init
  OBVIOUS
<1>1. DD!Init /\ call = <<>>
  BY SameInit DEF Init, D!Init
<1>2. DD!DictInv /\ \A nm \in Names : DD!get(dict, nm) = DD!NoValue
  BY <1>1, DD!DictInit DEF DictAssumption
<1>3. \A nm \in Names : D!get(dict, nm) = D!NoValue
  BY <1>2, SameGet, SameNull
<1> QED BY <1>1, <1>2, <1>3 DEF TableInv, Map!Init

LEMMA TableSteps ==
    ASSUME [Next]_<<part, pvars, dvars, hvars, fvars, cvars>>
    PROVE  /\ part' = part
           /\ part = "dictionary" => [DD!Next]_(DD!vars)
           /\ part # "dictionary" => UNCHANGED call
<1>1. UNCHANGED dvars => UNCHANGED DD!vars /\ UNCHANGED call
  BY DEF dvars, DD!vars
<1> QED BY <1>1, SameNext DEF Next

LEMMA TableStep ==
    DictAssumption /\ TableInv /\ [Next]_<<part, pvars, dvars, hvars, fvars, cvars>> => TableInv'
<1> SUFFICES ASSUME DictAssumption, TableInv, part' = "dictionary",
                    [Next]_<<part, pvars, dvars, hvars, fvars, cvars>>
             PROVE  DD!DictInv'
  BY DEF TableInv
<1>1. DD!DictInv /\ [DD!Next]_(DD!vars)
  BY TableSteps DEF TableInv
<1> QED BY <1>1, DD!DictStep DEF DictAssumption

LEMMA MapStep ==
    ASSUME DictAssumption, TableInv, [Next]_<<part, pvars, dvars, hvars, fvars, cvars>>,
           SameEntries, SameEntries'
    PROVE  [Map!Next]_<<Entries, call>>
<1>1. part' = part /\ (part # "dictionary" => UNCHANGED call)
  BY TableSteps
<1>2. CASE part # "dictionary"
  BY <1>1, <1>2 DEF Entries
<1>3. CASE part = "dictionary"
  <2>1. [DD!Map!Next]_<<[nm \in Names |-> DD!get(dict, nm)], call>>
    BY <1>3, TableSteps, DD!MapStep DEF DictAssumption, TableInv
  <2>2. /\ Entries = [nm \in Names |-> DD!get(dict, nm)]
        /\ Entries' = [nm \in Names |-> DD!get(dict, nm)']
    BY <1>1, <1>3 DEF Entries, SameEntries
  <2>3. D!NoValue = DD!NoValue
    BY SameNull
  <2>4. DD!Map!Next => Map!Next
    BY <2>2, <2>3, Zenon DEF Map!Next, DD!Map!Next, Map!dictput, DD!Map!dictput, Entries
  <2> QED BY <2>1, <2>2, <2>4
<1> QED BY <1>2, <1>3

\* The hash table of dict.c:105-162 implements a map: whatever names collide, are
\* removed and put again, and however often the table grows, a call changes what
\* get returns for its name and for no other.
THEOREM TableIsMap == DictAssumption => (Spec => ImplementsMap)
<1> SUFFICES ASSUME DictAssumption PROVE Spec => ImplementsMap
  OBVIOUS
<1>1. SameEntries
  BY EntriesSame
<1>2. Init => TableInv /\ Map!Init
  BY TableInit
<1>3. TableInv /\ [Next]_<<part, pvars, dvars, hvars, fvars, cvars>> => TableInv'
  BY TableStep
<1>4. TableInv /\ [Next]_<<part, pvars, dvars, hvars, fvars, cvars>> /\ SameEntries /\ SameEntries'
      => [Map!Next]_<<Entries, call>>
  BY MapStep
<1> QED BY <1>1, <1>2, <1>3, <1>4, PTL DEF Spec, ImplementsMap, Map!Spec, Entries

-----------------------------------------------------------------------------
(***************************************************************************)
(* Descriptors                                                             *)
(***************************************************************************)
FDs      == F!FD
Standard == 0..2
Named    == Standard \cup Users             \* what the user's commands can name
Contents == {"closed", "script", "in", "out", "err", "read", "write", "previous", "a", "b", "c", "d"}
Tables   == [FDs -> Contents]
Deferral == [real : -1..MaxFd, user : FDs]
Configs  == [fds : Tables, deftab : Seq(Deferral), own : Seq(-1..MaxFd)]

\* The user closes no standard descriptor, puts no end of a pipe above them and
\* copies no number that fdmap would look up twice,
\* and there are descriptors for all that the bounds allow to be open.
DescriptorsAssumption ==
    /\ MaxFd \in Nat /\ MaxRegions \in Nat \ {0}
    /\ Users \subseteq FDs /\ Closes \subseteq Users \ Standard
    /\ Ins \subseteq Standard /\ Outs \subseteq Standard /\ ~Numbered /\ ~Chained
    /\ MaxFd >= Cardinality(Named) + MaxRegions + 3

\* What a registered number stands for.
Content(t, fd) == IF fd = -1 THEN "closed" ELSE t[fd]
\* The numbers that a table record holds.
Reals(c) == {c.deftab[i].real : i \in DOMAIN c.deftab}
Owned(c) == {c.own[j] : j \in DOMAIN c.own}
Held(c)  == (Reals(c) \cup Owned(c)) \ {-1}

\* The table t is b but for the descriptors X, on numbers where b has nothing.
Agree(t, X, b) ==
    /\ X \subseteq FDs
    /\ \A fd \in Standard : b[fd] # "closed"
    /\ \A fd \in FDs : /\ fd \in X => t[fd] # "closed" /\ b[fd] = "closed"
                       /\ fd \notin X => t[fd] = b[fd]

\* No number is held for two.
Apart(c) ==
    /\ \A i, j \in DOMAIN c.deftab : c.deftab[i].real = c.deftab[j].real /\ c.deftab[i].real # -1 => i = j
    /\ \A i, j \in DOMAIN c.own : c.own[i] = c.own[j] /\ c.own[i] # -1 => i = j
    /\ \A i \in DOMAIN c.deftab, j \in DOMAIN c.own : c.deftab[i].real = c.own[j] => c.own[j] = -1

\* The standard descriptors are not closed.
Sane(c) == \A i \in DOMAIN c.deftab : c.deftab[i].real = -1 => c.deftab[i].user \notin Standard

Vacant(t) == {fd \in FDs : t[fd] = "closed"}

LEMMA FreeIs ==
    ASSUME MaxFd \in Nat, NEW t \in Tables, Vacant(t) # {}
    PROVE  F!Free(t) \in Vacant(t)
<1> DEFINE T == Vacant(t)
<1>1. T \subseteq Nat
  BY DEF Vacant, FDs, F!FD
<1>2. PICK x \in T : \A y \in T : x <= y
  BY <1>1, DD!Least
<1>3. t[x] = F!Closed /\ x \in F!FD /\ \A n \in 0..x - 1 : t[n] # F!Closed
  <2>1. \A n \in 0..x - 1 : n \in F!FD /\ n \notin T
    BY <1>1, <1>2 DEF Vacant, FDs, F!FD
  <2> QED BY <1>2, <2>1 DEF Vacant, FDs, F!Closed
<1> QED BY <1>3 DEF F!Free, Vacant, FDs, F!Closed

\* Something is opened.
LEMMA AgreeOpen ==
    ASSUME NEW t \in Tables, NEW X, NEW b, Agree(t, X, b),
           NEW n \in Vacant(t), NEW f \in Contents \ {"closed"}
    PROVE  /\ [t EXCEPT ![n] = f] \in Tables
           /\ n \in FDs /\ n \notin X /\ n \notin Standard /\ b[n] = "closed"
           /\ Agree([t EXCEPT ![n] = f], X \cup {n}, b)
           /\ \A fd \in FDs : [t EXCEPT ![n] = f][fd] = IF fd = n THEN f ELSE t[fd]
           /\ Vacant([t EXCEPT ![n] = f]) = Vacant(t) \ {n}
BY DEF Agree, Vacant, Tables, Standard

\* One that is held is closed.
Shuts(t, X, b, x, m) ==
    /\ m \in Tables /\ Agree(m, X \ {x}, b)
    /\ \A fd \in FDs : m[fd] = IF fd = x THEN "closed" ELSE t[fd]

LEMMA AgreeClose ==
    ASSUME NEW t \in Tables, NEW X, NEW b, Agree(t, X, b), NEW x \in X, x # -1
    PROVE  Shuts(t, X, b, x, F!Close(t, x))
<1>1. "closed" \in Contents
  BY DEF Contents
<1>2. F!Close(t, x) = [t EXCEPT ![x] = "closed"] /\ x \in FDs
  BY DEF F!Close, F!Closed, Agree
<1> DEFINE m == F!Close(t, x)
<1>3. m = [t EXCEPT ![x] = "closed"]
  BY <1>2
<1> HIDE DEF m
<1>4. m \in Tables /\ \A fd \in FDs : m[fd] = IF fd = x THEN "closed" ELSE t[fd]
  BY <1>1, <1>2, <1>3 DEF Tables
<1>5. Agree(m, X \ {x}, b)
  BY <1>4 DEF Agree
<1> QED BY <1>4, <1>5 DEF Shuts, m

\* One that is held takes the place of a number of the user.
Moved(t, X, b, x, u, m) ==
    /\ m \in Tables
    /\ Agree(m, X \ {x}, [b EXCEPT ![u] = t[x]])
    /\ \A fd \in FDs : fd # x /\ fd # u => m[fd] = t[fd]
    /\ m[u] = t[x]
    /\ Vacant(t) # {} => Vacant(m) # {}

LEMMA AgreeMove ==
    ASSUME NEW t \in Tables, NEW X, NEW b, Agree(t, X, b), DOMAIN b = FDs,
           NEW x \in X, NEW u \in FDs, u \notin X \ {x}
    PROVE  Moved(t, X, b, x, u, F!mvfd(t, x, u))
<1>1. "closed" \in Contents /\ x \in FDs
  BY DEF Contents, Agree
<1>2. CASE x = u
  <2>1. F!mvfd(t, x, u) = t
    BY <1>2 DEF F!mvfd
  <2> QED BY <1>1, <1>2, <2>1 DEF Moved, Agree, Vacant
<1>3. CASE x # u
  <2> DEFINE m == F!mvfd(t, x, u)
  <2>1. m = [t EXCEPT ![u] = t[x], ![x] = "closed"]
    BY <1>3 DEF F!mvfd, F!Closed
  <2> HIDE DEF m
  <2>2. m \in Tables /\ \A fd \in FDs : m[fd] = IF fd = x THEN "closed" ELSE IF fd = u THEN t[x] ELSE t[fd]
    BY <1>1, <1>3, <2>1 DEF Tables
  <2>3. x \in Vacant(m)
    BY <1>1, <2>2 DEF Vacant
  <2> DEFINE d == [b EXCEPT ![u] = t[x]]
  <2>4. \A fd \in FDs : d[fd] = IF fd = u THEN t[x] ELSE b[fd]
    OBVIOUS
  <2> HIDE DEF d
  <2>5. t[x] # "closed" /\ b[x] = "closed"
    BY <1>1 DEF Agree
  <2>6. Agree(m, X \ {x}, d)
    <3>1. \A fd \in Standard : d[fd] # "closed"
      <4>1. ASSUME NEW fd \in Standard PROVE d[fd] # "closed"
        <5>1. b[fd] # "closed"
          BY DEF Agree
        <5>2. CASE fd \in FDs
          BY <2>4, <2>5, <5>1, <5>2
        <5>3. CASE fd \notin FDs
          BY <5>1, <5>3 DEF d
        <5> QED BY <5>2, <5>3
      <4> QED BY <4>1
    <3> QED BY <1>1, <1>3, <2>2, <2>4, <2>5, <3>1 DEF Agree
  <2> QED BY <1>1, <1>3, <2>2, <2>3, <2>6 DEF m, d, Moved
<1> QED BY <1>2, <1>3

-----------------------------------------------------------------------------
\* The operations and numbers of c, without the first k operations, are those of
\* r: they may have moved, and stand for the same.
After(c, r, k) ==
    /\ Len(r.deftab) = Len(c.deftab) - k
    /\ \A i \in 1..Len(c.deftab) - k :
          /\ r.deftab[i].user = c.deftab[i + k].user
          /\ r.deftab[i].real = -1 <=> c.deftab[i + k].real = -1
          /\ Content(r.fds, r.deftab[i].real) = Content(c.fds, c.deftab[i + k].real)
    /\ Len(r.own) = Len(c.own)
    /\ \A j \in 1..Len(c.own) :
          /\ r.own[j] = -1 <=> c.own[j] = -1
          /\ Content(r.fds, r.own[j]) = Content(c.fds, c.own[j])

\* The state of a table record: it agrees with b, and X is not registered.
Ready(c, X, b) ==
    /\ c \in Configs /\ Apart(c) /\ Sane(c)
    /\ X \cap Held(c) = {} /\ Agree(c.fds, Held(c) \cup X, b)

LEMMA SeqFacts ==
    ASSUME NEW S, NEW q \in Seq(S)
    PROVE  Len(q) \in Nat /\ DOMAIN q = 1..Len(q) /\ \A i \in 1..Len(q) : q[i] \in S
OBVIOUS

LEMMA FunctionSeq ==
    ASSUME NEW S, NEW n \in Nat, NEW q \in [1..n -> S]
    PROVE  q \in Seq(S) /\ Len(q) = n /\ DOMAIN q = 1..n
OBVIOUS

LEMMA ConfigFacts ==
    ASSUME NEW c \in Configs
    PROVE  /\ c.fds \in Tables /\ c.deftab \in Seq(Deferral) /\ c.own \in Seq(-1..MaxFd)
           /\ Len(c.deftab) \in Nat /\ DOMAIN c.deftab = 1..Len(c.deftab)
           /\ Len(c.own) \in Nat /\ DOMAIN c.own = 1..Len(c.own)
           /\ \A i \in 1..Len(c.deftab) : c.deftab[i] \in Deferral
           /\ \A j \in 1..Len(c.own) : c.own[j] \in -1..MaxFd
<1>1. c.fds \in Tables /\ c.deftab \in Seq(Deferral) /\ c.own \in Seq(-1..MaxFd)
  BY DEF Configs
<1>2. /\ Len(c.deftab) \in Nat /\ DOMAIN c.deftab = 1..Len(c.deftab)
      /\ \A i \in 1..Len(c.deftab) : c.deftab[i] \in Deferral
  BY <1>1, SeqFacts
<1>3. /\ Len(c.own) \in Nat /\ DOMAIN c.own = 1..Len(c.own)
      /\ \A j \in 1..Len(c.own) : c.own[j] \in -1..MaxFd
  BY <1>1, SeqFacts
<1> QED BY <1>1, <1>2, <1>3

LEMMA ConfigIs ==
    ASSUME NEW c \in Configs
    PROVE  c = [fds |-> c.fds, deftab |-> c.deftab, own |-> c.own]
BY DEF Configs

LEMMA ExceptIs ==
    ASSUME NEW x, NEW t, NEW w, x = [fds |-> x.fds, deftab |-> x.deftab, own |-> x.own]
    PROVE  [x EXCEPT !.fds = t, !.own = w] = [fds |-> t, deftab |-> x.deftab, own |-> w]
<1> DEFINE y == [x EXCEPT !.fds = t, !.own = w]
<1>1. y \in [fds : {t}, deftab : {x.deftab}, own : {w}]
  <2>1. x \in [fds : {x.fds}, deftab : {x.deftab}, own : {x.own}]
    OBVIOUS
  <2> QED BY <2>1
<1> HIDE DEF y
<1>2. y = [fds |-> y.fds, deftab |-> y.deftab, own |-> y.own]
  BY <1>1
<1>3. y.fds = t /\ y.deftab = x.deftab /\ y.own = w
  BY <1>1
<1> QED BY <1>2, <1>3 DEF y

LEMMA AfterSelf ==
    ASSUME NEW c \in Configs
    PROVE  After(c, c, 0)
<1>1. Len(c.deftab) \in Nat
  BY ConfigFacts
<1> QED BY <1>1 DEF After

\* releasefd: the number is free of the shell.
LEMMA ReleaseReady ==
    ASSUME MaxFd \in Nat, NEW c, NEW X, NEW b, Ready(c, X, b), Vacant(c.fds) # {},
           NEW fd \in FDs
    PROVE  LET r == F!releasefd(c, fd)
           IN  /\ Ready(r, X, b) /\ After(c, r, 0) /\ fd \notin Held(r)
               /\ \A x \in X : r.fds[x] = c.fds[x]
               /\ Vacant(r.fds) # {}
<1> DEFINE r == F!releasefd(c, fd)
           held == Reals(c) \cup Owned(c)
           new == F!Free(c.fds)
           Put(n) == IF n = fd THEN new ELSE n
           m == F!mvfd(c.fds, fd, new)
           dt == [i \in DOMAIN c.deftab |-> [c.deftab[i] EXCEPT !.real = Put(@)]]
           ow == [i \in DOMAIN c.own |-> Put(c.own[i])]
<1>1. c \in Configs /\ Apart(c) /\ Sane(c) /\ Agree(c.fds, Held(c) \cup X, b) /\ X \cap Held(c) = {}
  BY DEF Ready
<1>2. /\ c.fds \in Tables /\ c.deftab \in Seq(Deferral) /\ c.own \in Seq(-1..MaxFd)
      /\ Len(c.deftab) \in Nat /\ DOMAIN c.deftab = 1..Len(c.deftab)
      /\ Len(c.own) \in Nat /\ DOMAIN c.own = 1..Len(c.own)
      /\ \A i \in 1..Len(c.deftab) : c.deftab[i] \in Deferral
      /\ \A j \in 1..Len(c.own) : c.own[j] \in -1..MaxFd
  BY <1>1, ConfigFacts
<1>3. fd # -1 /\ fd \in Nat
  BY DEF FDs, F!FD
<1>4. F!Range(c.own) = Owned(c)
  BY DEF F!Range, Owned
<1>5. r = IF fd \notin held THEN c ELSE [fds |-> m, deftab |-> dt, own |-> ow]
  BY <1>4 DEF F!releasefd, Reals
<1> HIDE DEF r
<1>6. CASE fd \notin held
  <2>1. r = c
    BY <1>5, <1>6
  <2> QED BY <1>1, <1>6, <2>1, AfterSelf DEF Held, Ready, r
<1>7. CASE fd \in held
  <2>1. new \in FDs /\ c.fds[new] = "closed"
    <3>1. new \in Vacant(c.fds)
      BY <1>2, FreeIs
    <3> QED BY <3>1 DEF Vacant
  <2> HIDE DEF new
  <2>2. fd \in Held(c)
    BY <1>3, <1>7 DEF Held
  <2>3. c.fds[fd] # "closed" /\ \A x \in X : x # fd /\ x # new /\ x \in FDs
    BY <1>1, <2>1, <2>2 DEF Agree
  <2>4. new \notin Held(c) /\ new # fd /\ new # -1
    <3>1. \A x \in Held(c) : c.fds[x] # "closed"
      BY <1>1 DEF Agree
    <3> QED BY <2>1, <2>2, <3>1 DEF FDs, F!FD
  <2>5. m \in Tables /\ \A x \in FDs : m[x] = IF x = fd THEN "closed" ELSE IF x = new THEN c.fds[fd] ELSE c.fds[x]
    <3>1. m = [c.fds EXCEPT ![new] = c.fds[fd], ![fd] = "closed"]
      BY <2>4 DEF F!mvfd, F!Closed
    <3>2. "closed" \in Contents
      BY DEF Contents
    <3> QED BY <1>2, <2>1, <3>1, <3>2 DEF Tables
  <2> HIDE DEF m
  <2>6. r.fds = m /\ r.deftab = dt /\ r.own = ow /\ r = [fds |-> m, deftab |-> dt, own |-> ow]
    BY <1>5, <1>7
  <2>7. ASSUME NEW i \in 1..Len(c.deftab)
        PROVE  dt[i] \in Deferral /\ dt[i].user = c.deftab[i].user /\ dt[i].real = Put(c.deftab[i].real)
    <3>1. dt[i] = [c.deftab[i] EXCEPT !.real = Put(c.deftab[i].real)]
      BY <1>2
    <3>2. c.deftab[i] \in Deferral /\ new \in -1..MaxFd
      BY <1>2, <2>1 DEF FDs, F!FD
    <3> HIDE DEF dt
    <3> QED BY <3>1, <3>2 DEF Deferral
  <2>8. ASSUME NEW j \in 1..Len(c.own) PROVE ow[j] = Put(c.own[j]) /\ ow[j] \in -1..MaxFd
    BY <1>2, <2>1 DEF FDs, F!FD
  <2>9. dt \in Seq(Deferral) /\ Len(dt) = Len(c.deftab) /\ DOMAIN dt = 1..Len(c.deftab)
    <3>1. dt \in [1..Len(c.deftab) -> Deferral]
      BY <1>2, <2>7
    <3> HIDE DEF dt
    <3> QED BY <1>2, <3>1, FunctionSeq
  <2>10. ow \in Seq(-1..MaxFd) /\ Len(ow) = Len(c.own) /\ DOMAIN ow = 1..Len(c.own)
    <3>1. ow \in [1..Len(c.own) -> -1..MaxFd]
      BY <1>2, <2>8
    <3> HIDE DEF ow
    <3> QED BY <1>2, <3>1, FunctionSeq
  <2> HIDE DEF dt, ow
  <2>11. r \in Configs
    BY <2>5, <2>6, <2>9, <2>10 DEF Configs
  <2>12. /\ \A i \in 1..Len(c.deftab) : c.deftab[i].real # new
         /\ \A j \in 1..Len(c.own) : c.own[j] # new
    BY <1>2, <2>4 DEF Held, Reals, Owned
  <2>13. Apart(r)
    <3>1. \A i, j \in 1..Len(c.deftab) : dt[i].real = dt[j].real => c.deftab[i].real = c.deftab[j].real
      BY <2>7, <2>12
    <3>2. \A i \in 1..Len(c.deftab) : dt[i].real # -1 => c.deftab[i].real # -1
      BY <1>3, <2>7
    <3>3. \A i, j \in 1..Len(c.own) : ow[i] = ow[j] => c.own[i] = c.own[j]
      BY <2>8, <2>12
    <3>4. \A i \in 1..Len(c.own) : ow[i] # -1 => c.own[i] # -1
      BY <1>3, <2>8
    <3>5. \A i \in 1..Len(c.deftab), j \in 1..Len(c.own) : dt[i].real = ow[j] => c.deftab[i].real = c.own[j]
      BY <2>7, <2>8, <2>12
    <3> QED BY <1>1, <1>2, <2>6, <2>9, <2>10, <3>1, <3>2, <3>3, <3>4, <3>5, SMTT(40) DEF Apart
  <2>14. Held(r) = (Held(c) \ {fd}) \cup {new}
    <3>1. \A x : x \in Reals(r) <=> \E i \in 1..Len(c.deftab) : x = Put(c.deftab[i].real)
      BY <2>6, <2>7, <2>9 DEF Reals
    <3>2. \A x : x \in Owned(r) <=> \E j \in 1..Len(c.own) : x = Put(c.own[j])
      BY <2>6, <2>8, <2>10 DEF Owned
    <3>3. /\ \A x : x \in Reals(c) <=> \E i \in 1..Len(c.deftab) : x = c.deftab[i].real
          /\ \A x : x \in Owned(c) <=> \E j \in 1..Len(c.own) : x = c.own[j]
      BY <1>2 DEF Reals, Owned
    <3>4. ASSUME NEW x PROVE x \in Reals(r) \cup Owned(r) <=> \E y \in held : x = Put(y)
      <4> HIDE DEF Put
      <4> QED BY <3>1, <3>2, <3>3
    <3> QED BY <1>3, <1>7, <2>4, <3>4 DEF Held
  <2>15. Sane(r)
    BY <1>1, <1>2, <1>3, <2>4, <2>6, <2>7, <2>9 DEF Sane
  <2>16. Agree(r.fds, Held(r) \cup X, b)
    BY <1>1, <2>1, <2>2, <2>3, <2>4, <2>5, <2>6, <2>14 DEF Agree
  <2>17. After(c, r, 0)
    <3>1. \A i \in 1..Len(c.deftab) : Content(m, dt[i].real) = Content(c.fds, c.deftab[i].real)
      <4> SUFFICES ASSUME NEW i \in 1..Len(c.deftab)
                   PROVE  Content(m, dt[i].real) = Content(c.fds, c.deftab[i].real)
        OBVIOUS
      <4>1. c.deftab[i].real = -1 \/ c.deftab[i].real \in FDs
        BY <1>2, SMTT(40) DEF Deferral, FDs, F!FD
      <4> QED BY <1>3, <2>1, <2>4, <2>5, <2>7, <2>12, <4>1 DEF Content
    <3>2. \A j \in 1..Len(c.own) : Content(m, ow[j]) = Content(c.fds, c.own[j])
      <4> SUFFICES ASSUME NEW j \in 1..Len(c.own)
                   PROVE  Content(m, ow[j]) = Content(c.fds, c.own[j])
        OBVIOUS
      <4>1. c.own[j] = -1 \/ c.own[j] \in FDs
        BY <1>2, SMTT(40) DEF FDs, F!FD
      <4> QED BY <1>3, <2>1, <2>4, <2>5, <2>8, <2>12, <4>1 DEF Content
    <3>3. /\ \A i \in 1..Len(c.deftab) : dt[i].real = -1 <=> c.deftab[i].real = -1
          /\ \A j \in 1..Len(c.own) : ow[j] = -1 <=> c.own[j] = -1
      BY <1>3, <2>4, <2>7, <2>8
    <3>4. \A i \in 1..Len(c.deftab) - 0 : i \in 1..Len(c.deftab) /\ i + 0 = i
      BY <1>2
    <3> QED BY <1>2, <2>6, <2>7, <2>9, <2>10, <3>1, <3>2, <3>3, <3>4 DEF After
  <2>18. fd \notin Held(r) /\ X \cap Held(r) = {} /\ fd \in Vacant(r.fds)
    BY <1>1, <2>3, <2>4, <2>5, <2>6, <2>14 DEF Vacant
  <2>19. \A x \in X : r.fds[x] = c.fds[x]
    BY <2>3, <2>5, <2>6
  <2> QED BY <2>11, <2>13, <2>15, <2>16, <2>17, <2>18, <2>19 DEF Ready, r
<1> QED BY <1>6, <1>7

LEMMA AfterThen ==
    ASSUME NEW c \in Configs, NEW d \in Configs, NEW r \in Configs, NEW j \in Nat, NEW k \in Nat,
           After(c, d, j), After(d, r, k)
    PROVE  After(c, r, j + k)
<1>1. Len(c.deftab) \in Nat /\ Len(d.deftab) \in Nat /\ Len(r.deftab) \in Nat
  BY ConfigFacts
<1>2. Len(r.deftab) = Len(c.deftab) - (j + k)
  BY <1>1 DEF After
<1>3. ASSUME NEW i \in 1..Len(c.deftab) - (j + k)
      PROVE  /\ r.deftab[i].user = c.deftab[i + (j + k)].user
             /\ r.deftab[i].real = -1 <=> c.deftab[i + (j + k)].real = -1
             /\ Content(r.fds, r.deftab[i].real) = Content(c.fds, c.deftab[i + (j + k)].real)
  <2>1. i \in 1..Len(d.deftab) - k /\ i + k \in 1..Len(c.deftab) - j /\ (i + k) + j = i + (j + k)
    BY <1>1 DEF After
  <2> QED BY <2>1 DEF After
<1>4. /\ Len(r.own) = Len(c.own)
      /\ \A n \in 1..Len(c.own) : /\ r.own[n] = -1 <=> c.own[n] = -1
                                  /\ Content(r.fds, r.own[n]) = Content(c.fds, c.own[n])
  BY DEF After
<1> QED BY <1>2, <1>3, <1>4 DEF After

\* r is c after an operation that leaves the table as in b.
Became(c, X, b, r) ==
    /\ Ready(r, X, b) /\ After(c, r, 0) /\ Vacant(r.fds) # {}
    /\ \A x \in X : r.fds[x] = c.fds[x]

\* dodeferred, of an operation that is no longer registered.
LEMMA DeferredReady ==
    ASSUME MaxFd \in Nat, NEW c, NEW X, NEW b, DOMAIN b = FDs,
           NEW real \in -1..MaxFd, NEW u \in FDs, real \notin X, u \notin X,
           Ready(c, X \cup ({real} \ {-1}), b), Vacant(c.fds) # {},
           real = -1 => u \notin Standard
    PROVE  Became(c, X, [b EXCEPT ![u] = Content(c.fds, real)], F!dodeferred(c, real, u))
<1> DEFINE r == F!dodeferred(c, real, u)
           q == F!releasefd(c, u)
           One == {real} \ {-1}
           d == [b EXCEPT ![u] = Content(c.fds, real)]
           t == IF real = -1 THEN F!Close(q.fds, u) ELSE F!mvfd(q.fds, real, u)
<1>1. /\ Ready(q, X \cup One, b) /\ After(c, q, 0) /\ u \notin Held(q)
      /\ \A x \in X \cup One : q.fds[x] = c.fds[x]
      /\ Vacant(q.fds) # {}
  BY ReleaseReady
<1>2. r = [q EXCEPT !.fds = t]
  BY DEF F!dodeferred
<1> HIDE DEF q, r
<1>3. /\ c \in Configs /\ q \in Configs /\ q.fds \in Tables /\ Apart(q) /\ Sane(q)
      /\ (X \cup One) \cap Held(q) = {} /\ Agree(q.fds, Held(q) \cup (X \cup One), b)
  BY <1>1 DEF Ready, Configs
<1>4. u \in Nat /\ u # -1
  BY DEF FDs, F!FD
<1>5. Content(c.fds, real) = Content(q.fds, real)
  BY <1>1 DEF Content
<1>6. /\ t \in Tables /\ Vacant(t) # {} /\ Agree(t, Held(q) \cup X, d)
      /\ \A fd \in FDs : fd # real /\ fd # u => t[fd] = q.fds[fd]
  <2>1. CASE real = -1
    <3>1. t = [q.fds EXCEPT ![u] = "closed"] /\ "closed" \in Contents
      BY <1>4, <2>1 DEF F!Close, F!Closed, Contents
    <3> HIDE DEF t
    <3>2. t \in Tables /\ \A fd \in FDs : t[fd] = IF fd = u THEN "closed" ELSE q.fds[fd]
      BY <1>3, <3>1 DEF Tables
    <3>3. d = [b EXCEPT ![u] = "closed"]
      BY <2>1 DEF Content
    <3>4. \A fd : d[fd] = IF fd \in FDs /\ fd = u THEN "closed" ELSE b[fd]
      <4>1. \A fd \in FDs : d[fd] = IF fd = u THEN "closed" ELSE b[fd]
        BY <3>3
      <4>2. \A fd : fd \notin FDs => d[fd] = b[fd]
        BY <3>3
      <4> QED BY <4>1, <4>2
    <3> HIDE DEF d
    <3>5. Agree(t, Held(q) \cup X, d)
      BY <1>1, <1>3, <2>1, <3>2, <3>4 DEF Agree
    <3>6. u \in Vacant(t)
      BY <3>2 DEF Vacant
    <3> QED BY <3>2, <3>5, <3>6
  <2>2. CASE real # -1
    <3> DEFINE Y == Held(q) \cup (X \cup One)
    <3>1. real \in Y /\ u \notin Y \ {real} /\ Y \ {real} = Held(q) \cup X
      BY <1>1, <1>3, <2>2
    <3>2. d = [b EXCEPT ![u] = q.fds[real]]
      BY <1>5, <2>2 DEF Content
    <3>3. t = F!mvfd(q.fds, real, u)
      BY <2>2
    <3> HIDE DEF Y, t, d
    <3>4. Agree(q.fds, Y, b)
      BY <1>3 DEF Y
    <3>5. Moved(q.fds, Y, b, real, u, F!mvfd(q.fds, real, u))
      BY <1>1, <1>3, <3>1, <3>4, AgreeMove
    <3> QED BY <1>1, <3>1, <3>2, <3>3, <3>5 DEF Moved
  <2> QED BY <2>1, <2>2
<1> HIDE DEF t
<1>7. r \in Configs /\ r.fds = t /\ r.deftab = q.deftab /\ r.own = q.own
  BY <1>2, <1>3, <1>6 DEF Configs
<1>8. Held(r) = Held(q) /\ Apart(r) /\ Sane(r)
  BY <1>3, <1>7 DEF Held, Reals, Owned, Apart, Sane
<1>9. Ready(r, X, d)
  BY <1>3, <1>6, <1>7, <1>8 DEF Ready
<1>10. \A fd \in Held(q) : t[fd] = q.fds[fd]
  <2>1. Held(q) \subseteq FDs /\ (real \in Held(q) => real \in One)
    <3>1. Held(q) \subseteq FDs /\ -1 \notin FDs
      BY <1>3 DEF Agree, FDs, F!FD
    <3> QED BY <3>1
  <2> QED BY <1>1, <1>3, <1>6, <2>1
<1>11. After(q, r, 0)
  <2>1. /\ Len(q.deftab) \in Nat /\ DOMAIN q.deftab = 1..Len(q.deftab)
        /\ Len(q.own) \in Nat /\ DOMAIN q.own = 1..Len(q.own)
    BY <1>3, ConfigFacts
  <2>2. /\ \A i \in 1..Len(q.deftab) : q.deftab[i].real # -1 => q.deftab[i].real \in Held(q)
        /\ \A j \in 1..Len(q.own) : q.own[j] # -1 => q.own[j] \in Held(q)
    BY <2>1 DEF Held, Reals, Owned
  <2>3. /\ \A i \in 1..Len(q.deftab) : Content(t, q.deftab[i].real) = Content(q.fds, q.deftab[i].real)
        /\ \A j \in 1..Len(q.own) : Content(t, q.own[j]) = Content(q.fds, q.own[j])
    BY <1>10, <2>2 DEF Content
  <2>4. \A i \in 1..Len(q.deftab) - 0 : i \in 1..Len(q.deftab) /\ i + 0 = i
    BY <2>1
  <2> QED BY <1>7, <2>1, <2>3, <2>4 DEF After
<1>12. After(c, r, 0)
  <2>1. After(c, r, 0 + 0)
    BY <1>1, <1>3, <1>7, <1>11, AfterThen
  <2> QED BY <2>1
<1>13. \A x \in X : r.fds[x] = c.fds[x]
  <2>1. X \subseteq FDs
    BY <1>3 DEF Agree
  <2> QED BY <1>1, <1>6, <1>7, <2>1
<1> QED BY <1>6, <1>7, <1>9, <1>12, <1>13 DEF r, Became

\* remapfds takes the first operation off the table.
LEMMA TailReady ==
    ASSUME NEW c, NEW X, NEW b, Ready(c, X, b), Len(c.deftab) > 0
    PROVE  LET d == [c EXCEPT !.deftab = Tail(@)]
               real == c.deftab[1].real
           IN  /\ Ready(d, X \cup ({real} \ {-1}), b) /\ After(c, d, 1)
               /\ real \in -1..MaxFd /\ real \notin X /\ d.fds = c.fds
<1> DEFINE d == [c EXCEPT !.deftab = Tail(@)]
           real == c.deftab[1].real
           n == Len(c.deftab)
<1>1. /\ c \in Configs /\ Apart(c) /\ Sane(c) /\ X \cap Held(c) = {}
      /\ Agree(c.fds, Held(c) \cup X, b)
  BY DEF Ready
<1>2. /\ c.deftab \in Seq(Deferral) /\ n \in Nat \ {0} /\ DOMAIN c.deftab = 1..n
      /\ \A i \in 1..n : c.deftab[i] \in Deferral
      /\ Len(c.own) \in Nat /\ DOMAIN c.own = 1..Len(c.own)
  BY <1>1, ConfigFacts
<1> HIDE DEF n
<1>3. /\ Tail(c.deftab) \in Seq(Deferral) /\ Len(Tail(c.deftab)) = n - 1
      /\ \A i \in 1..n - 1 : Tail(c.deftab)[i] = c.deftab[i + 1]
  <2>1. c.deftab # <<>>
    BY <1>2 DEF n
  <2> QED BY <1>2, <2>1 DEF n
<1>4. /\ d \in Configs /\ d.fds = c.fds /\ d.own = c.own /\ d.deftab = Tail(c.deftab)
  BY <1>1, <1>3 DEF Configs
<1> HIDE DEF d
<1>5. DOMAIN d.deftab = 1..n - 1 /\ \A i \in 1..n - 1 : i + 1 \in 1..n /\ d.deftab[i] = c.deftab[i + 1]
  <2>1. DOMAIN Tail(c.deftab) = 1..n - 1
    BY <1>3, SeqFacts
  <2> QED BY <1>2, <1>3, <1>4, <2>1
<1>6. Apart(d)
  <2>1. \A i, j \in 1..n - 1 : i + 1 = j + 1 => i = j
    BY <1>2
  <2>2. \A i, j \in 1..n : c.deftab[i].real = c.deftab[j].real /\ c.deftab[i].real # -1 => i = j
    BY <1>1, <1>2 DEF Apart
  <2>3. \A i, j \in 1..n - 1 : d.deftab[i].real = d.deftab[j].real /\ d.deftab[i].real # -1 => i = j
    BY <1>5, <2>1, <2>2, SMTT(40)
  <2>4. \A i \in 1..n, j \in DOMAIN c.own : c.deftab[i].real = c.own[j] => c.own[j] = -1
    BY <1>1, <1>2 DEF Apart
  <2>5. \A i \in 1..n - 1, j \in DOMAIN c.own : d.deftab[i].real = c.own[j] => c.own[j] = -1
    BY <1>5, <2>4
  <2> QED BY <1>1, <1>4, <1>5, <2>3, <2>5 DEF Apart
<1>7. Sane(d)
  BY <1>1, <1>2, <1>5 DEF Sane
<1>8. Reals(c) = Reals(d) \cup {real} /\ Owned(d) = Owned(c)
  <2>1. \A i \in 1..n : i = 1 \/ (i - 1 \in 1..n - 1 /\ (i - 1) + 1 = i)
    BY <1>2
  <2>2. \A i \in 1..n : i = 1 \/ (i - 1 \in DOMAIN d.deftab /\ c.deftab[i] = d.deftab[i - 1])
    BY <1>5, <2>1
  <2>3. Reals(c) \subseteq Reals(d) \cup {real}
    BY <1>2, <2>2 DEF Reals
  <2>4. 1 \in DOMAIN c.deftab
    BY <1>2
  <2>5. real \in Reals(c) /\ Reals(d) \subseteq Reals(c)
    BY <1>2, <1>5, <2>4 DEF Reals
  <2> QED BY <1>4, <2>3, <2>5 DEF Owned
<1>9. real # -1 => real \notin Held(d)
  <2>1. 1 \in 1..n /\ \A i \in 1..n - 1 : i + 1 # 1
    BY <1>2
  <2>2. real # -1 => \A i \in 1..n : c.deftab[i].real = real => i = 1
    BY <1>1, <1>2, <2>1 DEF Apart
  <2>3. real # -1 => real \notin Reals(d)
    BY <1>5, <2>1, <2>2, SMTT(40) DEF Reals
  <2>4. real # -1 => real \notin Owned(d)
    BY <1>1, <1>2, <1>4, <2>1 DEF Apart, Owned
  <2> QED BY <2>3, <2>4 DEF Held
<1>10. real \in -1..MaxFd /\ real \notin X
  <2>1. 1 \in 1..n
    BY <1>2
  <2>2. real \in -1..MaxFd
    BY <1>2, <2>1 DEF Deferral
  <2>3. real # -1 => real \in Held(c)
    BY <1>8 DEF Held
  <2>4. -1 \notin X
    BY <1>1 DEF Agree, FDs, F!FD
  <2> QED BY <1>1, <2>2, <2>3, <2>4
<1>11. Held(c) \cup X = Held(d) \cup (X \cup ({real} \ {-1}))
  BY <1>8 DEF Held
<1>12. Ready(d, X \cup ({real} \ {-1}), b)
  <2>1. (X \cup ({real} \ {-1})) \cap Held(d) = {}
    BY <1>1, <1>8, <1>9 DEF Held
  <2> QED BY <1>1, <1>4, <1>6, <1>7, <1>11, <2>1 DEF Ready
<1>13. After(c, d, 1)
  <2>1. Len(d.deftab) = n - 1
    BY <1>3, <1>4
  <2> QED BY <1>4, <1>5, <2>1 DEF After, n
<1> QED BY <1>4, <1>10, <1>12, <1>13 DEF d

-----------------------------------------------------------------------------
\* remapfds after n operations.
DeferStep(c, r, n) ==
    F!dodeferred([r EXCEPT !.deftab = Tail(@)], r.deftab[1].real, c.deftab[n].user)
Remaps(c, f, m) == f = [n \in 0..m |-> IF n = 0 THEN c ELSE DeferStep(c, f[n - 1], n)]

LEMMA RemapIs ==
    ASSUME NEW c, Len(c.deftab) \in Nat
    PROVE  \E f : Remaps(c, f, Len(c.deftab)) /\ F!remapfds(c) = f[Len(c.deftab)]
<1> DEFINE l == Len(c.deftab)
           S == {m \in Nat : \E f : Remaps(c, f, m)}
           g == CHOOSE f : Remaps(c, f, l)
<1>1. 0 \in S
  <2>1. Remaps(c, [n \in 0..0 |-> c], 0)
    BY DEF Remaps
  <2> QED BY <2>1
<1>2. ASSUME NEW m \in Nat, m \in S PROVE m + 1 \in S
  <2>1. PICK f : Remaps(c, f, m)
    BY <1>2
  <2> DEFINE h == [n \in 0..m + 1 |-> IF n = m + 1 THEN DeferStep(c, f[m], m + 1) ELSE f[n]]
  <2>2. \A n \in 0..m : f[n] = IF n = 0 THEN c ELSE DeferStep(c, f[n - 1], n)
    BY <2>1 DEF Remaps
  <2>3. ASSUME NEW n \in 0..m + 1
        PROVE  h[n] = IF n = 0 THEN c ELSE DeferStep(c, h[n - 1], n)
    <3>1. CASE n = m + 1
      <4>1. h[n] = DeferStep(c, f[m], n) /\ h[n - 1] = f[m] /\ n # 0
        BY <3>1
      <4> QED BY <4>1
    <3>2. CASE n # m + 1
      <4>1. n \in 0..m /\ h[n] = f[n] /\ (n # 0 => h[n - 1] = f[n - 1])
        BY <3>2
      <4> QED BY <2>2, <4>1
    <3> QED BY <3>1, <3>2
  <2>4. Remaps(c, h, m + 1)
    BY <2>3 DEF Remaps
  <2> QED BY <2>4
<1>3. l \in S
  <2> HIDE DEF S
  <2>1. Nat \subseteq S
    BY <1>1, <1>2, DD!Induction
  <2> QED BY <2>1
<1>4. Remaps(c, g, l)
  BY <1>3
<1>5. F!remapfds(c) = g[l]
  BY DEF F!remapfds, Remaps, DeferStep
<1> QED BY <1>4, <1>5

\* V[i] is what the user has asked for with the first i operations of c.
Asks(c, V) ==
    /\ \A i \in 0..Len(c.deftab) : DOMAIN V[i] = FDs
    /\ \A i \in 1..Len(c.deftab) :
          V[i] = [V[i - 1] EXCEPT ![c.deftab[i].user] = Content(c.fds, c.deftab[i].real)]

\* r is c after the first n operations.
Remapped(c, X, V, r, n) ==
    /\ Ready(r, X, V[n]) /\ After(c, r, n) /\ Vacant(r.fds) # {}
    /\ \A x \in X : r.fds[x] = c.fds[x]

\* remapfds: the table becomes what the user has asked for, in every order in
\* which the operations take the numbers of one another.
LEMMA RemapReady ==
    ASSUME MaxFd \in Nat, NEW c, NEW X, NEW V, Ready(c, X, V[0]), Vacant(c.fds) # {},
           Asks(c, V), \A i \in 1..Len(c.deftab) : c.deftab[i].user \notin X
    PROVE  Remapped(c, X, V, F!remapfds(c), Len(c.deftab))
<1> DEFINE l == Len(c.deftab)
<1>1. /\ c \in Configs /\ l \in Nat /\ DOMAIN c.deftab = 1..l
      /\ \A i \in 1..l : c.deftab[i] \in Deferral
  BY ConfigFacts DEF Ready
<1>2. PICK f : Remaps(c, f, l) /\ F!remapfds(c) = f[l]
  BY <1>1, RemapIs
<1>3. \A n \in 0..l : f[n] = IF n = 0 THEN c ELSE DeferStep(c, f[n - 1], n)
  BY <1>2 DEF Remaps
<1> DEFINE S == {n \in Nat : n <= l => Remapped(c, X, V, f[n], n)}
<1>4. 0 \in S
  <2>1. f[0] = c
    BY <1>1, <1>3
  <2> QED BY <1>1, <2>1, AfterSelf DEF Remapped
<1>5. ASSUME NEW n \in Nat, n \in S PROVE n + 1 \in S
  <2> SUFFICES ASSUME n + 1 <= l PROVE Remapped(c, X, V, f[n + 1], n + 1)
    OBVIOUS
  <2> DEFINE r == f[n]
             q == f[n + 1]
             d == [r EXCEPT !.deftab = Tail(@)]
             real == r.deftab[1].real
             u == c.deftab[n + 1].user
  <2>1. Remapped(c, X, V, r, n)
    BY <1>1, <1>5
  <2>2. q = F!dodeferred(d, real, u)
    <3>1. n + 1 \in 0..l /\ n + 1 # 0 /\ (n + 1) - 1 = n
      BY <1>1
    <3>2. f[n + 1] = DeferStep(c, f[(n + 1) - 1], n + 1)
      BY <1>3, <3>1
    <3>3. f[n + 1] = DeferStep(c, f[n], n + 1)
      BY <3>1, <3>2
    <3> QED BY <3>3 DEF DeferStep
  <2>3. n + 1 \in 1..l /\ n \in 0..l /\ l - n > 0 /\ 1 \in 1..l - n /\ 1 + n = n + 1 /\ (n + 1) - 1 = n
    BY <1>1
  <2>4. /\ Ready(r, X, V[n]) /\ Len(r.deftab) > 0 /\ Vacant(r.fds) # {}
        /\ r.deftab[1].user = u /\ (real = -1 <=> c.deftab[n + 1].real = -1)
        /\ Content(r.fds, real) = Content(c.fds, c.deftab[n + 1].real)
    BY <2>1, <2>3 DEF Remapped, After
  <2>5. r \in Configs /\ 1 \in DOMAIN r.deftab /\ Sane(r)
    BY <2>4, ConfigFacts DEF Ready
  <2>6. u \in FDs /\ u \notin X /\ (real = -1 => u \notin Standard)
    BY <1>1, <2>3, <2>4, <2>5 DEF Deferral, Sane
  <2> HIDE DEF q, r
  <2>7. /\ Ready(d, X \cup ({real} \ {-1}), V[n]) /\ After(r, d, 1)
        /\ real \in -1..MaxFd /\ real \notin X /\ d.fds = r.fds
    BY <2>4, TailReady
  <2>8. DOMAIN V[n] = FDs /\ V[n + 1] = [V[n] EXCEPT ![u] = Content(c.fds, c.deftab[n + 1].real)]
    BY <2>3 DEF Asks
  <2> HIDE DEF d, real, u
  <2>9. Became(d, X, [V[n] EXCEPT ![u] = Content(d.fds, real)], q)
    <3>1. Vacant(d.fds) # {} /\ DOMAIN V[n] = FDs
      BY <2>4, <2>7, <2>8
    <3> QED BY <2>2, <2>6, <2>7, <3>1, DeferredReady
  <2>10. V[n + 1] = [V[n] EXCEPT ![u] = Content(d.fds, real)]
    BY <2>4, <2>7, <2>8
  <2>11. After(c, q, n + 1)
    <3>1. d \in Configs /\ q \in Configs
      BY <2>7, <2>9 DEF Ready, Became
    <3>2. After(r, q, 1 + 0)
      BY <2>5, <2>7, <2>9, <3>1, AfterThen DEF Became
    <3>3. After(c, q, n + (1 + 0))
      BY <1>1, <2>1, <2>5, <3>1, <3>2, AfterThen DEF Remapped
    <3>4. n + (1 + 0) = n + 1
      OBVIOUS
    <3> QED BY <3>3, <3>4
  <2> QED BY <2>1, <2>7, <2>9, <2>10, <2>11 DEF Remapped, Became, q
<1>6. Nat \subseteq S
  <2> HIDE DEF S
  <2> QED BY <1>4, <1>5, DD!Induction
<1> QED BY <1>1, <1>2, <1>6

-----------------------------------------------------------------------------
\* r is a child's table: nothing is deferred, the first n numbers are closed, and
\* the others stand for what they stood for in c.
Cleaned(c, X, b, r, n) ==
    /\ Ready(r, X, b) /\ r.deftab = <<>> /\ Vacant(r.fds) # {}
    /\ Len(r.own) = Len(c.own)
    /\ \A j \in 1..n : r.own[j] = -1
    /\ \A j \in n + 1..Len(c.own) : /\ r.own[j] = -1 <=> c.own[j] = -1
                                    /\ Content(r.fds, r.own[j]) = Content(c.fds, c.own[j])
    /\ \A x \in X : r.fds[x] = c.fds[x]

\* closefds.
LEMMA CloseReady ==
    ASSUME MaxFd \in Nat, NEW c, NEW X, NEW V, Ready(c, X, V[0]), Vacant(c.fds) # {},
           Asks(c, V), \A i \in 1..Len(c.deftab) : c.deftab[i].user \notin X,
           NEW n \in 0..Len(c.own)
    PROVE  Cleaned(c, X, V[Len(c.deftab)], F!closefds(c, n), n)
<1> DEFINE q == F!remapfds(c)
           r == F!closefds(c, n)
           b == V[Len(c.deftab)]
           shut == {q.own[j] : j \in 1..n} \ Standard
           t == [fd \in FDs |-> IF fd >= 3 /\ fd \in F!Range(SubSeq(q.own, 1, n)) THEN "closed" ELSE q.fds[fd]]
           ow == [i \in DOMAIN q.own |-> IF i <= n THEN -1 ELSE q.own[i]]
<1>1. Remapped(c, X, V, q, Len(c.deftab))
  BY RemapReady
<1>2. r = [q EXCEPT !.fds = t, !.own = ow]
  BY DEF F!closefds, FDs, F!Closed
<1> HIDE DEF q, r
<1>3. /\ q \in Configs /\ Apart(q) /\ Sane(q) /\ X \cap Held(q) = {}
      /\ Agree(q.fds, Held(q) \cup X, b) /\ After(c, q, Len(c.deftab))
      /\ Vacant(q.fds) # {} /\ \A x \in X : q.fds[x] = c.fds[x]
  BY <1>1 DEF Remapped, Ready
<1>4. c \in Configs /\ Len(c.deftab) \in Nat /\ Len(c.own) \in Nat
  BY ConfigFacts DEF Ready
<1>5. /\ q.fds \in Tables /\ q.deftab \in Seq(Deferral) /\ q.own \in Seq(-1..MaxFd)
      /\ Len(q.own) \in Nat /\ DOMAIN q.own = 1..Len(q.own)
      /\ \A j \in 1..Len(q.own) : q.own[j] \in -1..MaxFd
  BY <1>3, ConfigFacts
<1>6. q.deftab = <<>> /\ Len(q.own) = Len(c.own)
  <2>1. Len(q.deftab) = 0
    BY <1>3, <1>4 DEF After
  <2> QED BY <1>3, <1>5, <2>1 DEF After
<1>7. F!Range(SubSeq(q.own, 1, n)) = {q.own[j] : j \in 1..n}
  <2>1. \A j \in 1..n : q.own[j] \in -1..MaxFd
    BY <1>5, <1>6
  <2>2. n \in Nat /\ 1 \in Int /\ n \in Int
    BY <1>4
  <2>3. /\ SubSeq(q.own, 1, n) \in Seq(-1..MaxFd)
        /\ Len(SubSeq(q.own, 1, n)) = IF 1 <= n THEN n - 1 + 1 ELSE 0
        /\ \A j \in 1..n - 1 + 1 : SubSeq(q.own, 1, n)[j] = q.own[1 + j - 1]
    BY <2>1, <2>2, <1>5, SubSeqProperties
  <2>4. DOMAIN SubSeq(q.own, 1, n) = 1..n /\ \A j \in 1..n : SubSeq(q.own, 1, n)[j] = q.own[j]
    <3>1. Len(SubSeq(q.own, 1, n)) = n /\ \A j \in 1..n : j \in 1..n - 1 + 1 /\ 1 + j - 1 = j
      BY <2>2, <2>3
    <3> QED BY <2>3, <3>1, SeqFacts
  <2> QED BY <2>4 DEF F!Range
<1>8. t \in Tables /\ \A fd \in FDs : t[fd] = IF fd \in shut THEN "closed" ELSE q.fds[fd]
  <2>1. \A fd \in FDs : fd >= 3 <=> fd \notin Standard
    BY DEF FDs, F!FD, Standard
  <2>2. "closed" \in Contents
    BY DEF Contents
  <2> QED BY <1>5, <1>7, <2>1, <2>2 DEF Tables
<1> HIDE DEF t
<1>9. ow \in Seq(-1..MaxFd) /\ Len(ow) = Len(c.own) /\ DOMAIN ow = 1..Len(c.own)
  <2>1. -1 \in -1..MaxFd
    OBVIOUS
  <2>2. ow \in [1..Len(c.own) -> -1..MaxFd]
    BY <1>5, <1>6, <2>1
  <2> HIDE DEF ow
  <2> QED BY <1>4, <2>2, FunctionSeq
<1>10. \A j \in 1..Len(c.own) : ow[j] = IF j <= n THEN -1 ELSE q.own[j]
  BY <1>5, <1>6
<1> HIDE DEF ow
<1>11. r \in Configs /\ r.fds = t /\ r.deftab = <<>> /\ r.own = ow
  BY <1>2, <1>3, <1>6, <1>8, <1>9 DEF Configs
<1>12. Reals(r) = {} /\ Reals(q) = {}
  BY <1>6, <1>11 DEF Reals
<1>13. \A j \in n + 1..Len(c.own) : j \in 1..Len(c.own) /\ ~(j <= n) /\ j \notin 1..n
  BY <1>4
<1>14. \A i \in 1..n, j \in n + 1..Len(c.own) : q.own[i] = q.own[j] => q.own[j] = -1
  <2>1. \A i \in 1..n : i \in 1..Len(c.own)
    BY <1>4
  <2> QED BY <1>3, <1>5, <1>6, <1>13, <2>1 DEF Apart
<1>15. Held(r) = {q.own[j] : j \in n + 1..Len(c.own)} \ {-1}
  <2>1. \A j \in 1..Len(c.own) : j <= n \/ j \in n + 1..Len(c.own)
    BY <1>4
  <2>2. \A x \in Owned(r) : x = -1 \/ x \in {q.own[j] : j \in n + 1..Len(c.own)}
    BY <1>9, <1>10, <1>11, <2>1 DEF Owned
  <2>3. \A j \in n + 1..Len(c.own) : q.own[j] \in Owned(r)
    BY <1>9, <1>10, <1>11, <1>13 DEF Owned
  <2> QED BY <1>12, <2>2, <2>3 DEF Held
<1>16. Held(q) = ({q.own[j] : j \in 1..n} \cup {q.own[j] : j \in n + 1..Len(c.own)}) \ {-1}
  <2>1. \A j : j \in 1..Len(c.own) <=> j \in 1..n \/ j \in n + 1..Len(c.own)
    BY <1>4
  <2> QED BY <1>5, <1>6, <1>12, <2>1 DEF Held, Owned
<1>17. /\ Held(r) \subseteq Held(q) /\ Held(r) \cap shut = {} /\ X \cap shut = {}
       /\ Held(q) \subseteq Held(r) \cup shut
  <2>1. Held(r) \cap shut = {}
    BY <1>14, <1>15
  <2>2. -1 \notin X /\ Held(q) \cap Standard = {}
    <3>1. -1 \notin FDs
      BY DEF FDs, F!FD
    <3>2. Standard \subseteq FDs \/ TRUE
      OBVIOUS
    <3> QED BY <1>3, <3>1 DEF Agree
  <2> QED BY <1>3, <1>15, <1>16, <2>1, <2>2
<1>18. Agree(t, Held(r) \cup X, b)
  <2>1. -1 \notin FDs
    BY DEF FDs, F!FD
  <2>2. \A fd \in FDs : fd \in shut => fd \in Held(q)
    BY <1>16, <2>1
  <2> HIDE DEF shut, b
  <2>3. ASSUME NEW fd \in FDs
        PROVE  /\ fd \in Held(r) \cup X => t[fd] # "closed" /\ b[fd] = "closed"
               /\ fd \notin Held(r) \cup X => t[fd] = b[fd]
    <3>1. /\ fd \in Held(q) \cup X => q.fds[fd] # "closed" /\ b[fd] = "closed"
          /\ fd \notin Held(q) \cup X => q.fds[fd] = b[fd]
      BY <1>3 DEF Agree
    <3>2. t[fd] = IF fd \in shut THEN "closed" ELSE q.fds[fd]
      BY <1>8
    <3> QED BY <1>17, <2>2, <3>1, <3>2
  <2> QED BY <1>3, <1>17, <2>3 DEF Agree
<1>19. Apart(r) /\ Sane(r)
  <2>1. \A i, j \in 1..Len(c.own) : ow[i] = ow[j] /\ ow[i] # -1 => i = j
    <3>1. \A i, j \in 1..Len(c.own) : q.own[i] = q.own[j] /\ q.own[i] # -1 => i = j
      BY <1>3, <1>5, <1>6 DEF Apart
    <3> QED BY <1>10, <3>1
  <2> QED BY <1>9, <1>11, <2>1 DEF Apart, Sane
<1>20. Ready(r, X, b)
  BY <1>3, <1>11, <1>17, <1>18, <1>19 DEF Ready
<1>21. Vacant(t) # {}
  <2>1. Vacant(q.fds) \subseteq Vacant(t)
    BY <1>8 DEF Vacant
  <2> QED BY <1>3, <2>1
<1>22. \A x \in X : t[x] = c.fds[x]
  BY <1>3, <1>8, <1>17 DEF Agree
<1>23. \A j \in n + 1..Len(c.own) : Content(t, ow[j]) = Content(c.fds, c.own[j])
  <2> SUFFICES ASSUME NEW j \in n + 1..Len(c.own)
               PROVE  Content(t, ow[j]) = Content(c.fds, c.own[j])
    OBVIOUS
  <2>1. ow[j] = q.own[j] /\ j \in 1..Len(c.own)
    BY <1>10, <1>13
  <2>2. q.own[j] # -1 => q.own[j] \in Held(r) /\ q.own[j] \in FDs
    BY <1>3, <1>15, <1>17 DEF Agree
  <2>3. Content(t, ow[j]) = Content(q.fds, q.own[j])
    BY <1>8, <1>17, <2>1, <2>2 DEF Content
  <2> QED BY <1>3, <2>1, <2>3 DEF After
<1>24. \A j \in n + 1..Len(c.own) : ow[j] = -1 <=> c.own[j] = -1
  BY <1>3, <1>10, <1>13 DEF After
<1>25. \A j \in 1..n : ow[j] = -1
  BY <1>4, <1>10
<1> QED BY <1>9, <1>11, <1>20, <1>21, <1>22, <1>23, <1>24, <1>25 DEF Cleaned, r

-----------------------------------------------------------------------------
\* c with the descriptor n open on f.
Opened(c, n, f) == [c EXCEPT !.fds = [c.fds EXCEPT ![n] = f]]

Opens(c, X, b, n, f, d) ==
    /\ Ready(d, X \cup {n}, b) /\ n \in FDs /\ n \notin X \cup Held(c) /\ n \notin Standard
    /\ d.fds = [c.fds EXCEPT ![n] = f] /\ d.fds[n] = f /\ d.deftab = c.deftab /\ d.own = c.own
    /\ Vacant(d.fds) = Vacant(c.fds) \ {n}
    /\ \A x \in X \cup Held(c) : d.fds[x] = c.fds[x]
    /\ \A V : Asks(c, V) => Asks(d, V)

LEMMA OpenReady ==
    ASSUME NEW c, NEW X, NEW b, Ready(c, X, b),
           NEW n \in Vacant(c.fds), NEW f \in Contents \ {"closed"}
    PROVE  Opens(c, X, b, n, f, Opened(c, n, f))
<1> DEFINE d == Opened(c, n, f)
           t == [c.fds EXCEPT ![n] = f]
<1>1. /\ c \in Configs /\ c.fds \in Tables /\ Apart(c) /\ Sane(c) /\ X \cap Held(c) = {}
      /\ Agree(c.fds, Held(c) \cup X, b)
  BY DEF Ready, Configs
<1>2. /\ t \in Tables /\ n \in FDs /\ n \notin Held(c) \cup X /\ n \notin Standard
      /\ Agree(t, (Held(c) \cup X) \cup {n}, b)
      /\ \A fd \in FDs : t[fd] = IF fd = n THEN f ELSE c.fds[fd]
      /\ Vacant(t) = Vacant(c.fds) \ {n}
  <2> DEFINE Y == Held(c) \cup X
  <2>1. Agree(c.fds, Y, b) /\ c.fds \in Tables
    BY <1>1
  <2> HIDE DEF Y
  <2>2. /\ t \in Tables
        /\ n \in FDs /\ n \notin Y /\ n \notin Standard /\ b[n] = "closed"
        /\ Agree(t, Y \cup {n}, b)
        /\ \A fd \in FDs : t[fd] = IF fd = n THEN f ELSE c.fds[fd]
        /\ Vacant(t) = Vacant(c.fds) \ {n}
    BY <2>1, AgreeOpen, ZenonT(60)
  <2> QED BY <2>2 DEF Y
<1> HIDE DEF t
<1>3. d \in Configs /\ d.fds = t /\ d.deftab = c.deftab /\ d.own = c.own
  BY <1>1, <1>2 DEF Configs, Opened, t
<1> HIDE DEF d
<1>4. Held(d) = Held(c) /\ Apart(d) /\ Sane(d)
  BY <1>1, <1>3 DEF Held, Reals, Owned, Apart, Sane
<1>5. Ready(d, X \cup {n}, b)
  <2>1. (Held(c) \cup X) \cup {n} = Held(d) \cup (X \cup {n})
    BY <1>4
  <2> QED BY <1>1, <1>2, <1>3, <1>4, <2>1 DEF Ready
<1>6. \A x \in X \cup Held(c) : t[x] = c.fds[x]
  BY <1>1, <1>2 DEF Agree
<1>7. ASSUME NEW V, Asks(c, V) PROVE Asks(d, V)
  <2>1. Len(c.deftab) \in Nat /\ DOMAIN c.deftab = 1..Len(c.deftab)
    BY <1>1, ConfigFacts
  <2>2. \A i \in 1..Len(c.deftab) : c.deftab[i].real # -1 => c.deftab[i].real \in Held(c)
    BY <2>1 DEF Held, Reals
  <2>3. \A i \in 1..Len(c.deftab) : Content(t, c.deftab[i].real) = Content(c.fds, c.deftab[i].real)
    BY <1>6, <2>2 DEF Content
  <2> QED BY <1>3, <1>7, <2>3 DEF Asks
<1>8. t[n] = f
  BY <1>2
<1> QED BY <1>2, <1>3, <1>5, <1>6, <1>7, <1>8 DEF d, t, Opens

\* registerfd.
Registered(c, x) == [c EXCEPT !.own = Append(c.own, x)]

Registers(c, X, b, x, d) ==
    /\ Ready(d, X \ {x}, b) /\ d.fds = c.fds /\ d.deftab = c.deftab
    /\ d.own = Append(c.own, x)
    /\ Len(d.own) = Len(c.own) + 1 /\ d.own[Len(c.own) + 1] = x
    /\ \A j \in 1..Len(c.own) : d.own[j] = c.own[j]
    /\ \A V : Asks(c, V) => Asks(d, V)

LEMMA RegisterReady ==
    ASSUME NEW c, NEW X, NEW b, Ready(c, X, b), NEW x \in X
    PROVE  Registers(c, X, b, x, Registered(c, x))
<1> DEFINE d == Registered(c, x)
           ow == Append(c.own, x)
           l == Len(c.own)
<1>1. /\ c \in Configs /\ Apart(c) /\ Sane(c) /\ X \cap Held(c) = {}
      /\ Agree(c.fds, Held(c) \cup X, b)
  BY DEF Ready
<1>2. /\ c.own \in Seq(-1..MaxFd) /\ l \in Nat /\ DOMAIN c.own = 1..l
  BY <1>1, ConfigFacts
<1>3. x \in FDs /\ x # -1 /\ x \in -1..MaxFd
  BY <1>1 DEF Agree, FDs, F!FD
<1>4. /\ ow \in Seq(-1..MaxFd) /\ Len(ow) = l + 1
      /\ \A j \in 1..l : ow[j] = c.own[j]
      /\ ow[l + 1] = x
  BY <1>2, <1>3
<1>5. DOMAIN ow = 1..l + 1
  BY <1>2, <1>4, SeqFacts
<1> HIDE DEF ow
<1>6. d \in Configs /\ d.fds = c.fds /\ d.deftab = c.deftab /\ d.own = ow
  BY <1>1, <1>4 DEF Configs, Registered, ow
<1> HIDE DEF d, l
<1>7. \A j \in 1..l + 1 : j \in 1..l \/ j = l + 1
  BY <1>2
<1>8. l + 1 \in 1..l + 1 /\ \A j \in 1..l : j \in 1..l + 1
  BY <1>2
<1>9. Reals(d) = Reals(c) /\ Owned(d) = Owned(c) \cup {x}
  BY <1>2, <1>4, <1>5, <1>6, <1>7, <1>8 DEF Reals, Owned
<1>10. Held(d) = Held(c) \cup {x}
  BY <1>3, <1>9 DEF Held
<1>11. x \notin Held(c) /\ (\A i \in DOMAIN c.deftab : c.deftab[i].real # x) /\ \A j \in 1..l : c.own[j] # x
  BY <1>1, <1>2, <1>3 DEF Held, Reals, Owned
<1>12. Apart(d) /\ Sane(d)
  <2>1. \A i, j \in 1..l : c.own[i] = c.own[j] /\ c.own[i] # -1 => i = j
    BY <1>1, <1>2 DEF Apart
  <2>2. \A i, j \in 1..l + 1 : ow[i] = ow[j] /\ ow[i] # -1 => i = j
    BY <1>4, <1>7, <1>11, <2>1
  <2>3. \A i \in DOMAIN c.deftab, j \in 1..l : c.deftab[i].real = c.own[j] => c.own[j] = -1
    BY <1>1, <1>2 DEF Apart
  <2>4. \A i \in DOMAIN c.deftab, j \in 1..l + 1 : c.deftab[i].real = ow[j] => ow[j] = -1
    BY <1>4, <1>7, <1>11, <2>3
  <2> QED BY <1>1, <1>5, <1>6, <2>2, <2>4 DEF Apart, Sane
<1>13. Ready(d, X \ {x}, b)
  <2>1. Held(c) \cup X = Held(d) \cup (X \ {x})
    BY <1>10
  <2> QED BY <1>1, <1>6, <1>10, <1>12, <2>1 DEF Ready
<1>14. \A V : Asks(c, V) => Asks(d, V)
  BY <1>6 DEF Asks
<1> QED BY <1>4, <1>6, <1>13, <1>14 DEF d, ow, l, Registers

-----------------------------------------------------------------------------
\* At least k descriptors are closed.
Roomy(t, k) == IsFiniteSet(Vacant(t)) /\ Cardinality(Vacant(t)) >= k

LEMMA RoomyUse ==
    ASSUME NEW t, NEW k \in Nat, Roomy(t, k + 1)
    PROVE  /\ Vacant(t) # {}
           /\ \A u, n : Vacant(u) = Vacant(t) \ {n} => Roomy(u, k)
<1>1. Cardinality(Vacant(t)) \in Nat
  BY FS_CardinalityType DEF Roomy
<1>2. Vacant(t) # {}
  BY <1>1, FS_EmptySet DEF Roomy
<1>3. ASSUME NEW u, NEW n, Vacant(u) = Vacant(t) \ {n} PROVE Roomy(u, k)
  <2>1. IsFiniteSet(Vacant(t) \ {n}) /\ Cardinality(Vacant(t) \ {n}) >= Cardinality(Vacant(t)) - 1
    BY <1>1, FS_RemoveElement DEF Roomy
  <2> QED BY <1>1, <1>3, <2>1, FS_CardinalityType DEF Roomy
<1> QED BY <1>2, <1>3

\* What a child of pipefork has, with ends at k.own after the n inputs: the pipe,
\* and the pipe e of the member before, if there is one.
Piped(k, n, b, t, E) ==
    LET r == k.own[n + 1]
        w == k.own[n + 2]
    IN  /\ k \in Configs /\ k.fds \in Tables /\ k.deftab = <<>>
        /\ \A j \in 1..n : k.own[j] = -1
        /\ r # w /\ r # -1 /\ w # -1
        /\ k.own \in Seq(-1..MaxFd)
        /\ k.fds[r] = "read" /\ k.fds[w] = "write"
        /\ E = {} => Len(k.own) = n + 2 /\ Agree(k.fds, {r, w}, b)
        /\ E # {} => /\ Len(k.own) = n + 3 /\ Agree(k.fds, {r, w, k.own[n + 3]}, b)
                     /\ k.own[n + 3] \notin {r, w, -1}
                     /\ \A e \in E : k.fds[k.own[n + 3]] = t[e]

\* k is a child's record, and its m numbers after the n inputs stand for those of c.
Ends(k, c, b, n, m) ==
    /\ k \in Configs
    /\ k.fds \in Tables /\ k.deftab = <<>> /\ k.own \in Seq(-1..MaxFd) /\ Len(k.own) = n + m
    /\ \A j \in 1..n : k.own[j] = -1
    /\ \A j \in n + 1..n + m : k.own[j] # -1 /\ k.fds[k.own[j]] = c.fds[c.own[j]]
    /\ \A i, j \in n + 1..n + m : k.own[i] = k.own[j] => i = j
    /\ Agree(k.fds, {k.own[j] : j \in n + 1..n + m}, b)

\* The descriptors of a child that a record c with ends of pipes after its n
\* inputs leads to.
LEMMA EndsReady ==
    ASSUME MaxFd \in Nat, NEW c \in Configs, NEW n \in Nat, NEW b, NEW k, Cleaned(c, {}, b, k, n),
           NEW m \in Nat, Len(c.own) = n + m,
           \A j \in n + 1..n + m : c.own[j] # -1
    PROVE  Ends(k, c, b, n, m)
<1>1. /\ k \in Configs /\ Apart(k) /\ Agree(k.fds, Held(k), b) /\ k.deftab = <<>>
      /\ Len(k.own) = n + m /\ \A j \in 1..n : k.own[j] = -1
  BY DEF Cleaned, Ready
<1>2. /\ k.fds \in Tables /\ k.own \in Seq(-1..MaxFd) /\ DOMAIN k.own = 1..n + m
  BY <1>1, ConfigFacts
<1>3. \A j \in n + 1..n + m : /\ k.own[j] # -1
                              /\ Content(k.fds, k.own[j]) = Content(c.fds, c.own[j])
  BY DEF Cleaned
<1>4. \A j \in n + 1..n + m : k.fds[k.own[j]] = c.fds[c.own[j]]
  BY <1>3 DEF Content
<1>5. \A j : j \in 1..n + m <=> j \in 1..n \/ j \in n + 1..n + m
  OBVIOUS
<1>6. \A i, j \in n + 1..n + m : k.own[i] = k.own[j] => i = j
  BY <1>1, <1>2, <1>3, <1>5 DEF Apart
<1>7. Held(k) = {k.own[j] : j \in n + 1..n + m}
  <2>1. Reals(k) = {}
    BY <1>1 DEF Reals
  <2>2. \A x \in Owned(k) : x = -1 \/ x \in {k.own[j] : j \in n + 1..n + m}
    BY <1>1, <1>2, <1>5 DEF Owned
  <2>3. {k.own[j] : j \in n + 1..n + m} \subseteq Owned(k)
    BY <1>2, <1>5 DEF Owned
  <2> QED BY <1>3, <2>1, <2>2, <2>3 DEF Held
<1> QED BY <1>1, <1>2, <1>3, <1>4, <1>6, <1>7 DEF Ends

\* The table record with the descriptors t.
With(t) == [F!table EXCEPT !.fds = t]

LEMMA PipeforkReady ==
    ASSUME MaxFd \in Nat, NEW t, NEW E, NEW V, NEW extra,
           Ready(With(t), E, V[0]), Asks(With(t), V), Roomy(t, 3),
           \/ E = {} /\ extra = <<>>
           \/ \E e : E = {e} /\ extra = <<e>>
    PROVE  Piped(F!pipefork(t, extra), Len(inputs), V[Len(deftab)], t, E)
<1> DEFINE n == Len(inputs)
           r == F!Free(t)
           tr == [t EXCEPT ![r] = "read"]
           w == F!Free(tr)
           tw == [tr EXCEPT ![w] = "write"]
           c0 == With(t)
           c1 == Opened(c0, r, "read")
           c2 == Opened(c1, w, "write")
           c3 == Registered(c2, r)
           c4 == Registered(c3, w)
           k == F!pipefork(t, extra)
           b == V[Len(deftab)]
<1>0. c0.fds = t /\ c0.deftab = deftab /\ c0.own = inputs
  BY DEF F!table, With
<1>1. c0 \in Configs /\ t \in Tables /\ n \in Nat /\ E \subseteq FDs /\ inputs \in Seq(-1..MaxFd)
      /\ DOMAIN inputs = 1..n
  <2>1. c0 \in Configs
    BY DEF Ready
  <2> QED BY <1>0, <2>1, ConfigFacts DEF Ready, Agree
<1> HIDE DEF n, b
<1>2. r \in Vacant(t)
  <2>1. Vacant(t) # {}
    <3>1. 2 \in Nat /\ 2 + 1 = 3
      OBVIOUS
    <3> QED BY <3>1, RoomyUse
  <2> QED BY <1>1, <2>1, FreeIs
<1> HIDE DEF r
<1>3. "read" \in Contents \ {"closed"} /\ "write" \in Contents \ {"closed"}
  BY DEF Contents
<1> HIDE DEF c0
<1>4. /\ Ready(c1, E \cup {r}, V[0]) /\ r \in FDs /\ r \notin E \cup Held(c0)
      /\ c1.fds = tr /\ tr[r] = "read" /\ c1.deftab = deftab /\ c1.own = inputs
      /\ Vacant(tr) = Vacant(t) \ {r}
      /\ \A x \in E : tr[x] = t[x]
      /\ Asks(c1, V)
  <2>1. Opens(c0, E, V[0], r, "read", c1)
    BY <1>0, <1>2, <1>3, OpenReady DEF c0
  <2>2. Asks(c0, V)
    BY DEF c0
  <2> QED BY <1>0, <2>1, <2>2 DEF Opens
<1>5. Roomy(tr, 2)
  <2>1. 2 \in Nat /\ 2 + 1 = 3
    OBVIOUS
  <2> QED BY <1>4, <2>1, RoomyUse
<1> HIDE DEF c1, tr
<1>6. w \in Vacant(tr)
  <2>1. Vacant(tr) # {}
    <3>1. 1 \in Nat /\ 1 + 1 = 2
      OBVIOUS
    <3> QED BY <1>5, <3>1, RoomyUse
  <2>2. tr \in Tables
    BY <1>4, ConfigFacts DEF Ready
  <2> QED BY <2>1, <2>2, FreeIs
<1> HIDE DEF w
<1>7. /\ Ready(c2, (E \cup {r}) \cup {w}, V[0]) /\ w \in FDs /\ w \notin E \cup {r}
      /\ c2.fds = tw /\ tw[w] = "write" /\ c2.deftab = deftab /\ c2.own = inputs
      /\ Vacant(tw) = Vacant(tr) \ {w}
      /\ \A x \in E \cup {r} : tw[x] = tr[x]
      /\ Asks(c2, V)
  <2>1. Opens(c1, E \cup {r}, V[0], w, "write", c2)
    BY <1>3, <1>4, <1>6, OpenReady
  <2> QED BY <1>4, <2>1 DEF Opens
<1>8. Vacant(tw) # {}
  <2>1. 1 \in Nat /\ 1 + 1 = 2 /\ 0 \in Nat /\ 0 + 1 = 1
    OBVIOUS
  <2>2. Roomy(tw, 1)
    BY <1>5, <1>7, <2>1, RoomyUse
  <2> QED BY <2>1, <2>2, RoomyUse
<1> HIDE DEF c2, tw
<1>9. /\ Ready(c3, ((E \cup {r}) \cup {w}) \ {r}, V[0]) /\ c3.fds = tw /\ c3.deftab = deftab
      /\ c3.own = Append(inputs, r) /\ Len(c3.own) = n + 1 /\ c3.own[n + 1] = r
      /\ Asks(c3, V)
  <2>1. Registers(c2, (E \cup {r}) \cup {w}, V[0], r, c3)
    <3>1. r \in (E \cup {r}) \cup {w}
      OBVIOUS
    <3> QED BY <1>7, <3>1, RegisterReady
  <2> QED BY <1>7, <2>1 DEF Registers, n
<1> HIDE DEF c3
<1>10. /\ Ready(c4, (((E \cup {r}) \cup {w}) \ {r}) \ {w}, V[0]) /\ c4.fds = tw /\ c4.deftab = deftab
       /\ c4.own = Append(Append(inputs, r), w) /\ Len(c4.own) = (n + 1) + 1
       /\ c4.own[n + 1] = r /\ c4.own[(n + 1) + 1] = w
       /\ Asks(c4, V)
  <2>1. n + 1 \in 1..n + 1
    BY <1>1
  <2>2. w \in ((E \cup {r}) \cup {w}) \ {r}
    BY <1>7
  <2>3. Registers(c3, ((E \cup {r}) \cup {w}) \ {r}, V[0], w, c4)
    BY <1>9, <2>2, RegisterReady
  <2> QED BY <1>9, <2>1, <2>3 DEF Registers
<1>11. (((E \cup {r}) \cup {w}) \ {r}) \ {w} = E /\ (n + 1) + 1 = n + 2
  BY <1>1, <1>4, <1>7
<1> HIDE DEF c4
<1>12. tw = [t EXCEPT ![r] = "read", ![w] = "write"]
  BY DEF tw, tr
\* The record that closefds is called with.
<1> DEFINE c == [F!table EXCEPT !.fds = tw, !.own = inputs \o <<r, w>> \o extra]
<1>13. k = F!closefds(c, n)
  BY <1>12 DEF F!pipefork, F!table, r, w, tr, n
<1>14. c.fds = tw /\ c.deftab = deftab /\ c.own = inputs \o <<r, w>> \o extra
  BY DEF F!table
<1>15. c = [fds |-> tw, deftab |-> deftab, own |-> inputs \o <<r, w>> \o extra]
  <2>1. F!table = [fds |-> F!table.fds, deftab |-> F!table.deftab, own |-> F!table.own]
        /\ F!table.deftab = deftab
    BY DEF F!table
  <2> DEFINE x == F!table
             o == inputs \o <<r, w>> \o extra
  <2> HIDE DEF x, o
  <2>2. [x EXCEPT !.fds = tw, !.own = o] = [fds |-> tw, deftab |-> x.deftab, own |-> o]
    <3>1. x = [fds |-> x.fds, deftab |-> x.deftab, own |-> x.own]
      BY <2>1 DEF x
    <3> QED BY <3>1, ExceptIs
  <2> QED BY <2>1, <2>2 DEF x, o
<1> HIDE DEF c, k
<1>16. tw[r] = "read" /\ tw[w] = "write" /\ \A x \in E : tw[x] = t[x]
  BY <1>4, <1>7
<1>17. CASE E = {} /\ extra = <<>>
  <2>1. c = c4
    <3>1. c4.own = inputs \o <<r, w>> \o <<>>
      BY <1>1, <1>4, <1>7, <1>10 DEF FDs, F!FD
    <3>2. c4 = [fds |-> c4.fds, deftab |-> c4.deftab, own |-> c4.own]
      BY <1>10, ConfigIs DEF Ready
    <3> QED BY <1>10, <1>15, <1>17, <3>1, <3>2
  <2>2. Cleaned(c, {}, b, k, n)
    <3>1. n \in 0..Len(c.own)
      BY <1>1, <1>10, <2>1
    <3>2. Ready(c, {}, V[0]) /\ Vacant(c.fds) # {} /\ Asks(c, V) /\ Len(c.deftab) = Len(deftab)
      BY <1>8, <1>10, <1>11, <1>17, <2>1
    <3> QED BY <1>13, <3>1, <3>2, CloseReady DEF b
  <2>3. /\ k \in Configs
        /\ k.fds \in Tables /\ k.deftab = <<>> /\ k.own \in Seq(-1..MaxFd) /\ Len(k.own) = n + 2
        /\ \A j \in 1..n : k.own[j] = -1
        /\ \A j \in n + 1..n + 2 : k.own[j] # -1 /\ k.fds[k.own[j]] = c.fds[c.own[j]]
        /\ \A i, j \in n + 1..n + 2 : k.own[i] = k.own[j] => i = j
        /\ Agree(k.fds, {k.own[j] : j \in n + 1..n + 2}, b)
    <3>1. \A j \in n + 1..n + 2 : c.own[j] # -1
      <4>1. \A j \in n + 1..n + 2 : j = n + 1 \/ j = n + 2
        BY <1>1
      <4> QED BY <1>4, <1>7, <1>10, <1>11, <2>1, <4>1 DEF FDs, F!FD
    <3>2. c \in Configs /\ Len(c.own) = n + 2
      BY <1>10, <1>11, <2>1 DEF Ready
    <3>3. 2 \in Nat /\ Len(c.own) = n + 2
      BY <3>2
    <3>4. Ends(k, c, b, n, 2)
      BY <1>1, <2>2, <3>1, <3>2, <3>3, EndsReady
    <3> QED BY <3>4 DEF Ends
  <2>4. n + 1 \in n + 1..n + 2 /\ n + 2 \in n + 1..n + 2 /\ n + 1 # n + 2
    BY <1>1
  <2>5. {k.own[j] : j \in n + 1..n + 2} = {k.own[n + 1], k.own[n + 2]}
    <3>1. \A j : j \in n + 1..n + 2 <=> j = n + 1 \/ j = n + 2
      BY <1>1
    <3> QED BY <3>1
  <2>6. k.fds[k.own[n + 1]] = "read" /\ k.fds[k.own[n + 2]] = "write"
    <3>1. c.fds = tw /\ c.own[n + 1] = r /\ c.own[n + 2] = w
      BY <1>10, <1>11, <2>1
    <3>2. /\ k.fds[k.own[n + 1]] = c.fds[c.own[n + 1]]
          /\ k.fds[k.own[n + 2]] = c.fds[c.own[n + 2]]
      BY <2>3, <2>4
    <3> QED BY <1>16, <3>1, <3>2
  <2>7. k.own[n + 1] # k.own[n + 2] /\ k.own[n + 1] # -1 /\ k.own[n + 2] # -1
    BY <2>3, <2>4
  <2>8. Piped(k, n, b, t, E)
    BY <1>17, <2>3, <2>5, <2>6, <2>7 DEF Piped
  <2> QED BY <2>8 DEF k, n, b
<1>18. CASE \E e : E = {e} /\ extra = <<e>>
  <2>1. PICK e : E = {e} /\ extra = <<e>>
    BY <1>18
  <2> DEFINE c5 == Registered(c4, e)
  <2>2. /\ Ready(c5, E \ {e}, V[0]) /\ c5.fds = tw /\ c5.deftab = deftab
        /\ c5.own = Append(Append(Append(inputs, r), w), e) /\ Len(c5.own) = (n + 2) + 1
        /\ c5.own[n + 1] = r /\ c5.own[n + 2] = w /\ c5.own[n + 3] = e
        /\ Asks(c5, V)
    <3>1. Ready(c4, E, V[0]) /\ e \in E
      BY <1>10, <1>11, <2>1
    <3>2. Registers(c4, E, V[0], e, c5)
      BY <3>1, RegisterReady
    <3>3. n + 1 \in 1..n + 2 /\ n + 2 \in 1..n + 2 /\ (n + 2) + 1 = n + 3
      BY <1>1
    <3> HIDE DEF c5
    <3> QED BY <1>10, <1>11, <3>2, <3>3 DEF Registers
  <2> HIDE DEF c5
  <2>3. E \ {e} = {} /\ e \in FDs /\ e # -1 /\ (n + 2) + 1 = n + 3
    BY <1>1, <2>1 DEF FDs, F!FD
  <2>4. c = c5
    <3>1. c5.own = inputs \o <<r, w>> \o <<e>>
      BY <1>1, <1>4, <1>7, <2>2, <2>3, SMTT(40) DEF FDs, F!FD
    <3>2. c5 = [fds |-> c5.fds, deftab |-> c5.deftab, own |-> c5.own]
      BY <2>2, ConfigIs DEF Ready
    <3> QED BY <1>15, <2>1, <2>2, <3>1, <3>2
  <2>5. Cleaned(c, {}, b, k, n)
    <3>1. n \in 0..Len(c.own)
      BY <1>1, <2>2, <2>4
    <3>2. Ready(c, {}, V[0]) /\ Vacant(c.fds) # {} /\ Asks(c, V) /\ Len(c.deftab) = Len(deftab)
      BY <1>8, <2>2, <2>3, <2>4
    <3> QED BY <1>13, <3>1, <3>2, CloseReady DEF b
  <2>6. /\ k \in Configs
        /\ k.fds \in Tables /\ k.deftab = <<>> /\ k.own \in Seq(-1..MaxFd) /\ Len(k.own) = n + 3
        /\ \A j \in 1..n : k.own[j] = -1
        /\ \A j \in n + 1..n + 3 : k.own[j] # -1 /\ k.fds[k.own[j]] = c.fds[c.own[j]]
        /\ \A i, j \in n + 1..n + 3 : k.own[i] = k.own[j] => i = j
        /\ Agree(k.fds, {k.own[j] : j \in n + 1..n + 3}, b)
    <3>1. \A j \in n + 1..n + 3 : c.own[j] # -1
      <4>1. \A j \in n + 1..n + 3 : j = n + 1 \/ j = n + 2 \/ j = n + 3
        BY <1>1
      <4>2. r # -1 /\ w # -1
        BY <1>4, <1>7 DEF FDs, F!FD
      <4> QED BY <2>2, <2>3, <2>4, <4>1, <4>2
    <3>2. c \in Configs /\ Len(c.own) = n + 3
      BY <2>2, <2>3, <2>4 DEF Ready
    <3>3. 3 \in Nat /\ Len(c.own) = n + 3
      BY <3>2
    <3>4. Ends(k, c, b, n, 3)
      BY <1>1, <2>5, <3>1, <3>2, <3>3, EndsReady
    <3> QED BY <3>4 DEF Ends
  <2>7. /\ n + 1 \in n + 1..n + 3 /\ n + 2 \in n + 1..n + 3 /\ n + 3 \in n + 1..n + 3
        /\ n + 1 # n + 2 /\ n + 1 # n + 3 /\ n + 2 # n + 3
    BY <1>1
  <2>8. {k.own[j] : j \in n + 1..n + 3} = {k.own[n + 1], k.own[n + 2], k.own[n + 3]}
    <3>1. \A j : j \in n + 1..n + 3 <=> j = n + 1 \/ j = n + 2 \/ j = n + 3
      BY <1>1
    <3> QED BY <3>1
  <2>9. k.fds[k.own[n + 1]] = "read" /\ k.fds[k.own[n + 2]] = "write" /\ k.fds[k.own[n + 3]] = t[e]
    <3>1. c.fds = tw /\ c.own[n + 1] = r /\ c.own[n + 2] = w /\ c.own[n + 3] = e
      BY <2>2, <2>4
    <3>2. /\ k.fds[k.own[n + 1]] = c.fds[c.own[n + 1]]
          /\ k.fds[k.own[n + 2]] = c.fds[c.own[n + 2]]
          /\ k.fds[k.own[n + 3]] = c.fds[c.own[n + 3]]
      BY <2>6, <2>7
    <3> QED BY <1>16, <2>1, <3>1, <3>2
  <2>10. k.own[n + 3] \notin {k.own[n + 1], k.own[n + 2], -1} /\ E # {} /\ \A x \in E : x = e
    BY <2>1, <2>6, <2>7
  <2>11. k.own[n + 1] # k.own[n + 2] /\ k.own[n + 1] # -1 /\ k.own[n + 2] # -1
    BY <2>6, <2>7
  <2>12. Piped(k, n, b, t, E)
    BY <2>6, <2>8, <2>9, <2>10, <2>11 DEF Piped
  <2> QED BY <2>12 DEF k, n, b
<1> QED BY <1>17, <1>18

-----------------------------------------------------------------------------
(***************************************************************************)
(* The invariant. The table is what the user has asked for outside all     *)
(* regions, scope[1].view, but for the descriptors that the shell holds.   *)
(* d[k] operations are deferred in region k, and V[i] is what the user has *)
(* asked for with i operations. A child inherits inputs it has closed, and *)
(* a region of an input has one of the last descriptors of inputs.         *)
(***************************************************************************)
RegionType == [kind : {"base", "redir", "input"}, view : Tables]

Nested(d, V) ==
    /\ V[0] = scope[1].view /\ Asks(F!table, V)
    /\ d[1] = 0 /\ d[Len(scope)] = Len(deftab)
    /\ \A k \in 1..Len(scope) : d[k] \in 0..k - 1 /\ scope[k].view = V[d[k]]
    /\ \A j, k \in 1..Len(scope) : j <= k => d[j] <= d[k]
    /\ \A k \in 2..Len(scope) :
          d[k] = IF scope[k].kind = "redir" THEN d[k - 1] + 1 ELSE d[k - 1]

\* The inputs that no region under way has opened: the script, closed in a child.
Inherited == Len(inputs) + Len(deftab) + 1 - Len(scope)
Counted ==
    /\ Inherited >= 0
    /\ forks = 0 => Inherited = 1
    /\ forks > 0 => \A j \in 1..Inherited : inputs[j] = -1

DescriptorsInv ==
    /\ scope \in Seq(RegionType) /\ Len(scope) \in 1..MaxRegions /\ forks \in Nat
    /\ scope[1].kind = "base"
    /\ Ready(F!table, {}, scope[1].view)
    /\ \A i \in DOMAIN deftab : deftab[i].user \in Users
    /\ \A k \in 1..Len(scope) : \A fd \in FDs \ Named : scope[k].view[fd] = "closed"
    /\ Counted
    /\ \E d, V : Nested(d, V)

LEMMA StateFacts ==
    ASSUME F!table \in Configs
    PROVE  /\ fds \in Tables /\ deftab \in Seq(Deferral) /\ inputs \in Seq(-1..MaxFd)
           /\ Len(deftab) \in Nat /\ DOMAIN deftab = 1..Len(deftab)
           /\ Len(inputs) \in Nat /\ DOMAIN inputs = 1..Len(inputs)
           /\ \A i \in 1..Len(deftab) : deftab[i] \in Deferral
           /\ \A j \in 1..Len(inputs) : inputs[j] \in -1..MaxFd
<1>1. F!table.fds = fds /\ F!table.deftab = deftab /\ F!table.own = inputs
  BY DEF F!table
<1> HIDE DEF F!table
<1> QED BY <1>1, ConfigFacts

\* The state of a child that has just begun.
Fresh(t, ow, v) ==
    /\ t \in Tables /\ v \in Tables /\ Agree(t, {}, v)
    /\ ow \in Seq(-1..MaxFd) /\ \A j \in 1..Len(ow) : ow[j] = -1
    /\ \A fd \in FDs \ Named : v[fd] = "closed"

LEMMA FreshTable ==
    ASSUME NEW t, NEW ow, NEW v, Fresh(t, ow, v)
    PROVE  Ready([fds |-> t, deftab |-> <<>>, own |-> ow], {}, v)
<1> DEFINE c == [fds |-> t, deftab |-> <<>>, own |-> ow]
<1>1. <<>> \in Seq(Deferral)
  OBVIOUS
<1>2. c \in Configs /\ c.fds = t /\ c.deftab = <<>> /\ c.own = ow
  BY <1>1 DEF Fresh, Configs
<1>3. DOMAIN ow = 1..Len(ow) /\ DOMAIN <<>> = {}
  BY SeqFacts DEF Fresh
<1> HIDE DEF c
<1>4. Reals(c) = {} /\ \A x \in Owned(c) : x = -1
  BY <1>2, <1>3 DEF Reals, Owned, Fresh
<1>5. Held(c) = {}
  BY <1>4 DEF Held
<1>6. Apart(c) /\ Sane(c)
  BY <1>2, <1>3 DEF Apart, Sane, Fresh
<1>7. Held(c) \cup {} = {}
  BY <1>5
<1> QED BY <1>2, <1>5, <1>6, <1>7 DEF Ready, Fresh, c

LEMMA FreshInv ==
    ASSUME DescriptorsAssumption, NEW v, Fresh(fds', inputs', v), deftab' = <<>>,
           scope' = <<[kind |-> "base", view |-> v]>>, forks' \in Nat
    PROVE  forks' > 0 => DescriptorsInv'
<1> SUFFICES ASSUME forks' > 0 PROVE DescriptorsInv'
  OBVIOUS
<1>1. Len(scope') = 1 /\ scope'[1] = [kind |-> "base", view |-> v]
  OBVIOUS
<1>2. scope' \in Seq(RegionType) /\ Len(scope') \in 1..MaxRegions /\ scope'[1].kind = "base" /\ scope'[1].view = v
  <2>1. [kind |-> "base", view |-> v] \in RegionType
    BY DEF RegionType, Fresh
  <2> QED BY <1>1, <2>1 DEF DescriptorsAssumption
<1>3. F!table' = [fds |-> fds', deftab |-> <<>>, own |-> inputs']
  BY DEF F!table
<1>4. Ready(F!table', {}, v)
  BY <1>3, FreshTable
<1>5. Len(deftab') = 0 /\ DOMAIN deftab' = {} /\ Len(inputs') \in Nat
  BY SeqFacts DEF Fresh
<1>6. Counted'
  <2>1. Len(inputs') + Len(deftab') + 1 - Len(scope') = Len(inputs')
    BY <1>1, <1>5
  <2> QED BY <1>5, <2>1 DEF Counted, Inherited, Fresh
<1>7. \E d, V : Nested(d, V)'
  <2> DEFINE d == [k \in {1} |-> 0]
             V == [i \in {0} |-> v]
  <2>1. F!table'.deftab = <<>>
    BY <1>3
  <2>2. DOMAIN v = FDs
    BY DEF Fresh, Tables
  <2>3. Asks(F!table', V)
    <3>1. Len(F!table'.deftab) = 0 /\ \A i \in 0..0 : V[i] = v
      BY <2>1
    <3> HIDE DEF V
    <3> QED BY <2>1, <2>2, <3>1 DEF Asks
  <2>4. Nested(d, V)'
    BY <1>1, <1>2, <1>5, <2>3 DEF Nested
  <2> QED BY <2>4
<1>8. \A k \in 1..Len(scope') : \A fd \in FDs \ Named : scope'[k].view[fd] = "closed"
  BY <1>1, <1>2 DEF Fresh
<1> QED BY <1>2, <1>4, <1>5, <1>6, <1>7, <1>8 DEF DescriptorsInv

LEMMA ViewFacts ==
    ASSUME DescriptorsInv
    PROVE  /\ Len(scope) \in Nat \ {0} /\ F!view = scope[Len(scope)].view /\ F!view \in Tables
           /\ \A k \in 1..Len(scope) : scope[k] \in RegionType
           /\ \A fd \in FDs \ Named : F!view[fd] = "closed"
<1>1. Len(scope) \in Nat \ {0} /\ Len(scope) \in 1..Len(scope)
  BY DEF DescriptorsInv
<1>2. \A k \in 1..Len(scope) : scope[k] \in RegionType
  BY SeqFacts DEF DescriptorsInv
<1>3. F!view = scope[Len(scope)].view
  BY DEF F!view, F!Last
<1> QED BY <1>1, <1>2, <1>3 DEF DescriptorsInv, RegionType

\* A child that is in no region holds nothing.
LEMMA ChildEmpty ==
    ASSUME DescriptorsInv, forks > 0, Len(scope) = 1
    PROVE  /\ deftab = <<>> /\ \A j \in 1..Len(inputs) : inputs[j] = -1
           /\ Held(F!table) = {} /\ Agree(fds, {}, F!view)
<1>1. F!table \in Configs /\ F!table.fds = fds /\ F!table.deftab = deftab /\ F!table.own = inputs
  BY DEF DescriptorsInv, Ready, F!table
<1>2. /\ deftab \in Seq(Deferral) /\ Len(deftab) \in Nat /\ Len(inputs) \in Nat
      /\ DOMAIN inputs = 1..Len(inputs)
  BY <1>1, StateFacts
<1>3. deftab = <<>>
  <2>1. Len(deftab) = 0
    BY DEF DescriptorsInv, Nested
  <2> QED BY <1>2, <2>1
<1>4. \A j \in 1..Len(inputs) : inputs[j] = -1
  <2>1. Len(inputs) + 0 + 1 - 1 = Len(inputs) /\ Len(deftab) = 0
    BY <1>2, <1>3
  <2> QED BY <1>2, <2>1 DEF DescriptorsInv, Counted, Inherited
<1>5. Held(F!table) = {}
  BY <1>1, <1>2, <1>3, <1>4 DEF Held, Reals, Owned
<1>6. Agree(fds, {}, F!view)
  <2>1. Agree(F!table.fds, Held(F!table) \cup {}, scope[1].view)
    BY DEF DescriptorsInv, Ready
  <2>2. Held(F!table) \cup {} = {} /\ F!view = scope[1].view
    BY <1>5, ViewFacts
  <2> QED BY <1>1, <2>1, <2>2
<1> QED BY <1>3, <1>4, <1>5, <1>6

LEMMA AgreeSame ==
    ASSUME NEW t \in Tables, NEW b \in Tables, Agree(t, {}, b)
    PROVE  t = b
<1>1. \A fd \in FDs : t[fd] = b[fd]
  BY DEF Agree
<1> QED BY <1>1 DEF Tables

LEMMA ChildAsAsked == DescriptorsInv => F!ChildAsAsked
<1> SUFFICES ASSUME DescriptorsInv, forks > 0, Len(scope) = 1 PROVE fds = F!view
  BY DEF F!ChildAsAsked
<1>1. F!table \in Configs
  BY DEF DescriptorsInv, Ready
<1> QED BY <1>1, StateFacts, ViewFacts, ChildEmpty, AgreeSame

-----------------------------------------------------------------------------
(***************************************************************************)
(* There is room                                                           *)
(***************************************************************************)
LEMMA ImageSmall ==
    ASSUME NEW a \in Int, NEW b \in Int, NEW f
    PROVE  /\ IsFiniteSet({f[i] : i \in a..b})
           /\ Cardinality({f[i] : i \in a..b}) \in Nat
           /\ Cardinality({f[i] : i \in a..b}) <= IF a > b THEN 0 ELSE b - a + 1
<1> DEFINE S == a..b
           T == {f[i] : i \in S}
           g == [i \in S |-> f[i]]
<1>1. IsFiniteSet(S) /\ Cardinality(S) = IF a > b THEN 0 ELSE b - a + 1
  BY FS_Interval
<1>2. g \in Surjection(S, T)
  BY DEF Surjection
<1> HIDE DEF S, T, g
<1>3. IsFiniteSet(T) /\ Cardinality(T) <= Cardinality(S)
  BY <1>1, <1>2, FS_Surjection
<1>4. Cardinality(T) \in Nat
  BY <1>3, FS_CardinalityType
<1> QED BY <1>1, <1>3, <1>4 DEF S, T

\* What is neither a number of the user nor held.
Spare == FDs \ (Named \cup Held(F!table))

LEMMA HeldFew ==
    ASSUME DescriptorsInv
    PROVE  IsFiniteSet(Held(F!table)) /\ Cardinality(Held(F!table)) \in Nat
           /\ Cardinality(Held(F!table)) <= Len(scope)
<1> DEFINE n == Len(deftab)
           m == Len(inputs)
           l == Inherited
           lo == IF forks = 0 THEN 0 ELSE l
           real == [i \in 1..n |-> deftab[i].real]
           A == {real[i] : i \in 1..n}
           B == {inputs[j] : j \in lo + 1..m}
<1>1. F!table \in Configs /\ F!table.fds = fds /\ F!table.deftab = deftab /\ F!table.own = inputs
  BY DEF DescriptorsInv, Ready, F!table
<1>2. n \in Nat /\ m \in Nat /\ DOMAIN deftab = 1..n /\ DOMAIN inputs = 1..m
  BY <1>1, StateFacts
<1>3. Len(scope) \in Nat /\ forks \in Nat /\ Counted
  BY DEF DescriptorsInv
<1>4. l \in Int /\ l = m + n + 1 - Len(scope) /\ lo \in Int
  BY <1>2, <1>3 DEF Inherited
<1>5. Held(F!table) \subseteq A \cup B
  <2>1. \A j \in 1..m : inputs[j] = -1 \/ j \in lo + 1..m
    <3>1. \A j \in 1..m : j \in 1..l \/ j \in l + 1..m
      BY <1>2, <1>4
    <3>2. forks = 0 => \A j \in 1..m : j \in lo + 1..m
      BY <1>2
    <3>3. forks # 0 => forks > 0 /\ lo = l
      BY <1>3
    <3> QED BY <1>3, <3>1, <3>2, <3>3 DEF Counted
  <2>2. \A i \in 1..n : real[i] = deftab[i].real
    OBVIOUS
  <2> HIDE DEF lo, n, m
  <2> QED BY <1>1, <1>2, <2>1, <2>2 DEF Held, Reals, Owned
<1>6. IsFiniteSet(A) /\ Cardinality(A) \in Nat /\ Cardinality(A) <= IF 1 > n THEN 0 ELSE n - 1 + 1
  <2>1. 1 \in Int /\ n \in Int
    BY <1>2
  <2> HIDE DEF n, real
  <2> QED BY <2>1, ImageSmall
<1>7. IsFiniteSet(B) /\ Cardinality(B) \in Nat
      /\ Cardinality(B) <= IF lo + 1 > m THEN 0 ELSE m - (lo + 1) + 1
  <2>1. lo + 1 \in Int /\ m \in Int
    BY <1>2, <1>4
  <2> HIDE DEF lo, m
  <2> QED BY <2>1, ImageSmall
<1> HIDE DEF A, B, real
<1>8. IsFiniteSet(A \cup B) /\ Cardinality(A \cup B) = Cardinality(A) + Cardinality(B) - Cardinality(A \cap B)
  BY <1>6, <1>7, FS_Union
<1>9. IsFiniteSet(A \cap B) /\ Cardinality(A \cap B) \in Nat
  <2>1. (A \cap B) \in SUBSET A
    OBVIOUS
  <2> QED BY <1>6, <2>1, FS_Subset, FS_CardinalityType
<1>10. Held(F!table) \in SUBSET (A \cup B)
  BY <1>5
<1>11. IsFiniteSet(Held(F!table)) /\ Cardinality(Held(F!table)) <= Cardinality(A \cup B)
  BY <1>8, <1>10, FS_Subset
<1>12. Cardinality(Held(F!table)) \in Nat
  BY <1>11, FS_CardinalityType
<1>13. n + (IF lo + 1 > m THEN 0 ELSE m - (lo + 1) + 1) <= Len(scope)
  <2>1. forks = 0 => l = 1 /\ lo = 0 /\ Len(scope) = m + n
    BY <1>2, <1>3, <1>4 DEF Counted
  <2>2. forks # 0 => lo = l /\ l >= 0
    BY <1>3 DEF Counted
  <2>3. \E k \in 1..Len(scope) : TRUE
    BY DEF DescriptorsInv
  <2>4. n <= Len(scope)
    <3>1. PICK d, V : Nested(d, V)
      BY DEF DescriptorsInv
    <3>2. n \in 0..Len(scope) - 1
      BY <1>3, <2>3, <3>1 DEF Nested
    <3> QED BY <1>3, <3>2
  <2> HIDE DEF n, m, l, lo
  <2> QED BY <1>2, <1>3, <1>4, <2>1, <2>2, <2>4
<1> HIDE DEF n, m, l, lo
<1> QED BY <1>2, <1>3, <1>4, <1>6, <1>7, <1>8, <1>9, <1>11, <1>12, <1>13, SMTT(40)

LEMMA SpareRoom ==
    ASSUME DescriptorsAssumption, DescriptorsInv
    PROVE  IsFiniteSet(Spare) /\ Cardinality(Spare) >= 4 /\ Spare \subseteq Vacant(fds) \ Named
           /\ Roomy(fds, 4)
<1>1. /\ MaxFd \in Nat /\ MaxRegions \in Nat /\ Users \subseteq FDs
      /\ MaxFd >= Cardinality(Named) + MaxRegions + 3
  BY DEF DescriptorsAssumption
<1>2. IsFiniteSet(FDs) /\ Cardinality(FDs) = MaxFd + 1
  <2>1. IsFiniteSet(0..MaxFd) /\ Cardinality(0..MaxFd) = IF 0 > MaxFd THEN 0 ELSE MaxFd - 0 + 1
    BY <1>1, FS_Interval
  <2> QED BY <1>1, <2>1 DEF FDs, F!FD
<1> DEFINE Occupied == Held(F!table)
           U == Named \cup Occupied
<1>3. IsFiniteSet(Named) /\ Cardinality(Named) \in Nat
  <2>1. IsFiniteSet(Standard)
    <3>1. 0 \in Int /\ 2 \in Int
      OBVIOUS
    <3> QED BY <3>1, FS_Interval DEF Standard
  <2>2. IsFiniteSet(Users)
    BY <1>1, <1>2, FS_Subset
  <2> QED BY <2>1, <2>2, FS_Union, FS_CardinalityType DEF Named
<1>4. IsFiniteSet(Occupied) /\ Cardinality(Occupied) \in Nat /\ Cardinality(Occupied) <= MaxRegions
  <2>1. Len(scope) \in 1..MaxRegions
    BY DEF DescriptorsInv
  <2> QED BY <1>1, <2>1, HeldFew
<1>5. IsFiniteSet(U) /\ Cardinality(U) <= Cardinality(Named) + Cardinality(Occupied)
  <2> HIDE DEF Occupied
  <2>1. IsFiniteSet(U) /\ Cardinality(U) = Cardinality(Named) + Cardinality(Occupied) - Cardinality(Named \cap Occupied)
    BY <1>3, <1>4, FS_Union
  <2>2. (Named \cap Occupied) \in SUBSET Occupied
    OBVIOUS
  <2>3. Cardinality(Named \cap Occupied) \in Nat
    BY <1>4, <2>2, FS_Subset, FS_CardinalityType
  <2> QED BY <1>3, <1>4, <2>1, <2>3
<1> HIDE DEF U
<1>6. Cardinality(U) \in Nat
  BY <1>5, FS_CardinalityType
<1>7. IsFiniteSet(Spare) /\ Cardinality(Spare) \in Nat
  <2>1. Spare \in SUBSET FDs
    BY DEF Spare
  <2> QED BY <1>2, <2>1, FS_Subset, FS_CardinalityType
<1>8. Cardinality(FDs) <= Cardinality(Spare) + Cardinality(U)
  <2>1. FDs \in SUBSET (Spare \cup U)
    BY DEF Spare, U
  <2>2. IsFiniteSet(Spare \cup U)
        /\ Cardinality(Spare \cup U) = Cardinality(Spare) + Cardinality(U) - Cardinality(Spare \cap U)
    BY <1>5, <1>7, FS_Union
  <2>3. (Spare \cap U) \in SUBSET U
    OBVIOUS
  <2>4. Cardinality(Spare \cap U) \in Nat
    BY <1>5, <2>3, FS_Subset, FS_CardinalityType
  <2>5. Cardinality(FDs) <= Cardinality(Spare \cup U)
    BY <2>1, <2>2, FS_Subset
  <2> QED BY <1>1, <1>2, <1>6, <1>7, <2>2, <2>4, <2>5
<1>9. Cardinality(Spare) >= 4
  BY <1>1, <1>2, <1>3, <1>4, <1>5, <1>6, <1>7, <1>8
<1>10. F!table.fds = fds /\ Agree(F!table.fds, Held(F!table) \cup {}, scope[1].view) /\ Len(scope) \in Nat \ {0}
  BY DEF DescriptorsInv, Ready, F!table
<1>11. \A fd \in FDs \ Named : scope[1].view[fd] = "closed"
  <2>1. 1 \in 1..Len(scope)
    BY <1>10
  <2> QED BY <2>1 DEF DescriptorsInv
<1>12. Spare \subseteq Vacant(fds) \ Named
  BY <1>10, <1>11 DEF Spare, Vacant, Agree
<1>13. Roomy(fds, 4)
  <2>1. Spare \in SUBSET Vacant(fds) /\ Vacant(fds) \in SUBSET FDs
    BY <1>12 DEF Vacant
  <2>2. IsFiniteSet(Vacant(fds)) /\ Cardinality(Spare) <= Cardinality(Vacant(fds))
    BY <1>2, <2>1, FS_Subset
  <2>3. Cardinality(Vacant(fds)) \in Nat
    BY <2>2, FS_CardinalityType
  <2> QED BY <1>7, <1>9, <2>2, <2>3 DEF Roomy
<1> QED BY <1>7, <1>9, <1>12, <1>13

-----------------------------------------------------------------------------
(***************************************************************************)
(* newfd                                                                   *)
(***************************************************************************)
\* The user's view of a number that is not redirected.
LEMMA ViewUnnamed ==
    ASSUME DescriptorsInv, NEW n \in FDs, \A i \in DOMAIN deftab : deftab[i].user # n
    PROVE  F!view[n] = scope[1].view[n]
<1> DEFINE l == Len(deftab)
<1>1. F!table \in Configs /\ F!table.fds = fds /\ F!table.deftab = deftab
  BY DEF DescriptorsInv, Ready, F!table
<1>2. l \in Nat /\ DOMAIN deftab = 1..l
  BY <1>1, StateFacts
<1>3. PICK d, V : Nested(d, V)
  BY DEF DescriptorsInv
<1>4. F!view = V[l] /\ V[0] = scope[1].view
  <2>1. Len(scope) \in 1..Len(scope)
    BY ViewFacts
  <2> QED BY <1>3, <2>1, ViewFacts DEF Nested
<1> DEFINE S == {i \in Nat : i <= l => V[i][n] = V[0][n]}
<1>5. 0 \in S
  OBVIOUS
<1>6. ASSUME NEW i \in Nat, i \in S PROVE i + 1 \in S
  <2> SUFFICES ASSUME i + 1 <= l PROVE V[i + 1][n] = V[0][n]
    OBVIOUS
  <2>1. i + 1 \in 1..l /\ i \in 0..l /\ (i + 1) - 1 = i
    BY <1>2
  <2>2. V[i + 1] = [V[i] EXCEPT ![deftab[i + 1].user] = Content(fds, deftab[i + 1].real)]
        /\ DOMAIN V[i] = FDs
    BY <1>1, <1>3, <2>1 DEF Nested, Asks
  <2>3. deftab[i + 1].user # n
    BY <1>2, <2>1
  <2>4. V[i][n] = V[0][n]
    BY <1>2, <1>6, <2>1
  <2> QED BY <2>2, <2>3, <2>4
<1>7. Nat \subseteq S
  <2> HIDE DEF S
  <2> QED BY <1>5, <1>6, DD!Induction
<1> QED BY <1>2, <1>4, <1>7

LEMMA NewfdIs ==
    ASSUME DescriptorsAssumption, DescriptorsInv
    PROVE  F!NewfdUnused
<1> DEFINE deferred == {deftab[i].user : i \in DOMAIN deftab}
           First(n) == n >= 3 /\ n \notin deferred /\ \A m \in 3..n - 1 : m \in deferred
           first == CHOOSE n \in F!FD : First(n)
           free == {n \in F!FD : fds[n] = F!Closed /\ n \notin deferred}
           least == CHOOSE n \in free : \A m \in free : n <= m
           T == {n \in FDs : n >= 3 /\ n \notin deferred}
<1>1. F!newfd = IF fds[first] = F!Closed THEN first ELSE least
  BY DEF F!newfd
<1>2. deferred \subseteq Users
  BY DEF DescriptorsInv
<1>3. PICK x \in Spare : TRUE
  <2>1. IsFiniteSet(Spare) /\ Cardinality(Spare) >= 4
    BY SpareRoom
  <2>2. Spare # {}
    BY <2>1, FS_EmptySet
  <2> QED BY <2>2
<1>4. x \in FDs /\ x \notin Named /\ fds[x] = "closed" /\ FDs \subseteq Nat
  BY <1>3, SpareRoom DEF Vacant, Spare, FDs, F!FD
<1>5. x \in T /\ x \in free
  BY <1>2, <1>4 DEF Named, Standard, FDs, F!Closed
<1> HIDE DEF deferred
<1>6. \E n \in F!FD : First(n)
  <2>1. T \subseteq Nat /\ T # {}
    BY <1>4, <1>5
  <2> HIDE DEF T
  <2>2. PICK n \in T : \A m \in T : n <= m
    BY <2>1, DD!Least
  <2>3. ASSUME NEW m \in 3..n - 1 PROVE m \in FDs /\ m >= 3 /\ m \notin T
    <3>1. n \in FDs /\ n \in Nat /\ MaxFd \in Nat
      BY <2>1, <2>2 DEF T, DescriptorsAssumption
    <3>2. m \in FDs /\ m >= 3 /\ ~(n <= m)
      BY <3>1 DEF FDs, F!FD
    <3> QED BY <2>2, <3>2
  <2> QED BY <2>2, <2>3 DEF T, FDs
<1>7. first \in FDs /\ first \notin deferred
  BY <1>6 DEF FDs
<1>8. least \in free
  <2>1. free \subseteq Nat /\ free # {}
    BY <1>4, <1>5 DEF FDs
  <2> HIDE DEF free
  <2>2. PICK n \in free : \A m \in free : n <= m
    BY <2>1, DD!Least
  <2> QED BY <2>2
<1>9. F!newfd \in FDs /\ F!newfd \notin deferred /\ fds[F!newfd] = "closed"
  <2>1. least \in FDs /\ least \notin deferred /\ fds[least] = "closed"
    BY <1>8 DEF F!Closed, FDs
  <2> HIDE DEF first, least
  <2> QED BY <1>1, <1>7, <2>1 DEF F!Closed
<1> HIDE DEF first, least, free, T
<1>10. F!view[F!newfd] = scope[1].view[F!newfd]
  BY <1>9, ViewUnnamed DEF deferred
<1>11. F!newfd \notin Held(F!table) /\ scope[1].view[F!newfd] = "closed"
  <2>1. Agree(F!table.fds, Held(F!table) \cup {}, scope[1].view) /\ F!table.fds = fds
    BY DEF DescriptorsInv, Ready, F!table
  <2> QED BY <1>9, <2>1 DEF Agree
<1>12. F!newfd \notin F!Range(inputs)
  <2>1. F!table.own = inputs /\ F!newfd # -1
    BY <1>9 DEF F!table, FDs, F!FD
  <2> QED BY <1>11, <2>1 DEF Held, Owned, F!Range
<1> QED BY <1>10, <1>11, <1>12 DEF F!NewfdUnused, F!Closed

-----------------------------------------------------------------------------
(***************************************************************************)
(* The steps to a child                                                    *)
(***************************************************************************)
LEMMA StandardFds ==
    ASSUME DescriptorsAssumption
    PROVE  MaxFd \in Nat /\ Standard \subseteq FDs /\ 3 \in FDs /\ Named \subseteq FDs
<1>1. IsFiniteSet(Named) /\ Cardinality(Named) \in Nat
  <2>1. IsFiniteSet(0..2) /\ IsFiniteSet(0..MaxFd)
    <3>1. 0 \in Int /\ 2 \in Int /\ MaxFd \in Int
      BY DEF DescriptorsAssumption
    <3> QED BY <3>1, FS_Interval
  <2>2. IsFiniteSet(Users)
    <3>1. Users \in SUBSET (0..MaxFd)
      BY DEF DescriptorsAssumption, FDs, F!FD
    <3> QED BY <2>1, <3>1, FS_Subset
  <2> QED BY <2>1, <2>2, FS_Union, FS_CardinalityType DEF Named, Standard
<1>2. MaxFd \in Nat /\ MaxFd >= 3
  BY <1>1 DEF DescriptorsAssumption
<1> QED BY <1>2 DEF DescriptorsAssumption, FDs, F!FD, Standard, Named

\* What the invariant says of what is deferred.
LEMMA Deferred ==
    ASSUME DescriptorsInv
    PROVE  \E V : /\ Asks(F!table, V) /\ Ready(F!table, {}, V[0])
                  /\ V[Len(deftab)] = F!view
<1>1. PICK d, V : Nested(d, V)
  BY DEF DescriptorsInv
<1>2. V[Len(deftab)] = F!view
  <2>1. Len(scope) \in 1..Len(scope)
    BY ViewFacts
  <2> QED BY <1>1, <2>1, ViewFacts DEF Nested
<1> QED BY <1>1, <1>2 DEF Nested, DescriptorsInv

-----------------------------------------------------------------------------
\* fdmap after it has looked at the n last operations.
Maps(q, fd, f, m) ==
    f = [n \in 0..m |-> IF n = 0 THEN fd ELSE F!Map(f[n - 1], q[Len(q) + 1 - n])]

LEMMA MapIs ==
    ASSUME NEW fd, Len(deftab) \in Nat
    PROVE  \E f : Maps(deftab, fd, f, Len(deftab)) /\ F!fdmap(fd) = f[Len(deftab)]
<1> DEFINE l == Len(deftab)
           S == {m \in Nat : \E f : Maps(deftab, fd, f, m)}
           g == CHOOSE f : Maps(deftab, fd, f, l)
<1>1. 0 \in S
  <2>1. Maps(deftab, fd, [n \in 0..0 |-> fd], 0)
    BY DEF Maps
  <2> QED BY <2>1
<1>2. ASSUME NEW m \in Nat, m \in S PROVE m + 1 \in S
  <2>1. PICK f : Maps(deftab, fd, f, m)
    BY <1>2
  <2> DEFINE op(n) == deftab[l + 1 - n]
  <2> DEFINE h == [n \in 0..m + 1 |-> IF n = m + 1 THEN F!Map(f[m], op(m + 1)) ELSE f[n]]
  <2>2. \A n \in 0..m : f[n] = IF n = 0 THEN fd ELSE F!Map(f[n - 1], op(n))
    BY <2>1 DEF Maps
  <2> HIDE DEF op
  <2>3. ASSUME NEW n \in 0..m + 1
        PROVE  h[n] = IF n = 0 THEN fd ELSE F!Map(h[n - 1], op(n))
    <3>1. CASE n = m + 1
      <4>1. h[n] = F!Map(f[m], op(n)) /\ h[n - 1] = f[m] /\ n # 0
        BY <3>1
      <4> QED BY <4>1
    <3>2. CASE n # m + 1
      <4>1. n \in 0..m /\ h[n] = f[n] /\ (n # 0 => h[n - 1] = f[n - 1])
        BY <3>2
      <4> QED BY <2>2, <4>1
    <3> QED BY <3>1, <3>2
  <2>4. h = [n \in 0..m + 1 |-> IF n = 0 THEN fd ELSE F!Map(h[n - 1], op(n))]
    BY <2>3
  <2>5. Maps(deftab, fd, h, m + 1)
    BY <2>4 DEF Maps, op
  <2> QED BY <2>5
<1>3. l \in S
  <2> HIDE DEF S
  <2>1. Nat \subseteq S
    BY <1>1, <1>2, DD!Induction
  <2> QED BY <2>1
<1>4. Maps(deftab, fd, g, l)
  BY <1>3
<1>5. F!fdmap(fd) = g[l]
  BY DEF F!fdmap, Maps
<1> QED BY <1>4, <1>5

\* A number without operations after the n last ones is what they lead to.
LEMMA MapKeeps ==
    ASSUME NEW l \in Nat, Len(deftab) = l, NEW fd, NEW f, Maps(deftab, fd, f, l),
           NEW a \in 0..l, NEW x, f[a] = x,
           \A k \in 1..l - a : deftab[k].user # x,
           NEW b \in a..l
    PROVE  f[b] = x
<1> DEFINE S == {n \in Nat : a + n <= l => f[a + n] = x}
<1>1. 0 \in S
  OBVIOUS
<1>2. ASSUME NEW n \in Nat, n \in S PROVE n + 1 \in S
  <2> SUFFICES ASSUME a + (n + 1) <= l PROVE f[a + (n + 1)] = x
    OBVIOUS
  <2> DEFINE m == a + (n + 1)
             k == l + 1 - m
  <2>1. m \in 0..l /\ m # 0 /\ m - 1 = a + n /\ a + n <= l /\ k \in 1..l - a
    OBVIOUS
  <2>2. f[m] = F!Map(f[m - 1], deftab[k])
    BY <2>1 DEF Maps
  <2>3. f[m - 1] = x
    BY <1>2, <2>1
  <2>4. deftab[k].user # x
    BY <2>1
  <2> QED BY <2>2, <2>3, <2>4 DEF F!Map
<1>3. Nat \subseteq S
  <2> HIDE DEF S
  <2> QED BY <1>1, <1>2, DD!Induction
<1>4. b - a \in Nat /\ a + (b - a) = b /\ b <= l
  OBVIOUS
<1> QED BY <1>3, <1>4

\* What is asked for on a number stays until the next operation on it.
LEMMA AskedKeeps ==
    ASSUME NEW l \in Nat, Len(deftab) = l, NEW V, Asks(F!table, V), NEW fd \in FDs,
           NEW i \in 0..l, \A k \in i + 1..l : deftab[k].user # fd,
           NEW b \in i..l
    PROVE  V[b][fd] = V[i][fd]
<1>0. F!table.deftab = deftab
  BY DEF F!table
<1> DEFINE S == {n \in Nat : i + n <= l => V[i + n][fd] = V[i][fd]}
<1>1. 0 \in S
  OBVIOUS
<1>2. ASSUME NEW n \in Nat, n \in S PROVE n + 1 \in S
  <2> SUFFICES ASSUME i + (n + 1) <= l PROVE V[i + (n + 1)][fd] = V[i][fd]
    OBVIOUS
  <2> DEFINE m == i + (n + 1)
  <2>1. m \in 1..l /\ m - 1 = i + n /\ m - 1 \in 0..l /\ m \in i + 1..l
    OBVIOUS
  <2>2. V[m] = [V[m - 1] EXCEPT ![deftab[m].user] = Content(F!table.fds, deftab[m].real)]
        /\ DOMAIN V[m - 1] = FDs
    BY <1>0, <2>1 DEF Asks
  <2>3. V[m - 1][fd] = V[i][fd]
    BY <1>2, <2>1
  <2>4. deftab[m].user # fd
    BY <2>1
  <2> QED BY <2>2, <2>3, <2>4
<1>3. Nat \subseteq S
  <2> HIDE DEF S
  <2> QED BY <1>1, <1>2, DD!Induction
<1>4. b - i \in Nat /\ i + (b - i) = b /\ b <= l
  OBVIOUS
<1> QED BY <1>3, <1>4

\* The last of the operations on a number.
LEMMA LastOn ==
    ASSUME NEW l \in Nat, NEW fd
    PROVE  \/ \A k \in 1..l : deftab[k].user # fd
           \/ \E i \in 1..l : deftab[i].user = fd /\ \A k \in i + 1..l : deftab[k].user # fd
<1> DEFINE T == {n \in Nat : n < l /\ deftab[l - n].user = fd}
<1>1. CASE T = {}
  <2>1. \A k \in 1..l : l - k \in Nat /\ l - k < l /\ l - (l - k) = k
    OBVIOUS
  <2> QED BY <1>1, <2>1
<1>2. CASE T # {}
  <2>1. PICK n \in T : \A m \in T : n <= m
    <3>1. T \subseteq Nat OBVIOUS
    <3> HIDE DEF T
    <3> QED BY <1>2, <3>1, DD!Least
  <2>2. l - n \in 1..l /\ deftab[l - n].user = fd
    OBVIOUS
  <2>3. ASSUME NEW k \in (l - n) + 1..l, deftab[k].user = fd PROVE FALSE
    <3>1. l - k \in Nat /\ l - k < l /\ l - (l - k) = k /\ ~(n <= l - k)
      OBVIOUS
    <3> QED BY <2>1, <2>3, <3>1
  <2> QED BY <2>2, <2>3
<1> QED BY <1>1, <1>2

\* fdmap leads from a number that the user speaks of to what the user has on it.
LEMMA MapsAsAsked ==
    ASSUME MaxFd \in Nat, ~Chained, DescriptorsInv
    PROVE  F!FdmapSees
<1> SUFFICES ASSUME NEW fd \in FDs, F!Known(fd), F!Direct(fd)
             PROVE  F!view[fd] = Content(fds, F!fdmap(fd))
  BY DEF F!FdmapSees, FDs, Content, F!Closed
<1>0. PICK l : l = Len(deftab)
  OBVIOUS
<1> DEFINE b == scope[1].view
<1>1. PICK d, V : Nested(d, V)
  BY DEF DescriptorsInv
<1>2. /\ Asks(F!table, V) /\ V[0] = b /\ V[l] = F!view
      /\ Agree(F!table.fds, Held(F!table) \cup {}, b) /\ F!table \in Configs
  <2>1. Len(scope) \in 1..Len(scope)
    BY ViewFacts
  <2>2. V[l] = F!view
    BY <1>0, <1>1, <2>1, ViewFacts DEF Nested
  <2> QED BY <1>0, <1>1, <2>2 DEF Nested, DescriptorsInv, Ready
<1>3. l \in Nat /\ DOMAIN deftab = 1..l /\ \A i \in 1..l : deftab[i] \in Deferral
  BY <1>0, <1>2, StateFacts
<1>4. F!table.deftab = deftab /\ F!table.fds = fds
  BY DEF F!table
<1>5. PICK f : Maps(deftab, fd, f, l) /\ F!fdmap(fd) = f[l]
  BY <1>0, <1>3, MapIs
<1>6. f[0] = fd
  BY <1>3, <1>5 DEF Maps
<1> HIDE DEF b
<1>7. CASE \A k \in 1..l : deftab[k].user # fd
  <2>1. F!fdmap(fd) = fd
    <3>1. 0 \in 0..l /\ l \in 0..l /\ l - 0 = l
      BY <1>3
    <3>2. \A k \in 1..l - 0 : deftab[k].user # fd
      BY <1>3, <1>7
    <3> QED BY <1>0, <1>3, <1>5, <1>6, <3>1, <3>2, MapKeeps
  <2>2. F!view[fd] = b[fd]
    <3>1. 0 \in 0..l /\ l \in 0..l /\ 0 + 1 = 1
      BY <1>3
    <3>2. \A k \in 0 + 1..l : deftab[k].user # fd
      BY <1>3, <1>7
    <3>3. V[l][fd] = V[0][fd]
      BY <1>0, <1>2, <1>3, <3>1, <3>2, AskedKeeps
    <3> QED BY <1>2, <3>3
  <2>3. fd \in Standard \/ b[fd] # "closed"
    <3>1. fd \notin F!Redirected
      BY <1>3, <1>7 DEF F!Redirected
    <3>2. fd \in Nat
      BY DEF FDs, F!FD
    <3> QED BY <2>2, <3>1, <3>2 DEF F!Known, Standard, F!Closed
  <2>4. fds[fd] = b[fd]
    BY <1>2, <1>4, <2>3 DEF Agree
  <2>5. fd # -1
    BY DEF FDs, F!FD
  <2> QED BY <2>1, <2>2, <2>4, <2>5 DEF Content
<1>8. CASE \E i \in 1..l : deftab[i].user = fd /\ \A k \in i + 1..l : deftab[k].user # fd
  <2>1. PICK i \in 1..l : deftab[i].user = fd /\ \A k \in i + 1..l : deftab[k].user # fd
    BY <1>8
  <2> DEFINE x == deftab[i].real
  <2>2. F!view[fd] = Content(fds, x)
    <3>1. i \in 0..l /\ l \in i..l
      BY <1>3
    <3>2. V[l][fd] = V[i][fd]
      BY <1>0, <1>2, <1>3, <2>1, <3>1, AskedKeeps
    <3>3. i - 1 \in 0..l
      BY <1>3
    <3>4. V[i] = [V[i - 1] EXCEPT ![fd] = Content(fds, x)] /\ DOMAIN V[i - 1] = FDs
      BY <1>0, <1>2, <1>4, <2>1, <3>3 DEF Asks
    <3> QED BY <1>2, <3>2, <3>4
  <2>3. f[l - i] = fd
    <3>1. 0 \in 0..l /\ l - i \in 0..l
      BY <1>3
    <3> DEFINE S == {n \in Nat : n <= l - i => f[n] = fd}
    <3>2. 0 \in S
      BY <1>6
    <3>3. ASSUME NEW n \in Nat, n \in S PROVE n + 1 \in S
      <4> SUFFICES ASSUME n + 1 <= l - i PROVE f[n + 1] = fd
        OBVIOUS
      <4> DEFINE k == l + 1 - (n + 1)
      <4>1. n + 1 \in 0..l /\ n + 1 # 0 /\ (n + 1) - 1 = n /\ k \in i + 1..l /\ n <= l - i
        BY <1>3
      <4>2. f[n + 1] = F!Map(f[(n + 1) - 1], deftab[k])
        BY <1>0, <1>5, <4>1 DEF Maps
      <4>3. f[(n + 1) - 1] = fd
        BY <3>3, <4>1
      <4> QED BY <2>1, <4>1, <4>2, <4>3 DEF F!Map
    <3>4. Nat \subseteq S
      <4> HIDE DEF S
      <4> QED BY <3>2, <3>3, DD!Induction
    <3>5. l - i \in S
      BY <3>1, <3>4
    <3> QED BY <3>5
  <2>4. f[(l - i) + 1] = x
    <3> DEFINE n == (l - i) + 1
    <3>1. n \in 0..l /\ n # 0 /\ n - 1 = l - i /\ l + 1 - n = i
      BY <1>3
    <3>2. f[n] = F!Map(f[n - 1], deftab[l + 1 - n])
      BY <1>0, <1>5, <3>1 DEF Maps
    <3>3. f[n] = F!Map(fd, deftab[i])
      BY <2>3, <3>1, <3>2
    <3> QED BY <2>1, <3>3 DEF F!Map
  <2>5. \A k \in 1..i - 1 : deftab[k].user # x
    BY <1>0, <1>3, <2>1 DEF F!Direct
  <2>6. F!fdmap(fd) = x
    <3>1. (l - i) + 1 \in 0..l /\ l \in (l - i) + 1..l /\ l - ((l - i) + 1) = i - 1
      BY <1>3
    <3>2. \A k \in 1..l - ((l - i) + 1) : deftab[k].user # x
      BY <2>5, <3>1
    <3> HIDE DEF x
    <3>3. f[l] = x
      BY <1>0, <1>3, <1>5, <2>4, <3>1, <3>2, MapKeeps
    <3> QED BY <1>5, <3>3
  <2> QED BY <2>2, <2>6
<1> QED BY <1>3, <1>7, <1>8, LastOn

-----------------------------------------------------------------------------
LEMMA WithIs ==
    ASSUME NEW t
    PROVE  /\ With(t).fds = t /\ With(t).deftab = deftab /\ With(t).own = inputs
           /\ With(fds) = F!table
<1>1. F!table \in [fds : {fds}, deftab : {deftab}, own : {inputs}]
  BY DEF F!table
<1>2. F!table = [fds |-> fds, deftab |-> deftab, own |-> inputs]
  BY DEF F!table
<1> DEFINE x == F!table
<1>3. x.fds = fds /\ x.deftab = deftab /\ x.own = inputs
  BY <1>1
<1> HIDE DEF x
<1>4. [x EXCEPT !.fds = fds] = x
  BY <1>1, <1>3 DEF x
<1>5. [x EXCEPT !.fds = t].fds = t /\ [x EXCEPT !.fds = t].deftab = deftab /\ [x EXCEPT !.fds = t].own = inputs
  BY <1>1, <1>3 DEF x
<1> QED BY <1>4, <1>5 DEF With, x

LEMMA OwnPrefix ==
    ASSUME NEW ow \in Seq(-1..MaxFd), NEW n \in Nat, n <= Len(ow), \A j \in 1..n : ow[j] = -1
    PROVE  /\ SubSeq(ow, 1, n) \in Seq(-1..MaxFd) /\ Len(SubSeq(ow, 1, n)) = n
           /\ \A j \in 1..n : SubSeq(ow, 1, n)[j] = -1
<1>1. \A j \in 1..n : ow[j] \in -1..MaxFd
  <2>1. Len(ow) \in Nat /\ \A j \in 1..Len(ow) : ow[j] \in -1..MaxFd
    BY SeqFacts
  <2>2. \A j \in 1..n : j \in 1..Len(ow)
    BY <2>1
  <2> QED BY <2>1, <2>2
<1>2. 1 \in Int /\ n \in Int
  OBVIOUS
<1>3. /\ SubSeq(ow, 1, n) \in Seq(-1..MaxFd)
      /\ Len(SubSeq(ow, 1, n)) = IF 1 <= n THEN n - 1 + 1 ELSE 0
      /\ \A j \in 1..n - 1 + 1 : SubSeq(ow, 1, n)[j] = ow[1 + j - 1]
  BY <1>1, <1>2, SubSeqProperties
<1>4. Len(SubSeq(ow, 1, n)) = n /\ \A j \in 1..n : j \in 1..n - 1 + 1 /\ 1 + j - 1 = j
  BY <1>3
<1> QED BY <1>3, <1>4

\* releasefd where nothing is held.
LEMMA ReleaseNone ==
    ASSUME NEW c, c.deftab = <<>>, c.own \in Seq(-1..MaxFd),
           \A j \in 1..Len(c.own) : c.own[j] = -1, NEW fd \in FDs
    PROVE  F!releasefd(c, fd) = c
<1>1. fd # -1
  BY DEF FDs, F!FD
<1>2. \A x \in F!Range(c.own) : x = -1
  <2>1. DOMAIN c.own = 1..Len(c.own)
    BY SeqFacts
  <2> QED BY <2>1 DEF F!Range
<1>3. {c.deftab[i].real : i \in DOMAIN c.deftab} = {}
  OBVIOUS
<1> QED BY <1>1, <1>2, <1>3 DEF F!releasefd

\* A view in which a standard descriptor is replaced.
LEMMA ViewStandard ==
    ASSUME DescriptorsAssumption, NEW b \in Tables, \A fd \in FDs \ Named : b[fd] = "closed",
           NEW u \in Standard, NEW f \in Contents
    PROVE  /\ [b EXCEPT ![u] = f] \in Tables
           /\ \A fd \in FDs \ Named : [b EXCEPT ![u] = f][fd] = "closed"
           /\ \A fd \in FDs : [b EXCEPT ![u] = f][fd] = IF fd = u THEN f ELSE b[fd]
BY StandardFds DEF Tables, Named

\* An end of a pipe takes the place of a standard descriptor.
LEMMA MoveStandard ==
    ASSUME DescriptorsAssumption, NEW t \in Tables, NEW X, NEW b \in Tables, Agree(t, X, b),
           NEW x \in X, NEW u \in Standard
    PROVE  /\ F!mvfd(t, x, u) \in Tables
           /\ Agree(F!mvfd(t, x, u), X \ {x}, [b EXCEPT ![u] = t[x]])
           /\ \A y \in X \ {x} : F!mvfd(t, x, u)[y] = t[y]
<1>1. u \in FDs /\ u \notin X /\ DOMAIN b = FDs /\ X \subseteq FDs
  BY StandardFds DEF Agree, Tables
<1>2. u \notin X \ {x}
  BY <1>1
<1>3. Moved(t, X, b, x, u, F!mvfd(t, x, u))
  BY <1>1, <1>2, AgreeMove
<1> QED BY <1>1, <1>3 DEF Moved

\* A child writes to a pipe.
LEMMA PipeOut ==
    ASSUME DescriptorsAssumption, NEW t \in Tables, NEW b \in Tables, NEW r, NEW w,
           Agree(t, {r, w}, b), r # w, r # -1, t[w] = "write", NEW u \in Standard
    PROVE  LET m == F!Close(F!mvfd(t, w, u), r)
           IN  m \in Tables /\ Agree(m, {}, [b EXCEPT ![u] = "write"])
<1> DEFINE q == F!mvfd(t, w, u)
           d == [b EXCEPT ![u] = "write"]
           Y == {r, w} \ {w}
<1>1. w \in {r, w} /\ Y = {r} /\ Y \ {r} = {}
  OBVIOUS
<1>2. q \in Tables /\ Agree(q, Y, d)
  BY MoveStandard, SMTT(40)
<1> HIDE DEF q, d, Y
<1>3. F!Close(q, r) \in Tables /\ Agree(F!Close(q, r), Y \ {r}, d)
  <2>1. r \in Y
    BY <1>1
  <2>2. Shuts(q, Y, d, r, F!Close(q, r))
    BY <1>2, <2>1, AgreeClose
  <2> QED BY <2>2 DEF Shuts
<1> QED BY <1>1, <1>3 DEF q, d

\* A child reads from a pipe.
LEMMA PipeIn ==
    ASSUME DescriptorsAssumption, NEW t \in Tables, NEW b \in Tables, NEW r, NEW w,
           Agree(t, {r, w}, b), r # w, w # -1, t[r] = "read", NEW u \in Standard
    PROVE  LET m == F!mvfd(F!Close(t, w), r, u)
           IN  m \in Tables /\ Agree(m, {}, [b EXCEPT ![u] = "read"])
<1> DEFINE q == F!Close(t, w)
           Y == {r, w} \ {w}
<1>1. w \in {r, w} /\ Y = {r} /\ Y \ {r} = {}
  OBVIOUS
<1>2. /\ q \in Tables /\ Agree(q, Y, b)
      /\ \A fd \in FDs : q[fd] = IF fd = w THEN "closed" ELSE t[fd]
  <2>1. Shuts(t, {r, w}, b, w, F!Close(t, w))
    BY <1>1, AgreeClose
  <2> QED BY <2>1 DEF Shuts
<1>3. q[r] = "read"
  BY <1>2 DEF Agree
<1> HIDE DEF q, Y
<1>4. r \in Y
  BY <1>1
<1>5. F!mvfd(q, r, u) \in Tables /\ Agree(F!mvfd(q, r, u), Y \ {r}, [b EXCEPT ![u] = q[r]])
  BY <1>2, <1>4, MoveStandard
<1> QED BY <1>1, <1>3, <1>5 DEF q

\* The child's record c, with the view v, is the next state.
LEMMA ChildStep ==
    ASSUME DescriptorsAssumption, DescriptorsInv, NEW v \in Tables, NEW c,
           F!Child(v), F!Set(c), c.deftab = <<>>,
           c.fds \in Tables, Agree(c.fds, {}, v), \A fd \in FDs \ Named : v[fd] = "closed",
           c.own \in Seq(-1..MaxFd), Len(inputs) <= Len(c.own),
           \A j \in 1..Len(inputs) : c.own[j] = -1
    PROVE  DescriptorsInv'
<1>1. F!table \in Configs
  BY DEF DescriptorsInv, Ready
<1>2. Len(inputs) \in Nat
  BY <1>1, StateFacts
<1>3. inputs' \in Seq(-1..MaxFd) /\ \A j \in 1..Len(inputs') : inputs'[j] = -1
  <2>1. inputs' = SubSeq(c.own, 1, Len(inputs))
    BY DEF F!Set
  <2> DEFINE n == Len(inputs)
             q == SubSeq(c.own, 1, n)
  <2>2. q \in Seq(-1..MaxFd) /\ Len(q) = n /\ \A j \in 1..n : q[j] = -1
    <3> HIDE DEF n
    <3> QED BY <1>2, OwnPrefix DEF n
  <2>3. inputs' = q
    BY <2>1
  <2> HIDE DEF q, n
  <2> QED BY <2>2, <2>3
<1>4. Fresh(fds', inputs', v)
  BY <1>3 DEF Fresh, F!Set
<1>5. /\ deftab' = <<>> /\ scope' = <<[kind |-> "base", view |-> v]>>
      /\ forks' = forks + 1 /\ forks \in Nat
  BY DEF F!Set, F!Child, DescriptorsInv
<1>6. forks' \in Nat /\ forks' > 0
  BY <1>5
<1> QED BY <1>4, <1>5, <1>6, FreshInv

\* A child that has closed the inputs, and holds X.
Shut(k, t, X) ==
    /\ k \in Configs /\ k.deftab = <<>> /\ Len(k.own) = Len(inputs)
    /\ \A j \in 1..Len(inputs) : k.own[j] = -1
    /\ Agree(k.fds, X, F!view) /\ \A x \in X : k.fds[x] = t[x]

\* A child with nothing but the inputs registered.
LEMMA CloseAll ==
    ASSUME DescriptorsAssumption, DescriptorsInv, NEW t, NEW X, NEW V,
           Ready(With(t), X, V[0]), Asks(With(t), V), Vacant(t) # {},
           V[Len(deftab)] = F!view,
           \A i \in DOMAIN deftab : deftab[i].user \notin X
    PROVE  Shut(F!closefds(With(t), Len(inputs)), t, X)
<1> DEFINE n == Len(inputs)
           c == With(t)
           k == F!closefds(c, n)
<1>1. c \in Configs /\ c.fds = t /\ c.deftab = deftab /\ c.own = inputs
  BY WithIs DEF Ready
<1>2. n \in Nat /\ DOMAIN deftab = 1..Len(deftab)
  BY <1>1, ConfigFacts
<1>3. \A i \in 1..Len(c.deftab) : c.deftab[i].user \notin X
  BY <1>1, <1>2
<1>4. n \in 0..Len(c.own) /\ MaxFd \in Nat
  BY <1>1, <1>2 DEF DescriptorsAssumption
<1> HIDE DEF c, n
<1>5. Cleaned(c, X, V[Len(c.deftab)], k, n)
  BY <1>1, <1>3, <1>4, CloseReady DEF c
<1> HIDE DEF k
<1>6. /\ Ready(k, X, F!view) /\ k.deftab = <<>> /\ Len(k.own) = n
      /\ \A j \in 1..n : k.own[j] = -1
      /\ \A x \in X : k.fds[x] = t[x]
  BY <1>1, <1>5 DEF Cleaned, n
<1>7. k \in Configs
  BY <1>6 DEF Ready
<1>8. DOMAIN k.own = 1..n
  BY <1>6, <1>7, ConfigFacts
<1>9. Held(k) = {}
  BY <1>6, <1>8 DEF Held, Reals, Owned
<1>10. Agree(k.fds, X, F!view)
  <2>1. Held(k) \cup X = X
    BY <1>9
  <2> QED BY <1>6, <2>1 DEF Ready
<1> QED BY <1>6, <1>7, <1>10 DEF Shut, k, c, n

LEMMA EforkStep ==
    ASSUME DescriptorsAssumption, DescriptorsInv, F!efork
    PROVE  DescriptorsInv'
<1> DEFINE k == F!closefds(F!table, Len(inputs))
<1>1. F!Child(F!view) /\ F!Set(k)
  BY DEF F!efork
<1>2. PICK V : Asks(F!table, V) /\ Ready(F!table, {}, V[0]) /\ V[Len(deftab)] = F!view
  BY Deferred
<1>3. Vacant(fds) # {}
  <2>1. 3 \in Nat /\ 3 + 1 = 4
    OBVIOUS
  <2> QED BY <2>1, SpareRoom, RoomyUse
<1>4. Shut(k, fds, {})
  <2>1. With(fds) = F!table
    BY WithIs
  <2>2. Shut(F!closefds(With(fds), Len(inputs)), fds, {})
    BY <1>2, <1>3, <2>1, CloseAll
  <2> QED BY <2>1, <2>2
<1> HIDE DEF k
<1>5. /\ k \in Configs /\ k.deftab = <<>> /\ Len(k.own) = Len(inputs)
      /\ \A j \in 1..Len(inputs) : k.own[j] = -1
      /\ Agree(k.fds, {}, F!view)
  BY <1>4 DEF Shut
<1>6. k.fds \in Tables /\ k.own \in Seq(-1..MaxFd) /\ Len(k.own) \in Nat
  BY <1>5, ConfigFacts
<1> QED BY <1>1, <1>5, <1>6, ViewFacts, ChildStep

\* The child of a pipe, with the descriptors t and the pipe of the member before.
LEMMA PipedChild ==
    ASSUME DescriptorsAssumption, DescriptorsInv
    PROVE  Piped(F!pipefork(fds, <<>>), Len(inputs), F!view, fds, {})
<1>1. PICK V : Asks(F!table, V) /\ Ready(F!table, {}, V[0]) /\ V[Len(deftab)] = F!view
  BY Deferred
<1>2. Roomy(fds, 3)
  <2>1. Roomy(fds, 4)
    BY SpareRoom
  <2>2. IsFiniteSet(Vacant(fds)) /\ Cardinality(Vacant(fds)) >= 4
    BY <2>1 DEF Roomy
  <2>3. Cardinality(Vacant(fds)) \in Nat
    BY <2>2, FS_CardinalityType
  <2> QED BY <2>2, <2>3 DEF Roomy
<1>3. With(fds) = F!table
  BY WithIs
<1>4. MaxFd \in Nat
  BY DEF DescriptorsAssumption
<1>5. Piped(F!pipefork(fds, <<>>), Len(inputs), V[Len(deftab)], fds, {})
  BY <1>1, <1>2, <1>3, <1>4, PipeforkReady
<1> QED BY <1>1, <1>5

LEMMA WithFds ==
    ASSUME NEW k \in Configs, NEW m \in Tables
    PROVE  [k EXCEPT !.fds = m].fds = m /\ [k EXCEPT !.fds = m].deftab = k.deftab
           /\ [k EXCEPT !.fds = m].own = k.own /\ [k EXCEPT !.fds = m] \in Configs
BY DEF Configs

\* A child with one pipe puts one end u in the place of a standard descriptor.
LEMMA PipeStep ==
    ASSUME DescriptorsAssumption, DescriptorsInv, NEW k, NEW m \in Tables,
           Piped(k, Len(inputs), F!view, fds, {}), NEW u \in Standard, NEW f \in Contents,
           F!Child([F!view EXCEPT ![u] = f]), F!Set([k EXCEPT !.fds = m]),
           Agree(m, {}, [F!view EXCEPT ![u] = f])
    PROVE  DescriptorsInv'
<1> DEFINE v == [F!view EXCEPT ![u] = f]
           c == [k EXCEPT !.fds = m]
<1>1. /\ k \in Configs /\ k.deftab = <<>> /\ k.own \in Seq(-1..MaxFd)
      /\ Len(k.own) = Len(inputs) + 2 /\ \A j \in 1..Len(inputs) : k.own[j] = -1
  BY DEF Piped
<1>2. v \in Tables /\ \A fd \in FDs \ Named : v[fd] = "closed"
  BY ViewFacts, ViewStandard
<1>3. c.fds = m /\ c.deftab = k.deftab /\ c.own = k.own
  BY <1>1, WithFds
<1>4. F!Child(v) /\ F!Set(c) /\ Agree(c.fds, {}, v)
  BY <1>3
<1>5. Len(inputs) <= Len(c.own)
  <2>1. F!table \in Configs
    BY DEF DescriptorsInv, Ready
  <2> QED BY <1>1, <1>3, <2>1, StateFacts
<1> HIDE DEF c, v
<1> QED BY <1>1, <1>2, <1>3, <1>4, <1>5, ChildStep

LEMMA ReaderStep ==
    ASSUME DescriptorsAssumption, DescriptorsInv, F!reader
    PROVE  DescriptorsInv'
<1> DEFINE k == F!pipefork(fds, <<>>)
           r == k.own[Len(inputs) + 1]
           w == k.own[Len(inputs) + 2]
           m == F!Close(F!mvfd(k.fds, w, 1), r)
<1>1. Piped(k, Len(inputs), F!view, fds, {})
  BY PipedChild
<1>2. F!Child([F!view EXCEPT ![1] = "write"]) /\ F!Set([k EXCEPT !.fds = m])
  BY DEF F!reader, F!End
<1> HIDE DEF k
<1>3. /\ k.fds \in Tables /\ F!view \in Tables /\ Agree(k.fds, {r, w}, F!view)
      /\ r # w /\ r # -1 /\ k.fds[w] = "write"
  BY <1>1, ViewFacts DEF Piped
<1>4. 1 \in Standard /\ "write" \in Contents
  BY DEF Standard, Contents
<1> HIDE DEF r, w
<1>5. m \in Tables /\ Agree(m, {}, [F!view EXCEPT ![1] = "write"])
  BY <1>3, <1>4, PipeOut
<1> HIDE DEF m
<1> QED BY <1>1, <1>2, <1>4, <1>5, PipeStep

LEMMA WriterStep ==
    ASSUME DescriptorsAssumption, DescriptorsInv, F!writer
    PROVE  DescriptorsInv'
<1> DEFINE k == F!pipefork(fds, <<>>)
           r == k.own[Len(inputs) + 1]
           w == k.own[Len(inputs) + 2]
           m == F!mvfd(F!Close(k.fds, w), r, 0)
<1>1. Piped(k, Len(inputs), F!view, fds, {})
  BY PipedChild
<1>2. F!Child([F!view EXCEPT ![0] = "read"]) /\ F!Set([k EXCEPT !.fds = m])
  BY DEF F!writer, F!End
<1> HIDE DEF k
<1>3. /\ k.fds \in Tables /\ F!view \in Tables /\ Agree(k.fds, {r, w}, F!view)
      /\ r # w /\ w # -1 /\ k.fds[r] = "read"
  BY <1>1, ViewFacts DEF Piped
<1>4. 0 \in Standard /\ "read" \in Contents
  BY DEF Standard, Contents
<1> HIDE DEF r, w
<1>5. m \in Tables /\ Agree(m, {}, [F!view EXCEPT ![0] = "read"])
  BY <1>3, <1>4, PipeIn
<1> HIDE DEF m
<1> QED BY <1>1, <1>2, <1>4, <1>5, PipeStep

-----------------------------------------------------------------------------
\* c is a child's record, with n inputs and nothing else, closed.
Bare(c, n) ==
    c \in Configs /\ c.deftab = <<>> /\ Len(c.own) = n /\ \A j \in 1..n : c.own[j] = -1

LEMMA BareRest ==
    ASSUME NEW k \in Configs, k.deftab = <<>>, NEW n \in Nat, n <= Len(k.own),
           \A j \in 1..n : k.own[j] = -1
    PROVE  /\ Bare([k EXCEPT !.own = SubSeq(@, 1, n)], n)
           /\ [k EXCEPT !.own = SubSeq(@, 1, n)].fds = k.fds
<1> DEFINE q == SubSeq(k.own, 1, n)
           c == [k EXCEPT !.own = q]
<1>1. q \in Seq(-1..MaxFd) /\ Len(q) = n /\ \A j \in 1..n : q[j] = -1
  <2>1. k.own \in Seq(-1..MaxFd)
    BY DEF Configs
  <2> QED BY <2>1, OwnPrefix
<1> HIDE DEF q
<1>2. c \in Configs /\ c.fds = k.fds /\ c.deftab = <<>> /\ c.own = q
  BY <1>1 DEF Configs
<1> HIDE DEF c
<1>3. Bare(c, n) /\ c.fds = k.fds
  BY <1>1, <1>2 DEF Bare
<1> QED BY <1>3 DEF c, q

LEMMA BareWith ==
    ASSUME NEW c, NEW n, Bare(c, n), NEW m \in Tables
    PROVE  Bare([c EXCEPT !.fds = m], n) /\ [c EXCEPT !.fds = m].fds = m
<1>1. c \in Configs
  BY DEF Bare
<1> DEFINE d == [c EXCEPT !.fds = m]
<1>2. d.fds = m /\ d.deftab = c.deftab /\ d.own = c.own /\ d \in Configs
  BY <1>1, WithFds
<1> HIDE DEF d
<1>3. Bare(d, n) /\ d.fds = m
  BY <1>2 DEF Bare
<1> QED BY <1>3 DEF d

LEMMA BareRelease ==
    ASSUME NEW c, NEW n, Bare(c, n), NEW fd \in FDs
    PROVE  F!releasefd(c, fd) = c
<1>1. c.deftab = <<>> /\ c.own \in Seq(-1..MaxFd) /\ \A j \in 1..Len(c.own) : c.own[j] = -1
  BY DEF Bare, Configs
<1> QED BY <1>1, ReleaseNone

LEMMA BareStep ==
    ASSUME DescriptorsAssumption, DescriptorsInv, NEW v \in Tables, NEW c,
           F!Child(v), F!Set(c), Bare(c, Len(inputs)),
           Agree(c.fds, {}, v), \A fd \in FDs \ Named : v[fd] = "closed"
    PROVE  DescriptorsInv'
<1>1. c.deftab = <<>> /\ c.fds \in Tables /\ c.own \in Seq(-1..MaxFd)
  BY DEF Bare, Configs
<1>2. Len(inputs) <= Len(c.own) /\ \A j \in 1..Len(inputs) : c.own[j] = -1
  <2>1. F!table \in Configs
    BY DEF DescriptorsInv, Ready
  <2>2. Len(inputs) \in Nat /\ Len(c.own) = Len(inputs)
    BY <2>1, StateFacts DEF Bare
  <2> QED BY <2>2 DEF Bare
<1> QED BY <1>1, <1>2, ChildStep

\* The pipe of the member before, at a free descriptor.
Behind(p, t, V) ==
    /\ Ready(With(t), {p}, V[0]) /\ Asks(With(t), V) /\ Roomy(t, 3) /\ Vacant(t) # {}
    /\ p \in FDs /\ p \notin Standard /\ t[p] = "previous"

LEMMA BehindIs ==
    ASSUME DescriptorsAssumption, DescriptorsInv, NEW V,
           Asks(F!table, V), Ready(F!table, {}, V[0])
    PROVE  Behind(F!Free(fds), [fds EXCEPT ![F!Free(fds)] = "previous"], V)
<1> DEFINE p == F!Free(fds)
           t == [fds EXCEPT ![p] = "previous"]
           d == Opened(F!table, p, "previous")
<1>1. Roomy(fds, 3 + 1) /\ 3 \in Nat
  <2>1. 3 + 1 = 4
    OBVIOUS
  <2> QED BY <2>1, SpareRoom
<1>2. p \in Vacant(fds)
  <2>1. F!table \in Configs
    BY DEF Ready
  <2>2. Vacant(fds) # {} /\ fds \in Tables /\ MaxFd \in Nat
    BY <1>1, <2>1, RoomyUse, StateFacts DEF DescriptorsAssumption
  <2> QED BY <2>2, FreeIs
<1> HIDE DEF p
<1>3. F!table.fds = fds
  BY DEF F!table
<1>4. Opens(F!table, {}, V[0], p, "previous", d)
  <2>1. "previous" \in Contents \ {"closed"}
    BY DEF Contents
  <2> QED BY <1>2, <1>3, <2>1, OpenReady
<1>5. d = With(t)
  BY <1>3 DEF Opened, With
<1> HIDE DEF d
<1>6. /\ Ready(With(t), {} \cup {p}, V[0]) /\ p \in FDs /\ p \notin Standard
      /\ Asks(With(t), V) /\ t[p] = "previous" /\ Vacant(t) = Vacant(fds) \ {p}
  <2>1. With(t).fds = t
    BY WithIs
  <2> HIDE DEF t
  <2> QED BY <1>3, <1>4, <1>5, <2>1 DEF Opens
<1>7. Roomy(t, 3)
  BY <1>1, <1>6, RoomyUse
<1>8. Vacant(t) # {}
  <2>1. 2 \in Nat /\ 2 + 1 = 3
    OBVIOUS
  <2> QED BY <1>7, <2>1, RoomyUse
<1>9. {} \cup {p} = {p}
  OBVIOUS
<1> HIDE DEF t
<1> QED BY <1>6, <1>7, <1>8, <1>9 DEF p, t, Behind

LEMMA PipeFirst ==
    ASSUME DescriptorsAssumption, DescriptorsInv, NEW infd \in Standard, NEW u \in Standard,
           F!pipe(TRUE, FALSE, infd, u)
    PROVE  DescriptorsInv'
<1> DEFINE n == Len(inputs)
           k == F!pipefork(fds, <<>>)
           r == k.own[n + 1]
           w == k.own[n + 2]
           rest == [k EXCEPT !.own = SubSeq(k.own, 1, n)]
           q == F!releasefd(rest, u)
           m == F!Close(F!mvfd(q.fds, w, u), r)
           asked == [fd \in FDs |-> IF fd = u THEN "write" ELSE F!view[fd]]
<1>1. F!Child(asked) /\ F!Set([q EXCEPT !.fds = m])
  BY DEF F!pipe, F!End, FDs
<1>2. Piped(k, n, F!view, fds, {})
  BY PipedChild
<1> HIDE DEF k
<1>3. /\ k \in Configs /\ k.fds \in Tables /\ k.deftab = <<>> /\ F!view \in Tables
      /\ Agree(k.fds, {r, w}, F!view) /\ r # w /\ r # -1 /\ k.fds[w] = "write"
      /\ Len(k.own) = n + 2 /\ \A j \in 1..n : k.own[j] = -1
  BY <1>2, ViewFacts DEF Piped
<1>4. n \in Nat
  <2>1. F!table \in Configs
    BY DEF DescriptorsInv, Ready
  <2> QED BY <2>1, StateFacts
<1>5. Bare(rest, n) /\ rest.fds = k.fds
  <2>1. n <= Len(k.own)
    BY <1>3, <1>4
  <2> HIDE DEF n
  <2> QED BY <1>3, <1>4, <2>1, BareRest
<1>6. u \in FDs /\ "write" \in Contents
  BY StandardFds DEF Contents
<1> HIDE DEF rest
<1>7. q = rest
  BY <1>5, <1>6, BareRelease
<1> HIDE DEF q, r, w
<1>8. m \in Tables /\ Agree(m, {}, [F!view EXCEPT ![u] = "write"])
  BY <1>3, <1>5, <1>7, PipeOut
<1>9. asked = [F!view EXCEPT ![u] = "write"]
  BY <1>3 DEF Tables
<1> HIDE DEF m, asked
<1>10. asked \in Tables /\ \A fd \in FDs \ Named : asked[fd] = "closed"
  <2> DEFINE v == [F!view EXCEPT ![u] = "write"]
  <2>1. F!view \in Tables /\ \A fd \in FDs \ Named : F!view[fd] = "closed"
    BY ViewFacts
  <2>2. v \in Tables /\ \A fd \in FDs \ Named : v[fd] = "closed"
    BY <1>6, <2>1, ViewStandard
  <2> QED BY <1>9, <2>2
<1>11. Bare([q EXCEPT !.fds = m], n) /\ [q EXCEPT !.fds = m].fds = m
  BY <1>5, <1>7, <1>8, BareWith
<1> QED BY <1>1, <1>8, <1>9, <1>10, <1>11, BareStep

Reads(c, n, X, x, u, i, v) ==
    /\ Bare(i, n) /\ Agree(i.fds, X \ {x}, v)
    /\ \A y \in X \ {x} : i.fds[y] = c.fds[y]
    /\ v \in Tables /\ \A fd \in FDs \ Named : v[fd] = "closed"
    /\ \A fd \in FDs : v[fd] = IF fd = u THEN "previous" ELSE F!view[fd]

\* A member of a pipeline reads from the one before, at x.
LEMMA Downstream ==
    ASSUME DescriptorsAssumption, DescriptorsInv, NEW c, NEW n, Bare(c, n), NEW X, NEW x \in X,
           Agree(c.fds, X, F!view), c.fds[x] = "previous", NEW u \in Standard
    PROVE  Reads(c, n, X, x, u, [F!releasefd(c, u) EXCEPT !.fds = F!mvfd(@, x, u)],
                 [F!view EXCEPT ![u] = "previous"])
<1> DEFINE q == F!releasefd(c, u)
           m == F!mvfd(q.fds, x, u)
           v == [F!view EXCEPT ![u] = "previous"]
<1>1. c.fds \in Tables /\ F!view \in Tables /\ u \in FDs /\ "previous" \in Contents
  BY ViewFacts, StandardFds DEF Bare, Configs, Contents
<1>2. q = c
  BY <1>1, BareRelease
<1> HIDE DEF q
<1>3. m \in Tables /\ Agree(m, X \ {x}, v) /\ \A y \in X \ {x} : m[y] = c.fds[y]
  <2> DEFINE g == F!mvfd(c.fds, x, u)
  <2>1. g \in Tables /\ Agree(g, X \ {x}, [F!view EXCEPT ![u] = c.fds[x]]) /\ \A y \in X \ {x} : g[y] = c.fds[y]
    <3>1. u \notin X \ {x} /\ DOMAIN F!view = FDs /\ X \subseteq FDs
      BY <1>1, StandardFds DEF Agree, Tables
    <3>2. Moved(c.fds, X, F!view, x, u, F!mvfd(c.fds, x, u))
      BY <1>1, <3>1, AgreeMove
    <3> QED BY <1>1, <3>1, <3>2 DEF Moved
  <2> HIDE DEF g
  <2> QED BY <1>2, <2>1 DEF g
<1>4. /\ v \in Tables /\ \A fd \in FDs \ Named : v[fd] = "closed"
      /\ \A fd \in FDs : v[fd] = IF fd = u THEN "previous" ELSE F!view[fd]
  BY <1>1, ViewFacts, ViewStandard
<1> HIDE DEF m, v
<1> DEFINE i == [q EXCEPT !.fds = m]
<1>5. Bare(i, n) /\ i.fds = m
  BY <1>2, <1>3, BareWith
<1> HIDE DEF i
<1>6. /\ Bare(i, n) /\ Agree(i.fds, X \ {x}, v) /\ \A y \in X \ {x} : i.fds[y] = c.fds[y]
  BY <1>3, <1>5
<1>7. Reads(c, n, X, x, u, i, v)
  BY <1>4, <1>6 DEF Reads
<1> QED BY <1>7 DEF i, m, q, v

LEMMA PipeLast ==
    ASSUME DescriptorsAssumption, DescriptorsInv, NEW u \in Standard, NEW outfd,
           \A i \in DOMAIN deftab : deftab[i].user <= 2,
           F!pipe(FALSE, TRUE, u, outfd)
    PROVE  DescriptorsInv'
<1> DEFINE n == Len(inputs)
           p == F!Free(fds)
           t == [fds EXCEPT ![p] = "previous"]
           k == F!closefds(With(t), n)
           rest == [k EXCEPT !.own = SubSeq(k.own, 1, n)]
           q == F!releasefd(rest, u)
           o == [q EXCEPT !.fds = F!mvfd(@, p, u)]
           asked == [fd \in FDs |-> IF fd = u THEN "previous" ELSE F!view[fd]]
           v == [F!view EXCEPT ![u] = "previous"]
<1>1. F!Child(asked) /\ F!Set(o)
  BY DEF F!pipe, FDs, With
<1>2. PICK V : Asks(F!table, V) /\ Ready(F!table, {}, V[0]) /\ V[Len(deftab)] = F!view
  BY Deferred
<1>3. Behind(p, t, V)
  BY <1>2, BehindIs
<1> HIDE DEF p, t
<1>4. Shut(k, t, {p})
  <2>1. \A i \in DOMAIN deftab : deftab[i].user \notin {p}
    <3>1. \A i \in DOMAIN deftab : deftab[i].user \in Nat
      <4>1. \A i \in DOMAIN deftab : deftab[i].user \in Users
        BY DEF DescriptorsInv
      <4>2. Users \subseteq Nat
        BY DEF DescriptorsAssumption, FDs, F!FD
      <4> QED BY <4>1, <4>2
    <3> QED BY <1>3, <3>1 DEF Behind, Standard
  <2> HIDE DEF k
  <2>2. Shut(F!closefds(With(t), Len(inputs)), t, {p})
    BY <1>2, <1>3, <2>1, CloseAll DEF Behind
  <2> QED BY <2>2 DEF k
<1> HIDE DEF k
<1>5. n \in Nat
  <2>1. F!table \in Configs
    BY DEF DescriptorsInv, Ready
  <2> QED BY <2>1, StateFacts
<1>6. /\ k \in Configs /\ k.deftab = <<>> /\ Len(k.own) = n /\ \A j \in 1..n : k.own[j] = -1
      /\ Agree(k.fds, {p}, F!view) /\ k.fds[p] = "previous"
  BY <1>3, <1>4 DEF Shut, Behind
<1>7. Bare(rest, n) /\ rest.fds = k.fds
  <2>1. n <= Len(k.own)
    BY <1>5, <1>6
  <2> HIDE DEF n
  <2> QED BY <1>5, <1>6, <2>1, BareRest
<1> HIDE DEF rest
<1>8. /\ Bare(o, n) /\ Agree(o.fds, {p} \ {p}, v)
      /\ v \in Tables /\ \A fd \in FDs \ Named : v[fd] = "closed"
      /\ \A fd \in FDs : v[fd] = IF fd = u THEN "previous" ELSE F!view[fd]
  <2>1. p \in {p} /\ Agree(rest.fds, {p}, F!view) /\ rest.fds[p] = "previous"
    BY <1>6, <1>7
  <2>2. Reads(rest, n, {p}, p, u, o, v)
    BY <1>7, <2>1, Downstream
  <2> QED BY <2>2 DEF Reads
<1>9. v = asked /\ {p} \ {p} = {}
  <2> HIDE DEF v
  <2> QED BY <1>8 DEF Tables
<1> HIDE DEF o, v, asked
<1> QED BY <1>1, <1>8, <1>9, BareStep

LEMMA PipeMiddle ==
    ASSUME DescriptorsAssumption, DescriptorsInv, NEW a \in Standard, NEW u \in Standard,
           F!pipe(FALSE, FALSE, a, u)
    PROVE  DescriptorsInv'
<1> DEFINE n == Len(inputs)
           p == F!Free(fds)
           t == [fds EXCEPT ![p] = "previous"]
           k == F!pipefork(t, <<p>>)
           r == k.own[n + 1]
           w == k.own[n + 2]
           x == k.own[n + 3]
           rest == [k EXCEPT !.own = SubSeq(k.own, 1, n)]
           i == [F!releasefd(rest, a) EXCEPT !.fds = F!mvfd(@, x, a)]
           q == F!releasefd(i, u)
           m == F!Close(F!mvfd(q.fds, w, u), r)
           asked == [fd \in FDs |-> IF fd = u THEN "write" ELSE IF fd = a THEN "previous" ELSE F!view[fd]]
           v == [F!view EXCEPT ![a] = "previous"]
<1>1. F!Child(asked) /\ F!Set([q EXCEPT !.fds = m])
  BY DEF F!pipe, FDs, F!End
<1>2. PICK V : Asks(F!table, V) /\ Ready(F!table, {}, V[0]) /\ V[Len(deftab)] = F!view
  BY Deferred
<1>3. Behind(p, t, V)
  BY <1>2, BehindIs
<1> HIDE DEF p, t
<1>4. Piped(k, n, F!view, t, {p})
  <2>1. \E e : {p} = {e} /\ <<p>> = <<e>>
    OBVIOUS
  <2>2. Ready(With(t), {p}, V[0]) /\ Asks(With(t), V) /\ Roomy(t, 3) /\ MaxFd \in Nat
    BY <1>3 DEF Behind, DescriptorsAssumption
  <2>3. Piped(F!pipefork(t, <<p>>), Len(inputs), V[Len(deftab)], t, {p})
    BY <2>1, <2>2, PipeforkReady
  <2> QED BY <1>2, <2>3
<1> HIDE DEF k
<1>5. n \in Nat
  <2>1. F!table \in Configs
    BY DEF DescriptorsInv, Ready
  <2> QED BY <2>1, StateFacts
<1>6. /\ k \in Configs /\ k.deftab = <<>> /\ Len(k.own) = n + 3 /\ \A j \in 1..n : k.own[j] = -1
      /\ Agree(k.fds, {r, w, x}, F!view) /\ k.fds[x] = "previous" /\ k.fds[w] = "write"
      /\ r # w /\ r # -1 /\ x \notin {r, w, -1}
  BY <1>3, <1>4 DEF Piped, Behind
<1>7. Bare(rest, n) /\ rest.fds = k.fds
  <2>1. n <= Len(k.own)
    BY <1>5, <1>6
  <2> HIDE DEF n
  <2> QED BY <1>5, <1>6, <2>1, BareRest
<1> HIDE DEF rest, r, w, x
<1>8. Reads(rest, n, {r, w, x}, x, a, i, v)
  <2>1. x \in {r, w, x} /\ Agree(rest.fds, {r, w, x}, F!view) /\ rest.fds[x] = "previous"
    BY <1>6, <1>7
  <2> QED BY <1>7, <2>1, Downstream
<1> HIDE DEF i, v
<1>9. /\ Bare(i, n) /\ Agree(i.fds, {r, w}, v) /\ i.fds[w] = "write"
      /\ v \in Tables /\ \A fd \in FDs \ Named : v[fd] = "closed"
      /\ \A fd \in FDs : v[fd] = IF fd = a THEN "previous" ELSE F!view[fd]
  <2>1. {r, w, x} \ {x} = {r, w}
    BY <1>6
  <2> QED BY <1>6, <1>7, <1>8, <2>1 DEF Reads
<1>10. u \in FDs /\ "write" \in Contents /\ i.fds \in Tables
  BY <1>9, StandardFds DEF Contents, Bare, Configs
<1>11. q = i
  BY <1>9, <1>10, BareRelease
<1> HIDE DEF q
<1>12. m \in Tables /\ Agree(m, {}, [v EXCEPT ![u] = "write"])
  BY <1>6, <1>9, <1>10, <1>11, PipeOut
<1> DEFINE b == [v EXCEPT ![u] = "write"]
<1>13. /\ b \in Tables /\ \A fd \in FDs \ Named : b[fd] = "closed"
       /\ \A fd \in FDs : b[fd] = IF fd = u THEN "write" ELSE v[fd]
  BY <1>9, <1>10, ViewStandard
<1>14. asked = b
  <2> HIDE DEF b
  <2> QED BY <1>9, <1>13 DEF Tables
<1>15. Bare([q EXCEPT !.fds = m], n) /\ [q EXCEPT !.fds = m].fds = m
  BY <1>9, <1>11, <1>12, BareWith
<1>16. Agree([q EXCEPT !.fds = m].fds, {}, b)
  BY <1>12, <1>15
<1> HIDE DEF m, b, asked
<1> QED BY <1>1, <1>13, <1>14, <1>15, <1>16, BareStep

-----------------------------------------------------------------------------

\* What redir is called with: t is the table, with real open for the user's number.
Redirects(t, real, user) ==
    /\ t \in Tables /\ real \in -1..MaxFd /\ user \in Users
    /\ real = -1 => user \notin Standard
    /\ Ready(With(t), {real} \ {-1}, scope[1].view) /\ Vacant(t) # {}
    /\ \A V : Asks(F!table, V) => Asks(With(t), V)

\* The view in which the user has what was asked for.
LEMMA ViewAsked ==
    ASSUME DescriptorsAssumption, DescriptorsInv, NEW t, NEW real, NEW user,
           Redirects(t, real, user)
    PROVE  /\ [F!view EXCEPT ![user] = Content(t, real)] \in Tables
           /\ \A fd \in FDs \ Named : [F!view EXCEPT ![user] = Content(t, real)][fd] = "closed"
           /\ user \in FDs /\ user \in Named
<1>1. user \in FDs /\ user \in Named /\ t \in Tables /\ real \in -1..MaxFd /\ MaxFd \in Nat
  BY DEF Redirects, DescriptorsAssumption, Named
<1>2. F!view \in Tables /\ \A fd \in FDs \ Named : F!view[fd] = "closed"
  BY ViewFacts
<1>3. Content(t, real) \in Contents
  <2>1. real = -1 \/ real \in FDs
    BY <1>1 DEF FDs, F!FD
  <2>2. "closed" \in Contents
    BY DEF Contents
  <2> QED BY <1>1, <2>1, <2>2 DEF Content, Tables
<1> QED BY <1>1, <1>2, <1>3 DEF Tables

\* redir, in a child that runs nothing else.
LEMMA RedirNow ==
    ASSUME DescriptorsAssumption, DescriptorsInv, NEW t, NEW real, NEW user,
           Redirects(t, real, user), forks > 0, Len(scope) = 1,
           F!Set(F!dodeferred(With(t), real, user)),
           scope' = <<[kind |-> "base", view |-> [F!view EXCEPT ![user] = Content(t, real)]]>>,
           forks' = forks
    PROVE  DescriptorsInv'
<1> DEFINE c == With(t)
           o == F!dodeferred(c, real, user)
           v == [F!view EXCEPT ![user] = Content(t, real)]
           One == {real} \ {-1}
<1>1. /\ t \in Tables /\ real \in -1..MaxFd /\ user \in FDs /\ (real = -1 => user \notin Standard)
      /\ Ready(c, One, scope[1].view) /\ Vacant(t) # {} /\ MaxFd \in Nat
  BY ViewAsked DEF Redirects, DescriptorsAssumption
<1>2. c.fds = t /\ c.deftab = deftab /\ c.own = inputs /\ c \in Configs
  BY <1>1, WithIs DEF Ready
<1>3. F!view = scope[1].view /\ F!view \in Tables
  BY ViewFacts
<1>4. deftab = <<>> /\ \A j \in 1..Len(inputs) : inputs[j] = -1
  BY ChildEmpty
<1> HIDE DEF c, o
<1>5. Became(c, {}, v, o)
  <2>1. {} \cup One = One
    OBVIOUS
  <2>2. Ready(c, {} \cup One, F!view) /\ Vacant(c.fds) # {} /\ DOMAIN F!view = FDs
    BY <1>1, <1>2, <1>3, <2>1 DEF Tables
  <2>3. real \notin {} /\ user \notin {}
    OBVIOUS
  <2>4. Became(c, {}, [F!view EXCEPT ![user] = Content(c.fds, real)], F!dodeferred(c, real, user))
    BY <1>1, <2>2, <2>3, DeferredReady
  <2> QED BY <1>2, <2>4 DEF o
<1> HIDE DEF v
<1>6. o \in Configs /\ After(c, o, 0) /\ Agree(o.fds, Held(o) \cup {}, v)
  BY <1>5 DEF Became, Ready
<1>7. /\ o.fds \in Tables /\ o.deftab \in Seq(Deferral) /\ o.own \in Seq(-1..MaxFd)
      /\ DOMAIN o.own = 1..Len(o.own)
  BY <1>6, ConfigFacts
<1>8. Len(inputs) \in Nat
  BY <1>2, ConfigFacts
<1>9. o.deftab = <<>> /\ Len(o.own) = Len(inputs) /\ \A j \in 1..Len(inputs) : o.own[j] = -1
  <2>1. Len(o.deftab) = 0
    BY <1>2, <1>4, <1>6 DEF After
  <2> QED BY <1>2, <1>4, <1>6, <1>7, <2>1 DEF After
<1>10. Held(o) \cup {} = {}
  BY <1>7, <1>9 DEF Held, Reals, Owned
<1>11. Agree(o.fds, {}, v)
  BY <1>6, <1>10
<1>12. inputs' = SubSeq(o.own, 1, Len(inputs)) /\ fds' = o.fds /\ deftab' = o.deftab
  BY DEF F!Set, o, c
<1>13. inputs' \in Seq(-1..MaxFd) /\ \A j \in 1..Len(inputs') : inputs'[j] = -1
  <2> DEFINE n == Len(inputs)
             q == SubSeq(o.own, 1, n)
  <2>1. q \in Seq(-1..MaxFd) /\ Len(q) = n /\ \A j \in 1..n : q[j] = -1
    <3>1. n \in Nat /\ n <= Len(o.own) /\ \A j \in 1..n : o.own[j] = -1
      BY <1>8, <1>9
    <3> HIDE DEF n
    <3> QED BY <1>7, <3>1, OwnPrefix
  <2>2. inputs' = q
    BY <1>12
  <2> HIDE DEF q, n
  <2> QED BY <2>1, <2>2
<1>14. v \in Tables /\ \A fd \in FDs \ Named : v[fd] = "closed"
  BY ViewAsked DEF v
<1>15. Fresh(fds', inputs', v)
  BY <1>7, <1>11, <1>12, <1>13, <1>14 DEF Fresh
<1>16. deftab' = <<>> /\ scope' = <<[kind |-> "base", view |-> v]>> /\ forks' \in Nat /\ forks' > 0
  BY <1>9, <1>12 DEF v, DescriptorsInv
<1> QED BY <1>15, <1>16, FreshInv

-----------------------------------------------------------------------------
\* The table record c with one more deferred operation.
Pushed(c, real, user) == [fds |-> c.fds, deftab |-> Append(c.deftab, [real |-> real, user |-> user]), own |-> c.own]

\* What the user has asked for with it.
Extended(V, n, v) == [i \in 0..n + 1 |-> IF i = n + 1 THEN v ELSE V[i]]

LEMMA PushReady ==
    ASSUME MaxFd \in Nat, NEW c, NEW b, NEW real \in -1..MaxFd, NEW user \in FDs,
           real = -1 => user \notin Standard,
           Ready(c, {real} \ {-1}, b)
    PROVE  Ready(Pushed(c, real, user), {}, b)
<1> DEFINE One == {real} \ {-1}
           l == Len(c.deftab)
           e == [real |-> real, user |-> user]
           dt == Append(c.deftab, e)
           d == Pushed(c, real, user)
<1>1. /\ c \in Configs /\ Apart(c) /\ Sane(c) /\ One \cap Held(c) = {} /\ Agree(c.fds, Held(c) \cup One, b)
  BY DEF Ready
<1>2. /\ c.fds \in Tables /\ c.deftab \in Seq(Deferral) /\ c.own \in Seq(-1..MaxFd)
      /\ l \in Nat /\ DOMAIN c.deftab = 1..l
  BY <1>1, ConfigFacts
<1>3. e \in Deferral /\ e.real = real /\ e.user = user
  BY DEF Deferral
<1> HIDE DEF e
<1>4. dt \in Seq(Deferral) /\ Len(dt) = l + 1 /\ dt[l + 1] = e /\ \A i \in 1..l : dt[i] = c.deftab[i]
  BY <1>2, <1>3
<1>5. DOMAIN dt = 1..l + 1
  BY <1>2, <1>4, SeqFacts
<1> HIDE DEF dt
<1>6. d \in Configs /\ d.fds = c.fds /\ d.deftab = dt /\ d.own = c.own
  BY <1>2, <1>4 DEF Configs, Pushed, dt, e
<1> HIDE DEF d, l
<1>7. /\ \A j \in 1..l + 1 : j \in 1..l \/ j = l + 1
      /\ l + 1 \in 1..l + 1 /\ \A j \in 1..l : j \in 1..l + 1
  BY <1>2
<1>8. Reals(d) = Reals(c) \cup {real} /\ Owned(d) = Owned(c)
  <2>1. \A x \in Reals(d) : x \in Reals(c) \cup {real}
    BY <1>2, <1>3, <1>4, <1>5, <1>6, <1>7 DEF Reals
  <2>2. \A i \in 1..l : c.deftab[i].real \in Reals(d)
    BY <1>4, <1>5, <1>6, <1>7 DEF Reals
  <2>3. real \in Reals(d)
    <3>1. d.deftab[l + 1].real = real /\ l + 1 \in DOMAIN d.deftab
      BY <1>3, <1>4, <1>5, <1>6, <1>7
    <3> QED BY <3>1 DEF Reals
  <2>4. Reals(c) \subseteq Reals(d)
    BY <1>2, <2>2 DEF Reals
  <2> QED BY <1>6, <2>1, <2>3, <2>4 DEF Owned
<1>9. Held(d) = Held(c) \cup One
  BY <1>8 DEF Held
<1>10. real # -1 => (\A i \in 1..l : c.deftab[i].real # real) /\ \A j \in DOMAIN c.own : c.own[j] # real
  BY <1>1, <1>2 DEF Held, Reals, Owned
<1>11. Apart(d)
  <2>1. \A i, j \in 1..l : c.deftab[i].real = c.deftab[j].real /\ c.deftab[i].real # -1 => i = j
    BY <1>1, <1>2 DEF Apart
  <2>2. \A i, j \in 1..l + 1 : dt[i].real = dt[j].real /\ dt[i].real # -1 => i = j
    BY <1>3, <1>4, <1>7, <1>10, <2>1
  <2>3. \A i \in 1..l, j \in DOMAIN c.own : c.deftab[i].real = c.own[j] => c.own[j] = -1
    BY <1>1, <1>2 DEF Apart
  <2>4. \A i \in 1..l + 1, j \in DOMAIN c.own : dt[i].real = c.own[j] => c.own[j] = -1
    BY <1>3, <1>4, <1>7, <1>10, <2>3
  <2> QED BY <1>1, <1>5, <1>6, <2>2, <2>4 DEF Apart
<1>12. Sane(d)
  <2>1. \A i \in 1..l : c.deftab[i].real = -1 => c.deftab[i].user \notin Standard
    BY <1>1, <1>2 DEF Sane
  <2>2. \A i \in 1..l + 1 : dt[i].real = -1 => dt[i].user \notin Standard
    BY <1>3, <1>4, <1>7, <2>1
  <2> QED BY <1>5, <1>6, <2>2 DEF Sane
<1>13. Held(d) \cup {} = Held(c) \cup One
  BY <1>9
<1> QED BY <1>1, <1>6, <1>11, <1>12, <1>13 DEF Ready, d

LEMMA PushAsks ==
    ASSUME NEW c \in Configs, NEW V, Asks(c, V), NEW real, NEW user, NEW v,
           DOMAIN v = FDs, v = [V[Len(c.deftab)] EXCEPT ![user] = Content(c.fds, real)]
    PROVE  Asks(Pushed(c, real, user), Extended(V, Len(c.deftab), v))
<1> DEFINE l == Len(c.deftab)
           e == [real |-> real, user |-> user]
           d == Pushed(c, real, user)
           W == Extended(V, l, v)
<1>1. l \in Nat /\ DOMAIN c.deftab = 1..l /\ c.deftab \in Seq(Deferral)
  BY ConfigFacts
<1>2. d.fds = c.fds /\ d.deftab = Append(c.deftab, e)
  BY DEF Pushed
<1>3. e.real = real /\ e.user = user
  OBVIOUS
<1> HIDE DEF e, d
<1>4. Len(d.deftab) = l + 1 /\ d.deftab[l + 1] = e /\ \A i \in 1..l : d.deftab[i] = c.deftab[i]
  BY <1>1, <1>2
<1>5. W[l + 1] = v /\ \A i \in 0..l : W[i] = V[i]
  BY <1>1 DEF Extended
<1> HIDE DEF W
<1>6. ASSUME NEW i \in 0..l + 1 PROVE DOMAIN W[i] = FDs
  <2>1. i = l + 1 \/ i \in 0..l
    BY <1>1
  <2> QED BY <1>5, <2>1 DEF Asks, l
<1>7. ASSUME NEW i \in 1..l + 1
      PROVE  W[i] = [W[i - 1] EXCEPT ![d.deftab[i].user] = Content(d.fds, d.deftab[i].real)]
  <2>1. CASE i = l + 1
    <3>1. i - 1 = l /\ l \in 0..l
      BY <1>1, <2>1
    <3>2. W[i - 1] = V[l] /\ W[i] = v /\ d.deftab[i] = e
      BY <1>4, <1>5, <2>1, <3>1
    <3> QED BY <1>2, <1>3, <3>2 DEF l
  <2>2. CASE i # l + 1
    <3>1. i \in 1..l /\ i - 1 \in 0..l /\ i \in 0..l
      BY <1>1, <2>2
    <3>2. W[i - 1] = V[i - 1] /\ W[i] = V[i] /\ d.deftab[i] = c.deftab[i]
      BY <1>4, <1>5, <3>1
    <3>3. V[i] = [V[i - 1] EXCEPT ![c.deftab[i].user] = Content(c.fds, c.deftab[i].real)]
      BY <3>1 DEF Asks, l
    <3> QED BY <1>2, <3>2, <3>3
  <2> QED BY <2>1, <2>2
<1> QED BY <1>4, <1>6, <1>7 DEF Asks, d, W, l

-----------------------------------------------------------------------------
\* What the invariant says of the regions, with the views W of what is deferred.
Regions(W) ==
    /\ scope \in Seq(RegionType) /\ Len(scope) \in 1..MaxRegions
    /\ scope[1].kind = "base"
    /\ \A k \in 1..Len(scope) : \A fd \in FDs \ Named : scope[k].view[fd] = "closed"
    /\ \E d : Nested(d, W)

\* A region is entered, with the view v.
Entering(kind, v, d, V, W) ==
    /\ kind \in {"redir", "input"} /\ v \in Tables /\ \A fd \in FDs \ Named : v[fd] = "closed"
    /\ F!CanEnter /\ scope' = F!Region(kind, v) /\ Nested(d, V)
    /\ Asks(F!table', W) /\ Len(deftab') = IF kind = "redir" THEN Len(deftab) + 1 ELSE Len(deftab)
    /\ \A i \in 0..Len(deftab) : W[i] = V[i]
    /\ W[Len(deftab')] = v

Entered == scope'[1] = scope[1] /\ Len(scope') = Len(scope) + 1

LEMMA Enter ==
    ASSUME DescriptorsAssumption, DescriptorsInv, NEW kind, NEW v, NEW d, NEW V, NEW W,
           Entering(kind, v, d, V, W)
    PROVE  Regions(W)' /\ Entered
<1> DEFINE K == Len(scope)
           l == Len(deftab)
           g == [kind |-> kind, view |-> v]
<1>0. /\ kind \in {"redir", "input"} /\ v \in Tables /\ \A fd \in FDs \ Named : v[fd] = "closed"
      /\ F!CanEnter /\ scope' = F!Region(kind, v) /\ Nested(d, V)
      /\ Asks(F!table', W) /\ Len(deftab') = IF kind = "redir" THEN l + 1 ELSE l
      /\ (\A i \in 0..l : W[i] = V[i]) /\ W[Len(deftab')] = v
  BY DEF Entering
<1>1. scope \in Seq(RegionType) /\ K \in 1..MaxRegions /\ K \in Nat \ {0} /\ MaxRegions \in Nat
  BY ViewFacts DEF DescriptorsInv, DescriptorsAssumption
<1>2. g \in RegionType /\ g.kind = kind /\ g.view = v
  BY <1>0 DEF RegionType
<1>3. scope' = Append(scope, g)
  BY <1>0 DEF F!Region
<1> HIDE DEF g
<1>4. /\ scope' \in Seq(RegionType) /\ Len(scope') = K + 1 /\ scope'[K + 1] = g
      /\ \A k \in 1..K : scope'[k] = scope[k]
  BY <1>1, <1>2, <1>3
<1>5. K < MaxRegions
  BY <1>0 DEF F!CanEnter
<1>6. l \in Nat
  <2>1. F!table \in Configs
    BY DEF DescriptorsInv, Ready
  <2> QED BY <2>1, StateFacts
<1> HIDE DEF K, l
<1>7. /\ \A k \in 1..K + 1 : k \in 1..K \/ k = K + 1
      /\ K + 1 \in 1..K + 1 /\ 1 \in 1..K /\ K \in 1..K /\ \A k \in 1..K : k \in 1..K + 1 /\ k # K + 1
  BY <1>1
<1>8. /\ V[0] = scope[1].view /\ d[1] = 0 /\ d[K] = l
      /\ \A k \in 1..K : d[k] \in 0..k - 1 /\ scope[k].view = V[d[k]]
      /\ \A j, k \in 1..K : j <= k => d[j] <= d[k]
      /\ \A k \in 2..K : d[k] = IF scope[k].kind = "redir" THEN d[k - 1] + 1 ELSE d[k - 1]
  BY <1>0 DEF Nested, K, l
<1>9. PICK e : e[K + 1] = Len(deftab') /\ \A k \in 1..K : e[k] = d[k]
  <2> DEFINE g1 == [k \in 1..K + 1 |-> IF k = K + 1 THEN Len(deftab') ELSE d[k]]
  <2>1. g1[K + 1] = Len(deftab') /\ \A k \in 1..K : g1[k] = d[k]
    BY <1>7
  <2> QED BY <2>1
<1>10. l \in 0..K - 1 /\ l <= Len(deftab') /\ Len(deftab') \in 0..l + 1 /\ 0 \in 0..l
  <2>1. l \in 0..K - 1
    BY <1>7, <1>8
  <2> QED BY <1>0, <1>1, <1>6, <2>1
<1>11. \A k \in 1..K : d[k] \in 0..l
  BY <1>7, <1>8, <1>1, <1>6
<1>12. \A k \in 1..K + 1 : e[k] \in 0..k - 1 /\ scope'[k].view = W[e[k]]
  <2>1. ASSUME NEW k \in 1..K PROVE e[k] \in 0..k - 1 /\ scope'[k].view = W[e[k]]
    BY <1>0, <1>4, <1>8, <1>9, <1>11
  <2>2. Len(deftab') \in 0..(K + 1) - 1
    BY <1>1, <1>10
  <2>3. e[K + 1] \in 0..(K + 1) - 1 /\ scope'[K + 1].view = W[e[K + 1]]
    BY <1>0, <1>2, <1>4, <1>9, <2>2
  <2> QED BY <1>7, <2>1, <2>3
<1>13. \A j, k \in 1..K + 1 : j <= k => e[j] <= e[k]
  <2> SUFFICES ASSUME NEW j \in 1..K + 1, NEW k \in 1..K + 1, j <= k PROVE e[j] <= e[k]
    OBVIOUS
  <2>1. CASE k \in 1..K
    <3>1. j \in 1..K
      BY <1>1, <2>1
    <3> QED BY <1>8, <1>9, <2>1, <3>1
  <2>2. CASE k = K + 1
    <3>1. e[k] = Len(deftab') /\ (e[j] = Len(deftab') \/ e[j] \in 0..l)
      BY <1>7, <1>9, <1>11, <2>2
    <3> QED BY <1>6, <1>10, <3>1
  <2> QED BY <1>7, <2>1, <2>2
<1>14. \A k \in 2..K + 1 : e[k] = IF scope'[k].kind = "redir" THEN e[k - 1] + 1 ELSE e[k - 1]
  <2> SUFFICES ASSUME NEW k \in 2..K + 1
               PROVE  e[k] = IF scope'[k].kind = "redir" THEN e[k - 1] + 1 ELSE e[k - 1]
    OBVIOUS
  <2>1. CASE k \in 2..K
    <3>1. k \in 1..K /\ k - 1 \in 1..K
      BY <1>1, <2>1
    <3> QED BY <1>4, <1>8, <1>9, <2>1, <3>1
  <2>2. CASE k = K + 1
    <3>1. k - 1 = K
      BY <1>1, <2>2
    <3>2. e[k - 1] = l /\ e[k] = Len(deftab') /\ scope'[k].kind = kind
      BY <1>2, <1>4, <1>7, <1>8, <1>9, <2>2, <3>1
    <3> QED BY <1>0, <3>2
  <2>3. k \in 2..K \/ k = K + 1
    BY <1>1
  <2> QED BY <2>1, <2>2, <2>3
<1>15. Nested(e, W)'
  <2>1. W[0] = scope'[1].view /\ e[1] = 0
    BY <1>0, <1>4, <1>7, <1>8, <1>9, <1>10
  <2>2. Len(scope') = K + 1 /\ e[Len(scope')] = Len(deftab')
    BY <1>4, <1>9
  <2> DEFINE L == Len(scope')
  <2>3. /\ \A k \in 1..L : e[k] \in 0..k - 1 /\ scope'[k].view = W[e[k]]
        /\ \A j, k \in 1..L : j <= k => e[j] <= e[k]
        /\ \A k \in 2..L : e[k] = IF scope'[k].kind = "redir" THEN e[k - 1] + 1 ELSE e[k - 1]
    BY <1>12, <1>13, <1>14, <2>2
  <2> QED BY <1>0, <2>1, <2>2, <2>3 DEF Nested
<1>16. \A k \in 1..Len(scope') : \A fd \in FDs \ Named : scope'[k].view[fd] = "closed"
  <2>1. \A k \in 1..K : \A fd \in FDs \ Named : scope[k].view[fd] = "closed"
    BY DEF DescriptorsInv, K
  <2> QED BY <1>0, <1>2, <1>4, <1>7, <2>1
<1>17. Len(scope') \in 1..MaxRegions /\ scope'[1].kind = "base"
  <2>1. scope[1].kind = "base"
    BY DEF DescriptorsInv
  <2> QED BY <1>1, <1>4, <1>5, <1>7, <2>1
<1>18. Entered
  BY <1>4, <1>7 DEF Entered, K
<1> QED BY <1>4, <1>15, <1>16, <1>17, <1>18 DEF Regions

LEMMA RedirDefer ==
    ASSUME DescriptorsAssumption, DescriptorsInv, NEW t, NEW real, NEW user,
           Redirects(t, real, user), F!CanEnter,
           fds' = t, deftab' = Append(deftab, [real |-> real, user |-> user]),
           scope' = F!Region("redir", [F!view EXCEPT ![user] = Content(t, real)]),
           UNCHANGED <<inputs, forks>>
    PROVE  DescriptorsInv'
<1>0. PICK v : v = [F!view EXCEPT ![user] = Content(t, real)]
  OBVIOUS
<1> DEFINE c == With(t)
           l == Len(deftab)
<1>1. /\ t \in Tables /\ real \in -1..MaxFd /\ user \in Users /\ (real = -1 => user \notin Standard)
      /\ Ready(c, {real} \ {-1}, scope[1].view) /\ Vacant(t) # {} /\ MaxFd \in Nat
      /\ \A V : Asks(F!table, V) => Asks(c, V)
  BY DEF Redirects, DescriptorsAssumption
<1>2. v \in Tables /\ user \in FDs /\ \A fd \in FDs \ Named : v[fd] = "closed"
  BY <1>0, ViewAsked
<1>3. c.fds = t /\ c.deftab = deftab /\ c.own = inputs /\ c \in Configs
  BY <1>1, WithIs DEF Ready
<1>4. F!table' = Pushed(c, real, user)
  BY <1>3 DEF F!table, Pushed
<1> HIDE DEF c
<1>5. PICK d, V : Nested(d, V)
  BY DEF DescriptorsInv
<1>6. V[l] = F!view
  <2>1. Len(scope) \in 1..Len(scope)
    BY ViewFacts
  <2> QED BY <1>5, <2>1, ViewFacts DEF Nested
<1>17. PICK W : W = Extended(V, l, v)
  OBVIOUS
<1>7. l \in Nat /\ DOMAIN deftab = 1..l /\ deftab \in Seq(Deferral)
  BY <1>3, ConfigFacts
<1>8. Asks(F!table', W)
  <2>1. Asks(c, V) /\ DOMAIN v = FDs /\ v = [V[Len(c.deftab)] EXCEPT ![user] = Content(c.fds, real)]
    BY <1>0, <1>1, <1>2, <1>3, <1>5, <1>6 DEF Nested, Tables
  <2>2. Asks(Pushed(c, real, user), Extended(V, Len(c.deftab), v))
    BY <1>3, <2>1, PushAsks
  <2> QED BY <1>3, <1>4, <1>17, <2>2
<1>9. Len(deftab') = l + 1 /\ \A i \in DOMAIN deftab' : deftab'[i].user \in Users
  <2>1. [real |-> real, user |-> user] \in Deferral
    BY <1>1, <1>2 DEF Deferral
  <2>2. /\ Len(deftab') = l + 1 /\ DOMAIN deftab' = 1..l + 1 /\ deftab'[l + 1].user = user
        /\ \A i \in 1..l : deftab'[i] = deftab[i]
    BY <1>7, <2>1
  <2>3. \A i \in 1..l : deftab[i].user \in Users
    BY <1>7 DEF DescriptorsInv
  <2>4. \A i \in 1..l + 1 : i \in 1..l \/ i = l + 1
    BY <1>7
  <2> QED BY <1>1, <2>2, <2>3, <2>4
<1>10. W[l + 1] = v /\ \A i \in 0..l : W[i] = V[i]
  BY <1>7, <1>17 DEF Extended
<1>11. Regions(W)' /\ Entered
  <2>1. scope' = F!Region("redir", v) /\ "redir" \in {"redir", "input"}
    BY <1>0
  <2>2. Len(deftab') = IF "redir" = "redir" THEN Len(deftab) + 1 ELSE Len(deftab)
    BY <1>9
  <2>3. W[Len(deftab')] = v /\ \A i \in 0..Len(deftab) : W[i] = V[i]
    BY <1>9, <1>10
  <2>4. Entering("redir", v, d, V, W)
    BY <1>2, <1>5, <1>8, <2>1, <2>2, <2>3 DEF Entering
  <2> QED BY <2>4, Enter
<1>12. scope'[1] = scope[1] /\ Len(scope') = Len(scope) + 1
  BY <1>11 DEF Entered
<1>13. Ready(F!table', {}, scope'[1].view)
  <2>1. Ready(Pushed(c, real, user), {}, scope[1].view)
    BY <1>1, <1>2, PushReady
  <2> QED BY <1>4, <1>12, <2>1
<1>14. Counted'
  <2>1. Inherited' = Inherited
    <3>1. Len(inputs) \in Nat /\ Len(scope) \in Nat
      BY <1>3, ConfigFacts, ViewFacts
    <3>2. Inherited' = Len(inputs) + (l + 1) + 1 - (Len(scope) + 1)
      BY <1>9, <1>12 DEF Inherited
    <3>3. Inherited = Len(inputs) + l + 1 - Len(scope)
      BY DEF Inherited
    <3> HIDE DEF l
    <3> QED BY <1>7, <3>1, <3>2, <3>3
  <2> QED BY <2>1 DEF Counted, DescriptorsInv
<1>15. forks' \in Nat
  BY DEF DescriptorsInv
<1>16. \E e, U : Nested(e, U)'
  BY <1>11 DEF Regions
<1> QED BY <1>9, <1>11, <1>13, <1>14, <1>15, <1>16 DEF DescriptorsInv, Regions

LEMMA RedirStep ==
    ASSUME DescriptorsAssumption, DescriptorsInv, NEW t, NEW real, NEW user,
           Redirects(t, real, user), F!redir(t, real, user, Content(t, real)), UNCHANGED forks
    PROVE  DescriptorsInv'
<1> DEFINE v == [F!view EXCEPT ![user] = Content(t, real)]
<1>1. \/ /\ F!CanEnter
         /\ fds' = t
         /\ deftab' = Append(deftab, [real |-> real, user |-> user])
         /\ scope' = F!Region("redir", v)
         /\ UNCHANGED inputs
      \/ /\ forks > 0 /\ Len(scope) = 1
         /\ F!Set(F!dodeferred(With(t), real, user))
         /\ scope' = <<[kind |-> "base", view |-> v]>>
  BY DEF F!redir, With
<1>2. CASE /\ F!CanEnter
           /\ fds' = t
           /\ deftab' = Append(deftab, [real |-> real, user |-> user])
           /\ scope' = F!Region("redir", v)
           /\ UNCHANGED inputs
  BY <1>2, RedirDefer
<1>3. CASE /\ forks > 0 /\ Len(scope) = 1
           /\ F!Set(F!dodeferred(With(t), real, user))
           /\ scope' = <<[kind |-> "base", view |-> v]>>
  BY <1>3, RedirNow
<1> QED BY <1>1, <1>2, <1>3

\* A file opened on the lowest free descriptor.
LEMMA OpenedRedirects ==
    ASSUME DescriptorsAssumption, DescriptorsInv, NEW f \in Contents \ {"closed"}, NEW user \in Users
    PROVE  Redirects([fds EXCEPT ![F!Free(fds)] = f], F!Free(fds), user)
<1> DEFINE p == F!Free(fds)
           t == [fds EXCEPT ![p] = f]
           b == scope[1].view
           d == Opened(F!table, p, f)
<1>1. Roomy(fds, 3 + 1) /\ 3 \in Nat /\ MaxFd \in Nat
  <2>1. 3 + 1 = 4
    OBVIOUS
  <2> QED BY <2>1, SpareRoom DEF DescriptorsAssumption
<1>2. F!table \in Configs /\ Ready(F!table, {}, b)
  BY DEF DescriptorsInv, Ready
<1>3. p \in Vacant(fds) /\ fds \in Tables
  <2>1. Vacant(fds) # {} /\ fds \in Tables
    BY <1>1, <1>2, RoomyUse, StateFacts
  <2> QED BY <1>1, <2>1, FreeIs
<1> HIDE DEF p
<1>4. F!table.fds = fds
  BY DEF F!table
<1>5. Opens(F!table, {}, b, p, f, d)
  BY <1>2, <1>3, <1>4, OpenReady
<1>6. d = With(t)
  BY <1>4 DEF Opened, With
<1>7. With(t).fds = t
  BY WithIs
<1> HIDE DEF d, t, b
<1>8. /\ Ready(With(t), {} \cup {p}, b) /\ p \in FDs /\ p \notin Standard
      /\ \A V : Asks(F!table, V) => Asks(With(t), V)
  BY <1>5, <1>6 DEF Opens
<1>9. Vacant(t) = Vacant(fds) \ {p}
  BY <1>4, <1>5, <1>6, <1>7 DEF Opens
<1>10. Vacant(t) # {}
  <2>1. Roomy(t, 3)
    BY <1>1, <1>9, RoomyUse
  <2>2. 2 \in Nat /\ 2 + 1 = 3
    OBVIOUS
  <2> QED BY <2>1, <2>2, RoomyUse
<1>11. t \in Tables
  BY <1>7, <1>8, ConfigFacts DEF Ready
<1>12. p \in -1..MaxFd /\ p # -1 /\ {} \cup {p} = {p} \ {-1}
  BY <1>1, <1>8 DEF FDs, F!FD
<1>13. Ready(With(t), {p} \ {-1}, b)
  BY <1>8, <1>12
<1> QED BY <1>8, <1>10, <1>11, <1>12, <1>13 DEF Redirects, p, t, b

LEMMA FileIs ==
    ASSUME NEW n \in Nat
    PROVE  F!File(n) \in Contents \ {"closed"}
<1>1. n % 4 \in 0..3
  OBVIOUS
<1>2. F!Files = <<"a", "b", "c", "d">> /\ Len(F!Files) = 4
  BY DEF F!Files
<1>3. F!File(n) = <<"a", "b", "c", "d">>[(n % 4) + 1]
  BY <1>2 DEF F!File
<1>4. n % 4 = 0 \/ n % 4 = 1 \/ n % 4 = 2 \/ n % 4 = 3
  BY <1>1
<1>5. F!File(n) \in {"a", "b", "c", "d"}
  BY <1>3, <1>4
<1> QED BY <1>5 DEF Contents

LEMMA OpenedContent ==
    ASSUME DescriptorsAssumption, DescriptorsInv, NEW f
    PROVE  Content([fds EXCEPT ![F!Free(fds)] = f], F!Free(fds)) = f
<1>1. MaxFd \in Nat /\ F!table \in Configs
  BY DEF DescriptorsAssumption, DescriptorsInv, Ready
<1>2. fds \in Tables /\ Vacant(fds) # {}
  <2>1. 3 \in Nat /\ 3 + 1 = 4
    OBVIOUS
  <2> QED BY <1>1, <2>1, SpareRoom, RoomyUse, StateFacts
<1>3. F!Free(fds) \in FDs
  BY <1>1, <1>2, FreeIs DEF Vacant
<1>4. F!Free(fds) # -1
  BY <1>3 DEF FDs, F!FD
<1> QED BY <1>2, <1>3, <1>4 DEF Content, Tables

LEMMA OpenfileStep ==
    ASSUME DescriptorsAssumption, DescriptorsInv, NEW user \in Users, F!openfile(user)
    PROVE  DescriptorsInv'
<1>1. F!File(Len(scope)) \in Contents \ {"closed"}
  BY ViewFacts, FileIs
<1>2. Redirects([fds EXCEPT ![F!Free(fds)] = F!File(Len(scope))], F!Free(fds), user)
  BY <1>1, OpenedRedirects
<1> DEFINE f == F!File(Len(scope))
           t == [fds EXCEPT ![F!Free(fds)] = f]
<1>3. Content(t, F!Free(fds)) = f
  BY OpenedContent
<1>4. F!redir(t, F!Free(fds), user, f) /\ UNCHANGED forks
  BY DEF F!openfile
<1> QED BY <1>2, <1>3, <1>4, RedirStep

LEMMA DupStep ==
    ASSUME DescriptorsAssumption, DescriptorsInv, NEW user \in Users, NEW from \in Users \cup {0, 1, 2},
           F!dup(from, user)
    PROVE  DescriptorsInv'
<1> DEFINE f == fds[F!fdmap(from)]
<1>1. f \in Contents \ {"closed"}
  <2>1. F!table \in Configs
    BY DEF DescriptorsInv, Ready
  <2>2. fds \in Tables
    BY <2>1, StateFacts
  <2> QED BY <2>2 DEF F!dup, Tables, FDs, F!Closed
<1>2. Redirects([fds EXCEPT ![F!Free(fds)] = f], F!Free(fds), user)
  BY <1>1, OpenedRedirects
<1>3. F!redir([fds EXCEPT ![F!Free(fds)] = f], F!Free(fds), user, F!view[from]) /\ UNCHANGED forks
  BY DEF F!dup, F!Dup
<1>4. F!view[from] = f
  <2>1. MaxFd \in Nat /\ ~Chained /\ Users \subseteq FDs
    BY DEF DescriptorsAssumption
  <2>2. F!FdmapSees
    BY <2>1, MapsAsAsked
  <2>3. from \in FDs
    BY <2>1, StandardFds DEF Standard
  <2>4. F!fdmap(from) # -1
    BY DEF F!dup, F!FD
  <2> QED BY <2>1, <2>2, <2>3, <2>4 DEF F!FdmapSees, F!dup, FDs
<1>5. Content([fds EXCEPT ![F!Free(fds)] = f], F!Free(fds)) = f
  BY OpenedContent
<1> HIDE DEF f
<1> QED BY <1>2, <1>3, <1>4, <1>5, RedirStep

LEMMA CloseStep ==
    ASSUME DescriptorsAssumption, DescriptorsInv, NEW user \in Closes, F!close(user)
    PROVE  DescriptorsInv'
<1>1. Redirects(fds, -1, user)
  <2>1. F!table \in Configs /\ Ready(F!table, {}, scope[1].view)
    BY DEF DescriptorsInv, Ready
  <2>2. fds \in Tables
    BY <2>1, StateFacts
  <2>3. Vacant(fds) # {}
    <3>1. 3 \in Nat /\ 3 + 1 = 4
      OBVIOUS
    <3> QED BY <3>1, SpareRoom, RoomyUse
  <2>4. With(fds) = F!table /\ {-1} \ {-1} = {}
    BY WithIs
  <2>5. user \in Users /\ user \notin Standard /\ -1 \in -1..MaxFd
    BY DEF DescriptorsAssumption
  <2> QED BY <2>1, <2>2, <2>3, <2>4, <2>5 DEF Redirects
<1>2. Content(fds, -1) = F!Closed
  BY DEF Content, F!Closed
<1> QED BY <1>1, <1>2, RedirStep DEF F!close

LEMMA FrontIs ==
    ASSUME NEW S, NEW q \in Seq(S), Len(q) >= 1
    PROVE  /\ F!Front(q) \in Seq(S) /\ Len(F!Front(q)) = Len(q) - 1
           /\ DOMAIN F!Front(q) = 1..Len(q) - 1
           /\ \A k \in 1..Len(q) - 1 : F!Front(q)[k] = q[k]
<1> DEFINE n == Len(q) - 1
           r == SubSeq(q, 1, n)
<1>1. Len(q) \in Nat /\ n \in Nat /\ 1 \in Int /\ n \in Int
  OBVIOUS
<1>2. \A k \in 1..n : q[k] \in S
  <2>1. \A k \in 1..Len(q) : q[k] \in S
    OBVIOUS
  <2>2. \A k \in 1..n : k \in 1..Len(q)
    BY <1>1
  <2> QED BY <2>1, <2>2
<1> HIDE DEF n
<1>3. /\ r \in Seq(S) /\ Len(r) = IF 1 <= n THEN n - 1 + 1 ELSE 0
      /\ \A k \in 1..n - 1 + 1 : r[k] = q[1 + k - 1]
  BY <1>1, <1>2, SubSeqProperties
<1> HIDE DEF r
<1>4. Len(r) = n /\ \A k \in 1..n : k \in 1..n - 1 + 1 /\ 1 + k - 1 = k
  BY <1>1, <1>3
<1>5. DOMAIN r = 1..n
  BY <1>3, <1>4, SeqFacts
<1>6. F!Front(q) = r
  BY DEF F!Front, r, n
<1> QED BY <1>3, <1>4, <1>5, <1>6 DEF n

\* The last deferred operation is taken off.
Popped(c) == [fds |-> c.fds, deftab |-> F!Front(c.deftab), own |-> c.own]

LEMMA PopReady ==
    ASSUME NEW c, NEW b, Ready(c, {}, b), Len(c.deftab) >= 1
    PROVE  /\ Ready(Popped(c), {c.deftab[Len(c.deftab)].real} \ {-1}, b)
           /\ \A V : Asks(c, V) => Asks(Popped(c), V)
<1> DEFINE l == Len(c.deftab)
           real == c.deftab[l].real
           One == {real} \ {-1}
           dt == F!Front(c.deftab)
           d == Popped(c)
<1>1. c \in Configs /\ Apart(c) /\ Sane(c) /\ Agree(c.fds, Held(c) \cup {}, b)
  BY DEF Ready
<1>2. /\ c.fds \in Tables /\ c.deftab \in Seq(Deferral) /\ c.own \in Seq(-1..MaxFd)
      /\ l \in Nat /\ l >= 1 /\ DOMAIN c.deftab = 1..l
  BY <1>1, ConfigFacts
<1>3. dt \in Seq(Deferral) /\ Len(dt) = l - 1 /\ DOMAIN dt = 1..l - 1 /\ \A i \in 1..l - 1 : dt[i] = c.deftab[i]
  BY <1>2, FrontIs
<1> HIDE DEF dt
<1>4. d \in Configs /\ d.fds = c.fds /\ d.deftab = dt /\ d.own = c.own
  BY <1>2, <1>3 DEF Configs, Popped, dt
<1> HIDE DEF d, l
<1>5. /\ \A i \in 1..l : i \in 1..l - 1 \/ i = l
      /\ l \in 1..l /\ \A i \in 1..l - 1 : i \in 1..l /\ i # l
  BY <1>2
<1>6. Reals(c) = Reals(d) \cup {real} /\ Owned(d) = Owned(c)
  <2>1. \A x \in Reals(d) : x \in Reals(c)
    BY <1>2, <1>3, <1>4, <1>5 DEF Reals
  <2>2. real \in Reals(c)
    BY <1>2, <1>5 DEF Reals
  <2>3. \A i \in 1..l - 1 : c.deftab[i].real \in Reals(d)
    BY <1>3, <1>4 DEF Reals
  <2>4. \A x \in Reals(c) : x \in Reals(d) \cup {real}
    BY <1>2, <1>5, <2>3 DEF Reals
  <2> QED BY <1>4, <2>1, <2>2, <2>4 DEF Owned
<1>7. real # -1 => real \notin Held(d)
  <2>1. real # -1 => \A i \in 1..l : c.deftab[i].real = real => i = l
    BY <1>1, <1>2, <1>5 DEF Apart
  <2>2. real # -1 => real \notin Reals(d)
    BY <1>3, <1>4, <1>5, <2>1 DEF Reals
  <2>3. real # -1 => real \notin Owned(d)
    BY <1>1, <1>2, <1>4, <1>5 DEF Apart, Owned
  <2> QED BY <2>2, <2>3 DEF Held
<1>8. Held(d) \cup One = Held(c) \cup {}
  BY <1>6 DEF Held
<1>9. Apart(d) /\ Sane(d)
  <2>1. \A i, j \in 1..l - 1 : dt[i].real = dt[j].real /\ dt[i].real # -1 => i = j
    <3>1. \A i, j \in 1..l : c.deftab[i].real = c.deftab[j].real /\ c.deftab[i].real # -1 => i = j
      BY <1>1, <1>2 DEF Apart
    <3> QED BY <1>3, <1>5, <3>1
  <2>2. \A i \in 1..l - 1, j \in DOMAIN c.own : dt[i].real = c.own[j] => c.own[j] = -1
    <3>1. \A i \in 1..l, j \in DOMAIN c.own : c.deftab[i].real = c.own[j] => c.own[j] = -1
      BY <1>1, <1>2 DEF Apart
    <3> QED BY <1>3, <1>5, <3>1
  <2>3. \A i \in 1..l - 1 : dt[i].real = -1 => dt[i].user \notin Standard
    BY <1>1, <1>2, <1>3, <1>5 DEF Sane
  <2> QED BY <1>1, <1>3, <1>4, <2>1, <2>2, <2>3 DEF Apart, Sane
<1>10. Ready(d, One, b)
  <2>1. One \cap Held(d) = {}
    BY <1>7
  <2> HIDE DEF One
  <2> QED BY <1>1, <1>4, <1>8, <1>9, <2>1 DEF Ready
<1>11. ASSUME NEW V, Asks(c, V) PROVE Asks(d, V)
  <2>1. \A i \in 0..l - 1 : i \in 0..l
    BY <1>2
  <2>2. /\ \A i \in 0..l : DOMAIN V[i] = FDs
        /\ \A i \in 1..l : V[i] = [V[i - 1] EXCEPT ![c.deftab[i].user] = Content(c.fds, c.deftab[i].real)]
    BY <1>11 DEF Asks, l
  <2>3. \A i \in 1..l - 1 : V[i] = [V[i - 1] EXCEPT ![dt[i].user] = Content(c.fds, dt[i].real)]
    BY <1>3, <1>5, <2>2
  <2> QED BY <1>3, <1>4, <2>1, <2>2, <2>3 DEF Asks
<1> QED BY <1>10, <1>11 DEF d, l

\* The last registered number is taken off.
Dropped(c) == [fds |-> c.fds, deftab |-> c.deftab, own |-> F!Front(c.own)]

LEMMA DropReady ==
    ASSUME NEW c, NEW b, Ready(c, {}, b), Len(c.own) >= 1
    PROVE  /\ Ready(Dropped(c), {c.own[Len(c.own)]} \ {-1}, b)
           /\ \A V : Asks(c, V) => Asks(Dropped(c), V)
<1> DEFINE l == Len(c.own)
           real == c.own[l]
           One == {real} \ {-1}
           ow == F!Front(c.own)
           d == Dropped(c)
<1>1. c \in Configs /\ Apart(c) /\ Sane(c) /\ Agree(c.fds, Held(c) \cup {}, b)
  BY DEF Ready
<1>2. /\ c.fds \in Tables /\ c.deftab \in Seq(Deferral) /\ c.own \in Seq(-1..MaxFd)
      /\ l \in Nat /\ l >= 1 /\ DOMAIN c.own = 1..l
  BY <1>1, ConfigFacts
<1>3. ow \in Seq(-1..MaxFd) /\ Len(ow) = l - 1 /\ DOMAIN ow = 1..l - 1 /\ \A i \in 1..l - 1 : ow[i] = c.own[i]
  BY <1>2, FrontIs
<1> HIDE DEF ow
<1>4. d \in Configs /\ d.fds = c.fds /\ d.deftab = c.deftab /\ d.own = ow
  BY <1>2, <1>3 DEF Configs, Dropped, ow
<1> HIDE DEF d, l
<1>5. /\ \A i \in 1..l : i \in 1..l - 1 \/ i = l
      /\ l \in 1..l /\ \A i \in 1..l - 1 : i \in 1..l /\ i # l
  BY <1>2
<1>6. Owned(c) = Owned(d) \cup {real} /\ Reals(d) = Reals(c)
  <2>1. \A x \in Owned(d) : x \in Owned(c)
    BY <1>2, <1>3, <1>4, <1>5 DEF Owned
  <2>2. real \in Owned(c)
    BY <1>2, <1>5 DEF Owned
  <2>3. \A i \in 1..l - 1 : c.own[i] \in Owned(d)
    BY <1>3, <1>4 DEF Owned
  <2>4. \A x \in Owned(c) : x \in Owned(d) \cup {real}
    BY <1>2, <1>5, <2>3 DEF Owned
  <2> QED BY <1>4, <2>1, <2>2, <2>4 DEF Reals
<1>7. real # -1 => real \notin Held(d)
  <2>1. real # -1 => \A i \in 1..l : c.own[i] = real => i = l
    BY <1>1, <1>2, <1>5 DEF Apart
  <2>2. real # -1 => real \notin Owned(d)
    BY <1>3, <1>4, <1>5, <2>1 DEF Owned
  <2>3. real # -1 => real \notin Reals(d)
    BY <1>1, <1>2, <1>4, <1>5 DEF Apart, Reals
  <2> QED BY <2>2, <2>3 DEF Held
<1>8. Held(d) \cup One = Held(c) \cup {}
  BY <1>6 DEF Held
<1>9. Apart(d) /\ Sane(d)
  <2>1. \A i, j \in 1..l - 1 : ow[i] = ow[j] /\ ow[i] # -1 => i = j
    <3>1. \A i, j \in 1..l : c.own[i] = c.own[j] /\ c.own[i] # -1 => i = j
      BY <1>1, <1>2 DEF Apart
    <3> QED BY <1>3, <1>5, <3>1
  <2>2. \A i \in DOMAIN c.deftab, j \in 1..l - 1 : c.deftab[i].real = ow[j] => ow[j] = -1
    <3>1. \A i \in DOMAIN c.deftab, j \in 1..l : c.deftab[i].real = c.own[j] => c.own[j] = -1
      BY <1>1, <1>2 DEF Apart
    <3> QED BY <1>3, <1>5, <3>1
  <2> QED BY <1>1, <1>3, <1>4, <2>1, <2>2 DEF Apart, Sane
<1>10. Ready(d, One, b)
  <2>1. One \cap Held(d) = {}
    BY <1>7
  <2> HIDE DEF One
  <2> QED BY <1>1, <1>4, <1>8, <1>9, <2>1 DEF Ready
<1>11. ASSUME NEW V, Asks(c, V) PROVE Asks(d, V)
  BY <1>4, <1>11 DEF Asks
<1> QED BY <1>10, <1>11 DEF d, l

\* A number that is no longer registered is closed.
LEMMA ReleaseClosed ==
    ASSUME NEW c, NEW b, NEW real \in -1..MaxFd, Ready(c, {real} \ {-1}, b),
           NEW d, d = [fds |-> F!Close(c.fds, real), deftab |-> c.deftab, own |-> c.own]
    PROVE  Ready(d, {}, b) /\ \A V : Asks(c, V) => Asks(d, V)
<1> DEFINE t == F!Close(c.fds, real)
           One == {real} \ {-1}
<1>1. /\ c \in Configs /\ Apart(c) /\ Sane(c) /\ One \cap Held(c) = {} /\ Agree(c.fds, Held(c) \cup One, b)
  BY DEF Ready
<1>2. /\ c.fds \in Tables /\ c.deftab \in Seq(Deferral) /\ c.own \in Seq(-1..MaxFd)
  BY <1>1, ConfigFacts
<1>3. t \in Tables /\ Agree(t, Held(c) \cup {}, b) /\ \A fd \in Held(c) : t[fd] = c.fds[fd]
  <2>1. CASE real = -1
    <3>1. t = c.fds /\ Held(c) \cup One = Held(c) \cup {}
      BY <2>1 DEF F!Close
    <3> QED BY <1>1, <1>2, <3>1
  <2>2. CASE real # -1
    <3> DEFINE X == Held(c) \cup One
    <3>1. real \in X /\ X \ {real} = Held(c) \cup {} /\ real \notin Held(c) /\ Held(c) \subseteq X
      BY <1>1, <2>2
    <3>2. Agree(c.fds, X, b)
      BY <1>1
    <3> HIDE DEF X
    <3>3. Shuts(c.fds, X, b, real, t)
      BY <1>2, <2>2, <3>1, <3>2, AgreeClose
    <3>4. X \subseteq FDs
      BY <3>2 DEF Agree
    <3> QED BY <3>1, <3>3, <3>4 DEF Shuts
  <2> QED BY <2>1, <2>2
<1> HIDE DEF t
<1>4. d.fds = t /\ d.deftab = c.deftab /\ d.own = c.own /\ d \in Configs
  BY <1>2, <1>3 DEF Configs, t
<1>5. Held(d) = Held(c) /\ Apart(d) /\ Sane(d)
  BY <1>1, <1>4 DEF Held, Reals, Owned, Apart, Sane
<1>6. Ready(d, {}, b)
  BY <1>3, <1>4, <1>5 DEF Ready
<1>7. ASSUME NEW V, Asks(c, V) PROVE Asks(d, V)
  <2>1. Len(c.deftab) \in Nat /\ DOMAIN c.deftab = 1..Len(c.deftab)
    BY <1>1, ConfigFacts
  <2>2. \A i \in 1..Len(c.deftab) : c.deftab[i].real # -1 => c.deftab[i].real \in Held(c)
    BY <2>1 DEF Held, Reals
  <2>3. \A i \in 1..Len(c.deftab) : Content(t, c.deftab[i].real) = Content(c.fds, c.deftab[i].real)
    BY <1>3, <2>2 DEF Content
  <2> QED BY <1>4, <1>7, <2>3 DEF Asks
<1> QED BY <1>6, <1>7

\* The innermost region is left; what it had is no longer deferred.
Leaving(kind, d, V) ==
    /\ kind \in {"redir", "input"} /\ scope[Len(scope)].kind = kind
    /\ Nested(d, V) /\ scope' = F!Front(scope) /\ Asks(F!table', V)
    /\ Len(deftab') = IF kind = "redir" THEN Len(deftab) - 1 ELSE Len(deftab)
Left == scope'[1] = scope[1] /\ Len(scope') = Len(scope) - 1

\* A region's place: an operation is deferred for one of redir, and an input is
\* registered for one of an input.
LEMMA PlaceIs ==
    ASSUME DescriptorsInv, NEW kind \in {"redir", "input"}, scope[Len(scope)].kind = kind,
           NEW d, NEW V, Nested(d, V)
    PROVE  /\ Len(scope) >= 2 /\ Len(deftab) \in Nat
           /\ d[Len(scope) - 1] = IF kind = "redir" THEN Len(deftab) - 1 ELSE Len(deftab)
           /\ d[Len(scope) - 1] \in 0..Len(scope) - 2
<1> DEFINE K == Len(scope)
           l == Len(deftab)
<1>1. K \in Nat \ {0} /\ scope[1].kind = "base"
  BY ViewFacts DEF DescriptorsInv
<1>2. K # 1
  BY <1>1
<1>3. /\ d[K] = l
      /\ \A k \in 1..K : d[k] \in 0..k - 1
      /\ \A k \in 2..K : d[k] = IF scope[k].kind = "redir" THEN d[k - 1] + 1 ELSE d[k - 1]
  BY DEF Nested
<1>4. l \in Nat
  <2>1. F!table \in Configs
    BY DEF DescriptorsInv, Ready
  <2> QED BY <2>1, StateFacts
<1>5. scope[K].kind = kind
  OBVIOUS
<1> HIDE DEF K, l
<1>6. K >= 2 /\ K \in 2..K /\ K - 1 \in 1..K /\ (K - 1) - 1 = K - 2
  BY <1>1, <1>2
<1>7. d[K - 1] \in 0..K - 2
  BY <1>3, <1>6
<1>8. d[K] = IF kind = "redir" THEN d[K - 1] + 1 ELSE d[K - 1]
  BY <1>3, <1>5, <1>6
<1>9. d[K - 1] \in Int
  BY <1>7
<1>10. d[K - 1] = IF kind = "redir" THEN l - 1 ELSE l
  BY <1>3, <1>4, <1>8, <1>9
<1> QED BY <1>4, <1>6, <1>7, <1>10 DEF K, l

LEMMA Leave ==
    ASSUME DescriptorsAssumption, DescriptorsInv, NEW kind, NEW d, NEW V, Leaving(kind, d, V)
    PROVE  Regions(V)' /\ Left
<1> DEFINE K == Len(scope)
<1>1. /\ kind \in {"redir", "input"} /\ scope[K].kind = kind
      /\ Nested(d, V) /\ scope' = F!Front(scope) /\ Asks(F!table', V)
      /\ Len(deftab') = IF kind = "redir" THEN Len(deftab) - 1 ELSE Len(deftab)
  BY DEF Leaving
<1>2. K >= 2 /\ d[K - 1] = Len(deftab')
  BY <1>1, PlaceIs
<1>3. scope \in Seq(RegionType) /\ K \in 1..MaxRegions /\ K \in Nat \ {0} /\ scope[1].kind = "base"
      /\ MaxRegions \in Nat
  BY ViewFacts DEF DescriptorsInv, DescriptorsAssumption
<1>4. /\ scope' \in Seq(RegionType) /\ Len(scope') = K - 1 /\ \A k \in 1..K - 1 : scope'[k] = scope[k]
  BY <1>1, <1>2, <1>3, FrontIs
<1>5. /\ V[0] = scope[1].view /\ d[1] = 0
      /\ \A k \in 1..K : d[k] \in 0..k - 1 /\ scope[k].view = V[d[k]]
      /\ \A j, k \in 1..K : j <= k => d[j] <= d[k]
      /\ \A k \in 2..K : d[k] = IF scope[k].kind = "redir" THEN d[k - 1] + 1 ELSE d[k - 1]
  BY <1>1 DEF Nested
<1>6. \A k \in 1..K : \A fd \in FDs \ Named : scope[k].view[fd] = "closed"
  BY DEF DescriptorsInv
<1> HIDE DEF K
<1>7. /\ 1 \in 1..K - 1 /\ \A k \in 1..K - 1 : k \in 1..K
      /\ \A k \in 2..K - 1 : k \in 2..K /\ k \in 1..K - 1
  BY <1>2, <1>3
<1>8. Nested(d, V)'
  <2> DEFINE L == Len(scope')
  <2>1. L = K - 1
    BY <1>4
  <2>2. V[0] = scope'[1].view /\ d[L] = Len(deftab')
    BY <1>2, <1>4, <1>5, <1>7
  <2>3. \A k \in 1..L : d[k] \in 0..k - 1 /\ scope'[k].view = V[d[k]]
    BY <1>4, <1>5, <1>7, <2>1
  <2>4. \A j, k \in 1..L : j <= k => d[j] <= d[k]
    BY <1>5, <1>7, <2>1
  <2>5. \A k \in 2..L : d[k] = IF scope'[k].kind = "redir" THEN d[k - 1] + 1 ELSE d[k - 1]
    BY <1>4, <1>5, <1>7, <2>1
  <2> QED BY <1>1, <1>5, <2>2, <2>3, <2>4, <2>5 DEF Nested
<1>9. \A k \in 1..Len(scope') : \A fd \in FDs \ Named : scope'[k].view[fd] = "closed"
  BY <1>4, <1>6, <1>7
<1>10. Len(scope') \in 1..MaxRegions /\ scope'[1].kind = "base" /\ Left
  BY <1>2, <1>3, <1>4, <1>7 DEF Left, K
<1> QED BY <1>4, <1>8, <1>9, <1>10 DEF Regions

\* What is left of the invariant when a region has been entered or left.
LEMMA RegionsInv ==
    ASSUME DescriptorsInv, NEW V, Regions(V)', Ready(F!table', {}, scope'[1].view),
           \A i \in DOMAIN deftab' : deftab'[i].user \in Users, Counted', UNCHANGED forks
    PROVE  DescriptorsInv'
<1>1. forks' \in Nat /\ \E e, U : Nested(e, U)'
  BY DEF DescriptorsInv, Regions
<1> QED BY <1>1 DEF DescriptorsInv, Regions

LEMMA UndeferStep ==
    ASSUME DescriptorsAssumption, DescriptorsInv, F!undefer
    PROVE  DescriptorsInv'
<1> DEFINE l == Len(deftab)
           real == deftab[l].real
           b == scope[1].view
<1>1. /\ scope[Len(scope)].kind = "redir"
      /\ fds' = F!Close(fds, real) /\ deftab' = F!Front(deftab) /\ scope' = F!Front(scope)
      /\ inputs' = inputs /\ forks' = forks
  BY DEF F!undefer, F!Last
<1>2. PICK d, V : Nested(d, V)
  BY DEF DescriptorsInv
<1>3. F!table \in Configs /\ Ready(F!table, {}, b) /\ Counted /\ \A i \in DOMAIN deftab : deftab[i].user \in Users
  BY DEF DescriptorsInv, Ready
<1>4. F!table.fds = fds /\ F!table.deftab = deftab /\ F!table.own = inputs
  BY DEF F!table
<1>5. deftab \in Seq(Deferral) /\ l \in Nat /\ DOMAIN deftab = 1..l /\ \A i \in 1..l : deftab[i] \in Deferral
  BY <1>3, StateFacts
<1>6. l >= 1
  <2>1. Len(scope) >= 2 /\ d[Len(scope) - 1] = l - 1 /\ d[Len(scope) - 1] \in 0..Len(scope) - 2
    <3>1. "redir" \in {"redir", "input"}
      OBVIOUS
    <3> QED BY <1>1, <1>2, <3>1, PlaceIs
  <2> QED BY <1>5, <2>1
<1>7. Ready(Popped(F!table), {real} \ {-1}, b) /\ Asks(Popped(F!table), V)
  <2>1. Asks(F!table, V)
    BY <1>2 DEF Nested
  <2> HIDE DEF F!table
  <2> QED BY <1>3, <1>4, <1>6, <2>1, PopReady
<1>8. Ready(F!table', {}, b) /\ Asks(F!table', V)
  <2>1. F!table' = [fds |-> F!Close(Popped(F!table).fds, real),
                    deftab |-> Popped(F!table).deftab, own |-> Popped(F!table).own]
    BY <1>1 DEF F!table, Popped
  <2>2. real \in -1..MaxFd
    BY <1>5, <1>6 DEF Deferral
  <2> HIDE DEF real, b
  <2> QED BY <1>7, <2>1, <2>2, ReleaseClosed
<1>9. Len(deftab') = l - 1 /\ \A i \in DOMAIN deftab' : deftab'[i].user \in Users
  <2>1. /\ Len(F!Front(deftab)) = l - 1 /\ DOMAIN F!Front(deftab) = 1..l - 1
        /\ \A i \in 1..l - 1 : F!Front(deftab)[i] = deftab[i]
    BY <1>5, <1>6, FrontIs
  <2>2. \A i \in 1..l - 1 : i \in 1..l
    BY <1>5
  <2> HIDE DEF l
  <2> QED BY <1>1, <1>3, <1>5, <2>1, <2>2
<1>10. Regions(V)' /\ Left
  <2>1. Leaving("redir", d, V)
    BY <1>1, <1>2, <1>8, <1>9 DEF Leaving
  <2> QED BY <2>1, Leave
<1>11. scope'[1] = scope[1] /\ Len(scope') = Len(scope) - 1
  BY <1>10 DEF Left
<1>12. Counted'
  <2>1. Inherited' = Inherited
    <3>1. Len(inputs) \in Nat /\ Len(scope) \in Nat
      BY <1>3, StateFacts, ViewFacts
    <3>2. Inherited' = Len(inputs) + (l - 1) + 1 - (Len(scope) - 1)
      BY <1>1, <1>9, <1>11 DEF Inherited
    <3>3. Inherited = Len(inputs) + l + 1 - Len(scope)
      BY DEF Inherited
    <3> HIDE DEF l
    <3> QED BY <1>5, <3>1, <3>2, <3>3
  <2> QED BY <1>1, <1>3, <2>1 DEF Counted
<1>13. Ready(F!table', {}, scope'[1].view)
  BY <1>8, <1>11
<1> QED BY <1>1, <1>9, <1>10, <1>12, <1>13, RegionsInv

LEMMA FdcleanupStep ==
    ASSUME DescriptorsAssumption, DescriptorsInv, F!fdcleanup
    PROVE  DescriptorsInv'
<1> DEFINE m == Len(inputs)
           l == Len(deftab)
           real == inputs[m]
           b == scope[1].view
<1>1. /\ scope[Len(scope)].kind = "input"
      /\ fds' = F!Close(fds, real) /\ inputs' = F!Front(inputs) /\ scope' = F!Front(scope)
      /\ deftab' = deftab /\ forks' = forks
  BY DEF F!fdcleanup, F!Last
<1>2. PICK d, V : Nested(d, V)
  BY DEF DescriptorsInv
<1>3. F!table \in Configs /\ Ready(F!table, {}, b) /\ Counted /\ \A i \in DOMAIN deftab : deftab[i].user \in Users
  BY DEF DescriptorsInv, Ready
<1>4. F!table.fds = fds /\ F!table.deftab = deftab /\ F!table.own = inputs
  BY DEF F!table
<1>5. /\ inputs \in Seq(-1..MaxFd) /\ m \in Nat /\ DOMAIN inputs = 1..m /\ \A i \in 1..m : inputs[i] \in -1..MaxFd
      /\ l \in Nat
  BY <1>3, StateFacts
<1>6. Inherited = m + l + 1 - Len(scope) /\ Inherited >= 0 /\ Len(scope) \in Nat
  BY <1>3, ViewFacts DEF Inherited, Counted
<1>7. m >= 1 /\ Inherited <= m - 1
  <2>1. Len(scope) >= 2 /\ d[Len(scope) - 1] = l /\ d[Len(scope) - 1] \in 0..Len(scope) - 2
    <3>1. "input" \in {"redir", "input"}
      OBVIOUS
    <3> QED BY <1>1, <1>2, <3>1, PlaceIs
  <2>2. l <= Len(scope) - 2
    BY <1>6, <2>1
  <2> HIDE DEF m, l
  <2> QED BY <1>5, <1>6, <2>2
<1>8. Ready(Dropped(F!table), {real} \ {-1}, b) /\ Asks(Dropped(F!table), V)
  <2>1. Asks(F!table, V)
    BY <1>2 DEF Nested
  <2> HIDE DEF F!table
  <2> QED BY <1>3, <1>4, <1>7, <2>1, DropReady
<1>9. Ready(F!table', {}, b) /\ Asks(F!table', V)
  <2>1. F!table' = [fds |-> F!Close(Dropped(F!table).fds, real),
                    deftab |-> Dropped(F!table).deftab, own |-> Dropped(F!table).own]
    BY <1>1 DEF F!table, Dropped
  <2>2. real \in -1..MaxFd
    BY <1>5, <1>7
  <2> HIDE DEF real, b
  <2> QED BY <1>8, <2>1, <2>2, ReleaseClosed
<1>10. Regions(V)' /\ Left
  <2>1. Leaving("input", d, V)
    BY <1>1, <1>2, <1>9 DEF Leaving
  <2> QED BY <2>1, Leave
<1>11. scope'[1] = scope[1] /\ Len(scope') = Len(scope) - 1
  BY <1>10, SMTT(40) DEF Left
<1>12. Len(inputs') = m - 1 /\ \A j \in 1..m - 1 : inputs'[j] = inputs[j]
  BY <1>1, <1>5, <1>7, FrontIs
<1>13. Counted'
  <2>1. Inherited' = Inherited
    <3>1. Inherited' = (m - 1) + l + 1 - (Len(scope) - 1)
      BY <1>1, <1>11, <1>12 DEF Inherited
    <3> HIDE DEF l, m
    <3> QED BY <1>5, <1>6, <3>1
  <2>2. \A j \in 1..Inherited : inputs'[j] = inputs[j]
    <3>1. \A j \in 1..Inherited : j \in 1..m - 1
      <4> HIDE DEF l, m
      <4> QED BY <1>5, <1>6, <1>7
    <3> QED BY <1>12, <3>1
  <2> QED BY <1>1, <1>3, <2>1, <2>2 DEF Counted
<1>14. Ready(F!table', {}, scope'[1].view)
  BY <1>9, <1>11
<1> QED BY <1>1, <1>3, <1>10, <1>13, <1>14, RegionsInv

LEMMA RunfdStep ==
    ASSUME DescriptorsAssumption, DescriptorsInv, F!runfd
    PROVE  DescriptorsInv'
<1> DEFINE m == Len(inputs)
           l == Len(deftab)
           p == F!Free(fds)
           b == scope[1].view
           o == Opened(F!table, p, "script")
           q == Registered(o, p)
<1>1. /\ F!CanEnter /\ fds' = [fds EXCEPT ![p] = "script"] /\ inputs' = Append(inputs, p)
      /\ scope' = F!Region("input", F!view) /\ deftab' = deftab /\ forks' = forks
  BY DEF F!runfd, F!Script
<1>2. PICK d, V : Nested(d, V)
  BY DEF DescriptorsInv
<1>3. F!table \in Configs /\ Ready(F!table, {}, b) /\ Counted /\ \A i \in DOMAIN deftab : deftab[i].user \in Users
  BY DEF DescriptorsInv, Ready
<1>4. F!table.fds = fds /\ F!table.deftab = deftab /\ F!table.own = inputs
  BY DEF F!table
<1>5. /\ inputs \in Seq(-1..MaxFd) /\ m \in Nat /\ DOMAIN inputs = 1..m /\ l \in Nat /\ fds \in Tables
  BY <1>3, StateFacts
<1>6. Inherited = m + l + 1 - Len(scope) /\ Inherited >= 0 /\ Len(scope) \in Nat
  BY <1>3, ViewFacts DEF Inherited, Counted
<1>7. p \in Vacant(fds)
  <2>1. Vacant(fds) # {} /\ MaxFd \in Nat
    <3>1. 3 \in Nat /\ 3 + 1 = 4
      OBVIOUS
    <3> QED BY <3>1, SpareRoom, RoomyUse DEF DescriptorsAssumption
  <2> QED BY <1>5, <2>1, FreeIs
<1>8. p \in FDs /\ p \in -1..MaxFd
  BY <1>7 DEF Vacant, FDs, F!FD
<1> HIDE DEF p
<1>10. Opens(F!table, {}, b, p, "script", o)
  <2>1. "script" \in Contents \ {"closed"}
    BY DEF Contents
  <2> QED BY <1>3, <1>4, <1>7, <2>1, OpenReady
<1> HIDE DEF o
<1>11. Registers(o, {} \cup {p}, b, p, q)
  <2>1. p \in {} \cup {p}
    OBVIOUS
  <2> QED BY <1>10, <2>1, RegisterReady DEF Opens
<1> HIDE DEF q, b
<1>9. F!table' = q
  <2>1. /\ q \in Configs /\ q.fds = [fds EXCEPT ![p] = "script"] /\ q.deftab = deftab
        /\ q.own = Append(inputs, p)
    BY <1>4, <1>10, <1>11 DEF Opens, Registers, Ready
  <2>2. q = [fds |-> q.fds, deftab |-> q.deftab, own |-> q.own]
    BY <2>1, ConfigIs
  <2>3. F!table' = [fds |-> fds', deftab |-> deftab', own |-> inputs']
    BY DEF F!table
  <2> QED BY <1>1, <2>1, <2>2, <2>3
<1>12. Ready(F!table', {}, b) /\ Asks(F!table', V)
  <2>1. ({} \cup {p}) \ {p} = {}
    OBVIOUS
  <2>2. Asks(F!table, V)
    BY <1>2 DEF Nested
  <2> HIDE DEF F!table
  <2> QED BY <1>9, <1>10, <1>11, <2>1, <2>2 DEF Opens, Registers
<1>13. Regions(V)' /\ Entered
  <2>1. PICK v : v = F!view
    OBVIOUS
  <2>2. V[l] = F!view
    <3>1. Len(scope) \in 1..Len(scope)
      BY ViewFacts
    <3> QED BY <1>2, <3>1, ViewFacts DEF Nested
  <2>3. v \in Tables /\ \A fd \in FDs \ Named : v[fd] = "closed"
    BY <2>1, ViewFacts
  <2>4. Entering("input", v, d, V, V)
    BY <1>1, <1>2, <1>12, <2>1, <2>2, <2>3 DEF Entering
  <2> QED BY <2>4, Enter
<1>14. scope'[1] = scope[1] /\ Len(scope') = Len(scope) + 1
  BY <1>13 DEF Entered
<1>15. Len(inputs') = m + 1 /\ \A j \in 1..m : inputs'[j] = inputs[j]
  <2>1. inputs' = Append(inputs, p)
    BY <1>1
  <2> QED BY <1>5, <1>8, <2>1
<1>16. Counted'
  <2>1. Inherited' = Inherited
    <3>1. Inherited' = (m + 1) + l + 1 - (Len(scope) + 1)
      BY <1>1, <1>14, <1>15 DEF Inherited
    <3> HIDE DEF l, m
    <3> QED BY <1>5, <1>6, <3>1
  <2>2. \A j \in 1..Inherited : inputs'[j] = inputs[j]
    <3>1. l <= Len(scope) - 1
      <4>1. Len(scope) \in 1..Len(scope)
        BY ViewFacts
      <4>2. l \in 0..Len(scope) - 1
        BY <1>2, <4>1 DEF Nested
      <4> HIDE DEF l
      <4> QED BY <1>5, <1>6, <4>2
    <3>2. \A j \in 1..Inherited : j \in 1..m
      <4> HIDE DEF l, m
      <4> QED BY <1>5, <1>6, <3>1
    <3> QED BY <1>15, <3>2
  <2> QED BY <1>1, <1>3, <2>1, <2>2 DEF Counted
<1>17. Ready(F!table', {}, scope'[1].view)
  BY <1>12, <1>14 DEF b
<1> QED BY <1>1, <1>3, <1>13, <1>16, <1>17, RegionsInv

LEMMA StdIs ==
    ASSUME MaxFd \in Nat
    PROVE  /\ F!Std \in Tables
           /\ \A fd \in FDs : F!Std[fd] = IF fd \in Standard THEN <<"in", "out", "err">>[fd + 1] ELSE "closed"
           /\ \A fd \in FDs : fd \in Standard => F!Std[fd] # "closed"
<1>1. F!Std = [fd \in FDs |-> IF fd <= 2 THEN <<"in", "out", "err">>[fd + 1] ELSE "closed"]
  BY DEF F!Std, F!View, F!Closed, FDs
<1>2. \A fd \in FDs : fd <= 2 <=> fd = 0 \/ fd = 1 \/ fd = 2
  BY DEF FDs, F!FD
<1>3. \A fd \in FDs : fd \in Standard <=> fd = 0 \/ fd = 1 \/ fd = 2
  BY DEF Standard
<1>4. \A fd \in FDs : F!Std[fd] = IF fd \in Standard THEN <<"in", "out", "err">>[fd + 1] ELSE "closed"
  BY <1>1, <1>2, <1>3
<1>5. ASSUME NEW fd \in FDs PROVE F!Std[fd] \in Contents /\ (fd \in Standard => F!Std[fd] # "closed")
  <2>1. CASE fd = 0
    BY <1>1, <1>2, <2>1 DEF Contents
  <2>2. CASE fd = 1
    BY <1>1, <1>2, <2>2, SMTT(40) DEF Contents
  <2>3. CASE fd = 2
    BY <1>1, <1>2, <2>3 DEF Contents
  <2>4. CASE fd \notin Standard
    BY <1>4, <2>4 DEF Contents
  <2> QED BY <1>3, <2>1, <2>2, <2>3, <2>4
<1> QED BY <1>1, <1>4, <1>5 DEF Tables

LEMMA DescriptorsInit ==
    ASSUME DescriptorsAssumption, F!Init
    PROVE  DescriptorsInv
<1> DEFINE e == [kind |-> "base", view |-> F!Std]
           c == [fds |-> [F!Std EXCEPT ![3] = "script"], deftab |-> <<>>, own |-> <<3>>]
<1>1. /\ fds = [F!Std EXCEPT ![3] = "script"] /\ deftab = <<>> /\ inputs = <<3>>
      /\ scope = <<e>> /\ forks = 0
  BY DEF F!Init, F!Script
<1>2. MaxFd \in Nat /\ 3 \in FDs /\ 3 \notin Standard /\ 3 \in -1..MaxFd /\ Standard \subseteq FDs /\ MaxRegions \in Nat \ {0}
  BY StandardFds DEF Standard, FDs, F!FD, DescriptorsAssumption
<1>3. F!Std \in Tables /\ F!Std[3] = "closed" /\ \A fd \in FDs \ Named : F!Std[fd] = "closed"
  BY <1>2, StdIs DEF Named
<1>4. \A fd \in Standard : F!Std[fd] # "closed"
  BY <1>2, StdIs
<1>5. "script" \in Contents \ {"closed"}
  BY DEF Contents
<1> HIDE DEF c
<1>6. c.fds = [F!Std EXCEPT ![3] = "script"] /\ c.deftab = <<>> /\ c.own = <<3>> /\ F!table = c
  BY <1>1 DEF c, F!table
<1>7. c.fds \in Tables /\ Agree(c.fds, {3}, F!Std)
  <2>1. c.fds \in Tables /\ \A fd \in FDs : c.fds[fd] = IF fd = 3 THEN "script" ELSE F!Std[fd]
    BY <1>2, <1>3, <1>5, <1>6 DEF Tables
  <2> QED BY <1>2, <1>3, <1>4, <1>5, <2>1 DEF Agree
<1>8. c \in Configs
  <2>1. <<>> \in Seq(Deferral) /\ <<3>> \in Seq(-1..MaxFd)
    BY <1>2
  <2> QED BY <1>6, <1>7, <2>1 DEF Configs, c
<1>9. Held(c) = {3} /\ Held(c) \cup {} = {3}
  BY <1>6 DEF Held, Reals, Owned
<1>10. Apart(c) /\ Sane(c)
  BY <1>6 DEF Apart, Sane
<1>11. Ready(c, {}, F!Std)
  BY <1>7, <1>8, <1>9, <1>10 DEF Ready
<1>12. e \in RegionType /\ e.kind = "base" /\ e.view = F!Std
  BY <1>3 DEF RegionType
<1> HIDE DEF e
<1>13. scope \in Seq(RegionType) /\ Len(scope) = 1 /\ scope[1] = e /\ Len(deftab) = 0 /\ Len(inputs) = 1
  BY <1>1, <1>12
<1>14. Counted
  BY <1>1, <1>13 DEF Counted, Inherited
<1>15. \E d, V : Nested(d, V)
  <2> DEFINE d == [k \in {1} |-> 0]
             V == [i \in {0} |-> F!Std]
  <2>1. Asks(c, V)
    <3>1. Len(c.deftab) = 0 /\ \A i \in 0..0 : V[i] = F!Std
      BY <1>6
    <3>2. DOMAIN F!Std = FDs
      BY <1>3 DEF Tables
    <3> HIDE DEF V
    <3> QED BY <1>6, <3>1, <3>2 DEF Asks
  <2>2. Nested(d, V)
    BY <1>6, <1>12, <1>13, <2>1 DEF Nested
  <2> QED BY <2>2
<1>16. Len(scope) \in 1..MaxRegions /\ forks \in Nat /\ scope[1].kind = "base" /\ scope[1].view = F!Std
  BY <1>1, <1>2, <1>12, <1>13
<1>17. \A i \in DOMAIN deftab : deftab[i].user \in Users
  BY <1>1
<1>18. \A k \in 1..Len(scope) : \A fd \in FDs \ Named : scope[k].view[fd] = "closed"
  BY <1>3, <1>13, <1>16
<1> QED BY <1>6, <1>11, <1>13, <1>14, <1>15, <1>16, <1>17, <1>18 DEF DescriptorsInv

LEMMA DescriptorsKept ==
    ASSUME DescriptorsInv, UNCHANGED fvars
    PROVE  DescriptorsInv'
<1>1. fds' = fds /\ deftab' = deftab /\ inputs' = inputs /\ scope' = scope /\ forks' = forks
  BY DEF fvars
<1>2. F!table' = F!table
  BY <1>1 DEF F!table
<1>3. Counted'
  BY <1>1 DEF DescriptorsInv, Counted, Inherited
<1>4. \E d, V : Nested(d, V)'
  <2>1. PICK d, V : Nested(d, V)
    BY DEF DescriptorsInv
  <2>2. Nested(d, V)'
    BY <1>1, <1>2, <2>1 DEF Nested
  <2> QED BY <2>2
<1> QED BY <1>1, <1>2, <1>3, <1>4 DEF DescriptorsInv

LEMMA DescriptorsStep ==
    ASSUME DescriptorsAssumption, DescriptorsInv, F!Next
    PROVE  DescriptorsInv'
<1>1. CASE \E u \in Closes : F!close(u)
  BY <1>1, CloseStep
<1>2. CASE \E u \in Users : F!openfile(u)
  BY <1>2, OpenfileStep
<1>3. CASE \E u \in Users : \E from \in Users \cup {0, 1, 2} : F!dup(from, u)
  BY <1>3, DupStep
<1>4. CASE F!undefer
  BY <1>4, UndeferStep
<1>5. CASE F!runfd
  BY <1>5, RunfdStep
<1>6. CASE F!fdcleanup
  BY <1>6, FdcleanupStep
<1>7. CASE F!efork
  BY <1>7, EforkStep
<1>8. CASE F!reader
  BY <1>8, ReaderStep
<1>9. CASE F!writer
  BY <1>9, WriterStep
<1>10. CASE \E n \in Ins, m \in Outs : \E first \in BOOLEAN : F!pipe(first, FALSE, n, m)
  <2>1. PICK n \in Ins, m \in Outs, first \in BOOLEAN : F!pipe(first, FALSE, n, m)
    BY <1>10
  <2>2. n \in Standard /\ m \in Standard
    BY DEF DescriptorsAssumption
  <2>3. CASE first = TRUE
    BY <2>1, <2>2, <2>3, PipeFirst
  <2>4. CASE first = FALSE
    BY <2>1, <2>2, <2>4, PipeMiddle
  <2> QED BY <2>3, <2>4
<1>11. CASE \E n \in Ins, m \in Outs : (\A i \in DOMAIN deftab : deftab[i].user <= 2) /\ F!pipe(FALSE, TRUE, n, m)
  <2>1. PICK n \in Ins, m \in Outs : (\A i \in DOMAIN deftab : deftab[i].user <= 2) /\ F!pipe(FALSE, TRUE, n, m)
    BY <1>11
  <2>2. n \in Standard
    BY DEF DescriptorsAssumption
  <2> QED BY <2>1, <2>2, PipeLast
<1>12. ~Numbered
  BY DEF DescriptorsAssumption
<1> QED BY <1>1, <1>2, <1>3, <1>4, <1>5, <1>6, <1>7, <1>8, <1>9, <1>10, <1>11, <1>12 DEF F!Next

\* The invariant of the descriptor table and of what is registered and deferred
\* (fd.c): what the shell holds is on numbers that the user has nothing on.
THEOREM DescriptorsInvariant == DescriptorsAssumption => (Spec => []DescriptorsInv)
<1> SUFFICES ASSUME DescriptorsAssumption PROVE Spec => []DescriptorsInv
  OBVIOUS
<1>1. Init => DescriptorsInv
  BY DescriptorsInit DEF Init
<1>2. DescriptorsInv /\ [Next]_<<part, pvars, dvars, hvars, fvars, cvars>> => DescriptorsInv'
  <2> SUFFICES ASSUME DescriptorsInv, [Next]_<<part, pvars, dvars, hvars, fvars, cvars>>
               PROVE  DescriptorsInv'
    OBVIOUS
  <2>1. F!Next \/ UNCHANGED fvars
    BY DEF Next
  <2> QED BY <2>1, DescriptorsStep, DescriptorsKept
<1> QED BY <1>1, <1>2, PTL DEF Spec

\* A child that has nothing deferred has exactly the descriptors the user has
\* asked for (fd.c:117-124, 178-194), and a number that the user speaks of maps
\* to what the user has on it (fd.c:92-104).
THEOREM ChildrenAsAsked == DescriptorsAssumption => (Spec => []AsAsked)
<1> SUFFICES ASSUME DescriptorsAssumption PROVE Spec => []AsAsked
  OBVIOUS
<1>1. DescriptorsInv => AsAsked
  <2>1. MaxFd \in Nat /\ ~Chained
    BY DEF DescriptorsAssumption
  <2> QED BY <2>1, ChildAsAsked, MapsAsAsked DEF AsAsked, F!AsAsked
<1> QED BY <1>1, DescriptorsInvariant, PTL

\* %newfd gives a number that hides no redirection in effect and no descriptor
\* of the shell (fd.c:205-224).
THEOREM NewfdIsUnused == DescriptorsAssumption => (Spec => []NewfdUnused)
<1> SUFFICES ASSUME DescriptorsAssumption PROVE Spec => []NewfdUnused
  OBVIOUS
<1>1. DescriptorsInv => NewfdUnused
  BY NewfdIs DEF NewfdUnused
<1> QED BY <1>1, DescriptorsInvariant, PTL

-----------------------------------------------------------------------------
(***************************************************************************)
(* The control stacks                                                      *)
(***************************************************************************)
CC == INSTANCE ControlProofs

\* Settors do not throw, and have room for what they evaluate.
OrderlyWorlds == CC!OrderlyWorlds

\* Both instances compute the same on every state of the stacks.
LEMMA SameFrames ==
    /\ C!NoThrow = CC!NoThrow /\ C!Root = CC!Root
    /\ C!Catching = CC!Catching /\ C!Evaluated = CC!Evaluated
    /\ C!Vars = CC!Vars /\ C!Exceptions = CC!Exceptions
    /\ \A kind, v, inchild, stage : C!Frame(kind, v, inchild, stage) = CC!Frame(kind, v, inchild, stage)
    /\ \A q : C!Front(q) = CC!Front(q) /\ C!Last(q) = CC!Last(q)
BY DEF C!NoThrow, CC!NoThrow, C!Root, CC!Root, C!Catching, CC!Catching, C!Evaluated, CC!Evaluated,
       C!Vars, CC!Vars, C!Exceptions, CC!Exceptions, C!Front, CC!Front, C!Last, CC!Last,
       C!Frame, CC!Frame

LEMMA SameStacks ==
    /\ \A t, v : C!Push(t, v) = CC!Push(t, v)
    /\ \A t : /\ C!Pop(t) = CC!Pop(t) /\ C!pushhandler(t) = CC!pushhandler(t)
              /\ C!pophandler(t) = CC!pophandler(t) /\ C!unblocksignals(t) = CC!unblocksignals(t)
    /\ \A t, why : C!Dead(t, why) = CC!Dead(t, why)
    /\ \A t, stage : C!Stage(t, stage) = CC!Stage(t, stage)
BY SameFrames, SMTT(40) DEF C!Push, CC!Push, C!Pop, CC!Pop, C!pushhandler, CC!pushhandler, C!Handler, CC!Handler,
                  C!pophandler, CC!pophandler, C!unblocksignals, CC!unblocksignals,
                  C!Dead, CC!Dead, C!Stage, CC!Stage

LEMMA SameThrow ==
    /\ \A t : C!Return(t) = CC!Return(t)
    /\ \A t, e : C!Throw(t, e) = CC!Throw(t, e)
    /\ \A t, kind : C!Eval(t, kind) = CC!Eval(t, kind) /\ C!TooDeep(t, kind) = CC!TooDeep(t, kind)
    /\ \A t : C!Handed(t) = CC!Handed(t)
    /\ \A kind, inchild : C!Inchild(kind, inchild) = CC!Inchild(kind, inchild)
BY SameFrames, SameStacks, ZenonT(60)
   DEF C!Return, CC!Return, C!Throw, CC!Throw, C!Eval, CC!Eval, C!TooDeep, CC!TooDeep,
       C!Handed, CC!Handed, C!Inchild, CC!Inchild, C!keepInchild, CC!keepInchild

LEMMA SameSettor ==
    /\ \A t, v : C!callsettor(t, v) = CC!callsettor(t, v)
    /\ \A t, v : C!Bind(t, v) = CC!Bind(t, v)
    /\ \A t, thr : C!Resume(t, thr) = CC!Resume(t, thr)
BY SameFrames, SameStacks, SameThrow
   DEF C!callsettor, CC!callsettor, C!Bind, CC!Bind, C!Resume, CC!Resume

LEMMA SameAdds ==
    /\ \A u : /\ C!runinput(u) = CC!runinput(u) /\ C!lambda(u) = CC!lambda(u)
              /\ C!redir(u) = CC!redir(u) /\ C!readfrom(u) = CC!readfrom(u)
              /\ C!batchloop(u) = CC!batchloop(u) /\ C!catch(u) = CC!catch(u)
              /\ C!forloop(u) = CC!forloop(u) /\ C!newchildcatcher(u) = CC!newchildcatcher(u)
    /\ \A u, v : C!localbind(u, v) = CC!localbind(u, v)
BY SameFrames, SameStacks, SameSettor
   DEF C!runinput, CC!runinput, C!lambda, CC!lambda, C!redir, CC!redir, C!readfrom, CC!readfrom,
       C!batchloop, CC!batchloop, C!catch, CC!catch, C!forloop, CC!forloop,
       C!newchildcatcher, CC!newchildcatcher, C!localbind, CC!localbind

LEMMA SameEnter ==
    ASSUME NEW t, NEW v,
           NEW kind \in {"run", "loop", "catch", "fn", "for", "redir", "readfrom", "writeto",
                        "local", "seq", "exec", "child"}
    PROVE  C!Enter(t, kind, v) = CC!Enter(t, kind, v)
<1>1. C!Inchild(kind, C!Handed(t)) = CC!Inchild(kind, CC!Handed(t))
  BY SameThrow, Zenon
<1> QED BY <1>1, SameFrames, SameThrow, SameAdds DEF C!Enter, CC!Enter

LEMMA SameCaught == \A t, e : C!Caught(t, e) = CC!Caught(t, e)
<1>1. \A t, e : C!Rethrow(t, e) = CC!Rethrow(t, e)
  BY SameThrow DEF C!Rethrow, CC!Rethrow
<1>2. \A t, e, c : C!ReturnOn(t, e, c) = CC!ReturnOn(t, e, c)
  BY <1>1, SameThrow DEF C!ReturnOn, CC!ReturnOn
<1>3. \A t, kind : C!Becomes(t, kind) = CC!Becomes(t, kind)
  BY SameFrames, SameStacks DEF C!Becomes, CC!Becomes
<1>4. /\ \A t : C!frombody(t) = CC!frombody(t) /\ C!endinput(t) = CC!endinput(t) /\ C!undefer(t) = CC!undefer(t)
      /\ \A t, e : C!fromcatcher(t, e) = CC!fromcatcher(t, e)
  BY <1>1, <1>3, SameFrames, SameStacks
     DEF C!frombody, CC!frombody, C!endinput, CC!endinput, C!undefer, CC!undefer,
         C!fromcatcher, CC!fromcatcher
<1> QED BY <1>1, <1>2, <1>4, SameFrames, SameStacks DEF C!Caught, CC!Caught

LEMMA SameUnwind == C!Unwind(s) = CC!Unwind(s)
BY SameFrames, SameStacks, SameSettor, SameCaught DEF C!Unwind, CC!Unwind

LEMMA SameLeave == C!Leave(s) = CC!Leave(s)
<1>1. \A f, t : C!settorends(f, t) = CC!settorends(f, t)
  BY DEF C!settorends, CC!settorends, C!Resume, CC!Resume, C!Pop, CC!Pop, C!Front, CC!Front,
         C!Return, CC!Return, C!Last, CC!Last, C!Evaluated, CC!Evaluated, C!Bind, CC!Bind,
         C!Stage, CC!Stage, C!Push, CC!Push, C!NoThrow, CC!NoThrow
<1>2. /\ \A t : C!endinput(t) = CC!endinput(t) /\ C!undefer(t) = CC!undefer(t) /\ C!LeaveFor(t) = CC!LeaveFor(t)
  BY SameFrames, SameStacks, SameThrow
     DEF C!endinput, CC!endinput, C!undefer, CC!undefer, C!LeaveFor, CC!LeaveFor
<1> QED BY <1>1, <1>2, SameFrames, SameStacks, SameThrow, SameSettor DEF C!Leave, CC!Leave

LEMMA SameControl ==
    /\ C!Running = CC!Running
    /\ C!Init => CC!Init
    /\ C!Next => CC!Next
<1>1. C!Running <=> CC!Running
  BY SameFrames DEF C!Running, CC!Running
<1>2. C!Init => CC!Init
  BY SameFrames DEF C!Init, CC!Init
<1>3. ASSUME NEW kind \in {"run", "loop", "catch", "fn", "for", "redir", "readfrom", "writeto",
                          "local", "seq", "exec", "child"}, NEW v
      PROVE  C!begin(kind, v) => CC!begin(kind, v)
  BY <1>1, SameEnter DEF C!begin, CC!begin
<1>4. C!end => CC!end
  BY <1>1, SameFrames, SameLeave DEF C!end, CC!end, C!Top, CC!Top
<1>5. C!unwind => CC!unwind
  BY SameFrames, SameUnwind DEF C!unwind, CC!unwind
<1>6. C!execve => CC!execve
  BY <1>1, SameStacks, SameThrow DEF C!execve, CC!execve
<1>7. C!catcher => CC!catcher
  BY DEF C!catcher, CC!catcher
<1>8. C!sigchk => CC!sigchk
  BY <1>1, SameStacks, SameThrow DEF C!sigchk, CC!sigchk
<1>9. \A e : C!throw(e) => CC!throw(e)
  <2>1. \A e : C!Contained(e) <=> CC!Contained(e)
    BY DEF C!Contained, CC!Contained, C!Stops, CC!Stops
  <2> QED BY <1>1, <2>1, SameThrow DEF C!throw, CC!throw
<1>10. C!Next => CC!Next
  <2>1. ASSUME NEW kind \in (C!Catching \cup C!Evaluated) \ {"main", "catcher", "settor"},
               C!begin(kind, "")
        PROVE  kind \in (CC!Catching \cup CC!Evaluated) \ {"main", "catcher", "settor"}
               /\ CC!begin(kind, "")
    <3>1. kind \in {"run", "loop", "catch", "fn", "for", "redir", "readfrom", "writeto",
                    "local", "seq", "exec", "child"}
      BY DEF C!Catching, C!Evaluated
    <3> QED BY <2>1, <3>1, <1>3, SameFrames
  <2> QED BY <2>1, <1>3, <1>4, <1>5, <1>6, <1>7, <1>8, <1>9, SameFrames, ZenonT(60) DEF C!Next, CC!Next
<1> QED BY <1>1, <1>2, <1>10

LEMMA ControlSpec == Spec => CC!Spec
<1>1. Init => CC!Init
  BY SameControl DEF Init
<1>2. [Next]_<<part, pvars, dvars, hvars, fvars, cvars>> => [CC!Next]_(CC!vars)
  BY SameControl DEF Next, cvars, CC!vars
<1> QED BY <1>1, <1>2, PTL DEF Spec, CC!Spec

\* tophandler leads to the innermost construct under way, and below it every
\* handler to the next, whatever was thrown, caught and retried, by settors, by
\* signals and by too deep an evaluation too: in any world, at any depth
\* (except.c:13-26, 65-68; eval.c:389-415; prim-ctl.c:58-89).
THEOREM HandlersStayLive == Spec => []HandlersLive
<1>1. CC!HandlersLive => HandlersLive
  BY SameControl, SameFrames
     DEF HandlersLive, C!HandlersLive, CC!HandlersLive, C!Frames, CC!Frames, C!InOrder, CC!InOrder,
         C!Range, CC!Range, C!Kind, CC!Kind, C!InParent, CC!InParent, C!Taken, CC!Taken,
         C!Passed, CC!Passed, C!Suspended, CC!Suspended
<1> QED BY <1>1, ControlSpec, CC!HandlersStayLive, PTL

\* In every world whose settors do not throw and have room for what they
\* evaluate, the dynamic bindings, the input sources, the deferred redirections,
\* the count of blocked signals and evaldepth are, whenever the program runs,
\* those of the constructs under way, whatever was thrown, caught and retried
\* (var.c:203-266, except.c:28-31; input.cpp:784-814; prim-ctl.c:67-85;
\* eval.c:360-466).
THEOREM StacksStayMatched == ASSUME OrderlyWorlds PROVE Spec => []StacksMatch
<1>1. CC!StacksMatch => StacksMatch
  <2>1. CC!BindingsMatch => C!BindingsMatch
    BY DEF C!BindingsMatch, CC!BindingsMatch, C!Bound, CC!Bound, C!NoThrow, CC!NoThrow,
           C!Running, CC!Running
  <2>2. CC!SourcesMatch => C!SourcesMatch
    BY DEF C!Running, CC!Running, C!NoThrow, CC!NoThrow, C!SourcesMatch, CC!SourcesMatch, C!Frames,
         CC!Frames, C!InOrder, CC!InOrder,
         C!Range, CC!Range, C!Kind, CC!Kind, C!InParent, CC!InParent,
         C!Passed, CC!Passed, C!Suspended, CC!Suspended
  <2>3. CC!CountersMatch => C!CountersMatch
    BY DEF C!Running, CC!Running, C!NoThrow, CC!NoThrow, C!Evaluated, CC!Evaluated,
         C!CountersMatch, CC!CountersMatch, C!Frames, CC!Frames,
         C!Kind, CC!Kind, C!InParent, CC!InParent,
         C!Passed, CC!Passed, C!Suspended, CC!Suspended, C!Cardinality, CC!Cardinality
  <2> QED BY <2>1, <2>2, <2>3, ZenonT(60) DEF StacksMatch, C!StacksMatch, CC!StacksMatch
<1> QED BY <1>1, ControlSpec, CC!StacksStayMatched, PTL DEF OrderlyWorlds

\* In the same worlds a throw that a settor suspends goes on, with its exception
\* and its handler, whenever the settor's frame is gone, whatever was thrown and
\* caught in the settor (except.c:28-31).
THEOREM ThrowsGoOn == ASSUME OrderlyWorlds PROVE Spec => ExceptionKept
<1>1. CC!ExceptionKept => ExceptionKept
  BY DEF C!NoThrow, CC!NoThrow, ExceptionKept, C!ExceptionKept, CC!ExceptionKept
<1> QED BY <1>1, ControlSpec, CC!ThrowsGoOn, PTL DEF OrderlyWorlds

\* A command takes the place of the process only where a fork or exec is under
\* way and no construct from there on has anything left to do, but for readfrom
\* and writeto, which wait for a child: in any world (prim-ctl.c:10,
\* input.cpp:781, eval.c:220; prim-io.c:308-318, 349-360).
THEOREM ExecEndsShell == Spec => ExecIsLast
<1>1. CC!ExecIsLast => ExecIsLast
  BY SameFrames DEF ExecIsLast, C!ExecIsLast, CC!ExecIsLast, C!ExecUnder, CC!ExecUnder,
                    C!LeavesNothing, CC!LeavesNothing, C!Unwaited, CC!Unwaited,
                    C!Kind, CC!Kind
<1> QED BY <1>1, ControlSpec, CC!ExecEndsShell, PTL
=============================================================================
