-------------------------------- MODULE Dict --------------------------------
(***************************************************************************)
(* The dictionaries of dict.c, where the shell keeps its variables and its *)
(* primitives: hash tables with open addressing whose size is a power of   *)
(* two. A removed name leaves DEAD behind, so that the probes for others   *)
(* go on; remain counts the free slots that may still be taken before the  *)
(* table is copied to one twice the size. The hash is a constant: any.     *)
(*                                                                         *)
(* rmBare is a slip that the properties exclude; no specification uses it. *)
(***************************************************************************)
EXTENDS Naturals, FiniteSets

CONSTANTS
    Names, Values,
    Hashes,      \* the hash functions to be tried, from Names to numbers
    MaxSize      \* bound: a table of this size is not grown

Free == "free"                         \* a slot whose name is NULL
DEAD == "DEAD"

VARIABLES
    strhash,   \* the hash function
    dict,      \* [name, value, remain]: the slots, from 0, and the counter
    call       \* the name and the value of the last dictput

vars == <<strhash, dict, call>>

NoValue == "none"
REMAIN(n) == (n * 2) \div 3
mkdict(size) == [name   |-> [i \in 0..size - 1 |-> Free],
                 value  |-> [i \in 0..size - 1 |-> NoValue],
                 remain |-> REMAIN(size)]
size(d) == Cardinality(DOMAIN d.name)

(***************************************************************************)
(* Probing: the slots from i on, round the table, in the order of the      *)
(* loops `for (;; n++)' of get, put and rm.                                *)
(***************************************************************************)
Probe(d, i, P(_)) ==
    LET at(k) == (i + k) % size(d)
        hits  == {k \in DOMAIN d.name : P(d.name[at(k)])}
    IN  IF hits = {} THEN size(d) ELSE at(CHOOSE k \in hits : \A m \in hits : k <= m)
Found(d, i) == i \in DOMAIN d.name        \* else the loop would not end

slot(d, nm) == Probe(d, strhash[nm], LAMBDA x : x \in {nm, Free})
get(d, nm) == LET i == slot(d, nm)
              IN  IF Found(d, i) /\ d.name[i] = nm THEN d.value[i] ELSE NoValue

\* put: the first slot that is free or dead takes the name; only a free one is
\* counted.
putIn(d, nm, v) ==
    LET i == Probe(d, strhash[nm], LAMBDA x : x \in {Free, DEAD})
    IN  [name   |-> [d.name EXCEPT ![i] = nm], value |-> [d.value EXCEPT ![i] = v],
         remain |-> IF d.name[i] = Free THEN d.remain - 1 ELSE d.remain]

\* dictforall: the slots in use, in the order of the table.
dictforall(d, F(_, _, _), to) ==
    LET done[n \in 0..size(d)] ==
          IF n = 0 THEN to
          ELSE IF d.name[n - 1] \in {Free, DEAD} THEN done[n - 1]
          ELSE F(done[n - 1], d.name[n - 1], d.value[n - 1])
    IN  done[size(d)]

GROW(d) == dictforall(d, putIn, mkdict(2 * size(d)))
put(d, nm, v) == putIn(IF d.remain <= 1 THEN GROW(d) ELSE d, nm, v)

\* rm: the slot is dead. If nothing but dead slots lie between it and a free
\* one, they and the dead ones before it are free again.
rmBare(d, i) == [d EXCEPT !.name[i] = Free, !.value[i] = NoValue, !.remain = @ + 1]
rm(d, i) ==
    LET dead  == [d EXCEPT !.name[i] = DEAD, !.value[i] = NoValue]
        after == Probe(dead, i + 1, LAMBDA x : x # DEAD)
        n     == size(d)
        run   == {j \in DOMAIN d.name : \A k \in 1..(after + n - j) % n :
                                          dead.name[(j + k - 1) % n] = DEAD}
    IN  IF dead.name[after] # Free THEN dead
        ELSE [dead EXCEPT !.name = [j \in DOMAIN d.name |-> IF j \in run THEN Free ELSE dead.name[j]],
                          !.remain = @ + Cardinality(run \ {after})]

\* dictput: a NULL value removes the name.
dictput(d, nm, v) ==
    LET i == slot(d, nm)
    IN  CASE v # NoValue /\ get(d, nm) = NoValue -> put(d, nm, v)
          [] v # NoValue /\ get(d, nm) # NoValue -> [d EXCEPT !.value[i] = v]
          [] v = NoValue /\ get(d, nm) # NoValue -> rm(d, i)
          [] OTHER -> d

-----------------------------------------------------------------------------
Init == /\ strhash \in Hashes
        /\ dict = mkdict(2)
        /\ call = <<>>

Put(nm, v) ==
    /\ v = NoValue \/ get(dict, nm) # NoValue \/ dict.remain > 1 \/ size(dict) < MaxSize
    /\ dict' = dictput(dict, nm, v)
    /\ call' = <<nm, v>>
    /\ UNCHANGED strhash

Next == \E nm \in Names, v \in Values \cup {NoValue} : Put(nm, v)

Spec == Init /\ [][Next]_vars
-----------------------------------------------------------------------------
(***************************************************************************)
(* Properties                                                              *)
(***************************************************************************)
\* The table implements a map: whatever names have collided, been removed and
\* put again, a call changes what get returns for its name and for no other,
\* also when the table grows (dict.c:105-162).
Map == INSTANCE NameMap WITH Names <- Names, Values <- Values, NoValue <- NoValue,
                             map <- [nm \in Names |-> get(dict, nm)], call <- call
ImplementsMap == Map!Spec
=============================================================================
