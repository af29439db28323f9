-------------------------------- MODULE Words --------------------------------
(***************************************************************************)
(* From the parse tree of a command's arguments to its words: glom builds  *)
(* the list of terms and, in step with it, the list of their quote flags   *)
(* (glom.cpp); glob expands ~ and the wildcards that no quote covers       *)
(* (glob.cpp).  A string is a sequence of characters.                      *)
(***************************************************************************)
EXTENDS Wildcards

CONSTANTS
    Trees,      \* the argument trees
    Values,     \* the variables: the list of terms each name stands for
    Home,       \* what %home returns for each user name, for no name <<>>
    Files,      \* the file system: "dir" or "file" for each absolute path
    Cwd         \* the current directory, a path: a sequence of names

VARIABLES tree, list, quote, lp, fault, phase

vars == <<tree, list, quote, lp, fault, phase>>

-----------------------------------------------------------------------------
(* Terms and lists (term.c, list.c) *)

mkstr(s) == [str |-> s, closure |-> FALSE]
mkclosure(s) == [str |-> s, closure |-> TRUE]   \* a closure and its printed form
getstr(t) == t.str
termcat(t, u) == mkstr(getstr(t) \o getstr(u))
\* The cross product of two lists, the first one's elements turning slowest.
Product(a, b, op(_, _)) == FlattenSeq([i \in DOMAIN a |-> [j \in DOMAIN b |-> op(a[i], b[j])]])
concat(l1, l2) == Product(l1, l2, termcat)

Flags(q, s) == IF q = QUOTED THEN [n \in DOMAIN s |-> "q"]
               ELSE IF q = UNQUOTED THEN [n \in DOMAIN s |-> "r"] ELSE q
\* A term with its flags; qcat.
qcat(x, y) ==
    [t |-> termcat(x.t, y.t),
     q |-> IF x.q = y.q /\ x.q \in {QUOTED, UNQUOTED} THEN x.q
           ELSE Flags(x.q, getstr(x.t)) \o Flags(y.q, getstr(y.t))]
qconcat(l1, l2) == Product(l1, l2, qcat)

Digit == [c \in {"0", "1", "2", "3"} |->
            CASE c = "0" -> 0 [] c = "1" -> 1 [] c = "2" -> 2 [] c = "3" -> 3]
atoi(s) ==
    LET n == Max({m \in 0..Len(s) : \A i \in 1..m : s[i] \in DOMAIN Digit})
    IN  FoldLeft(LAMBDA v, c : 10 * v + Digit[c], 0, SubSeq(s, 1, n))

DOTS == <<".", ".", ".">>
BAD == <<mkstr(<<"bad subscript">>)>>
\* subscript: a subscript is a number or a range, open when "..." ends the list;
\* a "..." before anything else begins a range at 1.
subscript(l, subs) ==
    LET word(n) == getstr(subs[n])
        range(n) == n <= Len(subs) /\ word(n) = DOTS
        pick(lo, hi) == SubSeq(l, lo, IF hi > Len(l) THEN Len(l) ELSE hi)
        loop[n \in 1..Len(subs) + 2] ==
            LET first == n = 1 /\ range(1)
                lo == IF first THEN 1 ELSE atoi(word(n))
                m == IF first THEN 1 ELSE n + 1
                hi == IF ~range(m) THEN lo ELSE IF m = Len(subs) THEN Len(l) ELSE atoi(word(m + 1))
                rest == loop[IF range(m) THEN m + 2 ELSE m]
            IN  IF n > Len(subs) THEN <<>>
                ELSE IF lo < 1 \/ (hi < 1 /\ m # Len(subs)) \/ rest = BAD THEN BAD
                ELSE pick(lo, hi) \o rest
    IN  loop[1]

-----------------------------------------------------------------------------
(* glom1 and glom2: lists of terms, or a fault.  A tree is a record whose    *)
(* field k is the kind of its node.                                          *)

Ok(l) == [l |-> l, fault |-> ""]
Fail(what) == [l |-> <<>>, fault |-> what]
\* The first fault, or the two results put together.
Both(x, y, op(_, _)) == IF x.fault # "" THEN x ELSE IF y.fault # "" THEN y ELSE Ok(op(x.l, y.l))
Joined(l1, l2) == l1 \o l2
varlookup(name) == IF name \in DOMAIN Values THEN Values[name] ELSE <<>>

RECURSIVE glom1(_), glom2(_)
glom1(tp) ==
    CASE tp.k \in {"Qword", "Word"} -> Ok(<<mkstr(tp.s)>>)
      [] tp.k = "Thunk" -> Ok(<<mkclosure(tp.s)>>)
      [] tp.k = "Var" ->
            LET var == glom1(tp.p)
            IN  IF var.fault # "" THEN var
                ELSE Ok(FlattenSeq([n \in DOMAIN var.l |-> varlookup(getstr(var.l[n]))]))
      [] tp.k = "Varsub" ->
            LET var == glom1(tp.p)
                sub == glom1(tp.sub)
            IN  IF var.fault # "" THEN var
                ELSE IF var.l = <<>> THEN Fail("null variable name in subscript")
                ELSE IF Len(var.l) > 1 THEN Fail("multi-word variable name in subscript")
                ELSE IF sub.fault # "" THEN sub
                ELSE LET l == subscript(varlookup(getstr(var.l[1])), sub.l)
                     IN  IF l = BAD THEN Fail("bad subscript") ELSE Ok(l)
      [] tp.k = "Call" -> Ok(tp.value)          \* walk: external
      [] tp.k = "List" -> Both(glom1(tp.p), glom1(tp.next), Joined)
      [] tp.k = "Concat" -> Both(glom1(tp.p), glom1(tp.sub), concat)
      [] tp.k = "Nil" -> Ok(<<>>)

glom2(tp) ==
    CASE tp.k = "Word" -> Ok(<<[t |-> mkstr(tp.s), q |-> UNQUOTED]>>)
      [] tp.k = "List" -> Both(glom2(tp.p), glom2(tp.next), Joined)
      [] tp.k = "Concat" -> Both(glom2(tp.p), glom2(tp.sub), qconcat)
      [] OTHER -> LET r == glom1(tp)
                  IN  [r EXCEPT !.l = [n \in DOMAIN r.l |-> [t |-> r.l[n], q |-> QUOTED]]]

-----------------------------------------------------------------------------
(* The file system, external: stat, lstat and readdir *)

\* The names in a path name, and the path it leads to, or None.
None == <<<<>>>>          \* no path has an empty name
Cuts(s) == {0, Len(s) + 1} \cup {n \in DOMAIN s : s[n] = "/"}
Pieces(s) == LET at == SetToSortSeq(Cuts(s), <)
             IN  [n \in 1..Len(at) - 1 |-> SubSeq(s, at[n] + 1, at[n + 1] - 1)]
Go(path, name) ==
    IF path \notin DOMAIN Files \/ Files[path] # "dir" THEN None
    ELSE CASE name \in {<<>>, <<".">>} -> path
           [] name = <<".", ".">> -> IF path = <<>> THEN path ELSE Front(path)
           [] Append(path, name) \in DOMAIN Files -> Append(path, name)
           [] OTHER -> None
Walk(s) == FoldLeft(Go, IF s # <<>> /\ s[1] = "/" THEN <<>> ELSE Cwd, Pieces(s))
IsDir(s) == Walk(s) # None /\ Files[Walk(s)] = "dir"
readdir(s) == {<<".">>, <<".", ".">>}
              \cup {Last(p) : p \in {f \in DOMAIN Files : f # <<>> /\ Front(f) = Walk(s)}}

Before(s, t) ==     \* strcmp
    \/ IsStrictPrefix(s, t)
    \/ \E n \in DOMAIN s : /\ n <= Len(t) /\ SubSeq(s, 1, n - 1) = SubSeq(t, 1, n - 1)
                           /\ Ord[s[n]] < Ord[t[n]]
sortlist(l) == SortSeq(l, LAMBDA t, u : Before(getstr(t), getstr(u)))

-----------------------------------------------------------------------------
(* glob.cpp *)

hastilde(s, q) == s # <<>> /\ s[1] = "~" /\ (q = UNQUOTED \/ (q # QUOTED /\ q[1] = "r"))
ishiddenfile(s) == s[1] = "."

dirmatch(prefix, dirname, p, q) ==
    IF ~IsDir(dirname) THEN <<>>
    ELSE IF ~haswild(p, q, 1)
    THEN IF Walk(prefix \o p) = None THEN <<>> ELSE <<mkstr(prefix \o p)>>
    ELSE LET names == {d \in readdir(dirname) : match(d, p, q) /\ (~ishiddenfile(d) \/ p[1] = ".")}
         IN  [n \in 1..Cardinality(names) |-> mkstr(prefix \o SetToSeq(names)[n])]

listglob(l, p, q, slashes) ==
    FlattenSeq([n \in DOMAIN l |-> dirmatch(getstr(l[n]) \o slashes, getstr(l[n]), p, q)])

\* glob1: a directory at a time.  A path that begins with slashes begins there,
\* another with what its first piece matches in the current directory.
glob1(s, quoting) ==
    LET q == Flags(quoting, s)
        slash(n) == s[n] = "/"
        end(i, same) == Min({n \in i..Len(s) + 1 : n > Len(s) \/ slash(n) # same})
        e == end(1, slash(1))
        first == SubSeq(s, 1, e - 1)
        start == IF slash(1) THEN <<mkstr(first)>>
                 ELSE dirmatch(<<>>, <<".">>, first, SubSeq(q, 1, e - 1))
        begins == SetToSortSeq({n \in e..Len(s) : n = e \/ (slash(n) /\ ~slash(n - 1))}, <)
        step(l, i) ==
            LET b == end(i, TRUE)
                c == end(b, FALSE) - 1
            IN  listglob(l, SubSeq(s, b, c), SubSeq(q, b, c), SubSeq(s, i, b - 1))
    IN  FoldLeft(step, start, begins)

\* glob0: a word that nothing matches stands for itself.
glob0(l, qs) ==
    FlattenSeq([n \in DOMAIN l |->
        IF ~haswild(getstr(l[n]), qs[n], 1) THEN <<l[n]>>
        ELSE LET found == glob1(getstr(l[n]), qs[n])
             IN  IF found = <<>> THEN <<l[n]>> ELSE sortlist(found)])

\* fn %home, external.
homeof(name) == IF name \in DOMAIN Home THEN Home[name] ELSE <<>>
\* expandhome: the string and its flags once ~name is what %home said; what %home
\* returned is quoted, and what comes after the name keeps its flags.
Slash(s) == Min({n \in 2..Len(s) + 1 : n > Len(s) \/ s[n] = "/"})
FlagsKept(q, s, home) ==    \* a slip: only what comes after the name is flagged
    [n \in 1..Len(home) + Len(s) - Slash(s) + 1 |-> IF n <= Len(s) THEN Flags(q, s)[n] ELSE "r"]
FlagsMoved(q, s, home) ==
    [n \in DOMAIN home |-> "q"] \o SubSeq(Flags(q, s), Slash(s), Len(s))
expandhome(s, q, home) ==
    LET h == getstr(home)
    IN  IF Slash(s) > Len(s) THEN [t |-> home, q |-> QUOTED]
        ELSE [t |-> mkstr(h \o SubSeq(s, Slash(s), Len(s))), q |-> FlagsMoved(q, s, h)]

-----------------------------------------------------------------------------
Init ==
    /\ tree \in Trees
    /\ list = <<>> /\ quote = <<>> /\ lp = 1 /\ fault = "" /\ phase = "glom"

\* glom, from the tree to the list of terms and the list of flags.
Glom ==
    /\ phase = "glom"
    /\ \E r \in {glom2(tree)} :
        /\ list' = [n \in DOMAIN r.l |-> r.l[n].t]
        /\ quote' = [n \in DOMAIN r.l |-> r.l[n].q]
        /\ fault' = r.fault
        /\ phase' = IF r.fault = "" THEN "tilde" ELSE "done"
    /\ UNCHANGED <<tree, lp>>

\* The loop of glob over the words: ~ is expanded, if %home has an answer.
Tilde ==
    /\ phase = "tilde" /\ lp <= Len(list) /\ hastilde(getstr(list[lp]), quote[lp])
    /\ LET s == getstr(list[lp])
           answers == homeof(SubSeq(s, 2, Slash(s) - 1))
       IN  CASE answers = <<>> -> UNCHANGED <<list, quote, fault, phase>>
             [] Len(answers) > 1 ->
                    /\ fault' = "%home returned more than one value" /\ phase' = "done"
                    /\ UNCHANGED <<list, quote>>
             [] OTHER -> \E x \in {expandhome(s, quote[lp], answers[1])} :
                    /\ list' = [list EXCEPT ![lp] = x.t]
                    /\ quote' = [quote EXCEPT ![lp] = x.q]
                    /\ UNCHANGED <<fault, phase>>
    /\ lp' = lp + 1
    /\ UNCHANGED tree
Plain ==
    /\ phase = "tilde" /\ lp <= Len(list) /\ ~hastilde(getstr(list[lp]), quote[lp])
    /\ lp' = lp + 1
    /\ UNCHANGED <<tree, list, quote, fault, phase>>
Glob ==
    /\ phase = "tilde" /\ lp > Len(list)
    /\ list' = glob0(list, quote)
    /\ phase' = "done"
    /\ UNCHANGED <<tree, quote, lp, fault>>

Next == Glom \/ Tilde \/ Plain \/ Glob
Spec == Init /\ [][Next]_vars

-----------------------------------------------------------------------------
(* What a tree stands for, said of characters: each carries whether a quote  *)
(* covers it, and the flags, buffers and prefixes of the code do not appear. *)

Cells(s, raw) == [n \in DOMAIN s |-> [ch |-> s[n], raw |-> raw]]
Chars(w) == [n \in DOMAIN w |-> w[n].ch]
Covered(l) == [n \in DOMAIN l |-> Cells(getstr(l[n]), FALSE)]
RECURSIVE Stands(_)
Stands(tp) ==
    CASE tp.k = "Word" -> <<Cells(tp.s, TRUE)>>
      [] tp.k = "List" -> Stands(tp.p) \o Stands(tp.next)
      [] tp.k = "Concat" -> Product(Stands(tp.p), Stands(tp.sub), Joined)
      [] OTHER -> Covered(glom1(tp).l)

\* The word once ~ is what %home says of the name after it.
AtHome(w) ==
    LET name == SubSeq(w, 2, Slash(Chars(w)) - 1)
        answers == homeof(Chars(name))
    IN  IF w # <<>> /\ w[1] = [ch |-> "~", raw |-> TRUE] /\ Len(answers) = 1
        THEN Covered(answers)[1] \o SubSeq(w, Len(name) + 2, Len(w)) ELSE w

\* A path name is what a word stands for if it is that of a file, and has a name
\* for each name of the word: the same, or one the wildcards in it match, which
\* begins with a dot only when they begin with one.
WildCell(c) == c.raw /\ c.ch \in {"*", "?", "["}
PieceCells(w) == LET at == SetToSortSeq(Cuts(Chars(w)), <)
                 IN  [n \in 1..Len(at) - 1 |-> SubSeq(w, at[n] + 1, at[n + 1] - 1)]
Wild(w) == \E n \in DOMAIN w : WildCell(w[n])
NamesFor(w) ==
    IF ~Wild(w) THEN {Chars(w)}
    ELSE {d \in {<<".">>, <<".", ".">>} \cup UNION {{f[n] : n \in DOMAIN f} : f \in DOMAIN Files} :
            /\ match(d, Chars(w), [n \in DOMAIN w |-> IF w[n].raw THEN "r" ELSE "q"])
            /\ d[1] = "." => w[1].ch = "."}
Paths(w) ==
    LET ps == PieceCells(w)
        choices == {c \in [DOMAIN ps -> UNION {NamesFor(ps[n]) : n \in DOMAIN ps}] :
                        \A n \in DOMAIN ps : c[n] \in NamesFor(ps[n])}
        name(c) == FlattenSeq([n \in DOMAIN c |-> IF n = 1 THEN c[n] ELSE <<"/">> \o c[n]])
    IN  {s \in {name(c) : c \in choices} : Walk(s) # None}
Found(w) == IF ~Wild(w) \/ Paths(w) = {} THEN <<Chars(w)>> ELSE SetToSortSeq(Paths(w), Before)

\* The words of a command are what its tree stands for: a wildcard or a ~ counts
\* exactly when no quote covers it, wherever concatenations and ~ have moved it;
\* nothing that comes from a variable or from %home is expanded again; and each
\* wildcard word is all the files it matches, in order, or itself.
\* (glom.cpp: glom2, qconcat, qcat; glob.cpp: glob, glob0, glob1, expandhome.)
WordsMean ==
    phase = "done" /\ fault = "" =>
        LET words == Stands(tree)
        IN  [n \in DOMAIN list |-> getstr(list[n])]
                = FlattenSeq([n \in DOMAIN words |-> Found(AtHome(words[n]))])

=============================================================================
