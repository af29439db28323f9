----------------------------- MODULE Wildcards -----------------------------
(***************************************************************************)
(* The functions of match.c.  A word is a sequence of characters; the      *)
(* quoting of a pattern is QUOTED, UNQUOTED, or one flag a character, "q"  *)
(* or "r" (raw).  The pointers of the code are positions here, and its     *)
(* loops and recursions functions of positions.                            *)
(*                                                                         *)
(* rangematch moves its pointer to the quoting along with the pattern, also *)
(* when it is UNQUOTED, a name for the array "RAW": from its fifth place on *)
(* what it reads is whatever lies behind that array.                        *)
(***************************************************************************)
EXTENDS Naturals, SequencesExt, FiniteSetsExt

CONSTANTS
    Ord,        \* the order of the characters, for ranges
    Beyond      \* the places counted from UNQUOTED, 4 or more, that read as quoted

QUOTED == <<"QUOTED">>
UNQUOTED == <<"UNQUOTED">>

\* ISQUOTED at position n, and the character there (NUL past the end).
ISQUOTED(q, n) == q = QUOTED \/ (q # UNQUOTED /\ n <= Len(q) /\ q[n] = "q")
Char(p, n) == IF n <= Len(p) THEN p[n] ELSE "NUL"
Raw(p, q, n, ch) == Char(p, n) = ch /\ ~ISQUOTED(q, n)
\* The same in rangematch, for a class whose first place is i.
Moved(q, i, n) == IF q = UNQUOTED THEN n - i \in Beyond ELSE ISQUOTED(q, n)
RawIn(p, q, i, n, ch) == Char(p, n) = ch /\ ~Moved(q, i, n)

\* haswild: an unquoted character at or after i is a wildcard.
haswild(p, q, i) == \E n \in i..Len(p) : p[n] \in {"*", "?", "["} /\ ~ISQUOTED(q, n)

RANGE_FAIL == 0
RANGE_ERROR == 1    \* no class ends there
\* rangematch: match ch against the class that begins at position i; the
\* position past its bracket, RANGE_FAIL, or RANGE_ERROR when there is no bracket.
\* A range to the NUL, which a byte behind UNQUOTED can make, is left out.
RangeAtOrLast(p, q, i, n) == RawIn(p, q, i, n + 1, "-") /\ Char(p, n + 2) # "NUL"   \* a slip: [a-] is a range too
RangeAt(p, q, i, n) ==
    /\ RawIn(p, q, i, n + 1, "-") /\ Char(p, n + 2) # "NUL"
    /\ Moved(q, i, n + 2) \/ Char(p, n + 2) # "]"
rangematch(p, q, i, ch) ==
    LET neg == RawIn(p, q, i, i, "~")
        b == IF neg THEN i + 1 ELSE i
        bracket == RawIn(p, q, i, b, "]")
        loop[n \in b..Len(p) + 3, matched \in BOOLEAN] ==
            IF RawIn(p, q, i, n, "]") THEN IF matched # neg THEN n + 1 ELSE RANGE_FAIL
            ELSE IF n > Len(p) THEN RANGE_ERROR
            ELSE IF RangeAt(p, q, i, n)
            THEN loop[n + 3, matched \/ (Ord[ch] >= Ord[p[n]] /\ Ord[ch] <= Ord[p[n + 2]])]
            ELSE loop[n + 1, matched \/ p[n] = ch]
    IN  IF bracket THEN loop[b + 1, ch = "]"] ELSE loop[b, FALSE]

\* match: position i of the pattern against position j of the word.  Stars in a
\* row are one; after it every place where a character is left is tried.
SkipNone(p, q, i) == i + 1           \* a slip: the next pattern character is skipped too
Skip(p, q, i) == Min({n \in i..Len(p) + 1 : ~Raw(p, q, n, "*")})
match(s, p, q) ==
    LET M[i \in 1..Len(p) + 2, j \in 1..Len(s) + 1] ==
            IF i > Len(p) THEN j > Len(s)
            ELSE IF Raw(p, q, i, "*")
            THEN LET k == Skip(p, q, i + 1)
                 IN  k > Len(p) \/ \E t \in j..Len(s) : M[k, t]
            ELSE /\ j <= Len(s)
                 /\ IF Raw(p, q, i, "?") THEN M[i + 1, j + 1]
                    ELSE IF Raw(p, q, i, "[")
                    THEN LET r == rangematch(p, q, i + 1, s[j])
                         IN  CASE r = RANGE_FAIL -> FALSE
                               [] r = RANGE_ERROR -> s[j] = "[" /\ M[i + 1, j + 1]
                               [] OTHER -> M[r, j + 1]
                    ELSE p[i] = s[j] /\ M[i + 1, j + 1]
    IN  IF q = QUOTED THEN s = p ELSE M[1, 1]

\* listmatch: some pattern matches some word; () is matched by () and by stars.
AllStars(t) == /\ t.p # <<>> /\ t.q # QUOTED
               /\ \A n \in DOMAIN t.p : Raw(t.p, t.q, n, "*")
listmatch(ws, ps) ==
    IF ws = <<>> THEN ps = <<>> \/ \E t \in Range(ps) : AllStars(t)
    ELSE \E t \in Range(ps), w \in Range(ws) : match(w, t.p, t.q)

\* extractsinglematch: the parts of the word that the wildcards stand for, or
\* the failed assertion that the word is not at its end where a star is tried.
\* A star takes as little as lets the rest of the pattern match.
ASSERT == <<<<"assert">>>>
From(s, j) == SubSeq(s, j, Len(s))
RestQuotes(p, q, i) == [p |-> From(p, i), q |-> q]     \* a slip: the flags stay where they are
Rest(p, q, i) == [p |-> From(p, i), q |-> IF q = UNQUOTED THEN q ELSE From(q, i)]
Least(s, t, j) == CHOOSE k \in j..Len(s) + 1 :
                    /\ match(From(s, k), t.p, t.q)
                    /\ \A l \in j..k - 1 : ~match(From(s, l), t.p, t.q)
extractsinglematch(s, p, q) ==
    LET X[i \in 1..Len(p) + 1, j \in 1..Len(s) + 2] ==
            IF i > Len(p) THEN <<>>
            ELSE IF Raw(p, q, i, "*")
            THEN LET t == Rest(p, q, i + 1)
                     k == Least(s, t, j)
                 IN  IF i = Len(p) THEN <<From(s, j)>>
                     ELSE IF k > Len(s) THEN ASSERT
                     ELSE <<SubSeq(s, j, k - 1)>> \o
                          IF haswild(t.p, t.q, 1) THEN X[i + 1, k] ELSE <<>>
            ELSE IF Raw(p, q, i, "[")
            THEN LET r == rangematch(p, q, i + 1, s[j])
                 IN  IF r = RANGE_ERROR THEN X[i + 1, j + 1] ELSE <<<<s[j]>>>> \o X[r, j + 1]
            ELSE IF Raw(p, q, i, "?") THEN <<<<s[j]>>>> \o X[i + 1, j + 1]
            ELSE X[i + 1, j + 1]
    IN  IF ~haswild(p, q, 1) \/ ~match(s, p, q) THEN <<>> ELSE X[1, 1]

\* extractmatches: for each word, what the first pattern that gives anything gives.
extractmatches(ws, ps) ==
    FlattenSeq([n \in DOMAIN ws |->
        LET parts == [m \in DOMAIN ps |-> extractsinglematch(ws[n], ps[m].p, ps[m].q)]
            some == {m \in DOMAIN ps : parts[m] # <<>>}
        IN  IF some = {} THEN <<>> ELSE parts[Min(some)]])
=============================================================================
