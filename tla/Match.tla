-------------------------------- MODULE Match --------------------------------
(***************************************************************************)
(* Pattern matching: the operators ~ and ~~ on lists of words (match.c),   *)
(* against what a pattern means.                                           *)
(***************************************************************************)
EXTENDS Naturals, SequencesExt, FiniteSetsExt

CONSTANTS
    Ord,        \* the order of the characters
    Places,     \* the places behind the array UNQUOTED that are read
    Subjects,   \* the lists of words matched
    Patterns    \* the lists of patterns, each [p |-> word, q |-> quoting]

VARIABLES subject, pattern, beyond, answer

vars == <<subject, pattern, beyond, answer>>
\* What lies behind the array is anything.
INSTANCE Wildcards WITH Beyond <- beyond

None == [op |-> "none"]

-----------------------------------------------------------------------------
Init == subject \in Subjects /\ pattern \in Patterns /\ beyond \in SUBSET Places /\ answer = None

\* ~ subject pattern
Tilde ==
    /\ answer.op = "none"
    /\ answer' = [op |-> "~", is |-> listmatch(subject, pattern)]
    /\ UNCHANGED <<subject, pattern, beyond>>
\* ~~ subject pattern
Extract ==
    /\ answer.op = "none"
    /\ answer' = [op |-> "~~", is |-> extractmatches(subject, pattern)]
    /\ UNCHANGED <<subject, pattern, beyond>>
Next == Tilde \/ Extract
Spec == Init /\ [][Next]_vars

-----------------------------------------------------------------------------
(* What a pattern means, said without a scan: it is a sequence of elements, *)
(* each of which stands for one character out of a set, or for any word.    *)

AnyChar == DOMAIN Ord
\* The class that begins after the '[' at i: the least unquoted bracket that
\* leaves it a member.  0 when there is none: then '[' stands for itself.
First(p, q, i) == IF Raw(p, q, i + 1, "~") THEN i + 2 ELSE i + 1
Close(p, q, i) ==
    LET ends == {n \in First(p, q, i) + 1..Len(p) : Raw(p, q, n, "]")}
    IN  IF ends = {} THEN 0 ELSE Min(ends)
\* The members that begin an item: a range takes three, and a bracket first is one.
Members(p, q, i) ==
    LET b == First(p, q, i)
        e == Close(p, q, i)
        range(n) == n + 2 < e /\ Raw(p, q, n + 1, "-") /\ ~(n = b /\ Raw(p, q, b, "]"))
        item[n \in b..e - 1] ==
            \/ n = b
            \/ item[n - 1] /\ ~range(n - 1)
            \/ n >= b + 3 /\ item[n - 3] /\ range(n - 3)
        set == UNION {IF range(n) THEN {ch \in AnyChar : Ord[p[n]] <= Ord[ch] /\ Ord[ch] <= Ord[p[n + 2]]}
                      ELSE {p[n]} : n \in {m \in b..e - 1 : item[m]}}
    IN  IF Raw(p, q, i + 1, "~") THEN AnyChar \ set ELSE set
\* The element at i: what it stands for, whether it is a wildcard, where the next begins.
Element(p, q, i) ==
    IF ISQUOTED(q, i) THEN [set |-> {p[i]}, wild |-> FALSE, star |-> FALSE, next |-> i + 1]
    ELSE CASE p[i] = "*" -> [set |-> {}, wild |-> TRUE, star |-> TRUE, next |-> i + 1]
           [] p[i] = "?" -> [set |-> AnyChar, wild |-> TRUE, star |-> FALSE, next |-> i + 1]
           [] p[i] = "[" /\ Close(p, q, i) # 0 ->
                [set |-> Members(p, q, i), wild |-> TRUE, star |-> FALSE, next |-> Close(p, q, i) + 1]
           [] OTHER -> [set |-> {p[i]}, wild |-> FALSE, star |-> FALSE, next |-> i + 1]
Elements(p, q) ==
    LET E[i \in 1..Len(p) + 1] ==
            IF i > Len(p) THEN <<>> ELSE LET e == Element(p, q, i) IN <<e>> \o E[e.next]
    IN  E[1]
\* The word is cut into as many pieces as there are elements, each of the kind
\* its element stands for.
Stands(s, es) ==
    \E cut \in [1..Len(es) + 1 -> 1..Len(s) + 1] :
        /\ cut[1] = 1 /\ cut[Len(es) + 1] = Len(s) + 1
        /\ \A n \in DOMAIN es :
              IF es[n].star THEN cut[n] <= cut[n + 1]
              ELSE cut[n + 1] = cut[n] + 1 /\ s[cut[n]] \in es[n].set
\* The wildcards of a pattern replaced by what was extracted for them.
Filled(es, parts) ==
    FlattenSeq([n \in DOMAIN es |->
        IF es[n].wild THEN parts[Cardinality({m \in 1..n : es[m].wild})]
        ELSE <<CHOOSE ch \in es[n].set : TRUE>>])

\* A class is read within the array "RAW", which only an unquoted pattern leaves.
InBounds(t) ==
    t.q = UNQUOTED => \A m, n \in DOMAIN t.p : t.p[m] = "[" /\ t.p[n] \in {"]", "-"} => n - m <= 4
AllInBounds == \A t \in Range(pattern) : InBounds(t)
Of(t) == Elements(t.p, t.q)

\* ~ says yes exactly when the word is what the pattern stands for, stars,
\* classes with their '~', '-' and ']', and unclosed brackets included, quoted in
\* part or not; and no words are matched by a pattern that matches the empty
\* word (match.c: match, rangematch, listmatch; the comment from ed(1)).
TildeMeans ==
    answer.op = "~" =>
        answer.is = IF subject = <<>>
                    THEN \/ pattern = <<>>
                         \/ \E t \in Range(pattern) : t.p # <<>> /\ Stands(<<>>, Of(t))
                    ELSE \E t \in Range(pattern), s \in Range(subject) : Stands(s, Of(t))
\* That, where no class is read beyond the array UNQUOTED: a class of four
\* characters or more in an unquoted word is, and then need not end at its ']'.
MatchAgrees == AllInBounds => TildeMeans

TwoStars(p, q) == \E n \in 1..Len(p) - 1 : Raw(p, q, n, "*") /\ Raw(p, q, n + 1, "*")
Wilds(es) == Cardinality({m \in DOMAIN es : es[m].wild})
\* One part for each wildcard; put in their places, they make up the word.
Rebuilt(s, es, parts) ==
    /\ \A m \in DOMAIN es : es[m].wild /\ ~es[m].star =>
          LET part == parts[Cardinality({l \in 1..m : es[l].wild})]
          IN  Len(part) = 1 /\ part[1] \in es[m].set
    /\ Filled(es, parts) = s
\* The words are taken in order, each with the first of those of its patterns
\* that it matches; what is extracted from one comes behind what is from those before.
Rebuilds(Candidates) ==
    LET chosen(s) == {m \in Candidates : Stands(s, Of(pattern[m]))}
        es(s) == IF chosen(s) = {} THEN <<>> ELSE Of(pattern[Min(chosen(s))])
        before[k \in 1..Len(subject) + 1] ==
            IF k = 1 THEN 0 ELSE before[k - 1] + Wilds(es(subject[k - 1]))
    IN  /\ Len(answer.is) = before[Len(subject) + 1]
        /\ \A k \in DOMAIN subject : chosen(subject[k]) # {} =>
              Rebuilt(subject[k], es(subject[k]), SubSeq(answer.is, before[k] + 1, before[k + 1]))
Orderly == AllInBounds /\ \A t \in Range(pattern) : ~TwoStars(t.p, t.q)
\* ~~ gives for each word one part for each wildcard of the first pattern with
\* wildcards that it matches, and the pattern with the parts in place of its
\* wildcards is the word; it fails no assertion.  (match.c: extractsinglematch,
\* extractmatches.  Stars in a row are left out: at the end of a word they fail
\* the assertion.)
ExtractRebuilds ==
    answer.op = "~~" /\ Orderly => Rebuilds({m \in DOMAIN pattern : Wilds(Of(pattern[m])) > 0})
\* A word that matches a pattern is done with: also when that has no wildcards
\* (es.1: "if it matches the pattern ... processing moves on to the next subject").
ExtractMovesOn == answer.op = "~~" /\ Orderly => Rebuilds(DOMAIN pattern)

\* The assertion of extractsinglematch that the word is not at its end where the
\* rest of the pattern is tried against it.
ExtractAsserts == answer.op = "~~" => answer.is # ASSERT

=============================================================================
