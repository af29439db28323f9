-------------------------------- MODULE Split --------------------------------
(***************************************************************************)
(* Splitting text into words (split.c): the output of a backquoted command *)
(* comes in pieces, cut wherever read returned, and the arguments of       *)
(* %split and %fsplit one by one.  A word may be spread over pieces; the   *)
(* table of separators is kept from one call to the next.                  *)
(***************************************************************************)
EXTENDS Naturals, SequencesExt

CONSTANTS
    Calls,      \* [sep, coalesce, endword, pieces]: endword for %split and %fsplit
    MaxIfs,     \* the longest separator the table is kept for (sizeof ifs - 2)
    MaxCalls    \* bound: calls one after the other

VARIABLES
    call,       \* the call being served; None between calls
    left,       \* its pieces not yet read, the one at hand first
    buffer,     \* the word being built, or None
    value,      \* the words so far, last first
    ifs,        \* the separator the table was made for, or None (ifsvalid is false)
    isifs,      \* the table
    moved,      \* the piece at hand has been moved since its address was taken
    spoilt,     \* the call has read where a piece no longer is
    result,     \* what the last call returned, or None
    calls

vars == <<call, left, buffer, value, ifs, isifs, moved, spoilt, result, calls>>
None == <<>>
NUL == "NUL"
Some(w) == <<w>>                            \* a buffer that holds w

Init ==
    /\ call = None /\ left = <<>> /\ buffer = None /\ value = <<>>
    /\ ifs = None /\ isifs = {} /\ moved = FALSE /\ spoilt = FALSE /\ result = None /\ calls = 0

splitchars == ~call.coalesce /\ call.sep = <<>>
Known(sep) == ifs = Some(sep)
\* a slip: a separator too long to keep leaves the last one in place
KeepIfs(sep) == IF Len(sep) <= MaxIfs THEN Some(sep) ELSE ifs
NewIfs(sep) == IF Len(sep) <= MaxIfs THEN Some(sep) ELSE None

startsplit(c) ==
    /\ call = None /\ calls < MaxCalls
    /\ call' = c /\ left' = c.pieces /\ calls' = calls + 1
    /\ value' = <<>> /\ buffer' = None /\ moved' = FALSE /\ spoilt' = FALSE /\ result' = None
    /\ IF Known(c.sep) THEN UNCHANGED <<ifs, isifs>>
       ELSE ifs' = NewIfs(c.sep) /\ isifs' = Range(c.sep) \cup {NUL}

\* One character of splitstring: s and inend are what is left of the piece.  The
\* address of an argument is taken before the loop that allocates the words, and
\* what is there after a collection can be anything.
Fresh == IF call.coalesce THEN None ELSE Some(<<>>)
Opened == IF ~call.coalesce /\ buffer = None THEN Some(<<>>) ELSE buffer
Add(c) ==
    IF splitchars THEN value' = <<<<c>>>> \o value /\ UNCHANGED buffer
    ELSE IF Opened = None
    THEN UNCHANGED value /\ buffer' = IF c \in isifs THEN None ELSE Some(<<c>>)
    ELSE IF c \in isifs
    THEN value' = Opened \o value /\ buffer' = Fresh
    ELSE UNCHANGED value /\ buffer' = Some(Append(Opened[1], c))
splitstring ==
    /\ call # None /\ left # <<>> /\ left[1] # <<>>
    /\ \E c \in IF moved THEN {left[1][1], "?"} ELSE {left[1][1]} : Add(c)
    /\ left' = <<Tail(left[1])>> \o Tail(left)
    /\ spoilt' = (spoilt \/ moved)
    /\ UNCHANGED <<call, ifs, isifs, moved, result, calls>>
\* The allocation of a word or of its buffer collects.
Collect ==
    /\ ~moved /\ call # None /\ call.endword /\ left # <<>>
    /\ left[1] # call.pieces[Len(call.pieces) - Len(left) + 1]
    /\ moved' = TRUE
    /\ UNCHANGED <<call, left, buffer, value, ifs, isifs, spoilt, result, calls>>

\* The end of a piece: it ends the word for an argument and does not for what a
\* read returned.
endword == IF splitchars THEN [v |-> value, b |-> buffer]
           ELSE IF call.endword /\ Opened # None THEN [v |-> Opened \o value, b |-> None]
           ELSE [v |-> value, b |-> Opened]
endpiece ==
    /\ call # None /\ left # <<>> /\ left[1] = <<>>
    /\ value' = endword.v /\ buffer' = endword.b
    /\ left' = Tail(left) /\ moved' = FALSE
    /\ UNCHANGED <<call, ifs, isifs, spoilt, result, calls>>

endsplit ==
    /\ call # None /\ left = <<>>
    /\ result' = [call |-> call, spoilt |-> spoilt,
                  words |-> Reverse(IF buffer = None THEN value ELSE buffer \o value)]
    /\ buffer' = None /\ value' = <<>> /\ call' = None
    /\ UNCHANGED <<left, ifs, isifs, moved, spoilt, calls>>

\* A signal in the read of the output: backquote is left without endsplit.
Interrupted ==
    /\ call # None /\ ~call.endword
    /\ left # <<>> => left[1] \in Range(call.pieces)
    /\ call' = None /\ left' = <<>>
    /\ UNCHANGED <<buffer, value, ifs, isifs, moved, spoilt, result, calls>>

Next == \/ \E c \in Calls : startsplit(c)
        \/ splitstring \/ Collect \/ endpiece \/ endsplit \/ Interrupted
Spec == Init /\ [][Next]_vars

-----------------------------------------------------------------------------
(* What the words of a text are, said without a scan *)

\* The fields of a text: what lies between one separator, or end, and the next.
Fields(text, seps) ==
    LET cuts == {0, Len(text) + 1} \cup {n \in DOMAIN text : text[n] \in seps}
        at == SetToSortSeq(cuts, <)
    IN  [n \in 1..Len(at) - 1 |-> SubSeq(text, at[n] + 1, at[n + 1] - 1)]
Meaning(text, c) ==
    LET fields == Fields(text, Range(c.sep) \cup {NUL})
    IN  IF c.coalesce THEN SelectSeq(fields, LAMBDA f : f # <<>>)
        ELSE IF c.sep = <<>> THEN [n \in DOMAIN text |-> <<text[n]>>]
        ELSE fields

\* The result is the words of the whole text, and for %split and %fsplit those of
\* each argument in turn.
IsWordsOf(words, c) ==
    words = IF c.pieces = <<>> THEN <<>>
            ELSE IF c.endword THEN FlattenSeq([n \in DOMAIN c.pieces |-> Meaning(c.pieces[n], c)])
            ELSE Meaning(FlattenSeq(c.pieces), c)

\* However the output was cut into pieces, whatever call went before, finished or
\* not, and whatever separator its table was made for, the words are those of the
\* text, as long as no argument is moved while it is read.
\* (split.c: startsplit, splitstring, endsplit, fsplit; prim-io.c: bqinput.)
WordsOfText == result # None /\ ~result.spoilt => IsWordsOf(result.words, result.call)

\* And even when one is: fsplit does not hold the argument it reads as a root.
WordsWhenMoved == result # None => IsWordsOf(result.words, result.call)

=============================================================================
