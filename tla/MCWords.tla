------------------------------- MODULE MCWords -------------------------------
(* The words, files and homes that Words is checked with. *)
EXTENDS Words

Order == [c \in {"*", ".", "/", "?", "a", "b", "~"} |->
            CASE c = "*" -> 1 [] c = "." -> 2 [] c = "/" -> 3 [] c = "?" -> 4
              [] c = "a" -> 5 [] c = "b" -> 6 [] c = "~" -> 7]
A == <<"a">>
AB == <<"a", "b">>
B == <<"b">>
H == <<".", "b">>
STAR == <<"*">>
\* / has directories a, ab and .b; a and .b hold files, one of them named *.
Tree == [f \in {<<>>, <<A>>, <<AB>>, <<H>>, <<B>>} \cup {<<A, B>>, <<A, STAR>>, <<A, H>>, <<AB, B>>, <<H, A>>} |->
            IF f \in {<<>>, <<A>>, <<AB>>, <<H>>} THEN "dir" ELSE "file"]
Here == <<>>
Homes == [n \in {<<>>, A, B} |->
            CASE n = <<>> -> <<mkstr(<<"/", "a">>)>>
              [] n = A -> <<mkstr(<<"/", "*">>)>>
              [] OTHER -> <<mkstr(A), mkstr(B)>>]
Vars == [n \in {A, B} |->
            IF n = A THEN <<mkstr(STAR), mkstr(B), mkstr(<<"~">>)>> ELSE <<mkclosure(<<"?", "*">>)>>]

Strings == {<<>>, A, STAR, <<"a", "?">>, <<"a", "*">>, <<"~">>, <<"/">>, <<"/", "*">>, <<"*", "/">>, <<"*", "/", "*">>,
            <<"~", "a">>, <<"~", "b">>, <<"~", "/">>, <<"*", "/", "/", "?">>, <<".", "*">>, <<"?", "/", ".", "*">>,
            <<"/", "/", "*">>, <<".", ".", "/", "*">>, <<"*", "/", "b">>}
Word(s) == [k |-> "Word", s |-> s]
Qword(s) == [k |-> "Qword", s |-> s]
Var(t) == [k |-> "Var", p |-> t]
List(t, u) == [k |-> "List", p |-> t, next |-> u]
Nil == [k |-> "Nil"]
Concat(t, u) == [k |-> "Concat", p |-> t, sub |-> u]
Varsub(t, u) == [k |-> "Varsub", p |-> t, sub |-> u]

Plains == {Word(s) : s \in Strings} \cup {Qword(s) : s \in Strings}
Simple == Plains \cup {Var(Word(A)), Var(Qword(B)), Var(Var(Word(A))), Nil,
                        [k |-> "Thunk", s |-> STAR], [k |-> "Call", value |-> <<mkstr(STAR), mkstr(A)>>]}
Subs == {<<"1">>, <<"2">>, <<"3">>, <<"1", "0">>, <<"0">>, DOTS}
SubLists == {Nil} \cup {List(Word(s), Nil) : s \in Subs}
                \cup {List(Word(s), List(Word(t), Nil)) : s, t \in Subs}
                \cup {List(Word(s), List(Word(DOTS), List(Word(t), Nil))) : s, t \in Subs}
Short == {x \in Simple : x.k \notin {"Word", "Qword"} \/ Len(x.s) <= 2}
Some == {Word(STAR), Qword(STAR), Word(A), Word(<<"/">>), Var(Word(A))}
Twice == {Concat(x, y) : x, y \in Short}
Arguments == Simple \cup Twice
    \cup {Concat(Concat(x, y), z) : x, y, z \in Some} \cup {Concat(x, Concat(y, z)) : x, y, z \in Some}
    \cup {List(x, List(y, Nil)) : x \in Short, y \in Some}
    \cup {Concat(List(x, List(y, Nil)), List(z, List(Qword(A), Nil))) : x, y, z \in Some}
    \cup {Varsub(n, s) : n \in {Word(A), Word(B), Nil, Var(Word(A))}, s \in SubLists}
=============================================================================
