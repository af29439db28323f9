------------------------------- MODULE MCMatch -------------------------------
(* The words and patterns that Match is checked with. *)
EXTENDS Match

SeqsUpTo(S, n) == UNION {[1..k -> S] : k \in 0..n}
\* The order of the characters, as in ASCII.
Order == [a |-> 5, b |-> 6, c |-> 7] @@ "*" :> 0 @@ "-" :> 1 @@ "?" :> 2 @@ "[" :> 3 @@ "]" :> 4 @@ "~" :> 8
Special == {"*", "?", "[", "]", "-", "~"}
\* Every quoting of the special characters of a word.
Quotings(p) == {q \in [DOMAIN p -> {"q", "r"}] : \A n \in DOMAIN p : q[n] = "q" => p[n] \in Special}
Quoted(ps) == UNION {{[p |-> p, q |-> q] : q \in Quotings(p) \cup {QUOTED, UNQUOTED}} : p \in ps}
Inside == SeqsUpTo({"a", "-", "]"}, 2) \cup {<<"a", "-", "b">>, <<"]", "-", "b">>, <<"a", "-", "]">>, <<"-", "-", "a">>}
Classes == {<<"[">> \o n \o b \o <<"]">> : n \in {<<>>, <<"~">>}, b \in Inside}
One == {<<t>> : t \in Quoted(SeqsUpTo({"a", "*", "?"}, 3) \cup SeqsUpTo({"a", "[", "]", "*"}, 2) \cup Classes)}
Two == {<<s, t>> : s, t \in Quoted({<<"*">>, <<"a", "?">>, <<"*", "b">>, <<"a", "b">>})}
Lists == One \cup Two \cup {<<>>}
Words == {<<w>> : w \in SeqsUpTo({"a", "b"}, 3) \cup {<<"[">>, <<"[", "a">>, <<"]">>, <<"-">>, <<"[", "]">>, <<"?", "a">>, <<"a", "*">>}}
             \cup {<<>>, <<<<"a", "b">>, <<"b">>>>, <<<<"b", "b">>, <<"a", "b">>, <<"a">>>>}
\* The longest class of these patterns is read at the first place behind "RAW".
Behind == {4}
Long == {<<[p |-> <<"[", "~", "a", "-", "b", "]">>, q |-> UNQUOTED]>>}
Stars == {<<[p |-> p, q |-> UNQUOTED]>> : p \in SeqsUpTo({"a", "*"}, 3)}
Doubtful == Long \cup Two \cup Stars
=============================================================================
