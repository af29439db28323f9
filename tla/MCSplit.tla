------------------------------- MODULE MCSplit -------------------------------
(* The calls that Split is checked with. *)
EXTENDS Split

SeqsUpTo(S, n) == UNION {[1..k -> S] : k \in 0..n}
Seps == {<<>>, <<":">>, <<":", ",">>, <<":", ":", ",">>}
\* What read returns is never empty; an argument may be, and holds no NUL.
Reads == SeqsUpTo({<<"a">>, <<":">>, <<"a", ":">>, <<":", "a">>, <<"a", ",">>, <<"NUL", "a">>}, 2)
Arguments == SeqsUpTo({<<>>, <<"a">>, <<":">>, <<":", "a", ",">>, <<"a", "a">>}, 2)
TheCalls ==
    [sep : Seps, coalesce : BOOLEAN, endword : {FALSE}, pieces : Reads]
    \cup [sep : Seps, coalesce : BOOLEAN, endword : {TRUE}, pieces : Arguments]
=============================================================================
