------------------------------ MODULE MCReader ------------------------------
(* The sources that Reader is checked with. *)
EXTENDS Reader

A(fails, t) == [fails |-> fails, chars |-> t]
Source(reads, str, one, tty, verbose) ==
    [reads |-> reads, str |-> str, one |-> one, tty |-> tty, verbose |-> verbose,
     sound |-> Sound(reads), printed |-> FALSE, word |-> <<>>]
\* A string, and one read of the whole text, or one for each character.
Whole(t) == Source(<<A("no", t)>>, TRUE, TRUE, FALSE, FALSE)
Printed(w) == [Whole(Sconv(w)) EXCEPT !.printed = TRUE, !.word = w]
SeqsUpTo(S, n) == UNION {[1..k -> S] : k \in 0..n}
Apart(t) == [k \in DOMAIN t |-> A("no", <<t[k]>>)]

WordsOf(n) == SeqsUpTo({"a", "1", "'", "\\", " ", "\n", "\t", "soh"}, n)

\* Any three characters of the grammar and one line end, read one by one or at once.
Short == {t \o <<"\n">> : t \in SeqsUpTo({"a", "{", "}", "\n", "'", "\\", "$", "#", ">", "[", "1"}, 3)}
\* Two lines, and a here document: its body any four characters.
Here(m, body) == <<"a", "<", "<">> \o m \o <<"\n">> \o body
HereTexts == {Here(m, b) : m \in {<<"a">>, <<"'", "a", "a", "'">>, <<"'", "a", "'">>}, b \in SeqsUpTo({"a", "\n", "$"}, 4)}
\* A read that fails, at any place of the text; and one that is cut off after
\* it took a character.
Broken(t, r) == {SubSeq(Apart(t), 1, k) \o <<A(r, <<>>)>> \o SubSeq(Apart(t), k + 1, Len(t)) : k \in 0..Len(t)}
Cut(t, r) == {[Apart(t) EXCEPT ![k].fails = r] : k \in DOMAIN t}
\* Line ends and here documents in brackets, before and after commands, in lists and pipes.
Lines == {<<"<", "<", "x", " ", "l", "o", "c", "a", "l", "\n", "(", "a", "=", "\n", "a", "=", "^", "a", ";", ")", "\n",
            "a", "|", "\n", "!", "^", "a", "<", "<", "1", "&", "&", "\n", "a", "\n", "x", "\n", "1", "\n">>,
          <<"a", "<", "<", "z", " ", "{", "a", "<", "<", "1", "\n", "1", "\n", "}", ";", "a", "^", "\n", "a", "\n", "z", "\n">>,
          <<"a", " ", "(", "{", "a", "<", "<", "1", "}", "\n", "a", "$", "~", "(", "1", ")", ")", "&", "\n", "1", "\n">>,
          <<"<", "<", "a", " ", "<", "<", "x", " ", "a", " ", "<", "<", "z", "|", "<", "<", "1", " ", "a", "&", "&", "a", "\n",
            "a", "\n", "x", "\n", "1", "\n", "z", "\n">>,
          <<"<", "<", "a", ">", "$", "a", "^", "a", " ", "~", "~", " ", "a", "\n", "a", "\n">>,
          <<"a", "<", "<", "$", "a", ";", "a", "\n">>, <<"$", "[", "\n">>, <<"\\", "0", "\n">>, <<"\\", "0", "1", "t", "\n">>}
Texts == {<<"a", "{", "'", "\n", "'", "}", "\n">>, Here(<<"a">>, <<"a", "x", "\n", "$", "$", "a", "^", "\n", "a", "\n">>),
          <<"a", "<", "<", "a", "<", "<", "1", "\n", "1", "\n", "a", "\n">>, <<"a", "<", "<", "a", "^", "a", ";", "\n">>}
Tty(reads) == Source(reads, FALSE, FALSE, TRUE, FALSE)
Odd ==
    {Tty(reads) : reads \in UNION {Broken(t, r) : t \in Texts, r \in {"signal", "error"}}}
    \cup {Source(reads, FALSE, FALSE, tty, FALSE) :
            reads \in UNION {Cut(t, "signal") : t \in Texts}, tty \in BOOLEAN}
    \cup {Source(reads, FALSE, FALSE, FALSE, TRUE) : reads \in UNION {Cut(t, "noop") : t \in Texts}}
    \cup {Tty(<<A("no", l), A("no", <<"nul", "\n">>), A("no", <<"a", "\n">>)>>) :
            l \in {<<"a", "{", "\n">>, <<"'", "\n">>, <<"a", "<", "<", "a", "\n">>, <<"\\", "\n">>}}
    \cup {Source(<<A("noop", <<>>), A("no", <<"#", "nul", "a", "\n">>)>>, FALSE, FALSE, FALSE, FALSE)}
\* The rest of the lexer's tokens.
Tokens == {Whole(t \o <<"\n">>) :
    t \in {<<"~", " ", "@", "{", "!", "bq", "a", "bq", "bq", "x">>,
           <<"$", "#", "a", "$", "^", "a", "$", "&", "a", "(", "a", ")">>,
           <<"&", "&", "|", "|", "a", "&", "|", "[", "1", "=", "1", "]", "a">>,
           <<"|", "[", "1", "=", "]">>, <<"|", "[", "1", "1", "]", "-", "a", "=">>,
           <<"<", "a", "<", "=", "<", ">", "a", "<", ">", ">", "a", "<", "<", "<", "a">>,
           <<">", ">", "a", ">", ">", "<", "a", ">", "<", "a", ">", "[", "1", "=", "1", "1", "]">>,
           <<">", "[", "1", "=", "]">>, <<">", "[", "1", "a">>, <<">", "[", "1", "=", "1", "a">>,
           <<"\\", "a", "\\", "x", "1", "a", "\\", "1", "1", " ", "\\", "$">>,
           <<"\\", "x", " ">>, <<"\\", "z">>, <<"a", "\\">>, <<"#", "a">>}}

Usual ==
    {Printed(w) : w \in {v \in WordsOf(3) : Safe(v)}}
    \cup {Whole(t) : t \in Short \cup HereTexts \cup Lines}
    \cup {Source(Apart(t), FALSE, FALSE, FALSE, TRUE) : t \in Short}
    \cup Odd \cup Tokens
Slash == {Printed(w) : w \in WordsOf(2)}
\* A signal after read(2) has taken a line.
Taken == {Source(<<A("no", <<"a", "\n">>), A(r, <<"x", "\n">>), A("no", <<"z", "\n">>)>>, FALSE, FALSE, FALSE, FALSE) :
            r \in {"signal", "noop"}}
Doubtful == Slash \cup Taken
=============================================================================
