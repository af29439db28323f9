------------------------------- MODULE Reader -------------------------------
(***************************************************************************)
(* How desh reads a command: the input source with its buffer and its      *)
(* push-back (input.cpp), the lexer (token.c), the here documents          *)
(* (heredoc.c) and as much of the grammar (parse.y) as decides when a      *)
(* command ends, what happens after a syntax error and when the here       *)
(* documents are read.  One action is one character taken by the lexer,    *)
(* one token taken by the parser, or one fill of the buffer.               *)
(*                                                                         *)
(* A source is a sequence of reads.  One hands over its characters (what   *)
(* one read(2) or one line of the terminal gives), or it fails: by a       *)
(* "signal" (SIGCHK throws), by a "noop" (a signal whose effect is         *)
(* sig_noop: the read is tried again) or by an "error" (any other          *)
(* failure).  A signal that comes once read(2) has succeeded makes EINTR   *)
(* of it: such a read has characters too, and they are lost.               *)
(*                                                                         *)
(* A character is a string; "nul" is the NUL that stands for a ^C at the   *)
(* terminal, "eof" stands for EOF, "bq" for a back quote.  Strings in      *)
(* double quotes are left out, and of the words that are keywords only     *)
(* "local" and "~~" are told from the others.  Whatever the grammar        *)
(* refuses besides what is said here is a choice: the parser may refuse    *)
(* any token.                                                              *)
(***************************************************************************)
EXTENDS Naturals, SequencesExt

CONSTANTS
    Sources,    \* the sources a run starts from
    MAXUNGET    \* characters of push-back an Input has room for

VARIABLES
    in,         \* the struct Input
    lex,        \* the lexer: its static variables and the token it scans
    pc,         \* what the reader does next
    tok,        \* the token handed to the parser
    par,        \* the parser: nesting, queue of here documents, error, gc
    src,        \* the source read (never changes)
    stream      \* history: the characters still to come, pushed back ones first

vars == <<in, lex, pc, tok, par, src, stream>>

\* What a read hands over.
Given(r) == IF r.fails = "no" THEN r.chars ELSE <<>>
Chars(reads) ==
    LET from[k \in 1..Len(reads) + 1] ==
            IF k > Len(reads) THEN <<>> ELSE Given(reads[k]) \o from[k + 1]
    IN  from[1]
Text == Chars(src.reads)

-----------------------------------------------------------------------------
(* Characters *)

alnum == {"a", "c", "l", "n", "o", "t", "x", "z", "0", "1"}
digit == {"0", "1"}
xdigit == digit \cup {"a", "c"}
odigit == digit
non_word == {"nul", "eof", " ", "\t", "\n", "!", "#", "$", "&", "'", "(", ")",
             ";", "<", "=", ">", "\\", "^", "bq", "{", "|", "}"}
argument_non_word == non_word \ {"="}
\* Only these continue the name after a '$'.
dollar_word == alnum \cup {"*", "-", "_", "%"}
\* The characters told apart, "var" being a variable in a here document, and
\* those a source holds.
Char == non_word \cup dollar_word \cup {"soh", "bel", "~", "@", "[", "]", "var"}
Byte == Char \ {"eof"}
Read == [fails : {"no", "signal", "noop", "error"}, chars : Seq(Byte)]
Reads == Seq(Read)

\* A source: the reads it gives, whether it is a string (runstring,
\* parsestring: one buffer and no reads), whether exactly one command is
\* wanted (parseinput), whether it is a terminal, whether input is echoed (-v),
\* whether it is sound (no read of it ends with an error or a signal that is
\* ignored), whether it is a printed word, and which word that is.  Nothing is
\* lost with a signal that a terminal's line is read on after (tty_read).
\* The push-back has room for two characters (input.h: MAXUNGET).
Sound(reads) == \A r \in Range(reads) : r.fails \notin {"error", "noop"}
SourcesAssumption ==
    /\ MAXUNGET \in Nat /\ MAXUNGET >= 2
    /\ \A s \in Sources :
          /\ s.reads \in Reads
          /\ {s.str, s.one, s.tty, s.verbose, s.sound} \subseteq BOOLEAN
          /\ s.sound => Sound(s.reads)
          /\ \A k \in DOMAIN s.reads :
                s.reads[k].fails = "error" \/ (s.tty /\ s.reads[k].fails = "noop") => s.reads[k].chars = <<>>
ASSUME SourcesAre == SourcesAssumption

Meta == CASE lex.meta = "non_word" -> non_word
          [] lex.meta = "argument" -> argument_non_word
          [] OTHER -> {}
InWord(c) == IF lex.meta = "dollar" THEN c \in dollar_word ELSE c \notin Meta

\* The character an escape stands for, by \x and digits or by octal digits,
\* without the zeros before them; "a" stands for any other that is printed.
Coded(acc) == CASE acc \in {<<"x", "1">>, <<"0", "1">>} -> "soh" [] acc = <<"0", "1", "1">> -> "\t"
                [] OTHER -> "a"
Zero(acc) == Range(Tail(acc)) \subseteq {"0"}
Letter == [a |-> "bel", n |-> "\n", t |-> "\t"]

nonprint == {"soh", "bel", "\n", "\t"}
\* How one character of a word is printed between quotes, and outside them.
Escape(c) == CASE c = "\n" -> <<"\\", "n">> [] c = "bel" -> <<"\\", "a">>
               [] c = "\t" -> <<"\\", "t">> [] OTHER -> <<"\\", "1">>
DoubledNever(ch) == <<ch>>        \* a slip: a quote is printed as it is
Doubled(ch) == IF ch = "'" THEN <<"'", "'">> ELSE <<ch>>
\* Sconv: a word as %#S prints it.  Each run of printing characters is put in
\* quotes, with its quotes doubled; any other is an escape; '^' joins the two.
Piece(s, i) ==
    LET old == IF i = 1 THEN "Begin" ELSE IF s[i - 1] \in nonprint THEN "Unquoted" ELSE "Quoted"
    IN  IF s[i] \in nonprint
        THEN (IF old = "Quoted" THEN <<"'">> ELSE <<>>)
             \o (IF old = "Begin" THEN <<>> ELSE <<"^">>) \o Escape(s[i])
        ELSE (IF old = "Unquoted" THEN <<"^">> ELSE <<>>)
             \o (IF old = "Quoted" THEN <<>> ELSE <<"'">>)
             \o Doubled(s[i])
Sconv(s) ==
    IF s = <<>> THEN <<"'", "'">>
    ELSE FlattenSeq([i \in 1..Len(s) |-> Piece(s, i)])
         \o (IF Last(s) \in nonprint THEN <<>> ELSE <<"'">>)
\* What the words printed are: a backslash in them stands before a printing
\* character that is no quote (to the lexer it would be an escape); and the
\* source of a printed word is a string, read by parseinput.
Safe(w) == \A k \in DOMAIN w : w[k] = "\\" => k < Len(w) /\ w[k + 1] \notin nonprint \cup {"'"}
PrintedAssumption ==
    \A s \in Sources : s.printed =>
        /\ s.word \in Seq(Byte \ {"nul"}) /\ Safe(s.word)
        /\ s.reads = <<[fails |-> "no", chars |-> Sconv(s.word)]>>
        /\ s.str /\ s.one /\ ~s.tty

-----------------------------------------------------------------------------
(* struct Input: get, unget and the fill routines *)

Buffered(i) == i.at <= Len(i.buf)
\* What GETC returns when no read is needed.
peek(i) == IF Buffered(i) THEN i.buf[i.at]
           ELSE IF i.fill = "ungetfill" THEN Last(i.ungot)
           ELSE "eof"

\* ungetfill: pop the push-back; once it is empty, the buffer is back where it was.
ungetfill(i) ==
    IF Len(i.ungot) > 1 THEN [i EXCEPT !.ungot = Front(@)]
    ELSE [i EXCEPT !.ungot = <<>>, !.fill = i.rfill, !.rfill = "NULL",
                   !.at = i.rat, !.rat = 0]
\* The input after GETC; in verbose mode what came from the source is echoed.
taken(i) ==
    LET c == peek(i)
        j == IF Buffered(i) THEN [i EXCEPT !.at = @ + 1]
             ELSE IF i.fill = "ungetfill" THEN ungetfill(i)
             ELSE IF i.fill = "stringfill" THEN [i EXCEPT !.fill = "eoffill"]
             ELSE i
    IN  [j EXCEPT !.intr = @ /\ c # "nul",
                  !.echoed = IF i.verbose /\ i.fill # "ungetfill" /\ c # "eof"
                             THEN @ + 1 ELSE @]

\* a slip: an echoed character goes back to the buffer, to be echoed again
ungetEchoed(i, c) ==
    IF i.ungot # <<>> THEN [i EXCEPT !.ungot = Append(@, c)]
    ELSE IF i.at > 1 /\ i.buf[i.at - 1] = c THEN [i EXCEPT !.at = @ - 1]
    ELSE [i EXCEPT !.rfill = i.fill, !.fill = "ungetfill", !.rat = i.at,
                   !.at = Len(i.buf) + 1, !.ungot = <<c>>]
\* unget -- push back one character
unget(i, c) ==
    IF i.ungot # <<>> THEN [i EXCEPT !.ungot = Append(@, c)]
    ELSE IF i.at > 1 /\ i.buf[i.at - 1] = c /\ ~i.verbose THEN [i EXCEPT !.at = @ - 1]
    ELSE [i EXCEPT !.rfill = i.fill, !.fill = "ungetfill", !.rat = i.at,
                   !.at = Len(i.buf) + 1, !.ungot = <<c>>]

-----------------------------------------------------------------------------
(* The steps of reading a character *)

\* Where the next thing done is a GETC.
Reading == {"top", "word", "quote", "quote2", "slash", "comment", "dollar", "backquote",
            "esc", "coded", "amp", "pipe", "less", "lessgreat", "lessless", "greater", "greatgreat",
            "slash2", "fds", "fd0", "fd0s", "fd1", "fd1s", "scanerror",
            "mark", "copy", "heredollar", "herevar", "term"}

\* A character is at hand, and it is not a NUL that get() leaves out.
Ready == /\ pc \in Reading
         /\ Buffered(in) \/ in.fill # "fdfill"
         /\ peek(in) = "nul" => in.intr
c == peek(in)

Rest == IF stream = <<>> THEN <<>> ELSE Tail(stream)
\* The character is used up.
Get == in' = taken(in) /\ stream' = Rest
\* It is looked at and pushed back.
Look == in' = unget(taken(in), c) /\ stream' = <<c>> \o Rest

ShellStays == UNCHANGED <<tok, par, src>>
Goto(p) == pc' = p /\ ShellStays
\* print_prompt2: a continuation line is counted, and asked for with the second prompt.
print_prompt2 == par' = [par EXCEPT !.lineno = @ + 1, !.prompt2 = TRUE]

\* get: a NUL that is no ^C is ignored, with a warning.
SkipNul ==
    /\ pc \in Reading /\ c = "nul" /\ ~in.intr
    /\ Get
    /\ UNCHANGED <<lex, pc, tok, par, src>>

FillWanted == pc \in Reading /\ ~Buffered(in) /\ in.fill = "fdfill"
NextRead(outcome) == FillWanted /\ in.reads # <<>> /\ Head(in.reads).fails = outcome
\* fdfill: the next read gives characters.
Fill ==
    /\ NextRead("no")
    /\ in' = [in EXCEPT !.buf = Head(in.reads).chars, !.at = 1, !.reads = Tail(@),
                        !.intr = src.tty /\ Head(Head(in.reads).chars) = "nul"]
    /\ UNCHANGED <<lex, pc, tok, par, src, stream>>

\* fdfill at the end of the file: the descriptor is closed for good.
FillEof ==
    /\ FillWanted /\ in.reads = <<>>
    /\ in' = [in EXCEPT !.fill = "eoffill"]
    /\ UNCHANGED <<lex, pc, tok, par, src, stream>>

\* a slip: the collector stays disabled
SignalBare(q) == [q EXCEPT !.error = FALSE]
Signal(q) == [q EXCEPT !.error = FALSE, !.gcblocked = 0]
\* A signal was caught and SIGCHK throws out of yyparse, whether the read was
\* interrupted or had characters, which are lost: the buffer is not set.
\* sigchk resets the parser's error and enables the collector first.
FillSignal ==
    /\ NextRead("signal")
    /\ in' = [in EXCEPT !.reads = Tail(@)]
    /\ par' = Signal(par)
    /\ pc' = "thrown"
    /\ UNCHANGED <<lex, tok, src, stream>>

\* A signal of effect sig_noop resets the parser's error, and the read is tried
\* again: if it had succeeded, the longjmp of the handler made EINTR of it, and
\* the next read goes on behind what is lost.
FillNoop ==
    /\ NextRead("noop")
    /\ in' = [in EXCEPT !.reads = Tail(@)]
    /\ par' = [par EXCEPT !.error = FALSE]
    /\ UNCHANGED <<lex, pc, tok, src, stream>>

\* The read failed: the source is at its end, and fail throws out of yyparse.
FillError ==
    /\ NextRead("error")
    /\ in' = [in EXCEPT !.reads = <<>>, !.fill = "eoffill"]
    /\ stream' = <<>>
    /\ pc' = "thrown"
    /\ UNCHANGED <<lex, tok, par, src>>

-----------------------------------------------------------------------------
(* yylex *)

\* A token for the parser; w is what the lexer says of the text before the next one.
Token(kind, s, w) ==
    /\ tok' = [kind |-> kind, s |-> s]
    /\ lex' = [lex EXCEPT !.w = w]
    /\ pc' = "token"
    /\ UNCHANGED <<par, src>>
Return(kind, w) == Token(kind, <<>>, w)
\* The token is scanned further at p.
Scan(p, acc, w) ==
    /\ lex' = [lex EXCEPT !.acc = acc, !.w = w]
    /\ Goto(p)
\* scanerror: the rest of the line is skipped, then ERROR is returned.
Scanerror(w) == lex' = [lex EXCEPT !.w = w] /\ Goto("scanerror")
\* interactive_ctrl_c
CtrlC == c = "nul" /\ Get /\ Scanerror("non")

\* yylex is entered: after an error a line end is made up; otherwise the
\* characters of a word depend on whether a '$' came just before.
Yylex ==
    /\ pc = "lex"
    /\ IF lex.goterror
       THEN /\ lex' = [lex EXCEPT !.goterror = FALSE]
            /\ tok' = [kind |-> "NL", s |-> <<>>] /\ pc' = "token"
            /\ UNCHANGED par
       ELSE /\ lex' = [lex EXCEPT !.meta = IF lex.dollar THEN "dollar" ELSE "non_word",
                                  !.dollar = FALSE, !.newline = FALSE]
            /\ par' = [par EXCEPT !.prompt2 = @ \/ lex.newline]
            /\ pc' = "top" /\ UNCHANGED tok
    /\ UNCHANGED <<in, src, stream>>

Blank == pc = "top" /\ Ready /\ c \in {" ", "\t"} /\ Get /\ Scan("top", <<>>, "non")
TopEof == pc = "top" /\ Ready /\ c = "eof" /\ Get /\ Return("ENDFILE", lex.w)
TopCtrlC == pc = "top" /\ Ready /\ CtrlC

At(p) == pc = p /\ Ready
StartsWord == InWord(c) /\ c \notin {"nul", "eof", " ", "\t"}
\* InsertFreeCaret: two words that touch are joined.
TopCaret ==
    /\ At("top") /\ lex.w # "non"
    /\ StartsWord \/ c \in {"bq", "!", "$", "'"}
    /\ Look /\ Return("^", "non")
TopWord ==
    /\ At("top") /\ lex.w = "non" /\ StartsWord
    /\ Get
    /\ lex' = [lex EXCEPT !.acc = <<c>>, !.w = "real",
                          !.meta = IF @ = "non_word" /\ c = "-" THEN "argument" ELSE @]
    /\ Goto("word")
WordChar == At("word") /\ c # "eof" /\ InWord(c) /\ Get /\ Scan("word", Append(lex.acc, c), lex.w)
\* The first character past the word is pushed back.  Some words are keywords.
WordEnd ==
    /\ At("word") /\ (c = "eof" \/ ~InWord(c))
    /\ Look
    /\ IF lex.acc \in {<<"~">>, <<"@">>} THEN Return(lex.acc[1], "key")
       ELSE IF Len(lex.acc) = 1 /\ c = "{" THEN Return("CALL", "key")
       ELSE IF lex.acc = <<"~", "~">> THEN Return("EXTRACT", "key")
       ELSE IF lex.acc = <<"l", "o", "c", "a", "l">> THEN Return("LOCAL", "key")
       ELSE Token("WORD", lex.acc, "real")

TopSpecial ==
    /\ At("top") /\ ~StartsWord
    /\ c \in {"bq", "!", "$", "'"} => lex.w = "non"
    /\ \/ c = "!" /\ Get /\ Return("!", "key")
       \/ c = "bq" /\ Get /\ Scan("backquote", <<>>, lex.w)
       \/ c = "$" /\ Get /\ lex' = [lex EXCEPT !.dollar = TRUE] /\ Goto("dollar")
       \/ c = "'" /\ Get /\ Scan("quote", <<>>, "real")
       \/ c = "\\" /\ Get /\ Scan("slash", <<>>, lex.w)
       \/ c = "#" /\ Get /\ Scan("comment", <<>>, lex.w)
       \/ c = "(" /\ Get /\ Return(IF lex.w = "real" THEN "SUB" ELSE "(", "non")
       \/ c \in {";", "^", ")", "=", "{", "}"} /\ Get /\ Return(c, "non")
       \/ c = "&" /\ Get /\ Scan("amp", <<>>, "non")
       \/ c = "|" /\ Get /\ Scan("pipe", <<>>, "non")
       \/ c = "<" /\ Get /\ Scan("less", <<>>, lex.w)
       \/ c = ">" /\ Get /\ Scan("greater", <<>>, lex.w)
       \/ /\ c \notin non_word /\ Get        \* after a '$': let the grammar barf on it
          /\ Return(IF c \in {"~", "@"} THEN c ELSE "OTHER", "non")

LineEnd ==
    /\ tok' = [kind |-> "NL", s |-> <<>>] /\ pc' = "token"
    /\ lex' = [lex EXCEPT !.w = "non", !.newline = TRUE]
    /\ par' = [par EXCEPT !.lineno = @ + 1] /\ UNCHANGED src
TopNewline == At("top") /\ c = "\n" /\ Get /\ LineEnd
Comment ==
    /\ At("comment")
    /\ \/ c \notin {"\n", "eof", "nul"} /\ Get /\ Scan("comment", <<>>, lex.w)
       \/ c = "\n" /\ Get /\ LineEnd
       \/ c = "eof" /\ Get /\ Return("ENDFILE", lex.w)
       \/ CtrlC

Two(p, second, both, one, w) ==
    /\ At(p)
    /\ IF c = second THEN Get /\ Return(both, w) ELSE Look /\ Return(one, w)
Backquote == Two("backquote", "bq", "BACKBACK", "bq", lex.w)
Ampersand == Two("amp", "&", "ANDAND", "&", "non")
Dollar ==
    /\ At("dollar")
    /\ IF c = "#" THEN Get /\ Return("COUNT", lex.w)
       ELSE IF c = "^" THEN Get /\ Return("FLAT", lex.w)
       ELSE IF c = "&" THEN Get /\ Return("PRIM", lex.w)
       ELSE Look /\ Return("$", lex.w)

\* A quoted word.  Two quotes stand for one; so does a backslash and a quote;
\* a backslash and a line end stand for nothing.
Quote ==
    /\ At("quote")
    /\ \/ c = "'" /\ Get /\ Scan("quote2", lex.acc, lex.w)
       \/ c = "\\" /\ Get /\ Scan("slash2", lex.acc, lex.w)
       \/ CtrlC
       \/ c = "eof" /\ Get /\ Scanerror("non")
       \/ /\ c \notin {"'", "\\", "nul", "eof"} /\ Get
          /\ lex' = [lex EXCEPT !.acc = Append(@, c)]
          /\ IF c = "\n" THEN print_prompt2 ELSE UNCHANGED par
          /\ UNCHANGED <<pc, tok, src>>
QuoteQuote ==
    /\ At("quote2")
    /\ IF c = "'" THEN Get /\ Scan("quote", Append(lex.acc, "'"), lex.w)
       ELSE Look /\ Token("QWORD", lex.acc, lex.w)
QuoteSlash ==
    /\ At("slash2")
    /\ \/ c = "\n" /\ Get /\ print_prompt2 /\ pc' = "quote" /\ UNCHANGED <<lex, tok, src>>
       \/ c = "'" /\ Get /\ Scan("quote", Append(lex.acc, "'"), lex.w)
       \/ c \notin {"\n", "'"} /\ Look /\ Scan("quote", Append(lex.acc, "\\"), lex.w)

\* A backslash outside quotes: a continued line, or a word of one character.
Backslash ==
    /\ At("slash")
    /\ \/ /\ c = "\n"
          /\ in' = unget(taken(in), " ") /\ stream' = <<" ">> \o Rest
          /\ print_prompt2 /\ pc' = "top" /\ UNCHANGED <<lex, tok, src>>
       \/ c = "eof" /\ Look /\ Scanerror(lex.w)
       \/ /\ c \notin {"\n", "eof"} /\ lex.w # "non"
          /\ in' = unget(unget(taken(in), c), "\\") /\ stream' = <<"\\", c>> \o Rest
          /\ Return("^", "non")
       \/ c \notin {"\n", "eof"} /\ lex.w = "non" /\ Look /\ Scan("esc", <<>>, "real")
Esc ==
    /\ At("esc")
    /\ \/ CtrlC
       \/ c \in DOMAIN Letter /\ Get /\ Token("QWORD", <<Letter[c]>>, lex.w)
       \/ c = "x" /\ Get /\ Scan("coded", <<"x">>, lex.w)
       \/ c \in odigit /\ Get /\ Scan("coded", <<"0", c>>, lex.w)
       \/ c \in alnum \ ({"x"} \cup odigit \cup DOMAIN Letter) /\ Get /\ Scanerror(lex.w)
       \/ c \notin alnum \cup {"nul"} /\ Get /\ Token("QWORD", <<c>>, lex.w)
\* The digits of \x41 and of \101; a value of 0 is no character.
Radix(acc) == IF acc[1] = "x" THEN "x" ELSE "0"
CodedMore == c \in IF Radix(lex.acc) = "x" THEN xdigit ELSE odigit
Coding ==
    /\ At("coded")
    /\ \/ /\ CodedMore /\ Get
          /\ Scan("coded", Append(IF Zero(lex.acc) THEN <<Radix(lex.acc)>> ELSE lex.acc, c), lex.w)
       \/ ~CodedMore /\ Zero(lex.acc) /\ Get /\ Scanerror(lex.w)
       \/ ~CodedMore /\ ~Zero(lex.acc) /\ Look /\ Token("QWORD", <<Coded(lex.acc)>>, lex.w)

\* A redirection: its command, then getfds.
Redirect(cmd) == lex' = [lex EXCEPT !.cmd = cmd, !.w = "non"] /\ Goto("fds")
Pipe ==
    /\ At("pipe")
    /\ \/ c = "|" /\ Get /\ Return("OROR", "non")
       \/ c # "|" /\ UNCHANGED <<in, stream>> /\ Redirect("|")
Less ==
    \/ /\ At("less")
       /\ \/ c = ">" /\ Get /\ Scan("lessgreat", <<>>, lex.w)
          \/ c = "<" /\ Get /\ Scan("lessless", <<>>, lex.w)
          \/ c = "=" /\ Get /\ Return("CALL", lex.w)
          \/ c \notin {">", "<", "="} /\ UNCHANGED <<in, stream>> /\ Redirect("%open")
    \/ /\ At("lessgreat")
       /\ IF c = ">" THEN Get /\ Redirect("%open-append")
          ELSE UNCHANGED <<in, stream>> /\ Redirect("%open-write")
    \/ /\ At("lessless")
       /\ IF c = "<" THEN Get /\ Redirect("%here")
          ELSE UNCHANGED <<in, stream>> /\ Redirect("%heredoc")
Greater ==
    \/ /\ At("greater")
       /\ \/ c = ">" /\ Get /\ Scan("greatgreat", <<>>, lex.w)
          \/ c = "<" /\ Get /\ Redirect("%open-create")
          \/ c \notin {">", "<"} /\ UNCHANGED <<in, stream>> /\ Redirect("%create")
    \/ /\ At("greatgreat")
       /\ IF c = "<" THEN Get /\ Redirect("%open-append")
          ELSE UNCHANGED <<in, stream>> /\ Redirect("%append")

\* getfds: [n], [n=m] or [n=]; a pipe cannot be closed.
Redirected(fd1) ==
    IF lex.cmd = "|" THEN Return("PIPE", "non")
    ELSE IF fd1 THEN Return("DUP", "non")
    ELSE Token(IF lex.cmd = "%heredoc" THEN "HEREDOC" ELSE "REDIR", <<>>, "non")
getfds ==
    \/ /\ At("fds")
       /\ IF c = "[" THEN Get /\ Scan("fd0", <<>>, "non") ELSE Look /\ Redirected(FALSE)
    \/ /\ At("fd0") /\ Get
       /\ IF c \in digit THEN Scan("fd0s", <<>>, "non") ELSE Scanerror("non")
    \/ /\ At("fd0s") /\ Get
       /\ \/ c \in digit /\ Scan("fd0s", <<>>, "non")
          \/ c = "=" /\ Scan("fd1", <<>>, "non")
          \/ c = "]" /\ Redirected(FALSE)
          \/ c \notin digit \cup {"=", "]"} /\ Scanerror("non")
    \/ /\ At("fd1") /\ Get
       /\ \/ c \in digit /\ Scan("fd1s", <<>>, "non")
          \/ c = "]" /\ (IF lex.cmd = "|" THEN Scanerror("non") ELSE Redirected(TRUE))
          \/ c \notin digit \cup {"]"} /\ Scanerror("non")
    \/ /\ At("fd1s") /\ Get
       /\ \/ c \in digit /\ Scan("fd1s", <<>>, "non")
          \/ c = "]" /\ Redirected(TRUE)
          \/ c \notin digit \cup {"]"} /\ Scanerror("non")

\* scanerror: up to the end of the line, then ERROR, and a line end made up after it.
SkipLine ==
    /\ At("scanerror") /\ Get
    /\ IF c \notin {"\n", "eof"} THEN UNCHANGED <<lex, pc, tok, par, src>>
       ELSE /\ lex' = [lex EXCEPT !.goterror = TRUE]
            /\ par' = [par EXCEPT !.error = TRUE]
            /\ tok' = [kind |-> "ERROR", s |-> <<>>] /\ pc' = "token" /\ UNCHANGED src

yylex == \/ Yylex \/ Blank \/ TopEof \/ TopCtrlC \/ TopCaret \/ TopWord \/ WordChar \/ WordEnd
         \/ TopSpecial \/ TopNewline \/ Comment \/ Backquote \/ Ampersand \/ Dollar
         \/ Quote \/ QuoteQuote \/ QuoteSlash \/ Backslash \/ Esc \/ Coding
         \/ Pipe \/ Less \/ Greater \/ getfds \/ SkipLine

-----------------------------------------------------------------------------
(* yyparse: where a command ends, recovery from an error, the queue of here documents *)

\* A construct that is open, by its bracket; whether its command has begun; and
\* the markers of its here documents that are not queued yet: those of the
\* redirections before the command (outer: before a binding construct that the
\* command is the body of) and of those after its first word.
Opened(b) == [open |-> b, begun |-> b \notin {"top", "{"},
              outer |-> <<>>, leads |-> <<>>, trail |-> <<>>]

\* parse: the statics of the lexer and the queue are reset, but not goterror;
\* at the end of the source it throws eof.
Parse ==
    /\ pc = "parse"
    /\ lex' = [lex EXCEPT !.newline = FALSE, !.w = "non", !.dollar = FALSE]
    /\ IF par.error THEN pc' = "abort" /\ UNCHANGED par
       ELSE IF in.fill = "eoffill"
       THEN pc' = "end" /\ par' = [par EXCEPT !.queue = <<>>]
       ELSE /\ pc' = "lex"
            /\ par' = [par EXCEPT !.queue = <<>>, !.prompt2 = FALSE, !.gcblocked = @ + 1,
                                  !.nest = <<Opened("top")>>, !.want = "none", !.marker = <<>>,
                                  !.last = "word", !.skip = FALSE, !.bad = FALSE,
                                  !.toks = <<>>, !.docs = <<>>]
    /\ UNCHANGED <<in, tok, src, stream>>

\* The innermost construct, with the marker of a redirection that is now read.
frame ==
    LET f == Last(par.nest)
    IN  IF f.begun THEN [f EXCEPT !.trail = @ \o par.marker] ELSE [f EXCEPT !.leads = @ \o par.marker]
InCommand == frame.open \in {"top", "{"}
\* redirect is called for a simple command and its redirections, then for each
\* redirection before it, the nearest first; a pipeline is inside of the latter,
\* and a list inside of those before a binding construct.
Pending == frame.trail \o Reverse(frame.outer \o frame.leads)
Reduced == CASE tok.kind = "PIPE" -> frame.trail
             [] tok.kind \in {"ANDAND", "OROR"} -> frame.trail \o Reverse(frame.leads)
             [] OTHER -> Pending
Literal(ms) == \A k \in DOMAIN ms : ms[k].literal

Step(p, q) == pc' = p /\ par' = q /\ UNCHANGED <<in, lex, tok, src, stream>>
\* The constructs are these now, and after the token the grammar is at last;
\* queueheredoc puts each marker of ms at the front of the queue.
Shifted(nest, last, ms) ==
    [par EXCEPT !.toks = Append(@, tok), !.nest = nest, !.last = last,
                !.want = "none", !.marker = <<>>, !.queue = Reverse(ms) \o @]
Innermost(f) == Front(par.nest) \o <<f>>
Becomes(f, last) == Step("lex", Shifted(Innermost(f), last, <<>>))

\* The word of a redirection; other words than those made of words and
\* variables are left out.  A marker is literal if it is one word.
Target ==
    /\ \/ par.want \in {"marker", "word"} /\ tok.kind \in {"WORD", "QWORD", "$"}
       \/ par.want = "file" /\ tok.kind = "^"
    /\ Step("lex",
         [par EXCEPT
           !.toks = Append(@, tok),
           !.last = IF tok.kind = "^" THEN "caret" ELSE "word",
           !.want = IF tok.kind \in {"WORD", "QWORD"} THEN "file" ELSE "word",
           !.marker = IF par.want = "marker"
                      THEN <<[eof |-> tok.s, quoted |-> tok.kind = "QWORD", literal |-> tok.kind # "$"]>>
                      ELSE [k \in DOMAIN @ |-> [@[k] EXCEPT !.literal = FALSE]]])

\* The token comes after a redirection that is complete.
Complete == par.want = "none" \/ (par.want = "file" /\ tok.kind # "^")
word == {"WORD", "QWORD", "^", "=", "$", "bq", "BACKBACK", "COUNT", "FLAT", "PRIM", "CALL",
         "~", "@", "!", "EXTRACT", "LOCAL"}
\* A word of a command; before the first, '!' negates it and "local" binds.
Word ==
    /\ tok.kind \in word /\ par.last # "binder"
    /\ IF tok.kind = "^" /\ par.last \in {"not", "is"} THEN Becomes(frame, "word")
       ELSE IF ~frame.begun /\ tok.kind = "!" THEN Becomes(frame, "not")
       ELSE IF ~frame.begun /\ tok.kind = "LOCAL"
       THEN Becomes([frame EXCEPT !.outer = @ \o frame.leads, !.leads = <<>>], "binder")
       ELSE Becomes([frame EXCEPT !.begun = TRUE],
                    CASE tok.kind = "^" -> "caret" [] tok.kind = "=" -> "is" [] OTHER -> "word")
Open ==
    /\ tok.kind \in {"(", "SUB", "{"} /\ (par.last = "binder" => tok.kind = "(")
    /\ Step("lex",
         IF par.last = "binder" THEN Shifted(Innermost(frame) \o <<Opened("bind")>>, "word", <<>>)
         ELSE Shifted(Innermost([frame EXCEPT !.begun = TRUE]) \o <<Opened(tok.kind)>>, "word", <<>>))
Close ==
    \/ /\ tok.kind = ")" /\ frame.open \in {"(", "SUB", "bind"}
       /\ Step("lex", Shifted(Front(par.nest), IF frame.open = "bind" THEN "bound" ELSE "word", <<>>))
    \/ /\ tok.kind = "}" /\ frame.open = "{" /\ Literal(Pending)
       /\ Step("lex", Shifted(Front(par.nest), "word", Pending))
Redirection ==
    /\ InCommand /\ par.last # "binder" /\ tok.kind \in {"HEREDOC", "REDIR", "DUP"}
    /\ Step("lex", [Shifted(Innermost(frame), "word", <<>>) EXCEPT
                      !.want = CASE tok.kind = "HEREDOC" -> "marker" [] tok.kind = "REDIR" -> "word"
                                 [] OTHER -> "none"])
\* The command is complete, or what the next one is combined with.
Separator ==
    \/ tok.kind = ";" /\ frame.open = "bind" /\ Becomes(frame, "word")
    \/ /\ tok.kind \in {";", "&", "ANDAND", "OROR", "PIPE"} /\ InCommand /\ par.last # "binder"
       /\ Literal(Reduced)
       /\ LET f == CASE tok.kind = "PIPE" -> [frame EXCEPT !.trail = <<>>, !.begun = FALSE]
                     [] tok.kind \in {"ANDAND", "OROR"} -> [Opened(frame.open) EXCEPT !.outer = frame.outer]
                     [] OTHER -> Opened(frame.open)
          IN  Step("lex", Shifted(Innermost(f), IF tok.kind \in {";", "&"} THEN "word" ELSE "more", Reduced))
Shift ==
    /\ pc = "token" /\ ~par.skip
    /\ Target \/ (Complete /\ (Word \/ Open \/ Close \/ Redirection \/ Separator))

\* nl, nlwords and bindings: a line end that does not end the command.
Skips == par.last \in {"more", "caret", "binder", "bound"} \/ frame.open \in {"(", "bind"}
SkipNL == pc = "token" /\ ~par.skip /\ tok.kind = "NL" /\ Skips /\ Step("lex", par)

\* queueheredoc refuses a marker that is not one literal word: YYABORT, in the
\* middle of the line.
BadMarker ==
    /\ pc = "token" /\ ~par.skip /\ Complete /\ ~Literal(Pending)
    /\ Step("finish", [par EXCEPT !.error = TRUE, !.bad = TRUE])

\* yyerror: the grammar has no use for the token.  What was parsed is dropped;
\* the commands that end before the token may be reduced first.
Refuse ==
    /\ pc = "token" /\ ~par.skip
    /\ \E k \in 0..(IF Complete /\ Literal(Pending) THEN Len(Pending) ELSE 0) :
         Step("token", [par EXCEPT !.error = TRUE, !.skip = TRUE, !.nest = <<Opened("top")>>,
                                   !.want = "none", !.marker = <<>>, !.last = "word",
                                   !.queue = Reverse(SubSeq(Pending, 1, k)) \o @])
\* es : error end -- tokens are discarded up to a line end.
Discard ==
    /\ pc = "token" /\ par.skip /\ tok.kind \notin {"NL", "ENDFILE"}
    /\ Step("lex", par)

\* Once the documents are read: the command is complete, or the line of a block is.
After(q) == IF Len(q.nest) = 1 THEN "finish" ELSE "lex"
\* end : NL | ENDFILE and cmdsan : cmd NL -- readheredocs, unless the queue is empty.
EndLine ==
    /\ pc = "token" /\ Complete /\ InCommand /\ Literal(Pending)
    /\ \/ tok.kind = "NL" /\ ~Skips
       \/ tok.kind = "ENDFILE" /\ Len(par.nest) = 1
    /\ LET queue == Reverse(Pending) \o par.queue
           q == [par EXCEPT !.queue = queue, !.nest = Innermost(Opened(frame.open)), !.last = "word",
                            !.want = "none", !.marker = <<>>, !.bad = par.skip]
       IN  IF queue = <<>> THEN Step(After(q), q)
           ELSE IF tok.kind = "ENDFILE" THEN Step("finish", [q EXCEPT !.error = TRUE, !.bad = TRUE])
           ELSE Step("here", q)

\* parse returns, or fails with the error.
Finish ==
    /\ pc = "finish"
    /\ LET q == [par EXCEPT !.gcblocked = @ - 1]
       IN  IF par.bad \/ par.error
           THEN Step(IF ~par.error THEN "abort" ELSE IF src.tty THEN "parse" ELSE "end",
                      [q EXCEPT !.error = FALSE])
           ELSE Step(IF src.one THEN "term" ELSE "parse", [q EXCEPT !.ok = TRUE])
\* parseinput wants nothing after the tree.
Term ==
    /\ At("term") /\ Get /\ pc' = "end"
    /\ par' = [par EXCEPT !.ok = c = "eof"] /\ UNCHANGED <<lex, tok, src>>
\* An exception out of yyparse: the interactive loop goes on, a script ends.
Thrown ==
    /\ pc = "thrown"
    /\ Step(IF src.tty THEN "parse" ELSE "end", par)

yyparse == Parse \/ Shift \/ SkipNL \/ BadMarker \/ Refuse \/ Discard \/ EndLine \/ Finish \/ Term \/ Thrown

-----------------------------------------------------------------------------
(* readheredocs and snarfheredoc *)

eof == Head(par.queue).eof
quoted == Head(par.queue).quoted
Incomplete == Step("finish", [par EXCEPT !.error = TRUE, !.bad = TRUE])

\* The next document of the queue; its marker may not hold a line end.
Snarf ==
    /\ pc = "here"
    /\ IF "\n" \in Range(eof) THEN Incomplete
       ELSE /\ print_prompt2
            /\ lex' = [lex EXCEPT !.acc = <<>>, !.m = 0, !.from = Len(Text) - Len(stream) + 1]
            /\ pc' = "mark" /\ UNCHANGED <<in, tok, src, stream>>

\* Out of a document that does not end.
HereFails == Get /\ pc' = "finish" /\ par' = [par EXCEPT !.error = TRUE, !.bad = TRUE]
             /\ UNCHANGED <<lex, tok, src>>
\* One character goes into the document; after a line end the marker is looked for.
Copied(doc) ==
    /\ Get /\ lex' = [lex EXCEPT !.acc = Append(doc, c), !.m = 0]
    /\ IF c = "\n" THEN print_prompt2 /\ pc' = "mark" ELSE pc' = "copy" /\ UNCHANGED par
    /\ UNCHANGED <<tok, src>>
PutBackNone == <<>>                \* a slip: the matched part is lost
PutBack == SubSeq(eof, 1, lex.m)
\* What is read after what is taken for the marker decides: a line end, the
\* end of the source, or a character of the document, the part of the marker
\* matched so far being put in before it.
Matching == lex.m < Len(eof) /\ c = eof[lex.m + 1]
Mark ==
    /\ At("mark")
    /\ \/ Matching /\ Get /\ lex' = [lex EXCEPT !.m = @ + 1] /\ Goto("mark")
       \/ c = "nul" /\ HereFails
       \/ /\ lex.m = Len(eof) /\ c \in {"\n", "eof"} /\ Get
          /\ par' = [par EXCEPT !.queue = Tail(@),
                                !.docs = Append(@, [eof |-> eof, quoted |-> quoted,
                                                    from |-> lex.from, doc |-> lex.acc])]
          /\ pc' = (IF Len(par.queue) > 1 THEN "here" ELSE After(par))
          /\ UNCHANGED <<lex, tok, src>>
       \/ /\ ~Matching /\ c # "nul" /\ ~(lex.m = Len(eof) /\ c \in {"\n", "eof"})
          /\ UNCHANGED <<in, stream>>
          /\ lex' = [lex EXCEPT !.acc = @ \o PutBack, !.m = 0] /\ Goto("copy")
Copy ==
    /\ At("copy")
    /\ \/ c \in {"nul", "eof"} /\ HereFails
       \/ c = "$" /\ ~quoted /\ Get /\ Goto("heredollar") /\ UNCHANGED lex
       \/ c \notin {"nul", "eof"} /\ ~(c = "$" /\ ~quoted) /\ Copied(lex.acc)
\* $$ stands for one; otherwise getherevar reads a name.  (Its test for an
\* empty name looks at the size of the buffer and is never true.)
HereDollar ==
    /\ At("heredollar")
    /\ IF c = "$" THEN Copied(lex.acc)
       ELSE Look /\ lex' = [lex EXCEPT !.acc = Append(@, "var")] /\ Goto("herevar")
\* A '^' after the name is dropped.  At the end of the source dollar_non_word
\* is read out of its bounds: the name stops there or never.
HereVar ==
    /\ At("herevar")
    /\ \/ c \in dollar_word /\ Get /\ UNCHANGED lex /\ Goto("herevar")
       \/ c = "^" /\ Get /\ UNCHANGED lex /\ Goto("copy")
       \/ c \notin dollar_word \cup {"^"} /\ Look /\ UNCHANGED lex /\ Goto("copy")
       \/ c = "eof" /\ Get /\ UNCHANGED lex /\ Goto("hang")

readheredocs == Snarf \/ Mark \/ Copy \/ HereDollar \/ HereVar

-----------------------------------------------------------------------------
Init ==
    /\ src \in Sources
    /\ in = [reads |-> IF src.str THEN <<>> ELSE src.reads,
             buf |-> IF src.str THEN Text ELSE <<>>, at |-> 1, rat |-> 0, ungot |-> <<>>,
             fill |-> IF src.str THEN "stringfill" ELSE "fdfill", rfill |-> "NULL",
             intr |-> FALSE, verbose |-> src.verbose, echoed |-> 0]
    /\ lex = [w |-> "non", newline |-> FALSE, goterror |-> FALSE, dollar |-> FALSE,
              meta |-> "non_word", acc |-> <<>>, cmd |-> "NULL", m |-> 0, from |-> 0]
    /\ pc = "parse" /\ tok = [kind |-> "NL", s |-> <<>>]
    /\ par = [lineno |-> 1, prompt2 |-> FALSE, error |-> FALSE, gcblocked |-> 0,
              nest |-> <<Opened("top")>>, want |-> "none", marker |-> <<>>, last |-> "word",
              queue |-> <<>>, skip |-> FALSE, bad |-> FALSE, ok |-> FALSE, toks |-> <<>>, docs |-> <<>>]
    /\ stream = Text

read == SkipNul \/ Fill \/ FillEof \/ FillSignal \/ FillNoop \/ FillError
Next == read \/ yylex \/ yyparse \/ readheredocs
Spec == Init /\ [][Next]_vars

-----------------------------------------------------------------------------
(* Properties *)

\* What the reads hand over comes once and in order.  The buffer, the saved
\* place in it and the push-back array are one stack of characters: what GETC
\* will return is what is left of that text, with what was pushed back before
\* it; the array is never outgrown (the assertion of unget); and a verbose
\* source is echoed once, however often it is looked at (input.cpp: ungetfill,
\* unget, get, getverbose).  Of what a read took that a signal then cut off,
\* it says nothing: LosesNothing.
DeliversStream ==
    LET unread == SubSeq(in.buf, IF in.fill = "ungetfill" THEN in.rat ELSE in.at, Len(in.buf))
                  \o Chars(in.reads)
    IN  /\ Reverse(in.ungot) \o unread = stream
        /\ Len(in.ungot) <= MAXUNGET
        /\ (in.fill = "ungetfill") = (in.ungot # <<>>)
        /\ in.verbose /\ src.sound => in.echoed = Len(Text) - Len(unread)

\* The source is read without gaps: what read(2) took so far is what the reads
\* handed over.  A signal between the system call and the buffer breaks it.
LosesNothing ==
    LET done == SubSeq(src.reads, 1, Len(src.reads) - Len(in.reads))
    IN  ~src.str => FlattenSeq([k \in DOMAIN done |-> done[k].chars]) = Chars(done)

\* Between commands, the parser holds no error of the last one and the
\* collector is enabled, whether the last command was parsed, refused or cut
\* off by a signal: the assertions of parse hold.  (A read that fails, and a
\* signal of effect sig_noop after a syntax error, do break them.)
ParserClean ==
    src.sound => /\ pc # "abort"
                 /\ pc \in {"parse", "end"} => ~par.error /\ par.gcblocked = 0

\* A here document is what stands between its line and the first line that is
\* its marker in the text that is handed over, whatever part of the marker its
\* lines begin with (heredoc.c: snarfheredoc); a NUL in it would be left out, or
\* end it.
MarkerAt(p, m) ==
    /\ p + Len(m) <= Len(Text) + 1 /\ \A k \in DOMAIN m : Text[p + k - 1] = m[k]
    /\ p + Len(m) <= Len(Text) => Text[p + Len(m)] = "\n"
LineAt(d, p) == p = d.from \/ Text[p - 1] = "\n"
Exact(d) ==
    \E p \in d.from..Len(Text) + 1 :
        /\ LineAt(d, p) /\ MarkerAt(p, d.eof) /\ d.doc = SubSeq(Text, d.from, p - 1)
        /\ \A q \in d.from..p - 1 : ~(LineAt(d, q) /\ MarkerAt(q, d.eof))
HeredocExact ==
    "nul" \notin Range(Text) => \A k \in DOMAIN par.docs : par.docs[k].quoted => Exact(par.docs[k])

\* What the printer writes for a word is read back as that word: no line of it
\* is refused by the lexer, and the pieces joined are the word (conv.c: Sconv,
\* against token.c: yylex).
RoundTrip ==
    src.printed =>
        /\ pc = "token" => tok.kind # "ERROR"
        /\ pc = "end" /\ par.ok =>
              /\ FlattenSeq([k \in DOMAIN par.toks |-> par.toks[k].s]) = src.word
              /\ \A k \in DOMAIN par.toks : par.toks[k].kind = IF k % 2 = 1 THEN "QWORD" ELSE "^"

=============================================================================
