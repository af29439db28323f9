----------------------------- MODULE MCLanguage -----------------------------
(***************************************************************************)
(* What the language is made of, checked in one run: the reader, the       *)
(* patterns, splitting, and the making of words.  A behaviour is that of   *)
(* one of them, chosen by part, while the others stay in one of their      *)
(* initial states; they share no variable.                                 *)
(***************************************************************************)
EXTENDS MCReader

\* The words printed here are those that the theorem about RoundTrip is about.
ASSUME PrintedAre == PrintedAssumption

CONSTANTS
    Subjects, Patterns, Codes, Places,
    Calls, MaxIfs, MaxCalls,
    Trees, Values, Home, Files, Cwd, Collation

VARIABLES
    part,
    subject, pattern, beyond, answer,
    call, left, buffer, value, ifs, isifs, moved, spoilt, result, calls,
    tree, list, quote, lp, fault, phase

mvars == <<subject, pattern, beyond, answer>>
svars == <<call, left, buffer, value, ifs, isifs, moved, spoilt, result, calls>>
wvars == <<tree, list, quote, lp, fault, phase>>

M == INSTANCE Match WITH Ord <- Codes
S == INSTANCE Split
W == INSTANCE Words WITH Ord <- Collation, Beyond <- {}

Parts == {"reader", "patterns", "splitting", "words"}
\* The inputs of the part at hand, and one of those of another part.
Of(p, inputs) == IF part = p THEN inputs ELSE {CHOOSE x \in inputs : TRUE}
LanguageInit ==
    /\ part \in Parts
    /\ src \in Of("reader", Sources) /\ subject \in Of("patterns", Subjects)
    /\ pattern \in Of("patterns", Patterns) /\ beyond \in Of("patterns", SUBSET Places)
    /\ tree \in Of("words", Trees)
    /\ Init /\ M!Init /\ S!Init /\ W!Init
LanguageNext ==
    \/ part = "reader" /\ Next /\ UNCHANGED <<part, mvars, svars, wvars>>
    \/ part = "patterns" /\ M!Next /\ UNCHANGED <<part, vars, svars, wvars>>
    \/ part = "splitting" /\ S!Next /\ UNCHANGED <<part, vars, mvars, wvars>>
    \/ part = "words" /\ W!Next /\ UNCHANGED <<part, vars, mvars, svars>>
LanguageSpec == LanguageInit /\ [][LanguageNext]_<<part, vars, mvars, svars, wvars>>

-----------------------------------------------------------------------------
(* The instances: the inputs of the MC modules, which depend on no constant *)

MI == INSTANCE MCMatch WITH Subjects <- {}, Patterns <- {}, Ord <- <<>>, Places <- {}
SI == INSTANCE MCSplit WITH Calls <- {}
WI == INSTANCE MCWords WITH Trees <- {}, Values <- <<>>, Home <- <<>>, Files <- <<>>, Cwd <- <<>>, Ord <- <<>>, Beyond <- {}
TheSources == Usual
TheSubjects == MI!Words
ThePatterns == MI!Lists
TheCodes == MI!Order
ThePlaces == MI!Behind
TheCalls == SI!TheCalls
TheTrees == WI!Arguments
TheValues == WI!Vars
TheHomes == WI!Homes
TheFiles == WI!Tree
TheCwd == WI!Here
TheCollation == WI!Order

-----------------------------------------------------------------------------
(* The properties of the other parts *)

\* A match is what the pattern means (match.c; see Match).
MatchAgrees == part = "patterns" => M!MatchAgrees
\* What is extracted fills the pattern's places (match.c; see Match).
ExtractRebuilds == part = "patterns" => M!ExtractRebuilds
\* The words are those of the text, however it is cut up (split.c; see Split).
WordsOfText == part = "splitting" => S!WordsOfText
\* A word means what its tree says (glom.cpp, glob.cpp; see Words).
WordsMean == part = "words" => W!WordsMean
=============================================================================
