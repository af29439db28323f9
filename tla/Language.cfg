SPECIFICATION LanguageSpec
CONSTANTS
  Sources <- TheSources
  MAXUNGET = 2
  Subjects <- TheSubjects
  Patterns <- ThePatterns
  Codes <- TheCodes
  Places <- ThePlaces
  Calls <- TheCalls
  MaxIfs = 2
  MaxCalls = 3
  Trees <- TheTrees
  Values <- TheValues
  Home <- TheHomes
  Files <- TheFiles
  Cwd <- TheCwd
  Collation <- TheCollation
INVARIANTS
  DeliversStream
  ParserClean
  HeredocExact
  RoundTrip
  MatchAgrees
  ExtractRebuilds
  WordsOfText
  WordsMean
\* A source, a match, a split or a word comes to its end.
CHECK_DEADLOCK FALSE
