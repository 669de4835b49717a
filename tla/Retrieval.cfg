SPECIFICATION MCSpec

CONSTANTS
  r1 = r1  r2 = r2  f1 = f1  f2 = f2  s1 = s1  q1 = q1  none = none
  Numbers <- MCNumbers
  Headings <- MCHeadings
  Dots <- MCDots
  Stops <- MCStops
  Vocabulary <- MCVocabulary
  Closings <- MCClosings
  Symbols <- MCSymbols
  Replacements <- MCReplaced
  MaxSize = 8
  Overlap = 2
  MinContent = 2
  MaxThreats = 3
  TabSize = 2
  Runs = {r1, r2}
  Files = {f1, f2}
  Documents <- MCDocuments
  Revisions <- MCRevisions
  BatchSize = 2
  MaxChunks = 5
  MaxEdits = 1
  MaxFailures = 2
  Nothing = none
  Searches = {s1}
  Queries = {q1}
  QueryOf <- MCQueryOf
  TopK = 2
  FusionCandidates = 3
  RrfK = 2
  RetrievalWeight = 2
  MaxFaults = 2
  EvalCases <- MCCases
  EvalResults <- MCResultLists
  Replies <- MCReplies
INVARIANTS
    IndexRight
    TextKept
    SearchRight
    EvaluationRight
PROPERTIES
    AllEnd
CHECK_DEADLOCK FALSE
