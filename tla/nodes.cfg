\* Nodelists on disk, in memory and line by line; lookups; spellings of
\* addresses.  Nothing is left to do when an input is dealt with, or no
\* nodelist may come and no start be made any more.
SPECIFICATION MCSpec
CONSTANTS
  Part = {"store", "parse", "lookup", "address"}
  nodelist = nodelist
  points = points
  api = api
  None = None
  Pending = Pending
  Error = Error
  Base <- MCBase
  Ext = {1, 2}
  Day <- MCDay
  Reader = {api}
  Overlap = FALSE
  ReplaceAny = FALSE
  MaxTime = 2
  MaxTexts = 3
  MaxStarts = 3
INVARIANTS
  EntriesFound
  FirstThatKnows
  ParsesSpellings
PROPERTIES
  CacheCurrent
  RoundTrip
CHECK_DEADLOCK FALSE
