\* One document, two pool threads, two requests, a folder for one file, one file
\* at a time that the file system fails on, one restart.
SPECIFICATION ReaderSpec
CONSTANTS
  d1 = d1
  h1 = h1
  h2 = h2
  None = None
  Doc <- MCDoc
  Handler <- MCHandler
  Outline <- MCOutline
  Lookahead = 2
  PartChars = 12
  MaxFiles = 1
  MaxStuck = 1
  MaxAsks = 2
  MaxRestarts = 1
INVARIANTS RowHasFile
PROPERTIES DeletedGone WantedServed
CHECK_DEADLOCK FALSE
