\* Fifteen units of audio against chunks of three and windows of two, utterances of
\* six at most and three at least; four chunks and three connections; eight windows
\* of a millisecond, of which two make a second: a rate of two divides, one of three not.
SPECIFICATION Spec
CONSTANTS
  ChunkUnits = 3
  WindowUnits = 2
  MinUtterance = 3
  MaxUtterance = 6
  Endpointing = 4
  MaxSessions = 1
  Packets = {1, 2, 7}
  MaxAudio = 15
  Hypotheses <- MCHypotheses
  Chunks = 4
  ReconnectAttempts = 2
  MaxUpload = 3
  ReadSize = 2
  MinSpeechWindows = 2
  SilenceWindows = 2
  Second = 2
  WindowMs = 1
  Rates = {2, 3}
  MaxFile = 5
  MaxWindows = 8
  MaxStops = 2
INVARIANTS SpeechOnce NothingSkipped HeardWhole
PROPERTIES ClientEnds
CHECK_DEADLOCK FALSE
