\* Two requests of any kind, a cache for one file, one crash.
SPECIFICATION Spec
CONSTANTS
  k1 = k1
  k2 = k2
  None = None
  Key <- MCKey
  Kinds = {"stream", "whole", "clone", "wyoming"}
  MaxRequests = 2
  QueueSize = 1
  MaxChunks = 2
  MaxFiles = 1
  Rate = 22050
  MaxCrashes = 1
INVARIANTS CleanStreamEnd
PROPERTIES WorkersStop WaitersServed CacheTrimmed
CHECK_DEADLOCK FALSE
