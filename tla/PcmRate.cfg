\* A Piper voice at 22 050 Hz, for what README.md says of PCM.
SPECIFICATION Spec
CONSTANTS
  k1 = k1
  k2 = k2
  None = None
  Key <- MCKey
  Kinds = {"stream", "whole", "clone", "wyoming"}
  MaxRequests = 2
  QueueSize = 1
  MaxChunks = 2
  MaxFiles = 1
  Rate = 22050
  MaxCrashes = 0
INVARIANTS PcmAt24k
CHECK_DEADLOCK FALSE
