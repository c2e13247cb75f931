\* One response, and every way a session can end.
SPECIFICATION Spec
CONSTANTS
  Text <- OneWord
  CueParts = 2
  MaxBuffer = 1
  MaxSegments = 1
  MaxUnacked = 1
  MaxFrames = 2
  MaxCancels = 0
  MaxCommits = 1
  Uses = {"leave", "giveUp", "flow", "idle"}
PROPERTIES AdmissionContract SlotFreed
