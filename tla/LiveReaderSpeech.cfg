\* A text with a code block whose cue is cut in every way, cancelled once; settings change when they may.
SPECIFICATION Spec
CONSTANTS
  Text <- CodeMark
  CueParts = 2
  MaxBuffer = 2
  MaxSegments = 1
  MaxUnacked = 1
  MaxFrames = 2
  MaxCancels = 1
  MaxCommits = 1
  Uses = {"update"}
INVARIANTS BufferExact
PROPERTIES SpeechContract
