\* Two commits, one at an empty text, a window of one frame, pauses and resumes at will, a cancellation that finds the segmenter blocked.
SPECIFICATION Spec
CONSTANTS
  Text <- OneWord
  CueParts = 2
  MaxBuffer = 1
  MaxSegments = 1
  MaxUnacked = 1
  MaxFrames = 2
  MaxCancels = 1
  MaxCommits = 2
  Uses = {"flow", "pause"}
INVARIANTS WindowKept WakeUpPending
PROPERTIES CommitAnswered
