\* Two replies of two chunks, two turns of the user, one change of settings.
SPECIFICATION Spec
CONSTANTS
  Settings <- MCSettings
  MaxReplies = 2
  MaxChunks = 2
  MaxTurns = 2
  MaxUpdates = 1
INVARIANTS HoldHasDecider HeldAudioStays
PROPERTIES ReplyInOrder CancelSilences ReplyEnds
