\* One model for transcription, a Piper voice, and a worker with two models.
SPECIFICATION Spec
CONSTANTS
  whisper = whisper
  voice = voice
  qwenA = qwenA
  qwenB = qwenB
  stt = stt
  piper = piper
  worker = worker
  u1 = u1
  Model <- MCModel
  Provider <- MCProvider
  At <- MCAt
  Worker = {worker}
  Piper = {piper}
  Stt = {whisper}
  User = {u1}
  Asked <- MCAsked
  Preloaded = {qwenA}
  MaxLoaded = 1
  MaxRequests = 2
  MaxFailures = 1
INVARIANTS InUseLoaded PiperOnDisk InFlight
PROPERTIES  RequestsAnswered IdleGoes
