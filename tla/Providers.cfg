\* Two requests to each of the three workers, a text of up to three parts; two
\* requests to the gateway, which come at once or one after the other, and a worker
\* that changes once.
SPECIFICATION ProvidersSpec
CONSTANTS
  a = a
  b = b
  kokoro = kokoro
  qwen3 = qwen3
  k = k
  n = n
  t1 = t1
  t2 = t2
  Model <- MCModel
  NoModel = NoModel
  Engines <- MCEngines
  QueueSize = 2
  MaxRequests = 2
  MaxParts = 3
  Local <- MCLocal
  External <- MCExternal
  Name <- MCName
  Kept <- MCKept
  Thread <- MCThread
  Nobody = Nobody
  NoName = NoName
  MaxAsks = 2
  MaxChanges = 1
INVARIANTS EngineAlone CleanEnd KeptStaysKnown
PROPERTIES LockReturns AllAnswered
CHECK_DEADLOCK FALSE
