\* Three jobs of two files, one worker, one restart.
SPECIFICATION Spec
CONSTANTS
  j1 = j1
  j2 = j2
  j3 = j3
  Job <- MCJob
  Files = 2
  MaxConcurrent = 1
  MaxPending = 2
  MaxRestarts = 1
INVARIANTS NoZombie
PROPERTIES VerdictStands Decided
