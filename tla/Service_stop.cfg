SPECIFICATION FairSpec
CONSTANTS
  Instances = {i1, i2}
  Pids = {p1, p2}
  NoPid = NoPid
INVARIANTS
  StoppedLeavesNone
  OneProgram
PROPERTY
  ProgramRestarted
