SPECIFICATION FairSpec
CONSTANTS
  Streams = {"stdout", "stderr"}
  MaxOutput = 1
  PipeSize = 2
  Chunk = 2
  MaxWritten = 3
  MayFail = TRUE
INVARIANTS
  ResultIsTrue
PROPERTIES
  NobodyIsStuck
