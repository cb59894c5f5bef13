SPECIFICATION FairSpec
CONSTANTS
  HiWriters = {h1, h2}
  LoWriters = {lo}
  Readers = {r}
  Others = others
  Pieces = 2
  BufferSize = 3
  Faults = {"open", "write", "read", "short", "kill"}
INVARIANTS TextsInOrder ReturnedTextIsWhole ReadersPrintThePrefix NothingMissed
PROPERTIES CallsEnd
