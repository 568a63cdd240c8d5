\* Two writers, three streams, channels and files of one or two places.
CONSTANTS
  Writers = 2
  Streams = 3
  MaxSize = 2
  Window = 1
  Cap = 1
  MaxLog = 1
  BufLines = 1
  Past = 2
  MaxEntries = 4
SPECIFICATION Spec
INVARIANTS NoGap OnlySeniorsSilence FileIsTail
CHECK_DEADLOCK FALSE
