CONSTANTS
  U64_MAX = 15
  I64_MAX = 7
  OFF_MAX = 3
  U32_MAX = 7
  SIZE_MAX = 7
  MaxSize = 6
SPECIFICATION Spec
INVARIANTS TypeOK CursorRepresentable ZeroMeansEOF
PROPERTY SeekExact
