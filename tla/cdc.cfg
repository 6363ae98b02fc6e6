SPECIFICATION SliceSpec
CONSTANTS
  MinChunk = 1
  AvgChunk = 2
  MaxChunk = 4
  Block = 2
  MaxLen = 7
  MaxLines = 5
  MaxLine = 1
INVARIANTS SliceInv ReassemblesExactly CutsAsWholeFile EndsAtEnd ChunkBounded TextReassembles
PROPERTIES Terminates
\* The iterator is done at the end of the file, the split at the last line.
CHECK_DEADLOCK FALSE
