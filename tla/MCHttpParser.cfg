SPECIFICATION Spec
CONSTANTS
  ULLONG_MAX = 32
  Types <- MCTypes
  MaxHeaderSize = 36
  StatusLimit = 9
  MaxPauses = 1
  MaxMessages = 2
  MaxHeaders = 2
  MaxChunks = 1
  StartLines <- MCStartLines
  HeaderLines <- MCHeaderLines
  TrailerLines <- MCTrailerLines
  Ends <- MCEnds
  ChunkLines <- MCChunkLines
VIEW View
CHECK_DEADLOCK FALSE
INVARIANTS ElementsWhole InStep StopsAtTheBad HeadBounded AssertsHold
PROPERTY ImplementsCallbacks
