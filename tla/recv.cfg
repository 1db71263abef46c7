\* The receiver with noise, interleaved messages, timeouts and a message that is too long.
SPECIFICATION Spec
CONSTANTS
  Shapes <- MCShapes
  Answers = {"rsp", "data"}
  NoHeader = NoHeader
  Noise = {"ignored", "invalid"}
  Buffers = {b1, b2, b3}
  SizeLimit = 15
  Interleaves = TRUE
  MaxMessages = 2
  MaxNoise = 1
  MaxRequests = 1
INVARIANTS NeverDeaf DeliveredWhole NothingLost
SYMMETRY BufferSymmetry
CHECK_DEADLOCK FALSE
