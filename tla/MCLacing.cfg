SPECIFICATION Spec
CONSTANTS
  kByteBits = 4
  kWordBits = 16
  Bytes = {0, 1, 3, 5, 8, 10, 11, 12, 15}
  Counts = {0, 1, 2, 3}
  Sizes = {5, 6, 8, 9, 11}
  kHeader = 4
  Position = 20
  HeaderSize = 2
  MaxLaceBytes = 5
INVARIANTS ParsersAgree FramesFillBlock
CHECK_DEADLOCK FALSE
