SPECIFICATION Spec
CONSTANTS
  Labels = {0, 16, 262144, 458751, 458752, 1048575, 1048576}
  Payloads <- MCPayloads
  MaxDepth = 3
INVARIANT BottomMarksBottom
