\* A vector of two bytes, three bytes of text each way, the vector uncut.
CONSTANTS
  Peers = {client, server}
  Bytes = {x, y}
  Garbage = garbage
  NULL = null
  IvLen = 2
  FirstRead = 2
  MaxBuf = 2
  MaxGiven = 3
SPECIFICATION FairSpec
INVARIANT TypeOK
PROPERTIES StreamSpec EverythingArrives
CHECK_DEADLOCK FALSE
