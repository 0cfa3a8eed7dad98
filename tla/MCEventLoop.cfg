\* Batches of two events, whose handlers may call anything on either descriptor.
CONSTANTS
  Fds = {fd1, fd2}
  BadFd = bad
  Handlers = {h1}
  Items = {x}
  NULL = null
  MaxEvents = 2
  MaxInput = 1
  MaxGen = 2
SPECIFICATION LoopSpec
INVARIANTS LoopTypeOK InterestHasHandler
CHECK_DEADLOCK FALSE
