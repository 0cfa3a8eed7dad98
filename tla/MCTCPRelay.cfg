\* Two relays, two addresses to try, two connections; four descriptors.
CONSTANTS
  Fds = {fd1, fd2, fd3, fd4}
  BadFd = bad
  Relays = {r1, r2}
  Handlers = {r1, r2}
  Items = {c1, c2}
  NULL = null
  MaxEvents = 2
  MaxInput = 2
  MaxGen = 1
  MaxAddresses = 2
SPECIFICATION FairSpec
INVARIANTS TypeOK RelayHasItsSocket
PROPERTIES ImplementsLoop ConnectionIsAccepted
CHECK_DEADLOCK FALSE
