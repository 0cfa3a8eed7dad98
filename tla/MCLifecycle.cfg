\* Three resolvers on three descriptor numbers, opened, closed and deleted.
CONSTANTS
  h1 = h1  h2 = h2  a1 = a1  a2 = a2  b1 = b1
  Fds = {fd1, fd2, fd3}
  BadFd = bad
  NoSocket = nosocket
  Resolvers = {r1, r2, r3}
  Handlers = {r1, r2, r3}
  Hosts = {h1}
  Addrs = {a1, a2, b1}
  Calls = {c1, c2, c3}
  Answers <- PlainAnswers
  Items <- PlainItems
  NULL = null
  NumServers = 1
  MaxEvents = 3
  MaxInput = 2
  MaxGen = 2
  Allowed = {"close", "delete"}
SYMMETRY Symmetry
SPECIFICATION Spec
INVARIANTS OwnsItsSocket ClosedIsSilent EmptyReadIsStale
PROPERTY NoEventIsLost
CHECK_DEADLOCK FALSE
