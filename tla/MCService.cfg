\* One resolver, two names, three lookups, aliases, duplicated replies.
CONSTANTS
  h1 = h1  h2 = h2  a1 = a1  a2 = a2  b1 = b1
  Fds = {fd1}
  BadFd = bad
  NoSocket = nosocket
  Resolvers = {r1}
  Handlers = {r1}
  Hosts = {h1, h2}
  Addrs = {a1, a2, b1}
  Calls = {c1, c2, c3}
  Answers <- AliasAnswers
  Items <- AliasItems
  NULL = null
  NumServers = 2
  MaxEvents = 64
  MaxInput = 2
  MaxGen = 1
  Allowed = {"duplicate", "spoil", "tail", "epoll"}
SYMMETRY CallSymmetry
SPECIFICATION Spec
INVARIANTS TypeOK
PROPERTIES ServiceSpec AllWaitersServed
CHECK_DEADLOCK FALSE
