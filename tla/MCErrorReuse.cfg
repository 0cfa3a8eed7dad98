\* Sockets fail and their numbers are handed out again.
CONSTANTS
  h1 = h1  h2 = h2  a1 = a1  a2 = a2  b1 = b1
  Fds = {fd1, fd2}
  BadFd = bad
  NoSocket = nosocket
  Resolvers = {r1, r2, r3}
  Handlers = {r1, r2, r3}
  Hosts = {h1}
  Addrs = {a1, a2, b1}
  Calls = {c1}
  Answers <- PlainAnswers
  Items <- PlainItems
  NULL = null
  NumServers = 1
  MaxEvents = 2
  MaxInput = 1
  MaxGen = 2
  Allowed = {"error"}
SPECIFICATION Spec
PROPERTY AddToLoopRegisters
CHECK_DEADLOCK FALSE
