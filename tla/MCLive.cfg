\* Two resolvers, one name, three lookups, no loss, room for every reply.
CONSTANTS
  h1 = h1  h2 = h2  a1 = a1  a2 = a2  b1 = b1
  Fds = {fd1, fd2}
  BadFd = bad
  NoSocket = nosocket
  Resolvers = {r1, r2}
  Handlers = {r1, r2}
  Hosts = {h1}
  Addrs = {a1, a2, b1}
  Calls = {c1, c2, c3}
  Answers <- PlainAnswers
  Items <- PlainItems
  NULL = null
  NumServers = 2
  MaxEvents = 2
  MaxInput = 4
  MaxGen = 1
  Allowed = {}
SPECIFICATION FairSpec
PROPERTY ReplyServesLookup
CHECK_DEADLOCK FALSE
