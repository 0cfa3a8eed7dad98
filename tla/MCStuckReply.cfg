\* One resolver, two names, no loss, room for every reply.
CONSTANTS
  h1 = h1  h2 = h2  a1 = a1  a2 = a2  b1 = b1
  Fds = {fd1}
  BadFd = bad
  NoSocket = nosocket
  Resolvers = {r1}
  Handlers = {r1}
  Hosts = {h1, h2}
  Addrs = {a1, a2, b1}
  Calls = {c1, c2}
  Answers <- PlainAnswers
  Items <- PlainItems
  NULL = null
  NumServers = 1
  MaxEvents = 2
  MaxInput = 4
  MaxGen = 1
  Allowed = {}
SPECIFICATION FairSpec
PROPERTY ReplyServesLookup
CHECK_DEADLOCK FALSE
