\* One lookup of a name that every server answers with an alias.
CONSTANTS
  h1 = h1  h2 = h2  a1 = a1  a2 = a2  b1 = b1
  Fds = {fd1}
  BadFd = bad
  NoSocket = nosocket
  Resolvers = {r1}
  Handlers = {r1}
  Hosts = {h1, h2}
  Addrs = {a1, a2, b1}
  Calls = {c1}
  Answers <- OnlyAliasAnswers
  Items <- OnlyAliasItems
  NULL = null
  NumServers = 2
  MaxEvents = 2
  MaxInput = 2
  MaxGen = 1
  Allowed = {}
SPECIFICATION FairSpec
PROPERTY AliasServesLookup
CHECK_DEADLOCK FALSE
