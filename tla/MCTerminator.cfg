\* Any value in the byte after the name.
CONSTANTS
  Hosts <- HostNames
  Junk = {0, 1, 97, 192}
  Pid = 5
  Aliases <- Canonical
  Room = 48
  FixedServers <- OpenDns
SPECIFICATION LookupSpec
INVARIANT QueryNamesHost
CHECK_DEADLOCK FALSE
