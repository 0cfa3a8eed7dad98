\* Any value in the byte after the name; up to four arguments.
CONSTANTS
  Hosts <- HostNames
  Junk = {0, 1, 2, 4, 64, 192, 193}
  Pid = 258
  Aliases <- Canonical
  Room = 48
  FixedServers <- OpenDns
  Texts <- AllTexts
  Empty = ""
  Match <- MatchOf
  Dashed <- DashTexts
  Numbers <- IntTexts
  Names <- OptionNames
  None <- NoText
  CommandLines <- CommandLineCases
SPECIFICATION ProgramsSpec
INVARIANTS OnlyAPointerMisdirects ZeroByteSuffices QueryFits RecordsAsSent
INVARIANTS PrototypeNamesHost PrintsTheReply
INVARIANTS ParserTypeOK UnreadIsIntact KeptInOrder ConfigAsGiven
PROPERTY ParseEnds
CHECK_DEADLOCK FALSE
