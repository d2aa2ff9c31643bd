SPECIFICATION ShellSpec
CONSTANTS
  MaxSession = 3
  Url = {a, b}
  BadUrl = BadUrl
  NoUrl = NoUrl
INVARIANTS
  TypeOK
  SocketIsTheSessions
  NeverStranded
  ShellTypeOK
  OnlyCheckedServers
PROPERTIES
  Spec
  Reconnects
  FallsBackToPolling
