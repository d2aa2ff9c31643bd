SPECIFICATION ShellSpec
CONSTANTS
  MaxSession = 1
  Url = {a, b}
  BadUrl = BadUrl
  NoUrl = NoUrl
INVARIANT ConnectedServerIsUsed
