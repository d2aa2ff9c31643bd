SPECIFICATION Spec
CONSTANTS
  Conv = {notes, group}
  SelfDm = notes
  NoConv = NoConv
  OpenSize = 1
  ViewSize = 2
  PollSize = 2
  MaxMessages = 2
INVARIANTS
  TypeOK
  PeerNeverOutgoing
  PassedUnlessFailed
  ViewIsCurrent
PROPERTIES
  EnvelopesArrive
  ListNeverBlanks
  MessagesStay
