SPECIFICATION Spec
CONSTANTS
  Conv = {notes, group}
  SelfDm = notes
  NoConv = NoConv
  OpenSize = 1
  ViewSize = 1
  PollSize = 2
  MaxMessages = 2
PROPERTY NoticeMeansQueued
