SPECIFICATION Spec
CONSTANTS
  Bytes = {photo}
  NoBytes = NoBytes
  MaxId = 1
INVARIANT DownloadedIsUploaded
