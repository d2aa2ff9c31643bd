SPECIFICATION Spec
CONSTANTS
  Bytes = {photo, film}
  NoBytes = NoBytes
  MaxId = 4
SYMMETRY Symmetry
INVARIANTS
  TypeOK
  UploadKept
PROPERTY KeepsWhatIsSealed
