SPECIFICATION Spec
CONSTANTS
  Sinks = {s1}
  FilesNum = 4
  FileChunks = 2
INVARIANTS
  TypeOK
  ServedFresh
PROPERTY
  LiveServed
