SPECIFICATION Spec
CONSTANTS
  DataTables = {commitments, decoded, frontier}
  Meta = meta
  Keys = {k}
  Values = {v}
  SchemaVersions <- VersionOne
  Versions = {1, 99}
  Malformed = Malformed
  Absent = Absent
  NoRequest = NoRequest
  Readers = {r}
  NoTxn = NoTxn
  NoView = NoView
  MaxOps = 2
INVARIANT OnlyWholeFilesAreRead
PROPERTY ImplementsAtomicFile
