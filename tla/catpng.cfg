SPECIFICATION Spec
CONSTANTS
  NULL = NULL
  Crash = Crash
  File <- MCFile
  bytes <- MCBytes
  Args <- MCArgs
  Unset <- MCUnset
  Width = 1
  rows <- MCRows
  damaged <- MCDamaged
  lines <- MCLines
INVARIANTS
  ReadsWhatIsThere
  AllPngIsTheStack
