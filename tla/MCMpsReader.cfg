CONSTANTS
  Files <- FilesGiven
  Flawed <- FlawedFiles
  Number <- Tokens
  MaxRows = 3
  MaxColumns = 2
  MaxNonzeros = 4
SPECIFICATION Spec
INVARIANTS ReadsDeclared RejectsTheFlawed IndicesResolve
CHECK_DEADLOCK FALSE
