CONSTANTS
  Lines <- MCLines
  MaxLines = 2
  ServerUrlKey <- MCServerUrlKey
  DefaultUrl <- MCDefaultUrl
  MaxParses = 2
SPECIFICATION Spec
INVARIANTS
  TypeOK
  ErrorIsExact
  LastEntryWins
CHECK_DEADLOCK FALSE
