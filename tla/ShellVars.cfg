CONSTANTS
  Envs = {e1, e2}
  Boot = {e1}
  Strings <- MCStrings
  Copy <- MCCopy
  EMPTY = EMPTY
  max16 = max16
  long17 = long17
  a = a
  b = b
  NoVar = NoVar
  MAX_VARS = 2
  NameArgs = {long17, a, b}
  ValueArgs = {a}
  FlagArgs <- MCBothFlags
SPECIFICATION Spec
INVARIANTS
  TypeOK
  NamesUnique
PROPERTIES
  ReadonlyKept
  ImplementsStore
