SPECIFICATION Spec
CONSTANTS
  Values = {v1, v2, v3}
  NoValue = NoValue
  Torn = Torn
INVARIANTS
  TypeOK
  LoadSucceeds
  SavedIsDurable
  Sequencing
PROPERTIES
  ImplementsAtomicFile
