SPECIFICATION SchemaSpec
CONSTANTS
  MayBeOld <- MCMayBeOld
  MayLack <- MCMayLack
  Flight <- MCFlight
INVARIANTS
  SessionIsDeleted
  OnlyUsersDangle
PROPERTY
  ContentOutlivesAccount
CHECK_DEADLOCK FALSE
