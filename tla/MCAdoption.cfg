SPECIFICATION Spec
CONSTANTS
  a = a
  b = b
  x = x
  y = y
  Owners = {a, b}
  Objects = {x, y}
  NoObject = NoObject
  References <- MCReferences
  UserActions = {"delete", "create"}
  MaxChanges = 2
  MaxFaults = 1
  MaxLag = 2
CHECK_DEADLOCK FALSE
PROPERTY OtherOwnersKept
PROPERTY ReferencesAreFollowed
PROPERTY ReleasedIsUnlabelled
