SPECIFICATION Spec
CONSTANTS
  Callers = {c1, c2}
  Names = {n1}
  f1 = f1
  f2 = f2
  v1 = v1
  v2 = v2
  Fields = {f1, f2}
  Values = {v1, v2}
  Unset = Unset
  Managers = {m1, m2}
  Updater = Updater
  NoObject = NoObject
  NoRequest = NoRequest
  Configs <- MCConfigs
  Written <- MCWritten
  MaxCalls = 4
SYMMETRY MCSymmetry
CHECK_DEADLOCK FALSE
INVARIANT StoresAgree
PROPERTY ApplyKeepsOthers
PROPERTY AppliedIsServed
