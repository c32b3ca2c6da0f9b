SPECIFICATION FileSpec
CONSTANTS
  c1 = c1
  c2 = c2
  o1 = o1
  o2 = o2
  s1 = s1
  s2 = s2
  Objects = {o1, o2}
  Specs = {s1, s2}
  Files = {c1, c2}
  NoFile = NoFile
  NoObject = NoObject
  Bad = Bad
  Docs <- MCDocs
  Sum64 <- MCSum64
  Reverts = FALSE
  MaxFaults = 1
  MaxRestarts = 1
  InitialFiles = {c2, NoFile}
  Calls = {k1, k2}
  FileOps = {"write", "replace", "remove", "rename"}
  MaxChanges = 2
  MaxTrouble = 2
CHECK_DEADLOCK FALSE
INVARIANT SyncedAfterInitialRead
INVARIANT NoMissedChange
INVARIANT SkipIsSafe
PROPERTY StopIsFollowed
PROPERTY FileIsApplied
