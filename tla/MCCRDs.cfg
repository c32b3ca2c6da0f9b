SPECIFICATION Spec
CONSTANTS
  x = x
  y = y
  old = old
  new = new
  r1 = r1
  Replicas = {r1, r2}
  Crds <- MCCrds
  Defs = {old, new}
  NoCrd = NoCrd
  Desired <- MCUpgrade
  Serves <- MCServes
  Existing <- MCExisting
  Steps = 2
  MaxFaults = 1
  MaxDeletes = 1
  MaxTimeouts = 1
CHECK_DEADLOCK FALSE
INVARIANT InstalledIsServed
INVARIANT CreatesOrUpdates
PROPERTY EveryReplicaReturns
