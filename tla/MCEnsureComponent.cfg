SPECIFICATION ComponentSpec
CONSTANTS
  s1 = s1
  s2 = s2
  s3 = s3
  n1 = n1
  n2 = n2
  n3 = n3
  Specs = {s1, s2, s3}
  ObjectNames = {n1, n2, n3}
  NameOf <- MCNameOf
  Absent = Absent
  Bare = Bare
  UserContents = {Bare, Absent, s1}
  IndexFails = FALSE
  MaxChanges = 3
  MaxFaults = 1
  MaxLag = 3
CHECK_DEADLOCK FALSE
PROPERTY DeleteSparesCurrent
PROPERTY Converges
