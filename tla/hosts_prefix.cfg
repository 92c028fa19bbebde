SPECIFICATION Spec
CONSTANTS
  u1 = u1
  u2 = u2
  n1 = n1
  n2 = n2
  Updaters = {u1}
  Names = {n1, n2}
  Serves <- Renamed
  Longer <- Prefix
  IPs = {ip1}
  UserLines = {l1}
  MaxFiles = 3
PROPERTY OnlyItsBlock
