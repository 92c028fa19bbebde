SPECIFICATION Spec
CONSTANTS
  u1 = u1
  u2 = u2
  n1 = n1
  n2 = n2
  Updaters = {u1, u2}
  Names = {n1, n2}
  Serves <- OneNameForBoth
  Longer <- NoPrefix
  IPs = {ip1}
  UserLines = {l1}
  MaxFiles = 3
PROPERTY Atomic
