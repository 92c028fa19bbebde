SPECIFICATION Spec
CONSTANTS
  u1 = u1
  u2 = u2
  n1 = n1
  n2 = n2
  Updaters = {u1, u2}
  Names = {n1, n2}
  Serves <- OneNameEach
  Longer <- NoPrefix
  IPs = {ip1, ip2}
  UserLines = {l1}
  MaxFiles = 3
SYMMETRY Symmetry
INVARIANTS TypeOK Whole UpdateInPlace
PROPERTY Atomic
