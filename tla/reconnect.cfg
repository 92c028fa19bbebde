SPECIFICATION Spec
CONSTANTS
  Clients = {c1}
  IPs = {ip1, ip2}
  NoIp = NoIp
  MaxConns = 2
  Buffer = 2
  MaxFaults = 2
  Stalled = {}
  MaxAnnounce = 3
INVARIANTS TypeOK IInv OnlyNews
PROPERTIES Replicates LiveKept
