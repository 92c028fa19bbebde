SPECIFICATION FairSpec
CONSTANTS
  Clients = {c1}
  IPs = {ip1}
  NoIp = NoIp
  MaxConns = 1
  Buffer = 1
  MaxFaults = 0
  Stalled = {}
  MaxAnnounce = 1
PROPERTY UpToDate
