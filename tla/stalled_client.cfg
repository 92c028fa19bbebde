SPECIFICATION FairSpec
CONSTANTS
  Clients = {c1, c2}
  IPs = {ip1, ip2}
  NoIp = NoIp
  MaxConns = 1
  Buffer = 1
  MaxFaults = 0
  Stalled = {c1}
  MaxAnnounce = 2
PROPERTY NotifiesEveryClient
