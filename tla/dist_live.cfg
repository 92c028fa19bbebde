SPECIFICATION FairSpec
CONSTANTS
  Clients = {c1, c2}
  IPs = {ip1}
  NoIp = NoIp
  MaxConns = 1
  Buffer = 1
  MaxFaults = 1
  Stalled = {}
  MaxAnnounce = 1
INVARIANTS NoGap NobodyForgotten
PROPERTIES Notified Delivered DeadDropped Rejoins
