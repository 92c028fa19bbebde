SPECIFICATION FairSpec
CONSTANTS
  IPs = {ip1}
  NoIp = NoIp
  LogCapacity = 1
  MaxQueue = 1
  MaxMenu = 1
  MaxUpdates = 1
PROPERTY PromiseKept
