SPECIFICATION FairSpec
CONSTANTS
  ip1 = ip1
  ip2 = ip2
  Layouts <- MCLayouts
  Interface = "eth0"
  AutoDetect = "any"
  Peers = {p1}
  IPs = {ip1, ip2}
  NoIp = NoIp
  NoPeer = NoPeer
  Port = 5353
  AdminPort = 8080
  LastPort = 65535
  LogCapacity = 1
  MaxQueue = 1
  MaxInbox = 1
  MaxAnnounce = 2
INVARIANTS TypeOK NativeAgrees NativeListsClients WebAgrees
PROPERTIES Replicates KeepsPolling LiveShown LostUnshown WebLearnsIp
