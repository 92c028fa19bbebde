SPECIFICATION FairSpec
CONSTANTS
  IPs = {ip1, ip2}
  NoIp = NoIp
  LogCapacity = 2
  MaxQueue = 2
  MaxMenu = 2
  MaxUpdates = 2
INVARIANTS TypeOK ConnectedShown PanelAgrees FailureLogged
PROPERTIES Replicates ShowShows
