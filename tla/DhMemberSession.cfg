SPECIFICATION PsiFairSpec
CONSTANTS
  Main = main
  NoThread = nothread
  NoConn = noconn
  NoCert = nocert
  c1 = c1
  c2 = c2
  c3 = c3
  x = x
  y = y
  Parties <- MCParties
  Peers <- MCPeers
  Conns <- MCConns
  Claim <- MCClaim
  Cert <- MCCert
  Silent <- MCSilent
  Elements <- MCElements
  Requests <- MCRequests
  MaxElements = 3
  Fragile = {c1}
INVARIANTS
  LocalsOutliveUse
  ResultIsIntersection
PROPERTIES
  ImplementsFairRendezvous
  LeaderEnds
