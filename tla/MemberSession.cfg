SPECIFICATION FairSpec
CONSTANTS
  Main = main
  NoThread = nothread
  NoConn = noconn
  NoCert = nocert
  c1 = c1
  c2 = c2
  c3 = c3
  c4 = c4
  Parties <- MCParties
  Peers <- MCPeers
  Conns <- MCConns
  Claim <- MCClaim
  Cert <- MCCert
  Silent <- MCSilent
INVARIANTS
  StreamsUsable
  ErrorNeverReported
PROPERTIES
  ImplementsRendezvous
  HangsOnlyFor
