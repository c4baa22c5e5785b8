SPECIFICATION SOSpec
CONSTANTS
  Peer = {p1, p2}
  NoPeer = NoPeer
INVARIANTS
  SOTypeOK
  LayersAgree
  ConnectedToWanted
  NoHiddenConnection
