SPECIFICATION FairSpec
CONSTANTS
  n1 = n1
  n2 = n2
  n3 = n3
  Peers = {n1, n2, n3}
  Bootstrap <- Three
INVARIANTS
  TypeOK
  MutualPeersMeet
  OwnDialsManaged
PROPERTY ComesUp
