SPECIFICATION Spec
CONSTANTS
  n1 = n1
  n2 = n2
  n3 = n3
  Peers = {n1, n2}
  Bootstrap <- Mutual
INVARIANT GossipManaged
