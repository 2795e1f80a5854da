SPECIFICATION Spec
CONSTANTS
  Streams = {s1}
  Window = 2
  MaxEmptyReads = 0
  Peers = {p1, p2}
  Blank = Blank
  NoPeer = NoPeer
  Threads = 1
  MaxRequest = 2
  MaxBody = 3
  MaxReq = 2
SYMMETRY Symmetry
INVARIANT WholeRequestForwarded
