SPECIFICATION FairSpec
CONSTANTS
  Streams = {s1, s2}
  Window = 1
  MaxEmptyReads = 0
  Peers = {}
  Blank = Blank
  NoPeer = NoPeer
  Threads = 1
  MaxRequest = 1
  MaxBody = 0
  MaxReq = 1
PROPERTIES
  HandlerExits
