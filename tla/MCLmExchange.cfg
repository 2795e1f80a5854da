SPECIFICATION FairSpec
CONSTANTS
  Streams = {s1}
  Window = 2
  MaxEmptyReads = 2
  Peers = {p1}
  Blank = Blank
  NoPeer = NoPeer
  Threads = 1
  MaxRequest = 1
  MaxBody = 4
  MaxReq = 4
INVARIANTS
  TypeOK
  AnswerWhole
  DeniedGetsNothing
  NoAbandonedReader
  StuckOnlyOversized
PROPERTIES
  KeepsPromise
  FollowsChatRun
  ClientReturns
  HandlerExits
