SPECIFICATION Spec
CONSTANTS
  FirstByte = 3
  Idle = 1
  Pause = 1
  CloseBudget = 2
  ResetBudget = 1
  MaxPieces = 2
  MaxEmpties = 1
  Texts = {q1, q2}
  MaxMessages = 2
SYMMETRY Symmetry
INVARIANTS
  TypeOK
  FirstByteBounded
  FirstByteAwaited
  ClosesPromptly
  RunBounded
  ShutOnce
  HalvesShut
  QuestionSent
PROPERTY FollowsChatRun
