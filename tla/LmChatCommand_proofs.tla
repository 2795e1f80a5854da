------------------------- MODULE LmChatCommand_proofs -------------------------
(***************************************************************************)
(* The budgets of lm-chat, and the close of its connection, for every      *)
(* value of the constants.  LoopInv says how much of the armed budget is   *)
(* used; CloseInv and CommandInv where the closing tasks are.              *)
(***************************************************************************)
EXTENDS LmChatCommand, TLAPS

\* One more empty read allows one more budget of the first byte, and a pause.
LEMMA OneMore ==
  ASSUME NEW n \in Nat, NEW k \in Nat
  PROVE  (n + 1) * k = n * k + k /\ n * k \in Nat
  BY SMT

------------------------------------------------------------------------------
(* The timed loop                                                          *)

LEMMA LoopInitInv == LoopInit => LoopInv
<1> SUFFICES ASSUME LoopInit PROVE LoopInv
  OBVIOUS
<1>1. LoopTypeOK
  BY ReadLoopAssumption DEF LoopInit, LoopTypeOK
<1>2. 0 * Pause = 0 /\ 0 * Idle = 0 /\ (0 + 1) * FirstByte = FirstByte
  BY ReadLoopAssumption, SMT
<1>3. Allowed = FirstByte
  BY <1>2, ReadLoopAssumption DEF LoopInit, Allowed
<1> QED
  BY <1>1, <1>3, ReadLoopAssumption, SMT DEF LoopInit, LoopInv

LEMMA LoopTypeStep ==
  ASSUME LoopTypeOK, LoopStep
  PROVE  LoopTypeOK'
<1>1. CASE Tick
  BY <1>1, ReadLoopAssumption, SMT DEF LoopTypeOK, Tick, Arm, End
<1>2. CASE Piece
  BY <1>2, ReadLoopAssumption, SMT DEF LoopTypeOK, Piece, Arm, End
<1>3. CASE Nothing
  BY <1>3, ReadLoopAssumption, SMT DEF LoopTypeOK, Nothing, Arm, End
<1>4. CASE NextTurn
  BY <1>4, ReadLoopAssumption, SMT DEF LoopTypeOK, NextTurn, Arm, End
<1>5. CASE StreamEnds
  BY <1>5, ReadLoopAssumption, SMT DEF LoopTypeOK, StreamEnds, Arm, End
<1>6. CASE Expires
  BY <1>6, ReadLoopAssumption, SMT DEF LoopTypeOK, Expires, Arm, End
<1>7. CASE ReadRaises \/ CloseRaises
  BY <1>7, ReadLoopAssumption, SMT DEF LoopTypeOK, ReadRaises, CloseRaises, Arm, End
<1>8. CASE StreamClosed
  BY <1>8, ReadLoopAssumption, SMT DEF LoopTypeOK, StreamClosed, Arm, End
<1>9. CASE CloseExpires
  BY <1>9, ReadLoopAssumption, SMT DEF LoopTypeOK, CloseExpires, Arm, End
<1> QED
  BY <1>1, <1>2, <1>3, <1>4, <1>5, <1>6, <1>7, <1>8, <1>9 DEF LoopStep

\* The time that was spent and the time that is armed stay within what the
\* chunks and the empty reads allow.
Total ==
  /\ at = "read" => waited + left <= Allowed
  /\ at = "pause" => pieces = 0 /\ waited + left + FirstByte <= Allowed
  /\ at = "close" => waited + left <= Allowed + CloseBudget
  /\ waited + left <= Allowed + CloseBudget + ResetBudget

\* Before the first chunk the budget of the first byte is armed.
BeforePieces == at = "read" /\ pieces = 0 => quiet + left >= FirstByte

\* After it the budgets are those of the idle read and of the close.
AfterPieces ==
  pieces > 0 =>
    /\ at = "read" => quiet + left <= Idle
    /\ at = "close" => quiet + left <= Idle + CloseBudget
    /\ quiet + left <= Idle + CloseBudget + ResetBudget

\* What a chunk and an empty read add to what is allowed.
LEMMA AllowedStep ==
  ASSUME LoopTypeOK
  PROVE  /\ Allowed \in Nat
         /\ pieces' = pieces + 1 /\ nothings' = nothings =>
              Allowed' = Allowed + Idle
         /\ pieces' = pieces /\ nothings' = nothings + 1 =>
              Allowed' = Allowed + FirstByte + Pause
         /\ pieces' = pieces /\ nothings' = nothings => Allowed' = Allowed
<1> DEFINE N == nothings * FirstByte
           P == nothings * Pause
           I == pieces * Idle
<1>1. /\ N \in Nat /\ P \in Nat /\ I \in Nat
      /\ (nothings + 1) * FirstByte = N + FirstByte
      /\ (nothings + 1) * Pause = P + Pause
      /\ (pieces + 1) * Idle = I + Idle
      /\ nothings + 1 \in Nat
      /\ FirstByte \in Nat /\ Pause \in Nat /\ Idle \in Nat
  BY OneMore, ReadLoopAssumption DEF LoopTypeOK
<1>2. ((nothings + 1) + 1) * FirstByte = (nothings + 1) * FirstByte + FirstByte
  BY <1>1, OneMore
<1>3. Allowed = N + FirstByte + P + I
  BY <1>1 DEF Allowed
<1>4. ASSUME pieces' = pieces + 1, nothings' = nothings
      PROVE  Allowed' = N + FirstByte + P + (I + Idle)
  <2>1. Allowed' = (nothings + 1) * FirstByte + nothings * Pause
                     + (pieces + 1) * Idle
    BY <1>4 DEF Allowed
  <2> QED
    BY <2>1, <1>1
<1>5. ASSUME pieces' = pieces, nothings' = nothings + 1
      PROVE  Allowed' = (N + FirstByte + FirstByte) + (P + Pause) + I
  <2>1. Allowed' = ((nothings + 1) + 1) * FirstByte + (nothings + 1) * Pause
                     + pieces * Idle
    BY <1>5 DEF Allowed
  <2> QED
    BY <2>1, <1>1, <1>2
<1>6. ASSUME pieces' = pieces, nothings' = nothings
      PROVE  Allowed' = Allowed
  BY <1>6 DEF Allowed
<1> HIDE DEF N, P, I
<1> QED
  BY <1>1, <1>3, <1>4, <1>5, <1>6, SMT

\* The sum stays within what is allowed: a tick moves one unit from `left` to
\* `waited`, and a timer is armed only by what allows it.
LEMMA TotalStep ==
  ASSUME LoopTypeOK, Total, LoopStep
  PROVE  Total'
<1> DEFINE A == Allowed
           B == Allowed'
<1>0. /\ A \in Nat
      /\ FirstByte \in Nat /\ Idle \in Nat /\ Pause \in Nat
      /\ CloseBudget \in Nat /\ ResetBudget \in Nat
      /\ left \in Nat /\ waited \in Nat /\ pieces \in Nat
  BY AllowedStep, ReadLoopAssumption DEF LoopTypeOK
<1>a. /\ at = "read" => waited + left <= A
      /\ at = "pause" => pieces = 0 /\ waited + left + FirstByte <= A
      /\ at = "close" => waited + left <= A + CloseBudget
      /\ waited + left <= A + CloseBudget + ResetBudget
  BY DEF Total
<1>b. /\ pieces' = pieces + 1 /\ nothings' = nothings => B = A + Idle
      /\ pieces' = pieces /\ nothings' = nothings + 1 =>
           B = A + FirstByte + Pause
      /\ pieces' = pieces /\ nothings' = nothings => B = A
  BY AllowedStep
<1> SUFFICES /\ at' = "read" => waited' + left' <= B
             /\ at' = "pause" => pieces' = 0 /\ waited' + left' + FirstByte <= B
             /\ at' = "close" => waited' + left' <= B + CloseBudget
             /\ waited' + left' <= B + CloseBudget + ResetBudget
  BY DEF Total
<1> HIDE DEF A, B
<1>1. CASE Tick
  BY <1>1, <1>0, <1>a, <1>b, SMT DEF Tick, Arm, End
<1>2. CASE Piece
  BY <1>2, <1>0, <1>a, <1>b, SMT DEF Piece, Arm, End
<1>3. CASE Nothing
  <2>1. CASE pieces > 0
    BY <1>3, <2>1, <1>0, <1>a, <1>b, SMT DEF Nothing, Arm
  <2>2. CASE pieces = 0
    BY <1>3, <2>2, <1>0, <1>a, <1>b, SMT DEF Nothing, Arm
  <2> QED
    BY <2>1, <2>2, <1>0, SMT
<1>4. CASE NextTurn
  BY <1>4, <1>0, <1>a, <1>b, SMT DEF NextTurn, Arm, End
<1>5. CASE StreamEnds
  BY <1>5, <1>0, <1>a, <1>b, SMT DEF StreamEnds, Arm, End
<1>6. CASE Expires
  <2>1. CASE pieces > 0
    BY <1>6, <2>1, <1>0, <1>a, <1>b, SMT DEF Expires, Arm
  <2>2. CASE pieces = 0
    BY <1>6, <2>2, <1>0, <1>a, <1>b, SMT DEF Expires, End
  <2> QED
    BY <2>1, <2>2, <1>0, SMT
<1>7. CASE ReadRaises \/ CloseRaises
  BY <1>7, <1>0, <1>a, <1>b, SMT DEF ReadRaises, CloseRaises, Arm, End
<1>8. CASE StreamClosed
  BY <1>8, <1>0, <1>a, <1>b, SMT DEF StreamClosed, Arm, End
<1>9. CASE CloseExpires
  BY <1>9, <1>0, <1>a, <1>b, SMT DEF CloseExpires, Arm, End
<1> QED
  BY <1>1, <1>2, <1>3, <1>4, <1>5, <1>6, <1>7, <1>8, <1>9 DEF LoopStep

LEMMA BeforeStep ==
  ASSUME LoopTypeOK, Total, BeforePieces, LoopStep
  PROVE  BeforePieces'
<1>1. CASE Tick
  BY <1>1, ReadLoopAssumption, SMT
     DEF Tick, Arm, End, BeforePieces, LoopTypeOK
<1>2. CASE Piece
  BY <1>2, ReadLoopAssumption, SMT
     DEF Piece, Arm, End, BeforePieces, LoopTypeOK
<1>3. CASE Nothing
  BY <1>3, ReadLoopAssumption, SMT
     DEF Nothing, Arm, End, BeforePieces, LoopTypeOK
<1>4. CASE NextTurn
  BY <1>4, ReadLoopAssumption, SMT
     DEF NextTurn, Arm, End, BeforePieces, LoopTypeOK
<1>5. CASE StreamEnds
  BY <1>5, ReadLoopAssumption, SMT
     DEF StreamEnds, Arm, End, BeforePieces, LoopTypeOK
<1>6. CASE Expires
  BY <1>6, ReadLoopAssumption, SMT
     DEF Expires, Arm, End, BeforePieces, LoopTypeOK
<1>7. CASE ReadRaises \/ CloseRaises
  BY <1>7, ReadLoopAssumption, SMT
     DEF ReadRaises, CloseRaises, Arm, End, BeforePieces, LoopTypeOK
<1>8. CASE StreamClosed
  BY <1>8, ReadLoopAssumption, SMT
     DEF StreamClosed, Arm, End, BeforePieces, LoopTypeOK
<1>9. CASE CloseExpires
  BY <1>9, ReadLoopAssumption, SMT
     DEF CloseExpires, Arm, End, BeforePieces, LoopTypeOK
<1> QED
  BY <1>1, <1>2, <1>3, <1>4, <1>5, <1>6, <1>7, <1>8, <1>9 DEF LoopStep

LEMMA AfterStep ==
  ASSUME LoopTypeOK, AfterPieces, at = "pause" => pieces = 0, LoopStep
  PROVE  AfterPieces'
<1>1. CASE Tick
  BY <1>1, ReadLoopAssumption, SMT
     DEF Tick, Arm, End, AfterPieces, LoopTypeOK
<1>2. CASE Piece
  BY <1>2, ReadLoopAssumption, SMT
     DEF Piece, Arm, End, AfterPieces, LoopTypeOK
<1>3. CASE Nothing
  BY <1>3, ReadLoopAssumption, SMT
     DEF Nothing, Arm, End, AfterPieces, LoopTypeOK
<1>4. CASE NextTurn
  BY <1>4, ReadLoopAssumption, SMT
     DEF NextTurn, Arm, End, AfterPieces, LoopTypeOK
<1>5. CASE StreamEnds
  BY <1>5, ReadLoopAssumption, SMT
     DEF StreamEnds, Arm, End, AfterPieces, LoopTypeOK
<1>6. CASE Expires
  BY <1>6, ReadLoopAssumption, SMT
     DEF Expires, Arm, End, AfterPieces, LoopTypeOK
<1>7. CASE ReadRaises \/ CloseRaises
  BY <1>7, ReadLoopAssumption, SMT
     DEF ReadRaises, CloseRaises, Arm, End, AfterPieces, LoopTypeOK
<1>8. CASE StreamClosed
  BY <1>8, ReadLoopAssumption, SMT
     DEF StreamClosed, Arm, End, AfterPieces, LoopTypeOK
<1>9. CASE CloseExpires
  BY <1>9, ReadLoopAssumption, SMT
     DEF CloseExpires, Arm, End, AfterPieces, LoopTypeOK
<1> QED
  BY <1>1, <1>2, <1>3, <1>4, <1>5, <1>6, <1>7, <1>8, <1>9 DEF LoopStep

\* Only a budget that ran out, with nothing heard all along, is a timeout.
TimedOut == outcome = "timeout" => quiet >= FirstByte /\ at = "over"

LEMMA TimedOutStep ==
  ASSUME LoopTypeOK, BeforePieces, TimedOut, LoopStep
  PROVE  TimedOut'
<1>1. CASE Tick
  BY <1>1, ReadLoopAssumption, SMT
     DEF Tick, Arm, End, TimedOut, BeforePieces, LoopTypeOK
<1>2. CASE Piece
  BY <1>2, ReadLoopAssumption, SMT
     DEF Piece, Arm, End, TimedOut, BeforePieces, LoopTypeOK
<1>3. CASE Nothing
  BY <1>3, ReadLoopAssumption, SMT
     DEF Nothing, Arm, End, TimedOut, BeforePieces, LoopTypeOK
<1>4. CASE NextTurn
  BY <1>4, ReadLoopAssumption, SMT
     DEF NextTurn, Arm, End, TimedOut, BeforePieces, LoopTypeOK
<1>5. CASE StreamEnds
  BY <1>5, ReadLoopAssumption, SMT
     DEF StreamEnds, Arm, End, TimedOut, BeforePieces, LoopTypeOK
<1>6. CASE Expires
  BY <1>6, ReadLoopAssumption, SMT
     DEF Expires, Arm, End, TimedOut, BeforePieces, LoopTypeOK
<1>7. CASE ReadRaises \/ CloseRaises
  BY <1>7, ReadLoopAssumption, SMT
     DEF ReadRaises, CloseRaises, Arm, End, TimedOut, BeforePieces, LoopTypeOK
<1>8. CASE StreamClosed
  BY <1>8, ReadLoopAssumption, SMT
     DEF StreamClosed, Arm, End, TimedOut, BeforePieces, LoopTypeOK
<1>9. CASE CloseExpires
  BY <1>9, ReadLoopAssumption, SMT
     DEF CloseExpires, Arm, End, TimedOut, BeforePieces, LoopTypeOK
<1> QED
  BY <1>1, <1>2, <1>3, <1>4, <1>5, <1>6, <1>7, <1>8, <1>9 DEF LoopStep

LEMMA LoopInvParts ==
  LoopInv <=> LoopTypeOK /\ Total /\ BeforePieces /\ AfterPieces /\ TimedOut
  BY DEF LoopInv, Total, BeforePieces, AfterPieces, TimedOut

LEMMA LoopStepInv ==
  ASSUME LoopInv, LoopStep
  PROVE  LoopInv'
<1>1. LoopTypeOK /\ Total /\ BeforePieces /\ AfterPieces /\ TimedOut
  BY LoopInvParts
<1>2. at = "pause" => pieces = 0
  BY <1>1 DEF Total
<1>3. LoopTypeOK' /\ Total' /\ BeforePieces' /\ AfterPieces' /\ TimedOut'
  BY <1>1, <1>2, LoopTypeStep, TotalStep, BeforeStep, AfterStep, TimedOutStep
<1> QED
  BY <1>3 DEF LoopInv, Total, BeforePieces, AfterPieces, TimedOut

\* What the waits are bounded by, read off the invariant: the armed budget is
\* not negative.
LEMMA LoopInvImplies ==
  ASSUME LoopInv
  PROVE  /\ FirstByteBounded /\ FirstByteAwaited
         /\ ClosesPromptly /\ RunBounded
<1> USE DEF LoopInv
<1>0. /\ Allowed \in Nat /\ waited \in Nat /\ left \in Nat /\ quiet \in Nat
      /\ FirstByte \in Nat /\ Idle \in Nat
      /\ CloseBudget \in Nat /\ ResetBudget \in Nat
  BY AllowedStep, ReadLoopAssumption DEF LoopTypeOK
<1>1. FirstByteBounded
  <2> SUFFICES ASSUME pieces = 0, at \in {"read", "pause"}
               PROVE  waited <= (nothings + 1) * FirstByte + nothings * Pause
    BY DEF FirstByteBounded
  <2>1. /\ (nothings + 1) * FirstByte \in Nat /\ nothings * Pause \in Nat
        /\ 0 * Idle = 0
    BY OneMore, ReadLoopAssumption DEF LoopTypeOK
  <2>2. Allowed = (nothings + 1) * FirstByte + nothings * Pause
    BY <2>1 DEF Allowed
  <2>3. waited <= Allowed
    BY <1>0, SMT
  <2> QED
    BY <2>2, <2>3
<1>2. FirstByteAwaited
  BY DEF FirstByteAwaited
<1>3. ClosesPromptly
  BY <1>0, SMT DEF ClosesPromptly
<1>4. RunBounded
  BY <1>0, SMT DEF RunBounded
<1> QED
  BY <1>1, <1>2, <1>3, <1>4

------------------------------------------------------------------------------
(* The command                                                             *)

IInv == LoopInv /\ CloseInv /\ CommandInv

LEMMA InitInv == Init => IInv
<1> SUFFICES ASSUME Init PROVE IInv
  OBVIOUS
<1>1. LoopInv
  BY LoopInitInv DEF Init
<1>a. /\ \A c \in Closers : closer[c] = "idle"
      /\ \A h \in Halves : shuts[h] = 0 /\ half[h] = "open"
      /\ "send" \in Halves /\ "recv" \in Halves
  BY DEF Init, BiInit, Halves
<1>b. BiTypeOK
  <2>1. active \in BOOLEAN /\ closed \in BOOLEAN
    BY DEF Init, BiInit
  <2>2. closer \in [Closers -> {"idle", "done", "cancelled"} \cup Halves]
    BY DEF Init, BiInit
  <2>3. /\ half \in [Halves -> {"open", "ended", "lost"}]
        /\ shuts \in [Halves -> Nat]
    BY DEF Init, BiInit
  <2> QED
    BY <2>1, <2>2, <2>3 DEF BiTypeOK
<1>c. \A c \in Closers : ~Closing(c) /\ closer[c] # "send" /\ closer[c] # "recv"
  BY <1>a DEF Closing, Halves
<1>d. ~active /\ ~closed /\ stage = "start" /\ ~connected /\ connected \in BOOLEAN
  BY DEF Init, BiInit
<1>e. ShutOnce
  BY <1>a, SMT DEF ShutOnce
<1>2. CloseInv
  BY <1>a, <1>b, <1>c, <1>d, <1>e DEF CloseInv
<1>3. CommandInv
  BY <1>a, <1>c, <1>d DEF CommandInv
<1> QED
  BY <1>1, <1>2, <1>3 DEF IInv

\* A step of one of the closing tasks.
LEMMA CloseStepInv ==
  ASSUME CloseInv, NEW c \in Closers, CloseStep(c)
  PROVE  CloseInv'
<1> USE DEF CloseInv, BiTypeOK, Halves, Closing, ShutOnce, Goto
<1>1. CASE BeginClose(c)
  BY <1>1, SMT DEF BeginClose
<1>2. CASE Finish(c)
  <2>1. CASE active
    <3>1. PICK o \in {"ended", "lost"} : half' = [half EXCEPT !["send"] = o]
      BY <1>2, <2>1 DEF Finish, AwaitIroh
    <3>2. /\ shuts' = [shuts EXCEPT !["send"] = @ + 1]
          /\ closer' = [closer EXCEPT ![c] = "recv"]
          /\ closer[c] = "send" /\ UNCHANGED <<active, closed>>
      BY <1>2, <2>1 DEF Finish, AwaitIroh
    <3> QED
      BY <3>1, <3>2, SMTT(30)
  <2>2. CASE ~active
    BY <1>2, <2>2, SMT DEF Finish, AwaitIroh
  <2> QED
    BY <2>1, <2>2
<1>3. CASE Stop(c)
  <2>1. CASE active
    <3>1. PICK o \in {"ended", "lost"} : half' = [half EXCEPT !["recv"] = o]
      BY <1>3, <2>1 DEF Stop, AwaitIroh
    <3>2. /\ shuts' = [shuts EXCEPT !["recv"] = @ + 1]
          /\ closer' = [closer EXCEPT ![c] = "done"]
          /\ closer[c] = "recv" /\ UNCHANGED <<active, closed>>
      BY <1>3, <2>1 DEF Stop, AwaitIroh
    <3> QED
      BY <3>1, <3>2, SMTT(30)
  <2>2. CASE ~active
    BY <1>3, <2>2, SMT DEF Stop, AwaitIroh
  <2> QED
    BY <2>1, <2>2
<1>4. CASE CancelClose(c)
  BY <1>4, SMT DEF CancelClose
<1> QED
  BY <1>1, <1>2, <1>3, <1>4 DEF CloseStep

\* The same step, in the command: the loop is there while a task closes.
LEMMA CloseStepCommand ==
  ASSUME CloseInv, CommandInv, NEW c \in Closers, CloseStep(c),
         connected, active, UNCHANGED commandVars
  PROVE  CommandInv'
<1> USE DEF CloseInv, BiTypeOK, Halves, Closing, Goto, CommandInv, commandVars
<1>a. stage' = stage /\ connected' = connected
  OBVIOUS
<1>1. CASE BeginClose(c)
  BY <1>1, <1>a, SMT DEF BeginClose, Closers
<1>2. CASE Finish(c)
  BY <1>2, <1>a, SMT DEF Finish, AwaitIroh, Closers
<1>3. CASE Stop(c)
  BY <1>3, <1>a, SMT DEF Stop, AwaitIroh, Closers
<1>4. CASE CancelClose(c)
  BY <1>4, <1>a, SMT DEF CancelClose, Closers
<1> QED
  BY <1>1, <1>2, <1>3, <1>4 DEF CloseStep

LEMMA LoopKept == ASSUME LoopInv, UNCHANGED loopVars PROVE LoopInv'
  BY DEF LoopInv, LoopTypeOK, Allowed, loopVars

LEMMA CloseKept ==
  ASSUME CloseInv, UNCHANGED <<closed, closer, half, shuts>>, active' \in BOOLEAN
  PROVE  CloseInv'
  BY DEF CloseInv, BiTypeOK, Closing, ShutOnce

LEMMA StepInv == IInv /\ [Next]_vars => IInv'
<1> SUFFICES ASSUME IInv, [Next]_vars PROVE IInv'
  OBVIOUS
<1>0. LoopInv /\ CloseInv /\ CommandInv /\ active \in BOOLEAN
  BY DEF IInv, CloseInv, BiTypeOK
<1>1. CASE PrepareFails
  <2>1. LoopInv'
    BY <1>1, <1>0, LoopKept DEF PrepareFails
  <2>2. CloseInv'
    BY <1>1, <1>0, CloseKept DEF PrepareFails, biVars
  <2>3. CommandInv'
    BY <1>1, <1>0, SMT
       DEF PrepareFails, Move, biVars, CommandInv, CloseInv, Closing, Closers, Halves,
           BiTypeOK
  <2> QED
    BY <2>1, <2>2, <2>3 DEF IInv
<1>2. CASE Prepare
  <2>1. LoopInv'
    BY <1>2, <1>0, LoopKept DEF Prepare
  <2>2. CloseInv'
    BY <1>2, <1>0, CloseKept DEF Prepare, EnterLoop, biVars
  <2>3. CommandInv'
    BY <1>2, <1>0, SMT
       DEF Prepare, EnterLoop, Move, biVars, CommandInv, CloseInv, Closing, Closers, Halves,
           BiTypeOK
  <2> QED
    BY <2>1, <2>2, <2>3 DEF IInv
<1>3. CASE Connect
  <2>1. LoopInv'
    BY <1>3, <1>0, LoopKept DEF Connect
  <2>2. CloseInv'
    BY <1>3, <1>0, CloseKept DEF Connect, biVars
  <2>3. CommandInv'
    BY <1>3, <1>0, SMT
       DEF Connect, Move, biVars, CommandInv, CloseInv, Closing, Closers, Halves,
           BiTypeOK
  <2> QED
    BY <2>1, <2>2, <2>3 DEF IInv
<1>4. CASE Ask
  <2>1. LoopInv'
    BY <1>4, <1>0, LoopKept DEF Ask
  <2>2. CloseInv'
    BY <1>4, <1>0, CloseKept DEF Ask, biVars
  <2>3. CommandInv'
    BY <1>4, <1>0, SMT
       DEF Ask, Move, biVars, CommandInv, CloseInv, Closing, Closers, Halves,
           BiTypeOK
  <2> QED
    BY <2>1, <2>2, <2>3 DEF IInv
<1>5. CASE DialFails
  <2>1. LoopInv'
    BY <1>5, <1>0, LoopKept DEF DialFails
  <2>2. CloseInv'
    BY <1>5, <1>0, CloseKept DEF DialFails, biVars
  <2>3. CommandInv'
    BY <1>5, <1>0, SMT
       DEF DialFails, Move, biVars, CommandInv, CloseInv, Closing, Closers, Halves,
           BiTypeOK
  <2> QED
    BY <2>1, <2>2, <2>3 DEF IInv
<1>6. CASE Leave
  <2>1. LoopInv'
    BY <1>6, <1>0, LoopKept DEF Leave
  <2>2. CloseInv'
    BY <1>6, <1>0, CloseKept DEF Leave, biVars
  <2>3. CommandInv'
    BY <1>6, <1>0, SMT
       DEF Leave, Move, biVars, CommandInv, CloseInv, Closing, Closers, Halves,
           BiTypeOK
  <2> QED
    BY <2>1, <2>2, <2>3 DEF IInv
<1>7. CASE LoopExits
  <2>1. LoopInv'
    BY <1>7, <1>0, LoopKept DEF LoopExits
  <2>2. CloseInv'
    BY <1>7, <1>0, CloseKept DEF LoopExits, LeaveLoop, biVars
  <2>3. CommandInv'
    BY <1>7, <1>0, SMT
       DEF LoopExits, LeaveLoop, Move, biVars, CommandInv, CloseInv, Closing, Closers, Halves,
           BiTypeOK
  <2> QED
    BY <2>1, <2>2, <2>3 DEF IInv
<1>8. CASE Render
  <2>1. LoopInv'
    BY <1>8, <1>0, LoopKept DEF Render
  <2>2. CloseInv'
    BY <1>8, <1>0, CloseKept DEF Render, biVars
  <2>3. CommandInv'
    BY <1>8, <1>0, SMT
       DEF Render, Move, biVars, CommandInv, CloseInv, Closing, Closers, Halves,
           BiTypeOK
  <2> QED
    BY <2>1, <2>2, <2>3 DEF IInv
<1>9. CASE Die
  <2>1. LoopInv'
    BY <1>9, <1>0, LoopKept DEF Die
  <2>2. CloseInv'
    BY <1>9, <1>0, CloseKept DEF Die, biVars
  <2>3. CommandInv'
    BY <1>9, <1>0, SMT
       DEF Die, Move, biVars, CommandInv, CloseInv, Closing, Closers, Halves,
           BiTypeOK
  <2> QED
    BY <2>1, <2>2, <2>3 DEF IInv
<1>10. CASE Read
  <2>1. LoopInv'
    BY <1>10, <1>0, LoopStepInv DEF Read
  <2>2. CloseInv'
    BY <1>10, <1>0, CloseKept DEF Read, biVars
  <2>3. CommandInv'
    BY <1>10, <1>0 DEF Read, biVars, commandVars, CommandInv, Closing
  <2> QED
    BY <2>1, <2>2, <2>3 DEF IInv
<1>11. CASE ConnectionCloses
  <2>1. /\ CloseStep("conn") /\ "conn" \in Closers
        /\ UNCHANGED <<loopVars, commandVars>>
    BY <1>11 DEF ConnectionCloses, Closers
  <2>2. connected /\ active
    BY <1>11, <1>0 DEF ConnectionCloses, CommandInv
  <2>3. LoopInv'
    BY <2>1, <1>0, LoopKept
  <2>4. CloseInv'
    BY <2>1, <1>0, CloseStepInv
  <2>5. CommandInv'
    BY <2>1, <2>2, <1>0, CloseStepCommand
  <2> QED
    BY <2>3, <2>4, <2>5 DEF IInv
<1>12. CASE HostCloses
  <2>1. /\ CloseStep("host") /\ "host" \in Closers
        /\ UNCHANGED <<loopVars, commandVars>>
    BY <1>12 DEF HostCloses, Closers
  <2>2. connected /\ active
    BY <1>12, <1>0 DEF HostCloses, CommandInv
  <2>3. LoopInv'
    BY <2>1, <1>0, LoopKept
  <2>4. CloseInv'
    BY <2>1, <1>0, CloseStepInv
  <2>5. CommandInv'
    BY <2>1, <2>2, <1>0, CloseStepCommand
  <2> QED
    BY <2>3, <2>4, <2>5 DEF IInv
<1>13. CASE UNCHANGED vars
  BY <1>13, <1>0, LoopKept, CloseKept
     DEF vars, biVars, commandVars, IInv, CommandInv, Closing
<1> QED
  BY <1>1, <1>2, <1>3, <1>4, <1>5, <1>6, <1>7, <1>8, <1>9, <1>10, <1>11, <1>12, <1>13 DEF Next, Ended

\* The inductive invariant holds throughout the run of the command.
THEOREM IInvInvariant == Spec => []IInv
  BY InitInv, StepInv, PTL DEF Spec

------------------------------------------------------------------------------
(* The request and the output                                              *)

LEMMA OutputInit == Init => OutputInv
  BY DEF Init, LoopInit, OutputInv

\* The request is written before the loop, and the output comes after it.
LEMMA OutputStep == OutputInv /\ [Next]_vars => OutputInv'
<1> SUFFICES ASSUME OutputInv, [Next]_vars PROVE OutputInv'
  OBVIOUS
<1> USE DEF OutputInv, Move
<1>1. CASE Ask
  BY <1>1 DEF Ask, loopVars
<1>2. CASE Read
  BY <1>2 DEF Read, commandVars
<1>3. CASE Render
  <2>1. PICK reply : shown' = Display(cmd, reply)
    BY <1>3 DEF Render
  <2>2. /\ outcome = "response" /\ stage' = "ended"
        /\ UNCHANGED <<outcome, cmd, sent>>
    BY <1>3 DEF Render, loopVars
  <2>3. sent' = Request(cmd')
    BY <2>2
  <2>4. shown'.question = "none" \/ shown'.question = Question(cmd)
    <3>1. CASE cmd.debug \/ reply = "text"
      <4>1. shown' = [question |-> "none", answer |-> "raw"]
        BY <2>1, <3>1 DEF Display
      <4>2. shown'.question = "none"
        BY <4>1
      <4> QED
        BY <4>2
    <3>2. CASE ~(cmd.debug \/ reply = "text")
      <4>1. PICK a : shown' = [question |-> Question(cmd), answer |-> a]
        BY <2>1, <3>2 DEF Display
      <4>2. shown'.question = Question(cmd)
        BY <4>1
      <4> QED
        BY <4>2
    <3> QED
      BY <3>1, <3>2
  <2>5. Question(cmd') = Question(cmd)
    BY <2>2
  <2> QED
    BY <2>2, <2>3, <2>4, <2>5
<1>4. CASE PrepareFails \/ Prepare \/ Connect \/ DialFails \/ Leave \/ LoopExits \/ Die
  BY <1>4 DEF PrepareFails, Prepare, Connect, DialFails, Leave, LoopExits, Die,
              loopVars
<1>5. CASE ConnectionCloses \/ HostCloses
  BY <1>5 DEF ConnectionCloses, HostCloses, loopVars, commandVars
<1>6. CASE UNCHANGED vars
  BY <1>6 DEF vars, loopVars, commandVars
<1> QED
  BY <1>1, <1>2, <1>3, <1>4, <1>5, <1>6 DEF Next, Ended

\* What is sent and what is shown come from the same command line.
THEOREM OutputInvariant == Spec => []OutputInv
  BY OutputInit, OutputStep, PTL DEF Spec

\* Of the places where the user says something, the last one is unique.
LEMMA LastAsked ==
  ASSUME NEW c \in Commands, NEW i \in Asked(c.body.messages),
         \A j \in Asked(c.body.messages) : j <= i
  PROVE  Question(c) = c.body.messages[i].text
<1> DEFINE asked == Asked(c.body.messages)
           last  == CHOOSE k \in asked : \A j \in asked : j <= k
<1>1. asked \subseteq Nat
  BY CommandLineAssumption
     DEF Commands, Bodies, NoFile, Asked, BoundedSeq, SeqOf
<1>2. last \in asked /\ \A j \in asked : j <= last
  OBVIOUS
<1>3. last = i
  <2> HIDE DEF asked, last
  <2>1. i \in asked /\ \A j \in asked : j <= i
    BY DEF asked
  <2>2. last <= i /\ i <= last /\ i \in Nat /\ last \in Nat
    BY <1>1, <1>2, <2>1
  <2> QED
    BY <2>2, SMT
<1> QED
  BY <1>2, <1>3 DEF Question

\* For requests of any length, the question that is shown is the last thing
\* the user says in the request that was sent.
THEOREM ShownIsSent == Spec => []QuestionSent
<1>1. OutputInv => QuestionSent
  <2> SUFFICES ASSUME OutputInv, shown.question # "none",
                      NEW i \in DOMAIN sent.messages,
                      sent.messages[i].user, sent.messages[i].text # Blank,
                      \A j \in DOMAIN sent.messages :
                        j > i => ~sent.messages[j].user
                                   \/ sent.messages[j].text = Blank
               PROVE  shown.question = sent.messages[i].text
    BY DEF QuestionSent
  <2>1. /\ cmd \in Commands /\ sent = Request(cmd)
        /\ shown.question = Question(cmd)
    BY DEF OutputInv
  <2>2. CASE cmd.body = NoFile
    <3>0. sent = [kind |-> "chat",
                  messages |-> <<[user |-> TRUE, text |-> cmd.prompt]>>]
      BY <2>1, <2>2 DEF Request
    <3>1. sent.messages[i].text = cmd.prompt
      BY <3>0
    <3>2. Asked(cmd.body.messages) = {}
      BY <2>2 DEF Asked, NoFile
    <3> QED
      BY <2>1, <3>1, <3>2 DEF Question
  <2>3. CASE cmd.body # NoFile
    <3>1. sent.messages = cmd.body.messages
      BY <2>1, <2>3 DEF Request
    <3>2. DOMAIN sent.messages \subseteq Nat
      BY <2>1, <3>1, CommandLineAssumption
         DEF Commands, Bodies, NoFile, BoundedSeq, SeqOf
    <3>3. i \in Asked(cmd.body.messages)
      BY <3>1 DEF Asked
    <3>4. \A j \in Asked(cmd.body.messages) : ~(j > i)
      BY <3>1 DEF Asked
    <3>5. \A j \in Asked(cmd.body.messages) : j <= i
      BY <3>1, <3>2, <3>4, SMT DEF Asked
    <3> QED
      BY <2>1, <3>1, <3>3, <3>5, LastAsked
  <2> QED
    BY <2>2, <2>3
<1> QED
  BY <1>1, OutputInvariant, PTL

------------------------------------------------------------------------------

\* Every variable of the command keeps its type.
THEOREM CommandTypes == Spec => []TypeOK
<1>1. IInv => TypeOK
  BY DEF IInv, LoopInv, CloseInv, CommandInv, TypeOK
<1> QED
  BY <1>1, IInvInvariant, PTL

\* The wait for the first byte is bounded by the number of empty reads alone:
\* for every budget, and every number of them.
THEOREM FirstByteBound == Spec => []FirstByteBounded
<1>1. IInv => FirstByteBounded
  BY LoopInvImplies DEF IInv
<1> QED
  BY <1>1, IInvInvariant, PTL

\* lm-chat gives up for want of a first byte only after its whole budget.
THEOREM FirstByteWait == Spec => []FirstByteAwaited
<1>1. IInv => FirstByteAwaited
  BY LoopInvImplies DEF IInv
<1> QED
  BY <1>1, IInvInvariant, PTL

\* The idle budget, that of the close and that of the reset are all that the loop
\* and the close may spend after the last chunk.
THEOREM PromptClose == Spec => []ClosesPromptly
<1>1. IInv => ClosesPromptly
  BY LoopInvImplies DEF IInv
<1> QED
  BY <1>1, IInvInvariant, PTL

\* However the stream trickles, goes quiet or returns b"", the loop and the
\* close take no longer than the budgets of what was received add up to.
THEOREM RunBound == Spec => []RunBounded
<1>1. IInv => RunBounded
  BY LoopInvImplies DEF IInv
<1> QED
  BY <1>1, IInvInvariant, PTL

\* No half of the QUIC stream is ended twice.
THEOREM EndedOnce == Spec => []ShutOnce
<1>1. IInv => ShutOnce
  BY DEF IInv, CloseInv
<1> QED
  BY <1>1, IInvInvariant, PTL

\* Past its loop the command leaves no half of its connection open.
THEOREM EndedBoth == Spec => []HalvesShut
<1>1. IInv => HalvesShut
  <2> SUFFICES ASSUME IInv, stage \in {"left", "ended"}, connected,
                      \A c \in Closers : closer[c] # "cancelled"
               PROVE  \A h \in Halves : half[h] # "open"
    BY DEF HalvesShut
  <2>1. ~active /\ \A c \in Closers : closer[c] \notin Halves
    BY DEF IInv, CommandInv, Closing
  <2>2. closed
    BY DEF IInv, CommandInv, CloseInv, Closers
  <2> QED
    BY <2>1, <2>2 DEF IInv, CommandInv
<1> QED
  BY <1>1, IInvInvariant, PTL

------------------------------------------------------------------------------
(* The order of a run: LmChatCommand implements ChatRun                    *)

LEMMA StageInit == Init => StageInv
  BY DEF Init, LoopInit, StageInv

LEMMA StageStep == LoopInv /\ StageInv /\ [Next]_vars => StageInv'
<1> SUFFICES ASSUME LoopInv, StageInv, [Next]_vars PROVE StageInv'
  OBVIOUS
<1> USE DEF StageInv, Move
<1>1. CASE Read
  <2>1. stage = "reading" /\ stage' = "reading" /\ LoopStep
    BY <1>1 DEF Read, commandVars
  <2>2. outcome' = "none" <=> at' # "over"
    BY <2>1 DEF LoopStep, Tick, Piece, Nothing, NextTurn, StreamEnds, Expires,
                ReadRaises, CloseRaises, StreamClosed, CloseExpires, Arm, End
  <2> QED
    BY <2>1, <2>2
<1>2. CASE PrepareFails \/ Prepare \/ Connect \/ Ask \/ DialFails \/ Leave
  BY <1>2 DEF PrepareFails, Prepare, Connect, Ask, DialFails, Leave, loopVars
<1>3. CASE LoopExits \/ Render \/ Die
  BY <1>3 DEF LoopExits, Render, Die, loopVars
<1>4. CASE ConnectionCloses \/ HostCloses
  BY <1>4 DEF ConnectionCloses, HostCloses, loopVars, commandVars
<1>5. CASE UNCHANGED vars
  BY <1>5 DEF vars, loopVars, commandVars
<1> QED
  BY <1>1, <1>2, <1>3, <1>4, <1>5 DEF Next, Ended

\* A step of the loop is one of the run, or none.
LEMMA LoopRuns ==
  ASSUME LoopInv, StageInv, stage = "reading", stage' = stage, LoopStep
  PROVE  \/ RunNow' = RunNow
         \/ RunNow \in {"waiting", "receiving"} /\ RunNow' = "receiving"
         \/ RunNow \in {"waiting", "receiving"} /\ RunNow' = "closing"
         \/ RunNow = "closing" /\ RunNow' = "response"
         \/ RunNow = "waiting" /\ RunNow' = "timeout"
         \/ RunNow \in {"waiting", "receiving", "closing"} /\ RunNow' = "error"
<1> USE DEF RunNow, StageInv
<1>0. pieces \in Nat /\ (at = "pause" => pieces = 0)
  BY DEF LoopInv, LoopTypeOK
<1>1. CASE Tick
  BY <1>1 DEF Tick
<1>2. CASE Piece
  BY <1>0, <1>2 DEF Piece, Arm
<1>3. CASE Nothing
  BY <1>0, <1>3 DEF Nothing, Arm
<1>4. CASE NextTurn
  BY <1>4 DEF NextTurn, Arm
<1>5. CASE StreamEnds
  BY <1>5 DEF StreamEnds, Arm
<1>6. CASE Expires
  BY <1>0, <1>6 DEF Expires, Arm, End
<1>7. CASE ReadRaises \/ CloseRaises
  BY <1>7 DEF ReadRaises, CloseRaises, End
<1>8. CASE StreamClosed
  BY <1>8 DEF StreamClosed, End
<1>9. CASE CloseExpires
  BY <1>9 DEF CloseExpires, Arm
<1> QED
  BY <1>1, <1>2, <1>3, <1>4, <1>5, <1>6, <1>7, <1>8, <1>9 DEF LoopStep

\* A step of the command is one of the run, or none.
LEMMA RunStep ==
  LoopInv /\ StageInv /\ [Next]_vars =>
    [ChatRuns!Next]_[r \in {"lm-chat"} |-> RunNow]
<1> SUFFICES ASSUME LoopInv, StageInv, [Next]_vars
             PROVE  [ChatRuns!Next]_[r \in {"lm-chat"} |-> RunNow]
  OBVIOUS
<1> DEFINE From(a, b) == RunNow \in a /\ RunNow' = b
<1>0. /\ [r \in {"lm-chat"} |-> RunNow]' = [r \in {"lm-chat"} |-> RunNow']
      /\ \A a, b : [[r \in {"lm-chat"} |-> a] EXCEPT !["lm-chat"] = b]
                     = [r \in {"lm-chat"} |-> b]
  OBVIOUS
<1>1. ASSUME NEW a, NEW b, From(a, b)
      PROVE  ChatRuns!Move("lm-chat", a, b)
  BY <1>0, <1>1 DEF ChatRuns!Move
<1> HIDE DEF From
<1>2. CASE RunNow' = RunNow
  BY <1>0, <1>2
<1>3. CASE From({"asking"}, "waiting")
  BY <1>1, <1>3 DEF ChatRuns!Next, ChatRuns!Asked
<1>4. CASE From({"waiting", "receiving"}, "receiving")
  BY <1>1, <1>4 DEF ChatRuns!Next, ChatRuns!Chunk
<1>5. CASE From({"waiting", "receiving"}, "closing")
  BY <1>1, <1>5 DEF ChatRuns!Next, ChatRuns!Enough
<1>6. CASE From({"closing"}, "response")
  BY <1>1, <1>6 DEF ChatRuns!Next, ChatRuns!Return
<1>7. CASE From({"waiting"}, "timeout")
  BY <1>1, <1>7 DEF ChatRuns!Next, ChatRuns!TimeOut
<1>8. CASE From({"asking", "waiting", "receiving", "closing"}, "error")
  BY <1>1, <1>8 DEF ChatRuns!Next, ChatRuns!Fail
<1>9. CASE Read
  <2>1. stage = "reading" /\ stage' = stage /\ LoopStep
    BY <1>9 DEF Read, commandVars
  <2> QED
    BY <2>1, LoopRuns, <1>2, <1>4, <1>5, <1>6, <1>7, <1>8 DEF From
<1>10. CASE Ask
  <2>1. From({"asking"}, "waiting")
    BY <1>10 DEF Ask, Move, RunNow, StageInv, From, loopVars
  <2> QED
    BY <1>3, <2>1
<1>11. CASE PrepareFails \/ DialFails
  <2>1. From({"asking", "waiting", "receiving", "closing"}, "error")
    BY <1>11 DEF PrepareFails, DialFails, Move, RunNow, StageInv, From, loopVars
  <2> QED
    BY <1>8, <2>1
<1>12. CASE Prepare \/ Connect \/ Leave \/ LoopExits \/ Render \/ Die
  BY <1>2, <1>12 DEF Prepare, Connect, Leave, LoopExits, Render, Die, Move,
                     RunNow, StageInv, loopVars
<1>13. CASE ConnectionCloses \/ HostCloses
  BY <1>2, <1>13 DEF ConnectionCloses, HostCloses, RunNow, loopVars, commandVars
<1>14. CASE UNCHANGED vars
  BY <1>2, <1>14 DEF vars, RunNow, loopVars, commandVars
<1> QED
  BY <1>9, <1>10, <1>11, <1>12, <1>13, <1>14 DEF Next, Ended

\* For all budgets, the run with time is a run of ChatRun: it times out before
\* its first byte only, and what it has it returns unless the close raises.
THEOREM TimedRun == Spec => FollowsChatRun
<1>1. Init => ChatRuns!Init
  BY DEF Init, ChatRuns!Init, RunNow
<1>2. IInv => LoopInv
  BY DEF IInv
<1> QED
  BY <1>1, <1>2, IInvInvariant, StageInit, StageStep, RunStep, PTL
  DEF Spec, FollowsChatRun, ChatRuns!Spec

==============================================================================
