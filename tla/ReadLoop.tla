------------------------------- MODULE ReadLoop -------------------------------
(***************************************************************************)
(* How long lm-chat waits: the read loop of run_lm_chat and the close that *)
(* follows it, with time.  The budgets of the source are constants, in     *)
(* ticks; `left` is what is left of the timer that is armed.  A timer that *)
(* has run out fires before time passes on.  What the stream delivers, and *)
(* when, is arbitrary.  The dial, the write and the teardown have no       *)
(* budget and are not in this module: the clock is that of the loop and    *)
(* the close alone.                                                        *)
(***************************************************************************)
EXTENDS Naturals

CONSTANTS
  FirstByte,      \* _FIRST_RESPONSE_BYTE_BUDGET_S
  Idle,           \* _READ_IDLE_BUDGET_S
  Pause,          \* the sleep after an empty read
  CloseBudget,    \* _CLOSE_STREAM_BUDGET_S
  ResetBudget,    \* _RESET_STREAM_BUDGET_S
  MaxPieces,      \* bound on the chunks of a response
  MaxEmpties      \* bound on the reads that return b""

ASSUME ReadLoopAssumption ==
  /\ FirstByte \in Nat /\ Idle \in Nat /\ Pause \in Nat
  /\ CloseBudget \in Nat /\ ResetBudget \in Nat
  /\ MaxPieces \in Nat /\ MaxEmpties \in Nat

VARIABLES
  at,             \* the await the loop is in
  left,           \* time left of the budget around it
  pieces,         \* length of `parts`
  nothings,       \* reads that returned b"" before the first piece
  waited,         \* history: time since the request was written
  quiet,          \* history: time since the stream last returned something
  outcome         \* how the loop and the close ended

loopVars == <<at, left, pieces, nothings, waited, quiet, outcome>>

LoopTypeOK ==
  /\ at \in {"read", "pause", "close", "reset", "over"}
  /\ left \in Nat /\ pieces \in Nat /\ nothings \in Nat
  /\ waited \in Nat /\ quiet \in Nat
  /\ outcome \in {"none", "response", "timeout", "error"}

LoopInit ==
  /\ at = "read" /\ left = FirstByte
  /\ pieces = 0 /\ nothings = 0
  /\ waited = 0 /\ quiet = 0
  /\ outcome = "none"

------------------------------------------------------------------------------

\* Mutant: a timer that has run out does not fire.
TickPastZero ==
  /\ at # "over"
  /\ left' = left - 1
  /\ waited' = waited + 1 /\ quiet' = quiet + 1
  /\ UNCHANGED <<at, pieces, nothings, outcome>>

Tick ==
  /\ at # "over"
  /\ left > 0
  /\ left' = left - 1
  /\ waited' = waited + 1 /\ quiet' = quiet + 1
  /\ UNCHANGED <<at, pieces, nothings, outcome>>

Arm(where, budget) == at' = where /\ left' = budget

End(o) == at' = "over" /\ left' = 0 /\ outcome' = o

\* Mutant: the budget does not change once there are parts.
PieceKeepsBudget ==
  /\ at = "read"
  /\ pieces < MaxPieces
  /\ pieces' = pieces + 1
  /\ Arm("read", FirstByte)
  /\ quiet' = 0
  /\ UNCHANGED <<nothings, waited, outcome>>

\* A chunk: the next turn has the idle budget.
Piece ==
  /\ at = "read"
  /\ pieces < MaxPieces
  /\ pieces' = pieces + 1
  /\ Arm("read", Idle)
  /\ quiet' = 0
  /\ UNCHANGED <<nothings, waited, outcome>>

\* Mutant: the loop goes on after an empty read.
NothingReadsOn ==
  /\ at = "read"
  /\ nothings < MaxEmpties
  /\ IF pieces > 0
       THEN Arm("read", Idle) /\ UNCHANGED nothings
       ELSE Arm("pause", Pause) /\ nothings' = nothings + 1
  /\ quiet' = 0
  /\ UNCHANGED <<pieces, waited, outcome>>

\* An empty read: the end of the response, or nothing yet.
Nothing ==
  /\ at = "read"
  /\ nothings < MaxEmpties
  /\ IF pieces > 0
       THEN /\ Arm("close", CloseBudget)
            /\ UNCHANGED <<nothings, quiet>>
       ELSE /\ Arm("pause", Pause)
            /\ nothings' = nothings + 1
            /\ quiet' = 0
  /\ UNCHANGED <<pieces, waited, outcome>>

\* Mutant: the turn after an empty read has the idle budget.
NextTurnIdle ==
  /\ at = "pause" /\ left = 0
  /\ Arm("read", Idle)
  /\ UNCHANGED <<pieces, nothings, waited, quiet, outcome>>

\* The next turn arms the whole budget of the first byte again.
NextTurn ==
  /\ at = "pause" /\ left = 0
  /\ Arm("read", FirstByte)
  /\ UNCHANGED <<pieces, nothings, waited, quiet, outcome>>

StreamEnds ==
  /\ at = "read"
  /\ Arm("close", CloseBudget)
  /\ UNCHANGED <<pieces, nothings, waited, quiet, outcome>>

\* Mutant: a turn without a first byte is followed by another one.
ExpiresAgain ==
  /\ at = "read" /\ left = 0
  /\ IF pieces > 0 THEN Arm("close", CloseBudget) ELSE Arm("read", FirstByte)
  /\ UNCHANGED <<pieces, nothings, waited, quiet, outcome>>

\* Mutant: a response that goes quiet is thrown away.
ExpiresRaises ==
  /\ at = "read" /\ left = 0
  /\ End("timeout")
  /\ UNCHANGED <<pieces, nothings, waited, quiet>>

\* The budget runs out: the response is what there is, or an exception.
Expires ==
  /\ at = "read" /\ left = 0
  /\ IF pieces > 0
       THEN Arm("close", CloseBudget) /\ UNCHANGED outcome
       ELSE End("timeout")
  /\ UNCHANGED <<pieces, nothings, waited, quiet>>

\* A read raises anything but StreamEOF.
ReadRaises ==
  /\ at = "read"
  /\ End("error")
  /\ UNCHANGED <<pieces, nothings, waited, quiet>>

\* The close or the reset raises, and the response is lost.
CloseRaises ==
  /\ at \in {"close", "reset"}
  /\ End("error")
  /\ UNCHANGED <<pieces, nothings, waited, quiet>>

\* The close, or the reset, ends, or the reset's budget runs out.
StreamClosed ==
  /\ at \in {"close", "reset"}
  /\ End("response")
  /\ UNCHANGED <<pieces, nothings, waited, quiet>>

\* The budget of the close runs out.
CloseExpires ==
  /\ at = "close" /\ left = 0
  /\ Arm("reset", ResetBudget)
  /\ UNCHANGED <<pieces, nothings, waited, quiet, outcome>>

LoopStep ==
  \/ Tick \/ Piece \/ Nothing \/ NextTurn \/ StreamEnds \/ Expires \/ ReadRaises
  \/ CloseRaises \/ StreamClosed \/ CloseExpires

------------------------------------------------------------------------------

\* The wait for the first byte is not 600 s but 600 s for each empty read and
\* one more: no other way of waiting longer.
FirstByteBounded ==
  pieces = 0 /\ at \in {"read", "pause"} =>
    waited <= (nothings + 1) * FirstByte + nothings * Pause

\* A model that takes its time is not given up on: the run fails for want of
\* a first byte only after the whole budget without a sign from the stream.
FirstByteAwaited == outcome = "timeout" => quiet >= FirstByte

\* Once the response has begun, the loop, the close and the reset are over
\* within three budgets of its last chunk, whether or not an EOF comes, a close
\* ends or a reset does.  The teardown that follows is not timed: its awaits
\* have no budget.
ClosesPromptly ==
  pieces > 0 => quiet <= Idle + CloseBudget + ResetBudget

\* What the reads and pauses up to here may take.
Allowed == (nothings + 1) * FirstByte + nothings * Pause + pieces * Idle

\* There is no budget around the whole, yet the loop and the close cannot take
\* longer than what their turns add up to: an idle budget for each chunk, a
\* budget of the first byte and a pause for each empty read, and a last one of
\* each.  A stream that trickles prolongs the loop, one that goes quiet or
\* returns b"" again and again does not.
RunBounded == waited <= Allowed + CloseBudget + ResetBudget

\* The inductive invariant: how much of the armed budget is used, and of what
\* is allowed in all.
LoopInv ==
  /\ LoopTypeOK
  /\ at = "read" => waited + left <= Allowed
  /\ at = "pause" => pieces = 0 /\ waited + left + FirstByte <= Allowed
  /\ at = "close" => waited + left <= Allowed + CloseBudget
  /\ waited + left <= Allowed + CloseBudget + ResetBudget
  /\ at = "read" /\ pieces = 0 => quiet + left >= FirstByte
  /\ pieces > 0 =>
       /\ at = "read" => quiet + left <= Idle
       /\ at = "close" => quiet + left <= Idle + CloseBudget
       /\ quiet + left <= Idle + CloseBudget + ResetBudget
  /\ outcome = "timeout" => quiet >= FirstByte /\ at = "over"

==============================================================================
