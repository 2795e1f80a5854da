------------------------------- MODULE BiStream -------------------------------
(***************************************************************************)
(* BiStreamReadWriteCloser.close, and the event loop its awaits need.      *)
(* Two tasks may close the same connection; each await of close lets the   *)
(* other run.  Reads and writes change nothing in the adapter.             *)
(***************************************************************************)
EXTENDS Naturals

\* The tasks that close a connection: the libp2p task that serves it, when it
\* is lost, and the end of host.run.
Closers == {"conn", "host"}

VARIABLES
  active,           \* is _active_trio_asyncio_loop set?
  closed,           \* _closed
  closer,           \* where each task is in close: the half it is ending
  half,             \* the two halves of the QUIC stream
  shuts             \* history: calls that reached iroh, per half

biVars == <<active, closed, closer, half, shuts>>

Halves == {"send", "recv"}

BiTypeOK ==
  /\ active \in BOOLEAN /\ closed \in BOOLEAN
  /\ closer \in [Closers -> {"idle", "done", "cancelled"} \cup Halves]
  /\ half \in [Halves -> {"open", "ended", "lost"}]
  /\ shuts \in [Halves -> Nat]

BiInit ==
  /\ active = FALSE /\ closed = FALSE
  /\ closer = [c \in Closers |-> "idle"]
  /\ half = [h \in Halves |-> "open"]
  /\ shuts = [h \in Halves |-> 0]

Closing(c) == closer[c] \in Halves

------------------------------------------------------------------------------

Goto(c, where) == closer' = [closer EXCEPT ![c] = where]

\* A call of iroh through await_iroh: it ends the half, or raises as the half
\* is lost already, or raises as there is no loop and iroh is not reached.
AwaitIroh(h) ==
  \/ /\ active
     /\ \E o \in {"ended", "lost"} : half' = [half EXCEPT ![h] = o]
     /\ shuts' = [shuts EXCEPT ![h] = @ + 1]
  \/ ~active /\ UNCHANGED <<half, shuts>>

\* Mutant: the flag is not set before the awaits.
BeginCloseUnmarked(c) ==
  /\ closer[c] = "idle"
  /\ Goto(c, IF closed THEN "done" ELSE "send")
  /\ UNCHANGED <<active, closed, half, shuts>>

\* The flag is set, and the first await entered, in one step.
BeginClose(c) ==
  /\ closer[c] = "idle"
  /\ closed' = TRUE
  /\ Goto(c, IF closed THEN "done" ELSE "send")
  /\ UNCHANGED <<active, half, shuts>>

\* Mutant: an exception of finish() leaves close.
FinishUncaught(c) ==
  /\ closer[c] = "send"
  /\ AwaitIroh("send")
  /\ Goto(c, IF half'["send"] = "ended" THEN "recv" ELSE "done")
  /\ UNCHANGED <<active, closed>>

\* finish(); an exception of it does not keep the other half from ending.
Finish(c) ==
  /\ closer[c] = "send"
  /\ AwaitIroh("send")
  /\ Goto(c, "recv")
  /\ UNCHANGED <<active, closed>>

\* stop(0)
Stop(c) ==
  /\ closer[c] = "recv"
  /\ AwaitIroh("recv")
  /\ Goto(c, "done")
  /\ UNCHANGED <<active, closed>>

\* trio.Cancelled is no Exception: it passes both handlers, the flag stays.
CancelClose(c) ==
  /\ Closing(c)
  /\ Goto(c, "cancelled")
  /\ UNCHANGED <<active, closed, half, shuts>>

CloseStep(c) == BeginClose(c) \/ Finish(c) \/ Stop(c) \/ CancelClose(c)

\* Entering and leaving iroh_uniffi_loop.
EnterLoop == active' = TRUE /\ UNCHANGED <<closed, closer, half, shuts>>

LeaveLoop == active' = FALSE /\ UNCHANGED <<closed, closer, half, shuts>>

------------------------------------------------------------------------------

\* No half of the QUIC stream is ended twice, however the two tasks that close
\* the connection interleave (bistream_adapter.py:51-53).
ShutOnce == \A h \in Halves : shuts[h] <= 1

\* The inductive invariant: only the task that found the flag unset is past
\* it, and it ends each half at most once.
CloseInv ==
  /\ BiTypeOK
  /\ \A c \in Closers : closer[c] # "idle" => closed
  /\ ~closed => \A h \in Halves : shuts[h] = 0 /\ half[h] = "open"
  /\ \A c, d \in Closers : Closing(c) /\ Closing(d) => c = d
  /\ \A c \in Closers :
       /\ closer[c] = "send" => shuts["send"] = 0 /\ shuts["recv"] = 0
       /\ closer[c] = "recv" => shuts["recv"] = 0
  /\ ShutOnce

==============================================================================
