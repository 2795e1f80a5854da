------------------------------- MODULE ChatRun --------------------------------
(***************************************************************************)
(* A run of lm-chat as its user sees it: what it is waiting for, and how   *)
(* it ends.  What a run does with streams, and how long, is left out:      *)
(* LmExchange and LmChatCommand both implement this, one against a handler *)
(* and one with time.                                                      *)
(***************************************************************************)

CONSTANT Runs

\* "asking", "waiting" for the first byte, "receiving", "closing"; or how the
\* run ended: "response", "timeout", "error".
VARIABLE run

Init == run = [r \in Runs |-> "asking"]

Move(r, from, to) == run[r] \in from /\ run' = [run EXCEPT ![r] = to]

Asked(r) == Move(r, {"asking"}, "waiting")

Chunk(r) == Move(r, {"waiting", "receiving"}, "receiving")

\* An end of the response, or what looks like one: maybe before any byte.
Enough(r) == Move(r, {"waiting", "receiving"}, "closing")

Return(r) == Move(r, {"closing"}, "response")

\* Only the first byte is waited for in vain: later there is a response.
TimeOut(r) == Move(r, {"waiting"}, "timeout")

Fail(r) == Move(r, {"asking", "waiting", "receiving", "closing"}, "error")

Next ==
  \E r \in Runs :
    Asked(r) \/ Chunk(r) \/ Enough(r) \/ Return(r) \/ TimeOut(r) \/ Fail(r)

Spec == Init /\ [][Next]_run

==============================================================================
