---------------------------- MODULE LmChatClient -----------------------------
(***************************************************************************)
(* The client side of the LM proxy protocol: one run of the lm-chat        *)
(* command (lm_chat_client.run_lm_chat), from the dial to its return.      *)
(* The budgets of the source (600 s for the first byte, 3 s of idle, 15 s  *)
(* and 5 s to close and to reset) are timers that may expire at any moment *)
(* of the wait they bound: the network's delays are arbitrary.             *)
(***************************************************************************)
EXTENDS NetStream

CONSTANT MaxReq   \* bound on the request bodies, in pieces

ASSUME LmChatAssumption == MaxReq \in Nat

VARIABLE chat     \* the lm-chat run of each stream

Results ==
  {"none", "ok", "dial_error", "write_reset", "write_error",
   "first_byte_timeout", "read_reset", "close_error"}

\* pc: where the run is; req: length of request_body; sent: pieces of it
\* written; got: pieces in `parts`; ended: what ended the read loop;
\* result: the bytes returned ("ok") or the exception raised.
Run ==
  [pc     : {"dial", "write", "read", "close", "reset", "exit", "done"},
   req    : Nat,
   sent   : Nat,
   got    : Nat,
   ended  : {"none", "eof", "idle", "empty"},
   result : Results]

ChatTypeOK == chat \in [Streams -> Run]

ChatInit ==
  chat = [s \in Streams |->
            [pc |-> "dial", req |-> 0, sent |-> 0, got |-> 0,
             ended |-> "none", result |-> "none"]]

------------------------------------------------------------------------------

\* Connect and open the stream; the body comes from --prompt or --json-file
\* (an empty file gives an empty body).
Dial(s) ==
  /\ chat[s].pc = "dial"
  /\ \E n \in 0 .. MaxReq :
       chat' = [chat EXCEPT ![s].pc = "write", ![s].req = n]
  /\ UNCHANGED netVars

\* The run ends with an exception: through the finally to the teardown.
Raise(s, r) == chat' = [chat EXCEPT ![s].pc = "exit", ![s].result = r]

DialFails(s) ==
  /\ chat[s].pc = "dial"
  /\ Raise(s, "dial_error")
  /\ UNCHANGED netVars

\* stream.write(request_body): one call, which fills the pipe piece by piece
\* and blocks, without a budget, while there is no room.
SendPiece(s) ==
  /\ chat[s].pc = "write"
  /\ chat[s].sent < chat[s].req
  /\ HasRoom(up, s)
  /\ up' = Written(up, s)
  /\ chat' = [chat EXCEPT ![s].sent = @ + 1]
  /\ UNCHANGED <<down, reset, empties>>

SendDone(s) ==
  /\ chat[s].pc = "write"
  /\ chat[s].sent = chat[s].req
  /\ chat' = [chat EXCEPT ![s].pc = "read"]
  /\ UNCHANGED netVars

\* StreamReset: the RuntimeError that tells about allow_peer_ids.
SendReset(s) ==
  /\ chat[s].pc = "write"
  /\ reset[s]
  /\ Raise(s, "write_reset")
  /\ UNCHANGED netVars

\* The run waits for room in the handler's receive window.
SendBlocked(s) ==
  /\ chat[s].pc = "write"
  /\ chat[s].sent < chat[s].req
  /\ ~HasRoom(up, s)

\* Any other exception of a write that waits for room.
SendFails(s) ==
  /\ SendBlocked(s)
  /\ Raise(s, "write_error")
  /\ UNCHANGED netVars

ReadChunk(s) ==
  /\ chat[s].pc = "read"
  /\ \E k \in Readable(down, s, down[s].buf) :
       /\ down' = Drained(down, s, k)
       /\ chat' = [chat EXCEPT ![s].got = @ + k]
  /\ UNCHANGED <<up, reset, empties>>

EndLoop(s, e) == chat' = [chat EXCEPT ![s].pc = "close", ![s].ended = e]

\* Mutant: StreamEOF is taken for the end although pieces are buffered.
EofBeforeData(s) ==
  /\ chat[s].pc = "read"
  /\ down[s].end = "fin"
  /\ EndLoop(s, "eof")
  /\ UNCHANGED netVars

ReadEOF(s) ==
  /\ chat[s].pc = "read"
  /\ AtEOF(down, s)
  /\ EndLoop(s, "eof")
  /\ UNCHANGED netVars

\* An empty read ends the loop after the first byte and is retried before it.
ReadNothing(s) ==
  /\ chat[s].pc = "read"
  /\ EmptyRead(s)
  /\ IF chat[s].got > 0 THEN EndLoop(s, "empty") ELSE UNCHANGED chat
  /\ UNCHANGED <<up, down, reset>>

\* Mutant: only the idle budget is armed, the first byte is awaited forever.
FirstByteUnbounded(s) ==
  /\ chat[s].pc = "read"
  /\ chat[s].got > 0
  /\ EndLoop(s, "idle")
  /\ UNCHANGED netVars

\* Mutant: a read that times out is an error with and without parts.
ReadTimeoutRaises(s) ==
  /\ chat[s].pc = "read"
  /\ Raise(s, "first_byte_timeout")
  /\ UNCHANGED netVars

\* The idle budget, once there are parts, and the first-byte budget.
ReadTimesOut(s) ==
  /\ chat[s].pc = "read"
  /\ IF chat[s].got > 0 THEN EndLoop(s, "idle")
                        ELSE Raise(s, "first_byte_timeout")
  /\ UNCHANGED netVars

\* Any exception of the read other than StreamEOF leaves the run.
ReadReset(s) ==
  /\ chat[s].pc = "read"
  /\ reset[s]
  /\ Raise(s, "read_reset")
  /\ UNCHANGED netVars

\* _close_lm_proxy_stream: close within its budget, or reset within its own.
\* An exception of close() or reset() is not caught and replaces the response.
CloseInTime(s) ==
  /\ chat[s].pc = "close"
  /\ \/ ~reset[s] /\ up' \in Closed(up, s)
     \/ reset[s] /\ UNCHANGED up
  /\ Raise(s, "ok")
  /\ UNCHANGED <<down, reset, empties>>

CloseRaises(s) ==
  /\ chat[s].pc \in {"close", "reset"}
  /\ Raise(s, "close_error")
  /\ UNCHANGED netVars

CloseTimesOut(s) ==
  /\ chat[s].pc = "close"
  /\ chat' = [chat EXCEPT ![s].pc = "reset"]
  /\ UNCHANGED netVars

\* The reset is sent, or its budget expires: the response is returned.
ResetOrGiveUp(s) ==
  /\ chat[s].pc = "reset"
  /\ ResetStream(s) \/ UNCHANGED reset
  /\ Raise(s, "ok")
  /\ UNCHANGED <<up, down, empties>>

\* Mutant: lm-chat returns and leaves its connection to the server open.
TeardownKeepsConnection(s) ==
  /\ chat[s].pc = "exit"
  /\ chat' = [chat EXCEPT ![s].pc = "done"]
  /\ UNCHANGED netVars

\* nursery.cancel_scope.cancel() and the exit of host.run: the connection
\* goes, and the stream with it.
Teardown(s) ==
  /\ chat[s].pc = "exit"
  /\ ResetStream(s)
  /\ chat' = [chat EXCEPT ![s].pc = "done"]
  /\ UNCHANGED <<up, down, empties>>

ChatStep(s) ==
  \/ SendPiece(s) \/ SendDone(s) \/ SendReset(s) \/ SendFails(s)
  \/ ReadChunk(s) \/ ReadEOF(s) \/ ReadNothing(s) \/ ReadTimesOut(s)
  \/ ReadReset(s)
  \/ CloseInTime(s) \/ CloseRaises(s) \/ CloseTimesOut(s)
  \/ ResetOrGiveUp(s) \/ Teardown(s)

==============================================================================
