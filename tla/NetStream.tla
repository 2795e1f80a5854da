------------------------------ MODULE NetStream ------------------------------
(***************************************************************************)
(* The libp2p stream that carries one LM proxy exchange, as the code in    *)
(* src/ uses it.  py-libp2p itself is not part of the repository: this     *)
(* module is an external model, read off the calls of lm_chat_client.py    *)
(* and lm_proxy.py on `stream` and off the exceptions they handle.         *)
(*                                                                         *)
(* A stream is two FIFO byte pipes: "up" from the client to the handler    *)
(* and "down" back.  A FIFO pipe with one writer delivers a prefix of what *)
(* was written, so a pipe is the NUMBER of pieces written and not read     *)
(* yet; a piece is what one write of lm_proxy._RESPONSE_WRITE_CHUNK bytes  *)
(* puts in the pipe.  Flow control (lm_proxy.py:26) blocks a writer while  *)
(* Window pieces are unread.  A writer that closes its side sends an EOF,  *)
(* which may be lost (lm_chat_client.py:38-39).  A reset, by either side   *)
(* or by the loss of the connection, makes reads and writes raise, once it *)
(* has arrived: buffered pieces may still be read and a write may still be *)
(* accepted before that.  That a read raises on nothing but an EOF, a      *)
(* reset or a lost connection is an assumption about py-libp2p.            *)
(***************************************************************************)
EXTENDS Naturals

CONSTANTS
  Streams,        \* one element per LM proxy stream (per lm-chat run)
  Window,         \* pieces a pipe holds before its writer blocks
  MaxEmptyReads   \* bound on the reads of a stream that return b""

ASSUME NetStreamAssumption ==
  /\ Window \in Nat \ {0}
  /\ MaxEmptyReads \in Nat

VARIABLES
  up,             \* pipe from the client to the handler, per stream
  down,           \* pipe from the handler to the client, per stream
  reset,          \* was the stream reset, or its connection lost?
  empties         \* reads that returned b"" so far, per stream

netVars == <<up, down, reset, empties>>

\* What the writer did with the end of its pipe: nothing yet, sent an EOF
\* that arrives, or sent an EOF that gets lost.
Ends == {"open", "fin", "lost"}

Pipe == [buf : Nat, end : Ends]

NetTypeOK ==
  /\ up \in [Streams -> Pipe]
  /\ down \in [Streams -> Pipe]
  /\ reset \in [Streams -> BOOLEAN]
  /\ empties \in [Streams -> Nat]

NetInit ==
  /\ up = [s \in Streams |-> [buf |-> 0, end |-> "open"]]
  /\ down = [s \in Streams |-> [buf |-> 0, end |-> "open"]]
  /\ reset = [s \in Streams |-> FALSE]
  /\ empties = [s \in Streams |-> 0]

------------------------------------------------------------------------------
(* One direction of a stream: `pipe` is up or down.                        *)

HasRoom(pipe, s) == pipe[s].buf < Window

AtEOF(pipe, s) == pipe[s].buf = 0 /\ pipe[s].end = "fin"

Written(pipe, s) == [pipe EXCEPT ![s].buf = @ + 1]

\* read(n): any nonempty part of what is buffered, at most n pieces.
Readable(pipe, s, n) == {k \in 1 .. n : k <= pipe[s].buf}

Drained(pipe, s, k) == [pipe EXCEPT ![s].buf = @ - k]

\* close(): the EOF is on its way, or lost.
Closed(pipe, s) == {[pipe EXCEPT ![s].end = e] : e \in {"fin", "lost"}}

(* Both directions.                                                        *)

\* read() returns b"": the transient empty read both callers test for.
EmptyRead(s) ==
  /\ empties[s] < MaxEmptyReads
  /\ empties' = [empties EXCEPT ![s] = @ + 1]

ResetStream(s) == reset' = [reset EXCEPT ![s] = TRUE]

\* The network loses the connection under the stream.
ConnectionLost(s) ==
  /\ ~reset[s]
  /\ ResetStream(s)
  /\ UNCHANGED <<up, down, empties>>

==============================================================================
