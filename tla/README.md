# TLA+ models of meshdevices

meshdevices connects small machines over iroh (QUIC) with py-libp2p on top, and
lets a peer use the LM Studio server of another one through a libp2p stream
protocol, `/meshdevices/lm-proxy/1.0.0`. This directory models the program's own
logic: the proxy protocol with both of its ends, who is admitted, the key
file that gives a node its identity, the iroh node under a transport, and how
the nodes of a mesh start and find each other, and the lm-chat command from its
options to its output, with its read loop and its close in time. TLC checks small
instances, TLAPS proves the invariants, and that four of the detailed modules
implement abstract ones, for every value of the constants.

Paths below are relative to `src/` (the package is `src/src/meshdevices`).

## 1. Inventory

| Component | Code | State | Operations | Modelled in |
|---|---|---|---|---|
| LM proxy handler | `lm_proxy.py` | one task per inbound stream; trio's worker-thread limiter | check the peer, read the request, POST, write the answer or an error line, close/reset | `LmProxy` |
| lm-chat client | `lm_chat_client.py` | one run: request, received parts, budgets | dial, write, read loop, close within a budget, teardown | `LmChatClient`; with time in `ReadLoop` |
| Allowlist | `allowlist.py`, `node.py` | set of PeerIds, or none | build from the config, test | `Allowlist` |
| libp2p stream | py-libp2p (external) | two FIFO pipes, reset | read, write, close, reset | `NetStream` |
| Identity store | `identity_store.py` | the key file (content, mode) | load or create | `IdentityStore` |
| Iroh transport | `transport/iroh_transport.py` | node, endpoint, lock, handler | ensure node, dial, ticket, accept, close | `IrohTransport`; accept in `MeshNode` |
| BiStream adapter | `transport/bistream_adapter.py` | closed flag | read, write, close | `BiStream` |
| Event loop registration | `iroh_loop.py` | one global | enter, leave, await | `BiStream` |
| Node start | `node.py` | services, bootstrap loop, connections | run, bootstrap, print-ticket | `MeshNode` |
| Gossip allowlist | `gossip_allowlist.py` | none | validate a message | no (section 8) |
| Key mapping | `identity.py` | none | PeerId to iroh key, key pair to seed | in `IrohTransport`, as far as a dial needs it |
| Command line | `cli.py` | none | choose the request and the question shown | `CommandLine`, `LmChatCommand` |
| Configuration | `config.py` | none | TOML to record | input of the modules |
| Swarm builder | `swarm_builder.py` | none | builds py-libp2p objects once | no (section 8) |
| Scripts, dummy LM Studio | `scripts/` | none | demos and test drivers | no (section 8) |

How they interact: `cli.main` loads the config, gets the key pair from the
identity store and runs either the node (`mesh_run_forever`), `lm-chat`
(`run_lm_chat`) or `print-ticket`. Node and client both build an `IrohTransport`,
a swarm and a host. The client connects to the node and opens one stream; the
node's host starts `handle_lm_proxy_stream` for it, which runs the POST in a
worker thread because a blocking call on the trio thread would stop both muxers.

What is hard, and which component it makes wrong:

* one read per request, at the handler, against arbitrary arrival of its pieces;
* resets, lost EOFs, empty reads and four budgets of the client, each of which
  may hit while the other end is at any step;
* the error paths of the handler, which differ in whether they close the stream;
* a limited pool of threads behind an unlimited number of handlers;
* writes that block on a window that nobody empties;
* the key file: existence test, creation, write and chmod are four calls, and
  processes are killed and started together;
* the node's services start in an order that inbound connections do not respect;
* one iroh node per transport, shared by listen, dial, ticket and close;
* budgets that are armed anew on each turn of the read loop;
* a connection closed by two tasks, each close with two awaits that may raise or
  be cancelled, and with an event loop that must still be there.

What makes each component correct:

* proxy and client together: a returned response is the whole one, or cut for a
  known reason; a denied peer gets nothing and learns it; nobody waits on a
  stream that is dead and says so to nobody; both ends terminate;
* identity store: one identity, and a node that ran once can run again;
* transport: one node at a time, none left behind, asserts that hold, and every
  call ends;
* node start: no handler before its service, two nodes that list each other meet,
  an unreachable bootstrap peer holds up nobody;
* adapter and loop: each half of a connection is ended once, and before the loop
  goes;
* lm-chat: its read loop and the close of its stream wait as long as their budgets
  say, no longer, and no shorter for the first byte; the question shown is the
  question sent.

## 2. Plan

Order, the most important behaviour first:

1. `NetStream`, `Allowlist`, `LmProxy`, `LmChatClient`, composed by
   `LmExchange`; safety, liveness, proofs (done).
2. `IdentityStore`, with proofs (done).
3. `IrohTransport`: node start under the lock, dial, ticket poll, close, with
   cancellation; proofs of its invariants (done).
4. `MeshNode`: listen, services, bootstrap, inbound connections and gossip
   streams over several nodes; proofs (done).
5. `Exchange`, an abstract request/response promise, and `LmExchange` shown to
   implement it, by TLC as a PROPERTY and by TLAPS step by step (done).
6. `ReadLoop`, `BiStream` and `CommandLine`, composed by `LmChatCommand`: the command
   from its options to its output, with time in the read loop and the close; proofs
   of their budgets and of the close (done).
7. Abstract specifications for the other components, with proofs that the detailed
   ones implement them: `IdentitySlot` (by `IdentityStore`), `SharedNode` (by
   `IrohTransport`) and `ChatRun` (by `LmExchange` and by `LmChatCommand`); theorems
   about `Exchange` itself, carried over to the protocol (done).
8. `QuestionSent` for requests of any length, and a bound on the loop and the close
   together (done).
9. Next: the safety part of two nodes and a client in one module, in which the
   client's dial meets a node that starts or stops; an abstract specification of
   what `MeshNode` promises two nodes that list each other.

## 3. The modules

### NetStream (external)

A stream is two FIFO pipes, `up` (client to handler) and `down`. A pipe with one
writer delivers a prefix of what was written, so it is the number of PIECES in
it and not read yet; what the pieces contain never matters to the protocol, only
how many were sent, read and lost. `end` is what the writer did with its side: an
EOF may arrive (`fin`) or be lost (`lost`, the case that
`lm_chat_client.py:38-39` describes). `reset` is set by either side or by the loss
of the connection. A read is assumed to raise on an EOF, a reset or a lost connection
only; `NoAbandonedReader` rests on that, since the handler returns on any exception of
its read and leaves the stream as it is (`lm_proxy.py:56-58`). `Window` is the muxer's flow control. A read may return b"",
which both callers test for.

### Allowlist

Two cases are kept apart: an empty `allow_peer_ids` means no list
(everybody), a list of blanks is a list (nobody). A peer whose id cannot be read
(`lm_proxy.py:115-118`) is not refused: `Denied` says so, and
`DeniedGetsNothing` speaks of peers whose id is known.

### LmProxy

| Action | Code (`lm_proxy.py`) |
|---|---|
| `Spawn` | `_handler` 113-121, the PeerId or None |
| `Admit`, `Deny` | 48-52 |
| `ReadRequest`, `ReadEmpty`, `ReadFails` | 54-62 |
| `Submit` | 74-77, waiting for one of the limiter's threads |
| `PostReturns`, `PostFails` | 30-38, 78-80 |
| `WritePiece`, `WriteDone`, `WriteFails` | 81, 90-105 |
| `CloseStream` | 61, 82, 107 |

`proxy[s]` holds the handler's position, what it read (`fwd`), the length of its
reply and how much of it is written. `exit` records how it ended.

### LmChatClient

| Action | Code (`lm_chat_client.py`) |
|---|---|
| `Dial`, `DialFails` | 101-131 |
| `SendPiece`, `SendDone`, `SendReset`, `SendFails` | 133-141 |
| `ReadChunk`, `ReadEOF`, `ReadNothing`, `ReadTimesOut`, `ReadReset` | 144-178 |
| `CloseInTime`, `CloseRaises`, `CloseTimesOut`, `ResetOrGiveUp` | 43-57, 180 |
| `Teardown` | 183-185 and the exit of `host.run` |

A budget is a timer that may expire at any moment of its wait. An exception of
`close()` or `reset()` leaves the run and replaces the response (`CloseRaises`).

### LmExchange

The two ends over the streams, plus the loss of a connection (`Lose`), and the
properties. `Open` is the dial and the start of the handler; `OpenFails` is a dial
that fails before or after the handler was started.

### Exchange, and the refinement

`Exchange` is what one use of the proxy promises when streams, windows, timers and
threads are forgotten: each call is asked once, refused if its caller is barred and
otherwise dropped or answered once, and comes back once, with what was answered or
with a failure. `LmExchange` instantiates it as `Promise`, with `CallerOf`, `ServerOf`
and `Barred` as the refinement mapping, and `KeepsPromise` says that it implements it.
A caller may give up at any time; what it may not do is return something else than the
server made of its call. What that comes to is stated and proved in `Exchange`: `Honest`,
`BarredOut` and `Final` (nothing is answered twice, nothing that came back changes). A refused or unanswered call never returns a response
(`Outcomes`), and a call that was answered by a body is the only one that may come
back cut.

### ChatRun

`ChatRun` is a run of lm-chat as its user sees it: it asks, waits for a first byte,
receives, closes, and ends with a response, a timeout or an error. Two modules
implement it: `LmExchange` for each of its streams (`RunOf`), where a budget may
expire at any moment, and `LmChatCommand` (`RunNow`), where it expires when its time
is up. Both model the loop of `lm_chat_client.py:145-178`; that both follow `ChatRun`
is what says that they agree on it.

### ReadLoop

The client's loop and the close after it, in ticks. `left` is what is left of the
timer of the `move_on_after` the loop is in; a timer at zero must fire before time
passes on, and what arrives, and when, is arbitrary. The clock runs in the loop and in
the close only: the dial, the write and the teardown have no budget, so nothing could
be said about their time.

| Action | Code (`lm_chat_client.py`) |
|---|---|
| `Piece`, `Nothing`, `NextTurn` | 145-148, 167-173 |
| `StreamEnds`, `Expires`, `ReadRaises` | 148-166 |
| `StreamClosed`, `CloseExpires`, `CloseRaises` | 43-57 |
| `Tick` | trio's clock |

`LmChatClient` and `ReadLoop` model the same loop: the first against a handler, with
timers that may expire at any moment, the second alone, with the time each takes.
`waited` (the time since the request was written) and `quiet` (since the stream last returned
something) are histories. `Allowed` is what the reads and pauses up to the present may
take in all.

### BiStream

`BiStreamReadWriteCloser.close` as run by the two tasks that close a connection: the
libp2p task that serves it, when it is lost, and the end of `host.run`. `closer[c]` is
the half a task is ending. `BeginClose` tests and sets the flag without an await in
between (`bistream_adapter.py:51-53`); `Finish` and `Stop` are the two guarded awaits;
`CancelClose` is trio.Cancelled, which `except Exception` does not catch. `AwaitIroh`
is `await_iroh` of `iroh_loop.py`: without a loop it raises, and iroh is not reached.
`read` and `write` change nothing in the adapter.

### CommandLine and LmChatCommand

`CommandLine` holds the pure choices: the request that is sent (`Request`), the question
that is printed (`Question`) and what of the response is (`Display`). Texts are opaque;
`Asked` are the places in a list of messages where the user says something.
`LmChatCommand` runs through the nested blocks of `main` and `run_lm_chat`: `Prepare`
(all inputs are read and checked before the loop is entered), `Connect`, `Ask`, `Read`
(the steps of `ReadLoop`), `Leave` (the `finally`), `HostCloses` and `ConnectionCloses`
(the steps of `BiStream`), `LoopExits`, `Render` or `Die`. Only `Read` takes time. That the end of `host.run`
waits for the tasks in it is trio's structured concurrency.

### IdentityStore

`load_or_create_keypair` as the calls it makes: `Start` (`exists`, 33), `Load`
(34-41), `Generate` (43-46), `OpenFile` and `WriteSeed` (the two halves of
`write_bytes`, 47), `Chmod` (48). `Quit` ends a process at any step. Two
specifications: `SerialSpec`, in which a process is started only when no other
one is starting (what an operator who starts them by hand does), with kills;
and `NoCrashSpec`, in which starts overlap and nobody is killed while creating.
A kill is of the process: data the operating system has not yet written is not
lost.

`IdentitySlot` is what the file promises when the calls are forgotten: a place that is
settled once, from which everybody who runs has its identity, and which may be spoiled
before it is settled, and then refuses everybody. `KeepsIdentity` says that
`SerialSpec` implements it. A file without a seed counts as spoiled (`Spoiled`) once
nobody is creating it any more; `WriteSeed` is what settles the place, before anybody
runs. `NoCrashSpec` does not implement it: that is the finding `identity_race`.

### IrohTransport

| Action | Code (`transport/iroh_transport.py`) |
|---|---|
| `Call` | the `_ensure_node` that listen (207), dial (109) and the ticket (142) begin with |
| `FindNode`, `StartNode` | 96-103, the test under the lock |
| `NodeStarts`, `StartFails` | 103-106 |
| `Ensured` | what follows without an await: 110-123 for a dial |
| `Connect`, `OpenBi` | 124-135 |
| `PollTicket`, `PollTimesOut` | 144-160 |
| `Close`, `Stopped` | 213-221 |
| `Cancel` | any await of the above |

`_iroh`, `_node` and `_endpoint` are set together and cleared together, so they
are one variable, `node`. A task's `on` is the endpoint its dial goes on with, or
the node its close shuts down. `alive` are the iroh nodes that run, and `lost` is a
history of those that may run although no reference is left: the start or the
shutdown that was cancelled or failed. `_ensure_node` acquires the lock, tests and
releases it in one step when there is a node.

`SharedNode` is what the transport promises those who use it: one node, found or made
in one step, and kept by whoever was given it. `SharesOneNode` says that the transport
implements it. `NodeStarts` is the step that makes the node, not the `StartNode` that takes
the lock; that a task is waiting in between is hidden, and so is the lock. `Uses` is
the endpoint a dial goes on with.

### MeshNode

| Action | Code (`node.py`) |
|---|---|
| `Start` | 42-83: everything is registered, without an await, before `host.run` |
| `Listens`, `StartPubsub` | 83, 96-97 |
| `DialSucceeds`, `AlreadyConnected`, `DialFails` | one turn of the loop 134-141 |
| `StartGossipsub`, `Subscribe` | 102-108 |
| `Stop`, `Down` | an exception or Ctrl-C in 83-108; the end of the process |
| `PrintTicket`, `TicketPrinted` | 111-130 |
| `Accepts` | `iroh_transport.py` 173-194, at the target of a dial |
| `GossipStream`, `Lose`, `Notice` | external: Pubsub opens a stream, a connection is lost, the death of a peer is noticed |

`stage[p]` is the innermost service of `p` that runs. `next[p]` is the position in its
bootstrap list. `conns` keeps who dialled whom, since the comment of
`node.py:98-99` speaks of one of the two only. When a process ends, the others keep
their ends of its connections in `stale` until QUIC notices (`Notice`), and
`host.connect` returns at once on such an end (`AlreadyConnected`), whether or not the
peer runs again. A connection that the network loses between two nodes that go on is
taken from both ends at once; the pair then counts as a fault. `faults` and `early` are histories: the
pairs the network kept apart during the present lives of both, and the gossip
streams that met no manager. A node and a print-ticket with its key are not run
at once.

## 4. The runs

| Run | Instance | Shows |
|---|---|---|
| `exchange` | 1 stream, window 2, up to 4 pieces each way, 1 peer, 2 empty reads | `TypeOK`, `AnswerWhole`, `DeniedGetsNothing`, `NoAbandonedReader`, `StuckOnlyOversized`; `KeepsPromise`, `FollowsChatRun`, `ClientReturns`, `HandlerExits` |
| `exchange_pool` | 2 streams, 1 thread, minimal sizes | `HandlerExits` with handlers that compete for the thread |
| `whole_request` | 1 stream, 2 peers | violated: `WholeRequestForwarded` |
| `eof_means_whole` | 1 stream, 2 peers | violated: `EofMeansWhole` |
| `identity_serial` | 3 processes, 4 keys | `TypeOK`, `OneIdentity`, `RestartsAfterUp`; `KeepsIdentity` |
| `identity_race` | 3 processes, no kills | violated: `StablePeerId` |
| `identity_cut` | 3 processes, serial | violated: `StartNeverFails` |
| `transport` | 2 tasks and the closer, up to 2 iroh nodes, a peer with and one without a key | `TypeOK`, `NoOrphans`; `NodeKept`, `SharesOneNode`, `CallsEnd` |
| `ticket_suffices` | as `transport` | violated: `TicketSuffices` |
| `mesh` | 3 nodes: two list each other, one of them also itself, the third lists one | `TypeOK`, `MutualPeersMeet`, `OwnDialsManaged`, `ComesUp` |
| `gossip_managed` | 2 nodes that list each other | violated: `GossipManaged` |
| `lm_chat` | budgets 3, 1, 2, 1 and a pause of 1 tick; 2 chunks, 1 empty read; files of up to 2 messages, 2 texts (symmetric) | `TypeOK`, `FirstByteBounded`, `FirstByteAwaited`, `ClosesPromptly`, `RunBounded`, `ShutOnce`, `HalvesShut`, `QuestionSent`; `FollowsChatRun` |

Why the bounds are enough. Streams do not share anything but the pool of
threads and the allowlist, so one stream shows all of an exchange's safety, and
two streams with one thread the contention. With a window of 2 and 4 pieces a
writer blocks twice, a reader gets one piece or two at once, and the request may
exceed MAX_REQUEST_BYTES. One peer is admitted (it is listed, or there is no list) or
left out (by a list of blanks), and its id may be unreadable. Two empty reads meet
the client's loop before and after its first byte. In `exchange` the handler reads at
most one piece of the two that may be buffered. In the identity store a third
process starts after two have raced, and there are more keys than processes; no
bound is placed on restarts.

In the transport two tasks and the closer are the three parties of its race: one
starts, one waits for the lock, one closes; with two nodes a task meets a node, no
node, and another node than it met before. `MaxNodes` only ends the runs: once it
is reached every start fails. The mesh has no bound but the number of nodes: each
restarts as often as it likes.

`MaxEmptyReads` and `MaxEmpties` bound the empty reads of a stream. In the code they
are not bounded, and each of them before the first byte arms the 600 s anew:
`FirstByteBounded` is stated in their number, and proved for every bound.

In `lm_chat` the budget of the first byte is longer than a pause and an idle budget
together, as in the code, so that a loop that armed the wrong one would be seen; the
values themselves (600, 3, 15 and 5 s) do not matter, as the proofs are for all. Two chunks arm the idle budget twice,
and one empty read the budget of the first byte; the proofs are for any number. Two messages make
the last text of the user differ from the first, follow a blank one, or come before
another's. `MCLmChatCommand` declares the two texts symmetric: no action and no property
tells one from the other.

Deadlock is checked in all runs; `Terminated` is the state in which every run
of lm-chat and every handler is over, and `Ended` that of a command.

## 5. Fairness

`FairSpec` assumes that an enabled step of either end is eventually taken: both
are trio tasks, their timers expire, the POST of `_post_chat_completions_sync`
returns or raises (httpx has a timeout for each phase), and the limiter serves
its waiters in turn. It does NOT assume

* that a blocked write gives up: nothing in `src/` bounds one. `SendFails` and
  `WriteFails` on a stream that is not reset may happen, and need not;
* that the network loses a connection.

Therefore `ClientReturns` and `HandlerExits` are stated for requests that fit the
receive window. Only when the request and the response are both larger can the two
ends block each other (`StuckOnlyOversized`), and the code has no timer that would end
that. `HandlerExits` rests on the client's
teardown: a handler reads and writes without a budget, and only the end of the
client's connection wakes it.

`IrohTransport`: iroh's calls return or raise, and the deadline of the ticket poll
passes (weak fairness of each task's steps). A task that waits for the lock gets it
(strong fairness of `FindNode` or `StartNode`): trio.Lock serves its waiters in
order, so others that take it again and again do not starve it. Nothing is
assumed of `NodeStarts` alone: starts may fail for ever. `Call`, `Close` and `Cancel` need not
happen.

`LmChatCommand` states no fairness: its bounds on time are invariants over the clock of
the loop and the close.
That the client returns is `ClientReturns` of `LmExchange`.

`MeshNode`: the services of py-libp2p start and a dial ends one way or another (weak
fairness of `Starts`). That `host.connect` always ends is an assumption on iroh and
py-libp2p: `node.py` has no budget around it.

## 6. What is proved

`LmExchange_proofs`, `LmExchange_refines`, `Exchange`, `IdentityStore_proofs`,
`IrohTransport_proofs`, `MeshNode_proofs` and `LmChatCommand_proofs`, checked by tlapm.
Every invariant and every action property that a run checks, and every refinement, is
stated by a theorem. The assumptions are those on the constants, by name in each module:
sizes, budgets and bounds are natural numbers, and the values that stand for "none" are
none of the others.

* Exchange: `TypeCorrect`, `Whole`, `Refused`, `NotAbandoned`, `StuckOversized`, for any
  set of streams and peers, any window, pool and sizes (`NetStreamAssumption`,
  `AllowlistAssumption`, `LmProxyAssumption`, `LmChatAssumption`).
* `Implements`: `Spec => KeepsPromise`, for the same constants. `PromiseHonest` and
  `PromiseFinal` are theorems of the abstract `Exchange`; `CallsHonest` and `CallsFinal`
  carry them over to the handler and the client, through the mapping.
* `ServedRun` and `TimedRun`: both models of a run implement `ChatRun`.
* Identity store: `StoreTypes`, `IdentityStays`, `RestartsSucceed`, `IdentityKept`
  (`SerialSpec => KeepsIdentity`), for any number of processes, keys, restarts and kills;
  `RacesHeal` for starts that overlap (`NoCrashSpec`).
* Transport: `TypeCorrect`, `NoNodeLeftBehind`, `OneNodeAtATime`, `OneNodeForAll`
  (`Spec => SharesOneNode`), for any tasks, peers and number of nodes
  (`IrohTransportAssumption`).
* Mesh: `TypeCorrect`, `MutualMeeting`, `DialsManaged`, for any nodes and bootstrap lists
  (`MeshNodeAssumption`).
* Command: `CommandTypes`, `FirstByteBound`, `FirstByteWait`, `PromptClose`, `RunBound`,
  `EndedOnce`, `EndedBoth`, `ShownIsSent`, for all budgets and bounds and requests of any
  length (`ReadLoopAssumption`: they are natural numbers, in any order).

`IInv` is the inductive invariant of the exchange. `AnswerWhole` is not inductive:
it says nothing until a result exists. What carries it is that the reply's
pieces are conserved (`out = got + buffered`), that an EOF is sent by `CloseStream`
only, so that a FIN in the pipe tells how the handler ended (`HandlerInv`), and
that a read loop which ended on EOF left an empty pipe (`ClientInv`). The error line
is never cut because it is one piece, and one piece always finds room: this is
where `Window > 0` is used. `NoAbandonedReader` needs that a handler can only leave
without closing on a stream that is reset or whose client has closed, and a
client that closed does not read any more (`LeavesBehind`).

The refinement is proved one step of the two ends at a time: a step maps to one action
of `Exchange` or to a stutter. What the mapping needs beyond `IInv` is `PInv`: where an end is
tells whether it has a result or a reply, and the pieces of the request are conserved as
those of the reply are (`sent` = buffered + read). `StuckOversized` rests on the two
conservations: a blocked client has filled the one window, a blocked handler the other,
and both have more to write. `ServedRun` is proved in the same way, and needs of `PInv` that a
run has no result before it is over.

`LoopInv`, `CloseInv` and `CommandInv` are the inductive invariant of the command. In
`LoopInv` the time that was spent and the time that is left of the armed budget add up:
in a read `waited + left` is at most `Allowed`, in a pause it leaves room for one more
budget of the first byte, in the close for nothing but the two last budgets, and a tick
moves one unit between the two. What makes a step that arms a timer keep this is that
`Allowed` grows by exactly that timer: by `Idle` with a chunk, by `FirstByte + Pause`
with an empty read (`AllowedStep`). The bound is a sum of products of two variables'
values; `OneMore` is the one fact about products that the steps use. `FirstByteBounded`
is the same bound without chunks. `quiet + left` is at least the budget of the first byte
before the first chunk, and at most the idle, close and reset budgets after it
(`ClosesPromptly`), which says nothing of the teardown: it is not timed. `TimedRun` needs
`StageInv` besides: the loop has not begun before the command reads. `CloseInv` says that only the task that found the flag unset is past it, and
`CommandInv` that a task that is closing has a loop, and that `close` is left with both
halves shut or by a cancellation.

`OutputInv` carries `QuestionSent`: the loop has an outcome only for the request of this
command line, and the question shown is made from the same. What is left is a fact
about `Question` (`LastAsked`): the place it chooses is the only one in the list after which
the user says nothing more. It holds for lists of any length, since `Question` is
written with that place and not by a recursion.

`SerialInv` is the inductive invariant of the key file: at most one process is
starting, who creates the file does so before anybody came up, and a file found
without a seed stops everyone. It is also what `IdentityKept` needs: `WriteSeed` finds a
file without a seed and nobody running, a kill of the creator between `OpenFile` and
`WriteSeed` is the one step that spoils the place, and no step writes the file after it.
`RaceInv` is the invariant of overlapping starts: a file that was emptied by one of them
has a writer with a key, whoever else read it meanwhile.

`TransportInv` is the inductive invariant of the transport: the lock is held exactly
by the task that starts a node, and there is no node while it is held (`LockInv`);
a close that is under way shuts down the node the transport holds, which nobody
can have replaced, because nobody starts one while there is one (`CloseInv`). That
is why close() needs no lock. The same invariant proves the refinement: the node is made
by the holder of the lock, when there is none, and the task that shuts down is never one
that dials.

`MeshInv` is the inductive invariant of the mesh. `MutualPeersMeet` speaks of nodes
that are up; what carries it is `MeetInv`, about any two nodes that have dialled each
other in their present lives: the later dial found the other node with its
services running, hence listening. It is not inductive by itself: a dial that is spared
because of a connection to a former life needs `StaleInv`, that the peer which went down
and came back finds this node listening when it dials, and that two nodes never hold
each other's former lives at once. `DialInv` says that only nodes whose Pubsub runs
have dialled, which gives `OwnDialsManaged`.

Model-checked only: the liveness properties `ClientReturns`, `HandlerExits`, `CallsEnd` and
`ComesUp`, since fairness and ENABLED are out of the prover's reach, and the violated
properties. What `Display` makes of a reply is data and in no theorem. `IInv`,
`SerialInv`, `RaceInv`, `TransportInv`, `MeshInv`, `LoopInv`, `CloseInv`, `CommandInv`,
`OutputInv` and `StageInv` were also checked by TLC on the instances above.

## 7. Findings

* `whole_request`: the handler's one read cuts a request that arrives in pieces.
* `eof_means_whole`: a body whose write failed ends like a complete one.
* `identity_race`: two first starts at once have two identities.
* `identity_cut`: a first start killed inside `write_bytes` blocks later starts.
* `ticket_suffices`: a dial needs a key in the PeerId even when a ticket is there.
* `gossip_managed`: the order of the bootstrap does not protect a node from the
  gossip streams of nodes that dial it while it starts.

Seen while modelling, without a run of its own:

* LM Studio's error object is printed as "_(empty response)_" (`cli.py:63-64`) unless
  `--debug` is given, although `docs/network-test.md:82` expects "JSON from LM Studio on
  stdout (or an error if the model/path is wrong)".
* A `--json-file` in which no user says anything, the empty one among them, is sent as
  it is, while the question printed is the prompt, which was not sent
  (`cli.py:31-33`, `cli.py:167-185`); `QuestionSent` holds of it without saying
  anything, as it speaks of requests that have a question.
* The teardown of lm-chat (`lm_chat_client.py:183-185`, the end of `host.run`, `finish`
  and `stop` of `bistream_adapter.py:55-60`, the node's `shutdown` of
  `iroh_transport.py:216`) has no budget, although `lm_chat_client.py:32-33` says of the
  close "Response bytes are already buffered; do not hold the CLI". What the models show
  of the time after the last chunk ends with the close of the stream.
* A close that is cancelled leaves the flag set and the halves open
  (`bistream_adapter.py:53-61`); `HalvesShut` leaves it out.

## 8. Not modelled

* The content of requests and responses, HTTP status codes (the handler forwards the
  body of any answer), the model id, logging, argument syntax and the layout of the
  output; the spelling of a PeerId.
* `gossip_allowlist.py`: one membership test in the list of `Allowlist`, called by
  py-libp2p. Nothing in the repository publishes or reads a gossip message, so a
  property could only restate the test.
* `config.py` reads a file into a record that never changes; the fields that matter
  are inputs of the modules, and that it may raise is `PrepareFails`.
* `swarm_builder.py` builds py-libp2p objects once and keeps no state.
* `identity.py`: which PeerIds map to a key is an input of `IrohTransport`; taking bytes
  out of keys is data.
* What an old NodeTicket still reaches is iroh's: the documentation tells users to
  refresh tickets (`docs/network-test.md:36`).
* The scripts and the dummy LM Studio, and the cryptography and routing inside
  py-libp2p and iroh.
