# Fast In Balance, in TLA+

A verification development for `lesismal/event_work_balance`: TLA+ modules
translated from the Go and C sources, TLC configurations that check them on small
instances, and TLAPS proofs of the facts that matter most for every instance.

Paths below are relative to the repository (`src/go/...`, `src/c/...`).
`PROJECT.json` lists, for every definition, the source lines it stands for.

## The system

One goroutine runs the **event loop** (`engine.go`, `poller_epoll.go`): it waits
for edge-triggered readiness, records it per connection and submits connections
to a **task pool** (`taskpool/`). A worker runs a connection's **round**
(`connection.go: process`): flush, urgent data, read until the socket would block,
call the handler. Any goroutine may send, send a file or close; what only the
loop may do (close the descriptor, change the interest) is asked of it through a
**command queue**. On top of the engine stand **TLS**, **HTTP/1**, **HTTP/2**,
**WebSocket** and, over UDP, **QUIC** and **HTTP/3**, each with a client. The
**C server** is a smaller implementation of the same idea.

| Part | Sources | State that can go wrong | Modules |
|---|---|---|---|
| event loop, connection rounds, output, back-pressure, closing | `engine.go`, `connection.go`, `poller_epoll.go`, `engine_unix.go`, `sendfile*.go` | `scheduled`, `pendingEvents`, the write queue, `flushing`, `readPaused`, the pending counters | `Engine` |
| command queue, wake-up, Stop and Close | the same | `commands`, `wakePending`, the eventfd | `CommandQueue`, `Mailbox` |
| task pool | `taskpool/*.go` | queues, condition variables, worker population | `TaskPool`, `CondPool`, `AdaptivePool`, `ElasticPool`, `TaskPools` |
| C server | `c/src/epoll_server.c` | references, pending events, the output list, the command list, shutdown | `EpollServer` |
| HTTP client | `http/client.go`, `h2_client.go` | idle and busy connections, waiting requests, one callback per request | `HttpClient` |
| HTTP/2 | `http/h2_*.go` | stream states, windows, settings, pushes, GOAWAY | `Http2` |
| WebSocket | `websocket/*.go` | fragmentation, text across frames, compression contexts, close handshake | `WebSocket` |
| QUIC | `http3/internal/quic/*.go` | packet numbers, recovery, stream buffers, flow control | `Quic`, `QuicNumbers` |
| HTTP/1 server, HTTP/3, TLS layer, dialing, UDP, other platforms, configuration, system calls | the rest | see [Not modelled](#not-modelled) | |

How the parts interact: the loop gives rounds to a task pool through `Submit`
(`Engine` uses what `TaskPool` promises: an accepted task runs once, a task may be
refused); workers and application goroutines give the loop commands (`Engine` uses what
`Mailbox` promises: commands arrive once and in order). HTTP, WebSocket and QUIC rest on
what `Engine` and `EpollServer` are checked for: the bytes of one connection are handled
by one goroutine at a time and in order, output leaves in the order of the calls, and a
graceful close comes after it. `HttpClient` treats an HTTP/2 connection as a set of
streams; `Http2` has the frames.

## The modules

### `Engine` — loop, rounds, output, back-pressure

`conn` holds the fields of `Connection` guarded by its mutex, `scheduled` is apart
because the proofs are about it. `ready`, `redeliver` and `tasks` count how often a
connection stands in the list of the round, among the redelivered ones, and in
the pool. Every worker and application goroutine has a control point `pc`, the
connection it is `on`, and `ret`, where the call it is in returns to, so that
`closeWithError`, `request`, `uncork` and `flushOutput` are modelled once and
reached from every caller. One action is one critical section of `Connection.mu`
or one step of the loop.

Bytes are numbered in the order `Send` accepted them; the wire is compared with that
order. The kernel's socket is external: an edge-triggered descriptor with a receive
count, send space and the edge that `epoll_wait` consumes; a write edge is raised only
for a writer that was turned away, as in Linux. Handlers and application goroutines
send, send files, flush, close, close after sending and panic as the configuration
allows; the peer sends, shuts down, resets, sends urgent data and reads.

`config`, fixed in the initial state, is the engine's configuration and the
environment it runs in; one run goes through several.

Left out: accepting and listeners, addresses, buffer recycling, statistics, reuse of
a descriptor's number, and the other pollers.

### `CommandQueue` and `Mailbox` — asking the loop

A request is three steps of the caller (append, compare-and-swap of `wakePending`,
write to the eventfd), a drain four of the loop (read the eventfd, clear the flag,
take the batch, carry it out). `Stop`, the drain at the end of `Run`, and `Close`
(wait for the workers, refuse, drain) are there. `Mailbox` is what the queue
promises: accepted commands are carried out once, in order; refusals only after the
close. `CommandQueue` implements it with `mail <- batch \o commands`. `Engine` uses the
queue as the loop sees it: requested commands arrive in order.

### `TaskPool` and the three backends

`TaskPool` is the promise of `taskpool.go`: a task is accepted before `Stop` or
refused, an accepted one runs once, `Stop` returns after the last of them.
`CondPool` (`cond.go`), `AdaptivePool` (`adaptive.go`) and `ElasticPool` (`elastic.go`) each model
one shard. A `sync.Cond` is a FIFO of parked goroutines; `Signal` needs no mutex and
is a step of its own where the code sends it after unlocking. The ring is modelled
as a ring in `CondPool` and as a sequence in `AdaptivePool`, which has the same ring and
adds the janitor, `Resize` and the claims (`idle`, `signals`). `ElasticPool` has Go's channel
rule: a send goes to a waiting receiver, else to the buffer, else it blocks.
`TaskPools` chooses a backend in its initial state, as `NewWithMode` does, and states
the properties once for all of them.

### `EpollServer` — the C server

All of `epoll_server.c`. `conn` is `epoll_connection_t`, `cmds` and `ready` are the lists of
commands and of the pool, `stopping` is the server's flag, `wake` the readiness of the eventfd,
and the kernel's socket is external, as in `Engine`. The loop thread, the
workers and one application thread each have a control point, the connection they are on
and the request they are in; an action is one critical section or one system call.
Reference counts are modelled literally: who holds one is visible in the state, and
`RefsCounted` compares. A `budget`, fixed at the start, says what peers and the application
may still do and whether one allocation or system call fails. The loop thread runs
`epoll_server_run` and then `epoll_server_destroy`; it looks at `stopping` only between batches,
so a stop that comes later has to wake it through the eventfd. Each connection has a descriptor of its
own: the reuse of a number is left out.

### `HttpClient` — connections, requests, callbacks

`host` is `hostPool`, `cc` the connections (`clientConn`), `hc` their HTTP/2 side
(`h2ClientConn`), `rq` the requests (`clientRequest`). The code goes back and forth between
four kinds of mutex, and calls of one goroutine nest; a goroutine is therefore a
sequence of `jobs`, and a step takes the first, carries out one critical section or
one call into the engine, and puts what it leads to in front of the rest. The operators
keep the names of the functions (`enqueue`, `dispatchLocked`, `release`, `discard`, `abandon`,
`handleGoAway`, ...). One host is modelled: hosts share nothing but the lock. The engine,
TLS and the server are external; `mode` fixes the protocol (HTTP/1, HTTP/2 with prior
knowledge, either over TLS), which requests are asked, and what may go wrong: a dial or
connect fails, a response closes the connection or comes in parts, a stream is refused,
GOAWAY, bytes nobody asked for and an end at any time (during a TLS handshake, too), a timeout
or cancellation of a request, expiry of an idle connection, `Close`. Parsing is reduced to
whether a response is whole and keeps the connection.

The client does lose things, in three ways, and history fields mark exactly those: `lost` of a
request that was on a connection when another goroutine discarded it for what it had seen there
before (`"discard"`: a late timeout, client.go:697, or unasked bytes that meet a new
request), or that waited when a connection was handed over dead (`"waiting"`), and `stranded` of a
connection whose end overtook `dialed`, so that the place it took is not given back
(client.go:473). `OnePlace`, `PlacesCounted` and `CalledBack` hold for everything else and name these
exceptions; `AlwaysCalledBack` names none, and is violated in each of the modes `Race`, `Unasked` and
`Shaking`.

### `Http2` — both ends of a connection

`server` and `client` are records with the fields of `h2ServerConn` and `h2ClientConn`; a
handler is a function from record to record that leaves the frames it sends in `out`, and
one step handles one frame, as the code does under the connection's mutex. `up` and `down`
are the two directions. Bodies are counted in units, with windows of a few units. Streams,
windows of streams and connection, changed settings, header blocks with CONTINUATION,
trailers, refusals, pushes, the upgrade from HTTP/1, GOAWAY and the closing of a connection
are there. The client of a plan may be `foreign`: one that changes its windows and limits,
accepts pushes or leaves. A WINDOW_UPDATE of zero and a window beyond `h2MaxWindow` (here as
small as the largest window that is ever granted) are the errors they are in the code, so an
end that granted too much would be found at fault; a response larger than
`MaxResponseBodyBytes` is cancelled by the client. HPACK and the octets of frames are left
out: a header block carries what `newRequest` tells apart. So are the checks of settings
that neither end of this code sends with other values (ENABLE_PUSH above 1, MAX_FRAME_SIZE
out of range) and the limit on the octets of response headers.

### `WebSocket` — dial, handshake, messages

The two directions carry units: parts of the handshake, the first two octets of a frame,
the rest of its header, the octets of its payload. A read takes any number of units, so
frames arrive cut anywhere. The server has both request parsers (the minimal one and
the full one), negotiation of subprotocols and compression, the frame parser with its
fast path, fragments, masks and limits; UTF-8 is checked octet by octet as in
`utf8.go`, and compared with the table of the Unicode standard; a compressed message is
one unit with the history it refers to, so that a context kept by one end only shows. The
dialer has its timer, `OnOpen`, `OnClose` and the response racing to settle the dial.
A plan says what both applications write and close, or that one end is of another make and
sends given frames, and whether pings go to a `PingHandler`.

### `Quic` — two connections over a lossy network

A `Conn` is a record and what runs under its mutex a function from record to record, with
the datagrams it sends in `out` and the calls of the handler in `events`. The network
loses, repeats and reorders datagrams as often as the plan allows. There are the three
packet number spaces with truncated packet numbers and bounded acknowledgement ranges,
loss detection by packet threshold and by timer, probes, the congestion window, the
amplification limit, Retry, buffered packets that came before their keys, stream buffers,
flow control of streams and connection, limits on streams, RESET_STREAM and STOP_SENDING,
keep-alive, idle and handshake timeouts, and the ways of closing. Time is not modelled: a
timer may fire when nothing is on its way, and a bounded number of times before that.
Handlers are called in the step that changed the state, although `dispatch` unlocks first
(conn.go:545-563): one goroutine serves a connection, and what a timer does in between is done
before or after instead. The congestion window does not grow in congestion avoidance
(recovery.go:106-108), which only lets less be sent. Every datagram that leaves a server whose
client's address is not validated is counted, with the CONNECTION_CLOSE that `sendClose` writes without
asking `atAmplificationLimit`: `QuicCounts` allows that one and no other.
`QuicNumbers` is the truncation of packet numbers, apart because it is proved for every
width.

## The runs

| Run | Instance | What it shows |
|---|---|---|
| `EngineSafety` | six configurations: two workers with panics, refusals, resets; three writers; graceful close against sends and a reset; watermark; two connections on one budget; a budget that recovers | exclusive execution, exact ownership, order on the wire, exact backlog, graceful close, finality of a close, pauses that match the interest and end |
| `EngineLiveness` | an echo server with a watermark, with pool and inline | input and output served, closes complete |
| `EngineDeferred` | a goroutine that sends a file while input arrives | *violation*: a deferred read is never served |
| `CommandQueue` | a worker with two commands, an application goroutine whose command requests another, Stop and Close | no lost wake-up, nobody refused too early, refinement of `Mailbox`, everything handled |
| `TaskPools` | two workers, a batch larger than the queue, a single submission, Stop; two ticks of the janitor and one Resize | counters and ring exact, floor kept, no lost wake-up, room or claim, refinement of `TaskPool` |
| `TaskPoolsLive` | the same with shorter batches, no janitor | tasks run, submitters and Stop return, a lowered ceiling is reached |
| `EpollServer` | five budgets: a slow peer, a life from accept to stop, urgent data, two connections, a failing call | references exact, one worker per connection, nothing leaks at destruction, order of output; input, output and closes served |
| `HttpClient` | seventeen modes over the four protocols, up to three requests and three connections, two places | places counted, one exchange per connection, responses to their requests, nothing acted on twice that must not be, every caller called back once, but for the three losses named |
| `HttpClientLost` | one request times out while another waits for its connection | *violation*: the timeout closes the connection under the other request, whose caller is never called back |
| `Http2` | fifteen plans: bodies, cancellations, breaks, retirement, limits of both ends, trailers, other clients, settings, pushes, upgrade | neither end finds fault with the other, both count the same windows and streams, handlers get whole requests once, streams end |
| `WebSocket` | talk, crossing closes, compression, fragments, pings taken by the application, bad text, protocol errors, bad, malformed and repeated headers, bad responses | messages arrive whole and in order, both ends agree on the handshake, on faults and on the dial, a closing connection ends |
| `Quic` | handshakes, request and answer, more streams than allowed, more data than the windows, streams cut or refused in the middle, endings; each with losses, repeats, reordering, early timers | streams intact, neither end at fault, exact counts, everything promised is delivered |

**Bounds.** Two workers are what exclusion and lost wake-ups need; a third adds only
symmetric cases. A send buffer of one byte and sends of one or two make short writes,
EAGAIN and direct writes all happen; a read buffer of one makes full and short reads
happen. Two operations per goroutine let a second send meet a flush of the first. A
batch of three over a queue of two parks in the middle of a batch; with the workers
parked this is where wake-ups could get lost. Two ticks of the janitor are needed for
a retirement (the first only records the idle ones).
`EpollServer` takes one event per `epoll_wait`; what a second one changes is said under
[Disagreements](#disagreements-with-the-text-of-the-repository). A send of three
bytes through a window of one is written in pieces and meets a second send.
`HttpClient`: two places and at most three requests, so that requests wait, connections are
reused, and a second connection is dialed; one oddity per behaviour, of any kind and at any
time, and two where a connection with a stream on it ends, so that a retry could be repeated.
`Http2`: windows of 1, 2 and 4 units with bodies of up to 4 and frames of 2, so that
every body waits for updates of its stream and of the connection; two streams of three
requests, so that the limit is met. `WebSocket`: control payloads of at most 3 and messages
of at most 4 units instead of 125 and the configured limit; characters of one to four
octets. `Quic`: two units fill a datagram, windows of 4 and 6 units, two streams a side,
windows of 2 and 3 datagrams, two ranges, and one octet of a packet number counting to 4
instead of 256, so that numbers wrap, ranges overflow and windows close in short runs; 1024
packet numbers (`PnLimit`) instead of 2^62, which no run reaches; up to three losses.

**Fairness.** `Engine`: the loop runs, some goroutine in a call does, some worker with a
round does, callbacks return, the peer keeps reading; nothing is assumed of what it
sends nor of calls of the application. `CommandQueue`: callers finish the request
they are in, workers finish, the loop runs, `Close` is called, and `epoll_wait` reports a
ready eventfd eventually although other descriptors are ready (strong fairness: it is
enabled only while the loop waits). `TaskPools`: weak fairness of "some submitter", "some
worker", `Stop` and the helpers; work is finite, so neither the mutex nor the scheduler has to be
fair between goroutines; nobody has to call `Stop` or `Resize`. `EpollServer`: threads run,
`epoll_wait` reports what is ready, the peer reads. `HttpClient`: the workers run, and the
rest of the client and a server that answers do not all stand still; nobody has to ask,
cancel or close. `Http2`, `WebSocket`, `Quic`: while something can be read, answered or
sent, a step is taken; the other steps are bounded by the plan, so this is weak
fairness of the work, stated without ENABLED, which TLC evaluates slowly on these
records. In `Quic`, when nothing is on its way and both ends have a timer running, they fire
in turn: `ptoCount` doubles a timer each time it fires, so the other's comes first.
Deadlock is not checked where a system may come to rest for good (an idle engine, a closed
connection).

## What is proved

TLAPS proves for every value of the constants:

* `EngineProofs`: `Spec => []Ownership` and `Spec => []ExclusiveExecution`. Neither is
  inductive alone. `SchedInv` adds the types of the scheduling variables (`SchedTypes`),
  that a worker that gave a connection up (`ret = "idle"`: it panicked) is only on its way
  through `closeWithError` and `request` (`GivenUp`), and that a busy worker is on some
  connection (`OnConn`). Most actions change neither lists nor the flag, and a lemma
  (`OwnersKept`) disposes of them; `NoteEvent`, `TakeTask`, `Top`, `Panic` and `SubmitReady`
  are argued one by one.
* `CommandQueueProofs`: `NoLostWakeup`, `WorkersServed`, `NothingLeft` and the refinement
  `Spec => Implements`. The invariant says that a set `wakePending` is matched by a caller
  about to write, an unread eventfd or a loop that has still to swap (`WakeInv`), that a
  batch is held only while it is carried out (`DrainInv`), that a queued command is in the
  batch or the queue (`FateInv`), and who may still request while Close goes on
  (`ServedInv`).
* `CondPoolProofs`, with the lemmas of `CondPoolLists` and `CondPoolFates`: under
  `WellFormed`, `CondPool` implements `TaskPool` (`CondPoolKeepsPromise`), for any number of
  workers, submitters and tasks and any length of the ring. The invariant `Inv` has, beside
  the types, that the lists of the condition variables hold parked goroutines, each once
  (`Waiting`: else a signal would move a goroutine that is elsewhere); that the `count`
  slots from `head` to `tail` are the used ones (`RingInv`); that a queued or running task
  is in one slot or with one worker and what a submitter has left is new (`FateInv`: this is
  what makes a task run once); and that workers leave only a stopped, empty pool (`EndInv`:
  so `stop` returns after the last task).
* `ElasticPoolProofs`, with the lemmas of `ElasticPoolFates`: under `WellFormed`,
  `ElasticPool` implements `TaskPool` (`ElasticPoolKeepsPromise`) and its counters are exact
  (`ElasticPoolCounted`). `FateInv` says that a queued task is in the channel, in the hands
  of one goroutine or with its submitter, and that a running one has one runner; `EndInv`
  that `taskWG` counts what was accepted and has not ended, and that nothing is left once
  `stop` has seen it at zero; `CountInv` ties `active` and `idle` to the control points of
  the workers. The counters change outside the mutex, and each change is that of one set by
  one element.
* `QuicNumbersProofs`: `NumberRecovered`, `decodePN` gives back the number that `pnLen` cut,
  for any even number of values of a byte and any highest number the receiver has seen, from
  what the sender knows to be acknowledged upwards. The hypotheses are that four bytes are
  enough for what is unacknowledged (`pnLen` never takes more) and that later packets did
  not overtake this one by half a window: a receiver that is further ahead decodes another
  number and drops the packet. That a number is the nearest to the expected one is shown for
  each window (`Nearest`), and that a window suffices from what the sender knows to be
  acknowledged.

The assumptions are the named `ASSUME`s of the modules: finite sets of goroutines that
do not overlap, and well-formed configurations. They hold of every instance TLC runs
(`CondPoolAssumption` and `ElasticPoolAssumption` in `TaskPools` evaluate `WellFormed`).

Only model-checked: all liveness (fairness and ENABLED are beyond the prover), the
adaptive pool, the counters and wake-ups of the cond pool, the C server, the output and
back-pressure invariants of `Engine`, and `HttpClient`, `Http2`, `WebSocket` and the rest of
`Quic`, whose handlers are recursive operators over sequences of frames: what they compute
for every input would need induction over data.

## Disagreements with the text of the repository

`EngineDeferred` and `HttpClientLost` end in counterexamples to what a comment or test
says; `PROJECT.json` quotes the lines. The following can be reproduced by adding the property
named to a configuration with the constants given:

| Where | What the model does | Reproduce |
|---|---|---|
| `connection.go:541` | a half-close reported with the last bytes overtakes them when the read stalls on the watermark, although `connection.go:525` says the final bytes are still delivered | `FinalBytesDelivered` of `Engine`, `Chosen = "halfclose"` |
| `c/src/epoll_server.c:743` | with two events of one `epoll_wait`, the commands drained for the first may free the connection of the second | `LoopSeesLive` of `EpollServer`, `Chosen = "pair"`, `MaxEvents = 2` |
| `http/h2_server.go:825` | a retiring connection is closed before the frames collected for its last response are sent, although `h2_server.go:880` says it waits for them | `RetiresGracefully` of `Http2`, `Chosen = "closing"` |
| `http/h2_server.go:506` | a stream answered with 413 whose answer waits for window still takes body; the handler is then called with the part that came later | `ServedWhole` of `Http2`, `Chosen = "cut"`, `MaxStreams = 3` |
| `websocket/handler.go:390` | after a protocol error later reads are still parsed and delivered until the connection closes | `ClosedIsClosed` of `WebSocket` |
| `http/client.go:823` | bytes nobody asked for close a connection that was given a request meanwhile; its caller is not called back | `AlwaysCalledBack` of `HttpClient`, `Chosen = "unasked"` |
| `http/client.go:473` | a connection that ends while its handshake is reported keeps its place for ever, or leaves the requests that waited for it | the same, `Chosen = "handshake"` |
| `websocket/handler.go:450`, `532` | of a repeated `Upgrade` or `Sec-WebSocket-Version` one request parser takes the first and the other the last; how the request is cut into reads decides between them | `OneVerdict` of `WebSocket` |
| `quic/stream.go:337` | after `StopSending`, the part of a stream that was missing is never given back to the connection's window, although `stream.go:336` says it counts as read at once | `ReadAtOnce` of `Quic`, `Chosen = "leak"` |
| `quic/conn.go:966` | the packet that closes a connection is sent past three times what came from an address not validated | `SendsThrice` of `Quic`, `Chosen = "ends"` |

Met while modelling, without a property: a connection paused by the shared budget is resumed
only at the end of some later round of the loop, and nothing wakes an idle loop when a
worker's flush brings the budget back; the elastic pool may leave a task in its channel
although a worker could be forked, when the worker it counted as idle was just taken or
expired; a descriptor's number may be reused while a worker of the old connection is inside a
read (Go and C), which the models exclude by never reusing one.

## Not modelled

* **Engine**: accepting and listeners, addresses, recycling of buffers, statistics.
* **HTTP/1 server** (`handler.go`, `parser.go`, `response_writer.go`): one goroutine per
  connection parses and answers in order; what could go wrong is in the grammar of
  messages, octet by octet, where tests and fuzzing say more than a state machine.
* **HTTP/3, QPACK, HPACK**: field codecs over strings and Huffman tables; QPACK is used
  without its dynamic table, so streams share no state beyond what `Quic` has.
* **TLS layer**, **dialing**, **UDP**, **shared task pool**: each a small machine around a library or
  system call whose behaviour would be most of the model. Their part in a connection's life (a
  connect that fails late, a handshake that ends with data behind it) is in `HttpClient` and
  `WebSocket`.
* **kqueue, Windows and portable engines**: the kqueue poller drives the engine modelled here
  and differs in how interest is registered; the Windows engine is a machine of its own over
  completion ports; the portable one leaves scheduling to the Go runtime.
* **QUIC**: ciphers and key update, connection identifiers and path validation, version
  negotiation, stateless reset, encoding of frames and transport parameters.
* **WebSocket**: `Feed` (copies each payload), pooling of buffers, dialing over TLS.
* **Configuration and system calls**: no state that outlives a call.

