# A TLA+ model of attender

attender is a C++17/20 library for HTTP and websocket servers and websocket
clients on top of boost::asio and boost::beast. This directory models it: the
connections and their asynchronous operations, the reading of requests, the way of
a request through the server, chunked responses that another thread feeds, the
websocket server and client, and the accept loops on their worker threads. TLC
checks the models on small instances; TLAPS proves their safety properties
for every instance, which `The proofs` lists.

Paths below are relative to the repository's `include/attender/` and
`source/attender/`.

## The system

| Component | State | Operations | Interacts with | What makes it correct | Modelled in |
|---|---|---|---|---|---|
| `http_connection_base` (plain, secure) | socket, `closed_`, `buffer_`, `write_buffer_`, `kill_timer_`, `read_callback_inst_` | `read`, `write`, `stop`, the completion handlers, `check_deadline` | holds raw pointers to itself in every queued handler; calls the request and response handlers | no handler runs on a deleted connection; one operation at a time per buffer; every wait for the peer has a deadline; a deadline harms nothing else | `HttpConnection` |
| `connection_manager` | set of owned connections, `connectionsLock_` | `create`, `remove`, `clear` | deletes connections, and with them (lifetime binding) the request and response handlers | a connection is removed exactly once, and in the end | `HttpConnection` |
| `request_handler`, `http_read_sink` | parser, sink, `max_read_`, `on_finished_read_` | `initiate_header_read`, `header_read_handler`, `read_body`, `body_read_handler`, `accept_and_continue` | starts reads, replaces the read callback, calls the server's header handler and the user's continuation | limits and Content-Length are respected; each read is continued or answered | `HttpConnection`, `RequestReader` |
| `request_header_parser` | `progress_`, `header_buffer_`, `header_` | `feed`, `read_front` | fed by the header read handler | the result does not depend on how the bytes arrive | `RequestParser` |
| `callback_wrapper` | `func_`, `fail_`, `fullfilled_`, `error_` | `then`, `except`, `fullfill`, `error` | the user's `then` against the read handler's `fullfill` | the continuation runs exactly once | `RequestReader` |
| `response_handler`, `conclusion_observer` | `header_sent_`, `header_`, observer | `send`, `send_file`, `send_status`, `send_chunked`, `end`, `status` | each write's continuation starts the next; `end` removes the connection | header before body, one answer, end after the last write | `HttpConnection`, `ChunkedStream`, `BrotliStream`, `Dispatch` (partly) |
| `producer`, `streaming_producer` | buffer, `consuming_`, `completed_`, `on_produce_`, two recursive mutexes | `operator<<`, `flush`, `finish`, `has_consumed`, `start_production`, `end_production` | application threads and io_context handlers share it | order, one write at a time, no lost wakeup, ends once | `ChunkedStream` |
| `brotli_encoder` | `input_`, `output_`, `avail_`, `completed_` | `push`, `flush`, `finish`, `has_consumed` | a producer as above | what is written is what was pushed | `BrotliStream` |
| `http_basic_server`, `session_control` | acceptor, routers, authorizer, sessions | `start`, `stop`, `header_read_handler`, `handle_session`, `authenticate_session` | runs user callbacks, answers for them when they throw | one answer for each request; no callback without a live session | `Dispatch`, `HttpConnection`, `AcceptLoop` |
| `request_router`, mounting | routes in order of priority | `add_route`, `mount`, `find_route` | called by the header handler | the right route; every path is answered | `Router`, `Dispatch` |
| sessions and authorizers | session map, cookies | `load_session`, `save_session`, `make_session`, `terminate_session`, `try_perform_authorization` | called by the server and by callbacks | no request passes without a session; a terminated session does not come back | `Dispatch` |
| `http_server`, `http_secure_server` | `socket_`, the acceptor | `do_accept`, the handshake handler | create connections | one accept at a time, no peer left behind | `AcceptLoop`, `ServerRuntime`, `HttpConnection` |
| `async_model`, `thread_pooler`, `managed_io_context` | `up_`, `threads_`, work guard | `setup`, `teardown` | run the io_context | nothing runs after a teardown, teardown ends | `ThreadPool`, `ServerRuntime` |
| websocket `session_base` | `enqueued_writes_`, `queue_mut_` | `enqueue_write`, `write_text`, `write_binary`, `on_write_complete` | the connection's handlers and any thread | one `async_write` at a time, order, nothing stalls | `WsSession` |
| websocket `server`, `proto_connection`, `connection` | acceptor, stream, `write_in_progress_`, `was_closed_` | `start`, `stop`, `do_accept`, upgrade, `do_read`, `on_write`, `close` | the session, which may keep the connection | `on_close` counted, every end told, connections destroyed | `WsConnection` |
| websocket `client`, `secure_client` | stream, `read_cb_`, timeouts; shared by handlers | `connect`, `connect_sync`, `listen`, `disconnect`, `set_timeout`, the destructor | user callbacks | every connect answered, every end told, no connection left behind | `WsClient` (partly) |
| formatting, tables, hashes, SSL contexts | none | | | | not modelled |

The behaviours that are hard: several threads may run one `io_context`, so
completed operations are handled in any order; nothing but raw pointers ties a
queued handler to its connection; applications answer from any thread, throw, or
never answer; deadlines race the data they wait for; application threads
produce data while handlers consume it; bytes arrive in any pieces; a server is
stopped and started while handlers of its former life are queued.

How the modules cover the system together: the modules overlap at named points. What
`AcceptLoop` calls a served peer is an `Accept` of `HttpConnection`; `HttpConnection`
reduces the contents of messages to how many pieces may come, and
`RequestReader` does those contents byte by byte for one request; the
replies of a callback, one choice in `HttpConnection`, are worked out in `Dispatch`;
the writes of a response, one after the other in `HttpConnection`, are fed by
another thread in `ChunkedStream` and `BrotliStream`. `ServerRuntime` composes
`AcceptLoop` with `ThreadPool`, `Dispatch` composes the router with session control,
`RequestReader` the parser with the sink and `callback_wrapper`.

## The modules

| Module | What it is |
|---|---|
| `HttpConnection` | the HTTP server's connections from accept to removal |
| `RequestLifecycle` | what the server promises for a request; `HttpConnection` implements it |
| `HttpConnectionProofs` | the theorems about `HttpConnection` |
| `RequestParser` | `feed`, the words and lines of a header, the decoding of the url; operators only |
| `RequestReader` | one request: header, body, sink and `callback_wrapper` |
| `RequestReaderProofs` | the theorems about `RequestReader` and the loop of `feed` |
| `Router` | `find_route`, `mount` and the paths of mounted files; operators only |
| `Dispatch` | requests from the parsed header to the answer, and the sessions |
| `DispatchProofs` | the theorems about `Dispatch` |
| `ChunkedStream` | `send_chunked` with a `streaming_producer` |
| `ChunkedStreamProofs` | the theorems about `ChunkedStream` |
| `BrotliStream` | `send_chunked` with a `brotli_encoder` |
| `BrotliStreamProofs` | the theorems about `BrotliStream` |
| `WsSession` | the write queue of a websocket session |
| `WsSessionProofs` | the theorems about `WsSession` |
| `WsConnection` | the websocket server and the life of its connections |
| `WsConnectionProofs` | the theorems about `WsConnection` |
| `WsClient` | both websocket clients |
| `ThreadPool` | `setup`, `teardown` and the workers; no specification of its own |
| `AcceptLoop` | the accept loops of both HTTP servers; no specification of its own |
| `ServerRuntime` | both of these together |
| `ServerRuntimeProofs` | the theorems about `ServerRuntime` |
| `MCHttpConnection`, `MCRequestReader`, `MCDispatch` | instances for TLC |

In most modules a behaviour chooses in its initial state what its application does:
`app` is a subset of the constant `Env` (in `Dispatch` and `ServerRuntime` one element
or none, to keep them small), and never changes. A property that needs a discipline of
the application names it in its premise. `HttpConnection` uses `Env` itself.

### HttpConnection

`conn[c]` is one connection object. `rd`, `wr` and `hs` are its asynchronous
read, write and handshake: `pending` while the operation is under way, then its
outcome, which stands for the queued completion handler. `waits` are the timer
waits in asio's queue, `fired` those that have expired and whose handlers are
queued: a wait that is still in the queue can be cancelled, an expired one
cannot, and that difference is where deadlines go wrong. `deadline` is
`expires_at()` seen from now. `cb` is what `read_callback_inst_` calls, `wk` what
the handler of the current write goes on with, `sent` is `header_sent_`, and
`stage` is how far the application has come with the request.

An operator such as `Read`, `Write`, `Stop`, `Free`, `End`, `Send`, `ReadBody`
maps the state of a connection to its state after the C++ function of that name;
where the outcome depends on data or on the application, to a set of states. An
action runs one handler, with everything it calls: `HandleRead` is `do_read`'s
lambda and the header or body handler behind it, down to the user's callback
and the writes it starts. The connection actions `ReadCompletes`,
`WriteCompletes`, `HandshakeCompletes` and `Elapse` are the network and the
clock. A freed connection has no handler actions: executing a handler then is
undefined, and `NothingOutlives` and the properties beside it say that it cannot
come to that.

`Env` switches on what applications do beyond answering each request once:
`silentCallback` (never answer), `answerOnTimeout`, `throwAfterAct` (a callback
throws after it started to read or to answer), `destroyServer`.

Abstractions. A handler is one step, as when one thread runs the io_context or
the handlers of a connection do not overlap; handlers that truly overlap on two
threads are not modelled here. Message contents are reduced to how many more
pieces may come. The blocking TLS shutdown in `remove` takes no time. A read
error other than the abort ends the connection, whichever error it is. A
connection slot is used once, so a run may end with all slots used, and the cfgs
say `CHECK_DEADLOCK FALSE`.

`RequestLifecycle` is the promise: a request is received, handed over, answered
once and removed, and a request that was handed over is not removed before an
answer was begun. The refinement mapping `Phase` reads a connection's phase off
`life`, `sent` and `stage`.

### RequestParser and RequestReader

A byte is a member of a small alphabet: the separators the parser looks for, two
letters, three digits, a negative number, an escaped letter, an escaped `&` and an escape that
cannot be decoded. `parser` is the record
of `progress_`, the buffer (as the positions of the input that it begins and ends
with, since it is always a piece of the input) and what was read. `feed` is the
function of that name with the same order of tests; `WordEnd`, `HasWord`, `Line` and
the others are its helpers. The recursion of its loop is a recursive function. Of the
fields, Content-Length and Cookie are looked at: a Cookie field without pairs refuses the
request, the first line that has a cookie's name keeps it, and within a line the last.

`RequestReader` reads one request in pieces of every length up to `BufferSize`.
`header_read_handler` and `body_read_handler` take one piece each. `sinks` holds, for
each `read_body`, the positions of the bytes it got. `callback_wrapper` is modelled
access by access: `todo[t]` is what thread `t` has still to do, so `then` loads
`fullfilled_` in one step and stores the function in the next, and `fullfill`
sets the flag in one and looks for the function in the next. `Minus` is the
subtraction in `size_type`, with `SizeModulus` for 2^w. A url that cannot be decoded is
`Undecodable`: `decode_url` throws through `header_read_handler`, which answers 400. Left out: the answers 100
and 411, which `HttpConnection` has, and the reading of fields other than Content-Length.

### Router and Dispatch

A path is a sequence of slashes and names, of any sets `Names` and `Params`. `Parts` is `boost::split`, `path_matches`
is `route::matches` with its regular expressions reduced to names and parameters,
`find_route` walks the table, `mounted_path` computes the file of a mounted route, and `Resolved` what
that path names for the file system, where `..` leads to the directory above.
`Dispatch` takes `Requests` at a time through `header_read_handler`, `handle_session`,
`authenticate_session` and the callback, one step for each call of the session
storage, the authorizer or the callback, and so interleaves them as two threads of
the io_context do. `codes` are the answers begun; `control` is the
`SessionControlParam`, chosen in the initial state. Callbacks answer, keep the
request, throw, log in, log out, or count in their session with `load_session` and
`save_session`, which copy it. The callbacks of mounts are the library's own,
`ServeMount`, over a set of resolved `files`: PUT and POST make one or fail, DELETE removes a path with
all that lies below it (`FilesAfter`), or throws when it has removed some of that.

### ChunkedStream

Three threads: the application's `producer`, the `starter` (the handler of the
header's write, which attaches the connection and calls `start_production`) and
the `writer` (the handlers of the chunks' writes). `pc` says where each is in
`produced_data()`: `check` (of `consuming_`), `attached`
(`has_consumer_attached`), `lock` (taking `on_produce_protect_`), `call` (in
`on_produce_`, about to read the buffer). `buf` and `prot` are the holders of
`buffer_saver_` and `on_produce_protect_`. Items are numbers in the order of the
pushes, so the buffer is `consumed+1 .. produced` and `wire` the items written.
The application may push before the connection is
attached (`preBuffers`) or while `start_production` runs (`racesStart`, which
`wait_for_consumer` does not prevent), call `finish` while items wait or are
being written (`finishesEarly`), or join its thread in the finish callback
(`joinsProducer`, as the repository's README shows). Not modelled: a connection
that is removed by somebody else while it streams, an encoder that fails (`BrotliStream` has it), and
the time of setting the finish callback. Threads end, hence `CHECK_DEADLOCK FALSE`.

### BrotliStream

The same response with `brotli_encoder` as its producer. The library's encoder is a
queue: a byte comes out once, in order, some time after it went in, and at once when
it is flushed or finished and there is room. When there is not, it is `flushing` or `finished`, and
`Refuses` input until it has given out what it has: then `production_failure` takes the place of
`produced_data` (`CompressFails`, `Fail`) and writes the last chunk. What attender adds is modelled as it
is: `push` copies its bytes to the front of `input_`, the encoder writes to
the front of `output_`, `avail_` is loaded and stored in two steps, `has_consumed`
erases from `output_` under `buffer_saver_` and then looks at `completed_`. A position
of `output_` that was never written is 0. `avail_` is calculated modulo `SizeModulus`, since `size_t`
wraps. A write that takes more of `output_` than there is, or an `erase` past its end, is undefined:
`overrun` marks the state, and nothing follows it. A step lies between two accesses to what the
threads share. `pushesEarly`: the application goes on before what is available was
consumed; `pushesMuch`: it pushes more than the output has room for; `otherThread`.

### WsSession

The callers are the strand of the connection (its callbacks, one at a time) and
`Threads` beside it. A step goes from one access to `write_in_progress_` or one
lock of `queue_mut_` to the next. `OnWrite` and `OnWriteComplete` are the
handler of a write: it clears the flag, then runs the front operation with the
mutex held. An operation writes, writes with an `on_complete`, or is such an
`on_complete`; `app` says whether there are any and whether the session is a
`flexible_session`, which does not run the queue. `MaxWrites` bounds the calls; when
all are made the system stops, hence `CHECK_DEADLOCK FALSE`.

### WsConnection

`server` and `accepts` are the accept loop: accepts under way, and completed ones whose
handlers are queued, by outcome. `conn[c]` goes from `tls` to `upgrade`,
`accepting`, `open` and `gone`. While it is open, `reading`, `writing` and `closing` are
operations under way, and `done` the handlers that are queued, in the order in
which the operations completed; with `threads` they may run in any order. Handlers
and the application (`held`) keep the connection: `Change` destroys it in the step that
takes the last of them, as its `shared_ptr` does. A `start` may throw before, at or after
the opening of the acceptor (`StartThrows`), and the making of a security context may throw out of the
accept's handler (`HandleAcceptThrows`). `on_close` is counted in `closes`.

### WsClient

One thread of the application makes the calls and one thread runs the io_context.
`stage` is where each of the two is: connecting, in the blocking TLS handshake, in the
blocking websocket handshake, or in the blocking close. `link` is the connection,
`read` the pending `async_read` and its queued handler. Client object (`alive`) and
implementation are apart, because handlers share the latter (`Held`). The peer may be
`mute`: it answers no handshake and no close.

### ThreadPool, AcceptLoop and ServerRuntime

`ThreadPool` has the test and the store of `up_` in two steps, the work under
`thread_pool_lock_`, the join of one thread after the other, and workers that end when
the context is stopped, when there is no work and no guard, or when a handler throws.
`AcceptLoop` follows `socket_`, the member that both servers accept into: the plain
server moves it into the connection, the secure one makes it anew. An accept into an
open socket fails at once. The acceptor is open without listening when `start` threw in between
(`StartThrows`). `HandleAccept` maps the record of the loop to the one after
the handler, so that `ServerRuntime` can let two workers finish their handlers in
either order. `app` is one thing at a time that the application does: `on_accept_` refuses or throws, the server
is started again, another handler throws, two threads tear down, a handler tears
down, or the threads are set up again.

## The runs

| Run | Bounds | What it shows |
|---|---|---|
| `http_plain` | 2 connections, messages in up to 2 pieces, symmetry | types, `NothingOutlives`, `OneOperationAtATime`, `ReadIsTimed`, `TimeoutOnlyWhileReading`, `RemovedByItsLastHandler`, and the refinement of `RequestLifecycle` |
| `http_secure` | 1 TLS connection, messages in up to 4 pieces, the server may be destroyed, fairness | `EventuallyRemoved` |
| `request` | 29 requests of up to 32 bytes, pieces of 1 to 5 bytes, limits 0, 1 and 3, sizes modulo 64, fairness | `HeaderIndependentOfCuts`, `UrlMeansWhatItEscapes`, `ContinuedWithWholeBody`, `AnsweredOnce`, `BodyIsAnswered` |
| `dispatch` | 2 requests out of 15, 2 sessions, 4 routes and 2 mounts, fairness | `RightRoute`, `CallbackIsAuthorized`, `CountsAreKept`, `TerminatedStaysTerminated`, `OthersAnswered` |
| `stream` | 4 items, every set of application behaviours, fairness | `WireInOrder`, `OneWriteAtATime`, `NoStalledItems`, `EndsOnce`, `PatientPushReturns`, `LateFinishGetsRemoved` |
| `brotli` | 4 bytes, room for 2, sizes modulo 16, one thread, fairness | `PatientWireIsPushed`, `FinishedGetsEnded` |
| `ws_session` | 4 calls from the strand, with and without `on_complete`s, either session class, fairness | `OneWriteAtATime`, `SentInOrder`, `ThenAfterItsWrite`, `EnqueuedGetsSent` |
| `ws_connection` | 1 TLS connection at a time, 2 starts and any that throw, 1 message, 2 closes, fairness | `OpenAcceptorAccepts`, `OnCloseCount`, `QuietAfterClose`, `EndIsTold` |
| `ws_client` | 2 connects, 2 listens, 2 messages, plain and secure, fairness | `ConnectIsAnswered`, `EndIsTold`, `DestroyedHangsUp` |
| `runtime` | 2 workers, 2 outside threads, 2 peers, 2 starts, 2 other handlers, fairness | `TornDownIsQuiet`, `OneAcceptLoop`, `PeersAreAccepted` |
| `bad_late_timer`, `bad_refuse` | | must fail, see Disagreements |

Why the bounds are enough. Connections share only the server's state, so two of
them show what one does to another (and the theorems remove the bound). Two pieces of
a message are the first and the last; a third only repeats the first. A stale
expired wait beside a live one needs two reads. The requests of `request` have each kind
of malformed line, a header that ends inside a piece, bodies shorter than, as long as and longer
than their Content-Length, and the pieces have every length, so that every cut occurs; the limit of the header is 18 bytes, so that some of their lines have no room for
the piece behind them, and are refused or not as they are cut. In `dispatch` one request counts in a session while the other logs out of it,
the table has overlapping templates and priorities, and the last request deletes
`/mnt/..`. In `ChunkedStream` four items are
one in the write, one waiting, one pushed while the handler runs, and one more
to see the order; four bytes are twice the output's room, enough for a flush that finds it
full, the push that is refused, and an early push that overruns it. In `WsSession` one write is
under way, two wait, and a fourth call arrives around the handler. In `ws_connection`
a read, a write and two closes end beside each other, and a slot that is
gone is used again. Two connects of a client are a connection and what is left of it.
In `runtime` two peers are one in the socket and one that waits, two starts one loop and
the remains of another, and two handlers that throw end both workers.

Checked with smaller instances only, because the run would be too large: two HTTP
connections with a TLS handshake each, the brotli encoder with `otherThread`, the websocket
session with threads beside the strand, and a server runtime with more than one kind of
misbehaviour at a time.

### Fairness

`HttpConnection`: the io_context runs a handler that is queued, time passes, an
application that keeps a response answers it in the end, and a write succeeds or
fails in the end (TCP gives up on a peer that is gone; the code has no deadline
of its own for writes). Nothing is assumed of the peer: `ReadCompletes` has no
fairness, so `EventuallyRemoved` rests on the read deadline. `RequestReader`: threads go
on, and a read completes or fails, because it has a deadline. `Dispatch`: the threads
go on, and what was kept is answered. `ChunkedStream`, `BrotliStream` and
`WsSession`: threads that are not blocked go on, handlers run, writes end; when an
application pushes, finishes or calls is not constrained. `WsConnection`: handlers run,
operations of a stream that ended fail, and a close ends, because beast gives it a
timeout; of the peer nothing is asked, and `EndIsTold` begins at the end of the stream.
`WsClient`: connects end, handlers run, and a peer that is not mute answers; the
properties that need the answer say `~Mute`. `ServerRuntime`: workers that have a
handler run it, calls go on, and an accept that is tried again and again while a peer
waits succeeds once (strong fairness: failures are transient).

## Disagreements

Where the code disagrees with its comments and documentation. Two runs that must fail
show the first two:

| Run | What happens |
|---|---|
| `bad_late_timer` | a wait that expired just before its connection is deleted is delivered as a success, and its handler uses the deleted connection |
| `bad_refuse` | a peer that `on_accept_` refuses stays in the plain server's socket, and no other is ever accepted |

The premises and exceptions of the properties mark more of them; each can be seen by checking
the conclusion without its premise.

HTTP connections and requests.

- `stop()` terminates no connection, although the comment says so (`http_basic_server.cpp:54`),
  and a destroyed server frees connections whose handlers are queued
  (`http_connection_base.hpp:350`; the premise of `NothingOutlives`).
- A timeout callback that answers leads to two removals (`:396`, `Disciplined`).
- A callback that throws after it began to answer gets a second answer written over the first
  (`http_basic_server.cpp:262`, `OthersAnswered` with `throwsLate`); so does a conditioner
  that answers before the authorizer (`conditionerAnswers`).
- A failed TLS handshake closes nothing and a handshake has no deadline
  (`http_secure_server.cpp:86`); a connection whose body read timed out is never removed
  (`request.cpp:127`, against README.md:215-219). These are the exceptions of `EventuallyRemoved`.
- `fullfilled_` is not reset, so a second `read_body` is continued at once, before its bytes
  came (`callback_wrapper.hpp:85`, `ContinuedWithWholeBody` is about the first); `then` on another thread
  than the handler's may run twice or never (`AnsweredOnce`, `BodyIsAnswered`).
- A request that holds more than its Content-Length reads on until its deadline
  (`request.cpp:233`); the sink may get up to a buffer more than the limit (`:138`), and the
  piece that comes after the limit was reached is lost.
- The url is decoded before it is split, so an escaped separator counts, and of two keys that
  decode to the same the later stays (`UrlMeansWhatItEscapes`); a request line without a url (`GET /\r\n`) is never refused and
  waits for its deadline.
- The limit of a header counts the bytes behind it (`request_parser.cpp:59`), and as shipped it is as
  large as one read (`net_core.hpp:18`, `:22`, both 4096). A line that a read cuts and a full
  read behind it exceed it together, so that a well-formed header may be answered with 400 for the way
  it arrives, with or without a body. `HeaderIndependentOfCuts` says exactly when: only
  then, and never where there is room for each line and a piece behind it (`RoomBehindLines`, which no
  request meets with the shipped constants); and a request of at most 4096 bytes in all is never refused for it.
- A negative Content-Length is taken for no body (`request.cpp:119`, `:241`), unless bytes came
  behind the header: then the difference wraps, and the next piece is read and added to them (`:233`).
- `get_cookie` compares an iterator of the cookies with the end of the query
  (`request_header.cpp:58`), which C++ leaves undefined.
- Requests are said to be jailed to the mounted directory (`http_basic_server.hpp:180`), and only `../`
  and `..\` are refused (`mounting.cpp:42-48`): `/mnt/..` is let through and names the directory above the
  root, which a DELETE removes with everything in it (`router.cpp:290`). `RightRoute` says of every other
  path that its file is below the root (`EndsAbove`).
- HEAD of a mounted file that exists is not answered (`router.cpp:302`, `HeadOfFile`); a mount
  matches a prefix that ends inside a name; of a parameter that a template has twice only the last value
  is kept (`router.cpp:142`, `DistinctParameters`).

Producers.

- A push beside `start_production` starts a second write (`OneWriteAtATime`), takes the two mutexes in
  the opposite order (`PatientPushReturns`) or calls an `on_produce_` that was emptied
  (`EndsOnce`), all with `racesStart` (`producer.cpp:81`, `:86`, `:87`).
- `finish()` while items wait lets the last chunk overtake them (`response.cpp:219`, `WireInOrder`),
  and during the last write it goes unnoticed (`producer.cpp:60`, `LateFinishGetsRemoved`).
- A finish callback that joins the producing thread, as the repository's README
  shows, can block both for ever (`producer.cpp:113`, `joinsProducer`).
- The brotli encoder overwrites what was not yet written when the application pushes on
  (`brotli.cpp:157`, `:188`, `PatientWireIsPushed` with `app = {}`), and then reads or erases past the
  end of `output_` (`response.cpp:245`, `brotli.cpp:103`; `overrun`). When it pushes more than fits, a flush that
  finds the output full leaves the encoder flushing, so that the next push is refused and
  `production_failure` writes the last chunk while a chunk may be under way (`brotli.cpp:217-220`), or throws when no
  connection is attached; the input stays, so that the loops of `flush()` and `finish()` never end
  (`:122-139`). `Single` excludes such applications. On a thread of its own,
  `avail_` loses updates between load and store (`:101`) and `finish()` beside a handler
  starts two last chunks (`:106`).

Websockets.

- A thread beside the strand can start a second `async_write` (`OneWriteAtATime` without
  `OnStrand`), have an enqueued operation refused, or queue one that is never run
  (`session_base.cpp:28`, `:34`). An `on_complete` takes the turn of a write behind it (`:18`),
  and one that is queued by a queued operation locks the mutex that it runs under (`:22`).
  `flexible_session` never runs the queue.
- `on_close` of a connection is called twice or more (`OnCloseCount` says how often), and the
  destructor closes synchronously on the io_context's thread. `stop()` terminates no
  connection (`server.hpp:35`), the accept loop ends at its first error (`server.cpp:70`,
  `OpenAcceptorAccepts`), also when the security context throws (`:73`), and the upgrade request has no
  deadline.
- `set_timeout` takes a set timeout for none and reads one that is not set
  (`client_base.hpp:155`). The deadline of a secure connect is never taken back
  (`secure_client.hpp:63`), so that the reads of a secure client end when it passes. The handshakes in
  the handler have no deadline (`ConnectIsAnswered` with a mute peer). A client that is destroyed
  while its reconnecting handler runs hands the new connection to the old read loop
  (`DestroyedHangsUp` with `reconnectsReading`). `write()` does not compile when it is used
  (`client_base.hpp:203`), and `secure_client.hpp` includes a header that does not exist.

Servers and threads.

- `stop()` and `start()` with a queued accept make two loops over one socket
  (`OneAcceptLoop` with `restarts`); an `on_accept_` that throws ends the loop. A `start()` that throws
  in `bind` or `listen` leaves an open acceptor that accepts nothing (`http_basic_server.cpp:44-49`, and
  `server.cpp:130-135` of the websockets).
- A handler that throws ends its worker for good (`thread_pooler.cpp:43-57`): after as many of them as
  there are threads nothing runs any more (`NoWorkerLeft` in `PeersAreAccepted`).
- `teardown()` from a handler joins its own thread, a second `teardown()` returns while the
  first still joins (`TornDownIsQuiet`), and the context is not restarted, so threads that
  are set up again run nothing (`PeersAreAccepted` with `setsUpAgain`).

## The proofs

Eight modules hold proofs. Each states an inductive invariant `IInv`, proves it kept action
by action, and takes the properties that the runs check from it. The constants are as general as
their assumptions let them be: any set of connections, threads, peers, requests or workers,
any number of items, bytes, calls, messages and starts. Each `IInv` was checked by
TLC on a small instance before it was proved; no run repeats that, because the
theorem says more. A theorem has the premises that its property has, and no
others, except that `HttpConnectionProofs` assumes `Disciplined` where its table says so.

| Module | Assumption on the constants | Theorems, and what they state |
|---|---|---|
| `HttpConnectionProofs` | `ConstantsAssumption` | `TypeCorrect` for every application; for disciplined ones `Invariance`, `NothingOutlivesItsConnection`, `OneOperation` (`OneOperationAtATime`), `ReadsAreTimed`, `TimeoutsOnce`, the action properties `TimeoutsOnlyWhileReading` and `RemovalByLastHandler`, and the refinement `Implementation` of `RequestLifecycle`; `NoneIsForgotten` for every application |
| `RequestReaderProofs` | `ReaderAssumption`, `ParserAssumption` | `TypeCorrect`, `Invariance`, `HeaderEndsWhereItDoes`, `HeaderIsIndependent` (`HeaderIndependentOfCuts`), `UrlIsMeant` (`UrlMeansWhatItEscapes`), `BodyIsWhole` (`ContinuedWithWholeBody`), `AnsweredAtMostOnce` (`AnsweredOnce`), `NobodyForgotten` |
| `DispatchProofs` | `DispatchAssumption`, `RoutesAssumption`, `ArrivingAssumption` | `TypeCorrect`, `Invariance`, `CallbacksAuthorized` (`CallbackIsAuthorized`), `CountsKept` (`CountsAreKept`), `NoSecondAnswer`, the action property `Terminated` (`TerminatedStaysTerminated`), `TakesBestRoute`, `NoRequestForgotten`, and with `DistinctParameters` `TakesRightRoute` (`RightRoute`) |
| `ChunkedStreamProofs` | `StreamAssumption` | `TypeCorrect`, `Invariance`, `ItemsInOrder` (`WireInOrder`), `OneWrite` (`OneWriteAtATime`), `NothingStalls` (`NoStalledItems`), `ProductionEndsOnce` (`EndsOnce`), `NoFinishForgotten`, `NoCallBlocked` |
| `BrotliStreamProofs` | `BrotliAssumption` | `TypeCorrect`, `Invariance`, `PatientIsWritten` (`PatientWireIsPushed`), `NoFinishForgotten` |
| `WsSessionProofs` | `SessionAssumption` | `TypeCorrect`, `Invariance`, `OneWrite` (`OneWriteAtATime`), `SendsInOrder` (`SentInOrder`), `ThenFollows` (`ThenAfterItsWrite`), `NoMessageForgotten` |
| `WsConnectionProofs` | `WsConnectionAssumption` | `TypeCorrect`, `Invariance`, `AcceptorAccepts` (`OpenAcceptorAccepts`), `OnCloseCounted` (`OnCloseCount`), the action property `NothingReadAfterClose` (`QuietAfterClose`), `NoEndForgotten`; of `WsClient` `ClientInvariance`, `ConnectsAnswered`, `EndsTold`, `DestroyedLeavesNone` |
| `ServerRuntimeProofs` | `ThreadPoolAssumption`, `ServerRuntimeAssumption` | `TypeCorrect`, `Invariance`, `TearsDown` (`TornDownIsQuiet`), `OneAccept` (`OneAcceptLoop`), `AcceptLoopIsKept` |

The premises matter, because the properties are false without them, as `Disagreements`
says. `Disciplined` excludes `answerOnTimeout` and `throwAfterAct` (two removals, and two
answers at once); silent callbacks and the destruction of the server are included.
`WaitsForStart` excludes pushes beside `start_production`, `OnStrand` calls from
other threads, `app = {}` in `AnsweredOnce` a second read and a `then` on another thread, in
`PatientWireIsPushed` a push before the last was consumed, one of more than fits, and a thread beside the
handlers; its first part, that no writes overlap, needs only `Single`, the last two. `CountsAreKept` excludes callbacks of one session that overlap, `TornDownIsQuiet` two
teardowns and a teardown in a handler, `OneAcceptLoop` a restart, `QuietAfterClose` several threads.
Those of the theorems that nobody is forgotten are among these: one read of the body in the callback
in `NobodyForgotten`; the strand, no `on_complete` and no failed write in `NoMessageForgotten`;
`WaitsForStart`, and no thread that finishes early or is joined, for `ChunkedStream`'s two; `Single` and
no `overrun` so far in `BrotliStream`'s; an `on_accept_` that does not throw in `AcceptLoopIsKept`.
`DistinctParameters` excludes a template that has a parameter twice; `TakesBestRoute`, the choice of the
route, holds for these too.

The assumptions give the constants their types and little else. `ReaderAssumption`
also says that a digit is less than `SizeModulus`, as it is in a `size_type` of any width,
`BrotliAssumption` that the bytes pushed can be counted in a `size_t`, and `ArrivingAssumption` that what a request authorizes itself with has an entry in
the table of the authorizer's decisions, and that it asks for a path: two names
have a slash between them, because a name is all that is between two slashes. `RoutesAssumption` says
the same of templates and roots, and that a root is not empty, since `mount` reads its last
character (`router.cpp:207`).

### Why the properties are not inductive, and what makes them so

`HttpConnection`. That the handler which removes a connection is its last one depends on
which operations may be outstanding at each stage of a request, and that a deadline fires
only on a read depends on its being reset by every completed read. `OperationsFitStage` ties
the read, the write, its continuation, `header_sent_` and the handshake to the stage: a read
excludes a write and a sent header, a write of the response includes one.
`DeadlineFitsRead` says that the deadline is in force only while something is read, that a
pending read has a wait that will look at it, and that a timeout closes the socket.
`NothingPending` says what closed, freed and unused connections cannot have. The proof
shows for each operator on a connection that it takes a state of one kind to a state of
another, then for each action that the invariant is kept. The refinement follows from `IInv`,
action by action.

`RequestReader`. `feed` is a loop, written as a recursive function of the number of its
turns. `Loop` shows that this function is defined and that it takes a turn of the loop from each
number to the next: for the least number without such a function there would be one after all (`Least`
is that every set of numbers has a least element; it does the work of an induction, whose theorems in
the library the provers cannot instantiate). In the same way what every turn keeps, the loop keeps. So
`feed` keeps `Stands`: in the request line no `\r` was passed, among the fields the parser
stands behind a line and has not passed the end of the header, and a finished parser stands at that
end. `HeaderEndsWhereItDoes` follows, and from it that the sink's bytes are those after the
header (`Body`). `Fullfilled` says that whoever is about to tell the application that the
first body is there, by any of the steps that `callback_wrapper` takes, finds it complete.
`AnsweredOnce` has an invariant of its own, `Once`: the chain of `then` and
`except` waits for the read, or the read is over and not yet told, or the continuation or
the error callback is to run, or one has run and what is left to do runs neither.

The header has one too, `OnItsWay`: while the application has not got it, the parser of a
well-formed header has reached one of the places where its words and lines begin (`Reached`: it has
method and url as far as they were passed, and of the cookies the map of those in the lines
passed, `Jar(Upto(at))`), and it waits only when the next word or line is not all there
(`Settled`), unless it refused. Two bounds need both: what is in the buffer when it waits is part of
one line, so that where there is room behind lines the next piece fits (`Waiting`), and each field
has a colon, so there are not too many (`ColonsGrow`); so it refuses only for want of room
(`NoRoom`). `feed` keeps it, because each part of `parse_words` does, each turn of the loop
does (`TurnReaches`), and a loop with as many turns as there were line ends leaves none
(`LinesReach`). `LinesAreShaped` says how the lines of the whole input follow each other up to the
empty one, `JarGrows` that what `add_field` inserts for one more line is the map with that line.
`UrlIsMeant` needs of the parser only that its url is a sequence of bytes (`Typed`); the rest is
`UrlParsed`, about one url: `decode_url` goes byte by byte and leaves separators what they are,
so it can be exchanged with the cuts at `?`, at `&` and `;`, and at `=`.

`Dispatch`. `Fits` says for each place of a request what must have been checked to be there,
that a request answered nothing before it is done, and that a session that it uses was made. `Exclusive`
says that no two requests count in one session at a time, which makes a copy equal to what is
stored. For the routes, `Routing` says that a request keeps the route that was found when it
arrived. What that route is takes three lemmas: `TableSorted`, that adding and
mounting keep the table in falling order of priority (`AddRouteSorts`: the place that a
multimap inserts at is behind all routes of the same priority or a higher one); `FindsFirst`, that the
loop of `find_route` stops at the first route that suits; and `FirstIsBest`, that in a sorted table this
is the best. `FillsIn` then gives the parameters, from what paths are made of. The file is `MountsBelow`: `EnteredIs`
and `ResolvedWalk` resolve a path part by part, `ResolvesBelow` shows that behind a root no part leads up
unless it is a `..`, and `MountsInside` that a path which `validate_path` lets pass has one at most as its last. The loops are recursive functions and are treated as in `RequestReader`.

`ChunkedStream`. `Places` and `ProtectFitsPlaces` say where a thread may be with which
lock, `AttachedFitsPlaces` what that means for `on_produce_`, `WireFitsBuffer` that the items
written, those in the write and those in the buffer are all items, in order; `OneCaller` that with
no push beside `start_production` at most one thread is on the way to write, and finds no write under way;
`FinishesLate` that nothing waits once `completed_` is set. `NoStalledItems` is inductive with them: whoever finds `consuming_`
set relies on the handler that will look at the buffer after it has cleared the flag.

`BrotliStream`. Without another thread, `OneAtATime` gives the steps that may be left of
a handler, and that a write is under way only while `consuming_` says so. With an
application that pushes no more than fits, `Planned` gives the steps that may be left of a call and says
that the encoder refuses nothing, `Fits` that it has room for all it is given, and `Counted`
that no size wraps. With one that also waits, `Waits` says what
each step finds in the flags and in `avail_`, and `Numbered` where every byte is: the
bytes written, those available in `output_`, those inside the encoder and those in `input_` are
the bytes pushed, in this order.

`WsSession`. `OneWriter`: on the strand, `write_in_progress_` is set while a write is in flight,
or an operation is about to start one, and then nothing is in flight.
`OncePerMessage` says that a message is in the queue, in the operation that runs, or sent, and
`InOrder` that in this order of places later ones have higher numbers.

`WsConnection`. `Fits` counts: the closes that were called, those under way, the handlers of
them that are queued, and the calls of `on_close` that were made account for each
other, and so do the read loop's read, its queued handler and its end. Handlers run in any
order, so a sequence of queued handlers is taken by the number of its elements of a kind.

`ServerRuntime`. `PoolInv`: threads are joined one after the other by whoever holds
`thread_pool_lock_`, and a thread that runs is still to be joined, or is the one that is
waited for. `OneLoop`: a server that is started once has its one accept pending, queued, in a worker or nowhere.

### That nobody is forgotten

A liveness property has two parts: that no state is reached in which somebody waits and
nothing will happen, and that what can happen does. The second is fairness. The
first is an invariant, and is where a lost wakeup, a dropped handler or a missing answer would
show, so it is proved beside each of these properties. The statements are defined in the proof modules.

| Theorem | The property it belongs to | What it says |
|---|---|---|
| `HttpConnection`: `NoneIsForgotten` | `EventuallyRemoved` | a managed connection has an operation outstanding, or the application has its request or left it, or its handshake failed |
| `RequestReader`: `NobodyForgotten` | `BodyIsAnswered` | with no read pending and nothing left to do, the chain was answered |
| `Dispatch`: `NoRequestForgotten` | `OthersAnswered` | a request that is at rest was answered, or is the HEAD of a mounted file, or was kept silent |
| `ChunkedStream`: `NoFinishForgotten` | `LateFinishGetsRemoved` | a finished production with no write and no call under way was removed |
| `ChunkedStream`: `NoCallBlocked` | `PatientPushReturns` | a caller finds the lock it needs free, or has it |
| `BrotliStream`: `NoFinishForgotten` | `FinishedGetsEnded` | the loop of `finish()` does not go round again, and a complete production with nothing left to do was ended, is written, or has its header still to be sent |
| `WsSession`: `NoMessageForgotten` | `EnqueuedGetsSent` | an idle session with nothing in flight has sent every message that was enqueued |
| `WsConnection`: `NoEndForgotten` | `EndIsTold` | with nothing under way and no handler queued, `on_close` was called, and the connection is destroyed or kept |
| `WsClient`: `ConnectsAnswered` | `ConnectIsAnswered` | no call is answered twice, and one that is not answered has its thread under way |
| `WsClient`: `EndsTold` | `EndIsTold` | the end was told as often as `listen` was called, but for the read that there is |
| `WsClient`: `DestroyedLeavesNone` | `DestroyedHangsUp` | a destroyed client has no open websocket, but for one whose failed read is about to end |
| `ServerRuntime`: `AcceptLoopIsKept` | `PeersAreAccepted` | an acceptor that listens has an accept pending, a handler queued, or one that runs |

`NoneIsForgotten` follows step by step from `Attended`, for disciplined applications or not, and
`NoEndForgotten` from the counting in `Fits` with `OpenIsKept`, that a connection is destroyed
in the step that leaves it to nobody. `NoRequestForgotten` needs only that each step that
puts a request to rest answers it (`Answers`). `NobodyForgotten` adds nothing to `Once`. The others
have invariants of their own. `Kept` finds each enqueued message in the queue, in the operation
that runs, or sent. `Accepted` finds the accept of an acceptor that listens, and `WorkersInv` says that threads are set up only
while none of them runs, so that `setup` takes no handler from a worker. `Unblocked` says that whatever
is complete has its last chunk under way, or a caller that will check, and that `consuming_` will not
stop him. For the encoder, `Planned` gives the steps that may be left of `push`, `flush` and
`finish`, and `Finishes` says that `consuming_` is set only while a write is under way or its handler has
not gone on, and that who finds the production complete starts the last chunk.

The client's proofs are in `WsConnectionProofs`, which has an instance `Client` of `WsClient` with variables
of its own beside those of the server. `ClientPlaces` says that at most one of its two threads is in a
call, that nothing is open while one connects, and that only the caller closes; from this each
call of `connect` has one way to its answer, and a client that is destroyed in the middle of a connect
has no read that could keep what the connect opens.

### What stays model-checked

- Liveness: `EventuallyRemoved`, `BodyIsAnswered`, `OthersAnswered`, `PatientPushReturns`,
  `LateFinishGetsRemoved`, `FinishedGetsEnded`, `EnqueuedGetsSent`, both `EndIsTold`,
  `ConnectIsAnswered`, `DestroyedHangsUp`, `PeersAreAccepted`. They need fairness, and with it
  `ENABLED`, which the prover does not support. Of `OthersAnswered` at most one answer is
  `NoSecondAnswer`; what else of these properties is an invariant is listed above.

## Plan

Every safety property that a run checks is proved, and of the liveness properties
what needs no fairness. What is left is worth a proof in this order.

1. `NoMessageForgotten` without its premise on failures: that after a failed write everything before it
   was sent, and nothing behind it, as `on_write_complete` leaves it.
2. `BrotliStream` with a thread of its own: which bytes are written of a push that is not patient.

## Not modelled

- The other header fields, the formatting of cookies, MIME types, dates, status texts, base64, hashes and encodings of
  names: pure functions and tables (`mime.cpp` alone is 700 lines of them) without
  state, whose correctness a table of examples shows better than a model.
- SSL contexts: configuration of an external library.
- The setters of response fields and the accessors of request data: they change or read one
  value that no other component looks at before it is sent.
- `write` of the websocket client, which does not compile when it is used, and `write_sync`,
  which changes no state of the client.
- What `BrotliStream` does after an overrun of `output_`, and what the encoder does when it is pushed to
  after its end: the application's calls end with `finish()` there.
- Handlers of one HTTP connection that overlap on two threads of the io_context, on plain fields
  and a deadline timer: the outcome is undefined, and a model would only say so.
- The time that the TLS shutdown takes under `connections_lock_`, and writes without a deadline:
  the models assume that both end.
