---------------------------- MODULE WsConnection ----------------------------
(***************************************************************************)
(* The websocket server and the life of its connections: the accept loop,  *)
(* proto_connection (TLS handshake and upgrade request) and connection     *)
(* (accept, read loop, writes, close and destruction).  Handlers keep the  *)
(* connection alive, and so may the application; when the last of them is  *)
(* gone the connection is destroyed within the same step.                  *)
(*                                                                         *)
(* Messages are not told apart, and the queue of writes is WsSession's.    *)
(***************************************************************************)
EXTENDS Integers, Sequences, FiniteSetsExt

CONSTANTS
    Conns,        \* connections that peers make
    Secure,       \* the server has security_parameters
    MaxStarts,    \* calls of start()
    MaxMessages,  \* messages of one peer
    MaxCloses,    \* calls of close() for one connection
    Env           \* what applications may do, of EnvChoices

\* The io_context is run by several threads; on_close calls close_connection().
EnvChoices == {"threads", "closesOnClose"}

ASSUME WsConnectionAssumption ==
    /\ Secure \in BOOLEAN /\ MaxStarts \in Nat /\ MaxMessages \in Nat /\ MaxCloses \in Nat
    /\ Env \subseteq EnvChoices

VARIABLES
    app,     \* what this application does, some of Env; never changes
    server,  \* the server and its acceptor
    accepts, \* accepts under way, and completed ones whose handler has not run
    conn     \* each connection

state == <<server, accepts, conn>>
vars == <<app, state>>

NewServer ==
    [alive |-> TRUE,
     acceptor |-> "closed",  \* or "open", or "listening"
     starts |-> 0,           \* history: calls of start() that have returned
     failed |-> FALSE]       \* history: since then, the loop has ended by an error

NewConnection ==
    [stage |-> "none",   \* then "tls", "upgrade", "accepting", "open", "gone"
     told |-> FALSE,     \* on_accept_ has run
     held |-> FALSE,     \* the application keeps the connection
     stream |-> "open",  \* or "closed"
     reading |-> FALSE, writing |-> FALSE, closing |-> 0,  \* operations under way
     done |-> <<>>,      \* those completed, in that order, whose handlers have not run
     was_closed |-> FALSE,
     messages |-> 0,     \* history: messages of the peer
     closes |-> 0,       \* history: calls of on_close
     asyncCloses |-> 0]  \* history: calls of async_close

-----------------------------------------------------------------------------
(* The accept loop.                                                        *)

\* acceptor.close(): accepts under way are aborted.
Aborted == [accepts EXCEPT !.pending = 0, !.aborted = @ + accepts.pending]

Start ==
    /\ server.alive /\ server.starts < MaxStarts
    /\ server' = [server EXCEPT !.acceptor = "listening", !.starts = @ + 1, !.failed = FALSE]
    /\ accepts' = [Aborted EXCEPT !.pending = 1]
    /\ UNCHANGED conn

\* resolve, bind or listen throws; stop() comes before them.
StartThrows ==
    /\ server.alive
    /\ \E how \in {"closed", "open"} : server' = [server EXCEPT !.acceptor = how]
    /\ accepts' = Aborted
    /\ UNCHANGED conn

Stop ==
    /\ server.alive /\ server.acceptor # "closed"
    /\ server' = [server EXCEPT !.acceptor = "closed"]
    /\ accepts' = Aborted
    /\ UNCHANGED conn

DestroyServer ==
    /\ server.alive
    /\ server' = [server EXCEPT !.alive = FALSE, !.acceptor = "closed"]
    /\ accepts' = Aborted
    /\ UNCHANGED conn

\* A peer connects, or the accept fails, for want of descriptors, say.
AcceptCompletes ==
    /\ accepts.pending > 0
    /\ \E how \in {"ready", "failed"} :
           /\ how = "ready" => server.acceptor = "listening"
           /\ accepts' = [accepts EXCEPT !.pending = @ - 1, ![how] = @ + 1]
    /\ UNCHANGED <<server, conn>>

Accepted == [NewConnection EXCEPT !.stage = IF Secure THEN "tls" ELSE "upgrade"]

\* Fault: the next accept is left out.
HandleAcceptOnce(c) ==
    /\ accepts.ready > 0 /\ conn[c].stage \in {"none", "gone"}
    /\ conn' = IF server.alive
               THEN [conn EXCEPT ![c] = Accepted] ELSE conn
    /\ accepts' = [accepts EXCEPT !.ready = @ - 1]
    /\ UNCHANGED server

\* do_accept's handler: proto_connection::start, and the next accept, which
\* fails if the acceptor was closed meanwhile.  Connections that are gone make
\* room for new ones.
HandleAccept(c) ==
    /\ accepts.ready > 0 /\ conn[c].stage \in {"none", "gone"}
    /\ IF server.alive
       THEN /\ conn' = [conn EXCEPT ![c] = Accepted]
            /\ accepts' = IF server.acceptor # "closed"
                          THEN [accepts EXCEPT !.ready = @ - 1, !.pending = @ + 1]
                          ELSE [accepts EXCEPT !.ready = @ - 1, !.aborted = @ + 1]
       ELSE /\ accepts' = [accepts EXCEPT !.ready = @ - 1]
            /\ UNCHANGED conn
    /\ UNCHANGED server

\* Making the security context throws, out of the handler: the socket is destroyed
\* and the loop ends.
HandleAcceptThrows ==
    /\ accepts.ready > 0 /\ server.alive /\ Secure
    /\ accepts' = [accepts EXCEPT !.ready = @ - 1]
    /\ server' = [server EXCEPT !.failed = TRUE]
    /\ UNCHANGED conn

\* Any error is reported, and ends the loop.
HandleAcceptError ==
    /\ \/ /\ accepts.aborted > 0
          /\ accepts' = [accepts EXCEPT !.aborted = @ - 1] /\ UNCHANGED server
       \/ /\ accepts.failed > 0
          /\ accepts' = [accepts EXCEPT !.failed = @ - 1]
          /\ server' = [server EXCEPT !.failed = TRUE]
    /\ UNCHANGED conn

-----------------------------------------------------------------------------
(* proto_connection.                                                       *)

\* The handshake has a deadline, the reading of the upgrade request has none.
HandleHandshake(c) ==
    /\ conn[c].stage = "tls"
    /\ \E next \in {"upgrade", "gone"} : conn' = [conn EXCEPT ![c].stage = next]
    /\ UNCHANGED <<server, accepts>>

\* on_upgrade; a request that is none is answered by close().
HandleUpgrade(c) ==
    /\ conn[c].stage = "upgrade"
    /\ \E next \in {"accepting", "gone"} : conn' = [conn EXCEPT ![c].stage = next]
    /\ UNCHANGED <<server, accepts>>

-----------------------------------------------------------------------------
(* connection.                                                             *)

Kept(q) == q.held \/ q.reading \/ q.writing \/ q.closing > 0 \/ q.done # <<>>

\* Fault: the destructor does not look at was_closed_.
DestroyedAnyhow(q) == [q EXCEPT !.stage = "gone", !.was_closed = TRUE, !.closes = @ + 1]

\* ~connection and close_sync.
Destroyed(q) ==
    [q EXCEPT !.stage = "gone", !.was_closed = TRUE,
              !.closes = IF q.was_closed THEN @ ELSE @ + 1]

\* q is what the step made of c.
Change(c, q) ==
    /\ conn' = [conn EXCEPT ![c] = IF Kept(q) THEN q ELSE Destroyed(q)]
    /\ UNCHANGED <<server, accepts>>

\* close(); was_closed_ is set when it has completed.
Closing(q) ==
    IF q.was_closed THEN q
    ELSE [q EXCEPT !.closing = @ + 1, !.asyncCloses = @ + 1]

\* on_close, in which the application may close and let the connection go.
OnClose(q, keeps) ==
    LET told == [q EXCEPT !.closes = @ + 1, !.held = @ /\ keeps]
    IN IF "closesOnClose" \in app THEN Closing(told) ELSE told

\* on_accept: the application is told, then the read loop starts.
HandleAccepted(c) ==
    /\ conn[c].stage = "accepting"
    /\ \/ Change(c, Destroyed([conn[c] EXCEPT !.stream = "closed"]))
       \/ \E keeps \in BOOLEAN :
              Change(c, [conn[c] EXCEPT !.stage = "open", !.told = TRUE, !.held = keeps,
                                        !.reading = TRUE])

Open(c) == conn[c].stage = "open"

\* The application calls close().
Close(c) ==
    /\ Open(c) /\ conn[c].held /\ conn[c].asyncCloses < MaxCloses
    /\ Change(c, Closing(conn[c]))

\* It writes; what it may write meanwhile is queued.
Write(c) ==
    /\ Open(c) /\ conn[c].held /\ ~conn[c].writing /\ conn[c].stream = "open"
    /\ \A i \in DOMAIN conn[c].done : conn[c].done[i] \notin {"written", "writeFailed"}
    /\ Change(c, [conn[c] EXCEPT !.writing = TRUE])

\* It lets the connection go.
Drop(c) == Open(c) /\ conn[c].held /\ Change(c, [conn[c] EXCEPT !.held = FALSE])

\* A message arrives, or a write is done.
Receives(c) ==
    /\ Open(c) /\ conn[c].stream = "open" /\ conn[c].reading
    /\ conn[c].messages < MaxMessages
    /\ Change(c, [conn[c] EXCEPT !.reading = FALSE, !.messages = @ + 1,
                                 !.done = Append(@, "message")])

WriteCompletes(c) ==
    /\ Open(c) /\ conn[c].stream = "open" /\ conn[c].writing
    /\ Change(c, [conn[c] EXCEPT !.writing = FALSE, !.done = Append(@, "written")])

\* The peer closes, answers a close, or is gone; or a timeout of the stream ends it.
StreamEnds(c) ==
    /\ Open(c) /\ conn[c].stream = "open"
    /\ Change(c, [conn[c] EXCEPT !.stream = "closed"])

\* Then every operation completes with an error, in any order.
OperationFails(c) ==
    /\ Open(c) /\ conn[c].stream = "closed"
    /\ LET q == conn[c]
       IN \/ q.reading /\ Change(c, [q EXCEPT !.reading = FALSE, !.done = Append(@, "readFailed")])
          \/ q.writing /\ Change(c, [q EXCEPT !.writing = FALSE, !.done = Append(@, "writeFailed")])
          \/ q.closing > 0 /\ Change(c, [q EXCEPT !.closing = @ - 1, !.done = Append(@, "closed")])

\* Fault: the read loop goes on after an error.
HandledReadsOn(q, what, keeps) ==
    CASE what \in {"message", "readFailed"} ->
           [(IF what = "message" THEN q ELSE OnClose(q, keeps)) EXCEPT !.reading = TRUE]
      [] what = "closed"     -> OnClose([q EXCEPT !.was_closed = TRUE], keeps)
      [] OTHER               -> q

\* Fault: an error ends the read loop without a word.
HandledSilent(q, what, keeps) ==
    CASE what = "message"    -> [q EXCEPT !.reading = TRUE]
      [] what = "closed"     -> OnClose([q EXCEPT !.was_closed = TRUE], keeps)
      [] OTHER               -> q

\* on_read, on_write and the handler of async_close.
Handled(q, what, keeps) ==
    CASE what = "message"    -> [q EXCEPT !.reading = TRUE]
      [] what = "readFailed" -> OnClose(q, keeps)
      [] what = "closed"     -> OnClose([q EXCEPT !.was_closed = TRUE], keeps)
      [] OTHER               -> q

\* A thread of the io_context runs handlers in the order in which they came;
\* several threads may pass one another.
Runs(c, i) == i = 1 \/ "threads" \in app

Handle(c) ==
    /\ Open(c)
    /\ \E i \in DOMAIN conn[c].done, keeps \in BOOLEAN :
           LET q == [conn[c] EXCEPT !.done = SubSeq(@, 1, i - 1) \o SubSeq(@, i + 1, Len(@))]
           IN Runs(c, i) /\ Change(c, Handled(q, conn[c].done[i], keeps))

-----------------------------------------------------------------------------
Init ==
    /\ app \in SUBSET Env
    /\ server = NewServer
    /\ accepts = [pending |-> 0, ready |-> 0, aborted |-> 0, failed |-> 0]
    /\ conn = [c \in Conns |-> NewConnection]

Server ==
    Start \/ StartThrows \/ Stop \/ DestroyServer \/ AcceptCompletes
        \/ HandleAcceptThrows \/ HandleAcceptError \/ \E c \in Conns : HandleAccept(c)

Handlers(c) == HandleHandshake(c) \/ HandleUpgrade(c) \/ HandleAccepted(c) \/ Handle(c)

Next ==
    /\ \/ Server
       \/ \E c \in Conns :
              \/ Handlers(c) \/ Close(c) \/ Write(c) \/ Drop(c)
              \/ Receives(c) \/ WriteCompletes(c) \/ StreamEnds(c) \/ OperationFails(c)
    /\ UNCHANGED app

Spec == Init /\ [][Next]_vars

\* Handlers run and failed operations complete.  A close has a timeout; nothing
\* else is asked of the peer.
Fairness ==
    \A c \in Conns :
        /\ WF_state(Handle(c)) /\ WF_state(OperationFails(c))
        /\ WF_state(conn[c].closing > 0 /\ StreamEnds(c))

FairSpec == Spec /\ Fairness

-----------------------------------------------------------------------------
(* Properties.                                                             *)

\* An acceptor that listens is accepting, or a peer was accepted and the handler
\* will go on: through stop(), start() and handlers that were queued across them,
\* until an accept fails after the last start() (server.cpp:70 ends the loop at its
\* first error) or its security context cannot be made (server.cpp:73).
OpenAcceptorAccepts ==
    server.acceptor = "listening" /\ ~server.failed => accepts.pending + accepts.ready + accepts.failed > 0

\* on_close(): of each connection that was told of, it is called once by the read
\* loop and once by whatever closes: each close(), or else the destructor.
OnCloseCount ==
    \A c \in Conns :
        LET q == conn[c]
        IN q.told =>
               /\ q.closes <= 1 + Max({1, q.asyncCloses})
               /\ q.stage = "gone" => q.closes = 1 + Max({1, q.asyncCloses})

\* on_text and on_binary are not called after on_close, with one thread.
QuietAfterClose ==
    [][\A c \in Conns :
           "threads" \notin app /\ conn'[c].reading /\ ~conn[c].reading => conn[c].closes = 0]_vars

\* The end of a connection is told, and one that the application does not keep is
\* destroyed.
EndIsTold ==
    \A c \in Conns :
        conn[c].told /\ (conn[c].stream = "closed" \/ conn[c].closing > 0) ~>
            conn[c].closes > 0 /\ (conn[c].held \/ conn[c].stage = "gone")

=============================================================================
