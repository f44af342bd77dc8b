---------------------------- MODULE HttpConnection ----------------------------
(***************************************************************************)
(* The life of the HTTP connections of one attender server: accept, header *)
(* and body reading, the user's callback, the response writes, the read    *)
(* deadline, and the removal (deletion) of the connection object.          *)
(*                                                                         *)
(* Every connection has at most one asynchronous read, one asynchronous    *)
(* write and any number of timer waits outstanding.  A completed operation *)
(* is a queued handler: any thread that runs the io_context may run it     *)
(* next, so completed operations form a set, not a queue.  One handler,    *)
(* with everything it calls, is one action.  A handler keeps a raw pointer *)
(* to its connection; a handler still queued when the connection has been  *)
(* freed is what NothingOutlives forbids, and no step models its execution.*)
(***************************************************************************)
EXTENDS Naturals

CONSTANTS
    Conns,     \* connection objects, each created at most once
    Secure,    \* TRUE for http_secure_server, FALSE for http_server
    MaxParts,  \* pieces a header, a request body or a streamed response may come in
    Env        \* behaviours of the application that are switched on

\* What an application may do beyond answering each request exactly once:
\* leave a request unanswered, answer from the timeout callback, throw from a
\* callback after it has already started to read or to answer, destroy the
\* server while connections are open.
EnvChoices == {"silentCallback", "answerOnTimeout", "throwAfterAct", "destroyServer"}

ASSUME ConstantsAssumption ==
    /\ Secure \in BOOLEAN
    /\ MaxParts \in Nat
    /\ Env \subseteq EnvChoices

VARIABLES
    server,    \* "stopped", "listening" or "destroyed"
    conn       \* the state of each connection object, see Connection

vars == <<server, conn>>

-----------------------------------------------------------------------------
(* The state of a connection object.                                       *)

Done == {"ok", "eof", "err", "aborted"}   \* outcomes of a completed operation

Parts == 0 .. MaxParts

\* life      "managed": in connections_;  "freed": erased and deleted
\* open      the socket is open; stop() has run iff it is not (closed_)
\* hs        the TLS handshake operation
\* stage     where the request is, as the application sees it
\* cb        which handler read_callback_inst_ calls
\* parts     pieces the current message may still come in
\* rd, wr    the read and the write operation; "clash" is two at once
\* wk        what the completion handler of the write continues with
\* sent      header_sent_
\* waits     timer waits in the timer queue, fired: expired ones whose handler
\*           is queued (an aborted wait's handler returns at once: not kept)
\* deadline  expires_at() of the timer, relative to now
\* timeouts  history: how often on_timeout_ was due
Connection ==
    [life : {"none", "managed", "freed"}, open : BOOLEAN,
     hs : {"none", "pending", "ok", "failed", "done", "refused"},
     stage : {"receiving", "reading", "holding", "answered", "silent", "abandoned"},
     cb : {"none", "header", "body"}, parts : Parts,
     rd : {"idle", "pending", "clash"} \cup Done,
     wr : {"idle", "pending", "clash", "ok", "err"},
     wk : {"none", "continue", "header", "body", "end"}, sent : BOOLEAN,
     waits : Nat, fired : Nat, deadline : {"inf", "armed", "past"},
     timeouts : Nat]

NewConnection ==
    [life |-> "managed", open |-> TRUE, hs |-> "none", stage |-> "receiving",
     cb |-> "none", parts |-> MaxParts, rd |-> "idle", wr |-> "idle", wk |-> "none",
     sent |-> FALSE, waits |-> 0, fired |-> 0, deadline |-> "inf", timeouts |-> 0]

-----------------------------------------------------------------------------
(* http_connection_base: the asynchronous operations.                      *)

\* Fault: the wait is started before the expiry is moved, which cancels it.
ReadWaitsTooEarly(s) ==
    [s EXCEPT !.waits = 0, !.deadline = "armed",
              !.rd = IF s.rd # "idle" THEN "clash" ELSE IF s.open THEN "pending" ELSE "err"]

\* read(): the expiry is moved, which cancels the waits of earlier reads; a
\* read on a closed socket completes with an error.
Read(s) ==
    [s EXCEPT !.waits = 1, !.deadline = "armed",
              !.rd = CASE s.rd # "idle" -> "clash"
                       [] s.rd = "idle" /\ s.open -> "pending"
                       [] OTHER -> "err"]

\* Fault: the deadline of the read that has completed stays in force.
ReadDoneKeepsDeadline(s) == [s EXCEPT !.rd = "idle"]

\* The completion handler of async_read_some, before it calls the read callback.
ReadDone(s) == [s EXCEPT !.rd = "idle", !.waits = 0, !.deadline = "inf"]

Write(s, k) ==
    [s EXCEPT !.wk = k,
              !.wr = CASE s.wr # "idle" -> "clash"
                       [] s.wr = "idle" /\ s.open -> "pending"
                       [] OTHER -> "err"]

\* Closing the socket aborts the operations that have not completed.
Stop(s) ==
    IF ~s.open THEN s
    ELSE [s EXCEPT !.open = FALSE, !.waits = 0,
                   !.rd = IF s.rd = "pending" THEN "aborted" ELSE s.rd,
                   !.wr = IF s.wr = "pending" THEN "err" ELSE s.wr,
                   !.hs = IF s.hs = "pending" THEN "failed" ELSE s.hs]

\* connection_manager::remove: erase and free_connection.
Free(s) == [Stop(s) EXCEPT !.life = "freed", !.waits = 0]

-----------------------------------------------------------------------------
(* response_handler.                                                       *)

\* Fault: the connection is removed after starting the header's write, not by
\* the continuation of the write.
EndDoesNotWait(s) ==
    IF s.sent THEN Free(s) ELSE Free(Write([s EXCEPT !.sent = TRUE], "end"))

\* end(): the header goes out first, unless it already has.
End(s) ==
    IF s.sent THEN Free(s) ELSE Write([s EXCEPT !.sent = TRUE], "end")

\* Fault: the body is written without waiting for the header.
SendDoesNotWait(s) ==
    IF s.sent THEN Write(s, "body") ELSE Write(Write([s EXCEPT !.sent = TRUE], "header"), "body")

\* send(), send_file(), send_status(): header, then body, then end().
Send(s) ==
    IF s.sent THEN Write(s, "body") ELSE Write([s EXCEPT !.sent = TRUE], "header")

\* The application, or the library on its behalf, completes the response now
\* or keeps the handlers to complete it later.
Replies == {"send", "end", "defer"}

Respond(s, reply) ==
    CASE reply = "send"  -> Send([s EXCEPT !.stage = "answered"])
      [] reply = "end"   -> End([s EXCEPT !.stage = "answered"])
      [] reply = "defer" -> [s EXCEPT !.stage = "holding"]

-----------------------------------------------------------------------------
(* request_handler: reading the body.                                      *)

\* Either 411 for want of a Content-Length, or the body was received with the
\* header and the continuation answers, or more has to be read.
ReadBody(s) ==
    LET b == [s EXCEPT !.cb = "body"]
    IN  {Respond(b, reply) : reply \in Replies}
        \cup {Read([b EXCEPT !.stage = "reading", !.parts = MaxParts])}

BodyChunkRead(s) ==
    {Respond(s, reply) : reply \in Replies}
    \cup (IF s.parts > 0 THEN {Read([s EXCEPT !.parts = s.parts - 1])} ELSE {})

\* Fault: the connection is removed at once when reading the body failed.
BodyReadFailedRemoves(s, ec) ==
    IF ec = "aborted" THEN [s EXCEPT !.stage = "abandoned"] ELSE Free(s)

\* After an aborted read the application gets the error and end() is not called.
BodyReadFailed(s, ec) ==
    IF ec = "aborted" THEN [s EXCEPT !.stage = "abandoned"]
    ELSE End([s EXCEPT !.stage = "answered"])

BodyReadHandler(s, ec) ==
    IF ec = "ok" THEN BodyChunkRead(s) ELSE {BodyReadFailed(s, ec)}

-----------------------------------------------------------------------------
(* http_basic_server: from the parsed header to the callback.              *)

\* accept_and_continue(): "100 Continue" is written before the body is read.
AcceptAndContinue(s) == Write([s EXCEPT !.stage = "reading"], "continue")

\* What a route's callback does; the responses the library gives when the
\* callback throws before it acted, when the session is refused or when there
\* is no route are among the replies.
Acts(s) ==
    {Respond(s, reply) : reply \in Replies} \cup ReadBody(s) \cup {AcceptAndContinue(s)}

Callback(s) ==
    Acts(s)
    \cup (IF "silentCallback" \in Env THEN {[s EXCEPT !.stage = "silent"]} ELSE {})
    \cup (IF "throwAfterAct" \in Env
          THEN {Respond(t, reply) : t \in Acts(s), reply \in {"send", "end"}} ELSE {})

\* The parser wants more, or rejects the header (400), or runs out of memory
\* (the connection is removed), or has it all.
HeaderChunkRead(s) ==
    (IF s.parts > 0 THEN {Read([s EXCEPT !.parts = s.parts - 1])} ELSE {})
    \cup {Respond(s, "send"), Free(s)} \cup Callback(s)

\* Fault: an aborted header read is ignored, as an aborted body read is.
HeaderReadIgnoresAbort(s, ec) ==
    IF ec = "ok" THEN HeaderChunkRead(s) ELSE IF ec = "aborted" THEN {s} ELSE {Free(s)}

HeaderReadHandler(s, ec) ==
    IF ec = "ok" THEN HeaderChunkRead(s) ELSE {Free(s)}

-----------------------------------------------------------------------------
(* The handlers the io_context runs.                                       *)

ReadHandler(s) ==
    IF s.cb = "header" THEN HeaderReadHandler(ReadDone(s), s.rd)
    ELSE BodyReadHandler(ReadDone(s), s.rd)

\* A streamed body is written in pieces, a body that is empty not at all.
WriteHandler(s) ==
    LET w == [s EXCEPT !.wr = "idle", !.wk = "none"]
    IN  CASE s.wk = "continue" ->
                 IF s.wr = "ok" THEN ReadBody(w) ELSE {Respond(w, "end")}
          [] s.wk = "header" ->
                 {End(w)} \cup (IF s.wr = "ok" THEN {Write([w EXCEPT !.parts = MaxParts], "body")} ELSE {})
          [] s.wk = "body" ->
                 {End(w)} \cup (IF s.wr = "ok" /\ s.parts > 0
                                THEN {Write([w EXCEPT !.parts = s.parts - 1], "body")} ELSE {})
          [] OTHER -> {Free(w)}

\* Fault: the connection is removed when the deadline has passed.
TimedOutRemoves(s) == {Free([s EXCEPT !.timeouts = s.timeouts + 1])}

\* on_timeout_, then stop(): the response a timeout callback starts is cut off.
TimedOut(s) ==
    LET t == [s EXCEPT !.timeouts = s.timeouts + 1]
    IN  {Stop(t)}
        \cup (IF "answerOnTimeout" \in Env
              THEN {Stop(Respond(t, reply)) : reply \in {"send", "end"}} ELSE {})

\* check_deadline() for a wait that expired.
CheckDeadline(s) ==
    LET w == [s EXCEPT !.fired = s.fired - 1]
    IN  IF ~s.open THEN {w}
        ELSE IF s.deadline = "past" THEN TimedOut(w)
        ELSE {[w EXCEPT !.waits = s.waits + 1]}

-----------------------------------------------------------------------------
(* The actions.                                                            *)

Update(c, s) == conn' = [conn EXCEPT ![c] = s]

HandleRead(c) ==
    /\ conn[c].life = "managed" /\ conn[c].rd \in Done
    /\ \E s \in ReadHandler(conn[c]) : Update(c, s)
    /\ UNCHANGED server

HandleWrite(c) ==
    /\ conn[c].life = "managed" /\ conn[c].wr \in {"ok", "err"}
    /\ \E s \in WriteHandler(conn[c]) : Update(c, s)
    /\ UNCHANGED server

\* Fault: check_deadline() is run for an aborted wait as if it had expired.
HandleAnyWait(c) ==
    /\ conn[c].life = "managed"
    /\ \E s \in CheckDeadline(conn[c]) : Update(c, s)
    /\ UNCHANGED server

HandleTimer(c) ==
    /\ conn[c].life = "managed" /\ conn[c].fired > 0
    /\ \E s \in CheckDeadline(conn[c]) : Update(c, s)
    /\ UNCHANGED server

\* The application completes a response it kept back, from any thread.
Reply(c) ==
    /\ conn[c].life = "managed" /\ conn[c].stage = "holding"
    /\ \E reply \in {"send", "end"} : Update(c, Respond(conn[c], reply))
    /\ UNCHANGED server

BeginHeader(s) == Read([s EXCEPT !.cb = "header"])

\* do_accept(): a plain connection starts to read, a secure one to shake hands.
Accept(c) ==
    /\ server = "listening" /\ conn[c].life = "none"
    /\ Update(c, IF Secure THEN [NewConnection EXCEPT !.hs = "pending"]
                 ELSE BeginHeader(NewConnection))
    /\ UNCHANGED server

\* A failed handshake is reported to on_error_ and nothing else happens.
HandleHandshake(c) ==
    /\ conn[c].life = "managed"
    /\ \/ conn[c].hs = "ok" /\ Update(c, BeginHeader([conn[c] EXCEPT !.hs = "done"]))
       \/ conn[c].hs = "failed" /\ Update(c, [conn[c] EXCEPT !.hs = "refused"])
    /\ UNCHANGED server

StartServer ==
    /\ server \in {"stopped", "listening"} /\ server' = "listening"
    /\ UNCHANGED conn

\* stop() closes the acceptor.
StopServer ==
    /\ server = "listening" /\ server' = "stopped"
    /\ UNCHANGED conn

\* ~http_basic_server: the connection manager is cleared.
DestroyServer ==
    /\ "destroyServer" \in Env /\ server # "destroyed"
    /\ server' = "destroyed"
    /\ conn' = [c \in Conns |-> IF conn[c].life = "managed" THEN Free(conn[c]) ELSE conn[c]]

-----------------------------------------------------------------------------
(* The network and the clock: an operation completes, a deadline passes.   *)

ReadCompletes(c) ==
    /\ conn[c].rd = "pending"
    /\ \E r \in {"ok", "eof", "err"} : Update(c, [conn[c] EXCEPT !.rd = r])
    /\ UNCHANGED server

WriteCompletes(c) ==
    /\ conn[c].wr = "pending"
    /\ \E r \in {"ok", "err"} : Update(c, [conn[c] EXCEPT !.wr = r])
    /\ UNCHANGED server

HandshakeCompletes(c) ==
    /\ conn[c].hs = "pending"
    /\ \E r \in {"ok", "failed"} : Update(c, [conn[c] EXCEPT !.hs = r])
    /\ UNCHANGED server

\* The deadline passes: every wait on it expires.
Elapse(c) ==
    /\ conn[c].deadline = "armed" /\ conn[c].waits > 0
    /\ Update(c, [conn[c] EXCEPT !.deadline = "past", !.waits = 0,
                                 !.fired = conn[c].fired + conn[c].waits])
    /\ UNCHANGED server

-----------------------------------------------------------------------------
Init ==
    /\ server = "stopped"
    /\ conn = [c \in Conns |-> [NewConnection EXCEPT !.life = "none"]]

Handlers(c) ==
    HandleRead(c) \/ HandleWrite(c) \/ HandleTimer(c) \/ HandleHandshake(c) \/ Reply(c)

Environment(c) ==
    ReadCompletes(c) \/ WriteCompletes(c) \/ HandshakeCompletes(c) \/ Elapse(c)

Next ==
    \/ StartServer \/ StopServer \/ DestroyServer
    \/ \E c \in Conns : Accept(c) \/ Handlers(c) \/ Environment(c)

Spec == Init /\ [][Next]_vars

\* The threads of the io_context run what is queued, the application answers
\* what it keeps, time passes, and a write succeeds or fails in the end (the
\* transport gives up on a peer that is gone).  Nothing is assumed of what the
\* peer sends.
Fairness ==
    \A c \in Conns :
        /\ WF_vars(HandleRead(c)) /\ WF_vars(HandleWrite(c))
        /\ WF_vars(HandleTimer(c)) /\ WF_vars(HandleHandshake(c))
        /\ WF_vars(Reply(c)) /\ WF_vars(WriteCompletes(c)) /\ WF_vars(Elapse(c))

FairSpec == Spec /\ Fairness

-----------------------------------------------------------------------------
(* Properties.                                                             *)

\* The type invariant.
TypeOK ==
    /\ server \in {"stopped", "listening", "destroyed"}
    /\ conn \in [Conns -> Connection]

Queued(s) == s.rd # "idle" \/ s.wr # "idle" \/ s.hs \in {"pending", "ok", "failed"}

\* While the server exists no connection is deleted with a read, a write or a
\* handshake outstanding: their handlers dereference the connection
\* (http_connection_base::do_read, the continuations of response_handler).
NothingOutlives ==
    server # "destroyed" => \A c \in Conns : conn[c].life = "freed" => ~Queued(conn[c])

\* A connection never has two reads, two writes, or a read and a write under
\* way: buffer_ and write_buffer_ belong to one operation each, and only the
\* handler of the last operation may remove the connection.
OneOperationAtATime ==
    \A c \in Conns :
        /\ conn[c].rd # "clash" /\ conn[c].wr # "clash"
        /\ conn[c].rd = "idle" \/ conn[c].wr = "idle"

\* However reads, cancelled waits, late expiries and re-armed waits follow one
\* another, a read that is waiting for the peer has a deadline and a wait that
\* will look at it.
ReadIsTimed ==
    \A c \in Conns :
        conn[c].life = "managed" /\ conn[c].rd = "pending" =>
            \/ conn[c].deadline = "armed" /\ conn[c].waits > 0
            \/ conn[c].deadline = "past" /\ conn[c].fired > 0

\* The application is told of a timeout at most once for each connection,
\* although several expired waits may be queued.
TimeoutOnce == \A c \in Conns : conn[c].timeouts <= 1

\* A deadline closes the socket only while something is being read, never
\* under the application or a response: a wait that expired for an earlier
\* read does no harm.
TimeoutOnlyWhileReading ==
    [][\A c \in Conns :
          conn[c].open /\ ~conn'[c].open /\ conn'[c].life = "managed"
              => conn[c].rd # "idle"]_vars

\* A connection is removed either by the handler of a header read or, once the
\* application has the request, by the handler of the last write of its
\* response: an accepted request is never dropped without an attempt at an
\* answer, and an answer is not cut off by another handler.
RemovedByItsLastHandler ==
    [][server' # "destroyed" =>
         \A c \in Conns :
            conn[c].life = "managed" /\ conn'[c].life = "freed" =>
                IF conn[c].stage = "receiving" THEN conn[c].rd \in Done
                ELSE conn[c].sent /\ conn[c].wr \in {"ok", "err"}]_vars

\* Every connection is removed in the end, whatever the peer does or does not
\* do, with four exceptions: the application left the request unanswered, the
\* read of its body timed out, its handshake does not end (it has no deadline) or
\* failed (http_secure_server::do_accept then only reports it).
EventuallyRemoved ==
    \A c \in Conns :
        conn[c].life = "managed" ~>
            \/ conn[c].life = "freed"
            \/ conn[c].stage \in {"silent", "abandoned"} \/ conn[c].hs \in {"pending", "refused"}

\* The phase of a connection in RequestLifecycle.
Phase(s) ==
    CASE s.life = "none"  -> "absent"
      [] s.life = "freed" -> "removed"
      [] s.life = "managed" /\ s.sent -> "answering"
      [] s.life = "managed" /\ ~s.sent /\ s.stage = "receiving" -> "receiving"
      [] OTHER -> "handling"

Lifecycle == INSTANCE RequestLifecycle WITH phase <- [c \in Conns |-> Phase(conn[c])]

\* The connections keep what RequestLifecycle promises.
ImplementsLifecycle == Lifecycle!Spec

-----------------------------------------------------------------------------
(* The inductive invariant behind the safety properties, for applications  *)
(* that neither act after they answered nor answer from a timeout.         *)

Disciplined == Env \cap {"answerOnTimeout", "throwAfterAct"} = {}

\* One kind of operation at a time, and which goes with which stage.
OperationsFitStage(s) ==
    /\ s.rd # "clash" /\ s.wr # "clash"
    /\ s.rd # "idle" => /\ s.wr = "idle" /\ ~s.sent
                        /\ s.stage = IF s.cb = "header" THEN "receiving" ELSE "reading"
    /\ s.wr # "idle" => IF s.wk = "continue" THEN s.stage = "reading" /\ ~s.sent
                        ELSE s.wk # "none" /\ s.sent
    /\ s.sent <=> s.stage = "answered"
    /\ s.stage \in {"receiving", "holding", "silent", "abandoned"} => s.wr = "idle"
    /\ s.hs \in {"pending", "ok", "failed"} => s.stage = "receiving" /\ s.rd = "idle"

\* The deadline is in force exactly while something is read.
DeadlineFitsRead(s) ==
    /\ s.rd = "idle" => s.deadline = "inf"
    /\ s.life = "managed" /\ s.rd = "pending" =>
          \/ s.deadline = "armed" /\ s.waits > 0
          \/ s.deadline = "past" /\ s.fired > 0
    /\ s.timeouts <= 1 /\ (s.open => s.timeouts = 0)

\* What a closed, a freed and an unused connection have in common.
NothingPending(s) ==
    /\ s.life = "freed" => ~s.open
    /\ ~s.open => s.rd # "pending" /\ s.wr # "pending" /\ s.hs # "pending"
    /\ s.life = "none" => ~Queued(s) /\ s.waits = 0 /\ s.open
                          /\ s.stage = "receiving" /\ s.deadline = "inf"
    /\ s.life = "freed" => s.waits = 0

ConnInv(s) == OperationsFitStage(s) /\ DeadlineFitsRead(s) /\ NothingPending(s)

\* The inductive invariant: http_connection_base, request_handler and
\* response_handler keep the operations, the deadline and the header_sent_ flag
\* of every connection in step.
IInv == TypeOK /\ NothingOutlives /\ \A c \in Conns : ConnInv(conn[c])

-----------------------------------------------------------------------------
(* What the documentation and the comments say and the code does not do.   *)

\* http_connection_base.hpp:370: a wait that ends after its connection was
\* terminated ends as aborted, so the handler does not access the connection.
NoExpiredWaitOutlives ==
    \A c \in Conns : conn[c].life = "freed" => conn[c].fired = 0

=============================================================================
