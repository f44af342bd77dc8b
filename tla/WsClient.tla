------------------------------ MODULE WsClient ------------------------------
(***************************************************************************)
(* The websocket client: client (plain) and secure_client over client_base.*)
(* One thread of the application makes the calls, one thread of the        *)
(* io_context runs the handlers.  Handlers share the implementation, so    *)
(* the connection may outlive the client object.                           *)
(*                                                                         *)
(* A second read beside a pending one, and connecting anew a client whose  *)
(* connection is up, are beyond what the websocket stream allows.          *)
(***************************************************************************)
EXTENDS Integers, Sequences

CONSTANTS
    MaxConnects,  \* calls of connect() and connect_sync()
    MaxListens,   \* calls of listen()
    MaxMessages,  \* messages of the peer, in each connection
    Env           \* what application and peer may do, of EnvChoices

\* The peer answers no handshake and no close; set_timeout is called with a
\* timeout that is not set; a client is connected anew before the end of its
\* reading was told.
EnvChoices == {"mute", "unsetTimeouts", "reconnectsReading"}

ASSUME WsClientAssumption ==
    /\ MaxConnects \in Nat /\ MaxListens \in Nat /\ MaxMessages \in Nat
    /\ Env \subseteq EnvChoices

VARIABLES
    app,       \* what this application and its peer do, some of Env; never changes
    secure,    \* it is a secure_client; never changes
    alive,     \* the client object exists
    stage,     \* what the caller's thread and the handler of connect are at
    link,      \* the TCP connection and the websocket stream over it
    deadline,  \* expires_after: "off", "running" or "past"
    timeouts,  \* of the stream: "none", or "any" where an unset one was read
    read,      \* the async_read: "none", "pending", "message" or "failed"
    calls      \* history: calls made, and answers and ends told

state == <<alive, stage, link, deadline, timeouts, read, calls>>
vars == <<app, secure, state>>

Threads == {"caller", "handler"}

NewLink == [tcp |-> "none",   \* then "connecting", "up", "down"
            ws |-> "closed",  \* or "open", "closing"
            wire |-> <<>>,    \* sent by the peer and not read
            hung |-> FALSE]   \* the peer has closed its end

Down(l) == [l EXCEPT !.tcp = "down", !.ws = "closed"]

Mute == "mute" \in app

\* Somebody still holds impl_.
Held == alive \/ stage["caller"] # "idle" \/ stage["handler"] # "idle" \/ read # "none"

\* The connection is there; the last owner of impl_ destroys it.
Connected == Held /\ link.tcp = "up"

-----------------------------------------------------------------------------
(* Connecting.                                                             *)

At(who, where) == stage' = [stage EXCEPT ![who] = where]

\* on_completion, or the return of connect_sync.
Answer(who) ==
    /\ At(who, "idle")
    /\ calls' = [calls EXCEPT !.answered = @ + 1]

\* connect_sync by the caller, connect by a handler.  Resolving may fail; only
\* the secure connect has a deadline.
Connect(who) ==
    /\ alive /\ stage = [t \in Threads |-> "idle"] /\ link.ws = "closed"
    /\ calls.asked < MaxConnects
    /\ read # "none" => "reconnectsReading" \in app
    /\ \/ /\ calls' = [calls EXCEPT !.asked = @ + 1, !.answered = @ + 1]
          /\ UNCHANGED <<stage, link, deadline, read>>
       \/ /\ At(who, "connecting")
          /\ calls' = [calls EXCEPT !.asked = @ + 1]
          /\ link' = [NewLink EXCEPT !.tcp = "connecting"]
          /\ read' = IF read = "pending" THEN "failed" ELSE read
          /\ deadline' = IF secure /\ who = "handler" THEN "running" ELSE deadline
    /\ UNCHANGED <<alive, timeouts>>

\* The TCP connection is made or refused; setting the host name may fail.
ConnectDone(who) ==
    /\ stage[who] = "connecting"
    /\ \/ /\ link' = Down(link) /\ Answer(who)
       \/ /\ link' = [link EXCEPT !.tcp = "up"]
          /\ \/ secure /\ At(who, "tls") /\ UNCHANGED calls
             \/ secure /\ Answer(who)
             \/ ~secure /\ At(who, "upgrade") /\ UNCHANGED calls
    /\ UNCHANGED <<alive, deadline, timeouts, read>>

\* Fault: a failed TLS handshake is not told.
HandshakeDoneSilent(who) ==
    /\ stage[who] = "tls"
    /\ \/ ~Mute /\ At(who, "upgrade") /\ UNCHANGED <<link, calls>>
       \/ (~Mute \/ link.hung) /\ At(who, "idle") /\ UNCHANGED <<link, calls>>
    /\ UNCHANGED <<alive, deadline, timeouts, read>>

\* The TLS handshake, synchronous in both.
HandshakeDone(who) ==
    /\ stage[who] = "tls"
    /\ \/ ~Mute /\ At(who, "upgrade") /\ UNCHANGED <<link, calls>>
       \/ (~Mute \/ link.hung) /\ Answer(who) /\ UNCHANGED link
    /\ UNCHANGED <<alive, deadline, timeouts, read>>

\* The websocket handshake, synchronous in both.
UpgradeDone(who) ==
    /\ stage[who] = "upgrade"
    /\ \/ ~Mute /\ ~link.hung /\ link' = [link EXCEPT !.ws = "open"]
       \/ (~Mute \/ link.hung) /\ UNCHANGED link
    /\ Answer(who)
    /\ UNCHANGED <<alive, deadline, timeouts, read>>

-----------------------------------------------------------------------------
(* The application's other calls.                                          *)

Free == alive /\ stage["caller"] = "idle"

SetTimeout ==
    /\ Free /\ stage["handler"] = "idle"
    /\ \E set \in BOOLEAN :
           /\ set \/ "unsetTimeouts" \in app
           /\ timeouts' = IF set THEN "none" ELSE "any"
    /\ UNCHANGED <<alive, stage, link, deadline, read, calls>>

\* A read of a stream that is not open fails.
ReadStarts == read' = IF link.ws = "closed" THEN "failed" ELSE "pending"

Listen ==
    /\ Free /\ read = "none" /\ calls.listens < MaxListens
    /\ ReadStarts
    /\ calls' = [calls EXCEPT !.listens = @ + 1]
    /\ UNCHANGED <<alive, stage, link, deadline, timeouts>>

\* disconnect() sends a close and waits for the peer's, if the stream is open.
Disconnected ==
    IF link.ws = "open"
    THEN link' = [link EXCEPT !.ws = "closing"] /\ At("caller", "closing")
    ELSE UNCHANGED <<link, stage>>

Disconnect ==
    /\ Free /\ Disconnected
    /\ UNCHANGED <<alive, deadline, timeouts, read, calls>>

\* Fault: the destructor does not disconnect.
DestroyOnly ==
    /\ Free /\ alive' = FALSE
    /\ UNCHANGED <<stage, link, deadline, timeouts, read, calls>>

Destroy ==
    /\ Free /\ alive' = FALSE /\ Disconnected
    /\ UNCHANGED <<deadline, timeouts, read, calls>>

\* The synchronous close discards messages; the peer's close or end completes it.
Closes ==
    /\ stage["caller"] = "closing"
    /\ \/ /\ link.tcp = "up" /\ link.wire # <<>> /\ Head(link.wire) = "message"
          /\ link' = [link EXCEPT !.wire = Tail(@)]
          /\ UNCHANGED stage
       \/ /\ \/ link.tcp = "down" \/ link.ws = "closed"
             \/ link.wire = <<>> /\ link.hung
             \/ link.wire # <<>> /\ Head(link.wire) = "close"
          /\ link' = Down(link) /\ At("caller", "idle")
    /\ UNCHANGED <<alive, deadline, timeouts, read, calls>>

-----------------------------------------------------------------------------
(* Reading.                                                                *)

\* The async_read takes a message, or a close, or fails.  Beside it the
\* synchronous close reads the same stream.
ReadCompletes ==
    /\ read = "pending"
    /\ \/ /\ link.tcp = "up" /\ link.ws # "closed"
          /\ link.wire # <<>> /\ Head(link.wire) = "message"
          /\ link' = [link EXCEPT !.wire = Tail(@)] /\ read' = "message"
       \/ /\ \/ link.tcp # "up" \/ link.ws = "closed"
             \/ link.wire = <<>> /\ link.hung
             \/ link.wire # <<>> /\ Head(link.wire) = "close"
          /\ link' = Down(link) /\ read' = "failed"
    /\ UNCHANGED <<alive, stage, deadline, timeouts, calls>>

\* Fault: an error is read on.
OnReadGoesOn ==
    /\ read \in {"message", "failed"} /\ stage["handler"] \in {"idle", "connecting"}
    /\ ReadStarts
    /\ calls' = IF read = "failed" THEN [calls EXCEPT !.ends = 1] ELSE calls
    /\ UNCHANGED <<alive, stage, link, deadline, timeouts>>

\* on_read: read_cb_ is told of a message and the next read starts, or of the end.
\* The handler of connect, while it waits for the peer, keeps the thread.
OnRead ==
    /\ read \in {"message", "failed"} /\ stage["handler"] \in {"idle", "connecting"}
    /\ IF read = "failed"
       THEN read' = "none" /\ calls' = [calls EXCEPT !.ends = @ + 1]
       ELSE ReadStarts /\ UNCHANGED calls
    /\ UNCHANGED <<alive, stage, link, deadline, timeouts>>

\* The deadline of connect is never taken back: when it has passed it ends any
\* asynchronous operation, a connect that is under way or a read.
DeadlinePasses ==
    /\ deadline = "running" /\ deadline' = "past"
    /\ UNCHANGED <<alive, stage, link, timeouts, read, calls>>

Expires ==
    /\ \/ deadline = "past" /\ stage["handler"] = "connecting"
       \/ read = "pending" /\ (deadline = "past" \/ timeouts = "any")
    /\ link' = Down(link)
    /\ read' = IF read = "pending" THEN "failed" ELSE read
    /\ IF stage["handler"] = "connecting" THEN Answer("handler") ELSE UNCHANGED <<stage, calls>>
    /\ UNCHANGED <<alive, deadline, timeouts>>

-----------------------------------------------------------------------------
(* The peer.                                                               *)

PeerUp == link.tcp = "up" /\ ~link.hung

Sends ==
    /\ PeerUp /\ link.ws # "closed" /\ Len(link.wire) < MaxMessages
    /\ link' = [link EXCEPT !.wire = Append(@, "message")]
    /\ UNCHANGED <<alive, stage, deadline, timeouts, read, calls>>

\* It closes, or answers a close, and ends the connection; or it only ends it.
HangsUp ==
    /\ PeerUp
    /\ \E last \in {<<>>, <<"close">>} :
           /\ last # <<>> => link.ws # "closed" /\ ~Mute
           /\ link' = [link EXCEPT !.wire = @ \o last, !.hung = TRUE]
    /\ UNCHANGED <<alive, stage, deadline, timeouts, read, calls>>

-----------------------------------------------------------------------------
Init ==
    /\ app \in SUBSET Env
    /\ secure \in BOOLEAN
    /\ alive = TRUE
    /\ stage = [t \in Threads |-> "idle"]
    /\ link = NewLink
    /\ deadline = "off"
    /\ timeouts = "none"
    /\ read = "none"
    /\ calls = [asked |-> 0, answered |-> 0, listens |-> 0, ends |-> 0]

Connecting(who) == ConnectDone(who) \/ HandshakeDone(who) \/ UpgradeDone(who)

Next ==
    /\ \/ \E who \in Threads : Connect(who) \/ Connecting(who)
       \/ SetTimeout \/ Listen \/ Disconnect \/ Destroy \/ Closes
       \/ ReadCompletes \/ OnRead \/ DeadlinePasses \/ Expires
       \/ Sends \/ HangsUp
    /\ UNCHANGED <<app, secure>>

Spec == Init /\ [][Next]_vars

\* Connects end, handlers run, and a peer that is not mute answers handshakes and
\* closes.
Fairness ==
    /\ \A who \in Threads : WF_state(Connecting(who))
    /\ WF_state(Closes) /\ WF_state(ReadCompletes) /\ WF_state(OnRead)
    /\ WF_state(~Mute /\ link.ws = "closing" /\ HangsUp)

FairSpec == Spec /\ Fairness

-----------------------------------------------------------------------------
(* Properties.                                                             *)

\* connect() and connect_sync() answer once, on every path of resolving,
\* connecting, the two handshakes and their failures, unless the peer is mute
\* (the handshakes in the handler have no deadline).
ConnectIsAnswered ==
    /\ [](calls.answered <= calls.asked)
    /\ ~Mute => [](calls.asked > calls.answered => <>(calls.asked = calls.answered))

\* on_read: read_cb_ is told of the end of what it listens to, once for each
\* listen(), although close(), a deadline or the peer may have ended it meanwhile,
\* or the client object may be gone; a connect meanwhile may carry it on.
EndIsTold ==
    /\ [](calls.ends + (IF read = "none" THEN 0 ELSE 1) = calls.listens)
    /\ ~Mute => [](read # "none" /\ ~Connected => <>(read = "none" \/ Connected))

\* ~client_base: a client that is destroyed leaves no connection behind, whatever
\* handlers still hold its implementation.  (The handler of a connect would hand
\* the new connection to a read loop of the old one, which keeps it for ever.)
DestroyedHangsUp ==
    ~Mute /\ "reconnectsReading" \notin app => [](~alive => <>[]~Connected)

=============================================================================
