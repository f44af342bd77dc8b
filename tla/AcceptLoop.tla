----------------------------- MODULE AcceptLoop -----------------------------
(***************************************************************************)
(* start(), stop() and do_accept() of http_server and http_secure_server.  *)
(* Both accept into a member, socket_: the plain server moves it into the  *)
(* connection, the secure one makes it anew for every accept.  An accept   *)
(* into a socket that is open fails at once.                               *)
(***************************************************************************)
EXTENDS Integers, Sequences

CONSTANT MaxPeers   \* peers that try to connect

VARIABLES
    secure,    \* it is the secure server; never changes
    acceptor,  \* acceptor_: "closed", "open" or "listening"
    socket,    \* socket_: "closed", or "open" with a peer, or with one "refused"
    pending,   \* accepts under way
    queue,     \* handlers that are ready: "ok", "aborted" or "failed", or some other
    peers      \* history: arrived, waiting, served, refused by on_accept_, lost

loop == <<acceptor, socket, pending, queue, peers>>

LoopInit ==
    /\ secure \in BOOLEAN
    /\ acceptor = "closed"
    /\ socket = "closed"
    /\ pending = 0
    /\ queue = <<>>
    /\ peers = [arrived |-> 0, waiting |-> 0, served |-> 0, refused |-> 0, lost |-> 0]

\* What async_accept makes of the loop l, a record of the variables.  What comes
\* of an accept whose socket_ the secure server destroys under it is undefined;
\* here it goes on with the new one.
do_accept(l) ==
    LET new == IF secure
               THEN [l EXCEPT !.socket = "closed", !.lost = @ + IF l.socket = "open" THEN 1 ELSE 0]
               ELSE l
    IN IF new.acceptor = "listening" /\ new.socket = "closed"
       THEN [new EXCEPT !.pending = @ + 1]
       ELSE [new EXCEPT !.queue = Append(@, "failed")]

Loop == [acceptor |-> acceptor, socket |-> socket, pending |-> pending, queue |-> queue,
         waiting |-> peers.waiting, served |-> peers.served, refused |-> peers.refused,
         lost |-> peers.lost]

Becomes(l) ==
    /\ acceptor' = l.acceptor /\ socket' = l.socket /\ pending' = l.pending /\ queue' = l.queue
    /\ peers' = [peers EXCEPT !.waiting = l.waiting, !.served = l.served,
                              !.refused = l.refused, !.lost = l.lost]
    /\ UNCHANGED secure

\* acceptor_.close(): the accepts under way are aborted, and peers that wait reset.
Closed(l) ==
    [l EXCEPT !.acceptor = "closed", !.pending = 0, !.waiting = 0,
              !.queue = @ \o [i \in 1 .. l.pending |-> "aborted"]]

Start == Becomes(do_accept([Closed(Loop) EXCEPT !.acceptor = "listening"]))

\* resolve, bind or listen throws; stop() comes before them.
StartThrows == \E how \in {"closed", "open"} : Becomes([Closed(Loop) EXCEPT !.acceptor = how])

Stop == acceptor # "closed" /\ Becomes(Closed(Loop))

\* Of a socket that was reset meanwhile a connection to nobody is made.
Taken(l, accepted) ==
    IF accepted
    THEN [l EXCEPT !.socket = "closed", !.served = @ + IF l.socket = "open" THEN 1 ELSE 0]
    ELSE [l EXCEPT !.socket = "refused", !.refused = @ + 1]

\* Fault: an error makes two accepts of one.
HandleAcceptTwice(l, ec, accepted) ==
    IF ec = "aborted" \/ l.acceptor = "closed" THEN l
    ELSE do_accept(IF ec = "ok" THEN Taken(l, accepted) ELSE do_accept(l))

\* Fault: an error ends the loop.
HandleAcceptNoMore(l, ec, accepted) ==
    IF ec # "ok" \/ l.acceptor = "closed" THEN l ELSE do_accept(Taken(l, accepted))

\* The handler of async_accept: a connection is made of the socket, or on_error_
\* is called, and the next accept begins.
HandleAccept(l, ec, accepted) ==
    IF ec = "aborted" \/ l.acceptor = "closed" THEN l
    ELSE do_accept(IF ec = "ok" THEN Taken(l, accepted) ELSE l)

Arrives ==
    /\ acceptor = "listening" /\ peers.arrived < MaxPeers
    /\ peers' = [peers EXCEPT !.arrived = @ + 1, !.waiting = @ + 1]
    /\ UNCHANGED <<secure, acceptor, socket, pending, queue>>

\* A peer that is waiting is accepted into the socket; if another accept has
\* opened it meanwhile, the peer is lost.
Accepts ==
    /\ pending > 0 /\ peers.waiting > 0
    /\ pending' = pending - 1
    /\ IF socket # "closed"
       THEN /\ queue' = Append(queue, "failed")
            /\ peers' = [peers EXCEPT !.waiting = @ - 1, !.lost = @ + 1]
            /\ UNCHANGED socket
       ELSE /\ queue' = Append(queue, "ok")
            /\ peers' = [peers EXCEPT !.waiting = @ - 1]
            /\ socket' = "open"
    /\ UNCHANGED <<secure, acceptor>>

\* An accept fails, for want of descriptors, say.
AcceptFails ==
    /\ pending > 0
    /\ pending' = pending - 1 /\ queue' = Append(queue, "failed")
    /\ UNCHANGED <<secure, acceptor, socket, peers>>

=============================================================================
