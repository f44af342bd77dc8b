--------------------------- MODULE RequestLifecycle ---------------------------
(***************************************************************************)
(* What the HTTP server promises for one request: a connection is accepted *)
(* while the server listens, its request is received and handed to the     *)
(* application, one answer is begun, and the connection is removed.  A     *)
(* request that was handed over is not removed before its answer was       *)
(* begun, an answer is begun once, and a removed connection stays removed. *)
(* Only the destruction of the server cuts this short.                     *)
(***************************************************************************)

CONSTANT Conns

VARIABLES
    server,   \* "stopped", "listening" or "destroyed"
    phase     \* of each connection

vars == <<server, phase>>

Phases == {"absent", "receiving", "handling", "answering", "removed"}

Init ==
    /\ server = "stopped"
    /\ phase = [c \in Conns |-> "absent"]

Move(c, from, to) ==
    /\ phase[c] \in from
    /\ phase' = [phase EXCEPT ![c] = to]
    /\ UNCHANGED server

Accept(c) == server = "listening" /\ Move(c, {"absent"}, "receiving")

HandOver(c) == Move(c, {"receiving"}, "handling")

\* Also without the application: 400, 404, 405, a refused session.
Answer(c) == Move(c, {"receiving", "handling"}, "answering")

Remove(c) == Move(c, {"receiving", "answering"}, "removed")

Listen == server # "destroyed" /\ server' \in {"listening", "stopped"} /\ UNCHANGED phase

Destroy ==
    /\ server # "destroyed" /\ server' = "destroyed"
    /\ phase' = [c \in Conns |-> IF phase[c] = "absent" THEN "absent" ELSE "removed"]

Next ==
    \/ Listen \/ Destroy
    \/ \E c \in Conns : Accept(c) \/ HandOver(c) \/ Answer(c) \/ Remove(c)

Spec == Init /\ [][Next]_vars

=============================================================================
