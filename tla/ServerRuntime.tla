--------------------------- MODULE ServerRuntime ---------------------------
(***************************************************************************)
(* A http server over a managed_io_context<thread_pooler>: the workers run *)
(* the handlers of the accept loop and other handlers, while the           *)
(* application starts and stops the server, sets up and tears down the     *)
(* threads, and handlers throw.  A worker holds a handler while it runs    *)
(* it, so two workers may finish theirs in either order.                   *)
(***************************************************************************)
EXTENDS ThreadPool, AcceptLoop, FiniteSets

CONSTANTS
    MaxStarts,  \* calls of start()
    MaxJobs,    \* other handlers
    Env         \* what the application may do, of EnvChoices

\* on_accept_ returns false; on_accept_ throws; the server is started again;
\* another handler throws; teardown() is called by two threads, or by a handler;
\* setup() is called after a teardown().
EnvChoices ==
    {"refuses", "acceptThrows", "restarts", "jobThrows", "teardownsRace", "teardownInside",
     "setsUpAgain"}

ASSUME ServerRuntimeAssumption == MaxStarts \in Nat /\ MaxJobs \in Nat /\ Env \subseteq EnvChoices

VARIABLES
    app,    \* what this application does, one of Env or nothing; never changes
    task,   \* the handler that each worker runs
    done    \* history: calls of start() and of setup(), jobs, and whether a
            \* teardown() has returned since

vars == <<app, secure, pool, loop, task, done>>
state == <<pool, loop, task, done>>

-----------------------------------------------------------------------------
(* The application's threads.                                              *)

\* The constructor of managed_io_context sets up before anything else is done.
SetUp(t) ==
    /\ t \in Outside /\ setup(t)
    /\ \/ done.setups = 0
       \/ "setsUpAgain" \in app /\ done.setups = 1 /\ done.down
          /\ \A w \in Workers : worker[w] \in {"none", "ended"}
    /\ \A u \in Threads : pc[u] = "out"
    /\ done' = [done EXCEPT !.setups = @ + 1, !.down = FALSE]
    /\ UNCHANGED <<secure, loop, task>>

\* By its destructor, or before.
TearDown(t) ==
    /\ done.setups > 0 /\ teardown(t)
    /\ t \in Workers => "teardownInside" \in app /\ worker[t] = "busy" /\ task[t] = "job"
    /\ "teardownsRace" \in app \/ \A u \in Threads : pc[u] = "out"
    /\ UNCHANGED <<secure, loop, task, done>>

\* teardown() that finds the threads down, or being taken down, returns.
TearDownReturns(t) ==
    /\ t \in Outside /\ pc[t] = "out" /\ ~up /\ done.setups > 0 /\ ~done.down
    /\ \E u \in Threads \ {t} : pc[u] \in {"tear down locked", "join"}
    /\ "teardownsRace" \in app
    /\ done' = [done EXCEPT !.down = TRUE]
    /\ UNCHANGED <<secure, pool, loop, task>>

Called(t) ==
    /\ Calls(t)
    /\ done' = IF pc[t] = "join" /\ pc'[t] = "out" THEN [done EXCEPT !.down = TRUE] ELSE done
    /\ UNCHANGED <<secure, loop, task>>

Restarts == "restarts" \in app

StartServer ==
    /\ done.starts < IF Restarts THEN MaxStarts ELSE 1
    /\ Start
    /\ done' = [done EXCEPT !.starts = @ + 1]
    /\ UNCHANGED <<pool, task>>

\* start() throws; an application that does not restart its server may try again.
StartServerThrows == (Restarts \/ done.starts = 0) /\ StartThrows /\ UNCHANGED <<pool, task, done>>

StopServer == Stop /\ UNCHANGED <<pool, task, done>>

\* Any other handler becomes ready.
Posts ==
    /\ done.jobs < MaxJobs
    /\ queue' = Append(queue, "job")
    /\ done' = [done EXCEPT !.jobs = @ + 1]
    /\ UNCHANGED <<secure, acceptor, socket, pending, peers, pool, task>>

-----------------------------------------------------------------------------
(* The workers.                                                            *)

Work == queue # <<>> \/ pending > 0 \/ \E w \in Workers : worker[w] = "busy"

Ends(w) == RunReturns(w, Work) /\ UNCHANGED <<secure, loop, task, done>>

Begins(w) ==
    /\ queue # <<>> /\ Takes(w)
    /\ task' = [task EXCEPT ![w] = Head(queue)]
    /\ queue' = Tail(queue)
    /\ UNCHANGED <<secure, acceptor, socket, pending, peers, done>>

\* A worker finishes its handler; on_accept_ decides, or throws and leaves the
\* accept loop without its next accept.
Completes(w) ==
    /\ \/ /\ task[w] = "job"
          /\ \E throws \in BOOLEAN :
                 /\ throws => "jobThrows" \in app
                 /\ Finishes(w, throws)
          /\ UNCHANGED <<secure, loop>>
       \/ /\ task[w] \in {"ok", "failed", "aborted"}
          /\ Finishes(w, FALSE)
          /\ \E accepted \in BOOLEAN :
                 /\ ~accepted => "refuses" \in app
                 /\ Becomes(HandleAccept(Loop, task[w], accepted))
       \/ /\ task[w] = "ok" /\ acceptor # "closed" /\ "acceptThrows" \in app
          /\ Finishes(w, TRUE)
          /\ UNCHANGED <<secure, loop>>
    /\ task' = [task EXCEPT ![w] = "none"]
    /\ UNCHANGED done

-----------------------------------------------------------------------------
Init ==
    /\ app \in {{}} \cup {{e} : e \in Env}
    /\ PoolInit /\ LoopInit
    /\ task = [w \in Workers |-> "none"]
    /\ done = [starts |-> 0, setups |-> 0, jobs |-> 0, down |-> FALSE]

Peers == (Arrives \/ Accepts \/ AcceptFails) /\ UNCHANGED <<pool, task, done>>

Next ==
    /\ \/ \E t \in Threads : SetUp(t) \/ TearDown(t) \/ TearDownReturns(t) \/ Called(t)
       \/ StartServer \/ StartServerThrows \/ StopServer \/ Posts \/ Peers
       \/ \E w \in Workers : Ends(w) \/ Begins(w) \/ Completes(w)
    /\ UNCHANGED app

Spec == Init /\ [][Next]_vars

\* Threads go on, handlers return, and an accept that is made again and again
\* succeeds when a peer waits.
Fairness ==
    /\ \A t \in Threads : WF_state(Called(t))
    /\ \A w \in Workers : WF_state(Begins(w)) /\ WF_state(Completes(w))
    /\ SF_state(Accepts /\ UNCHANGED <<pool, task, done>>)

FairSpec == Spec /\ Fairness

-----------------------------------------------------------------------------
(* Properties.                                                             *)

Serving(w) == worker[w] = "busy" /\ task[w] \in {"ok", "failed"}

\* thread_pooler::teardown: when it has returned no handler runs and no thread is
\* left unjoined, which its destructor relies on.  (A second teardown() returns
\* while the first still joins, and a teardown() in a handler joins itself.)
TornDownIsQuiet ==
    app \cap {"teardownsRace", "teardownInside"} = {} /\ done.down =>
        joinable = {} /\ \A w \in Workers : worker[w] # "busy"

\* do_accept: of a server that is started once there is one accept at a time, in
\* the socket, in a queue or with a worker, and no peer is lost for another's.
\* (Started anew with a handler queued, there are two loops over one socket_.)
OneAcceptLoop ==
    ~Restarts =>
        /\ peers.lost = 0
        /\ acceptor # "closed" =>
             pending + Cardinality({i \in DOMAIN queue : queue[i] \in {"ok", "failed"}})
                 + Cardinality({w \in Workers : Serving(w)}) <= 1

\* Every worker has ended by a handler of its own that threw: nobody is left to accept.
NoWorkerLeft ==
    "jobThrows" \in app /\ done.jobs >= ThreadCount /\ \A w \in Workers : worker[w] = "ended"

\* A peer that waits is accepted, through accepts that fail, handlers that throw
\* and end their workers, and peers refused by the secure server; until the server
\* is stopped, the threads are torn down, or the last worker has ended by a
\* handler that threw (thread_pooler.cpp:43 begins no other).
PeersAreAccepted ==
    app \cap {"restarts", "acceptThrows", "setsUpAgain"} = {} /\ (secure \/ "refuses" \notin app)
        => [](peers.waiting > 0 =>
                 <>(peers.waiting = 0 \/ context.stopped \/ done.setups = 0 \/ NoWorkerLeft))

\* http_server.hpp:26: "Return false here in the handler to not continue with
\* request handling."
RefusalEndsOneRequest ==
    app \subseteq {"refuses"}
        => [](peers.waiting > 0 => <>(peers.waiting = 0 \/ context.stopped \/ done.setups = 0))

=============================================================================
