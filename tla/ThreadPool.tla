----------------------------- MODULE ThreadPool -----------------------------
(***************************************************************************)
(* async_model and thread_pooler: setup() and teardown() of the threads    *)
(* that run an io_context.  up_ is tested and stored in two steps; the     *)
(* work is done under thread_pool_lock_.  Which handlers there are is left *)
(* to the module that composes this one.                                   *)
(***************************************************************************)
EXTENDS Integers

CONSTANTS
    Outside,      \* threads of the application that are not workers
    ThreadCount   \* thread_count_

ASSUME ThreadPoolAssumption == ThreadCount \in Nat \ {0}

Workers == 1 .. ThreadCount   \* the places of threads_
Threads == Outside \cup Workers

VARIABLES
    up,       \* up_
    lock,     \* who holds thread_pool_lock_, if anyone
    context,  \* io_context: it is stopped, and whether it has a work guard
    worker,   \* threads_: "none", "idle" in run(), "busy" with a handler, "ended"
    joinable, \* the places of threads_ that hold a thread not joined
    pc        \* where each thread is in setup() or teardown(), or "out"

pool == <<up, lock, context, worker, joinable, pc>>

PoolInit ==
    /\ up = FALSE
    /\ lock = {}
    /\ context = [stopped |-> FALSE, guard |-> FALSE]
    /\ worker = [w \in Workers |-> "none"]
    /\ joinable = {}
    /\ pc = [t \in Threads |-> "out"]

Goes(t, where) == pc' = [pc EXCEPT ![t] = where]

-----------------------------------------------------------------------------
(* async_model.                                                            *)

setup(t) ==
    /\ pc[t] = "out" /\ ~up
    /\ Goes(t, "set up")
    /\ UNCHANGED <<up, lock, context, worker, joinable>>

teardown(t) ==
    /\ pc[t] = "out" /\ up
    /\ Goes(t, "tear down")
    /\ UNCHANGED <<up, lock, context, worker, joinable>>

StoreUp(t) ==
    /\ pc[t] \in {"set up", "tear down"}
    /\ up' = (pc[t] = "set up")
    /\ Goes(t, IF pc[t] = "set up" THEN "set up locked" ELSE "tear down locked")
    /\ UNCHANGED <<lock, context, worker, joinable>>

-----------------------------------------------------------------------------
(* thread_pooler.                                                          *)

\* Fault: no work guard.
setup_implUnguarded(t) ==
    /\ pc[t] = "set up locked" /\ lock = {}
    /\ worker' = [w \in Workers |-> "idle"]
    /\ joinable' = Workers
    /\ Goes(t, "out")
    /\ UNCHANGED <<up, lock, context>>

\* A context that was stopped is not restarted.
setup_impl(t) ==
    /\ pc[t] = "set up locked" /\ lock = {}
    /\ context' = [context EXCEPT !.guard = TRUE]
    /\ worker' = [w \in Workers |-> "idle"]
    /\ joinable' = Workers
    /\ Goes(t, "out")
    /\ UNCHANGED <<up, lock>>

teardown_impl(t) ==
    /\ pc[t] = "tear down locked" /\ lock = {}
    /\ lock' = {t}
    /\ context' = [stopped |-> TRUE, guard |-> FALSE]
    /\ Goes(t, "join")
    /\ UNCHANGED <<up, worker, joinable>>

\* Fault: a thread that is still in a handler is not waited for.
JoinHastily(t) ==
    /\ pc[t] = "join"
    /\ lock' = {} /\ joinable' = {} /\ Goes(t, "out")
    /\ worker' = [w \in Workers |-> IF worker[w] = "idle" THEN "ended" ELSE worker[w]]
    /\ UNCHANGED <<up, context>>

\* The next of threads_ is joined; after the last the lock is released.  A worker
\* that comes to itself throws out of its handler, which ends it.
Join(t) ==
    /\ pc[t] = "join"
    /\ IF joinable = {}
       THEN /\ lock' = {} /\ Goes(t, "out")
            /\ UNCHANGED <<worker, joinable>>
       ELSE LET w == CHOOSE w \in joinable : \A v \in joinable : w <= v
            IN IF w = t
               THEN /\ worker' = [worker EXCEPT ![t] = "ended"]
                    /\ lock' = {} /\ Goes(t, "out")
                    /\ UNCHANGED joinable
               ELSE /\ worker[w] = "ended"
                    /\ joinable' = joinable \ {w}
                    /\ UNCHANGED <<worker, lock, pc>>
    /\ UNCHANGED <<up, context>>

Calls(t) == StoreUp(t) \/ setup_impl(t) \/ teardown_impl(t) \/ Join(t)

-----------------------------------------------------------------------------
(* io_context::run() of a worker.                                          *)

\* It returns when the context is stopped, or nothing is left to wait for.
RunReturns(w, work) ==
    /\ worker[w] = "idle"
    /\ context.stopped \/ (~context.guard /\ ~work)
    /\ worker' = [worker EXCEPT ![w] = "ended"]
    /\ UNCHANGED <<up, lock, context, joinable, pc>>

Takes(w) ==
    /\ worker[w] = "idle" /\ ~context.stopped
    /\ worker' = [worker EXCEPT ![w] = "busy"]
    /\ UNCHANGED <<up, lock, context, joinable, pc>>

\* The handler returns, or throws: exceptAction_ is called and the thread ends.
Finishes(w, throws) ==
    /\ worker[w] = "busy" /\ pc[w] = "out"
    /\ worker' = [worker EXCEPT ![w] = IF throws THEN "ended" ELSE "idle"]
    /\ UNCHANGED <<up, lock, context, joinable, pc>>

=============================================================================
