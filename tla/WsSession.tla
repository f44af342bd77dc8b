------------------------------ MODULE WsSession ------------------------------
(***************************************************************************)
(* The write queue of a websocket server session (session_base and the     *)
(* write half of connection).  enqueue_write runs a write operation at     *)
(* once or queues it; write_text and write_binary start a write or refuse; *)
(* connection::on_write, a handler of the connection's strand, clears      *)
(* write_in_progress_ and runs the next queued operation while it holds    *)
(* queue_mut_, which is not recursive.  The strand's own callbacks (on_text, *)
(* on_write_complete) call these functions, and so may other threads.      *)
(*                                                                         *)
(* A step is what a thread does from one load or store of                  *)
(* write_in_progress_, or one lock of queue_mut_, to the next.  An         *)
(* operation is [id, does]: it writes message id ("write"), writes it with *)
(* an on_complete ("writeThen"), or is such an on_complete ("then"), which *)
(* writes nothing itself.                                                  *)
(***************************************************************************)
EXTENDS Naturals, Sequences, FiniteSets

CONSTANTS
    Threads,    \* threads other than the strand that call the session
    MaxWrites,  \* calls of enqueue_write, write_text and write_binary
    Env         \* what applications may do, of EnvChoices

\* The application gives write_text an on_complete; its session class is
\* flexible_session and not one that leaves on_write_complete to session_base.
EnvChoices == {"thens", "flexible"}

ASSUME SessionAssumption ==
    "strand" \notin Threads /\ MaxWrites \in Nat /\ Env \subseteq EnvChoices

VARIABLES
    app,        \* what this application does, some of Env; never changes
    writing,    \* write_in_progress_
    queue,      \* enqueued_writes_
    mut,        \* the thread that holds queue_mut_
    pc, op,     \* where each thread is, and the operation it runs
    inFlight,   \* messages given to async_write whose handler has not run
    failed,     \* a write failed, and so does every later one
    asked,      \* history: number of calls; they are numbered in their order
    enqueued,   \* history: calls of enqueue_write
    refused,    \* history: calls of write_text that returned false
    sent,       \* history: messages given to async_write, in order
    thens       \* history: on_completes that ran

threads == <<pc, op>>
history == <<asked, enqueued, refused, sent, thens>>
state == <<writing, queue, mut, threads, inFlight, failed, history>>
vars == <<app, state>>

Callers == Threads \cup {"strand"}

Operations == [id : 1 .. MaxWrites, does : {"write", "writeThen", "then"}]

\* The operations an application calls with.
Does == {"write"} \cup (IF "thens" \in app THEN {"writeThen"} ELSE {})

NoOp == [id |-> 0, does |-> "none"]

Then(o) == [id |-> o.id, does |-> "then"]

-----------------------------------------------------------------------------
Goto(c, l) == pc' = [pc EXCEPT ![c] = l]

\* The function c called returns; on_write_complete releases queue_mut_.
Return(c) ==
    /\ pc' = [pc EXCEPT ![c] = "idle"] /\ op' = [op EXCEPT ![c] = NoOp]
    /\ mut' = IF mut = c THEN "none" ELSE mut

Call(c, l, o) ==
    /\ pc[c] = "idle" /\ asked < MaxWrites
    /\ asked' = asked + 1
    /\ pc' = [pc EXCEPT ![c] = l] /\ op' = [op EXCEPT ![c] = o]
    /\ UNCHANGED <<writing, queue, mut, inFlight, failed, refused, sent, thens>>

\* enqueue_write: the load of write_in_progress_.
EnqueueWrite(c) ==
    \E d \in Does :
        /\ Call(c, IF writing THEN "push" ELSE "run", [id |-> asked + 1, does |-> d])
        /\ enqueued' = enqueued \cup {asked + 1}

\* write_text or write_binary, called without the queue.
WriteText(c) ==
    /\ \E d \in Does : Call(c, "run", [id |-> asked + 1, does |-> d])
    /\ UNCHANGED enqueued

\* enqueue_write: the push.
Push(c) ==
    /\ pc[c] = "push" /\ mut = "none"
    /\ queue' = Append(queue, op[c])
    /\ Return(c)
    /\ UNCHANGED <<writing, inFlight, failed, history>>

\* Fault: a write is started whether one is in progress or not.
RunUnchecked(c) ==
    /\ pc[c] = "run" /\ op[c].does # "then"
    /\ Goto(c, "claim") /\ UNCHANGED <<op, mut, refused>>
    /\ UNCHANGED <<writing, queue, inFlight, failed, asked, enqueued, sent, thens>>

\* An operation that writes: write_text returns false while a write is in
\* progress.
Run(c) ==
    /\ pc[c] = "run" /\ op[c].does # "then"
    /\ IF writing
       THEN refused' = refused \cup {op[c].id} /\ Return(c)
       ELSE Goto(c, "claim") /\ UNCHANGED <<op, mut, refused>>
    /\ UNCHANGED <<writing, queue, inFlight, failed, asked, enqueued, sent, thens>>

\* An on_complete that was queued.
RunThen(c) ==
    /\ pc[c] = "run" /\ op[c].does = "then"
    /\ thens' = thens \cup {op[c].id}
    /\ Return(c)
    /\ UNCHANGED <<writing, queue, inFlight, failed, asked, enqueued, refused, sent>>

\* Fault: write_in_progress_ is not set.
ClaimNothing(c) ==
    /\ pc[c] = "claim"
    /\ Goto(c, IF op[c].does = "writeThen" THEN "then" ELSE "start")
    /\ UNCHANGED <<writing, queue, mut, op, inFlight, failed, history>>

\* write_common: write_in_progress_ is set.
Claim(c) ==
    /\ pc[c] = "claim"
    /\ writing' = TRUE
    /\ Goto(c, IF op[c].does = "writeThen" THEN "then" ELSE "start")
    /\ UNCHANGED <<queue, mut, op, inFlight, failed, history>>

\* write_common: enqueue_write(on_complete).  Another thread may have cleared
\* write_in_progress_, and then the on_complete is run before the write.
EnqueueThen(c) ==
    /\ pc[c] = "then"
    /\ IF writing
       THEN Goto(c, "pushThen") /\ UNCHANGED thens
       ELSE Goto(c, "start") /\ thens' = thens \cup {op[c].id}
    /\ UNCHANGED <<writing, queue, mut, op, inFlight, failed, asked, enqueued, refused, sent>>

PushThen(c) ==
    /\ pc[c] = "pushThen" /\ mut = "none"
    /\ queue' = Append(queue, Then(op[c]))
    /\ Goto(c, "start")
    /\ UNCHANGED <<writing, mut, op, inFlight, failed, history>>

\* write_common: async_write.
Start(c) ==
    /\ pc[c] = "start"
    /\ inFlight' = inFlight \cup {op[c].id}
    /\ sent' = Append(sent, op[c].id)
    /\ Return(c)
    /\ UNCHANGED <<writing, queue, failed, asked, enqueued, refused, thens>>

-----------------------------------------------------------------------------
(* connection::on_write, on the strand.                                    *)

\* Fault: a write that succeeded does not look into the queue.
OnWriteStops(ok) ==
    /\ pc["strand"] = "idle" /\ (ok => ~failed)
    /\ \E i \in inFlight : inFlight' = inFlight \ {i}
    /\ writing' = FALSE /\ failed' = (failed \/ ~ok)
    /\ UNCHANGED <<queue, mut, pc, op, history>>

\* A write ends; after an error only on_error is called.
OnWrite(ok) ==
    /\ pc["strand"] = "idle" /\ (ok => ~failed)
    /\ \E i \in inFlight : inFlight' = inFlight \ {i}
    /\ writing' = FALSE /\ failed' = (failed \/ ~ok)
    /\ IF ok THEN Goto("strand", "complete") ELSE UNCHANGED pc
    /\ UNCHANGED <<queue, mut, op, history>>

\* Fault: the newest operation is run first.
OnWriteCompleteLast ==
    /\ pc["strand"] = "complete" /\ mut = "none"
    /\ IF queue = <<>>
       THEN Goto("strand", "idle") /\ UNCHANGED <<queue, mut, op>>
       ELSE /\ queue' = SubSeq(queue, 1, Len(queue) - 1) /\ mut' = "strand"
            /\ op' = [op EXCEPT !["strand"] = queue[Len(queue)]] /\ Goto("strand", "run")
    /\ UNCHANGED <<writing, inFlight, failed, history>>

\* on_write_complete: the front operation runs under queue_mut_.
\* flexible_session overrides it and does not look into the queue.
OnWriteComplete ==
    /\ pc["strand"] = "complete" /\ mut = "none"
    /\ IF queue = <<>> \/ "flexible" \in app
       THEN Goto("strand", "idle") /\ UNCHANGED <<queue, mut, op>>
       ELSE /\ queue' = Tail(queue) /\ mut' = "strand"
            /\ op' = [op EXCEPT !["strand"] = Head(queue)] /\ Goto("strand", "run")
    /\ UNCHANGED <<writing, inFlight, failed, history>>

-----------------------------------------------------------------------------
Init ==
    /\ app \in SUBSET Env
    /\ writing = FALSE /\ queue = <<>> /\ mut = "none"
    /\ pc = [c \in Callers |-> "idle"] /\ op = [c \in Callers |-> NoOp]
    /\ inFlight = {} /\ failed = FALSE
    /\ asked = 0 /\ enqueued = {} /\ refused = {} /\ sent = <<>> /\ thens = {}

\* What c goes on with once it called the session.
Steps(c) ==
    \/ Push(c) \/ Run(c) \/ RunThen(c) \/ Claim(c)
    \/ EnqueueThen(c) \/ PushThen(c) \/ Start(c)

Next ==
    /\ \/ \E c \in Callers : EnqueueWrite(c) \/ WriteText(c) \/ Steps(c)
       \/ \E ok \in BOOLEAN : OnWrite(ok)
       \/ OnWriteComplete
    /\ UNCHANGED app

Spec == Init /\ [][Next]_vars

\* Threads that can go on do so, and the handlers of the strand run.  Nothing
\* is assumed of when the application calls.
Fairness ==
    /\ \A c \in Callers : WF_state(Steps(c))
    /\ WF_state(\E ok \in BOOLEAN : OnWrite(ok)) /\ WF_state(OnWriteComplete)

FairSpec == Spec /\ Fairness

-----------------------------------------------------------------------------
(* Properties.                                                             *)

\* The type invariant; queue_mut_ is held only while an operation runs.
TypeOK ==
    /\ app \subseteq Env /\ writing \in BOOLEAN /\ failed \in BOOLEAN
    /\ queue \in Seq(Operations)
    /\ mut \in {"none", "strand"} /\ (mut = "strand" => pc["strand"] # "idle")
    /\ pc \in [Callers -> {"idle", "push", "run", "claim", "then", "pushThen",
                           "start", "complete"}]
    /\ op \in [Callers -> Operations \cup {NoOp}]
    /\ asked \in 0 .. MaxWrites
    /\ \A s \in {inFlight, enqueued, refused, thens} : s \subseteq 1 .. asked
    /\ sent \in Seq(1 .. asked)

\* The session is used from its own callbacks only.
OnStrand == Threads = {}

\* async_write is not called again before its handler has run.
OneWriteAtATime == OnStrand => Cardinality(inFlight) <= 1

\* Messages go out in the order of the calls, whether they were queued or not,
\* when on_completes do not share the queue with them and the queue is run.
SentInOrder ==
    OnStrand /\ app = {} => \A i, j \in DOMAIN sent : i < j => sent[i] < sent[j]

\* An on_complete runs when its message was written, not before.
ThenAfterItsWrite ==
    OnStrand => \A i \in thens : i \notin inFlight /\ \E k \in DOMAIN sent : sent[k] = i

\* Every enqueued operation is run and its message sent, never refused
\* (session_base.hpp:31, "can fail if writes are in progress", is said of
\* write_text), or the connection failed; when nothing else shares the queue and
\* the queue is run.
EnqueuedGetsSent ==
    OnStrand /\ app = {} =>
        \A i \in 1 .. MaxWrites :
            i \in enqueued ~> failed \/ \E k \in DOMAIN sent : sent[k] = i

=============================================================================
