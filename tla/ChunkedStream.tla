---------------------------- MODULE ChunkedStream ----------------------------
(***************************************************************************)
(* response_handler::send_chunked with a streaming_producer: an            *)
(* application thread pushes items into the producer's buffer, and the     *)
(* io_context writes what is buffered as chunks, one write at a time, each *)
(* completion starting the next.  Three threads meet in the producer: the  *)
(* application ("producer"), the handler of the header's write, which      *)
(* attaches the connection ("starter"), and the handlers of the chunks'    *)
(* writes, which follow one another ("writer").  They share two recursive  *)
(* mutexes, buffer_saver_ and on_produce_protect_, and the flag            *)
(* consuming_, which is read and written under neither.                    *)
(*                                                                         *)
(* A step is what a thread does from one lock, unlock or shared flag to    *)
(* the next.  A lock that is taken and released within such a step is a    *)
(* guard only.  The connection is removed by nothing but the stream        *)
(* itself, so on_produce_ always finds it alive.                           *)
(***************************************************************************)
EXTENDS Naturals, Sequences

CONSTANTS
    MaxItems,  \* items the application pushes at most
    Env        \* what applications may do, of EnvChoices

\* The application pushes before the connection is attached; it pushes while
\* start_production runs; it calls finish() while items wait or are being
\* written; its finish callback joins its thread.
EnvChoices == {"preBuffers", "racesStart", "finishesEarly", "joinsProducer"}

ASSUME StreamAssumption == MaxItems \in Nat /\ Env \subseteq EnvChoices

VARIABLES
    app,        \* what this application does, some of Env; never changes
    attached,   \* on_produce_: "no", then "yes", then "gone"
    consuming,  \* consuming_
    completed,  \* completed_
    produced,   \* items pushed: items are numbered in the order of the pushes
    consumed,   \* items erased from buffer_, which holds consumed+1 .. produced
    buf, prot,  \* the threads that hold buffer_saver_ and on_produce_protect_
    pc,         \* where each thread is
    write,      \* the write under way and its outcome
    wire,       \* history: the items written, in order
    finished,   \* history: calls of on_finish_
    removed     \* the connection was removed

producerVars == <<attached, consuming, completed, produced, consumed>>
state == <<producerVars, buf, prot, pc, write, wire, finished, removed>>
vars == <<app, state>>

Buffered == produced - consumed

Writes == [st : {"idle", "pending", "ok", "err", "clash"}, items : 0 .. MaxItems, last : BOOLEAN]

NoWrite == [st |-> "idle", items |-> 0, last |-> FALSE]

\* The chunk of the items after the first k of the buffer, or the last chunk.
Pending(k) == [st |-> "pending", items |-> k, last |-> FALSE]
LastChunk == [st |-> "pending", items |-> 0, last |-> TRUE]
Clash == [st |-> "clash", items |-> 0, last |-> FALSE]

-----------------------------------------------------------------------------
(* on_produce_, as set by send_chunked.                                    *)

Numbers(from, k) == [i \in 1 .. k |-> from + i]

\* Writes the n items that are buffered after the first "from" items, or the
\* last chunk when the production is complete; with nothing to write,
\* has_consumed(0) says so.  busy: a write is under way already.
OnProduce(from, n, busy) ==
    IF completed \/ n > 0
    THEN /\ write' = IF busy THEN Clash ELSE IF completed THEN LastChunk ELSE Pending(n)
         /\ wire' = IF completed THEN wire ELSE wire \o Numbers(from, n)
         /\ consuming' = TRUE
    ELSE /\ consuming' = FALSE
         /\ UNCHANGED <<write, wire>>

-----------------------------------------------------------------------------
(* produced_data(), called by the application's push, flush and finish, and *)
(* by start_production.                                                     *)

Callers == {"producer", "starter"}

Idle(t) == IF t = "producer" THEN "idle" ELSE "done"

\* Fault: on_produce_protect_ is not released.
ReleaseBuffer(t) == buf' = (IF buf = t THEN "none" ELSE buf) /\ UNCHANGED prot

Release(t) ==
    /\ buf' = IF buf = t THEN "none" ELSE buf
    /\ prot' = IF prot = t THEN "none" ELSE prot

\* Fault: consuming_ is not looked at.
CheckNothing(t) ==
    /\ pc[t] = "check"
    /\ pc' = [pc EXCEPT ![t] = "attached"]
    /\ UNCHANGED <<producerVars, buf, prot, write, wire, finished, removed>>

Check(t) ==
    /\ pc[t] = "check"
    /\ IF consuming
       THEN pc' = [pc EXCEPT ![t] = Idle(t)] /\ Release(t)
       ELSE pc' = [pc EXCEPT ![t] = "attached"] /\ UNCHANGED <<buf, prot>>
    /\ UNCHANGED <<producerVars, write, wire, finished, removed>>

HasConsumerAttached(t) ==
    /\ pc[t] = "attached" /\ prot = "none"
    /\ IF attached = "yes"
       THEN pc' = [pc EXCEPT ![t] = "lock"] /\ UNCHANGED <<buf, prot>>
       ELSE pc' = [pc EXCEPT ![t] = Idle(t)] /\ Release(t)
    /\ UNCHANGED <<producerVars, write, wire, finished, removed>>

\* on_produce_ is called; it may be empty by now, and then the call throws.
Enter(t) ==
    /\ pc[t] = "lock" /\ prot = "none"
    /\ IF attached = "yes"
       THEN /\ prot' = t /\ consuming' = TRUE
            /\ pc' = [pc EXCEPT ![t] = "call"] /\ UNCHANGED buf
       ELSE /\ pc' = [pc EXCEPT ![t] = "threw"] /\ Release(t)
            /\ UNCHANGED consuming
    /\ UNCHANGED <<attached, completed, produced, consumed, write, wire, finished, removed>>

\* The buffer is read and copied under buffer_saver_; the last chunk needs
\* neither.
Produce(t) ==
    /\ pc[t] = "call" /\ (completed \/ buf \in {"none", t})
    /\ OnProduce(consumed, Buffered, write.st # "idle")
    /\ pc' = [pc EXCEPT ![t] = Idle(t)] /\ Release(t)
    /\ UNCHANGED <<attached, completed, produced, consumed, finished, removed>>

-----------------------------------------------------------------------------
(* The application's thread.                                               *)

MayPush ==
    /\ "racesStart" \in app \/ pc["starter"] \in {"header", "done"}
    /\ "preBuffers" \in app \/ attached # "no"

\* operator<<: buffer_saver_ is held until produced_data() has returned.
Push ==
    /\ pc["producer"] = "idle" /\ MayPush /\ ~completed /\ produced < MaxItems
    /\ buf = "none" /\ buf' = "producer"
    /\ produced' = produced + 1
    /\ pc' = [pc EXCEPT !["producer"] = "check"]
    /\ UNCHANGED <<attached, consuming, completed, consumed, prot, write, wire, finished, removed>>

Flush ==
    /\ pc["producer"] = "idle" /\ MayPush /\ ~completed
    /\ pc' = [pc EXCEPT !["producer"] = "check"]
    /\ UNCHANGED <<producerVars, buf, prot, write, wire, finished, removed>>

Finish ==
    /\ pc["producer"] = "idle" /\ MayPush /\ ~completed
    /\ "finishesEarly" \in app \/ (attached # "no" /\ Buffered = 0 /\ ~consuming)
    /\ completed' = TRUE
    /\ pc' = [pc EXCEPT !["producer"] = "check"]
    /\ UNCHANGED <<attached, consuming, produced, consumed, buf, prot, write, wire, finished, removed>>

\* The thread returns after finish(), or when has_consumer_attached() tells it
\* that the connection is gone.
Leave ==
    /\ pc["producer"] = "idle"
    /\ completed \/ (prot = "none" /\ attached = "gone")
    /\ pc' = [pc EXCEPT !["producer"] = "left"]
    /\ UNCHANGED <<producerVars, buf, prot, write, wire, finished, removed>>

-----------------------------------------------------------------------------
(* The handler of the header's write.                                      *)

\* on_header_sent: the producer gets its callbacks.
HeaderSent ==
    /\ pc["starter"] = "header" /\ prot = "none"
    /\ "racesStart" \in app \/ pc["producer"] \in {"idle", "left"}
    /\ attached' = "yes"
    /\ pc' = [pc EXCEPT !["starter"] = "start"]
    /\ UNCHANGED <<consuming, completed, produced, consumed, buf, prot, write, wire, finished, removed>>

\* The header could not be sent: end().
HeaderFailed ==
    /\ pc["starter"] = "header"
    /\ removed' = TRUE
    /\ pc' = [pc EXCEPT !["starter"] = "done"]
    /\ UNCHANGED <<producerVars, buf, prot, write, wire, finished>>

\* start_production(), after on_ready_.
StartProduction ==
    /\ pc["starter"] = "start" /\ buf = "none"
    /\ pc' = [pc EXCEPT !["starter"] = IF Buffered > 0 THEN "check" ELSE "done"]
    /\ UNCHANGED <<producerVars, buf, prot, write, wire, finished, removed>>

-----------------------------------------------------------------------------
(* The handlers of the chunks' writes.                                     *)

WriteCompletes ==
    /\ write.st = "pending"
    /\ \E r \in {"ok", "err"} : write' = [write EXCEPT !.st = r]
    /\ UNCHANGED <<producerVars, buf, prot, pc, wire, finished, removed>>

\* Fault: everything that is buffered is erased, not what was written.
HasConsumedAll ==
    /\ pc["writer"] = "idle" /\ write.st = "ok" /\ ~write.last /\ buf = "none"
    /\ consumed' = produced /\ consuming' = FALSE
    /\ write' = NoWrite
    /\ UNCHANGED <<attached, completed, produced, buf, prot, pc, wire, finished, removed>>

\* Fault: consuming_ is cleared without looking for more data.
HasConsumedStops ==
    /\ pc["writer"] = "idle" /\ write.st = "ok" /\ ~write.last /\ buf = "none"
    /\ consumed' = consumed + write.items /\ consuming' = FALSE
    /\ write' = NoWrite
    /\ UNCHANGED <<attached, completed, produced, buf, prot, pc, wire, finished, removed>>

\* What has_consumed() does when the first k items of the buffer were written.
Continue(k) ==
    /\ consumed' = consumed + k
    /\ OnProduce(consumed + k, Buffered - k, FALSE)

\* has_consumed(): the items are erased, and what came meanwhile is written.
HasConsumed ==
    /\ pc["writer"] = "idle" /\ write.st = "ok" /\ ~write.last /\ buf = "none"
    /\ IF Buffered > write.items
       THEN Continue(write.items)
       ELSE /\ consumed' = consumed + write.items
            /\ consuming' = FALSE /\ write' = NoWrite /\ UNCHANGED wire
    /\ UNCHANGED <<attached, completed, produced, buf, prot, pc, finished, removed>>

\* Fault: the connection is not ended after the production.
EndProductionOnly ==
    /\ pc["writer"] = "idle" /\ prot = "none"
    /\ (write.last /\ write.st \in {"ok", "err"}) \/ write.st = "err"
    /\ attached' = "gone" /\ finished' = finished + 1
    /\ write' = NoWrite
    /\ UNCHANGED <<consuming, completed, produced, consumed, buf, prot, pc, wire, removed>>

\* Fault: consuming_ is cleared, as after any chunk, and the consumer stays.
EndProductionDetachesNot ==
    /\ pc["writer"] = "idle" /\ prot = "none"
    /\ (write.last /\ write.st \in {"ok", "err"}) \/ write.st = "err"
    /\ consuming' = FALSE /\ finished' = finished + 1 /\ removed' = TRUE
    /\ write' = NoWrite
    /\ UNCHANGED <<attached, completed, produced, consumed, buf, prot, pc, wire>>

\* The handler of the last chunk, or of a chunk that could not be written:
\* end_production() and, when on_finish_ has returned, end().
EndProduction ==
    /\ pc["writer"] = "idle" /\ prot = "none"
    /\ (write.last /\ write.st \in {"ok", "err"}) \/ write.st = "err"
    /\ attached' = "gone" /\ finished' = finished + 1
    /\ IF "joinsProducer" \in app
       THEN prot' = "writer" /\ pc' = [pc EXCEPT !["writer"] = "joining"] /\ UNCHANGED removed
       ELSE removed' = TRUE /\ UNCHANGED <<prot, pc>>
    /\ write' = NoWrite
    /\ UNCHANGED <<consuming, completed, produced, consumed, buf, wire>>

\* on_finish_ has joined the application's thread.
Joined ==
    /\ pc["writer"] = "joining" /\ pc["producer"] \in {"left", "threw"}
    /\ prot' = "none" /\ removed' = TRUE
    /\ pc' = [pc EXCEPT !["writer"] = "idle"]
    /\ UNCHANGED <<producerVars, buf, write, wire, finished>>

-----------------------------------------------------------------------------
Init ==
    /\ app \in SUBSET Env
    /\ attached = "no" /\ consuming = FALSE /\ completed = FALSE
    /\ produced = 0 /\ consumed = 0
    /\ buf = "none" /\ prot = "none"
    /\ pc = [t \in {"producer", "starter", "writer"} |->
                IF t = "starter" THEN "header" ELSE "idle"]
    /\ write = NoWrite /\ wire = <<>> /\ finished = 0 /\ removed = FALSE

Calls(t) == Check(t) \/ HasConsumerAttached(t) \/ Enter(t) \/ Produce(t)

Handlers ==
    HeaderSent \/ HeaderFailed \/ StartProduction \/ HasConsumed \/ EndProduction \/ Joined

Next ==
    /\ \/ Push \/ Flush \/ Finish \/ Leave
       \/ \E t \in Callers : Calls(t)
       \/ Handlers \/ WriteCompletes
    /\ UNCHANGED app

Spec == Init /\ [][Next]_vars

\* Threads that can go on do so, and the io_context runs what is queued; a
\* write succeeds or fails in the end.  Nothing is assumed of when the
\* application pushes, flushes or finishes.
Fairness ==
    /\ \A t \in Callers : WF_state(Calls(t))
    /\ WF_state(Handlers) /\ WF_state(WriteCompletes) /\ WF_state(Leave)

FairSpec == Spec /\ Fairness

-----------------------------------------------------------------------------
(* Properties.                                                             *)

\* The type invariant.
TypeOK ==
    /\ app \subseteq Env /\ attached \in {"no", "yes", "gone"}
    /\ consuming \in BOOLEAN /\ completed \in BOOLEAN /\ removed \in BOOLEAN
    /\ produced \in 0 .. MaxItems /\ consumed \in 0 .. produced
    /\ buf \in {"none", "producer"} /\ prot \in {"none", "producer", "starter", "writer"}
    /\ pc \in [{"producer", "starter", "writer"} ->
                  {"idle", "header", "start", "check", "attached", "lock", "call",
                   "joining", "done", "left", "threw"}]
    /\ write \in Writes
    /\ wire \in Seq(Nat) /\ finished \in Nat

\* The application leaves the producer alone while start_production runs.
WaitsForStart == "racesStart" \notin app

\* What is written is what was pushed, in that order, nothing twice and nothing
\* left out in between, however pushes, completions and the start interleave;
\* and all of it before the last chunk, if finish() is called only once
\* everything is written.
WireInOrder ==
    /\ write.st # "clash" =>
          Len(wire) <= produced /\ \A i \in DOMAIN wire : wire[i] = i
    /\ WaitsForStart /\ "finishesEarly" \notin app /\ write.last => Len(wire) = produced

\* Chunks are written one after the other (http_connection_base::write must not
\* be called while another write is in progress), unless a push races
\* start_production.
OneWriteAtATime == WaitsForStart => write.st # "clash"

\* No wakeup is lost between a push and the completion of a write: when items
\* are buffered and nobody is writing, some thread is on its way to do so.
NoStalledItems ==
    attached = "yes" /\ ~consuming /\ Buffered > 0 =>
        \E t \in Callers : pc[t] \in {"start", "check", "attached", "lock"}

\* on_finish_ is called once, nothing is written after the last chunk, and
\* produced_data() does not call the on_produce_ that end_production emptied.
EndsOnce ==
    WaitsForStart =>
        /\ finished <= 1
        /\ \A t \in Callers :
              pc[t] # "threw" /\ (write.last \/ finished > 0 => pc[t] # "call")

\* A push, a flush and a finish return: the threads do not wait for each other's
\* mutexes (README.md:264-265 pushes from a thread of its own).
PushReturns ==
    pc["producer"] \in {"check", "attached", "lock", "call"}
        ~> pc["producer"] \in {"idle", "threw", "left"}

\* They do when no push races start_production and the finish callback does not
\* wait for the producer.
PatientPushReturns == WaitsForStart /\ "joinsProducer" \notin app => PushReturns

\* A production that finished is ended and its connection removed.
FinishedGetsRemoved == completed /\ attached # "no" ~> removed

\* It is when, besides, the finish callback does not wait for the producer.
LateFinishGetsRemoved ==
    WaitsForStart /\ app \cap {"finishesEarly", "joinsProducer"} = {} => FinishedGetsRemoved

=============================================================================
