---------------------------- MODULE BrotliStream ----------------------------
(***************************************************************************)
(* brotli_encoder as the producer of a chunked response: the application   *)
(* pushes bytes, the encoder turns them into bytes of output_, and the     *)
(* connection writes those that are available.  The encoder is reduced to  *)
(* a queue: every byte comes out once, in order, some time after it went   *)
(* in, and at once when it is flushed or finished and there is room.       *)
(* When there is not, it takes no input until all has come out.            *)
(*                                                                         *)
(* A step is what a thread does between two accesses to what it shares     *)
(* with the other: avail_, consuming_ and completed_, which no lock        *)
(* protects, and output_, which buffer_saver_ does.                        *)
(***************************************************************************)
EXTENDS Integers, Sequences

CONSTANTS
    MaxBytes,     \* bytes that the application pushes
    MinimumAvail, \* output_minimum_avail_
    SizeModulus,  \* 2^w for the w bits of size_t
    Env           \* what applications may do, of EnvChoices

\* The application uses the encoder on a thread of its own; it goes on before
\* what is available was consumed; it pushes more than the output has room for.
EnvChoices == {"otherThread", "pushesEarly", "pushesMuch"}

ASSUME BrotliAssumption ==
    /\ MaxBytes \in Nat /\ MinimumAvail \in Nat \ {0} /\ Env \subseteq EnvChoices
    /\ SizeModulus \in Nat /\ MaxBytes + 1 < SizeModulus

VARIABLES
    app,        \* what this application does, some of Env; never changes
    pushed,     \* bytes pushed; they are numbered in the order of the pushes
    input,      \* input_
    availIn,    \* avail_in_
    inside,     \* bytes that the encoder has not given out
    encoder,    \* "processing"; "flushing" or "finished": has to give out what it has
    output,     \* output_; a byte that was never written is 0
    overrun,    \* more was read or erased than output_ has: nothing is known then
    avail,      \* avail_
    completed,  \* completed_
    attached,   \* on_produce_ is set
    consuming,  \* consuming_
    locked,     \* the application's thread holds buffer_saver_
    todo,       \* what each thread has to do
    read,       \* what each thread has read from avail_
    write,      \* the write under way
    wire,       \* history: bytes written
    ended       \* end() was called

buffers == <<pushed, input, availIn, inside, encoder, output, overrun>>
flags == <<avail, completed, attached, consuming>>
state == <<buffers, flags, locked, todo, read, write, wire, ended>>
vars == <<app, state>>

Threads == {"user", "io"}

At(t, what) == todo[t] # <<>> /\ Head(todo[t]) = what
Go(t, steps) == todo' = [todo EXCEPT ![t] = steps \o Tail(@)]

NoWrite == [st |-> "idle", size |-> 0]
LastChunk == [st |-> "last", size |-> 0]
Chunk(n) == [st |-> "chunk", size |-> n]
Clash == [st |-> "clash", size |-> 0]

\* Without a thread of its own the application is called by the io_context.
Free(t) ==
    /\ todo[t] = <<>>
    /\ "otherThread" \in app \/ \A u \in Threads : todo[u] = <<>>

-----------------------------------------------------------------------------
(* push, flush and finish.                                                 *)

Process == <<"process", "addAvail", "check", "unlock">>
Flush == <<"flush", "addAvail", "check", "unlock">>
Finish == <<"finish", "addAvail", "check", "unlock">>

Ready ==
    /\ Free("user") /\ ~completed /\ ~ended
    /\ "pushesEarly" \in app \/ (attached /\ avail = 0)

\* Fault: the bytes are put behind what input_ holds.
pushBehind(n) ==
    /\ Ready /\ pushed + n <= MaxBytes
    /\ "pushesMuch" \in app \/ Len(inside) + availIn + n <= MinimumAvail
    /\ pushed' = pushed + n
    /\ input' = input \o [i \in 1 .. n |-> pushed + i]
    /\ availIn' = availIn + n
    /\ todo' = [todo EXCEPT !["user"] = Process]
    /\ UNCHANGED <<inside, encoder, output, overrun, flags, locked, read, write, wire, ended>>

\* bufferize_input: the bytes are copied to the front of input_, which grows.
push(n) ==
    /\ Ready /\ pushed + n <= MaxBytes
    /\ "pushesMuch" \in app \/ Len(inside) + availIn + n <= MinimumAvail
    /\ pushed' = pushed + n
    /\ input' = [i \in 1 .. Len(input) + n |-> IF i <= n THEN pushed + i
                                               ELSE IF i <= Len(input) THEN input[i] ELSE 0]
    /\ availIn' = availIn + n
    /\ todo' = [todo EXCEPT !["user"] = Process]
    /\ UNCHANGED <<inside, encoder, output, overrun, flags, locked, read, write, wire, ended>>

flush ==
    /\ Ready
    /\ todo' = [todo EXCEPT !["user"] = Flush \o <<"flushMore", "check">>]
    /\ UNCHANGED <<buffers, flags, locked, read, write, wire, ended>>

\* There must be room for the end of the stream, too.
finish ==
    /\ Ready
    /\ "pushesMuch" \in app \/ Len(inside) + availIn < MinimumAvail
    /\ todo' = [todo EXCEPT !["user"] = Finish \o <<"finishMore", "complete", "check">>]
    /\ UNCHANGED <<buffers, flags, locked, read, write, wire, ended>>

\* The loop of flush and finish: as long as input is left.
More(t) ==
    /\ At(t, "flushMore") \/ At(t, "finishMore")
    /\ Go(t, CASE availIn = 0 -> <<>>
               [] availIn # 0 /\ At(t, "flushMore") -> Flush \o <<"flushMore">>
               [] OTHER -> Finish \o <<"finishMore">>)
    /\ UNCHANGED <<buffers, flags, locked, read, write, wire, ended>>

\* reserve_output.
Reserved ==
    IF Len(output) < MinimumAvail THEN output \o [i \in 1 .. MinimumAvail |-> 0] ELSE output

\* What avail_ is after a calculation in size_t.
Wrapped(n) == n % SizeModulus

\* BrotliEncoderCompressStream refuses input while it has something to give out
\* that it was flushed or finished for.
Refuses == encoder # "processing" /\ availIn # 0

\* Otherwise k bytes of the input are taken and j are given out of n.  It stops
\* early only when the output is full; it may then have sealed what it has, which
\* it was flushed or finished for, or be still to do so.
Encodes(operation, k, j, n, sealed) ==
    /\ k <= availIn /\ j <= Len(Reserved) /\ j <= n
    /\ sealed => operation # "process" /\ encoder = "processing" /\ k = availIn
    /\ j < Len(Reserved) =>
           /\ k = availIn
           /\ operation # "process" \/ encoder # "processing" => j = n
           /\ operation # "process" /\ encoder = "processing" => sealed

AfterEncoding(operation, sealed, left) ==
    CASE sealed /\ operation = "finish" -> "finished"
      [] sealed /\ operation = "flush" /\ left > 0 -> "flushing"
      [] ~sealed /\ encoder = "flushing" /\ left = 0 -> "processing"
      [] OTHER -> encoder

\* push with its operation, up to the encoder's return.  The encoder reads from
\* the front of input_ and writes to the front of output_, always.  The end of the
\* stream is a byte of its own.
Compress(t) ==
    /\ ~Refuses
    /\ \E operation \in {"process", "flush", "finish"}, sealed \in BOOLEAN :
          /\ At(t, operation)
          /\ \E k, j \in 0 .. MaxBytes + 1 :
                 LET end == IF sealed /\ operation = "finish" THEN <<pushed + 1>> ELSE <<>>
                     all == inside \o SubSeq(input, 1, k) \o end
                 IN /\ Encodes(operation, k, j, Len(all), sealed)
                    /\ availIn' = availIn - k
                    /\ pushed' = pushed + Len(end)
                    /\ inside' = SubSeq(all, j + 1, Len(all))
                    /\ encoder' = AfterEncoding(operation, sealed, Len(all) - j)
                    /\ output' = [i \in DOMAIN Reserved |-> IF i <= j THEN all[i] ELSE Reserved[i]]
                    /\ read' = [read EXCEPT ![t] = Wrapped(avail + j)]
    /\ locked' = TRUE
    /\ Go(t, <<>>)
    /\ UNCHANGED <<input, overrun, flags, write, wire, ended>>

\* It returns false: production_failure takes the place of produced_data.
CompressFails(t) ==
    /\ Refuses /\ \E operation \in {"process", "flush", "finish"} : At(t, operation)
    /\ output' = Reserved
    /\ read' = [read EXCEPT ![t] = avail]
    /\ locked' = TRUE
    /\ todo' = [todo EXCEPT ![t] = <<"addAvail", "fail">> \o SubSeq(@, 4, Len(@))]
    /\ UNCHANGED <<pushed, input, availIn, inside, encoder, overrun, flags, write, wire, ended>>

\* avail_.store(avail_.load() + ...), in two steps with the one before.
AddAvail(t) ==
    /\ At(t, "addAvail")
    /\ avail' = read[t]
    /\ Go(t, <<>>)
    /\ UNCHANGED <<buffers, completed, attached, consuming, locked, read, write, wire, ended>>

Unlock(t) ==
    /\ At(t, "unlock")
    /\ locked' = FALSE
    /\ Go(t, <<>>)
    /\ UNCHANGED <<buffers, flags, read, write, wire, ended>>

Complete(t) ==
    /\ At(t, "complete")
    /\ completed' = TRUE
    /\ Go(t, <<>>)
    /\ UNCHANGED <<buffers, avail, attached, consuming, locked, read, write, wire, ended>>

-----------------------------------------------------------------------------
(* produced_data and on_produce_.                                          *)

\* produced_data.
Check(t) ==
    /\ At(t, "check")
    /\ Go(t, IF consuming \/ ~attached THEN <<>> ELSE <<"produce">>)
    /\ UNCHANGED <<buffers, flags, locked, read, write, wire, ended>>

Started(w) == write' = IF write.st \in {"idle", "done"} THEN w ELSE Clash

\* production_failure: on_produce_ of send_chunked writes the last chunk, whatever is
\* under way.  Called while it is not set, it throws out of the application's call.
Fail(t) ==
    /\ At(t, "fail")
    /\ IF attached
       THEN Started(LastChunk) /\ consuming' = TRUE /\ Go(t, <<>>)
       ELSE todo' = [todo EXCEPT ![t] = <<"unlock">>] /\ UNCHANGED <<write, consuming>>
    /\ UNCHANGED <<buffers, avail, completed, attached, locked, read, wire, ended>>

\* on_produce_ of send_chunked: the last chunk if the production is complete, else
\* what is available; with nothing available, has_consumed(0) says so.
Produce(t) ==
    /\ At(t, "produce") /\ (locked => t = "user")
    /\ CASE completed -> Started(LastChunk) /\ consuming' = TRUE /\ UNCHANGED <<wire, overrun>>
         [] ~completed /\ avail > Len(output) ->
              overrun' = TRUE /\ UNCHANGED <<write, consuming, wire>>
         [] ~completed /\ avail \in 1 .. Len(output) ->
              /\ Started(Chunk(avail)) /\ consuming' = TRUE
              /\ wire' = wire \o SubSeq(output, 1, avail)
              /\ UNCHANGED overrun
         [] OTHER -> consuming' = FALSE /\ UNCHANGED <<write, wire, overrun>>
    /\ Go(t, <<>>)
    /\ UNCHANGED <<pushed, input, availIn, inside, encoder, output,
                   avail, completed, attached, locked, read, ended>>

-----------------------------------------------------------------------------
(* The handlers of the response's writes.                                  *)

\* The header is sent: the consumer is attached, and start_production.
HeaderSent ==
    /\ Free("io") /\ ~attached /\ ~ended
    /\ attached' = TRUE
    /\ todo' = [todo EXCEPT !["io"] = IF avail > 0 THEN <<"check">> ELSE <<>>]
    /\ UNCHANGED <<buffers, avail, completed, consuming, locked, read, write, wire, ended>>

\* A chunk was written: has_consumed.
ChunkWritten ==
    /\ Free("io") /\ write.st = "chunk"
    /\ write' = [write EXCEPT !.st = "done"]
    /\ read' = [read EXCEPT !["io"] = Wrapped(avail - write.size)]
    /\ todo' = [todo EXCEPT !["io"] = <<"subAvail", "erase", "consumed", "last">>]
    /\ UNCHANGED <<buffers, flags, locked, wire, ended>>

SubAvail ==
    /\ At("io", "subAvail")
    /\ avail' = read["io"]
    /\ Go("io", <<>>)
    /\ UNCHANGED <<buffers, completed, attached, consuming, locked, read, write, wire, ended>>

Erase ==
    /\ At("io", "erase") /\ ~locked
    /\ output' = SubSeq(output, write.size + 1, Len(output))
    /\ overrun' = (write.size > Len(output))
    /\ Go("io", <<>>)
    /\ UNCHANGED <<pushed, input, availIn, inside, encoder, flags, locked, read, write, wire, ended>>

\* producer::has_consumed.
Consumed ==
    /\ At("io", "consumed")
    /\ IF avail > 0 THEN Go("io", <<"produce">>) /\ UNCHANGED consuming
                    ELSE Go("io", <<>>) /\ consuming' = FALSE
    /\ UNCHANGED <<buffers, avail, completed, attached, locked, read, write, wire, ended>>

\* Fault: that the production is complete is left to finish() to see.
LastNever ==
    /\ At("io", "last")
    /\ Go("io", <<>>)
    /\ UNCHANGED <<buffers, flags, locked, read, write, wire, ended>>

\* The rest of brotli_encoder::has_consumed.
Last ==
    /\ At("io", "last")
    /\ Go("io", IF ~consuming /\ completed THEN <<"check">> ELSE <<>>)
    /\ UNCHANGED <<buffers, flags, locked, read, write, wire, ended>>

\* The last chunk was written, or a write failed: end_production and end().
EndProduction ==
    /\ Free("io") /\ write.st \in {"chunk", "last"}
    /\ write' = [write EXCEPT !.st = IF @ = "last" THEN "idle" ELSE "failed"]
    /\ attached' = FALSE /\ ended' = TRUE
    /\ UNCHANGED <<buffers, avail, completed, consuming, locked, todo, read, wire>>

\* The header cannot be sent: end().
HeaderFails ==
    /\ Free("io") /\ ~attached /\ ~ended
    /\ ended' = TRUE /\ write' = [write EXCEPT !.st = "failed"]
    /\ UNCHANGED <<buffers, flags, locked, todo, read, wire>>

-----------------------------------------------------------------------------
Init ==
    /\ app \in SUBSET Env
    /\ pushed = 0 /\ input = <<>> /\ availIn = 0 /\ inside = <<>> /\ output = <<>>
    /\ encoder = "processing" /\ overrun = FALSE
    /\ avail = 0 /\ completed = FALSE /\ attached = FALSE /\ consuming = FALSE
    /\ locked = FALSE /\ todo = [t \in Threads |-> <<>>] /\ read = [t \in Threads |-> 0]
    /\ write = NoWrite /\ wire = <<>> /\ ended = FALSE

Calls(t) ==
    \/ More(t) \/ Compress(t) \/ CompressFails(t) \/ AddAvail(t) \/ Unlock(t) \/ Complete(t)
    \/ Check(t) \/ Fail(t) \/ Produce(t)

Handlers ==
    HeaderSent \/ HeaderFails \/ ChunkWritten \/ SubAvail \/ Erase \/ Consumed \/ Last
        \/ EndProduction

\* After an overrun nothing is known, and nothing modelled.
Next ==
    /\ ~overrun
    /\ \/ \E n \in 1 .. MaxBytes : push(n)
       \/ flush \/ finish
       \/ \E t \in Threads : Calls(t)
       \/ Handlers
    /\ UNCHANGED app

Spec == Init /\ [][Next]_vars

\* Threads go on, and writes are carried out.
FairSpec ==
    /\ Spec
    /\ \A t \in Threads : WF_state(~overrun /\ Calls(t))
    /\ WF_state(~overrun /\ Handlers)

-----------------------------------------------------------------------------
(* Properties.                                                             *)

InOrder == wire = [i \in 1 .. Len(wire) |-> i]

Whole == ended /\ write.st = "idle" => Len(wire) = pushed

\* No thread beside the handlers, and no more pushed than the output has room for.
Single == app \cap {"otherThread", "pushesMuch"} = {}

\* push(), has_consumed(): what is written is what was pushed, in order, nothing
\* twice and nothing left out, and all of it once the last chunk is written, and no
\* more is read or erased than output_ has; if the application waits until all is
\* consumed, and pushes no more than fits.  One chunk is written at a time, the last
\* one once, if finish() does not run beside the handler of a write, and the encoder
\* refuses nothing, which it may when more is pushed than fits.
PatientWireIsPushed ==
    /\ Single => write.st # "clash"
    /\ app = {} => InOrder /\ Whole /\ ~overrun

Finishing == \E i \in DOMAIN todo["user"] : todo["user"][i] = "complete"

\* finish(): it returns and the response is ended, whatever was available or being
\* written; except that an application that does not wait may have written more into
\* output_ than it has.
FinishedGetsEnded == Single /\ (Finishing \/ completed) ~> ended \/ overrun

=============================================================================
