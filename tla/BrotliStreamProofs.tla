------------------------- MODULE BrotliStreamProofs -------------------------
(***************************************************************************)
(* Proofs about the brotli encoder as a producer, for any number of bytes, *)
(* any room of the output and every application.                           *)
(***************************************************************************)
EXTENDS BrotliStream, SequenceTheorems, TLAPS

\* Steps of the calls of push, flush and finish, and of the handlers.
UserSteps == {"process", "flush", "finish", "addAvail", "check", "produce", "unlock",
              "flushMore", "finishMore", "complete", "fail"}
IoSteps == {"check", "produce", "subAvail", "erase", "consumed", "last"}

WriteStates == {"idle", "chunk", "last", "done", "failed", "clash"}

\* What size_t holds.
Sizes == 0 .. SizeModulus - 1

DataOK ==
    /\ pushed \in Nat /\ avail \in Sizes
    /\ input \in Seq(Nat) /\ availIn \in 0 .. Len(input)
    /\ inside \in Seq(Nat) /\ output \in Seq(Nat) /\ wire \in Seq(Nat)
    /\ read \in [Threads -> Sizes]
    /\ write \in [st : WriteStates, size : Nat]

FlagsOK ==
    /\ {completed, attached, consuming, locked, ended, overrun} \subseteq BOOLEAN
    /\ encoder \in {"processing", "flushing", "finished"}

StepsOK ==
    /\ todo \in [Threads -> Seq(UserSteps \cup IoSteps)]
    /\ todo["user"] \in Seq(UserSteps) /\ todo["io"] \in Seq(IoSteps)

TypeOK == app \subseteq Env /\ DataOK /\ FlagsOK /\ StepsOK

\* What a thread does next.
First(t) == IF todo[t] = <<>> THEN "none" ELSE Head(todo[t])

\* The steps of the handler of a write, as many as are left; only the first may
\* have become another.
HandlerFits(s) ==
    /\ Len(s) <= 4
    /\ \A i \in DOMAIN s :
           /\ Len(s) - i = 3 => s[i] = "subAvail"
           /\ Len(s) - i = 2 => s[i] = "erase"
           /\ Len(s) - i = 1 => s[i] = "consumed" \/ (i = 1 /\ s[i] = "produce")
           /\ Len(s) = i => s[i] = "last" \/ (i = 1 /\ s[i] \in {"check", "produce"})

\* Of a call of the application only the first step may have become another.
UserPlain == \A i \in DOMAIN todo["user"] : todo["user"][i] = "produce" => i = 1

\* One thread: a write is under way only while consuming_ says so, and nobody
\* is about to start another.
OneAtATime ==
    /\ todo["user"] = <<>> \/ todo["io"] = <<>>
    /\ HandlerFits(todo["io"])
    /\ UserPlain
    /\ write.st # "clash"
    /\ write.st \in {"chunk", "last"} => consuming
    /\ write.st = "failed" => ended
    /\ ended => ~attached
    /\ \A t \in Threads : First(t) = "produce" => write.st \in {"idle", "done"}
    /\ First("io") \in {"subAvail", "erase", "consumed"} => write.st = "done"

\* What is left of a call, counted from its last step.
PushPlan == <<"unlock", "check", "addAvail", "process">>
FlushPlan == <<"check", "flushMore", "unlock", "check", "addAvail", "flush">>
FinishPlan == <<"check", "complete", "finishMore", "unlock", "check", "addAvail", "finish">>

Follows(s, plan) ==
    /\ Len(s) <= Len(plan)
    /\ \A i \in DOMAIN s :
           \/ s[i] = plan[Len(s) + 1 - i]
           \/ i = 1 /\ s[i] = "produce" /\ plan[Len(s)] = "check"

Operations == {"process", "flush", "finish"}

\* A call goes on as it was begun, and nothing is refused.  finish() seals the stream
\* with its first step and leaves nothing inside the encoder.
Planned ==
    \/ /\ encoder = "processing" /\ ~completed
       /\ \/ Follows(todo["user"], PushPlan)
          \/ Follows(todo["user"], FlushPlan)
          \/ Follows(todo["user"], FinishPlan) /\ Len(todo["user"]) = 7
    \/ /\ encoder = "finished" /\ inside = <<>>
       /\ Follows(todo["user"], FinishPlan)
       /\ IF completed THEN Len(todo["user"]) \in 0 .. 1 ELSE Len(todo["user"]) \in 2 .. 6

\* There is room for what the encoder is given, so that it takes all of it at once.
Fits ==
    /\ Len(inside) + availIn <= MinimumAvail
    /\ availIn # 0 => First("user") = "process"
    /\ First("user") = "finish" => Len(inside) < MinimumAvail

\* What avail_ is about to be.
Available ==
    IF First("user") = "addAvail" THEN read["user"]
    ELSE IF First("io") = "subAvail" THEN read["io"] ELSE avail

\* No more is available than was pushed, and no more was written than is available:
\* the sizes do not wrap.
Counted ==
    /\ pushed <= MaxBytes + 1 /\ (encoder # "finished" => pushed <= MaxBytes)
    /\ Available + Len(inside) + availIn <= pushed
    /\ First("user") = "addAvail" => avail <= read["user"]
    /\ write.st = "chunk" => write.size <= avail

\* The application waits until all is consumed: the encoder takes in all it is
\* given, and what it gives out is written before more comes.
Waits ==
    /\ First("user") # "none" => attached /\ ~ended
    /\ First("io") # "none" => ~ended
    /\ First("io") \in {"check", "produce"} => Len(todo["io"]) = 1
    /\ ended => write.st \in {"idle", "failed"}
    /\ ~attached /\ ~ended => avail = 0
    /\ First("user") \in Operations \cup {"addAvail"} => avail = 0 /\ ~consuming
    /\ First("user") = "produce" => ~consuming
    /\ ~consuming /\ avail # 0 => First("user") \in {"check", "produce"}
    /\ First("io") = "subAvail" => read["io"] = 0
    /\ First("io") \notin {"none", "subAvail"} => avail = 0
    /\ First("io") \in {"subAvail", "erase", "consumed"} => consuming
    /\ First("io") \in {"last", "check", "produce"} => ~consuming
    /\ write.st = "chunk" => avail = write.size /\ avail # 0 /\ write.size <= Len(output)
    /\ First("io") \in {"subAvail", "erase"} => write.size <= Len(output)
    /\ write.st = "last" => completed
    /\ consuming /\ ~ended => \/ write.st \in {"chunk", "last"}
                              \/ First("io") \in {"subAvail", "erase", "consumed"}
    /\ completed => consuming \/ avail = 0

\* Bytes of output_ that no write has taken yet.
Unsent ==
    IF First("user") = "addAvail" THEN read["user"]
    ELSE IF consuming THEN 0 ELSE avail

\* Written, available, inside the encoder, in the input: the bytes in their order.
Numbered ==
    /\ \A i \in DOMAIN wire : wire[i] = i
    /\ Unsent <= Len(output)
    /\ \A i \in 1 .. Unsent : output[i] = Len(wire) + i
    /\ \A i \in DOMAIN inside : inside[i] = Len(wire) + Unsent + i
    /\ \A i \in 1 .. availIn : input[i] = Len(wire) + Unsent + Len(inside) + i
    /\ pushed = Len(wire) + Unsent + Len(inside) + availIn
    /\ ended /\ write.st = "idle" => Len(wire) = pushed
    /\ ~overrun

\* The inductive invariant.
IInv ==
    /\ TypeOK
    /\ Single => OneAtATime /\ Planned /\ Fits /\ Counted
    /\ app = {} => Waits /\ Numbered

-----------------------------------------------------------------------------
(* Sequences, element by element.                                          *)

\* What is left of a thread's steps when the first is replaced by others.
LEMMA Replaced ==
    ASSUME NEW S, NEW s \in Seq(S), s # <<>>, NEW p \in Seq(S), NEW r, r = p \o Tail(s)
    PROVE  /\ r \in Seq(S) /\ Len(r) = Len(p) + Len(s) - 1 /\ DOMAIN r = 1 .. Len(r)
           /\ Len(s) \in Nat \ {0} /\ Len(p) \in Nat /\ DOMAIN s = 1 .. Len(s) /\ Head(s) = s[1]
           /\ \A i \in DOMAIN r : r[i] = IF i <= Len(p) THEN p[i] ELSE s[i - Len(p) + 1]
<1>1. Len(s) \in Nat \ {0} /\ Len(p) \in Nat /\ DOMAIN s = 1 .. Len(s) /\ Head(s) = s[1]
  BY LenProperties, EmptySeq
<1>2. /\ Tail(s) \in Seq(S) /\ Len(Tail(s)) = Len(s) - 1
      /\ \A i \in 1 .. Len(Tail(s)) : Tail(s)[i] = s[i + 1]
  BY HeadTailProperties
<1>3. /\ r \in Seq(S) /\ Len(r) = Len(p) + Len(Tail(s))
      /\ \A i \in 1 .. Len(r) : r[i] = IF i <= Len(p) THEN p[i] ELSE Tail(s)[i - Len(p)]
  BY <1>2, ConcatProperties
<1>4. DOMAIN r = 1 .. Len(r)
  BY <1>3, LenProperties
<1>5. ASSUME NEW i \in DOMAIN r PROVE r[i] = IF i <= Len(p) THEN p[i] ELSE s[i - Len(p) + 1]
  <2>1. CASE i <= Len(p)
    BY <1>3, <1>4, <2>1
  <2>2. CASE ~(i <= Len(p))
    <3>1. i - Len(p) \in 1 .. Len(Tail(s))
      BY <1>1, <1>2, <1>3, <1>4, <2>2
    <3>2. QED
      BY <1>2, <1>3, <1>4, <2>2, <3>1
  <2>3. QED
    BY <2>1, <2>2
<1>6. QED
  BY <1>1, <1>2, <1>3, <1>4, <1>5

\* A thread that does its next step.
LEMMA Went ==
    ASSUME TypeOK, NEW t \in Threads, todo[t] # <<>>, NEW p, Go(t, p),
           \/ t = "user" /\ p \in Seq(UserSteps)
           \/ t = "io" /\ p \in Seq(IoSteps)
    PROVE  /\ todo' \in [Threads -> Seq(UserSteps \cup IoSteps)]
           /\ todo'["user"] \in Seq(UserSteps) /\ todo'["io"] \in Seq(IoSteps)
           /\ \A u \in Threads : u # t => todo'[u] = todo[u]
           /\ Len(todo'[t]) = Len(p) + Len(todo[t]) - 1
           /\ DOMAIN todo'[t] = 1 .. Len(todo'[t])
           /\ Len(todo[t]) \in Nat \ {0} /\ Len(p) \in Nat
           /\ DOMAIN todo[t] = 1 .. Len(todo[t]) /\ First(t) = todo[t][1]
           /\ \A i \in DOMAIN todo'[t] :
                  todo'[t][i] = IF i <= Len(p) THEN p[i] ELSE todo[t][i - Len(p) + 1]
<1> DEFINE S == IF t = "user" THEN UserSteps ELSE IoSteps
<1>1. todo[t] \in Seq(S) /\ p \in Seq(S)
  BY DEF TypeOK, DataOK, StepsOK, Threads
<1>2. todo'[t] = p \o Tail(todo[t]) /\ \A u \in Threads : u # t => todo'[u] = todo[u]
  BY DEF Go, TypeOK, DataOK, StepsOK
<1>3. todo'[t] \in Seq(S)
  BY <1>1, <1>2, Replaced
<1>4. \A q \in Seq(UserSteps) : q \in Seq(UserSteps \cup IoSteps)
  BY SeqMonotonic
<1>5. \A q \in Seq(IoSteps) : q \in Seq(UserSteps \cup IoSteps)
  BY SeqMonotonic
<1>6. todo'["user"] \in Seq(UserSteps) /\ todo'["io"] \in Seq(IoSteps)
  BY <1>2, <1>3 DEF TypeOK, DataOK, StepsOK, Threads
<1>7. todo' \in [Threads -> Seq(UserSteps \cup IoSteps)]
  <2>1. p \o Tail(todo[t]) \in Seq(UserSteps \cup IoSteps)
    BY <1>2, <1>4, <1>5, <1>6 DEF Threads
  <2>2. QED
    BY <2>1 DEF Go, TypeOK, DataOK, StepsOK
<1>8. First(t) = todo[t][1]
  BY <1>1, Replaced DEF First
<1>9. QED
  BY <1>1, <1>2, <1>6, <1>7, <1>8, Replaced

-----------------------------------------------------------------------------
(* The steps one by one.                                                   *)

\* Who has a step to do, and that there is one.
LEMMA Whose ==
    ASSUME TypeOK, NEW t \in Threads, NEW what, At(t, what)
    PROVE  /\ todo[t] # <<>> /\ First(t) = what
           /\ t = "user" => what \in UserSteps
           /\ t = "io" => what \in IoSteps
<1>1. todo[t] # <<>> /\ Head(todo[t]) = what
  BY DEF At
<1>2. todo["user"] \in Seq(UserSteps) /\ todo["io"] \in Seq(IoSteps)
  BY DEF TypeOK, DataOK, StepsOK
<1>3. QED
  BY <1>1, <1>2, HeadTailProperties DEF First

\* What reserve_output makes of the output.
LEMMA Reserves ==
    ASSUME BrotliAssumption, TypeOK
    PROVE  /\ Reserved \in Seq(Nat) /\ Len(Reserved) >= MinimumAvail
           /\ Len(Reserved) \in Nat /\ DOMAIN Reserved = 1 .. Len(Reserved)
<1>1. output \in Seq(Nat) /\ Len(output) \in Nat /\ MinimumAvail \in Nat
  BY LenProperties DEF TypeOK, DataOK, StepsOK, BrotliAssumption
<1> DEFINE zeros == [i \in 1 .. MinimumAvail |-> 0]
<1>2. zeros \in Seq(Nat) /\ Len(zeros) = MinimumAvail
  BY <1>1
<1> HIDE DEF zeros
<1>3. output \o zeros \in Seq(Nat) /\ Len(output \o zeros) = Len(output) + MinimumAvail
  BY <1>1, <1>2, ConcatProperties
<1>4. Reserved = IF Len(output) < MinimumAvail THEN output \o zeros ELSE output
  BY DEF Reserved, zeros
<1>5. QED
  BY <1>1, <1>3, <1>4, LenProperties

\* What size_t holds, and what it is after a calculation.
LEMMA Wraps ==
    ASSUME BrotliAssumption
    PROVE  /\ MaxBytes \in Nat /\ MinimumAvail \in Nat \ {0} /\ SizeModulus \in Nat
           /\ 0 \in Sizes /\ Sizes \subseteq Nat
           /\ \A a \in Int : Wrapped(a) \in Sizes
           /\ \A a \in Sizes : Wrapped(a) = a
           /\ \A a \in Nat : a <= MaxBytes + 1 => a \in Sizes
<1>1. /\ MaxBytes \in Nat /\ MinimumAvail \in Nat \ {0} /\ SizeModulus \in Nat
      /\ SizeModulus > 0 /\ MaxBytes + 1 < SizeModulus
  BY DEF BrotliAssumption
<1>2. ASSUME NEW m \in Nat, m > 0, NEW a \in Int
      PROVE  a % m \in 0 .. m - 1 /\ (a \in 0 .. m - 1 => a % m = a)
  BY <1>2
<1>3. \A a \in Int : Wrapped(a) \in Sizes /\ (a \in Sizes => Wrapped(a) = a)
  BY <1>1, <1>2 DEF Wrapped, Sizes
<1>4. 0 \in Sizes /\ Sizes \subseteq Nat /\ \A a \in Nat : a <= MaxBytes + 1 => a \in Sizes
  BY <1>1 DEF Sizes
<1>5. QED
  BY <1>1, <1>3, <1>4

\* What the encoder does: k bytes are taken in, the end is one more if the stream is
\* sealed (e), and of all these j are given out.
LEMMA Encoded ==
    ASSUME BrotliAssumption, TypeOK, NEW t \in Threads, Compress(t)
    PROVE  /\ t = "user" /\ First("user") \in Operations /\ (encoder = "processing" \/ availIn = 0)
           /\ encoder' \in {"processing", "flushing", "finished"}
           /\ \E k, j \in Nat, e \in {0, 1}, all \in Seq(Nat) :
                 /\ k <= availIn /\ j <= Len(all) /\ j <= Len(output')
                 /\ Len(all) = Len(inside) + k + e
                 /\ \A i \in 1 .. Len(inside) : all[i] = inside[i]
                 /\ \A i \in 1 .. k : all[Len(inside) + i] = input[i]
                 /\ e = 1 => all[Len(inside) + k + 1] = pushed + 1
                 /\ pushed' = pushed + e /\ availIn' = availIn - k
                 /\ inside' \in Seq(Nat) /\ Len(inside') = Len(all) - j
                 /\ \A i \in 1 .. Len(all) - j : inside'[i] = all[i + j]
                 /\ output' \in Seq(Nat) /\ Len(output') >= MinimumAvail
                 /\ \A i \in 1 .. j : output'[i] = all[i]
                 /\ read' = [read EXCEPT !["user"] = Wrapped(avail + j)]
                 /\ j < Len(output') => k = availIn
                 /\ j < Len(output') /\ First("user") # "process" => j = Len(all)
                 /\ j < Len(output') /\ First("user") = "finish" /\ encoder = "processing" => e = 1
                 /\ e = 1 => First("user") = "finish" /\ encoder' = "finished"
                 /\ First("user") = "process" /\ encoder = "processing" => encoder' = encoder
                 /\ First("user") = "flush" /\ encoder = "processing" /\ j = Len(all) =>
                        encoder' = encoder
<1>0. PICK operation \in Operations, sealed \in BOOLEAN :
        /\ At(t, operation)
        /\ \E k, j \in 0 .. MaxBytes + 1 :
               LET end == IF sealed /\ operation = "finish" THEN <<pushed + 1>> ELSE <<>>
                   all == inside \o SubSeq(input, 1, k) \o end
               IN /\ Encodes(operation, k, j, Len(all), sealed)
                  /\ availIn' = availIn - k
                  /\ pushed' = pushed + Len(end)
                  /\ inside' = SubSeq(all, j + 1, Len(all))
                  /\ encoder' = AfterEncoding(operation, sealed, Len(all) - j)
                  /\ output' = [i \in DOMAIN Reserved |-> IF i <= j THEN all[i] ELSE Reserved[i]]
                  /\ read' = [read EXCEPT ![t] = Wrapped(avail + j)]
  BY DEF Compress, Operations
<1>1. PICK k \in 0 .. MaxBytes + 1, j \in 0 .. MaxBytes + 1 :
        LET end == IF sealed /\ operation = "finish" THEN <<pushed + 1>> ELSE <<>>
            all == inside \o SubSeq(input, 1, k) \o end
        IN /\ Encodes(operation, k, j, Len(all), sealed)
           /\ availIn' = availIn - k
           /\ pushed' = pushed + Len(end)
           /\ inside' = SubSeq(all, j + 1, Len(all))
           /\ encoder' = AfterEncoding(operation, sealed, Len(all) - j)
           /\ output' = [i \in DOMAIN Reserved |-> IF i <= j THEN all[i] ELSE Reserved[i]]
           /\ read' = [read EXCEPT ![t] = Wrapped(avail + j)]
  BY <1>0, Zenon
<1>2. t = "user" /\ First("user") = operation
  BY <1>0, Whose DEF Operations, IoSteps, Threads
<1> DEFINE taken == SubSeq(input, 1, k)
           end == IF sealed /\ operation = "finish" THEN <<pushed + 1>> ELSE <<>>
           e == IF sealed /\ operation = "finish" THEN 1 ELSE 0
           front == inside \o taken
           all == front \o end
<1>3. /\ k \in Nat /\ j \in Nat /\ k <= availIn /\ j <= Len(Reserved) /\ j <= Len(all)
      /\ sealed => operation # "process" /\ encoder = "processing" /\ k = availIn
      /\ j < Len(Reserved) => k = availIn
      /\ j < Len(Reserved) /\ operation # "process" => j = Len(all)
      /\ j < Len(Reserved) /\ operation # "process" /\ encoder = "processing" => sealed
  <2>1. k \in Nat /\ j \in Nat
    BY <1>1, BrotliAssumption DEF BrotliAssumption
  <2>2. Encodes(operation, k, j, Len(all), sealed)
    BY <1>1, Zenon
  <2> HIDE DEF all
  <2>3. QED
    BY <2>1, <2>2, Zenon DEF Encodes
<1>4. /\ Len(inside) \in Nat /\ Len(input) \in Nat /\ k <= Len(input)
      /\ inside \in Seq(Nat) /\ input \in Seq(Nat) /\ availIn \in Nat /\ pushed \in Nat
  BY <1>3, LenProperties DEF TypeOK, DataOK, StepsOK
<1>5. taken \in Seq(Nat) /\ Len(taken) = k /\ \A i \in 1 .. k : taken[i] = input[i]
  <2>1. \A i \in 1 .. k : input[i] \in Nat
    BY <1>3, <1>4, ElementOfSeq
  <2>2. QED
    BY <1>3, <2>1, SubSeqProperties
<1>6. end \in Seq(Nat) /\ Len(end) = e /\ e \in {0, 1} /\ (e = 1 => end[1] = pushed + 1)
  <2>1. CASE sealed /\ operation = "finish"
    BY <1>4, <2>1
  <2>2. CASE ~(sealed /\ operation = "finish")
    BY <2>2, EmptySeq
  <2>3. QED
    BY <2>1, <2>2
<1>7. /\ front \in Seq(Nat) /\ Len(front) = Len(inside) + k
      /\ \A i \in 1 .. Len(inside) : front[i] = inside[i]
      /\ \A i \in 1 .. k : front[Len(inside) + i] = input[i]
  <2> HIDE DEF taken
  <2>1. /\ front \in Seq(Nat) /\ Len(front) = Len(inside) + Len(taken)
        /\ \A i \in 1 .. Len(inside) + Len(taken) :
             front[i] = IF i <= Len(inside) THEN inside[i] ELSE taken[i - Len(inside)]
    BY <1>4, <1>5, ConcatProperties
  <2> HIDE DEF front
  <2>2. Len(front) = Len(inside) + k
        /\ \A i \in 1 .. Len(inside) + k :
             front[i] = IF i <= Len(inside) THEN inside[i] ELSE taken[i - Len(inside)]
    BY <1>5, <2>1
  <2>3. ASSUME NEW i \in 1 .. k PROVE front[Len(inside) + i] = input[i]
    <3>1. PICK m \in Nat, n \in Nat : n = Len(inside) /\ m = n + i /\ m \in 1 .. n + k /\ ~(m <= n)
                                       /\ m - n = i
      <4>1. PICK n \in Nat : n = Len(inside)
        BY <1>4
      <4>2. k \in Nat
        BY <1>3
      <4>3. PICK m \in Nat : m = n + i
        BY <4>1, <4>2
      <4>4. m \in 1 .. n + k /\ ~(m <= n) /\ m - n = i
        BY <4>2, <4>3
      <4>5. QED
        BY <4>1, <4>3, <4>4
    <3>2. front[m] = taken[i]
      BY <2>2, <3>1
    <3>3. QED
      BY <1>5, <3>1, <3>2
  <2>4. ASSUME NEW i \in 1 .. Len(inside) PROVE front[i] = inside[i]
    <3>1. i \in 1 .. Len(inside) + k /\ i <= Len(inside)
      BY <1>3, <1>4
    <3>2. QED
      BY <2>2, <3>1
  <2>5. QED
    BY <2>1, <2>2, <2>3, <2>4
<1>8. /\ all \in Seq(Nat) /\ Len(all) = Len(inside) + k + e
      /\ \A i \in 1 .. Len(inside) : all[i] = inside[i]
      /\ \A i \in 1 .. k : all[Len(inside) + i] = input[i]
      /\ e = 1 => all[Len(inside) + k + 1] = pushed + 1
  <2> HIDE DEF taken, front, end, e
  <2>1. /\ all \in Seq(Nat) /\ Len(all) = Len(front) + Len(end)
        /\ \A i \in 1 .. Len(front) + Len(end) :
             all[i] = IF i <= Len(front) THEN front[i] ELSE end[i - Len(front)]
    BY <1>6, <1>7, ConcatProperties
  <2> HIDE DEF all
  <2>2. PICK n \in Nat : n = Len(inside) /\ Len(front) = n + k
    BY <1>4, <1>7
  <2>3. PICK x \in {0, 1} : x = e /\ Len(end) = x
    BY <1>6
  <2>4. Len(all) = n + k + x /\ \A i \in 1 .. n + k + x :
             all[i] = IF i <= n + k THEN front[i] ELSE end[i - (n + k)]
    BY <2>1, <2>2, <2>3
  <2>5. ASSUME NEW i \in 1 .. n + k PROVE all[i] = front[i]
    <3>1. i \in 1 .. n + k + x /\ i <= n + k
      BY <1>3, <2>3
    <3>2. QED
      BY <2>4, <3>1
  <2>6. ASSUME NEW i \in 1 .. n PROVE all[i] = inside[i]
    <3>1. i \in 1 .. n + k /\ i \in 1 .. Len(inside)
      BY <1>3, <2>2
    <3>2. QED
      BY <1>7, <2>5, <3>1
  <2>7. ASSUME NEW i \in 1 .. k PROVE all[n + i] = input[i]
    <3>1. n + i \in 1 .. n + k
      BY <1>3
    <3>2. front[n + i] = input[i]
      BY <1>7, <2>2
    <3>3. QED
      BY <2>5, <3>1, <3>2
  <2>8. x = 1 => all[n + k + 1] = pushed + 1
    <3>1. ASSUME x = 1 PROVE all[n + k + 1] = end[1]
      <4>1. PICK m \in Nat : m = n + k + 1 /\ m \in 1 .. n + k + x /\ ~(m <= n + k) /\ m - (n + k) = 1
        BY <1>3, <3>1
      <4>2. all[m] = end[1]
        BY <2>4, <4>1
      <4>3. QED
        BY <4>1, <4>2
    <3>2. QED
      BY <1>6, <2>3, <3>1
  <2>9. QED
    BY <2>1, <2>2, <2>3, <2>4, <2>6, <2>7, <2>8
<1>9. /\ availIn' = availIn - k /\ inside' = SubSeq(all, j + 1, Len(all))
      /\ output' = [i \in DOMAIN Reserved |-> IF i <= j THEN all[i] ELSE Reserved[i]]
      /\ read' = [read EXCEPT !["user"] = Wrapped(avail + j)]
      /\ pushed' = pushed + Len(end)
      /\ encoder' = AfterEncoding(operation, sealed, Len(all) - j)
  BY <1>1, <1>2
<1>10. pushed' = pushed + e
  BY <1>6, <1>9
<1>11. /\ encoder' \in {"processing", "flushing", "finished"}
       /\ e = 1 => operation = "finish" /\ encoder' = "finished"
       /\ operation = "process" /\ encoder = "processing" => encoder' = encoder
  <2> HIDE DEF taken, front, end, all
  <2>1. encoder \in {"processing", "flushing", "finished"}
    BY DEF TypeOK, FlagsOK
  <2>2. encoder' \in {"processing", "flushing", "finished"}
    BY <1>9, <2>1 DEF AfterEncoding
  <2>3. e = 1 => operation = "finish" /\ encoder' = "finished"
    BY <1>9 DEF AfterEncoding
  <2>4. operation = "process" /\ encoder = "processing" => encoder' = encoder
    BY <1>3, <1>9 DEF AfterEncoding
  <2>5. QED
    BY <2>2, <2>3, <2>4
<1>12. operation = "flush" /\ encoder = "processing" /\ j = Len(all) => encoder' = encoder
  <2>1. j = Len(all) => ~(Len(all) - j > 0)
    BY <1>3
  <2>2. QED
    BY <1>9, <2>1, Zenon DEF AfterEncoding
<1> HIDE DEF taken, front, end, all
<1>13. /\ inside' \in Seq(Nat) /\ Len(inside') = Len(all) - j
       /\ \A i \in 1 .. Len(all) - j : inside'[i] = all[i + j]
  <2>1. PICK n \in Nat : n = Len(all) /\ j <= n
    BY <1>3, <1>8, LenProperties
  <2>2. \A i \in j + 1 .. n : all[i] \in Nat
    BY <1>3, <1>8, <2>1, ElementOfSeq
  <2>3. /\ inside' \in Seq(Nat)
        /\ Len(inside') = IF j + 1 <= n THEN n - (j + 1) + 1 ELSE 0
        /\ \A i \in 1 .. n - (j + 1) + 1 : inside'[i] = all[(j + 1) + i - 1]
    BY <1>3, <1>9, <2>1, <2>2, SubSeqProperties
  <2>4. (IF j + 1 <= n THEN n - (j + 1) + 1 ELSE 0) = n - j
    BY <1>3, <2>1
  <2>5. ASSUME NEW i \in 1 .. n - j PROVE inside'[i] = all[i + j]
    <3>1. i \in 1 .. n - (j + 1) + 1 /\ (j + 1) + i - 1 = i + j
      BY <1>3, <2>1
    <3>2. inside'[i] = all[(j + 1) + i - 1]
      BY <2>3, <3>1
    <3>3. QED
      BY <3>1, <3>2
  <2>6. QED
    BY <2>1, <2>3, <2>4, <2>5
<1>14. /\ output' \in Seq(Nat) /\ Len(output') = Len(Reserved) /\ Len(Reserved) >= MinimumAvail
       /\ \A i \in 1 .. j : output'[i] = all[i]
  <2>1. ASSUME NEW i \in DOMAIN Reserved PROVE (IF i <= j THEN all[i] ELSE Reserved[i]) \in Nat
    <3>1. Reserved[i] \in Nat /\ i \in Nat \ {0}
      BY Reserves, ElementOfSeq
    <3>2. CASE i <= j
      <4>1. i \in 1 .. Len(all)
        BY <1>3, <1>8, <3>1, <3>2, LenProperties
      <4>2. all[i] \in Nat
        BY <1>8, <4>1, ElementOfSeq
      <4>3. QED
        BY <3>2, <4>2
    <3>3. QED
      BY <3>1, <3>2
  <2>2. output' \in [1 .. Len(Reserved) -> Nat]
    <3> DEFINE v(i) == IF i <= j THEN all[i] ELSE Reserved[i]
    <3>1. DOMAIN Reserved = 1 .. Len(Reserved)
      BY Reserves
    <3>2. output' = [i \in 1 .. Len(Reserved) |-> v(i)]
      BY <1>9, <3>1
    <3>3. \A i \in 1 .. Len(Reserved) : v(i) \in Nat
      BY <2>1, <3>1
    <3> HIDE DEF v
    <3>4. QED
      BY <3>2, <3>3
  <2>3. output' \in Seq(Nat) /\ Len(output') = Len(Reserved)
    <3>1. PICK n \in Nat : n = Len(Reserved)
      BY Reserves
    <3>2. output' \in [1 .. n -> Nat]
      BY <2>2, <3>1
    <3>3. output' \in Seq(Nat) /\ Len(output') = n
      BY <3>2
    <3>4. QED
      BY <3>1, <3>3
  <2>4. QED
    BY <1>3, <1>9, <2>3, Reserves
<1>15. /\ j <= Len(output')
       /\ j < Len(output') => k = availIn
       /\ j < Len(output') /\ operation # "process" => j = Len(all)
       /\ j < Len(output') /\ operation = "finish" /\ encoder = "processing" => e = 1
  BY <1>3, <1>14
<1>16. encoder = "processing" \/ availIn = 0
  BY DEF Compress, Refuses
<1> HIDE DEF e
<1>17. operation \in Operations /\ t = "user" /\ First("user") = operation /\ e \in {0, 1}
       /\ all \in Seq(Nat) /\ k \in Nat /\ j \in Nat
  BY <1>0, <1>2, <1>3, <1>6, <1>8
<1>18. /\ k <= availIn /\ j <= Len(all) /\ j <= Len(output')
       /\ Len(all) = Len(inside) + k + e
       /\ \A i \in 1 .. Len(inside) : all[i] = inside[i]
       /\ \A i \in 1 .. k : all[Len(inside) + i] = input[i]
       /\ e = 1 => all[Len(inside) + k + 1] = pushed + 1
       /\ pushed' = pushed + e /\ availIn' = availIn - k
       /\ inside' \in Seq(Nat) /\ Len(inside') = Len(all) - j
       /\ \A i \in 1 .. Len(all) - j : inside'[i] = all[i + j]
       /\ output' \in Seq(Nat) /\ Len(output') >= MinimumAvail
       /\ \A i \in 1 .. j : output'[i] = all[i]
       /\ read' = [read EXCEPT !["user"] = Wrapped(avail + j)]
       /\ j < Len(output') => k = availIn
       /\ j < Len(output') /\ First("user") # "process" => j = Len(all)
       /\ j < Len(output') /\ First("user") = "finish" /\ encoder = "processing" => e = 1
       /\ e = 1 => First("user") = "finish" /\ encoder' = "finished"
       /\ First("user") = "process" /\ encoder = "processing" => encoder' = encoder
       /\ First("user") = "flush" /\ encoder = "processing" /\ j = Len(all) => encoder' = encoder
  BY <1>3, <1>8, <1>9, <1>10, <1>11, <1>12, <1>13, <1>14, <1>15, <1>17, Zenon
<1>19. QED
  BY <1>11, <1>16, <1>17, <1>18

\* The data keep their types.
LEMMA DataStep ==
    ASSUME BrotliAssumption, TypeOK, Next
    PROVE  DataOK'
<1>1. /\ Len(input) \in Nat /\ availIn \in 0 .. Len(input) /\ MaxBytes \in Nat
      /\ pushed \in Nat /\ avail \in Sizes /\ avail \in Nat /\ input \in Seq(Nat)
      /\ read \in [Threads -> Sizes] /\ {"user", "io"} = Threads
      /\ \A n \in Int : Wrapped(n) \in Sizes
  BY LenProperties, Wraps DEF TypeOK, DataOK, BrotliAssumption, Threads
<1>2. write.st \in WriteStates /\ write.size \in Nat
  BY DEF TypeOK, DataOK
<1>3. ASSUME NEW n \in 1 .. MaxBytes, push(n) PROVE DataOK'
  <2> DEFINE e(i) == IF i <= n THEN pushed + i ELSE IF i <= Len(input) THEN input[i] ELSE 0
  <2>1. ASSUME NEW i \in 1 .. Len(input) + n PROVE e(i) \in Nat
    <3>1. CASE i <= n
      BY <1>1, <1>3, <3>1
    <3>2. CASE ~(i <= n) /\ i <= Len(input)
      <4>1. i \in 1 .. Len(input)
        BY <1>1, <1>3, <3>2
      <4>2. QED
        BY <1>1, <3>2, <4>1, ElementOfSeq
    <3>3. QED
      BY <3>1, <3>2
  <2>2. input' = [i \in 1 .. Len(input) + n |-> e(i)]
    BY <1>3 DEF push
  <2> HIDE DEF e
  <2>3. input' \in [1 .. Len(input) + n -> Nat]
    BY <2>1, <2>2
  <2>4. input' \in Seq(Nat) /\ Len(input') = Len(input) + n
    <3>1. PICK m \in Nat : m = Len(input) + n
      BY <1>1
    <3>2. QED
      BY <2>3, <3>1
  <2>5. pushed' \in Nat /\ availIn' \in 0 .. Len(input')
    BY <1>1, <1>3, <2>4 DEF push
  <2>6. UNCHANGED <<inside, output, avail, read, write, wire>>
    BY <1>3 DEF push, flags
  <2>7. QED
    BY <2>4, <2>5, <2>6 DEF TypeOK, DataOK
<1>4. ASSUME flush \/ finish \/ \E t \in Threads : More(t) \/ Unlock(t) \/ Complete(t) \/ Check(t)
      PROVE  DataOK'
  BY <1>4 DEF flush, finish, More, Unlock, Complete, Check, buffers, flags, TypeOK, DataOK
<1>5. ASSUME NEW t \in Threads, CompressFails(t) PROVE DataOK'
  <2>1. output' \in Seq(Nat)
    BY <1>5, Reserves DEF CompressFails
  <2>2. read' = [read EXCEPT ![t] = avail] /\ UNCHANGED <<pushed, input, availIn, inside, avail, write, wire>>
    BY <1>5 DEF CompressFails, flags
  <2>3. read' \in [Threads -> Sizes]
    BY <1>1, <2>2
  <2>4. QED
    BY <2>1, <2>2, <2>3 DEF TypeOK, DataOK
<1>6. ASSUME NEW t \in Threads, Compress(t) PROVE DataOK'
  <2>1. PICK k \in Nat, j \in Nat, e \in {0, 1}, all \in Seq(Nat) :
          /\ k <= availIn /\ availIn' = availIn - k /\ pushed' = pushed + e
          /\ inside' \in Seq(Nat) /\ output' \in Seq(Nat)
          /\ read' = [read EXCEPT !["user"] = Wrapped(avail + j)]
    BY <1>6, Encoded
  <2>2. availIn' \in 0 .. Len(input) /\ avail + j \in Int /\ pushed' \in Nat
    BY <1>1, <2>1
  <2>3. read' \in [Threads -> Sizes]
    <3>1. Wrapped(avail + j) \in Sizes
      BY <1>1, <2>2
    <3>2. QED
      BY <1>1, <2>1, <3>1
  <2>4. UNCHANGED <<input, avail, write, wire>>
    BY <1>6 DEF Compress, flags
  <2>5. QED
    BY <2>1, <2>2, <2>3, <2>4 DEF TypeOK, DataOK
<1>7. ASSUME NEW t \in Threads, AddAvail(t) PROVE DataOK'
  BY <1>1, <1>7 DEF AddAvail, buffers, TypeOK, DataOK
<1>8. ASSUME NEW t \in Threads, Produce(t) \/ Fail(t) PROVE DataOK'
  <2>1. write' \in [st : WriteStates, size : Nat]
    <3>1. write' = write \/ \E w \in {LastChunk, Chunk(avail)} : Started(w)
      BY <1>8 DEF Produce, Fail
    <3>2. {write, LastChunk, Chunk(avail), Clash} \subseteq [st : WriteStates, size : Nat]
      BY <1>1 DEF LastChunk, Chunk, Clash, WriteStates, TypeOK, DataOK
    <3>3. write' \in {write, LastChunk, Chunk(avail), Clash}
      BY <3>1 DEF Started
    <3>4. QED
      BY <3>2, <3>3
  <2>2. wire' \in Seq(Nat)
    <3> DEFINE taken == SubSeq(output, 1, avail)
    <3>1. avail <= Len(output) => taken \in Seq(Nat)
      <4>1. Len(output) \in Nat /\ output \in Seq(Nat)
        BY LenProperties DEF TypeOK, DataOK
      <4>2. ASSUME avail <= Len(output) PROVE \A i \in 1 .. avail : output[i] \in Nat
        <5>1. \A i \in 1 .. avail : i \in 1 .. Len(output)
          BY <1>1, <4>1, <4>2
        <5>2. QED
          BY <4>1, <5>1, ElementOfSeq
      <4>3. QED
        BY <1>1, <4>2, SubSeqProperties
    <3>2. wire' = wire \/ (avail <= Len(output) /\ wire' = wire \o taken)
      BY <1>8 DEF Produce, Fail
    <3> HIDE DEF taken
    <3>3. wire \in Seq(Nat)
      BY DEF TypeOK, DataOK
    <3>4. avail <= Len(output) => wire \o taken \in Seq(Nat)
      BY <3>1, <3>3, ConcatProperties
    <3>5. QED
      BY <3>2, <3>3, <3>4
  <2>3. UNCHANGED <<pushed, input, availIn, inside, output, avail, read>>
    BY <1>8 DEF Produce, Fail, buffers
  <2>4. QED
    BY <2>1, <2>2, <2>3 DEF TypeOK, DataOK
<1>9. ASSUME HeaderSent \/ Consumed \/ Last PROVE DataOK'
  BY <1>9 DEF HeaderSent, Consumed, Last, buffers, flags, TypeOK, DataOK
<1>10. ASSUME ChunkWritten \/ EndProduction \/ HeaderFails PROVE DataOK'
  <2>1. write' \in [st : WriteStates, size : Nat]
    <3>1. PICK s \in WriteStates : write' = [write EXCEPT !.st = s]
      BY <1>10 DEF ChunkWritten, EndProduction, HeaderFails, WriteStates
    <3>2. QED
      BY <3>1 DEF TypeOK, DataOK
  <2>2. read' \in [Threads -> Sizes]
    <3>1. avail - write.size \in Int
      BY <1>1, <1>2
    <3>2. read' = read \/ read' = [read EXCEPT !["io"] = Wrapped(avail - write.size)]
      BY <1>10 DEF ChunkWritten, EndProduction, HeaderFails
    <3>3. Wrapped(avail - write.size) \in Sizes
      BY <1>1, <3>1
    <3>4. QED
      BY <1>1, <3>2, <3>3
  <2>3. UNCHANGED <<buffers, avail, wire>>
    BY <1>10 DEF ChunkWritten, EndProduction, HeaderFails, flags
  <2>4. QED
    BY <2>1, <2>2, <2>3 DEF buffers, TypeOK, DataOK
<1>11. ASSUME SubAvail PROVE DataOK'
  <2>1. avail' \in Sizes
    BY <1>1, <1>11 DEF SubAvail
  <2>2. QED
    BY <1>11, <2>1 DEF SubAvail, buffers, TypeOK, DataOK
<1>12. ASSUME Erase PROVE DataOK'
  <2>1. output' \in Seq(Nat)
    <3>1. Len(output) \in Nat /\ write.size + 1 \in Nat \ {0}
      BY <1>2, LenProperties DEF TypeOK, DataOK
    <3>2. \A i \in write.size + 1 .. Len(output) : output[i] \in Nat
      BY <3>1, ElementOfSeq DEF TypeOK, DataOK
    <3>3. QED
      BY <1>12, <3>1, <3>2, SubSeqProperties DEF Erase
  <2>2. QED
    BY <1>12, <2>1 DEF Erase, flags, TypeOK, DataOK
<1>13. QED
  BY <1>3, <1>4, <1>5, <1>6, <1>7, <1>8, <1>9, <1>10, <1>11, <1>12 DEF Next, Calls, Handlers

\* The flags stay Boolean, and the encoder in one of its states.
LEMMA FlagsStep ==
    ASSUME BrotliAssumption, TypeOK, Next
    PROVE  FlagsOK'
<1>1. /\ completed \in BOOLEAN /\ attached \in BOOLEAN /\ consuming \in BOOLEAN
      /\ locked \in BOOLEAN /\ ended \in BOOLEAN /\ overrun \in BOOLEAN
      /\ encoder \in {"processing", "flushing", "finished"}
  BY DEF TypeOK, FlagsOK
<1>2. completed' \in {completed, TRUE}
  BY DEF Next, Calls, Handlers, push, flush, finish, More, Compress, CompressFails, AddAvail,
         Unlock, Complete, Check, Fail, Produce, HeaderSent, HeaderFails, ChunkWritten,
         SubAvail, Erase, Consumed, Last, EndProduction, buffers, flags
<1>3. attached' \in {attached, TRUE, FALSE}
  BY DEF Next, Calls, Handlers, push, flush, finish, More, Compress, CompressFails, AddAvail,
         Unlock, Complete, Check, Fail, Produce, HeaderSent, HeaderFails, ChunkWritten,
         SubAvail, Erase, Consumed, Last, EndProduction, buffers, flags
<1>4. consuming' \in {consuming, TRUE, FALSE}
  BY DEF Next, Calls, Handlers, push, flush, finish, More, Compress, CompressFails, AddAvail,
         Unlock, Complete, Check, Fail, Produce, HeaderSent, HeaderFails, ChunkWritten,
         SubAvail, Erase, Consumed, Last, EndProduction, buffers, flags
<1>5. locked' \in {locked, TRUE, FALSE}
  BY DEF Next, Calls, Handlers, push, flush, finish, More, Compress, CompressFails, AddAvail,
         Unlock, Complete, Check, Fail, Produce, HeaderSent, HeaderFails, ChunkWritten,
         SubAvail, Erase, Consumed, Last, EndProduction, buffers, flags
<1>6. ended' \in {ended, TRUE}
  BY DEF Next, Calls, Handlers, push, flush, finish, More, Compress, CompressFails, AddAvail,
         Unlock, Complete, Check, Fail, Produce, HeaderSent, HeaderFails, ChunkWritten,
         SubAvail, Erase, Consumed, Last, EndProduction, buffers, flags
<1>7. overrun' \in BOOLEAN
  <2>1. Erase => overrun' \in BOOLEAN
    BY DEF Erase
  <2>2. ~Erase => overrun' \in {overrun, TRUE}
    BY DEF Next, Calls, Handlers, push, flush, finish, More, Compress, CompressFails, AddAvail,
         Unlock, Complete, Check, Fail, Produce, HeaderSent, HeaderFails, ChunkWritten,
         SubAvail, Erase, Consumed, Last, EndProduction, buffers, flags
  <2>3. QED
    BY <1>1, <2>1, <2>2
<1>8. encoder' \in {"processing", "flushing", "finished"}
  <2>1. ASSUME NEW t \in Threads, Compress(t) PROVE encoder' \in {"processing", "flushing", "finished"}
    BY <2>1, Encoded, Zenon
  <2>2. (\A t \in Threads : ~Compress(t)) => encoder' = encoder
    BY DEF Next, Calls, Handlers, push, flush, finish, More, Compress, CompressFails, AddAvail,
         Unlock, Complete, Check, Fail, Produce, HeaderSent, HeaderFails, ChunkWritten,
         SubAvail, Erase, Consumed, Last, EndProduction, buffers, flags
  <2>3. QED
    BY <1>1, <2>1, <2>2
<1>9. QED
  BY <1>1, <1>2, <1>3, <1>4, <1>5, <1>6, <1>7, <1>8 DEF FlagsOK

\* The steps of flush and finish, one by one.
LEMMA Sequences ==
    /\ Process \in Seq(UserSteps) /\ Len(Process) = 4
    /\ Process[1] = "process" /\ Process[2] = "addAvail" /\ Process[3] = "check"
    /\ Process[4] = "unlock"
    /\ LET s == Flush \o <<"flushMore", "check">>
       IN /\ s \in Seq(UserSteps) /\ Len(s) = 6
          /\ s[1] = "flush" /\ s[2] = "addAvail" /\ s[3] = "check" /\ s[4] = "unlock"
          /\ s[5] = "flushMore" /\ s[6] = "check"
    /\ LET s == Finish \o <<"finishMore", "complete", "check">>
       IN /\ s \in Seq(UserSteps) /\ Len(s) = 7
          /\ s[1] = "finish" /\ s[2] = "addAvail" /\ s[3] = "check" /\ s[4] = "unlock"
          /\ s[5] = "finishMore" /\ s[6] = "complete" /\ s[7] = "check"
<1>1. /\ Process \in Seq(UserSteps) /\ Len(Process) = 4
      /\ Process[1] = "process" /\ Process[2] = "addAvail" /\ Process[3] = "check"
      /\ Process[4] = "unlock"
  BY DEF Process, UserSteps
<1>2. /\ Flush \in Seq(UserSteps) /\ Len(Flush) = 4
      /\ Flush[1] = "flush" /\ Flush[2] = "addAvail" /\ Flush[3] = "check" /\ Flush[4] = "unlock"
  BY DEF Flush, UserSteps
<1>3. /\ Finish \in Seq(UserSteps) /\ Len(Finish) = 4
      /\ Finish[1] = "finish" /\ Finish[2] = "addAvail" /\ Finish[3] = "check" /\ Finish[4] = "unlock"
  BY DEF Finish, UserSteps
<1> DEFINE m == <<"flushMore", "check">>
           n == <<"finishMore", "complete", "check">>
           s == Flush \o m
           f == Finish \o n
<1>4. m \in Seq(UserSteps) /\ Len(m) = 2 /\ m[1] = "flushMore" /\ m[2] = "check"
  BY DEF UserSteps
<1>5. n \in Seq(UserSteps) /\ Len(n) = 3 /\ n[1] = "finishMore" /\ n[2] = "complete" /\ n[3] = "check"
  BY DEF UserSteps
<1> HIDE DEF m, n
<1>6. /\ s \in Seq(UserSteps) /\ Len(s) = 6
      /\ \A i \in 1 .. 6 : s[i] = IF i <= 4 THEN Flush[i] ELSE m[i - 4]
  <2>1. /\ s \in Seq(UserSteps) /\ Len(s) = Len(Flush) + Len(m)
        /\ \A i \in 1 .. Len(Flush) + Len(m) :
               s[i] = IF i <= Len(Flush) THEN Flush[i] ELSE m[i - Len(Flush)]
    BY <1>2, <1>4, ConcatProperties
  <2> HIDE DEF s
  <2>2. QED
    BY <1>2, <1>4, <2>1
<1>7. /\ f \in Seq(UserSteps) /\ Len(f) = 7
      /\ \A i \in 1 .. 7 : f[i] = IF i <= 4 THEN Finish[i] ELSE n[i - 4]
  <2>1. /\ f \in Seq(UserSteps) /\ Len(f) = Len(Finish) + Len(n)
        /\ \A i \in 1 .. Len(Finish) + Len(n) :
               f[i] = IF i <= Len(Finish) THEN Finish[i] ELSE n[i - Len(Finish)]
    BY <1>3, <1>5, ConcatProperties
  <2> HIDE DEF f
  <2>2. QED
    BY <1>3, <1>5, <2>1
<1> HIDE DEF s, f
<1>8. /\ s[1] = "flush" /\ s[2] = "addAvail" /\ s[3] = "check" /\ s[4] = "unlock"
      /\ s[5] = "flushMore" /\ s[6] = "check"
  BY <1>2, <1>4, <1>6
<1>9. /\ f[1] = "finish" /\ f[2] = "addAvail" /\ f[3] = "check" /\ f[4] = "unlock"
      /\ f[5] = "finishMore" /\ f[6] = "complete" /\ f[7] = "check"
  BY <1>3, <1>5, <1>7
<1>10. QED
  BY <1>1, <1>6, <1>7, <1>8, <1>9 DEF s, f, m, n

\* What a step of the application puts before the rest of its call.
LEMMA UserWent ==
    ASSUME TypeOK, NEW t \in Threads,
           \/ More(t) \/ Compress(t) \/ AddAvail(t) \/ Unlock(t) \/ Complete(t)
    PROVE  /\ t = "user" /\ todo["user"] # <<>>
           /\ \E p \in Seq(UserSteps) :
                 /\ Go("user", p) /\ \A i \in DOMAIN p : p[i] # "produce"
                 /\ ~(More(t) /\ availIn # 0) => p = <<>>
<1>1. PICK what \in UserSteps \ IoSteps : At(t, what)
  BY DEF More, Compress, AddAvail, Unlock, Complete, IoSteps, UserSteps
<1>2. t = "user" /\ todo["user"] # <<>>
  BY <1>1, Whose DEF Threads
<1>3. CASE More(t) /\ availIn # 0
  <2> DEFINE m == <<"flushMore">>
             n == <<"finishMore">>
             a == Flush \o m
             b == Finish \o n
  <2>1. Go("user", a) \/ Go("user", b)
    BY <1>2, <1>3 DEF More
  <2>2. /\ Flush \in Seq(UserSteps) /\ Len(Flush) = 4
        /\ \A i \in 1 .. 4 : Flush[i] # "produce"
    BY DEF Flush, UserSteps
  <2>3. /\ Finish \in Seq(UserSteps) /\ Len(Finish) = 4
        /\ \A i \in 1 .. 4 : Finish[i] # "produce"
    BY DEF Finish, UserSteps
  <2>4. /\ m \in Seq(UserSteps) /\ Len(m) = 1 /\ m[1] = "flushMore"
        /\ n \in Seq(UserSteps) /\ Len(n) = 1 /\ n[1] = "finishMore"
    BY DEF UserSteps
  <2> HIDE DEF m, n
  <2>5. /\ a \in Seq(UserSteps) /\ Len(a) = 5
        /\ \A i \in 1 .. 5 : a[i] = IF i <= 4 THEN Flush[i] ELSE m[i - 4]
    <3>1. /\ a \in Seq(UserSteps) /\ Len(a) = Len(Flush) + Len(m)
          /\ \A i \in 1 .. Len(Flush) + Len(m) :
                 a[i] = IF i <= Len(Flush) THEN Flush[i] ELSE m[i - Len(Flush)]
      BY <2>2, <2>4, ConcatProperties
    <3> HIDE DEF a
    <3>2. QED
      BY <2>2, <2>4, <3>1
  <2>6. /\ b \in Seq(UserSteps) /\ Len(b) = 5
        /\ \A i \in 1 .. 5 : b[i] = IF i <= 4 THEN Finish[i] ELSE n[i - 4]
    <3>1. /\ b \in Seq(UserSteps) /\ Len(b) = Len(Finish) + Len(n)
          /\ \A i \in 1 .. Len(Finish) + Len(n) :
                 b[i] = IF i <= Len(Finish) THEN Finish[i] ELSE n[i - Len(Finish)]
      BY <2>3, <2>4, ConcatProperties
    <3> HIDE DEF b
    <3>2. QED
      BY <2>3, <2>4, <3>1
  <2> HIDE DEF a, b
  <2>7. \A i \in 1 .. 5 : a[i] # "produce" /\ b[i] # "produce"
    BY <2>2, <2>3, <2>4, <2>5, <2>6
  <2>8. DOMAIN a = 1 .. 5 /\ DOMAIN b = 1 .. 5
    BY <2>5, <2>6, LenProperties
  <2>9. QED
    BY <1>2, <1>3, <2>1, <2>5, <2>6, <2>7, <2>8
<1>4. CASE ~(More(t) /\ availIn # 0)
  <2>1. Go("user", <<>>)
    BY <1>2, <1>4 DEF More, Compress, AddAvail, Unlock, Complete
  <2>2. <<>> \in Seq(UserSteps) /\ \A i \in DOMAIN <<>> : FALSE
    BY EmptySeq, LenProperties
  <2>3. QED
    BY <1>2, <1>4, <2>1, <2>2
<1>5. QED
  BY <1>3, <1>4

\* What the other steps put there.
LEMMA OthersWent ==
    ASSUME TypeOK, NEW t \in Threads,
           \/ Check(t) \/ Produce(t)
           \/ t = "io" /\ (SubAvail \/ Erase \/ Consumed \/ Last)
    PROVE  /\ todo[t] # <<>>
           /\ \E p \in Seq({"check", "produce"}) :
                 /\ Go(t, p) /\ p \in Seq(UserSteps) /\ p \in Seq(IoSteps)
                 /\ p \in {<<>>, <<"check">>, <<"produce">>}
<1>1. todo[t] # <<>>
  BY DEF At, Check, Produce, SubAvail, Erase, Consumed, Last
<1>2. PICK p \in {<<>>, <<"check">>, <<"produce">>} : Go(t, p)
  BY DEF Check, Produce, SubAvail, Erase, Consumed, Last
<1>3. p \in Seq({"check", "produce"})
  <2>1. CASE p = <<>>
    BY <2>1, EmptySeq
  <2>2. CASE p = <<"check">>
    BY <2>2
  <2>3. CASE p = <<"produce">>
    BY <2>3
  <2>4. QED
    BY <1>2, <2>1, <2>2, <2>3
<1>4. p \in Seq(UserSteps) /\ p \in Seq(IoSteps)
  <2>1. {"check", "produce"} \subseteq UserSteps /\ {"check", "produce"} \subseteq IoSteps
    BY DEF UserSteps, IoSteps
  <2>2. QED
    BY <1>3, <2>1, SeqMonotonic
<1>5. QED
  BY <1>1, <1>2, <1>3, <1>4

\* The steps keep their types.
LEMMA StepsStep ==
    ASSUME TypeOK, Next
    PROVE  StepsOK'
<1> USE DEF Threads
<1>1. ASSUME NEW t \in Threads, NEW p, todo' = [todo EXCEPT ![t] = p],
             \/ t = "user" /\ p \in Seq(UserSteps)
             \/ t = "io" /\ p \in Seq(IoSteps)
      PROVE  StepsOK'
  <2>1. p \in Seq(UserSteps \cup IoSteps)
    BY <1>1, SeqMonotonic
  <2>2. QED
    BY <1>1, <2>1 DEF TypeOK, StepsOK
<1>2. ASSUME NEW n \in 1 .. MaxBytes, push(n) PROVE StepsOK'
  BY <1>1, <1>2, Sequences DEF push
<1>3. ASSUME flush PROVE StepsOK'
  BY <1>1, <1>3, Sequences DEF flush
<1>4. ASSUME finish PROVE StepsOK'
  BY <1>1, <1>4, Sequences DEF finish
<1>5. ASSUME NEW t \in Threads, More(t) \/ Compress(t) \/ AddAvail(t) \/ Unlock(t) \/ Complete(t)
      PROVE  StepsOK'
  BY <1>5, UserWent, Went DEF StepsOK
<1>6. ASSUME NEW t \in Threads, Check(t) \/ Produce(t) PROVE StepsOK'
  BY <1>6, OthersWent, Went DEF StepsOK
<1>a. ASSUME NEW t \in Threads, CompressFails(t) PROVE StepsOK'
  <2>1. PICK what \in UserSteps \ IoSteps : At(t, what)
    BY <1>a DEF CompressFails, UserSteps, IoSteps
  <2>2. t = "user"
    BY <2>1, Whose
  <2> DEFINE e == <<"addAvail", "fail">>
             s == todo["user"]
             r == SubSeq(s, 4, Len(s))
  <2>3. e \in Seq(UserSteps)
    BY DEF UserSteps
  <2>4. s \in Seq(UserSteps) /\ Len(s) \in Nat
    BY LenProperties DEF TypeOK, StepsOK
  <2>5. r \in Seq(UserSteps)
    <3>1. \A i \in 4 .. Len(s) : s[i] \in UserSteps
      BY <2>4, ElementOfSeq
    <3>2. QED
      BY <2>4, <3>1, SubSeqProperties
  <2>6. todo' = [todo EXCEPT !["user"] = e \o r]
    BY <1>a, <2>2 DEF CompressFails
  <2> HIDE DEF e, r
  <2>7. e \o r \in Seq(UserSteps)
    BY <2>3, <2>5, ConcatProperties
  <2>8. QED
    BY <1>1, <2>6, <2>7
<1>b. ASSUME NEW t \in Threads, Fail(t) PROVE StepsOK'
  <2>1. t = "user" /\ todo["user"] # <<>>
    BY <1>b, Whose DEF Fail, IoSteps
  <2>2. CASE attached
    <3>1. Go("user", <<>>) /\ <<>> \in Seq(UserSteps)
      BY <1>b, <2>1, <2>2, EmptySeq DEF Fail
    <3>2. QED
      BY <2>1, <3>1, Went DEF StepsOK
  <2>3. CASE ~attached
    <3>1. todo' = [todo EXCEPT !["user"] = <<"unlock">>] /\ <<"unlock">> \in Seq(UserSteps)
      BY <1>b, <2>1, <2>3 DEF Fail, UserSteps
    <3>2. QED
      BY <1>1, <3>1
  <2>4. QED
    BY <2>2, <2>3
<1>7. ASSUME SubAvail \/ Erase \/ Consumed \/ Last PROVE StepsOK'
  BY <1>7, OthersWent, Went DEF StepsOK
<1>8. ASSUME HeaderSent \/ ChunkWritten PROVE StepsOK'
  <2>1. PICK p \in {<<>>, <<"check">>, <<"subAvail", "erase", "consumed", "last">>} :
           todo' = [todo EXCEPT !["io"] = p]
    BY <1>8 DEF HeaderSent, ChunkWritten
  <2>2. p \in Seq(IoSteps)
    <3>1. <<>> \in Seq(IoSteps)
      BY EmptySeq
    <3>2. <<"check">> \in Seq(IoSteps)
      BY DEF IoSteps
    <3>3. <<"subAvail", "erase", "consumed", "last">> \in Seq(IoSteps)
      BY DEF IoSteps
    <3>4. QED
      BY <2>1, <3>1, <3>2, <3>3
  <2>3. QED
    BY <1>1, <2>1, <2>2
<1>9. ASSUME EndProduction \/ HeaderFails PROVE StepsOK'
  BY <1>9 DEF EndProduction, HeaderFails, TypeOK, StepsOK
<1>10. QED
  BY <1>2, <1>3, <1>4, <1>5, <1>6, <1>a, <1>b, <1>7, <1>8, <1>9 DEF Next, Calls, Handlers

\* For any number of bytes and every application the variables keep their types; of the
\* sizes this says no more than that they are what size_t holds, for they may wrap.
THEOREM TypeCorrect == Spec => []TypeOK
<1> USE BrotliAssumption
<1>1. Init => TypeOK
  <2>1. Init => DataOK
    BY Wraps DEF Init, DataOK, NoWrite, WriteStates, Threads
  <2>2. Init => FlagsOK
    BY DEF Init, FlagsOK
  <2>3. Init => StepsOK
    BY DEF Init, StepsOK, Threads
  <2>4. QED
    BY <2>1, <2>2, <2>3 DEF Init, TypeOK
<1>2. TypeOK /\ [Next]_vars => TypeOK'
  <2>1. TypeOK /\ Next => TypeOK'
    BY DataStep, FlagsStep, StepsStep DEF Next, TypeOK
  <2>2. TypeOK /\ UNCHANGED vars => TypeOK'
    BY DEF vars, state, buffers, flags, TypeOK, DataOK, FlagsOK, StepsOK
  <2>3. QED
    BY <2>1, <2>2
<1>3. QED
  BY <1>1, <1>2, PTL DEF Spec

-----------------------------------------------------------------------------
(* One thread.                                                             *)

\* What comes first, by the number of steps that are left.
LEMMA Firsts ==
    ASSUME NEW S, NEW t \in Threads, todo[t] \in Seq(S), "none" \notin S
    PROVE  /\ Len(todo[t]) \in Nat /\ DOMAIN todo[t] = 1 .. Len(todo[t])
           /\ First(t) = "none" <=> Len(todo[t]) = 0
           /\ Len(todo[t]) # 0 => First(t) = todo[t][1] /\ First(t) \in S
           /\ todo[t] = <<>> <=> Len(todo[t]) = 0
<1>1. Len(todo[t]) \in Nat /\ DOMAIN todo[t] = 1 .. Len(todo[t]) /\ Len(<<>>) = 0
  BY LenProperties, EmptySeq
<1>2. todo[t] = <<>> <=> Len(todo[t]) = 0
  BY EmptySeq
<1>3. CASE todo[t] = <<>>
  BY <1>1, <1>2, <1>3 DEF First
<1>4. CASE todo[t] # <<>>
  <2>1. Head(todo[t]) \in S /\ Head(todo[t]) = todo[t][1]
    BY <1>4, HeadTailProperties
  <2>2. QED
    BY <1>1, <1>2, <1>4, <2>1 DEF First
<1>5. QED
  BY <1>3, <1>4

\* The steps of the handler of a write, place by place.
LEMMA HandlerPlaces ==
    ASSUME NEW s, Len(s) \in Nat \ {0}, DOMAIN s = 1 .. Len(s), HandlerFits(s)
    PROVE  /\ Len(s) = 1 => s[1] \in {"last", "check", "produce"}
           /\ Len(s) = 2 => s[1] \in {"consumed", "produce"} /\ s[2] = "last"
           /\ Len(s) = 3 => s[1] = "erase" /\ s[2] = "consumed" /\ s[3] = "last"
           /\ Len(s) = 4 => /\ s[1] = "subAvail" /\ s[2] = "erase" /\ s[3] = "consumed"
                            /\ s[4] = "last"
           /\ Len(s) \in 1 .. 4
<1>1. Len(s) \in 1 .. 4
  BY DEF HandlerFits
<1>2. CASE Len(s) = 1
  BY <1>2 DEF HandlerFits
<1>3. CASE Len(s) = 2
  BY <1>3 DEF HandlerFits
<1>4. CASE Len(s) = 3
  BY <1>4 DEF HandlerFits
<1>5. CASE Len(s) = 4
  BY <1>5 DEF HandlerFits
<1>6. QED
  BY <1>1, <1>2, <1>3, <1>4, <1>5

\* The steps of the handlers in their order.
LEMMA HandlerWent ==
    ASSUME TypeOK, HandlerFits(todo["io"]), todo["io"] # <<>>, NEW p, Go("io", p),
           \/ p = <<>>
           \/ p = <<"check">> /\ First("io") = "last"
           \/ p = <<"produce">> /\ First("io") \in {"consumed", "check"}
    PROVE  /\ HandlerFits(todo'["io"]) /\ todo'["user"] = todo["user"]
           /\ First("io") = "subAvail" => First("io")' = "erase"
           /\ First("io") = "erase" => First("io")' = "consumed"
           /\ First("io") = "consumed" =>
                  First("io")' = IF p = <<>> THEN "last" ELSE "produce"
           /\ First("io") = "produce" => First("io")' \in {"none", "last"}
           /\ First("io") = "last" => First("io")' = IF p = <<>> THEN "none" ELSE "check"
           /\ First("io") = "check" => First("io")' = IF p = <<>> THEN "none" ELSE "produce"
           /\ First("io") \in {"check", "last"} => Len(todo'["io"]) = Len(p)
           /\ First("io") = "produce" /\ Len(todo["io"]) = 1 => First("io")' = "none"
<1> DEFINE s == todo["io"]
           r == todo'["io"]
<1>1. /\ p \in Seq(IoSteps) /\ Len(p) \in {0, 1}
      /\ p = <<>> <=> Len(p) = 0
      /\ Len(p) = 1 => \/ p[1] = "check" /\ First("io") = "last"
                       \/ p[1] = "produce" /\ First("io") \in {"consumed", "check"}
  <2>1. CASE p = <<>>
    BY <2>1, EmptySeq
  <2>2. CASE p = <<"check">>
    BY <2>2 DEF IoSteps
  <2>3. CASE p = <<"produce">>
    BY <2>3 DEF IoSteps
  <2>4. QED
    BY <2>1, <2>2, <2>3
<1>2. /\ r \in Seq(IoSteps) /\ todo'["user"] = todo["user"]
      /\ Len(r) = Len(p) + Len(s) - 1 /\ DOMAIN r = 1 .. Len(r)
      /\ Len(s) \in Nat \ {0} /\ DOMAIN s = 1 .. Len(s) /\ First("io") = s[1]
      /\ \A i \in DOMAIN r : r[i] = IF i <= Len(p) THEN p[i] ELSE s[i - Len(p) + 1]
  BY <1>1, Went DEF Threads
<1>3. /\ Len(s) = 1 => s[1] \in {"last", "check", "produce"}
      /\ Len(s) = 2 => s[1] \in {"consumed", "produce"} /\ s[2] = "last"
      /\ Len(s) = 3 => s[1] = "erase" /\ s[2] = "consumed" /\ s[3] = "last"
      /\ Len(s) = 4 => s[1] = "subAvail" /\ s[2] = "erase" /\ s[3] = "consumed" /\ s[4] = "last"
      /\ Len(s) \in 1 .. 4
  BY <1>2, HandlerPlaces
<1>4. /\ Len(r) # 0 => First("io")' = r[1]
      /\ Len(r) = 0 => First("io")' = "none"
  BY <1>2, EmptySeq, LenProperties DEF First
<1>5. Len(p) = 0 => \A i \in DOMAIN r : r[i] = s[i + 1]
  BY <1>2
<1>6. Len(p) = 1 => Len(r) = Len(s) /\ (\A i \in DOMAIN r : r[i] = IF i = 1 THEN p[1] ELSE s[i])
  BY <1>2
<1> HIDE DEF s, r
<1>7. /\ HandlerFits(r)
      /\ s[1] = "subAvail" => First("io")' = "erase"
      /\ s[1] = "erase" => First("io")' = "consumed"
      /\ s[1] = "consumed" => First("io")' = IF p = <<>> THEN "last" ELSE "produce"
      /\ s[1] = "produce" => First("io")' \in {"none", "last"}
      /\ s[1] = "last" => First("io")' = IF p = <<>> THEN "none" ELSE "check"
      /\ s[1] = "check" => First("io")' = IF p = <<>> THEN "none" ELSE "produce"
  <2>1. CASE Len(p) = 0
    <3>1. Len(r) = Len(s) - 1
      BY <1>2, <2>1
    <3>2. CASE Len(s) = 1
      BY <1>1, <1>2, <1>3, <1>4, <1>5, <2>1, <3>1, <3>2 DEF HandlerFits
    <3>3. CASE Len(s) = 2
      BY <1>1, <1>2, <1>3, <1>4, <1>5, <2>1, <3>1, <3>3 DEF HandlerFits
    <3>4. CASE Len(s) = 3
      BY <1>1, <1>2, <1>3, <1>4, <1>5, <2>1, <3>1, <3>4 DEF HandlerFits
    <3>5. CASE Len(s) = 4
      BY <1>1, <1>2, <1>3, <1>4, <1>5, <2>1, <3>1, <3>5 DEF HandlerFits
    <3>6. QED
      BY <1>3, <3>2, <3>3, <3>4, <3>5
  <2>2. CASE Len(p) = 1
    BY <1>1, <1>2, <1>3, <1>4, <1>6, <2>2 DEF HandlerFits
  <2>3. QED
    BY <1>1, <2>1, <2>2
<1>8. s[1] \in {"check", "last"} => Len(r) = Len(p)
  <2>1. s[1] \in {"check", "last"} => Len(s) = 1
    BY <1>3
  <2>2. ASSUME Len(s) = 1 PROVE Len(r) = Len(p)
    BY <1>1, <1>2, <2>2
  <2>3. QED
    BY <2>1, <2>2
<1>9. s[1] = "produce" /\ Len(s) = 1 => First("io")' = "none"
  <2>1. s[1] = "produce" => Len(p) = 0
    BY <1>1, <1>2
  <2>2. ASSUME Len(p) = 0, Len(s) = 1 PROVE Len(r) = 0
    BY <1>1, <1>2, <2>2
  <2>3. QED
    BY <1>4, <2>1, <2>2
<1>10. QED
  BY <1>2, <1>7, <1>8, <1>9 DEF s, r

\* UserPlain stays true.
LEMMA UserStaysPlain ==
    ASSUME TypeOK, UserPlain, todo["user"] # <<>>, NEW p \in Seq(UserSteps), Go("user", p),
           \A i \in DOMAIN p : p[i] = "produce" => i = 1
    PROVE  /\ UserPlain' /\ todo'["io"] = todo["io"]
           /\ First("user")' = "produce" => \E i \in DOMAIN p : p[i] = "produce"
<1> DEFINE s == todo["user"]
           r == todo'["user"]
<1>1. /\ r \in Seq(UserSteps) /\ todo'["io"] = todo["io"]
      /\ Len(r) = Len(p) + Len(s) - 1 /\ DOMAIN r = 1 .. Len(r)
      /\ Len(s) \in Nat \ {0} /\ DOMAIN s = 1 .. Len(s) /\ Len(p) \in Nat
      /\ \A i \in DOMAIN r : r[i] = IF i <= Len(p) THEN p[i] ELSE s[i - Len(p) + 1]
  BY Went DEF Threads
<1>2. DOMAIN p = 1 .. Len(p)
  BY LenProperties
<1>3. ASSUME NEW i \in DOMAIN r, r[i] = "produce" PROVE i = 1 /\ i \in DOMAIN p /\ p[i] = "produce"
  <2>1. CASE i <= Len(p)
    BY <1>1, <1>2, <1>3, <2>1
  <2>2. CASE ~(i <= Len(p))
    <3>1. PICK j \in Int : j = i - Len(p) + 1
      BY <1>1, <1>3
    <3>2. j \in DOMAIN s /\ j # 1
      BY <1>1, <1>3, <2>2, <3>1
    <3>3. s[j] = "produce"
      BY <1>1, <1>3, <2>2, <3>1
    <3>4. QED
      BY <3>2, <3>3 DEF UserPlain
  <2>3. QED
    BY <2>1, <2>2
<1>4. First("user")' = "produce" => 1 \in DOMAIN r /\ r[1] = "produce"
  BY <1>1, EmptySeq, LenProperties DEF First
<1>5. QED
  BY <1>1, <1>3, <1>4 DEF UserPlain

Plans == {PushPlan, FlushPlan, FinishPlan}

\* What follows what in a call.
LEMMA PlanOrder ==
    ASSUME NEW plan \in Plans
    PROVE  /\ Len(plan) \in {4, 6, 7} /\ plan[1] \in {"unlock", "check"}
           /\ \A n \in 1 .. Len(plan) : plan[n] \in UserSteps \ {"produce"}
           /\ \A n \in 2 .. Len(plan) :
                  /\ plan[n] \in Operations => plan[n - 1] = "addAvail"
                  /\ plan[n] = "addAvail" => plan[n - 1] = "check"
                  /\ plan[n] = "check" => plan[n - 1] = "unlock"
                  /\ plan[n] = "unlock" => plan[n - 1] \in {"flushMore", "finishMore"}
                  /\ plan[n] = "flushMore" => plan[n - 1] = "check"
                  /\ plan[n] = "finishMore" => plan[n - 1] = "complete"
                  /\ plan[n] = "complete" => plan[n - 1] = "check"
<1>1. CASE plan = PushPlan
  <2>1. /\ Len(plan) = 4 /\ plan[1] = "unlock" /\ plan[2] = "check" /\ plan[3] = "addAvail"
        /\ plan[4] = "process"
    BY <1>1 DEF PushPlan
  <2>2. QED
    BY <2>1 DEF UserSteps, Operations
<1>2. CASE plan = FlushPlan
  <2>1. /\ Len(plan) = 6 /\ plan[1] = "check" /\ plan[2] = "flushMore" /\ plan[3] = "unlock"
        /\ plan[4] = "check" /\ plan[5] = "addAvail" /\ plan[6] = "flush"
    BY <1>2 DEF FlushPlan
  <2>2. QED
    BY <2>1 DEF UserSteps, Operations
<1>3. CASE plan = FinishPlan
  <2>1. /\ Len(plan) = 7 /\ plan[1] = "check" /\ plan[2] = "complete" /\ plan[3] = "finishMore"
        /\ plan[4] = "unlock" /\ plan[5] = "check" /\ plan[6] = "addAvail" /\ plan[7] = "finish"
    BY <1>3 DEF FinishPlan
  <2>2. QED
    BY <2>1 DEF UserSteps, Operations
<1>4. QED
  BY <1>1, <1>2, <1>3 DEF Plans

\* The steps that are left, place by place.
LEMMA PlanPlaces ==
    ASSUME NEW plan \in Plans, NEW n \in Nat \ {0}, NEW s, Len(s) = n, DOMAIN s = 1 .. n,
           Follows(s, plan)
    PROVE  /\ n \in 1 .. 7 /\ n \in 1 .. Len(plan) /\ Len(plan) \in {4, 6, 7} /\ ((n < 7 /\ n \in 1 .. 6) \/ n = 7)
           /\ s[1] = plan[n] \/ (s[1] = "produce" /\ plan[n] = "check")
           /\ plan[n] \in UserSteps \ {"produce"}
           /\ n = 1 => s[1] \in {"unlock", "check", "produce"}
           /\ \A i \in 2 .. n : s[i] = plan[n + 1 - i]
           /\ n # 1 => s[2] = plan[n - 1] /\ n \in 2 .. Len(plan)
<1>1. /\ n <= Len(plan)
      /\ \A i \in 1 .. n : s[i] = plan[n + 1 - i] \/ (i = 1 /\ s[i] = "produce" /\ plan[n] = "check")
  BY Zenon DEF Follows
<1>2. Len(plan) \in {4, 6, 7} /\ plan[1] \in {"unlock", "check"}
      /\ \A i \in 1 .. Len(plan) : plan[i] \in UserSteps \ {"produce"}
  BY PlanOrder
<1>3. n \in 1 .. 7 /\ n \in 1 .. Len(plan)
  BY SMTT(30), <1>1, <1>2
<1>4. \A i \in 2 .. n : s[i] = plan[n + 1 - i]
  BY <1>1
<1>5. s[1] = plan[n] \/ (s[1] = "produce" /\ plan[n] = "check")
  <2>1. 1 \in 1 .. n /\ n + 1 - 1 = n
    OBVIOUS
  <2>2. QED
    BY <1>1, <2>1
<1>6. n # 1 => s[2] = plan[n - 1] /\ n \in 2 .. Len(plan)
  <2>1. n # 1 => 2 \in 2 .. n /\ n + 1 - 2 = n - 1
    OBVIOUS
  <2>2. QED
    BY <1>3, <1>4, <2>1
<1>7. n = 1 => s[1] \in {"unlock", "check", "produce"}
  BY <1>2, <1>5
<1>8. (n < 7 /\ n \in 1 .. 6) \/ n = 7
  BY <1>3
<1>9. QED
  BY <1>2, <1>3, <1>4, <1>5, <1>6, <1>7, <1>8

\* Without the first step it is what was left.
LEMMA PlanPops ==
    ASSUME NEW plan \in Plans, NEW n \in Nat \ {0}, NEW s, Len(s) = n, DOMAIN s = 1 .. n,
           Follows(s, plan), NEW r, Len(r) = n - 1, DOMAIN r = 1 .. n - 1,
           \A i \in 1 .. n - 1 : r[i] = s[i + 1]
    PROVE  Follows(r, plan)
<1>1. /\ n \in 1 .. Len(plan) /\ Len(plan) \in {4, 6, 7}
      /\ \A i \in 2 .. n : s[i] = plan[n + 1 - i]
  BY PlanPlaces
<1>2. ASSUME NEW i \in 1 .. n - 1 PROVE r[i] = plan[n - 1 + 1 - i]
  <2>1. i + 1 \in 2 .. n /\ n + 1 - (i + 1) = n - 1 + 1 - i
    OBVIOUS
  <2>2. QED
    BY <1>1, <2>1
<1>3. n - 1 <= Len(plan)
  BY <1>1
<1>4. QED
  BY <1>2, <1>3, Zenon DEF Follows

\* It is also what is left when the check has found on_produce_ to call.
LEMMA PlanTurns ==
    ASSUME NEW plan \in Plans, NEW n \in Nat \ {0}, NEW s, Len(s) = n, DOMAIN s = 1 .. n,
           Follows(s, plan), s[1] = "check", NEW r, Len(r) = n, DOMAIN r = 1 .. n,
           r[1] = "produce", \A i \in 2 .. n : r[i] = s[i]
    PROVE  Follows(r, plan)
<1>1. /\ n \in 1 .. Len(plan) /\ Len(plan) \in {4, 6, 7} /\ plan[n] = "check"
      /\ \A i \in 2 .. n : s[i] = plan[n + 1 - i]
  BY PlanPlaces
<1>2. \A i \in 1 .. n : r[i] = plan[n + 1 - i] \/ (i = 1 /\ r[i] = "produce" /\ plan[n] = "check")
  BY <1>1
<1>3. n <= Len(plan)
  BY <1>1
<1>4. QED
  BY <1>2, <1>3, Zenon DEF Follows

\* What follows what in the call under way.
LEMMA UserNext ==
    ASSUME TypeOK, NEW plan \in Plans, Follows(todo["user"], plan), todo["user"] # <<>>,
           NEW p \in Seq(UserSteps), Go("user", p), Len(p) \in {0, 1},
           Len(p) = 1 => p[1] = "produce" /\ First("user") = "check"
    PROVE  /\ Follows(todo'["user"], plan) /\ todo'["io"] = todo["io"]
           /\ Len(todo["user"]) \in 1 .. 7
           /\ (Len(todo["user"]) < 7 /\ Len(todo["user"]) \in 1 .. 6) \/ Len(todo["user"]) = 7
           /\ Len(todo'["user"]) = Len(todo["user"]) + Len(p) - 1
           /\ First("user") \in Operations => First("user")' = "addAvail"
           /\ First("user") = "addAvail" => First("user")' = "check"
           /\ First("user") = "check" /\ Len(p) = 1 => First("user")' = "produce"
           /\ First("user") = "check" /\ Len(p) = 0 => First("user")' \in {"none", "unlock"}
           /\ First("user") = "produce" => First("user")' \in {"none", "unlock"}
           /\ First("user") = "unlock" => First("user")' \in {"none", "flushMore", "finishMore"}
           /\ First("user") = "flushMore" => First("user")' = "check"
           /\ First("user") = "finishMore" => First("user")' = "complete"
           /\ First("user") = "complete" => First("user")' = "check"
<1> DEFINE s == todo["user"]
           r == todo'["user"]
           n == Len(s)
           m == Len(p)
<1>1. /\ todo'["io"] = todo["io"]
      /\ Len(r) = n - 1 + m /\ DOMAIN r = 1 .. n - 1 + m /\ r \in Seq(UserSteps)
      /\ n \in Nat \ {0} /\ DOMAIN s = 1 .. n /\ First("user") = s[1]
      /\ \A i \in DOMAIN r : r[i] = IF i <= m THEN p[i] ELSE s[i - m + 1]
  <2>1. m + n - 1 = n - 1 + m
    BY Went DEF Threads
  <2>2. QED
    BY <2>1, Went DEF Threads
<1>2. /\ Len(r) # 0 => First("user")' = r[1]
      /\ Len(r) = 0 => First("user")' = "none"
  BY <1>1, EmptySeq, LenProperties DEF First
<1>3. m = 0 => \A i \in 1 .. n - 1 : r[i] = s[i + 1]
  <2>1. ASSUME m = 0, NEW i \in 1 .. n - 1 PROVE r[i] = s[i + 1]
    <3>1. i \in DOMAIN r /\ ~(i <= m) /\ i - m + 1 = i + 1
      BY <1>1, <2>1
    <3>2. QED
      BY <1>1, <3>1
  <2>2. QED
    BY <2>1
<1>4. m = 1 => s[1] = "check" /\ r[1] = "produce" /\ \A i \in 2 .. n : r[i] = s[i]
  BY <1>1
<1>5. Follows(s, plan) /\ m \in {0, 1} /\ Len(s) = n
  OBVIOUS
<1> HIDE DEF s, r, n, m
<1>6. /\ Follows(r, plan) /\ n \in 1 .. 7 /\ ((n < 7 /\ n \in 1 .. 6) \/ n = 7)
      /\ s[1] = plan[n] \/ (s[1] = "produce" /\ plan[n] = "check")
      /\ plan[n] \in UserSteps \ {"produce"}
      /\ n = 1 => s[1] \in {"unlock", "check", "produce"}
      /\ n # 1 => s[2] = plan[n - 1] /\ n \in 2 .. Len(plan)
  <2>1. n \in Nat \ {0} /\ Len(s) = n /\ DOMAIN s = 1 .. n /\ Follows(s, plan)
    BY <1>1, <1>5
  <2>2. /\ n \in 1 .. 7 /\ plan[n] \in UserSteps \ {"produce"}
        /\ s[1] = plan[n] \/ (s[1] = "produce" /\ plan[n] = "check")
        /\ n = 1 => s[1] \in {"unlock", "check", "produce"}
        /\ n # 1 => s[2] = plan[n - 1] /\ n \in 2 .. Len(plan)
    BY <2>1, PlanPlaces
  <2>3. (n < 7 /\ n \in 1 .. 6) \/ n = 7
    BY <2>1, PlanPlaces
  <2>4. CASE m = 0
    <3>1. Len(r) = n - 1 /\ DOMAIN r = 1 .. n - 1
      BY <1>1, <2>4
    <3>2. Follows(r, plan)
      BY <1>3, <2>1, <2>4, <3>1, PlanPops, Zenon
    <3>3. QED
      BY <2>2, <2>3, <3>2
  <2>5. CASE m = 1
    <3>1. Len(r) = n /\ DOMAIN r = 1 .. n
      BY <1>1, <2>5
    <3>2. Follows(r, plan)
      BY <1>4, <2>1, <2>5, <3>1, PlanTurns, Zenon
    <3>3. QED
      BY <2>2, <2>3, <3>2
  <2>6. QED
    BY <1>5, <2>4, <2>5
<1>7. n # 1 => /\ s[2] = plan[n - 1]
               /\ plan[n] \in Operations => plan[n - 1] = "addAvail"
               /\ plan[n] = "addAvail" => plan[n - 1] = "check"
               /\ plan[n] = "check" => plan[n - 1] = "unlock"
               /\ plan[n] = "unlock" => plan[n - 1] \in {"flushMore", "finishMore"}
               /\ plan[n] = "flushMore" => plan[n - 1] = "check"
               /\ plan[n] = "finishMore" => plan[n - 1] = "complete"
               /\ plan[n] = "complete" => plan[n - 1] = "check"
  BY <1>6, PlanOrder
<1>8. m = 1 => First("user")' = "produce" /\ s[1] = "check"
  BY <1>1, <1>2, <1>4
<1>9. m = 0 /\ n = 1 => First("user")' = "none"
  BY <1>1, <1>2
<1>10. m = 0 /\ n # 1 => First("user")' = s[2]
  BY <1>1, <1>2, <1>3
<1>11. QED
  BY <1>1, <1>5, <1>6, <1>7, <1>8, <1>9, <1>10 DEF s, r, n, m, Operations

\* Where in a call its steps are.
LEMMA PlanSpots ==
    /\ Len(PushPlan) = 4 /\ \A n \in 1 .. 4 : PushPlan[n] \notin {"complete", "finish", "finishMore"}
    /\ Len(FlushPlan) = 6 /\ \A n \in 1 .. 6 : FlushPlan[n] \notin {"complete", "finish", "finishMore"}
    /\ Len(FinishPlan) = 7 /\ FinishPlan[7] = "finish" /\ FinishPlan[6] = "addAvail"
    /\ FinishPlan[1] = "check" /\ FinishPlan[2] = "complete"
    /\ \A n \in 1 .. 6 : FinishPlan[n] \notin Operations \cup {"flushMore"}
    /\ \A n \in 1 .. 5 : FinishPlan[n] # "addAvail"
    /\ \A n \in 1 .. 6 : FinishPlan[n] = "complete" => n = 2
<1>1. Len(PushPlan) = 4 /\ \A n \in 1 .. 4 : PushPlan[n] \notin {"complete", "finish", "finishMore"}
  BY DEF PushPlan
<1>2. Len(FlushPlan) = 6 /\ \A n \in 1 .. 6 : FlushPlan[n] \notin {"complete", "finish", "finishMore"}
  BY DEF FlushPlan
<1>3. /\ Len(FinishPlan) = 7 /\ FinishPlan[7] = "finish"
      /\ FinishPlan[1] = "check" /\ FinishPlan[2] = "complete" /\ FinishPlan[3] = "finishMore"
      /\ FinishPlan[4] = "unlock" /\ FinishPlan[5] = "check" /\ FinishPlan[6] = "addAvail"
  BY DEF FinishPlan
<1>4. \A n \in 1 .. 6 : FinishPlan[n] \notin Operations \cup {"flushMore"}
  BY <1>3 DEF Operations
<1>5. \A n \in 1 .. 6 : FinishPlan[n] = "complete" => n = 2
  BY <1>3
<1>6. \A n \in 1 .. 5 : FinishPlan[n] # "addAvail"
  BY <1>3
<1>7. QED
  BY <1>1, <1>2, <1>3, <1>4, <1>5, <1>6

\* The call under way: which it is, and how far it is.
LEMMA UnderWay ==
    ASSUME TypeOK, Planned, todo["user"] # <<>>
    PROVE  LET s == todo["user"]
               n == Len(todo["user"])
           IN \E plan \in Plans :
                 /\ Follows(s, plan) /\ First("user") = s[1] /\ DOMAIN s = 1 .. n
                 /\ n \in Nat \ {0} /\ n \in 1 .. 7 /\ n \in 1 .. Len(plan)
                 /\ First("user") = plan[n] \/ (First("user") = "produce" /\ plan[n] = "check")
                 /\ \/ /\ encoder = "processing" /\ ~completed
                       /\ \/ plan \in {PushPlan, FlushPlan}
                             /\ First("user") \notin {"complete", "finish", "finishMore"}
                          \/ plan = FinishPlan /\ n = 7 /\ First("user") = "finish"
                    \/ /\ encoder = "finished" /\ inside = <<>> /\ plan = FinishPlan
                       /\ n \in 1 .. 6 /\ First("user") \notin Operations \cup {"flushMore"}
                       /\ First("user") = "complete" <=> n = 2
                       /\ First("user") = "addAvail" <=> n = 6
                       /\ IF completed THEN n = 1 ELSE n \in 2 .. 6
                       /\ n = 1 => First("user") \in {"check", "produce"}
<1> DEFINE s == todo["user"]
           n == Len(todo["user"])
<1>1. n \in Nat \ {0} /\ DOMAIN s = 1 .. n /\ First("user") = s[1] /\ Len(s) = n
  <2>1. s \in Seq(UserSteps) /\ s # <<>>
    BY DEF TypeOK, StepsOK
  <2>2. n \in Nat /\ DOMAIN s = 1 .. n /\ n # 0 /\ Head(s) = s[1]
    BY <2>1, LenProperties, EmptySeq
  <2>3. First("user") = Head(s)
    BY DEF First
  <2>4. QED
    BY <2>2, <2>3
<1> HIDE DEF s, n
<1>2. ASSUME NEW plan \in Plans, Follows(s, plan)
      PROVE  /\ n \in 1 .. 7 /\ n \in 1 .. Len(plan)
             /\ First("user") = plan[n] \/ (First("user") = "produce" /\ plan[n] = "check")
  BY <1>1, <1>2, PlanPlaces
<1>3. PICK plan \in Plans :
        /\ Follows(s, plan)
        /\ \/ encoder = "processing" /\ ~completed /\ plan \in {PushPlan, FlushPlan}
           \/ encoder = "processing" /\ ~completed /\ plan = FinishPlan /\ n = 7
           \/ /\ encoder = "finished" /\ inside = <<>> /\ plan = FinishPlan
              /\ IF completed THEN n \in 0 .. 1 ELSE n \in 2 .. 6
  BY DEF Planned, Plans, n, s
<1>4. /\ n \in 1 .. 7 /\ n \in 1 .. Len(plan)
      /\ First("user") = plan[n] \/ (First("user") = "produce" /\ plan[n] = "check")
  BY <1>2, <1>3
<1>5. CASE encoder = "processing" /\ ~completed /\ plan \in {PushPlan, FlushPlan}
  <2>1. plan[n] \notin {"complete", "finish", "finishMore"}
    BY <1>4, <1>5, PlanSpots
  <2>2. QED
    BY <1>1, <1>3, <1>4, <1>5, <2>1 DEF n, s
<1>6. CASE encoder = "processing" /\ ~completed /\ plan = FinishPlan /\ n = 7
  <2>1. First("user") = "finish"
    BY <1>4, <1>6, PlanSpots
  <2>2. QED
    BY <1>1, <1>3, <1>4, <1>6, <2>1 DEF n, s
<1>7. CASE /\ encoder = "finished" /\ inside = <<>> /\ plan = FinishPlan
           /\ IF completed THEN n \in 0 .. 1 ELSE n \in 2 .. 6
  <2>1. n \in 1 .. 6 /\ (IF completed THEN n = 1 ELSE n \in 2 .. 6)
    BY <1>4, <1>7
  <2>2. plan[n] \notin Operations \cup {"flushMore"}
    BY <1>7, <2>1, PlanSpots
  <2>3. First("user") \notin Operations \cup {"flushMore"}
    BY <1>4, <2>2 DEF Operations
  <2>4. First("user") = "complete" <=> n = 2
    BY <1>4, <1>7, <2>1, PlanSpots
  <2>5. n = 1 => First("user") \in {"check", "produce"}
    BY <1>4, <1>7, PlanSpots
  <2>6. First("user") = "addAvail" <=> n = 6
    <3>1. n # 6 => plan[n] # "addAvail"
      <4>1. n # 6 => n \in 1 .. 5
        BY <2>1
      <4>2. QED
        BY <1>7, <4>1, PlanSpots
    <3>2. n = 6 => plan[n] = "addAvail"
      BY <1>7, PlanSpots
    <3>3. QED
      BY <1>4, <3>1, <3>2
  <2>7. QED
    BY <1>1, <1>3, <1>4, <1>7, <2>1, <2>3, <2>4, <2>5, <2>6 DEF n, s
<1>8. QED
  BY <1>3, <1>5, <1>6, <1>7

\* The encoder refuses nothing.
LEMMA NothingFails ==
    ASSUME TypeOK, Planned, Fits, NEW t \in Threads
    PROVE  ~CompressFails(t) /\ ~Fail(t)
<1>1. ASSUME CompressFails(t) PROVE FALSE
  <2>1. PICK operation \in Operations : At(t, operation)
    BY <1>1 DEF CompressFails, Operations
  <2>2. t = "user" /\ todo["user"] # <<>> /\ First("user") \in Operations
    BY <2>1, Whose DEF Operations, IoSteps, Threads
  <2>3. encoder = "processing"
    BY <2>2, UnderWay
  <2>4. QED
    BY <1>1, <2>3 DEF CompressFails, Refuses
<1>2. ASSUME Fail(t) PROVE FALSE
  <2>1. At(t, "fail")
    BY <1>2 DEF Fail
  <2>2. t = "user" /\ todo["user"] # <<>> /\ First("user") = "fail"
    BY <2>1, Whose DEF IoSteps, Threads
  <2>3. PICK plan \in Plans, n \in Nat :
          n \in 1 .. Len(plan) /\ (First("user") = plan[n] \/ First("user") = "produce")
    BY <2>2, UnderWay
  <2>4. \A plan1 \in Plans : \A m \in 1 .. Len(plan1) : plan1[m] # "fail"
    BY DEF Plans, PushPlan, FlushPlan, FinishPlan
  <2>5. QED
    BY <2>2, <2>3, <2>4
<1>3. QED
  BY <1>1, <1>2

\* A step of the one thread keeps one write at a time.
LEMMA OneAtATimeStep ==
    ASSUME Single, BrotliAssumption, TypeOK, OneAtATime, Planned, Fits, Next
    PROVE  OneAtATime'
<1>1. /\ "user" \in Threads /\ "io" \in Threads /\ \A t \in Threads : t \in {"user", "io"}
      /\ \A t \in Threads : Free(t) => todo["user"] = <<>> /\ todo["io"] = <<>>
      /\ todo["user"] \in Seq(UserSteps) /\ todo["io"] \in Seq(IoSteps)
      /\ DOMAIN todo = Threads
  BY DEF Threads, Free, Single, TypeOK, StepsOK
<1>2. "none" \notin UserSteps /\ "none" \notin IoSteps
  BY DEF UserSteps, IoSteps
<1>3. UNCHANGED app
  BY DEF Next
\* A call of the application begins.
<1>4. ASSUME NEW p \in Seq(UserSteps), Free("user"), todo' = [todo EXCEPT !["user"] = p],
             Len(p) # 0, \A i \in DOMAIN p : p[i] # "produce",
             UNCHANGED <<write, consuming, attached, ended>>
      PROVE  OneAtATime'
  <2>1. todo'["user"] = p /\ todo'["io"] = <<>> /\ todo["io"] = <<>>
    BY <1>1, <1>4
  <2>2. HandlerFits(todo'["io"]) /\ First("io")' = "none" /\ UserPlain'
    BY <1>1, <1>4, <2>1 DEF OneAtATime, First, UserPlain
  <2>3. First("user")' # "produce"
    <3>1. p # <<>> /\ 1 \in DOMAIN p /\ Head(p) = p[1]
      BY <1>4, EmptySeq, LenProperties
    <3>2. QED
      BY <1>4, <2>1, <3>1 DEF First
  <2>4. QED
    BY <1>1, <1>4, <2>1, <2>2, <2>3 DEF OneAtATime
<1>5. ASSUME NEW n \in 1 .. MaxBytes, push(n) PROVE OneAtATime'
  <2>1. Free("user") /\ todo' = [todo EXCEPT !["user"] = Process]
        /\ UNCHANGED <<write, consuming, attached, ended>>
    BY <1>5 DEF push, Ready, flags
  <2>2. \A i \in DOMAIN Process : Process[i] # "produce"
    <3>1. DOMAIN Process = 1 .. 4
      BY Sequences, LenProperties
    <3>2. QED
      BY <3>1, Sequences
  <2>3. QED
    BY <1>4, <2>1, <2>2, Sequences
<1>6. ASSUME flush PROVE OneAtATime'
  <2> DEFINE s == Flush \o <<"flushMore", "check">>
  <2>1. Free("user") /\ todo' = [todo EXCEPT !["user"] = s]
        /\ UNCHANGED <<write, consuming, attached, ended>>
    BY <1>6 DEF flush, Ready, flags
  <2>2. /\ s \in Seq(UserSteps) /\ Len(s) = 6
        /\ s[1] = "flush" /\ s[2] = "addAvail" /\ s[3] = "check" /\ s[4] = "unlock"
        /\ s[5] = "flushMore" /\ s[6] = "check"
    BY Sequences
  <2> HIDE DEF s
  <2>3. DOMAIN s = 1 .. 6
    BY <2>2, LenProperties
  <2>4. \A i \in DOMAIN s : s[i] # "produce"
    BY <2>2, <2>3
  <2>5. Len(s) # 0
    BY <2>2
  <2>6. QED
    BY <1>4, <2>1, <2>2, <2>4, <2>5, Zenon
<1>7. ASSUME finish PROVE OneAtATime'
  <2> DEFINE s == Finish \o <<"finishMore", "complete", "check">>
  <2>1. Free("user") /\ todo' = [todo EXCEPT !["user"] = s]
        /\ UNCHANGED <<write, consuming, attached, ended>>
    BY <1>7 DEF finish, Ready, flags
  <2>2. /\ s \in Seq(UserSteps) /\ Len(s) = 7
        /\ s[1] = "finish" /\ s[2] = "addAvail" /\ s[3] = "check" /\ s[4] = "unlock"
        /\ s[5] = "finishMore" /\ s[6] = "complete" /\ s[7] = "check"
    BY Sequences
  <2> HIDE DEF s
  <2>3. DOMAIN s = 1 .. 7
    BY <2>2, LenProperties
  <2>4. \A i \in DOMAIN s : s[i] # "produce"
    BY <2>2, <2>3
  <2>5. Len(s) # 0
    BY <2>2
  <2>6. QED
    BY <1>4, <2>1, <2>2, <2>4, <2>5, Zenon
<1>8. ASSUME NEW t \in Threads, More(t) \/ Compress(t) \/ AddAvail(t) \/ Unlock(t) \/ Complete(t)
      PROVE  OneAtATime'
  <2>1. PICK p \in Seq(UserSteps) :
           todo["user"] # <<>> /\ Go("user", p) /\ \A i \in DOMAIN p : p[i] # "produce"
    BY <1>8, UserWent
  <2>2. UserPlain' /\ todo'["io"] = todo["io"] /\ First("user")' # "produce" /\ todo["io"] = <<>>
    BY <2>1, UserStaysPlain DEF OneAtATime
  <2>3. UNCHANGED <<write, consuming, attached, ended>>
    BY <1>8 DEF More, Compress, AddAvail, Unlock, Complete, flags
  <2>4. First("io")' = "none"
    BY <2>2 DEF First
  <2>5. QED
    BY <1>1, <2>2, <2>3, <2>4 DEF OneAtATime
<1>9. ASSUME NEW t \in Threads, Check(t) PROVE OneAtATime'
  <2> DEFINE p == IF consuming \/ ~attached THEN <<>> ELSE <<"produce">>
  <2>1. /\ todo[t] # <<>> /\ First(t) = "check" /\ Go(t, p)
        /\ UNCHANGED <<write, consuming, attached, ended>>
    BY <1>9, Whose DEF Check, flags
  <2>2. p # <<>> => write.st \in {"idle", "done"}
    BY DEF OneAtATime, TypeOK, DataOK, WriteStates
  <2>3. CASE t = "user"
    <3>1. p \in Seq(UserSteps) /\ \A i \in DOMAIN p : i = 1
      <4>1. <<>> \in Seq(UserSteps) /\ \A i \in DOMAIN <<>> : i = 1
        BY EmptySeq, LenProperties
      <4>2. <<"produce">> \in Seq(UserSteps) /\ \A i \in DOMAIN <<"produce">> : i = 1
        BY DEF UserSteps
      <4>3. QED
        BY <4>1, <4>2
    <3>2. p = <<>> => \A i \in DOMAIN p : FALSE
      OBVIOUS
    <3> HIDE DEF p
    <3>3. /\ UserPlain' /\ todo'["io"] = todo["io"] /\ todo["io"] = <<>>
          /\ First("user")' = "produce" => p # <<>>
      BY <2>1, <2>3, <3>1, <3>2, UserStaysPlain DEF OneAtATime
    <3>4. First("io")' = "none"
      BY <3>3 DEF First
    <3>5. QED
      BY <1>1, <2>1, <2>2, <3>3, <3>4 DEF OneAtATime
  <2>4. CASE t = "io"
    <3>1. p = <<>> \/ p = <<"produce">>
      OBVIOUS
    <3> HIDE DEF p
    <3>2. /\ HandlerFits(todo'["io"]) /\ todo'["user"] = todo["user"] /\ todo["user"] = <<>>
          /\ First("io")' = IF p = <<>> THEN "none" ELSE "produce"
      BY <2>1, <2>4, <3>1, HandlerWent DEF OneAtATime
    <3>3. First("user")' = "none" /\ UserPlain'
      BY <3>2 DEF First, UserPlain, OneAtATime
    <3>4. QED
      BY <1>1, <2>1, <2>2, <3>2, <3>3 DEF OneAtATime
  <2>5. QED
    BY <1>1, <2>3, <2>4
<1>10. ASSUME NEW t \in Threads, Produce(t) PROVE OneAtATime'
  <2>1. /\ todo[t] # <<>> /\ First(t) = "produce" /\ Go(t, <<>>)
        /\ UNCHANGED <<attached, ended>>
    BY <1>10, Whose DEF Produce
  <2>2. write.st \in {"idle", "done"}
    BY <2>1 DEF OneAtATime
  <2>3. \/ write'.st \in {"chunk", "last"} /\ consuming'
        \/ write' = write
    BY <1>10, <2>2 DEF Produce, Started, LastChunk, Chunk
  <2>4. CASE t = "user"
    <3>1. <<>> \in Seq(UserSteps) /\ \A i \in DOMAIN <<>> : FALSE
      BY EmptySeq, LenProperties
    <3>2. /\ UserPlain' /\ todo'["io"] = todo["io"] /\ todo["io"] = <<>>
          /\ First("user")' # "produce"
      BY <2>1, <2>4, <3>1, UserStaysPlain DEF OneAtATime
    <3>3. First("io")' = "none"
      BY <3>2 DEF First
    <3>4. QED
      BY <1>1, <2>1, <2>2, <2>3, <3>2, <3>3 DEF OneAtATime
  <2>5. CASE t = "io"
    <3>1. /\ HandlerFits(todo'["io"]) /\ todo'["user"] = todo["user"] /\ todo["user"] = <<>>
          /\ First("io")' \in {"none", "last"}
      BY <2>1, <2>5, HandlerWent DEF OneAtATime
    <3>2. First("user")' = "none" /\ UserPlain'
      BY <3>1 DEF First, UserPlain, OneAtATime
    <3>3. QED
      BY <1>1, <2>1, <2>2, <2>3, <3>1, <3>2 DEF OneAtATime
  <2>6. QED
    BY <1>1, <2>4, <2>5
\* The handlers.
<1>11. ASSUME Free("io"), todo'["user"] = todo["user"]
       PROVE  First("user")' = "none" /\ UserPlain' /\ todo'["user"] = <<>>
  BY <1>1, <1>11 DEF First, UserPlain, OneAtATime
<1>12. ASSUME HeaderSent PROVE OneAtATime'
  <2>1. /\ Free("io") /\ todo'["user"] = todo["user"] /\ ~ended
        /\ todo'["io"] \in {<<>>, <<"check">>} /\ UNCHANGED <<write, consuming, ended>>
    BY <1>1, <1>12 DEF HeaderSent
  <2>2. HandlerFits(todo'["io"]) /\ First("io")' \in {"none", "check"}
    <3>1. CASE todo'["io"] = <<>>
      BY <3>1 DEF HandlerFits, First
    <3>2. CASE todo'["io"] = <<"check">>
      BY <3>2 DEF HandlerFits, First
    <3>3. QED
      BY <2>1, <3>1, <3>2
  <2>3. QED
    BY <1>1, <1>11, <2>1, <2>2 DEF OneAtATime
<1>13. ASSUME ChunkWritten PROVE OneAtATime'
  <2>1. /\ Free("io") /\ todo'["user"] = todo["user"]
        /\ todo'["io"] = <<"subAvail", "erase", "consumed", "last">>
        /\ UNCHANGED <<consuming, attached, ended>>
    BY <1>1, <1>13 DEF ChunkWritten, flags
  <2>2. write'.st = "done"
    BY <1>13 DEF ChunkWritten, TypeOK, DataOK
  <2>3. HandlerFits(todo'["io"]) /\ First("io")' = "subAvail"
    BY <2>1 DEF HandlerFits, First
  <2>4. QED
    BY <1>1, <1>11, <2>1, <2>2, <2>3 DEF OneAtATime
<1>14. ASSUME EndProduction \/ HeaderFails PROVE OneAtATime'
  <2>1. /\ Free("io") /\ UNCHANGED <<todo, consuming>> /\ ended' /\ ~attached'
    BY <1>14 DEF EndProduction, HeaderFails, flags
  <2>2. write'.st \in {"idle", "failed"}
    BY <1>14 DEF EndProduction, HeaderFails, TypeOK, DataOK
  <2>3. First("io")' = "none" /\ HandlerFits(todo'["io"])
    BY <1>1, <2>1 DEF First, OneAtATime
  <2>4. QED
    BY <1>1, <1>11, <2>1, <2>2, <2>3 DEF OneAtATime
<1>15. ASSUME SubAvail \/ Erase \/ Consumed \/ Last PROVE OneAtATime'
  <2>1. PICK p \in {<<>>, <<"check">>, <<"produce">>} :
          /\ todo["io"] # <<>> /\ Go("io", p)
          /\ First("io") \in {"subAvail", "erase", "consumed", "last"}
          /\ p = <<"check">> => First("io") = "last"
          /\ p = <<"produce">> => First("io") = "consumed"
    BY <1>1, <1>15, Whose DEF SubAvail, Erase, Consumed, Last
  <2>2. /\ HandlerFits(todo'["io"]) /\ todo'["user"] = todo["user"] /\ todo["user"] = <<>>
        /\ First("io") = "subAvail" => First("io")' = "erase"
        /\ First("io") = "erase" => First("io")' = "consumed"
        /\ First("io") = "consumed" => First("io")' \in {"last", "produce"}
        /\ First("io") = "last" => First("io")' \in {"none", "check"}
    BY <2>1, HandlerWent DEF OneAtATime
  <2>3. First("user")' = "none" /\ UserPlain'
    BY <2>2 DEF First, UserPlain, OneAtATime
  <2>4. /\ UNCHANGED <<write, attached, ended>>
        /\ consuming' = consuming \/ First("io") = "consumed"
    BY <1>1, <1>15, Whose DEF SubAvail, Erase, Consumed, Last, flags
  <2>5. QED
    BY <1>1, <2>1, <2>2, <2>3, <2>4 DEF OneAtATime
<1>16. QED
  BY <1>5, <1>6, <1>7, <1>8, <1>9, <1>10, <1>12, <1>13, <1>14, <1>15, NothingFails
     DEF Next, Calls, Handlers


-----------------------------------------------------------------------------
(* The calls, their sizes and their order.                                 *)

\* What a step of the call under way does to the encoder and to the stream.
Seals ==
    /\ First("user") = "finish" => encoder' = "finished" /\ inside' = <<>>
    /\ First("user") \in {"process", "flush"} => encoder' = encoder
    /\ First("user") \notin Operations => UNCHANGED <<encoder, inside>>
    /\ completed' = (completed \/ First("user") = "complete")

\* A step of the call under way.
LEMMA PlannedNext ==
    ASSUME TypeOK, Planned, todo["user"] # <<>>, Seals,
           NEW p \in Seq(UserSteps), Go("user", p), Len(p) \in {0, 1},
           Len(p) = 1 => p[1] = "produce" /\ First("user") = "check"
    PROVE  /\ Planned' /\ todo'["io"] = todo["io"]
           /\ Len(todo'["user"]) = Len(todo["user"]) + Len(p) - 1
           /\ First("user") \in Operations => First("user")' = "addAvail"
           /\ First("user") = "addAvail" => First("user")' = "check"
           /\ First("user") = "check" /\ Len(p) = 1 => First("user")' = "produce"
           /\ First("user") = "check" /\ Len(p) = 0 => First("user")' \in {"none", "unlock"}
           /\ First("user") = "produce" => First("user")' \in {"none", "unlock"}
           /\ First("user") = "unlock" => First("user")' \in {"none", "flushMore", "finishMore"}
           /\ First("user") = "flushMore" => First("user")' = "check"
           /\ First("user") = "finishMore" => First("user")' = "complete"
           /\ First("user") = "complete" => First("user")' = "check"
<1> DEFINE n == Len(todo["user"])
           m == Len(todo'["user"])
           s == todo["user"]
           r == todo'["user"]
<1>1. PICK plan \in Plans :
        /\ Follows(s, plan) /\ n \in Nat \ {0} /\ n \in 1 .. 7
        /\ First("user") = plan[n] \/ (First("user") = "produce" /\ plan[n] = "check")
        /\ \/ /\ encoder = "processing" /\ ~completed
              /\ \/ plan \in {PushPlan, FlushPlan}
                    /\ First("user") \notin {"complete", "finish", "finishMore"}
                 \/ plan = FinishPlan /\ n = 7 /\ First("user") = "finish"
           \/ /\ encoder = "finished" /\ inside = <<>> /\ plan = FinishPlan
              /\ n \in 1 .. 6 /\ First("user") \notin Operations \cup {"flushMore"}
              /\ First("user") = "complete" <=> n = 2
              /\ IF completed THEN n = 1 ELSE n \in 2 .. 6
  BY UnderWay
<1>2. /\ Follows(r, plan) /\ todo'["io"] = todo["io"]
      /\ m = n + Len(p) - 1
      /\ First("user") \in Operations => First("user")' = "addAvail"
      /\ First("user") = "addAvail" => First("user")' = "check"
      /\ First("user") = "check" /\ Len(p) = 1 => First("user")' = "produce"
      /\ First("user") = "check" /\ Len(p) = 0 => First("user")' \in {"none", "unlock"}
      /\ First("user") = "produce" => First("user")' \in {"none", "unlock"}
      /\ First("user") = "unlock" => First("user")' \in {"none", "flushMore", "finishMore"}
      /\ First("user") = "flushMore" => First("user")' = "check"
      /\ First("user") = "finishMore" => First("user")' = "complete"
      /\ First("user") = "complete" => First("user")' = "check"
  BY <1>1, UserNext
<1> HIDE DEF n, m, s, r
<1>3. CASE encoder = "processing" /\ ~completed /\ plan \in {PushPlan, FlushPlan}
           /\ First("user") \notin {"complete", "finish", "finishMore"}
  <2>1. encoder' = encoder
    BY <1>3 DEF Seals, Operations
  <2>3. ~completed'
    BY <1>3, Zenon DEF Seals
  <2>2. Planned'
    BY <1>2, <1>3, <2>1, <2>3 DEF Planned, r
  <2>4. QED
    BY <1>2, <2>2 DEF n, m
<1>4. CASE encoder = "processing" /\ ~completed /\ plan = FinishPlan /\ n = 7
           /\ First("user") = "finish"
  <2>1. encoder' = "finished" /\ inside' = <<>> /\ completed' = FALSE
    BY <1>4 DEF Seals
  <2>2. m = 6
    BY <1>2, <1>4
  <2>3. Planned'
    BY <1>2, <1>4, <2>1, <2>2 DEF Planned, r, m
  <2>4. QED
    BY <1>2, <2>3 DEF n, m
<1>5. CASE /\ encoder = "finished" /\ inside = <<>> /\ plan = FinishPlan
           /\ n \in 1 .. 6 /\ First("user") \notin Operations \cup {"flushMore"}
           /\ First("user") = "complete" <=> n = 2
           /\ IF completed THEN n = 1 ELSE n \in 2 .. 6
  <2>1. encoder' = "finished" /\ inside' = <<>> /\ completed' = (completed \/ n = 2)
    BY <1>5 DEF Seals
  <2>2. n = 2 => Len(p) = 0
    BY <1>5
  <2>3. IF completed' THEN m \in 0 .. 1 ELSE m \in 2 .. 6
    <3>1. PICK i \in 1 .. 6, j \in {0, 1} : i = n /\ j = Len(p) /\ m = i + j - 1
      BY <1>2, <1>5
    <3>2. CASE completed
      <4>1. i = 1 /\ completed'
        BY <1>5, <2>1, <3>1, <3>2
      <4>2. m \in 0 .. 1
        BY <3>1, <4>1
      <4>3. QED
        BY <4>1, <4>2
    <3>3. CASE n = 2
      <4>1. i = 2 /\ j = 0
        BY <2>2, <3>1, <3>3
      <4>2. m \in 0 .. 1
        BY <3>1, <4>1
      <4>3. completed'
        BY <2>1, <3>3, Zenon
      <4>4. QED
        BY <4>2, <4>3
    <3>4. CASE ~completed /\ n # 2
      <4>0. n \in 2 .. 6
        BY <1>5, <3>4, Zenon
      <4>1. i \in 3 .. 6
        BY <3>1, <3>4, <4>0
      <4>2. m \in 2 .. 6
        <5>1. j = 0 \/ j = 1
          BY <3>1
        <5>2. i + j - 1 \in 2 .. 6
          BY <4>1, <5>1
        <5>3. QED
          BY <3>1, <5>2
      <4>3. ~completed'
        BY <2>1, <3>4, Zenon
      <4>4. QED
        BY <4>2, <4>3
    <3>5. QED
      BY <3>2, <3>3, <3>4
  <2>4. Planned'
    BY <1>2, <1>5, <2>1, <2>3 DEF Planned, r, m
  <2>5. QED
    BY <1>2, <2>4 DEF n, m
<1>6. QED
  BY <1>1, <1>3, <1>4, <1>5 DEF n, s

\* What the encoder does: all that it is given fits into the output.  It takes all of it in,
\* and finish() has it seal the stream and give out all.
LEMMA Empties ==
    ASSUME BrotliAssumption, TypeOK, Planned, Fits, NEW t \in Threads, Compress(t)
    PROVE  /\ t = "user" /\ First("user") \in Operations /\ availIn' = 0
           /\ encoder = "processing" /\ ~completed
           /\ encoder' = IF First("user") = "finish" THEN "finished" ELSE encoder
           /\ \E j \in Nat, e \in {0, 1}, all \in Seq(Nat) :
                 /\ e = 1 <=> First("user") = "finish"
                 /\ j <= Len(all) /\ j <= Len(output')
                 /\ Len(all) = Len(inside) + availIn + e
                 /\ \A i \in 1 .. Len(inside) : all[i] = inside[i]
                 /\ \A i \in 1 .. availIn : all[Len(inside) + i] = input[i]
                 /\ e = 1 => all[Len(inside) + availIn + 1] = pushed + 1
                 /\ pushed' = pushed + e
                 /\ inside' \in Seq(Nat) /\ Len(inside') = Len(all) - j
                 /\ \A i \in 1 .. Len(all) - j : inside'[i] = all[i + j]
                 /\ output' \in Seq(Nat)
                 /\ \A i \in 1 .. j : output'[i] = all[i]
                 /\ read' = [read EXCEPT !["user"] = Wrapped(avail + j)]
                 /\ First("user") # "process" => j = Len(all)
                 /\ Len(all) <= MinimumAvail
<1>1. t = "user" /\ First("user") \in Operations
      /\ encoder' \in {"processing", "flushing", "finished"}
  BY Encoded
<1>2. PICK k \in Nat, j \in Nat, e \in {0, 1}, all \in Seq(Nat) :
        /\ k <= availIn /\ j <= Len(all) /\ j <= Len(output')
        /\ Len(all) = Len(inside) + k + e
        /\ \A i \in 1 .. Len(inside) : all[i] = inside[i]
        /\ \A i \in 1 .. k : all[Len(inside) + i] = input[i]
        /\ e = 1 => all[Len(inside) + k + 1] = pushed + 1
        /\ pushed' = pushed + e /\ availIn' = availIn - k
        /\ inside' \in Seq(Nat) /\ Len(inside') = Len(all) - j
        /\ \A i \in 1 .. Len(all) - j : inside'[i] = all[i + j]
        /\ output' \in Seq(Nat) /\ Len(output') >= MinimumAvail
        /\ \A i \in 1 .. j : output'[i] = all[i]
        /\ read' = [read EXCEPT !["user"] = Wrapped(avail + j)]
        /\ j < Len(output') => k = availIn
        /\ j < Len(output') /\ First("user") # "process" => j = Len(all)
        /\ j < Len(output') /\ First("user") = "finish" /\ encoder = "processing" => e = 1
        /\ e = 1 => First("user") = "finish" /\ encoder' = "finished"
        /\ First("user") = "process" /\ encoder = "processing" => encoder' = encoder
        /\ First("user") = "flush" /\ encoder = "processing" /\ j = Len(all) => encoder' = encoder
  BY Encoded
<1>3. encoder = "processing" /\ ~completed
  <2>1. todo["user"] # <<>>
    BY <1>1 DEF First, Operations
  <2>2. QED
    BY <1>1, <2>1, UnderWay
<1>4. PICK n \in Nat, a \in Nat, o \in Nat, l \in Nat :
        /\ n = Len(inside) /\ a = availIn /\ o = Len(output') /\ l = Len(all)
        /\ n + a <= MinimumAvail /\ o >= MinimumAvail /\ MinimumAvail \in Nat
        /\ First("user") = "finish" => a = 0 /\ n < MinimumAvail
        /\ l = n + k + e /\ k <= a /\ j <= l /\ j <= o
  <2>1. /\ Len(inside) \in Nat /\ availIn \in Nat /\ Len(output') \in Nat /\ Len(all) \in Nat
        /\ MinimumAvail \in Nat
    BY <1>2, LenProperties DEF TypeOK, DataOK, BrotliAssumption
  <2>2. /\ Len(inside) + availIn <= MinimumAvail
        /\ First("user") = "finish" => availIn = 0 /\ Len(inside) < MinimumAvail
    BY DEF Fits
  <2>3. QED
    BY <1>2, <2>1, <2>2
<1>5. /\ k = a /\ (First("user") = "finish" => e = 1)
      /\ First("user") # "process" => j = l
      /\ l <= MinimumAvail
  <2>1. CASE First("user") = "finish"
    <3>1. a = 0 /\ n < MinimumAvail /\ k = 0
      BY <1>4, <2>1
    <3>2. e = 1
      <4>1. CASE j < o
        BY <1>2, <1>3, <1>4, <2>1, <4>1
      <4>2. CASE ~(j < o)
        BY <1>4, <3>1, <4>2
      <4>3. QED
        BY <4>1, <4>2
    <3>3. l = n + 1 /\ l <= MinimumAvail
      BY <1>4, <3>1, <3>2
    <3>4. j = l
      <4>1. CASE j < o
        BY <1>2, <1>4, <2>1, <4>1
      <4>2. CASE ~(j < o)
        BY <1>4, <3>3, <4>2
      <4>3. QED
        BY <4>1, <4>2
    <3>5. QED
      BY <3>1, <3>2, <3>3, <3>4
  <2>2. CASE First("user") # "finish"
    <3>1. e = 0
      BY <1>2, <2>2
    <3>2. k = a /\ (First("user") # "process" => j = l)
      <4>1. CASE j < o
        BY <1>2, <1>4, <4>1
      <4>2. CASE ~(j < o)
        BY <1>4, <3>1, <4>2
      <4>3. QED
        BY <4>1, <4>2
    <3>3. l <= MinimumAvail
      BY <1>4, <3>1, <3>2
    <3>4. QED
      BY <2>2, <3>2, <3>3
  <2>3. QED
    BY <2>1, <2>2
<1>6. k = availIn /\ availIn' = 0
  BY <1>2, <1>4, <1>5
<1>7. encoder' = IF First("user") = "finish" THEN "finished" ELSE encoder
  <2>1. CASE First("user") = "finish"
    BY <1>2, <1>5, <2>1
  <2>2. CASE First("user") = "process"
    BY <1>2, <1>3, <2>2
  <2>3. CASE First("user") = "flush"
    BY <1>2, <1>3, <1>4, <1>5, <2>3
  <2>4. QED
    BY <1>1, <2>1, <2>2, <2>3 DEF Operations
<1>8. e = 1 <=> First("user") = "finish"
  BY <1>2, <1>5
<1>9. (First("user") # "process" => j = Len(all)) /\ Len(all) <= MinimumAvail
  BY <1>4, <1>5
<1>10. QED
  BY <1>1, <1>2, <1>3, <1>6, <1>7, <1>8, <1>9

\* What is left of a whole call is the call.
LEMMA WholePlans ==
    /\ Follows(Process, PushPlan)
    /\ Follows(Flush \o <<"flushMore", "check">>, FlushPlan)
    /\ Follows(Finish \o <<"finishMore", "complete", "check">>, FinishPlan)
<1>1. Follows(Process, PushPlan)
  <2>1. DOMAIN Process = 1 .. 4
    BY Sequences, LenProperties
  <2>2. /\ Len(PushPlan) = 4 /\ PushPlan[1] = "unlock" /\ PushPlan[2] = "check"
        /\ PushPlan[3] = "addAvail" /\ PushPlan[4] = "process"
    BY DEF PushPlan
  <2>3. \A i \in 1 .. 4 : Process[i] = PushPlan[4 + 1 - i]
    BY <2>2, Sequences
  <2>4. QED
    BY <2>1, <2>2, <2>3, Sequences DEF Follows
<1> DEFINE s == Flush \o <<"flushMore", "check">>
           f == Finish \o <<"finishMore", "complete", "check">>
<1>2. /\ s \in Seq(UserSteps) /\ Len(s) = 6
      /\ s[1] = "flush" /\ s[2] = "addAvail" /\ s[3] = "check" /\ s[4] = "unlock"
      /\ s[5] = "flushMore" /\ s[6] = "check"
  BY Sequences
<1>3. /\ f \in Seq(UserSteps) /\ Len(f) = 7
      /\ f[1] = "finish" /\ f[2] = "addAvail" /\ f[3] = "check" /\ f[4] = "unlock"
      /\ f[5] = "finishMore" /\ f[6] = "complete" /\ f[7] = "check"
  BY Sequences
<1> HIDE DEF s, f
<1>4. Follows(s, FlushPlan)
  <2>1. DOMAIN s = 1 .. 6
    BY <1>2, LenProperties
  <2>2. /\ Len(FlushPlan) = 6 /\ FlushPlan[1] = "check" /\ FlushPlan[2] = "flushMore"
        /\ FlushPlan[3] = "unlock" /\ FlushPlan[4] = "check" /\ FlushPlan[5] = "addAvail"
        /\ FlushPlan[6] = "flush"
    BY DEF FlushPlan
  <2>3. \A i \in 1 .. 6 : s[i] = FlushPlan[6 + 1 - i]
    BY <1>2, <2>2
  <2>4. QED
    BY <1>2, <2>1, <2>2, <2>3 DEF Follows
<1>5. Follows(f, FinishPlan)
  <2>1. DOMAIN f = 1 .. 7
    BY <1>3, LenProperties
  <2>2. /\ Len(FinishPlan) = 7 /\ FinishPlan[1] = "check" /\ FinishPlan[2] = "complete"
        /\ FinishPlan[3] = "finishMore" /\ FinishPlan[4] = "unlock" /\ FinishPlan[5] = "check"
        /\ FinishPlan[6] = "addAvail" /\ FinishPlan[7] = "finish"
    BY DEF FinishPlan
  <2>3. \A i \in 1 .. 7 : f[i] = FinishPlan[7 + 1 - i]
    BY <1>3, <2>2
  <2>4. QED
    BY <1>3, <2>1, <2>2, <2>3 DEF Follows
<1>6. QED
  BY <1>1, <1>4, <1>5 DEF s, f

\* The numbers are numbers.
LEMMA Lengths ==
    ASSUME BrotliAssumption, TypeOK
    PROVE  /\ Len(wire) \in Nat /\ Len(inside) \in Nat /\ Len(input) \in Nat /\ Len(output) \in Nat
           /\ DOMAIN wire = 1 .. Len(wire) /\ DOMAIN inside = 1 .. Len(inside)
           /\ availIn \in Nat /\ availIn <= Len(input) /\ avail \in Nat /\ pushed \in Nat
           /\ Unsent \in Nat /\ read["user"] \in Nat /\ read["io"] \in Nat /\ write.size \in Nat
           /\ avail \in Sizes /\ MinimumAvail \in Nat \ {0} /\ MaxBytes \in Nat
           /\ Available \in Nat
<1>1. /\ wire \in Seq(Nat) /\ inside \in Seq(Nat) /\ input \in Seq(Nat) /\ output \in Seq(Nat)
      /\ availIn \in 0 .. Len(input) /\ avail \in Sizes /\ pushed \in Nat
      /\ read["user"] \in Sizes /\ read["io"] \in Sizes /\ write.size \in Nat
  BY DEF TypeOK, DataOK, Threads
<1>2. /\ Len(wire) \in Nat /\ Len(inside) \in Nat /\ Len(input) \in Nat /\ Len(output) \in Nat
      /\ DOMAIN wire = 1 .. Len(wire) /\ DOMAIN inside = 1 .. Len(inside)
  BY <1>1, LenProperties
<1>3. Sizes \subseteq Nat /\ MinimumAvail \in Nat \ {0} /\ MaxBytes \in Nat
  BY Wraps
<1>4. Unsent \in Nat /\ Available \in Nat
  BY <1>1, <1>3 DEF Unsent, Available
<1>5. availIn \in Nat /\ availIn <= Len(input)
  BY <1>1, <1>2
<1>6. QED
  BY <1>1, <1>2, <1>3, <1>4, <1>5

\* When a call can be made, nothing is left of the one before.
LEMMA ReadyMeans ==
    ASSUME Single, TypeOK, OneAtATime, Planned, Fits, Ready
    PROVE  /\ todo["user"] = <<>> /\ todo["io"] = <<>>
           /\ First("user") = "none" /\ First("io") = "none"
           /\ ~completed /\ ~ended /\ availIn = 0 /\ encoder = "processing"
<1>1. /\ todo["user"] = <<>> /\ todo["io"] = <<>> /\ ~completed /\ ~ended
  BY DEF Ready, Free, Threads, Single
<1>2. First("user") = "none" /\ First("io") = "none"
  BY <1>1 DEF First
<1>3. availIn = 0
  BY <1>2 DEF Fits
<1>4. encoder = "processing"
  <2>1. Len(todo["user"]) = 0
    BY <1>1, EmptySeq
  <2>2. QED
    BY <1>1, <2>1 DEF Planned
<1>5. QED
  BY <1>1, <1>2, <1>3, <1>4

\* A call begins.
LEMMA Begins ==
    ASSUME Single, BrotliAssumption, TypeOK, OneAtATime, Planned, Fits, Counted, Ready,
           NEW p \in Seq(UserSteps), todo' = [todo EXCEPT !["user"] = p],
           Len(p) # 0, p[1] \in Operations,
           \/ Follows(p, PushPlan)
           \/ Follows(p, FlushPlan)
           \/ Follows(p, FinishPlan) /\ Len(p) = 7,
           NEW n \in Nat, pushed' = pushed + n, availIn' = availIn + n, pushed' <= MaxBytes,
           Len(inside) + n <= MinimumAvail, n # 0 => p[1] = "process",
           p[1] = "finish" => Len(inside) < MinimumAvail,
           UNCHANGED <<inside, encoder, avail, completed, read, write>>
    PROVE  Planned' /\ Fits' /\ Counted' /\ First("user")' = p[1] /\ todo'["io"] = <<>>
<1>1. /\ todo["user"] = <<>> /\ todo["io"] = <<>>
      /\ First("user") = "none" /\ First("io") = "none"
      /\ ~completed /\ availIn = 0 /\ encoder = "processing"
  BY ReadyMeans
<1>2. todo'["user"] = p /\ todo'["io"] = <<>>
  BY <1>1 DEF TypeOK, StepsOK, Threads
<1>3. p # <<>> /\ Head(p) = p[1]
  BY EmptySeq
<1>4. First("user")' = p[1] /\ First("io")' = "none"
  BY <1>2, <1>3 DEF First
<1>5. Planned'
  BY <1>1, <1>2 DEF Planned
<1>6. availIn' = n /\ Len(inside') = Len(inside) /\ Len(inside) \in Nat /\ MinimumAvail \in Nat
  BY <1>1, Lengths
<1>7. Fits'
  BY <1>4, <1>6 DEF Fits
<1>8. Available = avail /\ Available' = avail /\ avail \in Nat /\ pushed \in Nat /\ MaxBytes \in Nat
  BY <1>1, <1>4, Lengths DEF Available, Operations
<1>9. pushed' <= MaxBytes + 1 /\ Available' + Len(inside') + availIn' <= pushed'
  <2>1. Available + Len(inside) + availIn <= pushed
    BY DEF Counted
  <2>2. pushed' <= MaxBytes + 1
    BY <1>8
  <2>3. avail + Len(inside) <= pushed
    BY <1>1, <1>6, <1>8, <2>1
  <2>4. avail + Len(inside) + n <= pushed + n
    BY <1>6, <1>8, <2>3
  <2>5. QED
    BY <1>6, <1>8, <2>2, <2>4
<1>10. write'.st = "chunk" => write'.size <= avail'
  BY DEF Counted
<1>11. First("user")' # "addAvail"
  BY <1>4 DEF Operations
<1>12. Counted'
  BY <1>9, <1>10, <1>11 DEF Counted
<1>13. QED
  BY <1>2, <1>4, <1>5, <1>7, <1>12

\* push, flush and finish.
LEMMA CallBegins ==
    ASSUME Single, BrotliAssumption, TypeOK, OneAtATime, Planned, Fits, Counted,
           (\E n \in 1 .. MaxBytes : push(n)) \/ flush \/ finish
    PROVE  /\ Planned' /\ Fits' /\ Counted' /\ First("user")' \in Operations /\ todo'["io"] = <<>>
           /\ Ready /\ UNCHANGED <<flags, read, write, ended, output, overrun, wire>>
<1>1. /\ Len(inside) \in Nat /\ availIn \in Nat /\ MinimumAvail \in Nat \ {0}
      /\ MaxBytes \in Nat /\ pushed \in Nat /\ "pushesMuch" \notin app
  BY Lengths DEF Single
<1>2. Ready /\ UNCHANGED <<flags, read, write, ended, output, overrun, wire, inside, encoder>>
  BY DEF push, flush, finish, buffers
<1>3. availIn = 0 /\ encoder = "processing"
  BY <1>2, ReadyMeans
<1>4. pushed <= MaxBytes
  BY <1>3 DEF Counted
<1>5. UNCHANGED <<inside, encoder, avail, completed, read, write>>
  BY <1>2 DEF flags
<1>6. ASSUME NEW n \in 1 .. MaxBytes, push(n)
      PROVE  Planned' /\ Fits' /\ Counted' /\ First("user")' \in Operations /\ todo'["io"] = <<>>
  <2>1. /\ todo' = [todo EXCEPT !["user"] = Process] /\ n \in Nat
        /\ pushed' = pushed + n /\ availIn' = availIn + n
        /\ pushed + n <= MaxBytes /\ Len(inside) + availIn + n <= MinimumAvail
    BY <1>1, <1>6 DEF push
  <2>2. Process \in Seq(UserSteps) /\ Len(Process) # 0 /\ Process[1] = "process"
    BY Sequences
  <2>3. Len(inside) + n <= MinimumAvail
    BY <1>1, <1>3, <2>1
  <2>4. pushed' <= MaxBytes /\ Process[1] \in Operations
    BY <2>1, <2>2 DEF Operations
  <2>5. Follows(Process, PushPlan) /\ Process[1] # "finish"
    BY <2>2, WholePlans
  <2>6. /\ Planned' /\ Fits' /\ Counted' /\ First("user")' = Process[1] /\ todo'["io"] = <<>>
    BY <1>2, <1>5, <2>1, <2>2, <2>3, <2>4, <2>5, Begins
  <2>7. QED
    BY <2>4, <2>6
<1>7. CASE flush
  <2> DEFINE s == Flush \o <<"flushMore", "check">>
  <2>1. todo' = [todo EXCEPT !["user"] = s] /\ UNCHANGED <<pushed, availIn>>
    BY <1>7 DEF flush, buffers
  <2>2. s \in Seq(UserSteps) /\ Len(s) # 0 /\ s[1] = "flush" /\ Follows(s, FlushPlan)
    BY Sequences, WholePlans
  <2> HIDE DEF s
  <2>3. PICK n \in Nat : n = 0
    OBVIOUS
  <2>4. /\ n \in Nat /\ pushed' = pushed + n /\ availIn' = availIn + n /\ pushed' <= MaxBytes
        /\ Len(inside) + n <= MinimumAvail /\ ~(n # 0)
    <3>1. Len(inside) + availIn <= MinimumAvail
      BY DEF Fits
    <3>2. QED
      BY <1>1, <1>3, <1>4, <2>1, <2>3, <3>1
  <2>5. s[1] \in Operations /\ s[1] # "finish"
    BY <2>2 DEF Operations
  <2>6. /\ Planned' /\ Fits' /\ Counted' /\ First("user")' = s[1] /\ todo'["io"] = <<>>
    <3>1. /\ n # 0 => s[1] = "process"
          /\ s[1] = "finish" => Len(inside) < MinimumAvail
      BY <2>4, <2>5
    <3>2. QED
      BY <1>2, <1>5, <2>1, <2>2, <2>4, <2>5, <3>1, Begins
  <2>7. QED
    BY <1>2, <2>5, <2>6
<1>8. CASE finish
  <2> DEFINE s == Finish \o <<"finishMore", "complete", "check">>
  <2>1. /\ todo' = [todo EXCEPT !["user"] = s] /\ UNCHANGED <<pushed, availIn>>
        /\ Len(inside) + availIn < MinimumAvail
    BY <1>1, <1>8 DEF finish, buffers
  <2>2. s \in Seq(UserSteps) /\ Len(s) # 0 /\ Len(s) = 7 /\ s[1] = "finish" /\ Follows(s, FinishPlan)
    BY Sequences, WholePlans
  <2> HIDE DEF s
  <2>3. PICK n \in Nat : n = 0
    OBVIOUS
  <2>4. /\ n \in Nat /\ pushed' = pushed + n /\ availIn' = availIn + n /\ pushed' <= MaxBytes
        /\ Len(inside) + n <= MinimumAvail /\ ~(n # 0) /\ Len(inside) < MinimumAvail
    BY <1>1, <1>3, <1>4, <2>1, <2>3
  <2>5. s[1] \in Operations
    BY <2>2 DEF Operations
  <2>6. /\ Planned' /\ Fits' /\ Counted' /\ First("user")' = s[1] /\ todo'["io"] = <<>>
    <3>1. n # 0 => s[1] = "process"
      BY <2>4
    <3>2. QED
      BY <1>2, <1>5, <2>1, <2>2, <2>4, <2>5, <3>1, Begins
  <2>7. QED
    BY <1>2, <2>5, <2>6
<1>9. QED
  BY <1>2, <1>6, <1>7, <1>8

\* The kinds of steps of a call.
LEMMA Kinds ==
    ASSUME Single, BrotliAssumption, TypeOK, OneAtATime, Planned, Fits, NEW t \in Threads,
           \/ More(t) \/ Compress(t) \/ AddAvail(t) \/ Unlock(t) \/ Complete(t)
           \/ t = "user" /\ (Check(t) \/ Produce(t))
    PROVE  /\ t = "user" /\ todo["user"] # <<>> /\ todo["io"] = <<>> /\ First("io") = "none"
           /\ More(t) => First("user") \in {"flushMore", "finishMore"}
           /\ Compress(t) => First("user") \in Operations
           /\ AddAvail(t) => First("user") = "addAvail"
           /\ Unlock(t) => First("user") = "unlock"
           /\ Complete(t) => First("user") = "complete"
           /\ Check(t) => First("user") = "check"
           /\ Produce(t) => First("user") = "produce"
           /\ First("user") # "process" => availIn = 0
<1>1. t = "user" /\ todo["user"] # <<>>
  <2>1. t = "user"
    BY UserWent
  <2>2. QED
    BY <2>1, UserWent DEF Check, Produce, At
<1>2. todo["io"] = <<>> /\ First("io") = "none"
  BY <1>1 DEF OneAtATime, First
<1>3. /\ More(t) => First("user") \in {"flushMore", "finishMore"}
      /\ AddAvail(t) => First("user") = "addAvail"
      /\ Unlock(t) => First("user") = "unlock"
      /\ Complete(t) => First("user") = "complete"
      /\ Check(t) => First("user") = "check"
      /\ Produce(t) => First("user") = "produce"
  BY <1>1, Whose DEF More, AddAvail, Unlock, Complete, Check, Produce
<1>4. Compress(t) => First("user") \in Operations
  BY Encoded
<1>5. First("user") # "process" => availIn = 0
  BY DEF Fits
<1>6. QED
  BY <1>1, <1>2, <1>3, <1>4, <1>5

\* What a step of a call puts before the rest of it.
LEMMA CallPuts ==
    ASSUME Single, BrotliAssumption, TypeOK, OneAtATime, Planned, Fits, NEW t \in Threads,
           \/ More(t) \/ Compress(t) \/ AddAvail(t) \/ Unlock(t) \/ Complete(t)
           \/ t = "user" /\ (Check(t) \/ Produce(t))
    PROVE  \E p \in Seq(UserSteps) :
              /\ Go("user", p) /\ Len(p) \in {0, 1}
              /\ Len(p) = 1 => p[1] = "produce" /\ First("user") = "check" /\ ~consuming /\ attached
              /\ Len(p) = 0 /\ First("user") = "check" => consuming \/ ~attached
<1>a. PICK e : e = <<>> /\ e \in Seq(UserSteps) /\ Len(e) = 0
  BY EmptySeq
<1>1. e = <<>> /\ e \in Seq(UserSteps) /\ Len(e) \in {0, 1} /\ Len(e) # 1
  BY <1>a
<1>b. PICK f : f = <<"produce">> /\ f \in Seq(UserSteps) /\ Len(f) = 1 /\ f[1] = "produce"
  <2> DEFINE g == <<"produce">>
  <2>1. g \in Seq(UserSteps) /\ Len(g) = 1 /\ g[1] = "produce"
    BY DEF UserSteps
  <2>2. g = <<"produce">>
    OBVIOUS
  <2> HIDE DEF g
  <2>3. QED
    BY <2>1, <2>2, Zenon
<1>2. f = <<"produce">> /\ f \in Seq(UserSteps) /\ Len(f) \in {0, 1} /\ Len(f) # 0 /\ f[1] = "produce"
  BY <1>b
<1>3. t = "user"
  BY Kinds
<1>4. CASE Check("user")
  <2>1. First("user") = "check"
    BY <1>3, <1>4, Kinds
  <2>2. CASE consuming \/ ~attached
    <3>1. Go("user", e)
      BY <1>1, <1>4, <2>2 DEF Check
    <3>2. QED
      BY <1>1, <2>2, <3>1, Zenon
  <2>3. CASE ~(consuming \/ ~attached)
    <3>1. Go("user", f)
      BY <1>2, <1>4, <2>3 DEF Check
    <3>2. QED
      BY <1>2, <2>1, <2>3, <3>1, Zenon
  <2>4. QED
    BY <2>2, <2>3
<1>5. CASE ~Check("user")
  <2>1. Go("user", e)
    <3>1. More(t) => availIn = 0
      BY Kinds
    <3>2. QED
      BY <1>1, <1>3, <1>5, <3>1 DEF More, Compress, AddAvail, Unlock, Complete, Produce
  <2>2. First("user") # "check"
    BY <1>3, <1>5, Kinds DEF Operations
  <2>3. QED
    BY <1>1, <2>1, <2>2, Zenon
<1>6. QED
  BY <1>4, <1>5

\* The encoder and the stream.
LEMMA CallSeals ==
    ASSUME Single, BrotliAssumption, TypeOK, OneAtATime, Planned, Fits, NEW t \in Threads,
           \/ More(t) \/ Compress(t) \/ AddAvail(t) \/ Unlock(t) \/ Complete(t)
           \/ t = "user" /\ (Check(t) \/ Produce(t))
    PROVE  Seals
<1>1. CASE Compress(t)
  <2>1. First("user") \in Operations /\ completed' = completed
    BY <1>1, Kinds DEF Compress, flags
  <2>2. encoder' = IF First("user") = "finish" THEN "finished" ELSE encoder
    BY <1>1, Empties
  <2>3. First("user") = "finish" => inside' = <<>>
    <3>1. PICK j \in Nat, all \in Seq(Nat) :
            /\ inside' \in Seq(Nat) /\ Len(inside') = Len(all) - j
            /\ First("user") # "process" => j = Len(all)
      BY <1>1, Empties
    <3>2. First("user") = "finish" => Len(inside') = 0
      BY <3>1
    <3>3. QED
      BY <3>1, <3>2, EmptySeq
  <2>4. completed' = (completed \/ First("user") = "complete")
    <3>1. First("user") # "complete"
      BY <2>1 DEF Operations
    <3>2. completed \in BOOLEAN
      BY DEF TypeOK, FlagsOK
    <3>3. QED
      BY <2>1, <3>1, <3>2
  <2>5. QED
    BY <2>1, <2>2, <2>3, <2>4 DEF Seals
<1>2. CASE ~Compress(t)
  <2>1. First("user") \notin Operations
    BY <1>2, Kinds DEF Operations
  <2>2. UNCHANGED <<encoder, inside>>
    BY <1>2 DEF More, AddAvail, Unlock, Complete, Check, Produce, buffers
  <2>3. completed' = (completed \/ First("user") = "complete")
    <3>1. completed \in BOOLEAN
      BY DEF TypeOK, FlagsOK
    <3>2. CASE Complete(t)
      <4>1. completed' = TRUE
        BY <3>2 DEF Complete
      <4>2. First("user") = "complete"
        BY <3>2, Kinds
      <4>3. QED
        BY <4>1, <4>2
    <3>3. CASE ~Complete(t)
      <4>1. completed' = completed
        BY <1>2, <3>3 DEF More, AddAvail, Unlock, Check, Produce, flags
      <4>2. First("user") # "complete"
        BY <1>2, <3>3, Kinds
      <4>3. QED
        BY <3>1, <4>1, <4>2
    <3>4. QED
      BY <3>2, <3>3
  <2>4. QED
    BY <2>1, <2>2, <2>3 DEF Seals, Operations
<1>3. QED
  BY <1>1, <1>2

\* What is next in the call.
LEMMA CallTurns ==
    ASSUME Single, BrotliAssumption, TypeOK, OneAtATime, Planned, Fits, NEW t \in Threads,
           \/ More(t) \/ Compress(t) \/ AddAvail(t) \/ Unlock(t) \/ Complete(t)
           \/ t = "user" /\ (Check(t) \/ Produce(t))
    PROVE  /\ Planned' /\ todo'["io"] = <<>> /\ First("io")' = "none"
           /\ First("user") \in Operations => First("user")' = "addAvail"
           /\ First("user") = "addAvail" => First("user")' = "check"
           /\ First("user") = "check" =>
                  IF consuming \/ ~attached THEN First("user")' \in {"none", "unlock"}
                  ELSE First("user")' = "produce"
           /\ First("user") = "produce" => First("user")' \in {"none", "unlock"}
           /\ First("user") = "unlock" => First("user")' \in {"none", "flushMore", "finishMore"}
           /\ First("user") = "flushMore" => First("user")' = "check"
           /\ First("user") = "finishMore" => First("user")' = "complete"
           /\ First("user") = "complete" => First("user")' = "check"
<1>1. todo["user"] # <<>> /\ todo["io"] = <<>> /\ Seals
  BY Kinds, CallSeals
<1>2. PICK p \in Seq(UserSteps) :
        /\ Go("user", p) /\ Len(p) \in {0, 1}
        /\ Len(p) = 1 => p[1] = "produce" /\ First("user") = "check" /\ ~consuming /\ attached
        /\ Len(p) = 0 /\ First("user") = "check" => consuming \/ ~attached
  BY CallPuts
<1>3. /\ Planned' /\ todo'["io"] = todo["io"]
      /\ First("user") \in Operations => First("user")' = "addAvail"
      /\ First("user") = "addAvail" => First("user")' = "check"
      /\ First("user") = "check" /\ Len(p) = 1 => First("user")' = "produce"
      /\ First("user") = "check" /\ Len(p) = 0 => First("user")' \in {"none", "unlock"}
      /\ First("user") = "produce" => First("user")' \in {"none", "unlock"}
      /\ First("user") = "unlock" => First("user")' \in {"none", "flushMore", "finishMore"}
      /\ First("user") = "flushMore" => First("user")' = "check"
      /\ First("user") = "finishMore" => First("user")' = "complete"
      /\ First("user") = "complete" => First("user")' = "check"
  BY <1>1, <1>2, PlannedNext
<1>4. First("user") = "check" =>
          IF consuming \/ ~attached THEN First("user")' \in {"none", "unlock"}
          ELSE First("user")' = "produce"
  BY <1>2, <1>3
<1>5. todo'["io"] = <<>> /\ First("io")' = "none"
  BY <1>1, <1>3 DEF First
<1>6. QED
  BY <1>3, <1>4, <1>5

\* The steps of a call.
LEMMA CallGoesOn ==
    ASSUME Single, BrotliAssumption, TypeOK, OneAtATime, Planned, Fits, Counted, NEW t \in Threads,
           \/ More(t) \/ Compress(t) \/ AddAvail(t) \/ Unlock(t) \/ Complete(t)
           \/ t = "user" /\ (Check(t) \/ Produce(t))
    PROVE  Fits' /\ Counted'
<1>1. /\ t = "user" /\ First("io") = "none" /\ First("io")' = "none"
      /\ First("user") # "process" => availIn = 0
  BY Kinds, CallTurns
<1>2. CASE Compress(t)
  <2>1. First("user") \in Operations /\ First("user")' = "addAvail"
    BY <1>2, Kinds, CallTurns
  <2>2. /\ availIn' = 0 /\ encoder = "processing"
        /\ encoder' = IF First("user") = "finish" THEN "finished" ELSE encoder
    BY <1>2, Empties
  <2>3. PICK j \in Nat, e \in {0, 1}, all \in Seq(Nat) :
          /\ e = 1 <=> First("user") = "finish"
          /\ j <= Len(all) /\ Len(all) = Len(inside) + availIn + e
          /\ pushed' = pushed + e
          /\ inside' \in Seq(Nat) /\ Len(inside') = Len(all) - j
          /\ read' = [read EXCEPT !["user"] = Wrapped(avail + j)]
          /\ Len(all) <= MinimumAvail
    BY <1>2, Empties
  <2>4. PICK l \in Nat, n \in Nat, a \in Nat, v \in Nat, b \in Nat :
          /\ l = Len(all) /\ n = Len(inside) /\ a = availIn /\ v = avail /\ b = pushed
          /\ l = n + a + e /\ j <= l /\ l <= MinimumAvail
    <3>1. Len(all) \in Nat
      BY <2>3, LenProperties
    <3>2. QED
      BY <2>3, <3>1, Lengths
  <2>5. Fits'
    <3>1. Len(inside') <= MinimumAvail /\ availIn' = 0 /\ Len(inside') \in Nat
      BY <2>2, <2>3, <2>4, Lengths, LenProperties
    <3>2. QED
      BY <2>1, <3>1 DEF Fits
  <2>6. b <= MaxBytes /\ v + n + a <= b /\ MaxBytes \in Nat
    BY <1>1, <2>1, <2>2, <2>4, Lengths DEF Counted, Available, Operations
  <2>7. read'["user"] = avail + j
    <3>1. v + j <= MaxBytes + 1 /\ v + j \in Nat
      BY <2>4, <2>6
    <3>2. Wrapped(avail + j) = avail + j
      BY <2>4, <3>1, Wraps
    <3>3. read \in [Threads -> Sizes] /\ "user" \in Threads
      BY DEF TypeOK, DataOK, Threads
    <3>4. QED
      BY <2>3, <3>2, <3>3
  <2>8. Available' = v + j /\ avail' = avail
    BY <1>2, <2>1, <2>4, <2>7 DEF Available, Compress, flags
  <2>9. pushed' <= MaxBytes + 1 /\ Available' + Len(inside') + availIn' <= pushed'
    <3>1. pushed' = b + e /\ Len(inside') = l - j
      BY <2>3, <2>4
    <3>2. b + e <= MaxBytes + 1 /\ v + j + (l - j) + 0 <= b + e
      BY <2>4, <2>6
    <3>3. QED
      BY <2>2, <2>8, <3>1, <3>2
  <2>10. encoder' # "finished" => pushed' <= MaxBytes
    <3>1. encoder' # "finished" => e = 0
      BY <2>2, <2>3
    <3>2. e = 0 => pushed' = b
      BY <2>3, <2>4
    <3>3. QED
      BY <2>6, <3>1, <3>2
  <2>11. avail' <= read'["user"]
    BY <2>4, <2>7, <2>8
  <2>12. write'.st = "chunk" => write'.size <= avail'
    BY <1>2, <2>8 DEF Compress, Counted
  <2>13. Counted'
    BY <2>9, <2>10, <2>11, <2>12 DEF Counted
  <2>14. QED
    BY <2>5, <2>13
<1>3. CASE ~Compress(t)
  <2>1. First("user") \notin Operations /\ First("user")' \notin Operations \cup {"addAvail"}
    BY <1>3, Kinds, CallTurns DEF Operations
  <2>2. UNCHANGED <<pushed, inside, availIn, encoder, read>>
    BY <1>3 DEF More, AddAvail, Unlock, Complete, Check, Produce, buffers, flags
  <2>3. availIn = 0
    BY <1>1, <2>1 DEF Operations
  <2>4. Fits'
    BY <2>1, <2>2, <2>3 DEF Fits, Operations
  <2>5. Available' = Available /\ avail' = Available /\ (avail' = avail \/ First("user") = "addAvail")
    <3>1. CASE AddAvail(t)
      BY <1>1, <2>1, <3>1, Kinds DEF AddAvail, Available
    <3>2. CASE ~AddAvail(t)
      <4>1. First("user") # "addAvail" /\ avail' = avail
        BY <1>3, <3>2, Kinds DEF More, Unlock, Complete, Check, Produce, flags
      <4>2. QED
        BY <1>1, <2>1, <4>1 DEF Available
    <3>3. QED
      BY <3>1, <3>2
  <2>6. write'.st = "chunk" => write'.size <= avail'
    <3>1. avail \in Nat /\ read["user"] \in Nat /\ write.size \in Nat
      BY Lengths
    <3>2. CASE Produce(t)
      <4>1. avail' = avail /\ (write' = write \/ Started(LastChunk) \/ Started(Chunk(avail)))
        BY <3>2 DEF Produce
      <4>2. write' = write \/ write' = LastChunk \/ write' = Chunk(avail) \/ write' = Clash
        BY <4>1 DEF Started
      <4>3. CASE write' = write
        BY <4>1, <4>3 DEF Counted
      <4>4. CASE write' # write
        BY <3>1, <4>1, <4>2, <4>4 DEF LastChunk, Chunk, Clash
      <4>5. QED
        BY <4>3, <4>4
    <3>3. CASE AddAvail(t)
      <4>1. avail' = read["user"] /\ write' = write /\ First("user") = "addAvail"
        BY <1>1, <3>3, Kinds DEF AddAvail
      <4>2. avail <= read["user"] /\ (write.st = "chunk" => write.size <= avail)
        BY <4>1 DEF Counted
      <4>3. QED
        BY <3>1, <4>1, <4>2
    <3>4. CASE ~Produce(t) /\ ~AddAvail(t)
      <4>1. avail' = avail /\ write' = write
        BY <1>3, <3>4 DEF More, Unlock, Complete, Check, flags
      <4>2. QED
        BY <4>1 DEF Counted
    <3>5. QED
      BY <3>2, <3>3, <3>4
  <2>7. Counted'
    BY <2>1, <2>2, <2>5, <2>6 DEF Counted
  <2>8. QED
    BY <2>4, <2>7
<1>4. QED
  BY <1>2, <1>3

\* What the handlers do next.
LEMMA HandlerTurns ==
    ASSUME Single, TypeOK, OneAtATime,
           \/ Check("io") \/ Produce("io") \/ HeaderSent \/ HeaderFails \/ ChunkWritten
           \/ SubAvail \/ Erase \/ Consumed \/ Last \/ EndProduction
    PROVE  /\ todo["user"] = <<>> /\ todo'["user"] = <<>>
           /\ First("user") = "none" /\ First("user")' = "none"
           /\ Check("io") =>
                  /\ First("io") = "check"
                  /\ First("io")' = IF consuming \/ ~attached THEN "none" ELSE "produce"
           /\ Produce("io") =>
                  /\ First("io") = "produce" /\ First("io")' \in {"none", "last"}
                  /\ Len(todo["io"]) = 1 => First("io")' = "none"
           /\ SubAvail => First("io") = "subAvail" /\ First("io")' = "erase"
           /\ Erase => First("io") = "erase" /\ First("io")' = "consumed"
           /\ Consumed =>
                  /\ First("io") = "consumed"
                  /\ First("io")' = IF avail > 0 THEN "produce" ELSE "last"
           /\ Last =>
                  /\ First("io") = "last"
                  /\ First("io")' = IF ~consuming /\ completed THEN "check" ELSE "none"
           /\ HeaderSent =>
                  /\ First("io") = "none"
                  /\ First("io")' = IF avail > 0 THEN "check" ELSE "none"
           /\ ChunkWritten => First("io") = "none" /\ First("io")' = "subAvail"
           /\ EndProduction \/ HeaderFails => First("io") = "none" /\ First("io")' = "none"
           /\ Check("io") \/ Last \/ HeaderSent =>
                  (First("io")' \in {"check", "produce"} => Len(todo'["io"]) = 1)
<1>1. /\ todo["user"] = <<>> /\ todo'["user"] = <<>> /\ "io" \in Threads /\ "user" \in Threads
      /\ DOMAIN todo = Threads
  <2>1. /\ "io" \in Threads /\ "user" \in Threads /\ DOMAIN todo = Threads
    BY DEF Threads, TypeOK, StepsOK
  <2>2. Free("io") => todo["user"] = <<>> /\ todo["io"] = <<>>
    BY <2>1 DEF Free, Single
  <2>3. todo["user"] = <<>>
    BY <2>2 DEF Check, Produce, HeaderSent, HeaderFails, ChunkWritten, SubAvail, Erase,
                Consumed, Last, EndProduction, At, OneAtATime
  <2>4. todo'["user"] = todo["user"]
    BY <2>1 DEF Check, Produce, HeaderSent, HeaderFails, ChunkWritten, SubAvail, Erase,
                Consumed, Last, EndProduction, Go
  <2>5. QED
    BY <2>1, <2>3, <2>4
<1>2. First("user") = "none" /\ First("user")' = "none"
  BY <1>1 DEF First
<1>3. HandlerFits(todo["io"])
  BY DEF OneAtATime
<1>4. Len(<<>>) = 0 /\ Len(<<"check">>) = 1 /\ Len(<<"produce">>) = 1
  BY EmptySeq
<1>5. ASSUME Check("io")
      PROVE  /\ First("io") = "check"
             /\ First("io")' = IF consuming \/ ~attached THEN "none" ELSE "produce"
             /\ First("io")' = "produce" => Len(todo'["io"]) = 1
  <2> DEFINE p == IF consuming \/ ~attached THEN <<>> ELSE <<"produce">>
  <2>1. First("io") = "check" /\ Go("io", p) /\ todo["io"] # <<>>
    BY <1>1, <1>5, Whose DEF Check
  <2>2. IF consuming \/ ~attached THEN p = <<>> ELSE p = <<"produce">>
    OBVIOUS
  <2> HIDE DEF p
  <2>3. /\ First("io")' = IF p = <<>> THEN "none" ELSE "produce"
        /\ Len(todo'["io"]) = Len(p)
    BY <1>3, <2>1, <2>2, HandlerWent
  <2>4. p = <<"produce">> => p # <<>> /\ Len(p) = 1
    BY <1>4
  <2>5. CASE consuming \/ ~attached
    BY <2>1, <2>2, <2>3, <2>5
  <2>6. CASE ~(consuming \/ ~attached)
    BY <2>1, <2>2, <2>3, <2>4, <2>6
  <2>7. QED
    BY <2>5, <2>6
<1>6. ASSUME Produce("io")
      PROVE  /\ First("io") = "produce" /\ First("io")' \in {"none", "last"}
             /\ Len(todo["io"]) = 1 => First("io")' = "none"
  <2>1. First("io") = "produce" /\ Go("io", <<>>) /\ todo["io"] # <<>>
    BY <1>1, <1>6, Whose DEF Produce
  <2>2. QED
    BY <1>3, <2>1, HandlerWent
<1>7. ASSUME SubAvail PROVE First("io") = "subAvail" /\ First("io")' = "erase"
  <2>1. First("io") = "subAvail" /\ Go("io", <<>>) /\ todo["io"] # <<>>
    BY <1>1, <1>7, Whose DEF SubAvail
  <2>2. QED
    BY <1>3, <2>1, HandlerWent
<1>8. ASSUME Erase PROVE First("io") = "erase" /\ First("io")' = "consumed"
  <2>1. First("io") = "erase" /\ Go("io", <<>>) /\ todo["io"] # <<>>
    BY <1>1, <1>8, Whose DEF Erase
  <2>2. QED
    BY <1>3, <2>1, HandlerWent
<1>9. ASSUME Consumed
      PROVE  First("io") = "consumed" /\ First("io")' = IF avail > 0 THEN "produce" ELSE "last"
  <2>1. First("io") = "consumed" /\ todo["io"] # <<>>
    BY <1>1, <1>9, Whose DEF Consumed
  <2>2. CASE avail > 0
    <3>1. PICK p : p = <<"produce">> /\ Go("io", p)
      BY <1>9, <2>2 DEF Consumed
    <3>2. p # <<>>
      BY <3>1
    <3>3. QED
      BY <1>3, <2>1, <2>2, <3>1, <3>2, HandlerWent
  <2>3. CASE ~(avail > 0)
    <3>1. Go("io", <<>>)
      BY <1>9, <2>3 DEF Consumed
    <3>2. QED
      BY <1>3, <2>1, <2>3, <3>1, HandlerWent
  <2>4. QED
    BY <2>2, <2>3
<1>10. ASSUME Last
       PROVE  /\ First("io") = "last"
              /\ First("io")' = IF ~consuming /\ completed THEN "check" ELSE "none"
              /\ First("io")' = "check" => Len(todo'["io"]) = 1
  <2> DEFINE p == IF ~consuming /\ completed THEN <<"check">> ELSE <<>>
  <2>1. First("io") = "last" /\ Go("io", p) /\ todo["io"] # <<>>
    BY <1>1, <1>10, Whose DEF Last
  <2>2. IF ~consuming /\ completed THEN p = <<"check">> ELSE p = <<>>
    OBVIOUS
  <2> HIDE DEF p
  <2>3. /\ First("io")' = IF p = <<>> THEN "none" ELSE "check"
        /\ Len(todo'["io"]) = Len(p)
    BY <1>3, <2>1, <2>2, HandlerWent
  <2>4. p = <<"check">> => p # <<>> /\ Len(p) = 1
    BY <1>4
  <2>5. CASE ~consuming /\ completed
    BY <2>1, <2>2, <2>3, <2>4, <2>5
  <2>6. CASE ~(~consuming /\ completed)
    BY <2>1, <2>2, <2>3, <2>6
  <2>7. QED
    BY <2>5, <2>6
<1>11. Free("io") => First("io") = "none"
  BY <1>1 DEF Free, First
<1>12. ASSUME HeaderSent
       PROVE  /\ First("io") = "none" /\ First("io")' = IF avail > 0 THEN "check" ELSE "none"
              /\ First("io")' = "check" => Len(todo'["io"]) = 1
  <2>1. First("io") = "none" /\ todo'["io"] = IF avail > 0 THEN <<"check">> ELSE <<>>
    BY <1>1, <1>11, <1>12 DEF HeaderSent
  <2>2. CASE avail > 0
    <3>1. First("io")' = "check" /\ Len(todo'["io"]) = 1
      BY <1>4, <2>1, <2>2 DEF First
    <3>2. QED
      BY <2>1, <2>2, <3>1
  <2>3. CASE ~(avail > 0)
    <3>1. First("io")' = "none"
      BY <2>1, <2>3 DEF First
    <3>2. QED
      BY <2>1, <2>3, <3>1
  <2>4. QED
    BY <2>2, <2>3
<1>13. ASSUME ChunkWritten PROVE First("io") = "none" /\ First("io")' = "subAvail"
  <2>1. todo'["io"] = <<"subAvail", "erase", "consumed", "last">>
    BY <1>1, <1>13 DEF ChunkWritten
  <2>2. QED
    BY <1>11, <1>13, <2>1 DEF First, ChunkWritten
<1>14. ASSUME EndProduction \/ HeaderFails PROVE First("io") = "none" /\ First("io")' = "none"
  BY <1>11, <1>14 DEF EndProduction, HeaderFails, First
<1>15. Check("io") \/ Last \/ HeaderSent =>
           (First("io")' \in {"check", "produce"} => Len(todo'["io"]) = 1)
  BY <1>5, <1>10, <1>12
<1>16. QED
  BY <1>1, <1>2, <1>5, <1>6, <1>7, <1>8, <1>9, <1>10, <1>12, <1>13, <1>14, <1>15

\* The handlers.
LEMMA HandlerGoesOn ==
    ASSUME Single, BrotliAssumption, TypeOK, OneAtATime, Planned, Fits, Counted,
           \/ Check("io") \/ Produce("io") \/ HeaderSent \/ HeaderFails \/ ChunkWritten
           \/ SubAvail \/ Erase \/ Consumed \/ Last \/ EndProduction
    PROVE  Planned' /\ Fits' /\ Counted'
<1>1. /\ todo["user"] = <<>> /\ todo'["user"] = <<>>
      /\ First("user") = "none" /\ First("user")' = "none"
  BY HandlerTurns
<1>2. UNCHANGED <<pushed, inside, availIn, encoder, completed>>
  BY DEF Check, Produce, HeaderSent, HeaderFails, ChunkWritten, SubAvail, Erase,
         Consumed, Last, EndProduction, buffers, flags
<1>3. Planned' /\ Fits'
  BY <1>1, <1>2 DEF Planned, Fits
<1>4. /\ Available = IF First("io") = "subAvail" THEN read["io"] ELSE avail
      /\ Available' = IF First("io")' = "subAvail" THEN read'["io"] ELSE avail'
  BY <1>1 DEF Available
<1>5. /\ avail \in Nat /\ avail \in Sizes /\ read["io"] \in Nat /\ write.size \in Nat
      /\ "io" \in Threads /\ read \in [Threads -> Sizes]
  BY Lengths DEF Threads, TypeOK, DataOK
<1>6. Available' <= Available /\ Available' \in Nat /\ (write'.st = "chunk" => write'.size <= avail')
  <2>1. CASE ChunkWritten
    <3>1. First("io") = "none" /\ First("io")' = "subAvail"
      BY <2>1, HandlerTurns
    <3>2. /\ write.st = "chunk" /\ write'.st = "done"
          /\ read' = [read EXCEPT !["io"] = Wrapped(avail - write.size)]
      BY <2>1 DEF ChunkWritten, TypeOK, DataOK
    <3>3. write.size <= avail
      BY <3>2 DEF Counted
    <3>4. avail - write.size \in Sizes /\ avail - write.size <= avail /\ avail - write.size \in Nat
      <4>1. PICK v \in Nat, w \in Nat : v = avail /\ w = write.size /\ w <= v
        BY <1>5, <3>3
      <4>2. v \in 0 .. SizeModulus - 1 /\ SizeModulus \in Nat
        BY <1>5, <4>1, Wraps DEF Sizes
      <4>3. v - w \in 0 .. SizeModulus - 1 /\ v - w <= v /\ v - w \in Nat
        BY <4>1, <4>2
      <4>4. QED
        BY <4>1, <4>3 DEF Sizes
    <3>5. read'["io"] = avail - write.size
      <4>1. Wrapped(avail - write.size) = avail - write.size
        BY <3>4, Wraps
      <4>2. QED
        BY <1>5, <3>2, <4>1
    <3>6. QED
      BY <1>4, <3>1, <3>2, <3>4, <3>5
  <2>2. CASE SubAvail
    <3>1. First("io") = "subAvail" /\ First("io")' = "erase" /\ avail' = read["io"]
          /\ write' = write
      BY <2>2, HandlerTurns DEF SubAvail
    <3>2. write.st = "done"
      BY <3>1 DEF OneAtATime
    <3>3. QED
      BY <1>4, <1>5, <3>1, <3>2
  <2>3. CASE Produce("io")
    <3>1. First("io") = "produce" /\ First("io")' # "subAvail" /\ avail' = avail
      BY <2>3, HandlerTurns DEF Produce
    <3>2. write' = write \/ Started(LastChunk) \/ Started(Chunk(avail))
      BY <2>3 DEF Produce
    <3>3. write' = write \/ write' = LastChunk \/ write' = Chunk(avail) \/ write' = Clash
      BY <3>2 DEF Started
    <3>4. CASE write' = write
      BY <1>4, <1>5, <3>1, <3>4 DEF Counted
    <3>5. CASE write' # write
      BY <1>4, <1>5, <3>1, <3>3, <3>5 DEF LastChunk, Chunk, Clash
    <3>6. QED
      BY <3>4, <3>5
  <2>4. CASE ~ChunkWritten /\ ~SubAvail /\ ~Produce("io")
    <3>1. First("io") # "subAvail" /\ First("io")' # "subAvail"
      BY <2>4, HandlerTurns
    <3>2. avail' = avail
      BY <2>4 DEF Check, HeaderSent, HeaderFails, Erase, Consumed, Last, EndProduction, flags
    <3>3. write'.st = "chunk" => write' = write
      <4>1. CASE EndProduction \/ HeaderFails
        BY <4>1 DEF EndProduction, HeaderFails, TypeOK, DataOK
      <4>2. CASE ~EndProduction /\ ~HeaderFails
        BY <2>4, <4>2 DEF Check, HeaderSent, Erase, Consumed, Last
      <4>3. QED
        BY <4>1, <4>2
    <3>4. QED
      BY <1>4, <1>5, <3>1, <3>2, <3>3 DEF Counted
  <2>5. QED
    BY <2>1, <2>2, <2>3, <2>4
<1>7. Available' + Len(inside') + availIn' <= pushed'
  <2>1. Len(inside) \in Nat /\ availIn \in Nat /\ Available \in Nat /\ pushed \in Nat
    BY Lengths
  <2>2. Available + Len(inside) + availIn <= pushed
    BY DEF Counted
  <2>3. Available' + Len(inside) + availIn <= pushed
    BY <1>6, <2>1, <2>2
  <2>4. QED
    BY <1>2, <2>3
<1>8. Counted'
  BY <1>1, <1>2, <1>6, <1>7 DEF Counted
<1>9. QED
  BY <1>3, <1>8


-----------------------------------------------------------------------------
(* The application that waits.                                             *)

\* It waits when it calls.
LEMMA CallBeginsWaits ==
    ASSUME BrotliAssumption, app = {}, TypeOK, OneAtATime, Planned, Fits, Counted, Waits,
           (\E n \in 1 .. MaxBytes : push(n)) \/ flush \/ finish
    PROVE  Waits' /\ attached /\ ~ended /\ ~completed /\ avail = 0 /\ ~consuming
<1>1. Single
  BY DEF Single
<1>2. /\ First("user")' \in Operations /\ todo'["io"] = <<>> /\ Ready
      /\ UNCHANGED <<flags, read, write, ended, output>>
  BY <1>1, CallBegins
<1>3. UNCHANGED <<avail, completed, attached, consuming, read, write, ended, output>>
  BY <1>2 DEF flags
<1>4. attached /\ avail = 0
  BY <1>2 DEF Ready
<1>5. ~completed /\ ~ended /\ First("io") = "none"
  BY <1>1, <1>2, ReadyMeans
<1>6. First("io")' = "none"
  BY <1>2 DEF First
<1>7. ~consuming
  BY <1>4, <1>5 DEF Waits
<1>8. Waits'
  BY <1>2, <1>3, <1>4, <1>5, <1>6, <1>7 DEF Waits, Operations
<1>9. QED
  BY <1>4, <1>5, <1>7, <1>8

\* A call that is under way; what it produces there is.
LEMMA CallWaits ==
    ASSUME BrotliAssumption, app = {}, TypeOK, OneAtATime, Planned, Fits, Counted, Waits, Numbered,
           NEW t \in Threads,
           \/ More(t) \/ Compress(t) \/ AddAvail(t) \/ Unlock(t) \/ Complete(t)
           \/ t = "user" /\ (Check(t) \/ Produce(t))
    PROVE  Waits' /\ attached /\ ~ended
<1>1. Single
  BY DEF Single
<1>2. /\ t = "user" /\ todo["user"] # <<>> /\ First("io") = "none" /\ First("io")' = "none"
      /\ First("user") # "process" => availIn = 0
  BY <1>1, Kinds, CallTurns
<1>3. attached /\ ~ended /\ First("user") # "none"
  BY <1>2, Firsts DEF Waits, TypeOK, StepsOK, UserSteps
<1>4. attached' /\ ~ended'
  <2>1. UNCHANGED <<attached, ended>>
    BY <1>2 DEF More, Compress, AddAvail, Unlock, Complete, Check, Produce, flags
  <2>2. QED
    BY <1>3, <2>1
<1>5. completed => First("user") \in {"check", "produce"}
  BY <1>2, UnderWay
<1>6. avail \in Nat /\ avail' \in Nat /\ Len(output) \in Nat
  <2>1. avail' \in Nat
    <3>1. read["user"] \in Nat /\ avail \in Nat
      BY Lengths
    <3>2. QED
      BY <1>2, <3>1 DEF More, Compress, AddAvail, Unlock, Complete, Check, Produce, flags
  <2>2. QED
    BY <2>1, Lengths
<1>7. CASE Compress(t)
  <2>1. First("user") \in Operations /\ First("user")' = "addAvail"
    BY <1>1, <1>7, Kinds, CallTurns
  <2>2. UNCHANGED <<avail, completed, consuming, write>>
    BY <1>7 DEF Compress, flags
  <2>3. avail = 0 /\ ~consuming /\ ~completed
    BY <1>5, <2>1 DEF Waits, Operations
  <2>4. write.st \notin {"chunk", "last"}
    BY <2>3 DEF OneAtATime
  <2>5. Waits'
    BY <1>2, <1>4, <2>1, <2>2, <2>3, <2>4 DEF Waits, Operations
  <2>6. QED
    BY <1>3, <2>5
<1>8. CASE AddAvail(t)
  <2>1. First("user") = "addAvail" /\ First("user")' = "check"
    BY <1>1, <1>8, Kinds, CallTurns
  <2>2. UNCHANGED <<completed, consuming, write, output>>
    BY <1>8 DEF AddAvail, buffers
  <2>3. avail = 0 /\ ~consuming /\ ~completed
    BY <1>5, <2>1 DEF Waits
  <2>4. write.st \notin {"chunk", "last"}
    BY <2>3 DEF OneAtATime
  <2>5. Waits'
    BY <1>2, <1>4, <2>1, <2>2, <2>3, <2>4 DEF Waits, Operations
  <2>6. QED
    BY <1>3, <2>5
<1>9. CASE More(t) \/ Unlock(t)
  <2>1. /\ First("user") \in {"flushMore", "finishMore", "unlock"}
        /\ First("user")' \in {"none", "flushMore", "finishMore", "check", "complete"}
    <3>1. First("user") \in {"flushMore", "finishMore", "unlock"}
      BY <1>1, <1>9, Kinds
    <3>2. QED
      BY <1>1, <1>9, <3>1, CallTurns
  <2>2. UNCHANGED <<avail, completed, consuming, read, write, output>>
    BY <1>9 DEF More, Unlock, buffers, flags
  <2>3. consuming \/ avail = 0
    BY <2>1 DEF Waits
  <2>4. Waits'
    BY <1>2, <1>4, <2>1, <2>2, <2>3 DEF Waits, Operations
  <2>5. QED
    BY <1>3, <2>4
<1>10. CASE Complete(t)
  <2>1. First("user") = "complete" /\ First("user")' = "check"
    BY <1>1, <1>10, Kinds, CallTurns
  <2>2. UNCHANGED <<avail, consuming, read, write, output>> /\ completed'
    BY <1>10 DEF Complete, buffers
  <2>3. consuming \/ avail = 0
    BY <2>1 DEF Waits
  <2>4. Waits'
    BY <1>2, <1>4, <2>1, <2>2, <2>3 DEF Waits, Operations
  <2>5. QED
    BY <1>3, <2>4
<1>11. CASE Check(t)
  <2>1. /\ First("user") = "check"
        /\ IF consuming THEN First("user")' \in {"none", "unlock"} ELSE First("user")' = "produce"
    <3>1. First("user") = "check"
      BY <1>1, <1>2, <1>11, Kinds
    <3>2. IF consuming \/ ~attached THEN First("user")' \in {"none", "unlock"}
          ELSE First("user")' = "produce"
      BY <1>1, <1>2, <1>11, <3>1, CallTurns
    <3>3. QED
      BY <1>3, <3>1, <3>2
  <2>2. UNCHANGED <<avail, completed, consuming, read, write, output>>
    BY <1>11 DEF Check, buffers, flags
  <2>3. Waits'
    BY <1>2, <1>4, <2>1, <2>2 DEF Waits, Operations
  <2>4. QED
    BY <1>3, <2>3
<1>12. CASE Produce(t)
  <2>1. First("user") = "produce" /\ First("user")' \in {"none", "unlock"}
    <3>1. First("user") = "produce"
      BY <1>1, <1>2, <1>12, Kinds
    <3>2. QED
      BY <1>1, <1>2, <1>12, <3>1, CallTurns
  <2>2. ~consuming /\ write.st \in {"idle", "done"}
    <3>1. ~consuming
      BY <2>1 DEF Waits
    <3>2. QED
      BY <2>1, <3>1 DEF OneAtATime, Threads
  <2>3. avail <= Len(output)
    BY <2>1, <2>2 DEF Numbered, Unsent
  <2>4. UNCHANGED <<avail, completed, read, output>>
    BY <1>12 DEF Produce
  <2>5. \/ completed /\ write' = LastChunk /\ consuming'
        \/ ~completed /\ avail # 0 /\ write' = Chunk(avail) /\ consuming'
        \/ ~completed /\ avail = 0 /\ write' = write /\ ~consuming'
    <3>1. CASE completed
      BY <1>12, <2>2, <3>1 DEF Produce, Started
    <3>2. CASE ~completed /\ avail = 0
      <4>1. ~(avail > Len(output)) /\ avail \notin 1 .. Len(output)
        BY <1>6, <3>2
      <4>2. QED
        BY <1>12, <3>2, <4>1 DEF Produce
    <3>3. CASE ~completed /\ avail # 0
      <4>1. ~(avail > Len(output)) /\ avail \in 1 .. Len(output)
        BY <1>6, <2>3, <3>3
      <4>2. QED
        BY <1>12, <2>2, <3>3, <4>1 DEF Produce, Started
    <3>4. QED
      BY <3>1, <3>2, <3>3
  <2>6. CASE completed /\ write' = LastChunk /\ consuming'
    <3>1. avail = 0 /\ write'.st = "last"
      BY <2>2, <2>6 DEF Waits, LastChunk
    <3>2. Waits'
      BY <1>2, <1>4, <2>1, <2>4, <2>6, <3>1 DEF Waits, Operations
    <3>3. QED
      BY <1>3, <3>2
  <2>7. CASE ~completed /\ avail # 0 /\ write' = Chunk(avail) /\ consuming'
    <3>1. write'.st = "chunk" /\ write'.size = avail
      BY <2>7 DEF Chunk
    <3>2. Waits'
      BY <1>2, <1>4, <2>1, <2>3, <2>4, <2>7, <3>1 DEF Waits, Operations
    <3>3. QED
      BY <1>3, <3>2
  <2>8. CASE ~completed /\ avail = 0 /\ write' = write /\ ~consuming'
    <3>1. Waits'
      BY <1>2, <1>4, <2>1, <2>2, <2>4, <2>8 DEF Waits, Operations
    <3>2. QED
      BY <1>3, <3>1
  <2>9. QED
    BY <2>5, <2>6, <2>7, <2>8
<1>13. QED
  BY <1>2, <1>7, <1>8, <1>9, <1>10, <1>11, <1>12

\* The handlers.
LEMMA HandlerWaits ==
    ASSUME BrotliAssumption, app = {}, TypeOK, OneAtATime, Waits,
           \/ Check("io") \/ Produce("io") \/ HeaderSent \/ HeaderFails \/ ChunkWritten
           \/ SubAvail \/ Erase \/ Consumed \/ Last \/ EndProduction
    PROVE  Waits'
<1>1. Single
  BY DEF Single
<1>2. First("user") = "none" /\ First("user")' = "none" /\ avail \in Nat
  BY <1>1, HandlerTurns, Lengths
<1>3. First("user") \notin Operations \cup {"addAvail", "produce", "check"}
  BY <1>2 DEF Operations
<1>4. First("user")' \notin Operations \cup {"addAvail", "produce", "check"}
  BY <1>2 DEF Operations
<1>5. CASE Check("io")
  <2>1. /\ First("io") = "check" /\ First("io")' \in {"none", "produce"}
        /\ First("io")' \in {"check", "produce"} => Len(todo'["io"]) = 1
    BY <1>1, <1>5, HandlerTurns
  <2>2. UNCHANGED <<avail, completed, attached, consuming, read, write, ended, output>>
    BY <1>5 DEF Check, buffers, flags
  <2>3. QED
    BY <1>2, <1>3, <1>4, <2>1, <2>2 DEF Waits
<1>6. CASE Produce("io")
  <2>1. First("io") = "produce" /\ First("io")' = "none"
    <3>1. First("io") = "produce"
      BY <1>1, <1>6, HandlerTurns
    <3>2. Len(todo["io"]) = 1
      BY <3>1 DEF Waits
    <3>3. QED
      BY <1>1, <1>6, <3>1, <3>2, HandlerTurns
  <2>2. avail = 0 /\ ~consuming /\ ~ended
    BY <2>1 DEF Waits
  <2>3. write.st \in {"idle", "done"}
    BY <2>1 DEF OneAtATime, Threads
  <2>4. UNCHANGED <<avail, completed, attached, read, output, ended>>
    BY <1>6 DEF Produce
  <2>5. \/ completed /\ write' = LastChunk /\ consuming'
        \/ ~completed /\ write' = write /\ ~consuming'
    <3>1. Len(output) \in Nat
      BY Lengths
    <3>2. ~(avail > Len(output)) /\ avail \notin 1 .. Len(output)
      BY <2>2, <3>1
    <3>3. QED
      BY <1>6, <2>3, <3>2 DEF Produce, Started
  <2>6. CASE completed /\ write' = LastChunk /\ consuming'
    <3>1. write'.st = "last"
      BY <2>6 DEF LastChunk
    <3>2. QED
      BY <1>2, <1>3, <1>4, <2>1, <2>2, <2>4, <2>6, <3>1 DEF Waits
  <2>7. CASE ~completed /\ write' = write /\ ~consuming'
    BY <1>2, <1>3, <1>4, <2>1, <2>2, <2>3, <2>4, <2>7 DEF Waits
  <2>8. QED
    BY <2>5, <2>6, <2>7
<1>7. CASE HeaderSent
  <2>1. /\ ~attached /\ ~ended /\ attached'
        /\ UNCHANGED <<avail, completed, consuming, read, write, ended, output>>
    BY <1>7 DEF HeaderSent, buffers
  <2>2. avail = 0
    BY <2>1 DEF Waits
  <2>3. First("io") = "none" /\ First("io")' = "none"
    <3>1. ~(avail > 0)
      BY <2>2
    <3>2. QED
      BY <1>1, <1>7, <3>1, HandlerTurns
  <2>4. QED
    BY <1>2, <1>3, <1>4, <2>1, <2>2, <2>3 DEF Waits
<1>8. CASE HeaderFails \/ EndProduction
  <2>1. ended' /\ UNCHANGED <<avail, completed, consuming, read, output>>
    BY <1>8 DEF HeaderFails, EndProduction, buffers, flags
  <2>2. write'.st \in {"idle", "failed"}
    BY <1>8 DEF HeaderFails, EndProduction, TypeOK, DataOK
  <2>3. First("io")' = "none"
    BY <1>1, <1>8, HandlerTurns
  <2>4. QED
    BY <1>2, <1>3, <1>4, <2>1, <2>2, <2>3 DEF Waits
<1>9. CASE ChunkWritten
  <2>1. /\ write.st = "chunk" /\ write' = [write EXCEPT !.st = "done"]
        /\ read' = [read EXCEPT !["io"] = Wrapped(avail - write.size)]
        /\ UNCHANGED <<avail, completed, attached, consuming, ended, output>>
    BY <1>9 DEF ChunkWritten, buffers, flags
  <2>2. write'.st = "done" /\ write'.size = write.size
    BY <2>1 DEF TypeOK, DataOK
  <2>3. avail = write.size /\ write.size <= Len(output) /\ avail # 0
    BY <2>1 DEF Waits
  <2>4. consuming /\ ~ended
    BY <2>1 DEF OneAtATime, Waits
  <2>5. read'["io"] = 0
    <3>1. avail - write.size = 0
      BY <1>2, <2>3
    <3>2. Wrapped(avail - write.size) = 0
      BY <3>1, Wraps
    <3>3. read \in [Threads -> Sizes] /\ "io" \in Threads
      BY DEF TypeOK, DataOK, Threads
    <3>4. QED
      BY <2>1, <3>2, <3>3
  <2>6. First("io")' = "subAvail"
    BY <1>1, <1>9, HandlerTurns
  <2>7. attached \/ ended
    BY <2>3 DEF Waits
  <2>8. QED
    BY <1>2, <1>3, <1>4, <2>1, <2>2, <2>3, <2>4, <2>5, <2>6, <2>7 DEF Waits
<1>10. CASE SubAvail
  <2>1. First("io") = "subAvail" /\ First("io")' = "erase"
    BY <1>1, <1>10, HandlerTurns
  <2>2. avail' = read["io"] /\ UNCHANGED <<completed, attached, consuming, read, write, ended, output>>
    BY <1>10 DEF SubAvail, buffers
  <2>3. avail' = 0 /\ consuming /\ ~ended /\ write.size <= Len(output)
    BY <2>1, <2>2 DEF Waits
  <2>4. write.st = "done"
    BY <2>1 DEF OneAtATime
  <2>5. QED
    BY <1>2, <1>3, <1>4, <2>1, <2>2, <2>3, <2>4 DEF Waits
<1>11. CASE Erase
  <2>1. First("io") = "erase" /\ First("io")' = "consumed"
    BY <1>1, <1>11, HandlerTurns
  <2>2. UNCHANGED <<avail, completed, attached, consuming, read, write, ended>>
    BY <1>11 DEF Erase, flags
  <2>3. write.st = "done"
    BY <2>1 DEF OneAtATime
  <2>4. QED
    BY <1>2, <1>3, <1>4, <2>1, <2>2, <2>3 DEF Waits
<1>12. CASE Consumed
  <2>1. First("io") = "consumed"
    BY <1>1, <1>12, HandlerTurns
  <2>2. avail = 0 /\ ~ended
    BY <2>1 DEF Waits
  <2>3. First("io")' = "last" /\ ~consuming'
    <3>1. ~(avail > 0)
      BY <2>2
    <3>2. QED
      BY <1>1, <1>12, <3>1, HandlerTurns DEF Consumed
  <2>4. UNCHANGED <<avail, completed, attached, read, write, ended, output>>
    BY <1>12 DEF Consumed, buffers
  <2>5. write.st = "done"
    BY <2>1 DEF OneAtATime
  <2>6. QED
    BY <1>2, <1>3, <1>4, <2>1, <2>2, <2>3, <2>4, <2>5 DEF Waits
<1>13. CASE Last
  <2>1. /\ First("io") = "last" /\ First("io")' \in {"none", "check"}
        /\ First("io")' \in {"check", "produce"} => Len(todo'["io"]) = 1
    BY <1>1, <1>13, HandlerTurns
  <2>2. UNCHANGED <<avail, completed, attached, consuming, read, write, ended, output>>
    BY <1>13 DEF Last, buffers, flags
  <2>3. QED
    BY <1>2, <1>3, <1>4, <2>1, <2>2 DEF Waits
<1>14. QED
  BY <1>5, <1>6, <1>7, <1>8, <1>9, <1>10, <1>11, <1>12, <1>13


-----------------------------------------------------------------------------
(* The bytes in their order.                                               *)

LEMMA InAll ==
    ASSUME Numbered
    PROVE  pushed = Len(wire) + Unsent + Len(inside) + availIn
BY DEF Numbered

\* Nothing moves; of the output only what no write waits for.
LEMMA NumberedStays ==
    ASSUME TypeOK, Numbered, Unsent' = Unsent,
           UNCHANGED <<pushed, input, availIn, inside, wire>>,
           output' = output \/ (Unsent = 0 /\ output' \in Seq(Nat)),
           ended' /\ write'.st = "idle" => Len(wire) = pushed, ~overrun'
    PROVE  Numbered'
<1>1. /\ Unsent' <= Len(output') /\ \A i \in 1 .. Unsent' : output'[i] = Len(wire) + i
  <2>1. CASE output' = output
    BY <2>1 DEF Numbered
  <2>2. CASE Unsent = 0 /\ output' \in Seq(Nat)
    <3>1. Len(output') \in Nat
      BY <2>2, LenProperties
    <3>2. QED
      BY <2>2, <3>1
  <2>3. QED
    BY <2>1, <2>2
<1>2. QED
  BY <1>1 DEF Numbered

\* The application calls push, flush or finish: what it gives comes last.
LEMMA NumberedBegins ==
    ASSUME BrotliAssumption, app = {}, TypeOK, OneAtATime, Planned, Fits, Counted, Waits, Numbered,
           (\E n \in 1 .. MaxBytes : push(n)) \/ flush \/ finish
    PROVE  Numbered'
<1>0. Single
  BY DEF Single
<1>1. ~ended /\ avail = 0 /\ availIn = 0 /\ First("user") = "none"
  <2>1. Ready
    BY DEF push, flush, finish
  <2>2. QED
    BY <1>0, <2>1, CallBeginsWaits, ReadyMeans
<1>2. Unsent = 0
  BY <1>1 DEF Unsent
<1>3. Unsent' = 0
  <2>1. First("user")' # "addAvail"
    BY <1>0, CallBegins DEF Operations
  <2>2. avail' = 0
    BY <1>1 DEF push, flush, finish, flags
  <2>3. QED
    BY <2>1, <2>2 DEF Unsent
<1>4. ~ended' /\ ~overrun'
  <2>1. UNCHANGED <<ended, overrun>>
    BY DEF push, flush, finish, buffers
  <2>2. ~overrun
    BY DEF Numbered
  <2>3. QED
    BY <1>1, <2>1, <2>2
<1>5. ASSUME NEW n \in 1 .. MaxBytes, push(n) PROVE Numbered'
  <2>1. /\ pushed' = pushed + n /\ availIn' = n /\ UNCHANGED <<inside, output, wire>>
        /\ n \in Nat
    BY <1>1, <1>5, BrotliAssumption DEF push, BrotliAssumption
  <2>2. \A i \in 1 .. n : input'[i] = pushed + i
    <3>1. input' = [i \in 1 .. Len(input) + n |-> IF i <= n THEN pushed + i
                                                 ELSE IF i <= Len(input) THEN input[i] ELSE 0]
      BY <1>5 DEF push
    <3>2. \A i \in 1 .. n : i \in 1 .. Len(input) + n /\ i <= n
      BY <2>1, Lengths
    <3>3. QED
      BY <3>1, <3>2
  <2>3. pushed = Len(wire) + Len(inside)
    BY <1>1, <1>2, InAll, Lengths
  <2>4. ASSUME NEW i \in 1 .. availIn' PROVE input'[i] = Len(wire) + Unsent' + Len(inside) + i
    <3>1. i \in Nat /\ input'[i] = pushed + i
      BY <2>1, <2>2
    <3>2. QED
      BY <1>3, <2>3, <3>1, Lengths
  <2>5. pushed' = Len(wire) + Unsent' + Len(inside) + availIn'
    BY <1>3, <2>1, <2>3, Lengths
  <2>6. QED
    BY <1>2, <1>3, <1>4, <2>1, <2>4, <2>5 DEF Numbered
<1>6. CASE flush \/ finish
  <2>1. UNCHANGED <<pushed, input, availIn, inside, wire, output>>
    BY <1>6 DEF flush, finish, buffers
  <2>2. QED
    BY <1>2, <1>3, <1>4, <2>1, NumberedStays
<1>7. QED
  BY <1>5, <1>6

\* The encoder gives out what it took in first, and the end of the stream last.
LEMMA NumberedEncodes ==
    ASSUME BrotliAssumption, app = {}, TypeOK, OneAtATime, Planned, Fits, Counted, Waits, Numbered,
           NEW t \in Threads, Compress(t)
    PROVE  Numbered'
<1>0. Single
  BY DEF Single
<1>1. First("user") \in Operations /\ availIn' = 0 /\ encoder = "processing"
  BY Empties
<1>2. First("user")' = "addAvail"
  BY <1>0, <1>1, CallTurns
<1>3. PICK j \in Nat, e \in {0, 1}, all \in Seq(Nat) :
        /\ j <= Len(all) /\ j <= Len(output')
        /\ Len(all) = Len(inside) + availIn + e
        /\ \A i \in 1 .. Len(inside) : all[i] = inside[i]
        /\ \A i \in 1 .. availIn : all[Len(inside) + i] = input[i]
        /\ e = 1 => all[Len(inside) + availIn + 1] = pushed + 1
        /\ pushed' = pushed + e
        /\ inside' \in Seq(Nat) /\ Len(inside') = Len(all) - j
        /\ \A i \in 1 .. Len(all) - j : inside'[i] = all[i + j]
        /\ output' \in Seq(Nat)
        /\ \A i \in 1 .. j : output'[i] = all[i]
        /\ read' = [read EXCEPT !["user"] = Wrapped(avail + j)]
  BY Empties
<1>4. avail = 0 /\ ~ended /\ Unsent = 0 /\ First("user") \notin {"none", "addAvail"}
  BY <1>1 DEF Waits, Unsent, Operations
<1>5. PICK l \in Nat, n \in Nat, a \in Nat, w \in Nat, b \in Nat :
        /\ l = Len(all) /\ n = Len(inside) /\ a = availIn /\ w = Len(wire) /\ b = pushed
        /\ l = n + a + e /\ j <= l /\ b = w + n + a /\ b <= MaxBytes /\ MaxBytes \in Nat
  <2>1. Len(all) \in Nat
    BY <1>3, LenProperties
  <2>2. pushed = Len(wire) + Len(inside) + availIn
    BY <1>4, InAll, Lengths
  <2>3. pushed <= MaxBytes
    BY <1>1 DEF Counted
  <2>4. QED
    BY <1>3, <2>1, <2>2, <2>3, Lengths
<1>6. Unsent' = j
  <2>1. j <= MaxBytes + 1
    BY <1>5
  <2>2. avail + j = j
    BY <1>4
  <2>3. Wrapped(avail + j) = j
    BY <2>1, <2>2, Wraps
  <2>4. read'["user"] = j
    BY <1>3, <2>3 DEF TypeOK, DataOK, Threads
  <2>5. QED
    BY <1>2, <2>4 DEF Unsent
<1>7. UNCHANGED <<wire, ended, overrun>>
  BY DEF Compress
<1>8. ASSUME NEW m \in 1 .. l PROVE all[m] = w + m
  <2>1. CASE m <= n
    <3>1. m \in DOMAIN inside /\ m \in 1 .. Len(inside)
      BY <1>5, <2>1, Lengths
    <3>2. inside[m] = Len(wire) + Unsent + m
      BY <3>1 DEF Numbered
    <3>3. QED
      BY <1>3, <1>4, <1>5, <3>1, <3>2
  <2>2. CASE m > n /\ m <= n + a
    <3>1. PICK i \in 1 .. availIn : i = m - n
      BY <1>5, <2>2
    <3>2. i \in Nat /\ m = n + i
      BY <1>5, <3>1
    <3>3. all[m] = input[i] /\ input[i] = Len(wire) + Unsent + Len(inside) + i
      BY <1>3, <1>5, <3>1, <3>2 DEF Numbered
    <3>4. QED
      BY <1>4, <1>5, <3>2, <3>3
  <2>3. CASE m > n + a
    <3>1. PICK d \in {0, 1} : d = e
      OBVIOUS
    <3>2. m \in Nat /\ m <= n + a + d
      BY <1>5, <3>1
    <3>3. d = 1 /\ m = n + a + 1
      BY <1>5, <2>3, <3>1, <3>2
    <3>4. all[m] = b + 1
      BY <1>3, <1>5, <3>1, <3>3
    <3>5. w + m = b + 1
      BY <1>5, <3>3
    <3>6. QED
      BY <3>4, <3>5
  <2>4. QED
    BY <1>5, <2>1, <2>2, <2>3
<1>9. \A i \in 1 .. Unsent' : output'[i] = Len(wire) + i
  <2>1. ASSUME NEW i \in 1 .. j PROVE output'[i] = Len(wire) + i
    <3>1. i \in 1 .. l
      BY <1>5
    <3>2. QED
      BY <1>3, <1>5, <1>8, <3>1
  <2>2. QED
    BY <1>6, <2>1
<1>10. \A i \in DOMAIN inside' : inside'[i] = Len(wire) + Unsent' + i
  <2>1. DOMAIN inside' = 1 .. l - j
    BY <1>3, <1>5, LenProperties
  <2>2. ASSUME NEW i \in 1 .. l - j PROVE inside'[i] = w + j + i
    <3>1. i + j \in 1 .. l /\ i \in Nat
      BY <1>5
    <3>2. inside'[i] = all[i + j] /\ all[i + j] = w + (i + j)
      BY <1>3, <1>5, <1>8, <3>1
    <3>3. QED
      BY <1>5, <3>1, <3>2
  <2>3. QED
    BY <1>5, <1>6, <2>1, <2>2
<1>11. pushed' = Len(wire) + Unsent' + Len(inside') + availIn'
  <2>1. pushed' = b + e /\ Len(inside') = l - j /\ availIn' = 0
    BY <1>1, <1>3, <1>5
  <2>2. b + e = w + j + (l - j) + 0
    BY <1>3, <1>5
  <2>3. QED
    BY <1>5, <1>6, <2>1, <2>2
<1>12. Unsent' <= Len(output')
  BY <1>3, <1>6
<1>13. \A i \in 1 .. availIn' : input'[i] = Len(wire) + Unsent' + Len(inside') + i
  BY <1>1
<1>14. ~ended' /\ ~overrun' /\ wire' = wire
  BY <1>4, <1>7 DEF Numbered
<1>15. QED
  BY <1>9, <1>10, <1>11, <1>12, <1>13, <1>14 DEF Numbered

\* What is available is written behind what was.
LEMMA NumberedProduces ==
    ASSUME BrotliAssumption, app = {}, TypeOK, OneAtATime, Planned, Fits, Counted, Waits, Numbered,
           NEW t \in Threads, Produce(t)
    PROVE  Numbered'
<1>0. Single
  BY DEF Single
<1>1. First(t) = "produce" /\ todo[t] # <<>>
  BY Whose DEF Produce
<1>2. First("user") \in {"produce", "none"} /\ First("user")' # "addAvail" /\ ~consuming /\ ~ended
  <2>1. CASE t = "user"
    <3>1. First("user") = "produce" /\ First("user")' \in {"none", "unlock"}
      BY <1>0, <1>1, <2>1, CallTurns
    <3>2. QED
      BY <3>1 DEF Waits
  <2>2. CASE t = "io"
    BY <1>0, <1>1, <2>2, HandlerTurns DEF Waits
  <2>3. QED
    BY <2>1, <2>2 DEF Threads
<1>3. /\ Unsent = avail /\ UNCHANGED <<pushed, input, availIn, inside, output, avail, ended>>
  BY <1>2 DEF Unsent, Produce
<1>4. /\ avail \in Nat /\ Len(output) \in Nat /\ avail <= Len(output) /\ ~overrun
      /\ \A i \in 1 .. avail : output[i] = Len(wire) + i
  BY <1>3, Lengths DEF Numbered
<1>5. overrun' = overrun
  <2>1. ~(avail > Len(output))
    BY <1>4
  <2>2. QED
    BY <2>1 DEF Produce
<1>6. completed => avail = 0
  BY <1>2 DEF Waits
<1>7. CASE avail = 0
  <2>1. Unsent = 0 /\ wire' = wire
    <3>1. avail \notin 1 .. Len(output)
      BY <1>4, <1>7
    <3>2. QED
      BY <1>3, <1>7, <3>1 DEF Produce
  <2>2. Unsent' = 0
    BY <1>2, <1>3, <1>7 DEF Unsent
  <2>3. ~overrun' /\ ~ended'
    BY <1>2, <1>3, <1>4, <1>5
  <2>4. QED
    BY <1>3, <2>1, <2>2, <2>3, NumberedStays
<1>8. CASE avail # 0
  <2> DEFINE sent == SubSeq(output, 1, avail)
  <2>1. wire' = wire \o sent /\ consuming'
    <3>1. avail \in 1 .. Len(output) /\ ~(avail > Len(output))
      BY <1>4, <1>8
    <3>2. QED
      BY <1>6, <1>8, <3>1 DEF Produce
  <2>2. Unsent' = 0
    BY <1>2, <2>1 DEF Unsent
  <2>3. sent \in Seq(Nat) /\ Len(sent) = avail /\ \A i \in 1 .. avail : sent[i] = Len(wire) + i
    <3>1. output \in Seq(Nat) /\ 1 \in 1 .. Len(output) + 1 /\ avail \in 0 .. Len(output)
      BY <1>4 DEF TypeOK, DataOK
    <3>2. /\ sent \in Seq(Nat) /\ Len(sent) = avail - 1 + 1
          /\ \A i \in 1 .. avail - 1 + 1 : sent[i] = output[1 + i - 1]
      BY <1>4, <1>8, <3>1, SubSeqProperties
    <3>3. avail - 1 + 1 = avail
      BY <1>4
    <3>4. ASSUME NEW i \in 1 .. avail PROVE sent[i] = output[i]
      <4>1. 1 + i - 1 = i
        BY <3>4
      <4>2. QED
        BY <3>2, <3>3, <4>1
    <3>5. QED
      BY <1>4, <3>2, <3>3, <3>4
  <2> HIDE DEF sent
  <2>4. /\ wire' \in Seq(Nat) /\ Len(wire') = Len(wire) + avail
        /\ \A i \in 1 .. Len(wire) + avail :
               wire'[i] = IF i <= Len(wire) THEN wire[i] ELSE sent[i - Len(wire)]
    <3>1. wire \in Seq(Nat)
      BY DEF TypeOK, DataOK
    <3>2. QED
      BY <2>1, <2>3, <3>1, ConcatProperties
  <2>5. DOMAIN wire' = 1 .. Len(wire) + avail
    BY <2>4, LenProperties
  <2>6. ASSUME NEW i \in 1 .. Len(wire) + avail PROVE wire'[i] = i
    <3>1. CASE i <= Len(wire)
      <4>1. i \in DOMAIN wire
        BY <3>1, Lengths
      <4>2. QED
        BY <2>4, <3>1, <4>1 DEF Numbered
    <3>2. CASE ~(i <= Len(wire))
      <4>1. i - Len(wire) \in 1 .. avail
        BY <3>2, Lengths
      <4>2. wire'[i] = Len(wire) + (i - Len(wire))
        BY <2>3, <2>4, <3>2, <4>1
      <4>3. QED
        BY <4>2, Lengths
    <3>3. QED
      BY <3>1, <3>2
  <2>7. \A i \in DOMAIN inside : inside[i] = Len(wire') + Unsent' + i
    BY <1>3, <2>2, <2>4, Lengths DEF Numbered
  <2>8. \A i \in 1 .. availIn : input[i] = Len(wire') + Unsent' + Len(inside) + i
    BY <1>3, <2>2, <2>4, Lengths DEF Numbered
  <2>9. pushed = Len(wire') + Unsent' + Len(inside) + availIn
    BY <1>3, <2>2, <2>4, Lengths DEF Numbered
  <2>10. Unsent' <= Len(output) /\ \A i \in 1 .. Unsent' : output[i] = Len(wire') + i
    BY <2>2, Lengths
  <2>11. ~overrun' /\ ~ended'
    BY <1>2, <1>3, <1>4, <1>5
  <2>12. QED
    BY <1>3, <2>5, <2>6, <2>7, <2>8, <2>9, <2>10, <2>11 DEF Numbered
<1>9. QED
  BY <1>7, <1>8

\* The other steps of a call, and the handlers, move no byte.
LEMMA NumberedStep ==
    ASSUME BrotliAssumption, app = {}, TypeOK, OneAtATime, Planned, Fits, Counted, Waits, Numbered,
           Next
    PROVE  Numbered'
<1>0. Single /\ ~overrun
  BY DEF Single, Numbered
<1>1. ASSUME (\E n \in 1 .. MaxBytes : push(n)) \/ flush \/ finish PROVE Numbered'
  BY <1>1, NumberedBegins
<1>2. ASSUME NEW t \in Threads, Compress(t) \/ Produce(t) PROVE Numbered'
  BY <1>2, NumberedEncodes, NumberedProduces
<1>3. ASSUME NEW t \in Threads, AddAvail(t) PROVE Numbered'
  <2>1. First("user") = "addAvail" /\ First("user")' = "check" /\ ~ended /\ t = "user"
    <3>1. First("user") = "addAvail" /\ t = "user"
      BY <1>0, <1>3, Kinds
    <3>2. QED
      BY <1>0, <1>3, <3>1, CallTurns, CallWaits
  <2>2. avail' = read["user"]
    BY <1>3, <2>1 DEF AddAvail
  <2>3. Unsent' = Unsent
    BY <1>3, <2>1, <2>2 DEF Unsent, AddAvail, Waits
  <2>4. UNCHANGED <<pushed, input, availIn, inside, output, wire, ended, overrun>>
    BY <1>3 DEF AddAvail, buffers
  <2>5. ~ended' /\ ~overrun'
    BY <1>0, <2>1, <2>4
  <2>6. QED
    BY <2>3, <2>4, <2>5, NumberedStays
<1>4. ASSUME NEW t \in Threads,
             More(t) \/ Unlock(t) \/ Complete(t) \/ (t = "user" /\ Check(t))
      PROVE  Numbered'
  <2>1. First("user") \in {"flushMore", "finishMore", "unlock", "complete", "check"}
    BY <1>0, <1>4, Kinds
  <2>2. First("user")' # "addAvail" /\ ~ended
    BY <1>0, <1>4, <2>1, CallTurns, CallWaits
  <2>3. UNCHANGED <<pushed, input, availIn, inside, output, wire, ended, avail, consuming, overrun>>
    BY <1>4 DEF More, Unlock, Complete, Check, buffers, flags
  <2>4. Unsent' = Unsent
    BY <2>1, <2>2, <2>3 DEF Unsent
  <2>5. ~ended' /\ ~overrun'
    BY <1>0, <2>2, <2>3
  <2>6. QED
    BY <2>3, <2>4, <2>5, NumberedStays
<1>5. ASSUME \/ Check("io") \/ HeaderSent \/ HeaderFails \/ ChunkWritten
             \/ SubAvail \/ Erase \/ Consumed \/ Last \/ EndProduction
      PROVE  Numbered'
  <2>1. First("user") = "none" /\ First("user")' = "none" /\ Waits'
    BY <1>0, <1>5, HandlerTurns, HandlerWaits
  <2>2. ~consuming => avail = 0
    BY <2>1 DEF Waits
  <2>3. ~consuming' => avail' = 0
    BY <2>1 DEF Waits
  <2>4. Unsent = 0 /\ Unsent' = 0
    BY <2>1, <2>2, <2>3 DEF Unsent
  <2>5. UNCHANGED <<pushed, input, availIn, inside, wire>>
    BY <1>5 DEF Check, HeaderSent, HeaderFails, ChunkWritten, SubAvail, Erase, Consumed, Last,
                EndProduction, buffers
  <2>6. output' \in Seq(Nat)
    BY DataStep DEF DataOK
  <2>7. ended' /\ write'.st = "idle" => Len(wire) = pushed
    <3>1. CASE EndProduction
      <4>1. CASE write.st = "last"
        <5>1. completed
          BY <4>1 DEF Waits
        <5>2. inside = <<>> /\ availIn = 0
          BY <2>1, <5>1 DEF Planned, Fits
        <5>3. QED
          BY <2>4, <5>2, EmptySeq, Lengths DEF Numbered
      <4>2. CASE write.st = "chunk"
        BY <3>1, <4>2 DEF EndProduction, TypeOK, DataOK
      <4>3. QED
        BY <3>1, <4>1, <4>2 DEF EndProduction
    <3>2. CASE HeaderFails
      BY <3>2 DEF HeaderFails, TypeOK, DataOK
    <3>3. CASE ~EndProduction /\ ~HeaderFails
      <4>1. UNCHANGED ended /\ (UNCHANGED write \/ write'.st = "done")
        BY <1>5, <3>3 DEF Check, HeaderSent, ChunkWritten, SubAvail, Erase, Consumed, Last,
                TypeOK, DataOK
      <4>2. QED
        BY <4>1 DEF Numbered
    <3>4. QED
      BY <3>1, <3>2, <3>3
  <2>8. ~overrun'
    <3>1. CASE Erase
      <4>1. First("io") = "erase"
        BY <1>0, <3>1, HandlerTurns
      <4>2. write.size <= Len(output)
        BY <4>1 DEF Waits
      <4>3. ~(write.size > Len(output))
        BY <4>2, Lengths
      <4>4. QED
        BY <3>1, <4>3 DEF Erase
    <3>2. CASE ~Erase
      <4>1. UNCHANGED overrun
        BY <1>5, <3>2 DEF Check, HeaderSent, HeaderFails, ChunkWritten, SubAvail, Consumed, Last,
                EndProduction, buffers
      <4>2. QED
        BY <1>0, <4>1
    <3>3. QED
      BY <3>1, <3>2
  <2>9. QED
    BY <2>4, <2>5, <2>6, <2>7, <2>8, NumberedStays
<1>6. ASSUME NEW t \in Threads PROVE ~CompressFails(t) /\ ~Fail(t)
  BY NothingFails
<1>7. QED
  BY <1>1, <1>2, <1>3, <1>4, <1>5, <1>6 DEF Next, Calls, Handlers, Threads

\* A patient application's steps keep waiting and order.
LEMMA PatientStep ==
    ASSUME BrotliAssumption, app = {}, TypeOK, OneAtATime, Planned, Fits, Counted, Waits, Numbered,
           Next
    PROVE  Waits' /\ Numbered'
<1>1. Numbered'
  BY NumberedStep
<1>2. ASSUME (\E n \in 1 .. MaxBytes : push(n)) \/ flush \/ finish PROVE Waits'
  BY <1>2, CallBeginsWaits
<1>3. ASSUME NEW t \in Threads,
             \/ More(t) \/ Compress(t) \/ AddAvail(t) \/ Unlock(t) \/ Complete(t)
             \/ t = "user" /\ (Check(t) \/ Produce(t))
      PROVE  Waits'
  BY <1>3, CallWaits
<1>4. ASSUME Check("io") \/ Produce("io") \/ Handlers PROVE Waits'
  BY <1>4, HandlerWaits DEF Handlers
<1>5. ASSUME NEW t \in Threads PROVE ~CompressFails(t) /\ ~Fail(t)
  BY NothingFails
<1>6. QED
  BY <1>1, <1>2, <1>3, <1>4, <1>5 DEF Next, Calls, Threads

\* A step of an application with no thread beside the handlers, and no large pushes.
LEMMA SingleStep ==
    ASSUME Single, BrotliAssumption, TypeOK, OneAtATime, Planned, Fits, Counted, Next
    PROVE  OneAtATime' /\ Planned' /\ Fits' /\ Counted'
<1>1. OneAtATime'
  BY OneAtATimeStep
<1>2. ASSUME (\E n \in 1 .. MaxBytes : push(n)) \/ flush \/ finish PROVE Planned' /\ Fits' /\ Counted'
  BY <1>2, CallBegins
<1>3. ASSUME NEW t \in Threads,
             \/ More(t) \/ Compress(t) \/ AddAvail(t) \/ Unlock(t) \/ Complete(t)
             \/ t = "user" /\ (Check(t) \/ Produce(t))
      PROVE  Planned' /\ Fits' /\ Counted'
  BY <1>3, CallTurns, CallGoesOn
<1>4. ASSUME Check("io") \/ Produce("io") \/ Handlers PROVE Planned' /\ Fits' /\ Counted'
  BY <1>4, HandlerGoesOn DEF Handlers
<1>5. ASSUME NEW t \in Threads PROVE ~CompressFails(t) /\ ~Fail(t)
  BY NothingFails
<1>6. QED
  BY <1>1, <1>2, <1>3, <1>4, <1>5 DEF Next, Calls, Threads

\* The inductive invariant, of every behaviour: what kind of step comes when and that the
\* sizes do not wrap, for one thread, and where every byte is, for an application that waits.
THEOREM Invariance == Spec => []IInv
<1> USE BrotliAssumption
<1>1. Init => IInv
  <2> SUFFICES ASSUME Init PROVE IInv
    OBVIOUS
  <2>1. TypeOK
    <3>1. DataOK
      BY Wraps DEF Init, DataOK, NoWrite, WriteStates, Threads
    <3>2. StepsOK
      BY DEF Init, StepsOK, Threads
    <3>3. FlagsOK /\ app \subseteq Env
      BY DEF Init, FlagsOK
    <3>4. QED
      BY <3>1, <3>2, <3>3 DEF TypeOK
  <2>2. /\ todo["user"] = <<>> /\ todo["io"] = <<>> /\ \A t \in Threads : First(t) = "none"
        /\ First("user") = "none" /\ First("io") = "none"
    BY DEF Init, Threads, First
  <2>3. /\ write.st = "idle" /\ ~ended /\ ~attached /\ ~completed /\ ~consuming /\ ~overrun
        /\ avail = 0 /\ availIn = 0 /\ encoder = "processing"
    BY DEF Init, NoWrite
  <2>4. /\ Len(<<>>) = 0 /\ DOMAIN <<>> = {}
        /\ inside = <<>> /\ wire = <<>> /\ output = <<>> /\ pushed = 0
    BY EmptySeq DEF Init
  <2>5. OneAtATime
    BY <2>2, <2>3, <2>4 DEF OneAtATime, HandlerFits, UserPlain
  <2>6. Planned
    <3>1. Len(PushPlan) = 4
      BY DEF PushPlan
    <3>2. QED
      BY <2>2, <2>3, <2>4, <3>1 DEF Planned, Follows
  <2>7. Fits /\ Counted
    <3>1. Len(inside) = 0 /\ MaxBytes \in Nat /\ MinimumAvail \in Nat \ {0}
      BY <2>4 DEF BrotliAssumption
    <3>2. Fits
      BY <2>2, <2>3, <3>1 DEF Fits
    <3>3. Available = 0
      BY <2>2, <2>3 DEF Available
    <3>4. Counted
      BY <2>2, <2>3, <2>4, <3>1, <3>3 DEF Counted
    <3>5. QED
      BY <3>2, <3>4
  <2>8. Waits
    BY <2>2, <2>3, <2>4 DEF Waits, Operations
  <2>9. Numbered
    <3>1. Unsent = 0
      BY <2>2, <2>3 DEF Unsent
    <3>2. QED
      BY <2>3, <2>4, <3>1 DEF Numbered
  <2>10. QED
    BY <2>1, <2>5, <2>6, <2>7, <2>8, <2>9 DEF IInv
<1>2. IInv /\ [Next]_vars => IInv'
  <2>1. ASSUME IInv, Next PROVE IInv'
    <3>1. TypeOK /\ app' = app
      BY <2>1 DEF IInv, Next
    <3>2. TypeOK'
      BY <2>1, <3>1, DataStep, FlagsStep, StepsStep DEF TypeOK
    <3>3. ASSUME Single' PROVE OneAtATime' /\ Planned' /\ Fits' /\ Counted'
      <4>1. Single
        BY <3>1, <3>3 DEF Single
      <4>2. QED
        BY <2>1, <3>1, <4>1, SingleStep DEF IInv
    <3>4. ASSUME app' = {} PROVE Waits' /\ Numbered'
      <4>1. app = {} /\ Single
        BY <3>1, <3>4 DEF Single
      <4>2. QED
        BY <2>1, <3>1, <4>1, PatientStep DEF IInv
    <3>5. QED
      BY <3>2, <3>3, <3>4 DEF IInv
  <2>2. ASSUME IInv, UNCHANGED vars PROVE IInv'
    <3>1. UNCHANGED <<app, pushed, input, availIn, inside, encoder, output, overrun, avail, completed,
                      attached, consuming, locked, todo, read, write, wire, ended>>
      BY <2>2 DEF vars, state, buffers, flags
    <3>2. TypeOK'
      BY <2>2, <3>1 DEF IInv, TypeOK, DataOK, FlagsOK, StepsOK
    <3>3. OneAtATime <=> OneAtATime'
      BY <3>1 DEF OneAtATime, UserPlain, First
    <3>4. (Planned <=> Planned') /\ (Fits <=> Fits') /\ (Counted <=> Counted')
      BY <3>1 DEF Planned, Fits, Counted, Available, First
    <3>5. Waits <=> Waits'
      BY <3>1 DEF Waits, First
    <3>6. Numbered <=> Numbered'
      BY <3>1 DEF Numbered, Unsent, First
    <3>7. QED
      BY <2>2, <3>1, <3>2, <3>3, <3>4, <3>5, <3>6 DEF IInv, Single
  <2>3. QED
    BY <2>1, <2>2
<1>3. QED
  BY <1>1, <1>2, PTL DEF Spec

\* What push() and has_consumed() promise an application that waits until all is
\* consumed: for any number of bytes and any room of the output, what is written is what
\* was pushed, in order, and all of it once the last chunk is written, with nothing read
\* or erased that output_ has not; and no write begins before the one before it ended, in
\* every application that has no thread of its own and pushes no more than fits.
THEOREM PatientIsWritten == Spec => []PatientWireIsPushed
<1>1. IInv => PatientWireIsPushed
  <2> SUFFICES ASSUME IInv PROVE PatientWireIsPushed
    OBVIOUS
  <2>1. Single => write.st # "clash"
    BY DEF IInv, OneAtATime
  <2>2. ASSUME app = {} PROVE InOrder /\ Whole /\ ~overrun
    <3>1. Numbered /\ wire \in Seq(Nat)
      BY <2>2 DEF IInv, TypeOK, DataOK
    <3>2. wire \in [1 .. Len(wire) -> Nat] /\ \A i \in 1 .. Len(wire) : wire[i] = i
      BY <3>1, LenProperties DEF Numbered
    <3>3. InOrder
      BY <3>2 DEF InOrder
    <3>4. Whole /\ ~overrun
      BY <3>1 DEF Numbered, Whole
    <3>5. QED
      BY <3>3, <3>4
  <2>3. QED
    BY <2>1, <2>2 DEF PatientWireIsPushed
<1>2. QED
  BY <1>1, Invariance, PTL

-----------------------------------------------------------------------------
(* The end of a production.                                                *)

Writing == write.st \in {"chunk", "last"}

\* The end of the stream, which finish() makes the encoder give out, is about to be
\* available or is.
Yields ==
    encoder = "finished" /\ ~completed =>
        IF First("user") = "addAvail" THEN read["user"] > 0 ELSE avail > 0

\* One thread: consuming_ is set only while a write is under way or its handler is
\* not through, and whoever finds the production complete starts the last chunk.
Finishes ==
    /\ Yields
    /\ \A t \in Threads : First(t) = "produce" => attached
    /\ todo["io"] # <<>> => attached
    /\ Writing => attached
    /\ ~attached /\ ~ended => ~consuming
    /\ ~attached /\ ~ended /\ completed => avail > 0
    /\ consuming /\ ~ended =>
           Writing \/ First("io") \in {"subAvail", "erase", "consumed", "produce"}
    /\ completed /\ attached /\ todo["user"] = <<>> /\ todo["io"] = <<>> => Writing

FInv == Single /\ ~overrun => Finishes

\* finish(): the response comes to its end.  In an application with no thread of its own that
\* pushes no more than fits, as long as no more was written into output_ than it has: its loop
\* does not go round again, and when the production is complete and no call and no handler has
\* anything left to do, the response was ended, or a write is under way, or the header is still
\* to be sent and there is something for its handler to write.
FinishIsNotForgotten ==
    Single /\ ~overrun =>
        /\ Finishing => availIn = 0
        /\ completed /\ (\A t \in Threads : todo[t] = <<>>) =>
               ended \/ Writing \/ (~attached /\ avail > 0)

\* What on_produce_ begins, for one thread: a write, or nothing if nothing is available.
LEMMA Produces ==
    ASSUME Single, BrotliAssumption, TypeOK, OneAtATime, NEW t \in Threads, First(t) = "produce",
           Produce(t), ~overrun'
    PROVE  \/ write' = LastChunk /\ consuming'
           \/ ~completed /\ write' = Chunk(avail) /\ consuming'
           \/ ~completed /\ write' = write /\ ~consuming'
<1>1. write.st \in {"idle", "done"} /\ avail \in Nat /\ Len(output) \in Nat
  BY Lengths DEF OneAtATime
<1>2. CASE completed
  BY <1>1, <1>2 DEF Produce, Started
<1>3. CASE ~completed /\ avail > Len(output)
  BY <1>3 DEF Produce
<1>4. CASE ~completed /\ ~(avail > Len(output)) /\ avail \in 1 .. Len(output)
  BY <1>1, <1>4 DEF Produce, Started
<1>5. CASE ~completed /\ ~(avail > Len(output)) /\ avail \notin 1 .. Len(output)
  BY <1>5 DEF Produce
<1>6. QED
  BY <1>2, <1>3, <1>4, <1>5

\* A call begins.
LEMMA FinishesBegins ==
    ASSUME Single, BrotliAssumption, TypeOK, OneAtATime, Planned, Fits, Counted, Finishes,
           (\E n \in 1 .. MaxBytes : push(n)) \/ flush \/ finish
    PROVE  Finishes'
<1>1. /\ First("user")' \in Operations /\ todo'["io"] = <<>> /\ Ready
      /\ UNCHANGED <<flags, read, write, ended, encoder>>
  <2>1. UNCHANGED encoder
    BY DEF push, flush, finish, buffers
  <2>2. QED
    BY <2>1, CallBegins
<1>2. encoder = "processing" /\ First("io") = "none"
  BY <1>1, ReadyMeans
<1>3. UNCHANGED <<avail, completed, attached, consuming, write, ended, encoder>>
  BY <1>1 DEF flags
<1>4. todo'["user"] # <<>> /\ First("user")' # "produce" /\ First("io")' = "none"
  BY <1>1 DEF First, Operations
<1>5. Yields'
  BY <1>2, <1>3 DEF Yields
<1>6. \A t \in Threads : First(t)' # "produce"
  BY <1>4 DEF Threads
<1>7. QED
  BY <1>1, <1>2, <1>3, <1>4, <1>5, <1>6 DEF Finishes, Writing

\* What finish() has ready.
LEMMA YieldsStep ==
    ASSUME Single, BrotliAssumption, TypeOK, OneAtATime, Planned, Fits, Counted, Yields,
           NEW t \in Threads,
           \/ More(t) \/ Compress(t) \/ AddAvail(t) \/ Unlock(t) \/ Complete(t)
           \/ t = "user" /\ (Check(t) \/ Produce(t))
    PROVE  Yields'
<1>1. CASE Compress(t)
  <2>1. First("user") \in Operations /\ First("user")' = "addAvail"
    BY <1>1, Kinds, CallTurns
  <2>2. encoder = "processing" /\ encoder' = IF First("user") = "finish" THEN "finished" ELSE encoder
    BY <1>1, Empties
  <2>3. PICK j \in Nat, e \in {0, 1}, all \in Seq(Nat) :
          /\ e = 1 <=> First("user") = "finish"
          /\ j <= Len(all) /\ Len(all) = Len(inside) + availIn + e
          /\ read' = [read EXCEPT !["user"] = Wrapped(avail + j)]
          /\ First("user") # "process" => j = Len(all)
    BY <1>1, Empties
  <2>4. CASE First("user") = "finish"
    <3>1. PICK n \in Nat, a \in Nat, v \in Nat, b \in Nat :
            /\ n = Len(inside) /\ a = availIn /\ v = avail /\ b = pushed
            /\ b <= MaxBytes /\ v + n + a <= b /\ MaxBytes \in Nat
      <4>1. Available = avail
        BY <1>1, <2>1, Kinds DEF Available, Operations
      <4>2. QED
        BY <2>2, <4>1, Lengths DEF Counted
    <3>2. j = n + a + 1
      BY <2>3, <2>4, <3>1
    <3>3. v + j <= MaxBytes + 1 /\ v + j > 0 /\ v + j \in Nat
      BY <3>1, <3>2
    <3>4. Wrapped(avail + j) = v + j
      BY <3>1, <3>3, Wraps
    <3>5. read'["user"] = v + j
      BY <2>3, <3>4 DEF TypeOK, DataOK, Threads
    <3>6. QED
      BY <2>1, <3>3, <3>5 DEF Yields
  <2>5. CASE First("user") # "finish"
    BY <2>2, <2>5 DEF Yields
  <2>6. QED
    BY <2>4, <2>5
<1>2. CASE AddAvail(t)
  <2>1. First("user") = "addAvail" /\ First("user")' = "check" /\ t = "user"
    BY <1>2, Kinds, CallTurns
  <2>2. avail' = read["user"] /\ UNCHANGED <<encoder, completed>>
    BY <1>2, <2>1 DEF AddAvail, buffers
  <2>3. QED
    BY <2>1, <2>2 DEF Yields
<1>3. CASE Complete(t)
  BY <1>3 DEF Complete, Yields
<1>4. CASE ~Compress(t) /\ ~AddAvail(t) /\ ~Complete(t)
  <2>1. First("user") \in {"flushMore", "finishMore", "unlock", "check", "produce"}
    BY <1>4, Kinds
  <2>2. First("user")' # "addAvail"
    BY <2>1, CallTurns
  <2>3. UNCHANGED <<encoder, completed, avail>>
    BY <1>4 DEF More, Unlock, Check, Produce, buffers, flags
  <2>4. QED
    BY <2>1, <2>2, <2>3 DEF Yields
<1>5. QED
  BY <1>1, <1>2, <1>3, <1>4

\* A call goes on.
LEMMA FinishesCalls ==
    ASSUME Single, BrotliAssumption, TypeOK, OneAtATime, Planned, Fits, Counted, Finishes, ~overrun',
           NEW t \in Threads,
           \/ More(t) \/ Compress(t) \/ AddAvail(t) \/ Unlock(t) \/ Complete(t)
           \/ t = "user" /\ (Check(t) \/ Produce(t))
    PROVE  Finishes'
<1>1. /\ t = "user" /\ todo["user"] # <<>> /\ First("io") = "none" /\ todo'["io"] = <<>>
      /\ First("io")' = "none" /\ UNCHANGED <<attached, ended>>
  <2>1. UNCHANGED <<attached, ended>>
    BY DEF More, Compress, AddAvail, Unlock, Complete, Check, Produce, flags
  <2>2. QED
    BY <2>1, Kinds, CallTurns
<1>2. Yields'
  BY YieldsStep DEF Finishes
<1>3. completed => First("user") \in {"check", "produce"}
  BY <1>1, UnderWay
<1>4. ended => ~attached
  BY DEF OneAtATime
<1>5. CASE Compress(t) \/ AddAvail(t) \/ More(t) \/ Unlock(t)
  <2>1. First("user") \in Operations \cup {"addAvail", "flushMore", "finishMore", "unlock"}
    BY <1>5, Kinds
  <2>2. First("user")' # "produce"
    BY <2>1, CallTurns DEF Operations
  <2>3. UNCHANGED <<completed, consuming, write>>
    BY <1>5 DEF Compress, AddAvail, More, Unlock, flags
  <2>4. ~completed
    BY <1>3, <2>1 DEF Operations
  <2>5. \A u \in Threads : First(u)' # "produce"
    BY <1>1, <2>2 DEF Threads
  <2>6. QED
    BY <1>1, <1>2, <2>3, <2>4, <2>5 DEF Finishes, Writing
<1>6. CASE Complete(t)
  <2>1. First("user") = "complete" /\ First("user")' = "check"
    BY <1>6, Kinds, CallTurns
  <2>2. UNCHANGED <<avail, consuming, write>>
    BY <1>6 DEF Complete
  <2>3. ~completed /\ encoder = "finished"
    BY <1>1, <1>3, <2>1, UnderWay
  <2>4. avail > 0
    BY <2>1, <2>3 DEF Finishes, Yields
  <2>5. todo'["user"] # <<>> /\ \A u \in Threads : First(u)' # "produce"
    BY <1>1, <2>1 DEF First, Threads
  <2>6. QED
    BY <1>1, <1>2, <2>2, <2>4, <2>5 DEF Finishes, Writing
<1>7. CASE Check(t)
  <2>1. First("user") = "check"
    BY <1>1, <1>7, Kinds
  <2>2. IF consuming \/ ~attached THEN First("user")' \in {"none", "unlock"}
        ELSE First("user")' = "produce"
    BY <1>1, <1>7, <2>1, CallTurns
  <2>3. UNCHANGED <<avail, completed, consuming, write>>
    BY <1>7 DEF Check, flags
  <2>4. \A u \in Threads : First(u)' = "produce" => attached
    BY <1>1, <2>2 DEF Threads
  <2>5. attached /\ todo'["user"] = <<>> => consuming
    BY <2>2 DEF First
  <2>6. attached /\ consuming => Writing
    BY <1>1, <1>4 DEF Finishes
  <2>7. QED
    BY <1>1, <1>2, <2>3, <2>4, <2>5, <2>6 DEF Finishes, Writing
<1>8. CASE Produce(t)
  <2>1. First("user") = "produce" /\ First("user")' \in {"none", "unlock"}
    <3>1. First("user") = "produce"
      BY <1>1, <1>8, Kinds
    <3>2. QED
      BY <3>1, CallTurns
  <2>2. attached /\ attached'
    BY <1>1, <2>1 DEF Finishes
  <2>3. UNCHANGED completed
    BY <1>8 DEF Produce
  <2>4. \/ write' = LastChunk /\ consuming'
        \/ ~completed /\ write' = Chunk(avail) /\ consuming'
        \/ ~completed /\ write' = write /\ ~consuming'
    BY <1>1, <1>8, <2>1, Produces
  <2>5. (completed' \/ consuming') => write'.st \in {"chunk", "last"}
    BY <2>3, <2>4 DEF LastChunk, Chunk
  <2>6. QED
    BY <1>1, <1>2, <2>2, <2>5 DEF Finishes, Writing
<1>9. QED
  BY <1>1, <1>5, <1>6, <1>7, <1>8

\* The handlers.
LEMMA FinishesHandlers ==
    ASSUME Single, BrotliAssumption, TypeOK, OneAtATime, Planned, Finishes, ~overrun',
           \/ Check("io") \/ Produce("io") \/ HeaderSent \/ HeaderFails \/ ChunkWritten
           \/ SubAvail \/ Erase \/ Consumed \/ Last \/ EndProduction
    PROVE  Finishes'
<1>1. /\ todo["user"] = <<>> /\ todo'["user"] = <<>>
      /\ First("user") = "none" /\ First("user")' = "none"
  BY HandlerTurns
<1>2. UNCHANGED <<completed, encoder>>
  BY DEF Check, Produce, HeaderSent, HeaderFails, ChunkWritten, SubAvail, Erase, Consumed, Last,
         EndProduction, buffers, flags
<1>3. Yields'
  <2>1. encoder = "finished" => completed
    <3>1. Len(todo["user"]) = 0
      BY <1>1, EmptySeq
    <3>2. Len(todo["user"]) \notin 2 .. 6
      BY <3>1
    <3>3. QED
      BY <3>2 DEF Planned
  <2>2. QED
    BY <1>2, <2>1 DEF Yields
<1>4. ended => ~attached
  BY DEF OneAtATime
<1>5. First("io") # "none" => todo["io"] # <<>>
  BY DEF First
<1>6. First("io")' # "none" => todo'["io"] # <<>>
  BY DEF First
<1>7. First("io") \notin {"none"} => attached /\ ~ended
  BY <1>4, <1>5 DEF Finishes
<1>8. CASE Check("io")
  <2>1. First("io") = "check" /\ First("io")' = IF consuming \/ ~attached THEN "none" ELSE "produce"
    BY <1>8, HandlerTurns
  <2>2. UNCHANGED <<avail, attached, consuming, write, ended>>
    BY <1>8 DEF Check, flags
  <2>3. attached /\ ~ended
    BY <1>7, <2>1
  <2>4. consuming => Writing
    BY <2>1, <2>3 DEF Finishes
  <2>5. QED
    BY <1>1, <1>2, <1>3, <1>6, <2>1, <2>2, <2>3, <2>4 DEF Finishes, Writing
<1>9. CASE Produce("io")
  <2>1. First("io") = "produce" /\ First("io")' \in {"none", "last"}
    BY <1>9, HandlerTurns
  <2>2. UNCHANGED <<attached, ended>> /\ attached
    BY <1>7, <1>9, <2>1 DEF Produce
  <2>3. \/ write' = LastChunk /\ consuming'
        \/ ~completed /\ write' = Chunk(avail) /\ consuming'
        \/ ~completed /\ write' = write /\ ~consuming'
    BY <1>9, <2>1, Produces DEF Threads
  <2>4. (completed' \/ consuming') => write'.st \in {"chunk", "last"}
    BY <1>2, <2>3 DEF LastChunk, Chunk
  <2>5. attached' /\ \A u \in Threads : First(u)' # "produce"
    BY <1>1, <2>1, <2>2 DEF Threads
  <2>6. QED
    BY <1>3, <2>4, <2>5 DEF Finishes, Writing
<1>10. CASE HeaderSent
  <2>1. /\ ~attached /\ ~ended /\ attached' /\ UNCHANGED <<avail, consuming, write, ended>>
        /\ First("io")' = IF avail > 0 THEN "check" ELSE "none"
    BY <1>10, HandlerTurns DEF HeaderSent
  <2>2. ~consuming /\ (completed => avail > 0)
    BY <2>1 DEF Finishes
  <2>3. completed => todo'["io"] # <<>>
    BY <1>6, <2>1, <2>2
  <2>4. \A u \in Threads : First(u)' # "produce"
    BY <1>1, <2>1 DEF Threads
  <2>5. QED
    BY <1>2, <1>3, <2>1, <2>2, <2>3, <2>4 DEF Finishes, Writing
<1>11. CASE HeaderFails \/ EndProduction
  <2>1. ended' /\ ~attached' /\ UNCHANGED todo /\ First("io")' = "none"
    <3>1. First("io")' = "none"
      BY <1>11, HandlerTurns
    <3>2. CASE HeaderFails
      BY <3>1, <3>2 DEF HeaderFails, flags
    <3>3. CASE EndProduction
      BY <3>1, <3>3 DEF EndProduction
    <3>4. QED
      BY <1>11, <3>2, <3>3
  <2>2. write'.st \in {"idle", "failed"}
    BY <1>11 DEF HeaderFails, EndProduction, TypeOK, DataOK
  <2>3. todo'["io"] = <<>>
    <3>1. Free("io")
      BY <1>11 DEF HeaderFails, EndProduction
    <3>2. QED
      BY <2>1, <3>1 DEF Free
  <2>4. \A u \in Threads : First(u)' # "produce"
    BY <1>1, <2>1 DEF Threads
  <2>5. QED
    BY <1>3, <2>1, <2>2, <2>3, <2>4 DEF Finishes, Writing
<1>12. CASE ChunkWritten
  <2>1. /\ write.st = "chunk" /\ write' = [write EXCEPT !.st = "done"]
        /\ UNCHANGED <<avail, attached, consuming, ended>> /\ First("io")' = "subAvail"
    BY <1>12, HandlerTurns DEF ChunkWritten, flags
  <2>2. write'.st = "done" /\ attached
    BY <2>1 DEF Finishes, Writing, TypeOK, DataOK
  <2>3. \A u \in Threads : First(u)' # "produce"
    BY <1>1, <2>1 DEF Threads
  <2>4. QED
    BY <1>3, <1>6, <2>1, <2>2, <2>3 DEF Finishes, Writing
<1>13. CASE SubAvail \/ Erase \/ Consumed
  <2>1. /\ First("io") \in {"subAvail", "erase", "consumed"}
        /\ First("io")' \in {"erase", "consumed", "produce", "last"}
        /\ First("io")' = "last" => ~consuming'
    BY <1>13, HandlerTurns DEF Consumed
  <2>2. UNCHANGED <<attached, write, ended>> /\ attached
    BY <1>7, <1>13, <2>1 DEF SubAvail, Erase, Consumed, flags
  <2>3. QED
    BY <1>1, <1>3, <1>6, <2>1, <2>2 DEF Finishes, Writing
<1>14. CASE Last
  <2>1. /\ First("io") = "last"
        /\ First("io")' = IF ~consuming /\ completed THEN "check" ELSE "none"
    BY <1>14, HandlerTurns
  <2>2. UNCHANGED <<attached, consuming, write, ended>> /\ attached /\ ~ended
    BY <1>7, <1>14, <2>1 DEF Last, flags
  <2>3. consuming => Writing
    BY <2>1, <2>2 DEF Finishes
  <2>4. \A u \in Threads : First(u)' # "produce"
    BY <1>1, <2>1 DEF Threads
  <2>5. QED
    BY <1>2, <1>3, <1>6, <2>1, <2>2, <2>3, <2>4 DEF Finishes, Writing
<1>15. QED
  BY <1>8, <1>9, <1>10, <1>11, <1>12, <1>13, <1>14

\* push and flush have no step complete; a step process is push's.
LEMMA OnlyPushFills ==
    ASSUME TypeOK, Planned, Fits, Finishing
    PROVE  availIn = 0
<1>1. SUFFICES ASSUME availIn # 0 PROVE FALSE
  OBVIOUS
<1> DEFINE s == todo["user"]
<1>2. First("user") = "process" /\ s # <<>>
  BY <1>1 DEF Fits, First
<1>3. PICK plan \in Plans :
        /\ Follows(s, plan) /\ DOMAIN s = 1 .. Len(s) /\ Len(s) \in Nat \ {0}
        /\ \/ plan \in {PushPlan, FlushPlan}
           \/ plan = FinishPlan /\ First("user") \in {"finish"}
           \/ First("user") \notin Operations
  BY <1>2, UnderWay
<1>4. plan \in {PushPlan, FlushPlan}
  BY <1>2, <1>3 DEF Operations
<1>5. PICK i \in DOMAIN s : s[i] = "complete"
  BY DEF Finishing
<1>6. Len(s) <= Len(plan) /\ s[i] = plan[Len(s) + 1 - i]
  BY <1>3, <1>5 DEF Follows
<1>7. PICK k \in 1 .. Len(plan) : plan[k] = "complete"
  <2>1. Len(plan) \in Nat
    BY <1>4 DEF PushPlan, FlushPlan
  <2>2. PICK n \in Nat, m \in Nat : n = Len(s) /\ m = Len(plan) /\ n <= m /\ i \in 1 .. n
    BY <1>3, <1>5, <1>6, <2>1
  <2>3. n + 1 - i \in 1 .. m
    BY <2>2
  <2>4. QED
    BY <1>5, <1>6, <2>2, <2>3
<1>8. QED
  BY <1>4, <1>7 DEF PushPlan, FlushPlan

\* What finish() promises, for any number of bytes and any room of the output.
THEOREM NoFinishForgotten == Spec => []FinishIsNotForgotten
<1> USE BrotliAssumption
<1>1. Init => FInv
  <2> SUFFICES ASSUME Init PROVE Finishes
    BY DEF FInv
  <2>1. /\ todo["user"] = <<>> /\ todo["io"] = <<>> /\ \A t \in Threads : First(t) = "none"
        /\ write.st = "idle" /\ ~attached /\ ~completed /\ ~consuming /\ encoder = "processing"
    BY DEF Init, Threads, First, NoWrite
  <2>2. QED
    BY <2>1 DEF Finishes, Yields, Writing
<1>2. IInv /\ FInv /\ [Next]_vars => FInv'
  <2>1. ASSUME IInv, FInv, Next PROVE FInv'
    <3> SUFFICES ASSUME Single', ~overrun' PROVE Finishes'
      BY DEF FInv
    <3>1. Single /\ ~overrun
      BY <2>1 DEF Next, Single
    <3>2. TypeOK /\ OneAtATime /\ Planned /\ Fits /\ Counted /\ Finishes
      BY <2>1, <3>1 DEF IInv, FInv
    <3>3. ASSUME (\E n \in 1 .. MaxBytes : push(n)) \/ flush \/ finish PROVE Finishes'
      BY <3>1, <3>2, <3>3, FinishesBegins
    <3>4. ASSUME NEW t \in Threads,
                 \/ More(t) \/ Compress(t) \/ AddAvail(t) \/ Unlock(t) \/ Complete(t)
                 \/ t = "user" /\ (Check(t) \/ Produce(t))
          PROVE  Finishes'
      BY <3>1, <3>2, <3>4, FinishesCalls
    <3>5. ASSUME Check("io") \/ Produce("io") \/ Handlers PROVE Finishes'
      BY <3>1, <3>2, <3>5, FinishesHandlers DEF Handlers
    <3>6. ASSUME NEW t \in Threads PROVE ~CompressFails(t) /\ ~Fail(t)
      BY <3>2, NothingFails
    <3>7. QED
      BY <2>1, <3>3, <3>4, <3>5, <3>6 DEF Next, Calls, Threads
  <2>2. ASSUME FInv, UNCHANGED vars PROVE FInv'
    <3>1. UNCHANGED <<app, encoder, overrun, avail, completed, attached, consuming, todo, read,
                      write, ended>>
      BY <2>2 DEF vars, state, buffers, flags
    <3>2. Finishes <=> Finishes'
      BY <3>1 DEF Finishes, Yields, Writing, First
    <3>3. QED
      BY <2>2, <3>1, <3>2 DEF FInv, Single
  <2>3. QED
    BY <2>1, <2>2
<1>3. IInv /\ FInv => FinishIsNotForgotten
  <2> SUFFICES ASSUME IInv, FInv, Single, ~overrun
               PROVE  /\ Finishing => availIn = 0
                      /\ completed /\ (\A t \in Threads : todo[t] = <<>>) =>
                             ended \/ Writing \/ (~attached /\ avail > 0)
    BY DEF FinishIsNotForgotten
  <2>1. Finishing => availIn = 0
    BY OnlyPushFills DEF IInv
  <2>2. ASSUME completed, \A t \in Threads : todo[t] = <<>>
        PROVE  ended \/ Writing \/ (~attached /\ avail > 0)
    <3>1. todo["user"] = <<>> /\ todo["io"] = <<>>
      BY <2>2 DEF Threads
    <3>2. QED
      BY <2>2, <3>1 DEF FInv, Finishes
  <2>3. QED
    BY <2>1, <2>2
<1>4. QED
  BY <1>1, <1>2, <1>3, Invariance, PTL DEF Spec
=============================================================================
