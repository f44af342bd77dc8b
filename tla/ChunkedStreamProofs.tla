-------------------------- MODULE ChunkedStreamProofs --------------------------
(***************************************************************************)
(* Proofs about ChunkedStream: its type invariant, WireInOrder,            *)
(* OneWriteAtATime, NoStalledItems and EndsOnce, and that no finished      *)
(* production is forgotten and no call blocked, for every application and  *)
(* any number of items.                                                    *)
(***************************************************************************)
EXTENDS ChunkedStream, SequenceTheorems, TLAPS

\* The places of a thread in produced_data().
Calling == {"check", "attached", "lock", "call"}

\* What is written is the items from the first on.
InOrder(s) == s \in Seq(Nat) /\ \A i \in DOMAIN s : s[i] = i

Places ==
    /\ pc["producer"] \in Calling \cup {"idle", "left", "threw"}
    /\ pc["starter"] \in Calling \cup {"header", "start", "done", "threw"}
    /\ pc["writer"] \in {"idle", "joining"}

\* on_produce_protect_ is held by who calls on_produce_ or joins the producer,
\* and by nobody else; on_produce_ is set while it is called.
ProtectFitsPlaces ==
    /\ \A t \in Callers : pc[t] = "call" <=> prot = t
    /\ pc["writer"] = "joining" <=> prot = "writer"
    /\ prot \in Callers => attached = "yes"

\* The connection is attached by the starter and detached by the end.
AttachedFitsPlaces ==
    /\ pc["starter"] = "header" => attached = "no"
    /\ pc["starter"] \in {"start", "check", "attached", "lock", "call"} => attached # "no"
    /\ attached = "no" => ~consuming /\ write = NoWrite /\ pc["producer"] # "lock"
    /\ finished = IF attached = "gone" THEN 1 ELSE 0
    /\ attached = "gone" => write = NoWrite

\* What was written are the items that were consumed and those of the write
\* under way, which are still in the buffer.
WireFitsBuffer ==
    write.st # "clash" =>
        /\ InOrder(wire) /\ Len(wire) <= produced
        /\ attached # "gone" => Len(wire) = consumed + write.items
        /\ write.st = "idle" => write = NoWrite
        /\ write.last => write.items = 0 /\ completed

\* Only one thread calls produced_data(), and consuming_ tells it of the write
\* under way.
OneCaller ==
    /\ pc["producer"] \in Calling => pc["starter"] \in {"header", "done"}
    /\ \A t \in Callers : pc[t] # "threw"
    /\ \A t \in Callers : pc[t] \in {"attached", "lock"} => ~consuming
    /\ \A t \in Callers : pc[t] = "lock" => attached = "yes"
    /\ \A t \in Callers : pc[t] = "call" => consuming /\ write = NoWrite
    /\ write.st # "clash" /\ (write.st # "idle" => consuming)

\* finish() was called when everything was written.
FinishesLate ==
    completed => attached # "no" /\ produced = consumed /\ write.items = 0
                 /\ (write.st = "idle" \/ write.last)

IInv ==
    /\ TypeOK /\ Places /\ ProtectFitsPlaces /\ AttachedFitsPlaces /\ WireFitsBuffer
    /\ NoStalledItems
    /\ WaitsForStart => OneCaller
    /\ WaitsForStart /\ "finishesEarly" \notin app => FinishesLate

-----------------------------------------------------------------------------
(* Every step keeps the inductive invariant.                               *)

\* What a write may become has the type of a write.
LEMMA WritesTyped ==
    ASSUME StreamAssumption
    PROVE  /\ NoWrite \in Writes /\ LastChunk \in Writes /\ Clash \in Writes
           /\ \A n \in 0 .. MaxItems : Pending(n) \in Writes
BY DEF StreamAssumption, Writes, NoWrite, LastChunk, Clash, Pending

\* A field of a write has its type.
LEMMA WriteFields ==
    ASSUME StreamAssumption, TypeOK
    PROVE  /\ write.items \in 0 .. MaxItems /\ write.items \in Nat /\ write.last \in BOOLEAN
           /\ \A r \in {"ok", "err"} : [write EXCEPT !.st = r] \in Writes
BY DEF StreamAssumption, TypeOK, Writes

\* A push: the thread that pushed goes on to produced_data().
LEMMA PushStep ==
    ASSUME StreamAssumption, IInv, Push, UNCHANGED app
    PROVE  IInv'
<1> USE DEF Callers, Calling, Buffered, NoWrite
<1>1. TypeOK'
  BY DEF StreamAssumption, IInv, TypeOK, Push, MayPush, producerVars
<1>2. Places' /\ ProtectFitsPlaces'
  BY DEF IInv, TypeOK, Places, ProtectFitsPlaces, Push, MayPush, producerVars
<1>3. AttachedFitsPlaces'
  BY DEF IInv, TypeOK, AttachedFitsPlaces, Places, Push, MayPush, producerVars
<1>4. WireFitsBuffer'
  BY DEF IInv, TypeOK, WireFitsBuffer, Push, MayPush, producerVars
<1>5. NoStalledItems'
  BY DEF IInv, TypeOK, NoStalledItems, Push, MayPush, producerVars
<1>6. (WaitsForStart => OneCaller)'
  BY DEF IInv, TypeOK, WaitsForStart, OneCaller, Push, MayPush, producerVars
<1>7. (WaitsForStart /\ "finishesEarly" \notin app => FinishesLate)'
  BY DEF IInv, TypeOK, WaitsForStart, FinishesLate, Push, MayPush, producerVars
<1>8. QED
  BY <1>1, <1>2, <1>3, <1>4, <1>5, <1>6, <1>7 DEF IInv

\* flush() likewise, without an item.
LEMMA FlushStep ==
    ASSUME StreamAssumption, IInv, Flush, UNCHANGED app
    PROVE  IInv'
<1> USE DEF Callers, Calling, Buffered, NoWrite
<1>1. TypeOK'
  BY DEF StreamAssumption, IInv, TypeOK, Flush, MayPush, producerVars
<1>2. Places' /\ ProtectFitsPlaces'
  BY DEF IInv, TypeOK, Places, ProtectFitsPlaces, Flush, MayPush, producerVars
<1>3. AttachedFitsPlaces'
  BY DEF IInv, TypeOK, AttachedFitsPlaces, Places, Flush, MayPush, producerVars
<1>4. WireFitsBuffer'
  BY DEF IInv, TypeOK, WireFitsBuffer, Flush, MayPush, producerVars
<1>5. NoStalledItems'
  BY DEF IInv, TypeOK, NoStalledItems, Flush, MayPush, producerVars
<1>6. (WaitsForStart => OneCaller)'
  BY DEF IInv, TypeOK, WaitsForStart, OneCaller, Flush, MayPush, producerVars
<1>7. (WaitsForStart /\ "finishesEarly" \notin app => FinishesLate)'
  BY DEF IInv, TypeOK, WaitsForStart, FinishesLate, Flush, MayPush, producerVars
<1>8. QED
  BY <1>1, <1>2, <1>3, <1>4, <1>5, <1>6, <1>7 DEF IInv

\* finish().
LEMMA FinishStep ==
    ASSUME StreamAssumption, IInv, Finish, UNCHANGED app
    PROVE  IInv'
<1> USE DEF Callers, Calling, Buffered, NoWrite
<1>1. TypeOK'
  BY DEF StreamAssumption, IInv, TypeOK, Finish, MayPush, producerVars
<1>2. Places' /\ ProtectFitsPlaces'
  BY DEF IInv, TypeOK, Places, ProtectFitsPlaces, Finish, MayPush, producerVars
<1>3. AttachedFitsPlaces'
  BY DEF IInv, TypeOK, AttachedFitsPlaces, Places, Finish, MayPush, producerVars
<1>4. WireFitsBuffer'
  BY DEF IInv, TypeOK, WireFitsBuffer, Finish, MayPush, producerVars
<1>5. NoStalledItems'
  BY DEF IInv, TypeOK, NoStalledItems, Finish, MayPush, producerVars
<1>6. (WaitsForStart => OneCaller)'
  BY DEF IInv, TypeOK, WaitsForStart, OneCaller, Finish, MayPush, producerVars
<1>7. (WaitsForStart /\ "finishesEarly" \notin app => FinishesLate)'
  BY DEF IInv, TypeOK, WaitsForStart, FinishesLate, OneCaller, AttachedFitsPlaces, WireFitsBuffer, Finish, MayPush, producerVars
<1>8. QED
  BY <1>1, <1>2, <1>3, <1>4, <1>5, <1>6, <1>7 DEF IInv

\* The application's thread returns.
LEMMA LeaveStep ==
    ASSUME StreamAssumption, IInv, Leave, UNCHANGED app
    PROVE  IInv'
<1> USE DEF Callers, Calling, Buffered, NoWrite
<1>1. TypeOK'
  BY DEF StreamAssumption, IInv, TypeOK, Leave, producerVars
<1>2. Places' /\ ProtectFitsPlaces'
  BY DEF IInv, TypeOK, Places, ProtectFitsPlaces, Leave, producerVars
<1>3. AttachedFitsPlaces'
  BY DEF IInv, TypeOK, AttachedFitsPlaces, Places, Leave, producerVars
<1>4. WireFitsBuffer'
  BY DEF IInv, TypeOK, WireFitsBuffer, Leave, producerVars
<1>5. NoStalledItems'
  BY DEF IInv, TypeOK, NoStalledItems, Leave, producerVars
<1>6. (WaitsForStart => OneCaller)'
  BY DEF IInv, TypeOK, WaitsForStart, OneCaller, Leave, producerVars
<1>7. (WaitsForStart /\ "finishesEarly" \notin app => FinishesLate)'
  BY DEF IInv, TypeOK, WaitsForStart, FinishesLate, Leave, producerVars
<1>8. QED
  BY <1>1, <1>2, <1>3, <1>4, <1>5, <1>6, <1>7 DEF IInv

\* The test of consuming_.
LEMMA CheckStep ==
    ASSUME StreamAssumption, IInv, NEW t \in Callers, Check(t), UNCHANGED app
    PROVE  IInv'
<1> USE DEF Callers, Calling, Buffered, NoWrite
<1>1. TypeOK'
  BY DEF StreamAssumption, IInv, TypeOK, Check, Release, Idle, producerVars
<1>2. Places' /\ ProtectFitsPlaces'
  BY DEF IInv, TypeOK, Places, ProtectFitsPlaces, Check, Release, Idle, producerVars
<1>3. AttachedFitsPlaces'
  BY DEF IInv, TypeOK, AttachedFitsPlaces, Places, Check, Release, Idle, producerVars
<1>4. WireFitsBuffer'
  BY DEF IInv, TypeOK, WireFitsBuffer, Check, Release, Idle, producerVars
<1>5. NoStalledItems'
  BY DEF IInv, TypeOK, NoStalledItems, Check, Release, Idle, producerVars
<1>6. (WaitsForStart => OneCaller)'
  BY DEF IInv, TypeOK, WaitsForStart, OneCaller, Check, Release, Idle, producerVars
<1>7. (WaitsForStart /\ "finishesEarly" \notin app => FinishesLate)'
  BY DEF IInv, TypeOK, WaitsForStart, FinishesLate, Check, Release, Idle, producerVars
<1>8. QED
  BY <1>1, <1>2, <1>3, <1>4, <1>5, <1>6, <1>7 DEF IInv

\* The test of on_produce_.
LEMMA HasConsumerAttachedStep ==
    ASSUME StreamAssumption, IInv, NEW t \in Callers, HasConsumerAttached(t), UNCHANGED app
    PROVE  IInv'
<1> USE DEF Callers, Calling, Buffered, NoWrite
<1>1. TypeOK'
  BY DEF StreamAssumption, IInv, TypeOK, HasConsumerAttached, Release, Idle, producerVars
<1>2. Places' /\ ProtectFitsPlaces'
  BY DEF IInv, TypeOK, Places, ProtectFitsPlaces, HasConsumerAttached, Release, Idle, producerVars
<1>3. AttachedFitsPlaces'
  BY DEF IInv, TypeOK, AttachedFitsPlaces, Places, HasConsumerAttached, Release, Idle, producerVars
<1>4. WireFitsBuffer'
  BY DEF IInv, TypeOK, WireFitsBuffer, HasConsumerAttached, Release, Idle, producerVars
<1>5. NoStalledItems'
  BY DEF IInv, TypeOK, NoStalledItems, HasConsumerAttached, Release, Idle, producerVars
<1>6. (WaitsForStart => OneCaller)'
  BY DEF IInv, TypeOK, WaitsForStart, OneCaller, HasConsumerAttached, Release, Idle, producerVars
<1>7. (WaitsForStart /\ "finishesEarly" \notin app => FinishesLate)'
  BY DEF IInv, TypeOK, WaitsForStart, FinishesLate, HasConsumerAttached, Release, Idle, producerVars
<1>8. QED
  BY <1>1, <1>2, <1>3, <1>4, <1>5, <1>6, <1>7 DEF IInv

\* on_produce_ is called, and consuming_ set.
LEMMA EnterStep ==
    ASSUME StreamAssumption, IInv, NEW t \in Callers, Enter(t), UNCHANGED app
    PROVE  IInv'
<1> USE DEF Callers, Calling, Buffered, NoWrite
<1>1. TypeOK'
  BY ZenonT(40) DEF StreamAssumption, IInv, TypeOK, Enter, Release, producerVars
<1>2. Places' /\ ProtectFitsPlaces'
  BY DEF IInv, TypeOK, Places, ProtectFitsPlaces, Enter, Release, producerVars
<1>3. AttachedFitsPlaces'
  BY DEF IInv, TypeOK, AttachedFitsPlaces, Places, Enter, Release, producerVars
<1>4. WireFitsBuffer'
  BY DEF IInv, TypeOK, WireFitsBuffer, Enter, Release, producerVars
<1>5. NoStalledItems'
  BY DEF IInv, TypeOK, NoStalledItems, Enter, Release, producerVars
<1>6. (WaitsForStart => OneCaller)'
  BY DEF IInv, TypeOK, WaitsForStart, OneCaller, ProtectFitsPlaces, WireFitsBuffer, Calling, Places, Enter, Release, producerVars
<1>7. (WaitsForStart /\ "finishesEarly" \notin app => FinishesLate)'
  BY DEF IInv, TypeOK, WaitsForStart, FinishesLate, Enter, Release, producerVars
<1>8. QED
  BY <1>1, <1>2, <1>3, <1>4, <1>5, <1>6, <1>7 DEF IInv

\* The connection is attached.
LEMMA HeaderSentStep ==
    ASSUME StreamAssumption, IInv, HeaderSent, UNCHANGED app
    PROVE  IInv'
<1> USE DEF Callers, Calling, Buffered, NoWrite
<1>1. TypeOK'
  BY DEF StreamAssumption, IInv, TypeOK, HeaderSent, producerVars
<1>2. Places' /\ ProtectFitsPlaces'
  BY DEF IInv, TypeOK, Places, ProtectFitsPlaces, HeaderSent, producerVars
<1>3. AttachedFitsPlaces'
  BY DEF IInv, TypeOK, AttachedFitsPlaces, Places, HeaderSent, producerVars
<1>4. WireFitsBuffer'
  BY DEF IInv, TypeOK, WireFitsBuffer, AttachedFitsPlaces, HeaderSent, producerVars
<1>5. NoStalledItems'
  BY DEF IInv, TypeOK, NoStalledItems, HeaderSent, producerVars
<1>6. (WaitsForStart => OneCaller)'
  BY DEF IInv, TypeOK, WaitsForStart, OneCaller, HeaderSent, producerVars
<1>7. (WaitsForStart /\ "finishesEarly" \notin app => FinishesLate)'
  BY DEF IInv, TypeOK, WaitsForStart, FinishesLate, HeaderSent, producerVars
<1>8. QED
  BY <1>1, <1>2, <1>3, <1>4, <1>5, <1>6, <1>7 DEF IInv

\* It is not, since the header could not be sent.
LEMMA HeaderFailedStep ==
    ASSUME StreamAssumption, IInv, HeaderFailed, UNCHANGED app
    PROVE  IInv'
<1> USE DEF Callers, Calling, Buffered, NoWrite
<1>1. TypeOK'
  BY DEF StreamAssumption, IInv, TypeOK, HeaderFailed, producerVars
<1>2. Places' /\ ProtectFitsPlaces'
  BY DEF IInv, TypeOK, Places, ProtectFitsPlaces, HeaderFailed, producerVars
<1>3. AttachedFitsPlaces'
  BY DEF IInv, TypeOK, AttachedFitsPlaces, Places, HeaderFailed, producerVars
<1>4. WireFitsBuffer'
  BY DEF IInv, TypeOK, WireFitsBuffer, HeaderFailed, producerVars
<1>5. NoStalledItems'
  BY DEF IInv, TypeOK, NoStalledItems, HeaderFailed, producerVars
<1>6. (WaitsForStart => OneCaller)'
  BY DEF IInv, TypeOK, WaitsForStart, OneCaller, HeaderFailed, producerVars
<1>7. (WaitsForStart /\ "finishesEarly" \notin app => FinishesLate)'
  BY DEF IInv, TypeOK, WaitsForStart, FinishesLate, HeaderFailed, producerVars
<1>8. QED
  BY <1>1, <1>2, <1>3, <1>4, <1>5, <1>6, <1>7 DEF IInv

\* start_production().
LEMMA StartProductionStep ==
    ASSUME StreamAssumption, IInv, StartProduction, UNCHANGED app
    PROVE  IInv'
<1> USE DEF Callers, Calling, Buffered, NoWrite
<1>1. TypeOK'
  BY DEF StreamAssumption, IInv, TypeOK, StartProduction, producerVars
<1>2. Places' /\ ProtectFitsPlaces'
  BY DEF IInv, TypeOK, Places, ProtectFitsPlaces, StartProduction, producerVars
<1>3. AttachedFitsPlaces'
  BY DEF IInv, TypeOK, AttachedFitsPlaces, Places, StartProduction, producerVars
<1>4. WireFitsBuffer'
  BY DEF IInv, TypeOK, WireFitsBuffer, StartProduction, producerVars
<1>5. NoStalledItems'
  BY DEF IInv, TypeOK, NoStalledItems, StartProduction, producerVars
<1>6. (WaitsForStart => OneCaller)'
  BY DEF IInv, TypeOK, WaitsForStart, OneCaller, StartProduction, producerVars
<1>7. (WaitsForStart /\ "finishesEarly" \notin app => FinishesLate)'
  BY DEF IInv, TypeOK, WaitsForStart, FinishesLate, StartProduction, producerVars
<1>8. QED
  BY <1>1, <1>2, <1>3, <1>4, <1>5, <1>6, <1>7 DEF IInv

\* A write succeeds or fails.
LEMMA WriteCompletesStep ==
    ASSUME StreamAssumption, IInv, WriteCompletes, UNCHANGED app
    PROVE  IInv'
<1> USE DEF Callers, Calling, Buffered, NoWrite
<1>1. TypeOK'
  <2>1. consuming' \in BOOLEAN /\ completed' \in BOOLEAN /\ removed' \in BOOLEAN
    BY DEF IInv, TypeOK, WriteCompletes, producerVars
  <2>2. produced' \in 0 .. MaxItems /\ consumed' \in 0 .. produced' /\ finished' \in Nat
    BY DEF IInv, TypeOK, WriteCompletes, producerVars
  <2>3. write' \in Writes
    BY WriteFields DEF IInv, WriteCompletes, producerVars
  <2>4. QED
    BY <2>1, <2>2, <2>3 DEF IInv, TypeOK, WriteCompletes, producerVars
<1>2. Places' /\ ProtectFitsPlaces'
  BY DEF IInv, TypeOK, Places, ProtectFitsPlaces, WriteCompletes, producerVars
<1>3. AttachedFitsPlaces'
  BY DEF IInv, TypeOK, AttachedFitsPlaces, Places, WriteCompletes, producerVars
<1>4. WireFitsBuffer'
  BY DEF IInv, TypeOK, WireFitsBuffer, WriteCompletes, producerVars
<1>5. NoStalledItems'
  BY DEF IInv, TypeOK, NoStalledItems, WriteCompletes, producerVars
<1>6. (WaitsForStart => OneCaller)'
  BY DEF IInv, TypeOK, WaitsForStart, OneCaller, WriteCompletes, producerVars
<1>7. (WaitsForStart /\ "finishesEarly" \notin app => FinishesLate)'
  BY DEF IInv, TypeOK, WaitsForStart, FinishesLate, WriteCompletes, producerVars
<1>8. QED
  BY <1>1, <1>2, <1>3, <1>4, <1>5, <1>6, <1>7 DEF IInv

\* The connection is detached.
LEMMA EndProductionStep ==
    ASSUME StreamAssumption, IInv, EndProduction, UNCHANGED app
    PROVE  IInv'
<1> USE DEF Callers, Calling, Buffered, NoWrite
<1>1. TypeOK'
  <2>1. consuming' \in BOOLEAN /\ completed' \in BOOLEAN /\ removed' \in BOOLEAN
    BY DEF IInv, TypeOK, EndProduction, producerVars
  <2>2. produced' \in 0 .. MaxItems /\ consumed' \in 0 .. produced' /\ finished' \in Nat
    BY DEF IInv, TypeOK, EndProduction, producerVars
  <2>3. write' \in Writes
    BY WritesTyped DEF IInv, EndProduction, producerVars
  <2>4. QED
    BY <2>1, <2>2, <2>3 DEF IInv, TypeOK, EndProduction, producerVars
<1>2. Places' /\ ProtectFitsPlaces'
  BY DEF IInv, TypeOK, Places, ProtectFitsPlaces, EndProduction, producerVars
<1>3. AttachedFitsPlaces'
  BY DEF IInv, TypeOK, AttachedFitsPlaces, Places, EndProduction, producerVars
<1>4. WireFitsBuffer'
  BY DEF IInv, TypeOK, WireFitsBuffer, EndProduction, producerVars
<1>5. NoStalledItems'
  BY DEF IInv, TypeOK, NoStalledItems, EndProduction, producerVars
<1>6. (WaitsForStart => OneCaller)'
  BY DEF IInv, TypeOK, WaitsForStart, OneCaller, EndProduction, producerVars
<1>7. (WaitsForStart /\ "finishesEarly" \notin app => FinishesLate)'
  BY DEF IInv, TypeOK, WaitsForStart, FinishesLate, EndProduction, producerVars
<1>8. QED
  BY <1>1, <1>2, <1>3, <1>4, <1>5, <1>6, <1>7 DEF IInv

\* The producer's thread is joined.
LEMMA JoinedStep ==
    ASSUME StreamAssumption, IInv, Joined, UNCHANGED app
    PROVE  IInv'
<1> USE DEF Callers, Calling, Buffered, NoWrite
<1>1. TypeOK'
  BY DEF StreamAssumption, IInv, TypeOK, Joined, producerVars
<1>2. Places' /\ ProtectFitsPlaces'
  BY DEF IInv, TypeOK, Places, ProtectFitsPlaces, Joined, producerVars
<1>3. AttachedFitsPlaces'
  BY DEF IInv, TypeOK, AttachedFitsPlaces, Places, Joined, producerVars
<1>4. WireFitsBuffer'
  BY DEF IInv, TypeOK, WireFitsBuffer, Joined, producerVars
<1>5. NoStalledItems'
  BY DEF IInv, TypeOK, NoStalledItems, Joined, producerVars
<1>6. (WaitsForStart => OneCaller)'
  BY DEF IInv, TypeOK, WaitsForStart, OneCaller, Joined, producerVars
<1>7. (WaitsForStart /\ "finishesEarly" \notin app => FinishesLate)'
  BY DEF IInv, TypeOK, WaitsForStart, FinishesLate, Joined, producerVars
<1>8. QED
  BY <1>1, <1>2, <1>3, <1>4, <1>5, <1>6, <1>7 DEF IInv

\* The numbers of the next k items follow the ones of the items written.
LEMMA NumbersFollow ==
    ASSUME NEW s, InOrder(s), NEW k \in Nat
    PROVE  /\ InOrder(s \o Numbers(Len(s), k))
           /\ Len(s \o Numbers(Len(s), k)) = Len(s) + k
<1>1. s \in Seq(Nat) /\ Len(s) \in Nat /\ \A i \in 1 .. Len(s) : s[i] = i
  BY LenProperties DEF InOrder
<1> DEFINE n == Numbers(Len(s), k)
<1>2. n \in Seq(Nat) /\ Len(n) = k /\ \A i \in 1 .. k : n[i] = Len(s) + i
  BY <1>1 DEF Numbers
<1> HIDE DEF n
<1>3. /\ s \o n \in Seq(Nat) /\ Len(s \o n) = Len(s) + k
      /\ \A i \in 1 .. Len(s) + k : (s \o n)[i] = IF i <= Len(s) THEN s[i] ELSE n[i - Len(s)]
  BY <1>1, <1>2, ConcatProperties
<1>4. \A i \in 1 .. Len(s) + k : (s \o n)[i] = i
  BY <1>1, <1>2, <1>3
<1>5. DOMAIN (s \o n) = 1 .. Len(s) + k
  BY <1>3, LenProperties
<1>6. QED
  BY <1>3, <1>4, <1>5 DEF InOrder, n

\* on_produce_ writes what is buffered, after what was written, or the last
\* chunk; with nothing to write it only clears consuming_.
LEMMA OnProduceWrites ==
    ASSUME TypeOK, NEW from \in Nat, NEW n \in Nat, NEW busy \in BOOLEAN,
           OnProduce(from, n, busy)
    PROVE  /\ wire' \in Seq(Nat)
           /\ consuming' \in BOOLEAN /\ (consuming' <=> completed \/ n > 0)
           /\ ~consuming' => UNCHANGED <<write, wire>>
           /\ consuming' => write' = IF busy THEN Clash ELSE IF completed THEN LastChunk ELSE Pending(n)
           /\ consuming' /\ ~busy /\ InOrder(wire) /\ Len(wire) = from =>
                  InOrder(wire') /\ Len(wire') = from + write'.items
<1>1. CASE completed
  BY <1>1 DEF TypeOK, OnProduce, LastChunk
<1>2. CASE ~completed /\ n > 0
  <2>1. wire' = wire \o Numbers(from, n)
    BY <1>2 DEF OnProduce
  <2>2. Numbers(from, n) \in Seq(Nat)
    BY DEF Numbers
  <2>3. wire' \in Seq(Nat)
    BY <2>1, <2>2, ConcatProperties DEF TypeOK
  <2>4. ~busy => write'.items = n
    BY <1>2 DEF OnProduce, Pending
  <2>5. QED
    BY <1>2, <2>1, <2>3, <2>4, NumbersFollow DEF OnProduce
<1>3. CASE ~completed /\ ~(n > 0)
  <2>1. consuming' = FALSE /\ write' = write /\ wire' = wire
    BY <1>3 DEF OnProduce
  <2>2. QED
    BY <1>3, <2>1 DEF TypeOK
<1>4. QED
  BY <1>1, <1>2, <1>3

\* The call of on_produce_ from produced_data().
LEMMA ProduceStep ==
    ASSUME StreamAssumption, IInv, NEW t \in Callers, Produce(t), UNCHANGED app
    PROVE  IInv'
<1> USE DEF Callers, Buffered
<1> DEFINE busy == write.st # "idle"
<1>1. /\ prot = t /\ attached = "yes" /\ pc[t] = "call" /\ consumed \in Nat
      /\ Buffered \in 0 .. MaxItems /\ consumed + Buffered = produced
  BY DEF IInv, TypeOK, ProtectFitsPlaces, Produce, StreamAssumption
<1>2. /\ wire' \in Seq(Nat)
      /\ consuming' \in BOOLEAN /\ (consuming' <=> completed \/ Buffered > 0)
      /\ ~consuming' => UNCHANGED <<write, wire>>
      /\ consuming' => write' = IF busy THEN Clash
                                ELSE IF completed THEN LastChunk ELSE Pending(Buffered)
      /\ consuming' /\ ~busy /\ InOrder(wire) /\ Len(wire) = consumed =>
             InOrder(wire') /\ Len(wire') = consumed + write'.items
  <2>1. busy \in BOOLEAN /\ OnProduce(consumed, Buffered, busy)
    BY DEF Produce
  <2>2. Buffered \in Nat /\ TypeOK
    BY <1>1 DEF IInv
  <2> HIDE DEF busy
  <2>3. QED
    BY <1>1, <2>1, <2>2, OnProduceWrites
<1>3. /\ UNCHANGED <<attached, completed, produced, consumed, finished, app>>
      /\ pc' = [pc EXCEPT ![t] = Idle(t)] /\ Release(t)
  BY DEF Produce
<1>4. TypeOK'
  <2>1. write' \in Writes
    BY <1>1, <1>2, WritesTyped DEF IInv, TypeOK
  <2>2. consuming' \in BOOLEAN /\ completed' \in BOOLEAN /\ removed' \in BOOLEAN
    BY <1>2 DEF IInv, TypeOK, Produce
  <2>3. produced' \in 0 .. MaxItems /\ consumed' \in 0 .. produced' /\ finished' \in Nat
    BY <1>3 DEF IInv, TypeOK
  <2>4. QED
    BY <1>1, <1>2, <1>3, <2>1, <2>2, <2>3 DEF IInv, TypeOK, Idle, Release
<1>5. Places' /\ ProtectFitsPlaces'
  BY <1>1, <1>3 DEF IInv, TypeOK, Places, ProtectFitsPlaces, Idle, Release, Calling
<1>6. AttachedFitsPlaces'
  BY <1>1, <1>3 DEF IInv, TypeOK, AttachedFitsPlaces, Idle
<1>7. WireFitsBuffer'
  BY <1>1, <1>2, <1>3 DEF IInv, TypeOK, WireFitsBuffer, NoWrite, Pending, LastChunk, Clash
<1>8. NoStalledItems'
  BY <1>1, <1>2, <1>3 DEF IInv, TypeOK, NoStalledItems, Idle
<1>9. (WaitsForStart => OneCaller)'
  BY <1>1, <1>2, <1>3 DEF IInv, TypeOK, Places, WaitsForStart, OneCaller, Idle, Calling,
     NoWrite, Pending, LastChunk
<1>10. (WaitsForStart /\ "finishesEarly" \notin app => FinishesLate)'
  BY <1>1, <1>2, <1>3 DEF IInv, TypeOK, WaitsForStart, OneCaller, FinishesLate,
     NoWrite, LastChunk
<1>11. QED
  BY <1>4, <1>5, <1>6, <1>7, <1>8, <1>9, <1>10 DEF IInv

\* has_consumed(): what was written leaves the buffer, and the rest is written.
LEMMA HasConsumedStep ==
    ASSUME StreamAssumption, IInv, HasConsumed, UNCHANGED app
    PROVE  IInv'
<1> USE DEF Callers, Buffered
<1> DEFINE rest == produced - consumed'
<1>1. /\ write.st = "ok" /\ ~write.last /\ consumed \in Nat /\ write.items \in Nat
      /\ attached = "yes" /\ InOrder(wire)
      /\ Len(wire) = consumed + write.items /\ Len(wire) <= produced
  <2>1. write.st = "ok" /\ ~write.last /\ consumed \in Nat
    BY DEF IInv, TypeOK, HasConsumed
  <2>2. write.items \in Nat
    BY WriteFields DEF IInv
  <2>3. attached = "yes"
    BY DEF IInv, AttachedFitsPlaces, HasConsumed, TypeOK, NoWrite
  <2>4. QED
    BY <2>1, <2>2, <2>3 DEF IInv, WireFitsBuffer
<1>2. /\ consumed' = consumed + write.items
      /\ UNCHANGED <<attached, completed, produced, buf, prot, pc, finished, app>>
  BY DEF HasConsumed, Continue
<1>3. consumed' = Len(wire) /\ consumed' \in 0 .. produced /\ rest \in 0 .. MaxItems
  BY <1>1, <1>2 DEF IInv, TypeOK, StreamAssumption
<1>4. /\ wire' \in Seq(Nat) /\ InOrder(wire') /\ Len(wire') = consumed' + write'.items
      /\ consuming' \in BOOLEAN
      /\ ~consuming' => write' = NoWrite /\ rest = 0
      /\ consuming' => write' = IF completed THEN LastChunk ELSE Pending(rest)
  <2>1. CASE Buffered > write.items
    <3>1. rest = Buffered - write.items /\ rest > 0
      BY <1>1, <1>2, <1>3, <2>1 DEF IInv, TypeOK
    <3>2. OnProduce(consumed', rest, FALSE)
      BY <1>2, <2>1, <3>1 DEF HasConsumed, Continue
    <3>3. QED
      <4>1. TypeOK /\ consumed' \in Nat /\ rest \in Nat
        BY <1>3, <3>1 DEF IInv, TypeOK
      <4>2. consuming' = TRUE
        BY <3>1, <3>2 DEF OnProduce
      <4> HIDE DEF rest
      <4>3. QED
        BY <1>1, <1>3, <3>1, <3>2, <4>1, <4>2, OnProduceWrites
  <2>2. CASE ~(Buffered > write.items)
    <3>1. rest = 0
      BY <1>1, <1>2, <1>3, <2>2 DEF IInv, TypeOK
    <3>2. write' = NoWrite /\ consuming' = FALSE /\ wire' = wire
      BY <2>2 DEF HasConsumed
    <3>3. wire \in Seq(Nat) /\ write'.items = 0
      BY <3>2 DEF IInv, TypeOK, NoWrite
    <3>4. Len(wire') = consumed' + write'.items
      BY <1>1, <1>2, <1>3, <3>2, <3>3
    <3>5. QED
      BY <1>1, <3>1, <3>2, <3>3, <3>4
  <2>3. QED
    BY <2>1, <2>2
<1>5. TypeOK'
  <2>1. write' \in Writes
    BY <1>3, <1>4, WritesTyped
  <2>2. consuming' \in BOOLEAN /\ completed' \in BOOLEAN /\ removed' \in BOOLEAN
    BY <1>4 DEF IInv, TypeOK, HasConsumed
  <2>3. produced' \in 0 .. MaxItems /\ consumed' \in 0 .. produced' /\ finished' \in Nat
    BY <1>2, <1>3 DEF IInv, TypeOK
  <2>4. QED
    BY <1>2, <1>4, <2>1, <2>2, <2>3 DEF IInv, TypeOK
<1>6. Places' /\ ProtectFitsPlaces'
  BY <1>2 DEF IInv, Places, ProtectFitsPlaces
<1>7. AttachedFitsPlaces'
  BY <1>1, <1>2 DEF IInv, AttachedFitsPlaces
<1>8. WireFitsBuffer'
  <2>1. write'.items \in Nat /\ write'.items <= rest
    BY <1>3, <1>4 DEF NoWrite, Pending, LastChunk
  <2>2. Len(wire') <= produced
    BY SMTT(30), <1>1, <1>2, <1>3, <1>4, <2>1 DEF IInv, TypeOK
  <2>3. write'.st = "idle" => write' = NoWrite
    BY <1>4 DEF NoWrite, Pending, LastChunk
  <2>4. write'.last => write'.items = 0 /\ completed
    BY <1>4 DEF NoWrite, Pending, LastChunk
  <2>5. QED
    BY <1>2, <1>4, <2>2, <2>3, <2>4 DEF WireFitsBuffer
<1>9. NoStalledItems'
  BY <1>2, <1>4 DEF NoStalledItems
<1>10. (WaitsForStart => OneCaller)'
  BY <1>1, <1>2, <1>4 DEF IInv, WaitsForStart, OneCaller, NoWrite, Pending, LastChunk
<1>11. (WaitsForStart /\ "finishesEarly" \notin app => FinishesLate)'
  BY <1>1, <1>2, <1>3, <1>4 DEF IInv, TypeOK, WaitsForStart, FinishesLate, LastChunk
<1>12. QED
  BY <1>5, <1>6, <1>7, <1>8, <1>9, <1>10, <1>11 DEF IInv

-----------------------------------------------------------------------------
(* The theorems.                                                           *)

\* The invariant holds at first.
LEMMA InitInv == StreamAssumption /\ Init => IInv
<1> SUFFICES ASSUME StreamAssumption, Init PROVE IInv
  OBVIOUS
<1> USE DEF Init, Callers
<1>1. TypeOK
  <2>1. write \in Writes
    BY WritesTyped
  <2>2. consuming \in BOOLEAN /\ completed \in BOOLEAN /\ removed \in BOOLEAN
    OBVIOUS
  <2>3. produced \in 0 .. MaxItems /\ consumed \in 0 .. produced /\ finished \in Nat
    BY DEF StreamAssumption
  <2>4. wire \in Seq(Nat)
    OBVIOUS
  <2>5. QED
    BY <2>1, <2>2, <2>3, <2>4 DEF TypeOK
<1>2. Places /\ ProtectFitsPlaces /\ AttachedFitsPlaces /\ NoStalledItems /\ OneCaller
  BY DEF Places, ProtectFitsPlaces, AttachedFitsPlaces, NoStalledItems, OneCaller, Calling, NoWrite
<1>3. WireFitsBuffer
  BY DEF WireFitsBuffer, InOrder, NoWrite
<1>4. FinishesLate
  BY DEF FinishesLate, NoWrite
<1>5. QED
  BY <1>1, <1>2, <1>3, <1>4 DEF IInv

\* Every step keeps it.
LEMMA NextInv == ASSUME StreamAssumption, IInv, [Next]_vars PROVE IInv'
<1>1. CASE UNCHANGED vars
  BY <1>1 DEF vars, state, producerVars, IInv, TypeOK, Places, ProtectFitsPlaces, AttachedFitsPlaces,
     WireFitsBuffer, NoStalledItems, WaitsForStart, OneCaller, FinishesLate, Buffered
<1>2. CASE Next
  <2>1. ASSUME NEW t \in Callers, Calls(t), UNCHANGED app PROVE IInv'
    BY <2>1, CheckStep, HasConsumerAttachedStep, EnterStep, ProduceStep DEF Calls
  <2>2. CASE Handlers /\ UNCHANGED app
    BY <2>2, HeaderSentStep, HeaderFailedStep, StartProductionStep, HasConsumedStep,
       EndProductionStep, JoinedStep DEF Handlers
  <2>3. QED
    BY <1>2, <2>1, <2>2, PushStep, FlushStep, FinishStep, LeaveStep, WriteCompletesStep DEF Next
<1>3. QED
  BY <1>1, <1>2

\* The inductive invariant, and the type invariant with it.
THEOREM Invariance == Spec => []IInv
<1>1. Init => IInv
  BY InitInv, StreamAssumption
<1>2. IInv /\ [Next]_vars => IInv'
  BY NextInv, StreamAssumption
<1>3. QED
  BY <1>1, <1>2, PTL DEF Spec

\* For every application, every thread and lock is where the model says it may be.
THEOREM TypeCorrect == Spec => []TypeOK
<1>1. IInv => TypeOK
  BY DEF IInv
<1>2. QED
  BY <1>1, Invariance, PTL

\* The chunks carry the items in the order in which they were pushed, each once;
\* and all of them before the last chunk, when finish() is called late enough.
THEOREM ItemsInOrder == Spec => []WireInOrder
<1>1. ASSUME IInv PROVE WireInOrder
  <2>1. write.st # "clash" => Len(wire) <= produced /\ \A i \in DOMAIN wire : wire[i] = i
    BY <1>1 DEF IInv, WireFitsBuffer, InOrder
  <2>2. WaitsForStart /\ "finishesEarly" \notin app /\ write.last => Len(wire) = produced
    <3> SUFFICES ASSUME WaitsForStart, "finishesEarly" \notin app, write.last
                 PROVE  Len(wire) = produced
      OBVIOUS
    <3>1. write.st # "clash" /\ write.items = 0 /\ completed
      BY <1>1 DEF IInv, OneCaller, WireFitsBuffer
    <3>2. attached # "gone"
      BY <1>1 DEF IInv, AttachedFitsPlaces, NoWrite
    <3>3. Len(wire) = consumed /\ produced = consumed
      BY <1>1, <3>1, <3>2 DEF IInv, TypeOK, WireFitsBuffer, FinishesLate
    <3>4. QED
      BY <3>3
  <2>3. QED
    BY <2>1, <2>2 DEF WireInOrder
<1>2. QED
  BY <1>1, Invariance, PTL

\* http_connection_base::write is not called while another write is under way.
THEOREM OneWrite == Spec => []OneWriteAtATime
<1>1. IInv => OneWriteAtATime
  BY DEF IInv, OneCaller, OneWriteAtATime
<1>2. QED
  BY <1>1, Invariance, PTL

\* No push is lost between has_consumed() and produced_data().
THEOREM NothingStalls == Spec => []NoStalledItems
<1>1. IInv => NoStalledItems
  BY DEF IInv
<1>2. QED
  BY <1>1, Invariance, PTL

\* The production is ended once, and nothing is written after it.
THEOREM ProductionEndsOnce == Spec => []EndsOnce
<1>1. IInv => EndsOnce
  BY DEF IInv, OneCaller, AttachedFitsPlaces, Places, ProtectFitsPlaces, EndsOnce, NoWrite, Callers
<1>2. QED
  BY <1>1, Invariance, PTL

-----------------------------------------------------------------------------
(* Nobody waits for nothing.                                               *)

\* finish() when everything is written, no push beside start_production, and a finish
\* callback that does not wait for the producer.
Patient == app \cap {"racesStart", "finishesEarly", "joinsProducer"} = {}

\* Who holds buffer_saver_ is in a call; what is complete is ended, or its last chunk is
\* under way, or the call of finish() is on the way to it and finds nothing in its way.
Unblocked ==
    /\ buf = "producer" => pc["producer"] \in Calling
    /\ "joinsProducer" \notin app => pc["writer"] = "idle"
    /\ Patient /\ attached = "gone" => removed
    /\ Patient /\ completed /\ attached = "yes" =>
           \/ write.last
           \/ pc["producer"] \in Calling /\ (pc["producer"] = "check" => ~consuming)

\* Every step keeps it.
LEMMA UnblockedStep ==
    ASSUME StreamAssumption, IInv, Unblocked, [Next]_vars
    PROVE  Unblocked'
<1> USE DEF Callers, Calling
<1>1. /\ TypeOK /\ Places /\ ProtectFitsPlaces /\ AttachedFitsPlaces /\ WireFitsBuffer
      /\ Patient => WaitsForStart /\ OneCaller /\ FinishesLate
  BY DEF IInv, Patient, WaitsForStart
<1>2. app' = app /\ (Patient <=> Patient')
  BY DEF Next, vars, Patient
<1>3. CASE UNCHANGED vars
  BY <1>2, <1>3 DEF Unblocked, vars, state, producerVars
<1>4. CASE Push \/ Flush \/ Leave
  BY <1>1, <1>2, <1>4 DEF Unblocked, Push, Flush, Leave, MayPush, producerVars, TypeOK
<1>5. CASE Finish
  <2>1. Patient => ~consuming
    BY <1>5 DEF Finish, Patient
  <2>2. QED
    BY <1>1, <1>2, <1>5, <2>1 DEF Unblocked, Finish, TypeOK
<1>6. ASSUME NEW t \in Callers, Check(t) \/ HasConsumerAttached(t) \/ Enter(t)
      PROVE  Unblocked'
  <2>1. CASE t = "producer"
    BY <1>1, <1>2, <1>6, <2>1 DEF Unblocked, Check, HasConsumerAttached, Enter, Release, Idle,
       producerVars, TypeOK, OneCaller
  <2>2. CASE t = "starter"
    <3>1. /\ pc'["producer"] = pc["producer"] /\ pc'["writer"] = pc["writer"]
          /\ buf' = buf
          /\ UNCHANGED <<attached, completed, write, removed>>
      BY <1>6, <2>2 DEF Check, HasConsumerAttached, Enter, Release, producerVars, TypeOK, IInv
    <3>2. Patient => ~(pc["producer"] \in Calling)
      BY <1>1, <1>6, <2>2 DEF Check, HasConsumerAttached, Enter, OneCaller
    <3>3. QED
      BY <1>2, <3>1, <3>2 DEF Unblocked
  <2>3. QED
    BY <1>6, <2>1, <2>2
<1>7. ASSUME NEW t \in Callers, Produce(t) PROVE Unblocked'
  <2>1. Patient => write = NoWrite
    BY <1>1, <1>7 DEF Produce, OneCaller
  <2>2. Patient /\ completed => write'.last
    BY <1>7, <2>1 DEF Produce, OnProduce, NoWrite, LastChunk
  <2>3. UNCHANGED <<attached, completed, removed>>
    BY <1>7 DEF Produce
  <2>4. pc'["writer"] = pc["writer"] /\ (buf' = "producer" => pc'["producer"] \in Calling)
    BY <1>1, <1>7 DEF Produce, Release, Idle, Unblocked, TypeOK
  <2>5. QED
    BY <1>2, <2>2, <2>3, <2>4 DEF Unblocked
<1>8. CASE HeaderSent
  <2>1. Patient => ~completed
    BY <1>1, <1>8 DEF HeaderSent, AttachedFitsPlaces, FinishesLate
  <2>2. QED
    BY <1>1, <1>2, <1>8, <2>1 DEF Unblocked, HeaderSent, TypeOK
<1>9. CASE HeaderFailed \/ StartProduction
  BY <1>1, <1>2, <1>9 DEF Unblocked, HeaderFailed, StartProduction, producerVars, TypeOK
<1>10. CASE HasConsumed
  <2>1. Patient => ~completed
    BY <1>1, <1>10 DEF HasConsumed, FinishesLate
  <2>2. UNCHANGED <<attached, completed, buf, pc, removed>>
    BY <1>10 DEF HasConsumed
  <2>3. QED
    BY <1>2, <2>1, <2>2 DEF Unblocked
<1>11. CASE EndProduction
  <2>1. attached' = "gone" /\ buf' = buf /\ pc'["producer"] = pc["producer"]
    BY <1>1, <1>11 DEF EndProduction, TypeOK
  <2>2. "joinsProducer" \notin app => pc'["writer"] = pc["writer"] /\ removed'
    BY <1>11 DEF EndProduction
  <2>3. buf' = "producer" => pc'["producer"] \in Calling
    BY <2>1 DEF Unblocked
  <2>4. "joinsProducer" \notin app' => pc'["writer"] = "idle"
    BY <1>2, <2>2 DEF Unblocked
  <2>5. (Patient /\ attached = "gone" => removed)'
    <3>1. Patient => "joinsProducer" \notin app
      BY DEF Patient
    <3>2. QED
      BY <1>2, <2>2, <3>1
  <2>6. attached' # "yes"
    BY <2>1
  <2>7. QED
    BY <2>3, <2>4, <2>5, <2>6 DEF Unblocked
<1>12. CASE Joined
  BY <1>1, <1>2, <1>12 DEF Unblocked, Joined, producerVars, TypeOK
<1>13. CASE WriteCompletes
  <2>1. write'.last = write.last
    <3>1. write \in Writes
      BY <1>1 DEF TypeOK
    <3>2. PICK r \in {"ok", "err"} : write' = [write EXCEPT !.st = r]
      BY <1>13 DEF WriteCompletes
    <3>3. QED
      BY <3>1, <3>2 DEF Writes
  <2>2. QED
    BY <1>2, <1>13, <2>1 DEF Unblocked, WriteCompletes, producerVars
<1>14. QED
  BY <1>3, <1>4, <1>5, <1>6, <1>7, <1>8, <1>9, <1>10, <1>11, <1>12, <1>13
     DEF Next, Calls, Handlers

\* produced_data() and end_production(): a production is not forgotten.  When it was finished
\* and its connection attached, and finish() has returned and no write is under way, then
\* the connection was removed.
FinishIsNotForgotten ==
    /\ WaitsForStart /\ app \cap {"finishesEarly", "joinsProducer"} = {}
    /\ completed /\ attached # "no" /\ pc["producer"] \notin Calling /\ write.st = "idle"
    => removed

\* push, flush and finish, and start_production: no call waits for a lock in
\* produced_data.  Whoever needs one finds it free or has it.
CallsAreNotBlocked ==
    WaitsForStart /\ "joinsProducer" \notin app =>
        \A t \in Callers :
            /\ pc[t] \in {"attached", "lock"} => prot = "none"
            /\ pc[t] = "call" => prot = t /\ buf \in {"none", t}

\* Unblocked holds, for every application and any number of items.
LEMMA UnblockedHolds == Spec => []Unblocked
<1>1. Init => Unblocked
  BY DEF Init, Unblocked, Calling
<1>2. StreamAssumption /\ IInv /\ Unblocked /\ [Next]_vars => Unblocked'
  BY UnblockedStep
<1>3. QED
  BY <1>1, <1>2, StreamAssumption, Invariance, PTL DEF Spec

\* No production that was finished is left open: what LateFinishGetsRemoved needs besides
\* fairness.
THEOREM NoFinishForgotten == Spec => []FinishIsNotForgotten
<1>1. IInv /\ Unblocked => FinishIsNotForgotten
  <2> SUFFICES ASSUME IInv, Unblocked, Patient, completed, attached # "no",
                      pc["producer"] \notin Calling, write.st = "idle"
               PROVE  removed
    BY DEF FinishIsNotForgotten, Patient, WaitsForStart
  <2>1. write.st # "clash" /\ ~write.last
    BY DEF IInv, WireFitsBuffer, NoWrite
  <2>2. attached = "gone"
    BY <2>1 DEF IInv, TypeOK, Unblocked
  <2>3. QED
    BY <2>2 DEF Unblocked
<1>2. QED
  BY <1>1, Invariance, UnblockedHolds, PTL

\* The threads do not wait for each other's mutexes, in whatever order they meet: what
\* PatientPushReturns needs besides fairness.
THEOREM NoCallBlocked == Spec => []CallsAreNotBlocked
<1>1. IInv /\ Unblocked => CallsAreNotBlocked
  <2> SUFFICES ASSUME IInv, Unblocked, OneCaller, pc["writer"] = "idle", NEW t \in Callers
               PROVE  /\ pc[t] \in {"attached", "lock"} => prot = "none"
                      /\ pc[t] = "call" => prot = t /\ buf \in {"none", t}
    BY DEF CallsAreNotBlocked, IInv, Unblocked
  <2>1. prot # "writer"
    BY DEF IInv, ProtectFitsPlaces
  <2>2. pc[t] \in {"attached", "lock"} => prot = "none"
    BY <2>1 DEF IInv, TypeOK, ProtectFitsPlaces, OneCaller, Callers, Calling
  <2>3. pc[t] = "call" => prot = t /\ buf \in {"none", t}
    BY DEF IInv, TypeOK, ProtectFitsPlaces, Unblocked, OneCaller, Callers, Calling
  <2>4. QED
    BY <2>2, <2>3
<1>2. QED
  BY <1>1, Invariance, UnblockedHolds, PTL

=============================================================================
