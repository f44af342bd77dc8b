--------------------------- MODULE ServerRuntimeProofs ---------------------------
(***************************************************************************)
(* Proofs about ServerRuntime: when teardown() has returned no handler     *)
(* runs, and the server has one accept loop, for any number of threads,    *)
(* peers and other handlers.                                               *)
(***************************************************************************)
EXTENDS ServerRuntime, SequenceTheorems, FunctionTheorems, FiniteSetTheorems, TLAPS

-----------------------------------------------------------------------------
(* How many elements of a queue are of a kind.                             *)

Places(S, s) == {i \in DOMAIN s : s[i] \in S}

Count(S, s) == Cardinality(Places(S, s))

\* The number is a number.
LEMMA CountType ==
    ASSUME NEW T, NEW s \in Seq(T), NEW S
    PROVE  /\ Places(S, s) \subseteq 1 .. Len(s) /\ IsFiniteSet(Places(S, s))
           /\ Count(S, s) \in Nat
<1>1. DOMAIN s = 1 .. Len(s) /\ Len(s) \in Nat
  BY LenProperties
<1>2. Places(S, s) \subseteq 1 .. Len(s)
  BY <1>1 DEF Places
<1>3. IsFiniteSet(1 .. Len(s))
  BY <1>1, FS_Interval
<1>4. IsFiniteSet(Places(S, s))
  BY <1>2, <1>3, FS_Subset
<1>5. QED
  BY <1>2, <1>4, FS_CardinalityType DEF Count

\* It is zero exactly if no element is of the kind.
LEMMA CountNone ==
    ASSUME NEW T, NEW s \in Seq(T), NEW S
    PROVE  Count(S, s) = 0 <=> \A i \in DOMAIN s : s[i] \notin S
<1>1. IsFiniteSet(Places(S, s))
  BY CountType
<1>2. Cardinality(Places(S, s)) = 0 <=> Places(S, s) = {}
  BY <1>1, FS_EmptySet
<1>3. QED
  BY <1>2 DEF Count, Places

\* An empty queue holds nothing.
LEMMA CountEmpty == ASSUME NEW S PROVE Count(S, <<>>) = 0
<1>1. Places(S, <<>>) = {}
  BY DEF Places
<1>2. QED
  BY <1>1, FS_EmptySet DEF Count

\* What is appended is counted.
LEMMA CountAppend ==
    ASSUME NEW T, NEW s \in Seq(T), NEW S, NEW e \in T
    PROVE  Count(S, Append(s, e)) = Count(S, s) + IF e \in S THEN 1 ELSE 0
<1> DEFINE t == Append(s, e)  n == Len(s) + 1
<1>1. /\ DOMAIN s = 1 .. Len(s) /\ Len(s) \in Nat /\ DOMAIN t = 1 .. n
      /\ \A i \in 1 .. Len(s) : t[i] = s[i] /\ t[n] = e
  <2>1. t \in Seq(T) /\ Len(t) = n
    BY AppendProperties
  <2>2. QED
    BY <2>1, AppendProperties, LenProperties
<1> HIDE DEF t
<1>2. Places(S, t) = Places(S, s) \cup IF e \in S THEN {n} ELSE {}
  <2>1. t[n] = e
    BY AppendProperties DEF t
  <2>2. QED
    BY <1>1, <2>1 DEF Places
<1>3. IsFiniteSet(Places(S, s)) /\ n \notin Places(S, s)
  BY <1>1, CountType
<1>4. CASE e \in S
  <2>1. Places(S, t) = Places(S, s) \cup {n}
    BY <1>2, <1>4
  <2>2. QED
    BY <1>3, <1>4, <2>1, FS_AddElement DEF Count, t
<1>5. CASE e \notin S
  <2>1. Places(S, t) = Places(S, s)
    BY <1>2, <1>5
  <2>2. QED
    BY <1>5, <2>1, CountType DEF Count, t
<1>6. QED
  BY <1>4, <1>5

\* The head of a queue counts if it is of the kind.
LEMMA CountTail ==
    ASSUME NEW T, NEW s \in Seq(T), s # <<>>, NEW S
    PROVE  Count(S, s) = Count(S, Tail(s)) + IF Head(s) \in S THEN 1 ELSE 0
<1> DEFINE r == Tail(s)  P == Places(S, s) \ {1}  Q == Places(S, r)
           shift == [j \in Q |-> j + 1]
<1>1. /\ DOMAIN s = 1 .. Len(s) /\ Len(s) \in Nat \ {0}
      /\ r \in Seq(T) /\ DOMAIN r = 1 .. Len(s) - 1
      /\ \A j \in 1 .. Len(s) - 1 : r[j] = s[j + 1]
      /\ Head(s) = s[1] /\ 1 \in DOMAIN s
  BY LenProperties, EmptySeq, HeadTailProperties
<1> HIDE DEF r
<1>2. Q \subseteq 1 .. Len(s) - 1 /\ P \subseteq 2 .. Len(s)
  BY <1>1 DEF Places
<1>3. shift \in [Q -> P] /\ \A j, k \in Q : shift[j] = shift[k] => j = k
  BY <1>1, <1>2 DEF Places
<1>4. ASSUME NEW k \in P PROVE \E j \in Q : shift[j] = k
  <2>1. k - 1 \in Q /\ (k - 1) + 1 = k
    BY <1>1, <1>2 DEF Places
  <2>2. QED
    BY <2>1
<1>5. ExistsBijection(Q, P)
  <2> HIDE DEF shift, P, Q
  <2>1. shift \in Bijection(Q, P)
    BY <1>3, <1>4, Fun_IsBij
  <2>2. QED
    BY <2>1 DEF ExistsBijection
<1>6. IsFiniteSet(Places(S, s)) /\ IsFiniteSet(Q)
  BY <1>1, CountType
<1>7. Cardinality(P) = Cardinality(Q)
  BY <1>5, <1>6, FS_Bijection
<1>8. Cardinality(P) = IF 1 \in Places(S, s) THEN Cardinality(Places(S, s)) - 1
                       ELSE Cardinality(Places(S, s))
  BY <1>6, FS_RemoveElement
<1>9. 1 \in Places(S, s) <=> Head(s) \in S
  BY <1>1 DEF Places
<1>10. Count(S, s) \in Nat /\ Count(S, r) = Cardinality(Q)
  BY CountType DEF Count
<1>11. QED
  BY <1>7, <1>8, <1>9, <1>10 DEF Count, r

\* Appending what is not of the kind changes nothing.
LEMMA CountConcat ==
    ASSUME NEW T, NEW s \in Seq(T), NEW t \in Seq(T), NEW S,
           \A i \in DOMAIN t : t[i] \notin S
    PROVE  Count(S, s \o t) = Count(S, s)
<1>1. /\ DOMAIN s = 1 .. Len(s) /\ DOMAIN t = 1 .. Len(t) /\ Len(s) \in Nat /\ Len(t) \in Nat
      /\ s \o t \in Seq(T) /\ Len(s \o t) = Len(s) + Len(t)
  BY LenProperties, ConcatProperties
<1>2. DOMAIN (s \o t) = 1 .. Len(s) + Len(t)
  BY <1>1, LenProperties
<1>3. \A i \in 1 .. Len(s) + Len(t) : (s \o t)[i] = IF i <= Len(s) THEN s[i] ELSE t[i - Len(s)]
  BY ConcatProperties
<1>4. Places(S, s \o t) = Places(S, s)
  BY <1>1, <1>2, <1>3 DEF Places
<1>5. QED
  BY <1>4 DEF Count

-----------------------------------------------------------------------------
(* The invariant.                                                          *)

Queued == {"ok", "aborted", "failed", "job"}

\* The accept loop, as a record.
Acceptors == {"closed", "open", "listening"}

Loops == [acceptor : Acceptors, socket : {"closed", "open", "refused"}, pending : Nat,
          queue : Seq(Queued), waiting : Nat, served : Nat, refused : Nat, lost : Nat]

PoolTypeOK ==
    /\ up \in BOOLEAN /\ context \in [stopped : BOOLEAN, guard : BOOLEAN]
    /\ worker \in [Workers -> {"none", "idle", "busy", "ended"}] /\ joinable \subseteq Workers
    /\ pc \in [Threads -> {"out", "set up", "set up locked", "tear down", "tear down locked", "join"}]

LoopTypeOK ==
    /\ secure \in BOOLEAN /\ Loop \in Loops
    /\ peers \in [arrived : Nat, waiting : Nat, served : Nat, refused : Nat, lost : Nat]

TypeOK ==
    /\ PoolTypeOK /\ LoopTypeOK
    /\ task \in [Workers -> Queued \cup {"none"}]
    /\ done \in [starts : Nat, setups : Nat, jobs : Nat, down : BOOLEAN]

\* teardown() is called by one thread at a time, outside.
Calm == app \cap {"teardownsRace", "teardownInside"} = {}

\* A thread that runs the io_context is not joined yet.
RunningIsJoinable == \A w \in Workers : worker[w] \in {"idle", "busy"} => w \in joinable

\* One thread sets up or tears down; nothing runs when it has torn down.
OneByOne ==
    /\ \A t, u \in Threads : pc[t] # "out" /\ pc[u] # "out" => t = u
    /\ \A w \in Workers : pc[w] \notin {"tear down", "tear down locked", "join"}
    /\ \A t \in Threads : pc[t] \in {"tear down locked", "join"} => ~up
    /\ done.down => ~up /\ joinable = {} /\ \A t \in Threads : pc[t] = "out"

PoolInv == RunningIsJoinable /\ (Calm => OneByOne)

\* The accepts of a loop l: under way, in the queue, or with a worker.
Accepting(n, q, serving) == n + Count({"ok", "failed"}, q) + Cardinality(serving)

ServingSet == {w \in Workers : Serving(w)}

\* There is one of them, once the server has started; an accept waits with the
\* socket closed, and one that failed does not leave it open.
OneLoop ==
    /\ peers.lost = 0
    /\ done.starts = 0 =>
          acceptor # "listening" /\ socket = "closed" /\ Accepting(pending, queue, ServingSet) = 0
    /\ acceptor # "listening" => pending = 0
    /\ acceptor # "closed" => Accepting(pending, queue, ServingSet) <= 1
    /\ pending > 0 => socket = "closed"
    /\ socket = "open" =>
          Count({"failed"}, queue) = 0 /\ \A w \in ServingSet : task[w] # "failed"

LoopInv == ~Restarts => OneLoop

IInv == TypeOK /\ PoolInv /\ LoopInv

-----------------------------------------------------------------------------
(* The threads.                                                            *)

\* The place that is joined first is one that holds a thread.
LEMMA FirstJoinable ==
    ASSUME ThreadPoolAssumption, joinable \subseteq Workers, joinable # {}
    PROVE  (CHOOSE w \in joinable : \A v \in joinable : w <= v) \in joinable
<1>1. joinable \subseteq Nat
  BY DEF ThreadPoolAssumption, Workers
<1>2. \E w \in joinable : \A v \in joinable : <<v, w>> \notin OpToRel(<, Nat)
  BY <1>1, NatLessThanWellFounded, WFMin
<1>3. \E w \in joinable : \A v \in joinable : w <= v
  <2>1. PICK w \in joinable : \A v \in joinable : <<v, w>> \notin OpToRel(<, Nat)
    BY <1>2
  <2>2. ASSUME NEW v \in joinable PROVE w <= v
    <3>1. v \in Nat /\ w \in Nat
      BY <1>1
    <3>2. ~(v < w)
      BY <2>1, <3>1 DEF OpToRel
    <3>3. QED
      BY <3>1, <3>2
  <2>3. QED
    BY <2>2
<1>4. QED
  BY <1>3

\* setup() is called when every thread is out of setup() and teardown().
LEMMA SetUpPool ==
    ASSUME TypeOK, PoolInv, UNCHANGED app, NEW t \in Threads, SetUp(t)
    PROVE  PoolTypeOK' /\ PoolInv'
<1>1. PoolTypeOK'
  BY DEF SetUp, setup, Goes, TypeOK, PoolTypeOK
<1>2. RunningIsJoinable'
  BY DEF SetUp, setup, PoolInv, RunningIsJoinable
<1>3. done'.down = FALSE
  BY DEF SetUp, TypeOK
<1>4. (Calm => OneByOne)'
  BY <1>3 DEF SetUp, setup, Goes, PoolInv, OneByOne, Calm, Threads, TypeOK, PoolTypeOK
<1>5. QED
  BY <1>1, <1>2, <1>4 DEF PoolInv

\* teardown() is called outside and by one thread, or the application is not calm.
LEMMA TearDownPool ==
    ASSUME PoolTypeOK, PoolInv, UNCHANGED app, NEW t \in Threads, TearDown(t)
    PROVE  PoolTypeOK' /\ PoolInv'
<1>1. PoolTypeOK'
  BY DEF TearDown, teardown, Goes, PoolTypeOK
<1>2. RunningIsJoinable'
  BY DEF TearDown, teardown, PoolInv, RunningIsJoinable
<1>3. (Calm => OneByOne)'
  BY DEF TearDown, teardown, Goes, PoolInv, OneByOne, Calm, Threads, PoolTypeOK
<1>4. QED
  BY <1>1, <1>2, <1>3 DEF PoolInv

\* What setup() and teardown() do then.
LEMMA CalledPool ==
    ASSUME ThreadPoolAssumption, PoolTypeOK, PoolInv, UNCHANGED app, NEW t \in Threads, Called(t)
    PROVE  PoolTypeOK' /\ PoolInv'
<1> USE DEF PoolTypeOK, Goes
<1>1. CASE StoreUp(t)
  <2>1. PoolTypeOK'
    BY <1>1 DEF StoreUp
  <2>2. RunningIsJoinable'
    BY <1>1 DEF StoreUp, PoolInv, RunningIsJoinable
  <2>3. UNCHANGED done
    BY <1>1 DEF StoreUp, Called
  <2>4. (Calm => OneByOne)'
    BY <1>1, <2>3 DEF StoreUp, PoolInv, OneByOne, Calm, Threads
  <2>5. QED
    BY <2>1, <2>2, <2>4 DEF PoolInv
<1>2. CASE setup_impl(t)
  <2>1. PoolTypeOK'
    BY <1>2 DEF setup_impl
  <2>2. RunningIsJoinable'
    BY <1>2 DEF setup_impl, PoolInv, RunningIsJoinable
  <2>3. UNCHANGED done
    BY <1>2 DEF setup_impl, Called
  <2>4. (Calm => OneByOne)'
    BY <1>2, <2>3 DEF setup_impl, PoolInv, OneByOne, Calm, Threads
  <2>5. QED
    BY <2>1, <2>2, <2>4 DEF PoolInv
<1>3. CASE teardown_impl(t)
  <2>1. PoolTypeOK'
    BY <1>3 DEF teardown_impl
  <2>2. RunningIsJoinable'
    BY <1>3 DEF teardown_impl, PoolInv, RunningIsJoinable
  <2>3. UNCHANGED done
    BY <1>3 DEF teardown_impl, Called
  <2>4. (Calm => OneByOne)'
    BY <1>3, <2>3 DEF teardown_impl, PoolInv, OneByOne, Calm, Threads
  <2>5. QED
    BY <2>1, <2>2, <2>4 DEF PoolInv
<1>4. CASE Join(t)
  <2> DEFINE next == CHOOSE w \in joinable : \A v \in joinable : w <= v
  <2>1. CASE joinable = {}
    <3>1. pc[t] = "join" /\ pc' = [pc EXCEPT ![t] = "out"] /\ UNCHANGED <<worker, joinable, up, context>>
      BY <1>4, <2>1 DEF Join
    <3>2. PoolTypeOK' /\ RunningIsJoinable'
      BY <3>1 DEF PoolInv, RunningIsJoinable
    <3>3. (Calm => OneByOne)'
      BY <2>1, <3>1 DEF PoolInv, OneByOne, Calm, Threads
    <3>4. QED
      BY <3>2, <3>3 DEF PoolInv
  <2>2. CASE joinable # {} /\ next = t
    <3>1. /\ pc[t] = "join" /\ pc' = [pc EXCEPT ![t] = "out"] /\ UNCHANGED <<joinable, up, context>>
          /\ worker' = [worker EXCEPT ![t] = "ended"]
      BY <1>4, <2>2 DEF Join
    <3>2. PoolTypeOK' /\ RunningIsJoinable'
      BY <3>1 DEF PoolInv, RunningIsJoinable
    <3>3. ASSUME Calm PROVE FALSE
      <4>1. t \notin Workers
        BY <3>1, <3>3 DEF PoolInv, OneByOne
      <4>2. next \in joinable
        BY <1>4, <2>2, <4>1, FirstJoinable
      <4>3. QED
        BY <2>2, <4>1, <4>2
    <3>4. QED
      BY <3>2, <3>3 DEF PoolInv, Calm
  <2>3. CASE joinable # {} /\ next # t
    <3>1. /\ pc[t] = "join" /\ UNCHANGED <<pc, worker, up, context>>
          /\ worker[next] = "ended" /\ joinable' = joinable \ {next}
      BY <1>4, <2>3 DEF Join
    <3>2. PoolTypeOK' /\ RunningIsJoinable'
      BY <3>1 DEF PoolInv, RunningIsJoinable
    <3>3. UNCHANGED done
      BY <3>1 DEF Called
    <3>4. (Calm => OneByOne)'
      BY <2>3, <3>1, <3>3 DEF PoolInv, OneByOne, Calm, Threads
    <3>5. QED
      BY <3>2, <3>4 DEF PoolInv
  <2>4. QED
    BY <2>1, <2>2, <2>3
<1>5. QED
  BY <1>1, <1>2, <1>3, <1>4 DEF Called, Calls

\* What a worker does in run().
LEMMA WorkerPool ==
    ASSUME PoolTypeOK, PoolInv, UNCHANGED <<app, done>>, NEW w \in Workers,
           \/ RunReturns(w, Work) \/ Takes(w) \/ \E throws \in BOOLEAN : Finishes(w, throws)
    PROVE  PoolTypeOK' /\ PoolInv'
<1>1. /\ UNCHANGED <<up, lock, context, joinable, pc>> /\ worker[w] \in {"idle", "busy"}
      /\ \E st \in {"idle", "busy", "ended"} : worker' = [worker EXCEPT ![w] = st]
  BY DEF RunReturns, Takes, Finishes
<1>2. PoolTypeOK'
  BY <1>1 DEF PoolTypeOK
<1>3. RunningIsJoinable'
  BY <1>1 DEF PoolInv, RunningIsJoinable, PoolTypeOK
<1>4. (Calm => OneByOne)'
  BY <1>1 DEF PoolInv, OneByOne, Calm, Threads
<1>5. QED
  BY <1>2, <1>3, <1>4 DEF PoolInv

-----------------------------------------------------------------------------
(* The accept loop.                                                        *)

\* The types of the loop's variables.
LEMMA LoopTypes ==
    ASSUME LoopTypeOK
    PROVE  /\ acceptor \in Acceptors /\ socket \in {"closed", "open", "refused"}
           /\ pending \in Nat /\ queue \in Seq(Queued)
           /\ peers.served \in Nat /\ peers.refused \in Nat /\ peers.lost \in Nat
           /\ peers.waiting \in Nat /\ peers.arrived \in Nat
           /\ \A S : Count(S, queue) \in Nat
<1>1. Loop \in Loops
  BY DEF LoopTypeOK
<1>2. /\ acceptor \in Acceptors /\ socket \in {"closed", "open", "refused"}
      /\ pending \in Nat /\ queue \in Seq(Queued)
  BY <1>1 DEF Loop, Loops
<1>3. /\ peers.served \in Nat /\ peers.refused \in Nat /\ peers.lost \in Nat
      /\ peers.waiting \in Nat /\ peers.arrived \in Nat
  BY DEF LoopTypeOK
<1>4. \A S : Count(S, queue) \in Nat
  BY <1>2, CountType
<1>5. QED
  BY <1>2, <1>3, <1>4

\* The workers that serve an accept are a finite set.
LEMMA ServingFinite ==
    ASSUME ThreadPoolAssumption
    PROVE  IsFiniteSet(ServingSet) /\ Cardinality(ServingSet) \in Nat
<1>1. IsFiniteSet(1 .. ThreadCount)
  BY FS_Interval DEF ThreadPoolAssumption
<1>2. IsFiniteSet(ServingSet)
  BY <1>1, FS_Subset DEF ServingSet, Workers
<1>3. QED
  BY <1>2, FS_CardinalityType

\* The loop becomes l.
LEMMA BecomesTypes ==
    ASSUME LoopTypeOK, NEW l \in Loops, Becomes(l)
    PROVE  /\ LoopTypeOK' /\ UNCHANGED secure
           /\ acceptor' = l.acceptor /\ socket' = l.socket /\ pending' = l.pending
           /\ queue' = l.queue /\ peers'.lost = l.lost
<1>1. /\ l.waiting \in Nat /\ l.served \in Nat /\ l.refused \in Nat /\ l.lost \in Nat
      /\ l = [acceptor |-> l.acceptor, socket |-> l.socket, pending |-> l.pending,
              queue |-> l.queue, waiting |-> l.waiting, served |-> l.served,
              refused |-> l.refused, lost |-> l.lost]
  BY DEF Loops
<1>2. /\ peers' \in [arrived : Nat, waiting : Nat, served : Nat, refused : Nat, lost : Nat]
      /\ peers'.waiting = l.waiting /\ peers'.served = l.served /\ peers'.refused = l.refused
      /\ peers'.lost = l.lost
  BY <1>1 DEF Becomes, LoopTypeOK
<1>3. Loop' = l
  BY <1>1, <1>2 DEF Becomes, Loop
<1>4. QED
  BY <1>2, <1>3 DEF Becomes, LoopTypeOK

\* acceptor.close() adds aborted accepts, which no loop goes on with.
LEMMA ClosedLoop ==
    ASSUME NEW l \in Loops
    PROVE  /\ Closed(l) \in Loops /\ Closed(l).acceptor = "closed" /\ Closed(l).pending = 0
           /\ Closed(l).socket = l.socket /\ Closed(l).lost = l.lost
           /\ \A S : "aborted" \notin S => Count(S, Closed(l).queue) = Count(S, l.queue)
<1> DEFINE a == [i \in 1 .. l.pending |-> "aborted"]
<1>1. l.pending \in Nat /\ l.queue \in Seq(Queued)
  BY DEF Loops
<1>2. a \in Seq(Queued) /\ DOMAIN a = 1 .. l.pending /\ \A i \in DOMAIN a : a[i] = "aborted"
  BY <1>1 DEF Queued
<1> HIDE DEF a
<1> DEFINE q == l.queue \o a
<1>3. q \in Seq(Queued)
  BY <1>1, <1>2, ConcatProperties
<1>4. Closed(l) = [l EXCEPT !.acceptor = "closed", !.pending = 0, !.waiting = 0, !.queue = q]
  BY DEF Closed, a
<1> HIDE DEF q
<1>5. /\ Closed(l) \in Loops /\ Closed(l).acceptor = "closed" /\ Closed(l).pending = 0
      /\ Closed(l).socket = l.socket /\ Closed(l).lost = l.lost /\ Closed(l).queue = q
  <2> DEFINE c == [l EXCEPT !.acceptor = "closed", !.pending = 0, !.waiting = 0, !.queue = q]
  <2>1. c \in Loops
    BY <1>3 DEF Loops, Acceptors
  <2>2. c.acceptor = "closed" /\ c.pending = 0 /\ c.socket = l.socket /\ c.lost = l.lost /\ c.queue = q
    BY DEF Loops
  <2>3. QED
    BY <1>4, <2>1, <2>2
<1>6. ASSUME NEW S, "aborted" \notin S PROVE Count(S, q) = Count(S, l.queue)
  <2>1. \A i \in DOMAIN a : a[i] \notin S
    BY <1>2, <1>6
  <2>2. QED
    BY <1>1, <1>2, <2>1, CountConcat DEF q
<1>7. QED
  BY <1>5, <1>6

\* do_accept() makes a loop of a loop.
LEMMA DoAcceptTypes ==
    ASSUME NEW l \in Loops, secure \in BOOLEAN
    PROVE  do_accept(l) \in Loops
<1> DEFINE n == l.lost + IF l.socket = "open" THEN 1 ELSE 0
           new == IF secure THEN [l EXCEPT !.socket = "closed", !.lost = n] ELSE l
<1>1. n \in Nat
  BY DEF Loops
<1> HIDE DEF n
<1>2. new \in Loops
  BY <1>1 DEF Loops
<1>3. do_accept(l) = IF new.acceptor = "listening" /\ new.socket = "closed"
                     THEN [new EXCEPT !.pending = @ + 1]
                     ELSE [new EXCEPT !.queue = Append(@, "failed")]
  BY DEF do_accept, n
<1> HIDE DEF new
<1>4. new.pending + 1 \in Nat /\ Append(new.queue, "failed") \in Seq(Queued)
  BY <1>2, AppendProperties DEF Loops, Queued
<1>5. QED
  BY <1>2, <1>3, <1>4 DEF Loops

\* An open acceptor with the socket closed accepts.
LEMMA DoAcceptClosed ==
    ASSUME NEW l \in Loops, secure \in BOOLEAN, l.acceptor = "listening", l.socket = "closed"
    PROVE  /\ do_accept(l).acceptor = "listening" /\ do_accept(l).lost = l.lost /\ do_accept(l).socket = "closed"
           /\ do_accept(l).pending = l.pending + 1 /\ do_accept(l).queue = l.queue
<1> DEFINE new == IF secure
                  THEN [l EXCEPT !.socket = "closed", !.lost = @ + IF l.socket = "open" THEN 1 ELSE 0]
                  ELSE l
<1>1. /\ new \in Loops /\ new.acceptor = "listening" /\ new.lost = l.lost /\ new.pending = l.pending
      /\ new.queue = l.queue /\ new.socket = "closed"
  <2>1. l.lost \in Nat /\ l.lost + 0 = l.lost
    BY DEF Loops
  <2>2. QED
    BY <2>1 DEF Loops
<1>2. do_accept(l) = IF new.acceptor = "listening" /\ new.socket = "closed"
                     THEN [new EXCEPT !.pending = @ + 1]
                     ELSE [new EXCEPT !.queue = Append(@, "failed")]
  BY DEF do_accept
<1> HIDE DEF new
<1>3. QED
  BY <1>1, <1>2 DEF Loops

\* do_accept(): one accept, or its failure; none is made into an open socket.
LEMMA DoAccept ==
    ASSUME NEW l \in Loops, l.socket # "open", secure \in BOOLEAN
    PROVE  /\ do_accept(l) \in Loops /\ do_accept(l).acceptor = l.acceptor
           /\ do_accept(l).lost = l.lost /\ do_accept(l).socket # "open"
           /\ \/ /\ do_accept(l).pending = l.pending + 1 /\ do_accept(l).queue = l.queue
                 /\ do_accept(l).socket = "closed" /\ l.acceptor = "listening"
              \/ /\ do_accept(l).pending = l.pending
                 /\ do_accept(l).queue = Append(l.queue, "failed")
<1> DEFINE new == IF secure
                  THEN [l EXCEPT !.socket = "closed", !.lost = @ + IF l.socket = "open" THEN 1 ELSE 0]
                  ELSE l
<1>1. /\ new \in Loops /\ new.acceptor = l.acceptor /\ new.lost = l.lost /\ new.pending = l.pending
      /\ new.queue = l.queue /\ new.socket = IF secure THEN "closed" ELSE l.socket
  <2>1. l.lost \in Nat /\ l.lost + 0 = l.lost
    BY DEF Loops
  <2>2. QED
    BY <2>1 DEF Loops
<1>2. do_accept(l) = IF new.acceptor = "listening" /\ new.socket = "closed"
                     THEN [new EXCEPT !.pending = @ + 1]
                     ELSE [new EXCEPT !.queue = Append(@, "failed")]
  BY DEF do_accept
<1> HIDE DEF new
<1>3. new.pending + 1 \in Nat /\ Append(new.queue, "failed") \in Seq(Queued)
  BY <1>1, AppendProperties DEF Loops, Queued
<1>4. CASE new.acceptor = "listening" /\ new.socket = "closed"
  BY <1>1, <1>2, <1>3, <1>4 DEF Loops
<1>5. CASE ~(new.acceptor = "listening" /\ new.socket = "closed")
  BY <1>1, <1>2, <1>3, <1>5 DEF Loops
<1>6. QED
  BY <1>4, <1>5

\* A step that leaves the loop alone, and gives no worker an accept to serve.
LEMMA LoopUnchanged ==
    ASSUME ThreadPoolAssumption, LoopTypeOK, LoopInv, UNCHANGED <<app, secure, loop>>,
           done'.starts = done.starts, ServingSet' \subseteq ServingSet,
           \A w \in ServingSet' : task'[w] = task[w]
    PROVE  LoopTypeOK' /\ LoopInv'
<1>1. LoopTypeOK'
  BY DEF LoopTypeOK, Loop, loop
<1>2. /\ IsFiniteSet(ServingSet') /\ Cardinality(ServingSet') <= Cardinality(ServingSet)
      /\ Cardinality(ServingSet') \in Nat /\ Cardinality(ServingSet) \in Nat
  BY ServingFinite, FS_Subset, FS_CardinalityType
<1>3. LoopInv'
  <2> SUFFICES ASSUME ~Restarts PROVE OneLoop'
    BY DEF LoopInv, Restarts
  <2>1. OneLoop
    BY DEF LoopInv
  <2>2. UNCHANGED <<acceptor, socket, pending, queue, peers>>
    BY DEF loop
  <2>3. Accepting(pending', queue', ServingSet') <= Accepting(pending, queue, ServingSet)
        /\ Accepting(pending, queue, ServingSet) \in Nat /\ Accepting(pending', queue', ServingSet') \in Nat
    BY SMTT(30), <1>2, <2>2, LoopTypes DEF Accepting
  <2>4. acceptor # "closed" => Accepting(pending', queue', ServingSet') <= 1
    BY <2>1, <2>3 DEF OneLoop
  <2>5. done'.starts = 0 => Accepting(pending', queue', ServingSet') = 0
    BY <2>1, <2>3 DEF OneLoop
  <2>6. QED
    BY <2>1, <2>2, <2>4, <2>5 DEF OneLoop
<1>4. QED
  BY <1>1, <1>3

\* A step that changes the queue, the accept under way and the socket.
LEMMA LoopChanged ==
    ASSUME ThreadPoolAssumption, LoopTypeOK, OneLoop, UNCHANGED <<app, secure, acceptor, pool, task>>,
           done'.starts = done.starts, peers'.lost = 0,
           pending' \in Nat, socket' \in {"closed", "open", "refused"}, queue' \in Seq(Queued),
           pending' + Count({"ok", "failed"}, queue') <= pending + Count({"ok", "failed"}, queue),
           done.starts = 0 => socket' = "closed",
           acceptor # "listening" => pending' = 0,
           pending' > 0 => socket' = "closed",
           socket' = "open" => Count({"failed"}, queue') = 0 /\ \A w \in ServingSet : task[w] # "failed"
    PROVE  OneLoop'
<1>1. ServingSet' = ServingSet
  BY DEF ServingSet, Serving, pool
<1>2. /\ Cardinality(ServingSet) \in Nat /\ Count({"ok", "failed"}, queue) \in Nat /\ pending \in Nat
      /\ Count({"ok", "failed"}, queue') \in Nat
  BY ServingFinite, LoopTypes, CountType
<1>3. /\ Accepting(pending', queue', ServingSet') <= Accepting(pending, queue, ServingSet)
      /\ Accepting(pending, queue, ServingSet) \in Nat /\ Accepting(pending', queue', ServingSet') \in Nat
  BY <1>1, <1>2 DEF Accepting
<1>4. acceptor # "closed" => Accepting(pending', queue', ServingSet') <= 1
  BY <1>3 DEF OneLoop
<1>5. done'.starts = 0 => Accepting(pending', queue', ServingSet') = 0
  BY <1>3 DEF OneLoop
<1>6. QED
  BY <1>1, <1>4, <1>5 DEF OneLoop

\* start(): the one accept is made.
LEMMA StartLoop ==
    ASSUME ThreadPoolAssumption, TypeOK, LoopInv, UNCHANGED app, StartServer
    PROVE  LoopTypeOK' /\ LoopInv'
<1> DEFINE l == [Closed(Loop) EXCEPT !.acceptor = "listening"]
           d == do_accept(l)
<1>1. /\ l \in Loops /\ l.acceptor = "listening" /\ l.pending = 0 /\ l.socket = socket
      /\ l.lost = peers.lost
      /\ l.queue \in Seq(Queued)
      /\ \A S : "aborted" \notin S => Count(S, l.queue) = Count(S, queue)
  <2>1. Loop \in Loops /\ Loop.socket = socket /\ Loop.lost = peers.lost /\ Loop.queue = queue
    BY DEF TypeOK, LoopTypeOK, Loop
  <2>2. Closed(Loop) \in Loops /\ Closed(Loop).pending = 0 /\ Closed(Loop).socket = socket
        /\ Closed(Loop).lost = peers.lost
        /\ \A S : "aborted" \notin S => Count(S, Closed(Loop).queue) = Count(S, queue)
    BY <2>1, ClosedLoop
  <2>3. l.queue = Closed(Loop).queue /\ l \in Loops /\ l.acceptor = "listening" /\ l.pending = 0
        /\ l.socket = socket /\ l.lost = peers.lost
    BY <2>2 DEF Loops, Acceptors
  <2>4. l.queue \in Seq(Queued)
    BY <2>3 DEF Loops
  <2>5. QED
    BY <2>2, <2>3, <2>4
<1> HIDE DEF l
<1>2. Becomes(d) /\ UNCHANGED <<pool, task>> /\ done'.starts = done.starts + 1 /\ done.starts \in Nat
  BY DEF StartServer, Start, TypeOK, l
<1>3. d \in Loops
  <2>1. secure \in BOOLEAN
    BY DEF TypeOK, LoopTypeOK
  <2>2. QED
    BY <1>1, <2>1, DoAcceptTypes
<1>4. LoopTypeOK'
  BY <1>2, <1>3, BecomesTypes DEF TypeOK
<1>5. LoopInv'
  <2> SUFFICES ASSUME ~Restarts PROVE OneLoop'
    BY DEF LoopInv, Restarts
  <2>1. OneLoop /\ done.starts = 0
    BY <1>2 DEF LoopInv, StartServer
  <2>2. socket = "closed" /\ Accepting(pending, queue, ServingSet) = 0 /\ peers.lost = 0
    BY <2>1 DEF OneLoop
  <2>3. Count({"ok", "failed"}, queue) = 0 /\ Cardinality(ServingSet) = 0 /\ ServingSet = {}
    <3>1. /\ Cardinality(ServingSet) \in Nat /\ Count({"ok", "failed"}, queue) \in Nat /\ pending \in Nat
          /\ IsFiniteSet(ServingSet)
      BY ServingFinite, LoopTypes DEF TypeOK
    <3>2. Count({"ok", "failed"}, queue) = 0 /\ Cardinality(ServingSet) = 0
      BY <2>2, <3>1 DEF Accepting
    <3>3. QED
      BY <3>1, <3>2, FS_EmptySet
  <2>4. /\ d.acceptor = "listening" /\ d.lost = 0 /\ d.socket = "closed" /\ d.pending = 1 /\ d.queue = l.queue
    <3>1. secure \in BOOLEAN /\ l.socket = "closed" /\ l.acceptor = "listening" /\ l.lost = 0 /\ l.pending = 0
      BY <1>1, <2>2 DEF TypeOK, LoopTypeOK
    <3>2. QED
      BY <1>1, <3>1, DoAcceptClosed
  <2> HIDE DEF d
  <2>5. acceptor' = "listening" /\ peers'.lost = 0 /\ socket' = "closed" /\ pending' = 1
        /\ queue' = l.queue
    BY <1>2, <1>3, <2>4, BecomesTypes DEF TypeOK
  <2>6. ServingSet' = {}
    BY <1>2, <2>3 DEF ServingSet, Serving, pool
  <2>7. Accepting(pending', queue', ServingSet') = 1
    BY <1>1, <2>3, <2>5, <2>6 DEF Accepting
  <2>8. done'.starts # 0
    BY <1>2
  <2>9. QED
    BY <2>5, <2>7, <2>8 DEF OneLoop
<1>6. QED
  BY <1>4, <1>5

\* stop(), and a start() that throws after it: the accepts that are left are in the
\* queue or with a worker.
LEMMA StopLoop ==
    ASSUME ThreadPoolAssumption, TypeOK, LoopInv, UNCHANGED app, StopServer \/ StartServerThrows
    PROVE  LoopTypeOK' /\ LoopInv'
<1> DEFINE c == Closed(Loop)
<1>1. /\ c \in Loops /\ c.pending = 0 /\ c.socket = socket /\ c.lost = peers.lost
      /\ c.acceptor = "closed" /\ \A S : "aborted" \notin S => Count(S, c.queue) = Count(S, queue)
  <2>1. Loop \in Loops /\ Loop.socket = socket /\ Loop.lost = peers.lost /\ Loop.queue = queue
    BY DEF TypeOK, LoopTypeOK, Loop
  <2>2. QED
    BY <2>1, ClosedLoop
<1>2. UNCHANGED <<pool, task, done>>
  BY DEF StopServer, StartServerThrows
<1>3. PICK how \in {"closed", "open"} :
          Becomes([c EXCEPT !.acceptor = how]) /\ (how = "closed" \/ StartServerThrows)
  <2>1. CASE StopServer
    <3>1. Becomes(c) /\ c = [c EXCEPT !.acceptor = "closed"]
      BY <1>1, <2>1 DEF StopServer, Stop, Loops
    <3>2. QED
      BY <3>1
  <2>2. CASE StartServerThrows
    BY <2>2 DEF StartServerThrows, StartThrows
  <2>3. QED
    BY <2>1, <2>2
<1> HIDE DEF c
<1> DEFINE l == [c EXCEPT !.acceptor = how]
<1>4. /\ l \in Loops /\ l.acceptor = how /\ l.pending = 0 /\ l.socket = socket /\ l.lost = peers.lost
      /\ l.queue = c.queue
  BY <1>1 DEF Loops, Acceptors
<1> HIDE DEF l
<1>5. /\ LoopTypeOK' /\ acceptor' = how /\ peers'.lost = peers.lost /\ socket' = socket
      /\ pending' = 0 /\ queue' = c.queue
  BY <1>3, <1>4, BecomesTypes DEF TypeOK, l
<1>6. LoopInv'
  <2> SUFFICES ASSUME ~Restarts PROVE OneLoop'
    BY DEF LoopInv, Restarts
  <2>1. OneLoop /\ (how = "closed" \/ done.starts = 0)
    BY <1>3 DEF LoopInv, StartServerThrows
  <2>2. ServingSet' = ServingSet
    BY <1>2 DEF ServingSet, Serving, pool
  <2>3. /\ Count({"failed"}, queue') = Count({"failed"}, queue)
        /\ Count({"ok", "failed"}, queue') = Count({"ok", "failed"}, queue)
    BY <1>1, <1>5
  <2>4. /\ pending \in Nat /\ Count({"ok", "failed"}, queue) \in Nat
        /\ Cardinality(ServingSet) \in Nat
    BY ServingFinite, LoopTypes DEF TypeOK
  <2>5. Accepting(pending, queue, ServingSet) = 0 => Accepting(pending', queue', ServingSet') = 0
    <3>1. SUFFICES ASSUME pending + Count({"ok", "failed"}, queue) + Cardinality(ServingSet) = 0
                   PROVE  0 + Count({"ok", "failed"}, queue) + Cardinality(ServingSet) = 0
      BY <1>5, <2>2, <2>3 DEF Accepting
    <3>2. QED
      BY <2>4, <3>1
  <2>6. done.starts = 0 => Accepting(pending', queue', ServingSet') = 0
    BY <2>1, <2>5 DEF OneLoop
  <2>7. acceptor' # "closed" => Accepting(pending', queue', ServingSet') <= 1
    BY <1>5, <2>1, <2>6
  <2>8. socket' = "open" =>
          Count({"failed"}, queue') = 0 /\ \A w \in ServingSet' : task'[w] # "failed"
    BY <1>2, <1>5, <2>1, <2>2, <2>3 DEF OneLoop
  <2>9. QED
    BY <1>2, <1>5, <2>1, <2>6, <2>7, <2>8 DEF OneLoop
<1>7. QED
  BY <1>5, <1>6

\* Another handler becomes ready, or a peer arrives, is accepted or not.
LEMMA QueueLoop ==
    ASSUME ThreadPoolAssumption, TypeOK, LoopInv, UNCHANGED app, Posts \/ Peers
    PROVE  LoopTypeOK' /\ LoopInv'
<1>1. /\ UNCHANGED <<secure, acceptor, pool, task>> /\ done'.starts = done.starts
  BY DEF Posts, Peers, Arrives, Accepts, AcceptFails, TypeOK
<1>2. /\ acceptor \in Acceptors /\ socket \in {"closed", "open", "refused"}
      /\ pending \in Nat /\ queue \in Seq(Queued) /\ peers.lost \in Nat /\ peers.waiting \in Nat
      /\ \A S : Count(S, queue) \in Nat /\ secure \in BOOLEAN
      /\ peers \in [arrived : Nat, waiting : Nat, served : Nat, refused : Nat, lost : Nat]
  BY LoopTypes DEF TypeOK, LoopTypeOK
<1>3. \A e \in Queued : \A S : /\ Append(queue, e) \in Seq(Queued)
                               /\ Count(S, Append(queue, e)) = Count(S, queue) + IF e \in S THEN 1 ELSE 0
  BY <1>2, AppendProperties, CountAppend
<1>4. /\ socket' \in {"closed", "open", "refused"} /\ pending' \in Nat /\ queue' \in Seq(Queued)
  <2>1. pending > 0 => pending - 1 \in Nat
    BY <1>2
  <2>2. QED
    BY <1>2, <1>3, <2>1 DEF Posts, Peers, Arrives, Accepts, AcceptFails, Queued
<1>5. peers' \in [arrived : Nat, waiting : Nat, served : Nat, refused : Nat, lost : Nat]
  <2>1. /\ peers.arrived + 1 \in Nat /\ peers.waiting + 1 \in Nat /\ peers.lost + 1 \in Nat
        /\ peers.waiting > 0 => peers.waiting - 1 \in Nat
    BY <1>2
  <2>2. QED
    BY <1>2, <2>1 DEF Posts, Peers, Arrives, Accepts, AcceptFails
<1>6. LoopTypeOK'
  <2>1. Loop' \in Loops
    <3>1. /\ peers'.waiting \in Nat /\ peers'.served \in Nat /\ peers'.refused \in Nat
          /\ peers'.lost \in Nat /\ acceptor' \in Acceptors
      BY <1>1, <1>2, <1>5
    <3>2. QED
      BY <1>4, <3>1 DEF Loop, Loops
  <2>2. QED
    BY <1>1, <1>2, <1>5, <2>1 DEF LoopTypeOK
<1>7. LoopInv'
  <2> SUFFICES ASSUME ~Restarts PROVE OneLoop'
    BY DEF LoopInv, Restarts
  <2>1. OneLoop
    BY DEF LoopInv
  <2>2. CASE Posts
    <3>1. UNCHANGED <<socket, pending, peers>> /\ queue' = Append(queue, "job")
      BY <2>2 DEF Posts
    <3>2. \A S : "job" \notin S => Count(S, queue') = Count(S, queue)
      BY <1>2, <1>3, <3>1 DEF Queued
    <3>3. Count({"ok", "failed"}, queue') = Count({"ok", "failed"}, queue)
          /\ Count({"failed"}, queue') = Count({"failed"}, queue)
      BY <3>2
    <3>4. pending' + Count({"ok", "failed"}, queue') <= pending + Count({"ok", "failed"}, queue)
      BY <1>2, <3>1, <3>3
    <3>5. QED
      BY <1>1, <1>4, <2>1, <3>1, <3>3, <3>4, LoopChanged DEF OneLoop, TypeOK
  <2>3. CASE Arrives /\ UNCHANGED <<pool, task, done>>
    <3>1. UNCHANGED <<socket, pending, queue>> /\ peers'.lost = peers.lost
      BY <1>2, <2>3 DEF Arrives
    <3>2. QED
      BY <1>1, <1>2, <1>4, <2>1, <3>1, LoopChanged DEF OneLoop, TypeOK
  <2>4. CASE Accepts /\ UNCHANGED <<pool, task, done>>
    <3>1. pending > 0 /\ socket = "closed" /\ acceptor = "listening"
      BY <2>1, <2>4 DEF Accepts, OneLoop
    <3>2. pending' = pending - 1 /\ queue' = Append(queue, "ok") /\ socket' = "open"
          /\ peers'.lost = peers.lost
      BY <1>2, <2>4, <3>1 DEF Accepts
    <3>3. Count({"ok", "failed"}, queue') = Count({"ok", "failed"}, queue) + 1
          /\ Count({"failed"}, queue') = Count({"failed"}, queue)
      BY <1>2, <1>3, <3>2 DEF Queued
    <3>4. pending + Count({"ok", "failed"}, queue) + Cardinality(ServingSet) <= 1
      BY <2>1, <3>1 DEF OneLoop, Accepting
    <3>5. Cardinality(ServingSet) \in Nat /\ IsFiniteSet(ServingSet)
      BY ServingFinite
    <3>6. pending = 1 /\ Count({"ok", "failed"}, queue) = 0 /\ Cardinality(ServingSet) = 0
      BY <1>2, <3>1, <3>4, <3>5
    <3>7. ServingSet = {}
      BY <3>5, <3>6, FS_EmptySet
    <3>8. Count({"failed"}, queue) = 0
      BY <1>2, <3>6, CountNone
    <3>9. pending' = 0
      BY <3>2, <3>6
    <3>10. done.starts # 0
      BY <2>1, <3>1 DEF OneLoop
    <3>11. pending' + Count({"ok", "failed"}, queue') <= pending + Count({"ok", "failed"}, queue)
      BY <3>3, <3>6, <3>9
    <3>12. peers'.lost = 0
      BY <2>1, <3>2 DEF OneLoop
    <3>13. QED
      BY <1>1, <1>4, <2>1, <3>1, <3>2, <3>3, <3>7, <3>8, <3>9, <3>10, <3>11, <3>12, LoopChanged DEF TypeOK
  <2>5. CASE AcceptFails /\ UNCHANGED <<pool, task, done>>
    <3>1. pending > 0 /\ pending' = pending - 1 /\ queue' = Append(queue, "failed")
          /\ UNCHANGED <<socket, peers>>
      BY <2>5 DEF AcceptFails
    <3>2. socket = "closed" /\ acceptor = "listening"
      BY <2>1, <3>1 DEF OneLoop
    <3>3. Count({"ok", "failed"}, queue') = Count({"ok", "failed"}, queue) + 1
      BY <1>2, <1>3, <3>1 DEF Queued
    <3>4. pending' + Count({"ok", "failed"}, queue') <= pending + Count({"ok", "failed"}, queue)
      BY <1>2, <3>1, <3>3
    <3>5. QED
      BY <1>1, <1>4, <2>1, <3>1, <3>2, <3>4, LoopChanged DEF OneLoop, TypeOK
  <2>6. QED
    BY <2>2, <2>3, <2>4, <2>5 DEF Peers
<1>8. QED
  BY <1>6, <1>7

\* A worker takes a handler: the accept passes from the queue to the worker.
LEMMA BeginsLoop ==
    ASSUME ThreadPoolAssumption, TypeOK, LoopInv, UNCHANGED app, NEW w \in Workers, Begins(w)
    PROVE  LoopTypeOK' /\ LoopInv' /\ task' \in [Workers -> Queued \cup {"none"}]
<1>1. /\ queue # <<>> /\ queue \in Seq(Queued) /\ pending \in Nat
      /\ worker \in [Workers -> {"none", "idle", "busy", "ended"}]
      /\ task \in [Workers -> Queued \cup {"none"}] /\ \A S : Count(S, queue) \in Nat
  BY LoopTypes DEF Begins, TypeOK, PoolTypeOK
<1>2. /\ worker[w] = "idle" /\ worker' = [worker EXCEPT ![w] = "busy"]
      /\ task' = [task EXCEPT ![w] = Head(queue)] /\ queue' = Tail(queue)
      /\ UNCHANGED <<secure, acceptor, socket, pending, peers, done>>
  BY DEF Begins, Takes
<1>3. Head(queue) \in Queued /\ Tail(queue) \in Seq(Queued)
  BY <1>1, HeadTailProperties
<1>4. \A S : Count(S, queue) = Count(S, queue') + IF Head(queue) \in S THEN 1 ELSE 0
  BY <1>1, <1>2, CountTail
<1>5. \A S : Count(S, queue') \in Nat
  BY <1>2, <1>3, CountType
<1>6. LoopTypeOK'
  <2>1. /\ acceptor \in Acceptors /\ socket \in {"closed", "open", "refused"}
        /\ peers.waiting \in Nat /\ peers.served \in Nat /\ peers.refused \in Nat /\ peers.lost \in Nat
    BY LoopTypes DEF TypeOK
  <2>2. Loop' \in Loops
    BY <1>1, <1>2, <1>3, <2>1 DEF Loop, Loops
  <2>3. QED
    BY <1>2, <2>2 DEF TypeOK, LoopTypeOK
<1>7. task' \in [Workers -> Queued \cup {"none"}]
  BY <1>1, <1>2, <1>3
<1>8. /\ w \notin ServingSet
      /\ Head(queue) \in {"ok", "failed"} => ServingSet' = ServingSet \cup {w}
      /\ Head(queue) \notin {"ok", "failed"} => ServingSet' = ServingSet
      /\ \A v \in ServingSet : task'[v] = task[v]
      /\ task'[w] = Head(queue)
  BY <1>1, <1>2 DEF ServingSet, Serving
<1>9. LoopInv'
  <2> SUFFICES ASSUME ~Restarts PROVE OneLoop'
    BY DEF LoopInv, Restarts
  <2>1. OneLoop
    BY DEF LoopInv
  <2>2. Cardinality(ServingSet) \in Nat /\ IsFiniteSet(ServingSet)
    BY ServingFinite
  <2>3. Accepting(pending', queue', ServingSet') = Accepting(pending, queue, ServingSet)
    <3>1. CASE Head(queue) \in {"ok", "failed"}
      <4>1. Cardinality(ServingSet') = Cardinality(ServingSet) + 1
        BY <1>8, <2>2, <3>1, FS_AddElement
      <4>2. Count({"ok", "failed"}, queue) = Count({"ok", "failed"}, queue') + 1
        BY <1>4, <3>1
      <4>3. QED
        BY <1>1, <1>2, <1>5, <2>2, <4>1, <4>2 DEF Accepting
    <3>2. CASE Head(queue) \notin {"ok", "failed"}
      <4>1. Count({"ok", "failed"}, queue) = Count({"ok", "failed"}, queue') + 0
        BY <1>4, <3>2
      <4>2. Count({"ok", "failed"}, queue) = Count({"ok", "failed"}, queue')
        BY <1>5, <4>1
      <4>3. QED
        BY <1>2, <1>8, <3>2, <4>2 DEF Accepting
    <3>3. QED
      BY <3>1, <3>2
  <2>4. ASSUME socket = "open"
        PROVE  Count({"failed"}, queue') = 0 /\ \A v \in ServingSet' : task'[v] # "failed"
    <3>1. Count({"failed"}, queue) = 0 /\ \A v \in ServingSet : task[v] # "failed"
      BY <2>1, <2>4 DEF OneLoop
    <3>2. Count({"failed"}, queue) = Count({"failed"}, queue') + IF Head(queue) = "failed" THEN 1 ELSE 0
      BY <1>4
    <3>3. Count({"failed"}, queue') \in Nat
      BY <1>5
    <3>4. Count({"failed"}, queue') = 0 /\ Head(queue) # "failed"
      BY <3>1, <3>2, <3>3
    <3>5. QED
      BY <1>8, <3>1, <3>4
  <2>5. QED
    BY <1>2, <2>1, <2>3, <2>4 DEF OneLoop
<1>10. QED
  BY <1>6, <1>7, <1>9

\* on_accept_ decides, with the socket it was given.
LEMMA TakenLoop ==
    ASSUME NEW l \in Loops, NEW accepted \in BOOLEAN
    PROVE  /\ Taken(l, accepted) \in Loops /\ Taken(l, accepted).socket # "open"
           /\ Taken(l, accepted).acceptor = l.acceptor /\ Taken(l, accepted).lost = l.lost
           /\ Taken(l, accepted).pending = l.pending /\ Taken(l, accepted).queue = l.queue
<1> DEFINE n == l.served + IF l.socket = "open" THEN 1 ELSE 0
           m == l.refused + 1
<1>1. n \in Nat /\ m \in Nat
  BY DEF Loops
<1>2. Taken(l, accepted) = IF accepted THEN [l EXCEPT !.socket = "closed", !.served = n]
                           ELSE [l EXCEPT !.socket = "refused", !.refused = m]
  BY DEF Taken
<1> HIDE DEF n, m
<1>3. CASE accepted
  BY <1>1, <1>2, <1>3 DEF Loops
<1>4. CASE ~accepted
  BY <1>1, <1>2, <1>4 DEF Loops
<1>5. QED
  BY <1>3, <1>4

\* A worker finishes the handler of an accept: the next accept takes its place.
LEMMA AcceptLoopGoesOn ==
    ASSUME ThreadPoolAssumption, TypeOK, LoopInv, UNCHANGED app, NEW w \in Workers,
           task[w] \in {"ok", "failed", "aborted"}, Finishes(w, FALSE), NEW accepted \in BOOLEAN,
           Becomes(HandleAccept(Loop, task[w], accepted)),
           task' = [task EXCEPT ![w] = "none"], UNCHANGED done
    PROVE  LoopTypeOK' /\ LoopInv'
<1>1. /\ Loop \in Loops /\ secure \in BOOLEAN
      /\ Loop.acceptor = acceptor /\ Loop.socket = socket /\ Loop.pending = pending
      /\ Loop.queue = queue /\ Loop.lost = peers.lost
  BY DEF TypeOK, LoopTypeOK, Loop
<1>2. /\ worker \in [Workers -> {"none", "idle", "busy", "ended"}]
      /\ task \in [Workers -> Queued \cup {"none"}]
      /\ worker[w] = "busy" /\ worker' = [worker EXCEPT ![w] = "idle"]
  BY DEF TypeOK, PoolTypeOK, Finishes
<1>3. ServingSet' = ServingSet \ {w} /\ \A v \in ServingSet' : task'[v] = task[v]
  BY <1>2 DEF ServingSet, Serving
<1>4. CASE task[w] = "aborted" \/ acceptor = "closed"
  <2>1. Becomes(Loop)
    BY <1>1, <1>4 DEF HandleAccept
  <2>2. peers' = peers
    <3>1. peers' = [peers EXCEPT !.waiting = peers.waiting, !.served = peers.served,
                                 !.refused = peers.refused, !.lost = peers.lost]
      BY <2>1 DEF Becomes, Loop
    <3>2. QED
      BY <3>1 DEF TypeOK, LoopTypeOK
  <2>3. UNCHANGED <<secure, loop>>
    BY <2>1, <2>2 DEF Becomes, Loop, loop
  <2>4. QED
    BY <1>3, <2>3, LoopUnchanged DEF TypeOK
<1>5. CASE task[w] # "aborted" /\ acceptor # "closed"
  <2> DEFINE l == IF task[w] = "ok" THEN Taken(Loop, accepted) ELSE Loop
             d == do_accept(l)
  <2>1. /\ l \in Loops /\ l.acceptor = acceptor /\ l.lost = peers.lost /\ l.pending = pending /\ l.queue = queue
        /\ task[w] = "ok" => l.socket # "open"
        /\ task[w] # "ok" => l.socket = socket
    BY <1>1, <1>5, TakenLoop
  <2>2. HandleAccept(Loop, task[w], accepted) = d
    BY <1>1, <1>5 DEF HandleAccept
  <2> HIDE DEF l
  <2>3. d \in Loops
    BY <1>1, <2>1, DoAcceptTypes
  <2> HIDE DEF d
  <2>4. /\ LoopTypeOK' /\ acceptor' = d.acceptor /\ socket' = d.socket /\ pending' = d.pending
        /\ queue' = d.queue /\ peers'.lost = d.lost
    BY <2>2, <2>3, BecomesTypes DEF TypeOK
  <2>5. LoopInv'
    <3> SUFFICES ASSUME ~Restarts PROVE OneLoop'
      BY DEF LoopInv, Restarts
    <3>1. OneLoop /\ w \in ServingSet
      BY <1>2, <1>5 DEF LoopInv, ServingSet, Serving
    <3>2. /\ Cardinality(ServingSet) \in Nat /\ IsFiniteSet(ServingSet)
          /\ Cardinality(ServingSet') = Cardinality(ServingSet) - 1 /\ Cardinality(ServingSet') \in Nat
      <4>1. Cardinality(ServingSet) \in Nat /\ IsFiniteSet(ServingSet)
        BY ServingFinite
      <4>2. IsFiniteSet(ServingSet')
        BY <1>3, <4>1, FS_RemoveElement
      <4>3. QED
        BY <1>3, <3>1, <4>1, <4>2, FS_RemoveElement, FS_CardinalityType
    <3>3. pending \in Nat /\ queue \in Seq(Queued) /\ Count({"ok", "failed"}, queue) \in Nat
      BY LoopTypes DEF TypeOK
    <3>4. pending = 0 /\ Count({"ok", "failed"}, queue) = 0 /\ Cardinality(ServingSet') = 0
      <4>1. pending + Count({"ok", "failed"}, queue) + Cardinality(ServingSet) <= 1
        BY <1>5, <3>1 DEF OneLoop, Accepting
      <4>2. QED
        BY <3>2, <3>3, <4>1
    <3>5. l.socket # "open"
      BY <1>5, <2>1, <3>1 DEF OneLoop
    <3>6. /\ d.acceptor = acceptor /\ d.lost = 0 /\ d.socket # "open"
          /\ \/ /\ d.pending = 1 /\ d.queue = queue /\ d.socket = "closed"
                /\ acceptor = "listening"
             \/ d.pending = 0 /\ d.queue = Append(queue, "failed")
      <4>1. peers.lost = 0
        BY <3>1 DEF OneLoop
      <4>2. l.pending + 1 = 1
        BY <2>1, <3>4
      <4>3. QED
        BY <1>1, <2>1, <3>4, <3>5, <4>1, <4>2, DoAccept DEF d
    <3>7. Count({"ok", "failed"}, Append(queue, "failed")) = 1
      BY <3>3, <3>4, CountAppend DEF Queued
    <3>8. Accepting(pending', queue', ServingSet') = 1
      <4>1. CASE d.pending = 1 /\ d.queue = queue
        BY <2>4, <3>4, <4>1 DEF Accepting
      <4>2. CASE d.pending = 0 /\ d.queue = Append(queue, "failed")
        BY <2>4, <3>4, <3>7, <4>2 DEF Accepting
      <4>3. QED
        BY <3>6, <4>1, <4>2
    <3>9. done'.starts # 0
      <4>1. Accepting(pending, queue, ServingSet) # 0
        BY <3>2, <3>4 DEF Accepting
      <4>2. QED
        BY <3>1, <4>1 DEF OneLoop
    <3>10. /\ pending' > 0 => socket' = "closed"
           /\ acceptor' # "listening" => pending' = 0
      BY <2>4, <3>6
    <3>11. QED
      BY <2>4, <3>6, <3>8, <3>9, <3>10 DEF OneLoop
  <2>6. QED
    BY <2>4, <2>5
<1>6. QED
  BY <1>4, <1>5

\* A worker finishes another handler, or throws out of one: no accept is made.
LEMMA CompletesLoop ==
    ASSUME ThreadPoolAssumption, TypeOK, LoopInv, UNCHANGED app, NEW w \in Workers, Completes(w)
    PROVE  LoopTypeOK' /\ LoopInv' /\ task' \in [Workers -> Queued \cup {"none"}]
<1>1. /\ task' = [task EXCEPT ![w] = "none"] /\ UNCHANGED done
      /\ \/ UNCHANGED <<secure, loop>> /\ \E throws \in BOOLEAN : Finishes(w, throws)
         \/ /\ task[w] \in {"ok", "failed", "aborted"} /\ Finishes(w, FALSE)
            /\ \E accepted \in BOOLEAN : Becomes(HandleAccept(Loop, task[w], accepted))
  BY DEF Completes
<1>2. task \in [Workers -> Queued \cup {"none"}] /\ worker \in [Workers -> {"none", "idle", "busy", "ended"}]
  BY DEF TypeOK, PoolTypeOK
<1>3. task' \in [Workers -> Queued \cup {"none"}]
  BY <1>1, <1>2
<1>4. CASE UNCHANGED <<secure, loop>> /\ \E throws \in BOOLEAN : Finishes(w, throws)
  <2>1. ServingSet' \subseteq ServingSet /\ \A v \in ServingSet' : task'[v] = task[v]
    BY <1>1, <1>2, <1>4 DEF Finishes, ServingSet, Serving
  <2>2. QED
    BY <1>1, <1>3, <1>4, <2>1, LoopUnchanged DEF TypeOK
<1>5. QED
  BY <1>1, <1>3, <1>4, AcceptLoopGoesOn

-----------------------------------------------------------------------------
(* Every step keeps the inductive invariant.                               *)

\* The threads of setup() and teardown() leave the accept loop alone.
LEMMA ThreadStep ==
    ASSUME ThreadPoolAssumption, IInv, UNCHANGED app, NEW t \in Threads,
           SetUp(t) \/ TearDown(t) \/ TearDownReturns(t) \/ Called(t)
    PROVE  IInv'
<1> USE DEF IInv, TypeOK
<1>1. UNCHANGED <<secure, loop, task>>
  BY DEF SetUp, TearDown, TearDownReturns, Called
<1>2. done' \in [starts : Nat, setups : Nat, jobs : Nat, down : BOOLEAN] /\ done'.starts = done.starts
  <2>1. done.setups + 1 \in Nat
    OBVIOUS
  <2>2. QED
    BY <2>1 DEF SetUp, TearDown, TearDownReturns, Called
<1>3. PoolTypeOK' /\ PoolInv'
  <2>1. CASE TearDownReturns(t)
    <3>1. UNCHANGED pool /\ ~Calm
      BY <2>1 DEF TearDownReturns, Calm
    <3>2. PoolTypeOK' /\ RunningIsJoinable' /\ ~Calm'
      BY <3>1 DEF pool, PoolTypeOK, PoolInv, RunningIsJoinable, Calm
    <3>3. QED
      BY <3>2 DEF PoolInv
  <2>2. QED
    BY <2>1, SetUpPool, TearDownPool, CalledPool
<1>4. \A w \in Workers : worker'[w] = "busy" => worker[w] = "busy"
  BY DEF SetUp, setup, TearDown, teardown, TearDownReturns, pool, Called, Calls, StoreUp,
     setup_impl, teardown_impl, Join, PoolTypeOK
<1>5. LoopTypeOK' /\ LoopInv'
  <2>1. ServingSet' \subseteq ServingSet
    BY <1>1, <1>4 DEF ServingSet, Serving
  <2>2. QED
    BY <1>1, <1>2, <2>1, LoopUnchanged
<1>6. QED
  BY <1>1, <1>2, <1>3, <1>5

\* The accept loop and what becomes ready leave the threads alone.
LEMMA LoopStep ==
    ASSUME ThreadPoolAssumption, IInv, UNCHANGED app,
           StartServer \/ StartServerThrows \/ StopServer \/ Posts \/ Peers
    PROVE  IInv'
<1>1. /\ UNCHANGED <<pool, task>> /\ done'.down = done.down
      /\ done' \in [starts : Nat, setups : Nat, jobs : Nat, down : BOOLEAN]
  <2>1. done.starts + 1 \in Nat /\ done.jobs + 1 \in Nat
    BY DEF IInv, TypeOK
  <2>2. QED
    BY <2>1 DEF IInv, TypeOK, StartServer, StartServerThrows, StopServer, Posts, Peers
<1>2. PoolTypeOK' /\ PoolInv'
  BY <1>1 DEF pool, IInv, TypeOK, PoolTypeOK, PoolInv, RunningIsJoinable, Calm, OneByOne
<1>3. LoopTypeOK' /\ LoopInv'
  BY StartLoop, StopLoop, QueueLoop DEF IInv
<1>4. QED
  BY <1>1, <1>2, <1>3 DEF IInv, TypeOK

\* The workers.
LEMMA WorkerStep ==
    ASSUME ThreadPoolAssumption, IInv, UNCHANGED app, NEW w \in Workers,
           Ends(w) \/ Begins(w) \/ Completes(w)
    PROVE  IInv'
<1>1. UNCHANGED done
  BY DEF Ends, Begins, Completes
<1>2. RunReturns(w, Work) \/ Takes(w) \/ \E throws \in BOOLEAN : Finishes(w, throws)
  BY DEF Ends, Begins, Completes
<1>3. PoolTypeOK' /\ PoolInv'
  BY <1>1, <1>2, WorkerPool DEF IInv, TypeOK
<1>4. LoopTypeOK' /\ LoopInv' /\ task' \in [Workers -> Queued \cup {"none"}]
  <2>1. CASE Ends(w)
    <3>1. UNCHANGED <<secure, loop, task>> /\ worker' = [worker EXCEPT ![w] = "ended"]
      BY <2>1 DEF Ends, RunReturns
    <3>2. ServingSet' \subseteq ServingSet
      BY <3>1 DEF ServingSet, Serving, IInv, TypeOK, PoolTypeOK
    <3>3. QED
      BY <1>1, <3>1, <3>2, LoopUnchanged DEF IInv, TypeOK
  <2>2. QED
    BY <2>1, BeginsLoop, CompletesLoop DEF IInv
<1>5. QED
  BY <1>1, <1>3, <1>4 DEF IInv, TypeOK

-----------------------------------------------------------------------------
(* The accept loop never stops by itself.                                  *)

Stages == {"out", "set up", "set up locked", "tear down", "tear down locked", "join"}

SettingUp(t) == pc[t] \in {"set up", "set up locked"}

TearingDown(t) == pc[t] \in {"tear down", "tear down locked", "join"}

\* The threads are set up by one thread while none of them runs, and a worker that
\* tears them down is in a handler that is no accept's.
WorkersInv ==
    /\ done.setups = 0 => (\A w \in Workers : worker[w] = "none") /\ (\A t \in Threads : pc[t] = "out")
    /\ \A t, u \in Threads : SettingUp(t) /\ SettingUp(u) => t = u
    /\ (\E t \in Threads : SettingUp(t)) => \A w \in Workers : worker[w] \in {"none", "ended"}
    /\ \A w \in Workers : TearingDown(w) => worker[w] = "busy" /\ task[w] = "job"

\* The accept of an acceptor that listens: under way, ready, or being handled.
AcceptReady(q) == \E i \in DOMAIN q : q[i] \in {"ok", "failed"}

Accepted ==
    acceptor = "listening" => pending > 0 \/ AcceptReady(queue) \/ \E w \in Workers : Serving(w)

\* setup() and teardown() leave a worker to the accept that it handles.
LEMMA ServingStays ==
    ASSUME ThreadPoolAssumption, TypeOK, WorkersInv, NEW t \in Threads,
           SetUp(t) \/ TearDown(t) \/ TearDownReturns(t) \/ Called(t)
    PROVE  /\ WorkersInv' /\ UNCHANGED <<secure, loop, task>>
           /\ \A w \in Workers : Serving(w) => Serving(w)'
<1>0. /\ worker \in [Workers -> {"none", "idle", "busy", "ended"}] /\ joinable \subseteq Workers
      /\ task \in [Workers -> Queued \cup {"none"}]
      /\ pc \in [Threads -> Stages]
  BY DEF TypeOK, PoolTypeOK, Stages
<1> USE <1>0
<1>1. UNCHANGED <<secure, loop, task>> /\ \A w \in Workers : w \in Threads
  BY DEF SetUp, TearDown, TearDownReturns, Called, Threads
<1>2. CASE SetUp(t)
  <2>1. /\ UNCHANGED worker /\ pc'[t] = "set up" /\ \A u \in Threads : u # t => pc'[u] = "out"
    <3>1. /\ UNCHANGED worker /\ pc' = [pc EXCEPT ![t] = "set up"]
          /\ \A u \in Threads : pc[u] = "out"
      BY <1>2 DEF SetUp, setup, Goes
    <3>2. QED
      BY <3>1
  <2>2. \A w \in Workers : worker[w] \in {"none", "ended"}
    <3>1. done.setups = 0 \/ \A w \in Workers : worker[w] \in {"none", "ended"}
      BY <1>2 DEF SetUp
    <3>2. QED
      BY <3>1 DEF WorkersInv
  <2>3. done'.setups # 0
    <3>1. done'.setups = done.setups + 1 /\ done.setups \in Nat
      BY <1>2 DEF SetUp, TypeOK
    <3>2. QED
      BY <3>1
  <2>4. /\ \A u \in Threads : SettingUp(u)' => u = t
        /\ \A w \in Workers : ~TearingDown(w)'
    BY <1>1, <2>1 DEF SettingUp, TearingDown
  <2>5. WorkersInv'
    BY <2>1, <2>2, <2>3, <2>4 DEF WorkersInv
  <2>6. QED
    BY <1>1, <2>1, <2>5 DEF Serving
<1>3. CASE TearDown(t)
  <2>1. UNCHANGED <<worker, done>> /\ (t \in Workers => worker[t] = "busy" /\ task[t] = "job")
    BY <1>3 DEF TearDown, teardown
  <2>2. /\ \A u \in Threads : SettingUp(u)' => SettingUp(u)
        /\ \A u \in Threads : TearingDown(u)' => u = t \/ TearingDown(u)
    <3>1. pc' = [pc EXCEPT ![t] = "tear down"]
      BY <1>3 DEF TearDown, teardown, Goes
    <3>2. QED
      BY <3>1 DEF SettingUp, TearingDown
  <2>3. done.setups # 0 /\ UNCHANGED task
    <3>1. done.setups > 0
      BY <1>3 DEF TearDown
    <3>2. QED
      BY <1>1, <3>1
  <2>4. WorkersInv'
    BY <1>1, <2>1, <2>2, <2>3 DEF WorkersInv
  <2>5. QED
    BY <1>1, <2>1, <2>4 DEF Serving
<1>4. CASE TearDownReturns(t)
  <2>1. UNCHANGED <<worker, pc>> /\ done'.setups = done.setups
    <3>1. UNCHANGED <<worker, pc>> /\ done' = [done EXCEPT !.down = TRUE]
      BY <1>4 DEF TearDownReturns, pool
    <3>2. QED
      BY <3>1 DEF TypeOK
  <2>2. QED
    BY <1>1, <2>1 DEF WorkersInv, SettingUp, TearingDown, Serving
<1>5. CASE Called(t)
  <2>1. Calls(t) /\ done'.setups = done.setups
    BY <1>5 DEF Called
  <2>2. CASE StoreUp(t)
    <3>1. /\ UNCHANGED worker
          /\ \/ pc[t] = "set up" /\ pc' = [pc EXCEPT ![t] = "set up locked"]
             \/ pc[t] = "tear down" /\ pc' = [pc EXCEPT ![t] = "tear down locked"]
      BY <2>2 DEF StoreUp, Goes
    <3>2. \A u \in Threads : /\ SettingUp(u)' => SettingUp(u)
                             /\ TearingDown(u)' => TearingDown(u)
      BY <3>1 DEF SettingUp, TearingDown
    <3>3. done'.setups # 0
      BY <2>1, <3>1 DEF WorkersInv
    <3>4. QED
      BY <1>1, <3>1, <3>2, <3>3 DEF WorkersInv, Serving
  <2>3. CASE setup_impl(t)
    <3>1. /\ pc[t] = "set up locked" /\ pc' = [pc EXCEPT ![t] = "out"]
          /\ \A w \in Workers : worker[w] \in {"none", "ended"}
      BY <2>3 DEF setup_impl, Goes, WorkersInv, SettingUp
    <3>2. \A u \in Threads : ~SettingUp(u)'
      BY <2>3, <3>1 DEF WorkersInv, SettingUp
    <3>3. done'.setups # 0
      BY <2>1, <3>1 DEF WorkersInv
    <3>4. \A w \in Workers : ~TearingDown(w)'
      BY <1>1, <3>1 DEF WorkersInv, TearingDown
    <3>5. QED
      BY <1>1, <3>1, <3>2, <3>3, <3>4 DEF WorkersInv, Serving
  <2>4. CASE teardown_impl(t)
    <3>1. UNCHANGED worker /\ pc[t] = "tear down locked" /\ pc' = [pc EXCEPT ![t] = "join"]
      BY <2>4 DEF teardown_impl, Goes
    <3>2. \A u \in Threads : /\ SettingUp(u)' => SettingUp(u)
                             /\ TearingDown(u)' => TearingDown(u)
      BY <3>1 DEF SettingUp, TearingDown
    <3>3. done'.setups # 0
      BY <2>1, <3>1 DEF WorkersInv
    <3>4. QED
      BY <1>1, <3>1, <3>2, <3>3 DEF WorkersInv, Serving
  <2>5. CASE Join(t)
    <3>1. /\ pc[t] = "join"
          /\ \/ UNCHANGED <<worker, pc>>
             \/ UNCHANGED worker /\ pc' = [pc EXCEPT ![t] = "out"]
             \/ t \in Workers /\ worker' = [worker EXCEPT ![t] = "ended"] /\ pc' = [pc EXCEPT ![t] = "out"]
      <4>1. CASE joinable = {}
        BY <2>5, <4>1 DEF Join, Goes
      <4>2. CASE joinable # {}
        <5> DEFINE first == CHOOSE w \in joinable : \A v \in joinable : w <= v
        <5>1. first \in Workers
          BY <4>2, FirstJoinable
        <5>2. /\ pc[t] = "join"
              /\ \/ /\ first = t /\ worker' = [worker EXCEPT ![t] = "ended"]
                    /\ pc' = [pc EXCEPT ![t] = "out"]
                 \/ UNCHANGED <<worker, pc>>
          BY <2>5, <4>2 DEF Join, Goes
        <5> HIDE DEF first
        <5>3. QED
          BY <5>1, <5>2
      <4>3. QED
        BY <4>1, <4>2
    <3>2. t \in Workers => worker[t] = "busy" /\ task[t] = "job"
      BY <3>1 DEF WorkersInv, TearingDown
    <3>3. \A u \in Threads : /\ SettingUp(u)' => SettingUp(u)
                             /\ TearingDown(u)' => TearingDown(u) /\ (u = t => UNCHANGED worker)
      BY <3>1 DEF SettingUp, TearingDown
    <3>4. done'.setups # 0
      BY <2>1, <3>1 DEF WorkersInv
    <3>5. \A w \in Workers : /\ w # t => worker'[w] = worker[w]
                             /\ worker'[w] = worker[w] \/ worker'[w] = "ended"
      BY <3>1
    <3>6. WorkersInv'
      BY <1>1, <3>3, <3>4, <3>5 DEF WorkersInv
    <3>7. \A w \in Workers : Serving(w) => Serving(w)'
      BY <1>1, <3>2, <3>5 DEF Serving
    <3>8. QED
      BY <1>1, <3>6, <3>7
  <2>6. QED
    BY <2>1, <2>2, <2>3, <2>4, <2>5 DEF Calls
<1>6. QED
  BY <1>2, <1>3, <1>4, <1>5

\* do_accept() makes the next accept, or its failure.
LEMMA AcceptIsMade ==
    ASSUME NEW l \in Loops
    PROVE  do_accept(l).pending > 0 \/ AcceptReady(do_accept(l).queue)
<1> DEFINE new == IF secure
                  THEN [l EXCEPT !.socket = "closed", !.lost = @ + IF l.socket = "open" THEN 1 ELSE 0]
                  ELSE l
<1>1. /\ new.pending = l.pending /\ l.pending \in Nat /\ new.queue = l.queue /\ l.queue \in Seq(Queued)
      /\ DOMAIN new = DOMAIN l /\ {"pending", "queue"} \subseteq DOMAIN l
  BY DEF Loops
<1>2. do_accept(l) = IF new.acceptor = "listening" /\ new.socket = "closed"
                     THEN [new EXCEPT !.pending = @ + 1]
                     ELSE [new EXCEPT !.queue = Append(@, "failed")]
  BY DEF do_accept
<1> HIDE DEF new
<1>3. CASE new.acceptor = "listening" /\ new.socket = "closed"
  <2>1. do_accept(l).pending = l.pending + 1
    BY <1>1, <1>2, <1>3
  <2>2. QED
    BY <1>1, <2>1
<1>4. CASE ~(new.acceptor = "listening" /\ new.socket = "closed")
  <2> DEFINE q == Append(l.queue, "failed")
  <2>1. do_accept(l).queue = q
    BY <1>1, <1>2, <1>4
  <2>2. Len(l.queue) \in Nat /\ DOMAIN q = 1 .. Len(l.queue) + 1 /\ q[Len(l.queue) + 1] = "failed"
    <3>1. q \in Seq(Queued) /\ Len(q) = Len(l.queue) + 1 /\ q[Len(q)] = "failed"
      BY <1>1, AppendProperties DEF Queued
    <3>2. QED
      BY <1>1, <3>1, LenProperties
  <2> HIDE DEF q
  <2>3. Len(l.queue) + 1 \in DOMAIN q
    BY <2>2
  <2>4. QED
    BY <2>1, <2>2, <2>3 DEF AcceptReady
<1>5. QED
  BY <1>3, <1>4

\* What becomes ready does not displace what is.
LEMMA ReadyStays ==
    ASSUME NEW q \in Seq(Queued), NEW e \in Queued
    PROVE  /\ AcceptReady(q) => AcceptReady(Append(q, e))
           /\ e \in {"ok", "failed"} => AcceptReady(Append(q, e))
<1> DEFINE r == Append(q, e)
<1>1. /\ Len(q) \in Nat /\ DOMAIN q = 1 .. Len(q) /\ DOMAIN r = 1 .. Len(q) + 1
      /\ r[Len(q) + 1] = e /\ \A i \in 1 .. Len(q) : r[i] = q[i]
  <2>1. r \in Seq(Queued) /\ Len(r) = Len(q) + 1 /\ Len(q) \in Nat /\ DOMAIN q = 1 .. Len(q)
    BY AppendProperties, LenProperties
  <2>2. DOMAIN r = 1 .. Len(q) + 1 /\ r[Len(q) + 1] = e /\ \A i \in 1 .. Len(q) : r[i] = q[i]
    BY <2>1, AppendProperties, LenProperties
  <2>3. QED
    BY <2>1, <2>2
<1> HIDE DEF r
<1>2. Len(q) + 1 \in DOMAIN r /\ \A i \in DOMAIN q : i \in DOMAIN r /\ r[i] = q[i]
  BY <1>1
<1>3. QED
  BY <1>1, <1>2 DEF AcceptReady, r

\* Starting and stopping it, and what becomes ready.
LEMMA LoopAccepts ==
    ASSUME TypeOK, WorkersInv, StartServer \/ StartServerThrows \/ StopServer \/ Posts \/ Peers
    PROVE  WorkersInv' /\ (Accepted => Accepted')
<1>1. UNCHANGED <<worker, pc, task>> /\ done'.setups = done.setups
  BY DEF StartServer, StartServerThrows, StopServer, Posts, Peers, pool, TypeOK
<1>2. WorkersInv'
  BY <1>1 DEF WorkersInv, SettingUp, TearingDown
<1> SUFFICES ASSUME Accepted PROVE Accepted'
  BY <1>2
<1>3. \A w \in Workers : Serving(w)' = Serving(w)
  BY <1>1 DEF Serving
<1>4. /\ Loop \in Loops /\ queue \in Seq(Queued) /\ pending \in Nat
  BY LoopTypes DEF TypeOK, LoopTypeOK
<1>5. CASE StartServer
  <2> DEFINE c == Closed(Loop)
             l == [c EXCEPT !.acceptor = "listening"]
  <2>1. c \in Loops
    BY <1>4, ClosedLoop
  <2> HIDE DEF c
  <2>2. l \in Loops
    BY <2>1 DEF Loops, Acceptors
  <2>3. Becomes(do_accept(l))
    BY <1>5 DEF StartServer, Start, c
  <2> HIDE DEF l
  <2>4. pending' = do_accept(l).pending /\ queue' = do_accept(l).queue
    BY <2>3 DEF Becomes
  <2>5. QED
    BY <2>2, <2>4, AcceptIsMade DEF Accepted
<1>6. CASE StopServer \/ StartServerThrows
  <2>1. Closed(Loop) \in Loops /\ Closed(Loop).acceptor = "closed"
    BY <1>4, ClosedLoop
  <2>2. acceptor' # "listening"
    BY <1>6, <2>1 DEF StopServer, Stop, StartServerThrows, StartThrows, Becomes, Loops
  <2>3. QED
    BY <2>2 DEF Accepted
<1>7. CASE Posts
  <2>1. UNCHANGED <<acceptor, pending>> /\ queue' = Append(queue, "job")
    BY <1>7 DEF Posts
  <2>2. AcceptReady(queue) => AcceptReady(queue')
    BY <1>4, <2>1, ReadyStays DEF Queued
  <2>3. QED
    BY <1>3, <2>1, <2>2 DEF Accepted
<1>8. CASE Peers
  <2>1. /\ UNCHANGED acceptor
        /\ \/ UNCHANGED <<pending, queue>>
           \/ \E e \in {"ok", "failed"} : queue' = Append(queue, e)
    BY <1>8 DEF Peers, Arrives, Accepts, AcceptFails
  <2>2. CASE UNCHANGED <<pending, queue>>
    BY <1>3, <2>1, <2>2 DEF Accepted
  <2>3. CASE \E e \in {"ok", "failed"} : queue' = Append(queue, e)
    <3>1. AcceptReady(queue')
      BY <1>4, <2>3, ReadyStays DEF Queued
    <3>2. QED
      BY <3>1 DEF Accepted
  <2>4. QED
    BY <2>1, <2>2, <2>3
<1>9. QED
  BY <1>5, <1>6, <1>7, <1>8

\* A worker: the handler of an accept makes the next one, unless on_accept_ throws.
LEMMA WorkerAccepts ==
    ASSUME TypeOK, WorkersInv, NEW w \in Workers, Ends(w) \/ Begins(w) \/ Completes(w)
    PROVE  WorkersInv' /\ ("acceptThrows" \notin app /\ Accepted => Accepted')
<1>0. /\ worker \in [Workers -> {"none", "idle", "busy", "ended"}]
      /\ task \in [Workers -> Queued \cup {"none"}]
      /\ queue \in Seq(Queued) /\ pending \in Nat /\ Loop \in Loops /\ Loop.acceptor = acceptor
  <2>1. Loop \in Loops /\ Loop.acceptor = acceptor
    BY DEF TypeOK, LoopTypeOK, Loop
  <2>2. QED
    BY <2>1, LoopTypes DEF TypeOK, PoolTypeOK
<1>1. UNCHANGED done /\ UNCHANGED pc
  BY DEF Ends, Begins, Completes, RunReturns, Takes, Finishes
<1>2. /\ \A v \in Workers : v # w => worker'[v] = worker[v] /\ task'[v] = task[v]
      /\ worker[w] \in {"idle", "busy"} /\ (worker[w] = "busy" => pc[w] = "out")
  BY <1>0 DEF Ends, Begins, Completes, RunReturns, Takes, Finishes
<1>3. WorkersInv'
  <2>1. ~TearingDown(w)
    BY <1>2 DEF WorkersInv, TearingDown
  <2>2. \A t \in Threads : ~SettingUp(t)
    BY <1>2 DEF WorkersInv
  <2>3. done.setups # 0
    BY <1>2 DEF WorkersInv
  <2>4. \A t \in Threads : SettingUp(t)' = SettingUp(t)
    BY <1>1 DEF SettingUp
  <2>5. \A v \in Workers : TearingDown(v)' = TearingDown(v)
    BY <1>1 DEF TearingDown
  <2>6. QED
    BY <1>1, <1>2, <2>1, <2>2, <2>3, <2>4, <2>5 DEF WorkersInv
<1> SUFFICES ASSUME "acceptThrows" \notin app, Accepted PROVE Accepted'
  BY <1>3
<1>4. \A v \in Workers : v # w /\ Serving(v) => Serving(v)'
  BY <1>2 DEF Serving
<1>5. CASE Ends(w)
  <2>1. UNCHANGED <<acceptor, pending, queue>> /\ ~Serving(w)
    BY <1>5 DEF Ends, RunReturns, loop, Serving
  <2>2. QED
    BY <1>4, <2>1 DEF Accepted
<1>6. CASE Begins(w)
  <2>1. /\ queue # <<>> /\ queue' = Tail(queue) /\ UNCHANGED <<acceptor, pending>> /\ ~Serving(w)
        /\ worker'[w] = "busy" /\ task'[w] = Head(queue)
    BY <1>0, <1>6 DEF Begins, Takes, Serving
  <2>2. /\ Len(queue) \in Nat /\ DOMAIN queue = 1 .. Len(queue) /\ Head(queue) = queue[1]
        /\ DOMAIN queue' = 1 .. Len(queue) - 1
        /\ \A j \in 1 .. Len(queue) - 1 : queue'[j] = queue[j + 1]
    BY <1>0, <2>1, LenProperties, HeadTailProperties
  <2>3. AcceptReady(queue) => AcceptReady(queue') \/ Serving(w)'
    <3>1. SUFFICES ASSUME NEW i \in DOMAIN queue, queue[i] \in {"ok", "failed"}
                   PROVE  AcceptReady(queue') \/ Serving(w)'
      BY DEF AcceptReady
    <3>2. CASE i = 1
      BY <2>1, <2>2, <3>1, <3>2 DEF Serving
    <3>3. CASE i # 1
      <4>1. i - 1 \in DOMAIN queue' /\ queue'[i - 1] = queue[i]
        BY <2>2, <3>3
      <4>2. QED
        BY <3>1, <4>1 DEF AcceptReady
    <3>4. QED
      BY <3>2, <3>3
  <2>4. QED
    BY <1>4, <2>1, <2>3 DEF Accepted
<1>7. CASE Completes(w)
  <2>1. CASE ~Serving(w) /\ UNCHANGED loop
    BY <1>4, <2>1 DEF Accepted, loop
  <2>2. CASE /\ task[w] \in {"ok", "failed", "aborted"}
             /\ \E accepted \in BOOLEAN : Becomes(HandleAccept(Loop, task[w], accepted))
    <3>1. PICK accepted \in BOOLEAN : Becomes(HandleAccept(Loop, task[w], accepted))
      BY <2>2
    <3>2. CASE task[w] = "aborted" \/ acceptor = "closed"
      <4>1. UNCHANGED <<acceptor, pending, queue>>
        BY <1>0, <3>1, <3>2 DEF HandleAccept, Becomes, Loop
      <4>2. acceptor = "listening" => ~Serving(w)
        BY <3>2 DEF Serving
      <4>3. QED
        BY <1>4, <4>1, <4>2 DEF Accepted
    <3>3. CASE task[w] # "aborted" /\ acceptor # "closed"
      <4> DEFINE l == IF task[w] = "ok" THEN Taken(Loop, accepted) ELSE Loop
      <4>1. l \in Loops
        BY <1>0, TakenLoop
      <4>2. Becomes(do_accept(l))
        BY <1>0, <3>1, <3>3 DEF HandleAccept
      <4> HIDE DEF l
      <4>3. pending' = do_accept(l).pending /\ queue' = do_accept(l).queue
        BY <4>2 DEF Becomes
      <4>4. QED
        BY <4>1, <4>3, AcceptIsMade DEF Accepted
    <3>4. QED
      BY <3>2, <3>3
  <2>3. QED
    BY <1>7, <2>1, <2>2 DEF Completes, Serving
<1>8. QED
  BY <1>5, <1>6, <1>7

-----------------------------------------------------------------------------
(* The theorems.                                                           *)

\* It holds when nothing has been set up or started.
LEMMA InitInv == ThreadPoolAssumption /\ Init => IInv
<1> SUFFICES ASSUME ThreadPoolAssumption, Init PROVE IInv
  OBVIOUS
<1> USE DEF Init, PoolInit, LoopInit
<1>1. PoolTypeOK /\ PoolInv
  BY DEF PoolTypeOK, PoolInv, RunningIsJoinable, OneByOne, Threads
<1>2. LoopTypeOK
  <2>1. Loop \in Loops
    BY EmptySeq DEF Loop, Loops, Acceptors
  <2>2. QED
    BY <2>1 DEF LoopTypeOK
<1>3. ServingSet = {}
  BY DEF ServingSet, Serving
<1>4. Accepting(pending, queue, ServingSet) = 0
  BY <1>3, CountEmpty, FS_EmptySet DEF Accepting
<1>5. LoopInv
  BY <1>3, <1>4 DEF LoopInv, OneLoop
<1>6. QED
  BY <1>1, <1>2, <1>5 DEF IInv, TypeOK, Queued

\* Every step of the next-state relation keeps it.
LEMMA NextInv == ThreadPoolAssumption /\ IInv /\ [Next]_vars => IInv'
<1> SUFFICES ASSUME ThreadPoolAssumption, IInv, [Next]_vars PROVE IInv'
  OBVIOUS
<1>1. CASE UNCHANGED vars
  <2>1. UNCHANGED <<app, secure, pool, loop, task, done>>
    BY <1>1 DEF vars
  <2>2. PoolTypeOK' /\ PoolInv'
    BY <2>1 DEF pool, IInv, TypeOK, PoolTypeOK, PoolInv, RunningIsJoinable, Calm, OneByOne
  <2>3. LoopTypeOK' /\ LoopInv'
    <3>1. ServingSet' = ServingSet
      BY <2>1 DEF ServingSet, Serving, pool
    <3>2. QED
      BY <2>1, <3>1, LoopUnchanged DEF IInv, TypeOK
  <2>4. QED
    BY <2>1, <2>2, <2>3 DEF IInv, TypeOK
<1>2. CASE Next
  BY <1>2, ThreadStep, LoopStep, WorkerStep DEF Next
<1>3. QED
  BY <1>1, <1>2

\* The inductive invariant: the threads are joined one by one, and the server has
\* one accept, wherever it is.
THEOREM Invariance == Spec => []IInv
<1>1. Init => IInv
  BY InitInv, ThreadPoolAssumption
<1>2. IInv /\ [Next]_vars => IInv'
  BY NextInv, ThreadPoolAssumption
<1>3. QED
  BY <1>1, <1>2, PTL DEF Spec

\* Types, for any number of workers, outside threads and peers.
THEOREM TypeCorrect == Spec => []TypeOK
<1>1. IInv => TypeOK
  BY DEF IInv
<1>2. QED
  BY <1>1, Invariance, PTL

\* When teardown() has returned no handler runs and every thread is joined.
THEOREM TearsDown == Spec => []TornDownIsQuiet
<1>1. IInv => TornDownIsQuiet
  BY DEF IInv, PoolInv, RunningIsJoinable, OneByOne, Calm, TornDownIsQuiet
<1>2. QED
  BY <1>1, Invariance, PTL

\* A server that is started once has one accept, and loses no peer.
THEOREM OneAccept == Spec => []OneAcceptLoop
<1>1. IInv => OneAcceptLoop
  BY DEF IInv, LoopInv, OneLoop, Accepting, OneAcceptLoop, Count, Places, ServingSet
<1>2. QED
  BY <1>1, Invariance, PTL

\* do_accept and on_accept: an acceptor that listens never stops accepting.  Unless on_accept_
\* threw, its next accept is under way, or has a handler that is ready or being run,
\* whatever failed, was refused, restarted, thrown by other handlers or torn down.
AcceptorGoesOn ==
    acceptor = "listening" /\ "acceptThrows" \notin app =>
        \/ pending > 0
        \/ \E i \in DOMAIN queue : queue[i] \in {"ok", "failed"}
        \/ \E w \in Workers : Serving(w)

\* The accept loop is never lost, for any number of starts, threads, peers and other
\* handlers: what PeersAreAccepted needs besides fairness.
THEOREM AcceptLoopIsKept == Spec => []AcceptorGoesOn
<1> DEFINE I == WorkersInv /\ ("acceptThrows" \notin app => Accepted)
<1>1. Init => I
  BY DEF Init, PoolInit, LoopInit, WorkersInv, SettingUp, TearingDown, Accepted, Threads
<1>2. ThreadPoolAssumption /\ IInv /\ I /\ [Next]_vars => I'
  <2> SUFFICES ASSUME ThreadPoolAssumption, IInv, I, [Next]_vars PROVE I'
    OBVIOUS
  <2>1. TypeOK
    BY DEF IInv
  <2>2. CASE UNCHANGED vars
    BY <2>2 DEF vars, pool, loop, WorkersInv, SettingUp, TearingDown, Accepted, Serving
  <2>3. ASSUME NEW t \in Threads, SetUp(t) \/ TearDown(t) \/ TearDownReturns(t) \/ Called(t),
               UNCHANGED app
        PROVE  I'
    <3>1. /\ WorkersInv' /\ UNCHANGED <<acceptor, pending, queue>>
          /\ \A w \in Workers : Serving(w) => Serving(w)'
      BY <2>1, <2>3, ServingStays DEF loop
    <3>2. QED
      BY <2>3, <3>1 DEF Accepted
  <2>4. ASSUME StartServer \/ StartServerThrows \/ StopServer \/ Posts \/ Peers, UNCHANGED app
        PROVE  I'
    BY <2>1, <2>4, LoopAccepts
  <2>5. ASSUME NEW w \in Workers, Ends(w) \/ Begins(w) \/ Completes(w), UNCHANGED app
        PROVE  I'
    BY <2>1, <2>5, WorkerAccepts
  <2>6. QED
    BY <2>2, <2>3, <2>4, <2>5 DEF Next
<1>3. I => AcceptorGoesOn
  BY DEF AcceptorGoesOn, Accepted, AcceptReady
<1>4. QED
  BY <1>1, <1>2, <1>3, Invariance, ThreadPoolAssumption, PTL DEF Spec

=============================================================================
