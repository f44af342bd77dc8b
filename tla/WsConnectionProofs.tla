--------------------------- MODULE WsConnectionProofs ---------------------------
(***************************************************************************)
(* Proofs about WsConnection: an open acceptor accepts, on_close() is      *)
(* called as often as OnCloseCount says, and no message follows it, for    *)
(* any number of connections, messages and calls of close(); and about     *)
(* WsClient, the other end: connects and reads are accounted for.          *)
(***************************************************************************)
EXTENDS WsConnection, SequenceTheorems, FunctionTheorems, FiniteSetTheorems, TLAPS

-----------------------------------------------------------------------------
(* How many elements of a queue are of a kind.                             *)

Places(S, s) == {i \in DOMAIN s : s[i] \in S}

Count(S, s) == Cardinality(Places(S, s))

\* s without its element i, as the model takes a handler out of a queue.
Without(s, i) == SubSeq(s, 1, i - 1) \o SubSeq(s, i + 1, Len(s))

\* The number is a number.
LEMMA CountType ==
    ASSUME NEW T, NEW s \in Seq(T), NEW S
    PROVE  /\ Places(S, s) \subseteq 1 .. Len(s) /\ IsFiniteSet(Places(S, s))
           /\ Count(S, s) \in Nat
<1>1. DOMAIN s = 1 .. Len(s) /\ Len(s) \in Nat
  BY LenProperties
<1>2. Places(S, s) \subseteq 1 .. Len(s)
  BY <1>1 DEF Places
<1>3. IsFiniteSet(1 .. Len(s))
  BY <1>1, FS_Interval
<1>4. IsFiniteSet(Places(S, s))
  BY <1>2, <1>3, FS_Subset
<1>5. QED
  BY <1>2, <1>4, FS_CardinalityType DEF Count

\* An empty queue holds nothing.
LEMMA CountEmpty == ASSUME NEW S PROVE Count(S, <<>>) = 0
<1>1. Places(S, <<>>) = {}
  BY DEF Places
<1>2. QED
  BY <1>1, FS_EmptySet DEF Count

\* What is appended is counted.
LEMMA CountAppend ==
    ASSUME NEW T, NEW s \in Seq(T), NEW S, NEW e \in T
    PROVE  Count(S, Append(s, e)) = Count(S, s) + IF e \in S THEN 1 ELSE 0
<1> DEFINE t == Append(s, e)  n == Len(s) + 1
<1>1. /\ DOMAIN s = 1 .. Len(s) /\ Len(s) \in Nat /\ DOMAIN t = 1 .. n
      /\ \A i \in 1 .. Len(s) : t[i] = s[i] /\ t[n] = e
  <2>1. t \in Seq(T) /\ Len(t) = n
    BY AppendProperties
  <2>2. QED
    BY <2>1, AppendProperties, LenProperties
<1> HIDE DEF t
<1>2. Places(S, t) = Places(S, s) \cup IF e \in S THEN {n} ELSE {}
  <2>1. t[n] = e
    BY AppendProperties DEF t
  <2>2. QED
    BY <1>1, <2>1 DEF Places
<1>3. IsFiniteSet(Places(S, s)) /\ n \notin Places(S, s)
  BY <1>1, CountType
<1>4. CASE e \in S
  <2>1. Places(S, t) = Places(S, s) \cup {n}
    BY <1>2, <1>4
  <2>2. QED
    BY <1>3, <1>4, <2>1, FS_AddElement DEF Count, t
<1>5. CASE e \notin S
  <2>1. Places(S, t) = Places(S, s)
    BY <1>2, <1>5
  <2>2. QED
    BY <1>5, <2>1, CountType DEF Count, t
<1>6. QED
  BY <1>4, <1>5

\* The elements that are left when one is taken out.
LEMMA WithoutProperties ==
    ASSUME NEW T, NEW s \in Seq(T), NEW i \in DOMAIN s
    PROVE  /\ Without(s, i) \in Seq(T) /\ Len(Without(s, i)) = Len(s) - 1
           /\ \A j \in 1 .. Len(s) - 1 : Without(s, i)[j] = IF j < i THEN s[j] ELSE s[j + 1]
<1>1. DOMAIN s = 1 .. Len(s) /\ Len(s) \in Nat /\ i \in 1 .. Len(s)
  BY LenProperties
<1>2. \A j \in 1 .. Len(s) : s[j] \in T
  BY ElementOfSeq
<1> DEFINE a == SubSeq(s, 1, i - 1)  b == SubSeq(s, i + 1, Len(s))
<1>3. a \in Seq(T) /\ Len(a) = i - 1 /\ \A j \in 1 .. i - 1 : a[j] = s[j]
  <2>1. \A j \in 1 .. i - 1 : s[j] \in T
    BY <1>1, <1>2
  <2>2. i - 1 \in Int /\ 1 \in Int
    BY <1>1
  <2>3. /\ a \in Seq(T) /\ Len(a) = IF 1 <= i - 1 THEN (i - 1) - 1 + 1 ELSE 0
        /\ \A j \in 1 .. (i - 1) - 1 + 1 : a[j] = s[1 + j - 1]
    BY <2>1, <2>2, SubSeqProperties
  <2> HIDE DEF a
  <2>4. \A j \in 1 .. i - 1 : 1 + j - 1 = j /\ j \in 1 .. (i - 1) - 1 + 1
    BY <1>1
  <2>5. QED
    BY <1>1, <2>3, <2>4
<1>4. /\ b \in Seq(T) /\ Len(b) = Len(s) - i
      /\ \A j \in 1 .. Len(s) - i : b[j] = s[i + j]
  <2>1. \A j \in i + 1 .. Len(s) : s[j] \in T
    BY <1>1, <1>2
  <2>2. i + 1 \in Int /\ Len(s) \in Int
    BY <1>1
  <2>3. /\ b \in Seq(T) /\ Len(b) = IF i + 1 <= Len(s) THEN Len(s) - (i + 1) + 1 ELSE 0
        /\ \A j \in 1 .. Len(s) - (i + 1) + 1 : b[j] = s[(i + 1) + j - 1]
    BY <2>1, <2>2, SubSeqProperties
  <2> HIDE DEF b
  <2>4. \A j \in 1 .. Len(s) - i : (i + 1) + j - 1 = i + j /\ j \in 1 .. Len(s) - (i + 1) + 1
    BY <1>1
  <2>5. QED
    BY SMTT(30), <1>1, <2>3, <2>4
<1>5. Without(s, i) = a \o b
  BY DEF Without
<1> HIDE DEF a, b
<1>6. /\ a \o b \in Seq(T) /\ Len(a \o b) = Len(a) + Len(b)
      /\ \A j \in 1 .. Len(a) + Len(b) : (a \o b)[j] = IF j <= Len(a) THEN a[j] ELSE b[j - Len(a)]
  BY <1>3, <1>4, ConcatProperties
<1>7. \A j \in 1 .. Len(s) - 1 : (a \o b)[j] = IF j < i THEN s[j] ELSE s[j + 1]
  <2> SUFFICES ASSUME NEW j \in 1 .. Len(s) - 1
               PROVE  (a \o b)[j] = IF j < i THEN s[j] ELSE s[j + 1]
    OBVIOUS
  <2>1. CASE j < i
    BY <1>1, <1>3, <1>4, <1>6, <2>1
  <2>2. CASE ~(j < i)
    <3>1. ~(j <= Len(a)) /\ j - Len(a) \in 1 .. Len(s) - i /\ i + (j - Len(a)) = j + 1
      BY <1>1, <1>3, <2>2
    <3>2. j \in 1 .. Len(a) + Len(b)
      BY <1>1, <1>3, <1>4
    <3>3. (a \o b)[j] = b[j - Len(a)]
      BY <1>6, <3>1, <3>2
    <3>4. b[j - Len(a)] = s[j + 1]
      BY <1>4, <3>1
    <3>5. QED
      BY <2>2, <3>3, <3>4
  <2>3. QED
    BY <2>1, <2>2
<1>8. QED
  BY <1>1, <1>3, <1>4, <1>5, <1>6, <1>7

\* What is taken out does not count any more.
LEMMA CountWithout ==
    ASSUME NEW T, NEW s \in Seq(T), NEW S, NEW i \in DOMAIN s
    PROVE  Count(S, s) = Count(S, Without(s, i)) + IF s[i] \in S THEN 1 ELSE 0
<1> DEFINE r == Without(s, i)  P == Places(S, s) \ {i}  Q == Places(S, r)
           shift == [j \in Q |-> IF j < i THEN j ELSE j + 1]
<1>1. /\ DOMAIN s = 1 .. Len(s) /\ Len(s) \in Nat /\ i \in 1 .. Len(s)
      /\ r \in Seq(T) /\ DOMAIN r = 1 .. Len(s) - 1
      /\ \A j \in 1 .. Len(s) - 1 : r[j] = IF j < i THEN s[j] ELSE s[j + 1]
  BY LenProperties, WithoutProperties
<1> HIDE DEF r
<1>2. Q \subseteq 1 .. Len(s) - 1 /\ P \subseteq (1 .. Len(s)) \ {i}
  BY <1>1 DEF Places
<1>3. shift \in [Q -> P]
  BY <1>1, <1>2 DEF Places
<1>4. \A j, k \in Q : shift[j] = shift[k] => j = k
  BY <1>1, <1>2
<1>5. \A k \in P : \E j \in Q : shift[j] = k
  <2> SUFFICES ASSUME NEW k \in P PROVE \E j \in Q : shift[j] = k
    OBVIOUS
  <2> DEFINE j == IF k < i THEN k ELSE k - 1
  <2>1. j \in Q /\ (IF j < i THEN j ELSE j + 1) = k
    BY <1>1, <1>2 DEF Places
  <2>2. QED
    BY <2>1
<1>6. ExistsBijection(Q, P)
  <2> HIDE DEF shift, P, Q
  <2>1. shift \in Bijection(Q, P)
    BY <1>3, <1>4, <1>5, Fun_IsBij
  <2>2. QED
    BY <2>1 DEF ExistsBijection
<1>7. IsFiniteSet(Places(S, s)) /\ IsFiniteSet(Q)
  BY <1>1, CountType
<1>8. Cardinality(P) = Cardinality(Q)
  BY <1>6, <1>7, FS_Bijection
<1>9. Cardinality(P) = IF i \in Places(S, s) THEN Cardinality(Places(S, s)) - 1
                       ELSE Cardinality(Places(S, s))
  BY <1>7, FS_RemoveElement
<1>10. i \in Places(S, s) <=> s[i] \in S
  BY DEF Places
<1>11. Count(S, s) \in Nat /\ Count(S, r) = Cardinality(Q)
  BY CountType DEF Count
<1>12. QED
  BY <1>8, <1>9, <1>10, <1>11 DEF Count, r

-----------------------------------------------------------------------------
(* The invariant.                                                          *)

Operations == {"message", "readFailed", "written", "writeFailed", "closed"}

Connections ==
    [stage : {"none", "tls", "upgrade", "accepting", "open", "gone"},
     told : BOOLEAN, held : BOOLEAN, stream : {"open", "closed"},
     reading : BOOLEAN, writing : BOOLEAN, closing : Nat, done : Seq(Operations),
     was_closed : BOOLEAN, messages : Nat, closes : Nat, asyncCloses : Nat]

Servers ==
    [alive : BOOLEAN, acceptor : {"closed", "open", "listening"}, starts : Nat, failed : BOOLEAN]

TypeOK ==
    /\ server \in Servers
    /\ accepts \in [pending : Nat, ready : Nat, aborted : Nat, failed : Nat]
    /\ conn \in [Conns -> Connections]

\* The read loop: one read, or its result, or none when it has ended.
Loop(q) == (IF q.reading THEN 1 ELSE 0) + Count({"message", "readFailed"}, q.done)

\* The closes that are under way or done, but not yet handled.
Closings(q) == q.closing + Count({"closed"}, q.done)

\* on_close() was called, or will be, by the end of the read loop and by each
\* close; n of these calls are due in this step.
Accounts(q, n) ==
    /\ Loop(q) \in {0, 1}
    /\ q.closes + Loop(q) + Closings(q) + n = 1 + q.asyncCloses
    /\ Closings(q) <= q.asyncCloses
    /\ q.was_closed <=> Closings(q) < q.asyncCloses

Ending == {"readFailed", "closed"}

\* on_close() and what leads to it come after the stream has ended; with one
\* thread, after the messages.
Quiet(q) ==
    /\ q.stream = "open" => q.closes = 0 /\ \A i \in DOMAIN q.done : q.done[i] \notin Ending
    /\ "threads" \notin app =>
          \A i \in DOMAIN q.done :
              q.done[i] = "message" =>
                  q.closes = 0 /\ \A j \in DOMAIN q.done : j < i => q.done[j] \notin Ending

Live(q) == q \in Connections /\ q.stage = "open" /\ q.told /\ Accounts(q, 0) /\ Quiet(q)

Fits(q) ==
    /\ q.stage \in {"none", "tls", "upgrade", "accepting"} =>
          q = [NewConnection EXCEPT !.stage = q.stage]
    /\ q.stage = "open" => Live(q)
    /\ q.stage = "gone" /\ q.told =>
          q.closes = IF q.asyncCloses = 0 THEN 2 ELSE 1 + q.asyncCloses

IInv ==
    /\ TypeOK
    /\ server.acceptor # "closed" => server.alive
    /\ OpenAcceptorAccepts
    /\ \A c \in Conns : Fits(conn[c])

-----------------------------------------------------------------------------
(* What the operations on a connection make of it.                         *)

\* The types of the fields.
LEMMA FieldTypes ==
    ASSUME NEW q \in Connections
    PROVE  /\ q.closing \in Nat /\ q.closes \in Nat /\ q.asyncCloses \in Nat /\ q.messages \in Nat
           /\ q.done \in Seq(Operations) /\ DOMAIN q.done = 1 .. Len(q.done) /\ Len(q.done) \in Nat
           /\ \A i \in DOMAIN q.done : q.done[i] \in Operations
           /\ Loop(q) \in Nat /\ Closings(q) \in Nat
<1>1. /\ q.closing \in Nat /\ q.closes \in Nat /\ q.asyncCloses \in Nat /\ q.messages \in Nat
      /\ q.done \in Seq(Operations)
  BY DEF Connections
<1>2. DOMAIN q.done = 1 .. Len(q.done) /\ Len(q.done) \in Nat
  BY <1>1, LenProperties
<1>3. \A i \in DOMAIN q.done : q.done[i] \in Operations
  BY <1>1, <1>2, ElementOfSeq
<1>4. Count({"message", "readFailed"}, q.done) \in Nat /\ Count({"closed"}, q.done) \in Nat
  BY <1>1, CountType
<1>5. Loop(q) \in Nat
  BY <1>4 DEF Loop
<1>6. Closings(q) \in Nat
  BY <1>1, <1>4 DEF Closings
<1>7. QED
  BY <1>1, <1>2, <1>3, <1>5, <1>6

\* A connection is destroyed when nothing is under way: then on_close() was called
\* for the end of the loop and for each close, or is called now.
LEMMA KeptOrDestroyed ==
    ASSUME NEW q, Live(q)
    PROVE  Fits(IF Kept(q) THEN q ELSE Destroyed(q)) /\ (IF Kept(q) THEN q ELSE Destroyed(q)) \in Connections
<1>1. CASE Kept(q)
  BY <1>1 DEF Fits, Live
<1>2. CASE ~Kept(q)
  <2> DEFINE d == Destroyed(q)
  <2>1. q \in Connections /\ q.stage = "open"
    BY DEF Live
  <2>2. ~q.reading /\ ~q.writing /\ ~(q.closing > 0) /\ q.done = <<>>
    BY <1>2 DEF Kept
  <2>3. Loop(q) = 0
    BY <2>2, CountEmpty DEF Loop
  <2>4. Closings(q) = 0
    BY <2>1, <2>2, CountEmpty, FieldTypes DEF Closings
  <2>5. q.closes = 1 + q.asyncCloses /\ (q.was_closed <=> 0 < q.asyncCloses)
    BY <2>1, <2>3, <2>4, FieldTypes DEF Live, Accounts
  <2> DEFINE n == IF q.was_closed THEN q.closes ELSE q.closes + 1
  <2>6. d = [q EXCEPT !.stage = "gone", !.was_closed = TRUE, !.closes = n] /\ n \in Nat
    BY <2>1, FieldTypes DEF Destroyed, Connections
  <2>7. d \in Connections /\ d.stage = "gone" /\ d.asyncCloses = q.asyncCloses /\ d.closes = n
    <3> HIDE DEF n, d
    <3>1. QED
      BY <2>1, <2>6 DEF Connections
  <2>8. d.closes = IF d.asyncCloses = 0 THEN 2 ELSE 1 + d.asyncCloses
    <3>1. q.asyncCloses \in Nat
      BY <2>1, FieldTypes
    <3>2. CASE q.was_closed
      BY <2>5, <2>7, <3>1, <3>2
    <3>3. CASE ~q.was_closed
      BY <2>5, <2>7, <3>1, <3>3
    <3>4. QED
      BY <3>2, <3>3
  <2>9. QED
    BY <1>2, <2>7, <2>8 DEF Fits
<1>3. QED
  BY <1>1, <1>2

\* close() adds one close, unless one has ended.
LEMMA ClosingAccounts ==
    ASSUME NEW q \in Connections, Accounts(q, 0)
    PROVE  /\ Closing(q) \in Connections /\ Accounts(Closing(q), 0)
           /\ Closing(q).stage = q.stage /\ Closing(q).told = q.told
           /\ Closing(q).closes = q.closes /\ Closing(q).done = q.done
           /\ Closing(q).stream = q.stream /\ Closing(q).reading = q.reading
<1>1. CASE q.was_closed
  BY <1>1 DEF Closing
<1>2. CASE ~q.was_closed
  <2> DEFINE r == Closing(q)
  <2>1. r = [q EXCEPT !.closing = @ + 1, !.asyncCloses = @ + 1]
    BY <1>2 DEF Closing
  <2>2. /\ r \in Connections /\ r.closing = q.closing + 1 /\ r.asyncCloses = q.asyncCloses + 1
        /\ r.stage = q.stage /\ r.told = q.told /\ r.closes = q.closes /\ r.done = q.done
        /\ r.stream = q.stream /\ r.reading = q.reading /\ r.was_closed = q.was_closed
    <3>1. q.closing + 1 \in Nat /\ q.asyncCloses + 1 \in Nat
      BY FieldTypes
    <3>2. QED
      BY <2>1, <3>1 DEF Connections
  <2> HIDE DEF r
  <2>3. Loop(r) = Loop(q)
    BY <2>2 DEF Loop
  <2>4. Closings(r) = Closings(q) + 1
    BY <2>2, FieldTypes, CountType DEF Closings
  <2>5. Accounts(r, 0)
    <3>1. Closings(q) = q.asyncCloses /\ Closings(q) \in Nat
      BY <1>2, FieldTypes DEF Accounts
    <3>2. ~r.was_closed /\ ~(Closings(r) < r.asyncCloses)
      BY <1>2, <2>2, <2>4, <3>1
    <3>3. r.closes + Loop(r) + Closings(r) + 0 = 1 + r.asyncCloses /\ Closings(r) <= r.asyncCloses
      <4>1. q.closes + Loop(q) + Closings(q) + 0 = 1 + q.asyncCloses /\ Closings(q) <= q.asyncCloses
        BY DEF Accounts
      <4>2. q.closes \in Nat /\ Loop(q) \in Nat /\ Closings(q) \in Nat /\ q.asyncCloses \in Nat
        BY FieldTypes
      <4>3. r.closes = q.closes /\ r.asyncCloses = q.asyncCloses + 1
        BY <2>2
      <4>4. QED
        BY <2>3, <2>4, <4>1, <4>2, <4>3
    <3>4. QED
      BY <2>3, <3>2, <3>3 DEF Accounts
  <2>6. QED
    BY <2>2, <2>5 DEF r
<1>3. QED
  BY <1>1, <1>2

\* on_close() is the call that was due.
LEMMA OnCloseAccounts ==
    ASSUME NEW q \in Connections, Accounts(q, 1), NEW keeps \in BOOLEAN
    PROVE  /\ OnClose(q, keeps) \in Connections /\ Accounts(OnClose(q, keeps), 0)
           /\ OnClose(q, keeps).stage = q.stage /\ OnClose(q, keeps).told = q.told
           /\ OnClose(q, keeps).done = q.done /\ OnClose(q, keeps).stream = q.stream
           /\ OnClose(q, keeps).reading = q.reading
<1> DEFINE r == [q EXCEPT !.closes = @ + 1, !.held = @ /\ keeps]
<1>1. /\ r.closing = q.closing /\ r.asyncCloses = q.asyncCloses /\ r.closes = q.closes + 1
      /\ r.stage = q.stage /\ r.told = q.told /\ r.done = q.done
      /\ r.stream = q.stream /\ r.reading = q.reading /\ r.was_closed = q.was_closed
  BY DEF Connections
<1>2. r \in Connections
  <2>1. (q.held /\ keeps) \in BOOLEAN
    OBVIOUS
  <2>2. q.closes + 1 \in Nat
    BY FieldTypes
  <2>3. QED
    BY <2>1, <2>2 DEF Connections
<1> HIDE DEF r
<1>3. Loop(r) = Loop(q) /\ Closings(r) = Closings(q)
  BY <1>1 DEF Loop, Closings
<1>4. Accounts(r, 0)
  <2>1. r.closes + Loop(r) + Closings(r) + 0 = 1 + r.asyncCloses
    BY <1>1, <1>3, FieldTypes DEF Accounts
  <2>2. QED
    BY <1>1, <1>3, <2>1 DEF Accounts
<1>5. OnClose(q, keeps) = IF "closesOnClose" \in app THEN Closing(r) ELSE r
  BY DEF OnClose, r
<1>6. CASE "closesOnClose" \in app
  BY <1>1, <1>2, <1>4, <1>5, <1>6, ClosingAccounts
<1>7. CASE "closesOnClose" \notin app
  BY <1>1, <1>2, <1>4, <1>5, <1>7
<1>8. QED
  BY <1>6, <1>7

\* A result is queued: it takes the place of the operation.
LEMMA Completed ==
    ASSUME NEW q, Live(q), NEW what \in Operations, NEW r \in Connections,
           r.stage = "open", r.told, r.closes = q.closes, r.stream = q.stream,
           r.asyncCloses = q.asyncCloses, r.was_closed = q.was_closed,
           r.done = Append(q.done, what),
           r.reading <=> q.reading /\ what \notin {"message", "readFailed"},
           what \in {"message", "readFailed"} => q.reading,
           r.closing = IF what = "closed" THEN q.closing - 1 ELSE q.closing,
           what \in {"message", "written"} => q.stream = "open",
           what \in Ending => q.stream = "closed"
    PROVE  Live(r)
<1>1. q \in Connections /\ q.stage = "open" /\ Accounts(q, 0) /\ Quiet(q)
  BY DEF Live
<1>2. /\ q.done \in Seq(Operations) /\ DOMAIN q.done = 1 .. Len(q.done) /\ Len(q.done) \in Nat
      /\ DOMAIN r.done = 1 .. Len(q.done) + 1
      /\ \A i \in 1 .. Len(q.done) : r.done[i] = q.done[i]
      /\ r.done[Len(q.done) + 1] = what
  BY <1>1, FieldTypes, AppendProperties
<1>3. Loop(r) = Loop(q)
  <2> DEFINE S == {"message", "readFailed"}
  <2>1. Count(S, r.done) = Count(S, q.done) + IF what \in S THEN 1 ELSE 0
    BY <1>2, CountAppend
  <2>2. Count(S, q.done) \in Nat
    BY <1>2, CountType
  <2>3. CASE what \in S
    BY <2>1, <2>2, <2>3 DEF Loop
  <2>4. CASE what \notin S
    BY <2>1, <2>2, <2>4 DEF Loop
  <2>5. QED
    BY <2>3, <2>4
<1>4. Closings(r) = Closings(q)
  <2>1. Count({"closed"}, r.done) = Count({"closed"}, q.done) + IF what = "closed" THEN 1 ELSE 0
    BY <1>2, CountAppend
  <2>2. Count({"closed"}, q.done) \in Nat /\ q.closing \in Nat
    BY <1>1, <1>2, CountType, FieldTypes
  <2>3. QED
    BY <2>1, <2>2 DEF Closings
<1>5. Accounts(r, 0)
  BY <1>1, <1>3, <1>4 DEF Accounts
<1>6. Quiet(r)
  <2>1. q.stream = "open" => q.closes = 0 /\ \A i \in DOMAIN q.done : q.done[i] \notin Ending
    BY <1>1 DEF Quiet
  <2>2. r.stream = "open" => r.closes = 0 /\ \A i \in DOMAIN r.done : r.done[i] \notin Ending
    BY <1>2, <2>1
  <2>3. ASSUME "threads" \notin app, NEW i \in DOMAIN r.done, r.done[i] = "message"
        PROVE  r.closes = 0 /\ \A j \in DOMAIN r.done : j < i => r.done[j] \notin Ending
    <3>1. CASE i \in 1 .. Len(q.done)
      BY <1>1, <1>2, <2>3, <3>1 DEF Quiet
    <3>2. CASE i = Len(q.done) + 1
      BY <1>2, <2>1, <2>2, <2>3, <3>2
    <3>3. QED
      BY <1>2, <3>1, <3>2
  <2>4. QED
    BY <2>2, <2>3 DEF Quiet
<1>7. QED
  BY <1>5, <1>6 DEF Live

\* A handler is taken out of the queue: no message is left behind an end.
LEMMA QuietWithout ==
    ASSUME NEW q, Live(q), NEW i \in DOMAIN q.done, i = 1 \/ "threads" \in app, NEW t,
           t.done = Without(q.done, i), t.stream = q.stream,
           q.done[i] \notin Ending => t.closes = q.closes
    PROVE  Quiet(t)
<1>1. /\ q.done \in Seq(Operations) /\ DOMAIN q.done = 1 .. Len(q.done) /\ Len(q.done) \in Nat
      /\ Quiet(q)
  BY FieldTypes DEF Live
<1>2. /\ DOMAIN t.done = 1 .. Len(q.done) - 1
      /\ \A j \in 1 .. Len(q.done) - 1 : t.done[j] = IF j < i THEN q.done[j] ELSE q.done[j + 1]
  <2>1. /\ t.done \in Seq(Operations) /\ Len(t.done) = Len(q.done) - 1
        /\ \A j \in 1 .. Len(q.done) - 1 : t.done[j] = IF j < i THEN q.done[j] ELSE q.done[j + 1]
    BY <1>1, WithoutProperties
  <2>2. QED
    BY <2>1, LenProperties
<1>3. t.stream = "open" => t.closes = 0 /\ \A j \in DOMAIN t.done : t.done[j] \notin Ending
  <2> SUFFICES ASSUME t.stream = "open"
               PROVE  t.closes = 0 /\ \A j \in DOMAIN t.done : t.done[j] \notin Ending
    OBVIOUS
  <2>1. q.closes = 0 /\ \A j \in DOMAIN q.done : q.done[j] \notin Ending
    BY <1>1 DEF Quiet
  <2>2. \A j \in 1 .. Len(q.done) - 1 : j \in DOMAIN q.done /\ j + 1 \in DOMAIN q.done
    BY <1>1
  <2>3. QED
    BY <1>2, <2>1, <2>2
<1>4. ASSUME "threads" \notin app, NEW k \in DOMAIN t.done, t.done[k] = "message"
      PROVE  t.closes = 0 /\ \A j \in DOMAIN t.done : j < k => t.done[j] \notin Ending
  <2>1. i = 1 /\ \A j \in 1 .. Len(q.done) - 1 : t.done[j] = q.done[j + 1] /\ j + 1 \in DOMAIN q.done
    BY <1>1, <1>2, <1>4
  <2>2. q.done[k + 1] = "message" /\ k + 1 \in DOMAIN q.done /\ 1 < k + 1
    BY <1>2, <1>4, <2>1
  <2>3. q.closes = 0 /\ \A j \in DOMAIN q.done : j < k + 1 => q.done[j] \notin Ending
    BY <1>1, <1>4, <2>2 DEF Quiet
  <2>4. q.done[1] \notin Ending
    BY <2>1, <2>2, <2>3
  <2>5. \A j \in DOMAIN t.done : j < k => j + 1 < k + 1
    BY <1>2, <1>4
  <2>6. QED
    BY <1>2, <2>1, <2>3, <2>4, <2>5
<1>5. QED
  BY <1>3, <1>4 DEF Quiet

\* A handler of on_read, on_write or async_close runs: the read goes on, or
\* on_close() is called.
LEMMA HandledLives ==
    ASSUME NEW q, Live(q), NEW i \in DOMAIN q.done, i = 1 \/ "threads" \in app,
           NEW keeps \in BOOLEAN
    PROVE  Live(Handled([q EXCEPT !.done = Without(q.done, i)], q.done[i], keeps))
<1> DEFINE what == q.done[i]
           r == [q EXCEPT !.done = Without(q.done, i)]
           t == Handled(r, what, keeps)
<1> SUFFICES Live(t)
  OBVIOUS
<1>1. /\ q \in Connections /\ q.stage = "open" /\ q.told /\ Accounts(q, 0)
      /\ q.done \in Seq(Operations) /\ what \in Operations
      /\ q.closes \in Nat /\ q.closing \in Nat /\ q.asyncCloses \in Nat
      /\ Loop(q) \in Nat /\ Closings(q) \in Nat
  BY FieldTypes DEF Live
<1>2. /\ r \in Connections /\ r.stage = "open" /\ r.told /\ r.done = Without(q.done, i)
      /\ r.closes = q.closes /\ r.asyncCloses = q.asyncCloses /\ r.was_closed = q.was_closed
      /\ r.reading = q.reading /\ r.closing = q.closing /\ r.stream = q.stream
  <2>1. Without(q.done, i) \in Seq(Operations)
    BY <1>1, WithoutProperties
  <2>2. QED
    BY <1>1, <2>1 DEF Connections
<1>3. Loop(q) = Loop(r) + IF what \in {"message", "readFailed"} THEN 1 ELSE 0
  <2> DEFINE S == {"message", "readFailed"}
  <2>1. Count(S, q.done) = Count(S, r.done) + IF what \in S THEN 1 ELSE 0
    BY <1>1, <1>2, CountWithout
  <2>2. Count(S, r.done) \in Nat
    BY <1>2, FieldTypes, CountType
  <2>3. CASE what \in S
    BY <1>2, <2>1, <2>2, <2>3 DEF Loop
  <2>4. CASE what \notin S
    BY <1>2, <2>1, <2>2, <2>4 DEF Loop
  <2>5. QED
    BY <2>3, <2>4
<1>4. Closings(q) = Closings(r) + IF what = "closed" THEN 1 ELSE 0
  <2>1. Count({"closed"}, q.done) = Count({"closed"}, r.done) + IF what = "closed" THEN 1 ELSE 0
    BY <1>1, <1>2, CountWithout
  <2>2. Count({"closed"}, r.done) \in Nat
    BY <1>2, FieldTypes, CountType
  <2>3. QED
    BY <1>1, <1>2, <2>1, <2>2 DEF Closings
<1>5. Loop(r) \in Nat /\ Closings(r) \in Nat
  BY <1>2, FieldTypes
<1> HIDE DEF r, what
<1>6. CASE what = "message"
  <2>1. t = [r EXCEPT !.reading = TRUE]
    BY <1>6 DEF Handled
  <2>2. /\ t \in Connections /\ t.stage = "open" /\ t.told /\ t.done = r.done
        /\ t.closes = r.closes /\ t.asyncCloses = r.asyncCloses /\ t.was_closed = r.was_closed
        /\ t.closing = r.closing /\ t.stream = r.stream /\ t.reading
    BY <1>2, <2>1 DEF Connections
  <2> HIDE DEF t
  <2>3. Loop(r) = 0 /\ Loop(q) = 1
    BY <1>1, <1>3, <1>5, <1>6 DEF Accounts
  <2>4. Count({"message", "readFailed"}, r.done) = 0
    BY <1>2, <2>3, FieldTypes, CountType DEF Loop
  <2>5. Loop(t) = 1
    BY <2>2, <2>4 DEF Loop
  <2>6. Closings(t) = Closings(q)
    BY <1>4, <1>5, <1>6, <2>2 DEF Closings
  <2>7. Accounts(t, 0)
    BY <1>1, <1>2, <2>2, <2>3, <2>5, <2>6 DEF Accounts
  <2>8. Quiet(t)
    BY <1>2, <1>6, <2>2, QuietWithout DEF what
  <2>9. QED
    BY <2>2, <2>7, <2>8 DEF Live
<1>7. CASE what = "readFailed"
  <2>1. t = OnClose(r, keeps)
    BY <1>7 DEF Handled
  <2>2. Loop(r) = 0 /\ Loop(q) = 1 /\ Closings(r) = Closings(q)
    BY <1>1, <1>3, <1>4, <1>5, <1>7 DEF Accounts
  <2>3. Accounts(r, 1)
    <3>1. r.closes + Loop(r) + Closings(r) + 1 = 1 + r.asyncCloses
      BY <1>1, <1>2, <2>2 DEF Accounts
    <3>2. QED
      BY <1>1, <1>2, <2>2, <3>1 DEF Accounts
  <2> HIDE DEF t
  <2>4. /\ t \in Connections /\ Accounts(t, 0) /\ t.stage = r.stage /\ t.told = r.told
        /\ t.done = r.done /\ t.stream = r.stream
    BY <1>2, <2>1, <2>3, OnCloseAccounts, Zenon
  <2>5. Quiet(t)
    BY <1>2, <1>7, <2>4, QuietWithout DEF what, Ending
  <2>6. QED
    BY <1>2, <2>4, <2>5 DEF Live
<1>8. CASE what = "closed"
  <2> DEFINE u == [r EXCEPT !.was_closed = TRUE]
  <2>1. t = OnClose(u, keeps)
    BY <1>8 DEF Handled
  <2>2. /\ u \in Connections /\ u.stage = "open" /\ u.told /\ u.done = r.done
        /\ u.closes = r.closes /\ u.asyncCloses = r.asyncCloses /\ u.was_closed
        /\ u.closing = r.closing /\ u.stream = r.stream /\ u.reading = r.reading
    BY <1>2 DEF Connections
  <2> HIDE DEF u
  <2>3. Loop(u) = Loop(r) /\ Closings(u) = Closings(r)
    BY <2>2 DEF Loop, Closings
  <2>4. Loop(r) = Loop(q) /\ Closings(q) = Closings(r) + 1
    BY <1>3, <1>4, <1>5, <1>8
  <2>5. Accounts(u, 1)
    <3>1. Loop(q) \in {0, 1} /\ q.closes + Loop(q) + Closings(q) + 0 = 1 + q.asyncCloses
          /\ Closings(q) <= q.asyncCloses
      BY <1>1 DEF Accounts
    <3>2. u.closes = q.closes /\ u.asyncCloses = q.asyncCloses
      BY <1>2, <2>2
    <3>3. u.closes + Loop(u) + Closings(u) + 1 = 1 + u.asyncCloses
      <4>1. q.closes \in Nat /\ q.asyncCloses \in Nat
        BY <1>1
      <4>2. QED
        BY <1>5, <2>3, <2>4, <3>1, <3>2, <4>1
    <3>4. Closings(u) < u.asyncCloses /\ Closings(u) <= u.asyncCloses
      BY <1>1, <1>5, <2>3, <2>4, <3>1, <3>2
    <3>5. QED
      BY <2>2, <2>3, <2>4, <3>1, <3>3, <3>4 DEF Accounts
  <2> HIDE DEF t
  <2>6. /\ t \in Connections /\ Accounts(t, 0) /\ t.stage = u.stage /\ t.told = u.told
        /\ t.done = u.done /\ t.stream = u.stream
    BY <2>1, <2>2, <2>5, OnCloseAccounts, Zenon
  <2>7. Quiet(t)
    BY <1>2, <1>8, <2>2, <2>6, QuietWithout DEF what, Ending
  <2>8. QED
    BY <2>2, <2>6, <2>7 DEF Live
<1>9. CASE what \in {"written", "writeFailed"}
  <2>1. t = r
    BY <1>9 DEF Handled
  <2>2. Loop(r) = Loop(q) /\ Closings(r) = Closings(q)
    BY <1>3, <1>4, <1>5, <1>9
  <2>3. Accounts(r, 0)
    BY <1>1, <1>2, <2>2 DEF Accounts
  <2>4. Quiet(r)
    BY <1>2, QuietWithout
  <2>5. QED
    BY <1>2, <2>1, <2>3, <2>4 DEF Live
<1>10. QED
  BY <1>1, <1>6, <1>7, <1>8, <1>9 DEF Operations

-----------------------------------------------------------------------------
(* Every step keeps the inductive invariant.                               *)

\* A step of one connection.
LEMMA ChangeStep ==
    ASSUME IInv, UNCHANGED app, NEW c \in Conns, NEW q, Live(q), Change(c, q)
    PROVE  IInv'
<1> DEFINE r == IF Kept(q) THEN q ELSE Destroyed(q)
<1>1. Fits(r) /\ r \in Connections
  BY KeptOrDestroyed
<1> HIDE DEF r
<1>2. conn' = [conn EXCEPT ![c] = r] /\ UNCHANGED <<server, accepts>>
  BY DEF Change, r
<1>3. TypeOK'
  BY <1>1, <1>2 DEF IInv, TypeOK
<1>4. (server.acceptor # "closed" => server.alive)' /\ OpenAcceptorAccepts'
  BY <1>2 DEF IInv, OpenAcceptorAccepts
<1>5. ASSUME NEW d \in Conns PROVE Fits(conn[d])'
  <2>1. conn'[d] = IF d = c THEN r ELSE conn[d]
    BY <1>2 DEF IInv, TypeOK
  <2>2. Fits(conn'[d])
    BY <1>1, <2>1 DEF IInv
  <2>3. QED
    BY <2>2 DEF Fits, Live, Quiet
<1>6. QED
  BY <1>3, <1>4, <1>5 DEF IInv

\* The accept loop: an acceptor that listens accepts, whatever was queued when it
\* was started or closed, until an accept fails.
LEMMA ServerStep ==
    ASSUME IInv, UNCHANGED app,
           \/ Start \/ StartThrows \/ Stop \/ DestroyServer
           \/ AcceptCompletes \/ HandleAcceptThrows \/ HandleAcceptError
    PROVE  IInv'
<1> USE DEF IInv, TypeOK, Aborted
<1>1. /\ server.starts \in Nat /\ accepts.pending \in Nat /\ accepts.ready \in Nat
      /\ accepts.aborted \in Nat /\ accepts.failed \in Nat
      /\ server \in Servers
  BY DEF Servers
<1>2. UNCHANGED conn
  BY DEF Start, StartThrows, Stop, DestroyServer, AcceptCompletes, HandleAcceptThrows,
     HandleAcceptError
<1>3. \A c \in Conns : Fits(conn[c])'
  BY <1>2 DEF Fits, Live, Quiet
<1>4. TypeOK'
  <2>1. server' \in Servers
    <3>1. server.starts + 1 \in Nat
      BY <1>1
    <3>2. CASE Start
      BY <3>1, <3>2 DEF Start, Servers
    <3>3. CASE StartThrows \/ Stop \/ DestroyServer
      BY <3>3 DEF StartThrows, Stop, DestroyServer, Servers
    <3>4. CASE AcceptCompletes \/ HandleAcceptThrows \/ HandleAcceptError
      BY <3>4 DEF AcceptCompletes, HandleAcceptThrows, HandleAcceptError, Servers
    <3>5. QED
      BY <3>2, <3>3, <3>4
  <2>2. accepts' \in [pending : Nat, ready : Nat, aborted : Nat, failed : Nat]
    <3>1. Aborted \in [pending : Nat, ready : Nat, aborted : Nat, failed : Nat]
      <4>1. accepts.aborted + accepts.pending \in Nat
        BY <1>1
      <4>2. QED
        BY <4>1
    <3>2. CASE Start \/ StartThrows \/ Stop \/ DestroyServer
      <4> HIDE DEF Aborted
      <4>1. QED
        BY <3>1, <3>2 DEF Start, StartThrows, Stop, DestroyServer
    <3>3. CASE AcceptCompletes
      <4>1. accepts.pending - 1 \in Nat /\ accepts.ready + 1 \in Nat /\ accepts.failed + 1 \in Nat
        BY <1>1, <3>3 DEF AcceptCompletes
      <4>2. QED
        BY <3>3, <4>1 DEF AcceptCompletes
    <3>4. CASE HandleAcceptError
      <4>1. accepts.aborted > 0 => accepts.aborted - 1 \in Nat
        BY <1>1
      <4>2. accepts.failed > 0 => accepts.failed - 1 \in Nat
        BY <1>1
      <4>3. QED
        BY <3>4, <4>1, <4>2 DEF HandleAcceptError
    <3>5. CASE HandleAcceptThrows
      <4>1. accepts.ready - 1 \in Nat
        BY <1>1, <3>5 DEF HandleAcceptThrows
      <4>2. QED
        BY <3>5, <4>1 DEF HandleAcceptThrows
    <3>6. QED
      BY <3>2, <3>3, <3>4, <3>5
  <2>3. QED
    BY <1>2, <2>1, <2>2
<1>5. (server.acceptor # "closed" => server.alive)'
  BY <1>1 DEF Start, StartThrows, Stop, DestroyServer, AcceptCompletes, HandleAcceptThrows,
     HandleAcceptError, Servers
<1>6. OpenAcceptorAccepts'
  <2>1. CASE Start
    BY <1>1, <2>1 DEF Start, OpenAcceptorAccepts
  <2>2. CASE StartThrows \/ Stop \/ DestroyServer
    BY <1>1, <2>2 DEF StartThrows, Stop, DestroyServer, OpenAcceptorAccepts, Servers
  <2>3. CASE AcceptCompletes
    BY <1>1, <2>3 DEF AcceptCompletes, OpenAcceptorAccepts
  <2>4. CASE HandleAcceptThrows \/ HandleAcceptError
    BY <1>1, <2>4 DEF HandleAcceptThrows, HandleAcceptError, OpenAcceptorAccepts, Servers
  <2>5. QED
    BY <2>1, <2>2, <2>3, <2>4
<1>7. QED
  BY <1>3, <1>4, <1>5, <1>6

\* A connection that is not told of yet, or not any more, fits.
LEMMA NewFits ==
    ASSUME NEW s \in {"none", "tls", "upgrade", "accepting", "gone"}
    PROVE  /\ [NewConnection EXCEPT !.stage = s] \in Connections
           /\ Fits([NewConnection EXCEPT !.stage = s])
BY EmptySeq DEF NewConnection, Connections, Fits

\* One connection becomes r, and nothing else changes.
LEMMA BecomesStep ==
    ASSUME IInv, UNCHANGED <<app, server, accepts>>, NEW c \in Conns, NEW r \in Connections, Fits(r),
           conn' = [conn EXCEPT ![c] = r]
    PROVE  IInv'
<1>1. TypeOK' /\ (server.acceptor # "closed" => server.alive)' /\ OpenAcceptorAccepts'
  BY DEF IInv, TypeOK, OpenAcceptorAccepts
<1>2. ASSUME NEW d \in Conns PROVE Fits(conn[d])'
  <2>1. Fits(conn'[d])
    BY DEF IInv, TypeOK
  <2>2. QED
    BY <2>1 DEF Fits, Live, Quiet
<1>3. QED
  BY <1>1, <1>2 DEF IInv

\* The next accept is made, by an acceptor that is still open.
LEMMA HandleAcceptStep ==
    ASSUME IInv, UNCHANGED app, NEW c \in Conns, HandleAccept(c)
    PROVE  IInv'
<1>1. /\ accepts.pending \in Nat /\ accepts.ready \in Nat \ {0}
      /\ accepts.aborted \in Nat /\ accepts.failed \in Nat
  BY DEF HandleAccept, IInv, TypeOK
<1>2. Accepted \in Connections /\ Fits(Accepted)
  BY NewFits DEF Accepted
<1>3. UNCHANGED server /\ conn' \in {conn, [conn EXCEPT ![c] = Accepted]}
  BY DEF HandleAccept
<1>4. /\ accepts' \in [pending : Nat, ready : Nat, aborted : Nat, failed : Nat]
      /\ server.alive /\ server.acceptor # "closed" => accepts'.pending > 0
  <2>1. /\ accepts.pending + 1 \in Nat /\ accepts.pending + 1 > 0
        /\ accepts.ready - 1 \in Nat /\ accepts.aborted + 1 \in Nat
    BY <1>1
  <2>2. \/ /\ server.alive /\ server.acceptor # "closed"
           /\ accepts' = [accepts EXCEPT !.ready = @ - 1, !.pending = @ + 1]
        \/ accepts' = [accepts EXCEPT !.ready = @ - 1, !.aborted = @ + 1] /\ server.acceptor = "closed"
        \/ accepts' = [accepts EXCEPT !.ready = @ - 1] /\ ~server.alive
    BY DEF HandleAccept
  <2>3. accepts \in [pending : Nat, ready : Nat, aborted : Nat, failed : Nat]
    BY DEF IInv, TypeOK
  <2>4. QED
    BY <2>1, <2>2, <2>3
<1>5. TypeOK'
  BY <1>2, <1>3, <1>4 DEF IInv, TypeOK
<1>6. (server.acceptor # "closed" => server.alive)' /\ OpenAcceptorAccepts'
  <2>1. accepts'.ready \in Nat /\ accepts'.pending \in Nat /\ accepts'.failed \in Nat
    BY <1>4
  <2>2. QED
    BY <1>3, <1>4, <2>1 DEF IInv, OpenAcceptorAccepts
<1>7. ASSUME NEW d \in Conns PROVE Fits(conn[d])'
  <2>1. Fits(conn'[d])
    BY <1>2, <1>3 DEF IInv, TypeOK
  <2>2. QED
    BY <2>1 DEF Fits, Live, Quiet
<1>8. QED
  BY <1>5, <1>6, <1>7 DEF IInv

\* The handshake and the upgrade.
LEMMA ProtoStep ==
    ASSUME IInv, UNCHANGED app, NEW c \in Conns, HandleHandshake(c) \/ HandleUpgrade(c)
    PROVE  IInv'
<1>1. PICK s \in {"upgrade", "accepting", "gone"} :
          conn' = [conn EXCEPT ![c] = [NewConnection EXCEPT !.stage = s]]
  <2>1. PICK s \in {"upgrade", "accepting", "gone"} : conn' = [conn EXCEPT ![c].stage = s]
    BY DEF HandleHandshake, HandleUpgrade
  <2>2. conn[c] = [NewConnection EXCEPT !.stage = conn[c].stage]
    BY DEF HandleHandshake, HandleUpgrade, IInv, Fits
  <2>3. [conn[c] EXCEPT !.stage = s] = [NewConnection EXCEPT !.stage = s]
    BY <2>2 DEF NewConnection
  <2>4. conn' = [conn EXCEPT ![c] = [conn[c] EXCEPT !.stage = s]]
    BY <2>1
  <2>5. QED
    BY <2>3, <2>4
<1>2. UNCHANGED <<server, accepts>>
  BY DEF HandleHandshake, HandleUpgrade
<1>3. QED
  BY <1>1, <1>2, NewFits, BecomesStep

\* on_accept: the connection is refused, or its read loop begins.
LEMMA HandleAcceptedStep ==
    ASSUME IInv, UNCHANGED app, NEW c \in Conns, HandleAccepted(c)
    PROVE  IInv'
<1> DEFINE q == [NewConnection EXCEPT !.stage = "accepting"]
           refused == Destroyed([q EXCEPT !.stream = "closed"])
           open(keeps) == [q EXCEPT !.stage = "open", !.told = TRUE, !.held = keeps, !.reading = TRUE]
<1>1. conn[c] = q
  BY DEF HandleAccepted, IInv, Fits
<1>2. \/ Change(c, refused)
      \/ \E keeps \in BOOLEAN : Change(c, open(keeps))
  BY <1>1 DEF HandleAccepted
<1>3. CASE Change(c, refused)
  <2>1. /\ ~Kept(refused) /\ Destroyed(refused) \in Connections
        /\ Destroyed(refused).stage = "gone" /\ ~Destroyed(refused).told
    <3> DEFINE u == [q EXCEPT !.stream = "closed"]
               v == [u EXCEPT !.stage = "gone", !.was_closed = TRUE, !.closes = 1]
    <3>1. /\ u \in Connections /\ ~u.was_closed /\ u.closes = 0
          /\ ~u.held /\ ~u.reading /\ ~u.writing /\ u.closing = 0 /\ u.done = <<>> /\ ~u.told
      BY EmptySeq DEF NewConnection, Connections
    <3>2. refused = Destroyed(u)
      OBVIOUS
    <3> HIDE DEF u, refused
    <3>3. refused = v
      <4>1. u.closes + 1 = 1
        BY <3>1
      <4>2. QED
        BY <3>1, <3>2, <4>1 DEF Destroyed
    <3>4. /\ v \in Connections /\ v.was_closed /\ v.closes = 1 /\ v.stage = "gone" /\ ~v.told
          /\ ~v.held /\ ~v.reading /\ ~v.writing /\ v.closing = 0 /\ v.done = <<>>
      BY <3>1 DEF Connections
    <3> HIDE DEF v
    <3>5. ~Kept(v)
      BY <3>4 DEF Kept
    <3>6. Destroyed(v) = [v EXCEPT !.stage = "gone", !.was_closed = TRUE, !.closes = 1]
      BY <3>4 DEF Destroyed
    <3>7. QED
      BY <3>3, <3>4, <3>5, <3>6 DEF Connections
  <2> HIDE DEF refused
  <2>2. Fits(Destroyed(refused))
    BY <2>1 DEF Fits
  <2>3. conn' = [conn EXCEPT ![c] = Destroyed(refused)] /\ UNCHANGED <<server, accepts>>
    BY <1>3, <2>1 DEF Change
  <2>4. QED
    BY <2>1, <2>2, <2>3, BecomesStep
<1>4. ASSUME NEW keeps \in BOOLEAN, Change(c, open(keeps)) PROVE IInv'
  <2> DEFINE r == open(keeps)
  <2>1. /\ r \in Connections /\ r.stage = "open" /\ r.told /\ r.reading /\ r.done = <<>>
        /\ r.closing = 0 /\ r.closes = 0 /\ r.asyncCloses = 0 /\ ~r.was_closed
    BY EmptySeq DEF NewConnection, Connections
  <2> HIDE DEF r
  <2>2. Loop(r) = 1 /\ Closings(r) = 0
    BY <2>1, CountEmpty DEF Loop, Closings
  <2>3. Accounts(r, 0)
    BY <2>1, <2>2 DEF Accounts
  <2>4. Quiet(r)
    BY <2>1 DEF Quiet
  <2>5. QED
    BY <1>4, <2>1, <2>3, <2>4, ChangeStep DEF Live, r
<1>5. QED
  BY <1>2, <1>3, <1>4

\* What the application and the peer do to an open connection, and the results
\* of its operations.
LEMMA OpenStep ==
    ASSUME IInv, UNCHANGED app, NEW c \in Conns,
           \/ Close(c) \/ Write(c) \/ Drop(c) \/ Receives(c) \/ WriteCompletes(c)
           \/ StreamEnds(c) \/ OperationFails(c)
    PROVE  IInv'
<1> DEFINE q == conn[c]
<1>1. Live(q) /\ q \in Connections /\ q.stage = "open" /\ q.told /\ Accounts(q, 0) /\ Quiet(q)
  BY DEF Close, Write, Drop, Receives, WriteCompletes, StreamEnds, OperationFails, Open,
         IInv, Fits, Live
<1>2. ASSUME NEW r \in Connections, r.stage = "open", r.told, r.done = q.done,
             r.closes = q.closes, r.closing = q.closing, r.asyncCloses = q.asyncCloses,
             r.was_closed = q.was_closed, r.reading = q.reading,
             r.stream = "open" => q.stream = "open"
      PROVE  Live(r)
  <2>1. Loop(r) = Loop(q) /\ Closings(r) = Closings(q)
    BY <1>2 DEF Loop, Closings
  <2>2. Accounts(r, 0)
    BY <1>1, <1>2, <2>1 DEF Accounts
  <2>3. Quiet(r)
    BY <1>1, <1>2 DEF Quiet
  <2>4. QED
    BY <1>2, <2>2, <2>3 DEF Live
<1>3. CASE Close(c)
  <2>1. Accounts(Closing(q), 0) /\ Closing(q) \in Connections
        /\ Closing(q).stage = "open" /\ Closing(q).told
    BY <1>1, ClosingAccounts
  <2>2. Quiet(Closing(q))
    BY <1>1, ClosingAccounts DEF Quiet
  <2>3. QED
    BY <1>3, <2>1, <2>2, ChangeStep DEF Close, Live
<1>4. CASE Write(c)
  <2> DEFINE r == [q EXCEPT !.writing = TRUE]
  <2>1. Live(r)
    BY <1>1, <1>2 DEF Connections
  <2>2. QED
    BY <1>4, <2>1, ChangeStep DEF Write
<1>5. CASE Drop(c)
  <2> DEFINE r == [q EXCEPT !.held = FALSE]
  <2>1. Live(r)
    BY <1>1, <1>2 DEF Connections
  <2>2. QED
    BY <1>5, <2>1, ChangeStep DEF Drop
<1>6. CASE StreamEnds(c)
  <2> DEFINE r == [q EXCEPT !.stream = "closed"]
  <2>1. Live(r)
    BY <1>1, <1>2 DEF Connections
  <2>2. QED
    BY <1>6, <2>1, ChangeStep DEF StreamEnds
<1>7. CASE Receives(c)
  <2> DEFINE r == [q EXCEPT !.reading = FALSE, !.messages = @ + 1, !.done = Append(@, "message")]
  <2>1. q.messages + 1 \in Nat /\ Append(q.done, "message") \in Seq(Operations)
    BY <1>1, FieldTypes, AppendProperties DEF Operations
  <2>2. q.reading /\ q.stream = "open"
    BY <1>7 DEF Receives
  <2>3. /\ r \in Connections /\ r.stage = "open" /\ r.told /\ r.closes = q.closes /\ r.stream = q.stream
        /\ r.asyncCloses = q.asyncCloses /\ r.was_closed = q.was_closed
        /\ r.done = Append(q.done, "message") /\ ~r.reading /\ r.closing = q.closing
    BY <1>1, <2>1 DEF Connections
  <2> HIDE DEF r
  <2>4. Live(r)
    BY <1>1, <2>2, <2>3, Completed DEF Operations, Ending
  <2>5. QED
    BY <1>7, <2>4, ChangeStep DEF Receives, r
<1>8. CASE WriteCompletes(c)
  <2> DEFINE r == [q EXCEPT !.writing = FALSE, !.done = Append(@, "written")]
  <2>1. Append(q.done, "written") \in Seq(Operations)
    BY <1>1, FieldTypes, AppendProperties DEF Operations
  <2>2. Live(r)
    BY ZenonT(40), <1>1, <1>8, <2>1, Completed DEF Connections, WriteCompletes, Operations, Ending
  <2>3. QED
    BY <1>8, <2>2, ChangeStep DEF WriteCompletes
<1>9. CASE OperationFails(c)
  <2>1. q.stream = "closed"
    BY <1>9 DEF OperationFails
  <2>2. \A what \in Operations : Append(q.done, what) \in Seq(Operations)
    BY <1>1, FieldTypes, AppendProperties
  <2>3. CASE q.reading /\ Change(c, [q EXCEPT !.reading = FALSE, !.done = Append(@, "readFailed")])
    <3> DEFINE r == [q EXCEPT !.reading = FALSE, !.done = Append(@, "readFailed")]
    <3>1. Append(q.done, "readFailed") \in Seq(Operations)
      BY <2>2 DEF Operations
    <3>2. /\ r \in Connections /\ r.stage = "open" /\ r.told /\ r.closes = q.closes /\ r.stream = q.stream
          /\ r.asyncCloses = q.asyncCloses /\ r.was_closed = q.was_closed
          /\ r.done = Append(q.done, "readFailed") /\ ~r.reading /\ r.closing = q.closing
      BY <1>1, <3>1 DEF Connections
    <3> HIDE DEF r
    <3>3. Live(r)
      BY <1>1, <2>1, <2>3, <3>2, Completed DEF Operations, Ending
    <3>4. QED
      BY <2>3, <3>3, ChangeStep DEF r
  <2>4. CASE Change(c, [q EXCEPT !.writing = FALSE, !.done = Append(@, "writeFailed")])
    <3>1. Live([q EXCEPT !.writing = FALSE, !.done = Append(@, "writeFailed")])
      BY ZenonT(40), <1>1, <2>1, <2>2, Completed DEF Connections, Operations, Ending
    <3>2. QED
      BY <2>4, <3>1, ChangeStep
  <2>5. CASE q.closing > 0 /\ Change(c, [q EXCEPT !.closing = @ - 1, !.done = Append(@, "closed")])
    <3>1. q.closing - 1 \in Nat
      BY <1>1, <2>5, FieldTypes
    <3>2. Live([q EXCEPT !.closing = @ - 1, !.done = Append(@, "closed")])
      BY ZenonT(40), <1>1, <2>1, <2>2, <3>1, Completed DEF Connections, Operations, Ending
    <3>3. QED
      BY <2>5, <3>2, ChangeStep
  <2>6. QED
    BY <1>9, <2>3, <2>4, <2>5 DEF OperationFails
<1>10. QED
  BY <1>3, <1>4, <1>5, <1>6, <1>7, <1>8, <1>9

\* A handler runs.
LEMMA HandleStep ==
    ASSUME IInv, UNCHANGED app, NEW c \in Conns, Handle(c)
    PROVE  IInv'
<1>1. Live(conn[c])
  BY DEF Handle, Open, IInv, Fits
<1>2. PICK i \in DOMAIN conn[c].done, keeps \in BOOLEAN :
          Runs(c, i) /\ Change(c, Handled([conn[c] EXCEPT !.done = Without(@, i)], conn[c].done[i], keeps))
  BY DEF Handle, Without
<1>3. Live(Handled([conn[c] EXCEPT !.done = Without(@, i)], conn[c].done[i], keeps))
  BY <1>1, <1>2, HandledLives DEF Runs
<1>4. QED
  BY <1>2, <1>3, ChangeStep

-----------------------------------------------------------------------------
(* The theorems.                                                           *)

\* The invariant holds at first.
LEMMA InitInv == Init => IInv
<1> SUFFICES ASSUME Init PROVE IInv
  OBVIOUS
<1>1. NewConnection = [NewConnection EXCEPT !.stage = "none"]
  BY DEF NewConnection
<1>2. NewConnection \in Connections /\ Fits(NewConnection)
  BY <1>1, NewFits
<1>3. TypeOK
  BY <1>2 DEF Init, TypeOK, NewServer, Servers
<1>4. QED
  BY <1>2, <1>3 DEF Init, IInv, OpenAcceptorAccepts, NewServer

\* Every step keeps it.
LEMMA NextInv == IInv /\ [Next]_vars => IInv'
<1> SUFFICES ASSUME IInv, [Next]_vars PROVE IInv'
  OBVIOUS
<1>1. CASE UNCHANGED vars
  BY <1>1 DEF vars, state, IInv, TypeOK, OpenAcceptorAccepts, Fits, Live, Quiet
<1>2. CASE Next
  BY <1>2, ServerStep, HandleAcceptStep, ProtoStep, HandleAcceptedStep, HandleStep, OpenStep
     DEF Next, Server, Handlers
<1>3. QED
  BY <1>1, <1>2

\* The inductive invariant: every call of on_close() is accounted for.
THEOREM Invariance == Spec => []IInv
BY InitInv, NextInv, PTL DEF Spec

\* Types, for any number of connections: operations under way and queued handlers are
\* what the stages of a connection have.
THEOREM TypeCorrect == Spec => []TypeOK
<1>1. IInv => TypeOK
  BY DEF IInv
<1>2. QED
  BY <1>1, Invariance, PTL

\* An acceptor that listens goes on accepting until an accept fails.
THEOREM AcceptorAccepts == Spec => []OpenAcceptorAccepts
<1>1. IInv => OpenAcceptorAccepts
  BY DEF IInv
<1>2. QED
  BY <1>1, Invariance, PTL

\* The greater of 1 and a number.
LEMMA MaxWithOne == ASSUME NEW n \in Nat PROVE Max({1, n}) = IF n = 0 THEN 1 ELSE n
<1> DEFINE m == IF n = 0 THEN 1 ELSE n
<1>1. m \in {1, n} /\ \A y \in {1, n} : m >= y
  OBVIOUS
<1>2. \A x \in {1, n} : (\A y \in {1, n} : x >= y) => x = m
  OBVIOUS
<1>3. QED
  BY <1>1, <1>2 DEF Max

\* on_close() is called once by the read loop and once by whatever closes.
THEOREM OnCloseCounted == Spec => []OnCloseCount
<1>1. ASSUME IInv PROVE OnCloseCount
  <2> SUFFICES ASSUME NEW c \in Conns, conn[c].told
               PROVE  /\ conn[c].closes <= 1 + Max({1, conn[c].asyncCloses})
                      /\ conn[c].stage = "gone" => conn[c].closes = 1 + Max({1, conn[c].asyncCloses})
    BY DEF OnCloseCount
  <2> DEFINE q == conn[c]
  <2>1. q \in Connections /\ Fits(q)
    BY <1>1 DEF IInv, TypeOK
  <2>2. q.stage \in {"open", "gone"}
    <3>1. q.stage \in {"none", "tls", "upgrade", "accepting"} => ~q.told
      BY <2>1 DEF Fits, NewConnection
    <3>2. QED
      BY <2>1, <3>1 DEF Connections
  <2>3. q.closes \in Nat /\ q.asyncCloses \in Nat /\ Loop(q) \in Nat /\ Closings(q) \in Nat
    BY <2>1, FieldTypes
  <2>4. Max({1, q.asyncCloses}) = IF q.asyncCloses = 0 THEN 1 ELSE q.asyncCloses
    BY <2>3, MaxWithOne
  <2>5. CASE q.stage = "open"
    <3>1. q.closes + Loop(q) + Closings(q) + 0 = 1 + q.asyncCloses
      BY <2>1, <2>5 DEF Fits, Live, Accounts
    <3>2. QED
      BY <2>3, <2>4, <2>5, <3>1
  <2>6. CASE q.stage = "gone"
    <3>1. q.closes = IF q.asyncCloses = 0 THEN 2 ELSE 1 + q.asyncCloses
      BY <2>1, <2>6 DEF Fits
    <3>2. QED
      BY <2>3, <2>4, <2>6, <3>1
  <2>7. QED
    BY <2>2, <2>5, <2>6
<1>2. QED
  BY <1>1, Invariance, PTL

\* No read begins after on_close(), when one thread runs the handlers.
THEOREM NothingReadAfterClose == Spec => QuietAfterClose
<1> DEFINE P == \A c \in Conns :
                    "threads" \notin app /\ conn'[c].reading /\ ~conn[c].reading => conn[c].closes = 0
<1>1. ASSUME IInv, [Next]_vars PROVE [P]_vars
  <2> SUFFICES ASSUME Next, NEW c \in Conns, "threads" \notin app,
                      conn'[c].reading, ~conn[c].reading
               PROVE  conn[c].closes = 0
    BY <1>1
  <2>1. conn \in [Conns -> Connections] /\ Fits(conn[c])
    BY <1>1 DEF IInv, TypeOK
  <2>2. ASSUME NEW d \in Conns, NEW q, Change(d, q), d = c => conn[c].closes = 0 \/ (q.reading => conn[c].reading)
        PROVE  conn[c].closes = 0
    <3>1. conn'[c] = IF c = d THEN IF Kept(q) THEN q ELSE Destroyed(q) ELSE conn[c]
      BY <2>1, <2>2 DEF Change
    <3>2. Kept(q) \/ ~q.reading
      BY DEF Kept
    <3>3. conn'[c].reading => c = d /\ q.reading
      BY <3>1, <3>2 DEF Destroyed
    <3>4. QED
      BY <2>2, <3>3
  <2>3. CASE \E d \in Conns : HandleAccept(d) \/ HandleHandshake(d) \/ HandleUpgrade(d)
    <3> PICK d \in Conns : HandleAccept(d) \/ HandleHandshake(d) \/ HandleUpgrade(d)
      BY <2>3
    <3>1. CASE HandleAccept(d)
      BY <2>1, <3>1 DEF HandleAccept, Accepted, NewConnection
    <3>2. CASE HandleHandshake(d) \/ HandleUpgrade(d)
      <4>1. PICK s : conn' = [conn EXCEPT ![d].stage = s]
        BY <3>2 DEF HandleHandshake, HandleUpgrade
      <4>2. conn'[c].reading = conn[c].reading
        BY <2>1, <4>1 DEF Connections
      <4>3. QED
        BY <4>2
    <3>3. QED
      BY <3>1, <3>2
  <2>4. ASSUME NEW d \in Conns, HandleAccepted(d) PROVE conn[c].closes = 0
    <3>1. d = c => conn[c].closes = 0
      BY <2>1, <2>4 DEF HandleAccepted, Fits, NewConnection
    <3>2. QED
      BY <2>2, <2>4, <3>1 DEF HandleAccepted
  <2>5. ASSUME NEW d \in Conns,
               \/ Close(d) \/ Write(d) \/ Drop(d) \/ Receives(d) \/ WriteCompletes(d)
               \/ StreamEnds(d) \/ OperationFails(d)
        PROVE  conn[c].closes = 0
    BY <2>1, <2>2, <2>5 DEF Close, Write, Drop, Receives, WriteCompletes, StreamEnds, OperationFails,
       Closing, Connections
  <2>6. ASSUME NEW d \in Conns, Handle(d) PROVE conn[c].closes = 0
    <3>1. PICK i \in DOMAIN conn[d].done, keeps \in BOOLEAN :
              Runs(d, i) /\ Change(d, Handled([conn[d] EXCEPT !.done = Without(@, i)], conn[d].done[i], keeps))
      BY <2>6 DEF Handle, Without
    <3>2. CASE conn[d].done[i] = "message"
      <4>1. i = 1 /\ Live(conn[d])
        BY <1>1, <2>6, <3>1 DEF Runs, Handle, Open, IInv, Fits
      <4>2. conn[d].closes = 0
        BY <3>2, <4>1 DEF Live, Quiet
      <4>3. QED
        BY <2>2, <3>1, <4>2
    <3>3. CASE conn[d].done[i] # "message"
      <4> DEFINE r == [conn[d] EXCEPT !.done = Without(@, i)]
      <4>1. Handled(r, conn[d].done[i], keeps).reading => conn[d].reading
        BY <3>3 DEF Handled, OnClose, Closing
      <4>2. QED
        BY <2>2, <3>1, <4>1
    <3>4. QED
      BY <3>2, <3>3
  <2>7. CASE UNCHANGED conn
    BY <2>7
  <2>8. QED
    BY <2>3, <2>4, <2>5, <2>6, <2>7
       DEF Next, Server, Handlers, Start, StartThrows, Stop, DestroyServer, AcceptCompletes,
           HandleAcceptThrows, HandleAcceptError
<1>2. QED
  BY <1>1, Invariance, PTL DEF Spec, QuietAfterClose

-----------------------------------------------------------------------------
(* What there is of EndIsTold without fairness.                            *)

\* The end of no connection is forgotten: when one that was told of has no operation under
\* way and no handler queued, on_close() was called, and it is destroyed unless the
\* application keeps it.
EndIsNotForgotten ==
    \A c \in Conns :
        LET q == conn[c]
        IN q.told /\ ~q.reading /\ ~q.writing /\ q.closing = 0 /\ q.done = <<>> =>
               q.closes > 0 /\ (q.held \/ q.stage = "gone")

\* A connection is destroyed in the step that leaves it to nobody.
OpenIsKept == \A c \in Conns : conn[c].stage = "open" => Kept(conn[c])

\* What a step makes of one connection is kept, or not open.
LEMMA KeptStep ==
    ASSUME TypeOK, OpenIsKept, NEW c \in Conns, NEW q, q.stage = "open" => Kept(q),
           conn' = [conn EXCEPT ![c] = q]
    PROVE  OpenIsKept'
<1> SUFFICES ASSUME NEW d \in Conns, conn'[d].stage = "open" PROVE Kept(conn'[d])
  BY DEF OpenIsKept, Kept
<1>1. conn'[d] = IF d = c THEN q ELSE conn[d]
  BY DEF TypeOK
<1>2. QED
  BY <1>1 DEF OpenIsKept

\* A step that changes an open connection destroys it if nobody keeps it.
LEMMA ChangeKeeps ==
    ASSUME TypeOK, OpenIsKept, NEW c \in Conns, NEW q, "stage" \in DOMAIN q, Change(c, q)
    PROVE  OpenIsKept'
<1> DEFINE r == IF Kept(q) THEN q ELSE Destroyed(q)
<1>1. conn' = [conn EXCEPT ![c] = r]
  BY DEF Change
<1>2. r.stage = "open" => Kept(r)
  <2>1. CASE Kept(q)
    BY <2>1
  <2>2. CASE ~Kept(q)
    <3>1. r = Destroyed(q)
      BY <2>2
    <3>2. QED
      BY <3>1 DEF Destroyed
  <2>3. QED
    BY <2>1, <2>2
<1> HIDE DEF r
<1>3. QED
  BY <1>1, <1>2, KeptStep

\* Every step keeps that.
LEMMA OpenIsKeptStep == TypeOK /\ OpenIsKept /\ [Next]_vars => OpenIsKept'
<1> SUFFICES ASSUME TypeOK, OpenIsKept, [Next]_vars PROVE OpenIsKept'
  OBVIOUS
<1>1. CASE UNCHANGED conn
  BY <1>1 DEF OpenIsKept, Kept
<1>2. ASSUME NEW c \in Conns, HandleAccept(c) PROVE OpenIsKept'
  <2>1. CASE conn' = [conn EXCEPT ![c] = Accepted]
    <3>1. Accepted.stage # "open"
      BY DEF Accepted, NewConnection
    <3>2. QED
      BY <2>1, <3>1, KeptStep
  <2>2. QED
    BY <1>1, <1>2, <2>1 DEF HandleAccept
<1>3. ASSUME NEW c \in Conns, HandleHandshake(c) \/ HandleUpgrade(c) PROVE OpenIsKept'
  <2>1. PICK s \in {"upgrade", "accepting", "gone"} : conn' = [conn EXCEPT ![c].stage = s]
    BY <1>3 DEF HandleHandshake, HandleUpgrade
  <2> DEFINE r == [conn[c] EXCEPT !.stage = s]
  <2>2. r.stage # "open"
    BY DEF TypeOK, Connections
  <2>3. conn' = [conn EXCEPT ![c] = r]
    BY <2>1
  <2> HIDE DEF r
  <2>4. QED
    BY <2>2, <2>3, KeptStep
<1>4. ASSUME NEW c \in Conns, NEW q, "stage" \in DOMAIN q, Change(c, q) PROVE OpenIsKept'
  BY <1>4, ChangeKeeps
<1>5. ASSUME NEW c \in Conns,
             \/ HandleAccepted(c) \/ Handle(c) \/ Close(c) \/ Write(c) \/ Drop(c)
             \/ Receives(c) \/ WriteCompletes(c) \/ StreamEnds(c) \/ OperationFails(c)
      PROVE  \E q : "stage" \in DOMAIN q /\ Change(c, q)
  <2> DEFINE q == conn[c]
  <2>1. "stage" \in DOMAIN q
    BY DEF TypeOK, Connections
  <2>2. CASE Handle(c)
    <3>1. PICK i \in DOMAIN q.done, keeps \in BOOLEAN :
              Change(c, Handled([q EXCEPT !.done = Without(@, i)], q.done[i], keeps))
      BY <2>2 DEF Handle, Without
    <3>2. DOMAIN Handled([q EXCEPT !.done = Without(@, i)], q.done[i], keeps) = DOMAIN q
      BY DEF Handled, OnClose, Closing
    <3>3. QED
      BY <2>1, <3>1, <3>2
  <2>3. CASE HandleAccepted(c)
    <3>1. DOMAIN Destroyed([q EXCEPT !.stream = "closed"]) = DOMAIN q
      BY DEF Destroyed
    <3>2. \/ Change(c, Destroyed([q EXCEPT !.stream = "closed"]))
          \/ \E keeps \in BOOLEAN :
                 Change(c, [q EXCEPT !.stage = "open", !.told = TRUE, !.held = keeps,
                                     !.reading = TRUE])
      BY <2>3 DEF HandleAccepted
    <3>3. QED
      BY <2>1, <3>1, <3>2
  <2>4. CASE OperationFails(c)
    BY <2>1, <2>4 DEF OperationFails
  <2>5. CASE Close(c)
    <3>1. DOMAIN Closing(q) = DOMAIN q
      BY DEF Closing
    <3>2. QED
      BY <2>1, <2>5, <3>1 DEF Close
  <2>6. QED
    BY <1>5, <2>1, <2>2, <2>3, <2>4, <2>5
       DEF Write, Drop, Receives, WriteCompletes, StreamEnds
<1>6. QED
  BY <1>1, <1>2, <1>3, <1>4, <1>5
     DEF Next, Server, Handlers, vars, state, Start, StartThrows, Stop, DestroyServer,
         AcceptCompletes, HandleAcceptThrows, HandleAcceptError

\* The end of every connection is told, or something is under way that will tell it: for any
\* number of messages, writes and closes, and every application.
THEOREM NoEndForgotten == Spec => []EndIsNotForgotten
<1>1. Init => OpenIsKept
  BY DEF Init, OpenIsKept, NewConnection
<1>2. IInv => TypeOK
  BY DEF IInv
<1>3. Spec => []OpenIsKept
  BY <1>1, <1>2, Invariance, OpenIsKeptStep, PTL DEF Spec
<1>4. ASSUME IInv, OpenIsKept PROVE EndIsNotForgotten
  <2> SUFFICES ASSUME NEW c \in Conns, conn[c].told, ~conn[c].reading, ~conn[c].writing,
                      conn[c].closing = 0, conn[c].done = <<>>
               PROVE  conn[c].closes > 0 /\ (conn[c].held \/ conn[c].stage = "gone")
    BY DEF EndIsNotForgotten
  <2> DEFINE q == conn[c]
  <2>1. q \in Connections /\ Fits(q) /\ (q.stage = "open" => Kept(q))
    BY <1>4 DEF IInv, TypeOK, OpenIsKept
  <2>2. q.asyncCloses \in Nat /\ q.closes \in Nat
    BY <2>1, FieldTypes
  <2>3. q.stage \in {"open", "gone"}
    <3>1. q.stage \in {"none", "tls", "upgrade", "accepting"} => ~q.told
      BY <2>1 DEF Fits, NewConnection
    <3>2. QED
      BY <2>1, <3>1 DEF Connections
  <2>4. CASE q.stage = "open"
    <3>1. Loop(q) = 0 /\ Closings(q) = 0
      BY CountEmpty DEF Loop, Closings
    <3>2. q.closes = 1 + q.asyncCloses
      BY <2>1, <2>2, <2>4, <3>1 DEF Fits, Live, Accounts
    <3>3. q.held
      BY <2>1, <2>4 DEF Kept
    <3>4. QED
      BY <2>2, <3>2, <3>3
  <2>5. CASE q.stage = "gone"
    <3>1. q.closes = IF q.asyncCloses = 0 THEN 2 ELSE 1 + q.asyncCloses
      BY <2>1, <2>5 DEF Fits
    <3>2. QED
      BY <2>2, <2>5, <3>1
  <2>6. QED
    BY <2>3, <2>4, <2>5
<1>5. QED
  BY <1>3, <1>4, Invariance, PTL

-----------------------------------------------------------------------------
(* The websocket client.  Its variables are its own; of its constants and  *)
(* variables those that the server has too are renamed.                    *)

CONSTANTS MaxConnects, MaxListens, ClientMessages, ClientEnv

VARIABLES clientApp, secure, alive, stage, link, deadline, timeouts, read, calls

Client == INSTANCE WsClient
    WITH app <- clientApp, MaxMessages <- ClientMessages, Env <- ClientEnv

InConnect(who) == stage[who] \in {"connecting", "tls", "upgrade"}

Connects == InConnect("caller") \/ InConnect("handler")

Listens == read # "none"

ClientTypes ==
    /\ alive \in BOOLEAN
    /\ stage \in [{"caller", "handler"} -> {"idle", "connecting", "tls", "upgrade", "closing"}]
    /\ link \in [tcp : {"none", "connecting", "up", "down"}, ws : {"closed", "open", "closing"},
                 wire : Seq({"message", "close"}), hung : BOOLEAN]
    /\ read \in {"none", "pending", "message", "failed"}
    /\ calls \in [asked : Nat, answered : Nat, listens : Nat, ends : Nat]

\* Only a client that is connected anew while it reads has a read that may take
\* from the new connection what the old one was asked for.
ReadsInTurn == "reconnectsReading" \notin clientApp

\* Where the two threads can be, and what that means for connection and read.
ClientPlaces ==
    /\ stage["handler"] # "closing"
    /\ stage["caller"] = "idle" \/ stage["handler"] = "idle"
    /\ Connects => link.ws = "closed"
    /\ link.ws = "closing" => stage["caller"] = "closing"
    /\ ReadsInTurn /\ Connects => read \in {"none", "failed"}
    /\ ~alive => ~InConnect("caller")
    /\ ReadsInTurn /\ ~alive /\ link.ws = "open" =>
          /\ stage["handler"] = "idle" /\ stage["caller"] = "idle"
          /\ read \in {"none", "failed"}

\* connect() and connect_sync(): a call is answered, or one thread is on the way to answer it.
ConnectIsAccounted == calls.asked = calls.answered + IF Connects THEN 1 ELSE 0

\* listen(): of each the end was told, or it has its read.
ListenIsAccounted == calls.ends + (IF Listens THEN 1 ELSE 0) = calls.listens

\* ~client_base: a client that was destroyed is left with no open websocket, except for the
\* moment until on_read has run for a read that failed before.
DestroyedIsNotOpen ==
    ReadsInTurn /\ ~alive /\ Client!Connected /\ link.ws = "open" =>
        read = "failed" /\ stage = [t \in Client!Threads |-> "idle"]

ClientInv == ClientTypes /\ ClientPlaces /\ ConnectIsAccounted /\ ListenIsAccounted

\* The stages of two threads after one has moved.
LEMMA Moves ==
    ASSUME ClientTypes, NEW who \in {"caller", "handler"},
           NEW where \in {"idle", "connecting", "tls", "upgrade", "closing"}, Client!At(who, where)
    PROVE  /\ stage' \in [{"caller", "handler"} -> {"idle", "connecting", "tls", "upgrade", "closing"}]
           /\ stage'[who] = where
           /\ \A t \in {"caller", "handler"} : t # who => stage'[t] = stage[t]
BY DEF ClientTypes, Client!At

\* The fields of a connection that is closed down.
LEMMA DownLink ==
    ASSUME ClientTypes
    PROVE  /\ Client!Down(link).ws = "closed"
           /\ Client!Down(link) \in [tcp : {"none", "connecting", "up", "down"},
                                     ws : {"closed", "open", "closing"},
                                     wire : Seq({"message", "close"}), hung : BOOLEAN]
BY DEF ClientTypes, Client!Down

\* The counters of calls.
LEMMA CallTypes ==
    ASSUME ClientTypes
    PROVE  calls.asked \in Nat /\ calls.answered \in Nat /\ calls.listens \in Nat /\ calls.ends \in Nat
BY DEF ClientTypes

\* A connect begins: it is answered at once, or a thread goes on with it.
LEMMA ConnectStep ==
    ASSUME ClientInv, UNCHANGED clientApp, NEW who \in {"caller", "handler"}, Client!Connect(who)
    PROVE  ClientInv'
<1>1. ClientTypes /\ ClientPlaces /\ ConnectIsAccounted /\ ListenIsAccounted
  BY DEF ClientInv
<1>2. /\ alive /\ stage["caller"] = "idle" /\ stage["handler"] = "idle" /\ link.ws = "closed"
      /\ (ReadsInTurn => read = "none") /\ alive' = alive /\ ~Connects
      /\ (ReadsInTurn <=> ReadsInTurn')
  BY DEF Client!Connect, Client!Threads, ReadsInTurn, Connects, InConnect
<1>3. CASE /\ calls' = [calls EXCEPT !.asked = @ + 1, !.answered = @ + 1]
           /\ UNCHANGED <<stage, link, deadline, read>>
  <2>1. /\ calls' \in [asked : Nat, answered : Nat, listens : Nat, ends : Nat]
        /\ calls'.asked = calls.asked + 1 /\ calls'.answered = calls.answered + 1
        /\ calls'.listens = calls.listens /\ calls'.ends = calls.ends
    <3>1. PICK a \in Nat, b \in Nat : a = calls.asked + 1 /\ b = calls.answered + 1
      BY <1>1, CallTypes
    <3>2. calls' = [calls EXCEPT !.asked = a, !.answered = b]
      BY <1>3, <3>1
    <3>3. calls' \in [asked : Nat, answered : Nat, listens : Nat, ends : Nat]
      BY <1>1, <3>2 DEF ClientTypes
    <3>4. QED
      BY <1>1, <3>1, <3>2, <3>3 DEF ClientTypes
  <2>2. ClientTypes' /\ ClientPlaces' /\ (Connects <=> Connects')
    BY <1>1, <1>2, <1>3, <2>1 DEF ClientTypes, ClientPlaces, Connects, InConnect
  <2>3. ListenIsAccounted'
    BY <1>1, <1>3, <2>1 DEF ListenIsAccounted, Listens
  <2>4. ConnectIsAccounted'
    <3>1. calls.asked = calls.answered + 0
      BY <1>1, <1>2 DEF ConnectIsAccounted
    <3>2. calls'.asked = calls'.answered + 0
      BY <1>1, <2>1, <3>1, CallTypes
    <3>3. QED
      BY <1>2, <2>2, <3>2 DEF ConnectIsAccounted
  <2>5. QED
    BY <2>2, <2>3, <2>4 DEF ClientInv
<1>4. CASE /\ Client!At(who, "connecting")
           /\ calls' = [calls EXCEPT !.asked = @ + 1]
           /\ link' = [Client!NewLink EXCEPT !.tcp = "connecting"]
           /\ read' = IF read = "pending" THEN "failed" ELSE read
  <2>1. /\ calls' \in [asked : Nat, answered : Nat, listens : Nat, ends : Nat]
        /\ calls'.asked = calls.asked + 1 /\ calls'.answered = calls.answered
        /\ calls'.listens = calls.listens /\ calls'.ends = calls.ends
    BY <1>1, <1>4 DEF ClientTypes
  <2>2. /\ stage' \in [{"caller", "handler"} -> {"idle", "connecting", "tls", "upgrade", "closing"}]
        /\ stage'[who] = "connecting"
        /\ \A t \in {"caller", "handler"} : t # who => stage'[t] = "idle"
    BY <1>1, <1>2, <1>4, Moves
  <2>3. Connects'
    BY <2>2 DEF Connects, InConnect
  <2>4. /\ link' \in [tcp : {"none", "connecting", "up", "down"}, ws : {"closed", "open", "closing"},
                      wire : Seq({"message", "close"}), hung : BOOLEAN]
        /\ link'.ws = "closed"
    BY <1>4, EmptySeq DEF Client!NewLink
  <2>5. read' \in {"none", "pending", "message", "failed"} /\ (read' = "none" <=> read = "none")
    BY <1>1, <1>4 DEF ClientTypes
  <2>6. ClientTypes'
    BY <1>1, <1>2, <2>1, <2>2, <2>4, <2>5 DEF ClientTypes
  <2>7. ClientPlaces'
    BY <1>2, <2>2, <2>4, <2>5 DEF ClientPlaces, Connects, InConnect
  <2>8. ListenIsAccounted'
    BY <1>1, <2>1, <2>5 DEF ListenIsAccounted, Listens
  <2>9. ConnectIsAccounted'
    <3>1. calls.asked = calls.answered + 0
      BY <1>1, <1>2 DEF ConnectIsAccounted
    <3>2. calls'.asked = calls'.answered + 1
      BY <1>1, <2>1, <3>1, CallTypes
    <3>3. QED
      BY <2>3, <3>2 DEF ConnectIsAccounted
  <2>10. QED
    BY <2>6, <2>7, <2>8, <2>9 DEF ClientInv
<1>5. QED
  BY <1>3, <1>4 DEF Client!Connect

\* A connect ends: its thread answers it and is idle.
LEMMA AnswerStep ==
    ASSUME ClientInv, UNCHANGED <<clientApp, alive>>, NEW who \in {"caller", "handler"},
           InConnect(who), Client!Answer(who),
           link' \in [tcp : {"none", "connecting", "up", "down"}, ws : {"closed", "open", "closing"},
                      wire : Seq({"message", "close"}), hung : BOOLEAN],
           link'.ws \in {"closed", "open"},
           read' = read \/ (read = "pending" /\ read' = "failed")
    PROVE  ClientInv'
<1>1. ClientTypes /\ ClientPlaces /\ ConnectIsAccounted /\ ListenIsAccounted
  BY DEF ClientInv
<1>2. Client!At(who, "idle") /\ calls' = [calls EXCEPT !.answered = @ + 1]
  BY DEF Client!Answer
<1>3. /\ stage' \in [{"caller", "handler"} -> {"idle", "connecting", "tls", "upgrade", "closing"}]
      /\ stage'["caller"] = "idle" /\ stage'["handler"] = "idle"
  <2>1. \A t \in {"caller", "handler"} : t # who => stage[t] = "idle"
    BY <1>1 DEF ClientPlaces, InConnect
  <2>2. QED
    BY <1>1, <1>2, <2>1, Moves
<1>4. /\ calls' \in [asked : Nat, answered : Nat, listens : Nat, ends : Nat]
      /\ calls'.asked = calls.asked /\ calls'.answered = calls.answered + 1
      /\ calls'.listens = calls.listens /\ calls'.ends = calls.ends
  BY <1>1, <1>2 DEF ClientTypes
<1>5. Connects /\ ~Connects' /\ (ReadsInTurn <=> ReadsInTurn')
  BY <1>3 DEF Connects, InConnect, ReadsInTurn
<1>6. /\ read' \in {"none", "pending", "message", "failed"} /\ (read' = "none" <=> read = "none")
      /\ (ReadsInTurn => read' \in {"none", "failed"})
  BY <1>1, <1>5 DEF ClientTypes, ClientPlaces
<1>7. ClientTypes'
  BY <1>1, <1>3, <1>4, <1>6 DEF ClientTypes
<1>8. ClientPlaces'
  BY <1>3, <1>5, <1>6 DEF ClientPlaces, InConnect
<1>9. ListenIsAccounted'
  BY <1>1, <1>4, <1>6 DEF ListenIsAccounted, Listens
<1>10. ConnectIsAccounted'
  <2>1. calls.asked = calls.answered + 1
    BY <1>1, <1>5 DEF ConnectIsAccounted
  <2>2. calls'.asked = calls'.answered + 0
    BY <1>1, <1>4, <2>1, CallTypes
  <2>3. QED
    BY <1>5, <2>2 DEF ConnectIsAccounted
<1>11. QED
  BY <1>7, <1>8, <1>9, <1>10 DEF ClientInv

\* A connect goes on to its next part.
LEMMA GoesOnStep ==
    ASSUME ClientInv, UNCHANGED <<clientApp, alive, read, calls>>, NEW who \in {"caller", "handler"},
           InConnect(who), NEW where \in {"tls", "upgrade"}, Client!At(who, where),
           link' \in [tcp : {"none", "connecting", "up", "down"}, ws : {"closed", "open", "closing"},
                      wire : Seq({"message", "close"}), hung : BOOLEAN],
           link'.ws = link.ws
    PROVE  ClientInv'
<1>1. ClientTypes /\ ClientPlaces /\ ConnectIsAccounted /\ ListenIsAccounted
  BY DEF ClientInv
<1>2. /\ stage' \in [{"caller", "handler"} -> {"idle", "connecting", "tls", "upgrade", "closing"}]
      /\ stage'[who] = where
      /\ \A t \in {"caller", "handler"} : t # who => stage'[t] = stage[t] /\ stage[t] = "idle"
  BY <1>1, Moves DEF ClientPlaces, InConnect
<1>3. Connects /\ Connects' /\ (ReadsInTurn <=> ReadsInTurn')
  BY <1>2 DEF Connects, InConnect, ReadsInTurn
<1>4. ClientTypes'
  BY <1>1, <1>2 DEF ClientTypes
<1>5. ClientPlaces'
  BY <1>1, <1>2, <1>3 DEF ClientPlaces, InConnect
<1>6. ConnectIsAccounted' /\ ListenIsAccounted'
  BY <1>1, <1>3 DEF ConnectIsAccounted, ListenIsAccounted, Listens
<1>7. QED
  BY <1>4, <1>5, <1>6 DEF ClientInv

\* The parts of a connect.
LEMMA ConnectingStep ==
    ASSUME ClientInv, UNCHANGED clientApp, NEW who \in {"caller", "handler"}, Client!Connecting(who)
    PROVE  ClientInv'
<1>1. ClientTypes /\ link.ws \in {"closed", "open", "closing"} /\ InConnect(who)
      /\ UNCHANGED <<alive, read>>
  BY DEF ClientInv, ClientTypes, Client!Connecting, Client!ConnectDone, Client!HandshakeDone,
         Client!UpgradeDone, InConnect
<1>2. link.ws = "closed"
  BY <1>1 DEF ClientInv, ClientPlaces, Connects
<1> DEFINE Links == [tcp : {"none", "connecting", "up", "down"}, ws : {"closed", "open", "closing"},
                     wire : Seq({"message", "close"}), hung : BOOLEAN]
           up == [link EXCEPT !.tcp = "up"]
           opened == [link EXCEPT !.ws = "open"]
<1>3. /\ link \in Links /\ Client!Down(link) \in Links /\ Client!Down(link).ws = "closed"
      /\ up \in Links /\ up.ws = "closed" /\ opened \in Links /\ opened.ws = "open"
  BY <1>1, <1>2, DownLink DEF ClientTypes
<1> HIDE DEF up, opened
<1>4. \/ Client!Answer(who) /\ link' \in {link, Client!Down(link), up, opened}
      \/ (Client!At(who, "tls") \/ Client!At(who, "upgrade")) /\ link' \in {link, up} /\ UNCHANGED calls
  BY DEF Client!Connecting, Client!ConnectDone, Client!HandshakeDone, Client!UpgradeDone, up, opened
<1>5. CASE Client!Answer(who) /\ link' \in {link, Client!Down(link), up, opened}
  <2>1. link' \in Links /\ link'.ws \in {"closed", "open"}
    BY <1>2, <1>3, <1>5
  <2>2. QED
    BY <1>1, <1>5, <2>1, AnswerStep
<1>6. CASE (Client!At(who, "tls") \/ Client!At(who, "upgrade")) /\ link' \in {link, up} /\ UNCHANGED calls
  <2>1. link' \in Links /\ link'.ws = link.ws
    BY <1>2, <1>3, <1>6
  <2>2. QED
    BY <1>1, <1>6, <2>1, GoesOnStep
<1>7. QED
  BY <1>4, <1>5, <1>6

\* The connection is used or breaks down, and the read completes; nobody's place changes.
LEMMA LinkStep ==
    ASSUME ClientInv, UNCHANGED <<clientApp, alive, stage, calls>>,
           link' \in [tcp : {"none", "connecting", "up", "down"}, ws : {"closed", "open", "closing"},
                      wire : Seq({"message", "close"}), hung : BOOLEAN],
           link'.ws \in {link.ws, "closed"},
           read' = read \/ (read = "pending" /\ read' \in {"message", "failed"})
    PROVE  ClientInv'
<1>1. ClientTypes /\ ClientPlaces /\ ConnectIsAccounted /\ ListenIsAccounted
  BY DEF ClientInv
<1>2. read' \in {"none", "pending", "message", "failed"} /\ (read' = "none" <=> read = "none")
  BY <1>1 DEF ClientTypes
<1>3. (Connects <=> Connects') /\ (ReadsInTurn <=> ReadsInTurn')
  BY DEF Connects, InConnect, ReadsInTurn
<1>4. ClientTypes'
  BY <1>1, <1>2 DEF ClientTypes
<1>5. ClientPlaces'
  BY <1>1, <1>2, <1>3 DEF ClientPlaces, InConnect
<1>6. ConnectIsAccounted' /\ ListenIsAccounted'
  BY <1>1, <1>2, <1>3 DEF ConnectIsAccounted, ListenIsAccounted, Listens
<1>7. QED
  BY <1>4, <1>5, <1>6 DEF ClientInv

\* What the peer sends, and what the deadline and the end of a connection do to it.
LEMMA LinkSteps ==
    ASSUME ClientInv, UNCHANGED clientApp,
           \/ Client!SetTimeout \/ Client!ReadCompletes \/ Client!DeadlinePasses
           \/ Client!Expires \/ Client!Sends \/ Client!HangsUp
    PROVE  ClientInv'
<1> DEFINE Links == [tcp : {"none", "connecting", "up", "down"}, ws : {"closed", "open", "closing"},
                     wire : Seq({"message", "close"}), hung : BOOLEAN]
           wires(l) == l \in Links /\ l.ws \in {link.ws, "closed"}
<1>1. ClientTypes /\ link \in Links /\ link.wire \in Seq({"message", "close"})
  BY DEF ClientInv, ClientTypes
<1>2. wires(link) /\ wires(Client!Down(link))
  BY <1>1, DownLink
<1>3. CASE Client!SetTimeout \/ Client!DeadlinePasses
  BY <1>1, <1>2, <1>3, LinkStep DEF Client!SetTimeout, Client!DeadlinePasses
<1>4. CASE Client!Sends
  <2>1. Append(link.wire, "message") \in Seq({"message", "close"})
    BY <1>1, AppendProperties
  <2>2. wires([link EXCEPT !.wire = Append(@, "message")])
    BY <1>1, <2>1
  <2>3. QED
    BY <1>4, <2>2, LinkStep DEF Client!Sends
<1>5. CASE Client!HangsUp
  <2>1. PICK last \in {<<>>, <<"close">>} : link' = [link EXCEPT !.wire = @ \o last, !.hung = TRUE]
    BY <1>5 DEF Client!HangsUp
  <2>2. last \in Seq({"message", "close"})
    <3>1. <<"close">> \in Seq({"message", "close"}) /\ <<>> \in Seq({"message", "close"})
      BY EmptySeq
    <3>2. QED
      BY <2>1, <3>1, Zenon
  <2>3. link.wire \o last \in Seq({"message", "close"})
    BY <1>1, <2>2, ConcatProperties
  <2>4. wires(link')
    BY <1>1, <2>1, <2>3
  <2>5. QED
    BY <1>5, <2>4, LinkStep DEF Client!HangsUp
<1>6. CASE Client!ReadCompletes
  <2>1. UNCHANGED <<alive, stage, calls>> /\ read = "pending" /\ read' \in {"message", "failed"}
    BY <1>6 DEF Client!ReadCompletes
  <2>2. CASE link' = Client!Down(link)
    BY <1>2, <2>1, <2>2, LinkStep
  <2>3. CASE link.wire # <<>> /\ link' = [link EXCEPT !.wire = Tail(@)]
    <3>1. Tail(link.wire) \in Seq({"message", "close"})
      BY <1>1, <2>3, HeadTailProperties
    <3>2. wires(link')
      BY <1>1, <2>3, <3>1
    <3>3. QED
      BY <2>1, <3>2, LinkStep
  <2>4. QED
    BY <1>6, <2>2, <2>3 DEF Client!ReadCompletes
<1>7. CASE Client!Expires
  <2>1. /\ link' = Client!Down(link) /\ UNCHANGED alive
        /\ read' = read \/ (read = "pending" /\ read' = "failed")
    BY <1>7 DEF Client!Expires
  <2>2. CASE stage["handler"] = "connecting"
    <3>1. Client!Answer("handler") /\ InConnect("handler")
      BY <1>7, <2>2 DEF Client!Expires, InConnect
    <3>2. QED
      BY <1>1, <2>1, <3>1, DownLink, AnswerStep
  <2>3. CASE stage["handler"] # "connecting"
    BY <1>2, <1>7, <2>1, <2>3, LinkStep DEF Client!Expires
  <2>4. QED
    BY <2>2, <2>3
<1>8. QED
  BY <1>3, <1>4, <1>5, <1>6, <1>7

\* The caller sends a close and waits, or is destroyed, or has closed.
LEMMA CallerStep ==
    ASSUME ClientInv, UNCHANGED <<clientApp, read, calls>>,
           Client!Disconnect \/ Client!Destroy \/ Client!Closes
    PROVE  ClientInv'
<1> DEFINE Links == [tcp : {"none", "connecting", "up", "down"}, ws : {"closed", "open", "closing"},
                     wire : Seq({"message", "close"}), hung : BOOLEAN]
           closing == [link EXCEPT !.ws = "closing"]
<1>1. ClientTypes /\ ClientPlaces /\ ConnectIsAccounted /\ ListenIsAccounted
      /\ link \in Links /\ link.wire \in Seq({"message", "close"})
  BY DEF ClientInv, ClientTypes
<1>2. closing \in Links /\ closing.ws = "closing"
  BY <1>1
<1> HIDE DEF closing
<1>3. ASSUME NEW where \in {"idle", "closing"}, Client!At("caller", where), ~InConnect("caller"),
             where = "closing" => stage["handler"] = "idle",
             link' \in Links, link'.ws = IF where = "closing" THEN "closing" ELSE "closed",
             alive' \in {alive, FALSE}
      PROVE  ClientInv'
  <2>1. /\ stage' \in [{"caller", "handler"} -> {"idle", "connecting", "tls", "upgrade", "closing"}]
        /\ stage'["caller"] = where /\ stage'["handler"] = stage["handler"]
    BY <1>1, <1>3, Moves
  <2>2. (Connects <=> Connects') /\ (ReadsInTurn <=> ReadsInTurn')
    BY <1>3, <2>1 DEF Connects, InConnect, ReadsInTurn
  <2>3. ClientTypes'
    BY <1>1, <1>3, <2>1 DEF ClientTypes
  <2>4. ClientPlaces'
    BY <1>1, <1>3, <2>1, <2>2 DEF ClientPlaces, InConnect, Connects
  <2>5. ConnectIsAccounted' /\ ListenIsAccounted'
    BY <1>1, <2>2 DEF ConnectIsAccounted, ListenIsAccounted, Listens
  <2>6. QED
    BY <2>3, <2>4, <2>5 DEF ClientInv
<1>4. CASE Client!Disconnect \/ Client!Destroy
  <2>1. /\ stage["caller"] = "idle" /\ Client!Disconnected
        /\ alive' = alive \/ alive' = FALSE
    BY <1>4 DEF Client!Disconnect, Client!Destroy, Client!Free
  <2>2. ~InConnect("caller")
    BY <2>1 DEF InConnect
  <2>3. CASE link.ws = "open"
    <3>1. link' = closing /\ Client!At("caller", "closing")
      BY <2>1, <2>3 DEF Client!Disconnected, closing
    <3>2. stage["handler"] = "idle"
      BY <1>1, <2>3 DEF ClientPlaces, ClientTypes, Connects, InConnect
    <3>3. QED
      BY <1>2, <1>3, <2>1, <2>2, <3>1, <3>2
  <2>4. CASE link.ws # "open"
    <3>1. UNCHANGED <<link, stage>>
      BY <2>1, <2>4 DEF Client!Disconnected
    <3>2. (Connects <=> Connects') /\ (ReadsInTurn <=> ReadsInTurn')
      BY <3>1 DEF Connects, InConnect, ReadsInTurn
    <3>3. ClientTypes'
      BY <1>1, <2>1, <3>1 DEF ClientTypes
    <3>4. ClientPlaces'
      BY <1>1, <2>1, <2>2, <2>4, <3>1, <3>2 DEF ClientPlaces, InConnect
    <3>5. ConnectIsAccounted' /\ ListenIsAccounted'
      BY <1>1, <3>2 DEF ConnectIsAccounted, ListenIsAccounted, Listens
    <3>6. QED
      BY <3>3, <3>4, <3>5 DEF ClientInv
  <2>5. QED
    BY <2>3, <2>4
<1>5. CASE Client!Closes
  <2>1. stage["caller"] = "closing" /\ UNCHANGED alive
    BY <1>5 DEF Client!Closes
  <2>2. CASE link.wire # <<>> /\ link' = [link EXCEPT !.wire = Tail(@)] /\ UNCHANGED stage
    <3>1. Tail(link.wire) \in Seq({"message", "close"})
      BY <1>1, <2>2, HeadTailProperties
    <3>2. link' \in Links /\ link'.ws = link.ws
      BY <1>1, <2>2, <3>1
    <3>3. QED
      BY <2>1, <2>2, <3>2, LinkStep
  <2>3. CASE link' = Client!Down(link) /\ Client!At("caller", "idle")
    <3>1. ~InConnect("caller")
      BY <2>1 DEF InConnect
    <3>2. link' \in Links /\ link'.ws = "closed"
      BY <1>1, <2>3, DownLink
    <3>3. QED
      BY <1>3, <2>1, <2>3, <3>1, <3>2
  <2>4. QED
    BY <1>5, <2>2, <2>3 DEF Client!Closes
<1>6. QED
  BY <1>4, <1>5

\* listen() begins a read, and on_read goes on with it or tells of its end.
LEMMA ReadStep ==
    ASSUME ClientInv, UNCHANGED <<clientApp, alive, stage, link>>, Client!Listen \/ Client!OnRead
    PROVE  ClientInv'
<1>1. ClientTypes /\ ClientPlaces /\ ConnectIsAccounted /\ ListenIsAccounted
  BY DEF ClientInv
<1>2. (Connects <=> Connects') /\ (ReadsInTurn <=> ReadsInTurn')
  BY DEF Connects, InConnect, ReadsInTurn
<1>3. /\ Client!Listen => alive /\ read = "none" /\ read' \in {"failed", "pending"}
      /\ Client!Listen \/ read = "message" =>
             read' = IF link.ws = "closed" THEN "failed" ELSE "pending"
      /\ read = "failed" /\ Client!OnRead => read' = "none"
      /\ Client!OnRead => read \in {"message", "failed"}
  BY DEF Client!Listen, Client!OnRead, Client!ReadStarts, Client!Free
<1>4. read' \in {"none", "pending", "message", "failed"}
  BY <1>3
<1>5. ClientPlaces'
  BY <1>1, <1>2, <1>3 DEF ClientPlaces, InConnect
<1>6. /\ calls' \in [asked : Nat, answered : Nat, listens : Nat, ends : Nat]
      /\ calls'.asked = calls.asked /\ calls'.answered = calls.answered
      /\ calls'.ends + (IF Listens' THEN 1 ELSE 0) = calls'.listens
  <2>1. PICK l \in Nat, e \in Nat : l = calls.listens /\ e = calls.ends
    BY <1>1, CallTypes
  <2>2. l + 1 \in Nat /\ e + 1 \in Nat
    OBVIOUS
  <2>3. e + (IF Listens THEN 1 ELSE 0) = l
    BY <1>1, <2>1 DEF ListenIsAccounted
  <2>4. CASE Client!Listen
    <3>1. /\ calls' \in [asked : Nat, answered : Nat, listens : Nat, ends : Nat]
          /\ calls'.asked = calls.asked /\ calls'.answered = calls.answered
          /\ calls'.ends = e /\ calls'.listens = l + 1
      BY <1>1, <2>1, <2>2, <2>4 DEF Client!Listen, ClientTypes
    <3>2. ~Listens /\ Listens'
      BY <1>3, <2>4 DEF Listens
    <3>3. QED
      BY <2>3, <3>1, <3>2
  <2>5. CASE Client!OnRead /\ read = "failed"
    <3>1. /\ calls' \in [asked : Nat, answered : Nat, listens : Nat, ends : Nat]
          /\ calls'.asked = calls.asked /\ calls'.answered = calls.answered
          /\ calls'.ends = e + 1 /\ calls'.listens = l
      BY <1>1, <2>1, <2>2, <2>5 DEF Client!OnRead, ClientTypes
    <3>2. Listens /\ ~Listens'
      BY <1>3, <2>5 DEF Listens
    <3>3. QED
      BY <2>3, <3>1, <3>2
  <2>6. CASE Client!OnRead /\ read = "message"
    <3>1. calls' = calls
      BY <2>6 DEF Client!OnRead
    <3>2. Listens /\ Listens'
      BY <1>3, <2>6 DEF Listens
    <3>3. QED
      BY <1>1, <2>1, <2>3, <3>1, <3>2 DEF ClientTypes
  <2>7. QED
    BY <1>3, <2>4, <2>5, <2>6
<1>7. ClientTypes'
  BY <1>1, <1>4, <1>6 DEF ClientTypes
<1>8. ConnectIsAccounted' /\ ListenIsAccounted'
  BY <1>1, <1>2, <1>6 DEF ConnectIsAccounted, ListenIsAccounted
<1>9. QED
  BY <1>5, <1>7, <1>8 DEF ClientInv

\* The inductive invariant of the client: for any number of calls and messages and every
\* application, connects and reads are accounted for.
THEOREM ClientInvariance == Client!Spec => []ClientInv
<1>1. Client!Init => ClientInv
  <2> SUFFICES ASSUME Client!Init PROVE ClientInv
    OBVIOUS
  <2>1. /\ stage = [t \in {"caller", "handler"} |-> "idle"] /\ alive = TRUE /\ read = "none"
        /\ link = Client!NewLink /\ calls = [asked |-> 0, answered |-> 0, listens |-> 0, ends |-> 0]
    BY DEF Client!Init, Client!Threads
  <2>2. ClientTypes /\ link.ws = "closed"
    BY <2>1, EmptySeq DEF ClientTypes, Client!NewLink
  <2>3. stage["caller"] = "idle" /\ stage["handler"] = "idle" /\ ~Connects /\ ~Listens
    BY <2>1 DEF Connects, InConnect, Listens
  <2>4. ClientPlaces
    BY <2>1, <2>2, <2>3 DEF ClientPlaces
  <2>5. ConnectIsAccounted /\ ListenIsAccounted
    BY <2>1, <2>3 DEF ConnectIsAccounted, ListenIsAccounted
  <2>6. QED
    BY <2>2, <2>4, <2>5 DEF ClientInv
<1>2. ClientInv /\ [Client!Next]_(Client!vars) => ClientInv'
  <2> SUFFICES ASSUME ClientInv, [Client!Next]_(Client!vars) PROVE ClientInv'
    OBVIOUS
  <2>1. CASE UNCHANGED Client!vars
    <3>1. UNCHANGED <<clientApp, alive, stage, link, read, calls>>
      BY <2>1 DEF Client!vars, Client!state
    <3>2. QED
      BY <3>1 DEF ClientInv, ClientTypes, ClientPlaces, ConnectIsAccounted, ListenIsAccounted,
                  Connects, InConnect, Listens, ReadsInTurn
  <2>2. CASE Client!Next
    <3>1. UNCHANGED clientApp
      BY <2>2 DEF Client!Next
    <3>2. ASSUME NEW who \in {"caller", "handler"}, Client!Connect(who) \/ Client!Connecting(who)
          PROVE  ClientInv'
      BY <3>1, <3>2, ConnectStep, ConnectingStep
    <3>3. CASE Client!Listen \/ Client!OnRead
      <4>1. UNCHANGED <<alive, stage, link>>
        BY <3>3 DEF Client!Listen, Client!OnRead
      <4>2. QED
        BY <3>1, <3>3, <4>1, ReadStep
    <3>4. CASE Client!Disconnect \/ Client!Destroy \/ Client!Closes
      <4>1. UNCHANGED <<read, calls>>
        BY <3>4 DEF Client!Disconnect, Client!Destroy, Client!Closes
      <4>2. QED
        BY <3>1, <3>4, <4>1, CallerStep
    <3>5. QED
      BY <2>2, <3>1, <3>2, <3>3, <3>4, LinkSteps DEF Client!Next, Client!Threads
  <2>3. QED
    BY <2>1, <2>2
<1>3. QED
  BY <1>1, <1>2, PTL DEF Client!Spec

\* connect() and connect_sync(): what ConnectIsAnswered says without fairness.  No call is
\* answered twice, on any path, and one that is not answered has its thread under way.
THEOREM ConnectsAnswered ==
    Client!Spec => [](/\ calls.answered <= calls.asked
                      /\ calls.answered < calls.asked => Connects)
<1>1. ASSUME ClientInv PROVE /\ calls.answered <= calls.asked
                             /\ calls.answered < calls.asked => Connects
  BY <1>1, CallTypes DEF ClientInv, ConnectIsAccounted
<1>2. QED
  BY <1>1, ClientInvariance, PTL

\* on_read: what EndIsTold says without fairness.  The end is told once for each listen(), and
\* never forgotten: until it is told there is the read.
THEOREM EndsTold == Client!Spec => [](calls.ends + (IF read = "none" THEN 0 ELSE 1) = calls.listens)
<1>1. ASSUME ClientInv PROVE calls.ends + (IF read = "none" THEN 0 ELSE 1) = calls.listens
  BY <1>1 DEF ClientInv, ListenIsAccounted, Listens
<1>2. QED
  BY <1>1, ClientInvariance, PTL

\* ~client_base: what DestroyedHangsUp says without fairness.  No open websocket is left behind
\* with a read on it, though connects, reads and closes were under way when the client went.
THEOREM DestroyedLeavesNone == Client!Spec => []DestroyedIsNotOpen
<1>1. ASSUME ClientInv PROVE DestroyedIsNotOpen
  <2> SUFFICES ASSUME ReadsInTurn, ~alive, Client!Connected, link.ws = "open"
               PROVE  read = "failed" /\ stage = [t \in Client!Threads |-> "idle"]
    BY DEF DestroyedIsNotOpen
  <2>1. stage["handler"] = "idle" /\ stage["caller"] = "idle" /\ read \in {"none", "failed"}
    BY <1>1 DEF ClientInv, ClientPlaces
  <2>2. read = "failed"
    BY <2>1 DEF Client!Connected, Client!Held
  <2>3. stage = [t \in {"caller", "handler"} |-> stage[t]]
    BY <1>1 DEF ClientInv, ClientTypes
  <2>4. QED
    BY <2>1, <2>2, <2>3 DEF Client!Threads
<1>2. QED
  BY <1>1, ClientInvariance, PTL

=============================================================================
