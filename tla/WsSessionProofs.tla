--------------------------- MODULE WsSessionProofs ---------------------------
(***************************************************************************)
(* Proofs about the write queue of a websocket session, for every set of   *)
(* threads, number of calls and application.  What is promised of a session *)
(* that is used from its own callbacks only is proved of exactly that case. *)
(***************************************************************************)
EXTENDS WsSession, SequenceTheorems, FiniteSetTheorems, TLAPS

\* Where a thread is while it runs an operation.
Busy == {"push", "run", "claim", "then", "pushThen", "start"}

\* The operation that c runs writes a message, or will be queued to do so.
Writes(c) == pc[c] \in Busy /\ op[c].does # "then"

\* Messages that were given to async_write.
SentIds == {sent[k] : k \in DOMAIN sent}

\* Operations carry numbers of calls that were made; only one that runs can be
\* an on_complete.
Numbered ==
    /\ \A c \in Callers :
           pc[c] \in Busy => /\ op[c] \in Operations /\ op[c].id <= asked
                             /\ pc[c] # "run" => op[c].does # "then"
    /\ \A j \in DOMAIN queue : queue[j].id <= asked

\* write_in_progress_ says what is in flight, except within write_common.
OneWriter ==
    /\ \A i, j \in inFlight : i = j
    /\ writing = (inFlight # {} \/ pc["strand"] \in {"then", "pushThen", "start"})
    /\ pc["strand"] \in {"claim", "then", "pushThen", "start", "complete"} => inFlight = {}
    /\ pc["strand"] = "push" => writing

\* A message is in one place only, the queue, an operation or what was sent, and
\* its on_complete gets into the queue just before it is sent.
OncePerMessage ==
    /\ inFlight \subseteq SentIds /\ thens \subseteq SentIds /\ thens \cap inFlight = {}
    /\ Writes("strand") => op["strand"].id \notin SentIds
    /\ pc["strand"] = "run" /\ op["strand"].does = "then" =>
           op["strand"].id \in SentIds /\ inFlight = {}
    /\ \A j \in DOMAIN queue :
           /\ queue[j].does # "then" =>
                  /\ queue[j].id \notin SentIds
                  /\ Writes("strand") => queue[j].id # op["strand"].id
           /\ queue[j].does = "then" =>
                  \/ queue[j].id \in SentIds
                  \/ pc["strand"] = "start" /\ op["strand"].id = queue[j].id
    /\ \A i, j \in DOMAIN queue :
           queue[i].does # "then" /\ queue[j].does # "then" /\ queue[i].id = queue[j].id => i = j

\* Without on_completes: what was sent, the operation that runs and the queue
\* are in the order of the calls.  After a failure the queue is stuck, and what
\* is sent then passes it.
InOrder ==
    /\ \A j \in DOMAIN queue : queue[j].does = "write"
    /\ pc["strand"] \in Busy => op["strand"].does = "write"
    /\ pc["strand"] \notin {"then", "pushThen"}
    /\ \A i, j \in DOMAIN sent : i < j => sent[i] < sent[j]
    /\ pc["strand"] \in Busy => \A k \in DOMAIN sent : sent[k] < op["strand"].id
    /\ \A i, j \in DOMAIN queue : i < j => queue[i].id < queue[j].id
    /\ pc["strand"] = "push" => \A j \in DOMAIN queue : queue[j].id < op["strand"].id
    /\ pc["strand"] = "complete" => ~failed
    /\ ~failed =>
           /\ \A j \in DOMAIN queue, k \in DOMAIN sent : sent[k] < queue[j].id
           /\ pc["strand"] \in {"claim", "start"} \/ (pc["strand"] = "run" /\ ~writing) =>
                  \A j \in DOMAIN queue : op["strand"].id < queue[j].id
           /\ pc["strand"] = "idle" /\ ~writing => queue = <<>>

\* The inductive invariant.
IInv ==
    /\ TypeOK /\ Numbered
    /\ OnStrand => OneWriter /\ OncePerMessage
    /\ OnStrand /\ app = {} => InOrder

-----------------------------------------------------------------------------
(* Sequences, element by element.                                          *)

\* What Append does.
LEMMA Appended ==
    ASSUME NEW S, NEW s \in Seq(S), NEW e \in S
    PROVE  /\ Append(s, e) \in Seq(S) /\ Len(s) \in Nat
           /\ DOMAIN s = 1 .. Len(s) /\ DOMAIN Append(s, e) = 1 .. Len(s) + 1
           /\ \A i \in DOMAIN Append(s, e) :
                  Append(s, e)[i] = IF i = Len(s) + 1 THEN e ELSE s[i]
BY AppendProperties, LenProperties

\* What Head and Tail do.
LEMMA Popped ==
    ASSUME NEW S, NEW s \in Seq(S), s # <<>>
    PROVE  /\ Tail(s) \in Seq(S) /\ Head(s) = s[1] /\ 1 \in DOMAIN s
           /\ \A i \in DOMAIN Tail(s) : i + 1 \in DOMAIN s /\ Tail(s)[i] = s[i + 1]
<1>1. Len(s) \in Nat /\ Len(s) # 0 /\ DOMAIN s = 1 .. Len(s)
  BY LenProperties, EmptySeq
<1>2. Tail(s) \in Seq(S) /\ Len(Tail(s)) = Len(s) - 1
      /\ \A i \in 1 .. Len(Tail(s)) : Tail(s)[i] = s[i + 1]
  BY HeadTailProperties
<1>3. DOMAIN Tail(s) = 1 .. Len(s) - 1
  BY <1>2, LenProperties
<1>4. Head(s) = s[1]
  OBVIOUS
<1>5. QED
  BY <1>1, <1>2, <1>3, <1>4

-----------------------------------------------------------------------------
(* Types and numbers.                                                      *)

\* The type invariant, with the sets one by one.
Types ==
    /\ app \subseteq Env /\ writing \in BOOLEAN /\ failed \in BOOLEAN
    /\ queue \in Seq(Operations)
    /\ mut \in {"none", "strand"} /\ (mut = "strand" => pc["strand"] # "idle")
    /\ pc \in [Callers -> {"idle", "push", "run", "claim", "then", "pushThen",
                           "start", "complete"}]
    /\ op \in [Callers -> Operations \cup {NoOp}]
    /\ asked \in 0 .. MaxWrites
    /\ inFlight \subseteq 1 .. asked /\ enqueued \subseteq 1 .. asked
    /\ refused \subseteq 1 .. asked /\ thens \subseteq 1 .. asked
    /\ sent \in Seq(1 .. asked)

\* Types is TypeOK.
LEMMA TypesAreTypeOK == TypeOK <=> Types
BY DEF TypeOK, Types

\* Calls of the application keep the types.
LEMMA CallTypes ==
    ASSUME SessionAssumption, Types, Numbered, UNCHANGED app,
           NEW c \in Callers, EnqueueWrite(c) \/ WriteText(c)
    PROVE  Types' /\ Numbered'
<1> PICK d \in Does, l \in {"push", "run"} :
        /\ Call(c, l, [id |-> asked + 1, does |-> d])
        /\ enqueued' \subseteq enqueued \cup {asked + 1}
  BY DEF EnqueueWrite, WriteText
<1> DEFINE o == [id |-> asked + 1, does |-> d]
<1>1. asked \in Nat /\ MaxWrites \in Nat /\ asked + 1 \in 1 .. MaxWrites
  BY DEF Call, SessionAssumption, Types
<1>2. asked' = asked + 1 /\ asked' \in 0 .. MaxWrites /\ 1 .. asked \subseteq 1 .. asked'
  BY <1>1 DEF Call
<1>3. o \in Operations /\ o.id = asked' /\ o.does # "then"
  BY <1>1, <1>2 DEF Operations, Does
<1> HIDE DEF o
<1>4. pc' = [pc EXCEPT ![c] = l] /\ op' = [op EXCEPT ![c] = o] /\ pc[c] = "idle"
      /\ UNCHANGED <<writing, queue, mut, inFlight, failed, refused, sent, thens>>
  BY DEF Call, o
<1>5. sent' \in Seq(1 .. asked')
  <2>1. Len(sent) \in Nat /\ \A i \in 1 .. Len(sent) : sent[i] \in 1 .. asked
    BY LenProperties, ElementOfSeq DEF Types
  <2>2. sent = [i \in 1 .. Len(sent) |-> sent[i]]
    BY LenProperties DEF Types
  <2>3. QED
    BY <1>2, <1>4, <2>1, <2>2, IsASeq
<1>6. enqueued' \subseteq 1 .. asked'
  BY <1>1, <1>2 DEF Types
<1>7. pc' \in [Callers -> {"idle", "push", "run", "claim", "then", "pushThen", "start", "complete"}]
      /\ op' \in [Callers -> Operations \cup {NoOp}]
  BY <1>3, <1>4 DEF Types
<1>8. Types'
  <2>1. inFlight' \subseteq 1 .. asked' /\ refused' \subseteq 1 .. asked' /\ thens' \subseteq 1 .. asked'
    BY <1>2, <1>4 DEF Types
  <2>2. mut' \in {"none", "strand"} /\ (mut' = "strand" => pc'["strand"] # "idle")
    BY <1>4 DEF Types, Callers
  <2>3. QED
    BY <1>2, <1>4, <1>5, <1>6, <1>7, <2>1, <2>2 DEF Types
<1>9. Numbered'
  <2>1. ASSUME NEW d2 \in Callers, pc'[d2] \in Busy
        PROVE  op'[d2] \in Operations /\ op'[d2].id <= asked' /\ (pc'[d2] # "run" => op'[d2].does # "then")
    <3>1. CASE d2 = c
      BY <1>1, <1>2, <1>3, <1>4, <3>1 DEF Types
    <3>2. CASE d2 # c
      <4>1. pc'[d2] = pc[d2] /\ op'[d2] = op[d2]
        BY <1>4, <3>2 DEF Types
      <4>2. op[d2] \in Operations /\ op[d2].id <= asked /\ (pc[d2] # "run" => op[d2].does # "then")
        BY <2>1, <4>1 DEF Numbered
      <4>3. op[d2].id \in Nat
        BY <4>2 DEF Operations
      <4>4. QED
        BY <1>1, <1>2, <4>1, <4>2, <4>3
    <3>3. QED
      BY <3>1, <3>2
  <2>2. ASSUME NEW j \in DOMAIN queue' PROVE queue'[j].id <= asked'
    <3>1. queue[j] \in Operations /\ queue[j].id <= asked
      BY <1>4, <2>2, LenProperties, ElementOfSeq DEF Types, Numbered
    <3>2. QED
      BY <1>1, <1>2, <1>4, <3>1 DEF Operations
  <2>3. QED
    BY <2>1, <2>2 DEF Numbered
<1>10. QED
  BY <1>8, <1>9

\* Every other step keeps them.
LEMMA StepTypes ==
    ASSUME SessionAssumption, Types, Numbered, UNCHANGED app,
           \/ \E c \in Callers : Steps(c)
           \/ \E ok \in BOOLEAN : OnWrite(ok)
           \/ OnWriteComplete
    PROVE  Types' /\ Numbered'
<1> DEFINE PCs == {"idle", "push", "run", "claim", "then", "pushThen", "start", "complete"}
<1>1. /\ "strand" \in Callers /\ asked \in Nat
      /\ \A c \in Callers : pc[c] \in PCs
      /\ \A j \in DOMAIN queue : queue[j] \in Operations /\ queue[j].id <= asked
  BY LenProperties, ElementOfSeq DEF Types, Callers, Numbered
<1>2. ASSUME NEW c \in Callers, Push(c) PROVE Types' /\ Numbered'
  <2>1. op[c] \in Operations /\ op[c].id <= asked
    BY <1>2 DEF Push, Numbered, Busy
  <2>2. /\ queue' \in Seq(Operations)
        /\ \A j \in DOMAIN queue' : queue'[j].id <= asked
    BY <1>1, <1>2, <2>1, Appended DEF Push, Types
  <2>3. QED
    BY <1>1, <1>2, <2>2 DEF Push, Return, Types, Numbered, Busy, history
<1>3. ASSUME NEW c \in Callers, Run(c) PROVE Types' /\ Numbered'
  <2>1. op[c].id \in 1 .. asked
    BY <1>1, <1>3 DEF Run, Numbered, Busy, Operations
  <2>2. QED
    BY ZenonT(40), <1>1, <1>3, <2>1 DEF Run, Goto, Return, Types, Numbered, Busy
<1>4. ASSUME NEW c \in Callers, RunThen(c) PROVE Types' /\ Numbered'
  <2>1. op[c].id \in 1 .. asked
    BY <1>1, <1>4 DEF RunThen, Numbered, Busy, Operations
  <2>2. QED
    BY <1>1, <1>4, <2>1 DEF RunThen, Return, Types, Numbered, Busy
<1>5. ASSUME NEW c \in Callers, Claim(c) PROVE Types' /\ Numbered'
  BY <1>1, <1>5 DEF Claim, Goto, Types, Numbered, Busy, history
<1>6. ASSUME NEW c \in Callers, EnqueueThen(c) PROVE Types' /\ Numbered'
  <2>1. op[c].id \in 1 .. asked
    BY <1>1, <1>6 DEF EnqueueThen, Numbered, Busy, Operations
  <2>2. QED
    BY <1>1, <1>6, <2>1 DEF EnqueueThen, Goto, Types, Numbered, Busy
<1>7. ASSUME NEW c \in Callers, PushThen(c) PROVE Types' /\ Numbered'
  <2>1. op[c] \in Operations /\ op[c].id <= asked
    BY <1>7 DEF PushThen, Numbered, Busy
  <2>2. Then(op[c]) \in Operations /\ Then(op[c]).id <= asked
    BY <2>1 DEF Then, Operations
  <2>3. /\ queue' \in Seq(Operations)
        /\ \A j \in DOMAIN queue' : queue'[j].id <= asked
    BY <1>1, <1>7, <2>2, Appended DEF PushThen, Types
  <2>4. QED
    BY <1>1, <1>7, <2>3 DEF PushThen, Goto, Types, Numbered, Busy, history
<1>8. ASSUME NEW c \in Callers, Start(c) PROVE Types' /\ Numbered'
  <2>1. op[c].id \in 1 .. asked
    BY <1>1, <1>8 DEF Start, Numbered, Busy, Operations
  <2>2. sent' \in Seq(1 .. asked)
    BY <1>8, <2>1, Appended DEF Start, Types
  <2>3. QED
    BY <1>1, <1>8, <2>1, <2>2 DEF Start, Return, Types, Numbered, Busy
<1>9. ASSUME NEW ok \in BOOLEAN, OnWrite(ok) PROVE Types' /\ Numbered'
  <2>1. writing' \in BOOLEAN /\ failed' \in BOOLEAN
    BY <1>9 DEF OnWrite, Types
  <2>2. QED
    BY <1>1, <1>9, <2>1 DEF OnWrite, Goto, Types, Numbered, Busy, history
<1>10. ASSUME OnWriteComplete PROVE Types' /\ Numbered'
  <2>1. CASE queue = <<>> \/ "flexible" \in app
    BY <1>1, <1>10, <2>1 DEF OnWriteComplete, Goto, Types, Numbered, Busy, history
  <2>2. CASE ~(queue = <<>> \/ "flexible" \in app)
    <3>1. queue' = Tail(queue) /\ mut' = "strand" /\ pc' = [pc EXCEPT !["strand"] = "run"]
          /\ op' = [op EXCEPT !["strand"] = Head(queue)] /\ queue # <<>>
          /\ UNCHANGED <<writing, inFlight, failed, asked, enqueued, refused, sent, thens>>
      BY <1>10, <2>2 DEF OnWriteComplete, Goto, history
    <3>2. /\ queue' \in Seq(Operations) /\ Head(queue) = queue[1] /\ 1 \in DOMAIN queue
          /\ \A j \in DOMAIN queue' : j + 1 \in DOMAIN queue /\ queue'[j] = queue[j + 1]
      BY <3>1, Popped DEF Types
    <3>3. Head(queue) \in Operations /\ Head(queue).id <= asked
      BY <1>1, <3>2
    <3>4. Types'
      BY <1>1, <3>1, <3>2, <3>3 DEF Types
    <3>5. \A c \in Callers :
              pc'[c] \in Busy => /\ op'[c] \in Operations /\ op'[c].id <= asked
                                 /\ pc'[c] # "run" => op'[c].does # "then"
      BY <1>1, <3>1, <3>3 DEF Types, Numbered
    <3>6. \A j \in DOMAIN queue' : queue'[j].id <= asked
      BY <1>1, <3>2
    <3>7. QED
      BY <3>1, <3>4, <3>5, <3>6 DEF Numbered
  <2>3. QED
    BY <2>1, <2>2
<1>11. QED
  BY <1>2, <1>3, <1>4, <1>5, <1>6, <1>7, <1>8, <1>9, <1>10 DEF Steps

-----------------------------------------------------------------------------
(* A session that is used from its own callbacks only.                     *)

\* Its only caller is the strand; these are the steps that it can take.
LEMMA Alone ==
    ASSUME OnStrand, Next
    PROVE  /\ UNCHANGED app
           /\ \/ EnqueueWrite("strand") \/ WriteText("strand") \/ Push("strand")
              \/ Run("strand") \/ RunThen("strand") \/ Claim("strand") \/ EnqueueThen("strand")
              \/ PushThen("strand") \/ Start("strand")
              \/ \E ok \in BOOLEAN : OnWrite(ok)
              \/ OnWriteComplete
BY DEF OnStrand, Callers, Next, Steps

\* write_in_progress_ follows what is in flight.
LEMMA OneWriterStep ==
    ASSUME OnStrand, Types, OneWriter, Next
    PROVE  OneWriter'
<1>1. "strand" \in Callers /\ writing \in BOOLEAN
  BY DEF Callers, Types
<1>2. ASSUME EnqueueWrite("strand") \/ WriteText("strand") PROVE OneWriter'
  <2>1. /\ pc["strand"] = "idle" /\ UNCHANGED <<writing, inFlight>>
        /\ pc'["strand"] \in {"push", "run"} /\ (pc'["strand"] = "push" => writing)
    BY <1>1, <1>2 DEF EnqueueWrite, WriteText, Call, Types
  <2>2. QED
    BY <2>1 DEF OneWriter
<1>3. ASSUME Push("strand") PROVE OneWriter'
  BY <1>1, <1>3 DEF Push, Return, Types, OneWriter
<1>4. ASSUME Run("strand") PROVE OneWriter'
  BY <1>1, <1>4 DEF Run, Goto, Return, Types, OneWriter
<1>5. ASSUME RunThen("strand") PROVE OneWriter'
  BY <1>1, <1>5 DEF RunThen, Return, Types, OneWriter
<1>6. ASSUME Claim("strand") PROVE OneWriter'
  BY <1>1, <1>6 DEF Claim, Goto, Types, OneWriter
<1>7. ASSUME EnqueueThen("strand") PROVE OneWriter'
  BY <1>1, <1>7 DEF EnqueueThen, Goto, Types, OneWriter
<1>8. ASSUME PushThen("strand") PROVE OneWriter'
  BY <1>1, <1>8 DEF PushThen, Goto, Types, OneWriter
<1>9. ASSUME Start("strand") PROVE OneWriter'
  BY <1>1, <1>9 DEF Start, Return, Types, OneWriter
<1>10. ASSUME NEW ok \in BOOLEAN, OnWrite(ok) PROVE OneWriter'
  BY <1>1, <1>10 DEF OnWrite, Goto, Types, OneWriter
<1>11. ASSUME OnWriteComplete PROVE OneWriter'
  <2>1. /\ pc["strand"] = "complete" /\ UNCHANGED <<writing, inFlight>>
        /\ pc'["strand"] \in {"idle", "run"}
    BY <1>1, <1>11 DEF OnWriteComplete, Goto, Types
  <2>2. QED
    BY <2>1 DEF OneWriter
<1>12. QED
  BY <1>2, <1>3, <1>4, <1>5, <1>6, <1>7, <1>8, <1>9, <1>10, <1>11, Alone

\* What was sent grows by the operation that starts.
LEMMA SentGrows ==
    ASSUME Types, NEW i \in 1 .. asked, sent' = Append(sent, i)
    PROVE  /\ SentIds' = SentIds \cup {i}
           /\ DOMAIN sent' = 1 .. Len(sent) + 1 /\ DOMAIN sent = 1 .. Len(sent) /\ Len(sent) \in Nat
           /\ \A k \in DOMAIN sent' : sent'[k] = IF k = Len(sent) + 1 THEN i ELSE sent[k]
<1>1. /\ DOMAIN sent' = 1 .. Len(sent) + 1 /\ DOMAIN sent = 1 .. Len(sent) /\ Len(sent) \in Nat
      /\ \A k \in DOMAIN sent' : sent'[k] = IF k = Len(sent) + 1 THEN i ELSE sent[k]
  BY Appended DEF Types
<1>2. SentIds' = SentIds \cup {i}
  BY <1>1 DEF SentIds
<1>3. QED
  BY <1>1, <1>2

\* No message is in two places.
LEMMA OnceStep ==
    ASSUME OnStrand, Types, Numbered, OneWriter, OncePerMessage, Next
    PROVE  OncePerMessage'
<1> DEFINE p == pc["strand"]
           o == op["strand"]
<1>1. /\ "strand" \in Callers /\ writing \in BOOLEAN /\ asked \in Nat
      /\ \A j \in DOMAIN queue : queue[j] \in Operations /\ queue[j].id <= asked
      /\ queue \in Seq(Operations) /\ Len(queue) \in Nat /\ DOMAIN queue = 1 .. Len(queue)
      /\ SentIds \subseteq 1 .. asked
      /\ p \in Busy => o \in Operations /\ o.id \in 1 .. asked
  <2>1. /\ "strand" \in Callers /\ writing \in BOOLEAN /\ asked \in Nat
        /\ queue \in Seq(Operations) /\ Len(queue) \in Nat /\ DOMAIN queue = 1 .. Len(queue)
        /\ \A j \in DOMAIN queue : queue[j] \in Operations /\ queue[j].id <= asked
    BY LenProperties, ElementOfSeq DEF Types, Callers, Numbered
  <2>2. SentIds \subseteq 1 .. asked
    BY LenProperties, ElementOfSeq DEF Types, SentIds
  <2>3. p \in Busy => o \in Operations /\ o.id \in 1 .. asked
    BY <2>1 DEF Numbered, Operations
  <2>4. QED
    BY <2>1, <2>2, <2>3
<1>2. ASSUME EnqueueWrite("strand") \/ WriteText("strand") PROVE OncePerMessage'
  <2>1. /\ p = "idle" /\ UNCHANGED <<queue, inFlight, sent, thens>>
        /\ p' \in {"push", "run"} /\ o'.id = asked + 1 /\ o'.does # "then"
    BY <1>1, <1>2 DEF EnqueueWrite, WriteText, Call, Types, Does
  <2>2. asked + 1 \notin SentIds /\ \A j \in DOMAIN queue : queue[j].id # asked + 1
    BY <1>1 DEF Operations
  <2>3. QED
    BY <2>1, <2>2 DEF OncePerMessage, Writes, SentIds, Busy
<1>3. ASSUME Push("strand") PROVE OncePerMessage'
  <2>1. /\ p = "push" /\ UNCHANGED <<inFlight, sent, thens>> /\ p' = "idle"
        /\ queue' = Append(queue, o)
    BY <1>1, <1>3 DEF Push, Return, Types, history
  <2>2. o \in Operations /\ o.does # "then"
    BY <1>1, <2>1 DEF Numbered, Busy
  <2>3. /\ DOMAIN queue' = 1 .. Len(queue) + 1
        /\ \A i \in DOMAIN queue' : queue'[i] = IF i = Len(queue) + 1 THEN o ELSE queue[i]
    BY <1>1, <2>1, <2>2, Appended
  <2>4. QED
    BY <1>1, <2>1, <2>2, <2>3 DEF OncePerMessage, Writes, SentIds, Busy
<1>4. ASSUME Run("strand") PROVE OncePerMessage'
  <2>1. /\ p = "run" /\ o.does # "then" /\ UNCHANGED <<queue, inFlight, sent, thens>>
        /\ p' = "idle" \/ (p' = "claim" /\ o' = o)
    BY <1>1, <1>4 DEF Run, Goto, Return, Types
  <2>2. QED
    BY <2>1 DEF OncePerMessage, Writes, SentIds, Busy
<1>5. ASSUME RunThen("strand") PROVE OncePerMessage'
  <2>1. /\ p = "run" /\ o.does = "then" /\ UNCHANGED <<queue, inFlight, sent>>
        /\ p' = "idle" /\ thens' = thens \cup {o.id}
    BY <1>1, <1>5 DEF RunThen, Return, Types
  <2>2. QED
    BY <2>1 DEF OncePerMessage, Writes, SentIds, Busy
<1>6. ASSUME Claim("strand") PROVE OncePerMessage'
  <2>1. /\ p = "claim" /\ UNCHANGED <<queue, inFlight, sent, thens, op>> /\ p' \in {"then", "start"}
    BY <1>1, <1>6 DEF Claim, Goto, Types, history
  <2>2. o.does # "then"
    BY <1>1, <2>1 DEF Numbered, Busy
  <2>3. QED
    BY <2>1, <2>2 DEF OncePerMessage, Writes, SentIds, Busy
<1>7. ASSUME EnqueueThen("strand") PROVE OncePerMessage'
  <2>1. /\ p = "then" /\ UNCHANGED <<queue, inFlight, sent, thens, op>> /\ p' = "pushThen"
    BY <1>1, <1>7 DEF EnqueueThen, Goto, Types, OneWriter
  <2>2. o.does # "then"
    BY <1>1, <2>1 DEF Numbered, Busy
  <2>3. QED
    BY <2>1, <2>2 DEF OncePerMessage, Writes, SentIds, Busy
<1>8. ASSUME PushThen("strand") PROVE OncePerMessage'
  <2>1. /\ p = "pushThen" /\ UNCHANGED <<inFlight, sent, thens, op>> /\ p' = "start"
        /\ queue' = Append(queue, Then(o))
    BY <1>1, <1>8 DEF PushThen, Goto, Types, history
  <2>2. o \in Operations /\ o.does # "then" /\ Then(o) \in Operations
        /\ Then(o).id = o.id /\ Then(o).does = "then"
    BY <1>1, <2>1 DEF Numbered, Busy, Then, Operations
  <2>3. /\ DOMAIN queue' = 1 .. Len(queue) + 1
        /\ \A i \in DOMAIN queue' : queue'[i] = IF i = Len(queue) + 1 THEN Then(o) ELSE queue[i]
    BY <1>1, <2>1, <2>2, Appended
  <2>4. QED
    BY <1>1, <2>1, <2>2, <2>3 DEF OncePerMessage, Writes, SentIds, Busy
<1>9. ASSUME Start("strand") PROVE OncePerMessage'
  <2>1. /\ p = "start" /\ UNCHANGED <<queue, thens>> /\ p' = "idle"
        /\ inFlight' = inFlight \cup {o.id} /\ sent' = Append(sent, o.id)
    BY <1>1, <1>9 DEF Start, Return, Types
  <2>2. o.does # "then" /\ o.id \in 1 .. asked /\ o.id \notin SentIds
    BY <1>1, <2>1 DEF Numbered, Busy, OncePerMessage, Writes
  <2>3. SentIds' = SentIds \cup {o.id}
    BY <2>1, <2>2, SentGrows
  <2>4. QED
    BY <2>1, <2>2, <2>3 DEF OncePerMessage, Writes, Busy
<1>10. ASSUME NEW ok \in BOOLEAN, OnWrite(ok) PROVE OncePerMessage'
  <2>1. /\ p = "idle" /\ UNCHANGED <<queue, sent, thens>> /\ p' \in {"idle", "complete"}
        /\ inFlight' \subseteq inFlight
    BY <1>1, <1>10 DEF OnWrite, Goto, Types, history
  <2>2. QED
    BY <2>1 DEF OncePerMessage, Writes, SentIds, Busy
<1>11. ASSUME OnWriteComplete PROVE OncePerMessage'
  <2>1. p = "complete" /\ UNCHANGED <<inFlight, sent, thens>> /\ inFlight = {}
    BY <1>11 DEF OnWriteComplete, history, OneWriter
  <2>2. CASE p' = "idle" /\ UNCHANGED queue
    BY <2>1, <2>2 DEF OncePerMessage, Writes, SentIds, Busy
  <2>3. CASE p' = "run" /\ queue # <<>> /\ queue' = Tail(queue) /\ o' = Head(queue)
    <3>1. /\ Head(queue) = queue[1] /\ 1 \in DOMAIN queue
          /\ \A j \in DOMAIN queue' : j + 1 \in DOMAIN queue /\ queue'[j] = queue[j + 1]
          /\ queue' \in Seq(Operations)
      BY <1>1, <2>3, Popped
    <3>2. DOMAIN queue' \subseteq Nat /\ (\A j \in DOMAIN queue' : j + 1 # 1)
      BY <3>1, LenProperties
    <3>3. QED
      BY <2>1, <2>3, <3>1, <3>2 DEF OncePerMessage, Writes, SentIds, Busy
  <2>4. QED
    BY <1>1, <1>11, <2>2, <2>3 DEF OnWriteComplete, Goto, Types
<1>12. QED
  BY <1>2, <1>3, <1>4, <1>5, <1>6, <1>7, <1>8, <1>9, <1>10, <1>11, Alone

\* What is sent, what runs and what waits keep the order of the calls.
LEMMA OrderStep ==
    ASSUME OnStrand, app = {}, Types, Numbered, OneWriter, InOrder, Next
    PROVE  InOrder'
<1> DEFINE p == pc["strand"]
           o == op["strand"]
<1>1. /\ "strand" \in Callers /\ writing \in BOOLEAN /\ failed \in BOOLEAN /\ asked \in Nat
      /\ queue \in Seq(Operations) /\ Len(queue) \in Nat /\ DOMAIN queue = 1 .. Len(queue)
      /\ \A j \in DOMAIN queue : queue[j] \in Operations /\ queue[j].id \in Nat /\ queue[j].id <= asked
      /\ \A k \in DOMAIN sent : sent[k] \in Nat /\ sent[k] <= asked
      /\ DOMAIN sent \subseteq Nat
  <2>1. \A j \in DOMAIN queue : queue[j] \in Operations /\ queue[j].id <= asked
    BY LenProperties, ElementOfSeq DEF Types, Numbered
  <2>2. \A k \in DOMAIN sent : sent[k] \in 1 .. asked
    BY LenProperties, ElementOfSeq DEF Types
  <2>3. queue \in Seq(Operations) /\ Len(queue) \in Nat /\ DOMAIN queue = 1 .. Len(queue)
        /\ DOMAIN sent \subseteq Nat
    BY LenProperties DEF Types
  <2>4. \A j \in DOMAIN queue : queue[j].id \in Nat
    BY <2>1 DEF Operations
  <2>5. QED
    BY <2>1, <2>2, <2>3, <2>4 DEF Types, Callers
<1>2. p \in Busy => o \in Operations /\ o.id \in Nat /\ o.id \in 1 .. asked
  BY <1>1 DEF Numbered, Operations
<1>3. ASSUME EnqueueWrite("strand") \/ WriteText("strand") PROVE InOrder'
  <2>1. /\ p = "idle" /\ UNCHANGED <<queue, sent, writing, failed>>
        /\ p' \in {"push", "run"} /\ o'.id = asked + 1 /\ o'.does = "write"
    BY <1>1, <1>3 DEF EnqueueWrite, WriteText, Call, Types, Does
  <2>2. /\ \A k \in DOMAIN sent : sent[k] < o'.id
        /\ \A j \in DOMAIN queue : queue[j].id < o'.id
    BY <1>1, <2>1
  <2>3. ~failed /\ ~writing => queue = <<>>
    BY <2>1 DEF InOrder
  <2>4. ~failed /\ ~writing => DOMAIN queue = {}
    BY <1>1, <2>3
  <2>5. QED
    BY <2>1, <2>2, <2>4 DEF InOrder, Busy
<1>4. ASSUME Push("strand") PROVE InOrder'
  <2>1. /\ p = "push" /\ UNCHANGED <<sent, writing, failed>> /\ p' = "idle"
        /\ queue' = Append(queue, o) /\ writing
    BY <1>1, <1>4 DEF Push, Return, Types, history, OneWriter
  <2>2. /\ DOMAIN queue' = 1 .. Len(queue) + 1
        /\ \A i \in DOMAIN queue' : queue'[i] = IF i = Len(queue) + 1 THEN o ELSE queue[i]
    BY <1>1, <1>2, <2>1, Appended DEF Busy
  <2>3. o.does = "write" /\ (\A j \in DOMAIN queue : queue[j].id < o.id)
        /\ (\A k \in DOMAIN sent : sent[k] < o.id)
    BY <2>1 DEF InOrder, Busy
  <2>4. \A i, j \in DOMAIN queue' : i < j => queue'[i].id < queue'[j].id
    BY <1>1, <2>2, <2>3 DEF InOrder
  <2>5. QED
    BY <1>1, <2>1, <2>2, <2>3, <2>4 DEF InOrder, Busy
<1>5. ASSUME Run("strand") PROVE InOrder'
  <2>1. /\ p = "run" /\ UNCHANGED <<queue, sent, writing, failed>>
        /\ \/ p' = "idle" /\ writing
           \/ p' = "claim" /\ ~writing /\ o' = o
    BY <1>1, <1>5 DEF Run, Goto, Return, Types
  <2>2. QED
    BY <2>1 DEF InOrder, Busy
<1>6. ASSUME RunThen("strand") PROVE InOrder'
  BY <1>6 DEF RunThen, InOrder, Busy
<1>7. ASSUME Claim("strand") PROVE InOrder'
  <2>1. /\ p = "claim" /\ UNCHANGED <<queue, sent, failed, op>> /\ writing'
        /\ p' = "start"
    BY <1>1, <1>7 DEF Claim, Goto, Types, history, InOrder, Busy
  <2>2. QED
    BY <2>1 DEF InOrder, Busy
<1>8. ASSUME EnqueueThen("strand") \/ PushThen("strand") PROVE InOrder'
  BY <1>8 DEF EnqueueThen, PushThen, InOrder
<1>9. ASSUME Start("strand") PROVE InOrder'
  <2>1. /\ p = "start" /\ UNCHANGED <<queue, failed, writing>> /\ p' = "idle"
        /\ sent' = Append(sent, o.id) /\ writing
    BY <1>1, <1>9 DEF Start, Return, Types, OneWriter
  <2>2. /\ DOMAIN sent' = 1 .. Len(sent) + 1 /\ DOMAIN sent = 1 .. Len(sent) /\ Len(sent) \in Nat
        /\ \A k \in DOMAIN sent' : sent'[k] = IF k = Len(sent) + 1 THEN o.id ELSE sent[k]
    BY <1>2, <2>1, SentGrows DEF Busy
  <2>3. /\ \A k \in DOMAIN sent : sent[k] < o.id
        /\ ~failed => \A j \in DOMAIN queue : o.id < queue[j].id
    BY <2>1 DEF InOrder, Busy
  <2>4. \A i, j \in DOMAIN sent' : i < j => sent'[i] < sent'[j]
    BY <1>1, <2>2, <2>3 DEF InOrder
  <2>5. ~failed => \A j \in DOMAIN queue, k \in DOMAIN sent' : sent'[k] < queue[j].id
    BY <1>1, <2>2, <2>3 DEF InOrder
  <2>6. QED
    BY <2>1, <2>4, <2>5 DEF InOrder, Busy
<1>10. ASSUME NEW ok \in BOOLEAN, OnWrite(ok) PROVE InOrder'
  <2>1. /\ p = "idle" /\ UNCHANGED <<queue, sent>>
        /\ p' = IF ok THEN "complete" ELSE "idle"
        /\ failed' = (failed \/ ~ok) /\ (ok => ~failed)
    BY <1>1, <1>10 DEF OnWrite, Goto, Types, history
  <2>2. QED
    BY <2>1 DEF InOrder, Busy
<1>11. ASSUME OnWriteComplete PROVE InOrder'
  <2>1. p = "complete" /\ UNCHANGED <<sent, failed, writing>> /\ ~failed
    BY <1>11 DEF OnWriteComplete, history, InOrder
  <2>2. CASE p' = "idle" /\ UNCHANGED queue /\ queue = <<>>
    BY <2>1, <2>2 DEF InOrder, Busy
  <2>3. CASE p' = "run" /\ queue # <<>> /\ queue' = Tail(queue) /\ o' = Head(queue)
    <3>1. /\ Head(queue) = queue[1] /\ 1 \in DOMAIN queue
          /\ \A j \in DOMAIN queue' : j + 1 \in DOMAIN queue /\ queue'[j] = queue[j + 1]
          /\ queue' \in Seq(Operations)
      BY <1>1, <2>3, Popped
    <3>2. DOMAIN queue' \subseteq Nat /\ (\A j \in DOMAIN queue' : 1 < j + 1)
      BY <1>1, <3>1, LenProperties
    <3>3. \A i, j \in DOMAIN queue' : i < j => queue'[i].id < queue'[j].id
      <4> SUFFICES ASSUME NEW i \in DOMAIN queue', NEW j \in DOMAIN queue', i < j
                   PROVE  queue'[i].id < queue'[j].id
        OBVIOUS
      <4>1. i + 1 < j + 1 /\ i + 1 \in DOMAIN queue /\ j + 1 \in DOMAIN queue
        BY <3>1, <3>2
      <4>2. QED
        BY <3>1, <4>1 DEF InOrder
    <3>4. \A j \in DOMAIN queue' : o'.id < queue'[j].id
      BY <2>3, <3>1, <3>2 DEF InOrder
    <3>5. /\ \A k \in DOMAIN sent : sent[k] < o'.id
          /\ \A j \in DOMAIN queue', k \in DOMAIN sent : sent[k] < queue'[j].id
          /\ o'.does = "write" /\ \A j \in DOMAIN queue' : queue'[j].does = "write"
      BY <2>1, <2>3, <3>1 DEF InOrder
    <3>6. QED
      BY <2>1, <2>3, <3>3, <3>4, <3>5 DEF InOrder, Busy
  <2>4. QED
    BY <1>1, <1>11, <2>2, <2>3 DEF OnWriteComplete, Goto, Types
<1>12. QED
  BY <1>3, <1>4, <1>5, <1>6, <1>7, <1>8, <1>9, <1>10, <1>11, Alone

-----------------------------------------------------------------------------
(* Nothing that is enqueued is lost or left waiting.                       *)

\* An enqueued message was sent, waits in the queue, or is what the strand runs,
\* and then write_in_progress_ does not refuse it.
Kept ==
    /\ \A i \in enqueued :
           \/ i \in SentIds
           \/ \E j \in DOMAIN queue : queue[j].id = i
           \/ pc["strand"] \in Busy /\ op["strand"].id = i
    /\ pc["strand"] = "run" /\ op["strand"].id \in enqueued => ~writing

\* The strand keeps what it was given, sent or not.
LEMMA KeptStep ==
    ASSUME OnStrand, app = {}, Types, Numbered, OneWriter, InOrder, Kept, Next
    PROVE  Kept'
<1> DEFINE p == pc["strand"]
           o == op["strand"]
<1>1. /\ "strand" \in Callers /\ writing \in BOOLEAN /\ asked \in Nat
      /\ enqueued \subseteq 1 .. asked /\ queue \in Seq(Operations)
  BY DEF Types, Callers
<1>2. p \in Busy => o \in Operations /\ o.id \in 1 .. asked
  BY <1>1 DEF Numbered, Operations
<1>3. ASSUME EnqueueWrite("strand") PROVE Kept'
  <2>1. /\ p = "idle" /\ UNCHANGED <<queue, sent, writing>>
        /\ p' = (IF writing THEN "push" ELSE "run") /\ o'.id = asked + 1
        /\ enqueued' = enqueued \cup {asked + 1}
    BY <1>1, <1>3 DEF EnqueueWrite, Call, Types
  <2>2. QED
    BY <2>1 DEF Kept, SentIds, Busy
<1>4. ASSUME WriteText("strand") PROVE Kept'
  <2>1. /\ p = "idle" /\ UNCHANGED <<queue, sent, enqueued>> /\ p' = "run" /\ o'.id = asked + 1
    BY <1>1, <1>4 DEF WriteText, Call, Types
  <2>2. o'.id \notin enqueued
    BY <1>1, <2>1
  <2>3. QED
    BY <2>1, <2>2 DEF Kept, SentIds, Busy
<1>5. ASSUME Push("strand") PROVE Kept'
  <2>1. /\ p = "push" /\ UNCHANGED <<sent, enqueued>> /\ p' = "idle"
        /\ queue' = Append(queue, o)
    BY <1>1, <1>5 DEF Push, Return, Types, history
  <2>2. /\ DOMAIN queue = 1 .. Len(queue) /\ DOMAIN queue' = 1 .. Len(queue) + 1 /\ Len(queue) \in Nat
        /\ \A j \in DOMAIN queue' : queue'[j] = IF j = Len(queue) + 1 THEN o ELSE queue[j]
    BY <1>1, <1>2, <2>1, Appended DEF Busy
  <2>3. /\ \A j \in DOMAIN queue : j \in DOMAIN queue' /\ queue'[j] = queue[j]
        /\ Len(queue) + 1 \in DOMAIN queue' /\ queue'[Len(queue) + 1] = o
    BY <2>2
  <2>4. QED
    BY <2>1, <2>3 DEF Kept, SentIds
<1>6. ASSUME Run("strand") PROVE Kept'
  <2>1. /\ p = "run" /\ UNCHANGED <<queue, sent, enqueued>>
        /\ \/ writing /\ p' = "idle"
           \/ ~writing /\ p' = "claim" /\ o' = o
    BY <1>1, <1>6 DEF Run, Goto, Return, Types
  <2>2. QED
    BY <2>1 DEF Kept, SentIds, Busy
<1>7. ASSUME RunThen("strand") PROVE Kept'
  BY <1>7 DEF RunThen, InOrder, Busy
<1>8. ASSUME Claim("strand") PROVE Kept'
  <2>1. p = "claim" /\ UNCHANGED <<queue, sent, enqueued, op>> /\ p' \in {"start", "then"}
    BY <1>1, <1>8 DEF Claim, Goto, Types, history
  <2>2. QED
    BY <2>1 DEF Kept, SentIds, Busy
<1>9. ASSUME EnqueueThen("strand") \/ PushThen("strand") PROVE Kept'
  BY <1>9 DEF EnqueueThen, PushThen, InOrder
<1>10. ASSUME Start("strand") PROVE Kept'
  <2>1. p = "start" /\ UNCHANGED <<queue, enqueued>> /\ p' = "idle" /\ sent' = Append(sent, o.id)
    BY <1>1, <1>10 DEF Start, Return, Types
  <2>2. SentIds' = SentIds \cup {o.id}
    BY <1>2, <2>1, SentGrows DEF Busy
  <2>3. QED
    BY <2>1, <2>2 DEF Kept
<1>11. ASSUME NEW ok \in BOOLEAN, OnWrite(ok) PROVE Kept'
  <2>1. /\ p = "idle" /\ UNCHANGED <<queue, sent, enqueued>> /\ p' \in {"idle", "complete"}
    BY <1>1, <1>11 DEF OnWrite, Goto, Types, history
  <2>2. QED
    BY <2>1 DEF Kept, SentIds, Busy
<1>12. ASSUME OnWriteComplete PROVE Kept'
  <2>1. p = "complete" /\ UNCHANGED <<sent, enqueued, writing>> /\ ~writing
    BY <1>1, <1>12 DEF OnWriteComplete, history, OneWriter
  <2>2. CASE p' = "idle" /\ UNCHANGED queue
    BY <2>1, <2>2 DEF Kept, SentIds, Busy
  <2>3. CASE p' = "run" /\ queue # <<>> /\ queue' = Tail(queue) /\ o' = Head(queue)
    <3>1. /\ Len(queue) \in Nat /\ DOMAIN queue = 1 .. Len(queue) /\ Head(queue) = queue[1]
          /\ DOMAIN queue' = 1 .. Len(queue) - 1
          /\ \A j \in 1 .. Len(queue) - 1 : queue'[j] = queue[j + 1]
      BY <1>1, <2>3, LenProperties, HeadTailProperties
    <3>2. ASSUME NEW j \in DOMAIN queue
          PROVE  queue[j].id = o'.id \/ \E k \in DOMAIN queue' : queue'[k].id = queue[j].id
      <4>1. CASE j = 1
        BY <2>3, <3>1, <4>1
      <4>2. CASE j # 1
        <5>1. j - 1 \in DOMAIN queue' /\ queue'[j - 1] = queue[j]
          BY <3>1, <4>2
        <5>2. QED
          BY <5>1
      <4>3. QED
        BY <4>1, <4>2
    <3>3. QED
      BY <2>1, <2>3, <3>2 DEF Kept, SentIds, Busy
  <2>4. QED
    BY <1>1, <1>12, <2>2, <2>3 DEF OnWriteComplete, Goto, Types
<1>13. QED
  BY <1>3, <1>4, <1>5, <1>6, <1>7, <1>8, <1>9, <1>10, <1>11, <1>12, Alone

-----------------------------------------------------------------------------
(* The theorems.                                                           *)

\* The invariant holds at first.
LEMMA InitInv == SessionAssumption /\ Init => IInv
<1> SUFFICES ASSUME SessionAssumption, Init PROVE IInv
  OBVIOUS
<1>1. <<>> \in Seq(Operations) /\ sent \in Seq(1 .. asked) /\ DOMAIN queue = {} /\ DOMAIN sent = {}
  BY EmptySeq DEF Init
<1>2. "strand" \in Callers /\ pc["strand"] = "idle"
  BY DEF Callers, Init
<1>3. Types
  <2>1. app \subseteq Env /\ writing \in BOOLEAN /\ failed \in BOOLEAN
    BY DEF Init
  <2>2. /\ pc \in [Callers -> {"idle", "push", "run", "claim", "then", "pushThen",
                             "start", "complete"}]
        /\ op \in [Callers -> Operations \cup {NoOp}]
    BY DEF Init
  <2>3. asked \in 0 .. MaxWrites
    BY DEF Init, SessionAssumption
  <2>4. QED
    BY <1>1, <2>1, <2>2, <2>3 DEF Init, Types
<1>4. Numbered /\ OneWriter
  BY <1>1, <1>2 DEF Init, Numbered, OneWriter, Busy
<1>5. OncePerMessage /\ InOrder
  BY <1>1, <1>2 DEF Init, OncePerMessage, InOrder, SentIds, Writes, Busy
<1>6. QED
  BY <1>3, <1>4, <1>5, TypesAreTypeOK DEF IInv

\* Every step keeps it.
LEMMA NextInv == SessionAssumption /\ IInv /\ [Next]_vars => IInv'
<1> SUFFICES ASSUME SessionAssumption, IInv, [Next]_vars PROVE IInv'
  OBVIOUS
<1>1. CASE UNCHANGED vars
  <2>1. UNCHANGED <<app, writing, queue, mut, pc, op, inFlight, failed, asked, enqueued, refused,
                    sent, thens>>
    BY <1>1 DEF vars, state, threads, history
  <2>2. TypeOK'
    BY <2>1, TypesAreTypeOK DEF IInv, Types, TypeOK
  <2>3. Numbered'
    BY <2>1 DEF IInv, Numbered
  <2>4. OnStrand => OneWriter' /\ OncePerMessage'
    BY <2>1 DEF IInv, OneWriter, OncePerMessage, SentIds, Writes
  <2>5. OnStrand /\ app' = {} => InOrder'
    BY <2>1 DEF IInv, InOrder
  <2>6. QED
    BY <2>2, <2>3, <2>4, <2>5 DEF IInv, OnStrand
<1>2. CASE Next
  <2>1. Types /\ Numbered /\ UNCHANGED app
    BY <1>2, TypesAreTypeOK DEF IInv, Next
  <2>2. Types' /\ Numbered'
    BY <1>2, <2>1, CallTypes, StepTypes DEF Next
  <2>3. TypeOK'
    BY <2>2 DEF TypeOK, Types
  <2>4. OnStrand => OneWriter' /\ OncePerMessage'
    BY <1>2, <2>1, OneWriterStep, OnceStep DEF IInv
  <2>5. OnStrand /\ app' = {} => InOrder'
    BY <1>2, <2>1, OrderStep DEF IInv
  <2>6. QED
    BY <2>2, <2>3, <2>4, <2>5 DEF IInv, OnStrand
<1>3. QED
  BY <1>1, <1>2

\* The invariant is inductive.
THEOREM Invariance == Spec => []IInv
BY SessionAssumption, InitInv, NextInv, PTL DEF Spec

\* Types, for every set of threads: session_base.cpp's queue, and that queue_mut_
\* is held only while an operation runs.
THEOREM TypeCorrect == Spec => []TypeOK
<1>1. IInv => TypeOK
  BY DEF IInv
<1>2. QED
  BY <1>1, Invariance, PTL

\* On the strand, async_write is not called before the last handler has run.
THEOREM OneWrite == Spec => []OneWriteAtATime
<1>1. IInv => OneWriteAtATime
  <2> SUFFICES ASSUME OneWriter PROVE Cardinality(inFlight) <= 1
    BY DEF IInv, OneWriteAtATime
  <2>1. CASE inFlight = {}
    BY <2>1, FS_EmptySet
  <2>2. CASE inFlight # {}
    <3> PICK i : inFlight = {i}
      BY <2>2 DEF OneWriter
    <3> QED
      BY FS_Singleton
  <2>3. QED
    BY <2>1, <2>2
<1>2. QED
  BY <1>1, Invariance, PTL

\* On the strand, an on_complete runs after its message was sent and the handler
\* of that write has run.
THEOREM ThenFollows == Spec => []ThenAfterItsWrite
<1>1. IInv => ThenAfterItsWrite
  BY DEF IInv, ThenAfterItsWrite, OncePerMessage, SentIds
<1>2. QED
  BY <1>1, Invariance, PTL

\* On the strand and without on_completes, messages go out in the order of the
\* calls, queued or not.
THEOREM SendsInOrder == Spec => []SentInOrder
<1>1. IInv => SentInOrder
  BY DEF IInv, SentInOrder, InOrder
<1>2. QED
  BY <1>1, Invariance, PTL

\* enqueue_write and on_write_complete: no message is left behind.  While no write
\* has failed, a message that was enqueued and not sent has a write under way or a
\* handler running, whose end looks into the queue.
EnqueuedIsNotForgotten ==
    OnStrand /\ app = {} /\ ~failed /\ pc["strand"] = "idle" /\ inFlight = {} =>
        enqueued \subseteq SentIds

\* On the strand and without on_completes, no order of calls and writes leaves a
\* message in the queue: what EnqueuedGetsSent needs besides fairness.
THEOREM NoMessageForgotten == Spec => []EnqueuedIsNotForgotten
<1> DEFINE I == OnStrand /\ app = {} => Kept
<1>1. Init => I
  BY DEF Init, Kept, Callers
<1>2. IInv /\ I /\ [Next]_vars => I'
  <2> SUFFICES ASSUME IInv, I, [Next]_vars, OnStrand, app' = {} PROVE Kept'
    BY DEF OnStrand
  <2>1. CASE UNCHANGED vars
    BY <2>1 DEF Kept, SentIds, vars, state, threads, history
  <2>2. CASE Next
    BY <2>2, KeptStep, TypesAreTypeOK DEF IInv, Next
  <2>3. QED
    BY <2>1, <2>2
<1>3. IInv /\ I => EnqueuedIsNotForgotten
  <2> SUFFICES ASSUME IInv, Kept, OnStrand, app = {}, ~failed, pc["strand"] = "idle", inFlight = {}
               PROVE  enqueued \subseteq SentIds
    BY DEF EnqueuedIsNotForgotten
  <2>1. ~writing
    BY DEF IInv, OneWriter
  <2>2. queue = <<>>
    BY <2>1 DEF IInv, InOrder
  <2>3. DOMAIN queue = {}
    BY <2>2
  <2>4. QED
    BY <2>3 DEF Kept, Busy
<1>4. QED
  BY <1>1, <1>2, <1>3, Invariance, PTL DEF Spec

=============================================================================
