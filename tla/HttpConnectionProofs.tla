------------------------- MODULE HttpConnectionProofs -------------------------
(***************************************************************************)
(* Proofs about HttpConnection: type correctness for every application,    *)
(* and the safety properties for disciplined ones, for any set of          *)
(* connections and any number of message pieces.                           *)
(***************************************************************************)
EXTENDS HttpConnection, TLAPS

Stages == {"receiving", "reading", "holding", "answered", "silent", "abandoned"}
ReadStates == {"idle", "pending", "clash"} \cup Done
WriteStates == {"idle", "pending", "clash", "ok", "err"}
WriteKinds == {"none", "continue", "header", "body", "end"}
HandshakeStates == {"none", "pending", "ok", "failed", "done", "refused"}

-----------------------------------------------------------------------------
(* The operators on one connection keep its type.                          *)

\* Changing one field to a value of its type keeps the type of the record.
LEMMA FieldType ==
    ASSUME NEW s \in Connection
    PROVE  /\ \A x \in {"none", "managed", "freed"} : [s EXCEPT !.life = x] \in Connection
           /\ \A x \in BOOLEAN : [s EXCEPT !.open = x] \in Connection
           /\ \A x \in HandshakeStates : [s EXCEPT !.hs = x] \in Connection
           /\ \A x \in Stages : [s EXCEPT !.stage = x] \in Connection
           /\ \A x \in {"none", "header", "body"} : [s EXCEPT !.cb = x] \in Connection
           /\ \A x \in Parts : [s EXCEPT !.parts = x] \in Connection
           /\ \A x \in ReadStates : [s EXCEPT !.rd = x] \in Connection
           /\ \A x \in WriteStates : [s EXCEPT !.wr = x] \in Connection
           /\ \A x \in WriteKinds : [s EXCEPT !.wk = x] \in Connection
           /\ \A x \in BOOLEAN : [s EXCEPT !.sent = x] \in Connection
           /\ \A x \in Nat : [s EXCEPT !.waits = x] \in Connection
           /\ \A x \in Nat : [s EXCEPT !.fired = x] \in Connection
           /\ \A x \in {"inf", "armed", "past"} : [s EXCEPT !.deadline = x] \in Connection
           /\ \A x \in Nat : [s EXCEPT !.timeouts = x] \in Connection
<1>1. /\ \A x \in {"none", "managed", "freed"} : [s EXCEPT !.life = x] \in Connection
      /\ \A x \in BOOLEAN : [s EXCEPT !.open = x] \in Connection
  BY DEF Connection
<1>2. \A x \in HandshakeStates : [s EXCEPT !.hs = x] \in Connection
  BY DEF Connection, HandshakeStates
<1>3. \A x \in Stages : [s EXCEPT !.stage = x] \in Connection
  BY DEF Connection, Stages
<1>4. /\ \A x \in {"none", "header", "body"} : [s EXCEPT !.cb = x] \in Connection
      /\ \A x \in Parts : [s EXCEPT !.parts = x] \in Connection
  BY DEF Connection
<1>5. \A x \in ReadStates : [s EXCEPT !.rd = x] \in Connection
  BY DEF Connection, ReadStates
<1>6. \A x \in WriteStates : [s EXCEPT !.wr = x] \in Connection
  BY DEF Connection, WriteStates
<1>7. \A x \in WriteKinds : [s EXCEPT !.wk = x] \in Connection
  BY DEF Connection, WriteKinds
<1>8. /\ \A x \in BOOLEAN : [s EXCEPT !.sent = x] \in Connection
      /\ \A x \in Nat : [s EXCEPT !.waits = x] \in Connection
  BY DEF Connection
<1>9. /\ \A x \in Nat : [s EXCEPT !.fired = x] \in Connection
      /\ \A x \in {"inf", "armed", "past"} : [s EXCEPT !.deadline = x] \in Connection
      /\ \A x \in Nat : [s EXCEPT !.timeouts = x] \in Connection
  BY DEF Connection
<1>10. QED
  BY <1>1, <1>2, <1>3, <1>4, <1>5, <1>6, <1>7, <1>8, <1>9

\* read() and the head of its completion handler map states to states.
LEMMA ReadType ==
    ASSUME NEW s \in Connection
    PROVE  Read(s) \in Connection /\ ReadDone(s) \in Connection
<1> DEFINE r == CASE s.rd # "idle" -> "clash"
                  [] s.rd = "idle" /\ s.open -> "pending"
                  [] OTHER -> "err"
           a == [s EXCEPT !.waits = 1]
           b == [a EXCEPT !.deadline = "armed"]
           i == [s EXCEPT !.rd = "idle"]
           j == [i EXCEPT !.waits = 0]
<1>1. r \in ReadStates
  BY DEF ReadStates, Done
<1>2. a \in Connection
  BY FieldType
<1>3. b \in Connection
  BY <1>2, FieldType
<1>4. [b EXCEPT !.rd = r] \in Connection
  BY <1>1, <1>3, FieldType
<1>5. Read(s) = [b EXCEPT !.rd = r]
  BY Zenon DEF Read
<1>6. i \in Connection
  BY FieldType DEF ReadStates
<1>7. j \in Connection
  BY <1>6, FieldType
<1>8. [j EXCEPT !.deadline = "inf"] \in Connection
  BY <1>7, FieldType
<1>9. ReadDone(s) = [j EXCEPT !.deadline = "inf"]
  BY Zenon DEF ReadDone
<1>10. QED
  BY <1>4, <1>5, <1>8, <1>9

\* A write, the closing of the socket and the removal map states to states.
LEMMA WriteType ==
    ASSUME NEW s \in Connection, NEW k \in WriteKinds
    PROVE  Write(s, k) \in Connection
<1> DEFINE w == CASE s.wr # "idle" -> "clash"
                  [] s.wr = "idle" /\ s.open -> "pending"
                  [] OTHER -> "err"
           a == [s EXCEPT !.wk = k]
<1>1. w \in WriteStates
  BY DEF WriteStates
<1>2. a \in Connection
  BY FieldType
<1>3. [a EXCEPT !.wr = w] \in Connection
  BY <1>1, <1>2, FieldType
<1>4. Write(s, k) = [a EXCEPT !.wr = w]
  BY Zenon DEF Write
<1>5. QED
  BY <1>3, <1>4

\* Closing the socket aborts operations to outcomes their types allow.
LEMMA StopType ==
    ASSUME NEW s \in Connection
    PROVE  Stop(s) \in Connection
<1> DEFINE r == IF s.rd = "pending" THEN "aborted" ELSE s.rd
           w == IF s.wr = "pending" THEN "err" ELSE s.wr
           h == IF s.hs = "pending" THEN "failed" ELSE s.hs
           a == [s EXCEPT !.open = FALSE]
           b == [a EXCEPT !.waits = 0]
           d == [b EXCEPT !.rd = r]
           e == [d EXCEPT !.wr = w]
<1>1. r \in ReadStates
  BY DEF ReadStates, Done, Connection
<1>2. w \in WriteStates
  BY DEF WriteStates, Connection
<1>3. h \in HandshakeStates
  BY DEF HandshakeStates, Connection
<1>4. a \in Connection
  BY FieldType
<1>5. b \in Connection
  BY <1>4, FieldType
<1>6. d \in Connection
  BY <1>1, <1>5, FieldType
<1>7. e \in Connection
  BY <1>2, <1>6, FieldType
<1>8. [e EXCEPT !.hs = h] \in Connection
  BY <1>3, <1>7, FieldType
<1>9. CASE s.open
  <2>1. Stop(s) = [e EXCEPT !.hs = h]
    BY <1>9, Zenon DEF Stop
  <2>2. QED
    BY <1>8, <2>1
<1>10. CASE ~s.open
  BY <1>10 DEF Stop
<1>11. QED
  BY <1>9, <1>10

\* Removing a connection maps states to states.
LEMMA FreeType ==
    ASSUME NEW s \in Connection
    PROVE  Free(s) \in Connection
<1> DEFINE t == Stop(s)
           a == [t EXCEPT !.life = "freed"]
<1>1. t \in Connection
  BY StopType
<1>2. a \in Connection
  BY <1>1, FieldType
<1>3. [a EXCEPT !.waits = 0] \in Connection
  BY <1>2, FieldType
<1>4. Free(s) = [a EXCEPT !.waits = 0]
  BY Zenon DEF Free
<1>5. QED
  BY <1>3, <1>4

\* Completing a response, at once or later, maps states to states.
LEMMA ResponseType ==
    ASSUME NEW s \in Connection
    PROVE  /\ End(s) \in Connection
           /\ Send(s) \in Connection
           /\ \A reply \in Replies : Respond(s, reply) \in Connection
<1>1. ASSUME NEW t \in Connection
      PROVE  End(t) \in Connection /\ Send(t) \in Connection
  <2>1. [t EXCEPT !.sent = TRUE] \in Connection
    BY FieldType
  <2>2. Write([t EXCEPT !.sent = TRUE], "end") \in Connection
    BY <2>1, WriteType DEF WriteKinds
  <2>3. Write([t EXCEPT !.sent = TRUE], "header") \in Connection
    BY <2>1, WriteType DEF WriteKinds
  <2>4. Write(t, "body") \in Connection
    BY WriteType DEF WriteKinds
  <2>5. QED
    BY <2>2, <2>3, <2>4, FreeType DEF End, Send
<1>2. /\ [s EXCEPT !.stage = "answered"] \in Connection
      /\ [s EXCEPT !.stage = "holding"] \in Connection
  BY FieldType DEF Stages
<1>3. \A reply \in Replies : Respond(s, reply) \in Connection
  BY <1>1, <1>2 DEF Respond, Replies
<1>4. QED
  BY <1>1, <1>3

\* Starting to read a message that comes in pieces, and reading one more piece.
LEMMA NextPieceType ==
    ASSUME NEW s \in Connection, ConstantsAssumption
    PROVE  /\ Read([s EXCEPT !.stage = "reading", !.parts = MaxParts]) \in Connection
           /\ s.parts > 0 => [s EXCEPT !.parts = s.parts - 1] \in Connection
           /\ [s EXCEPT !.parts = MaxParts] \in Connection
<1>1. MaxParts \in Parts /\ (s.parts > 0 => s.parts - 1 \in Parts)
  BY DEF Parts, Connection, ConstantsAssumption
<1> DEFINE a == [s EXCEPT !.stage = "reading"]
<1>2. a \in Connection
  BY FieldType DEF Stages
<1>3. [a EXCEPT !.parts = MaxParts] \in Connection
  BY <1>1, <1>2, FieldType
<1>4. [a EXCEPT !.parts = MaxParts] = [s EXCEPT !.stage = "reading", !.parts = MaxParts]
  BY Zenon
<1>5. Read([s EXCEPT !.stage = "reading", !.parts = MaxParts]) \in Connection
  BY <1>3, <1>4, ReadType
<1>6. QED
  BY <1>1, <1>5, FieldType

\* Reading the body, begun or continued, maps states to states.
LEMMA BodyType ==
    ASSUME NEW s \in Connection, NEW ec \in Done, ConstantsAssumption
    PROVE  /\ \A t \in ReadBody(s) : t \in Connection
           /\ \A t \in BodyReadHandler(s, ec) : t \in Connection
<1>1. [s EXCEPT !.cb = "body"] \in Connection
  BY FieldType
<1>2. \A t \in ReadBody(s) : t \in Connection
  <2> DEFINE b == [s EXCEPT !.cb = "body"]
  <2>1. b \in Connection
    BY <1>1
  <2> HIDE DEF b
  <2>2. \A reply \in Replies : Respond(b, reply) \in Connection
    BY <2>1, ResponseType
  <2>3. Read([b EXCEPT !.stage = "reading", !.parts = MaxParts]) \in Connection
    BY <2>1, NextPieceType
  <2>4. \A t \in {Respond(b, reply) : reply \in Replies}
               \cup {Read([b EXCEPT !.stage = "reading", !.parts = MaxParts])} : t \in Connection
    BY <2>2, <2>3
  <2>5. QED
    BY <2>4 DEF ReadBody, b
<1>3. \A t \in BodyChunkRead(s) : t \in Connection
  <2>1. s.parts > 0 => Read([s EXCEPT !.parts = s.parts - 1]) \in Connection
    BY NextPieceType, ReadType
  <2>2. QED
    BY <2>1, ResponseType DEF BodyChunkRead
<1>4. BodyReadFailed(s, ec) \in Connection
  <2>1. /\ [s EXCEPT !.stage = "abandoned"] \in Connection
        /\ [s EXCEPT !.stage = "answered"] \in Connection
    BY FieldType DEF Stages
  <2>2. QED
    BY <2>1, ResponseType DEF BodyReadFailed
<1>5. QED
  BY <1>2, <1>3, <1>4 DEF BodyReadHandler

\* The handlers map states to states, whatever the application does.
LEMMA CallbackType ==
    ASSUME NEW s \in Connection, ConstantsAssumption
    PROVE  \A t \in Callback(s) : t \in Connection
<1>1. AcceptAndContinue(s) \in Connection
  <2>1. [s EXCEPT !.stage = "reading"] \in Connection
    BY FieldType DEF Stages
  <2>2. QED
    BY <2>1, WriteType DEF AcceptAndContinue, WriteKinds
<1>2. \A t \in Acts(s) : t \in Connection
  BY <1>1, ResponseType, BodyType DEF Acts, Done
<1>3. [s EXCEPT !.stage = "silent"] \in Connection
  BY FieldType DEF Stages
<1>4. \A t \in Acts(s) : \A reply \in {"send", "end"} : Respond(t, reply) \in Connection
  BY <1>2, ResponseType DEF Replies
<1>5. QED
  BY <1>2, <1>3, <1>4 DEF Callback

\* The handler of a completed read maps states to states.
LEMMA ReadHandlerType ==
    ASSUME NEW s \in Connection, s.rd \in Done, ConstantsAssumption
    PROVE  \A t \in ReadHandler(s) : t \in Connection
<1>1. ReadDone(s) \in Connection
  BY ReadType
<1>2. ASSUME NEW u \in Connection
      PROVE  \A t \in HeaderChunkRead(u) : t \in Connection
  <2>1. u.parts > 0 => Read([u EXCEPT !.parts = u.parts - 1]) \in Connection
    BY NextPieceType, ReadType
  <2>2. Respond(u, "send") \in Connection /\ Free(u) \in Connection
    BY ResponseType, FreeType DEF Replies
  <2>3. QED
    BY <2>1, <2>2, CallbackType DEF HeaderChunkRead
<1>3. \A t \in HeaderReadHandler(ReadDone(s), s.rd) : t \in Connection
  BY <1>1, <1>2, FreeType DEF HeaderReadHandler
<1>4. \A t \in BodyReadHandler(ReadDone(s), s.rd) : t \in Connection
  BY <1>1, BodyType
<1>5. QED
  BY <1>3, <1>4 DEF ReadHandler

\* The handler of a completed write maps states to states.
LEMMA WriteHandlerType ==
    ASSUME NEW s \in Connection, ConstantsAssumption
    PROVE  \A t \in WriteHandler(s) : t \in Connection
<1> DEFINE a == [s EXCEPT !.wr = "idle"]
           w == [a EXCEPT !.wk = "none"]
<1>1. w \in Connection /\ w = [s EXCEPT !.wr = "idle", !.wk = "none"]
  <2>1. a \in Connection
    BY FieldType DEF WriteStates
  <2>2. w \in Connection
    BY <2>1, FieldType DEF WriteKinds
  <2>3. w = [s EXCEPT !.wr = "idle", !.wk = "none"]
    BY Zenon
  <2>4. QED
    BY <2>2, <2>3
<1>2. w.parts = s.parts
  BY DEF Connection
<1> HIDE DEF w
<1>3. \A t \in ReadBody(w) : t \in Connection
  BY <1>1, BodyType DEF Done
<1>4. Respond(w, "end") \in Connection /\ End(w) \in Connection /\ Free(w) \in Connection
  BY <1>1, ResponseType, FreeType DEF Replies
<1>5. Write([w EXCEPT !.parts = MaxParts], "body") \in Connection
  BY <1>1, NextPieceType, WriteType DEF WriteKinds
<1>6. s.parts > 0 => Write([w EXCEPT !.parts = s.parts - 1], "body") \in Connection
  BY <1>1, <1>2, NextPieceType, WriteType DEF WriteKinds
<1>7. QED
  BY <1>1, <1>3, <1>4, <1>5, <1>6 DEF WriteHandler

\* check_deadline() maps states to states: the wait it answers was counted.
LEMMA CheckDeadlineType ==
    ASSUME NEW s \in Connection, s.fired > 0
    PROVE  \A t \in CheckDeadline(s) : t \in Connection
<1> DEFINE w == [s EXCEPT !.fired = s.fired - 1]
<1>1. w \in Connection
  <2>1. s.fired - 1 \in Nat
    BY DEF Connection
  <2>2. QED
    BY <2>1, FieldType
<1> HIDE DEF w
<1>2. [w EXCEPT !.waits = s.waits + 1] \in Connection
  <2>1. s.waits + 1 \in Nat
    BY DEF Connection
  <2>2. QED
    BY <1>1, <2>1, FieldType
<1>3. \A t \in TimedOut(w) : t \in Connection
  <2> DEFINE u == [w EXCEPT !.timeouts = w.timeouts + 1]
  <2>1. u \in Connection
    <3>1. w.timeouts + 1 \in Nat
      BY <1>1 DEF Connection
    <3>2. QED
      BY <1>1, <3>1, FieldType
  <2> HIDE DEF u
  <2>2. Stop(u) \in Connection
    BY <2>1, StopType
  <2>3. \A reply \in {"send", "end"} : Stop(Respond(u, reply)) \in Connection
    BY <2>1, ResponseType, StopType DEF Replies
  <2>4. QED
    BY <2>2, <2>3 DEF TimedOut, u
<1>4. QED
  BY <1>1, <1>2, <1>3 DEF CheckDeadline, w

\* initiate_header_read() maps states to states.
LEMMA BeginType ==
    ASSUME NEW s \in Connection
    PROVE  BeginHeader(s) \in Connection
<1>1. [s EXCEPT !.cb = "header"] \in Connection
  BY FieldType
<1>2. BeginHeader(s) \in Connection
  BY <1>1, ReadType DEF BeginHeader
<1>3. QED
  BY <1>2

-----------------------------------------------------------------------------
(* Type correctness.                                                       *)

\* The constructor of http_connection_base makes a state.
LEMMA NewConnectionType ==
    ASSUME ConstantsAssumption
    PROVE  NewConnection \in Connection
<1>1. MaxParts \in Parts
  BY DEF Parts, ConstantsAssumption
<1>2. QED
  BY <1>1 DEF NewConnection, Connection, Done

\* The initial states have their types.
LEMMA InitType == ConstantsAssumption /\ Init => TypeOK
<1> SUFFICES ASSUME ConstantsAssumption, Init PROVE TypeOK
  OBVIOUS
<1>1. [NewConnection EXCEPT !.life = "none"] \in Connection
  BY NewConnectionType, FieldType
<1>2. QED
  BY <1>1 DEF Init, TypeOK

\* Every step replaces the state of at most one connection by one of its type,
\* or, when the server is destroyed, frees them all.
LEMMA NextType == ConstantsAssumption /\ TypeOK /\ [Next]_vars => TypeOK'
<1> SUFFICES ASSUME ConstantsAssumption, TypeOK, [Next]_vars PROVE TypeOK'
  OBVIOUS
<1> USE DEF TypeOK
<1>1. ASSUME NEW c \in Conns, NEW s \in Connection, Update(c, s), UNCHANGED server
      PROVE  TypeOK'
  BY <1>1 DEF Update
<1>2. CASE StartServer \/ StopServer
  BY <1>2 DEF StartServer, StopServer
<1>3. CASE DestroyServer
  BY <1>3, FreeType DEF DestroyServer
<1>4. ASSUME NEW c \in Conns, Accept(c)
      PROVE  TypeOK'
  <2>1. [NewConnection EXCEPT !.hs = "pending"] \in Connection
    BY NewConnectionType, FieldType DEF HandshakeStates
  <2>2. QED
    BY <1>1, <1>4, <2>1, NewConnectionType, BeginType DEF Accept
<1>5. ASSUME NEW c \in Conns, HandleRead(c)
      PROVE  TypeOK'
  BY <1>1, <1>5, ReadHandlerType DEF HandleRead
<1>6. ASSUME NEW c \in Conns, HandleWrite(c)
      PROVE  TypeOK'
  BY <1>1, <1>6, WriteHandlerType DEF HandleWrite
<1>7. ASSUME NEW c \in Conns, HandleTimer(c)
      PROVE  TypeOK'
  BY <1>1, <1>7, CheckDeadlineType DEF HandleTimer
<1>8. ASSUME NEW c \in Conns, HandleHandshake(c)
      PROVE  TypeOK'
  <2>1. /\ [conn[c] EXCEPT !.hs = "done"] \in Connection
        /\ [conn[c] EXCEPT !.hs = "refused"] \in Connection
    BY FieldType DEF HandshakeStates
  <2>2. QED
    BY <1>1, <1>8, <2>1, BeginType DEF HandleHandshake
<1>9. ASSUME NEW c \in Conns, Reply(c)
      PROVE  TypeOK'
  BY <1>1, <1>9, ResponseType DEF Reply, Replies
<1>10. ASSUME NEW c \in Conns, ReadCompletes(c)
       PROVE  TypeOK'
  BY <1>1, <1>10, FieldType DEF ReadCompletes, ReadStates, Done
<1>11. ASSUME NEW c \in Conns, WriteCompletes(c)
       PROVE  TypeOK'
  BY <1>1, <1>11, FieldType DEF WriteCompletes, WriteStates
<1>12. ASSUME NEW c \in Conns, HandshakeCompletes(c)
       PROVE  TypeOK'
  BY <1>1, <1>12, FieldType DEF HandshakeCompletes, HandshakeStates
<1>13. ASSUME NEW c \in Conns, Elapse(c)
       PROVE  TypeOK'
  <2> DEFINE a == [conn[c] EXCEPT !.deadline = "past"]
             b == [a EXCEPT !.waits = 0]
             n == conn[c].fired + conn[c].waits
  <2>1. a \in Connection
    BY FieldType
  <2>2. b \in Connection
    BY <2>1, FieldType
  <2>3. n \in Nat
    BY DEF Connection
  <2>4. [b EXCEPT !.fired = n] \in Connection
    BY <2>2, <2>3, FieldType
  <2>5. [b EXCEPT !.fired = n]
          = [conn[c] EXCEPT !.deadline = "past", !.waits = 0, !.fired = conn[c].fired + conn[c].waits]
    BY Zenon
  <2>6. QED
    BY <1>1, <1>13, <2>4, <2>5 DEF Elapse
<1>14. CASE UNCHANGED vars
  BY <1>14 DEF vars
<1>15. QED
  BY <1>2, <1>3, <1>4, <1>5, <1>6, <1>7, <1>8, <1>9, <1>10, <1>11, <1>12, <1>13, <1>14
  DEF Next, Handlers, Environment

\* The variables keep their types, whatever the application does: in
\* particular no counter of timer waits is taken below zero.
THEOREM TypeCorrect == Spec => []TypeOK
<1>1. ConstantsAssumption
  BY ConstantsAssumption
<1>2. Init => TypeOK
  BY <1>1, InitType
<1>3. TypeOK /\ [Next]_vars => TypeOK'
  BY <1>1, NextType
<1>4. QED
  BY <1>2, <1>3, PTL DEF Spec

-----------------------------------------------------------------------------
(* The handlers of one connection keep the invariant.                      *)

\* A connection inside a handler, before its response was begun: nothing is
\* outstanding and no deadline is in force.
Handling(s) ==
    /\ s \in Connection /\ s.life = "managed"
    /\ s.rd = "idle" /\ s.wr = "idle" /\ ~s.sent /\ s.deadline = "inf"
    /\ s.hs \notin {"pending", "ok", "failed"}
    /\ s.timeouts <= 1 /\ (s.open => s.timeouts = 0)

\* The same after the response's header was begun.
Answering(s) ==
    /\ s \in Connection /\ s.life = "managed"
    /\ s.rd = "idle" /\ s.wr = "idle" /\ s.sent /\ s.deadline = "inf"
    /\ s.stage = "answered"
    /\ s.hs \notin {"pending", "ok", "failed"}
    /\ s.timeouts <= 1 /\ (s.open => s.timeouts = 0)

\* What a handler that keeps the connection leaves behind.
Continues(s, t) ==
    /\ t \in Connection /\ ConnInv(t) /\ t.life = "managed" /\ t.open = s.open
    /\ s.stage # "receiving" => t.stage # "receiving"
    /\ s.sent => t.sent

\* What a handler that removes the connection leaves behind.
Removed(t) == t \in Connection /\ ConnInv(t) /\ t.life = "freed" /\ ~Queued(t)

\* The application's stage, the read callback and the number of pieces do not
\* matter to Handling.
LEMMA HandlingFields ==
    ASSUME NEW s, Handling(s)
    PROVE  /\ \A x \in Stages :
                 /\ Handling([s EXCEPT !.stage = x])
                 /\ [s EXCEPT !.stage = x].stage = x
                 /\ [s EXCEPT !.stage = x].open = s.open
                 /\ [s EXCEPT !.stage = x].cb = s.cb
           /\ \A x \in {"none", "header", "body"} :
                 /\ Handling([s EXCEPT !.cb = x])
                 /\ [s EXCEPT !.cb = x].stage = s.stage
                 /\ [s EXCEPT !.cb = x].open = s.open
                 /\ [s EXCEPT !.cb = x].cb = x
           /\ \A x \in Parts :
                 /\ Handling([s EXCEPT !.parts = x])
                 /\ [s EXCEPT !.parts = x].stage = s.stage
                 /\ [s EXCEPT !.parts = x].open = s.open
                 /\ [s EXCEPT !.parts = x].cb = s.cb
<1>1. s \in Connection
  BY DEF Handling
<1>2. ASSUME NEW x \in Stages
      PROVE  /\ Handling([s EXCEPT !.stage = x])
             /\ [s EXCEPT !.stage = x].stage = x
             /\ [s EXCEPT !.stage = x].open = s.open
             /\ [s EXCEPT !.stage = x].cb = s.cb
  <2> DEFINE t == [s EXCEPT !.stage = x]
  <2>1. t \in Connection
    BY <1>1, FieldType
  <2>2. /\ t.stage = x /\ t.open = s.open /\ t.cb = s.cb /\ t.life = s.life
        /\ t.rd = s.rd /\ t.wr = s.wr /\ t.sent = s.sent /\ t.deadline = s.deadline
        /\ t.hs = s.hs /\ t.timeouts = s.timeouts
    BY <1>1 DEF Connection
  <2> HIDE DEF t
  <2>3. Handling(t)
    BY <2>1, <2>2 DEF Handling
  <2>4. QED
    BY <2>2, <2>3 DEF t
<1>3. ASSUME NEW x \in {"none", "header", "body"}
      PROVE  /\ Handling([s EXCEPT !.cb = x])
             /\ [s EXCEPT !.cb = x].stage = s.stage
             /\ [s EXCEPT !.cb = x].open = s.open
             /\ [s EXCEPT !.cb = x].cb = x
  <2> DEFINE t == [s EXCEPT !.cb = x]
  <2>1. t \in Connection
    BY <1>1, FieldType
  <2>2. /\ t.stage = s.stage /\ t.open = s.open /\ t.cb = x /\ t.life = s.life
        /\ t.rd = s.rd /\ t.wr = s.wr /\ t.sent = s.sent /\ t.deadline = s.deadline
        /\ t.hs = s.hs /\ t.timeouts = s.timeouts
    BY <1>1 DEF Connection
  <2> HIDE DEF t
  <2>3. Handling(t)
    BY <2>1, <2>2 DEF Handling
  <2>4. QED
    BY <2>2, <2>3 DEF t
<1>4. ASSUME NEW x \in Parts
      PROVE  /\ Handling([s EXCEPT !.parts = x])
             /\ [s EXCEPT !.parts = x].stage = s.stage
             /\ [s EXCEPT !.parts = x].open = s.open
             /\ [s EXCEPT !.parts = x].cb = s.cb
  <2> DEFINE t == [s EXCEPT !.parts = x]
  <2>1. t \in Connection
    BY <1>1, FieldType
  <2>2. /\ t.stage = s.stage /\ t.open = s.open /\ t.cb = s.cb /\ t.life = s.life
        /\ t.rd = s.rd /\ t.wr = s.wr /\ t.sent = s.sent /\ t.deadline = s.deadline
        /\ t.hs = s.hs /\ t.timeouts = s.timeouts
    BY <1>1 DEF Connection
  <2> HIDE DEF t
  <2>3. Handling(t)
    BY <2>1, <2>2 DEF Handling
  <2>4. QED
    BY <2>2, <2>3 DEF t
<1>5. QED
  BY <1>2, <1>3, <1>4

\* read() starts a timed read: what read() is called for goes with the stage.
LEMMA ReadContinues ==
    ASSUME NEW s, Handling(s),
           s.stage = IF s.cb = "header" THEN "receiving" ELSE "reading"
    PROVE  Continues(s, Read(s))
<1> DEFINE x == IF s.open THEN "pending" ELSE "err"
           t == Read(s)
<1>1. s \in Connection
  BY DEF Handling
<1>2. t \in Connection
  BY <1>1, ReadType
<1>3. /\ t.rd = x /\ t.waits = 1 /\ t.deadline = "armed"
      /\ t.wr = s.wr /\ t.wk = s.wk /\ t.sent = s.sent /\ t.stage = s.stage /\ t.cb = s.cb
      /\ t.life = s.life /\ t.hs = s.hs /\ t.open = s.open /\ t.timeouts = s.timeouts
  BY <1>1 DEF Handling, Read, Connection
<1> HIDE DEF t
<1>4. OperationsFitStage(t)
  BY <1>1, <1>3 DEF OperationsFitStage, Handling, Connection
<1>5. DeadlineFitsRead(t)
  BY <1>3 DEF DeadlineFitsRead, Handling
<1>6. NothingPending(t)
  BY <1>1, <1>3 DEF NothingPending, Handling, Connection
<1>7. QED
  BY <1>2, <1>3, <1>4, <1>5, <1>6 DEF ConnInv, Continues, Handling, t

\* A write of a response, begun or continued.
LEMMA WriteContinues ==
    ASSUME NEW s, Answering(s), NEW k \in {"header", "body", "end"}
    PROVE  Continues(s, Write(s, k))
<1> DEFINE x == IF s.open THEN "pending" ELSE "err"
           t == Write(s, k)
<1>1. s \in Connection
  BY DEF Answering
<1>2. t \in Connection
  BY <1>1, WriteType DEF WriteKinds
<1>3. /\ t.wr = x /\ t.wk = k
      /\ t.rd = s.rd /\ t.waits = s.waits /\ t.deadline = s.deadline
      /\ t.sent = s.sent /\ t.stage = s.stage /\ t.cb = s.cb
      /\ t.life = s.life /\ t.hs = s.hs /\ t.open = s.open /\ t.timeouts = s.timeouts
  BY <1>1 DEF Answering, Write, Connection
<1> HIDE DEF t
<1>4. OperationsFitStage(t)
  BY <1>1, <1>3 DEF OperationsFitStage, Answering, Connection
<1>5. DeadlineFitsRead(t)
  BY <1>3 DEF DeadlineFitsRead, Answering
<1>6. NothingPending(t)
  BY <1>1, <1>3 DEF NothingPending, Answering, Connection
<1>7. QED
  BY <1>2, <1>3, <1>4, <1>5, <1>6 DEF ConnInv, Continues, Answering, t

\* The write of "100 Continue".
LEMMA ContinueContinues ==
    ASSUME NEW s, Handling(s)
    PROVE  Continues(s, AcceptAndContinue(s))
<1> DEFINE x == IF s.open THEN "pending" ELSE "err"
           u == [s EXCEPT !.stage = "reading"]
           t == Write(u, "continue")
<1>1. Handling(u) /\ u.stage = "reading" /\ u.open = s.open
  <2>1. "reading" \in Stages
    BY DEF Stages
  <2>2. QED
    BY <2>1, HandlingFields, Zenon
<1> HIDE DEF u
<1>2. u \in Connection
  BY <1>1 DEF Handling
<1>3. t \in Connection
  BY <1>2, WriteType DEF WriteKinds
<1>4. /\ t.wr = x /\ t.wk = "continue"
      /\ t.rd = u.rd /\ t.waits = u.waits /\ t.deadline = u.deadline
      /\ t.sent = u.sent /\ t.stage = u.stage /\ t.cb = u.cb
      /\ t.life = u.life /\ t.hs = u.hs /\ t.open = u.open /\ t.timeouts = u.timeouts
  BY <1>1, <1>2 DEF Handling, Write, Connection
<1> HIDE DEF t
<1>5. OperationsFitStage(t)
  BY <1>1, <1>2, <1>4 DEF OperationsFitStage, Handling, Connection
<1>6. DeadlineFitsRead(t)
  BY <1>1, <1>4 DEF DeadlineFitsRead, Handling
<1>7. NothingPending(t)
  BY <1>1, <1>2, <1>4 DEF NothingPending, Handling, Connection
<1>8. Continues(s, t)
  BY <1>1, <1>3, <1>4, <1>5, <1>6, <1>7 DEF ConnInv, Continues, Handling
<1>9. QED
  BY <1>8 DEF t, u, AcceptAndContinue

\* Completing the response, now or later.
LEMMA RespondContinues ==
    ASSUME NEW s, Handling(s), NEW reply \in Replies
    PROVE  Continues(s, Respond(s, reply))
<1> DEFINE u == [s EXCEPT !.stage = "answered"]
           v == [u EXCEPT !.sent = TRUE]
           d == [s EXCEPT !.stage = "holding"]
<1>1. Handling(u) /\ u.stage = "answered" /\ u.open = s.open
  <2>1. "answered" \in Stages
    BY DEF Stages
  <2>2. QED
    BY <2>1, HandlingFields, Zenon
<1>2. Handling(d) /\ d.stage = "holding" /\ d.open = s.open
  <2>1. "holding" \in Stages
    BY DEF Stages
  <2>2. QED
    BY <2>1, HandlingFields, Zenon
<1> HIDE DEF u, d
<1>3. Answering(v) /\ v.open = s.open
  <2>1. u \in Connection
    BY <1>1 DEF Handling
  <2>2. v \in Connection
    BY <2>1, FieldType
  <2>3. /\ v.sent = TRUE /\ v.stage = u.stage /\ v.open = u.open /\ v.life = u.life
        /\ v.rd = u.rd /\ v.wr = u.wr /\ v.deadline = u.deadline
        /\ v.hs = u.hs /\ v.timeouts = u.timeouts
    BY <2>1 DEF Connection
  <2> HIDE DEF v
  <2>4. QED
    BY <1>1, <2>2, <2>3 DEF Answering, Handling
<1> HIDE DEF v
<1>4. Send(u) = Write(v, "header") /\ End(u) = Write(v, "end")
  BY <1>1 DEF Send, End, Handling, v
<1>5. \A k \in {"header", "end"} : Continues(s, Write(v, k))
  <2>1. ASSUME NEW k \in {"header", "end"}
        PROVE  Continues(s, Write(v, k))
    <3>1. Continues(v, Write(v, k))
      BY <1>3, WriteContinues
    <3>2. QED
      BY <1>3, <3>1 DEF Continues, Answering
  <2>2. QED
    BY <2>1
<1>6. Continues(s, d)
  <2>1. OperationsFitStage(d) /\ DeadlineFitsRead(d) /\ NothingPending(d)
    BY <1>2 DEF OperationsFitStage, DeadlineFitsRead, NothingPending, Handling
  <2>2. QED
    BY <1>2, <2>1 DEF Continues, ConnInv, Handling
<1>7. QED
  BY <1>4, <1>5, <1>6 DEF Respond, Replies, u, d

\* Starting to read the body.
LEMMA ReadBodyContinues ==
    ASSUME NEW s, Handling(s), NEW t \in ReadBody(s), ConstantsAssumption
    PROVE  Continues(s, t)
<1> DEFINE b == [s EXCEPT !.cb = "body"]
           u == [b EXCEPT !.stage = "reading"]
           v == [u EXCEPT !.parts = MaxParts]
<1>1. Handling(b) /\ b.cb = "body" /\ b.open = s.open /\ b.stage = s.stage
  BY HandlingFields, Zenon
<1> HIDE DEF b
<1>2. Handling(u) /\ u.stage = "reading" /\ u.open = b.open /\ u.cb = b.cb
  <2>1. "reading" \in Stages
    BY DEF Stages
  <2>2. QED
    BY <1>1, <2>1, HandlingFields, ZenonT(30)
<1>3. v = [b EXCEPT !.stage = "reading", !.parts = MaxParts]
  BY Zenon
<1> HIDE DEF u
<1>4. Handling(v) /\ v.stage = u.stage /\ v.open = u.open /\ v.cb = u.cb
  <2>1. MaxParts \in Parts
    BY DEF Parts, ConstantsAssumption
  <2>2. QED
    BY <1>2, <2>1, HandlingFields, Zenon
<1> HIDE DEF v
<1>5. Continues(v, Read(v))
  BY <1>1, <1>2, <1>4, ReadContinues
<1>6. Continues(s, Read(v))
  BY <1>1, <1>2, <1>4, <1>5 DEF Continues, Handling
<1>7. \A reply \in Replies : Continues(s, Respond(b, reply))
  <2>1. \A reply \in Replies : Continues(b, Respond(b, reply))
    BY <1>1, RespondContinues
  <2>2. QED
    BY <1>1, <2>1 DEF Continues, Handling
<1>8. QED
  BY <1>3, <1>6, <1>7 DEF ReadBody, b

\* One more piece of the message whose read handler is running.
LEMMA NextPieceContinues ==
    ASSUME NEW s, Handling(s), s.parts > 0, ConstantsAssumption,
           s.stage = IF s.cb = "header" THEN "receiving" ELSE "reading"
    PROVE  Continues(s, Read([s EXCEPT !.parts = s.parts - 1]))
<1> DEFINE u == [s EXCEPT !.parts = s.parts - 1]
<1>1. s.parts - 1 \in Parts
  <2>1. s.parts \in 0 .. MaxParts /\ MaxParts \in Nat
    BY DEF Handling, Connection, Parts, ConstantsAssumption
  <2>2. QED
    BY <2>1 DEF Parts
<1>2. Handling(u) /\ u.stage = s.stage /\ u.open = s.open /\ u.cb = s.cb
  BY <1>1, HandlingFields, Zenon
<1> HIDE DEF u
<1>3. Continues(u, Read(u))
  BY <1>2, ReadContinues
<1>4. Continues(s, Read(u))
  BY <1>2, <1>3 DEF Continues, Handling
<1>5. QED
  BY <1>4 DEF u

\* A callback of a disciplined application.
LEMMA CallbackContinues ==
    ASSUME NEW s, Handling(s), NEW t \in Callback(s), Disciplined, ConstantsAssumption
    PROVE  Continues(s, t)
<1>1. CASE t \in Acts(s)
  BY <1>1, RespondContinues, ReadBodyContinues, ContinueContinues DEF Acts
<1>2. CASE t = [s EXCEPT !.stage = "silent"]
  <2>1. Handling(t) /\ t.stage = "silent" /\ t.open = s.open
    <3>1. "silent" \in Stages
      BY DEF Stages
    <3>2. QED
      BY <1>2, <3>1, HandlingFields, ZenonT(30)
  <2>2. OperationsFitStage(t) /\ DeadlineFitsRead(t) /\ NothingPending(t)
    BY <2>1 DEF OperationsFitStage, DeadlineFitsRead, NothingPending, Handling
  <2>3. QED
    BY <2>1, <2>2 DEF Continues, ConnInv, Handling
<1>3. "throwAfterAct" \notin Env
  BY DEF Disciplined
<1>4. QED
  BY <1>1, <1>2, <1>3 DEF Callback

\* Removing a connection inside a handler.
LEMMA FreeRemoves ==
    ASSUME NEW s, Answering(s) \/ (Handling(s) /\ s.stage # "answered")
    PROVE  Removed(Free(s))
<1> DEFINE t == Free(s)
<1>1. /\ s \in Connection /\ s.life = "managed" /\ s.rd = "idle" /\ s.wr = "idle"
      /\ s.deadline = "inf" /\ s.hs \notin {"pending", "ok", "failed"} /\ s.timeouts <= 1
      /\ s.sent <=> s.stage = "answered"
  BY DEF Answering, Handling
<1>2. t \in Connection
  BY <1>1, FreeType
<1>3. /\ t.life = "freed" /\ t.open = FALSE /\ t.waits = 0
      /\ t.rd = "idle" /\ t.wr = "idle" /\ t.deadline = "inf" /\ t.hs = s.hs
      /\ t.timeouts = s.timeouts /\ t.sent = s.sent /\ t.stage = s.stage
  <2>1. Stop(s) \in Connection
    BY <1>1, StopType
  <2>2. /\ Stop(s).open = FALSE
        /\ Stop(s).rd = "idle" /\ Stop(s).wr = "idle" /\ Stop(s).deadline = "inf"
        /\ Stop(s).hs = s.hs /\ Stop(s).timeouts = s.timeouts
        /\ Stop(s).sent = s.sent /\ Stop(s).stage = s.stage
    BY <1>1 DEF Stop, Connection
  <2>3. QED
    BY <2>1, <2>2 DEF Free, Connection
<1> HIDE DEF t
<1>4. ~Queued(t)
  BY <1>1, <1>3 DEF Queued
<1>5. OperationsFitStage(t) /\ DeadlineFitsRead(t) /\ NothingPending(t)
  BY <1>1, <1>3 DEF OperationsFitStage, DeadlineFitsRead, NothingPending
<1>6. QED
  BY <1>2, <1>3, <1>4, <1>5 DEF Removed, ConnInv, t

-----------------------------------------------------------------------------
(* One step of one connection.                                             *)

\* What every handler guarantees about the connection it runs for: the
\* invariant, nothing queued on removal, removal only by the last handler, a
\* deadline that closes only a connection that reads, no way back.
ConnStep(s, t) ==
    /\ t \in Connection /\ ConnInv(t) /\ t.life # "none"
    /\ t.life = "freed" =>
          /\ ~Queued(t)
          /\ IF s.stage = "receiving" THEN s.rd \in Done ELSE s.sent /\ s.wr \in {"ok", "err"}
    /\ t.life = "managed" /\ s.open /\ ~t.open => s.rd # "idle"
    /\ t.life = "managed" => /\ s.stage # "receiving" => t.stage # "receiving"
                             /\ s.sent => t.sent

\* The head of the read handler leads to Handling.
LEMMA ReadDoneHandling ==
    ASSUME NEW s \in Connection, ConnInv(s), s.life = "managed", s.rd \in Done
    PROVE  LET u == ReadDone(s)
           IN  /\ Handling(u) /\ u.stage = s.stage /\ u.cb = s.cb
               /\ u.open = s.open /\ u.sent = s.sent
<1> DEFINE u == ReadDone(s)
<1>1. u \in Connection
  BY ReadType
<1>2. /\ u.rd = "idle" /\ u.deadline = "inf" /\ u.waits = 0
      /\ u.life = s.life /\ u.wr = s.wr /\ u.sent = s.sent /\ u.hs = s.hs
      /\ u.timeouts = s.timeouts /\ u.open = s.open /\ u.stage = s.stage /\ u.cb = s.cb
  BY DEF ReadDone, Connection
<1> HIDE DEF u
<1>3. s.rd # "idle"
  BY DEF Done
<1>4. Handling(u)
  BY <1>1, <1>2, <1>3 DEF Handling, ConnInv, OperationsFitStage, DeadlineFitsRead
<1>5. QED
  BY <1>2, <1>4 DEF u

\* The handler of a completed read is a step of its connection.
LEMMA ReadHandlerStep ==
    ASSUME NEW s \in Connection, ConnInv(s), s.life = "managed", s.rd \in Done,
           NEW t \in ReadHandler(s), Disciplined, ConstantsAssumption
    PROVE  ConnStep(s, t)
<1> DEFINE u == ReadDone(s)
<1>1. /\ Handling(u) /\ u.stage = s.stage /\ u.cb = s.cb
      /\ u.open = s.open /\ u.sent = s.sent
  BY ReadDoneHandling
<1>2. s.stage = IF s.cb = "header" THEN "receiving" ELSE "reading"
  BY DEF ConnInv, OperationsFitStage, Done
<1>3. t \in IF u.cb = "header" THEN HeaderReadHandler(u, s.rd) ELSE BodyReadHandler(u, s.rd)
  BY <1>1 DEF ReadHandler
<1> HIDE DEF u
<1>4. ASSUME Continues(u, t) PROVE ConnStep(s, t)
  BY <1>1, <1>4 DEF Continues, ConnStep
<1>5. ASSUME Removed(t), s.cb = "header" PROVE ConnStep(s, t)
  BY <1>2, <1>5 DEF Removed, ConnStep
<1>6. CASE s.cb = "header"
  <2>1. u.stage # "answered"
    BY <1>1, <1>2, <1>6
  <2>2. Removed(Free(u))
    BY <1>1, <2>1, FreeRemoves
  <2>3. Continues(u, Respond(u, "send"))
    BY <1>1, RespondContinues DEF Replies
  <2>4. u.parts > 0 => Continues(u, Read([u EXCEPT !.parts = u.parts - 1]))
    BY <1>1, <1>2, NextPieceContinues
  <2>5. \A v \in Callback(u) : Continues(u, v)
    BY <1>1, CallbackContinues
  <2>6. QED
    BY <1>1, <1>3, <1>4, <1>5, <1>6, <2>2, <2>3, <2>4, <2>5
    DEF HeaderReadHandler, HeaderChunkRead
<1>7. CASE s.cb # "header"
  <2>1. \A reply \in Replies : Continues(u, Respond(u, reply))
    BY <1>1, RespondContinues
  <2>2. u.parts > 0 => Continues(u, Read([u EXCEPT !.parts = u.parts - 1]))
    BY <1>1, <1>2, NextPieceContinues
  <2>3. Continues(u, [u EXCEPT !.stage = "abandoned"])
    <3> DEFINE v == [u EXCEPT !.stage = "abandoned"]
    <3>1. Handling(v) /\ v.stage = "abandoned" /\ v.open = u.open
      <4>1. "abandoned" \in Stages
        BY DEF Stages
      <4>2. QED
        BY <1>1, <4>1, HandlingFields, ZenonT(30)
    <3> HIDE DEF v
    <3>2. OperationsFitStage(v) /\ DeadlineFitsRead(v) /\ NothingPending(v)
      BY <3>1 DEF OperationsFitStage, DeadlineFitsRead, NothingPending, Handling
    <3>3. Continues(u, v)
      BY <1>1, <3>1, <3>2 DEF Continues, ConnInv, Handling
    <3>4. QED
      BY <3>3 DEF v
  <2>4. End([u EXCEPT !.stage = "answered"]) = Respond(u, "end")
    BY DEF Respond
  <2>5. Continues(u, BodyReadFailed(u, s.rd))
    BY <2>1, <2>3, <2>4 DEF BodyReadFailed, Replies
  <2>6. QED
    BY <1>1, <1>3, <1>4, <1>7, <2>1, <2>2, <2>5 DEF BodyReadHandler, BodyChunkRead
<1>8. QED
  BY <1>6, <1>7

\* The handler of a completed write is a step of its connection.
LEMMA WriteHandlerStep ==
    ASSUME NEW s \in Connection, ConnInv(s), s.life = "managed", s.wr \in {"ok", "err"},
           NEW t \in WriteHandler(s), ConstantsAssumption
    PROVE  ConnStep(s, t)
<1> DEFINE w == [s EXCEPT !.wr = "idle", !.wk = "none"]
<1>1. w \in Connection
  <2> DEFINE a == [s EXCEPT !.wr = "idle"]
  <2>1. a \in Connection
    BY FieldType DEF WriteStates
  <2>2. [a EXCEPT !.wk = "none"] \in Connection
    BY <2>1, FieldType DEF WriteKinds
  <2>3. w = [a EXCEPT !.wk = "none"]
    BY Zenon
  <2>4. QED
    BY <2>2, <2>3
<1>2. /\ w.wr = "idle" /\ w.wk = "none" /\ w.rd = s.rd /\ w.deadline = s.deadline
      /\ w.life = s.life /\ w.sent = s.sent /\ w.hs = s.hs /\ w.parts = s.parts
      /\ w.timeouts = s.timeouts /\ w.open = s.open /\ w.stage = s.stage /\ w.cb = s.cb
  BY DEF Connection
<1> HIDE DEF w
<1>3. /\ s.rd = "idle" /\ s.deadline = "inf" /\ s.hs \notin {"pending", "ok", "failed"}
      /\ s.timeouts <= 1 /\ (s.open => s.timeouts = 0)
      /\ s.stage # "receiving" /\ (s.sent <=> s.stage = "answered")
      /\ IF s.wk = "continue" THEN ~s.sent ELSE s.wk # "none" /\ s.sent
  BY DEF ConnInv, OperationsFitStage, DeadlineFitsRead
<1>4. ASSUME Continues(w, t) PROVE ConnStep(s, t)
  BY <1>2, <1>4 DEF Continues, ConnStep
<1>5. ASSUME Removed(t), s.sent PROVE ConnStep(s, t)
  BY <1>3, <1>5 DEF Removed, ConnStep
<1>6. CASE s.wk = "continue"
  <2>1. Handling(w)
    BY <1>1, <1>2, <1>3, <1>6 DEF Handling
  <2>2. \A v \in ReadBody(w) : Continues(w, v)
    BY <2>1, ReadBodyContinues
  <2>3. Continues(w, Respond(w, "end"))
    BY <2>1, RespondContinues DEF Replies
  <2>4. t \in IF s.wr = "ok" THEN ReadBody(w) ELSE {Respond(w, "end")}
    BY <1>6 DEF WriteHandler, w
  <2>5. QED
    BY <1>4, <2>2, <2>3, <2>4
<1>7. CASE s.wk # "continue"
  <2>1. Answering(w) /\ s.sent
    BY <1>1, <1>2, <1>3, <1>7 DEF Answering
  <2>2. Removed(Free(w)) /\ End(w) = Free(w)
    BY <1>2, <2>1, FreeRemoves DEF End
  <2>3. ASSUME NEW n \in Parts
        PROVE  Continues(w, Write([w EXCEPT !.parts = n], "body"))
    <3> DEFINE v == [w EXCEPT !.parts = n]
    <3>1. v \in Connection
      BY <1>1, FieldType
    <3>2. /\ v.wr = w.wr /\ v.rd = w.rd /\ v.deadline = w.deadline /\ v.life = w.life
          /\ v.sent = w.sent /\ v.hs = w.hs /\ v.timeouts = w.timeouts
          /\ v.open = w.open /\ v.stage = w.stage
      BY <1>1 DEF Connection
    <3> HIDE DEF v
    <3>3. Answering(v)
      BY <2>1, <3>1, <3>2 DEF Answering
    <3>4. Continues(v, Write(v, "body"))
      BY <3>3, WriteContinues
    <3>5. Continues(w, Write(v, "body"))
      BY <3>2, <3>4 DEF Continues
    <3>6. QED
      BY <3>5 DEF v
  <2>4. MaxParts \in Parts /\ (s.parts > 0 => s.parts - 1 \in Parts)
    BY DEF Parts, Connection, ConstantsAssumption
  <2>5. \/ t \in {Free(w), Write([w EXCEPT !.parts = MaxParts], "body")}
        \/ s.parts > 0 /\ t = Write([w EXCEPT !.parts = s.parts - 1], "body")
    BY <1>7, <2>2 DEF WriteHandler, w
  <2>6. QED
    BY <1>4, <1>5, <2>1, <2>2, <2>3, <2>4, <2>5
<1>8. QED
  BY <1>6, <1>7

\* Closing the socket at a deadline: only a read can be under way.
LEMMA StopStep ==
    ASSUME NEW s \in Connection, s.life = "managed", s.open, s.timeouts <= 1,
           OperationsFitStage(s), s.rd # "idle"
    PROVE  LET t == Stop(s)
           IN  /\ t \in Connection /\ ConnInv(t) /\ t.life = "managed"
               /\ t.stage = s.stage /\ t.sent = s.sent
<1> DEFINE t == Stop(s)
           x == IF s.rd = "pending" THEN "aborted" ELSE s.rd
<1>1. t \in Connection
  BY StopType
<1>2. s.wr = "idle" /\ s.hs \notin {"pending", "ok", "failed"}
  BY DEF OperationsFitStage
<1>3. /\ t.open = FALSE /\ t.waits = 0 /\ t.rd = x /\ t.wr = s.wr /\ t.hs = s.hs
      /\ t.life = s.life /\ t.stage = s.stage /\ t.sent = s.sent /\ t.cb = s.cb
      /\ t.wk = s.wk /\ t.deadline = s.deadline /\ t.timeouts = s.timeouts
  BY <1>2 DEF Stop, Connection
<1> HIDE DEF t
<1>4. OperationsFitStage(t)
  BY <1>2, <1>3 DEF OperationsFitStage
<1>5. DeadlineFitsRead(t)
  BY <1>3 DEF DeadlineFitsRead
<1>6. NothingPending(t)
  BY <1>2, <1>3 DEF NothingPending
<1>7. QED
  BY <1>1, <1>3, <1>4, <1>5, <1>6 DEF ConnInv, t

\* check_deadline() of a disciplined application is a step of its connection.
LEMMA CheckDeadlineStep ==
    ASSUME NEW s \in Connection, ConnInv(s), s.life = "managed", s.fired > 0,
           NEW t \in CheckDeadline(s), Disciplined
    PROVE  ConnStep(s, t)
<1> DEFINE w == [s EXCEPT !.fired = s.fired - 1]
<1>1. w \in Connection
  <2>1. s.fired - 1 \in Nat
    BY DEF Connection
  <2>2. QED
    BY <2>1, FieldType
<1>2. /\ w.fired = s.fired - 1 /\ w.waits = s.waits /\ w.deadline = s.deadline
      /\ w.rd = s.rd /\ w.wr = s.wr /\ w.wk = s.wk /\ w.hs = s.hs /\ w.life = s.life
      /\ w.sent = s.sent /\ w.stage = s.stage /\ w.cb = s.cb /\ w.open = s.open
      /\ w.timeouts = s.timeouts
  BY DEF Connection
<1> HIDE DEF w
<1>3. OperationsFitStage(s) /\ DeadlineFitsRead(s) /\ NothingPending(s)
  BY DEF ConnInv
<1>4. OperationsFitStage(w) /\ NothingPending(w)
  BY <1>2, <1>3 DEF OperationsFitStage, NothingPending
<1>5. CASE ~s.open
  <2>1. t = w
    BY <1>5 DEF CheckDeadline, w
  <2>2. DeadlineFitsRead(w)
    BY <1>2, <1>3, <1>5 DEF DeadlineFitsRead, NothingPending
  <2>3. QED
    BY <1>1, <1>2, <1>4, <1>5, <2>1, <2>2 DEF ConnStep, ConnInv
<1>6. CASE s.open /\ s.deadline = "past"
  <2> DEFINE u == [w EXCEPT !.timeouts = w.timeouts + 1]
  <2>1. t = Stop(u)
    BY <1>6 DEF CheckDeadline, TimedOut, Disciplined, w
  <2>2. u \in Connection
    <3>1. w.timeouts + 1 \in Nat
      BY <1>1 DEF Connection
    <3>2. QED
      BY <1>1, <3>1, FieldType
  <2>3. /\ u.timeouts = w.timeouts + 1
        /\ u.rd = w.rd /\ u.wr = w.wr /\ u.wk = w.wk /\ u.hs = w.hs /\ u.life = w.life
        /\ u.sent = w.sent /\ u.stage = w.stage /\ u.cb = w.cb /\ u.open = w.open
    BY <1>1 DEF Connection
  <2> HIDE DEF u
  <2>4. u.rd # "idle" /\ u.timeouts <= 1
    BY <1>2, <1>3, <1>6, <2>3 DEF DeadlineFitsRead
  <2>5. OperationsFitStage(u)
    BY <1>4, <2>3 DEF OperationsFitStage
  <2>6. /\ t \in Connection /\ ConnInv(t) /\ t.life = "managed"
        /\ t.stage = u.stage /\ t.sent = u.sent
    BY <1>2, <1>6, <2>1, <2>2, <2>3, <2>4, <2>5, StopStep
  <2>7. QED
    BY <1>2, <2>3, <2>4, <2>6 DEF ConnStep
<1>7. CASE s.open /\ s.deadline # "past"
  <2> DEFINE u == [w EXCEPT !.waits = s.waits + 1]
  <2>1. t = u
    BY <1>7 DEF CheckDeadline, w
  <2>2. s.waits + 1 \in Nat /\ s.waits + 1 > 0
    BY DEF Connection
  <2>3. u \in Connection
    BY <1>1, <2>2, FieldType
  <2>4. /\ u.waits = s.waits + 1 /\ u.fired = w.fired /\ u.deadline = w.deadline
        /\ u.rd = w.rd /\ u.wr = w.wr /\ u.wk = w.wk /\ u.hs = w.hs /\ u.life = w.life
        /\ u.sent = w.sent /\ u.stage = w.stage /\ u.cb = w.cb /\ u.open = w.open
        /\ u.timeouts = w.timeouts
    BY <1>1 DEF Connection
  <2> HIDE DEF u
  <2>5. OperationsFitStage(u)
    BY <1>4, <2>4 DEF OperationsFitStage
  <2>6. DeadlineFitsRead(u)
    BY <1>2, <1>3, <1>7, <2>2, <2>4 DEF DeadlineFitsRead
  <2>7. NothingPending(u)
    BY <1>2, <1>4, <2>4 DEF NothingPending
  <2>8. QED
    BY <1>2, <2>1, <2>3, <2>4, <2>5, <2>6, <2>7 DEF ConnStep, ConnInv
<1>8. QED
  BY <1>5, <1>6, <1>7

\* A new connection that starts to read, at once or after its handshake.
LEMMA BeginStep ==
    ASSUME NEW s, Handling(s), s.stage = "receiving"
    PROVE  LET t == BeginHeader(s)
           IN  /\ t \in Connection /\ ConnInv(t) /\ t.life = "managed"
               /\ t.open = s.open /\ t.stage = "receiving"
<1> DEFINE u == [s EXCEPT !.cb = "header"]
<1>1. Handling(u) /\ u.stage = s.stage /\ u.open = s.open /\ u.cb = "header"
  BY HandlingFields, Zenon
<1> HIDE DEF u
<1>2. Continues(u, Read(u))
  BY <1>1, ReadContinues
<1>3. Read(u).stage = u.stage
  BY <1>1 DEF Handling, Read, Connection
<1>4. QED
  BY <1>1, <1>2, <1>3 DEF BeginHeader, Continues, u

\* do_accept() makes a connection the invariant holds of.
LEMMA AcceptStep ==
    ASSUME ConstantsAssumption
    PROVE  \A t \in {BeginHeader(NewConnection), [NewConnection EXCEPT !.hs = "pending"]} :
               /\ t \in Connection /\ ConnInv(t) /\ t.life = "managed"
               /\ t.open /\ t.stage = "receiving"
<1>1. NewConnection \in Connection
  BY NewConnectionType
<1>2. Handling(NewConnection)
  BY <1>1 DEF Handling, NewConnection
<1>3. NewConnection.stage = "receiving" /\ NewConnection.open
  BY DEF NewConnection
<1> DEFINE t == [NewConnection EXCEPT !.hs = "pending"]
<1>4. t \in Connection
  BY <1>1, FieldType DEF HandshakeStates
<1>5. /\ t.hs = "pending" /\ t.rd = "idle" /\ t.wr = "idle" /\ t.life = "managed"
      /\ t.sent = FALSE /\ t.stage = "receiving" /\ t.open = TRUE /\ t.deadline = "inf"
      /\ t.timeouts = 0
  BY DEF NewConnection
<1> HIDE DEF t
<1>6. ConnInv(t)
  BY <1>5 DEF ConnInv, OperationsFitStage, DeadlineFitsRead, NothingPending
<1>7. /\ t \in Connection /\ ConnInv(t) /\ t.life = "managed"
      /\ t.open /\ t.stage = "receiving"
  BY <1>4, <1>5, <1>6
<1>8. QED
  BY ZenonT(40), <1>2, <1>3, <1>7, BeginStep DEF t

\* The handler of a completed handshake is a step of its connection.
LEMMA HandshakeStep ==
    ASSUME NEW s \in Connection, ConnInv(s), s.life = "managed"
    PROVE  /\ s.hs = "ok" => ConnStep(s, BeginHeader([s EXCEPT !.hs = "done"]))
           /\ s.hs = "failed" => ConnStep(s, [s EXCEPT !.hs = "refused"])
<1> DEFINE F(x) == [s EXCEPT !.hs = x]
<1>1. ASSUME NEW x \in {"done", "refused"}, s.hs \in {"ok", "failed"}
      PROVE  /\ Handling(F(x)) /\ ConnInv(F(x)) /\ F(x).open = s.open
             /\ F(x).stage = "receiving" /\ ~F(x).sent /\ ~s.sent /\ s.stage = "receiving"
  <2> DEFINE t == F(x)
  <2>1. t \in Connection
    BY FieldType DEF HandshakeStates
  <2>2. /\ t.hs = x /\ t.rd = s.rd /\ t.wr = s.wr /\ t.wk = s.wk /\ t.life = s.life
        /\ t.sent = s.sent /\ t.stage = s.stage /\ t.open = s.open /\ t.deadline = s.deadline
        /\ t.timeouts = s.timeouts /\ t.waits = s.waits /\ t.fired = s.fired /\ t.cb = s.cb
    BY DEF Connection
  <2>3. s.stage = "receiving" /\ s.rd = "idle" /\ s.wr = "idle" /\ ~s.sent
    BY <1>1 DEF ConnInv, OperationsFitStage
  <2> HIDE DEF t
  <2>4. OperationsFitStage(t) /\ DeadlineFitsRead(t) /\ NothingPending(t)
    BY <2>2, <2>3 DEF ConnInv, OperationsFitStage, DeadlineFitsRead, NothingPending
  <2>5. Handling(t)
    BY <2>1, <2>2, <2>3 DEF ConnInv, DeadlineFitsRead, Handling
  <2>6. QED
    BY <2>2, <2>3, <2>4, <2>5 DEF t, ConnInv
<1> HIDE DEF F
<1>2. s.hs = "ok" => ConnStep(s, BeginHeader(F("done")))
  BY <1>1, BeginStep DEF ConnStep
<1>3. s.hs = "failed" => ConnStep(s, F("refused"))
  BY <1>1 DEF ConnStep, Handling
<1>4. QED
  BY <1>2, <1>3 DEF F

\* A response completed later is a step of its connection.
LEMMA ReplyStep ==
    ASSUME NEW s \in Connection, ConnInv(s), s.life = "managed", s.stage = "holding",
           NEW reply \in {"send", "end"}
    PROVE  ConnStep(s, Respond(s, reply))
<1>1. Handling(s)
  <2>1. s.rd = "idle" /\ s.wr = "idle" /\ ~s.sent /\ s.hs \notin {"pending", "ok", "failed"}
    BY DEF ConnInv, OperationsFitStage
  <2>2. QED
    BY <2>1 DEF ConnInv, DeadlineFitsRead, Handling
<1>2. Continues(s, Respond(s, reply))
  BY <1>1, RespondContinues DEF Replies
<1>3. QED
  BY <1>2 DEF Continues, ConnStep

\* The network and the clock complete operations of managed connections only.
LEMMA EnvironmentStep ==
    ASSUME NEW s \in Connection, ConnInv(s)
    PROVE  /\ s.rd = "pending" =>
                 /\ s.life = "managed"
                 /\ \A r \in {"ok", "eof", "err"} : ConnStep(s, [s EXCEPT !.rd = r])
           /\ s.wr = "pending" =>
                 /\ s.life = "managed"
                 /\ \A r \in {"ok", "err"} : ConnStep(s, [s EXCEPT !.wr = r])
           /\ s.hs = "pending" =>
                 /\ s.life = "managed"
                 /\ \A r \in {"ok", "failed"} : ConnStep(s, [s EXCEPT !.hs = r])
           /\ s.deadline = "armed" /\ s.waits > 0 =>
                 /\ s.life = "managed"
                 /\ ConnStep(s, [s EXCEPT !.deadline = "past", !.waits = 0,
                                          !.fired = s.fired + s.waits])
<1>1. OperationsFitStage(s) /\ DeadlineFitsRead(s) /\ NothingPending(s)
  BY DEF ConnInv
<1>2. s.life \in {"none", "managed", "freed"}
  BY DEF Connection
<1>3. ASSUME s.rd = "pending" \/ s.wr = "pending" \/ s.hs = "pending"
      PROVE  s.life = "managed"
  BY <1>1, <1>2, <1>3 DEF NothingPending, Queued
<1>4. ASSUME s.rd = "pending", NEW r \in {"ok", "eof", "err"}
      PROVE  ConnStep(s, [s EXCEPT !.rd = r])
  <2> DEFINE t == [s EXCEPT !.rd = r]
  <2>1. t \in Connection
    BY FieldType DEF ReadStates, Done
  <2>2. /\ t.rd = r /\ t.wr = s.wr /\ t.wk = s.wk /\ t.hs = s.hs /\ t.life = s.life
        /\ t.sent = s.sent /\ t.stage = s.stage /\ t.cb = s.cb /\ t.open = s.open
        /\ t.timeouts = s.timeouts /\ t.deadline = s.deadline
        /\ t.waits = s.waits /\ t.fired = s.fired
    BY DEF Connection
  <2> HIDE DEF t
  <2>3. OperationsFitStage(t) /\ DeadlineFitsRead(t) /\ NothingPending(t)
    BY <1>1, <1>3, <1>4, <2>2 DEF OperationsFitStage, DeadlineFitsRead, NothingPending
  <2>4. ConnStep(s, t)
    BY <1>3, <1>4, <2>1, <2>2, <2>3 DEF ConnStep, ConnInv
  <2>5. QED
    BY <2>4 DEF t
<1>5. ASSUME s.wr = "pending", NEW r \in {"ok", "err"}
      PROVE  ConnStep(s, [s EXCEPT !.wr = r])
  <2> DEFINE t == [s EXCEPT !.wr = r]
  <2>1. t \in Connection
    BY FieldType DEF WriteStates
  <2>2. /\ t.wr = r /\ t.rd = s.rd /\ t.wk = s.wk /\ t.hs = s.hs /\ t.life = s.life
        /\ t.sent = s.sent /\ t.stage = s.stage /\ t.cb = s.cb /\ t.open = s.open
        /\ t.timeouts = s.timeouts /\ t.deadline = s.deadline
        /\ t.waits = s.waits /\ t.fired = s.fired
    BY DEF Connection
  <2> HIDE DEF t
  <2>3. OperationsFitStage(t) /\ DeadlineFitsRead(t) /\ NothingPending(t)
    BY <1>1, <1>3, <1>5, <2>2 DEF OperationsFitStage, DeadlineFitsRead, NothingPending
  <2>4. ConnStep(s, t)
    BY <1>3, <1>5, <2>1, <2>2, <2>3 DEF ConnStep, ConnInv
  <2>5. QED
    BY <2>4 DEF t
<1>6. ASSUME s.hs = "pending", NEW r \in {"ok", "failed"}
      PROVE  ConnStep(s, [s EXCEPT !.hs = r])
  <2> DEFINE t == [s EXCEPT !.hs = r]
  <2>1. t \in Connection
    BY FieldType DEF HandshakeStates
  <2>2. /\ t.hs = r /\ t.rd = s.rd /\ t.wr = s.wr /\ t.wk = s.wk /\ t.life = s.life
        /\ t.sent = s.sent /\ t.stage = s.stage /\ t.cb = s.cb /\ t.open = s.open
        /\ t.timeouts = s.timeouts /\ t.deadline = s.deadline
        /\ t.waits = s.waits /\ t.fired = s.fired
    BY DEF Connection
  <2> HIDE DEF t
  <2>3. OperationsFitStage(t) /\ DeadlineFitsRead(t) /\ NothingPending(t)
    BY <1>1, <1>3, <1>6, <2>2 DEF OperationsFitStage, DeadlineFitsRead, NothingPending
  <2>4. ConnStep(s, t)
    BY <1>3, <1>6, <2>1, <2>2, <2>3 DEF ConnStep, ConnInv
  <2>5. QED
    BY <2>4 DEF t
<1>7. ASSUME s.deadline = "armed", s.waits > 0
      PROVE  /\ s.life = "managed"
             /\ ConnStep(s, [s EXCEPT !.deadline = "past", !.waits = 0,
                                      !.fired = s.fired + s.waits])
  <2> DEFINE n == s.fired + s.waits
             a == [s EXCEPT !.deadline = "past"]
             b == [a EXCEPT !.waits = 0]
             t == [b EXCEPT !.fired = n]
  <2>1. n \in Nat /\ n > 0
    BY <1>7 DEF Connection
  <2>2. s.life = "managed"
    BY <1>1, <1>2, <1>7 DEF NothingPending
  <2> HIDE DEF n
  <2>3. a \in Connection
    BY FieldType
  <2>4. b \in Connection
    BY <2>3, FieldType
  <2>5. t \in Connection
    BY <2>1, <2>4, FieldType
  <2>6. /\ t.deadline = "past" /\ t.fired = n
        /\ t.rd = s.rd /\ t.wr = s.wr /\ t.wk = s.wk /\ t.hs = s.hs /\ t.life = s.life
        /\ t.sent = s.sent /\ t.stage = s.stage /\ t.cb = s.cb /\ t.open = s.open
        /\ t.timeouts = s.timeouts
    BY DEF Connection
  <2> HIDE DEF t
  <2>7. OperationsFitStage(t) /\ DeadlineFitsRead(t) /\ NothingPending(t)
    BY <1>1, <1>7, <2>1, <2>2, <2>6 DEF OperationsFitStage, DeadlineFitsRead, NothingPending
  <2>8. ConnStep(s, t)
    BY <2>2, <2>5, <2>6, <2>7 DEF ConnStep, ConnInv
  <2>9. t = [s EXCEPT !.deadline = "past", !.waits = 0, !.fired = s.fired + s.waits]
    BY Zenon DEF t, n
  <2>10. QED
    BY <2>2, <2>8, <2>9
<1>8. QED
  BY <1>3, <1>4, <1>5, <1>6, <1>7

\* Destroying the server frees a connection with whatever is under way.
LEMMA FreeAnyStep ==
    ASSUME NEW s \in Connection, ConnInv(s)
    PROVE  Free(s) \in Connection /\ ConnInv(Free(s)) /\ Free(s).life = "freed"
<1> DEFINE t == Free(s)
           p == Stop(s)
<1>1. OperationsFitStage(s) /\ DeadlineFitsRead(s) /\ NothingPending(s)
  BY DEF ConnInv
<1>2. t \in Connection
  BY FreeType
<1>3. p \in Connection
  BY StopType
<1>4. /\ p.open = FALSE
      /\ p.rd = IF s.rd = "pending" THEN "aborted" ELSE s.rd
      /\ p.wr = IF s.wr = "pending" THEN "err" ELSE s.wr
      /\ p.hs = IF s.hs = "pending" THEN "failed" ELSE s.hs
      /\ p.wk = s.wk /\ p.stage = s.stage /\ p.sent = s.sent /\ p.cb = s.cb
      /\ p.deadline = s.deadline /\ p.timeouts = s.timeouts
  <2>1. CASE s.open
    BY <2>1 DEF Stop, Connection
  <2>2. CASE ~s.open
    BY <1>1, <2>2 DEF Stop, NothingPending, Connection
  <2>3. QED
    BY <2>1, <2>2
<1>5. /\ t.life = "freed" /\ t.waits = 0 /\ t.open = p.open
      /\ t.rd = p.rd /\ t.wr = p.wr /\ t.hs = p.hs /\ t.wk = p.wk
      /\ t.stage = p.stage /\ t.sent = p.sent /\ t.cb = p.cb
      /\ t.deadline = p.deadline /\ t.timeouts = p.timeouts
  BY <1>3 DEF Free, Connection
<1> HIDE DEF t, p
<1>6. OperationsFitStage(t)
  BY <1>1, <1>4, <1>5 DEF OperationsFitStage
<1>7. DeadlineFitsRead(t)
  BY <1>1, <1>4, <1>5 DEF DeadlineFitsRead
<1>8. NothingPending(t)
  BY <1>4, <1>5 DEF NothingPending
<1>9. QED
  BY <1>2, <1>5, <1>6, <1>7, <1>8 DEF ConnInv, t

-----------------------------------------------------------------------------
(* The steps of the system.                                                *)

\* A step of one connection: a ConnStep of a managed connection, or the
\* accept of a new one.
OneConnection(c, t) ==
    /\ Update(c, t) /\ UNCHANGED server /\ ConnStep(conn[c], t)
    /\ \/ conn[c].life = "managed"
       \/ /\ conn[c].life = "none" /\ server = "listening"
          /\ t.life = "managed" /\ t.stage = "receiving"

\* Every step starts, stops or destroys the server or is one of one connection.
LEMMA StepsOfNext ==
    ASSUME ConstantsAssumption, Disciplined, IInv, Next
    PROVE  \/ StartServer \/ StopServer \/ DestroyServer
           \/ \E c \in Conns : \E t \in Connection : OneConnection(c, t)
<1>1. \A c \in Conns : conn[c] \in Connection /\ ConnInv(conn[c])
  BY DEF IInv, TypeOK
<1>2. ASSUME NEW c \in Conns, Accept(c)
      PROVE  \E t \in Connection : OneConnection(c, t)
  <2>1. PICK t \in {BeginHeader(NewConnection), [NewConnection EXCEPT !.hs = "pending"]} :
            Update(c, t)
    BY <1>2 DEF Accept
  <2>2. /\ t \in Connection /\ ConnInv(t) /\ t.life = "managed"
        /\ t.open /\ t.stage = "receiving"
    BY <2>1, AcceptStep
  <2>3. /\ conn[c].life = "none" /\ server = "listening" /\ UNCHANGED server
        /\ conn[c].stage = "receiving" /\ ~conn[c].sent
    BY <1>1, <1>2 DEF Accept, ConnInv, NothingPending, OperationsFitStage
  <2>4. ConnStep(conn[c], t)
    BY <2>2, <2>3 DEF ConnStep
  <2>5. QED
    BY <2>1, <2>2, <2>3, <2>4 DEF OneConnection
<1>3. ASSUME NEW c \in Conns, NEW t, Update(c, t), UNCHANGED server,
             ConnStep(conn[c], t), conn[c].life = "managed"
      PROVE  \E u \in Connection : OneConnection(c, u)
  BY <1>3 DEF OneConnection, ConnStep
<1>4. ASSUME NEW c \in Conns, HandleRead(c)
      PROVE  \E t \in Connection : OneConnection(c, t)
  BY <1>1, <1>3, <1>4, ReadHandlerStep DEF HandleRead
<1>5. ASSUME NEW c \in Conns, HandleWrite(c)
      PROVE  \E t \in Connection : OneConnection(c, t)
  BY <1>1, <1>3, <1>5, WriteHandlerStep DEF HandleWrite
<1>6. ASSUME NEW c \in Conns, HandleTimer(c)
      PROVE  \E t \in Connection : OneConnection(c, t)
  BY <1>1, <1>3, <1>6, CheckDeadlineStep DEF HandleTimer
<1>7. ASSUME NEW c \in Conns, HandleHandshake(c)
      PROVE  \E t \in Connection : OneConnection(c, t)
  BY <1>1, <1>3, <1>7, HandshakeStep DEF HandleHandshake
<1>8. ASSUME NEW c \in Conns, Reply(c)
      PROVE  \E t \in Connection : OneConnection(c, t)
  BY <1>1, <1>3, <1>8, ReplyStep DEF Reply
<1>9. ASSUME NEW c \in Conns, Environment(c)
      PROVE  \E t \in Connection : OneConnection(c, t)
  <2>1. CASE ReadCompletes(c)
    BY <1>1, <1>3, <2>1, EnvironmentStep DEF ReadCompletes
  <2>2. CASE WriteCompletes(c)
    BY <1>1, <1>3, <2>2, EnvironmentStep DEF WriteCompletes
  <2>3. CASE HandshakeCompletes(c)
    BY <1>1, <1>3, <2>3, EnvironmentStep DEF HandshakeCompletes
  <2>4. CASE Elapse(c)
    BY <1>1, <1>3, <2>4, EnvironmentStep DEF Elapse
  <2>5. QED
    BY <1>9, <2>1, <2>2, <2>3, <2>4 DEF Environment
<1>10. QED
  BY <1>2, <1>4, <1>5, <1>6, <1>7, <1>8, <1>9 DEF Next, Handlers

\* What IInv says of a step of one connection.
LEMMA OneConnectionInv ==
    ASSUME IInv, NEW c \in Conns, NEW t \in Connection, OneConnection(c, t)
    PROVE  IInv'
<1>1. /\ conn' = [conn EXCEPT ![c] = t] /\ server' = server
      /\ ConnInv(t) /\ (t.life = "freed" => ~Queued(t))
  BY DEF OneConnection, Update, ConnStep
<1>2. /\ conn \in [Conns -> Connection] /\ \A d \in Conns : ConnInv(conn[d])
      /\ server # "destroyed" => \A d \in Conns : conn[d].life = "freed" => ~Queued(conn[d])
      /\ server \in {"stopped", "listening", "destroyed"}
  BY DEF IInv, TypeOK, NothingOutlives
<1>3. conn' \in [Conns -> Connection]
  BY <1>1, <1>2
<1>4. \A d \in Conns : conn'[d] = IF d = c THEN t ELSE conn[d]
  BY <1>1, <1>2
<1>5. \A d \in Conns : ConnInv(conn'[d])
  BY <1>1, <1>2, <1>4
<1>6. server # "destroyed" => \A d \in Conns : conn'[d].life = "freed" => ~Queued(conn'[d])
  BY <1>1, <1>2, <1>4
<1>7. QED
  BY <1>1, <1>2, <1>3, <1>5, <1>6 DEF IInv, TypeOK, NothingOutlives

\* The inductive invariant holds initially.
LEMMA InitInv == ConstantsAssumption /\ Init => IInv
<1> SUFFICES ASSUME ConstantsAssumption, Init PROVE IInv
  OBVIOUS
<1>1. TypeOK
  BY InitType
<1> DEFINE n == [NewConnection EXCEPT !.life = "none"]
<1>2. /\ n.life = "none" /\ n.open = TRUE /\ n.hs = "none" /\ n.stage = "receiving"
      /\ n.rd = "idle" /\ n.wr = "idle" /\ n.sent = FALSE /\ n.waits = 0
      /\ n.deadline = "inf" /\ n.timeouts = 0
  BY DEF NewConnection
<1> HIDE DEF n
<1>3. ConnInv(n)
  BY <1>2 DEF ConnInv, OperationsFitStage, DeadlineFitsRead, NothingPending, Queued
<1>4. \A c \in Conns : conn[c] = n
  BY DEF Init, n
<1>5. QED
  BY <1>1, <1>2, <1>3, <1>4 DEF IInv, NothingOutlives

\* Every step keeps the inductive invariant.
LEMMA NextInv ==
    ASSUME ConstantsAssumption, Disciplined, IInv, [Next]_vars
    PROVE  IInv'
<1>1. CASE StartServer \/ StopServer
  BY <1>1 DEF StartServer, StopServer, IInv, TypeOK, NothingOutlives
<1>2. CASE DestroyServer
  <2>1. TypeOK'
    BY <1>2, NextType DEF IInv, Next
  <2>2. \A c \in Conns : conn'[c] = IF conn[c].life = "managed" THEN Free(conn[c]) ELSE conn[c]
    BY <1>2 DEF DestroyServer
  <2>3. \A c \in Conns : ConnInv(conn'[c])
    BY <2>2, FreeAnyStep DEF IInv, TypeOK
  <2>4. NothingOutlives'
    BY <1>2 DEF DestroyServer, NothingOutlives
  <2>5. QED
    BY <2>1, <2>3, <2>4 DEF IInv
<1>3. CASE \E c \in Conns : \E t \in Connection : OneConnection(c, t)
  BY <1>3, OneConnectionInv
<1>4. CASE UNCHANGED vars
  BY <1>4 DEF vars, IInv, TypeOK, NothingOutlives
<1>5. QED
  BY <1>1, <1>2, <1>3, <1>4, StepsOfNext

-----------------------------------------------------------------------------
(* The theorems.                                                           *)

\* The inductive invariant holds for every disciplined application.
THEOREM Invariance == ASSUME Disciplined PROVE Spec => []IInv
<1>1. ConstantsAssumption
  BY ConstantsAssumption
<1>2. Init => IInv
  BY <1>1, InitInv
<1>3. IInv /\ [Next]_vars => IInv'
  BY <1>1, NextInv
<1>4. QED
  BY <1>2, <1>3, PTL DEF Spec

\* No handler of a read, a write or a handshake is left behind by a connection
\* that connection_manager::remove deletes.
THEOREM NothingOutlivesItsConnection == ASSUME Disciplined PROVE Spec => []NothingOutlives
<1>1. IInv => NothingOutlives
  BY DEF IInv
<1>2. QED
  BY <1>1, Invariance, PTL

\* buffer_ and write_buffer_ are never used by two operations.
THEOREM OneOperation == ASSUME Disciplined PROVE Spec => []OneOperationAtATime
<1>1. IInv => OneOperationAtATime
  BY DEF IInv, ConnInv, OperationsFitStage, OneOperationAtATime
<1>2. QED
  BY <1>1, Invariance, PTL

\* A read that waits for the peer always has a deadline that will be looked at.
THEOREM ReadsAreTimed == ASSUME Disciplined PROVE Spec => []ReadIsTimed
<1>1. IInv => ReadIsTimed
  BY DEF IInv, ConnInv, DeadlineFitsRead, ReadIsTimed
<1>2. QED
  BY <1>1, Invariance, PTL

\* on_timeout_ is called at most once for a connection.
THEOREM TimeoutsOnce == ASSUME Disciplined PROVE Spec => []TimeoutOnce
<1>1. IInv => TimeoutOnce
  BY DEF IInv, ConnInv, DeadlineFitsRead, TimeoutOnce
<1>2. QED
  BY <1>1, Invariance, PTL

\* A step either leaves the connections alone, or destroys the server, or is
\* a OneConnection step.
LEMMA ConnectionSteps ==
    ASSUME ConstantsAssumption, Disciplined, IInv, [Next]_vars
    PROVE  \/ UNCHANGED conn
           \/ DestroyServer
           \/ \E c \in Conns : \E t \in Connection : OneConnection(c, t)
<1>1. CASE StartServer \/ StopServer
  BY <1>1 DEF StartServer, StopServer
<1>2. CASE UNCHANGED vars
  BY <1>2 DEF vars
<1>3. QED
  BY <1>1, <1>2, StepsOfNext

\* A deadline never closes the socket under the application or a response.
THEOREM TimeoutsOnlyWhileReading == ASSUME Disciplined PROVE Spec => TimeoutOnlyWhileReading
<1> DEFINE A == \A c \in Conns :
                   conn[c].open /\ ~conn'[c].open /\ conn'[c].life = "managed"
                       => conn[c].rd # "idle"
<1>1. ConstantsAssumption
  BY ConstantsAssumption
<1>2. ASSUME IInv, [Next]_vars PROVE [A]_vars
  <2>1. conn \in [Conns -> Connection]
    BY <1>2 DEF IInv, TypeOK
  <2>2. CASE UNCHANGED conn
    BY <2>2
  <2>3. CASE DestroyServer
    <3>1. \A c \in Conns : conn'[c] = IF conn[c].life = "managed" THEN Free(conn[c]) ELSE conn[c]
      BY <2>3 DEF DestroyServer
    <3>2. \A c \in Conns : Free(conn[c]).life = "freed"
      BY <1>2, <2>1, FreeAnyStep DEF IInv
    <3>3. QED
      BY <3>1, <3>2
  <2>4. CASE \E c \in Conns : \E t \in Connection : OneConnection(c, t)
    <3>1. PICK c \in Conns, t \in Connection : OneConnection(c, t)
      BY <2>4
    <3>2. \A d \in Conns : conn'[d] = IF d = c THEN t ELSE conn[d]
      BY <2>1, <3>1 DEF OneConnection, Update
    <3>3. t.life = "managed" /\ conn[c].open /\ ~t.open => conn[c].rd # "idle"
      BY <3>1 DEF OneConnection, ConnStep
    <3>4. QED
      BY <3>2, <3>3
  <2>5. QED
    BY <1>1, <1>2, <2>2, <2>3, <2>4, ConnectionSteps
<1>3. QED
  BY <1>2, Invariance, PTL DEF Spec, TimeoutOnlyWhileReading

\* A connection is removed by the handler of its header read or of the last
\* write of its response, by nothing else.
THEOREM RemovalByLastHandler == ASSUME Disciplined PROVE Spec => RemovedByItsLastHandler
<1> DEFINE A == server' # "destroyed" =>
                  \A c \in Conns :
                     conn[c].life = "managed" /\ conn'[c].life = "freed" =>
                         IF conn[c].stage = "receiving" THEN conn[c].rd \in Done
                         ELSE conn[c].sent /\ conn[c].wr \in {"ok", "err"}
<1>1. ConstantsAssumption
  BY ConstantsAssumption
<1>2. ASSUME IInv, [Next]_vars PROVE [A]_vars
  <2>1. conn \in [Conns -> Connection]
    BY <1>2 DEF IInv, TypeOK
  <2>2. CASE UNCHANGED conn
    BY <2>2
  <2>3. CASE DestroyServer
    BY <2>3 DEF DestroyServer
  <2>4. CASE \E c \in Conns : \E t \in Connection : OneConnection(c, t)
    <3>1. PICK c \in Conns, t \in Connection : OneConnection(c, t)
      BY <2>4
    <3>2. \A d \in Conns : conn'[d] = IF d = c THEN t ELSE conn[d]
      BY <2>1, <3>1 DEF OneConnection, Update
    <3>3. t.life = "freed" => IF conn[c].stage = "receiving" THEN conn[c].rd \in Done
                              ELSE conn[c].sent /\ conn[c].wr \in {"ok", "err"}
      BY <3>1 DEF OneConnection, ConnStep
    <3>4. QED
      BY <3>2, <3>3
  <2>5. QED
    BY <1>1, <1>2, <2>2, <2>3, <2>4, ConnectionSteps
<1>3. QED
  BY <1>2, Invariance, PTL DEF Spec, RemovedByItsLastHandler

-----------------------------------------------------------------------------
(* The connections implement RequestLifecycle.                             *)

\* One step of a connection is at most one step of its phase.
LEMMA PhaseStep ==
    ASSUME NEW s \in Connection, NEW t \in Connection, ConnStep(s, t),
           s.life = "managed", ConnInv(s)
    PROVE  \/ Phase(t) = Phase(s)
           \/ Phase(s) = "receiving" /\ Phase(t) \in {"handling", "answering", "removed"}
           \/ Phase(s) = "handling" /\ Phase(t) = "answering"
           \/ Phase(s) = "answering" /\ Phase(t) = "removed"
<1>1. /\ t.life \in {"managed", "freed"}
      /\ (s.sent <=> s.stage = "answered") /\ (t.sent <=> t.stage = "answered")
      /\ s.sent \in BOOLEAN /\ t.sent \in BOOLEAN
  BY DEF ConnStep, ConnInv, OperationsFitStage, Connection
<1>2. CASE t.life = "freed"
  <2>1. Phase(t) = "removed"
    BY <1>2 DEF Phase
  <2>2. s.stage = "receiving" \/ s.sent
    BY <1>2 DEF ConnStep
  <2>3. Phase(s) \in {"receiving", "answering"}
    BY <1>1, <2>2 DEF Phase
  <2>4. QED
    BY <2>1, <2>3
<1>3. CASE t.life = "managed"
  <2>1. (s.stage # "receiving" => t.stage # "receiving") /\ (s.sent => t.sent)
    BY <1>3 DEF ConnStep
  <2>2. Phase(s) = IF s.sent THEN "answering"
                   ELSE IF s.stage = "receiving" THEN "receiving" ELSE "handling"
    BY DEF Phase
  <2>3. Phase(t) = IF t.sent THEN "answering"
                   ELSE IF t.stage = "receiving" THEN "receiving" ELSE "handling"
    BY <1>3 DEF Phase
  <2>4. QED
    BY <1>1, <2>1, <2>2, <2>3
<1>4. QED
  BY <1>1, <1>2, <1>3

\* The server keeps the promises of RequestLifecycle: one answer for each
\* request, none dropped, nothing after the removal.
THEOREM Implementation == ASSUME Disciplined PROVE Spec => ImplementsLifecycle
<1> DEFINE phase == [c \in Conns |-> Phase(conn[c])]
<1>1. ConstantsAssumption
  BY ConstantsAssumption
<1>2. Init => Lifecycle!Init
  <2> SUFFICES ASSUME Init PROVE Lifecycle!Init
    OBVIOUS
  <2> DEFINE n == [NewConnection EXCEPT !.life = "none"]
  <2>1. Phase(n) = "absent"
    BY DEF NewConnection, Phase
  <2>2. \A c \in Conns : conn[c] = n
    BY DEF Init
  <2> HIDE DEF n
  <2>3. QED
    BY <2>1, <2>2 DEF Init, Lifecycle!Init
<1>3. ASSUME IInv, [Next]_vars PROVE [Lifecycle!Next]_(Lifecycle!vars)
  <2>1. conn \in [Conns -> Connection] /\ \A c \in Conns : ConnInv(conn[c])
    BY <1>3 DEF IInv, TypeOK
  <2>2. CASE UNCHANGED vars
    BY <2>2 DEF vars, Lifecycle!vars
  <2>3. CASE StartServer \/ StopServer
    <3>1. Lifecycle!Listen
      BY <2>3 DEF StartServer, StopServer, Lifecycle!Listen
    <3>2. QED
      BY <3>1 DEF Lifecycle!Next
  <2>4. CASE DestroyServer
    <3>1. \A c \in Conns : conn'[c] = IF conn[c].life = "managed" THEN Free(conn[c]) ELSE conn[c]
      BY <2>4 DEF DestroyServer
    <3>2. ASSUME NEW c \in Conns
          PROVE  Phase(conn'[c]) = IF Phase(conn[c]) = "absent" THEN "absent" ELSE "removed"
      <4>1. Free(conn[c]).life = "freed"
        BY <2>1, FreeAnyStep
      <4>2. conn[c].life \in {"none", "managed", "freed"}
        BY <2>1 DEF Connection
      <4>3. CASE conn[c].life = "managed"
        <5>1. Phase(conn'[c]) = "removed"
          BY <3>1, <4>1, <4>3 DEF Phase
        <5>2. Phase(conn[c]) # "absent"
          BY <4>3 DEF Phase
        <5>3. QED
          BY <5>1, <5>2
      <4>4. CASE conn[c].life # "managed"
        BY <3>1, <4>2, <4>4 DEF Phase
      <4>5. QED
        BY <4>3, <4>4
    <3>3. server # "destroyed" /\ server' = "destroyed"
      BY <2>4 DEF DestroyServer
    <3>4. Lifecycle!Destroy
      BY <3>2, <3>3 DEF Lifecycle!Destroy
    <3>5. QED
      BY <3>4 DEF Lifecycle!Next
  <2>5. CASE \E c \in Conns : \E t \in Connection : OneConnection(c, t)
    <3>1. PICK c \in Conns, t \in Connection : OneConnection(c, t)
      BY <2>5
    <3>2. /\ conn' = [conn EXCEPT ![c] = t] /\ server' = server /\ ConnStep(conn[c], t)
      BY <3>1 DEF OneConnection, Update
    <3>3. phase' = [phase EXCEPT ![c] = Phase(t)] /\ phase[c] = Phase(conn[c])
      <4>1. conn' = [d \in Conns |-> IF d = c THEN t ELSE conn[d]]
        BY <2>1, <3>2
      <4>2. phase' = [d \in Conns |-> Phase(conn'[d])]
        OBVIOUS
      <4>3. \A d \in Conns : Phase(conn'[d]) = IF d = c THEN Phase(t) ELSE Phase(conn[d])
        BY <4>1
      <4>4. QED
        BY <4>2, <4>3
    <3> HIDE DEF phase
    <3>4. CASE conn[c].life = "none"
      <4>1. server = "listening" /\ t.life = "managed" /\ t.stage = "receiving"
        BY <3>1, <3>4 DEF OneConnection
      <4>2. ~t.sent
        BY <3>2, <4>1 DEF ConnStep, ConnInv, OperationsFitStage
      <4>3. Phase(t) = "receiving" /\ Phase(conn[c]) = "absent"
        BY <3>4, <4>1, <4>2 DEF Phase
      <4>4. Lifecycle!Accept(c)
        BY <3>2, <3>3, <4>1, <4>3 DEF Lifecycle!Accept, Lifecycle!Move, phase
      <4>5. QED
        BY <4>4 DEF Lifecycle!Next
    <3>5. CASE conn[c].life = "managed"
      <4>1. \/ Phase(t) = Phase(conn[c])
            \/ Phase(conn[c]) = "receiving" /\ Phase(t) \in {"handling", "answering", "removed"}
            \/ Phase(conn[c]) = "handling" /\ Phase(t) = "answering"
            \/ Phase(conn[c]) = "answering" /\ Phase(t) = "removed"
        BY <2>1, <3>2, <3>5, PhaseStep
      <4>2. CASE Phase(t) = Phase(conn[c])
        <5>1. phase' = phase
          BY <3>3, <4>2 DEF phase
        <5>2. QED
          BY <3>2, <5>1 DEF Lifecycle!vars, phase
      <4>3. CASE Phase(conn[c]) = "receiving" /\ Phase(t) = "handling"
        <5>1. Lifecycle!HandOver(c)
          BY <3>2, <3>3, <4>3 DEF Lifecycle!HandOver, Lifecycle!Move, phase
        <5>2. QED
          BY <5>1 DEF Lifecycle!Next
      <4>4. CASE Phase(conn[c]) \in {"receiving", "handling"} /\ Phase(t) = "answering"
        <5>1. Lifecycle!Answer(c)
          BY <3>2, <3>3, <4>4 DEF Lifecycle!Answer, Lifecycle!Move, phase
        <5>2. QED
          BY <5>1 DEF Lifecycle!Next
      <4>5. CASE Phase(conn[c]) \in {"receiving", "answering"} /\ Phase(t) = "removed"
        <5>1. Lifecycle!Remove(c)
          BY <3>2, <3>3, <4>5 DEF Lifecycle!Remove, Lifecycle!Move, phase
        <5>2. QED
          BY <5>1 DEF Lifecycle!Next
      <4>6. QED
        BY <4>1, <4>2, <4>3, <4>4, <4>5
    <3>6. QED
      BY <3>1, <3>4, <3>5 DEF OneConnection
  <2>6. QED
    BY <1>1, <1>3, <2>2, <2>3, <2>4, <2>5, StepsOfNext
<1>4. QED
  BY <1>2, <1>3, Invariance, PTL DEF Spec, ImplementsLifecycle, Lifecycle!Spec

-----------------------------------------------------------------------------
(* No connection is forgotten, whatever the application does.              *)

\* A connection that is not removed has an operation outstanding, whose handler will
\* go on with it, or the application has its request, or left it unanswered, or the
\* handshake failed.
Attended(s) ==
    s.life = "managed" =>
        \/ s.rd # "idle" \/ s.wr # "idle" \/ s.hs \in {"pending", "ok", "failed", "refused"}
        \/ s.stage \in {"holding", "silent", "abandoned"}

\* The operators that start an operation, and those that end the connection.
LEMMA OperatorsAttend ==
    ASSUME NEW s \in Connection
    PROVE  /\ Attended(Read(s)) /\ \A k : Attended(Write(s, k))
           /\ Attended(Free(s)) /\ (Attended(s) => Attended(Stop(s)))
<1>1. Attended(Read(s))
  <2>1. Read(s).rd = CASE s.rd # "idle" -> "clash"
                       [] s.rd = "idle" /\ s.open -> "pending"
                       [] OTHER -> "err"
    BY DEF Read, Connection
  <2>2. QED
    BY <2>1 DEF Attended
<1>2. ASSUME NEW k PROVE Attended(Write(s, k))
  <2>1. Write(s, k).wr = CASE s.wr # "idle" -> "clash"
                           [] s.wr = "idle" /\ s.open -> "pending"
                           [] OTHER -> "err"
    BY DEF Write, Connection
  <2>2. QED
    BY <2>1 DEF Attended
<1>3. Attended(Free(s))
  <2>1. Stop(s) \in Connection
    BY StopType
  <2>2. Free(s).life = "freed"
    BY <2>1 DEF Free, Connection
  <2>3. QED
    BY <2>2 DEF Attended
<1>4. ASSUME Attended(s) PROVE Attended(Stop(s))
  <2>1. CASE s.open
    <3> DEFINE r == IF s.rd = "pending" THEN "aborted" ELSE s.rd
               w == IF s.wr = "pending" THEN "err" ELSE s.wr
               h == IF s.hs = "pending" THEN "failed" ELSE s.hs
    <3>1. Stop(s) = [s EXCEPT !.open = FALSE, !.waits = 0, !.rd = r, !.wr = w, !.hs = h]
      BY <2>1, Zenon DEF Stop
    <3> HIDE DEF r, w, h
    <3>2. /\ Stop(s).life = s.life /\ Stop(s).stage = s.stage
          /\ Stop(s).rd = r /\ Stop(s).wr = w /\ Stop(s).hs = h
      BY <3>1 DEF Connection
    <3>3. QED
      BY <1>4, <3>2 DEF Attended, r, w, h
  <2>2. CASE ~s.open
    BY <1>4, <2>2 DEF Stop
  <2>3. QED
    BY <2>1, <2>2
<1>5. QED
  BY <1>1, <1>2, <1>3, <1>4

\* A response is completed, or kept by the application.
LEMMA ResponseAttends ==
    ASSUME NEW s \in Connection
    PROVE  Attended(End(s)) /\ Attended(Send(s)) /\ \A reply \in Replies : Attended(Respond(s, reply))
<1>1. ASSUME NEW t \in Connection
      PROVE  Attended(End(t)) /\ Attended(Send(t))
  <2>1. [t EXCEPT !.sent = TRUE] \in Connection
    BY FieldType
  <2>2. QED
    BY <2>1, OperatorsAttend DEF End, Send
<1>2. [s EXCEPT !.stage = "answered"] \in Connection
  BY FieldType DEF Stages
<1>3. Attended([s EXCEPT !.stage = "holding"])
  <2>1. [s EXCEPT !.stage = "holding"].stage = "holding"
    BY DEF Connection
  <2>2. QED
    BY <2>1 DEF Attended
<1>4. QED
  BY <1>1, <1>2, <1>3 DEF Respond, Replies

\* Whatever reading the body comes to.
LEMMA BodyAttends ==
    ASSUME NEW s \in Connection, NEW ec \in Done, ConstantsAssumption
    PROVE  /\ \A t \in ReadBody(s) : Attended(t)
           /\ \A t \in BodyReadHandler(s, ec) : Attended(t)
<1>1. \A t \in ReadBody(s) : Attended(t)
  <2> DEFINE b == [s EXCEPT !.cb = "body"]
             p == [b EXCEPT !.stage = "reading", !.parts = MaxParts]
  <2>1. b \in Connection
    BY FieldType
  <2> HIDE DEF b
  <2>2. \A reply \in Replies : Attended(Respond(b, reply))
    BY <2>1, ResponseAttends
  <2>3. p \in Connection
    <3>1. [b EXCEPT !.stage = "reading"] \in Connection
      BY <2>1, FieldType DEF Stages
    <3>2. [[b EXCEPT !.stage = "reading"] EXCEPT !.parts = MaxParts] \in Connection
      BY <3>1, NextPieceType
    <3>3. p = [[b EXCEPT !.stage = "reading"] EXCEPT !.parts = MaxParts]
      BY Zenon
    <3>4. QED
      BY <3>2, <3>3
  <2> HIDE DEF p
  <2>4. Attended(Read(p))
    BY <2>3, OperatorsAttend
  <2>5. ReadBody(s) = {Respond(b, reply) : reply \in Replies} \cup {Read(p)}
    BY Zenon DEF ReadBody, b, p
  <2>6. QED
    BY <2>2, <2>4, <2>5
<1>2. \A t \in BodyChunkRead(s) : Attended(t)
  <2>1. s.parts > 0 => Attended(Read([s EXCEPT !.parts = s.parts - 1]))
    BY NextPieceType, OperatorsAttend
  <2>2. QED
    BY <2>1, ResponseAttends DEF BodyChunkRead
<1>3. Attended(BodyReadFailed(s, ec))
  <2>1. [s EXCEPT !.stage = "abandoned"].stage = "abandoned"
    BY DEF Connection
  <2>2. Attended([s EXCEPT !.stage = "abandoned"])
    BY <2>1 DEF Attended
  <2>3. [s EXCEPT !.stage = "answered"] \in Connection
    BY FieldType DEF Stages
  <2>4. QED
    BY <2>2, <2>3, ResponseAttends DEF BodyReadFailed
<1>4. QED
  BY <1>1, <1>2, <1>3 DEF BodyReadHandler

\* Whatever a route's callback does, or does and throws.
LEMMA CallbackAttends ==
    ASSUME NEW s \in Connection, ConstantsAssumption
    PROVE  \A t \in Callback(s) : Attended(t)
<1>1. AcceptAndContinue(s) \in Connection /\ Attended(AcceptAndContinue(s))
  <2>1. [s EXCEPT !.stage = "reading"] \in Connection
    BY FieldType DEF Stages
  <2>2. QED
    BY <2>1, WriteType, OperatorsAttend DEF AcceptAndContinue, WriteKinds
<1>2. \A t \in Acts(s) : t \in Connection /\ Attended(t)
  BY <1>1, ResponseType, ResponseAttends, BodyType, BodyAttends DEF Acts, Done
<1>3. Attended([s EXCEPT !.stage = "silent"])
  <2>1. [s EXCEPT !.stage = "silent"].stage = "silent"
    BY DEF Connection
  <2>2. QED
    BY <2>1 DEF Attended
<1>4. \A t \in Acts(s) : \A reply \in {"send", "end"} : Attended(Respond(t, reply))
  BY <1>2, ResponseAttends DEF Replies
<1>5. QED
  BY <1>2, <1>3, <1>4 DEF Callback

\* The handlers of reads, writes and waits.
LEMMA HandlersAttend ==
    ASSUME NEW s \in Connection, ConstantsAssumption
    PROVE  /\ s.rd \in Done => \A t \in ReadHandler(s) : Attended(t)
           /\ \A t \in WriteHandler(s) : Attended(t)
           /\ Attended(s) /\ s.fired > 0 => \A t \in CheckDeadline(s) : Attended(t)
<1>1. ASSUME s.rd \in Done PROVE \A t \in ReadHandler(s) : Attended(t)
  <2>1. ReadDone(s) \in Connection
    BY ReadType
  <2>2. ASSUME NEW u \in Connection
        PROVE  \A t \in HeaderChunkRead(u) : Attended(t)
    <3>1. u.parts > 0 => Attended(Read([u EXCEPT !.parts = u.parts - 1]))
      BY NextPieceType, OperatorsAttend
    <3>2. Attended(Respond(u, "send")) /\ Attended(Free(u))
      BY ResponseAttends, OperatorsAttend DEF Replies
    <3>3. QED
      BY <3>1, <3>2, CallbackAttends DEF HeaderChunkRead
  <2>3. \A t \in HeaderReadHandler(ReadDone(s), s.rd) : Attended(t)
    BY <2>1, <2>2, OperatorsAttend DEF HeaderReadHandler
  <2>4. \A t \in BodyReadHandler(ReadDone(s), s.rd) : Attended(t)
    BY <1>1, <2>1, BodyAttends
  <2>5. QED
    BY <2>3, <2>4 DEF ReadHandler
<1>2. \A t \in WriteHandler(s) : Attended(t)
  <2> DEFINE a == [s EXCEPT !.wr = "idle"]
             w == [s EXCEPT !.wr = "idle", !.wk = "none"]
  <2>1. w \in Connection
    <3>1. a \in Connection
      BY FieldType DEF WriteStates
    <3>2. [a EXCEPT !.wk = "none"] \in Connection
      BY <3>1, FieldType DEF WriteKinds
    <3>3. w = [a EXCEPT !.wk = "none"]
      BY Zenon
    <3>4. QED
      BY <3>2, <3>3
  <2>2. w.parts = s.parts
    BY DEF Connection
  <2> HIDE DEF w
  <2>3. \A t \in ReadBody(w) : Attended(t)
    BY <2>1, BodyAttends DEF Done
  <2>4. Attended(Respond(w, "end")) /\ Attended(End(w)) /\ Attended(Free(w))
    BY <2>1, ResponseAttends, OperatorsAttend DEF Replies
  <2>5. Attended(Write([w EXCEPT !.parts = MaxParts], "body"))
    BY <2>1, NextPieceType, OperatorsAttend
  <2>6. s.parts > 0 => Attended(Write([w EXCEPT !.parts = s.parts - 1], "body"))
    BY <2>1, <2>2, NextPieceType, OperatorsAttend
  <2>7. QED
    BY <2>3, <2>4, <2>5, <2>6 DEF WriteHandler, w
<1>3. ASSUME Attended(s), s.fired > 0 PROVE \A t \in CheckDeadline(s) : Attended(t)
  <2> DEFINE w == [s EXCEPT !.fired = s.fired - 1]
  <2>1. w \in Connection
    <3>1. s.fired - 1 \in Nat
      BY <1>3 DEF Connection
    <3>2. QED
      BY <3>1, FieldType
  <2>2. Attended(w)
    <3>1. w.life = s.life /\ w.stage = s.stage /\ w.rd = s.rd /\ w.wr = s.wr /\ w.hs = s.hs
      BY DEF Connection
    <3>2. QED
      BY <1>3, <3>1 DEF Attended
  <2> HIDE DEF w
  <2>3. Attended([w EXCEPT !.waits = s.waits + 1])
    <3> DEFINE v == [w EXCEPT !.waits = s.waits + 1]
    <3>1. v.life = w.life /\ v.stage = w.stage /\ v.rd = w.rd /\ v.wr = w.wr /\ v.hs = w.hs
      BY <2>1 DEF Connection
    <3>2. QED
      BY <2>2, <3>1 DEF Attended
  <2>4. \A t \in TimedOut(w) : Attended(t)
    <3> DEFINE u == [w EXCEPT !.timeouts = w.timeouts + 1]
    <3>1. u \in Connection
      <4>1. w.timeouts + 1 \in Nat
        BY <2>1 DEF Connection
      <4>2. QED
        BY <2>1, <4>1, FieldType
    <3>2. Attended(u)
      <4>1. u.life = w.life /\ u.stage = w.stage /\ u.rd = w.rd /\ u.wr = w.wr /\ u.hs = w.hs
        BY <2>1 DEF Connection
      <4>2. QED
        BY <2>2, <4>1 DEF Attended
    <3> HIDE DEF u
    <3>3. Attended(Stop(u))
      BY <3>1, <3>2, OperatorsAttend
    <3>4. \A reply \in {"send", "end"} : Attended(Stop(Respond(u, reply)))
      BY <3>1, ResponseType, ResponseAttends, OperatorsAttend DEF Replies
    <3>5. QED
      BY <3>3, <3>4 DEF TimedOut, u
  <2>5. QED
    BY <2>2, <2>3, <2>4 DEF CheckDeadline, w
<1>4. QED
  BY <1>1, <1>2, <1>3

\* http_connection_base and its handlers: no order of reads, writes, timeouts and
\* replies leaves a connection without anything that will go on with it.
NoConnectionForgotten == \A c \in Conns : Attended(conn[c])

\* That holds for every application, disciplined or not: what EventuallyRemoved needs
\* besides fairness, together with ReadIsTimed.
THEOREM NoneIsForgotten == Spec => []NoConnectionForgotten
<1>1. Init => NoConnectionForgotten
  <2>1. [NewConnection EXCEPT !.life = "none"].life = "none"
    BY DEF NewConnection
  <2>2. QED
    BY <2>1 DEF Init, NoConnectionForgotten, Attended
<1>2. ConstantsAssumption /\ TypeOK /\ NoConnectionForgotten /\ [Next]_vars => NoConnectionForgotten'
  <2> SUFFICES ASSUME ConstantsAssumption, TypeOK, NoConnectionForgotten, [Next]_vars
               PROVE  NoConnectionForgotten'
    OBVIOUS
  <2>1. conn \in [Conns -> Connection] /\ \A c \in Conns : conn[c] \in Connection
    BY DEF TypeOK
  <2>2. ASSUME NEW c \in Conns, NEW s, Update(c, s), Attended(s)
        PROVE  NoConnectionForgotten'
    BY <2>1, <2>2 DEF Update, NoConnectionForgotten
  <2>3. CASE StartServer \/ StopServer \/ UNCHANGED vars
    BY <2>3 DEF StartServer, StopServer, vars, NoConnectionForgotten
  <2>4. CASE DestroyServer
    BY <2>1, <2>4, OperatorsAttend DEF DestroyServer, NoConnectionForgotten
  <2>5. ASSUME NEW c \in Conns, Accept(c)
        PROVE  NoConnectionForgotten'
    <3>1. Attended(BeginHeader(NewConnection))
      <4>1. [NewConnection EXCEPT !.cb = "header"] \in Connection
        BY NewConnectionType, FieldType
      <4>2. QED
        BY <4>1, OperatorsAttend DEF BeginHeader
    <3>2. [NewConnection EXCEPT !.hs = "pending"].hs = "pending"
      BY DEF NewConnection
    <3>3. Attended([NewConnection EXCEPT !.hs = "pending"])
      BY <3>2 DEF Attended
    <3>4. QED
      BY <2>2, <2>5, <3>1, <3>3 DEF Accept
  <2>6. ASSUME NEW c \in Conns, Handlers(c)
        PROVE  NoConnectionForgotten'
    <3>1. conn[c] \in Connection /\ Attended(conn[c])
      BY <2>1 DEF NoConnectionForgotten
    <3>2. CASE HandleRead(c) \/ HandleWrite(c) \/ HandleTimer(c)
      <4>1. \E s : Update(c, s) /\ Attended(s)
        BY <3>1, <3>2, HandlersAttend DEF HandleRead, HandleWrite, HandleTimer
      <4>2. QED
        BY <2>2, <4>1
    <3>3. CASE HandleHandshake(c)
      <4>1. Attended(BeginHeader([conn[c] EXCEPT !.hs = "done"]))
        <5>1. [conn[c] EXCEPT !.hs = "done"] \in Connection
          BY <3>1, FieldType DEF HandshakeStates
        <5>2. [[conn[c] EXCEPT !.hs = "done"] EXCEPT !.cb = "header"] \in Connection
          BY <5>1, FieldType
        <5>3. QED
          BY <5>2, OperatorsAttend DEF BeginHeader
      <4>2. [conn[c] EXCEPT !.hs = "refused"].hs = "refused"
        BY <3>1 DEF Connection
      <4>3. Attended([conn[c] EXCEPT !.hs = "refused"])
        BY <4>2 DEF Attended
      <4>4. QED
        BY <2>2, <3>3, <4>1, <4>3 DEF HandleHandshake
    <3>4. CASE Reply(c)
      BY <2>2, <3>1, <3>4, ResponseAttends DEF Reply, Replies
    <3>5. QED
      BY <2>6, <3>2, <3>3, <3>4 DEF Handlers
  <2>7. ASSUME NEW c \in Conns, Environment(c)
        PROVE  NoConnectionForgotten'
    <3>1. conn[c] \in Connection /\ Attended(conn[c])
      BY <2>1 DEF NoConnectionForgotten
    <3>2. CASE ReadCompletes(c)
      <4>1. PICK r \in {"ok", "eof", "err"} : Update(c, [conn[c] EXCEPT !.rd = r])
        BY <3>2 DEF ReadCompletes
      <4>2. [conn[c] EXCEPT !.rd = r].rd = r
        BY <3>1 DEF Connection
      <4>3. QED
        BY <2>2, <4>1, <4>2 DEF Attended
    <3>3. CASE WriteCompletes(c)
      <4>1. PICK r \in {"ok", "err"} : Update(c, [conn[c] EXCEPT !.wr = r])
        BY <3>3 DEF WriteCompletes
      <4>2. [conn[c] EXCEPT !.wr = r].wr = r
        BY <3>1 DEF Connection
      <4>3. QED
        BY <2>2, <4>1, <4>2 DEF Attended
    <3>4. CASE HandshakeCompletes(c)
      <4>1. PICK r \in {"ok", "failed"} : Update(c, [conn[c] EXCEPT !.hs = r])
        BY <3>4 DEF HandshakeCompletes
      <4>2. [conn[c] EXCEPT !.hs = r].hs = r
        BY <3>1 DEF Connection
      <4>3. QED
        BY <2>2, <4>1, <4>2 DEF Attended
    <3>5. CASE Elapse(c)
      <4> DEFINE n == conn[c].fired + conn[c].waits
                 e == [conn[c] EXCEPT !.deadline = "past", !.waits = 0, !.fired = n]
      <4>1. Update(c, e)
        BY <3>5 DEF Elapse
      <4> HIDE DEF n
      <4>2. /\ e.life = conn[c].life /\ e.stage = conn[c].stage /\ e.hs = conn[c].hs
            /\ e.rd = conn[c].rd /\ e.wr = conn[c].wr
        BY <3>1 DEF Connection
      <4> HIDE DEF e
      <4>3. Attended(e)
        BY <3>1, <4>2 DEF Attended
      <4>4. QED
        BY <2>2, <4>1, <4>3
    <3>6. QED
      BY <2>7, <3>2, <3>3, <3>4, <3>5 DEF Environment
  <2>8. QED
    BY <2>3, <2>4, <2>5, <2>6, <2>7 DEF Next
<1>3. QED
  BY <1>1, <1>2, TypeCorrect, ConstantsAssumption, PTL DEF Spec

=============================================================================
