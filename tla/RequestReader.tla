---------------------------- MODULE RequestReader ----------------------------
(***************************************************************************)
(* One request: request_handler's reading of the header and of the body,   *)
(* http_read_sink, and callback_wrapper, by which the application learns   *)
(* that the body is there.                                                 *)
(*                                                                         *)
(* Two threads: io runs the completion handlers of the connection, user is *)
(* an application's thread.  todo[t] is what t has still to do of the      *)
(* functions it is in, one step for each access to the flags and functions *)
(* of callback_wrapper.  The application's callback reads the body with    *)
(* read_body(sink, max).then(f).except(g): in the callback, and so on io,  *)
(* or on a thread of its own.                                              *)
(***************************************************************************)
EXTENDS RequestParser

CONSTANTS
    Requests,    \* what peers send: sequences of Bytes
    BufferSize,  \* config::buffer_size
    Limits,      \* values of read_body's max
    SizeModulus, \* 2^w for the w bits of size_type
    Env          \* what applications may do, of EnvChoices

\* The application reads the body on a thread of its own, or reads again in the
\* continuation of its first read.
EnvChoices == {"otherThread", "readsAgain"}

ASSUME ReaderAssumption ==
    /\ Requests \subseteq Seq(Bytes) /\ Limits \subseteq Nat
    /\ BufferSize \in Nat \ {0} /\ SizeModulus \in Nat \ {0}
    /\ \A d \in DOMAIN Digits : Digits[d] < SizeModulus
    /\ Env \subseteq EnvChoices

VARIABLES
    app, input, max, \* what this application does, the peer sends, and max is; never change
    parser,          \* parser_
    received,        \* history: bytes the connection has read
    conn,            \* "reading": a read is pending; "refused", "ended": no more reads
    todo,            \* what each thread has to do
    cur,             \* the read_body whose sink is sink_, 0 before the first
    sinks,           \* the bytes (positions) that each read_body's sink got
    wrapper,         \* on_finished_read_: func and fail name the read_body of their chain
    calls, errors    \* history: continuations and error callbacks that ran

state == <<parser, received, conn, todo, cur, sinks, wrapper, calls, errors>>
vars == <<app, input, max, state>>

Threads == {"io", "user"}
Reads == 1 .. 2

NewWrapper == [func |-> 0, fail |-> 0, fullfilled |-> FALSE, error |-> FALSE, lastEc |-> FALSE]

Step(what, r) == [do |-> what, read |-> r]

\* t's next step is to do what.
At(t, what) == todo[t] # <<>> /\ Head(todo[t]).do = what
Mine(t) == Head(todo[t]).read

\* t has done its next step and goes on with steps.
Go(t, steps) == todo' = [todo EXCEPT ![t] = steps \o Tail(@)]

\* read_body(sink, max).then(f).except(g)
Chain(r) == <<Step("read", r), Step("then", r), Step("except", r)>>

-----------------------------------------------------------------------------
(* The header.                                                             *)

Undecodable(p) == finished(p) /\ DecodeThrows(p.url)

\* A read that completes with n bytes: the handler runs when io is free.
Receives(n) ==
    /\ conn = "reading" /\ todo["io"] = <<>>
    /\ received + n <= Len(input)
    /\ received' = received + n

\* header_read_handler and feed; a finished header reaches the application, if its
\* url can be decoded.
header_read_handler(n) ==
    /\ cur = 0 /\ ~finished(parser) /\ Receives(n)
    /\ parser' = feed(input, parser, n)
    /\ conn' = CASE parser'.refused \/ Undecodable(parser') -> "refused"
                 [] ~parser'.refused /\ ~Undecodable(parser') /\ finished(parser') -> "idle"
                 [] OTHER -> "reading"
    /\ todo' = IF conn' # "idle" THEN todo
               ELSE [todo EXCEPT ![IF "otherThread" \in app THEN "user" ELSE "io"] = Chain(1)]
    /\ UNCHANGED <<cur, sinks, wrapper, calls, errors>>

-----------------------------------------------------------------------------
(* The body.                                                               *)

\* get_content_length() - from_header_buffer, in size_type.
Minus(a, b) == (a - b) % SizeModulus

\* body_read_start: is there more to read after fromHeader bytes that came
\* with the header?
NeedsMore(fromHeader) ==
    Minus(parser.length, fromHeader) > 0 /\ (max = 0 \/ fromHeader < max)

FromHeader == IF max = 0 THEN Buffered(parser) ELSE Min({max, Buffered(parser)})

\* read_body, with initialize_read and body_read_start.  The sink is new.
read_body(t) ==
    /\ At(t, "read")
    /\ cur' = Mine(t)
    /\ CASE parser.length = NoLength ->
              \* error(), then send_status(411)
              Go(t, <<Step("fail", 0)>>) /\ conn' = "refused" /\ UNCHANGED <<parser, sinks>>
         [] parser.length # NoLength /\ Buffered(parser) > 0 ->
              /\ sinks' = [sinks EXCEPT ![cur'] = ReadFront(parser, FromHeader)]
              /\ parser' = read_front(parser, FromHeader)
              /\ IF Buffered(parser') = 0 /\ NeedsMore(FromHeader)
                 THEN conn' = "reading" /\ Go(t, <<>>)
                 ELSE Go(t, <<Step("fullfill", 0)>>) /\ UNCHANGED conn
         [] OTHER ->
              /\ IF parser.length <= 0 THEN Go(t, <<Step("fullfill", 0)>>) /\ UNCHANGED conn
                                       ELSE conn' = "reading" /\ Go(t, <<>>)
              /\ UNCHANGED <<parser, sinks>>
    /\ UNCHANGED <<received, wrapper, calls, errors>>

Written == Len(sinks[cur])

\* Fault: the limit is not looked at.
BodyReadUnlimited(n) ==
    /\ cur # 0 /\ Receives(n)
    /\ sinks' = [sinks EXCEPT ![cur] = @ \o [i \in 1 .. n |-> received + i]]
    /\ IF Written + n >= parser.length
       THEN conn' = "idle" /\ todo' = [todo EXCEPT !["io"] = <<Step("fullfill", 0)>>]
       ELSE UNCHANGED <<conn, todo>>
    /\ UNCHANGED <<parser, cur, wrapper, calls, errors>>

\* Fault: a read is started although the body is complete.
BodyReadGoesOn(n) ==
    /\ cur # 0 /\ Receives(n)
    /\ sinks' = [sinks EXCEPT ![cur] = @ \o [i \in 1 .. n |-> received + i]]
    /\ IF Written + n >= parser.length
       THEN todo' = [todo EXCEPT !["io"] = <<Step("fullfill", 0)>>]
       ELSE UNCHANGED todo
    /\ UNCHANGED <<conn, parser, cur, wrapper, calls, errors>>

\* body_read_handler, when the read succeeded.  The limit is looked at before
\* the bytes are written, and those that come after it was reached are lost.
body_read_handler(n) ==
    /\ cur # 0 /\ Receives(n)
    /\ LET limited == max # 0 /\ max - Written <= 0
       IN /\ sinks' = IF limited THEN sinks
                      ELSE [sinks EXCEPT ![cur] = @ \o [i \in 1 .. n |-> received + i]]
          /\ IF limited \/ Written + n >= parser.length
             THEN conn' = "idle" /\ todo' = [todo EXCEPT !["io"] = <<Step("fullfill", 0)>>]
             ELSE UNCHANGED <<conn, todo>>
    /\ UNCHANGED <<parser, cur, wrapper, calls, errors>>

\* A read fails: the peer is gone or the deadline closed the socket.
ReadFails ==
    /\ conn = "reading" /\ todo["io"] = <<>>
    /\ conn' = "ended"
    /\ todo' = IF cur = 0 THEN todo ELSE [todo EXCEPT !["io"] = <<Step("fail", 0)>>]
    /\ UNCHANGED <<parser, received, cur, sinks, wrapper, calls, errors>>

-----------------------------------------------------------------------------
(* callback_wrapper.                                                       *)

Quiet == UNCHANGED <<parser, received, conn, cur, sinks, calls, errors>>

\* fullfill: the flag is set, then func_ is called if there is one.
fullfill(t) ==
    /\ At(t, "fullfill")
    /\ wrapper' = [wrapper EXCEPT !.fullfilled = TRUE]
    /\ Go(t, <<Step("call", 0)>>) /\ Quiet

CallFunc(t) ==
    /\ At(t, "call")
    /\ Go(t, IF wrapper.func = 0 THEN <<>> ELSE <<Step("run", wrapper.func)>>)
    /\ UNCHANGED wrapper /\ Quiet

\* Fault: what was fullfilled before is not looked at.
ThenStoresOnly(t) ==
    /\ At(t, "then")
    /\ Go(t, <<Step("store", Mine(t))>>)
    /\ UNCHANGED wrapper /\ Quiet

\* then: the flag is loaded, and the continuation called or stored.
then(t) ==
    /\ At(t, "then")
    /\ Go(t, <<Step(IF wrapper.fullfilled THEN "run" ELSE "store", Mine(t))>>)
    /\ UNCHANGED wrapper /\ Quiet

Store(t) ==
    /\ At(t, "store")
    /\ wrapper' = [wrapper EXCEPT !.func = Mine(t)]
    /\ Go(t, <<>>) /\ Quiet

\* The application's continuation.
Run(t) ==
    /\ At(t, "run")
    /\ calls' = Append(calls, [read |-> Mine(t), got |-> sinks[Mine(t)]])
    /\ Go(t, IF Mine(t) = 1 /\ "readsAgain" \in app /\ cur = 1 THEN Chain(2) ELSE <<>>)
    /\ UNCHANGED <<parser, received, conn, cur, sinks, wrapper, errors>>

\* error: fail_ is called or the error is kept; then the flag is set.
error(t) ==
    /\ At(t, "fail")
    /\ IF wrapper.fail # 0
       THEN errors' = Append(errors, wrapper.fail) /\ UNCHANGED wrapper
       ELSE wrapper' = [wrapper EXCEPT !.lastEc = TRUE] /\ UNCHANGED errors
    /\ Go(t, <<Step("failed", 0)>>)
    /\ UNCHANGED <<parser, received, conn, cur, sinks, calls>>

SetError(t) ==
    /\ At(t, "failed")
    /\ wrapper' = [wrapper EXCEPT !.error = TRUE]
    /\ Go(t, <<>>) /\ Quiet

\* except: the same for the error callback.
except(t) ==
    /\ At(t, "except")
    /\ IF wrapper.error
       THEN errors' = Append(errors, Mine(t)) /\ Go(t, <<>>)
       ELSE Go(t, <<Step("storeFail", Mine(t))>>) /\ UNCHANGED errors
    /\ UNCHANGED <<parser, received, conn, cur, sinks, wrapper, calls>>

StoreFail(t) ==
    /\ At(t, "storeFail")
    /\ wrapper' = [wrapper EXCEPT !.fail = Mine(t)]
    /\ Go(t, <<>>) /\ Quiet

-----------------------------------------------------------------------------
Init ==
    /\ app \in SUBSET Env /\ input \in Requests /\ max \in Limits
    /\ parser = NewParser /\ received = 0 /\ conn = "reading"
    /\ todo = [t \in Threads |-> <<>>]
    /\ cur = 0 /\ sinks = [r \in Reads |-> <<>>] /\ wrapper = NewWrapper
    /\ calls = <<>> /\ errors = <<>>

Steps(t) ==
    \/ read_body(t) \/ fullfill(t) \/ CallFunc(t) \/ then(t) \/ Store(t) \/ Run(t)
    \/ error(t) \/ SetError(t) \/ except(t) \/ StoreFail(t)

Next ==
    /\ \/ \E n \in 1 .. BufferSize : header_read_handler(n) \/ body_read_handler(n)
       \/ ReadFails
       \/ \E t \in Threads : Steps(t)
    /\ UNCHANGED <<app, input, max>>

Spec == Init /\ [][Next]_vars

\* Threads go on, and a read completes or fails in the end: it has a deadline.
Fairness ==
    /\ \A t \in Threads : WF_state(Steps(t))
    /\ WF_state(\/ ReadFails
                \/ \E n \in 1 .. BufferSize : header_read_handler(n) \/ body_read_handler(n))

FairSpec == Spec /\ Fairness

-----------------------------------------------------------------------------
(* Reference: the header as the whole input says it.                       *)

HeaderEnds == {i \in 4 .. Len(input) :
    input[i - 3] = "cr" /\ input[i - 2] = "lf" /\ input[i - 1] = "cr" /\ input[i] = "lf"}

HeaderLength == Min(HeaderEnds)

\* The request line: three words, the last with a slash, then "\r\n".
RequestLine == SubSeq(input, 1, First(input, "cr") - 1)
Spaces == {i \in DOMAIN RequestLine : RequestLine[i] = "sp"}

\* The lines after it, each named by where it starts.
Lines ==
    [i \in {j + 2 : j \in {k \in 1 .. HeaderLength - 3 : input[k] = "cr" /\ input[k + 1] = "lf"}} |->
        SubSeq(input, i, Min({j \in i .. HeaderLength : input[j] = "cr" /\ input[j + 1] = "lf"}) - 1)]

IsCookie(line) == Trim(SubSeq(line, 1, First(line, "colon") - 1)) = <<"cookie">>

\* The pieces of a Cookie line, which are separated by "; ".
CookiesIn(line) ==
    CookiePieces(TrimLeft(SubSeq(line, First(line, "colon") + 1, Len(line))))

\* All of them, with their place in the header.
CookiesOf(lines) ==
    UNION {{[line |-> i, place |-> c[1], pair |-> c[2]] :
               c \in LET pieces == CookiesIn(lines[i]) IN {<<j, pieces[j]>> : j \in DOMAIN pieces}} :
        i \in {k \in DOMAIN lines : IsCookie(lines[k])}}

\* The one of them that counts for a key: of the first line, the last.
Counts(cookies, c) ==
    \A d \in cookies : Key(d.pair) = Key(c.pair) =>
        c.line < d.line \/ (c.line = d.line /\ d.place <= c.place)

WellFormed ==
    LET texts == Lines
        all   == {texts[i] : i \in DOMAIN texts}
    IN /\ HeaderEnds # {} /\ Cardinality(Spaces) = 2
       /\ Contains(SubSeq(RequestLine, Max(Spaces) + 1, Len(RequestLine)), "slash")
       /\ input[First(input, "cr") + 1] = "lf"
       /\ \A line \in all \ {<<>>} : line[1] \in Alnum /\ Contains(line, "colon")
       /\ \A line \in all : IsCookie(line) =>
              LET pieces == CookiesIn(line)
              IN \A j \in DOMAIN pieces : Contains(pieces[j], "=")
       /\ Cardinality({i \in 1 .. HeaderLength : input[i] = "colon"}) <= FieldMax

\* There is room for any line that is not complete yet, and a full piece behind it.
RoomBehindLines ==
    \A line \in {RequestLine} \cup {Lines[i] : i \in DOMAIN Lines} :
        Len(line) + 1 + BufferSize <= HeaderMax

-----------------------------------------------------------------------------
(* Properties.                                                             *)

\* feed(): whatever pieces a well-formed header arrives in, it is finished as
\* soon as its last byte was received and not before, and the buffer then begins
\* with the first byte of the body; unless it was refused, and that is only when a
\* line that is not complete and the piece behind it exceed header_buffer_max, be
\* what is behind it the body or not.  get_cookie() gives the value of a cookie's
\* first line, and there of its last pair.
HeaderIndependentOfCuts ==
    cur = 0 /\ WellFormed =>
        /\ parser.refused => Buffered(parser) > HeaderMax /\ ~RoomBehindLines
        /\ ~parser.refused => (finished(parser) <=> received >= HeaderLength)
        /\ finished(parser) =>
               /\ parser.at = HeaderLength
               /\ parser.method = SubSeq(RequestLine, 1, Min(Spaces) - 1)
               /\ parser.url = SubSeq(RequestLine, Min(Spaces) + 1, Max(Spaces) - 1)
               /\ LET cookies == CookiesOf(Lines)
                  IN parser.cookies = [k \in {Key(c.pair) : c \in cookies} |->
                         Value((CHOOSE c \in cookies : Key(c.pair) = k /\ Counts(cookies, c)).pair)]

\* read_body(): when the first continuation runs its sink has the body's bytes
\* from the first on, without gaps: all of them, or at least max (request.cpp:138
\* lets the last piece exceed it).
ContinuedWithWholeBody ==
    \A i \in DOMAIN calls : calls[i].read = 1 =>
        LET got == calls[i].got
        IN /\ got = [k \in 1 .. Len(got) |-> HeaderLength + k]
           /\ Len(got) >= IF max = 0 THEN parser.length ELSE Min({max, parser.length})
           /\ max # 0 => Len(got) < max + BufferSize

\* The chain of one read is answered once: with its continuation or with the
\* error callback, if it runs in the application's callback.
AnsweredOnce == app = {} => Len(calls) + Len(errors) <= 1

\* Who reads the body in the callback is answered.
BodyIsAnswered == cur = 1 /\ app = {} ~> calls # <<>> \/ errors # <<>>

\* parse_url(): the path and the values of the query are what was escaped, however
\* the header arrived; of two keys that mean the same the later stays.  It decodes
\* before it splits, so a value must not hold an escaped separator, nor the query a
\* second '?'.  A url that cannot be decoded never reaches the application.
UrlMeansWhatItEscapes ==
    LET url   == parser.url
        mark  == First(url, "?")
        query == SubSeq(url, mark + 1, Len(url))
        pairs == Pieces(query, {"&", ";"})
    IN /\ Undecodable(parser) => conn = "refused" /\ cur = 0
       /\ finished(parser) /\ ~Contains(url, "%amp") /\ ~Contains(query, "?") =>
           /\ parse_url(url).path = decode_url(SubSeq(url, 1, mark - 1))
           /\ mark <= Len(url) => \A i \in DOMAIN pairs :
                  LET key == decode_url(Key(pairs[i]))
                  IN (\A j \in DOMAIN pairs : decode_url(Key(pairs[j])) = key => j <= i) =>
                         parse_url(url).query[key] = decode_url(Value(pairs[i]))

=============================================================================
