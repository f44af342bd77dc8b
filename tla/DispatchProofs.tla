---------------------------- MODULE DispatchProofs ----------------------------
(***************************************************************************)
(* Proofs about the dispatch of requests, for every table of routes, every *)
(* number of requests and sessions, and every application.  The first half *)
(* holds whatever find_route returns; the second is about what it returns. *)
(***************************************************************************)
EXTENDS Dispatch, FiniteSetTheorems, FunctionTheorems, SequenceTheorems, TLAPS,
        WellFoundedInduction

\* Where a request can be.
Places ==
    {"none", "session", "authorize", "allowed_continue", "allowed_but_stop",
     "callback", "counting", "kept", "silent", "held", "done"}

\* The requests that there can be.
RequestRecords ==
    [pc      : Places,
     method  : {a.method : a \in Arriving} \cup {""},
     path    : {a.path : a \in Arriving} \cup {<<>>},
     auth    : {a.auth : a \in Arriving} \cup {"none"},
     cookie  : 0 .. MaxSessions + 1,
     route   : {find_route(routes, a.method, a.path).found : a \in Arriving} \cup {0},
     checked : BOOLEAN,
     codes   : Seq(Nat),
     copy    : Nat]

TypeOK ==
    /\ app \subseteq Env /\ control \in Controls
    /\ made \in 0 .. MaxSessions
    /\ DOMAIN sessions \subseteq 1 .. made /\ sessions \in [DOMAIN sessions -> Nat]
    /\ saved \in [Ids -> Nat]
    /\ req \in [Requests -> RequestRecords]

\* Why the callback may run: the session, one of the n that were made, OPTIONS,
\* or the login path.
Authorized(q, n) ==
    \/ q.checked /\ q.cookie \in 1 .. n
    \/ control.allowOptions /\ q.method = "OPTIONS"
    \/ control.manual /\ q.path = LoginPath

\* No callback or conditioner answers more often than it should.
AnswersOnce == app \cap {"conditionerAnswers", "throwsLate"} = {}

\* What holds of each request when n sessions were made.
Fits(q, n) ==
    /\ q.checked \/ q.pc = "counting" => q.cookie \in 1 .. n
    /\ control.installed /\ q.pc \in {"callback", "counting", "kept"} => Authorized(q, n)
    /\ AnswersOnce => /\ Len(q.codes) <= 1
                      /\ q.pc # "done" => q.codes = <<>>

\* Between load_session and save_session no other callback of the session
\* counts, so that the copy is what is stored still, if the session is live.
Exclusive ==
    /\ \A r, s \in Requests :
           req[r].pc = "counting" /\ req[s].pc = "counting" /\ req[r].cookie = req[s].cookie
               => r = s
    /\ \A r \in Requests :
           req[r].pc = "counting" /\ Live(req[r]) => req[r].copy = sessions[req[r].cookie]

\* The inductive invariant.
IInv ==
    /\ TypeOK
    /\ \A r \in Requests : Fits(req[r], made)
    /\ \A i \in Ids : i > made => saved[i] = 0
    /\ "countsOverlap" \notin app => Exclusive
    /\ CountsAreKept

-----------------------------------------------------------------------------
(* Requests.                                                               *)

\* The fields of a request.
LEMMA FieldTypes ==
    ASSUME NEW q \in RequestRecords
    PROVE  /\ q.cookie \in 0 .. MaxSessions + 1 /\ q.checked \in BOOLEAN /\ q.copy \in Nat
           /\ q.codes \in Seq(Nat) /\ Len(q.codes) \in Nat
           /\ q.auth \in {a.auth : a \in Arriving} \cup {"none"}
BY LenProperties DEF RequestRecords

\* Going on elsewhere changes nothing else of a request.
LEMMA Moved ==
    ASSUME NEW q \in RequestRecords, NEW l \in Places
    PROVE  LET t == [q EXCEPT !.pc = l]
           IN /\ t \in RequestRecords /\ t.pc = l /\ t.checked = q.checked /\ t.cookie = q.cookie
              /\ t.method = q.method /\ t.path = q.path /\ t.codes = q.codes /\ t.auth = q.auth
BY DEF RequestRecords

\* An answer is one more code.
LEMMA AnsweredRecord ==
    ASSUME NEW q \in RequestRecords, NEW code \in Nat
    PROVE  LET t == Done(q, code)
           IN /\ t \in RequestRecords /\ t.pc = "done" /\ t.checked = q.checked
              /\ t.cookie = q.cookie /\ t.codes = Append(q.codes, code)
              /\ Len(t.codes) = Len(q.codes) + 1
              /\ q.codes = <<>> => Len(t.codes) = 1
<1> DEFINE codes == Append(q.codes, code)
           t == Done(q, code)
<1>1. q.codes \in Seq(Nat)
  BY FieldTypes
<1>2. codes \in Seq(Nat) /\ Len(codes) = Len(q.codes) + 1
  BY <1>1, AppendProperties
<1>3. t = [q EXCEPT !.codes = codes, !.pc = "done"]
  BY DEF Done, Answered
<1> SUFFICES /\ t \in RequestRecords /\ t.pc = "done" /\ t.checked = q.checked
             /\ t.cookie = q.cookie /\ t.codes = codes
  <2>1. q.codes = <<>> => Len(codes) = 1
    BY <1>2, EmptySeq
  <2>2. QED
    BY <1>2, <2>1
<1> HIDE DEF codes
<1>4. QED
  BY <1>2, <1>3 DEF RequestRecords, Places

\* A request that is answered where it had not been stays as it should be.
LEMMA AnsweredFits ==
    ASSUME NEW q \in RequestRecords, Fits(q, made), NEW code \in Nat,
           AnswersOnce => q.codes = <<>>
    PROVE  /\ Done(q, code) \in RequestRecords /\ Fits(Done(q, code), made)
           /\ Done(q, code).pc = "done"
<1> DEFINE t == Done(q, code)
<1>1. /\ t \in RequestRecords /\ t.pc = "done" /\ t.checked = q.checked /\ t.cookie = q.cookie
      /\ q.codes = <<>> => Len(t.codes) = 1
  BY AnsweredRecord
<1> SUFFICES Fits(t, made)
  BY <1>1
<1> HIDE DEF t
<1>2. ASSUME AnswersOnce PROVE Len(t.codes) <= 1
  <2>1. Len(t.codes) = 1
    BY <1>1, <1>2
  <2>2. QED
    BY <2>1
<1>3. t.checked \/ t.pc = "counting" => t.cookie \in 1 .. made
  BY <1>1 DEF Fits
<1>4. QED
  BY <1>1, <1>2, <1>3 DEF Fits

\* The code that a mount answers with is a number.
LEMMA MountCodes ==
    ASSUME NEW q, NEW allowed \in BOOLEAN, NEW works \in BOOLEAN
    PROVE  MountCode(q, allowed, works) \in Nat
BY DEF MountCode

-----------------------------------------------------------------------------
(* Steps.                                                                  *)

\* One request goes on, but not into the counting, and the sessions stay.
LEMMA RequestStep ==
    ASSUME IInv, UNCHANGED <<app, control, sessions, made, saved>>, NEW r \in Requests,
           NEW q \in RequestRecords, Fits(q, made), q.pc # "counting", Change(r, q)
    PROVE  IInv'
<1>1. req' = [req EXCEPT ![r] = q] /\ req \in [Requests -> RequestRecords]
  BY DEF Change, IInv, TypeOK
<1>2. TypeOK'
  BY <1>1 DEF IInv, TypeOK
<1>3. \A s \in Requests : Fits(req[s], made)'
  BY <1>1 DEF IInv, Fits, Authorized, AnswersOnce
<1>4. "countsOverlap" \notin app => Exclusive'
  BY <1>1 DEF IInv, Exclusive, Live
<1>5. CountsAreKept'
  BY DEF IInv, CountsAreKept
<1>6. QED
  BY <1>2, <1>3, <1>4, <1>5 DEF IInv

\* A request arrives and is routed.
LEMMA ArriveStep ==
    ASSUME DispatchAssumption, IInv, UNCHANGED <<app, control>>, NEW r \in Requests,
           header_read_handler(r)
    PROVE  IInv'
<1> PICK a \in Arriving, c \in Cookies :
        Change(r, Routed([NewRequest EXCEPT !.method = a.method, !.path = a.path, !.auth = a.auth,
                                            !.cookie = c],
                         find_route(routes, a.method, a.path)))
  BY DEF header_read_handler
<1> DEFINE q == [NewRequest EXCEPT !.method = a.method, !.path = a.path, !.auth = a.auth,
                                   !.cookie = c]
           found == find_route(routes, a.method, a.path)
<1>1. c \in 0 .. MaxSessions + 1
  BY DEF Cookies, NoCookie, Unknown, IInv, TypeOK, DispatchAssumption
<1>2. <<>> \in Seq(Nat) /\ Len(<<>>) = 0
  BY EmptySeq
<1>3. /\ q \in RequestRecords /\ q.codes = <<>> /\ q.checked = FALSE /\ q.pc = "none"
  BY <1>1, <1>2 DEF NewRequest, RequestRecords, NoCookie, Places
<1>4. Fits(q, made)
  BY <1>2, <1>3 DEF Fits
<1>5. found.found \in {find_route(routes, b.method, b.path).found : b \in Arriving} \cup {0}
  OBVIOUS
<1> HIDE DEF q, found
<1>6. /\ Done(q, 405) \in RequestRecords /\ Fits(Done(q, 405), made) /\ Done(q, 405).pc = "done"
      /\ Done(q, 404) \in RequestRecords /\ Fits(Done(q, 404), made) /\ Done(q, 404).pc = "done"
  BY <1>3, <1>4, AnsweredFits
<1> DEFINE t == [q EXCEPT !.route = found.found, !.pc = "session"]
<1>7. t \in RequestRecords /\ t.pc = "session" /\ t.checked = FALSE /\ t.codes = <<>>
  BY <1>3, <1>5 DEF RequestRecords, Places
<1>8. Fits(t, made)
  BY <1>2, <1>7 DEF Fits
<1>9. Routed(q, found) \in {t, Done(q, 405), Done(q, 404)}
  BY DEF Routed
<1>10. /\ Routed(q, found) \in RequestRecords /\ Fits(Routed(q, found), made)
       /\ Routed(q, found).pc # "counting"
  <2> HIDE DEF t
  <2> QED
    BY <1>6, <1>7, <1>8, <1>9
<1>11. Change(r, Routed(q, found)) /\ UNCHANGED <<sessions, made, saved>>
  BY DEF header_read_handler, q, found
<1>12. QED
  BY <1>10, <1>11, RequestStep

\* What stays of a request keeps it fitting, when its place gives no callback.
LEMMA FitsElsewhere ==
    ASSUME NEW q \in RequestRecords, Fits(q, made), NEW t \in RequestRecords,
           t.checked = q.checked, t.cookie = q.cookie, t.codes = q.codes,
           t.pc \notin {"callback", "counting", "kept"}, AnswersOnce => q.codes = <<>>
    PROVE  Fits(t, made)
<1>1. AnswersOnce => Len(t.codes) <= 1 /\ t.codes = <<>>
  BY DEF Fits
<1>2. QED
  BY <1>1 DEF Fits

\* A request goes on to the callback for one of the three reasons, or there is
\* no session control.
LEMMA FitsCallback ==
    ASSUME NEW q \in RequestRecords, Fits(q, made), AnswersOnce => q.codes = <<>>,
           NEW t \in RequestRecords, t.pc \in {"callback", "kept"}, t.codes = q.codes,
           t.checked => t.cookie \in 1 .. made,
           control.installed => Authorized(t, made)
    PROVE  Fits(t, made)
<1>1. AnswersOnce => Len(t.codes) <= 1 /\ t.codes = <<>>
  BY DEF Fits
<1>2. QED
  BY <1>1 DEF Fits

\* What is known of the request that an action is for.
LEMMA Known ==
    ASSUME IInv, NEW r \in Requests
    PROVE  /\ req[r] \in RequestRecords /\ Fits(req[r], made)
           /\ req[r].pc # "done" => (AnswersOnce => req[r].codes = <<>>)
BY DEF IInv, TypeOK, Fits

\* The session is looked up.
LEMMA CheckSessionStep ==
    ASSUME IInv, UNCHANGED <<app, control>>, NEW r \in Requests, CheckSession(r)
    PROVE  IInv'
<1> DEFINE q == req[r]
           call == [q EXCEPT !.pc = "callback"]
           checked == [q EXCEPT !.pc = "callback", !.checked = TRUE]
           authorize == [q EXCEPT !.pc = "authorize"]
<1>1. /\ q \in RequestRecords /\ Fits(q, made) /\ (AnswersOnce => q.codes = <<>>)
      /\ Change(r, handle_session(q)) /\ UNCHANGED <<sessions, made, saved>>
      /\ q.checked \in BOOLEAN
  BY Known, FieldTypes DEF CheckSession
<1>2. /\ call \in RequestRecords /\ call.pc = "callback" /\ call.codes = q.codes
      /\ call.checked = q.checked /\ call.cookie = q.cookie /\ call.method = q.method
      /\ call.path = q.path
      /\ authorize \in RequestRecords /\ authorize.pc = "authorize" /\ authorize.codes = q.codes
      /\ authorize.checked = q.checked /\ authorize.cookie = q.cookie
  BY ZenonT(40), <1>1, Moved DEF Places
<1>3. /\ checked \in RequestRecords /\ checked.pc = "callback" /\ checked.codes = q.codes
      /\ checked.checked = TRUE /\ checked.cookie = q.cookie
  BY <1>1 DEF RequestRecords, Places
<1>4. q.checked => q.cookie \in 1 .. made
  BY <1>1 DEF Fits
<1>5. Live(q) => q.cookie \in 1 .. made
  BY DEF Live, IInv, TypeOK
<1>6. Done(q, 401) \in RequestRecords /\ Fits(Done(q, 401), made) /\ Done(q, 401).pc = "done"
  BY <1>1, AnsweredFits
<1>7. Fits(authorize, made)
  BY <1>1, <1>2, FitsElsewhere
<1>8. \/ handle_session(q) = call /\ (~control.installed \/ Authorized(q, made))
      \/ handle_session(q) = checked /\ Live(q)
      \/ handle_session(q) \in {Done(q, 401), authorize}
  BY DEF handle_session, Authorized
<1> HIDE DEF call, checked, authorize
<1>9. CASE handle_session(q) = call /\ (~control.installed \/ Authorized(q, made))
  <2>1. control.installed => Authorized(call, made)
    BY <1>2, <1>9 DEF Authorized
  <2>2. Fits(call, made)
    BY <1>1, <1>2, <1>4, <2>1, FitsCallback
  <2>3. QED
    BY <1>1, <1>2, <1>9, <2>2, RequestStep
<1>10. CASE handle_session(q) = checked /\ Live(q)
  <2>1. Fits(checked, made)
    BY <1>1, <1>3, <1>5, <1>10, FitsCallback DEF Authorized
  <2>2. QED
    BY <1>1, <1>3, <1>10, <2>1, RequestStep
<1>11. CASE handle_session(q) \in {Done(q, 401), authorize}
  <2>1. /\ handle_session(q) \in RequestRecords /\ Fits(handle_session(q), made)
        /\ handle_session(q).pc # "counting"
    BY <1>2, <1>6, <1>7, <1>11
  <2>2. QED
    BY <1>1, <2>1, RequestStep
<1>12. QED
  BY <1>8, <1>9, <1>10, <1>11

\* The conditioner and the authorizer are asked.
LEMMA AuthorizeStep ==
    ASSUME ArrivingAssumption, IInv, UNCHANGED <<app, control>>, NEW r \in Requests, Authorize(r)
    PROVE  IInv'
<1> DEFINE q == req[r]
           outcome == Authorization[q.auth]
           conditioned == IF "conditionerAnswers" \in app THEN <<200>> ELSE <<>>
           own == IF outcome.code = 0 THEN <<>> ELSE <<outcome.code>>
           codes == q.codes \o conditioned \o own
           asked == [q EXCEPT !.codes = codes]
<1>1. /\ q \in RequestRecords /\ Fits(q, made) /\ (AnswersOnce => q.codes = <<>>) /\ q.pc = "authorize"
      /\ Change(r, AfterAuthorizer(asked, outcome)) /\ UNCHANGED <<sessions, made, saved>>
  BY Known DEF Authorize
<1>2. outcome.code \in {0, 400, 401}
  <2>1. q.auth \in {a.auth : a \in Arriving} \cup {"none"}
    BY <1>1, FieldTypes
  <2>2. q.auth \in {"none", "other", "malformed", "wrong", "right", "stop"}
    BY <2>1 DEF ArrivingAssumption, Authorization
  <2>3. \A kind \in {"none", "other", "malformed", "wrong", "right", "stop"} :
            Authorization[kind].code \in {0, 400, 401}
    BY DEF Authorization
  <2>4. QED
    BY <2>2, <2>3
<1>3. /\ q.codes \in Seq(Nat) /\ conditioned \in Seq(Nat) /\ own \in Seq(Nat)
  BY <1>1, <1>2, FieldTypes, EmptySeq
<1>4. codes \in Seq(Nat)
  BY <1>3, ConcatProperties
<1>5. AnswersOnce => codes = own
  <2>1. AnswersOnce => conditioned = <<>>
    BY DEF AnswersOnce
  <2>2. QED
    BY ZenonT(40), <1>1, <1>3, <2>1, ConcatEmptySeq
<1>6. \/ own = <<>> /\ Len(own) = 0
      \/ Len(own) = 1 /\ outcome.code # 0
  BY <1>2
<1> HIDE DEF own, conditioned, codes
<1>7. /\ asked \in RequestRecords /\ asked.checked = q.checked /\ asked.cookie = q.cookie
      /\ asked.pc = "authorize" /\ asked.codes = codes
  BY <1>1, <1>4 DEF RequestRecords
<1>8. q.checked => q.cookie \in 1 .. made
  BY <1>1 DEF Fits
<1> HIDE DEF asked, outcome
<1>9. AfterAuthorizer(asked, outcome) =
          CASE outcome.code # 0 -> [asked EXCEPT !.pc = "done"]
            [] outcome.code = 0 /\ outcome.result \in {"allowed_continue", "allowed_but_stop"} ->
                 [asked EXCEPT !.pc = outcome.result]
            [] outcome.code = 0 /\ outcome.result = "bad_request" -> Done(asked, 400)
            [] OTHER -> Done(asked, 401)
  BY DEF AfterAuthorizer
<1>10. CASE outcome.code # 0
  <2> DEFINE t == [asked EXCEPT !.pc = "done"]
  <2>1. AfterAuthorizer(asked, outcome) = t
    BY <1>9, <1>10
  <2>2. /\ t \in RequestRecords /\ t.pc = "done" /\ t.checked = q.checked /\ t.cookie = q.cookie
        /\ t.codes = codes
    BY <1>7, Moved DEF Places
  <2> HIDE DEF t
  <2>3. ASSUME AnswersOnce PROVE Len(t.codes) <= 1
    <3>1. Len(t.codes) = 0 \/ Len(t.codes) = 1
      BY <1>5, <1>6, <2>2, <2>3, Zenon
    <3>2. 0 <= 1 /\ 1 <= 1
      OBVIOUS
    <3>3. QED
      BY <3>1, <3>2, Zenon
  <2>4. Fits(t, made)
    BY <1>8, <2>2, <2>3 DEF Fits
  <2>5. QED
    BY <1>1, <2>1, <2>2, <2>4, RequestStep
<1>11. CASE outcome.code = 0
  <2>1. AnswersOnce => codes = <<>>
    BY <1>5, <1>6, <1>11
  <2>2. Fits(asked, made)
    BY <1>7, <1>8, <2>1, EmptySeq DEF Fits
  <2>3. CASE outcome.result \in {"allowed_continue", "allowed_but_stop"}
    <3> DEFINE t == [asked EXCEPT !.pc = outcome.result]
    <3>1. AfterAuthorizer(asked, outcome) = t
      BY <1>9, <1>11, <2>3
    <3>2. /\ t \in RequestRecords /\ t.pc = outcome.result /\ t.checked = q.checked
          /\ t.cookie = q.cookie /\ t.codes = codes
      <4>1. [asked EXCEPT !.pc = "allowed_continue"] \in RequestRecords
            /\ [asked EXCEPT !.pc = "allowed_but_stop"] \in RequestRecords
        BY <1>7, Moved DEF Places
      <4>2. t \in RequestRecords
        BY <2>3, <4>1
      <4>3. QED
        BY <1>7, <4>2 DEF RequestRecords
    <3> HIDE DEF t
    <3>3. Fits(t, made)
      BY <1>7, <2>1, <2>2, <2>3, <3>2, FitsElsewhere
    <3>4. QED
      BY <1>1, <2>3, <3>1, <3>2, <3>3, RequestStep
  <2>4. CASE outcome.result \notin {"allowed_continue", "allowed_but_stop"}
    <3>1. AfterAuthorizer(asked, outcome) \in {Done(asked, 400), Done(asked, 401)}
      BY <1>9, <1>11, <2>4
    <3>2. /\ Done(asked, 400) \in RequestRecords /\ Fits(Done(asked, 400), made)
          /\ Done(asked, 401) \in RequestRecords /\ Fits(Done(asked, 401), made)
          /\ Done(asked, 400).pc = "done" /\ Done(asked, 401).pc = "done"
      BY <1>7, <2>1, <2>2, AnsweredFits
    <3>3. /\ AfterAuthorizer(asked, outcome) \in RequestRecords
          /\ Fits(AfterAuthorizer(asked, outcome), made)
          /\ AfterAuthorizer(asked, outcome).pc # "counting"
      BY <3>1, <3>2
    <3>4. QED
      BY <1>1, <3>3, RequestStep
  <2>5. QED
    BY <2>3, <2>4
<1>12. QED
  BY <1>10, <1>11

\* A callback is not called for a request that is refused or moved on.
LEMMA SimpleStep ==
    ASSUME IInv, UNCHANGED <<app, control>>, NEW r \in Requests,
           Answer(r) \/ AnswerLater(r) \/ LogIn(r)
    PROVE  IInv'
<1> DEFINE q == req[r]
<1>1. /\ q \in RequestRecords /\ Fits(q, made) /\ (AnswersOnce => q.codes = <<>>)
      /\ UNCHANGED <<sessions, made, saved>> /\ q.pc \in {"callback", "kept"}
  BY Known DEF Answer, AnswerLater, LogIn, InCallback
<1>2. /\ q.checked => q.cookie \in 1 .. made
      /\ control.installed => Authorized(q, made)
  BY <1>1 DEF Fits
<1>3. /\ Done(q, 200) \in RequestRecords /\ Fits(Done(q, 200), made) /\ Done(q, 200).pc = "done"
      /\ Done(q, 500) \in RequestRecords /\ Fits(Done(q, 500), made) /\ Done(q, 500).pc = "done"
  BY <1>1, AnsweredFits
<1>4. ASSUME Change(r, Done(q, 200)) \/ Change(r, Done(q, 500)) PROVE IInv'
  BY <1>1, <1>3, <1>4, RequestStep
<1>5. ASSUME NEW l \in {"silent", "kept", "authorize"}, Change(r, [q EXCEPT !.pc = l]) PROVE IInv'
  <2> DEFINE t == [q EXCEPT !.pc = l]
  <2>1. /\ t \in RequestRecords /\ t.pc = l /\ t.checked = q.checked /\ t.cookie = q.cookie
        /\ t.method = q.method /\ t.path = q.path /\ t.codes = q.codes
    <3>1. l \in Places
      BY DEF Places
    <3>2. QED
      BY <1>1, <3>1, Moved
  <2>2. Change(r, t)
    BY <1>5
  <2> HIDE DEF t
  <2>3. Fits(t, made)
    <3>1. CASE l = "kept"
      <4>1. control.installed => Authorized(t, made)
        BY <1>2, <2>1 DEF Authorized
      <4>2. QED
        BY <1>1, <1>2, <2>1, <3>1, <4>1, FitsCallback
    <3>2. CASE l # "kept"
      BY <1>1, <2>1, <3>2, FitsElsewhere
    <3>3. QED
      BY <3>1, <3>2
  <2>4. QED
    BY <1>1, <2>1, <2>2, <2>3, RequestStep
<1>6. ASSUME "throwsLate" \in app, Change(r, Done(Answered(q, 200, "done"), 500)) PROVE IInv'
  <2>1. ~AnswersOnce
    BY <1>6 DEF AnswersOnce
  <2> DEFINE t == Done(q, 200)
  <2>2. t \in RequestRecords /\ Fits(t, made)
    BY <1>3
  <2>3. Change(r, Done(t, 500))
    BY <1>6 DEF Done
  <2> HIDE DEF t
  <2>4. Done(t, 500) \in RequestRecords /\ Fits(Done(t, 500), made) /\ Done(t, 500).pc = "done"
    BY <2>1, <2>2, AnsweredFits
  <2>5. QED
    BY <1>1, <2>3, <2>4, RequestStep
<1>7. QED
  <2>1. CASE Answer(r)
    BY <1>4, <1>5, <1>6, <2>1 DEF Answer
  <2>2. CASE AnswerLater(r)
    BY <1>4, <2>2 DEF AnswerLater
  <2>3. CASE LogIn(r)
    BY <1>5, <2>3 DEF LogIn
  <2>4. QED
    BY <2>1, <2>2, <2>3

\* A mounted directory's callback answers, or keeps a HEAD.
LEMMA ServeMountStep ==
    ASSUME IInv, UNCHANGED <<app, control>>, NEW r \in Requests, ServeMount(r)
    PROVE  IInv'
<1> DEFINE q == req[r]
<1>1. /\ q \in RequestRecords /\ Fits(q, made) /\ (AnswersOnce => q.codes = <<>>)
      /\ UNCHANGED <<sessions, made, saved>>
  BY Known DEF ServeMount
<1> PICK code \in Nat : Change(r, IF code = 0 THEN [q EXCEPT !.pc = "held"] ELSE Done(q, code))
  BY MountCodes DEF ServeMount
<1> DEFINE t == [q EXCEPT !.pc = "held"]
<1>2. /\ t \in RequestRecords /\ t.pc = "held" /\ t.checked = q.checked /\ t.cookie = q.cookie
      /\ t.codes = q.codes
  BY <1>1, Moved DEF Places
<1>3. Done(q, code) \in RequestRecords /\ Fits(Done(q, code), made) /\ Done(q, code).pc = "done"
  BY <1>1, AnsweredFits
<1>4. Change(r, t) \/ Change(r, Done(q, code))
  OBVIOUS
<1> HIDE DEF t
<1>5. Fits(t, made)
  BY <1>1, <1>2, FitsElsewhere
<1>6. QED
  BY <1>1, <1>2, <1>3, <1>4, <1>5, RequestStep

-----------------------------------------------------------------------------
(* Steps that change the sessions.                                         *)

\* One request goes on, the sessions change, and the rest is what is left to
\* show.
LEMMA SessionStep ==
    ASSUME DispatchAssumption, IInv, UNCHANGED <<app, control>>, NEW r \in Requests,
           NEW q \in RequestRecords, Fits(q, made'), Change(r, q),
           made' \in made .. MaxSessions, DOMAIN sessions' \subseteq 1 .. made',
           sessions' \in [DOMAIN sessions' -> Nat],
           saved' \in [Ids -> Nat], \A i \in Ids : i > made' => saved'[i] = 0,
           "countsOverlap" \notin app => Exclusive', CountsAreKept'
    PROVE  IInv'
<1>1. req' = [req EXCEPT ![r] = q] /\ req \in [Requests -> RequestRecords] /\ made \in 0 .. MaxSessions
      /\ MaxSessions \in Nat /\ 1 .. made \subseteq 1 .. made'
  BY DEF Change, IInv, TypeOK, DispatchAssumption
<1>2. req' \in [Requests -> RequestRecords]
  BY <1>1
<1>3. made' \in 0 .. MaxSessions
  BY <1>1
<1>4. TypeOK'
  BY <1>2, <1>3 DEF IInv, TypeOK
<1>5. ASSUME NEW s \in Requests PROVE Fits(req[s], made)'
  <2>1. CASE s = r
    <3>1. req'[s] = q
      BY <1>1, <2>1
    <3>2. QED
      BY <3>1 DEF Fits, Authorized, AnswersOnce
  <2>2. CASE s # r
    <3>1. req'[s] = req[s]
      BY <1>1, <2>2
    <3>2. Fits(req[s], made)
      BY DEF IInv
    <3>3. QED
      BY <1>1, <3>1, <3>2 DEF Fits, Authorized, AnswersOnce
  <2>3. QED
    BY <2>1, <2>2
<1>6. QED
  BY <1>4, <1>5 DEF IInv

\* A session is made.
LEMMA MakeSessionStep ==
    ASSUME DispatchAssumption, IInv, UNCHANGED <<app, control>>, NEW r \in Requests, MakeSession(r)
    PROVE  IInv'
<1> DEFINE q == req[r]
           t == [q EXCEPT !.cookie = made', !.checked = TRUE]
           u == IF t.pc = "allowed_continue" THEN [t EXCEPT !.pc = "callback"] ELSE Done(t, 204)
<1>1. /\ q \in RequestRecords /\ Fits(q, made) /\ (AnswersOnce => q.codes = <<>>)
      /\ q.pc \in {"allowed_continue", "allowed_but_stop"}
      /\ Change(r, u) /\ UNCHANGED saved /\ made' = made + 1
      /\ sessions' = [i \in DOMAIN sessions \cup {made'} |-> IF i = made' THEN 0 ELSE sessions[i]]
  BY Known DEF MakeSession
<1>2. /\ made \in 0 .. MaxSessions /\ MaxSessions \in Nat /\ made < MaxSessions
      /\ DOMAIN sessions \subseteq 1 .. made /\ sessions \in [DOMAIN sessions -> Nat]
      /\ saved \in [Ids -> Nat] /\ \A i \in Ids : i > made => saved[i] = 0
  BY DEF IInv, TypeOK, DispatchAssumption, MakeSession
<1>3. /\ made' \in 1 .. MaxSessions /\ made' \in made .. MaxSessions /\ made' \in Ids
      /\ made' \notin DOMAIN sessions /\ made' > made /\ made' \in 1 .. made'
  BY <1>1, <1>2 DEF Ids
<1>4. /\ DOMAIN sessions' = {made'} \cup DOMAIN sessions
      /\ sessions'[made'] = 0
      /\ \A i \in DOMAIN sessions : sessions'[i] = sessions[i]
      /\ sessions' \in [DOMAIN sessions' -> Nat]
  BY <1>1, <1>2, <1>3
<1>5. DOMAIN sessions' \subseteq 1 .. made'
  BY <1>1, <1>2, <1>4
<1>6. /\ t \in RequestRecords /\ t.checked = TRUE /\ t.cookie = made' /\ t.codes = q.codes
      /\ t.pc = q.pc
  <2>1. made' \in 0 .. MaxSessions + 1
    BY <1>2, <1>3
  <2>2. QED
    BY ZenonT(40), <1>1, <2>1 DEF RequestRecords
<1> HIDE DEF t
<1>7. u \in RequestRecords /\ Fits(u, made') /\ u.pc # "counting"
  <2>1. CASE t.pc = "allowed_continue"
    <3> DEFINE v == [t EXCEPT !.pc = "callback"]
    <3>1. /\ v \in RequestRecords /\ v.pc = "callback" /\ v.checked /\ v.cookie = made'
          /\ v.codes = q.codes
      BY <1>6, Moved DEF Places
    <3>2. u = v
      BY <2>1
    <3> HIDE DEF v
    <3>3. AnswersOnce => v.codes = <<>> /\ Len(v.codes) <= 1
      BY <1>1, <3>1 DEF Fits
    <3>4. Fits(v, made')
      BY <1>3, <3>1, <3>3 DEF Fits, Authorized
    <3>5. QED
      BY <3>1, <3>2, <3>4
  <2>2. CASE t.pc # "allowed_continue"
    <3> DEFINE v == Done(t, 204)
    <3>1. u = v
      BY <2>2
    <3>2. /\ v \in RequestRecords /\ v.pc = "done" /\ v.cookie = made'
          /\ q.codes = <<>> => Len(v.codes) = 1
      BY <1>6, AnsweredRecord
    <3> HIDE DEF v
    <3>3. ASSUME AnswersOnce PROVE Len(v.codes) <= 1
      <4>1. Len(v.codes) = 1
        BY <1>1, <3>2, <3>3
      <4>2. QED
        BY <4>1
    <3>4. Fits(v, made')
      BY <1>3, <3>2, <3>3 DEF Fits
    <3>5. QED
      BY <3>1, <3>2, <3>4
  <2>3. QED
    BY <2>1, <2>2
<1> HIDE DEF u
<1>8. \A s \in Requests :
          req'[s].pc = "counting" => s # r /\ req'[s] = req[s] /\ req[s].pc = "counting"
  BY <1>1, <1>7 DEF Change, IInv, TypeOK
<1>9. ASSUME "countsOverlap" \notin app PROVE Exclusive'
  <2>1. Exclusive
    BY <1>9 DEF IInv
  <2>2. ASSUME NEW s \in Requests, req'[s].pc = "counting", Live(req[s])'
        PROVE  req'[s].copy = sessions'[req'[s].cookie]
    <3>1. req'[s] = req[s] /\ req[s].pc = "counting" /\ req[s].cookie \in 1 .. made
      BY <1>8, <2>2 DEF IInv, Fits
    <3>2. req[s].cookie \in DOMAIN sessions
      BY <1>1, <1>2, <1>4, <2>2, <3>1 DEF Live
    <3>3. QED
      BY <1>4, <2>1, <3>1, <3>2 DEF Exclusive, Live
  <2>3. QED
    BY <1>8, <2>1, <2>2 DEF Exclusive
<1>10. CountsAreKept'
  BY <1>1, <1>2, <1>3, <1>4 DEF CountsAreKept, IInv, Ids
<1>11. \A i \in Ids : i > made' => saved'[i] = 0
  BY <1>1, <1>2 DEF Ids
<1>12. QED
  BY <1>1, <1>2, <1>3, <1>4, <1>5, <1>7, <1>9, <1>10, <1>11, SessionStep

\* A session is terminated.
LEMMA LogOutStep ==
    ASSUME DispatchAssumption, IInv, UNCHANGED <<app, control>>, NEW r \in Requests, LogOut(r)
    PROVE  IInv'
<1> DEFINE q == req[r]
           t == Done(q, 204)
<1>1. /\ q \in RequestRecords /\ Fits(q, made) /\ (AnswersOnce => q.codes = <<>>)
      /\ Change(r, t) /\ UNCHANGED <<made, saved>>
      /\ sessions' = [i \in DOMAIN sessions \ {q.cookie} |-> sessions[i]]
  BY Known DEF LogOut, InCallback
<1>2. t \in RequestRecords /\ Fits(t, made) /\ t.pc = "done"
  BY <1>1, AnsweredFits
<1> HIDE DEF t
<1>3. /\ made \in 0 .. MaxSessions /\ DOMAIN sessions \subseteq 1 .. made
      /\ sessions \in [DOMAIN sessions -> Nat]
      /\ saved \in [Ids -> Nat] /\ \A i \in Ids : i > made => saved[i] = 0
      /\ req' = [req EXCEPT ![r] = t] /\ req \in [Requests -> RequestRecords]
  BY <1>1 DEF IInv, TypeOK, Change
<1>4. /\ DOMAIN sessions' = DOMAIN sessions \ {q.cookie}
      /\ \A i \in DOMAIN sessions' : sessions'[i] = sessions[i]
      /\ sessions' \in [DOMAIN sessions' -> Nat] /\ DOMAIN sessions' \subseteq 1 .. made'
  BY <1>1, <1>3
<1>5. ASSUME "countsOverlap" \notin app PROVE Exclusive'
  BY <1>1, <1>2, <1>3, <1>4, <1>5 DEF IInv, Exclusive, Live
<1>6. CountsAreKept'
  BY <1>1, <1>4 DEF IInv, CountsAreKept
<1>7. made' \in made .. MaxSessions /\ Fits(t, made')
  BY <1>1, <1>2, <1>3 DEF DispatchAssumption
<1>8. QED
  BY <1>1, <1>2, <1>3, <1>4, <1>5, <1>6, <1>7, SessionStep

\* A callback loads its session.
LEMMA LoadStep ==
    ASSUME DispatchAssumption, IInv, UNCHANGED <<app, control>>, NEW r \in Requests, Load(r)
    PROVE  IInv'
<1> DEFINE q == req[r]
           t == [q EXCEPT !.pc = "counting", !.copy = sessions[q.cookie]]
<1>1. /\ q \in RequestRecords /\ Fits(q, made) /\ (AnswersOnce => q.codes = <<>>)
      /\ q.pc = "callback" /\ Change(r, t) /\ UNCHANGED <<sessions, made, saved>>
      /\ q.cookie \in DOMAIN sessions
  BY Known DEF Load, InCallback, Live
<1>2. /\ made \in 0 .. MaxSessions /\ DOMAIN sessions \subseteq 1 .. made
      /\ sessions \in [DOMAIN sessions -> Nat]
      /\ saved \in [Ids -> Nat] /\ \A i \in Ids : i > made => saved[i] = 0
      /\ req' = [req EXCEPT ![r] = t] /\ req \in [Requests -> RequestRecords]
  BY <1>1 DEF IInv, TypeOK, Change
<1>3. sessions[q.cookie] \in Nat
  BY <1>1, <1>2
<1>4. /\ t \in RequestRecords /\ t.pc = "counting" /\ t.cookie = q.cookie /\ t.checked = q.checked
      /\ t.codes = q.codes /\ t.method = q.method /\ t.path = q.path
      /\ t.copy = sessions[q.cookie]
  BY <1>1, <1>3 DEF RequestRecords, Places
<1> HIDE DEF t
<1>5. Fits(t, made)
  <2>1. control.installed => Authorized(t, made)
    BY <1>1, <1>4 DEF Fits, Authorized
  <2>2. AnswersOnce => Len(t.codes) <= 1 /\ t.codes = <<>>
    BY <1>1, <1>4 DEF Fits
  <2>3. t.cookie \in 1 .. made
    BY <1>1, <1>2, <1>4
  <2>4. QED
    BY <2>1, <2>2, <2>3 DEF Fits
<1>6. ASSUME "countsOverlap" \notin app PROVE Exclusive'
  <2>1. Exclusive /\ \A s \in Requests : req[s].pc = "counting" => req[s].cookie # q.cookie
    BY <1>6 DEF IInv, Load
  <2>2. QED
    BY <1>1, <1>2, <1>4, <2>1 DEF Exclusive, Live
<1>7. CountsAreKept'
  BY <1>1 DEF IInv, CountsAreKept
<1>8. made' \in made .. MaxSessions /\ Fits(t, made')
  BY <1>1, <1>2, <1>5 DEF DispatchAssumption
<1>9. QED
  BY <1>1, <1>2, <1>4, <1>6, <1>7, <1>8, SessionStep

\* A callback stores its session, if that is live still.
LEMMA SaveStep ==
    ASSUME DispatchAssumption, IInv, UNCHANGED <<app, control>>, NEW r \in Requests, Save(r)
    PROVE  IInv'
<1> DEFINE q == req[r]
           t == Done(q, 200)
<1>1. /\ q \in RequestRecords /\ Fits(q, made) /\ (AnswersOnce => q.codes = <<>>)
      /\ q.pc = "counting" /\ Change(r, t) /\ UNCHANGED made
  BY Known DEF Save
<1>2. t \in RequestRecords /\ Fits(t, made) /\ t.pc = "done"
  BY <1>1, AnsweredFits
<1> HIDE DEF t
<1>3. /\ made \in 0 .. MaxSessions /\ DOMAIN sessions \subseteq 1 .. made
      /\ sessions \in [DOMAIN sessions -> Nat] /\ MaxSessions \in Nat
      /\ saved \in [Ids -> Nat] /\ \A i \in Ids : i > made => saved[i] = 0
      /\ req' = [req EXCEPT ![r] = t] /\ req \in [Requests -> RequestRecords]
      /\ q.cookie \in 1 .. made /\ q.copy \in Nat
  BY <1>1, FieldTypes DEF IInv, TypeOK, Change, Fits, DispatchAssumption
<1>4. q.cookie \in Ids /\ ~(q.cookie > made)
  BY <1>3 DEF Ids
<1>5. /\ DOMAIN sessions' = DOMAIN sessions /\ sessions' \in [DOMAIN sessions' -> Nat]
      /\ saved' \in [Ids -> Nat]
      /\ \A i \in Ids : i # q.cookie => saved'[i] = saved[i]
      /\ \A i \in DOMAIN sessions : i # q.cookie => sessions'[i] = sessions[i]
      /\ q.cookie \in DOMAIN sessions =>
             sessions'[q.cookie] = q.copy + 1 /\ saved'[q.cookie] = saved[q.cookie] + 1
  <2>1. CASE q.cookie \in DOMAIN sessions
    <3>1. /\ sessions' = [sessions EXCEPT ![q.cookie] = q.copy + 1]
          /\ saved' = [saved EXCEPT ![q.cookie] = @ + 1]
      BY <2>1 DEF Save
    <3>2. q.copy + 1 \in Nat /\ saved[q.cookie] + 1 \in Nat
      BY <1>3, <1>4
    <3>3. QED
      BY <1>3, <1>4, <2>1, <3>1, <3>2
  <2>2. CASE q.cookie \notin DOMAIN sessions
    BY <1>3, <2>2 DEF Save
  <2>3. QED
    BY <2>1, <2>2
<1>6. ASSUME "countsOverlap" \notin app PROVE Exclusive' /\ CountsAreKept'
  <2>1. /\ Exclusive /\ \A i \in DOMAIN sessions : sessions[i] = saved[i]
    BY <1>6 DEF IInv, CountsAreKept
  <2>2. \A s \in Requests :
            req'[s].pc = "counting" => /\ s # r /\ req'[s] = req[s] /\ req[s].pc = "counting"
                                       /\ req[s].cookie # q.cookie
    BY <1>1, <1>2, <1>3, <2>1 DEF Exclusive
  <2>3. Exclusive'
    BY <1>5, <2>1, <2>2 DEF Exclusive, Live
  <2>4. q.cookie \in DOMAIN sessions => q.copy = saved[q.cookie]
    BY <1>1, <2>1 DEF Exclusive, Live
  <2>5. \A i \in DOMAIN sessions' : sessions'[i] = saved'[i]
    BY <1>3, <1>5, <2>1, <2>4 DEF Ids
  <2>6. QED
    BY <2>3, <2>5 DEF CountsAreKept
<1>7. CountsAreKept'
  BY <1>6 DEF CountsAreKept
<1>8. \A i \in Ids : i > made' => saved'[i] = 0
  BY <1>1, <1>3, <1>4, <1>5
<1>9. made' \in made .. MaxSessions /\ Fits(t, made') /\ DOMAIN sessions' \subseteq 1 .. made'
  BY <1>1, <1>2, <1>3, <1>5
<1>10. QED
  BY <1>1, <1>2, <1>5, <1>6, <1>7, <1>8, <1>9, SessionStep

-----------------------------------------------------------------------------
(* The theorems.                                                           *)

\* The invariant holds at first.
LEMMA InitInv == DispatchAssumption /\ Init => IInv
<1> SUFFICES ASSUME DispatchAssumption, Init PROVE IInv
  OBVIOUS
<1>1. <<>> \in Seq(Nat) /\ Len(<<>>) = 0 /\ DOMAIN sessions = {} /\ sessions \in [DOMAIN sessions -> Nat]
  BY EmptySeq DEF Init
<1>2. /\ NewRequest \in RequestRecords /\ NewRequest.pc = "none" /\ NewRequest.checked = FALSE
      /\ NewRequest.codes = <<>>
  <2>1. NoCookie \in 0 .. MaxSessions + 1
    BY DEF NoCookie, DispatchAssumption
  <2>2. QED
    BY <1>1, <2>1 DEF NewRequest, RequestRecords, Places
<1>3. Fits(NewRequest, made)
  BY <1>1, <1>2 DEF Fits
<1>4. TypeOK
  <2>1. made \in 0 .. MaxSessions /\ app \subseteq Env /\ control \in Controls
    BY DEF Init, DispatchAssumption
  <2>2. saved \in [Ids -> Nat]
    BY DEF Init
  <2>3. QED
    BY <1>1, <1>2, <2>1, <2>2 DEF Init, TypeOK
<1>5. \A r \in Requests : Fits(req[r], made)
  BY <1>3 DEF Init
<1>6. Exclusive /\ CountsAreKept /\ \A i \in Ids : saved[i] = 0
  BY <1>1, <1>2 DEF Init, Exclusive, CountsAreKept
<1>7. QED
  BY <1>4, <1>5, <1>6 DEF IInv

\* Every step keeps it.
LEMMA NextInv ==
    DispatchAssumption /\ ArrivingAssumption /\ IInv /\ [Next]_vars => IInv'
<1> SUFFICES ASSUME DispatchAssumption, ArrivingAssumption, IInv, [Next]_vars PROVE IInv'
  OBVIOUS
<1>1. CASE UNCHANGED vars
  BY <1>1 DEF vars, state, IInv, TypeOK, Fits, Authorized, AnswersOnce, Exclusive, Live, CountsAreKept
<1>2. ASSUME NEW r \in Requests, UNCHANGED <<app, control>>, header_read_handler(r) \/ Handle(r)
      PROVE  IInv'
  BY <1>2, ArriveStep, CheckSessionStep, AuthorizeStep, MakeSessionStep, ServeMountStep, SimpleStep,
     LogOutStep, LoadStep, SaveStep DEF Handle
<1>3. QED
  BY <1>1, <1>2 DEF Next

\* The invariant is inductive.
THEOREM Invariance == Spec => []IInv
BY DispatchAssumption, ArrivingAssumption, InitInv, NextInv, PTL DEF Spec

\* Types: sessions are those that were made, requests have the fields they should.
THEOREM TypeCorrect == Spec => []TypeOK
<1>1. IInv => TypeOK
  BY DEF IInv
<1>2. QED
  BY <1>1, Invariance, PTL

\* No callback runs past the session control of http_basic_server.
THEOREM CallbacksAuthorized == Spec => []CallbackIsAuthorized
<1>1. IInv => CallbackIsAuthorized
  BY DEF IInv, CallbackIsAuthorized, Fits, Authorized
<1>2. QED
  BY <1>1, Invariance, PTL

\* delete_session and set_session: what was terminated stays so.
THEOREM Terminated == Spec => TerminatedStaysTerminated
<1> DEFINE Stays == \A i \in Ids : i <= made /\ i \notin DOMAIN sessions => i \notin DOMAIN sessions'
<1>1. ASSUME IInv, [Next]_vars PROVE [Stays]_vars
  <2>1. made \in Nat
    BY <1>1 DEF IInv, TypeOK
  <2>2. CASE UNCHANGED sessions
    BY <2>2
  <2>3. ASSUME NEW r \in Requests, MakeSession(r) PROVE Stays
    BY <2>1, <2>3 DEF MakeSession, Ids
  <2>4. ASSUME NEW r \in Requests, LogOut(r) PROVE Stays
    BY <2>4 DEF LogOut
  <2>5. ASSUME NEW r \in Requests, Save(r) PROVE Stays
    <3>1. DOMAIN sessions' = DOMAIN sessions
      BY <2>5 DEF Save
    <3>2. QED
      BY <3>1
  <2>6. UNCHANGED vars => UNCHANGED sessions
    BY DEF vars, state
  <2>7. ASSUME NEW r \in Requests, header_read_handler(r) \/ Handle(r)
        PROVE  UNCHANGED sessions \/ MakeSession(r) \/ LogOut(r) \/ Save(r)
    BY <2>7 DEF header_read_handler, Handle, CheckSession, Authorize, ServeMount, Answer,
                AnswerLater, LogIn, Load
  <2>8. QED
    BY <1>1, <2>2, <2>3, <2>4, <2>5, <2>6, <2>7 DEF Next
<1>2. QED
  BY <1>1, Invariance, PTL DEF Spec, TerminatedStaysTerminated

\* load_session and save_session lose no count when the callbacks of a session do
\* not overlap, whatever else happens to the session.
THEOREM CountsKept == Spec => []CountsAreKept
<1>1. IInv => CountsAreKept
  BY DEF IInv
<1>2. QED
  BY <1>1, Invariance, PTL

\* The server, the authorizer and the callback do not answer a request twice
\* between them, when neither the conditioner answers nor a callback throws after
\* its answer: the invariant in OthersAnswered.
THEOREM NoSecondAnswer == Spec => [](AnswersOnce => \A r \in Requests : Len(req[r].codes) <= 1)
<1>1. IInv => (AnswersOnce => \A r \in Requests : Len(req[r].codes) <= 1)
  BY DEF IInv, Fits
<1>2. QED
  BY <1>1, Invariance, PTL

-----------------------------------------------------------------------------
(* Loops, as recursive functions.                                          *)

\* A set of natural numbers that is not empty has a least element.
LEMMA Least ==
    ASSUME NEW S \in SUBSET Nat, S # {}
    PROVE  \E n \in S : \A m \in S : n <= m
<1>1. \E n \in S : \A m \in S : <<m, n>> \notin OpToRel(<, Nat)
  BY NatLessThanWellFounded, WFMin
<1>2. PICK n \in S : \A m \in S : <<m, n>> \notin OpToRel(<, Nat)
  BY <1>1
<1>3. ASSUME NEW m \in S PROVE n <= m
  <2>1. ~(m < n)
    BY <1>2 DEF OpToRel
  <2>2. QED
    BY <2>1
<1>4. QED
  BY <1>3

\* A loop of n turns, the i-th of which is G[<<i, .>>].
Turns(f, a, n, G) ==
    f = [i \in 0 .. n |-> IF i = 0 THEN a ELSE G[<<i, f[i - 1]>>]]

\* There is a function that holds the turns.
LEMMA TurnsExist ==
    ASSUME NEW S, NEW a \in S, NEW n \in Nat, NEW G \in [(1 .. n) \X S -> S]
    PROVE  \E f \in [0 .. n -> S] : Turns(f, a, n, G)
<1> DEFINE Ok(m) == \E f \in [0 .. m -> S] : f[0] = a /\ \A i \in 1 .. m : f[i] = G[<<i, f[i - 1]>>]
           Bad == {m \in 0 .. n : ~Ok(m)}
<1>1. Bad = {}
  <2> SUFFICES ASSUME Bad # {} PROVE FALSE
    OBVIOUS
  <2>1. Bad \in SUBSET Nat
    OBVIOUS
  <2>2. PICK m \in Bad : \A k \in Bad : m <= k
    BY <2>1, Least
  <2>3. CASE m = 0
    <3> DEFINE f == [i \in 0 .. 0 |-> a]
    <3>1. f \in [0 .. 0 -> S] /\ f[0] = a /\ \A i \in 1 .. 0 : f[i] = G[<<i, f[i - 1]>>]
      OBVIOUS
    <3>2. Ok(0)
      BY <3>1
    <3>3. QED
      BY <2>3, <3>2
  <2>4. CASE m # 0
    <3>1. m \in 1 .. n /\ m - 1 \in 0 .. n /\ ~(m <= m - 1)
      BY <2>4
    <3>2. m - 1 \notin Bad
      BY <2>2, <3>1
    <3>3. Ok(m - 1)
      BY <3>1, <3>2
    <3>4. PICK f \in [0 .. m - 1 -> S] :
              f[0] = a /\ \A i \in 1 .. m - 1 : f[i] = G[<<i, f[i - 1]>>]
      BY <3>3
    <3> DEFINE g == [i \in 0 .. m |-> IF i = m THEN G[<<m, f[m - 1]>>] ELSE f[i]]
    <3>5. f[m - 1] \in S /\ <<m, f[m - 1]>> \in (1 .. n) \X S
      BY <3>1
    <3>6. G[<<m, f[m - 1]>>] \in S
      BY <3>5
    <3>7. g \in [0 .. m -> S]
      BY <3>1, <3>6
    <3>8. g[0] = a /\ \A i \in 0 .. m - 1 : g[i] = f[i]
      BY <3>1, <3>4
    <3>9. ASSUME NEW i \in 1 .. m PROVE g[i] = G[<<i, g[i - 1]>>]
      <4>1. CASE i = m
        <5>1. g[i - 1] = f[m - 1] /\ g[i] = G[<<m, f[m - 1]>>]
          BY <3>1, <3>8, <4>1
        <5>2. QED
          BY <4>1, <5>1
      <4>2. CASE i # m
        <5>1. i \in 1 .. m - 1 /\ i \in 0 .. m - 1 /\ i - 1 \in 0 .. m - 1
          BY <3>1, <4>2
        <5>2. g[i] = f[i] /\ g[i - 1] = f[i - 1]
          BY <3>8, <5>1
        <5>3. QED
          BY <3>4, <5>1, <5>2
      <4>3. QED
        BY <4>1, <4>2
    <3> HIDE DEF g
    <3>10. Ok(m)
      BY <3>7, <3>8, <3>9
    <3>11. QED
      BY <3>10
  <2>5. QED
    BY <2>3, <2>4
<1>2. Ok(n)
  <2> HIDE DEF Ok
  <2>1. n \in 0 .. n /\ n \notin Bad
    BY <1>1
  <2>2. QED
    BY <2>1
<1>3. PICK f \in [0 .. n -> S] : f[0] = a /\ \A i \in 1 .. n : f[i] = G[<<i, f[i - 1]>>]
  BY <1>2
<1>4. \A i \in 0 .. n : f[i] = IF i = 0 THEN a ELSE G[<<i, f[i - 1]>>]
  BY <1>3
<1>5. f = [i \in 0 .. n |-> f[i]]
  OBVIOUS
<1>6. f = [i \in 0 .. n |-> IF i = 0 THEN a ELSE G[<<i, f[i - 1]>>]]
  BY <1>4, <1>5
<1>7. QED
  BY <1>3, <1>6 DEF Turns

\* What begins alike and goes on alike is alike.
LEMMA TurnsAgree ==
    ASSUME NEW n \in Nat, NEW f, NEW g, g[0] = f[0],
           \A i \in 1 .. n : g[i - 1] = f[i - 1] => g[i] = f[i]
    PROVE  g[n] = f[n]
<1> SUFFICES \A i \in 0 .. n : g[i] = f[i]
  OBVIOUS
<1> DEFINE Bad == {i \in 0 .. n : g[i] # f[i]}
<1>1. SUFFICES ASSUME Bad # {} PROVE FALSE
  OBVIOUS
<1>2. Bad \in SUBSET Nat
  OBVIOUS
<1>3. PICK i \in Bad : \A j \in Bad : i <= j
  BY <1>1, <1>2, Least
<1>4. i \in 1 .. n /\ i - 1 \in 0 .. n /\ ~(i <= i - 1)
  <2>1. i # 0
    BY <1>3
  <2>2. QED
    BY <1>3, <2>1
<1>5. g[i - 1] = f[i - 1]
  BY <1>3, <1>4
<1>6. QED
  BY <1>3, <1>4, <1>5

-----------------------------------------------------------------------------
(* find_route.                                                             *)

\* What find_route knows behind a route.
Findings == [found : Nat, level : {"no_match", "path_match", "full_match"}]

NothingFound == [found |-> 0, level |-> "no_match"]

\* A turn of its loop.
Look(s, method, path, n, before) ==
    LET level == matches(s[n], method, path)
    IN CASE before.found # 0 -> before
         [] before.found = 0 /\ level = "full_match" -> [found |-> n, level |-> level]
         [] before.found = 0 /\ level = "path_match" -> [before EXCEPT !.level = level]
         [] OTHER -> before

\* A route matches in full, or its path does, or neither.
LEMMA Levels ==
    ASSUME NEW r, NEW method, NEW path
    PROVE  /\ matches(r, method, path) \in {"no_match", "path_match", "full_match"}
           /\ matches(r, method, path) = "full_match" <=> path_matches(r, path) /\ r.method = method
           /\ matches(r, method, path) = "no_match" <=> ~path_matches(r, path)
BY DEF matches

\* The loop is what its turns make of it.
LEMMA Walk ==
    ASSUME NEW s, Len(s) \in Nat, NEW method, NEW path
    PROVE  \E w \in [0 .. Len(s) -> Findings] :
              /\ w[0] = NothingFound
              /\ \A i \in 1 .. Len(s) : w[i] = Look(s, method, path, i, w[i - 1])
              /\ find_route(s, method, path) = w[Len(s)]
<1> DEFINE n == Len(s)
           G == [x \in (1 .. n) \X Findings |-> Look(s, method, path, x[1], x[2])]
           Def(g) == g = [i \in 0 .. Len(s) |->
                            IF i = 0 THEN NothingFound ELSE Look(s, method, path, i, g[i - 1])]
           walk == CHOOSE g : Def(g)
<1>1. ASSUME NEW i \in 1 .. n, NEW b \in Findings
      PROVE  Look(s, method, path, i, b) \in Findings
  BY Levels DEF Look, Findings
<1>2. G \in [(1 .. n) \X Findings -> Findings]
  BY <1>1
<1>3. NothingFound \in Findings
  BY DEF NothingFound, Findings
<1>4. PICK f \in [0 .. n -> Findings] : Turns(f, NothingFound, n, G)
  <2> HIDE DEF G
  <2> QED
    BY <1>2, <1>3, TurnsExist
<1>5. ASSUME NEW i \in 0 .. n
      PROVE  f[i] = IF i = 0 THEN NothingFound ELSE Look(s, method, path, i, f[i - 1])
  <2>1. f[i] = IF i = 0 THEN NothingFound ELSE G[<<i, f[i - 1]>>]
    <3> HIDE DEF G
    <3> QED
      BY <1>4 DEF Turns
  <2>2. CASE i = 0
    BY <2>1, <2>2
  <2>3. CASE i # 0
    <3>1. i \in 1 .. n /\ i - 1 \in 0 .. n
      BY <2>3
    <3>2. <<i, f[i - 1]>> \in (1 .. n) \X Findings
      BY <3>1
    <3>3. G[<<i, f[i - 1]>>] = Look(s, method, path, i, f[i - 1])
      BY <3>2
    <3>4. QED
      BY <2>1, <2>3, <3>3
  <2>4. QED
    BY <2>2, <2>3
<1>6. Def(f)
  <2>1. f = [i \in 0 .. Len(s) |-> f[i]]
    OBVIOUS
  <2>2. QED
    BY <1>5, <2>1
<1>7. Def(walk)
  BY <1>6, Zenon
<1>8. find_route(s, method, path) = walk[Len(s)]
  BY DEF find_route, Look, NothingFound
<1>9. \A i \in 0 .. n : walk[i] = IF i = 0 THEN NothingFound ELSE Look(s, method, path, i, walk[i - 1])
  <2> HIDE DEF walk
  <2> QED
    BY <1>7
<1> HIDE DEF walk, G
<1>10. walk[0] = f[0]
  BY <1>5, <1>9
<1>11. \A i \in 1 .. n : walk[i - 1] = f[i - 1] => walk[i] = f[i]
  <2> TAKE i \in 1 .. n
  <2>1. i \in 0 .. n /\ i # 0
    OBVIOUS
  <2>2. QED
    BY <1>5, <1>9, <2>1
<1>12. walk[n] = f[n]
  <2> HIDE DEF Def
  <2>1. n \in Nat
    OBVIOUS
  <2> HIDE DEF n
  <2>2. QED
    BY <1>10, <1>11, <2>1, TurnsAgree
<1>13. \A i \in 1 .. n : f[i] = Look(s, method, path, i, f[i - 1])
  <2> TAKE i \in 1 .. n
  <2>1. i \in 0 .. n /\ i # 0
    OBVIOUS
  <2>2. QED
    BY <1>5, <2>1
<1>14. f[0] = NothingFound
  BY <1>5
<1>15. QED
  BY <1>8, <1>12, <1>13, <1>14

\* The routes that match, in full or by their path.
Matching(s, method, path) ==
    {i \in 1 .. Len(s) : path_matches(s[i], path) /\ s[i].method = method}

PathKnown(s, path) == \E i \in 1 .. Len(s) : path_matches(s[i], path)

\* b is the first of full; without one its level says whether the path is known.
First(b, full, known) ==
    /\ full # {} => b.found \in full /\ \A i \in full : b.found <= i
    /\ full = {} => b.found = 0 /\ ((b.level = "path_match") <=> known)

\* find_route() returns the first route that matches in full.
LEMMA FindsFirst ==
    ASSUME NEW s, Len(s) \in Nat, NEW method, NEW path
    PROVE  First(find_route(s, method, path), Matching(s, method, path), PathKnown(s, path))
<1> SUFFICES LET found == find_route(s, method, path)
                 full  == {i \in 1 .. Len(s) : path_matches(s[i], path) /\ s[i].method = method}
             IN /\ full # {} => found.found \in full /\ \A i \in full : found.found <= i
                /\ full = {} =>
                      /\ found.found = 0
                      /\ found.level = "path_match"
                            <=> \E i \in 1 .. Len(s) : path_matches(s[i], path)
  BY Zenon DEF First, Matching, PathKnown
<1> DEFINE full == {i \in 1 .. Len(s) : path_matches(s[i], path) /\ s[i].method = method}
           known == {i \in 1 .. Len(s) : path_matches(s[i], path)}
           Fine(b, k) ==
               /\ b.found # 0 => b.found \in full /\ \A i \in full : b.found <= i
               /\ b.found = 0 => \A i \in full : i > k
               /\ b.found = 0 => b.level = (IF \E i \in known : i <= k THEN "path_match" ELSE "no_match")
<1>1. PICK w \in [0 .. Len(s) -> Findings] :
          /\ w[0] = NothingFound
          /\ \A i \in 1 .. Len(s) : w[i] = Look(s, method, path, i, w[i - 1])
          /\ find_route(s, method, path) = w[Len(s)]
  BY Walk
<1>2. ASSUME NEW i \in 1 .. Len(s), NEW b \in Findings, Fine(b, i - 1)
      PROVE  Fine(Look(s, method, path, i, b), i)
  <2> DEFINE level == matches(s[i], method, path)  t == Look(s, method, path, i, b)
  <2>1. /\ level \in {"no_match", "path_match", "full_match"}
        /\ level = "full_match" <=> i \in full
        /\ level = "no_match" <=> i \notin known
        /\ full \subseteq known /\ known \subseteq 1 .. Len(s)
    BY Levels
  <2>2. t = CASE b.found # 0 -> b
              [] b.found = 0 /\ level = "full_match" -> [found |-> i, level |-> level]
              [] b.found = 0 /\ level = "path_match" -> [b EXCEPT !.level = level]
              [] OTHER -> b
    BY DEF Look
  <2> SUFFICES Fine(t, i)
    OBVIOUS
  <2> HIDE DEF level, t, full, known
  <2>3. CASE b.found # 0
    BY <1>2, <2>2, <2>3
  <2>4. CASE b.found = 0 /\ level = "full_match"
    <3>1. t = [found |-> i, level |-> level] /\ t.found = i /\ i # 0
      BY <2>2, <2>4
    <3>2. ASSUME NEW j \in full PROVE i <= j
      BY <1>2, <2>1, <2>4
    <3>3. QED
      BY <2>1, <2>4, <3>1, <3>2
  <2>5. CASE b.found = 0 /\ level = "path_match"
    <3>1. t.found = 0 /\ t.level = "path_match"
      BY <2>2, <2>5 DEF Findings
    <3>2. i \in known /\ i \notin full /\ i <= i
      BY <2>1, <2>5
    <3>3. ASSUME NEW j \in full PROVE j > i
      BY <1>2, <2>1, <2>5, <3>2
    <3>4. QED
      BY <3>1, <3>2, <3>3
  <2>6. CASE b.found = 0 /\ level = "no_match"
    <3>1. t = b
      BY <2>2, <2>6
    <3>2. i \notin known /\ i \notin full
      BY <2>1, <2>6
    <3>3. ASSUME NEW j \in full PROVE j > i
      BY <1>2, <2>1, <2>6, <3>2
    <3>4. (\E j \in known : j <= i) <=> (\E j \in known : j <= i - 1)
      BY <2>1, <3>2
    <3>5. QED
      BY <1>2, <2>6, <3>1, <3>3, <3>4
  <2>7. QED
    BY <2>1, <2>3, <2>4, <2>5, <2>6
<1>3. Fine(NothingFound, 0)
  BY DEF NothingFound
<1> DEFINE Bad == {k \in 0 .. Len(s) : ~Fine(w[k], k)}
<1>4. Bad = {}
  <2> SUFFICES ASSUME Bad # {} PROVE FALSE
    OBVIOUS
  <2> HIDE DEF Fine
  <2>1. Bad \in SUBSET Nat
    OBVIOUS
  <2>2. PICK k \in Bad : \A j \in Bad : k <= j
    BY <2>1, Least
  <2>3. k # 0
    BY <1>1, <1>3
  <2>4. k \in 1 .. Len(s) /\ k - 1 \in 0 .. Len(s) /\ ~(k <= k - 1)
    BY <2>3
  <2>5. Fine(w[k - 1], k - 1) /\ w[k - 1] \in Findings
    BY <2>2, <2>4
  <2>6. Fine(w[k], k)
    BY <1>1, <1>2, <2>4, <2>5
  <2>7. QED
    BY <2>6
<1>5. Fine(w[Len(s)], Len(s))
  <2> HIDE DEF Fine
  <2>1. Len(s) \in 0 .. Len(s) /\ Len(s) \notin Bad
    BY <1>4
  <2>2. QED
    BY <2>1
<1> DEFINE found == w[Len(s)]
<1> HIDE DEF found
<1>6. Fine(found, Len(s))
  BY <1>5 DEF found
<1>7. found.found \in Nat
  BY DEF found, Findings
<1>8. full \subseteq 1 .. Len(s) /\ known \subseteq 1 .. Len(s)
  OBVIOUS
<1>9. (\E i \in known : i <= Len(s)) <=> (\E i \in 1 .. Len(s) : path_matches(s[i], path))
  OBVIOUS
<1>10. /\ full # {} => found.found \in full /\ \A i \in full : found.found <= i
       /\ full = {} => found.found = 0
  <2> HIDE DEF full, known
  <2> QED
    BY <1>6, <1>8
<1>11. full = {} => (found.level = "path_match" <=> \E i \in 1 .. Len(s) : path_matches(s[i], path))
  <2> HIDE DEF full, known
  <2> QED
    BY <1>6, <1>9, <1>10
<1>12. QED
  BY <1>1, <1>10, <1>11 DEF found

-----------------------------------------------------------------------------
(* add_route and mount.                                                    *)

\* In falling order of priority, as the multimap routes_.
Sorted(s) == \A i, j \in DOMAIN s : i < j => s[j].priority <= s[i].priority

Tables(R) == {s \in Seq(R) : Sorted(s)}

\* Sets of routes with priorities.
HavePriorities(R) == \A r \in R : r.priority \in Int

\* A set of the first numbers has as many elements as its last one says.
LEMMA FirstNumbers ==
    ASSUME NEW n \in Nat, NEW A \in SUBSET (1 .. n), \A i \in A : 1 .. i \subseteq A
    PROVE  Cardinality(A) \in 0 .. n /\ A = 1 .. Cardinality(A)
<1> DEFINE C == {k \in 1 .. n + 1 : k \notin A}
<1>1. C \in SUBSET Nat /\ n + 1 \in C
  OBVIOUS
<1>2. PICK k \in C : \A j \in C : k <= j
  BY <1>1, Least
<1>3. ASSUME NEW i \in A PROVE i < k
  <2>1. ~(k <= i)
    BY <1>2
  <2>2. QED
    BY <1>2, <2>1
<1>4. ASSUME NEW j \in 1 .. k - 1 PROVE j \in A
  <2>1. j \in 1 .. n + 1 /\ ~(k <= j)
    BY <1>2
  <2>2. j \notin C
    BY <1>2, <2>1
  <2>3. QED
    BY <2>1, <2>2
<1>5. A = 1 .. k - 1
  <2>1. ASSUME NEW i \in A PROVE i \in 1 .. k - 1
    <3>1. i \in 1 .. n /\ i < k /\ k \in Nat
      BY <1>2, <1>3
    <3>2. QED
      BY <3>1
  <2>2. QED
    BY <1>4, <2>1
<1>6. Cardinality(1 .. k - 1) = k - 1
  <2>1. k - 1 \in Int /\ 1 \in Int
    BY <1>2
  <2>2. Cardinality(1 .. k - 1) = IF 1 > k - 1 THEN 0 ELSE (k - 1) - 1 + 1
    BY <2>1, FS_Interval
  <2>3. QED
    BY <1>2, <2>2
<1>7. QED
  BY <1>2, <1>5, <1>6

\* InsertAt, put out.
LEMMA Inserting ==
    ASSUME NEW s, NEW m, NEW e
    PROVE  InsertAt(s, m, e) = SubSeq(s, 1, m - 1) \o <<e>> \o SubSeq(s, m, Len(s))
BY DEF InsertAt

\* A route is put behind those of its priority and before those of a lower one.
LEMMA AddRouteSorts ==
    ASSUME NEW R, HavePriorities(R), NEW s \in Tables(R), NEW r \in R
    PROVE  add_route(s, r) \in Tables(R)
<1> DEFINE A == {i \in DOMAIN s : s[i].priority >= r.priority}
           k == Cardinality(A)
           n == Len(s)
<1>1. s \in Seq(R) /\ Sorted(s) /\ n \in Nat /\ DOMAIN s = 1 .. n
  BY LenProperties DEF Tables
<1>2. \A i \in 1 .. n : s[i] \in R /\ s[i].priority \in Int
  <2> TAKE i \in 1 .. n
  <2>1. s[i] \in R
    BY <1>1, ElementOfSeq
  <2>2. QED
    BY <2>1 DEF HavePriorities
<1>3. r.priority \in Int
  BY DEF HavePriorities
<1>4. k \in 0 .. n /\ A = 1 .. k
  <2>1. A \in SUBSET (1 .. n)
    BY <1>1
  <2>2. \A i \in A : 1 .. i \subseteq A
    <3> SUFFICES ASSUME NEW i \in A, NEW j \in 1 .. i PROVE j \in A
      OBVIOUS
    <3>1. i \in 1 .. n /\ j \in 1 .. n /\ s[i].priority >= r.priority
      BY <1>1
    <3>2. s[j].priority >= s[i].priority
      <4>1. CASE j = i
        BY <1>2, <3>1, <4>1
      <4>2. CASE j # i
        <5>1. j < i
          BY <3>1, <4>2
        <5>2. s[i].priority <= s[j].priority
          BY <1>1, <3>1, <5>1 DEF Sorted
        <5>3. QED
          BY <1>2, <3>1, <5>2
      <4>3. QED
        BY <4>1, <4>2
    <3>3. s[j].priority >= r.priority
      BY <1>2, <1>3, <3>1, <3>2
    <3>4. QED
      BY <1>1, <3>1, <3>3
  <2> HIDE DEF A, n
  <2>3. QED
    BY <1>1, <2>1, <2>2, FirstNumbers
<1>5. \A i \in 1 .. n : i <= k <=> s[i].priority >= r.priority
  <2> TAKE i \in 1 .. n
  <2>1. i \in A <=> s[i].priority >= r.priority
    BY <1>1
  <2> HIDE DEF A, n
  <2>2. i \in 1 .. k <=> i <= k
    BY <1>1, <1>4
  <2>3. QED
    BY <1>4, <2>1, <2>2
<1> DEFINE before == SubSeq(s, 1, k)
           after  == SubSeq(s, k + 1, n)
           t == before \o <<r>> \o after
<1>6. add_route(s, r) = t
  <2>1. add_route(s, r) = InsertAt(s, k + 1, r)
    BY DEF add_route
  <2> HIDE DEF A, n
  <2>2. PICK m \in Int : m = k + 1 /\ m - 1 = k
    BY <1>1, <1>4
  <2>3. InsertAt(s, m, r) = SubSeq(s, 1, m - 1) \o <<r>> \o SubSeq(s, m, Len(s))
    BY Inserting
  <2>4. add_route(s, r) = InsertAt(s, m, r)
    BY <2>1, <2>2
  <2> HIDE DEF k
  <2>5. n = Len(s)
    BY DEF n
  <2>6. SubSeq(s, 1, m - 1) = before /\ SubSeq(s, m, Len(s)) = after
    BY <2>2, <2>5
  <2> HIDE DEF before, after
  <2>7. QED
    BY <2>3, <2>4, <2>6
<1> HIDE DEF A, n, k
<1>7. before \in Seq(R) /\ Len(before) = k /\ \A i \in 1 .. k : before[i] = s[i]
  <2>1. \A i \in 1 .. k : s[i] \in R
    BY <1>1, <1>2, <1>4
  <2>2. /\ before \in Seq(R)
        /\ Len(before) = IF 1 <= k THEN k - 1 + 1 ELSE 0
        /\ \A i \in 1 .. k - 1 + 1 : before[i] = s[1 + i - 1]
    BY <1>1, <1>4, <2>1, SubSeqProperties
  <2> HIDE DEF before
  <2>3. QED
    BY <1>1, <1>4, <2>2
<1>8. after \in Seq(R) /\ Len(after) = n - k /\ \A i \in 1 .. n - k : after[i] = s[k + i]
  <2>1. \A i \in k + 1 .. n : s[i] \in R
    BY <1>1, <1>2, <1>4
  <2>2. /\ after \in Seq(R)
        /\ Len(after) = IF k + 1 <= n THEN n - (k + 1) + 1 ELSE 0
        /\ \A i \in 1 .. n - (k + 1) + 1 : after[i] = s[k + 1 + i - 1]
    BY <1>1, <1>4, <2>1, SubSeqProperties
  <2> HIDE DEF after
  <2>3. QED
    BY <1>1, <1>4, <2>2
<1> HIDE DEF before, after
<1>9. <<r>> \in Seq(R) /\ Len(<<r>>) = 1 /\ <<r>>[1] = r
  OBVIOUS
<1> DEFINE front == before \o <<r>>
<1>10. /\ front \in Seq(R) /\ Len(front) = k + 1
       /\ \A i \in 1 .. k + 1 : front[i] = IF i <= k THEN before[i] ELSE <<r>>[i - k]
  BY <1>4, <1>7, <1>9, ConcatProperties
<1>11. \A i \in 1 .. k + 1 : front[i] = IF i <= k THEN s[i] ELSE r
  <2> HIDE DEF front
  <2> TAKE i \in 1 .. k + 1
  <2>1. CASE i <= k
    BY <1>1, <1>4, <1>7, <1>10, <2>1
  <2>2. CASE ~(i <= k)
    <3>1. i - k = 1
      BY <1>1, <1>4, <2>2
    <3>2. QED
      BY <1>9, <1>10, <2>2, <3>1
  <2>3. QED
    BY <2>1, <2>2
<1>12. /\ t \in Seq(R) /\ Len(t) = n + 1
       /\ \A i \in 1 .. n + 1 : t[i] = IF i <= k + 1 THEN front[i] ELSE after[i - (k + 1)]
  <2> HIDE DEF front
  <2>1. t = front \o after
    BY DEF front
  <2>2. /\ front \o after \in Seq(R) /\ Len(front \o after) = Len(front) + Len(after)
        /\ \A i \in 1 .. Len(front) + Len(after) :
              (front \o after)[i] = IF i <= Len(front) THEN front[i] ELSE after[i - Len(front)]
    BY <1>8, <1>10, ConcatProperties
  <2>3. Len(front) + Len(after) = n + 1
    BY <1>1, <1>4, <1>8, <1>10
  <2> HIDE DEF t
  <2>4. QED
    BY <1>10, <2>1, <2>2, <2>3
<1> HIDE DEF front, t
<1>13. \A i \in 1 .. n + 1 : t[i] = IF i <= k THEN s[i] ELSE IF i = k + 1 THEN r ELSE s[i - 1]
  <2> TAKE i \in 1 .. n + 1
  <2>1. CASE i <= k + 1
    BY <1>1, <1>4, <1>11, <1>12, <2>1
  <2>2. CASE ~(i <= k + 1)
    <3>1. i - (k + 1) \in 1 .. n - k /\ k + (i - (k + 1)) = i - 1
      BY <1>1, <1>4, <2>2
    <3>2. t[i] = after[i - (k + 1)]
      BY <1>12, <2>2
    <3>3. after[i - (k + 1)] = s[i - 1]
      BY <1>8, <3>1
    <3>4. QED
      BY <1>1, <1>4, <2>2, <3>2, <3>3
  <2>3. QED
    BY <2>1, <2>2
<1>14. Sorted(t)
  <2>1. DOMAIN t = 1 .. n + 1
    BY <1>12, LenProperties
  <2> SUFFICES ASSUME NEW i \in 1 .. n + 1, NEW j \in 1 .. n + 1, i < j
               PROVE  t[j].priority <= t[i].priority
    BY <2>1 DEF Sorted
  <2>2. \A a, b \in 1 .. n : a < b => s[b].priority <= s[a].priority
    BY <1>1 DEF Sorted
  <2>3. CASE j <= k
    <3>1. i \in 1 .. n /\ j \in 1 .. n /\ i <= k
      BY <1>1, <1>4, <2>3
    <3>2. t[i] = s[i] /\ t[j] = s[j]
      BY <1>13, <2>3, <3>1
    <3>3. QED
      BY <2>2, <3>1, <3>2
  <2>4. CASE j = k + 1
    <3>1. i \in 1 .. n /\ i <= k
      BY <1>1, <1>4, <2>4
    <3>2. t[i] = s[i] /\ t[j] = r
      <4>1. ~(j <= k)
        BY <1>1, <1>4, <2>4
      <4>2. QED
        BY <1>13, <2>4, <3>1, <4>1
    <3>3. s[i].priority >= r.priority
      BY <1>5, <3>1
    <3>4. QED
      BY <1>2, <1>3, <3>1, <3>2, <3>3
  <2>5. CASE j > k + 1
    <3>1. j - 1 \in 1 .. n /\ ~(j - 1 <= k) /\ ~(j <= k) /\ j # k + 1
      BY <1>1, <1>4, <2>5
    <3>2. t[j] = s[j - 1]
      BY <1>13, <3>1
    <3>3. s[j - 1].priority <= r.priority
      BY <1>2, <1>3, <1>5, <3>1
    <3>4. CASE i <= k
      <4>1. i \in 1 .. n /\ t[i] = s[i] /\ i < j - 1
        BY <1>1, <1>4, <1>13, <2>5, <3>4
      <4>2. QED
        BY <2>2, <3>1, <3>2, <4>1
    <3>5. CASE i = k + 1
      <4>1. ~(i <= k)
        BY <1>1, <1>4, <3>5
      <4>2. t[i] = r
        BY <1>13, <3>5, <4>1
      <4>3. QED
        BY <3>2, <3>3, <4>2
    <3>6. CASE i > k + 1
      <4>1. i - 1 \in 1 .. n /\ ~(i <= k) /\ i # k + 1 /\ i - 1 < j - 1
        BY <1>1, <1>4, <3>6
      <4>2. t[i] = s[i - 1]
        BY <1>13, <4>1
      <4>3. QED
        BY <2>2, <3>1, <3>2, <4>1, <4>2
    <3>7. QED
      BY <1>1, <1>4, <3>4, <3>5, <3>6
  <2>6. QED
    BY <1>1, <1>4, <2>3, <2>4, <2>5
<1>15. QED
  BY <1>6, <1>12, <1>14 DEF Tables

\* Any number of routes.
LEMMA AddRoutesSorts ==
    ASSUME NEW R, HavePriorities(R), NEW s \in Tables(R), NEW more \in Seq(R)
    PROVE  add_routes(s, more) \in Tables(R)
<1> DEFINE n == Len(more)
           G == [x \in (1 .. n) \X Tables(R) |-> add_route(x[2], more[x[1]])]
           Def(g) == g = [i \in 0 .. Len(more) |->
                            IF i = 0 THEN s ELSE add_route(g[i - 1], more[i])]
           added == CHOOSE g : Def(g)
<1>1. n \in Nat /\ n \in 0 .. n /\ \A i \in 1 .. n : more[i] \in R
  BY LenProperties, ElementOfSeq
<1>2. ASSUME NEW i \in 1 .. n, NEW b \in Tables(R) PROVE add_route(b, more[i]) \in Tables(R)
  BY <1>1, AddRouteSorts
<1>3. G \in [(1 .. n) \X Tables(R) -> Tables(R)]
  BY <1>2
<1>4. PICK f \in [0 .. n -> Tables(R)] : Turns(f, s, n, G)
  <2> HIDE DEF G, n
  <2> QED
    BY <1>1, <1>3, TurnsExist
<1>5. ASSUME NEW i \in 0 .. n
      PROVE  f[i] = IF i = 0 THEN s ELSE add_route(f[i - 1], more[i])
  <2>1. f[i] = IF i = 0 THEN s ELSE G[<<i, f[i - 1]>>]
    <3> HIDE DEF G
    <3> QED
      BY <1>4 DEF Turns
  <2>2. CASE i = 0
    BY <2>1, <2>2
  <2>3. CASE i # 0
    <3> HIDE DEF n
    <3>1. i \in 1 .. n /\ i - 1 \in 0 .. n
      BY <1>1, <2>3
    <3>2. <<i, f[i - 1]>> \in (1 .. n) \X Tables(R)
      BY <3>1
    <3>3. G[<<i, f[i - 1]>>] = add_route(f[i - 1], more[i])
      BY <3>2
    <3>4. QED
      BY <2>1, <2>3, <3>3
  <2>4. QED
    BY <2>2, <2>3
<1>6. Def(f)
  <2>1. f = [i \in 0 .. Len(more) |-> f[i]]
    OBVIOUS
  <2>2. QED
    BY <1>5, <2>1
<1>7. Def(added)
  BY <1>6, Zenon
<1>8. add_routes(s, more) = added[n]
  BY DEF add_routes
<1>9. \A i \in 0 .. n : added[i] = IF i = 0 THEN s ELSE add_route(added[i - 1], more[i])
  <2> HIDE DEF added
  <2> QED
    BY <1>7
<1> HIDE DEF added, G, n
<1>10. added[0] = f[0]
  BY <1>1, <1>5, <1>9
<1>11. \A i \in 1 .. n : added[i - 1] = f[i - 1] => added[i] = f[i]
  <2> TAKE i \in 1 .. n
  <2>1. i \in 0 .. n /\ i # 0
    BY <1>1
  <2>2. QED
    BY <1>5, <1>9, <2>1
<1>12. added[n] = f[n]
  <2> HIDE DEF Def
  <2>1. n \in Nat
    BY <1>1
  <2>2. QED
    BY <1>10, <1>11, <2>1, TurnsAgree
<1>13. QED
  BY <1>1, <1>8, <1>12

\* A finite set can be put in a row.
LEMMA InARow ==
    ASSUME NEW S, IsFiniteSet(S)
    PROVE  SetToSeq(S) \in Seq(S)
<1> DEFINE n == Cardinality(S)
<1>1. n \in Nat /\ ExistsBijection(1 .. n, S)
  BY FS_CardinalityType
<1>2. \E f \in [1 .. n -> S] : IsInjective(f)
  BY <1>1 DEF ExistsBijection, Bijection, Injection
<1>3. SetToSeq(S) \in [1 .. n -> S]
  BY <1>2 DEF SetToSeq
<1> HIDE DEF n
<1>4. QED
  BY <1>1, <1>3

\* mount() adds a route for each method.
LEMMA MountSorts ==
    ASSUME NEW R, HavePriorities(R), NEW s \in Tables(R), NEW root, NEW template,
           NEW methods \in SUBSET MountMethods, NEW priority,
           \A m \in methods : MountRoute(m, root, template, priority) \in R
    PROVE  mount(s, root, template, methods, priority) \in Tables(R)
<1> DEFINE more == {MountRoute(m, root, template, priority) : m \in methods}
           f == [m \in methods |-> MountRoute(m, root, template, priority)]
<1>1. IsFiniteSet(MountMethods)
  <2>1. IsFiniteSet({} \cup {"GET"})
    BY FS_EmptySet, FS_AddElement
  <2>2. IsFiniteSet(({} \cup {"GET"}) \cup {"PUT"})
    BY <2>1, FS_AddElement
  <2>3. IsFiniteSet((({} \cup {"GET"}) \cup {"PUT"}) \cup {"POST"})
    BY <2>2, FS_AddElement
  <2>4. IsFiniteSet(((({} \cup {"GET"}) \cup {"PUT"}) \cup {"POST"}) \cup {"DELETE"})
    BY <2>3, FS_AddElement
  <2>5. IsFiniteSet((((({} \cup {"GET"}) \cup {"PUT"}) \cup {"POST"}) \cup {"DELETE"}) \cup {"HEAD"})
    BY <2>4, FS_AddElement
  <2>6. IsFiniteSet(((((({} \cup {"GET"}) \cup {"PUT"}) \cup {"POST"}) \cup {"DELETE"}) \cup {"HEAD"})
                       \cup {"OPTIONS"})
    BY <2>5, FS_AddElement
  <2>7. MountMethods = (((((({} \cup {"GET"}) \cup {"PUT"}) \cup {"POST"}) \cup {"DELETE"}) \cup {"HEAD"})
                       \cup {"OPTIONS"})
    BY DEF MountMethods
  <2>8. QED
    BY <2>6, <2>7, Zenon
<1>2. IsFiniteSet(methods)
  BY <1>1, FS_Subset
<1>3. f \in Surjection(methods, more)
  BY DEF Surjection
<1>4. IsFiniteSet(more)
  <2> HIDE DEF f, more
  <2> QED
    BY <1>2, <1>3, FS_Surjection
<1>5. more \subseteq R
  OBVIOUS
<1>6. SetToSeq(more) \in Seq(R)
  <2> HIDE DEF more
  <2>1. SetToSeq(more) \in Seq(more)
    BY <1>4, InARow
  <2>2. QED
    BY <1>5, <2>1
<1>7. mount(s, root, template, methods, priority) = add_routes(s, SetToSeq(more))
  BY DEF mount
<1>8. QED
  BY <1>6, <1>7, AddRoutesSorts

\* The table of a server, with its mounts.
AllRoutes ==
    Range(Table) \cup {MountRoute(m, Mounts[i].root, Mounts[i].template, Mounts[i].priority) :
                          i \in DOMAIN Mounts, m \in MountMethods}

\* All of them have priorities.
LEMMA Priorities == ASSUME RoutesAssumption PROVE HavePriorities(AllRoutes)
<1>1. \A r \in Range(Table) : r.priority \in Int
  BY DEF RoutesAssumption, Range
<1>2. ASSUME NEW i \in DOMAIN Mounts, NEW m
      PROVE  MountRoute(m, Mounts[i].root, Mounts[i].template, Mounts[i].priority).priority \in Int
  BY DEF RoutesAssumption, MountRoute
<1> SUFFICES ASSUME NEW r \in AllRoutes PROVE r.priority \in Int
  BY DEF HavePriorities
<1>3. r \in Range(Table) \/
          \E i \in DOMAIN Mounts, m \in MountMethods :
             r = MountRoute(m, Mounts[i].root, Mounts[i].template, Mounts[i].priority)
  BY DEF AllRoutes
<1>4. QED
  BY <1>1, <1>2, <1>3

\* It is sorted.
LEMMA TableSorted == ASSUME RoutesAssumption PROVE routes \in Tables(AllRoutes)
<1> DEFINE R == AllRoutes
           n == Len(Mounts)
           Step(i, b) == mount(b, Mounts[i].root, Mounts[i].template, Mounts[i].methods,
                               Mounts[i].priority)
           a == add_routes(<<>>, Table)
           G == [x \in (1 .. n) \X Tables(R) |-> Step(x[1], x[2])]
           Def(g) == g = [i \in 0 .. Len(Mounts) |-> IF i = 0 THEN add_routes(<<>>, Table)
                                                    ELSE mount(g[i - 1], Mounts[i].root,
                                                               Mounts[i].template, Mounts[i].methods,
                                                               Mounts[i].priority)]
           mounted == CHOOSE g : Def(g)
<1>1. n \in Nat /\ n \in 0 .. n /\ DOMAIN Mounts = 1 .. n
  BY LenProperties DEF RoutesAssumption
<1> HavePriorities(R)
  BY Priorities
<1>0. Range(Table) \subseteq R
  BY DEF AllRoutes
<1>2. a \in Tables(R)
  <2>1. <<>> \in Tables(R)
    <3>1. <<>> \in Seq(R) /\ DOMAIN <<>> = {}
      OBVIOUS
    <3>2. QED
      BY <3>1 DEF Tables, Sorted
  <2>2. Table \in Seq(R)
    BY <1>0 DEF RoutesAssumption
  <2>3. QED
    BY <2>1, <2>2, AddRoutesSorts
<1>3. ASSUME NEW i \in 1 .. n, NEW b \in Tables(R) PROVE Step(i, b) \in Tables(R)
  <2>1. i \in DOMAIN Mounts /\ Mounts[i].methods \in SUBSET MountMethods
    BY <1>1 DEF RoutesAssumption
  <2>2. \A m \in Mounts[i].methods :
            MountRoute(m, Mounts[i].root, Mounts[i].template, Mounts[i].priority) \in R
    BY <2>1 DEF AllRoutes
  <2> HIDE DEF R
  <2>3. QED
    BY <2>1, <2>2, MountSorts
<1> HIDE DEF R
<1> HIDE DEF a
<1>4. G \in [(1 .. n) \X Tables(R) -> Tables(R)]
  <2> HIDE DEF Step
  <2> QED
    BY <1>3
<1>5. PICK f \in [0 .. n -> Tables(R)] : Turns(f, a, n, G)
  <2> HIDE DEF G, n
  <2> QED
    BY <1>1, <1>2, <1>4, TurnsExist
<1>6. ASSUME NEW i \in 0 .. n
      PROVE  f[i] = IF i = 0 THEN a ELSE Step(i, f[i - 1])
  <2>1. f[i] = IF i = 0 THEN a ELSE G[<<i, f[i - 1]>>]
    <3> HIDE DEF G
    <3> QED
      BY <1>5 DEF Turns
  <2>2. CASE i = 0
    BY <2>1, <2>2
  <2>3. CASE i # 0
    <3> HIDE DEF n, Step
    <3>1. i \in 1 .. n /\ i - 1 \in 0 .. n
      BY <1>1, <2>3
    <3>2. <<i, f[i - 1]>> \in (1 .. n) \X Tables(R)
      BY <3>1
    <3>3. G[<<i, f[i - 1]>>] = Step(i, f[i - 1])
      BY <3>2
    <3>4. QED
      BY <2>1, <2>3, <3>3
  <2>4. QED
    BY <2>2, <2>3
<1>7. Def(f)
  <2>1. f = [i \in 0 .. Len(Mounts) |-> f[i]]
    OBVIOUS
  <2>2. QED
    BY <1>6, <2>1 DEF a
<1>8. Def(mounted)
  BY <1>7, Zenon
<1>9. routes = mounted[n]
  BY DEF routes
<1>10. \A i \in 0 .. n : mounted[i] = IF i = 0 THEN a ELSE Step(i, mounted[i - 1])
  <2> HIDE DEF mounted
  <2> QED
    BY <1>8 DEF a
<1> HIDE DEF mounted, G, n, Step
<1>11. mounted[0] = f[0]
  BY <1>1, <1>6, <1>10
<1>12. \A i \in 1 .. n : mounted[i - 1] = f[i - 1] => mounted[i] = f[i]
  <2> TAKE i \in 1 .. n
  <2>1. i \in 0 .. n /\ i # 0
    BY <1>1
  <2>2. QED
    BY <1>6, <1>10, <2>1
<1>13. mounted[n] = f[n]
  <2> HIDE DEF Def
  <2>1. n \in Nat
    BY <1>1
  <2>2. QED
    BY <1>11, <1>12, <2>1, TurnsAgree
<1>14. QED
  BY <1>1, <1>9, <1>13 DEF R

-----------------------------------------------------------------------------
(* The route of a request.                                                 *)

\* A request that has arrived has the route that find_route found, and without one
\* it was answered; the answer is all that became of it.
RoutedAs(q) ==
    q.pc # "none" =>
        LET found == find_route(routes, q.method, q.path)
        IN /\ q.route = found.found
           /\ found.found = 0 =>
                 q.pc = "done" /\ q.codes = (IF found.level = "path_match" THEN <<405>> ELSE <<404>>)

Routing == \A r \in Requests : RoutedAs(req[r])

\* What is not answered yet goes on with its route.
LEMMA KeepsRoute ==
    ASSUME IInv, Routing, NEW r \in Requests, NEW q, Change(r, q), req[r].pc \notin {"none", "done"},
           q.method = req[r].method, q.path = req[r].path, q.route = req[r].route
    PROVE  Routing'
<1>1. req' = [req EXCEPT ![r] = q] /\ req \in [Requests -> RequestRecords]
  BY DEF Change, IInv, TypeOK
<1>2. \A s \in Requests : req'[s] = IF s = r THEN q ELSE req[s]
  BY <1>1
<1>3. RoutedAs(q)
  BY DEF RoutedAs, Routing
<1>4. ASSUME NEW s \in Requests PROVE RoutedAs(req'[s])
  BY <1>2, <1>3 DEF Routing
<1>5. QED
  BY <1>4 DEF Routing, RoutedAs

\* A request is routed when it arrives.
LEMMA ArrivesRouted ==
    ASSUME IInv, Routing, NEW r \in Requests, header_read_handler(r)
    PROVE  Routing'
<1> PICK a \in Arriving, c \in Cookies :
        Change(r, Routed([NewRequest EXCEPT !.method = a.method, !.path = a.path, !.auth = a.auth,
                                            !.cookie = c],
                         find_route(routes, a.method, a.path)))
  BY DEF header_read_handler
<1> DEFINE q == [NewRequest EXCEPT !.method = a.method, !.path = a.path, !.auth = a.auth,
                                   !.cookie = c]
           found == find_route(routes, a.method, a.path)
           t == Routed(q, found)
<1>1. q.method = a.method /\ q.path = a.path /\ q.codes = <<>> /\ q.route = 0
      /\ DOMAIN q = {"pc", "method", "path", "auth", "cookie", "route", "checked", "codes", "copy"}
  BY DEF NewRequest
<1>0. Change(r, t)
  OBVIOUS
<1> HIDE DEF q
<1>2. ASSUME NEW code
      PROVE  /\ Done(q, code).method = q.method /\ Done(q, code).path = q.path
             /\ Done(q, code).route = q.route /\ Done(q, code).codes = <<code>>
             /\ Done(q, code).pc = "done"
  <2>1. Append(q.codes, code) = <<code>>
    BY <1>1
  <2>2. Done(q, code) = [q EXCEPT !.codes = <<code>>, !.pc = "done"]
    BY <2>1 DEF Done, Answered
  <2>3. QED
    BY <1>1, <2>2
<1>3. CASE found.found # 0
  <2>1. t = [q EXCEPT !.route = found.found, !.pc = "session"]
    BY <1>3 DEF Routed
  <2>2. t.method = a.method /\ t.path = a.path /\ t.route = found.found
    BY <1>1, <2>1
  <2> HIDE DEF t
  <2>3. RoutedAs(t)
    BY <1>3, <2>2 DEF RoutedAs
  <2>4. QED
    <3>1. req' = [req EXCEPT ![r] = t] /\ req \in [Requests -> RequestRecords]
      BY <1>0 DEF Change, IInv, TypeOK
    <3>2. ASSUME NEW s \in Requests PROVE RoutedAs(req'[s])
      BY <2>3, <3>1 DEF Routing
    <3>3. QED
      BY <3>2 DEF Routing, RoutedAs
<1>4. CASE found.found = 0
  <2> DEFINE code == IF found.level = "path_match" THEN 405 ELSE 404
  <2>1. t = Done(q, code)
    BY <1>4 DEF Routed
  <2>2. t.method = a.method /\ t.path = a.path /\ t.route = found.found /\ t.codes = <<code>>
        /\ t.pc = "done"
    BY <1>1, <1>2, <1>4, <2>1
  <2> HIDE DEF t
  <2>3. RoutedAs(t)
    BY <1>4, <2>2 DEF RoutedAs
  <2>4. QED
    <3>1. req' = [req EXCEPT ![r] = t] /\ req \in [Requests -> RequestRecords]
      BY <1>0 DEF Change, IInv, TypeOK
    <3>2. ASSUME NEW s \in Requests PROVE RoutedAs(req'[s])
      BY <2>3, <3>1 DEF Routing
    <3>3. QED
      BY <3>2 DEF Routing, RoutedAs
<1>5. QED
  BY <1>3, <1>4

\* The same of a request, whatever else is changed.
SameRoute(t, q) == t.method = q.method /\ t.path = q.path /\ t.route = q.route

RequestFields ==
    {"pc", "method", "path", "auth", "cookie", "route", "checked", "codes", "copy"}

\* An answer leaves it.
LEMMA DoneSameRoute ==
    ASSUME NEW q, DOMAIN q = RequestFields, NEW code, NEW l
    PROVE  /\ SameRoute(Answered(q, code, l), q) /\ SameRoute(Done(q, code), q)
           /\ DOMAIN Answered(q, code, l) = RequestFields
BY DEF SameRoute, Done, Answered, RequestFields

\* Every step leaves it.
LEMMA StepsRoute ==
    ASSUME ArrivingAssumption, IInv, Routing, Next
    PROVE  Routing'
<1> SUFFICES ASSUME NEW r \in Requests, Handle(r) PROVE Routing'
  BY ArrivesRouted DEF Next
<1> DEFINE q == req[r]
<1>0. q \in RequestRecords /\ DOMAIN q = RequestFields
  <2>1. q \in RequestRecords
    BY DEF IInv, TypeOK
  <2>2. QED
    BY <2>1 DEF RequestRecords, RequestFields
<1> SUFFICES \E t : Change(r, t) /\ q.pc \notin {"none", "done"} /\ SameRoute(t, q)
  BY KeepsRoute DEF SameRoute
<1>1. CASE CheckSession(r)
  <2>1. /\ SameRoute([q EXCEPT !.pc = "callback"], q)
        /\ SameRoute([q EXCEPT !.pc = "callback", !.checked = TRUE], q)
        /\ SameRoute([q EXCEPT !.pc = "authorize"], q)
    BY <1>0 DEF SameRoute, RequestFields
  <2>2. SameRoute(Done(q, 401), q)
    BY <1>0, DoneSameRoute
  <2>3. \/ handle_session(q) = [q EXCEPT !.pc = "callback"]
        \/ handle_session(q) = [q EXCEPT !.pc = "callback", !.checked = TRUE]
        \/ handle_session(q) = Done(q, 401)
        \/ handle_session(q) = [q EXCEPT !.pc = "authorize"]
    BY DEF handle_session
  <2>4. SameRoute(handle_session(q), q)
    <3> HIDE DEF q
    <3>1. QED
      BY <2>1, <2>2, <2>3, Zenon
  <2>5. QED
    BY <1>1, <2>4 DEF CheckSession
<1>2. CASE Authorize(r)
  <2> DEFINE outcome == Authorization[q.auth]
             conditioned == IF "conditionerAnswers" \in app THEN <<200>> ELSE <<>>
             own == IF outcome.code = 0 THEN <<>> ELSE <<outcome.code>>
             s == [q EXCEPT !.codes = @ \o conditioned \o own]
  <2>1. Change(r, AfterAuthorizer(s, outcome)) /\ q.pc = "authorize"
    BY <1>2 DEF Authorize
  <2>2. s.method = q.method /\ s.path = q.path /\ s.route = q.route
        /\ DOMAIN s = DOMAIN q
    BY <1>0 DEF RequestRecords
  <2>3. DOMAIN q = {"pc", "method", "path", "auth", "cookie", "route", "checked", "codes", "copy"}
    BY <1>0 DEF RequestRecords
  <2> HIDE DEF s, outcome
  <2>4. SameRoute(AfterAuthorizer(s, outcome), s)
    BY <2>2, <2>3 DEF AfterAuthorizer, Done, Answered, SameRoute
  <2>5. QED
    BY <2>1, <2>2, <2>4 DEF SameRoute
<1>3. CASE MakeSession(r)
  <2> DEFINE s == [q EXCEPT !.cookie = made', !.checked = TRUE]
             t == IF s.pc = "allowed_continue" THEN [s EXCEPT !.pc = "callback"] ELSE Done(s, 204)
  <2>1. Change(r, t) /\ q.pc \notin {"none", "done"}
    BY <1>3 DEF MakeSession
  <2>2. s.method = q.method /\ s.path = q.path /\ s.route = q.route
        /\ DOMAIN s = {"pc", "method", "path", "auth", "cookie", "route", "checked", "codes", "copy"}
    BY <1>0 DEF RequestRecords
  <2> HIDE DEF s
  <2>3. SameRoute(t, s)
    BY <2>2 DEF Done, Answered, SameRoute
  <2>4. QED
    BY <2>1, <2>2, <2>3 DEF SameRoute
<1>4. CASE ServeMount(r)
  <2>1. PICK allowed \in BOOLEAN, works \in BOOLEAN :
            Change(r, IF MountCode(q, allowed, works) = 0 THEN [q EXCEPT !.pc = "held"]
                      ELSE Done(q, MountCode(q, allowed, works)))
    BY <1>4 DEF ServeMount
  <2>2. q.pc = "callback"
    BY <1>4 DEF ServeMount
  <2>3. SameRoute([q EXCEPT !.pc = "held"], q)
    BY <1>0 DEF SameRoute, RequestRecords
  <2>4. SameRoute(Done(q, MountCode(q, allowed, works)), q)
    BY <1>0, DoneSameRoute
  <2>5. QED
    BY <2>1, <2>2, <2>3, <2>4
<1>5. CASE Answer(r)
  <2>1. q.pc = "callback"
    BY <1>5 DEF Answer, InCallback
  <2>2. SameRoute(Done(q, 200), q) /\ SameRoute(Done(q, 500), q)
    BY <1>0, DoneSameRoute
  <2>3. \A l : SameRoute([q EXCEPT !.pc = l], q)
    BY <1>0 DEF SameRoute, RequestRecords
  <2>4. SameRoute(Done(Answered(q, 200, "done"), 500), q)
    <3> DEFINE s == Answered(q, 200, "done")
    <3>1. SameRoute(s, q) /\ DOMAIN s = RequestFields
      BY <1>0, DoneSameRoute
    <3> HIDE DEF s
    <3>2. SameRoute(Done(s, 500), s)
      BY <3>1, DoneSameRoute
    <3>3. QED
      BY <3>1, <3>2 DEF SameRoute, s
  <2>5. QED
    BY <1>5, <2>1, <2>2, <2>3, <2>4 DEF Answer
<1>6. CASE AnswerLater(r)
  BY <1>0, <1>6, DoneSameRoute DEF AnswerLater
<1>7. CASE LogIn(r)
  <2>1. SameRoute([q EXCEPT !.pc = "authorize"], q)
    BY <1>0 DEF SameRoute, RequestRecords
  <2>2. QED
    BY <1>7, <2>1 DEF LogIn, InCallback
<1>8. CASE LogOut(r)
  BY <1>0, <1>8, DoneSameRoute DEF LogOut, InCallback
<1>9. CASE Load(r)
  <2>1. SameRoute([q EXCEPT !.pc = "counting", !.copy = sessions[q.cookie]], q)
    BY <1>0 DEF SameRoute, RequestRecords
  <2>2. QED
    BY <1>9, <2>1 DEF Load, InCallback
<1>10. CASE Save(r)
  BY <1>0, <1>10, DoneSameRoute DEF Save
<1>11. QED
  BY <1>1, <1>2, <1>3, <1>4, <1>5, <1>6, <1>7, <1>8, <1>9, <1>10 DEF Handle

\* What RightRoute says of the choice: the route taken is one for the path and
\* method; none that would do has a higher priority, or the same and was added earlier.
\* Otherwise the answer is 405 if the path is known and 404 if it is not.
BestRoute ==
    \A r \in Requests :
        LET q == req[r]
            suiting == {i \in DOMAIN routes : Suits(i, q)}
            best == {i \in suiting : \A j \in suiting : routes[j].priority <= routes[i].priority}
        IN q.pc # "none" =>
               IF suiting # {} THEN q.route = Min(best)
               ELSE q.codes = IF \E i \in DOMAIN routes : path_matches(routes[i], q.path)
                              THEN <<405>> ELSE <<404>>

\* In a sorted table the first route that suits is the best.
LEMMA FirstIsBest ==
    ASSUME RoutesAssumption, NEW suiting \in SUBSET (DOMAIN routes), NEW n \in suiting,
           \A i \in suiting : n <= i
    PROVE  n = Min({i \in suiting : \A j \in suiting : routes[j].priority <= routes[i].priority})
<1> DEFINE best == {i \in suiting : \A j \in suiting : routes[j].priority <= routes[i].priority}
<1>1. routes \in Seq(AllRoutes) /\ Sorted(routes)
  BY TableSorted DEF Tables
<1>2. DOMAIN routes = 1 .. Len(routes) /\ Len(routes) \in Nat
  BY <1>1, LenProperties
<1>3. routes[n].priority \in Int
  <2>1. routes[n] \in AllRoutes
    BY <1>1, <1>2, ElementOfSeq
  <2>2. \A r \in AllRoutes : r.priority \in Int
    BY Priorities DEF HavePriorities
  <2>3. QED
    BY <2>1, <2>2
<1>4. ASSUME NEW j \in suiting PROVE routes[j].priority <= routes[n].priority
  <2>1. n <= j /\ n \in DOMAIN routes /\ j \in DOMAIN routes
    OBVIOUS
  <2>2. CASE n = j
    BY <1>3, <2>2
  <2>3. CASE n # j
    <3>1. n < j
      BY <1>2, <2>1, <2>3
    <3>2. QED
      BY <1>1, <2>1, <3>1 DEF Sorted
  <2>4. QED
    BY <2>2, <2>3
<1>5. n \in best /\ \A i \in best : n <= i
  BY <1>4
<1>6. best \subseteq Int
  BY <1>2
<1> HIDE DEF best
<1>7. \A i \in best : (\A j \in best : i <= j) => i = n
  BY <1>5, <1>6
<1>8. n = Min(best)
  BY <1>5, <1>7 DEF Min
<1>9. QED
  BY <1>8 DEF best

\* A request has the route that is found, the first that suits.
LEMMA RoutedFirst ==
    ASSUME RoutesAssumption, Routing, NEW r \in Requests, req[r].pc # "none"
    PROVE  LET q == req[r]
               found == find_route(routes, q.method, q.path)
               suiting == {i \in DOMAIN routes : Suits(i, q)}
           IN /\ First(found, suiting, PathKnown(routes, q.path)) /\ q.route = found.found
              /\ suiting # {} => q.route \in suiting
<1> DEFINE q == req[r]
           found == find_route(routes, q.method, q.path)
           suiting == {i \in DOMAIN routes : Suits(i, q)}
<1>1. DOMAIN routes = 1 .. Len(routes) /\ Len(routes) \in Nat
  BY TableSorted, LenProperties DEF Tables
<1>2. q.route = found.found
  BY DEF Routing, RoutedAs
<1>3. suiting = Matching(routes, q.method, q.path)
  BY <1>1 DEF Suits, Matching
<1>4. First(found, suiting, PathKnown(routes, q.path))
  <2>1. First(find_route(routes, q.method, q.path), Matching(routes, q.method, q.path),
              PathKnown(routes, q.path))
    BY <1>1, FindsFirst
  <2>2. QED
    BY <1>3, <2>1
<1>5. suiting # {} => q.route \in suiting
  BY <1>2, <1>4 DEF First
<1>6. QED
  BY <1>2, <1>4, <1>5

\* For every table of routes and mounts.
LEMMA BestOfRouted == ASSUME RoutesAssumption, Routing PROVE BestRoute
<1> SUFFICES ASSUME NEW r \in Requests, req[r].pc # "none"
             PROVE  LET q == req[r]
                        suiting == {i \in DOMAIN routes : Suits(i, q)}
                        best == {i \in suiting :
                                   \A j \in suiting : routes[j].priority <= routes[i].priority}
                    IN IF suiting # {} THEN q.route = Min(best)
                       ELSE q.codes = IF \E i \in DOMAIN routes : path_matches(routes[i], q.path)
                                      THEN <<405>> ELSE <<404>>
  BY DEF BestRoute
<1> DEFINE q == req[r]
           found == find_route(routes, q.method, q.path)
           suiting == {i \in DOMAIN routes : Suits(i, q)}
<1>1. DOMAIN routes = 1 .. Len(routes) /\ Len(routes) \in Nat
  BY TableSorted, LenProperties DEF Tables
<1>2. /\ q.route = found.found
      /\ found.found = 0 => q.codes = (IF found.level = "path_match" THEN <<405>> ELSE <<404>>)
  BY DEF Routing, RoutedAs
<1>4. First(found, suiting, PathKnown(routes, q.path))
  BY RoutedFirst
<1>5. CASE suiting # {}
  <2>1. suiting \in SUBSET (DOMAIN routes)
    OBVIOUS
  <2> HIDE DEF suiting, found
  <2>2. found.found = Min({i \in suiting : \A j \in suiting : routes[j].priority <= routes[i].priority})
    BY <1>4, <1>5, <2>1, FirstIsBest DEF First
  <2>3. QED
    BY <1>2, <1>5, <2>2 DEF suiting
<1>6. CASE suiting = {}
  <2>1. q.codes = IF \E i \in DOMAIN routes : path_matches(routes[i], q.path) THEN <<405>> ELSE <<404>>
    <3> DEFINE known == \E i \in DOMAIN routes : path_matches(routes[i], q.path)
    <3>1. (found.level = "path_match") <=> known
      <4> HIDE DEF suiting, found, q
      <4>1. QED
        BY <1>1, <1>4, <1>6, Zenon DEF First, PathKnown
    <3>2. q.codes = (IF found.level = "path_match" THEN <<405>> ELSE <<404>>)
      BY <1>2, <1>4, <1>6 DEF First
    <3> HIDE DEF suiting, found, q, known
    <3>3. q.codes = IF known THEN <<405>> ELSE <<404>>
      BY <3>1, <3>2, Zenon
    <3>4. QED
      BY <3>3 DEF known
  <2>2. QED
    BY <1>6, <2>1
<1>7. QED
  BY <1>5, <1>6

\* Requests keep the routes that were found for them.
LEMMA StayRouted == Spec => []Routing
<1>1. Init => Routing
  <2> SUFFICES ASSUME Init, NEW r \in Requests PROVE req[r].pc = "none"
    BY DEF Routing, RoutedAs
  <2>1. req = [t \in Requests |-> NewRequest]
    BY DEF Init
  <2>2. req[r] = NewRequest
    BY <2>1
  <2>3. NewRequest.pc = "none"
    BY DEF NewRequest
  <2>4. QED
    BY <2>2, <2>3
<1>2. ArrivingAssumption /\ IInv /\ Routing /\ [Next]_vars => Routing'
  <2> SUFFICES ASSUME ArrivingAssumption, IInv, Routing, [Next]_vars PROVE Routing'
    OBVIOUS
  <2>1. CASE Next
    BY <2>1, StepsRoute
  <2>2. CASE UNCHANGED vars
    BY <2>2 DEF vars, state, Routing, RoutedAs
  <2>3. QED
    BY <2>1, <2>2
<1>3. QED
  BY <1>1, <1>2, Invariance, ArrivingAssumption, PTL DEF Spec

-----------------------------------------------------------------------------
(* The parts of a path.                                                    *)

\* A path has as many parts as slashes.
LEMMA PartsOf ==
    ASSUME NEW path, Len(path) \in Nat, DOMAIN path = 1 .. Len(path)
    PROVE  /\ Len(Parts(path)) \in Nat
           /\ DOMAIN Parts(path) = 1 .. Len(Parts(path))
           /\ Parts(path) = [i \in DOMAIN Parts(path) |-> Parts(path)[i]]
<1> DEFINE n == Cardinality(Slashes(path))  parts == Parts(path)
<1>1. n \in Nat
  <2>1. IsFiniteSet(1 .. Len(path))
    BY FS_Interval
  <2>2. Slashes(path) \subseteq 1 .. Len(path)
    BY DEF Slashes
  <2>3. QED
    BY <2>1, <2>2, FS_Subset, FS_CardinalityType
<1>2. /\ DOMAIN parts = 1 .. n
      /\ parts = [i \in DOMAIN parts |-> parts[i]]
  <2> DEFINE cut(k) == CHOOSE i \in Slashes(path) \cup {Len(path) + 1} :
                          Cardinality({j \in Slashes(path) : j < i}) = k - 1
             e(k) == SubSeq(path, cut(k) + 1, cut(k + 1) - 1)
  <2>0. parts = [k \in 1 .. n |-> e(k)]
    BY DEF Parts
  <2> HIDE DEF n, e, parts
  <2>1. DOMAIN parts = 1 .. n
    BY <2>0
  <2>2. parts = [i \in 1 .. n |-> parts[i]]
    BY <2>0
  <2>3. QED
    BY <2>1, <2>2
<1> HIDE DEF n, parts
<1> DEFINE S == {parts[i] : i \in 1 .. n}
<1>3. parts \in [1 .. n -> S]
  BY <1>2
<1>4. parts \in Seq(S)
  BY <1>1, <1>3, SeqDef
<1>5. Len(parts) \in Nat /\ DOMAIN parts = 1 .. Len(parts)
  BY <1>4, LenProperties
<1>6. QED
  BY <1>2, <1>5 DEF parts

\* get_path_parameters(): the template, filled with what it returns, is the path.
LEMMA FillsIn ==
    ASSUME NEW r, NEW path, ~r.mount, path_matches(r, path),
           Len(path) \in Nat, DOMAIN path = 1 .. Len(path),
           Len(r.template) \in Nat, DOMAIN r.template = 1 .. Len(r.template),
           \A j, k \in DOMAIN Parts(r.template) :
              is_parameter(Parts(r.template)[j]) /\ Parts(r.template)[j] = Parts(r.template)[k]
                  => j = k
    PROVE  Filled(r, path) = Parts(path)
<1> DEFINE own == Parts(r.template)  asked == Parts(path)
           params == {i \in DOMAIN own : is_parameter(own[i])}
           values == get_path_parameters(r, path)
<1>1. /\ DOMAIN own = DOMAIN asked /\ asked = [i \in DOMAIN asked |-> asked[i]]
      /\ \A i \in DOMAIN own : part_matches(own[i], asked[i])
      /\ DOMAIN own \subseteq Nat
  <2>1. Len(own) = Len(asked) /\ \A i \in DOMAIN own : part_matches(own[i], asked[i])
    BY DEF path_matches
  <2>2. /\ DOMAIN own = 1 .. Len(own) /\ DOMAIN asked = 1 .. Len(asked)
        /\ asked = [i \in DOMAIN asked |-> asked[i]]
    BY PartsOf
  <2>3. QED
    BY <2>1, <2>2
<1>2. \A j, k \in DOMAIN own : is_parameter(own[j]) /\ own[j] = own[k] => j = k
  OBVIOUS
<1>3. values = [name \in {own[i] : i \in params} |->
                   asked[Max({i \in params : own[i] = name})]]
  <2>1. params = {i \in DOMAIN own : ~r.mount /\ is_parameter(own[i])}
    OBVIOUS
  <2>2. QED
    BY <2>1 DEF get_path_parameters
<1>4. Filled(r, path) = [i \in DOMAIN own |-> IF own[i] \in DOMAIN values THEN values[own[i]]
                                              ELSE own[i]]
  BY DEF Filled
<1> HIDE DEF own, asked, values
<1>5. ASSUME NEW i \in DOMAIN own
      PROVE  (IF own[i] \in DOMAIN values THEN values[own[i]] ELSE own[i]) = asked[i]
  <2>1. CASE i \in params
    <3>1. {j \in params : own[j] = own[i]} = {i}
      BY <1>2, <2>1
    <3>2. i \in Nat
      BY <1>1
    <3>3. Max({i}) = i
      BY <3>2 DEF Max
    <3>4. own[i] \in {own[j] : j \in params}
      BY <2>1
    <3>5. own[i] \in DOMAIN values
      BY <1>3, <3>4
    <3>6. values[own[i]] = asked[Max({j \in params : own[j] = own[i]})]
      BY <1>3, <3>4
    <3>7. QED
      BY <3>1, <3>3, <3>5, <3>6
  <2>2. CASE i \notin params
    <3>1. own[i] \notin {own[j] : j \in params}
      BY <2>2
    <3>2. own[i] \notin DOMAIN values
      BY <1>3, <3>1
    <3>3. ~is_parameter(own[i])
      BY <2>2
    <3>4. own[i] = asked[i]
      BY <1>1, <3>3 DEF part_matches
    <3>5. QED
      BY <3>2, <3>4
  <2>3. QED
    BY <2>1, <2>2
<1>6. Filled(r, path) = [i \in DOMAIN own |-> asked[i]]
  BY <1>4, <1>5
<1>7. QED
  BY <1>1, <1>6 DEF asked

-----------------------------------------------------------------------------
(* The names of a path.                                                    *)

\* A turn of the loop that collects them.
Collect(path, n, before) == IF path[n] = "/" THEN before ELSE Append(before, path[n])

\* The loop is what its turns make of it.
LEMMA NamesWalk ==
    ASSUME NEW S, NEW path \in Seq(S)
    PROVE  \E w \in [0 .. Len(path) -> Seq(S)] :
              /\ w[0] = <<>>
              /\ \A i \in 1 .. Len(path) : w[i] = Collect(path, i, w[i - 1])
              /\ NamesOf(path) = w[Len(path)]
<1> DEFINE n == Len(path)
           G == [x \in (1 .. n) \X Seq(S) |-> Collect(path, x[1], x[2])]
           Def(g) == g = [i \in 0 .. Len(path) |->
                            IF i = 0 THEN <<>>
                            ELSE IF path[i] = "/" THEN g[i - 1] ELSE Append(g[i - 1], path[i])]
           names == CHOOSE g : Def(g)
<1>0. n \in Nat /\ DOMAIN path = 1 .. n
  BY LenProperties
<1>1. ASSUME NEW i \in 1 .. n, NEW b \in Seq(S) PROVE Collect(path, i, b) \in Seq(S)
  <2>1. path[i] \in S
    BY ElementOfSeq
  <2>2. QED
    BY <2>1, AppendProperties DEF Collect
<1>2. G \in [(1 .. n) \X Seq(S) -> Seq(S)]
  BY <1>1
<1>3. <<>> \in Seq(S)
  BY EmptySeq
<1>4. PICK f \in [0 .. n -> Seq(S)] : Turns(f, <<>>, n, G)
  <2> HIDE DEF G, n
  <2> QED
    BY <1>0, <1>2, <1>3, TurnsExist
<1>5. ASSUME NEW i \in 0 .. n
      PROVE  f[i] = IF i = 0 THEN <<>> ELSE Collect(path, i, f[i - 1])
  <2>1. f[i] = IF i = 0 THEN <<>> ELSE G[<<i, f[i - 1]>>]
    <3> HIDE DEF G
    <3> QED
      BY <1>4 DEF Turns
  <2>2. CASE i = 0
    BY <2>1, <2>2
  <2>3. CASE i # 0
    <3>1. i \in 1 .. n /\ i - 1 \in 0 .. n
      BY <1>0, <2>3
    <3>2. <<i, f[i - 1]>> \in (1 .. n) \X Seq(S)
      BY <3>1
    <3>3. G[<<i, f[i - 1]>>] = Collect(path, i, f[i - 1])
      BY <3>2
    <3>4. QED
      BY <2>1, <2>3, <3>3
  <2>4. QED
    BY <2>2, <2>3
<1>6. Def(f)
  <2>1. f = [i \in 0 .. Len(path) |-> f[i]]
    OBVIOUS
  <2>2. f = [i \in 0 .. Len(path) |-> IF i = 0 THEN <<>> ELSE Collect(path, i, f[i - 1])]
    BY <1>5, <2>1
  <2>3. QED
    BY <2>2 DEF Collect
<1>7. Def(names)
  BY <1>6, Zenon
<1>8. NamesOf(path) = names[n]
  BY DEF NamesOf
<1>9. \A i \in 0 .. n : names[i] = IF i = 0 THEN <<>> ELSE Collect(path, i, names[i - 1])
  <2> HIDE DEF names
  <2> QED
    BY <1>7 DEF Collect
<1> HIDE DEF names, G
<1>10. names[0] = f[0]
  BY <1>0, <1>5, <1>9
<1>11. \A i \in 1 .. n : names[i - 1] = f[i - 1] => names[i] = f[i]
  <2> TAKE i \in 1 .. n
  <2>1. i \in 0 .. n /\ i # 0
    BY <1>0
  <2>2. QED
    BY <1>5, <1>9, <2>1
<1>12. names[n] = f[n]
  <2>1. n \in Nat
    BY <1>0
  <2> HIDE DEF Def, n
  <2>2. QED
    BY <1>10, <1>11, <2>1, TurnsAgree
<1>13. \A i \in 1 .. n : f[i] = Collect(path, i, f[i - 1])
  <2> TAKE i \in 1 .. n
  <2>1. i \in 0 .. n /\ i # 0
    BY <1>0
  <2>2. QED
    BY <1>5, <2>1
<1>14. f[0] = <<>>
  BY <1>0, <1>5
<1>15. QED
  BY <1>8, <1>12, <1>13, <1>14

\* Names of what is put together.
LEMMA NamesConcat ==
    ASSUME NEW S, NEW s \in Seq(S), NEW t \in Seq(S)
    PROVE  NamesOf(s \o t) = NamesOf(s) \o NamesOf(t)
<1> DEFINE cat(x, y) == x \o y  put(x, e) == Append(x, e)
<1>0. \A x, y \in Seq(S), e \in S : put(cat(x, y), e) = cat(x, put(y, e))
  <2> TAKE x \in Seq(S), y \in Seq(S), e \in S
  <2>1. x \o y \in Seq(S) /\ <<e>> \in Seq(S)
    BY ConcatProperties
  <2>2. Append(x \o y, e) = (x \o y) \o <<e>>
    BY <2>1, AppendIsConcat
  <2>3. Append(y, e) = y \o <<e>>
    BY AppendIsConcat
  <2>4. (x \o y) \o <<e>> = x \o (y \o <<e>>)
    BY <2>1, ConcatAssociative
  <2>5. QED
    BY <2>2, <2>3, <2>4
<1> DEFINE m == Len(s)  n == Len(t)  both == s \o t
<1>1. m \in Nat /\ n \in Nat
  BY LenProperties
<1>2. both \in Seq(S) /\ Len(both) = m + n
  BY ConcatProperties
<1>3. \A i \in 1 .. m : both[i] = s[i]
  BY ConcatProperties, <1>1
<1>4. \A i \in 1 .. n : both[m + i] = t[i]
  BY ConcatProperties, <1>1
<1>5. PICK u \in [0 .. m -> Seq(S)] :
          /\ u[0] = <<>> /\ \A i \in 1 .. m : u[i] = Collect(s, i, u[i - 1])
          /\ NamesOf(s) = u[m]
  BY NamesWalk
<1>6. PICK v \in [0 .. n -> Seq(S)] :
          /\ v[0] = <<>> /\ \A i \in 1 .. n : v[i] = Collect(t, i, v[i - 1])
          /\ NamesOf(t) = v[n]
  BY NamesWalk
<1> HIDE DEF both, m, n
<1>7. PICK w \in [0 .. m + n -> Seq(S)] :
          /\ w[0] = <<>> /\ \A i \in 1 .. m + n : w[i] = Collect(both, i, w[i - 1])
          /\ NamesOf(both) = w[m + n]
  BY SMTT(30), <1>2, NamesWalk
<1>8. w[m] = u[m]
  <2>1. w[0] = u[0]
    BY <1>5, <1>7
  <2>2. \A i \in 1 .. m : w[i - 1] = u[i - 1] => w[i] = u[i]
    <3> SUFFICES ASSUME NEW i \in 1 .. m, w[i - 1] = u[i - 1] PROVE w[i] = u[i]
      OBVIOUS
    <3>1. i \in 1 .. m + n
      BY <1>1
    <3>2. w[i] = Collect(both, i, w[i - 1]) /\ u[i] = Collect(s, i, u[i - 1])
      BY <1>5, <1>7, <3>1
    <3>3. QED
      BY <1>3, <3>2 DEF Collect
  <2>3. m \in Nat
    BY <1>1
  <2>4. QED
    BY <2>1, <2>2, <2>3, TurnsAgree
<1> DEFINE g == [i \in 0 .. n |-> w[m + i]]  f == [i \in 0 .. n |-> u[m] \o v[i]]
<1>9. u[m] \in Seq(S)
  BY <1>1
<1>10. g[n] = f[n]
  <2>1. g[0] = f[0]
    <3>1. g[0] = w[m] /\ f[0] = u[m] \o v[0]
      BY <1>1
    <3>2. u[m] \o v[0] = u[m]
      BY <1>6, <1>9, ConcatEmptySeq
    <3>3. QED
      BY <1>8, <3>1, <3>2
  <2>2. \A i \in 1 .. n : g[i - 1] = f[i - 1] => g[i] = f[i]
    <3> SUFFICES ASSUME NEW i \in 1 .. n, g[i - 1] = f[i - 1] PROVE g[i] = f[i]
      OBVIOUS
    <3>1. i \in 0 .. n /\ i - 1 \in 0 .. n /\ m + i \in 1 .. m + n /\ (m + i) - 1 = m + (i - 1)
      BY <1>1
    <3>2. w[m + (i - 1)] = u[m] \o v[i - 1]
      BY <3>1
    <3>3. w[m + i] = Collect(both, m + i, w[m + (i - 1)])
      BY <1>7, <3>1
    <3>4. v[i] = Collect(t, i, v[i - 1]) /\ both[m + i] = t[i]
      BY <1>4, <1>6
    <3>5. t[i] \in S /\ v[i - 1] \in Seq(S)
      BY <3>1, ElementOfSeq DEF n
    <3>6. w[m + i] = u[m] \o v[i]
      <4>1. CASE t[i] = "/"
        BY <3>2, <3>3, <3>4, <4>1 DEF Collect
      <4>2. CASE t[i] # "/"
        <5>1. w[m + i] = Append(u[m] \o v[i - 1], t[i]) /\ v[i] = Append(v[i - 1], t[i])
          BY <3>2, <3>3, <3>4, <4>2 DEF Collect
        <5>2. Append(u[m] \o v[i - 1], t[i]) = u[m] \o Append(v[i - 1], t[i])
          <6> HIDE DEF cat, put
          <6>1. put(cat(u[m], v[i - 1]), t[i]) = cat(u[m], put(v[i - 1], t[i]))
            BY <1>0, <1>9, <3>5, Zenon
          <6>2. QED
            BY <6>1 DEF cat, put
        <5>3. QED
          BY <5>1, <5>2
      <4>3. QED
        BY <4>1, <4>2
    <3>7. QED
      BY <3>1, <3>6
  <2>3. n \in Nat
    BY <1>1
  <2> HIDE DEF f, g
  <2>4. QED
    BY <2>1, <2>2, <2>3, TurnsAgree
<1>11. w[m + n] = u[m] \o v[n]
  <2>1. n \in 0 .. n
    BY <1>1
  <2>2. QED
    BY <1>10, <2>1
<1>12. QED
  BY <1>5, <1>6, <1>7, <1>11 DEF both

\* A slash is no name.
LEMMA NoNames == NamesOf(<<>>) = <<>> /\ NamesOf(<<"/">>) = <<>>
<1>1. NamesOf(<<>>) = <<>>
  <2>1. <<>> \in Seq({"/"}) /\ Len(<<>>) = 0
    OBVIOUS
  <2>2. PICK w \in [0 .. Len(<<>>) -> Seq({"/"})] : w[0] = <<>> /\ NamesOf(<<>>) = w[Len(<<>>)]
    BY <2>1, NamesWalk
  <2>3. QED
    BY <2>1, <2>2
<1>2. NamesOf(<<"/">>) = <<>>
  <2> DEFINE path == <<"/">>
  <2>1. path \in Seq({"/"}) /\ Len(path) = 1 /\ path[1] = "/" /\ 1 \in 1 .. Len(path) /\ 1 - 1 = 0
    OBVIOUS
  <2> HIDE DEF path
  <2>2. PICK w \in [0 .. Len(path) -> Seq({"/"})] :
           /\ w[0] = <<>> /\ \A i \in 1 .. Len(path) : w[i] = Collect(path, i, w[i - 1])
           /\ NamesOf(path) = w[Len(path)]
    BY <2>1, NamesWalk
  <2>3. w[1] = Collect(path, 1, w[1 - 1])
    BY <2>1, <2>2
  <2>4. QED
    BY <2>1, <2>2, <2>3 DEF Collect, path
<1>3. QED
  BY <1>1, <1>2

-----------------------------------------------------------------------------
(* What a path is resolved to.                                             *)

\* Directories are entered, and left for the one above.
LEMMA EnteredIs ==
    ASSUME NEW d \in Seq(Names), NEW part
    PROVE  /\ Entered(d, part) \in Seq(Names)
           /\ part # ".." => \/ Entered(d, part) = d
                             \/ part \in Names /\ Entered(d, part) = Append(d, part)
<1>1. CASE part = ".." /\ d # <<>>
  <2>1. Front(d) \in Seq(Names)
    <3>1. Len(d) \in Nat /\ \A i \in 1 .. Len(d) : d[i] \in Names
      BY LenProperties, ElementOfSeq
    <3>2. PICK k \in Int : k = Len(d) - 1 /\ \A i \in 1 .. k : d[i] \in Names
      BY <3>1
    <3>3. SubSeq(d, 1, k) \in Seq(Names)
      BY <3>2, SubSeqProperties
    <3>4. QED
      BY <3>2, <3>3 DEF Front
  <2>2. QED
    BY <1>1, <2>1 DEF Entered
<1>2. CASE part \in Names \ {".."}
  <2>1. Entered(d, part) = Append(d, part)
    BY <1>2 DEF Entered
  <2>2. QED
    BY <1>2, <2>1, AppendProperties
<1>3. CASE ~(part = ".." /\ d # <<>>) /\ part \notin Names \ {".."}
  BY <1>3 DEF Entered
<1>4. QED
  BY <1>1, <1>2, <1>3

\* The loop is what its turns make of it.
LEMMA ResolvedWalk ==
    ASSUME NEW S, NEW path \in Seq(S)
    PROVE  \E w \in [0 .. Len(path) -> Seq(Names)] :
              /\ w[0] = <<>>
              /\ \A i \in 1 .. Len(path) : w[i] = Entered(w[i - 1], path[i])
              /\ Resolved(path) = w[Len(path)]
<1> DEFINE n == Len(path)
           G == [x \in (1 .. n) \X Seq(Names) |-> Entered(x[2], path[x[1]])]
           Def(g) == g = [i \in 0 .. Len(path) |->
                            IF i = 0 THEN <<>> ELSE Entered(g[i - 1], path[i])]
           file == CHOOSE g : Def(g)
<1>0. n \in Nat
  BY LenProperties
<1>1. G \in [(1 .. n) \X Seq(Names) -> Seq(Names)]
  BY EnteredIs
<1>2. <<>> \in Seq(Names)
  BY EmptySeq
<1>3. PICK f \in [0 .. n -> Seq(Names)] : Turns(f, <<>>, n, G)
  <2> HIDE DEF G, n
  <2> QED
    BY <1>0, <1>1, <1>2, TurnsExist
<1>4. ASSUME NEW i \in 0 .. n
      PROVE  f[i] = IF i = 0 THEN <<>> ELSE Entered(f[i - 1], path[i])
  <2>1. f[i] = IF i = 0 THEN <<>> ELSE G[<<i, f[i - 1]>>]
    <3> HIDE DEF G
    <3> QED
      BY <1>3 DEF Turns
  <2>2. CASE i = 0
    BY <2>1, <2>2
  <2>3. CASE i # 0
    <3>1. i \in 1 .. n /\ i - 1 \in 0 .. n
      BY <1>0, <2>3
    <3>2. <<i, f[i - 1]>> \in (1 .. n) \X Seq(Names)
      BY <3>1
    <3>3. G[<<i, f[i - 1]>>] = Entered(f[i - 1], path[i])
      BY <3>2
    <3>4. QED
      BY <2>1, <2>3, <3>3
  <2>4. QED
    BY <2>2, <2>3
<1>5. Def(f)
  <2>1. f = [i \in 0 .. Len(path) |-> f[i]]
    OBVIOUS
  <2>2. QED
    BY <1>4, <2>1
<1>6. Def(file)
  BY <1>5, Zenon
<1>7. Resolved(path) = file[n]
  BY DEF Resolved
<1>8. \A i \in 0 .. n : file[i] = IF i = 0 THEN <<>> ELSE Entered(file[i - 1], path[i])
  <2> HIDE DEF file
  <2> QED
    BY <1>6
<1> HIDE DEF file, G
<1>9. file[0] = f[0]
  BY <1>0, <1>4, <1>8
<1>10. \A i \in 1 .. n : file[i - 1] = f[i - 1] => file[i] = f[i]
  <2> TAKE i \in 1 .. n
  <2>1. i \in 0 .. n /\ i # 0
    BY <1>0
  <2>2. QED
    BY <1>4, <1>8, <2>1
<1>11. file[n] = f[n]
  <2>1. n \in Nat
    BY <1>0
  <2> HIDE DEF Def, n
  <2>2. QED
    BY <1>9, <1>10, <2>1, TurnsAgree
<1>12. \A i \in 1 .. n : f[i] = Entered(f[i - 1], path[i])
  <2> TAKE i \in 1 .. n
  <2>1. i \in 0 .. n /\ i # 0
    BY <1>0
  <2>2. QED
    BY <1>4, <2>1
<1>13. f[0] = <<>>
  BY <1>0, <1>4
<1>14. QED
  BY <1>7, <1>11, <1>12, <1>13

\* What begins a sequence begins a longer one.
LEMMA BeginsLonger ==
    ASSUME NEW S, NEW s \in Seq(S), NEW t \in Seq(S), NEW e \in S
    PROVE  IsPrefix(s, s) /\ (IsPrefix(s, t) => IsPrefix(s, Append(t, e)))
<1>1. /\ Len(s) \in Nat /\ Len(t) \in Nat
      /\ \A i \in 1 .. Len(t) : t[i] \in S
  BY LenProperties, ElementOfSeq
<1>2. /\ Append(t, e) \in Seq(S) /\ Len(Append(t, e)) = Len(t) + 1
      /\ \A i \in 1 .. Len(t) : Append(t, e)[i] = t[i]
  BY AppendProperties
<1>3. ASSUME IsPrefix(s, t) PROVE IsPrefix(s, Append(t, e))
  <2> DEFINE u == Append(t, e)
  <2> HIDE DEF u
  <2>1. PICK k \in Nat : k = Len(s) /\ k <= Len(t)
    BY <1>1, <1>3 DEF IsPrefix
  <2>2. \A i \in 1 .. k : t[i] \in S /\ u[i] = t[i] /\ u[i] \in S
    BY <1>1, <1>2, <2>1 DEF u
  <2>3. /\ SubSeq(t, 1, k) \in Seq(S) /\ Len(SubSeq(t, 1, k)) = IF 1 <= k THEN k - 1 + 1 ELSE 0
        /\ \A i \in 1 .. k - 1 + 1 : SubSeq(t, 1, k)[i] = t[1 + i - 1]
    BY <2>1, <2>2, SubSeqProperties
  <2>4. /\ SubSeq(u, 1, k) \in Seq(S) /\ Len(SubSeq(u, 1, k)) = IF 1 <= k THEN k - 1 + 1 ELSE 0
        /\ \A i \in 1 .. k - 1 + 1 : SubSeq(u, 1, k)[i] = u[1 + i - 1]
    BY <2>1, <2>2, SubSeqProperties
  <2> DEFINE x == SubSeq(t, 1, k)  y == SubSeq(u, 1, k)
  <2> HIDE DEF x, y
  <2>5. ASSUME NEW i \in 1 .. Len(x) PROVE x[i] = y[i]
    <3>1. i \in 1 .. k /\ i \in 1 .. k - 1 + 1 /\ 1 + i - 1 = i
      BY <2>1, <2>3 DEF x
    <3>2. QED
      BY <2>2, <2>3, <2>4, <3>1 DEF x, y
  <2>6. x = y
    BY <2>3, <2>4, <2>5, SeqEqual DEF x, y
  <2>7. Len(s) <= Len(u)
    BY <1>1, <1>2, <2>1 DEF u
  <2>8. QED
    BY <1>3, <2>1, <2>6, <2>7 DEF IsPrefix, u, x, y
<1>4. QED
  BY <1>1, <1>3 DEF IsPrefix

\* A path that is put behind another and leads up nowhere stays below it.
LEMMA ResolvesBelow ==
    ASSUME NEW S, NEW s \in Seq(S), NEW t \in Seq(S), \A i \in 1 .. Len(t) : t[i] # ".."
    PROVE  IsPrefix(Resolved(s), Resolved(s \o t))
<1> DEFINE m == Len(s)  n == Len(t)  both == s \o t
<1>1. m \in Nat /\ n \in Nat
  BY LenProperties
<1>2. both \in Seq(S) /\ Len(both) = m + n
  BY ConcatProperties
<1>3. \A i \in 1 .. m : both[i] = s[i]
  BY ConcatProperties, <1>1
<1>4. \A i \in 1 .. n : both[m + i] = t[i]
  BY ConcatProperties, <1>1
<1>5. PICK u \in [0 .. m -> Seq(Names)] :
          /\ u[0] = <<>> /\ \A i \in 1 .. m : u[i] = Entered(u[i - 1], s[i])
          /\ Resolved(s) = u[m]
  BY ResolvedWalk
<1> HIDE DEF both, m, n
<1>6. PICK w \in [0 .. m + n -> Seq(Names)] :
          /\ w[0] = <<>> /\ \A i \in 1 .. m + n : w[i] = Entered(w[i - 1], both[i])
          /\ Resolved(both) = w[m + n]
  <2>1. PICK l \in Nat : l = Len(both) /\ l = m + n
    BY <1>1, <1>2
  <2>2. PICK w \in [0 .. l -> Seq(Names)] :
            /\ w[0] = <<>> /\ \A i \in 1 .. l : w[i] = Entered(w[i - 1], both[i])
            /\ Resolved(both) = w[l]
    BY <1>2, <2>1, ResolvedWalk
  <2>3. QED
    BY <2>1, <2>2
<1>7. w[m] = u[m]
  <2>1. w[0] = u[0]
    BY <1>5, <1>6
  <2>2. \A i \in 1 .. m : w[i - 1] = u[i - 1] => w[i] = u[i]
    <3> SUFFICES ASSUME NEW i \in 1 .. m, w[i - 1] = u[i - 1] PROVE w[i] = u[i]
      OBVIOUS
    <3>1. i \in 1 .. m + n
      BY <1>1
    <3>2. w[i] = Entered(w[i - 1], both[i]) /\ u[i] = Entered(u[i - 1], s[i])
      BY <1>5, <1>6, <3>1
    <3>3. QED
      BY <1>3, <3>2
  <2>3. m \in Nat
    BY <1>1
  <2>4. QED
    BY <2>1, <2>2, <2>3, TurnsAgree
<1> DEFINE Bad == {i \in 0 .. n : ~IsPrefix(u[m], w[m + i])}
<1>8. Bad = {}
  <2> SUFFICES ASSUME Bad # {} PROVE FALSE
    OBVIOUS
  <2>1. Bad \in SUBSET Nat
    OBVIOUS
  <2>2. PICK i \in Bad : \A j \in Bad : i <= j
    BY <2>1, Least
  <2>3. u[m] \in Seq(Names)
    BY <1>1
  <2>4. i # 0
    <3>1. m + 0 = m /\ 0 \in 0 .. n
      BY <1>1
    <3>2. IsPrefix(u[m], u[m])
      <4>1. Len(u[m]) \in Nat
        BY <2>3, LenProperties
      <4>2. QED
        BY <4>1 DEF IsPrefix
    <3>3. QED
      BY <1>7, <2>2, <3>1, <3>2
  <2>5. /\ i \in 1 .. n /\ i - 1 \in 0 .. n /\ ~(i <= i - 1) /\ m + i \in 1 .. m + n
        /\ (m + i) - 1 = m + (i - 1) /\ m + (i - 1) \in 0 .. m + n
    BY <1>1, <2>2, <2>4
  <2>6. IsPrefix(u[m], w[m + (i - 1)])
    BY <2>2, <2>5
  <2>7. w[m + i] = Entered(w[m + (i - 1)], t[i]) /\ t[i] # ".."
    <3>1. w[m + i] = Entered(w[(m + i) - 1], both[m + i])
      BY <1>6, <2>5
    <3>2. QED
      BY <1>4, <2>5, <3>1 DEF n
  <2>8. w[m + (i - 1)] \in Seq(Names)
    BY <2>5
  <2>9. \/ w[m + i] = w[m + (i - 1)]
        \/ t[i] \in Names /\ w[m + i] = Append(w[m + (i - 1)], t[i])
    BY <2>7, <2>8, EnteredIs
  <2>10. IsPrefix(u[m], w[m + i])
    BY <2>3, <2>6, <2>8, <2>9, BeginsLonger
  <2>11. QED
    BY <2>2, <2>10
<1>9. n \in 0 .. n
  BY <1>1
<1>10. IsPrefix(u[m], w[m + n])
  BY <1>8, <1>9
<1>11. QED
  BY <1>5, <1>6, <1>10 DEF both

-----------------------------------------------------------------------------
(* The files of mounted directories.                                       *)

\* Of two neighbours one is a slash.
Alternates(path) == \A i \in 1 .. Len(path) - 1 : path[i] = "/" \/ path[i + 1] = "/"

\* What alternates can be put behind what alternates if a slash is between them.
LEMMA Joins ==
    ASSUME NEW S, NEW s \in Seq(S), NEW t \in Seq(S), Alternates(s), Alternates(t),
           Len(s) > 0 /\ Len(t) > 0 => s[Len(s)] = "/" \/ t[1] = "/"
    PROVE  Alternates(s \o t)
<1> DEFINE m == Len(s)  n == Len(t)  both == s \o t
<1>1. m \in Nat /\ n \in Nat
  BY LenProperties
<1>2. Len(both) = m + n
  BY ConcatProperties
<1>3. \A i \in 1 .. m : both[i] = s[i]
  BY ConcatProperties, <1>1
<1>4. \A i \in m + 1 .. m + n : both[i] = t[i - m]
  BY ConcatProperties, <1>1
<1> SUFFICES ASSUME NEW i \in 1 .. m + n - 1 PROVE both[i] = "/" \/ both[i + 1] = "/"
  BY <1>2 DEF Alternates
<1> HIDE DEF both
<1>5. CASE i < m
  <2>1. i \in 1 .. m - 1 /\ i \in 1 .. m /\ i + 1 \in 1 .. m
    BY <1>1, <1>5
  <2>2. s[i] = "/" \/ s[i + 1] = "/"
    BY <2>1 DEF Alternates
  <2>3. both[i] = s[i] /\ both[i + 1] = s[i + 1]
    BY <1>3, <2>1
  <2>4. QED
    BY <2>2, <2>3
<1>6. CASE i = m
  <2>1. m > 0 /\ n > 0 /\ i \in 1 .. m /\ i + 1 \in m + 1 .. m + n /\ (i + 1) - m = 1
    BY <1>1, <1>6
  <2>2. both[i] = s[m] /\ both[i + 1] = t[1]
    BY <1>3, <1>4, <1>6, <2>1
  <2>3. QED
    BY <2>1, <2>2
<1>7. CASE i > m
  <2> DEFINE j == i - m
  <2>1. j \in 1 .. n - 1 /\ i \in m + 1 .. m + n /\ i + 1 \in m + 1 .. m + n /\ (i + 1) - m = j + 1
    BY <1>1, <1>7
  <2>2. t[j] = "/" \/ t[j + 1] = "/"
    BY <2>1 DEF Alternates
  <2>3. both[i] = t[j] /\ both[i + 1] = t[j + 1]
    BY <1>4, <2>1
  <2>4. QED
    BY <2>2, <2>3
<1>8. QED
  BY <1>1, <1>5, <1>6, <1>7

\* What paths are made of.
PathItems == {"/"} \cup Names \cup Params

\* A path alternates.
LEMMA PathsAlternate ==
    ASSUME NEW path \in Paths
    PROVE  path \in Seq(PathItems) /\ Alternates(path)
<1>1. path \in Seq(PathItems) /\ \A i \in 1 .. Len(path) - 1 : "/" \in {path[i], path[i + 1]}
  BY DEF Paths, PathItems
<1>2. QED
  BY <1>1 DEF Alternates

\* So do their ends.
LEMMA EndAlternates ==
    ASSUME NEW path \in Paths, NEW k \in Nat
    PROVE  LET rest == SubSeq(path, k + 1, Len(path))
           IN rest \in Seq(PathItems) /\ Alternates(rest)
<1> DEFINE n == Len(path)  rest == SubSeq(path, k + 1, n)
<1>1. path \in Seq(PathItems) /\ Alternates(path) /\ n \in Nat /\ DOMAIN path = 1 .. n
  BY PathsAlternate, LenProperties
<1>2. \A i \in k + 1 .. n : path[i] \in PathItems
  BY <1>1, ElementOfSeq
<1>3. /\ rest \in Seq(PathItems)
      /\ Len(rest) = IF k + 1 <= n THEN n - (k + 1) + 1 ELSE 0
      /\ \A i \in 1 .. n - (k + 1) + 1 : rest[i] = path[(k + 1) + i - 1]
  <2>1. k + 1 \in Int /\ n \in Int
    BY <1>1
  <2> HIDE DEF n
  <2>2. QED
    BY <1>2, <2>1, SubSeqProperties
<1> HIDE DEF rest, n
<1>4. ASSUME NEW i \in 1 .. Len(rest) - 1 PROVE rest[i] = "/" \/ rest[i + 1] = "/"
  <2>1. k + 1 <= n /\ Len(rest) = n - k
    BY <1>1, <1>3
  <2>2. /\ i \in 1 .. n - (k + 1) + 1 /\ i + 1 \in 1 .. n - (k + 1) + 1
        /\ (k + 1) + i - 1 = k + i /\ (k + 1) + (i + 1) - 1 = (k + i) + 1 /\ k + i \in 1 .. n - 1
    BY <1>1, <2>1
  <2>3. rest[i] = path[k + i] /\ rest[i + 1] = path[(k + i) + 1]
    BY <1>3, <2>2
  <2>4. path[k + i] = "/" \/ path[(k + i) + 1] = "/"
    BY <1>1, <2>2 DEF Alternates, n
  <2>5. QED
    BY <2>3, <2>4
<1>5. QED
  BY <1>3, <1>4 DEF Alternates, rest, n

\* mounted_path(): the names of the file are those of the root and what the
\* template leaves of the path, with slashes in between.
LEMMA MountsBelow ==
    ASSUME NEW r, r.root \in Paths, r.root # <<>>, r.template \in Paths, NEW path \in Paths
    PROVE  LET rest == SubSeq(path, Len(r.template) + 1, Len(path))
               file == mounted_path(r, path)
           IN NamesOf(file) = NamesOf(r.root) \o NamesOf(rest) /\ Alternates(file)
<1> DEFINE root == r.root
           rest == SubSeq(path, Len(r.template) + 1, Len(path))
           file == mounted_path(r, path)
           bare == Last(r.root) # "/" /\ (rest = <<>> \/ Head(rest) # "/")
<1>1. /\ root \in Seq(PathItems) /\ Alternates(root) /\ root # <<>>
      /\ rest \in Seq(PathItems) /\ Alternates(rest)
  <2>1. Len(r.template) \in Nat
    BY PathsAlternate, LenProperties
  <2>2. QED
    BY <2>1, PathsAlternate, EndAlternates
<1>2. root[Len(root)] # "/" <=> Last(r.root) # "/"
  BY DEF Last
<1>3. rest # <<>> => Head(rest) = rest[1]
  <2> HIDE DEF rest, root
  <2> QED
    BY <1>1
<1>4. Len(rest) > 0 => rest # <<>>
  <2> HIDE DEF rest, root
  <2> QED
    BY <1>1
<1>5. CASE bare
  <2> DEFINE glue == <<"/">>  front == root \o glue
  <2>1. file = front \o rest
    BY <1>5 DEF mounted_path
  <2>2. /\ glue \in Seq(PathItems) /\ Len(glue) = 1 /\ glue[1] = "/"
        /\ Alternates(glue)
    BY DEF PathItems, Alternates
  <2>3. front \in Seq(PathItems) /\ Len(front) = Len(root) + 1 /\ front[Len(root) + 1] = "/"
    <3>1. Len(root) \in Nat
      BY <1>1, LenProperties
    <3> HIDE DEF glue, root
    <3>2. /\ root \o glue \in Seq(PathItems) /\ Len(root \o glue) = Len(root) + Len(glue)
          /\ \A i \in 1 .. Len(root) + Len(glue) :
                (root \o glue)[i] = IF i <= Len(root) THEN root[i] ELSE glue[i - Len(root)]
      BY <1>1, <2>2, ConcatProperties
    <3> HIDE DEF front
    <3>3. /\ front \in Seq(PathItems) /\ Len(front) = Len(root) + Len(glue)
          /\ \A i \in 1 .. Len(root) + Len(glue) :
                front[i] = IF i <= Len(root) THEN root[i] ELSE glue[i - Len(root)]
      BY <3>2 DEF front
    <3>4. /\ Len(root) + 1 \in 1 .. Len(root) + Len(glue)
          /\ ~(Len(root) + 1 <= Len(root)) /\ Len(root) + 1 - Len(root) = 1
      BY <2>2, <3>1
    <3>5. QED
      BY <2>2, <3>3, <3>4
  <2>4. Alternates(front)
    <3> HIDE DEF glue, root
    <3>1. QED
      BY <1>1, <2>2, Joins
  <2>5. NamesOf(front) = NamesOf(root)
    <3>1. NamesOf(root) \in Seq(PathItems)
      <4>1. PICK w \in [0 .. Len(root) -> Seq(PathItems)] : NamesOf(root) = w[Len(root)]
        BY <1>1, NamesWalk
      <4>2. Len(root) \in 0 .. Len(root)
        BY <1>1, LenProperties
      <4>3. QED
        BY <4>1, <4>2
    <3>2. NamesOf(root \o glue) = NamesOf(root) \o NamesOf(glue)
      <4> HIDE DEF glue, root
      <4>1. QED
        BY <1>1, <2>2, NamesConcat
    <3>3. NamesOf(glue) = <<>>
      BY NoNames
    <3>4. NamesOf(root) \o <<>> = NamesOf(root)
      BY <3>1, ConcatEmptySeq
    <3>5. QED
      BY <3>2, <3>3, <3>4
  <2> HIDE DEF front, root, rest
  <2>6. NamesOf(front \o rest) = NamesOf(front) \o NamesOf(rest)
    BY <1>1, <2>3, NamesConcat
  <2>7. Alternates(front \o rest)
    BY <1>1, <2>3, <2>4, Joins
  <2>8. QED
    BY <2>1, <2>5, <2>6, <2>7 DEF root, rest
<1>6. CASE ~bare
  <2>1. file = root \o rest
    <3>1. file = (root \o <<>>) \o rest
      BY <1>6 DEF mounted_path
    <3>2. root \o <<>> = root
      BY <1>1, ConcatEmptySeq
    <3>3. QED
      BY <3>1, <3>2
  <2>2. Len(rest) > 0 => root[Len(root)] = "/" \/ rest[1] = "/"
    BY <1>2, <1>3, <1>4, <1>6
  <2> HIDE DEF root, rest
  <2>3. NamesOf(root \o rest) = NamesOf(root) \o NamesOf(rest)
    BY <1>1, NamesConcat
  <2>4. Alternates(root \o rest)
    BY <1>1, <2>2, Joins
  <2>5. QED
    BY <2>1, <2>3, <2>4 DEF root, rest
<1>7. QED
  BY <1>5, <1>6

\* validate_path(): a path that passes and does not end with ".." stays below the root.
LEMMA MountsInside ==
    ASSUME NEW r, r.root \in Paths, r.template \in Paths,
           NEW path \in Paths, validate_path(path), ~EndsAbove(path)
    PROVE  IsPrefix(Resolved(r.root), Resolved(mounted_path(r, path)))
<1> DEFINE root == r.root
           rest == SubSeq(path, Len(r.template) + 1, Len(path))
           file == mounted_path(r, path)
           bare == Last(r.root) # "/" /\ (rest = <<>> \/ Head(rest) # "/")
           glue == <<"/">>
<1>1. /\ root \in Seq(PathItems) /\ path \in Seq(PathItems) /\ Alternates(path)
      /\ rest \in Seq(PathItems) /\ Len(r.template) \in Nat /\ Len(path) \in Nat
  <2>1. Len(r.template) \in Nat /\ Len(path) \in Nat
    BY PathsAlternate, LenProperties
  <2>2. QED
    BY <2>1, PathsAlternate, EndAlternates
<1>2. ASSUME NEW i \in 1 .. Len(path) PROVE path[i] # ".."
  <2>1. CASE i = Len(path)
    <3>1. path # <<>>
      BY <1>1, <2>1, EmptySeq
    <3>2. QED
      BY <2>1, <3>1 DEF EndsAbove, Last
  <2>2. CASE i # Len(path)
    <3>1. i \in 1 .. Len(path) - 1
      BY <1>1, <2>2
    <3>2. path[i] = "/" \/ path[i + 1] = "/"
      BY <1>1, <3>1 DEF Alternates
    <3>3. ~(path[i] = ".." /\ path[i + 1] = "/")
      BY <3>1 DEF validate_path
    <3>4. QED
      BY <3>2, <3>3
  <2>3. QED
    BY <2>1, <2>2
<1>3. ASSUME NEW i \in 1 .. Len(rest) PROVE rest[i] # ".."
  <2>1. PICK k \in Nat, n \in Nat : k = Len(r.template) /\ n = Len(path)
    BY <1>1
  <2>2. \A j \in k + 1 .. n : path[j] \in PathItems
    BY <1>1, <2>1, ElementOfSeq
  <2>3. /\ Len(rest) = IF k + 1 <= n THEN n - (k + 1) + 1 ELSE 0
        /\ \A j \in 1 .. n - (k + 1) + 1 : rest[j] = path[(k + 1) + j - 1]
    <3>1. k + 1 \in Int /\ n \in Int
      BY <2>1
    <3>2. /\ Len(SubSeq(path, k + 1, n)) = IF k + 1 <= n THEN n - (k + 1) + 1 ELSE 0
          /\ \A j \in 1 .. n - (k + 1) + 1 : SubSeq(path, k + 1, n)[j] = path[(k + 1) + j - 1]
      BY <2>2, <3>1, SubSeqProperties
    <3>3. rest = SubSeq(path, k + 1, n)
      BY <2>1
    <3>4. QED
      BY <3>2, <3>3
  <2> HIDE DEF rest
  <2>4. PICK j \in 1 .. n : j = (k + 1) + i - 1 /\ i \in 1 .. n - (k + 1) + 1
    BY <1>3, <2>3
  <2>5. QED
    BY <1>2, <2>1, <2>3, <2>4
<1>4. CASE bare
  <2>1. glue \in Seq(PathItems) /\ Len(glue) = 1 /\ glue[1] = "/"
    BY DEF PathItems
  <2> HIDE DEF glue, root
  <2>2. file = (root \o glue) \o rest
    BY <1>4 DEF mounted_path, glue, root
  <2> HIDE DEF rest, file, bare
  <2>3. file = root \o (glue \o rest)
    <3>1. \A x, y, z \in Seq(PathItems) : (x \o y) \o z = x \o (y \o z)
      BY ConcatAssociative
    <3>2. (root \o glue) \o rest = root \o (glue \o rest)
      BY <1>1, <2>1, <3>1, Zenon
    <3>3. QED
      BY <2>2, <3>2
  <2>4. /\ glue \o rest \in Seq(PathItems) /\ Len(glue \o rest) = Len(glue) + Len(rest)
        /\ \A i \in 1 .. Len(glue) + Len(rest) :
               (glue \o rest)[i] = IF i <= Len(glue) THEN glue[i] ELSE rest[i - Len(glue)]
    BY <1>1, <2>1, ConcatProperties
  <2>5. ASSUME NEW i \in 1 .. Len(glue \o rest) PROVE (glue \o rest)[i] # ".."
    <3>1. Len(rest) \in Nat
      BY <1>1, LenProperties
    <3>2. CASE i = 1
      BY <2>1, <2>4, <3>1, <3>2
    <3>3. CASE i # 1
      <4>1. PICK j \in 1 .. Len(rest) : j = i - Len(glue) /\ ~(i <= Len(glue))
        BY <2>1, <2>4, <3>1, <3>3
      <4>2. QED
        BY <1>3, <2>4, <4>1
    <3>4. QED
      BY <3>2, <3>3
  <2> DEFINE tail == glue \o rest
  <2> HIDE DEF tail
  <2>6. IsPrefix(Resolved(root), Resolved(root \o tail))
    <3>1. tail \in Seq(PathItems) /\ \A i \in 1 .. Len(tail) : tail[i] # ".."
      BY <2>4, <2>5 DEF tail
    <3>2. QED
      BY <1>1, <3>1, ResolvesBelow
  <2>7. QED
    BY <2>3, <2>6 DEF tail, file, root
<1>5. CASE ~bare
  <2>1. file = root \o rest
    <3>1. file = (root \o <<>>) \o rest
      BY <1>5 DEF mounted_path
    <3>2. root \o <<>> = root
      BY <1>1, ConcatEmptySeq
    <3>3. QED
      BY <3>1, <3>2
  <2> HIDE DEF root, rest, file, bare
  <2>2. IsPrefix(Resolved(root), Resolved(root \o rest))
    BY <1>1, <1>3, ResolvesBelow
  <2>3. QED
    BY <2>1, <2>2 DEF root, file
<1>6. QED
  BY <1>4, <1>5

-----------------------------------------------------------------------------
(* RightRoute.                                                             *)

\* Which routes there are.
LEMMA KindsOfRoutes ==
    ASSUME RoutesAssumption, NEW i \in DOMAIN routes
    PROVE  \/ \E k \in DOMAIN Table : routes[i] = Table[k]
           \/ /\ routes[i].mount /\ routes[i].template \in Paths
              /\ routes[i].root \in Paths /\ routes[i].root # <<>>
<1>1. routes[i] \in AllRoutes
  <2>1. routes \in Seq(AllRoutes)
    BY TableSorted DEF Tables
  <2>2. DOMAIN routes = 1 .. Len(routes)
    BY <2>1, LenProperties
  <2>3. QED
    BY <2>1, <2>2, ElementOfSeq
<1>2. CASE routes[i] \in Range(Table)
  BY <1>2 DEF Range
<1>3. CASE \E k \in DOMAIN Mounts, m \in MountMethods :
              routes[i] = MountRoute(m, Mounts[k].root, Mounts[k].template, Mounts[k].priority)
  <2>1. PICK k \in DOMAIN Mounts, m \in MountMethods :
              routes[i] = MountRoute(m, Mounts[k].root, Mounts[k].template, Mounts[k].priority)
    BY <1>3
  <2>2. /\ routes[i].mount = TRUE /\ routes[i].template = Mounts[k].template
        /\ routes[i].root = Mounts[k].root
    BY <2>1 DEF MountRoute
  <2>3. Mounts[k].template \in Paths /\ Mounts[k].root \in Paths \ {<<>>}
    BY DEF RoutesAssumption
  <2>4. QED
    BY <2>2, <2>3
<1>4. QED
  BY <1>1, <1>2, <1>3 DEF AllRoutes

\* What a request asks for is a path.
LEMMA AsksForPath ==
    ASSUME ArrivingAssumption, IInv, NEW r \in Requests
    PROVE  req[r].path \in Paths
<1>1. req[r].path \in {a.path : a \in Arriving} \cup {<<>>}
  <2>1. req[r] \in RequestRecords
    BY DEF IInv, TypeOK
  <2>2. QED
    BY <2>1 DEF RequestRecords
<1>2. <<>> \in Paths
  BY DEF Paths
<1>3. QED
  BY <1>1, <1>2 DEF ArrivingAssumption

\* The parameters of every route of the table fill its template in.
LEMMA RightOfRouted ==
    ASSUME RoutesAssumption, ArrivingAssumption, DistinctParameters, IInv, Routing
    PROVE  RightRoute
<1> SUFFICES ASSUME NEW r \in Requests, req[r].pc # "none",
                    {i \in DOMAIN routes : Suits(i, req[r])} # {}
             PROVE  IF Serving(req[r]).mount THEN BelowRoot(req[r])
                    ELSE Filled(Serving(req[r]), req[r].path) = Parts(req[r].path)
  BY ZenonT(40), BestOfRouted DEF RightRoute, BestRoute
<1> DEFINE q == req[r]  s == Serving(q)
<1>1. q.route \in DOMAIN routes /\ path_matches(s, q.path)
  BY RoutedFirst DEF Suits, Serving
<1>2. q.path \in Paths
  BY AsksForPath
<1>3. CASE s.mount /\ s.template \in Paths /\ s.root \in Paths /\ s.root # <<>>
  <2> DEFINE rest == SubSeq(q.path, Len(s.template) + 1, Len(q.path))
             file == mounted_path(s, q.path)
  <2> HIDE DEF q, s
  <2>1. NamesOf(file) = NamesOf(s.root) \o NamesOf(rest) /\ Alternates(file)
    BY <1>2, <1>3, MountsBelow
  <2>2. validate_path(q.path) /\ ~EndsAbove(q.path) => IsPrefix(Resolved(s.root), Resolved(file))
    BY <1>2, <1>3, MountsInside
  <2>3. BelowRoot(q)
    BY <2>1, <2>2 DEF BelowRoot, MountedFile, Alternates, s
  <2>4. QED
    BY <1>3, <2>3 DEF q, s
<1>4. CASE \E k \in DOMAIN Table : s = Table[k]
  <2>1. PICK k \in DOMAIN Table : s = Table[k]
    BY <1>4
  <2>2. ~s.mount /\ s.template \in Paths
    BY <2>1 DEF RoutesAssumption
  <2>3. \A i, j \in DOMAIN Parts(s.template) :
           is_parameter(Parts(s.template)[i]) /\ Parts(s.template)[i] = Parts(s.template)[j]
               => i = j
    BY <2>1 DEF DistinctParameters
  <2>4. /\ Len(q.path) \in Nat /\ DOMAIN q.path = 1 .. Len(q.path)
        /\ Len(s.template) \in Nat /\ DOMAIN s.template = 1 .. Len(s.template)
    BY <1>2, <2>2, PathsAlternate, LenProperties
  <2> HIDE DEF q, s
  <2>5. Filled(s, q.path) = Parts(q.path)
    BY <1>1, <2>2, <2>3, <2>4, FillsIn
  <2>6. QED
    BY <2>2, <2>5 DEF q, s
<1>5. QED
  BY <1>1, <1>3, <1>4, KindsOfRoutes DEF Serving

\* request_router: whatever routes are added and mounted, with any priorities, each
\* request is given the best route for it, or 405, or 404.
THEOREM TakesBestRoute == Spec => []BestRoute
<1>1. RoutesAssumption /\ Routing => BestRoute
  BY BestOfRouted
<1>2. QED
  BY <1>1, StayRouted, RoutesAssumption, PTL

\* The parameters that the callback of the best route sees, put into its template,
\* give the path, and a mount works the file below its root, if no template of the
\* table has a parameter twice.
THEOREM TakesRightRoute == ASSUME DistinctParameters PROVE Spec => []RightRoute
<1>1. IInv /\ Routing => RightRoute
  BY RightOfRouted, RoutesAssumption, ArrivingAssumption
<1>2. QED
  BY <1>1, Invariance, StayRouted, PTL

-----------------------------------------------------------------------------
(* What there is of OthersAnswered without fairness.                       *)

\* No request is forgotten: one for which nobody does anything more was answered, by the
\* server, the authorizer or the callback, or it is the HEAD of a mounted file, or an
\* application that does so left it without an answer.
RequestIsNotForgotten ==
    \A r \in Requests :
        LET q == req[r]
        IN q.pc \in {"done", "held", "silent"} =>
               \/ has_concluded(q)
               \/ Serving(q).mount /\ q.method = "HEAD"
               \/ "silent" \in app

\* That of one request; it may be at rest where it was put without an answer.
Answers(q) ==
    /\ q.pc = "done" => Len(q.codes) > 0
    /\ q.pc = "held" => Serving(q).mount /\ q.method = "HEAD"
    /\ q.pc = "silent" => "silent" \in app

\* Who is answered was answered.
LEMMA DoneAnswers ==
    ASSUME NEW q \in RequestRecords, NEW code \in Nat
    PROVE  Answers(Done(q, code))
<1>1. /\ Done(q, code).pc = "done" /\ Len(Done(q, code).codes) = Len(q.codes) + 1
      /\ Len(q.codes) \in Nat
  BY AnsweredRecord, FieldTypes
<1>2. Len(Done(q, code).codes) > 0
  BY <1>1
<1>3. QED
  BY <1>1, <1>2 DEF Answers

\* Who goes on is not at rest.
LEMMA MovedAnswers ==
    ASSUME NEW q \in RequestRecords, NEW l \in Places \ {"done", "held", "silent"}
    PROVE  Answers([q EXCEPT !.pc = l])
BY Moved DEF Answers

\* A request whose step leaves it answered, while the others stay.
LEMMA AnswersStep ==
    ASSUME TypeOK, UNCHANGED app, \A s \in Requests : Answers(req[s]),
           NEW r \in Requests, NEW q, Answers(q), Change(r, q)
    PROVE  \A s \in Requests : Answers(req[s])'
<1> SUFFICES ASSUME NEW s \in Requests PROVE Answers(req'[s])
  BY DEF Answers, Serving
<1>1. req'[s] = IF s = r THEN q ELSE req[s]
  BY DEF Change, TypeOK
<1>2. QED
  BY <1>1

\* A mount leaves only the HEAD of a file without an answer.
LEMMA MountAnswers ==
    ASSUME TypeOK, NEW r \in Requests, ServeMount(r)
    PROVE  \E t : Change(r, t) /\ Answers(t)
<1> DEFINE q == req[r]
<1>1. q \in RequestRecords /\ q.pc = "callback" /\ Serving(q).mount
  BY DEF TypeOK, ServeMount
<1>2. PICK allowed \in BOOLEAN, works \in BOOLEAN :
          Change(r, IF MountCode(q, allowed, works) = 0 THEN [q EXCEPT !.pc = "held"]
                    ELSE Done(q, MountCode(q, allowed, works)))
  BY DEF ServeMount
<1>3. CASE MountCode(q, allowed, works) = 0
  <2> DEFINE t == [q EXCEPT !.pc = "held"]
  <2>1. q.method = "HEAD"
    BY <1>3 DEF MountCode
  <2>2. t.pc = "held" /\ t.method = q.method /\ t.route = q.route
    BY <1>1 DEF RequestRecords
  <2> HIDE DEF t
  <2>3. Serving(t) = Serving(q)
    BY <2>2 DEF Serving
  <2>4. Answers(t)
    BY <1>1, <2>1, <2>2, <2>3 DEF Answers
  <2>5. QED
    BY <1>2, <1>3, <2>4 DEF t
<1>4. CASE MountCode(q, allowed, works) # 0
  BY <1>1, <1>2, <1>4, MountCodes, DoneAnswers
<1>5. QED
  BY <1>3, <1>4

\* The authorizer's answer is one.
LEMMA AuthorizeAnswers ==
    ASSUME ArrivingAssumption, TypeOK, NEW r \in Requests, Authorize(r)
    PROVE  \E t : Change(r, t) /\ Answers(t)
<1> DEFINE q == req[r]
           outcome == Authorization[q.auth]
           conditioned == IF "conditionerAnswers" \in app THEN <<200>> ELSE <<>>
           own == IF outcome.code = 0 THEN <<>> ELSE <<outcome.code>>
           codes == q.codes \o conditioned \o own
           asked == [q EXCEPT !.codes = codes]
<1>1. q \in RequestRecords /\ Change(r, AfterAuthorizer(asked, outcome))
  BY DEF TypeOK, Authorize
<1>2. outcome.code \in Nat /\ (outcome.code = 0 => outcome.result \notin {"done", "held", "silent"})
  <2>1. q.auth \in {a.auth : a \in Arriving} \cup {"none"}
    BY <1>1, FieldTypes
  <2>2. q.auth \in {"none", "other", "malformed", "wrong", "right", "stop"}
    BY <2>1 DEF ArrivingAssumption, Authorization
  <2>3. \A kind \in {"none", "other", "malformed", "wrong", "right", "stop"} :
            Authorization[kind].code \in {0, 400, 401}
    BY DEF Authorization
  <2>4. \A kind \in {"none", "other", "malformed", "wrong", "right", "stop"} :
            Authorization[kind].result \notin {"done", "held", "silent"}
    BY DEF Authorization
  <2>5. QED
    BY <2>2, <2>3, <2>4
<1>3. /\ q.codes \in Seq(Nat) /\ conditioned \in Seq(Nat) /\ own \in Seq(Nat)
  BY <1>1, <1>2, FieldTypes, EmptySeq
<1>4. /\ codes \in Seq(Nat) /\ Len(codes) = Len(q.codes) + Len(conditioned) + Len(own)
      /\ Len(q.codes) \in Nat /\ Len(conditioned) \in Nat
  BY <1>3, ConcatProperties, LenProperties
<1>5. outcome.code # 0 => Len(own) = 1
  OBVIOUS
<1> HIDE DEF own, conditioned, codes
<1>6. outcome.code # 0 => Len(codes) > 0
  <2> SUFFICES ASSUME outcome.code # 0 PROVE Len(codes) > 0
    OBVIOUS
  <2>1. Len(own) = 1
    BY <1>5
  <2>2. PICK m \in Nat, n \in Nat : m = Len(q.codes) /\ n = Len(conditioned)
    BY <1>4
  <2>3. Len(codes) = m + n + 1
    BY <1>4, <2>1, <2>2, Zenon
  <2>4. m + n + 1 > 0
    OBVIOUS
  <2>5. QED
    BY <2>3, <2>4, Zenon
<1>7. asked \in RequestRecords /\ asked.codes = codes
  BY <1>1, <1>4 DEF RequestRecords
<1> HIDE DEF asked, outcome
<1>8. CASE outcome.code # 0
  <2> DEFINE t == [asked EXCEPT !.pc = "done"]
  <2>1. t.pc = "done" /\ t.codes = codes
    BY <1>7, Moved DEF Places
  <2>2. Answers(t)
    BY <1>6, <1>8, <2>1 DEF Answers
  <2>3. AfterAuthorizer(asked, outcome) = t
    BY <1>8 DEF AfterAuthorizer
  <2>4. QED
    BY <1>1, <2>2, <2>3
<1>9. CASE outcome.code = 0 /\ outcome.result \in {"allowed_continue", "allowed_but_stop"}
  <2>1. AfterAuthorizer(asked, outcome) = [asked EXCEPT !.pc = outcome.result]
    BY <1>9 DEF AfterAuthorizer
  <2>2. outcome.result \in Places \ {"done", "held", "silent"}
    BY <1>9 DEF Places
  <2>3. QED
    BY <1>1, <1>7, <2>1, <2>2, MovedAnswers
<1>10. CASE outcome.code = 0 /\ outcome.result \notin {"allowed_continue", "allowed_but_stop"}
  <2>1. AfterAuthorizer(asked, outcome) \in {Done(asked, 400), Done(asked, 401)}
    BY <1>10 DEF AfterAuthorizer
  <2>2. Answers(Done(asked, 400)) /\ Answers(Done(asked, 401))
    BY <1>7, DoneAnswers
  <2>3. QED
    BY <1>1, <2>1, <2>2
<1>11. QED
  BY <1>8, <1>9, <1>10

\* The steps of the server's session control.
LEMMA ControlAnswers ==
    ASSUME TypeOK, NEW r \in Requests, CheckSession(r) \/ MakeSession(r)
    PROVE  \E t : Change(r, t) /\ Answers(t)
<1> DEFINE q == req[r]
<1>1. q \in RequestRecords
  BY DEF TypeOK
<1>2. CASE CheckSession(r)
  <2> DEFINE u == [q EXCEPT !.pc = "callback", !.checked = TRUE]
  <2>1. /\ Answers([q EXCEPT !.pc = "callback"]) /\ Answers([q EXCEPT !.pc = "authorize"])
        /\ Answers(Done(q, 401))
    BY <1>1, MovedAnswers, DoneAnswers DEF Places
  <2>2. Answers(u)
    <3>1. u.pc = "callback"
      BY <1>1 DEF RequestRecords
    <3>2. QED
      BY <3>1 DEF Answers
  <2>3. \/ handle_session(q) = [q EXCEPT !.pc = "callback"]
        \/ handle_session(q) = u
        \/ handle_session(q) = Done(q, 401)
        \/ handle_session(q) = [q EXCEPT !.pc = "authorize"]
    BY DEF handle_session
  <2>4. Answers(handle_session(q))
    <3> HIDE DEF q, u
    <3> QED
      BY <2>1, <2>2, <2>3, Zenon
  <2>5. QED
    BY <1>2, <2>4 DEF CheckSession
<1>3. CASE MakeSession(r)
  <2> DEFINE s == [q EXCEPT !.cookie = made', !.checked = TRUE]
  <2>1. /\ made' \in 0 .. MaxSessions + 1
        /\ Change(r, IF s.pc = "allowed_continue" THEN [s EXCEPT !.pc = "callback"] ELSE Done(s, 204))
    <3>1. made' = made + 1 /\ made \in 0 .. MaxSessions
      BY <1>3 DEF MakeSession, TypeOK
    <3>2. made' \in 0 .. MaxSessions + 1
      <4>1. made < MaxSessions
        BY <1>3 DEF MakeSession
      <4>2. MaxSessions \in Nat
        BY DispatchAssumption DEF DispatchAssumption
      <4>3. QED
        BY <3>1, <4>1, <4>2
    <3>3. QED
      BY <1>3, <3>2 DEF MakeSession
  <2>2. s \in RequestRecords
    BY <1>1, <2>1 DEF RequestRecords
  <2> HIDE DEF s
  <2>3. Answers([s EXCEPT !.pc = "callback"]) /\ Answers(Done(s, 204))
    BY <2>2, MovedAnswers, DoneAnswers DEF Places
  <2>4. QED
    BY <2>1, <2>3
<1>4. QED
  BY <1>2, <1>3

\* The application's steps.
LEMMA CallbackAnswers ==
    ASSUME TypeOK, NEW r \in Requests,
           \/ Answer(r) \/ AnswerLater(r) \/ LogIn(r) \/ LogOut(r) \/ Load(r) \/ Save(r)
    PROVE  \E t : Change(r, t) /\ Answers(t)
<1> DEFINE q == req[r]
<1>1. q \in RequestRecords
  BY DEF TypeOK
<1>2. Answers(Done(q, 200)) /\ Answers(Done(q, 204)) /\ Answers(Done(q, 500))
  BY <1>1, DoneAnswers
<1>3. CASE AnswerLater(r) \/ LogOut(r) \/ Save(r)
  BY <1>2, <1>3 DEF AnswerLater, LogOut, Save
<1>4. CASE LogIn(r)
  BY <1>1, <1>4, MovedAnswers DEF LogIn, Places
<1>5. CASE Load(r)
  <2> DEFINE t == [q EXCEPT !.pc = "counting", !.copy = sessions[q.cookie]]
  <2>1. Change(r, t)
    BY <1>5 DEF Load
  <2>2. t.pc = "counting"
    BY <1>1 DEF RequestRecords
  <2>3. Answers(t)
    BY <2>2 DEF Answers
  <2>4. QED
    BY <2>1, <2>3
<1>6. CASE Answer(r)
  <2> DEFINE t == [q EXCEPT !.pc = IF "silent" \in app THEN "silent" ELSE "kept"]
             s == Done(q, 200)
  <2>1. Answers(t)
    <3>1. t.pc = IF "silent" \in app THEN "silent" ELSE "kept"
      BY <1>1 DEF RequestRecords
    <3> HIDE DEF t
    <3>2. QED
      BY <3>1 DEF Answers
  <2>2. s \in RequestRecords
    BY <1>1, AnsweredRecord
  <2>3. Answered(q, 200, "done") = s
    BY DEF Done
  <2> HIDE DEF s
  <2>4. Answers(Done(s, 500))
    BY <2>2, DoneAnswers
  <2>5. \/ Change(r, Done(q, 200)) \/ Change(r, t) \/ Change(r, Done(q, 500))
        \/ Change(r, Done(s, 500))
    BY <1>6, <2>3 DEF Answer
  <2> HIDE DEF t
  <2>6. QED
    BY <1>2, <2>1, <2>4, <2>5
<1>7. QED
  BY <1>3, <1>4, <1>5, <1>6

\* A request arrives.
LEMMA ArriveAnswers ==
    ASSUME DispatchAssumption, TypeOK, NEW r \in Requests, header_read_handler(r)
    PROVE  \E t : Change(r, t) /\ Answers(t)
<1> PICK a \in Arriving, c \in Cookies :
        Change(r, Routed([NewRequest EXCEPT !.method = a.method, !.path = a.path, !.auth = a.auth,
                                            !.cookie = c],
                         find_route(routes, a.method, a.path)))
  BY DEF header_read_handler
<1> DEFINE q == [NewRequest EXCEPT !.method = a.method, !.path = a.path, !.auth = a.auth,
                                   !.cookie = c]
           found == find_route(routes, a.method, a.path)
           t == [q EXCEPT !.route = found.found, !.pc = "session"]
<1>1. c \in 0 .. MaxSessions + 1
  BY DEF Cookies, NoCookie, Unknown, TypeOK, DispatchAssumption
<1>2. <<>> \in Seq(Nat)
  BY EmptySeq
<1>3. q \in RequestRecords
  BY <1>1, <1>2 DEF NewRequest, RequestRecords, NoCookie, Places
<1> HIDE DEF q, found
<1>4. Answers(Done(q, 405)) /\ Answers(Done(q, 404))
  BY <1>3, DoneAnswers
<1>5. Answers(t)
  <2>1. t.pc = "session"
    BY <1>3 DEF RequestRecords
  <2>2. QED
    BY <2>1 DEF Answers
<1>6. Routed(q, found) \in {t, Done(q, 405), Done(q, 404)}
  BY DEF Routed
<1>7. Answers(Routed(q, found))
  <2> HIDE DEF t
  <2> QED
    BY <1>4, <1>5, <1>6
<1>8. QED
  BY <1>7 DEF q, found

\* Every request is answered, or something is still to be done for it, or it is left without
\* an answer where the code leaves it so: for any table of routes, sessions and application.
THEOREM NoRequestForgotten == Spec => []RequestIsNotForgotten
<1> DEFINE AllAnswer == \A r \in Requests : Answers(req[r])
<1>1. Init => AllAnswer
  <2> SUFFICES ASSUME Init, NEW r \in Requests PROVE Answers(req[r])
    OBVIOUS
  <2>1. req[r] = NewRequest
    BY DEF Init
  <2>2. NewRequest.pc = "none"
    BY DEF NewRequest
  <2>3. req[r].pc = "none"
    BY <2>1, <2>2
  <2>4. QED
    BY <2>3 DEF Answers
<1>2. IInv => TypeOK
  BY DEF IInv
<1>3. DispatchAssumption /\ ArrivingAssumption /\ TypeOK /\ AllAnswer /\ [Next]_vars => AllAnswer'
  <2> SUFFICES ASSUME DispatchAssumption, ArrivingAssumption, TypeOK, AllAnswer, [Next]_vars
               PROVE  AllAnswer'
    OBVIOUS
  <2>1. CASE UNCHANGED vars
    BY <2>1 DEF vars, state, Answers, Serving
  <2>2. CASE Next
    <3>1. PICK r \in Requests : header_read_handler(r) \/ Handle(r)
      BY <2>2 DEF Next
    <3>2. \E t : Change(r, t) /\ Answers(t)
      BY <3>1, ArriveAnswers, AuthorizeAnswers, ControlAnswers, CallbackAnswers, MountAnswers
         DEF Handle
    <3>3. UNCHANGED app
      BY <2>2 DEF Next
    <3>4. QED
      BY <3>2, <3>3, AnswersStep
  <2>3. QED
    BY <2>1, <2>2
<1>4. ASSUME TypeOK, AllAnswer PROVE RequestIsNotForgotten
  <2> SUFFICES ASSUME NEW r \in Requests, req[r].pc \in {"done", "held", "silent"}
               PROVE  \/ has_concluded(req[r])
                      \/ Serving(req[r]).mount /\ req[r].method = "HEAD"
                      \/ "silent" \in app
    BY DEF RequestIsNotForgotten
  <2>1. Answers(req[r])
    BY <1>4
  <2>2. Len(req[r].codes) > 0 => req[r].codes # <<>>
    BY EmptySeq
  <2>3. QED
    BY <2>1, <2>2 DEF Answers, has_concluded
<1> HIDE DEF AllAnswer
<1>5. QED
  BY <1>1, <1>2, <1>3, <1>4, Invariance, DispatchAssumption, ArrivingAssumption, PTL DEF Spec

=============================================================================
