------------------------------ MODULE Dispatch ------------------------------
(***************************************************************************)
(* What http_basic_server does with a request whose header was read: it    *)
(* looks for the route, checks the session, authenticates, and calls the   *)
(* route's callback, which may use the sessions too.  Requests are handled *)
(* on several io_context threads, so their steps interleave: one step for  *)
(* each call of the session storage, which locks itself, of the authorizer *)
(* and of the callback.                                                    *)
(*                                                                         *)
(* A session holds a number, what applications count in it.  The response  *)
(* of a request is reduced to the codes it was answered with.              *)
(***************************************************************************)
EXTENDS Router

CONSTANTS
    Requests,     \* requests that are handled
    Arriving,     \* what they ask for: set of [method, path, auth]
    Table,        \* the routes in the order in which they are added, no mounts
    Mounts,       \* then mounted: sequence of [root, template, methods, priority]
    LoginPath,    \* authentication_path
    MaxSessions,  \* sessions that are made
    Env           \* what applications do, of EnvChoices

\* The conditioner of the authorization answers; callbacks of one session
\* overlap when they count; a callback throws after it answered, or never answers.
EnvChoices == {"conditionerAnswers", "countsOverlap", "throwsLate", "silent"}

ASSUME DispatchAssumption == MaxSessions \in Nat /\ Env \subseteq EnvChoices

\* Priorities may be negative; the root of a mount is not empty.
ASSUME RoutesAssumption ==
    /\ Table \in Seq(Range(Table))
    /\ \A i \in DOMAIN Table :
           Table[i].priority \in Int /\ Table[i].template \in Paths /\ ~Table[i].mount
    /\ Mounts \in Seq(Range(Mounts))
    /\ \A i \in DOMAIN Mounts :
           /\ Mounts[i].priority \in Int /\ Mounts[i].methods \subseteq MountMethods
           /\ Mounts[i].template \in Paths /\ Mounts[i].root \in Paths \ {<<>>}

Controls ==
    {[installed |-> TRUE, allowOptions |-> o, manual |-> m] : o, m \in BOOLEAN}
        \cup {[installed |-> FALSE, allowOptions |-> FALSE, manual |-> FALSE]}

Ids == 1 .. MaxSessions

\* A cookie that no session has, and none at all.
Unknown == MaxSessions + 1
NoCookie == 0

VARIABLES
    app, control,  \* what the application does, sessionControl_; never change
    files,         \* files in mounted directories: what their paths are resolved to
    sessions,      \* sessions_ of the storage: the live sessions and their data
    made,          \* sessions that were made
    req,           \* each request
    saved          \* history: how often each session was counted in

state == <<files, sessions, made, req, saved>>
vars == <<app, control, state>>

routes ==
    LET mounted[n \in 0 .. Len(Mounts)] ==
            IF n = 0 THEN add_routes(<<>>, Table)
            ELSE mount(mounted[n - 1], Mounts[n].root, Mounts[n].template, Mounts[n].methods,
                       Mounts[n].priority)
    IN mounted[Len(Mounts)]

NewRequest ==
    [pc |-> "none", method |-> "", path |-> <<>>, auth |-> "none", cookie |-> NoCookie,
     route |-> 0, checked |-> FALSE, codes |-> <<>>, copy |-> 0]

Change(r, new) == req' = [req EXCEPT ![r] = new]

\* An answer is begun with code; the request goes on at pc.
Answered(q, code, pc) == [q EXCEPT !.codes = Append(@, code), !.pc = pc]

Done(q, code) == Answered(q, code, "done")

has_concluded(q) == q.codes # <<>>

-----------------------------------------------------------------------------
(* http_basic_server.                                                      *)

\* Cookies that a client may send: of any session that was made, live or not.
Cookies == {NoCookie, Unknown} \cup 1 .. made

Routed(q, found) ==
    CASE found.found # 0 -> [q EXCEPT !.route = found.found, !.pc = "session"]
      [] found.found = 0 /\ found.level = "path_match" -> Done(q, 405)
      [] OTHER -> Done(q, 404)

\* header_read_handler, up to handle_session.
header_read_handler(r) ==
    /\ req[r].pc = "none"
    /\ \E a \in Arriving, c \in Cookies :
           LET q == [NewRequest EXCEPT !.method = a.method, !.path = a.path, !.auth = a.auth,
                                       !.cookie = c]
           IN Change(r, Routed(q, find_route(routes, a.method, a.path)))
    /\ UNCHANGED <<files, sessions, made, saved>>

Live(q) == q.cookie \in DOMAIN sessions

\* Fault: a request that has a session cookie is let through.
handle_session_cookie(q) ==
    CASE ~control.installed \/ q.cookie # NoCookie -> [q EXCEPT !.pc = "callback"]
      [] OTHER -> [q EXCEPT !.pc = "authorize"]

\* handle_session, with load_session.
handle_session(q) ==
    CASE ~control.installed -> [q EXCEPT !.pc = "callback"]
      [] control.installed /\ Live(q) -> [q EXCEPT !.pc = "callback", !.checked = TRUE]
      [] control.installed /\ ~Live(q) /\ control.allowOptions /\ q.method = "OPTIONS" ->
           [q EXCEPT !.pc = "callback"]
      [] control.installed /\ ~Live(q) /\ ~(control.allowOptions /\ q.method = "OPTIONS")
             /\ control.manual ->
           IF q.path # LoginPath THEN Done(q, 401) ELSE [q EXCEPT !.pc = "callback"]
      [] OTHER -> [q EXCEPT !.pc = "authorize"]

CheckSession(r) ==
    /\ req[r].pc = "session"
    /\ Change(r, handle_session(req[r]))
    /\ UNCHANGED <<files, sessions, made, saved>>

\* basic_authorizer's try_perform_authorization: its result, and the code it
\* answers with, if any.  "stop" stands for an authorizer that answers itself.
Authorization == [
    none      |-> [result |-> "negotiate", code |-> 0],
    other     |-> [result |-> "negotiate", code |-> 0],
    malformed |-> [result |-> "bad_request", code |-> 400],
    wrong     |-> [result |-> "denied", code |-> 401],
    right     |-> [result |-> "allowed_continue", code |-> 0],
    stop      |-> [result |-> "allowed_but_stop", code |-> 0]]

\* Every request comes with one of these, and asks for a path.
ASSUME ArrivingAssumption ==
    \A a \in Arriving : a.auth \in DOMAIN Authorization /\ a.path \in Paths

\* Fault: the server leaves the answer to the authorizer.
AfterAuthorizerSilent(q, outcome) ==
    CASE outcome.code = 0 /\ outcome.result \in {"allowed_continue", "allowed_but_stop"} ->
           [q EXCEPT !.pc = outcome.result]
      [] OTHER -> [q EXCEPT !.pc = "done"]

\* authenticate_session up to make_session: an answer of the authorizer is
\* observed, and then nothing follows.
AfterAuthorizer(q, outcome) ==
    CASE outcome.code # 0 -> [q EXCEPT !.pc = "done"]
      [] outcome.code = 0 /\ outcome.result \in {"allowed_continue", "allowed_but_stop"} ->
           [q EXCEPT !.pc = outcome.result]
      [] outcome.code = 0 /\ outcome.result = "bad_request" -> Done(q, 400)
      [] OTHER -> Done(q, 401)

\* The conditioner and the authorizer.
Authorize(r) ==
    /\ req[r].pc = "authorize"
    /\ LET outcome == Authorization[req[r].auth]
           conditioned == IF "conditionerAnswers" \in app THEN <<200>> ELSE <<>>
           own == IF outcome.code = 0 THEN <<>> ELSE <<outcome.code>>
       IN Change(r, AfterAuthorizer([req[r] EXCEPT !.codes = @ \o conditioned \o own], outcome))
    /\ UNCHANGED <<files, sessions, made, saved>>

\* make_session: the session is created, and the request's cookie patched.
MakeSession(r) ==
    /\ req[r].pc \in {"allowed_continue", "allowed_but_stop"} /\ made < MaxSessions
    /\ made' = made + 1
    /\ sessions' = [i \in DOMAIN sessions \cup {made'} |-> IF i = made' THEN 0 ELSE sessions[i]]
    /\ LET q == [req[r] EXCEPT !.cookie = made', !.checked = TRUE]
       IN Change(r, IF q.pc = "allowed_continue" THEN [q EXCEPT !.pc = "callback"]
                                                 ELSE Done(q, 204))
    /\ UNCHANGED <<files, saved>>

-----------------------------------------------------------------------------
(* The callbacks of mounted directories.                                   *)

Serving(q) == routes[q.route]

MountedFile(q) == mounted_path(Serving(q), q.path)

\* The code of a mounted file's answer; 0 is no answer.  works: the file can be
\* created, the directory removed; remove_all throws when it cannot.
MountCode(q, allowed, works) ==
    LET exists == Resolved(MountedFile(q)) \in files
        valid  == validate_path(q.path)
    IN CASE ~allowed -> 403
         [] allowed /\ q.method = "OPTIONS" -> 200
         [] allowed /\ q.method # "OPTIONS" /\ ~valid -> 403
         [] allowed /\ valid /\ q.method = "GET" -> IF exists THEN 200 ELSE 404
         [] allowed /\ valid /\ q.method = "HEAD" -> IF exists THEN 0 ELSE 404
         [] allowed /\ valid /\ q.method = "DELETE" -> IF works THEN 204 ELSE 500
         [] OTHER -> IF works THEN 204 ELSE 400

\* The files after it.  All that lies below a path is removed with it; some of it
\* is, when that fails in the middle.
FilesAfter(q, code) ==
    LET file  == Resolved(MountedFile(q))
        below == {f \in files : IsPrefix(file, f)}
    IN CASE code = 204 /\ q.method = "DELETE" -> {files \ below}
         [] code = 204 /\ q.method # "DELETE" -> {files \cup {file}}
         [] code = 500 -> {files \ some : some \in SUBSET below}
         [] OTHER -> {files}

\* A mounted route's callback; reading the body of PUT and POST is not part of
\* this module.
ServeMount(r) ==
    LET q == req[r]
    IN /\ q.pc = "callback" /\ Serving(q).mount
       /\ \E allowed, works \in BOOLEAN :
              LET code == MountCode(q, allowed, works)
              IN /\ Change(r, IF code = 0 THEN [q EXCEPT !.pc = "held"] ELSE Done(q, code))
                 /\ files' \in FilesAfter(q, code)
       /\ UNCHANGED <<sessions, made, saved>>

-----------------------------------------------------------------------------
(* The application's callbacks, and the server around them.                *)

InCallback(r) == req[r].pc = "callback" /\ ~Serving(req[r]).mount

\* The callback answers, keeps the request, or throws, before or after an answer.
Answer(r) ==
    /\ InCallback(r)
    /\ \/ Change(r, Done(req[r], 200))
       \/ Change(r, [req[r] EXCEPT !.pc = IF "silent" \in app THEN "silent" ELSE "kept"])
       \/ Change(r, Done(req[r], 500))
       \/ /\ "throwsLate" \in app
          /\ Change(r, Done(Answered(req[r], 200, "done"), 500))
    /\ UNCHANGED <<files, sessions, made, saved>>

\* A request that was kept is answered by any thread.
AnswerLater(r) ==
    /\ req[r].pc = "kept"
    /\ Change(r, Done(req[r], 200))
    /\ UNCHANGED <<files, sessions, made, saved>>

\* It calls authenticate_session at the login path.
LogIn(r) ==
    /\ InCallback(r) /\ control.installed /\ req[r].path = LoginPath /\ ~req[r].checked
    /\ Change(r, [req[r] EXCEPT !.pc = "authorize"])
    /\ UNCHANGED <<files, sessions, made, saved>>

\* It terminates its session.
LogOut(r) ==
    /\ InCallback(r) /\ Live(req[r])
    /\ sessions' = [i \in DOMAIN sessions \ {req[r].cookie} |-> sessions[i]]
    /\ Change(r, Done(req[r], 204))
    /\ UNCHANGED <<files, made, saved>>

\* It counts in its session: load_session, which copies ...
Load(r) ==
    /\ InCallback(r) /\ Live(req[r])
    /\ "countsOverlap" \in app \/
           \A s \in Requests : req[s].pc = "counting" => req[s].cookie # req[r].cookie
    /\ Change(r, [req[r] EXCEPT !.pc = "counting", !.copy = sessions[req[r].cookie]])
    /\ UNCHANGED <<files, sessions, made, saved>>

\* Fault: a session that is not there is stored anew.
SaveAnew(r) ==
    /\ req[r].pc = "counting"
    /\ sessions' = req[r].cookie :> req[r].copy + 1 @@ sessions
    /\ saved' = [saved EXCEPT ![req[r].cookie] = @ + 1]
    /\ Change(r, Done(req[r], 200))
    /\ UNCHANGED <<files, made>>

\* Fault: the session is stored only if there is none.
SaveKeepsOld(r) ==
    LET id == req[r].cookie
    IN /\ req[r].pc = "counting"
       /\ saved' = IF id \in DOMAIN sessions THEN [saved EXCEPT ![id] = @ + 1] ELSE saved
       /\ Change(r, Done(req[r], 200))
       /\ UNCHANGED <<files, sessions, made>>

\* ... and save_session, which ignores that a session is no longer there.
Save(r) ==
    LET id == req[r].cookie
    IN /\ req[r].pc = "counting"
       /\ IF id \in DOMAIN sessions
          THEN /\ sessions' = [sessions EXCEPT ![id] = req[r].copy + 1]
               /\ saved' = [saved EXCEPT ![id] = @ + 1]
          ELSE UNCHANGED <<sessions, saved>>
       /\ Change(r, Done(req[r], 200))
       /\ UNCHANGED <<files, made>>

-----------------------------------------------------------------------------
Init ==
    /\ app \in {{}} \cup {{e} : e \in Env} /\ control \in Controls
    /\ files = {} /\ sessions = <<>> /\ made = 0
    /\ req = [r \in Requests |-> NewRequest]
    /\ saved = [i \in Ids |-> 0]

\* What is done for a request that has arrived.
Handle(r) ==
    \/ CheckSession(r) \/ Authorize(r) \/ MakeSession(r) \/ ServeMount(r)
    \/ Answer(r) \/ AnswerLater(r) \/ LogIn(r) \/ LogOut(r) \/ Load(r) \/ Save(r)

Next ==
    /\ \E r \in Requests : header_read_handler(r) \/ Handle(r)
    /\ UNCHANGED <<app, control>>

Spec == Init /\ [][Next]_vars

\* The threads go on, and an application answers what it has kept.
FairSpec == Spec /\ \A r \in Requests : WF_state(Handle(r))

-----------------------------------------------------------------------------
(* Properties.                                                             *)

Suits(i, q) == path_matches(routes[i], q.path) /\ routes[i].method = q.method

Filled(r, path) ==
    LET values == get_path_parameters(r, path)  own == Parts(r.template)
    IN [i \in DOMAIN own |-> IF own[i] \in DOMAIN values THEN values[own[i]] ELSE own[i]]

NamesOf(path) ==
    LET names[n \in 0 .. Len(path)] ==
            IF n = 0 THEN <<>>
            ELSE IF path[n] = "/" THEN names[n - 1] ELSE Append(names[n - 1], path[n])
    IN names[Len(path)]

\* validate_path() lets a path pass that ends with "..", and names the directory
\* above.
EndsAbove(path) == path # <<>> /\ Last(path) = ".."

\* A mounted file: the names below the template are those below the root, with a
\* slash between every two; and a path that passes leads nowhere but below the root.
BelowRoot(q) ==
    LET root == Serving(q).root
        rest == SubSeq(q.path, Len(Serving(q).template) + 1, Len(q.path))
        file == MountedFile(q)
    IN /\ NamesOf(file) = NamesOf(root) \o NamesOf(rest)
       /\ \A i \in 1 .. Len(file) - 1 : "/" \in {file[i], file[i + 1]}
       /\ validate_path(q.path) /\ ~EndsAbove(q.path) => IsPrefix(Resolved(root), Resolved(file))

\* A template with a parameter twice would lose the first value.
DistinctParameters ==
    \A i \in DOMAIN Table :
        LET own == Parts(Table[i].template)
        IN \A j, k \in DOMAIN own : is_parameter(own[j]) /\ own[j] = own[k] => j = k

\* find_route(), mount(): the route taken is one for the path and method; none
\* that would do has a higher priority, or the same and was added earlier.
\* Otherwise the answer is 405 if the path is known and 404 if it is not.  The
\* parameters that the callback sees, put into the template, give the path; the
\* file that a mount opens is the one below its root, however root and template
\* end, and stays there if the path does not end with ".." (http_basic_server.hpp:180
\* promises it for every path).
RightRoute ==
    \A r \in Requests :
        LET q == req[r]
            suiting == {i \in DOMAIN routes : Suits(i, q)}
            best == {i \in suiting : \A j \in suiting : routes[j].priority <= routes[i].priority}
        IN q.pc # "none" =>
               IF suiting # {}
               THEN /\ q.route = Min(best)
                    /\ IF Serving(q).mount THEN BelowRoot(q)
                       ELSE Filled(Serving(q), q.path) = Parts(q.path)
               ELSE q.codes = IF \E i \in DOMAIN routes : path_matches(routes[i], q.path)
                              THEN <<405>> ELSE <<404>>

\* handle_session(): with session control a callback runs for a request whose
\* cookie names a session that was made and found live, except for OPTIONS and
\* at the login path.
CallbackIsAuthorized ==
    \A r \in Requests :
        LET q == req[r]
        IN control.installed /\ q.pc \in {"callback", "counting", "kept"} =>
               \/ q.checked /\ q.cookie \in 1 .. made
               \/ control.allowOptions /\ q.method = "OPTIONS"
               \/ control.manual /\ q.path = LoginPath

\* delete_session() and set_session(): what was terminated does not come back.
TerminatedStaysTerminated ==
    [][\A i \in Ids : i <= made /\ i \notin DOMAIN sessions => i \notin DOMAIN sessions']_vars

\* load_session() copies and save_session() stores the whole session, so counts
\* are kept only if the callbacks of a session do not overlap.
CountsAreKept ==
    "countsOverlap" \notin app => \A i \in DOMAIN sessions : sessions[i] = saved[i]

\* A mounted HEAD of a file that exists is not answered (router.cpp:302).
HeadOfFile(r) == req[r].pc = "held"

\* header_read_handler(), authenticate_session(): the server, the authorizer and
\* the callback answer every request, if it is not such a HEAD, sessions can be
\* made, and the application answers what it keeps; and none of them twice.
OthersAnswered ==
    \A r \in Requests :
        /\ app \cap {"conditionerAnswers", "throwsLate"} = {} => [](Len(req[r].codes) <= 1)
        /\ req[r].pc # "none" ~> \/ has_concluded(req[r]) \/ HeadOfFile(r) \/ "silent" \in app

=============================================================================
