----------------------------- MODULE MCDispatch -----------------------------
(* A server with a counter, a parameter route, a login route and two       *)
(* mounted directories, for TLC.                                             *)
EXTENDS Dispatch

MCTable ==
    << Route("GET", <<"/", "a">>, 1),
       Route("GET", <<"/", ":x">>, 1),
       Route("GET", <<"/", "mnt", "/", "b">>, 3),
       Route("POST", <<"/", "login">>, 1) >>

MCMounts ==
    << [root |-> <<"b", "/", "a">>, template |-> <<"/", "mnt">>,
        methods |-> {"GET", "PUT", "DELETE", "HEAD", "OPTIONS"}, priority |-> 2],
       [root |-> <<"a">>, template |-> <<"/", "b", "/">>, methods |-> {"POST"},
        priority |-> 0] >>

ASSUME MCDistinctParameters == DistinctParameters

MCLogin == <<"/", "login">>

Ask(method, path, auth) == [method |-> method, path |-> path, auth |-> auth]

MCArriving ==
    { Ask("GET", <<"/", "a">>, "right"),
      Ask("GET", <<"/", "a">>, "wrong"),
      Ask("GET", <<"/", "b">>, "stop"),
      Ask("POST", <<"/", "a">>, "none"),
      Ask("POST", MCLogin, "right"),
      Ask("GET", <<"/", "mnt", "/", "b">>, "malformed"),
      Ask("PUT", <<"/", "mnt", "/", "b">>, "right"),
      Ask("GET", <<"/", "mnt", "/", "a">>, "right"),
      Ask("HEAD", <<"/", "mnt", "/", "b">>, "right"),
      Ask("DELETE", <<"/", "mnt", "/", "..", "/", "b">>, "right"),
      Ask("DELETE", <<"/", "mnt", "/", "..">>, "right"),
      Ask("OPTIONS", <<"/", "mnt", "/", "b">>, "none"),
      Ask("DELETE", <<"/", "mnt", "/", "b">>, "right"),
      Ask("POST", <<"/", "b", "/", "b">>, "right"),
      Ask("GET", <<"/">>, "none") }

=============================================================================
