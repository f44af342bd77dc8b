--------------------------- MODULE MCRequestReader ---------------------------
(* Instances of RequestReader for TLC: the requests that peers send.         *)
EXTENDS RequestReader

Eol == <<"cr", "lf">>

\* A request line, field lines, and n more bytes; the body looks like a header.
Request(method, url, protocol, fields, n) ==
    method \o <<"sp">> \o url \o <<"sp">> \o protocol \o Eol \o fields \o Eol
        \o [i \in 1 .. n |-> <<"cr", "lf", "a">>[(i % 3) + 1]]

CookieField(value) == <<"cookie", "colon">> \o value \o Eol

LengthField(value) == <<"length", "colon">> \o value \o Eol

Plain(fields, n) == Request(<<"a">>, <<"slash">>, <<"a", "slash">>, fields, n)

Bodies ==
    {Plain(LengthField(<<"sp", d>>), n) : d \in {"d0", "d2", "d7"}, n \in {0, 2, 7}}
        \cup {Plain(<<>>, 1), Plain(LengthField(<<"a">>), 1), Plain(LengthField(<<"-7">>), 2)}

Urls == {
    Request(<<"a", "b">>, <<"slash", "%a", "?", "%a", "&", "a", "=", "%a">>, <<"slash", "b">>, <<>>, 0),
    Request(<<"a">>, <<"slash", "?", "%bad">>, <<"slash">>, LengthField(<<"d2">>), 2),
    Request(<<"b">>, <<"slash", "?", "a", "=", "b", "&", "a", "=", "=", "%amp">>, <<"slash">>, <<>>, 0)}

Fields == {
    Plain(<<"a", "sp", "colon", "cr", "b">> \o Eol \o <<"b", "colon">> \o Eol \o LengthField(<<"d2">>), 2),
    Plain(LengthField(<<"d7">>) \o LengthField(<<"d2">>), 2),
    Plain(CookieField(<<"sp", "a", "=", "b", ";", "sp", "b", "=", "=", "sp">>), 2),
    Plain(CookieField(<<"a", "=", "a", ";", ";", "a", "=">>) \o CookieField(<<"a", "=", "b", ";", "b", "=", "a">>), 0),
    Plain(<<"a", "colon">> \o [i \in 1 .. 12 |-> "b"] \o Eol, 0),
    Plain(<<"a", "colon">> \o Eol \o <<"a", "colon">> \o Eol \o <<"a", "colon">> \o Eol
              \o <<"a", "colon">> \o Eol, 0)}

\* No slash, no url, a word too many, an '\r' too many, a field without a colon, one
\* that begins with a space, and no cookies in a Cookie field.
Malformed == {
    Request(<<"a">>, <<"slash">>, <<"a">>, <<>>, 0),
    <<"a", "sp", "slash">> \o Eol \o Eol,
    Request(<<"a">>, <<"slash">>, <<"slash", "sp", "b">>, <<>>, 0),
    Request(<<"a">>, <<"slash">>, <<"slash", "cr">>, <<>>, 0),
    Plain(<<"a">> \o Eol, 0),
    Plain(<<"sp", "colon">> \o Eol, 0),
    Plain(CookieField(<<"sp">>), 0),
    Plain(CookieField(<<"a", "=", ";">>), 0)}

MCRequests == Bodies \cup Urls \cup Fields \cup Malformed
=============================================================================
