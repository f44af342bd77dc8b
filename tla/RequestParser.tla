---------------------------- MODULE RequestParser ----------------------------
(***************************************************************************)
(* request_parser and the url of request_header: how the header of a       *)
(* request is read from bytes that arrive in pieces.                       *)
(*                                                                         *)
(* A byte is a token, and in is all that the peer ever sends.              *)
(* header_buffer_ is appended at its end and erased from its front only,   *)
(* so a parser keeps two positions in the input for it: the buffer is      *)
(* in[at + 1 .. end].  A feed that throws leaves the parser refused.       *)
(***************************************************************************)
EXTENDS Integers, Sequences, FiniteSetsExt, SequencesExt

CONSTANTS
    HeaderMax,  \* config::header_buffer_max
    FieldMax    \* config::header_field_max

ASSUME ParserAssumption == HeaderMax \in Nat /\ FieldMax \in Nat

Digits == [d0 |-> 0, d2 |-> 2, d7 |-> 7]

\* Letters; "length" and "cookie" are the names of the fields Content-Length and
\* Cookie, "%amp" and "%a" are escaped bytes of an url, "%bad" is a '%' that
\* escapes nothing; "-7" is a number too.
Alnum == {"a", "b", "length", "cookie"} \cup DOMAIN Digits
Bytes == Alnum \cup {"sp", "cr", "lf", "colon", "slash", "?", "&", ";", "=", "%amp", "%a",
                    "%bad", "-7"}

NoLength == -1

Progress == {"verb", "url", "protocol", "phase2", "fields", "body"}

Parser == [progress : Progress, at : Nat, end : Nat, fields : Nat, refused : BOOLEAN,
           method : Seq(Bytes), url : Seq(Bytes), protocol : Seq(Bytes), length : Int,
           cookies : UNION {[names -> Seq(Bytes)] : names \in SUBSET Seq(Bytes)}]

NewParser ==
    [progress |-> "verb", at |-> 0, end |-> 0, fields |-> 0, refused |-> FALSE,
     method |-> <<>>, url |-> <<>>, protocol |-> <<>>, length |-> NoLength, cookies |-> <<>>]

finished(p) == p.progress = "body"

Buffered(p) == p.end - p.at

Refuse(p) == [p EXCEPT !.refused = TRUE]

-----------------------------------------------------------------------------
(* Reading from the buffer.                                                *)

WordEnds(in, p) == {i \in p.at + 1 .. p.end : in[i] \in {"sp", "cr"}}

\* Fault: a word also ends where the buffer does.
HasPieceOfWord(in, p) == p.at < p.end

\* get_word_from_buffer: a word is there when a space or an '\r' follows it.
HasWord(in, p) == WordEnds(in, p) # {}

WordEnd(in, p) == Min(WordEnds(in, p) \cup {p.end + 1})

Word(in, p) == SubSeq(in, p.at + 1, WordEnd(in, p) - 1)

AfterWord(in, p) == [p EXCEPT !.at = WordEnd(in, p) - 1]

\* get_line_from_buffer: a line ends at "\r\n"; an '\r' alone belongs to it.
LineEnds(in, p) == {i \in p.at + 1 .. p.end - 1 : in[i] = "cr" /\ in[i + 1] = "lf"}

Line(in, p) == SubSeq(in, p.at + 1, Min(LineEnds(in, p)) - 1)

AfterLine(in, p) == [p EXCEPT !.at = Min(LineEnds(in, p)) + 1]

\* expect_space, and the progress made when there is one.  The word before it
\* is gone from the buffer in either case.
ExpectSpace(in, p, next) ==
    IF p.at < p.end /\ in[p.at + 1] = "sp"
    THEN [p EXCEPT !.at = @ + 1, !.progress = next]
    ELSE p

-----------------------------------------------------------------------------
(* parse_words: each part leaves the parser as it is unless it is its turn *)
(* and the buffer has what it needs.                                       *)

Verb(in, p) ==
    IF p.progress = "verb" /\ HasWord(in, p)
    THEN ExpectSpace(in, [AfterWord(in, p) EXCEPT !.method = Word(in, p)], "url")
    ELSE p

Url(in, p) ==
    IF p.progress = "url" /\ HasWord(in, p)
    THEN ExpectSpace(in, [AfterWord(in, p) EXCEPT !.url = Word(in, p)], "protocol")
    ELSE p

Protocol(in, p) ==
    IF p.progress = "protocol" /\ HasWord(in, p)
    THEN IF Contains(Word(in, p), "slash")
         THEN [AfterWord(in, p) EXCEPT !.protocol = Word(in, p), !.progress = "phase2"]
         ELSE Refuse(AfterWord(in, p))
    ELSE p

RestOfLine(in, p) ==
    IF p.progress = "phase2" /\ LineEnds(in, p) # {}
    THEN IF Line(in, p) = <<>> THEN [AfterLine(in, p) EXCEPT !.progress = "fields"]
                               ELSE Refuse(AfterLine(in, p))
    ELSE p

parse_words(in, p) == RestOfLine(in, Protocol(in, Url(in, Verb(in, p))))

-----------------------------------------------------------------------------
(* The fields.                                                             *)

First(line, byte) == Min({i \in DOMAIN line : line[i] = byte} \cup {Len(line) + 1})

\* Spaces inside a name or a number make no difference here.
Trim(s) == SelectSeq(s, LAMBDA b : b # "sp")

\* std::atoll: 0 for what is not a number.
Number(s) ==
    CASE s # <<>> /\ s[1] \in DOMAIN Digits -> Digits[s[1]]
      [] s # <<>> /\ s[1] = "-7" -> -7
      [] OTHER -> 0

TrimLeft(s) == SubSeq(s, Min({i \in DOMAIN s : s[i] # "sp"} \cup {Len(s) + 1}), Len(s))

\* The pieces between separators, each named by where it starts.
Pieces(s, separators) ==
    LET cuts == {i \in DOMAIN s : s[i] \in separators}
    IN [i \in {1} \cup {c + 1 : c \in cuts} |->
            SubSeq(s, i, Min({c \in cuts : c >= i} \cup {Len(s) + 1}) - 1)]

Key(piece) == SubSeq(piece, 1, First(piece, "=") - 1)
Value(piece) == SubSeq(piece, First(piece, "=") + 1, Len(piece))

\* The map of the pairs; of two with one key the later stays.
Pairs(pieces) ==
    [k \in {Key(pieces[i]) : i \in DOMAIN pieces} |->
        Value(pieces[Max({i \in DOMAIN pieces : Key(pieces[i]) = k})])]

\* The pieces of a Cookie field: separators that follow each other are one.
CookiePieces(s) ==
    LET all == Pieces(s, {";"})
    IN [i \in {j \in DOMAIN all : j = 1 \/ j > Len(s) \/ s[j] # ";"} |-> TrimLeft(all[i])]

\* parse_cookies throws for an empty value and for a piece without '='.
NoCookies(s) ==
    s = <<>> \/ \E i \in DOMAIN CookiePieces(s) : ~Contains(CookiePieces(s)[i], "=")

parse_cookies(s) == Pairs(CookiePieces(s))

\* std::map::insert of each pair: a key that is there keeps its value.
Inserted(cookies, more) ==
    [k \in DOMAIN cookies \cup DOMAIN more |-> IF k \in DOMAIN cookies THEN cookies[k] ELSE more[k]]

\* Content-Length and Cookie matter here; of two lines the later length stays,
\* and the earlier cookie.
add_field(p, line) ==
    LET colon == First(line, "colon")
        name  == Trim(SubSeq(line, 1, colon - 1))
        value == TrimLeft(SubSeq(line, colon + 1, Len(line)))
        q     == [p EXCEPT !.fields = @ + 1]
    IN CASE colon > Len(line) -> Refuse(q)
         [] colon <= Len(line) /\ name = <<"length">> -> [q EXCEPT !.length = Number(Trim(value))]
         [] colon <= Len(line) /\ name = <<"cookie">> ->
              IF NoCookies(value) THEN Refuse(q)
                                  ELSE [q EXCEPT !.cookies = Inserted(@, parse_cookies(value))]
         [] OTHER -> q

\* One turn of feed's loop, when a line is there and nothing was thrown.
TakeLine(in, p) ==
    LET line == Line(in, p)
        q    == AfterLine(in, p)
    IN IF p.progress # "fields" \/ p.refused \/ LineEnds(in, p) = {} THEN p
       ELSE CASE line = <<>> -> [q EXCEPT !.progress = "body"]
              [] line # <<>> /\ (line[1] \notin Alnum \/ p.fields + 1 > FieldMax) -> Refuse(q)
              [] OTHER -> add_field(q, line)

\* The loop: a turn for each line in the buffer.
TakeLines(in, p) ==
    LET turns[n \in Nat] == IF n = 0 THEN p ELSE TakeLine(in, turns[n - 1])
    IN turns[Cardinality(LineEnds(in, p))]

\* feed: the connection's buffer, n bytes, is appended; the limit is on what
\* the buffer then holds.
feed(in, p, n) ==
    LET q == [p EXCEPT !.end = @ + n]
    IN CASE finished(p) -> p
         [] ~finished(p) /\ Buffered(q) > HeaderMax -> Refuse(q)
         [] OTHER -> TakeLines(in, IF q.progress # "fields" THEN parse_words(in, q) ELSE q)

\* The bytes read_front returns, by their positions, and what it leaves.
ReadFront(p, length) == [i \in 1 .. Min({length, Buffered(p)}) |-> p.at + i]
read_front(p, length) == [p EXCEPT !.at = @ + Min({length, Buffered(p)})]

-----------------------------------------------------------------------------
(* request_header: the url is split at its last '?' and decoded, and then  *)
(* the query is split into pairs.                                          *)

Unescaped == [b \in Bytes |-> CASE b = "%amp" -> "&" [] b = "%a" -> "a" [] OTHER -> b]

\* std::stoi throws.
DecodeThrows(s) == Contains(s, "%bad")

decode_url(s) == [i \in DOMAIN s |-> Unescaped[s[i]]]

parse_query(s) == Pairs(Pieces(s, {"&", ";"}))

\* Fault: the url is split at its first '?' and the path is not decoded.
parse_url_raw(url) ==
    LET mark == First(url, "?")
    IN [path |-> SubSeq(url, 1, mark - 1),
        query |-> parse_query(decode_url(SubSeq(url, mark + 1, Len(url))))]

parse_url(url) ==
    LET marks == {i \in DOMAIN url : url[i] = "?"}
    IN IF marks = {}
       THEN [path |-> decode_url(url), query |-> <<>>]
       ELSE [path  |-> decode_url(SubSeq(url, 1, Max(marks) - 1)),
             query |-> parse_query(decode_url(SubSeq(url, Max(marks) + 1, Len(url))))]

=============================================================================
