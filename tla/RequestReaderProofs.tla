------------------------- MODULE RequestReaderProofs -------------------------
(***************************************************************************)
(* Proofs about the reading of one request, whatever bytes the peer sends, *)
(* whatever pieces they come in, and for every application.                *)
(***************************************************************************)
EXTENDS RequestReader, SequenceTheorems, FiniteSetTheorems, WellFoundedInduction, TLAPS

ParserFields == {"progress", "at", "end", "fields", "refused", "method", "url", "protocol",
                 "length", "cookies"}

\* What is known of a parser whatever it has read.
ParserOK(p) ==
    /\ DOMAIN p = ParserFields /\ p.refused \in BOOLEAN
    /\ p.at \in Nat /\ p.end \in Nat /\ p.at <= p.end /\ p.end <= Len(input)
    /\ p.length \in Int /\ p.length < SizeModulus

EndsHeader(i) ==
    /\ i \in 4 .. Len(input)
    /\ input[i - 3] = "cr" /\ input[i - 2] = "lf" /\ input[i - 1] = "cr" /\ input[i] = "lf"

\* Where a parser that refused nothing stands: in the request line it has passed no
\* '\r'; among the fields it stands behind a line's end and has not passed the
\* header's; and when it is finished it stands there.
Stands(p) ==
    /\ p.progress \in Progress
    /\ p.progress \in {"verb", "url", "protocol", "phase2"} =>
           \A i \in 1 .. p.at : input[i] # "cr"
    /\ p.progress = "fields" =>
           /\ p.at >= 2 /\ input[p.at - 1] = "cr" /\ input[p.at] = "lf"
           /\ \A i \in 1 .. p.at : ~EndsHeader(i)
    /\ p.progress = "body" =>
           EndsHeader(p.at) /\ \A i \in 1 .. p.at - 1 : ~EndsHeader(i)

ConnStates == {"reading", "idle", "refused", "ended"}

Mines == {"read", "then", "store", "run", "except", "storeFail"}
Others == {"fullfill", "call", "fail", "failed"}

StepRecords == [do : Mines, read : Reads] \cup [do : Others, read : {0}]

TypeOK ==
    /\ app \subseteq Env /\ input \in Seq(Bytes) /\ max \in Nat
    /\ received \in 0 .. Len(input) /\ conn \in ConnStates
    /\ todo \in [Threads -> Seq(StepRecords)]
    /\ cur \in 0 .. 2 /\ sinks \in [Reads -> Seq(Nat)]
    /\ wrapper \in [func : 0 .. 2, fail : 0 .. 2, fullfilled : BOOLEAN, error : BOOLEAN,
                    lastEc : BOOLEAN]
    /\ calls \in Seq([read : Reads, got : Seq(Nat)]) /\ errors \in Seq(0 .. 2)

\* Until read_body nothing is to do, or that; and then the header is finished.
Reading ==
    /\ parser.refused => conn = "refused" /\ cur = 0
    /\ parser.refused \/ Stands(parser) \/ cur # 0
    /\ cur = 0 =>
           /\ parser.end = received
           /\ wrapper = NewWrapper /\ calls = <<>> /\ errors = <<>>
           /\ \A r \in Reads : sinks[r] = <<>>
           /\ \/ \A t \in Threads : todo[t] = <<>>
              \/ /\ conn = "idle" /\ finished(parser)
                 /\ \E t \in Threads : /\ todo[t] = Chain(1)
                                       /\ \A u \in Threads \ {t} : todo[u] = <<>>
    /\ cur = 0 /\ conn = "reading" => ~finished(parser)

\* What the sink of the first read got.
Body ==
    /\ cur # 0 => HeaderLength \in Nat
    /\ cur # 0 => \A i \in DOMAIN sinks[1] : sinks[1][i] = HeaderLength + i
    /\ cur = 1 /\ conn = "reading" => HeaderLength + Len(sinks[1]) = received
    /\ max # 0 => Len(sinks[1]) < max + BufferSize

Complete(got) == Len(got) >= IF max = 0 THEN parser.length ELSE Min({max, parser.length})

\* Somebody is about to tell the application, or has, that the first body is there.
Tells(s) == s.do \in {"fullfill", "call"} \/ s = Step("run", 1) \/ s = Step("read", 2)

Telling ==
    cur = 2 \/ wrapper.fullfilled \/ \E t \in Threads : \E i \in DOMAIN todo[t] : Tells(todo[t][i])

Fullfilled ==
    /\ cur # 0 => \A t \in Threads : \A i \in DOMAIN todo[t] : todo[t][i] # Step("read", 1)
    /\ cur # 0 /\ Telling => Complete(sinks[1])
    /\ cur = 1 /\ conn = "reading" => ~Telling
    /\ ContinuedWithWholeBody

\* The inductive invariant of the body.
IInv == TypeOK /\ ParserOK(parser) /\ Reading /\ Body /\ Fullfilled

-----------------------------------------------------------------------------
(* Least elements, and the loop of feed.                                   *)

\* A set of natural numbers that is not empty has a least element.
LEMMA Least ==
    ASSUME NEW S \in SUBSET Nat, S # {}
    PROVE  \E n \in S : \A m \in S : n <= m
<1>1. \E n \in S : \A m \in S : <<m, n>> \notin OpToRel(<, Nat)
  BY NatLessThanWellFounded, WFMin
<1>2. PICK n \in S : \A m \in S : <<m, n>> \notin OpToRel(<, Nat)
  BY <1>1
<1>3. ASSUME NEW m \in S PROVE n <= m
  <2>1. ~(m < n)
    BY <1>2 DEF OpToRel
  <2>2. QED
    BY <2>1
<1>4. QED
  BY <1>3

\* Min is what its name says.
LEMMA MinIsLeast ==
    ASSUME NEW S \in SUBSET Nat, S # {}
    PROVE  Min(S) \in S /\ \A m \in S : Min(S) <= m
BY Least DEF Min

\* A function that holds the first n turns of the loop.
Path(p, f, n) == f = [i \in 0 .. n |-> IF i = 0 THEN p ELSE TakeLine(input, f[i - 1])]

\* There is one for every number of turns.
LEMMA PathExists ==
    ASSUME NEW p, NEW n \in Nat
    PROVE  \E f : Path(p, f, n)
<1> DEFINE Bad == {m \in Nat : ~\E f : Path(p, f, m)}
<1>1. SUFFICES ASSUME Bad # {} PROVE FALSE
  OBVIOUS
<1>2. PICK m \in Bad : \A k \in Bad : m <= k
  BY <1>1, Least
<1>3. CASE m = 0
  <2> DEFINE f == [i \in 0 .. 0 |-> p]
  <2>1. f = [i \in 0 .. 0 |-> IF i = 0 THEN p ELSE TakeLine(input, f[i - 1])]
    OBVIOUS
  <2>2. QED
    BY <1>3, <2>1 DEF Path
<1>4. CASE m # 0
  <2>1. m - 1 \in Nat /\ m - 1 \notin Bad
    BY <1>2, <1>4
  <2>2. PICK f : Path(p, f, m - 1)
    BY <2>1
  <2> DEFINE g == [i \in 0 .. m |-> IF i = m THEN TakeLine(input, f[m - 1]) ELSE f[i]]
  <2>3. \A i \in 0 .. m - 1 : f[i] = IF i = 0 THEN p ELSE TakeLine(input, f[i - 1])
    BY <2>2 DEF Path
  <2>4. ASSUME NEW i \in 0 .. m
        PROVE  g[i] = IF i = 0 THEN p ELSE TakeLine(input, g[i - 1])
    <3>1. CASE i = m
      <4>1. i - 1 \in 0 .. m /\ i - 1 # m /\ i - 1 = m - 1
        BY <1>4, <2>1, <3>1
      <4>2. g[i] = TakeLine(input, f[m - 1]) /\ g[i - 1] = f[i - 1]
        BY <3>1, <4>1
      <4>3. QED
        BY <1>4, <3>1, <4>1, <4>2, Zenon
    <3>2. CASE i # m /\ i # 0
      <4>1. i - 1 \in 0 .. m /\ i - 1 # m /\ i \in 0 .. m - 1
        BY <2>1, <3>2
      <4>2. g[i] = f[i] /\ g[i - 1] = f[i - 1]
        BY <3>2, <4>1
      <4>3. QED
        BY <2>3, <3>2, <4>1, <4>2, Zenon
    <3>3. CASE i = 0
      <4>1. g[0] = f[0] /\ f[0] = p
        BY <1>4, <2>1, <2>3
      <4>2. QED
        BY <3>3, <4>1
    <3>4. QED
      BY <3>1, <3>2, <3>3
  <2>5. Path(p, g, m)
    <3>1. g = [i \in 0 .. m |-> g[i]]
      OBVIOUS
    <3> HIDE DEF g
    <3>2. [i \in 0 .. m |-> g[i]]
            = [i \in 0 .. m |-> IF i = 0 THEN p ELSE TakeLine(input, g[i - 1])]
      BY <2>4, Zenon
    <3>3. QED
      BY <3>1, <3>2, Zenon DEF Path
  <2>6. QED
    BY <2>5
<1>5. QED
  BY <1>3, <1>4

\* And it is the only one: two agree where both are defined.
LEMMA PathsAgree ==
    ASSUME NEW p, NEW n \in Nat, NEW m \in Nat, NEW f, NEW g, Path(p, f, n), Path(p, g, m),
           NEW k \in Nat, k <= n, k <= m
    PROVE  f[k] = g[k]
<1> DEFINE Bad == {i \in Nat : i <= n /\ i <= m /\ f[i] # g[i]}
<1>1. SUFFICES ASSUME Bad # {} PROVE FALSE
  OBVIOUS
<1>2. PICK i \in Bad : \A j \in Bad : i <= j
  BY <1>1, Least
<1>3. /\ f[i] = IF i = 0 THEN p ELSE TakeLine(input, f[i - 1])
      /\ g[i] = IF i = 0 THEN p ELSE TakeLine(input, g[i - 1])
  BY DEF Path
<1>4. CASE i = 0
  BY <1>3, <1>4
<1>5. CASE i # 0
  <2>1. i - 1 \in Nat /\ i - 1 <= n /\ i - 1 <= m /\ i - 1 \notin Bad
    BY <1>2, <1>5
  <2>2. f[i - 1] = g[i - 1]
    BY <2>1
  <2>3. QED
    BY <1>3, <1>5, <2>2
<1>6. QED
  BY <1>4, <1>5

\* feed's loop ends after some turns of TakeLine.
LEMMA Loop ==
    ASSUME NEW p, p.at \in Nat, p.end \in Nat
    PROVE  \E turns : /\ turns[0] = p
                      /\ \A n \in Nat : turns[n + 1] = TakeLine(input, turns[n])
                      /\ Cardinality(LineEnds(input, p)) \in Nat
                      /\ TakeLines(input, p) = turns[Cardinality(LineEnds(input, p))]
<1> DEFINE Def(g) == g = [n \in Nat |-> IF n = 0 THEN p ELSE TakeLine(input, g[n - 1])]
           turns == CHOOSE g : Def(g)
           path(n) == CHOOSE f : Path(p, f, n)
           t == [n \in Nat |-> path(n)[n]]
<1>1. \A n \in Nat : Path(p, path(n), n)
  BY PathExists
<1>2. ASSUME NEW n \in Nat, NEW i \in 0 .. n
      PROVE  path(n)[i] = IF i = 0 THEN p ELSE TakeLine(input, path(n)[i - 1])
  <2> DEFINE f == path(n)
  <2>1. Path(p, f, n)
    BY <1>1
  <2> HIDE DEF f
  <2>2. f[i] = IF i = 0 THEN p ELSE TakeLine(input, f[i - 1])
    BY <2>1 DEF Path
  <2>3. QED
    BY <2>2 DEF f
<1>3. ASSUME NEW n \in Nat PROVE t[n] = IF n = 0 THEN p ELSE TakeLine(input, t[n - 1])
  <2>1. t[n] = path(n)[n] /\ n \in 0 .. n
    OBVIOUS
  <2>2. CASE n = 0
    BY <1>2, <2>1, <2>2
  <2>3. CASE n # 0
    <3>1. n - 1 \in Nat /\ n - 1 <= n - 1 /\ n - 1 <= n
      BY <2>3
    <3>2. path(n)[n - 1] = path(n - 1)[n - 1]
      BY <1>1, <3>1, PathsAgree
    <3>3. t[n - 1] = path(n - 1)[n - 1]
      BY <3>1
    <3> HIDE DEF path, t
    <3>4. QED
      BY <1>2, <2>1, <2>3, <3>2, <3>3
  <2>4. QED
    BY <2>2, <2>3
<1>4. Def(t)
  <2>1. t = [n \in Nat |-> t[n]]
    OBVIOUS
  <2> HIDE DEF t
  <2>2. QED
    BY <1>3, <2>1, Zenon
<1>5. Def(turns)
  <2> HIDE DEF t
  <2>1. QED
    BY <1>4, Zenon
<1>6. TakeLines(input, p) = turns[Cardinality(LineEnds(input, p))]
  BY DEF TakeLines
<1> HIDE DEF turns
<1>7. \A n \in Nat : turns[n] = IF n = 0 THEN p ELSE TakeLine(input, turns[n - 1])
  BY <1>5
<1>8. ASSUME NEW n \in Nat PROVE turns[n + 1] = TakeLine(input, turns[n])
  <2>1. PICK m \in Nat : m = n + 1 /\ m # 0 /\ m - 1 = n
    OBVIOUS
  <2>2. turns[m] = TakeLine(input, turns[m - 1])
    BY <1>7, <2>1
  <2>3. QED
    BY <2>1, <2>2, Zenon
<1>9. Cardinality(LineEnds(input, p)) \in Nat
  <2>1. LineEnds(input, p) \subseteq 0 .. p.end - 1
    BY DEF LineEnds
  <2>2. IsFiniteSet(0 .. p.end - 1)
    BY FS_Interval
  <2>3. IsFiniteSet(LineEnds(input, p))
    BY <2>1, <2>2, FS_Subset
  <2>4. QED
    BY <2>3, FS_CardinalityType
<1>10. QED
  BY <1>6, <1>7, <1>8, <1>9

-----------------------------------------------------------------------------
(* The parser.                                                             *)

\* Where the header ends.
LEMMA HeaderEndsThere ==
    ASSUME NEW a, EndsHeader(a), a \in Nat, \A i \in 1 .. a - 1 : ~EndsHeader(i)
    PROVE  HeaderLength = a
<1>1. HeaderEnds = {i \in 4 .. Len(input) : EndsHeader(i)}
  BY DEF HeaderEnds, EndsHeader
<1>2. HeaderEnds \subseteq Nat /\ a \in HeaderEnds
  BY <1>1 DEF EndsHeader
<1>3. HeaderLength \in HeaderEnds /\ \A m \in HeaderEnds : HeaderLength <= m
  BY <1>2, MinIsLeast DEF HeaderLength
<1>4. EndsHeader(HeaderLength) /\ HeaderLength \in Nat /\ HeaderLength <= a /\ HeaderLength >= 4
  BY <1>1, <1>2, <1>3 DEF EndsHeader
<1>5. ~(HeaderLength \in 1 .. a - 1)
  BY <1>4
<1>6. QED
  BY <1>4, <1>5

\* The first line of the buffer, and the parser behind it.
LEMMA Lines1 ==
    ASSUME input \in Seq(Bytes), NEW p, ParserOK(p), LineEnds(input, p) # {}
    PROVE  \E m \in p.at + 1 .. p.end - 1 :
              /\ input[m] = "cr" /\ input[m + 1] = "lf"
              /\ \A k \in p.at + 1 .. m - 1 : ~(input[k] = "cr" /\ input[k + 1] = "lf")
              /\ AfterLine(input, p) = [p EXCEPT !.at = m + 1]
              /\ Line(input, p) = <<>> => m = p.at + 1
              /\ Line(input, p) # <<>> => m # p.at + 1
<1> DEFINE m == Min(LineEnds(input, p))
<1>1. /\ p.at \in Nat /\ p.end \in Nat /\ p.end <= Len(input) /\ Len(input) \in Nat
  BY LenProperties DEF ParserOK
<1>2. LineEnds(input, p) \subseteq Nat
  BY <1>1 DEF LineEnds
<1>3. m \in LineEnds(input, p) /\ \A k \in LineEnds(input, p) : m <= k
  BY <1>2, MinIsLeast
<1>4. m \in p.at + 1 .. p.end - 1 /\ input[m] = "cr" /\ input[m + 1] = "lf" /\ m \in Nat
  BY <1>1, <1>2, <1>3 DEF LineEnds
<1>5. ASSUME NEW k \in p.at + 1 .. m - 1 PROVE ~(input[k] = "cr" /\ input[k + 1] = "lf")
  <2>1. k \notin LineEnds(input, p)
    BY <1>1, <1>3, <1>4
  <2>2. k \in p.at + 1 .. p.end - 1
    BY <1>1, <1>4
  <2>3. QED
    BY <2>1, <2>2 DEF LineEnds
<1>6. AfterLine(input, p) = [p EXCEPT !.at = m + 1]
  BY DEF AfterLine
<1>7. Line(input, p) = SubSeq(input, p.at + 1, m - 1)
  BY DEF Line
<1> HIDE DEF m
<1>8. \A i \in p.at + 1 .. m - 1 : input[i] \in Bytes
  BY <1>1, <1>4, ElementOfSeq
<1>9. /\ Line(input, p) \in Seq(Bytes)
      /\ Len(Line(input, p)) = IF p.at + 1 <= m - 1 THEN m - 1 - (p.at + 1) + 1 ELSE 0
  BY <1>1, <1>4, <1>7, <1>8, SubSeqProperties
<1>10. Line(input, p) = <<>> => m = p.at + 1
  BY <1>1, <1>4, <1>9, EmptySeq
<1>11. Line(input, p) # <<>> => m # p.at + 1
  BY <1>1, <1>4, <1>9, EmptySeq
<1>12. QED
  BY <1>4, <1>5, <1>6, <1>10, <1>11

\* What one field changes of the parser.
LEMMA Adds ==
    ASSUME ReaderAssumption, NEW p, ParserOK(p), NEW line, NEW q, q = add_field(p, line)
    PROVE  ParserOK(q) /\ q.at = p.at /\ q.end = p.end /\ q.progress = p.progress
<1> DEFINE r == [p EXCEPT !.fields = @ + 1]
           colon == First(line, "colon")
           value == TrimLeft(SubSeq(line, colon + 1, Len(line)))
           number == Number(Trim(value))
<1>1. \/ q = Refuse(r) \/ q = [r EXCEPT !.length = number] \/ q = r
      \/ q = [r EXCEPT !.cookies = Inserted(@, parse_cookies(value))]
  BY DEF add_field
<1>2. number \in Int /\ number < SizeModulus
  <2>1. number \in {Digits[d] : d \in DOMAIN Digits} \cup {-7, 0}
    BY DEF Number
  <2>2. SizeModulus \in Nat /\ SizeModulus > 0
    BY DEF ReaderAssumption
  <2>3. ASSUME NEW d \in DOMAIN Digits PROVE Digits[d] \in Int /\ Digits[d] < SizeModulus
    <3>1. Digits[d] < SizeModulus
      BY DEF ReaderAssumption
    <3>2. Digits[d] \in Int
      BY DEF Digits
    <3>3. QED
      BY <3>1, <3>2
  <2>4. QED
    BY <2>1, <2>2, <2>3
<1> HIDE DEF number, value, colon
<1>3. /\ DOMAIN r = ParserFields /\ r.at = p.at /\ r.end = p.end /\ r.progress = p.progress
      /\ r.refused = p.refused /\ r.length = p.length
  BY DEF ParserOK, ParserFields
<1> HIDE DEF r
<1>4. /\ DOMAIN q = ParserFields /\ q.at = p.at /\ q.end = p.end /\ q.progress = p.progress
      /\ q.refused \in {p.refused, TRUE} /\ q.length \in {p.length, number}
  BY <1>1, <1>3 DEF Refuse, ParserFields
<1>5. QED
  BY <1>2, <1>4 DEF ParserOK

\* A turn of the loop: the parser goes to the end of a line, and is finished behind
\* the first empty one.
LEMMA LineTaken ==
    ASSUME ReaderAssumption, input \in Seq(Bytes), NEW p, ParserOK(p), p.refused \/ Stands(p),
           NEW q, q = TakeLine(input, p)
    PROVE  ParserOK(q) /\ (q.refused \/ Stands(q)) /\ q.end = p.end
<1>1. CASE p.progress # "fields" \/ p.refused \/ LineEnds(input, p) = {}
  <2>1. q = p
    BY <1>1 DEF TakeLine
  <2>2. QED
    BY <2>1
<1>2. CASE p.progress = "fields" /\ ~p.refused /\ LineEnds(input, p) # {}
  <2> DEFINE r == AfterLine(input, p)
  <2>1. PICK m \in p.at + 1 .. p.end - 1 :
              /\ input[m] = "cr" /\ input[m + 1] = "lf"
              /\ \A k \in p.at + 1 .. m - 1 : ~(input[k] = "cr" /\ input[k + 1] = "lf")
              /\ r = [p EXCEPT !.at = m + 1]
              /\ Line(input, p) = <<>> => m = p.at + 1
              /\ Line(input, p) # <<>> => m # p.at + 1
    BY <1>2, Lines1
  <2>2. \/ Line(input, p) = <<>> /\ q = [r EXCEPT !.progress = "body"]
        \/ q = Refuse(r)
        \/ Line(input, p) # <<>> /\ q = add_field(r, Line(input, p))
    BY <1>2 DEF TakeLine
  <2> HIDE DEF r
  <2>3. /\ p.at \in Nat /\ p.end \in Nat /\ p.end <= Len(input) /\ Len(input) \in Nat /\ m \in Nat
        /\ DOMAIN p = ParserFields
    BY <2>1, LenProperties DEF ParserOK
  <2>4. /\ DOMAIN r = ParserFields /\ r.at = m + 1 /\ r.end = p.end /\ r.progress = p.progress
        /\ r.refused = p.refused /\ r.length = p.length
    BY <2>1, <2>3 DEF ParserFields
  <2>5. ParserOK(r)
    BY <2>1, <2>3, <2>4 DEF ParserOK
  <2>6. /\ p.at >= 2 /\ input[p.at - 1] = "cr" /\ input[p.at] = "lf"
        /\ \A i \in 1 .. p.at : ~EndsHeader(i)
    BY <1>2 DEF Stands
  <2>7. CASE Line(input, p) = <<>> /\ q = [r EXCEPT !.progress = "body"]
    <3>1. m = p.at + 1
      BY <2>1, <2>7
    <3>2. /\ DOMAIN q = ParserFields /\ q.at = p.at + 2 /\ q.end = p.end /\ q.progress = "body"
          /\ q.refused = p.refused /\ q.length = p.length
      BY <2>3, <2>4, <2>7, <3>1 DEF ParserFields
    <3>3. ParserOK(q)
      <4>1. q.at \in Nat /\ q.end \in Nat /\ q.at <= q.end /\ q.end <= Len(input)
        <5>1. PICK a \in Nat, e \in Nat : a = p.at /\ e = p.end
          BY <2>3
        <5>2. a + 1 \in a + 1 .. e - 1
          BY <2>1, <3>1, <5>1, Zenon
        <5>3. a + 2 \in Nat /\ a + 2 <= e
          BY <5>2
        <5>4. q.at = a + 2 /\ q.end = e /\ e <= Len(input)
          BY <2>3, <3>2, <5>1, Zenon
        <5>5. QED
          BY <5>3, <5>4, Zenon
      <4>2. /\ DOMAIN q = ParserFields /\ q.refused \in BOOLEAN
            /\ q.length \in Int /\ q.length < SizeModulus
        BY <3>2 DEF ParserOK
      <4>3. QED
        BY <4>1, <4>2 DEF ParserOK
    <3>4. EndsHeader(q.at)
      <4>1. q.at \in 4 .. Len(input)
        <5>1. q.at <= Len(input) /\ q.at \in Nat
          BY <3>2, <3>3, <2>1, <2>3, <3>1 DEF ParserOK
        <5>2. q.at >= 4
          BY <2>3, <2>6, <3>2
        <5>3. QED
          BY <2>3, <5>1, <5>2
      <4>2. q.at - 3 = p.at - 1 /\ q.at - 2 = p.at /\ q.at - 1 = m /\ q.at = m + 1
        BY <2>3, <3>1, <3>2
      <4>3. QED
        BY <2>1, <2>6, <4>1, <4>2 DEF EndsHeader
    <3>5. ASSUME NEW i \in 1 .. q.at - 1 PROVE ~EndsHeader(i)
      <4>1. i \in 1 .. p.at \/ (i = p.at + 1 /\ i - 1 = p.at)
        BY <2>3, <3>2
      <4>2. QED
        BY <2>6, <4>1 DEF EndsHeader
    <3>6. Stands(q)
      BY <3>2, <3>4, <3>5 DEF Stands, Progress
    <3>7. QED
      BY <3>2, <3>3, <3>6
  <2>8. CASE q = Refuse(r)
    <3>1. /\ DOMAIN q = ParserFields /\ q.at = r.at /\ q.end = r.end /\ q.refused = TRUE
          /\ q.length = r.length
      BY <2>4, <2>8 DEF Refuse, ParserFields
    <3>2. QED
      BY <2>4, <2>5, <3>1 DEF ParserOK
  <2>9. CASE Line(input, p) # <<>> /\ q = add_field(r, Line(input, p))
    <3>1. ParserOK(q) /\ q.at = m + 1 /\ q.end = p.end /\ q.progress = "fields"
      BY <1>2, <2>4, <2>5, <2>9, Adds
    <3>2. m # p.at + 1
      BY <2>1, <2>9
    <3>3. ASSUME NEW i \in 1 .. m + 1 PROVE ~EndsHeader(i)
      <4>1. CASE i <= p.at
        BY <2>3, <2>6, <4>1
      <4>2. CASE i = p.at + 1
        <5>1. i - 1 = p.at
          BY <2>3, <4>2
        <5>2. QED
          BY <2>6, <5>1 DEF EndsHeader
      <4>3. CASE i > p.at + 1 /\ i <= m
        <5>1. PICK k \in Nat : k = i - 1 /\ k + 1 = i /\ k \in p.at + 1 .. m - 1
          BY <2>3, <4>3
        <5>2. ~(input[k] = "cr" /\ input[k + 1] = "lf")
          BY <2>1, <5>1
        <5>3. QED
          BY <5>1, <5>2 DEF EndsHeader
      <4>4. CASE i = m + 1 /\ m = p.at + 2
        <5>1. i - 3 = p.at
          BY SMTT(30), <2>3, <4>4
        <5>2. QED
          BY <2>6, <5>1 DEF EndsHeader
      <4>5. CASE i = m + 1 /\ m > p.at + 2
        <5>1. PICK k \in Nat : k = i - 3 /\ k + 1 = i - 2 /\ k \in p.at + 1 .. m - 1
          BY <2>3, <4>5
        <5>2. ~(input[k] = "cr" /\ input[k + 1] = "lf")
          BY <2>1, <5>1
        <5>3. QED
          BY <5>1, <5>2 DEF EndsHeader
      <4>6. m >= p.at + 2
        BY <2>3, <3>2
      <4>7. \/ i <= p.at \/ i = p.at + 1 \/ (i > p.at + 1 /\ i <= m)
            \/ (i = m + 1 /\ m = p.at + 2) \/ (i = m + 1 /\ m > p.at + 2)
        BY <2>3, <4>6
      <4>8. QED
        BY <4>1, <4>2, <4>3, <4>4, <4>5, <4>7, Zenon
    <3>4. Stands(q)
      <4>1. q.at >= 2 /\ q.at - 1 = m /\ q.at = m + 1
        BY SMTT(30), <2>1, <2>3, <3>1
      <4>2. QED
        BY <2>1, <3>1, <3>3, <4>1 DEF Stands, Progress
    <3>5. QED
      BY <3>1, <3>4
  <2>10. QED
    BY <2>2, <2>7, <2>8, <2>9
<1>3. QED
  BY <1>1, <1>2

\* The loop keeps what every turn keeps.
LEMMA LinesTaken ==
    ASSUME ReaderAssumption, input \in Seq(Bytes), NEW p, ParserOK(p), p.refused \/ Stands(p),
           NEW q, q = TakeLines(input, p)
    PROVE  ParserOK(q) /\ (q.refused \/ Stands(q)) /\ q.end = p.end
<1>1. p.at \in Nat /\ p.end \in Nat
  BY DEF ParserOK
<1>2. PICK turns : /\ turns[0] = p
                   /\ \A n \in Nat : turns[n + 1] = TakeLine(input, turns[n])
                   /\ \E n \in Nat : q = turns[n]
  <2>1. PICK turns : /\ turns[0] = p
                     /\ \A n \in Nat : turns[n + 1] = TakeLine(input, turns[n])
                     /\ Cardinality(LineEnds(input, p)) \in Nat
                     /\ TakeLines(input, p) = turns[Cardinality(LineEnds(input, p))]
    BY <1>1, Loop
  <2>2. \E n \in Nat : q = turns[n]
    BY <2>1
  <2>3. QED
    BY <2>1, <2>2
<1> DEFINE Bad == {n \in Nat : ~(/\ ParserOK(turns[n]) /\ turns[n].end = p.end
                                 /\ turns[n].refused \/ Stands(turns[n]))}
<1>3. ASSUME Bad # {} PROVE FALSE
  <2>1. PICK n \in Bad : \A m \in Bad : n <= m
    BY <1>3, Least
  <2>2. n # 0
    BY <1>2
  <2>3. PICK m \in Nat : n = m + 1 /\ m \notin Bad
    <3>1. n - 1 \in Nat /\ n = (n - 1) + 1 /\ n - 1 \notin Bad
      BY <2>1, <2>2
    <3>2. QED
      BY <3>1
  <2>4. turns[n] = TakeLine(input, turns[m])
    BY <1>2, <2>3
  <2>5. ParserOK(turns[m]) /\ turns[m].end = p.end /\ (turns[m].refused \/ Stands(turns[m]))
    BY <2>3
  <2>6. ParserOK(turns[n]) /\ turns[n].end = p.end /\ (turns[n].refused \/ Stands(turns[n]))
    BY <2>4, <2>5, LineTaken
  <2>7. QED
    BY <2>6
<1>4. \A n \in Nat : /\ ParserOK(turns[n]) /\ turns[n].end = p.end
                     /\ turns[n].refused \/ Stands(turns[n])
  BY <1>3
<1>5. QED
  BY <1>2, <1>4

\* The first word of the buffer, and the parser behind it.
LEMMA WordTaken ==
    ASSUME NEW p, ParserOK(p), HasWord(input, p), NEW q, q = AfterWord(input, p)
    PROVE  /\ ParserOK(q) /\ q.end = p.end /\ q.progress = p.progress /\ q.refused = p.refused
           /\ q.at < q.end /\ input[q.at + 1] \in {"sp", "cr"}
           /\ (\A i \in 1 .. p.at : input[i] # "cr") => \A i \in 1 .. q.at : input[i] # "cr"
<1> DEFINE m == WordEnd(input, p)
           ends == WordEnds(input, p) \cup {p.end + 1}
<1>1. /\ p.at \in Nat /\ p.end \in Nat /\ p.end <= Len(input) /\ DOMAIN p = ParserFields
  BY DEF ParserOK
<1>2. ends \subseteq Nat /\ ends # {}
  BY <1>1 DEF WordEnds
<1>3. m \in ends /\ \A k \in ends : m <= k
  BY <1>2, MinIsLeast DEF WordEnd
<1>4. m \in WordEnds(input, p)
  <2>1. PICK k \in WordEnds(input, p) : TRUE
    BY DEF HasWord
  <2>2. m <= k /\ k <= p.end /\ k \in Nat /\ m \in Nat
    BY <1>1, <1>2, <1>3, <2>1 DEF WordEnds
  <2>3. m # p.end + 1
    BY <1>1, <2>2
  <2>4. QED
    BY <1>3, <2>3
<1>5. m \in p.at + 1 .. p.end /\ m \in Nat /\ input[m] \in {"sp", "cr"}
  BY <1>1, <1>4 DEF WordEnds
<1>6. ASSUME NEW k \in p.at + 1 .. m - 1 PROVE input[k] # "cr"
  <2>1. k \notin WordEnds(input, p) /\ k \in p.at + 1 .. p.end
    BY <1>1, <1>3, <1>5
  <2>2. QED
    BY <2>1 DEF WordEnds
<1>7. q = [p EXCEPT !.at = m - 1]
  BY DEF AfterWord
<1> HIDE DEF m, ends
<1>8. /\ DOMAIN q = ParserFields /\ q.at = m - 1 /\ q.end = p.end /\ q.progress = p.progress
      /\ q.refused = p.refused /\ q.length = p.length
  BY <1>1, <1>7 DEF ParserFields
<1>9. ParserOK(q) /\ q.at < q.end /\ q.at + 1 = m
  BY <1>1, <1>5, <1>8 DEF ParserOK
<1>10. ASSUME \A i \in 1 .. p.at : input[i] # "cr", NEW i \in 1 .. q.at PROVE input[i] # "cr"
  <2>1. i \in 1 .. p.at \/ i \in p.at + 1 .. m - 1
    BY <1>1, <1>5, <1>8
  <2>2. QED
    BY <1>6, <1>10, <2>1
<1>11. QED
  BY <1>5, <1>8, <1>9, <1>10

\* What the parts of parse_words keep.
Kept(p, q) == ParserOK(q) /\ (q.refused \/ Stands(q)) /\ q.end = p.end

\* A word before a space, kept under some name, and the space.
LEMMA SpaceTaken ==
    ASSUME NEW p, ParserOK(p), p.refused \/ Stands(p), HasWord(input, p),
           NEW f \in {"method", "url"}, NEW w, NEW next \in {"url", "protocol"},
           p.progress \in {"verb", "url", "protocol", "phase2"},
           NEW q, q = ExpectSpace(input, [AfterWord(input, p) EXCEPT ![f] = w], next)
    PROVE  Kept(p, q)
<1> DEFINE r == AfterWord(input, p)
           s == [r EXCEPT ![f] = w]
<1>1. /\ ParserOK(r) /\ r.end = p.end /\ r.progress = p.progress /\ r.refused = p.refused
      /\ (\A i \in 1 .. p.at : input[i] # "cr") => \A i \in 1 .. r.at : input[i] # "cr"
  BY WordTaken
<1>2. q = IF s.at < s.end /\ input[s.at + 1] = "sp"
          THEN [s EXCEPT !.at = @ + 1, !.progress = next] ELSE s
  BY DEF ExpectSpace
<1> HIDE DEF r
<1>3. /\ DOMAIN s = ParserFields /\ s.at = r.at /\ s.end = p.end /\ s.progress = p.progress
      /\ s.refused = p.refused /\ s.length = r.length
  BY <1>1 DEF ParserOK, ParserFields
<1> HIDE DEF s
<1>4. ParserOK(s) /\ s.at \in Nat /\ s.end \in Nat
  BY <1>1, <1>3 DEF ParserOK
<1>5. s.refused \/ \A i \in 1 .. s.at : input[i] # "cr"
  BY <1>1, <1>3 DEF Stands
<1>6. CASE q = s
  BY <1>3, <1>4, <1>5, <1>6 DEF Kept, Stands, Progress
<1>7. CASE s.at < s.end /\ input[s.at + 1] = "sp" /\ q = [s EXCEPT !.at = @ + 1, !.progress = next]
  <2>1. /\ DOMAIN q = ParserFields /\ q.at = s.at + 1 /\ q.end = s.end /\ q.progress = next
        /\ q.refused = s.refused /\ q.length = s.length
    BY <1>3, <1>7 DEF ParserFields
  <2>2. ParserOK(q)
    BY <1>4, <1>7, <2>1 DEF ParserOK
  <2>3. q.refused \/ \A i \in 1 .. q.at : input[i] # "cr"
    <3>1. ASSUME ~q.refused, NEW i \in 1 .. q.at PROVE input[i] # "cr"
      <4>1. i \in 1 .. s.at \/ i = s.at + 1
        BY <1>4, <2>1
      <4>2. QED
        BY <1>5, <1>7, <2>1, <3>1, <4>1
    <3>2. QED
      BY <3>1
  <2>4. QED
    BY <1>3, <2>1, <2>2, <2>3 DEF Kept, Stands, Progress
<1>8. QED
  BY <1>2, <1>6, <1>7

\* The method.
LEMMA VerbKeeps ==
    ASSUME NEW p, ParserOK(p), p.refused \/ Stands(p), NEW q, q = Verb(input, p)
    PROVE  Kept(p, q)
<1>1. CASE p.progress = "verb" /\ HasWord(input, p)
  BY <1>1, SpaceTaken DEF Verb
<1>2. CASE ~(p.progress = "verb" /\ HasWord(input, p))
  BY <1>2 DEF Verb, Kept
<1>3. QED
  BY <1>1, <1>2

\* The url.
LEMMA UrlKeeps ==
    ASSUME NEW p, ParserOK(p), p.refused \/ Stands(p), NEW q, q = Url(input, p)
    PROVE  Kept(p, q)
<1>1. CASE p.progress = "url" /\ HasWord(input, p)
  BY <1>1, SpaceTaken DEF Url
<1>2. CASE ~(p.progress = "url" /\ HasWord(input, p))
  BY <1>2 DEF Url, Kept
<1>3. QED
  BY <1>1, <1>2

\* The protocol, in which something is refused.
LEMMA ProtocolKeeps ==
    ASSUME NEW p, ParserOK(p), p.refused \/ Stands(p), NEW q, q = Protocol(input, p)
    PROVE  Kept(p, q)
<1>1. CASE p.progress = "protocol" /\ HasWord(input, p)
  <2> DEFINE r == AfterWord(input, p)
             w == Word(input, p)
  <2>1. /\ ParserOK(r) /\ r.end = p.end /\ r.progress = p.progress /\ r.refused = p.refused
        /\ (\A i \in 1 .. p.at : input[i] # "cr") => \A i \in 1 .. r.at : input[i] # "cr"
    BY <1>1, WordTaken
  <2>2. q = [r EXCEPT !.protocol = w, !.progress = "phase2"] \/ q = Refuse(r)
    BY <1>1 DEF Protocol
  <2> HIDE DEF r, w
  <2>3. /\ DOMAIN q = ParserFields /\ q.at = r.at /\ q.end = p.end /\ q.length = r.length
        /\ \/ q.refused = TRUE
           \/ q.refused = p.refused /\ q.progress = "phase2"
    BY <2>1, <2>2 DEF Refuse, ParserFields, ParserOK
  <2>4. ParserOK(q)
    BY <2>1, <2>3 DEF ParserOK
  <2>5. p.refused \/ \A i \in 1 .. q.at : input[i] # "cr"
    BY <1>1, <2>1, <2>3 DEF Stands
  <2>6. QED
    BY <2>3, <2>4, <2>5 DEF Kept, Stands, Progress
<1>2. CASE ~(p.progress = "protocol" /\ HasWord(input, p))
  BY <1>2 DEF Protocol, Kept
<1>3. QED
  BY <1>1, <1>2

\* The end of the request line: behind it the parser stands behind a line's end.
LEMMA RestKeeps ==
    ASSUME input \in Seq(Bytes), NEW p, ParserOK(p), p.refused \/ Stands(p),
           NEW q, q = RestOfLine(input, p)
    PROVE  Kept(p, q)
<1>1. CASE p.progress = "phase2" /\ LineEnds(input, p) # {}
  <2> DEFINE r == AfterLine(input, p)
  <2>1. PICK m \in p.at + 1 .. p.end - 1 :
              /\ input[m] = "cr" /\ input[m + 1] = "lf"
              /\ r = [p EXCEPT !.at = m + 1]
              /\ Line(input, p) = <<>> => m = p.at + 1
    BY <1>1, Lines1
  <2>2. \/ Line(input, p) = <<>> /\ q = [r EXCEPT !.progress = "fields"]
        \/ q = Refuse(r)
    BY <1>1 DEF RestOfLine
  <2> HIDE DEF r
  <2>3. /\ p.at \in Nat /\ p.end \in Nat /\ p.end <= Len(input) /\ Len(input) \in Nat /\ m \in Nat
        /\ DOMAIN p = ParserFields
    BY <2>1, LenProperties DEF ParserOK
  <2>4. /\ DOMAIN r = ParserFields /\ r.at = m + 1 /\ r.end = p.end /\ r.progress = p.progress
        /\ r.refused = p.refused /\ r.length = p.length
    BY <2>1, <2>3 DEF ParserFields
  <2>5. ParserOK(r)
    BY <2>1, <2>3, <2>4 DEF ParserOK
  <2>6. /\ DOMAIN q = ParserFields /\ q.at = r.at /\ q.end = r.end /\ q.length = r.length
        /\ \/ q.refused = TRUE
           \/ q.refused = p.refused /\ q.progress = "fields" /\ m = p.at + 1
    BY <2>1, <2>2, <2>4 DEF Refuse, ParserFields
  <2>7. ParserOK(q)
    BY <2>5, <2>6 DEF ParserOK
  <2>8. ASSUME ~q.refused PROVE Stands(q)
    <3>1. ~p.refused /\ m = p.at + 1 /\ q.progress = "fields" /\ q.at = m + 1
      BY <2>4, <2>6, <2>8
    <3>2. \A i \in 1 .. p.at : input[i] # "cr"
      BY <1>1, <3>1 DEF Stands
    <3>3. q.at >= 2 /\ q.at - 1 = m /\ q.at = m + 1
      BY <2>3, <3>1
    <3>4. ASSUME NEW i \in 1 .. q.at, EndsHeader(i) PROVE FALSE
      <4>1. i - 3 \in 1 .. p.at /\ input[i - 3] = "cr"
        BY <2>3, <3>1, <3>4 DEF EndsHeader
      <4>2. QED
        BY <3>2, <4>1
    <3>5. QED
      BY <2>1, <3>1, <3>3, <3>4 DEF Stands, Progress
  <2>9. QED
    BY <2>4, <2>6, <2>7, <2>8 DEF Kept
<1>2. CASE ~(p.progress = "phase2" /\ LineEnds(input, p) # {})
  BY <1>2 DEF RestOfLine, Kept
<1>3. QED
  BY <1>1, <1>2

\* A piece of n bytes.
LEMMA Fed ==
    ASSUME ReaderAssumption, input \in Seq(Bytes), NEW p, ParserOK(p), p.refused \/ Stands(p),
           ~finished(p), NEW n \in Nat, p.end + n <= Len(input), NEW q, q = feed(input, p, n)
    PROVE  ParserOK(q) /\ (q.refused \/ Stands(q)) /\ q.end = p.end + n
<1> DEFINE r == [p EXCEPT !.end = @ + n]
<1>1. \/ q = Refuse(r)
      \/ q = TakeLines(input, r)
      \/ q = TakeLines(input, parse_words(input, r))
  BY DEF feed
<1>2. /\ DOMAIN r = ParserFields /\ r.at = p.at /\ r.end = p.end + n /\ r.progress = p.progress
      /\ r.refused = p.refused /\ r.length = p.length
  BY DEF ParserOK, ParserFields
<1> HIDE DEF r
<1>3. ParserOK(r) /\ r.end = p.end + n
  BY <1>2 DEF ParserOK
<1>4. r.refused \/ Stands(r)
  BY <1>2 DEF Stands
<1>5. CASE q = Refuse(r)
  <2>1. /\ DOMAIN q = ParserFields /\ q.at = r.at /\ q.end = r.end /\ q.length = r.length
        /\ q.refused = TRUE
    BY <1>2, <1>5 DEF Refuse, ParserFields
  <2>2. QED
    BY <1>3, <2>1 DEF ParserOK
<1>6. CASE q = TakeLines(input, r)
  BY <1>3, <1>4, <1>6, LinesTaken
<1>7. CASE q = TakeLines(input, parse_words(input, r))
  <2> DEFINE a == Verb(input, r)  b == Url(input, a)  c == Protocol(input, b)
             d == RestOfLine(input, c)
  <2>1. Kept(r, a)
    BY <1>3, <1>4, VerbKeeps
  <2>2. Kept(a, b)
    <3> HIDE DEF a
    <3>1. QED
      BY <2>1, UrlKeeps DEF Kept
  <2>3. Kept(b, c)
    <3> HIDE DEF b
    <3>1. QED
      BY <2>2, ProtocolKeeps DEF Kept
  <2>4. Kept(c, d)
    <3> HIDE DEF c
    <3>1. QED
      BY <2>3, RestKeeps DEF Kept
  <2>5. q = TakeLines(input, d)
    BY <1>7 DEF parse_words
  <2> HIDE DEF a, b, c, d
  <2>6. d.end = r.end
    BY <2>1, <2>2, <2>3, <2>4 DEF Kept
  <2>7. QED
    BY <1>3, <2>4, <2>5, <2>6, LinesTaken DEF Kept
<1>8. QED
  BY <1>1, <1>5, <1>6, <1>7

-----------------------------------------------------------------------------
(* Steps.                                                                  *)

\* What Append does.
LEMMA Appended ==
    ASSUME NEW S, NEW s \in Seq(S), NEW e \in S
    PROVE  /\ Append(s, e) \in Seq(S) /\ Len(s) \in Nat
           /\ DOMAIN s = 1 .. Len(s) /\ DOMAIN Append(s, e) = 1 .. Len(s) + 1
           /\ \A i \in DOMAIN Append(s, e) :
                  Append(s, e)[i] = IF i = Len(s) + 1 THEN e ELSE s[i]
<1>1. Append(s, e) \in Seq(S) /\ Len(Append(s, e)) = Len(s) + 1 /\ Len(s) \in Nat
  BY AppendProperties, LenProperties
<1>2. DOMAIN s = 1 .. Len(s) /\ DOMAIN Append(s, e) = 1 .. Len(s) + 1
  BY <1>1, LenProperties
<1>3. /\ \A i \in 1 .. Len(s) : Append(s, e)[i] = s[i]
      /\ Append(s, e)[Len(s) + 1] = e
  BY AppendProperties
<1>4. QED
  BY <1>1, <1>2, <1>3

\* The sequences of steps that threads are given.
LEMMA StepsAre ==
    /\ <<>> \in Seq(StepRecords) /\ DOMAIN <<>> = {}
    /\ \A s \in StepRecords : /\ <<s>> \in Seq(StepRecords) /\ Len(<<s>>) = 1
                              /\ \A i \in DOMAIN <<s>> : <<s>>[i] = s
    /\ \A x \in Mines, r \in Reads : Step(x, r) \in StepRecords
    /\ \A x \in Others : Step(x, 0) \in StepRecords
    /\ \A r \in Reads : /\ Chain(r) \in Seq(StepRecords) /\ Chain(r) # <<>>
                        /\ Head(Chain(r)) = Step("read", r)
                        /\ \A i \in DOMAIN Chain(r) :
                               Chain(r)[i] = Step("read", r) => i = 1
                        /\ \A i \in DOMAIN Chain(r) :
                               Chain(r)[i] \in {Step("read", r), Step("then", r), Step("except", r)}
<1>1. \A s \in StepRecords : /\ <<s>> \in Seq(StepRecords) /\ Len(<<s>>) = 1
                             /\ \A i \in DOMAIN <<s>> : <<s>>[i] = s
  OBVIOUS
<1>2. \A x \in Mines, r \in Reads : Step(x, r) \in StepRecords
  BY DEF Step, StepRecords
<1>3. \A x \in Others : Step(x, 0) \in StepRecords
  BY DEF Step, StepRecords
<1>4. ASSUME NEW r \in Reads
      PROVE  /\ Chain(r) \in Seq(StepRecords) /\ Chain(r) # <<>>
             /\ Head(Chain(r)) = Step("read", r)
             /\ \A i \in DOMAIN Chain(r) :
                    Chain(r)[i] = Step("read", r) => i = 1
             /\ \A i \in DOMAIN Chain(r) :
                    Chain(r)[i] \in {Step("read", r), Step("then", r), Step("except", r)}
  <2>1. \A x \in {"read", "then", "except"} : Step(x, r) \in StepRecords
    BY <1>2 DEF Mines
  <2>2. Step("then", r) # Step("read", r) /\ Step("except", r) # Step("read", r)
    BY DEF Step
  <2>3. QED
    BY <2>1, <2>2 DEF Chain
<1>5. QED
  BY <1>1, <1>2, <1>3, <1>4

\* A thread that does its next step.
LEMMA Goes ==
    ASSUME TypeOK, NEW t \in Threads, todo[t] # <<>>, NEW p \in Seq(StepRecords), Go(t, p)
    PROVE  /\ todo' \in [Threads -> Seq(StepRecords)]
           /\ \A u \in Threads : u # t => todo'[u] = todo[u]
           /\ \A u \in Threads : \A i \in DOMAIN todo'[u] :
                  \/ \E j \in DOMAIN todo[u] : (u = t => j # 1) /\ todo'[u][i] = todo[u][j]
                  \/ u = t /\ \E j \in DOMAIN p : todo'[u][i] = p[j]
<1> DEFINE s == todo[t]  r == p \o Tail(s)
<1>1. s \in Seq(StepRecords) /\ s # <<>>
  BY DEF TypeOK
<1>2. /\ todo' = [todo EXCEPT ![t] = r] /\ todo \in [Threads -> Seq(StepRecords)]
  BY DEF Go, TypeOK
<1> HIDE DEF s
<1>3. /\ Tail(s) \in Seq(StepRecords) /\ Len(Tail(s)) = Len(s) - 1 /\ Len(s) \in Nat \ {0}
      /\ \A i \in 1 .. Len(Tail(s)) : Tail(s)[i] = s[i + 1]
      /\ DOMAIN s = 1 .. Len(s)
  BY <1>1, HeadTailProperties, EmptySeq, LenProperties
<1>4. /\ r \in Seq(StepRecords) /\ Len(r) = Len(p) + Len(Tail(s))
      /\ \A i \in 1 .. Len(r) : r[i] = IF i <= Len(p) THEN p[i] ELSE Tail(s)[i - Len(p)]
  BY <1>3, ConcatProperties
<1>5. DOMAIN r = 1 .. Len(r) /\ Len(p) \in Nat /\ DOMAIN p = 1 .. Len(p)
  BY <1>4, LenProperties
<1>6. ASSUME NEW i \in DOMAIN r
      PROVE  (\E j \in DOMAIN s : j # 1 /\ r[i] = s[j]) \/ (\E j \in DOMAIN p : r[i] = p[j])
  <2>1. CASE i <= Len(p)
    BY <1>4, <1>5, <2>1
  <2>2. CASE ~(i <= Len(p))
    <3>1. /\ i - Len(p) \in 1 .. Len(Tail(s)) /\ i - Len(p) + 1 \in DOMAIN s
          /\ i - Len(p) + 1 # 1
      BY <1>3, <1>4, <1>5, <2>2
    <3>2. r[i] = s[i - Len(p) + 1]
      BY <1>3, <1>4, <1>5, <2>2, <3>1
    <3>3. QED
      BY <3>1, <3>2
  <2>3. QED
    BY <2>1, <2>2
<1> HIDE DEF r
<1>7. todo' \in [Threads -> Seq(StepRecords)] /\ todo'[t] = r /\ \A u \in Threads : u # t => todo'[u] = todo[u]
  BY <1>2, <1>4
<1>8. QED
  BY <1>6, <1>7 DEF s

\* What a thread does next is a step.
LEMMA NextStep ==
    ASSUME TypeOK, NEW t \in Threads, NEW what, At(t, what)
    PROVE  /\ todo[t] # <<>> /\ Head(todo[t]) \in StepRecords /\ Head(todo[t]).do = what
           /\ Head(todo[t]) = todo[t][1] /\ 1 \in DOMAIN todo[t]
           /\ what \in Mines => Mine(t) \in Reads
           /\ what \in Mines => Head(todo[t]) = Step(what, Mine(t))
<1>1. todo[t] \in Seq(StepRecords) /\ todo[t] # <<>> /\ Head(todo[t]).do = what
  BY DEF TypeOK, At
<1>2. /\ Head(todo[t]) \in StepRecords /\ Head(todo[t]) = todo[t][1] /\ 1 \in DOMAIN todo[t]
  BY <1>1, HeadTailProperties, EmptySeq, LenProperties
<1>3. ASSUME what \in Mines
      PROVE  Mine(t) \in Reads /\ Head(todo[t]) = Step(what, Mine(t))
  <2>1. Head(todo[t]) \in [do : Mines, read : Reads]
    BY <1>1, <1>2, <1>3 DEF StepRecords, Mines, Others
  <2>2. QED
    BY <1>1, <2>1 DEF Mine, Step
<1>4. QED
  BY <1>1, <1>2, <1>3

\* Before the first read_body a thread that has something to do is about to call it.
LEMMA FirstStep ==
    ASSUME TypeOK, Reading, cur = 0, NEW t \in Threads, todo[t] # <<>>
    PROVE  /\ todo[t] = Chain(1) /\ Head(todo[t]) = Step("read", 1) /\ conn = "idle"
           /\ finished(parser) /\ ~parser.refused /\ Stands(parser)
           /\ \A u \in Threads : u # t => todo[u] = <<>>
<1>1. conn = "idle" /\ finished(parser) /\ todo[t] = Chain(1)
      /\ \A u \in Threads : u # t => todo[u] = <<>>
  BY DEF Reading
<1>2. ~parser.refused /\ Stands(parser)
  BY <1>1 DEF Reading
<1>3. QED
  BY <1>1, <1>2, StepsAre DEF Reads

-----------------------------------------------------------------------------
(* What the steps keep: the header and the body.                           *)

\* The less of two numbers.
LEMMA MinOfTwo ==
    ASSUME NEW a \in Int, NEW b \in Int
    PROVE  /\ Min({a, b}) \in Int /\ Min({a, b}) <= a /\ Min({a, b}) <= b
           /\ Min({a, b}) = a \/ Min({a, b}) = b
<1>1. \E x \in {a, b} : \A y \in {a, b} : x <= y
  OBVIOUS
<1>2. Min({a, b}) \in {a, b} /\ \A y \in {a, b} : Min({a, b}) <= y
  BY <1>1 DEF Min
<1>3. QED
  BY <1>2

\* read_front: the sink gets what stands next in the buffer, and it is gone there.
LEMMA ReadsFront ==
    ASSUME NEW p, ParserOK(p), NEW n \in Nat
    PROVE  /\ ReadFront(p, n) \in Seq(Nat)
           /\ Len(ReadFront(p, n)) <= n
           /\ Len(ReadFront(p, n)) = n \/ Len(ReadFront(p, n)) = Buffered(p)
           /\ \A i \in DOMAIN ReadFront(p, n) : ReadFront(p, n)[i] = p.at + i
           /\ ParserOK(read_front(p, n))
           /\ read_front(p, n).at = p.at + Len(ReadFront(p, n))
           /\ read_front(p, n).end = p.end /\ read_front(p, n).length = p.length
           /\ read_front(p, n).refused = p.refused
<1> DEFINE k == Min({n, Buffered(p)})
           f == ReadFront(p, n)
           q == read_front(p, n)
<1>1. /\ p.at \in Nat /\ p.end \in Nat /\ p.at <= p.end /\ p.end <= Len(input)
      /\ DOMAIN p = ParserFields /\ Buffered(p) = p.end - p.at /\ Buffered(p) \in Nat
  BY DEF ParserOK, Buffered
<1>2. k \in Nat /\ k <= n /\ k <= Buffered(p) /\ (k = n \/ k = Buffered(p))
  <2>1. n \in Int /\ Buffered(p) \in Int
    BY <1>1
  <2>2. k \in Int /\ k <= n /\ k <= Buffered(p) /\ (k = n \/ k = Buffered(p))
    BY <2>1, MinOfTwo
  <2> HIDE DEF k
  <2>3. QED
    BY <1>1, <2>2
<1>3. f = [i \in 1 .. k |-> p.at + i] /\ q = [p EXCEPT !.at = @ + k]
  BY DEF ReadFront, read_front
<1> HIDE DEF k, f, q
<1>4. f \in Seq(Nat) /\ Len(f) = k /\ DOMAIN f = 1 .. k /\ \A i \in 1 .. k : f[i] = p.at + i
  <2>1. \A i \in 1 .. k : p.at + i \in Nat
    BY <1>1
  <2>2. f \in [1 .. k -> Nat]
    BY <1>3, <2>1
  <2>3. QED
    BY <1>2, <1>3, <2>2, LenProperties
<1>5. /\ DOMAIN q = ParserFields /\ q.at = p.at + k /\ q.end = p.end /\ q.length = p.length
      /\ q.refused = p.refused
  BY <1>1, <1>3 DEF ParserFields
<1>6. ParserOK(q)
  <2>1. q.at \in Nat /\ q.at <= q.end
    BY <1>1, <1>2, <1>5
  <2>2. QED
    BY <1>5, <2>1 DEF ParserOK
<1>7. QED
  BY <1>2, <1>4, <1>5, <1>6 DEF f, q

\* Where the header ends depends on the input only.
LEMMA SameHeader == ASSUME input' = input PROVE HeaderLength' = HeaderLength
BY DEF HeaderLength, HeaderEnds

\* header_read_handler keeps the invariant.
LEMMA HeaderStep ==
    ASSUME ReaderAssumption, IInv, NEW n \in 1 .. BufferSize, header_read_handler(n),
           UNCHANGED <<app, input, max>>
    PROVE  IInv'
<1>1. /\ cur = 0 /\ ~finished(parser) /\ conn = "reading" /\ received + n <= Len(input)
      /\ received' = received + n /\ parser' = feed(input, parser, n)
      /\ UNCHANGED <<cur, sinks, wrapper, calls, errors, app, input, max>>
  BY DEF header_read_handler, Receives
<1>2. /\ n \in Nat /\ received \in Nat /\ input \in Seq(Bytes) /\ ParserOK(parser)
      /\ ~parser.refused /\ Stands(parser) /\ parser.end = received
  BY <1>1 DEF IInv, TypeOK, Reading, ReaderAssumption
<1>3. ParserOK(parser)' /\ (parser.refused \/ Stands(parser))' /\ parser'.end = received'
  <2>1. /\ ParserOK(parser') /\ (parser'.refused \/ Stands(parser'))
        /\ parser'.end = parser.end + n
    BY <1>1, <1>2, Fed
  <2>2. ParserOK(parser)' /\ (parser.refused \/ Stands(parser))'
    BY <1>1, <2>1 DEF ParserOK, Stands, EndsHeader
  <2>3. QED
    BY <1>1, <1>2, <2>1, <2>2
<1>4. \A t \in Threads : todo[t] = <<>>
  BY <1>1 DEF IInv, Reading
<1>5. conn' = CASE parser'.refused \/ Undecodable(parser') -> "refused"
                [] ~parser'.refused /\ ~Undecodable(parser') /\ finished(parser') -> "idle"
                [] OTHER -> "reading"
  BY DEF header_read_handler
<1>6. /\ conn' \in ConnStates /\ (parser'.refused => conn' = "refused")
      /\ (conn' = "reading" => ~finished(parser')) /\ (conn' = "idle" => finished(parser'))
  BY <1>5 DEF ConnStates, Undecodable
<1>7. todo \in [Threads -> Seq(StepRecords)]
  BY DEF IInv, TypeOK
<1>8. \/ todo' = todo
      \/ conn' = "idle" /\ \E t \in Threads : todo' = [todo EXCEPT ![t] = Chain(1)]
  BY DEF header_read_handler, Threads
<1>9. /\ todo' \in [Threads -> Seq(StepRecords)]
      /\ \/ \A t \in Threads : todo'[t] = <<>>
         \/ /\ conn' = "idle" /\ finished(parser')
            /\ \E t \in Threads : todo'[t] = Chain(1) /\ \A u \in Threads \ {t} : todo'[u] = <<>>
  <2>1. CASE todo' = todo
    BY <1>4, <1>7, <2>1
  <2>2. ASSUME NEW t \in Threads, conn' = "idle", todo' = [todo EXCEPT ![t] = Chain(1)]
        PROVE  /\ todo' \in [Threads -> Seq(StepRecords)]
               /\ todo'[t] = Chain(1) /\ \A u \in Threads \ {t} : todo'[u] = <<>>
    <3>1. Chain(1) \in Seq(StepRecords)
      BY StepsAre DEF Reads
    <3>2. QED
      BY <1>4, <1>7, <2>2, <3>1
  <2>3. QED
    BY <1>6, <1>8, <2>1, <2>2
<1>10. TypeOK'
  <2>1. received' \in 0 .. Len(input)
    BY <1>1, <1>2, LenProperties
  <2>2. QED
    BY <1>1, <1>6, <1>9, <2>1 DEF IInv, TypeOK
<1>11. Reading'
  <2>1. cur' = 0 /\ wrapper' = NewWrapper /\ calls' = <<>> /\ errors' = <<>>
        /\ \A r \in Reads : sinks'[r] = <<>>
    BY <1>1 DEF IInv, Reading
  <2>2. QED
    BY <1>3, <1>6, <1>9, <2>1 DEF Reading, finished, NewWrapper
<1>12. Body'
  BY <1>1 DEF IInv, Body
<1>13. Fullfilled'
  <2>1. ContinuedWithWholeBody'
    BY <1>1 DEF IInv, Reading, ContinuedWithWholeBody
  <2>2. QED
    BY <1>1, <2>1 DEF Fullfilled
<1>14. QED
  BY <1>3, <1>10, <1>11, <1>12, <1>13 DEF IInv

\* ReadFails keeps it.
LEMMA FailStep ==
    ASSUME IInv, ReadFails, UNCHANGED <<app, input, max>>
    PROVE  IInv'
<1>1. /\ conn = "reading" /\ todo["io"] = <<>> /\ conn' = "ended"
      /\ UNCHANGED <<parser, received, cur, sinks, wrapper, calls, errors, app, input, max>>
  BY DEF ReadFails
<1>2. HeaderLength' = HeaderLength
  BY <1>1, SameHeader
<1>3. todo \in [Threads -> Seq(StepRecords)]
  BY DEF IInv, TypeOK
<1>4. Step("fail", 0) \in StepRecords /\ <<Step("fail", 0)>> \in Seq(StepRecords)
  BY StepsAre DEF Others
<1>5. \/ cur = 0 /\ todo' = todo
      \/ cur # 0 /\ todo' = [todo EXCEPT !["io"] = <<Step("fail", 0)>>]
  BY DEF ReadFails
<1>6. /\ todo' \in [Threads -> Seq(StepRecords)]
      /\ cur = 0 => todo' = todo
      /\ \A t \in Threads : \A i \in DOMAIN todo'[t] :
             \/ i \in DOMAIN todo[t] /\ todo'[t][i] = todo[t][i]
             \/ todo'[t][i] = Step("fail", 0)
  <2>1. CASE cur = 0 /\ todo' = todo
    BY <1>3, <2>1
  <2>2. CASE cur # 0 /\ todo' = [todo EXCEPT !["io"] = <<Step("fail", 0)>>]
    <3>1. todo' \in [Threads -> Seq(StepRecords)] /\ todo'["io"] = <<Step("fail", 0)>>
          /\ todo'["user"] = todo["user"]
      BY <1>3, <1>4, <2>2 DEF Threads
    <3>2. \A i \in DOMAIN <<Step("fail", 0)>> : <<Step("fail", 0)>>[i] = Step("fail", 0)
      BY <1>4, StepsAre
    <3>3. QED
      BY <2>2, <3>1, <3>2 DEF Threads
  <2>3. QED
    BY <1>5, <2>1, <2>2
<1>7. TypeOK'
  BY <1>1, <1>6 DEF IInv, TypeOK, ConnStates
<1>8. ParserOK(parser)' /\ (parser.refused \/ Stands(parser))' = (parser.refused \/ Stands(parser))
  BY <1>1 DEF IInv, ParserOK, Stands, EndsHeader
<1>9. Reading'
  <2>1. ~parser.refused
    BY <1>1 DEF IInv, Reading
  <2>2. (parser.refused \/ Stands(parser) \/ cur # 0)'
    BY <1>1, <1>8 DEF IInv, Reading
  <2>3. CASE cur = 0
    <3>1. \A t \in Threads : todo[t] = <<>>
      BY <1>1, <2>3 DEF IInv, Reading
    <3>2. QED
      BY <1>1, <1>6, <2>1, <2>2, <2>3, <3>1 DEF IInv, Reading, NewWrapper
  <2>4. CASE cur # 0
    BY <1>1, <2>1, <2>2, <2>4 DEF Reading
  <2>5. QED
    BY <2>3, <2>4
<1>10. Body'
  BY <1>1, <1>2 DEF IInv, Body
<1>11. Telling' => Telling
  BY <1>1, <1>6 DEF Telling, Tells, Step
<1>12. Fullfilled'
  <2>1. Complete(sinks[1])' = Complete(sinks[1])
    BY <1>1 DEF Complete
  <2>2. ContinuedWithWholeBody'
    BY <1>1, <1>2 DEF IInv, Fullfilled, ContinuedWithWholeBody
  <2>3. Step("fail", 0) # Step("read", 1)
    BY DEF Step
  <2>4. cur' # 0 => \A t \in Threads : \A i \in DOMAIN todo'[t] : todo'[t][i] # Step("read", 1)
    BY <1>1, <1>6, <2>3 DEF IInv, Fullfilled
  <2>5. QED
    BY <1>1, <1>11, <2>1, <2>2, <2>4 DEF IInv, Fullfilled
<1>13. QED
  BY <1>7, <1>8, <1>9, <1>10, <1>12 DEF IInv

\* A sequence that grows by n numbers.
LEMMA Grown ==
    ASSUME NEW s \in Seq(Nat), NEW n \in Nat, NEW from \in Nat,
           NEW r, r = s \o [i \in 1 .. n |-> from + i]
    PROVE  /\ r \in Seq(Nat) /\ Len(r) = Len(s) + n /\ Len(s) \in Nat
           /\ DOMAIN r = 1 .. Len(s) + n /\ DOMAIN s = 1 .. Len(s)
           /\ \A i \in DOMAIN r : r[i] = IF i <= Len(s) THEN s[i] ELSE from + (i - Len(s))
<1> DEFINE piece == [i \in 1 .. n |-> from + i]
<1>1. piece \in Seq(Nat) /\ Len(piece) = n /\ \A i \in 1 .. n : piece[i] = from + i
  <2>1. piece \in [1 .. n -> Nat]
    OBVIOUS
  <2>2. QED
    BY <2>1, LenProperties
<1>2. r = s \o piece
  OBVIOUS
<1> HIDE DEF piece
<1>3. /\ r \in Seq(Nat) /\ Len(r) = Len(s) + Len(piece)
      /\ \A i \in 1 .. Len(s) + Len(piece) :
             r[i] = IF i <= Len(s) THEN s[i] ELSE piece[i - Len(s)]
  BY <1>1, <1>2, ConcatProperties
<1>4. Len(s) \in Nat /\ DOMAIN s = 1 .. Len(s) /\ DOMAIN r = 1 .. Len(s) + n
  BY <1>1, <1>3, LenProperties
<1>5. ASSUME NEW i \in 1 .. Len(s) + n, ~(i <= Len(s)) PROVE i - Len(s) \in 1 .. n
  BY <1>4, <1>5
<1>6. QED
  BY <1>1, <1>3, <1>4, <1>5

\* body_read_handler keeps the invariant.
LEMMA BodyStep ==
    ASSUME ReaderAssumption, IInv, NEW n \in 1 .. BufferSize, body_read_handler(n),
           UNCHANGED <<app, input, max>>
    PROVE  IInv'
<1> DEFINE limited == max # 0 /\ max - Written <= 0
           grown == sinks[cur] \o [i \in 1 .. n |-> received + i]
           done == limited \/ Written + n >= parser.length
<1>1. /\ cur # 0 /\ conn = "reading" /\ todo["io"] = <<>> /\ received + n <= Len(input)
      /\ received' = received + n
      /\ UNCHANGED <<parser, cur, wrapper, calls, errors, app, input, max>>
  BY DEF body_read_handler, Receives
<1>2. /\ sinks' = IF limited THEN sinks ELSE [sinks EXCEPT ![cur] = grown]
      /\ \/ done /\ conn' = "idle" /\ todo' = [todo EXCEPT !["io"] = <<Step("fullfill", 0)>>]
         \/ ~done /\ conn' = conn /\ todo' = todo
  BY DEF body_read_handler
<1>3. /\ n \in Nat /\ n >= 1 /\ n <= BufferSize /\ BufferSize \in Nat /\ received \in Nat
      /\ max \in Nat /\ parser.length \in Int /\ cur \in Reads /\ ~parser.refused
      /\ sinks \in [Reads -> Seq(Nat)] /\ todo \in [Threads -> Seq(StepRecords)]
      /\ HeaderLength \in Nat
  BY SMTT(30), <1>1 DEF IInv, TypeOK, Reading, ReaderAssumption, ParserOK, Reads, Body
<1>4. HeaderLength' = HeaderLength
  BY <1>1, SameHeader
<1>5. /\ grown \in Seq(Nat) /\ Len(grown) = Written + n /\ Written \in Nat
      /\ DOMAIN grown = 1 .. Written + n /\ DOMAIN sinks[cur] = 1 .. Written
      /\ \A i \in DOMAIN grown :
             grown[i] = IF i <= Written THEN sinks[cur][i] ELSE received + (i - Written)
  <2>1. sinks[cur] \in Seq(Nat)
    BY <1>3
  <2>2. QED
    BY <1>3, <2>1, Grown DEF Written
<1> HIDE DEF grown
<1>6. /\ <<Step("fullfill", 0)>> \in Seq(StepRecords)
      /\ \A i \in DOMAIN <<Step("fullfill", 0)>> :
             <<Step("fullfill", 0)>>[i] = Step("fullfill", 0)
      /\ Step("fullfill", 0) # Step("read", 1)
  <2>1. Step("fullfill", 0) \in StepRecords
    BY StepsAre DEF Others
  <2>2. Step("fullfill", 0) # Step("read", 1)
    BY DEF Step
  <2>3. QED
    BY <2>1, <2>2, StepsAre
<1>7. /\ todo' \in [Threads -> Seq(StepRecords)]
      /\ \A t \in Threads : \A i \in DOMAIN todo'[t] : todo'[t][i] # Step("read", 1)
  <2>1. \A t \in Threads : \A i \in DOMAIN todo[t] : todo[t][i] # Step("read", 1)
    BY <1>1 DEF IInv, Fullfilled
  <2>2. CASE todo' = todo
    BY <1>3, <2>1, <2>2
  <2>3. CASE todo' = [todo EXCEPT !["io"] = <<Step("fullfill", 0)>>]
    <3>1. /\ todo' \in [Threads -> Seq(StepRecords)] /\ todo'["io"] = <<Step("fullfill", 0)>>
          /\ todo'["user"] = todo["user"]
      BY <1>3, <1>6, <2>3 DEF Threads
    <3>2. QED
      BY <1>6, <2>1, <3>1 DEF Threads
  <2>4. QED
    BY <1>2, <2>2, <2>3
<1>8. /\ sinks' \in [Reads -> Seq(Nat)]
      /\ \A r \in Reads \ {cur} : sinks'[r] = sinks[r]
      /\ sinks'[cur] = IF limited THEN sinks[cur] ELSE grown
  <2>1. CASE limited
    BY <1>2, <1>3, <2>1
  <2>2. CASE ~limited
    BY <1>2, <1>3, <1>5, <2>2
  <2>3. QED
    BY <2>1, <2>2
<1>9. TypeOK'
  <2>1. received' \in 0 .. Len(input)
    BY <1>1, <1>3, LenProperties DEF IInv, TypeOK
  <2>2. conn' \in ConnStates
    BY <1>1, <1>2 DEF ConnStates
  <2>3. QED
    BY <1>1, <1>7, <1>8, <2>1, <2>2 DEF IInv, TypeOK
<1>10. ParserOK(parser)'
  BY <1>1 DEF IInv, ParserOK
<1>11. Reading'
  BY <1>1, <1>3 DEF Reading
<1>12. Body'
  <2>1. CASE cur = 1
    <3>1. /\ HeaderLength + Written = received /\ (max # 0 => Written < max + BufferSize)
          /\ \A i \in DOMAIN sinks[1] : sinks[1][i] = HeaderLength + i
      BY <1>1, <2>1 DEF IInv, Body, Written
    <3>2. ASSUME ~limited
          PROVE  /\ \A i \in DOMAIN grown : grown[i] = HeaderLength + i
                 /\ max # 0 => Len(grown) < max + BufferSize
                 /\ HeaderLength + Len(grown) = received'
      <4>1. HeaderLength + Len(grown) = received'
        BY <1>1, <1>3, <1>5, <3>1
      <4>2. ASSUME max # 0 PROVE Len(grown) < max + BufferSize
        <5>1. Written < max
          BY <1>3, <1>5, <3>2, <4>2
        <5>2. QED
          BY <1>3, <1>5, <5>1
      <4>3. ASSUME NEW i \in DOMAIN grown PROVE grown[i] = HeaderLength + i
        <5>1. i \in 1 .. Written + n
          BY <1>5
        <5>2. CASE i <= Written
          <6>1. i \in DOMAIN sinks[1] /\ grown[i] = sinks[1][i]
            BY <1>3, <1>5, <2>1, <5>1, <5>2
          <6>2. QED
            BY <3>1, <6>1
        <5>3. CASE ~(i <= Written)
          <6>1. grown[i] = received + (i - Written)
            BY <1>5, <5>3
          <6>2. Written \in Nat /\ received \in Nat /\ HeaderLength \in Nat /\ i \in Nat
            BY <1>3, <1>5, <5>1
          <6>3. received + (i - Written) = HeaderLength + i
            BY <3>1, <6>2
          <6>4. QED
            BY <6>1, <6>3, Zenon
        <5>4. QED
          BY <5>2, <5>3
      <4>4. QED
        BY <4>1, <4>2, <4>3
    <3>3. CASE limited
      <4>1. sinks'[1] = sinks[1] /\ conn' # "reading"
        BY <1>2, <1>8, <2>1, <3>3
      <4>2. QED
        BY <1>1, <1>4, <4>1 DEF IInv, Body
    <3>4. CASE ~limited
      <4>1. sinks'[1] = grown
        BY <1>8, <2>1, <3>4
      <4>2. QED
        BY <1>1, <1>3, <1>4, <3>2, <3>4, <4>1 DEF Body
    <3>5. QED
      BY <3>3, <3>4
  <2>2. CASE cur # 1
    <3>1. sinks'[1] = sinks[1]
      BY <1>8, <2>2 DEF Reads
    <3>2. QED
      BY <1>1, <1>4, <2>2, <3>1 DEF IInv, Body
  <2>3. QED
    BY <2>1, <2>2
<1>13. Fullfilled'
  <2>1. ContinuedWithWholeBody'
    BY ZenonT(40), <1>1, <1>4 DEF IInv, Fullfilled, ContinuedWithWholeBody
  <2>2. CASE cur = 1
    <3>1. ~Telling
      BY <1>1, <2>2 DEF IInv, Fullfilled
    <3>2. CASE done
      <4>1. Complete(sinks[1])'
        <5>1. Len(sinks'[1]) = IF limited THEN Written ELSE Written + n
          BY <1>5, <1>8, <2>2 DEF Written
        <5>2. /\ Min({max, parser.length}) <= max /\ Min({max, parser.length}) <= parser.length
              /\ Min({max, parser.length}) \in Int
          <6>1. max \in Int /\ parser.length \in Int
            BY <1>3
          <6>2. QED
            BY <6>1, MinOfTwo
        <5>3. CASE limited
          <6>1. Len(sinks'[1]) >= Min({max, parser.length}) /\ max # 0
            BY <1>3, <1>5, <5>1, <5>2, <5>3
          <6>2. QED
            BY <1>1, <6>1 DEF Complete
        <5>4. CASE ~limited
          <6>1. Len(sinks'[1]) >= parser.length /\ Len(sinks'[1]) \in Nat
            BY <1>3, <1>5, <3>2, <5>1, <5>4
          <6>2. Len(sinks'[1]) >= Min({max, parser.length})
            BY <1>3, <5>2, <6>1
          <6>3. QED
            BY <1>1, <6>1, <6>2 DEF Complete
        <5>5. QED
          BY <5>3, <5>4
      <4>2. conn' # "reading"
        BY <1>2, <3>2
      <4>3. QED
        BY <1>7, <2>1, <4>1, <4>2 DEF Fullfilled
    <3>3. CASE ~done
      <4>1. todo' = todo /\ ~Telling'
        BY <1>1, <1>2, <3>1, <3>3 DEF Telling
      <4>2. QED
        BY <1>7, <2>1, <4>1 DEF Fullfilled
    <3>4. QED
      BY <3>2, <3>3
  <2>3. CASE cur # 1
    <3>1. cur = 2 /\ Telling /\ sinks'[1] = sinks[1]
      BY <1>3, <1>8, <2>3 DEF Reads, Telling
    <3>2. Complete(sinks[1])
      BY <1>1, <3>1 DEF IInv, Fullfilled
    <3>3. Complete(sinks[1])'
      BY <1>1, <3>1, <3>2 DEF Complete
    <3>4. QED
      BY <1>1, <1>7, <2>1, <2>3, <3>3 DEF Fullfilled
  <2>4. QED
    BY <2>2, <2>3
<1>14. QED
  BY <1>9, <1>10, <1>11, <1>12, <1>13 DEF IInv

\* What the first read_body takes from the buffer, if there is something.
LEMMA FromBuffer ==
    ASSUME ReaderAssumption, ParserOK(parser), max \in Nat, Buffered(parser) > 0
    PROVE  /\ FromHeader \in Nat /\ Len(ReadFront(parser, FromHeader)) = FromHeader
           /\ max # 0 => FromHeader <= max
           /\ parser.length # NoLength /\ ~NeedsMore(FromHeader) => FromHeader >= parser.length
                  \/ (max # 0 /\ FromHeader >= max)
           /\ FromHeader < Buffered(parser) => max # 0 /\ FromHeader = max
<1> DEFINE b == Buffered(parser)
<1>1. b \in Nat /\ b \in Int /\ max \in Int /\ parser.length \in Int /\ parser.length < SizeModulus
      /\ SizeModulus \in Nat \ {0}
  BY DEF ParserOK, Buffered, ReaderAssumption
<1>2. /\ FromHeader \in Nat /\ FromHeader <= b
      /\ max = 0 => FromHeader = b
      /\ max # 0 => FromHeader <= max /\ (FromHeader = max \/ FromHeader = b)
  <2>1. CASE max = 0
    <3>1. FromHeader = b
      BY <2>1 DEF FromHeader
    <3>2. QED
      BY <1>1, <2>1, <3>1
  <2>2. CASE max # 0
    <3>1. FromHeader = Min({max, b})
      BY <2>2 DEF FromHeader
    <3>2. Min({max, b}) <= max /\ Min({max, b}) <= b /\ (Min({max, b}) = max \/ Min({max, b}) = b)
      BY <1>1, MinOfTwo
    <3> HIDE DEF b
    <3>3. QED
      BY <1>1, <2>2, <3>1, <3>2
  <2>3. QED
    BY <2>1, <2>2
<1>3. Len(ReadFront(parser, FromHeader)) = FromHeader
  <2>1. /\ Len(ReadFront(parser, FromHeader)) <= FromHeader
        /\ \/ Len(ReadFront(parser, FromHeader)) = FromHeader
           \/ Len(ReadFront(parser, FromHeader)) = b
    BY <1>2, ReadsFront
  <2> HIDE DEF b
  <2>2. QED
    BY <1>1, <1>2, <2>1
<1>4. ASSUME ~NeedsMore(FromHeader)
      PROVE  FromHeader >= parser.length \/ (max # 0 /\ FromHeader >= max)
  <2>1. SUFFICES ASSUME FromHeader < parser.length PROVE max # 0 /\ FromHeader >= max
    BY <1>1, <1>2
  <2>2. parser.length - FromHeader \in 1 .. SizeModulus - 1
    BY <1>1, <1>2, <2>1
  <2>3. Minus(parser.length, FromHeader) = parser.length - FromHeader
    BY <1>1, <2>2 DEF Minus
  <2>4. ~(max = 0 \/ FromHeader < max)
    BY <1>4, <2>2, <2>3 DEF NeedsMore
  <2>5. QED
    BY <1>2, <2>4
<1> HIDE DEF b
<1>5. QED
  BY <1>1, <1>2, <1>3, <1>4 DEF b

\* read_body by cases: the three ways on, and what the sink has then.
LEMMA ReadBodyCases ==
    ASSUME ReaderAssumption, TypeOK, ParserOK(parser), NEW t \in Threads, read_body(t),
           Mine(t) \in Reads, Mine(t) = 1 => sinks[1] = <<>>
    PROVE  \E p \in Seq(StepRecords) :
              /\ Go(t, p) /\ cur' = Mine(t)
              /\ p \in {<<>>, <<Step("fullfill", 0)>>, <<Step("fail", 0)>>}
              /\ UNCHANGED <<received, wrapper, calls, errors>>
              /\ conn' \in ConnStates
              /\ ParserOK(parser') /\ parser'.length = parser.length
              /\ parser'.refused = parser.refused /\ parser'.end = parser.end
              /\ sinks' \in [Reads -> Seq(Nat)]
              /\ \A r \in Reads \ {cur'} : sinks'[r] = sinks[r]
              /\ cur' = 1 =>
                     /\ parser'.at = parser.at + Len(sinks'[1])
                     /\ \A i \in DOMAIN sinks'[1] : sinks'[1][i] = parser.at + i
                     /\ max # 0 => Len(sinks'[1]) <= max
                     /\ p = <<Step("fullfill", 0)>> => Complete(sinks'[1])
              /\ p = <<Step("fullfill", 0)>> => conn' = conn
              /\ conn' = "reading" =>
                     \/ p # <<>> /\ conn = "reading"
                     \/ p = <<>> /\ parser'.at = parser'.end
<1> DEFINE r == Mine(t)
           ful == <<Step("fullfill", 0)>>
           fail == <<Step("fail", 0)>>
<1>1. /\ ful \in Seq(StepRecords) /\ fail \in Seq(StepRecords) /\ <<>> \in Seq(StepRecords)
      /\ ful # <<>> /\ fail # <<>> /\ ful # fail
  <2>1. Step("fullfill", 0) \in StepRecords /\ Step("fail", 0) \in StepRecords
    BY StepsAre DEF Others
  <2>2. Step("fullfill", 0) # Step("fail", 0)
    BY DEF Step
  <2>3. QED
    BY <2>1, <2>2
<1>2. /\ sinks \in [Reads -> Seq(Nat)] /\ max \in Nat /\ conn \in ConnStates
      /\ parser.at \in Nat /\ parser.end \in Nat /\ parser.at <= parser.end
      /\ parser.length \in Int
      /\ r = 1 => Len(sinks[r]) = 0 /\ DOMAIN sinks[r] = {}
      /\ Buffered(parser) = parser.end - parser.at
  BY EmptySeq DEF TypeOK, ParserOK, Buffered
<1>3. cur' = r /\ UNCHANGED <<received, wrapper, calls, errors>>
  BY DEF read_body
<1>4. \/ /\ parser.length = NoLength
         /\ Go(t, fail) /\ conn' = "refused" /\ parser' = parser /\ sinks' = sinks
      \/ /\ parser.length # NoLength /\ Buffered(parser) > 0
         /\ sinks' = [sinks EXCEPT ![r] = ReadFront(parser, FromHeader)]
         /\ parser' = read_front(parser, FromHeader)
         /\ \/ Buffered(parser') = 0 /\ conn' = "reading" /\ Go(t, <<>>)
            \/ /\ ~(Buffered(parser') = 0 /\ NeedsMore(FromHeader))
               /\ conn' = conn /\ Go(t, ful)
      \/ /\ ~(Buffered(parser) > 0) /\ parser' = parser /\ sinks' = sinks
         /\ \/ parser.length <= 0 /\ conn' = conn /\ Go(t, ful)
            \/ conn' = "reading" /\ Go(t, <<>>)
  BY DEF read_body
<1> HIDE DEF r, ful, fail
<1>5. CASE /\ parser.length = NoLength
           /\ Go(t, fail) /\ conn' = "refused" /\ parser' = parser /\ sinks' = sinks
  <2>1. conn' \in ConnStates /\ conn' # "reading"
    BY <1>5 DEF ConnStates
  <2>2. ParserOK(parser')
    BY <1>5
  <2>3. ASSUME cur' = 1
        PROVE  /\ parser'.at = parser.at + Len(sinks'[1]) /\ (max # 0 => Len(sinks'[1]) <= max)
               /\ \A i \in DOMAIN sinks'[1] : sinks'[1][i] = parser.at + i
    BY <1>2, <1>3, <1>5, <2>3
  <2>4. QED
    BY <1>1, <1>2, <1>3, <1>5, <2>1, <2>2, <2>3 DEF r, ful, fail
<1>6. CASE /\ parser.length # NoLength /\ Buffered(parser) > 0
           /\ sinks' = [sinks EXCEPT ![r] = ReadFront(parser, FromHeader)]
           /\ parser' = read_front(parser, FromHeader)
           /\ \/ Buffered(parser') = 0 /\ conn' = "reading" /\ Go(t, <<>>)
              \/ /\ ~(Buffered(parser') = 0 /\ NeedsMore(FromHeader))
                 /\ conn' = conn /\ Go(t, ful)
  <2> DEFINE f == ReadFront(parser, FromHeader)
  <2>1. /\ FromHeader \in Nat /\ Len(f) = FromHeader
        /\ max # 0 => FromHeader <= max
        /\ ~NeedsMore(FromHeader) => FromHeader >= parser.length \/ (max # 0 /\ FromHeader >= max)
        /\ FromHeader < Buffered(parser) => max # 0 /\ FromHeader = max
    BY <1>2, <1>6, FromBuffer
  <2>2. /\ f \in Seq(Nat) /\ \A i \in DOMAIN f : f[i] = parser.at + i
        /\ ParserOK(parser') /\ parser'.at = parser.at + Len(f)
        /\ parser'.end = parser.end /\ parser'.length = parser.length
        /\ parser'.refused = parser.refused
    BY <1>6, <2>1, ReadsFront
  <2>3. Buffered(parser') = parser'.end - parser'.at
    BY DEF Buffered
  <2> HIDE DEF f
  <2>4. sinks' \in [Reads -> Seq(Nat)] /\ sinks'[r] = f /\ \A q \in Reads \ {r} : sinks'[q] = sinks[q]
    BY <1>2, <1>6, <2>2 DEF r, f
  <2>5. /\ Buffered(parser') = 0 => parser'.at = parser'.end
        /\ Buffered(parser') # 0 => FromHeader < Buffered(parser)
    <3>1. parser'.at = parser.at + FromHeader /\ parser'.end = parser.end
      BY <2>1, <2>2
    <3>2. parser'.at \in Int /\ Buffered(parser') = parser.end - parser'.at
          /\ Buffered(parser) = parser.end - parser.at /\ FromHeader \in Nat
          /\ parser.at + FromHeader <= parser.end
      <4>1. parser'.at <= parser'.end /\ parser'.at \in Nat
        BY <2>2 DEF ParserOK
      <4>2. QED
        BY <1>2, <2>1, <2>3, <3>1, <4>1
    <3>3. PICK a \in Int, e \in Int, h \in Int, b \in Int, c \in Int :
              /\ a = parser.at /\ e = parser.end /\ h = FromHeader /\ b = Buffered(parser)
              /\ c = Buffered(parser')
              /\ b = e - a /\ c = e - (a + h) /\ a + h <= e /\ parser'.at = a + h
              /\ parser'.end = e
      BY <1>2, <3>1, <3>2
    <3>4. (c = 0 => a + h = e) /\ (c # 0 => h < b)
      BY <3>3
    <3>5. QED
      BY <3>3, <3>4
  <2>6. ASSUME ~(Buffered(parser') = 0 /\ NeedsMore(FromHeader))
        PROVE  Complete(f)
    <3>1. Len(f) >= parser.length \/ (max # 0 /\ Len(f) >= max)
      <4>1. CASE NeedsMore(FromHeader)
        BY <1>2, <2>1, <2>5, <2>6, <4>1
      <4>2. CASE ~NeedsMore(FromHeader)
        BY <2>1, <4>2
      <4>3. QED
        BY <4>1, <4>2
    <3>2. /\ Min({max, parser.length}) <= max /\ Min({max, parser.length}) <= parser.length
          /\ Min({max, parser.length}) \in Int
      <4>1. max \in Int /\ parser.length \in Int
        BY <1>2
      <4>2. QED
        BY <4>1, MinOfTwo
    <3>3. PICK m \in Int : m = Min({max, parser.length})
      BY <3>2
    <3>4. m <= max /\ m <= parser.length
      BY <3>2, <3>3
    <3>5. CASE max = 0
      BY <1>2, <2>1, <3>1, <3>5 DEF Complete
    <3>6. CASE max # 0
      <4>1. Len(f) >= m
        BY <1>2, <2>1, <3>1, <3>4
      <4>2. QED
        BY <3>3, <3>6, <4>1 DEF Complete
    <3>7. QED
      BY <3>5, <3>6
  <2>7. CASE Buffered(parser') = 0 /\ conn' = "reading" /\ Go(t, <<>>)
    BY <1>1, <1>3, <2>1, <2>2, <2>4, <2>5, <2>7 DEF r, ful, ConnStates
  <2>8. CASE /\ ~(Buffered(parser') = 0 /\ NeedsMore(FromHeader))
             /\ conn' = conn /\ Go(t, ful)
    BY <1>1, <1>2, <1>3, <2>1, <2>2, <2>4, <2>6, <2>8 DEF r, ful
  <2>9. QED
    BY <1>6, <2>7, <2>8
<1>7. CASE /\ ~(Buffered(parser) > 0) /\ parser' = parser /\ sinks' = sinks
           /\ \/ parser.length <= 0 /\ conn' = conn /\ Go(t, ful)
              \/ conn' = "reading" /\ Go(t, <<>>)
  <2>1. parser.at = parser.end /\ ParserOK(parser')
    BY <1>2, <1>7
  <2>2. ASSUME cur' = 1
        PROVE  /\ parser'.at = parser.at + Len(sinks'[1]) /\ (max # 0 => Len(sinks'[1]) <= max)
               /\ \A i \in DOMAIN sinks'[1] : sinks'[1][i] = parser.at + i
    BY <1>2, <1>3, <1>7, <2>2
  <2>3. ASSUME parser.length <= 0, cur' = 1 PROVE Complete(sinks'[1])
    <3>1. Min({max, parser.length}) <= parser.length /\ Min({max, parser.length}) \in Int
      <4>1. max \in Int /\ parser.length \in Int
        BY <1>2
      <4>2. QED
        BY <4>1, MinOfTwo
    <3>2. Len(sinks'[1]) = 0
      BY <1>2, <1>3, <1>7, <2>3
    <3>3. CASE max = 0
      BY <2>3, <3>2, <3>3 DEF Complete
    <3>4. CASE max # 0
      <4>1. PICK m \in Int, l \in Int : m = Min({max, parser.length}) /\ l = parser.length
        BY <1>2, <3>1
      <4>2. m <= 0
        BY <2>3, <3>1, <4>1
      <4>3. QED
        BY <3>2, <3>4, <4>1, <4>2 DEF Complete
    <3>5. QED
      BY <3>3, <3>4
  <2>4. CASE parser.length <= 0 /\ conn' = conn /\ Go(t, ful)
    BY <1>1, <1>2, <1>3, <1>7, <2>1, <2>2, <2>3, <2>4 DEF r, ful
  <2>5. CASE conn' = "reading" /\ Go(t, <<>>)
    BY <1>1, <1>2, <1>3, <1>7, <2>1, <2>2, <2>5 DEF r, ful, ConnStates
  <2>6. QED
    BY <1>7, <2>4, <2>5
<1>8. QED
  BY <1>4, <1>5, <1>6, <1>7

\* read_body keeps the invariant.
LEMMA ReadBodyStep ==
    ASSUME ReaderAssumption, IInv, NEW t \in Threads, read_body(t), UNCHANGED <<app, input, max>>
    PROVE  IInv'
<1> DEFINE r == Mine(t)
<1>1. /\ todo[t] # <<>> /\ Head(todo[t]) = Step("read", r) /\ r \in Reads
      /\ Head(todo[t]) = todo[t][1] /\ 1 \in DOMAIN todo[t]
  BY NextStep DEF read_body, IInv, Mines
<1> HIDE DEF r
<1>2. /\ TypeOK /\ ParserOK(parser) /\ Reading /\ Body /\ Fullfilled
      /\ app' = app /\ input' = input /\ max' = max
  BY DEF IInv
<1>3. CASE cur = 0
  <2>1. /\ todo[t] = Chain(1) /\ Head(todo[t]) = Step("read", 1) /\ conn = "idle"
        /\ finished(parser) /\ ~parser.refused /\ Stands(parser)
        /\ \A u \in Threads : u # t => todo[u] = <<>>
    BY <1>1, <1>2, <1>3, FirstStep
  <2>2. r = 1
    BY <1>1, <2>1 DEF Step
  <2>3. /\ parser.end = received /\ wrapper = NewWrapper /\ calls = <<>> /\ errors = <<>>
        /\ sinks[1] = <<>>
    BY <1>2, <1>3 DEF Reading, Reads
  <2>4. HeaderLength = parser.at /\ parser.at \in Nat
    <3>1. EndsHeader(parser.at) /\ \A i \in 1 .. parser.at - 1 : ~EndsHeader(i)
      BY <2>1 DEF Stands, finished
    <3>2. parser.at \in Nat
      BY <1>2 DEF ParserOK
    <3>3. QED
      BY <3>1, <3>2, HeaderEndsThere
  <2>5. PICK p \in Seq(StepRecords) :
              /\ Go(t, p) /\ cur' = Mine(t)
              /\ p \in {<<>>, <<Step("fullfill", 0)>>, <<Step("fail", 0)>>}
              /\ UNCHANGED <<received, wrapper, calls, errors>>
              /\ conn' \in ConnStates
              /\ ParserOK(parser') /\ parser'.length = parser.length
              /\ parser'.refused = parser.refused /\ parser'.end = parser.end
              /\ sinks' \in [Reads -> Seq(Nat)]
              /\ cur' = 1 =>
                     /\ parser'.at = parser.at + Len(sinks'[1])
                     /\ \A i \in DOMAIN sinks'[1] : sinks'[1][i] = parser.at + i
                     /\ max # 0 => Len(sinks'[1]) <= max
                     /\ p = <<Step("fullfill", 0)>> => Complete(sinks'[1])
              /\ p = <<Step("fullfill", 0)>> => conn' = conn
              /\ conn' = "reading" =>
                     \/ p # <<>> /\ conn = "reading"
                     \/ p = <<>> /\ parser'.at = parser'.end
    BY <1>1, <1>2, <2>3, ReadBodyCases DEF r
  <2>6. cur' = 1
    BY <2>2, <2>5 DEF r
  <2>7. /\ todo' \in [Threads -> Seq(StepRecords)]
        /\ \A u \in Threads : \A i \in DOMAIN todo'[u] :
               \/ todo'[u][i] \in {Step("then", 1), Step("except", 1)}
               \/ \E j \in DOMAIN p : todo'[u][i] = p[j]
    <3>1. /\ todo' \in [Threads -> Seq(StepRecords)]
          /\ \A u \in Threads : u # t => todo'[u] = todo[u]
          /\ \A u \in Threads : \A i \in DOMAIN todo'[u] :
                 \/ \E j \in DOMAIN todo[u] : (u = t => j # 1) /\ todo'[u][i] = todo[u][j]
                 \/ u = t /\ \E j \in DOMAIN p : todo'[u][i] = p[j]
      BY <1>1, <1>2, <2>5, Goes
    <3>2. \A j \in DOMAIN Chain(1) : j # 1 => Chain(1)[j] \in {Step("then", 1), Step("except", 1)}
      BY StepsAre DEF Reads
    <3>3. \A u \in Threads : u # t => DOMAIN todo[u] = {}
      BY <2>1, StepsAre
    <3>4. QED
      BY <2>1, <3>1, <3>2, <3>3
  <2>8. \A s \in {Step("then", 1), Step("except", 1), Step("fail", 0), Step("fullfill", 0)} :
            s # Step("read", 1) /\ (Tells(s) => s = Step("fullfill", 0))
    BY DEF Step, Tells
  <2>9. /\ p = <<>> => DOMAIN p = {}
        /\ \A j \in DOMAIN p : \/ p[j] = Step("fail", 0)
                               \/ p[j] = Step("fullfill", 0) /\ p = <<Step("fullfill", 0)>>
    <3>1. Step("fullfill", 0) \in StepRecords /\ Step("fail", 0) \in StepRecords
      BY StepsAre DEF Others
    <3>2. QED
      BY <2>5, <3>1, StepsAre
  <2>10. TypeOK'
    BY <1>2, <2>5, <2>6, <2>7 DEF TypeOK
  <2>11. ParserOK(parser)'
    BY <1>2, <2>5 DEF ParserOK
  <2>12. Reading'
    BY <2>1, <2>5, <2>6 DEF Reading
  <2>13. HeaderLength' = HeaderLength
    BY <1>2, SameHeader
  <2>14. Body'
    <3>1. conn' = "reading" => HeaderLength + Len(sinks'[1]) = received'
      BY <2>1, <2>3, <2>4, <2>5, <2>6
    <3>2. max' # 0 => Len(sinks'[1]) < max' + BufferSize
      <4>1. max \in Nat /\ BufferSize \in Nat \ {0} /\ Len(sinks'[1]) \in Nat
        BY <1>2, <2>5, LenProperties DEF TypeOK, ReaderAssumption, Reads
      <4>2. QED
        BY <1>2, <2>5, <2>6, <4>1
    <3>3. QED
      BY <2>4, <2>5, <2>6, <2>13, <3>1, <3>2 DEF Body
  <2>15. Telling' => p = <<Step("fullfill", 0)>>
    <3>1. ~wrapper'.fullfilled /\ cur' # 2
      BY <2>3, <2>5, <2>6 DEF NewWrapper
    <3>2. ASSUME NEW u \in Threads, NEW i \in DOMAIN todo'[u], Tells(todo'[u][i])
          PROVE  p = <<Step("fullfill", 0)>>
      <4>1. CASE todo'[u][i] \in {Step("then", 1), Step("except", 1)}
        BY <3>2, <4>1 DEF Tells, Step
      <4>2. ASSUME NEW j \in DOMAIN p, todo'[u][i] = p[j] PROVE p = <<Step("fullfill", 0)>>
        BY <2>9, <3>2, <4>2 DEF Tells, Step
      <4>3. QED
        BY <2>7, <4>1, <4>2
    <3>3. QED
      BY <3>1, <3>2 DEF Telling
  <2>16. Fullfilled'
    <3>1. Complete(sinks[1])' = Complete(sinks'[1])
      BY <1>2, <2>5 DEF Complete
    <3>2. ContinuedWithWholeBody'
      BY <2>3, <2>5 DEF ContinuedWithWholeBody
    <3>3. \A u \in Threads : \A i \in DOMAIN todo'[u] : todo'[u][i] # Step("read", 1)
      BY <2>7, <2>8, <2>9
    <3>4. Telling' => Complete(sinks'[1]) /\ conn' = "idle"
      BY <2>1, <2>5, <2>6, <2>15
    <3>5. QED
      BY <2>6, <3>1, <3>2, <3>3, <3>4 DEF Fullfilled
  <2>17. QED
    BY <2>10, <2>11, <2>12, <2>14, <2>16 DEF IInv
<1>4. CASE cur # 0
  <2>1. r = 2 /\ Telling /\ Complete(sinks[1])
    <3>1. Step("read", r) # Step("read", 1)
      BY <1>1, <1>2, <1>4 DEF Fullfilled
    <3>2. r = 2
      BY <1>1, <3>1 DEF Reads
    <3>3. Tells(todo[t][1])
      BY <1>1, <3>2 DEF Tells
    <3>4. QED
      BY <1>1, <1>2, <1>4, <3>2, <3>3 DEF Telling, Fullfilled
  <2>2. PICK p \in Seq(StepRecords) :
              /\ Go(t, p) /\ cur' = Mine(t)
              /\ p \in {<<>>, <<Step("fullfill", 0)>>, <<Step("fail", 0)>>}
              /\ UNCHANGED <<received, wrapper, calls, errors>>
              /\ conn' \in ConnStates
              /\ ParserOK(parser') /\ parser'.length = parser.length
              /\ parser'.refused = parser.refused /\ parser'.end = parser.end
              /\ sinks' \in [Reads -> Seq(Nat)]
              /\ \A q \in Reads \ {cur'} : sinks'[q] = sinks[q]
    BY <1>1, <1>2, <2>1, ReadBodyCases DEF r
  <2>3. cur' = 2 /\ sinks'[1] = sinks[1] /\ ~parser'.refused
    BY <1>2, <1>4, <2>1, <2>2 DEF r, Reads, Reading
  <2>4. /\ todo' \in [Threads -> Seq(StepRecords)]
        /\ \A u \in Threads : \A i \in DOMAIN todo'[u] :
               \/ \E j \in DOMAIN todo[u] : todo'[u][i] = todo[u][j]
               \/ \E j \in DOMAIN p : todo'[u][i] = p[j]
    <3>1. Go(t, p) /\ todo[t] # <<>> /\ TypeOK
      BY <1>1, <1>2, <2>2
    <3>2. QED
      BY <3>1, Goes
  <2>5. \A j \in DOMAIN p : p[j] \in {Step("fail", 0), Step("fullfill", 0)}
    <3>1. Step("fullfill", 0) \in StepRecords /\ Step("fail", 0) \in StepRecords
      BY StepsAre DEF Others
    <3>2. QED
      BY <2>2, <3>1, StepsAre
  <2>6. TypeOK'
    BY <1>2, <2>2, <2>3, <2>4 DEF TypeOK
  <2>7. ParserOK(parser)'
    BY <1>2, <2>2 DEF ParserOK
  <2>8. Reading'
    BY <2>3 DEF Reading
  <2>9. HeaderLength' = HeaderLength
    BY <1>2, SameHeader
  <2>10. Body'
    BY <1>2, <1>4, <2>3, <2>9 DEF Body
  <2>11. Fullfilled'
    <3>1. Complete(sinks[1])'
      BY <1>2, <2>1, <2>2, <2>3 DEF Complete
    <3>2. ContinuedWithWholeBody'
      <4>1. calls' = calls /\ parser'.length = parser.length /\ max' = max
        BY <1>2, <2>2
      <4>2. ContinuedWithWholeBody
        BY <1>2 DEF Fullfilled
      <4>3. QED
        BY ZenonT(40), <2>9, <4>1, <4>2 DEF ContinuedWithWholeBody
    <3>3. Step("fail", 0) # Step("read", 1) /\ Step("fullfill", 0) # Step("read", 1)
      BY DEF Step
    <3>4. \A u \in Threads : \A i \in DOMAIN todo'[u] : todo'[u][i] # Step("read", 1)
      BY <1>2, <1>4, <2>4, <2>5, <3>3 DEF Fullfilled
    <3>5. QED
      BY <2>3, <3>1, <3>2, <3>4 DEF Fullfilled
  <2>12. QED
    BY <2>6, <2>7, <2>8, <2>10, <2>11 DEF IInv
<1>5. QED
  BY <1>3, <1>4

-----------------------------------------------------------------------------
(* What the steps keep: the callback wrapper.                              *)

\* A step of callback_wrapper tells only what somebody had to tell before.
LEMMA WrapperStep ==
    ASSUME ReaderAssumption, IInv, NEW t \in Threads, todo[t] # <<>>, Head(todo[t]) # Step("read", 1),
           NEW p \in Seq(StepRecords), Go(t, p),
           \A j \in DOMAIN p : p[j] # Step("read", 1) /\ (Tells(p[j]) => Telling),
           UNCHANGED <<parser, received, conn, cur, sinks, app, input, max>>,
           wrapper' \in [func : 0 .. 2, fail : 0 .. 2, fullfilled : BOOLEAN, error : BOOLEAN,
                         lastEc : BOOLEAN],
           wrapper'.fullfilled => Telling,
           \/ calls' = calls
           \/ \E r \in Reads : /\ calls' = Append(calls, [read |-> r, got |-> sinks[r]])
                               /\ r = 1 => Telling,
           errors' \in Seq(0 .. 2)
    PROVE  IInv'
<1>1. /\ TypeOK /\ ParserOK(parser) /\ Reading /\ Body /\ Fullfilled
  BY DEF IInv
<1>2. cur # 0
  BY <1>1, FirstStep
<1>3. /\ todo' \in [Threads -> Seq(StepRecords)]
      /\ \A u \in Threads : \A i \in DOMAIN todo'[u] :
             \/ \E j \in DOMAIN todo[u] : todo'[u][i] = todo[u][j]
             \/ \E j \in DOMAIN p : todo'[u][i] = p[j]
  BY <1>1, Goes
<1>4. HeaderLength' = HeaderLength /\ HeaderLength \in Nat
  BY <1>1, <1>2, SameHeader DEF Body
<1>5. Telling' => Telling
  <2>1. ASSUME NEW u \in Threads, NEW i \in DOMAIN todo'[u], Tells(todo'[u][i]) PROVE Telling
    BY SMTT(30), <1>3, <2>1 DEF Telling
  <2>2. QED
    BY <2>1 DEF Telling
<1>6. calls' \in Seq([read : Reads, got : Seq(Nat)])
  <2>1. \A r \in Reads : [read |-> r, got |-> sinks[r]] \in [read : Reads, got : Seq(Nat)]
    BY <1>1 DEF TypeOK
  <2>2. calls \in Seq([read : Reads, got : Seq(Nat)])
    BY <1>1 DEF TypeOK
  <2>3. \A r \in Reads : Append(calls, [read |-> r, got |-> sinks[r]])
                             \in Seq([read : Reads, got : Seq(Nat)])
    BY <2>1, <2>2, AppendProperties
  <2>4. QED
    BY <2>2, <2>3
<1>7. TypeOK'
  BY <1>1, <1>3, <1>6 DEF TypeOK
<1>8. ParserOK(parser)' /\ Body' /\ Reading'
  <2>1. ParserOK(parser)'
    BY <1>1 DEF ParserOK
  <2>2. Body'
    BY <1>1, <1>4 DEF Body
  <2>3. Reading'
    BY <1>1, <1>2 DEF Reading
  <2>4. QED
    BY <2>1, <2>2, <2>3
<1>9. ASSUME Telling
      PROVE  LET got == sinks[1]
             IN /\ got = [k \in 1 .. Len(got) |-> HeaderLength + k]
                /\ Len(got) >= IF max = 0 THEN parser.length ELSE Min({max, parser.length})
                /\ max # 0 => Len(got) < max + BufferSize
  <2>1. sinks[1] \in Seq(Nat) /\ \A i \in DOMAIN sinks[1] : sinks[1][i] = HeaderLength + i
    BY <1>1, <1>2 DEF TypeOK, Body, Reads
  <2>2. sinks[1] = [k \in 1 .. Len(sinks[1]) |-> sinks[1][k]] /\ DOMAIN sinks[1] = 1 .. Len(sinks[1])
    BY <2>1, LenProperties
  <2>3. sinks[1] = [k \in 1 .. Len(sinks[1]) |-> HeaderLength + k]
    BY <2>1, <2>2
  <2>4. QED
    BY <1>1, <1>2, <1>9, <2>3 DEF Fullfilled, Complete, Body
<1>10. ContinuedWithWholeBody'
  <2>1. CASE calls' = calls
    BY ZenonT(40), <1>1, <1>4, <2>1 DEF Fullfilled, ContinuedWithWholeBody
  <2>2. ASSUME NEW r \in Reads, calls' = Append(calls, [read |-> r, got |-> sinks[r]]),
               r = 1 => Telling
        PROVE  ContinuedWithWholeBody'
    <3> DEFINE c == [read |-> r, got |-> sinks[r]]
    <3>1. c \in [read : Reads, got : Seq(Nat)] /\ c.read = r /\ c.got = sinks[r]
      BY <1>1 DEF TypeOK
    <3>2. calls \in Seq([read : Reads, got : Seq(Nat)])
      BY <1>1 DEF TypeOK
    <3>3. /\ DOMAIN calls = 1 .. Len(calls) /\ DOMAIN calls' = 1 .. Len(calls) + 1
          /\ \A i \in DOMAIN calls' : calls'[i] = IF i = Len(calls) + 1 THEN c ELSE calls[i]
          /\ Len(calls) \in Nat
      BY <2>2, <3>1, <3>2, Appended
    <3> HIDE DEF c
    <3>4. ASSUME NEW i \in DOMAIN calls', calls'[i].read = 1
          PROVE  LET got == calls'[i].got
                 IN /\ got = [k \in 1 .. Len(got) |-> HeaderLength + k]
                    /\ Len(got) >= IF max = 0 THEN parser.length ELSE Min({max, parser.length})
                    /\ max # 0 => Len(got) < max + BufferSize
      <4>1. CASE i = Len(calls) + 1
        BY <1>9, <2>2, <3>1, <3>3, <3>4, <4>1
      <4>2. CASE i # Len(calls) + 1
        <5>1. i \in DOMAIN calls /\ calls'[i] = calls[i]
          BY <3>3, <4>2
        <5>2. QED
          BY <1>1, <3>4, <5>1 DEF Fullfilled, ContinuedWithWholeBody
      <4>3. QED
        BY <4>1, <4>2
    <3>5. QED
      BY ZenonT(40), <1>4, <3>4 DEF ContinuedWithWholeBody
  <2>3. QED
    BY <2>1, <2>2
<1>11. Fullfilled'
  <2>1. Complete(sinks[1])' = Complete(sinks[1])
    BY DEF Complete
  <2>2. \A u \in Threads : \A i \in DOMAIN todo'[u] : todo'[u][i] # Step("read", 1)
    BY <1>1, <1>2, <1>3 DEF Fullfilled
  <2>3. QED
    BY <1>1, <1>5, <1>10, <2>1, <2>2 DEF Fullfilled
<1>12. QED
  BY <1>7, <1>8, <1>11 DEF IInv

\* The steps of callback_wrapper keep the invariant.
LEMMA WrapperSteps ==
    ASSUME ReaderAssumption, IInv, NEW t \in Threads, UNCHANGED <<app, input, max>>,
           \/ fullfill(t) \/ CallFunc(t) \/ then(t) \/ Store(t) \/ Run(t)
           \/ error(t) \/ SetError(t) \/ except(t) \/ StoreFail(t)
    PROVE  IInv'
<1> DEFINE r == Mine(t)
           WrapperType == [func : 0 .. 2, fail : 0 .. 2, fullfilled : BOOLEAN, error : BOOLEAN,
                           lastEc : BOOLEAN]
           Tellable(p) == \A j \in DOMAIN p : p[j] # Step("read", 1) /\ (Tells(p[j]) => Telling)
<1>1. /\ TypeOK /\ wrapper \in WrapperType /\ errors \in Seq(0 .. 2)
      /\ wrapper.fullfilled => Telling
  BY DEF IInv, TypeOK, Telling
<1>2. ASSUME NEW what, At(t, what), what # "read"
      PROVE  /\ todo[t] # <<>> /\ Head(todo[t]) # Step("read", 1)
             /\ Tells(Head(todo[t])) => Telling
             /\ what \in Mines => r \in Reads /\ Head(todo[t]) = Step(what, r)
             /\ Head(todo[t]).do = what
  <2>1. /\ todo[t] # <<>> /\ Head(todo[t]).do = what
        /\ Head(todo[t]) = todo[t][1] /\ 1 \in DOMAIN todo[t]
        /\ what \in Mines => r \in Reads /\ Head(todo[t]) = Step(what, r)
    BY <1>1, <1>2, NextStep
  <2>2. Tells(Head(todo[t])) => Telling
    BY <2>1 DEF Telling
  <2>3. Head(todo[t]) # Step("read", 1)
    BY <1>2, <2>1 DEF Step
  <2>4. QED
    BY <2>1, <2>2, <2>3
<1>3. /\ <<>> \in Seq(StepRecords) /\ Tellable(<<>>)
  BY StepsAre
<1>4. ASSUME NEW s \in StepRecords, s # Step("read", 1), Tells(s) => Telling
      PROVE  <<s>> \in Seq(StepRecords) /\ Tellable(<<s>>)
  <2>1. <<s>> \in Seq(StepRecords) /\ \A j \in DOMAIN <<s>> : <<s>>[j] = s
    BY StepsAre
  <2>2. QED
    BY <1>4, <2>1
<1>5. ASSUME NEW x \in {"then", "store", "except", "storeFail"}, NEW q \in Reads
      PROVE  <<Step(x, q)>> \in Seq(StepRecords) /\ Tellable(<<Step(x, q)>>)
  <2>1. Step(x, q) \in StepRecords
    BY StepsAre DEF Mines
  <2>2. Step(x, q) # Step("read", 1) /\ ~Tells(Step(x, q))
    BY DEF Step, Tells
  <2>3. QED
    BY <1>4, <2>1, <2>2
<1>6. ASSUME NEW q \in Reads, q = 1 => Telling
      PROVE  <<Step("run", q)>> \in Seq(StepRecords) /\ Tellable(<<Step("run", q)>>)
  <2>1. Step("run", q) \in StepRecords
    BY StepsAre DEF Mines
  <2>2. Step("run", q) # Step("read", 1) /\ (Tells(Step("run", q)) => q = 1)
    BY DEF Step, Tells
  <2>3. QED
    BY <1>4, <1>6, <2>1, <2>2
<1> HIDE DEF r, Tellable
<1>7. CASE fullfill(t)
  <2>1. /\ At(t, "fullfill") /\ wrapper' = [wrapper EXCEPT !.fullfilled = TRUE]
        /\ Go(t, <<Step("call", 0)>>) /\ Quiet
    BY <1>7 DEF fullfill
  <2>2. Telling
    BY <1>2, <2>1 DEF Tells
  <2>3. Step("call", 0) \in StepRecords /\ Step("call", 0) # Step("read", 1)
    BY StepsAre DEF Others, Step
  <2>4. <<Step("call", 0)>> \in Seq(StepRecords) /\ Tellable(<<Step("call", 0)>>)
    BY <1>4, <2>2, <2>3
  <2>5. wrapper' \in WrapperType
    BY <1>1, <2>1
  <2>6. QED
    BY <1>1, <1>2, <2>1, <2>2, <2>4, <2>5, WrapperStep DEF Quiet, Tellable
<1>8. CASE CallFunc(t)
  <2>1. /\ At(t, "call") /\ wrapper' = wrapper /\ Quiet
        /\ \/ Go(t, <<>>)
           \/ wrapper.func # 0 /\ Go(t, <<Step("run", wrapper.func)>>)
    BY <1>8 DEF CallFunc
  <2>2. Telling
    BY <1>2, <2>1 DEF Tells
  <2>3. wrapper.func # 0 => wrapper.func \in Reads
    BY <1>1 DEF Reads
  <2>4. PICK p \in Seq(StepRecords) : Go(t, p) /\ Tellable(p)
    BY <1>3, <1>6, <2>1, <2>2, <2>3
  <2>5. QED
    BY <1>1, <1>2, <2>1, <2>4, WrapperStep DEF Quiet, Tellable
<1>9. CASE then(t)
  <2>1. /\ At(t, "then") /\ wrapper' = wrapper /\ Quiet
        /\ \/ wrapper.fullfilled /\ Go(t, <<Step("run", r)>>)
           \/ Go(t, <<Step("store", r)>>)
    BY <1>9 DEF then, r
  <2>2. r \in Reads
    BY <1>2, <2>1 DEF Mines
  <2>3. PICK p \in Seq(StepRecords) : Go(t, p) /\ Tellable(p)
    BY <1>1, <1>5, <1>6, <2>1, <2>2
  <2>4. QED
    BY <1>1, <1>2, <2>1, <2>3, WrapperStep DEF Quiet, Tellable
<1>10. CASE Store(t)
  <2>1. /\ At(t, "store") /\ wrapper' = [wrapper EXCEPT !.func = r] /\ Quiet
        /\ Go(t, <<>>)
    BY <1>10 DEF Store, r
  <2>2. r \in Reads
    BY <1>2, <2>1 DEF Mines
  <2>3. wrapper' \in WrapperType /\ wrapper'.fullfilled = wrapper.fullfilled
    BY <1>1, <2>1, <2>2 DEF Reads
  <2>4. QED
    BY <1>1, <1>2, <1>3, <2>1, <2>3, WrapperStep DEF Quiet, Tellable
<1>11. CASE Run(t)
  <2>1. /\ At(t, "run") /\ wrapper' = wrapper /\ errors' = errors
        /\ UNCHANGED <<parser, received, conn, cur, sinks>>
        /\ calls' = Append(calls, [read |-> r, got |-> sinks[r]])
        /\ \/ Go(t, <<>>)
           \/ r = 1 /\ Go(t, Chain(2))
    BY <1>11 DEF Run, r
  <2>2. r \in Reads /\ (r = 1 => Telling)
    BY <1>2, <2>1 DEF Mines, Tells
  <2>3. ASSUME Telling PROVE Chain(2) \in Seq(StepRecords) /\ Tellable(Chain(2))
    <3>1. /\ Chain(2) \in Seq(StepRecords)
          /\ \A i \in DOMAIN Chain(2) :
                 Chain(2)[i] \in {Step("read", 2), Step("then", 2), Step("except", 2)}
      BY StepsAre DEF Reads
    <3>2. \A s \in {Step("read", 2), Step("then", 2), Step("except", 2)} : s # Step("read", 1)
      BY DEF Step
    <3>3. QED
      BY <2>3, <3>1, <3>2 DEF Tellable
  <2>4. PICK p \in Seq(StepRecords) : Go(t, p) /\ Tellable(p)
    BY <1>3, <2>1, <2>2, <2>3
  <2>5. QED
    BY <1>1, <1>2, <2>1, <2>2, <2>4, WrapperStep DEF Tellable
<1>12. CASE error(t)
  <2>1. /\ At(t, "fail") /\ Go(t, <<Step("failed", 0)>>)
        /\ UNCHANGED <<parser, received, conn, cur, sinks, calls>>
        /\ \/ wrapper.fail # 0 /\ errors' = Append(errors, wrapper.fail) /\ wrapper' = wrapper
           \/ errors' = errors /\ wrapper' = [wrapper EXCEPT !.lastEc = TRUE]
    BY <1>12 DEF error
  <2>2. wrapper' \in WrapperType /\ wrapper'.fullfilled = wrapper.fullfilled
    BY <1>1, <2>1
  <2>3. errors' \in Seq(0 .. 2)
    <3>1. wrapper.fail \in 0 .. 2
      BY <1>1
    <3>2. Append(errors, wrapper.fail) \in Seq(0 .. 2)
      BY <1>1, <3>1, AppendProperties
    <3>3. QED
      BY <1>1, <2>1, <3>2
  <2>4. /\ Step("failed", 0) \in StepRecords /\ Step("failed", 0) # Step("read", 1)
        /\ ~Tells(Step("failed", 0))
    BY StepsAre DEF Others, Step, Tells
  <2>5. <<Step("failed", 0)>> \in Seq(StepRecords) /\ Tellable(<<Step("failed", 0)>>)
    BY <1>4, <2>4
  <2>6. QED
    BY <1>1, <1>2, <2>1, <2>2, <2>3, <2>5, WrapperStep DEF Tellable
<1>13. CASE SetError(t)
  <2>1. /\ At(t, "failed") /\ wrapper' = [wrapper EXCEPT !.error = TRUE] /\ Quiet
        /\ Go(t, <<>>)
    BY <1>13 DEF SetError
  <2>2. wrapper' \in WrapperType /\ wrapper'.fullfilled = wrapper.fullfilled
    BY <1>1, <2>1
  <2>3. QED
    BY <1>1, <1>2, <1>3, <2>1, <2>2, WrapperStep DEF Quiet, Tellable
<1>14. CASE except(t)
  <2>1. /\ At(t, "except") /\ UNCHANGED <<parser, received, conn, cur, sinks, wrapper, calls>>
        /\ \/ errors' = Append(errors, r) /\ Go(t, <<>>)
           \/ errors' = errors /\ Go(t, <<Step("storeFail", r)>>)
    BY <1>14 DEF except, r
  <2>2. r \in Reads
    BY <1>2, <2>1 DEF Mines
  <2>3. errors' \in Seq(0 .. 2)
    <3>1. r \in 0 .. 2
      BY <2>2 DEF Reads
    <3>2. Append(errors, r) \in Seq(0 .. 2)
      BY <1>1, <3>1, AppendProperties
    <3>3. QED
      BY <1>1, <2>1, <3>2
  <2>4. PICK p \in Seq(StepRecords) : Go(t, p) /\ Tellable(p)
    BY <1>3, <1>5, <2>1, <2>2
  <2>5. QED
    BY <1>1, <1>2, <2>1, <2>3, <2>4, WrapperStep DEF Tellable
<1>15. CASE StoreFail(t)
  <2>1. /\ At(t, "storeFail") /\ wrapper' = [wrapper EXCEPT !.fail = r] /\ Quiet
        /\ Go(t, <<>>)
    BY <1>15 DEF StoreFail, r
  <2>2. r \in Reads
    BY <1>2, <2>1 DEF Mines
  <2>3. wrapper' \in WrapperType /\ wrapper'.fullfilled = wrapper.fullfilled
    BY <1>1, <2>1, <2>2 DEF Reads
  <2>4. QED
    BY <1>1, <1>2, <1>3, <2>1, <2>3, WrapperStep DEF Quiet, Tellable
<1>16. QED
  BY <1>7, <1>8, <1>9, <1>10, <1>11, <1>12, <1>13, <1>14, <1>15

\* The invariant holds initially.
LEMMA InitInv ==
    ASSUME ReaderAssumption, Init
    PROVE  IInv
<1>1. /\ parser = NewParser /\ received = 0 /\ conn = "reading" /\ cur = 0 /\ wrapper = NewWrapper
      /\ calls = <<>> /\ errors = <<>> /\ todo = [t \in Threads |-> <<>>]
      /\ sinks = [r \in Reads |-> <<>>] /\ app \subseteq Env /\ input \in Seq(Bytes) /\ max \in Nat
  BY DEF Init, ReaderAssumption
<1>2. \A S : <<>> \in Seq(S)
  OBVIOUS
<1>3. TypeOK
  <2>1. received \in 0 .. Len(input)
    BY <1>1, LenProperties
  <2>2. todo \in [Threads -> Seq(StepRecords)] /\ sinks \in [Reads -> Seq(Nat)]
    BY <1>1, <1>2
  <2>3. wrapper \in [func : 0 .. 2, fail : 0 .. 2, fullfilled : BOOLEAN, error : BOOLEAN,
                     lastEc : BOOLEAN]
    BY <1>1 DEF NewWrapper
  <2>4. QED
    BY <1>1, <1>2, <2>1, <2>2, <2>3 DEF TypeOK, ConnStates
<1>4. ParserOK(parser)
  <2>1. Len(input) \in Nat /\ SizeModulus \in Nat \ {0}
    BY <1>1, LenProperties DEF ReaderAssumption
  <2>2. QED
    BY <1>1, <2>1 DEF ParserOK, NewParser, ParserFields, NoLength
<1>5. Stands(parser) /\ ~parser.refused /\ ~finished(parser) /\ parser.end = 0
  BY <1>1 DEF Stands, NewParser, Progress, finished
<1>6. Reading
  BY <1>1, <1>5 DEF Reading
<1>7. Body
  <2>1. Len(sinks[1]) = 0 /\ BufferSize \in Nat \ {0} /\ max \in Nat
    BY <1>1, EmptySeq DEF Reads, ReaderAssumption
  <2>2. QED
    BY <1>1, <2>1 DEF Body
<1>8. Fullfilled
  <2>1. ContinuedWithWholeBody
    BY <1>1 DEF ContinuedWithWholeBody
  <2>2. ~Telling
    BY <1>1 DEF Telling, NewWrapper
  <2>3. QED
    BY <1>1, <2>1, <2>2 DEF Fullfilled
<1>9. QED
  BY <1>3, <1>4, <1>6, <1>7, <1>8 DEF IInv

\* Every step keeps the invariant.
LEMMA NextInv ==
    ASSUME ReaderAssumption, IInv, [Next]_vars
    PROVE  IInv'
<1>1. CASE UNCHANGED vars
  <2>1. UNCHANGED <<app, input, max, parser, received, conn, todo, cur, sinks, wrapper, calls, errors>>
    BY <1>1 DEF vars, state
  <2>2. HeaderLength' = HeaderLength
    BY <2>1, SameHeader
  <2>3. TypeOK' /\ ParserOK(parser)'
    BY <2>1 DEF IInv, TypeOK, ParserOK
  <2>4. Stands(parser)' = Stands(parser)
    BY <2>1 DEF Stands, EndsHeader
  <2>5. Reading'
    BY <2>1, <2>4 DEF IInv, Reading, NewWrapper, finished
  <2>6. Body'
    BY <2>1, <2>2 DEF IInv, Body
  <2>7. Telling' = Telling /\ Complete(sinks[1])' = Complete(sinks[1])
    BY <2>1 DEF Telling, Complete
  <2>8. ContinuedWithWholeBody'
    BY ZenonT(40), <2>1, <2>2 DEF IInv, Fullfilled, ContinuedWithWholeBody
  <2>9. Fullfilled'
    BY <2>1, <2>7, <2>8 DEF IInv, Fullfilled
  <2>10. QED
    BY <2>3, <2>5, <2>6, <2>9 DEF IInv
<1>2. CASE Next
  <2>1. UNCHANGED <<app, input, max>>
    BY <1>2 DEF Next
  <2>2. ASSUME NEW n \in 1 .. BufferSize, header_read_handler(n) PROVE IInv'
    BY <2>1, <2>2, HeaderStep
  <2>3. ASSUME NEW n \in 1 .. BufferSize, body_read_handler(n) PROVE IInv'
    BY <2>1, <2>3, BodyStep
  <2>4. CASE ReadFails
    BY <2>1, <2>4, FailStep
  <2>5. ASSUME NEW t \in Threads, Steps(t) PROVE IInv'
    BY <2>1, <2>5, ReadBodyStep, WrapperSteps DEF Steps
  <2>6. QED
    BY <1>2, <2>2, <2>3, <2>4, <2>5 DEF Next
<1>3. QED
  BY <1>1, <1>2

-----------------------------------------------------------------------------
(* Theorems.                                                               *)

\* Whatever bytes come, in whatever pieces, and whatever the application does, the
\* parser, the sinks, callback_wrapper and the threads fit together.
THEOREM Invariance == Spec => []IInv
BY ReaderAssumption, InitInv, NextInv, PTL DEF Spec

\* read_body(): whoever is told that the body is there has got its bytes from the
\* first on and without gaps, all of them or as many as max asks for, and not much more.
THEOREM BodyIsWhole == Spec => []ContinuedWithWholeBody
<1>1. IInv => ContinuedWithWholeBody
  BY DEF IInv, Fullfilled
<1>2. QED
  BY <1>1, Invariance, PTL

\* The type invariant of the request's reader.
THEOREM TypeCorrect == Spec => []TypeOK
<1>1. IInv => TypeOK
  BY DEF IInv
<1>2. QED
  BY <1>1, Invariance, PTL

-----------------------------------------------------------------------------
(* One answer.                                                             *)

Own(what) == Step(what, 1)
Its(what) == Step(what, 0)
Doing(s) == todo["io"] = s

\* The chain is being told what it waits for, and then waits for the read: the wrapper
\* has its continuation, and in the end its error callback.
Waits ==
    /\ ~wrapper.fullfilled /\ ~wrapper.error /\ calls = <<>> /\ errors = <<>>
    /\ \/ Doing(<<Own("then"), Own("except")>>) \/ Doing(<<Own("store"), Own("except")>>)
       \/ Doing(<<Own("except")>>) /\ wrapper.func # 0
       \/ Doing(<<Own("storeFail")>>) /\ wrapper.func # 0
       \/ Doing(<<>>) /\ wrapper.func # 0 /\ wrapper.fail # 0

\* The read is over: with the chain still to come the wrapper has none of its functions,
\* and else it has them.
Over ==
    /\ ~wrapper.fullfilled /\ ~wrapper.error /\ calls = <<>> /\ errors = <<>>
    /\ \/ Doing(<<Its("fullfill"), Own("then"), Own("except")>>) /\ wrapper.func = 0
       \/ Doing(<<Its("fail"), Own("then"), Own("except")>>) /\ wrapper.fail = 0
       \/ Doing(<<Its("failed"), Own("then"), Own("except")>>)
       \/ Doing(<<Its("fullfill")>>) /\ wrapper.func # 0
       \/ Doing(<<Its("fail")>>) /\ wrapper.fail # 0

\* The continuation is to run.
Continues ==
    /\ wrapper.fullfilled /\ ~wrapper.error /\ calls = <<>> /\ errors = <<>>
    /\ \/ Doing(<<Its("call"), Own("then"), Own("except")>>) /\ wrapper.func = 0
       \/ Doing(<<Own("then"), Own("except")>>) \/ Doing(<<Own("run"), Own("except")>>)
       \/ Doing(<<Its("call")>>) /\ wrapper.func # 0
       \/ Doing(<<Own("run")>>)

\* The error callback is to run.
Fails ==
    /\ ~wrapper.fullfilled /\ wrapper.error /\ calls = <<>> /\ errors = <<>>
    /\ \/ Doing(<<Own("then"), Own("except")>>) \/ Doing(<<Own("store"), Own("except")>>)
       \/ Doing(<<Own("except")>>)

\* One of them ran, and what is left runs neither.
Answered ==
    /\ Len(calls) + Len(errors) = 1
    /\ \/ /\ ~wrapper.error
          /\ Doing(<<Own("except")>>) \/ Doing(<<Own("storeFail")>>) \/ Doing(<<>>)
       \/ Doing(<<Its("failed")>>) \/ Doing(<<>>)

\* What answers once rests on, if all is done in the callback and the application
\* reads once.
Once ==
    app = {} =>
        /\ todo["user"] = <<>> /\ cur # 2 /\ wrapper.func # 2
        /\ cur = 1 /\ conn = "reading" => Waits
        /\ cur = 1 /\ conn # "reading" => Over \/ Continues \/ Fails \/ Answered

\* The thread io does its next step.
LEMMA Moves ==
    ASSUME TypeOK, NEW p, Go("io", p)
    PROVE  todo'["io"] = p \o Tail(todo["io"]) /\ todo'["user"] = todo["user"]
<1>1. todo' = [todo EXCEPT !["io"] = p \o Tail(todo["io"])] /\ todo \in [Threads -> Seq(StepRecords)]
  BY DEF Go, TypeOK
<1>2. QED
  BY <1>1 DEF Threads

\* The same when its step is the only one it has.
LEMMA OneGone ==
    ASSUME TypeOK, NEW a \in StepRecords, Doing(<<a>>), Go("io", <<>>)
    PROVE  todo'["io"] = <<>> /\ todo'["user"] = todo["user"]
<1>1. todo'["io"] = <<>> \o Tail(<<a>>) /\ todo'["user"] = todo["user"]
  BY Moves DEF Doing
<1>2. Tail(<<a>>) = <<>> /\ <<>> \in Seq(StepRecords)
  OBVIOUS
<1>3. <<>> \o <<>> = <<>>
  BY <1>2, ConcatEmptySeq
<1>4. QED
  BY <1>1, <1>2, <1>3, Zenon

\* And when another one takes its place.
LEMMA OneNext ==
    ASSUME TypeOK, NEW a \in StepRecords, Doing(<<a>>),
           NEW x \in StepRecords, Go("io", <<x>>)
    PROVE  todo'["io"] = <<x>> /\ todo'["user"] = todo["user"]
<1>1. todo'["io"] = <<x>> \o Tail(<<a>>) /\ todo'["user"] = todo["user"]
  BY Moves DEF Doing
<1>2. Tail(<<a>>) = <<>>
  OBVIOUS
<1>3. <<>> \in Seq(StepRecords) /\ <<x>> \in Seq(StepRecords)
  OBVIOUS
<1>4. <<x>> \o <<>> = <<x>>
  BY <1>3, ConcatEmptySeq
<1>5. QED
  BY <1>1, <1>2, <1>4, Zenon

\* The same when its step is the first of two.
LEMMA TwoGone ==
    ASSUME TypeOK, NEW a \in StepRecords, NEW b \in StepRecords, Doing(<<a, b>>), Go("io", <<>>)
    PROVE  todo'["io"] = <<b>> /\ todo'["user"] = todo["user"]
<1>1. todo'["io"] = <<>> \o Tail(<<a, b>>) /\ todo'["user"] = todo["user"]
  BY Moves DEF Doing
<1>2. Tail(<<a, b>>) = <<b>> /\ <<b>> \in Seq(StepRecords)
  OBVIOUS
<1>3. <<>> \o <<b>> = <<b>>
  BY <1>2, ConcatEmptySeq
<1>4. QED
  BY <1>1, <1>2, <1>3, Zenon

\* And when another one takes its place.
LEMMA TwoNext ==
    ASSUME TypeOK, NEW a \in StepRecords, NEW b \in StepRecords, Doing(<<a, b>>),
           NEW x \in StepRecords, Go("io", <<x>>)
    PROVE  todo'["io"] = <<x, b>> /\ todo'["user"] = todo["user"]
<1>1. todo'["io"] = <<x>> \o Tail(<<a, b>>) /\ todo'["user"] = todo["user"]
  BY Moves DEF Doing
<1>2. Tail(<<a, b>>) = <<b>>
  OBVIOUS
<1>3. <<b>> \in Seq(StepRecords) /\ <<x>> \in Seq(StepRecords)
  OBVIOUS
<1>4. <<x>> \o <<b>> = <<x, b>>
  <2> DEFINE r == <<x>> \o <<b>>  t == <<x, b>>
  <2>1. /\ r \in Seq(StepRecords) /\ Len(r) = 2
        /\ r[1] = x /\ r[2] = b
    BY <1>3, ConcatProperties
  <2>2. t \in Seq(StepRecords) /\ Len(t) = 2 /\ t[1] = x /\ t[2] = b
    OBVIOUS
  <2> HIDE DEF r, t
  <2>3. Len(r) = Len(t) /\ \A i \in 1 .. Len(r) : r[i] = t[i]
    BY <2>1, <2>2
  <2>4. r = t
    BY <2>1, <2>2, <2>3, SeqEqual
  <2>5. QED
    BY <2>4 DEF r, t
<1>5. QED
  BY <1>1, <1>2, <1>4, Zenon

\* The same when its step is the first of three.
LEMMA ThreeGone ==
    ASSUME TypeOK, NEW a \in StepRecords, NEW b \in StepRecords, NEW c \in StepRecords,
           Doing(<<a, b, c>>), Go("io", <<>>)
    PROVE  todo'["io"] = <<b, c>> /\ todo'["user"] = todo["user"]
<1>1. todo'["io"] = <<>> \o Tail(<<a, b, c>>) /\ todo'["user"] = todo["user"]
  BY Moves DEF Doing
<1>2. Tail(<<a, b, c>>) = <<b, c>> /\ <<b, c>> \in Seq(StepRecords)
  OBVIOUS
<1>3. <<>> \o <<b, c>> = <<b, c>>
  BY <1>2, ConcatEmptySeq
<1>4. QED
  BY <1>1, <1>2, <1>3, Zenon

\* And when another one takes its place.
LEMMA ThreeNext ==
    ASSUME TypeOK, NEW a \in StepRecords, NEW b \in StepRecords, NEW c \in StepRecords,
           Doing(<<a, b, c>>),
           NEW x \in StepRecords, Go("io", <<x>>)
    PROVE  todo'["io"] = <<x, b, c>> /\ todo'["user"] = todo["user"]
<1>1. todo'["io"] = <<x>> \o Tail(<<a, b, c>>) /\ todo'["user"] = todo["user"]
  BY Moves DEF Doing
<1>2. Tail(<<a, b, c>>) = <<b, c>>
  OBVIOUS
<1>3. <<b, c>> \in Seq(StepRecords) /\ <<x>> \in Seq(StepRecords)
  OBVIOUS
<1>4. <<x>> \o <<b, c>> = <<x, b, c>>
  <2> DEFINE r == <<x>> \o <<b, c>>  t == <<x, b, c>>
  <2>1. /\ r \in Seq(StepRecords) /\ Len(r) = 3
        /\ r[1] = x /\ r[2] = b /\ r[3] = c
    BY <1>3, ConcatProperties
  <2>2. t \in Seq(StepRecords) /\ Len(t) = 3 /\ t[1] = x /\ t[2] = b /\ t[3] = c
    OBVIOUS
  <2> HIDE DEF r, t
  <2>3. Len(r) = Len(t) /\ \A i \in 1 .. Len(r) : r[i] = t[i]
    BY <2>1, <2>2
  <2>4. r = t
    BY <2>1, <2>2, <2>3, SeqEqual
  <2>5. QED
    BY <2>4 DEF r, t
<1>5. QED
  BY <1>1, <1>2, <1>4, Zenon

\* Its next step is the first of what it does.
LEMMA Heads ==
    ASSUME NEW what, At("io", what), NEW a \in StepRecords, NEW b \in StepRecords,
           NEW c \in StepRecords
    PROVE  /\ ~Doing(<<>>)
           /\ Doing(<<a>>) \/ Doing(<<a, b>>) \/ Doing(<<a, b, c>>) =>
                  a.do = what /\ Mine("io") = a.read
<1>1. todo["io"] # <<>> /\ Head(todo["io"]).do = what /\ Mine("io") = Head(todo["io"]).read
  BY DEF At, Mine
<1>2. Head(<<a>>) = a /\ Head(<<a, b>>) = a /\ Head(<<a, b, c>>) = a
  OBVIOUS
<1>3. QED
  BY <1>1, <1>2, Zenon DEF Doing

\* The steps of the first chain and of its read.
LEMMA OwnSteps ==
    /\ \A w \in Mines : Own(w) \in StepRecords /\ Own(w).do = w /\ Own(w).read = 1
    /\ \A w \in Others : Its(w) \in StepRecords /\ Its(w).do = w
<1>1. \A w : Own(w).do = w /\ Own(w).read = 1 /\ Its(w).do = w
  BY DEF Own, Its, Step
<1>2. \A w \in Mines : Own(w) \in StepRecords
  BY StepsAre DEF Own, Reads
<1>3. \A w \in Others : Its(w) \in StepRecords
  BY StepsAre DEF Its
<1>4. QED
  BY <1>1, <1>2, <1>3

\* What the thread io is at, for each step it may be about to do.
LEMMA Rows ==
    ASSUME Once, app = {}, cur = 1, NEW what, At("io", what)
    PROVE  /\ what # "read"
           /\ conn = "reading" => Waits
           /\ conn # "reading" => Over \/ Continues \/ Fails \/ Answered
           /\ what \in {"fullfill", "call", "run", "fail", "failed"} => conn # "reading"
           /\ what = "fullfill" =>
                  Over /\ \/ Doing(<<Its("fullfill"), Own("then"), Own("except")>>) /\ wrapper.func = 0
                          \/ Doing(<<Its("fullfill")>>) /\ wrapper.func # 0
           /\ what = "call" =>
                  Continues /\ \/ Doing(<<Its("call"), Own("then"), Own("except")>>) /\ wrapper.func = 0
                               \/ Doing(<<Its("call")>>) /\ wrapper.func # 0
           /\ what = "then" => Doing(<<Own("then"), Own("except")>>) /\ Mine("io") = 1
                               /\ \/ conn = "reading" /\ Waits
                                  \/ conn # "reading" /\ (Continues \/ Fails)
           /\ what = "store" => Doing(<<Own("store"), Own("except")>>) /\ Mine("io") = 1
                                /\ \/ conn = "reading" /\ Waits
                                   \/ conn # "reading" /\ Fails
           /\ what = "except" => Doing(<<Own("except")>>) /\ Mine("io") = 1
                                 /\ \/ conn = "reading" /\ Waits /\ wrapper.func # 0
                                    \/ conn # "reading" /\ Fails
                                    \/ conn # "reading" /\ Answered /\ ~wrapper.error
           /\ what = "storeFail" => Doing(<<Own("storeFail")>>) /\ Mine("io") = 1
                                    /\ \/ conn = "reading" /\ Waits /\ wrapper.func # 0
                                       \/ conn # "reading" /\ Answered /\ ~wrapper.error
           /\ what = "run" =>
                  Continues /\ (Doing(<<Own("run"), Own("except")>>) \/ Doing(<<Own("run")>>))
           /\ what = "fail" =>
                  Over /\ \/ Doing(<<Its("fail"), Own("then"), Own("except")>>) /\ wrapper.fail = 0
                          \/ Doing(<<Its("fail")>>) /\ wrapper.fail # 0
           /\ what = "failed" =>
                  \/ Over /\ Doing(<<Its("failed"), Own("then"), Own("except")>>)
                  \/ Answered /\ Doing(<<Its("failed")>>)
<1>1. /\ conn = "reading" => Waits
      /\ conn # "reading" => Over \/ Continues \/ Fails \/ Answered
  BY DEF Once
<1>2. /\ Doing(<<Own("then"), Own("except")>>) => what = "then" /\ Mine("io") = 1
      /\ Doing(<<Own("store"), Own("except")>>) => what = "store" /\ Mine("io") = 1
      /\ Doing(<<Own("run"), Own("except")>>) => what = "run" /\ Mine("io") = 1
      /\ Doing(<<Own("except")>>) => what = "except" /\ Mine("io") = 1
      /\ Doing(<<Own("storeFail")>>) => what = "storeFail" /\ Mine("io") = 1
      /\ Doing(<<Own("run")>>) => what = "run" /\ Mine("io") = 1
      /\ ~Doing(<<>>)
  <2>1. \A w \in {"then", "store", "run", "except", "storeFail"} :
            Own(w) \in StepRecords /\ Own(w).do = w /\ Own(w).read = 1
    BY OwnSteps DEF Mines
  <2>2. ASSUME NEW a \in StepRecords, NEW b \in StepRecords
        PROVE  /\ ~Doing(<<>>)
               /\ Doing(<<a>>) \/ Doing(<<a, b>>) => a.do = what /\ Mine("io") = a.read
    BY Heads
  <2>3. QED
    BY <2>1, <2>2
<1>3. ASSUME NEW w \in Others
      PROVE  Doing(<<Its(w)>>) \/ Doing(<<Its(w), Own("then"), Own("except")>>) => what = w
  <2>1. /\ Its(w) \in StepRecords /\ Its(w).do = w
        /\ Own("then") \in StepRecords /\ Own("except") \in StepRecords
    BY OwnSteps DEF Mines
  <2>2. Doing(<<Its(w)>>) \/ Doing(<<Its(w), Own("then"), Own("except")>>) => Its(w).do = what
    BY <2>1, Heads
  <2>3. QED
    BY <2>1, <2>2
<1>4. /\ Waits => what \in {"then", "store", "except", "storeFail"}
      /\ Over => what \in {"fullfill", "fail", "failed"}
      /\ Continues => what \in {"call", "then", "run"}
      /\ Fails => what \in {"then", "store", "except"}
      /\ Answered => what \in {"except", "storeFail", "failed"}
  BY <1>2, <1>3 DEF Waits, Over, Continues, Fails, Answered, Others
<1>5. what = "then" /\ (Waits \/ Continues \/ Fails) => Doing(<<Own("then"), Own("except")>>)
  BY <1>2, <1>3 DEF Waits, Continues, Fails, Others
<1>6. what = "store" /\ (Waits \/ Fails) => Doing(<<Own("store"), Own("except")>>)
  BY <1>2 DEF Waits, Fails
<1>7. /\ what = "except" /\ (Waits \/ Fails \/ Answered) => Doing(<<Own("except")>>)
      /\ what \in {"except", "storeFail"} /\ Answered => ~wrapper.error
  BY <1>2, <1>3 DEF Waits, Fails, Answered, Others
<1>8. what = "storeFail" /\ (Waits \/ Answered) => Doing(<<Own("storeFail")>>)
  BY <1>2, <1>3 DEF Waits, Answered, Others
<1>9. what = "failed" /\ Answered => Doing(<<Its("failed")>>)
  BY <1>2 DEF Answered
<1>10. /\ what = "fullfill" /\ Over =>
              \/ Doing(<<Its("fullfill"), Own("then"), Own("except")>>) /\ wrapper.func = 0
              \/ Doing(<<Its("fullfill")>>) /\ wrapper.func # 0
       /\ what = "fail" /\ Over =>
              \/ Doing(<<Its("fail"), Own("then"), Own("except")>>) /\ wrapper.fail = 0
              \/ Doing(<<Its("fail")>>) /\ wrapper.fail # 0
       /\ what = "failed" /\ Over => Doing(<<Its("failed"), Own("then"), Own("except")>>)
  BY <1>3 DEF Over, Others
<1>11. /\ what = "call" /\ Continues =>
              \/ Doing(<<Its("call"), Own("then"), Own("except")>>) /\ wrapper.func = 0
              \/ Doing(<<Its("call")>>) /\ wrapper.func # 0
       /\ what = "run" /\ Continues => Doing(<<Own("run"), Own("except")>>) \/ Doing(<<Own("run")>>)
  BY <1>2, <1>3 DEF Continues, Others
<1>12. what # "read" /\ (what = "then" =>
              (conn = "reading" /\ Waits) \/ (conn # "reading" /\ (Continues \/ Fails)))
       /\ (what = "store" => (conn = "reading" /\ Waits) \/ (conn # "reading" /\ Fails))
       /\ (what = "except" =>
              (conn = "reading" /\ Waits) \/ (conn # "reading" /\ (Fails \/ Answered)))
       /\ (what = "storeFail" => (conn = "reading" /\ Waits) \/ (conn # "reading" /\ Answered))
       /\ (what \in {"fullfill", "call", "run", "fail", "failed"} => conn # "reading")
       /\ (what \in {"fullfill", "fail"} => Over) /\ (what \in {"call", "run"} => Continues)
       /\ (what = "failed" => Over \/ Answered)
  BY <1>1, <1>4
<1>13. what \in {"except", "storeFail"} /\ Waits => wrapper.func # 0
  BY <1>2 DEF Waits
<1>14. QED
  BY <1>1, <1>2, <1>5, <1>6, <1>7, <1>8, <1>9, <1>10, <1>11, <1>12, <1>13

\* When nothing is left to do, the wrapper has both functions.
LEMMA WaitsAll ==
    ASSUME Waits, todo["io"] = <<>>
    PROVE  wrapper.func # 0 /\ wrapper.fail # 0
<1>1. \A a, b : <<a>> # <<>> /\ <<a, b>> # <<>>
  OBVIOUS
<1>2. QED
  BY <1>1 DEF Waits, Doing

\* A step of callback_wrapper on the thread io keeps what answers once rests on.
LEMMA OnceKept ==
    ASSUME IInv, Once, app = {}, cur = 1, cur' = cur, conn' = conn,
           \/ fullfill("io") \/ CallFunc("io") \/ then("io") \/ Store("io") \/ Run("io")
           \/ error("io") \/ SetError("io") \/ except("io") \/ StoreFail("io")
    PROVE  /\ todo'["user"] = todo["user"] /\ wrapper'.func # 2
           /\ conn' = "reading" => Waits'
           /\ conn' # "reading" => (Over \/ Continues \/ Fails \/ Answered)'
<1>1. /\ TypeOK
      /\ conn = "reading" => Waits
      /\ conn # "reading" => Over \/ Continues \/ Fails \/ Answered
      /\ DOMAIN wrapper = {"func", "fail", "fullfilled", "error", "lastEc"}
      /\ wrapper.func \in {0, 1}
  BY DEF IInv, Once, TypeOK
<1>2. /\ Own("then") \in StepRecords /\ Own("store") \in StepRecords /\ Own("run") \in StepRecords
      /\ Own("except") \in StepRecords /\ Own("storeFail") \in StepRecords
      /\ Its("fullfill") \in StepRecords /\ Its("call") \in StepRecords
      /\ Its("fail") \in StepRecords /\ Its("failed") \in StepRecords
  BY OwnSteps DEF Mines, Others
<1>3. \A w : Its(w) = Step(w, 0) /\ Own(w) = Step(w, 1)
  BY DEF Its, Own
<1>4. /\ Len(<<>>) = 0 /\ \A e : Len(Append(<<>>, e)) = 1
      /\ \A e : Append(<<>>, e) # <<>>
  OBVIOUS
<1>5. CASE fullfill("io")
  <2>1. /\ At("io", "fullfill") /\ wrapper' = [wrapper EXCEPT !.fullfilled = TRUE]
        /\ Go("io", <<Its("call")>>) /\ calls' = calls /\ errors' = errors
    BY <1>3, <1>5 DEF fullfill, Quiet
  <2>2. /\ wrapper'.fullfilled /\ wrapper'.error = wrapper.error /\ wrapper'.func = wrapper.func
    BY <1>1, <2>1
  <2>3. /\ conn # "reading" /\ Over
        /\ \/ Doing(<<Its("fullfill"), Own("then"), Own("except")>>) /\ wrapper.func = 0
           \/ Doing(<<Its("fullfill")>>) /\ wrapper.func # 0
    BY <2>1, Rows
  <2>4. /\ todo'["user"] = todo["user"]
        /\ Doing(<<Its("fullfill"), Own("then"), Own("except")>>) =>
               todo'["io"] = <<Its("call"), Own("then"), Own("except")>>
        /\ Doing(<<Its("fullfill")>>) => todo'["io"] = <<Its("call")>>
    <3>1. todo'["user"] = todo["user"]
      BY <1>1, <1>2, <2>1, Moves
    <3>2. ASSUME Doing(<<Its("fullfill"), Own("then"), Own("except")>>)
          PROVE  todo'["io"] = <<Its("call"), Own("then"), Own("except")>>
      BY <1>1, <1>2, <2>1, <3>2, ThreeNext
    <3>3. ASSUME Doing(<<Its("fullfill")>>)
          PROVE  todo'["io"] = <<Its("call")>>
      BY <1>1, <1>2, <2>1, <3>3, OneNext
    <3>4. QED
      BY <3>1, <3>2, <3>3
  <2>5. Continues'
    BY <2>1, <2>2, <2>3, <2>4 DEF Over, Continues, Doing
  <2>6. QED
    BY <1>1, <2>2, <2>3, <2>4, <2>5
<1>6. CASE CallFunc("io")
  <2>1. /\ At("io", "call") /\ wrapper' = wrapper /\ calls' = calls /\ errors' = errors
        /\ wrapper.func = 0 => Go("io", <<>>)
        /\ wrapper.func # 0 => Go("io", <<Step("run", wrapper.func)>>)
    BY <1>6 DEF CallFunc, Quiet
  <2>2. /\ conn # "reading" /\ Continues
        /\ \/ Doing(<<Its("call"), Own("then"), Own("except")>>) /\ wrapper.func = 0
           \/ Doing(<<Its("call")>>) /\ wrapper.func # 0
    BY <2>1, Rows
  <2>3. CASE wrapper.func = 0
    <3>1. /\ todo'["user"] = todo["user"]
          /\ todo'["io"] = <<Own("then"), Own("except")>>
      <4>1. todo'["user"] = todo["user"]
        BY <1>1, <1>2, <2>1, <2>3, Moves
      <4>2. Doing(<<Its("call"), Own("then"), Own("except")>>)
        BY <2>2, <2>3
      <4>3. todo'["io"] = <<Own("then"), Own("except")>>
        BY <1>1, <1>2, <2>1, <2>3, <4>2, ThreeGone
      <4>4. QED
        BY <4>1, <4>3
    <3>2. Continues'
      BY <2>1, <2>2, <3>1 DEF Continues, Doing
    <3>3. QED
      BY <1>1, <2>1, <2>2, <3>1, <3>2
  <2>4. CASE wrapper.func # 0
    <3>1. wrapper.func = 1
      BY <1>1, <2>4
    <3>2. Doing(<<Its("call")>>) /\ Go("io", <<Own("run")>>)
      BY <1>3, <2>1, <2>2, <2>4, <3>1
    <3>3. todo'["user"] = todo["user"] /\ todo'["io"] = <<Own("run")>>
      <4>1. todo'["user"] = todo["user"]
        BY <1>1, <1>2, <3>2, Moves
      <4>2. todo'["io"] = <<Own("run")>>
        BY <1>1, <1>2, <3>2, OneNext
      <4>3. QED
        BY <4>1, <4>2
    <3>4. Continues'
      BY <2>1, <2>2, <3>3 DEF Continues, Doing
    <3>5. QED
      BY <1>1, <2>1, <2>2, <3>3, <3>4
  <2>5. QED
    BY <2>3, <2>4
<1>7. CASE then("io")
  <2>1. /\ At("io", "then") /\ wrapper' = wrapper /\ calls' = calls /\ errors' = errors
        /\ wrapper.fullfilled => Go("io", <<Step("run", Mine("io"))>>)
        /\ ~wrapper.fullfilled => Go("io", <<Step("store", Mine("io"))>>)
    BY <1>7 DEF then, Quiet
  <2>2. /\ Doing(<<Own("then"), Own("except")>>) /\ Mine("io") = 1
        /\ (conn = "reading" /\ Waits) \/ (conn # "reading" /\ (Continues \/ Fails))
    BY <2>1, Rows
  <2>3. CASE wrapper.fullfilled
    <3>1. Go("io", <<Own("run")>>)
      BY <1>3, <2>1, <2>2, <2>3
    <3>2. todo'["user"] = todo["user"] /\ todo'["io"] = <<Own("run"), Own("except")>>
      <4>1. todo'["user"] = todo["user"]
        BY <1>1, <1>2, <2>2, <3>1, Moves
      <4>2. todo'["io"] = <<Own("run"), Own("except")>>
        BY <1>1, <1>2, <2>2, <3>1, TwoNext
      <4>3. QED
        BY <4>1, <4>2
    <3>3. Continues /\ conn # "reading"
      BY <2>2, <2>3 DEF Waits, Fails
    <3>4. Continues'
      BY <2>1, <3>2, <3>3 DEF Continues, Doing
    <3>5. QED
      BY <1>1, <2>1, <3>2, <3>3, <3>4
  <2>4. CASE ~wrapper.fullfilled
    <3>1. Go("io", <<Own("store")>>)
      BY <1>3, <2>1, <2>2, <2>4
    <3>2. todo'["user"] = todo["user"] /\ todo'["io"] = <<Own("store"), Own("except")>>
      <4>1. todo'["user"] = todo["user"]
        BY <1>1, <1>2, <2>2, <3>1, Moves
      <4>2. todo'["io"] = <<Own("store"), Own("except")>>
        BY <1>1, <1>2, <2>2, <3>1, TwoNext
      <4>3. QED
        BY <4>1, <4>2
    <3>3. Waits => Waits'
      BY <2>1, <3>2 DEF Waits, Doing
    <3>4. Fails => Fails'
      BY <2>1, <3>2 DEF Fails, Doing
    <3>5. conn # "reading" => Fails
      BY <2>2, <2>4 DEF Continues
    <3>6. QED
      BY <1>1, <2>1, <3>2, <3>3, <3>4, <3>5
  <2>5. QED
    BY <2>3, <2>4
<1>8. CASE Store("io")
  <2>1. /\ At("io", "store") /\ wrapper' = [wrapper EXCEPT !.func = Mine("io")]
        /\ Go("io", <<>>) /\ calls' = calls /\ errors' = errors
    BY <1>8 DEF Store, Quiet
  <2>2. /\ Doing(<<Own("store"), Own("except")>>) /\ Mine("io") = 1
        /\ (conn = "reading" /\ Waits) \/ (conn # "reading" /\ Fails)
    BY <2>1, Rows
  <2>3. /\ wrapper'.fullfilled = wrapper.fullfilled /\ wrapper'.error = wrapper.error
        /\ wrapper'.func = 1
    BY <1>1, <2>1, <2>2
  <2>4. todo'["user"] = todo["user"] /\ todo'["io"] = <<Own("except")>>
    <3>1. todo'["user"] = todo["user"]
      BY <1>1, <1>2, <2>1, <2>2, Moves
    <3>2. todo'["io"] = <<Own("except")>>
      BY <1>1, <1>2, <2>1, <2>2, TwoGone
    <3>3. QED
      BY <3>1, <3>2
  <2>5. Waits => Waits'
    BY <2>1, <2>3, <2>4 DEF Waits, Doing
  <2>6. Fails => Fails'
    BY <2>1, <2>3, <2>4 DEF Fails, Doing
  <2>7. QED
    BY <2>2, <2>3, <2>4, <2>5, <2>6
<1>9. CASE Run("io")
  <2>1. /\ At("io", "run") /\ wrapper' = wrapper /\ errors' = errors
        /\ \E e : calls' = Append(calls, e)
        /\ Go("io", <<>>)
    BY <1>9 DEF Run
  <2>2. /\ Continues /\ conn # "reading"
        /\ Doing(<<Own("run"), Own("except")>>) \/ Doing(<<Own("run")>>)
    BY <2>1, Rows
  <2>3. /\ todo'["user"] = todo["user"]
        /\ Doing(<<Own("run"), Own("except")>>) => todo'["io"] = <<Own("except")>>
        /\ Doing(<<Own("run")>>) => todo'["io"] = <<>>
    <3>1. todo'["user"] = todo["user"]
      BY <1>1, <1>2, <2>1, Moves
    <3>2. ASSUME Doing(<<Own("run"), Own("except")>>)
          PROVE  todo'["io"] = <<Own("except")>>
      BY <1>1, <1>2, <2>1, <3>2, TwoGone
    <3>3. ASSUME Doing(<<Own("run")>>)
          PROVE  todo'["io"] = <<>>
      BY <1>1, <1>2, <2>1, <3>3, OneGone
    <3>4. QED
      BY <3>1, <3>2, <3>3
  <2>4. Len(calls') + Len(errors') = 1
    <3>1. calls = <<>> /\ errors = <<>>
      BY <2>2 DEF Continues
    <3>2. Len(calls') = 1 /\ Len(errors') = 0
      BY <1>4, <2>1, <3>1
    <3>3. QED
      BY <3>2
  <2>5. ~wrapper'.error
    BY <2>1, <2>2 DEF Continues
  <2>6. Answered'
    BY <2>2, <2>3, <2>4, <2>5 DEF Answered, Doing
  <2>7. QED
    BY <1>1, <2>1, <2>2, <2>3, <2>6
<1>10. CASE error("io")
  <2>1. /\ At("io", "fail") /\ Go("io", <<Its("failed")>>) /\ calls' = calls
        /\ wrapper.fail # 0 => (\E e : errors' = Append(errors, e)) /\ wrapper' = wrapper
        /\ wrapper.fail = 0 => errors' = errors /\ wrapper' = [wrapper EXCEPT !.lastEc = TRUE]
    BY <1>3, <1>10 DEF error
  <2>2. /\ wrapper'.fullfilled = wrapper.fullfilled /\ wrapper'.error = wrapper.error
        /\ wrapper'.func = wrapper.func
    BY <1>1, <2>1
  <2>3. /\ Over /\ conn # "reading"
        /\ \/ Doing(<<Its("fail"), Own("then"), Own("except")>>) /\ wrapper.fail = 0
           \/ Doing(<<Its("fail")>>) /\ wrapper.fail # 0
    BY <2>1, Rows
  <2>4. /\ todo'["user"] = todo["user"]
        /\ Doing(<<Its("fail"), Own("then"), Own("except")>>) =>
               todo'["io"] = <<Its("failed"), Own("then"), Own("except")>>
        /\ Doing(<<Its("fail")>>) => todo'["io"] = <<Its("failed")>>
    <3>1. todo'["user"] = todo["user"]
      BY <1>1, <1>2, <2>1, Moves
    <3>2. ASSUME Doing(<<Its("fail"), Own("then"), Own("except")>>)
          PROVE  todo'["io"] = <<Its("failed"), Own("then"), Own("except")>>
      BY <1>1, <1>2, <2>1, <3>2, ThreeNext
    <3>3. ASSUME Doing(<<Its("fail")>>)
          PROVE  todo'["io"] = <<Its("failed")>>
      BY <1>1, <1>2, <2>1, <3>3, OneNext
    <3>4. QED
      BY <3>1, <3>2, <3>3
  <2>5. calls = <<>> /\ errors = <<>>
    BY <2>3 DEF Over
  <2>6. CASE wrapper.fail = 0
    <3>1. Over'
      BY <2>1, <2>2, <2>3, <2>4, <2>6 DEF Over, Doing
    <3>2. QED
      BY <1>1, <2>2, <2>3, <2>4, <3>1
  <2>7. CASE wrapper.fail # 0
    <3>1. Len(calls') = 0 /\ Len(errors') = 1
      BY <1>4, <2>1, <2>5, <2>7
    <3>2. Len(calls') + Len(errors') = 1
      BY <3>1
    <3>3. Answered'
      BY <2>3, <2>4, <2>7, <3>2 DEF Answered, Doing
    <3>4. QED
      BY <1>1, <2>2, <2>3, <2>4, <3>3
  <2>8. QED
    BY <2>6, <2>7
<1>11. CASE SetError("io")
  <2>1. /\ At("io", "failed") /\ wrapper' = [wrapper EXCEPT !.error = TRUE]
        /\ Go("io", <<>>) /\ calls' = calls /\ errors' = errors
    BY <1>11 DEF SetError, Quiet
  <2>2. /\ wrapper'.fullfilled = wrapper.fullfilled /\ wrapper'.error
        /\ wrapper'.func = wrapper.func
    BY <1>1, <2>1
  <2>3. /\ conn # "reading"
        /\ \/ Over /\ Doing(<<Its("failed"), Own("then"), Own("except")>>)
           \/ Answered /\ Doing(<<Its("failed")>>)
    BY <2>1, Rows
  <2>4. /\ todo'["user"] = todo["user"]
        /\ Doing(<<Its("failed"), Own("then"), Own("except")>>) =>
               todo'["io"] = <<Own("then"), Own("except")>>
        /\ Doing(<<Its("failed")>>) => todo'["io"] = <<>>
    <3>1. todo'["user"] = todo["user"]
      BY <1>1, <1>2, <2>1, Moves
    <3>2. ASSUME Doing(<<Its("failed"), Own("then"), Own("except")>>)
          PROVE  todo'["io"] = <<Own("then"), Own("except")>>
      BY <1>1, <1>2, <2>1, <3>2, ThreeGone
    <3>3. ASSUME Doing(<<Its("failed")>>)
          PROVE  todo'["io"] = <<>>
      BY <1>1, <1>2, <2>1, <3>3, OneGone
    <3>4. QED
      BY <3>1, <3>2, <3>3
  <2>5. CASE Over /\ Doing(<<Its("failed"), Own("then"), Own("except")>>)
    <3>1. Fails'
      BY <2>1, <2>2, <2>3, <2>4, <2>5 DEF Over, Fails, Doing
    <3>2. QED
      BY <1>1, <2>2, <2>3, <2>4, <3>1
  <2>6. CASE Answered /\ Doing(<<Its("failed")>>)
    <3>1. Answered'
      BY <2>1, <2>4, <2>6 DEF Answered, Doing
    <3>2. QED
      BY <1>1, <2>2, <2>3, <2>4, <3>1
  <2>7. QED
    BY <2>3, <2>5, <2>6
<1>12. CASE except("io")
  <2>1. /\ At("io", "except") /\ wrapper' = wrapper /\ calls' = calls
        /\ wrapper.error => (\E e : errors' = Append(errors, e)) /\ Go("io", <<>>)
        /\ ~wrapper.error => errors' = errors /\ Go("io", <<Step("storeFail", Mine("io"))>>)
    BY <1>12 DEF except
  <2>2. /\ Doing(<<Own("except")>>) /\ Mine("io") = 1
        /\ \/ conn = "reading" /\ Waits /\ wrapper.func # 0
           \/ conn # "reading" /\ Fails
           \/ conn # "reading" /\ Answered /\ ~wrapper.error
    BY <2>1, Rows
  <2>3. CASE wrapper.error
    <3>1. conn # "reading" /\ Fails
      BY <2>2, <2>3 DEF Waits
    <3>2. todo'["user"] = todo["user"] /\ todo'["io"] = <<>>
      <4>1. todo'["user"] = todo["user"]
        BY <1>1, <1>2, <2>1, <2>2, <2>3, Moves
      <4>2. todo'["io"] = <<>>
        BY <1>1, <1>2, <2>1, <2>2, <2>3, OneGone
      <4>3. QED
        BY <4>1, <4>2
    <3>3. calls = <<>> /\ errors = <<>>
      BY <3>1 DEF Fails
    <3>4. Len(calls') = 0 /\ Len(errors') = 1
      BY <1>4, <2>1, <2>3, <3>3
    <3>5. Len(calls') + Len(errors') = 1
      BY <3>4
    <3>6. Answered'
      BY <3>2, <3>5 DEF Answered, Doing
    <3>7. QED
      BY <1>1, <2>1, <3>1, <3>2, <3>6
  <2>4. CASE ~wrapper.error
    <3>1. Go("io", <<Own("storeFail")>>)
      BY <1>3, <2>1, <2>2, <2>4
    <3>2. todo'["user"] = todo["user"] /\ todo'["io"] = <<Own("storeFail")>>
      <4>1. todo'["user"] = todo["user"]
        BY <1>1, <1>2, <2>2, <3>1, Moves
      <4>2. todo'["io"] = <<Own("storeFail")>>
        BY <1>1, <1>2, <2>2, <3>1, OneNext
      <4>3. QED
        BY <4>1, <4>2
    <3>3. Waits /\ wrapper.func # 0 => Waits'
      BY <2>1, <2>4, <3>2 DEF Waits, Doing
    <3>4. Answered => Answered'
      BY <2>1, <2>4, <3>2 DEF Answered, Doing
    <3>5. ~Fails
      BY <2>4 DEF Fails
    <3>6. QED
      BY <1>1, <2>1, <2>2, <3>2, <3>3, <3>4, <3>5
  <2>5. QED
    BY <2>3, <2>4
<1>13. CASE StoreFail("io")
  <2>1. /\ At("io", "storeFail") /\ wrapper' = [wrapper EXCEPT !.fail = Mine("io")]
        /\ Go("io", <<>>) /\ calls' = calls /\ errors' = errors
    BY <1>13 DEF StoreFail, Quiet
  <2>2. /\ Doing(<<Own("storeFail")>>) /\ Mine("io") = 1
        /\ \/ conn = "reading" /\ Waits /\ wrapper.func # 0
           \/ conn # "reading" /\ Answered /\ ~wrapper.error
    BY <2>1, Rows
  <2>3. /\ wrapper'.fullfilled = wrapper.fullfilled /\ wrapper'.error = wrapper.error
        /\ wrapper'.func = wrapper.func /\ wrapper'.fail # 0
    BY <1>1, <2>1, <2>2
  <2>4. todo'["user"] = todo["user"] /\ todo'["io"] = <<>>
    <3>1. todo'["user"] = todo["user"]
      BY <1>1, <1>2, <2>1, <2>2, Moves
    <3>2. todo'["io"] = <<>>
      BY <1>1, <1>2, <2>1, <2>2, OneGone
    <3>3. QED
      BY <3>1, <3>2
  <2>5. Waits /\ wrapper.func # 0 => Waits'
    BY <2>1, <2>3, <2>4 DEF Waits, Doing
  <2>6. Answered => Answered'
    BY <2>1, <2>4 DEF Answered, Doing
  <2>7. QED
    BY <1>1, <2>2, <2>3, <2>4, <2>5, <2>6
<1>14. QED
  BY <1>5, <1>6, <1>7, <1>8, <1>9, <1>10, <1>11, <1>12, <1>13

\* Every step keeps what answers once rests on.
LEMMA OnceStep ==
    ASSUME ReaderAssumption, IInv, Once, [Next]_vars
    PROVE  Once'
<1> SUFFICES ASSUME app' = {}
             PROVE  /\ todo'["user"] = <<>> /\ cur' # 2 /\ wrapper'.func # 2
                    /\ cur' = 1 /\ conn' = "reading" => Waits'
                    /\ cur' = 1 /\ conn' # "reading" => (Over \/ Continues \/ Fails \/ Answered)'
  BY DEF Once
<1>1. app = {}
  BY DEF Next, vars
<1>2. /\ TypeOK /\ Reading
      /\ todo["user"] = <<>> /\ cur # 2 /\ wrapper.func # 2
      /\ cur = 1 /\ conn = "reading" => Waits
      /\ cur = 1 /\ conn # "reading" => Over \/ Continues \/ Fails \/ Answered
  BY <1>1 DEF IInv, Once
<1>3. cur \in {0, 1}
  BY <1>2 DEF TypeOK
<1>4. todo \in [Threads -> Seq(StepRecords)] /\ "io" \in Threads /\ "user" \in Threads
  BY <1>2 DEF TypeOK, Threads
<1>5. CASE UNCHANGED vars
  <2>1. UNCHANGED <<conn, todo, cur, wrapper, calls, errors>>
    BY <1>5 DEF vars, state
  <2>2. Waits' = Waits /\ Over' = Over /\ Continues' = Continues /\ Fails' = Fails
        /\ Answered' = Answered
    BY <2>1 DEF Waits, Over, Continues, Fails, Answered, Doing
  <2>3. QED
    BY <1>2, <2>1, <2>2
<1>6. ASSUME NEW n \in 1 .. BufferSize, header_read_handler(n)
      PROVE  todo'["user"] = <<>> /\ cur' = 0 /\ wrapper' = wrapper
  <2>1. /\ cur = 0 /\ cur' = cur /\ wrapper' = wrapper
        /\ todo' = todo \/ todo' = [todo EXCEPT !["io"] = Chain(1)]
    BY <1>1, <1>6 DEF header_read_handler
  <2>2. QED
    BY <1>2, <1>4, <2>1
<1>7. ASSUME NEW n \in 1 .. BufferSize, body_read_handler(n)
      PROVE  /\ todo'["user"] = <<>> /\ cur' = 1 /\ wrapper' = wrapper
             /\ conn' = "reading" => Waits'
             /\ conn' # "reading" => Over'
  <2>1. /\ cur # 0 /\ cur' = cur /\ wrapper' = wrapper /\ calls' = calls /\ errors' = errors
        /\ conn = "reading" /\ todo["io"] = <<>>
        /\ \/ conn' = "idle" /\ todo' = [todo EXCEPT !["io"] = <<Its("fullfill")>>]
           \/ conn' = conn /\ todo' = todo
    BY <1>7 DEF body_read_handler, Receives, Its
  <2>2. cur = 1 /\ Waits
    BY <1>2, <1>3, <2>1
  <2>6. wrapper.func # 0 /\ wrapper.fail # 0
    BY <2>1, <2>2, WaitsAll
  <2>3. CASE conn' = "idle" /\ todo' = [todo EXCEPT !["io"] = <<Its("fullfill")>>]
    <3>1. todo'["io"] = <<Its("fullfill")>> /\ todo'["user"] = <<>>
      BY <1>2, <1>4, <2>3
    <3>2. Over'
      BY <2>1, <2>2, <2>6, <3>1 DEF Waits, Over, Doing
    <3>3. QED
      BY <2>1, <2>2, <2>3, <3>1, <3>2
  <2>4. CASE conn' = conn /\ todo' = todo
    <3>1. Waits'
      BY <2>1, <2>2, <2>4 DEF Waits, Doing
    <3>2. QED
      BY <1>2, <2>1, <2>2, <2>4, <3>1
  <2>5. QED
    BY <2>1, <2>3, <2>4
<1>8. ASSUME ReadFails
      PROVE  /\ todo'["user"] = <<>> /\ cur' # 2 /\ wrapper' = wrapper /\ conn' # "reading"
             /\ cur' = 1 => Over'
  <2>1. /\ conn = "reading" /\ conn' = "ended" /\ cur' = cur /\ wrapper' = wrapper
        /\ calls' = calls /\ errors' = errors
        /\ todo' = IF cur = 0 THEN todo ELSE [todo EXCEPT !["io"] = <<Its("fail")>>]
    BY <1>8 DEF ReadFails, Its
  <2>2. CASE cur = 0
    BY <1>2, <2>1, <2>2
  <2>3. CASE cur = 1
    <3>1. todo'["io"] = <<Its("fail")>> /\ todo'["user"] = <<>>
      BY <1>2, <1>4, <2>1, <2>3
    <3>2. Waits /\ todo["io"] = <<>>
      BY <1>2, <1>8, <2>1, <2>3 DEF ReadFails
    <3>3. wrapper.fail # 0
      BY <2>1, <3>2, WaitsAll
    <3>4. Over'
      BY <2>1, <3>1, <3>2, <3>3 DEF Waits, Over, Doing
    <3>5. QED
      BY <2>1, <2>3, <3>1, <3>4
  <2>4. QED
    BY <1>3, <2>2, <2>3
<1>9. ASSUME NEW t \in Threads, Steps(t)
      PROVE  t = "io"
  <2>1. todo[t] # <<>>
    BY <1>9 DEF Steps, At, read_body, fullfill, CallFunc, then, Store, Run, error, SetError,
                except, StoreFail
  <2>2. QED
    BY <1>2, <2>1 DEF Threads
<1>10. ASSUME read_body("io")
       PROVE  /\ todo'["user"] = <<>> /\ cur' = 1 /\ wrapper' = wrapper
              /\ conn' = "reading" => Waits'
              /\ conn' # "reading" => Over'
  <2>1. At("io", "read")
    BY <1>10 DEF read_body
  <2>2. cur = 0
    <3>1. SUFFICES ASSUME cur = 1 PROVE FALSE
      BY <1>3
    <3>2. QED
      BY <1>1, <2>1, <3>1, Rows
  <2>3. todo["io"] # <<>>
    BY <2>1 DEF At
  <2>4. todo["io"] = Chain(1) /\ Head(todo["io"]) = Step("read", 1) /\ conn = "idle"
    BY <1>2, <1>4, <2>2, <2>3, FirstStep
  <2>5. wrapper = NewWrapper /\ calls = <<>> /\ errors = <<>>
    BY <1>2, <2>2 DEF Reading
  <2>6. Mine("io") = 1
    BY <2>4 DEF Mine, Step
  <2>7. /\ cur' = 1 /\ UNCHANGED <<wrapper, calls, errors>>
        /\ \/ Go("io", <<Its("fail")>>) /\ conn' = "refused"
           \/ Go("io", <<Its("fullfill")>>) /\ conn' = conn
           \/ Go("io", <<>>) /\ conn' = "reading"
    BY <1>10, <2>6 DEF read_body, Its
  <2>8. Doing(<<Own("read"), Own("then"), Own("except")>>)
    BY <2>4 DEF Doing, Own, Chain
  <2>9. /\ Own("read") \in StepRecords /\ Own("then") \in StepRecords /\ Own("except") \in StepRecords
        /\ Its("fail") \in StepRecords /\ Its("fullfill") \in StepRecords
    BY OwnSteps DEF Mines, Others
  <2>10. /\ ~wrapper'.fullfilled /\ ~wrapper'.error /\ wrapper'.func = 0 /\ wrapper'.fail = 0
         /\ calls' = <<>> /\ errors' = <<>>
    BY <2>5, <2>7 DEF NewWrapper
  <2>11. CASE Go("io", <<Its("fail")>>) /\ conn' = "refused"
    <3>1. todo'["io"] = <<Its("fail"), Own("then"), Own("except")>> /\ todo'["user"] = todo["user"]
      BY <1>2, <2>8, <2>9, <2>11, ThreeNext
    <3>2. Over'
      BY <2>10, <3>1 DEF Over, Doing
    <3>3. QED
      BY <1>2, <2>7, <2>11, <3>1, <3>2
  <2>12. CASE Go("io", <<Its("fullfill")>>) /\ conn' = conn
    <3>1. todo'["io"] = <<Its("fullfill"), Own("then"), Own("except")>> /\ todo'["user"] = todo["user"]
      BY <1>2, <2>8, <2>9, <2>12, ThreeNext
    <3>2. Over'
      BY <2>10, <3>1 DEF Over, Doing
    <3>3. QED
      BY <1>2, <2>4, <2>7, <2>12, <3>1, <3>2
  <2>13. CASE Go("io", <<>>) /\ conn' = "reading"
    <3>1. todo'["io"] = <<Own("then"), Own("except")>> /\ todo'["user"] = todo["user"]
      BY <1>2, <2>8, <2>9, <2>13, ThreeGone
    <3>2. Waits'
      BY <2>10, <3>1 DEF Waits, Doing
    <3>3. QED
      BY <1>2, <2>7, <2>13, <3>1, <3>2
  <2>14. QED
    BY <2>7, <2>11, <2>12, <2>13
<1>11. ASSUME Steps("io"), ~read_body("io")
       PROVE  /\ todo'["user"] = <<>> /\ cur' = 1 /\ wrapper'.func # 2
              /\ conn' = "reading" => Waits'
              /\ conn' # "reading" => (Over \/ Continues \/ Fails \/ Answered)'
  <2>1. /\ fullfill("io") \/ CallFunc("io") \/ then("io") \/ Store("io") \/ Run("io")
              \/ error("io") \/ SetError("io") \/ except("io") \/ StoreFail("io")
        /\ cur' = cur /\ conn' = conn
    BY <1>11 DEF Steps, fullfill, CallFunc, then, Store, Run, error, SetError, except, StoreFail,
                 Quiet
  <2>2. todo["io"] # <<>> /\ Head(todo["io"]).do # "read"
    BY <2>1 DEF At, fullfill, CallFunc, then, Store, Run, error, SetError, except, StoreFail
  <2>3. cur = 1
    <3>1. SUFFICES ASSUME cur = 0 PROVE FALSE
      BY <1>3
    <3>2. Head(todo["io"]) = Step("read", 1)
      BY <1>2, <1>4, <2>2, <3>1, FirstStep
    <3>3. QED
      BY <2>2, <3>2 DEF Step
  <2>4. QED
    BY <1>1, <1>2, <2>1, <2>3, OnceKept
<1>12. CASE Next
  <2>1. CASE \E n \in 1 .. BufferSize : header_read_handler(n)
    BY <1>2, <1>6, <2>1
  <2>2. CASE \E n \in 1 .. BufferSize : body_read_handler(n)
    BY <1>2, <1>7, <2>2
  <2>3. CASE ReadFails
    BY <1>2, <1>8, <2>3
  <2>4. CASE \E t \in Threads : Steps(t)
    <3>1. Steps("io")
      BY <1>9, <2>4
    <3>2. CASE read_body("io")
      BY <1>2, <1>10, <3>2
    <3>3. CASE ~read_body("io")
      BY <1>11, <3>1, <3>3
    <3>4. QED
      BY <3>2, <3>3
  <2>5. QED
    BY <1>12, <2>1, <2>2, <2>3, <2>4 DEF Next
<1>13. QED
  BY <1>5, <1>12

\* callback_wrapper: an application that reads the body in its callback, once, is
\* answered once at most, by its continuation or by its error callback, whatever
\* comes and whenever the connection fails.
THEOREM AnsweredAtMostOnce == Spec => []AnsweredOnce
<1>1. Init => Once
  BY DEF Init, Once, NewWrapper, Threads
<1>2. ReaderAssumption /\ IInv /\ Once /\ [Next]_vars => Once'
  BY OnceStep
<1>3. IInv /\ Once => AnsweredOnce
  <2>1. SUFFICES ASSUME IInv, Once, app = {} PROVE Len(calls) + Len(errors) <= 1
    BY DEF AnsweredOnce
  <2>2. CASE calls = <<>> /\ errors = <<>>
    <3>1. Len(calls) = 0 /\ Len(errors) = 0
      BY <2>2
    <3>2. QED
      BY <3>1
  <2>3. CASE Answered
    <3>1. Len(calls) + Len(errors) = 1
      BY <2>3 DEF Answered
    <3>2. QED
      BY <3>1
  <2>4. cur \in {0, 1}
    BY <2>1 DEF IInv, TypeOK, Once
  <2>5. cur = 0 => calls = <<>> /\ errors = <<>>
    BY <2>1 DEF IInv, Reading
  <2>6. cur = 1 => Waits \/ Over \/ Continues \/ Fails \/ Answered
    BY <2>1 DEF Once
  <2>7. Waits \/ Over \/ Continues \/ Fails => calls = <<>> /\ errors = <<>>
    BY DEF Waits, Over, Continues, Fails
  <2>8. QED
    BY <2>2, <2>3, <2>4, <2>5, <2>6, <2>7
<1>4. QED
  BY <1>1, <1>2, <1>3, ReaderAssumption, Invariance, PTL DEF Spec

\* callback_wrapper: nobody waits in vain.  When an application that reads the body in
\* its callback, once, has no read pending and nothing is left to do, it was answered.
BodyNotForgotten ==
    cur = 1 /\ app = {} /\ conn # "reading" /\ (\A t \in Threads : todo[t] = <<>>) =>
        calls # <<>> \/ errors # <<>>

\* No order of the registration and the end of the read loses the answer: what
\* BodyIsAnswered needs besides fairness.
THEOREM NobodyForgotten == Spec => []BodyNotForgotten
<1>1. Init => Once
  BY DEF Init, Once, NewWrapper, Threads
<1>2. ReaderAssumption /\ IInv /\ Once /\ [Next]_vars => Once'
  BY OnceStep
<1>3. IInv /\ Once => BodyNotForgotten
  <2>1. SUFFICES ASSUME Once, cur = 1, app = {}, conn # "reading", todo["io"] = <<>>
                 PROVE  calls # <<>> \/ errors # <<>>
    BY DEF BodyNotForgotten, Threads
  <2>2. Over \/ Continues \/ Fails \/ Answered
    BY <2>1 DEF Once
  <2>3. \A a, b, c : <<a>> # <<>> /\ <<a, b>> # <<>> /\ <<a, b, c>> # <<>>
    OBVIOUS
  <2>4. ~Over /\ ~Continues /\ ~Fails
    BY <2>1, <2>3 DEF Over, Continues, Fails, Doing
  <2>5. Len(calls) + Len(errors) = 1
    BY <2>2, <2>4 DEF Answered
  <2>6. calls = <<>> /\ errors = <<>> => Len(calls) = 0 /\ Len(errors) = 0
    OBVIOUS
  <2>7. QED
    BY <2>5, <2>6
<1>4. QED
  BY <1>1, <1>2, <1>3, ReaderAssumption, Invariance, PTL DEF Spec

\* feed(): whatever pieces the request comes in, a header that is taken ends where the
\* first "\r\n\r\n" of the whole input does, and the buffer goes on with the body.
HeaderEndFound == cur = 0 /\ finished(parser) /\ ~parser.refused => parser.at = HeaderLength

\* The parser of a peer's header stops at its end, for every input and every cut.
THEOREM HeaderEndsWhereItDoes == Spec => []HeaderEndFound
<1>1. IInv => HeaderEndFound
  <2>1. SUFFICES ASSUME IInv, cur = 0, finished(parser), ~parser.refused
                 PROVE  parser.at = HeaderLength
    BY DEF HeaderEndFound
  <2>2. Stands(parser) /\ parser.at \in Nat
    BY <2>1 DEF IInv, Reading, ParserOK
  <2>3. EndsHeader(parser.at) /\ \A i \in 1 .. parser.at - 1 : ~EndsHeader(i)
    BY <2>1, <2>2 DEF Stands, finished
  <2>4. QED
    BY <2>2, <2>3, HeaderEndsThere
<1>2. QED
  BY <1>1, Invariance, PTL

-----------------------------------------------------------------------------
(* The url.                                                                *)

\* Part of a sequence.
LEMMA Part ==
    ASSUME NEW S, NEW s \in Seq(S), NEW a \in Nat, NEW b \in Nat, a >= 1, b <= Len(s)
    PROVE  /\ SubSeq(s, a, b) \in Seq(S)
           /\ Len(SubSeq(s, a, b)) = IF a <= b THEN b - a + 1 ELSE 0
           /\ \A i \in 1 .. b - a + 1 : SubSeq(s, a, b)[i] = s[a + i - 1]
<1>1. \A i \in a .. b : s[i] \in S
  BY LenProperties
<1>2. QED
  BY <1>1, SubSeqProperties

\* Where a byte is first, or behind the end when it is not there.
LEMMA FirstIs ==
    ASSUME NEW S, NEW s \in Seq(S), NEW b
    PROVE  /\ First(s, b) \in 1 .. Len(s) + 1 /\ First(s, b) \in Nat
           /\ First(s, b) <= Len(s) => s[First(s, b)] = b
           /\ \A i \in DOMAIN s : s[i] = b => First(s, b) <= i
<1> DEFINE places == {i \in DOMAIN s : s[i] = b} \cup {Len(s) + 1}
<1>1. Len(s) \in Nat /\ DOMAIN s = 1 .. Len(s)
  BY LenProperties
<1>2. places \subseteq Nat /\ places # {}
  BY <1>1
<1>3. First(s, b) \in places /\ \A i \in places : First(s, b) <= i
  BY <1>2, MinIsLeast DEF First
<1>4. QED
  BY <1>1, <1>3

\* It is the same for two sequences that have the byte at the same places.
LEMMA SameFirst ==
    ASSUME NEW S, NEW s \in Seq(S), NEW t \in Seq(S), NEW b, Len(s) = Len(t),
           \A i \in DOMAIN s : s[i] = b <=> t[i] = b
    PROVE  First(s, b) = First(t, b)
<1>1. DOMAIN s = DOMAIN t
  BY LenProperties
<1>2. {i \in DOMAIN s : s[i] = b} = {i \in DOMAIN t : t[i] = b}
  BY <1>1
<1>3. QED
  BY <1>2 DEF First

Separators == {"?", "&", ";", "="}

\* decode_url goes byte by byte, and leaves the separators where they are.
LEMMA Decoded ==
    ASSUME NEW s \in Seq(Bytes), ~Contains(s, "%amp")
    PROVE  /\ decode_url(s) \in Seq(Bytes) /\ Len(decode_url(s)) = Len(s)
           /\ DOMAIN decode_url(s) = DOMAIN s
           /\ \A i \in DOMAIN s : /\ decode_url(s)[i] = Unescaped[s[i]]
                                  /\ \A b \in Separators : decode_url(s)[i] = b <=> s[i] = b
<1>1. Len(s) \in Nat /\ DOMAIN s = 1 .. Len(s) /\ \A i \in 1 .. Len(s) : s[i] \in Bytes
  BY LenProperties
<1>2. \A i \in 1 .. Len(s) : s[i] # "%amp"
  BY DEF Contains
<1>3. \A b \in Bytes : Unescaped[b] = CASE b = "%amp" -> "&" [] b = "%a" -> "a" [] OTHER -> b
  BY DEF Unescaped
<1>4. \A b \in Bytes : Unescaped[b] \in Bytes
  BY <1>3 DEF Bytes, Alnum
<1>5. ASSUME NEW b \in Bytes, b # "%amp", NEW c \in Separators PROVE Unescaped[b] = c <=> b = c
  BY <1>3, <1>5 DEF Separators
<1>6. decode_url(s) = [i \in 1 .. Len(s) |-> Unescaped[s[i]]]
  BY <1>1 DEF decode_url
<1> HIDE DEF decode_url
<1>7. decode_url(s) \in Seq(Bytes)
  <2>1. \A i \in 1 .. Len(s) : Unescaped[s[i]] \in Bytes
    BY <1>1, <1>4
  <2>2. [i \in 1 .. Len(s) |-> Unescaped[s[i]]] \in Seq(Bytes)
    BY <1>1, <2>1, IsASeq
  <2>3. QED
    BY <1>6, <2>2
<1>8. DOMAIN decode_url(s) = 1 .. Len(s) /\ \A i \in 1 .. Len(s) : decode_url(s)[i] = Unescaped[s[i]]
  BY <1>6
<1>9. Len(decode_url(s)) = Len(s)
  <2>1. 1 .. Len(decode_url(s)) = 1 .. Len(s) /\ Len(decode_url(s)) \in Nat
    BY <1>7, <1>8, LenProperties
  <2>2. QED
    BY <1>1, <2>1
<1>10. \A i \in 1 .. Len(s) : \A b \in Separators : decode_url(s)[i] = b <=> s[i] = b
  BY <1>1, <1>2, <1>5, <1>8
<1>11. QED
  BY <1>1, <1>7, <1>8, <1>9, <1>10

\* A part of what is decoded is the decoded part.
LEMMA DecodedPart ==
    ASSUME NEW s \in Seq(Bytes), ~Contains(s, "%amp"),
           NEW a \in Nat, NEW b \in Nat, a >= 1, b <= Len(s)
    PROVE  /\ SubSeq(s, a, b) \in Seq(Bytes) /\ ~Contains(SubSeq(s, a, b), "%amp")
           /\ SubSeq(decode_url(s), a, b) = decode_url(SubSeq(s, a, b))
<1> DEFINE part == SubSeq(s, a, b)  d == decode_url(s)  e == SubSeq(d, a, b)
           n == IF a <= b THEN b - a + 1 ELSE 0
<1>1. /\ part \in Seq(Bytes) /\ Len(part) = n
      /\ \A i \in 1 .. b - a + 1 : part[i] = s[a + i - 1]
  BY Part
<1>2. /\ d \in Seq(Bytes) /\ Len(d) = Len(s) /\ DOMAIN d = DOMAIN s
      /\ \A i \in DOMAIN s : d[i] = Unescaped[s[i]]
  BY Decoded
<1> HIDE DEF d, part
<1>3. /\ e \in Seq(Bytes) /\ Len(e) = n
      /\ \A i \in 1 .. b - a + 1 : e[i] = d[a + i - 1]
  BY <1>2, Part
<1> HIDE DEF e
<1>4. Len(s) \in Nat /\ DOMAIN s = 1 .. Len(s) /\ DOMAIN part = 1 .. Len(part)
  BY <1>1, LenProperties
<1>5. ASSUME NEW i \in 1 .. n
      PROVE  i \in 1 .. b - a + 1 /\ a + i - 1 \in 1 .. Len(s)
  BY <1>4
<1>6. ~Contains(part, "%amp")
  <2>1. ASSUME NEW i \in 1 .. n PROVE part[i] # "%amp"
    <3>1. PICK j \in 1 .. Len(s) : j = a + i - 1
      BY <1>5
    <3>2. s[j] # "%amp"
      BY DEF Contains
    <3>3. QED
      BY <1>1, <1>5, <3>1, <3>2
  <2>2. QED
    BY <1>1, <2>1 DEF Contains
<1>7. /\ decode_url(part) \in Seq(Bytes) /\ Len(decode_url(part)) = n
      /\ \A i \in 1 .. n : decode_url(part)[i] = Unescaped[part[i]]
  BY ZenonT(40), <1>1, <1>4, <1>6, Decoded
<1>8. ASSUME NEW i \in 1 .. n PROVE e[i] = decode_url(part)[i]
  <2>1. PICK j \in 1 .. Len(s) : j = a + i - 1 /\ i \in 1 .. b - a + 1
    BY <1>5
  <2>2. e[i] = d[j] /\ part[i] = s[j] /\ d[j] = Unescaped[s[j]]
    BY <1>1, <1>2, <1>3, <1>4, <2>1
  <2>3. QED
    BY <1>7, <2>2
<1>9. e = decode_url(part)
  <2> HIDE DEF n
  <2>1. QED
    BY <1>3, <1>7, <1>8, SeqEqual
<1>10. QED
  BY <1>1, <1>6, <1>9 DEF part, e, d

\* The key and the value of what is decoded are the decoded ones.
LEMMA DecodedPair ==
    ASSUME NEW s \in Seq(Bytes), ~Contains(s, "%amp")
    PROVE  /\ Key(decode_url(s)) = decode_url(Key(s))
           /\ Value(decode_url(s)) = decode_url(Value(s))
<1> DEFINE d == decode_url(s)  f == First(s, "=")
<1>1. /\ d \in Seq(Bytes) /\ Len(d) = Len(s) /\ DOMAIN d = DOMAIN s
      /\ \A i \in DOMAIN s : d[i] = "=" <=> s[i] = "="
  <2>1. "=" \in Separators
    BY DEF Separators
  <2>2. QED
    BY <2>1, Decoded
<1> HIDE DEF d
<1>2. First(d, "=") = f
  BY <1>1, SameFirst
<1>3. f \in 1 .. Len(s) + 1 /\ f \in Nat
  BY FirstIs
<1> HIDE DEF f
<1>4. Len(s) \in Nat
  BY LenProperties
<1>5. SubSeq(d, 1, f - 1) = decode_url(SubSeq(s, 1, f - 1))
  <2>1. 1 \in Nat /\ 1 >= 1 /\ f - 1 \in Nat /\ f - 1 <= Len(s)
    BY <1>3, <1>4
  <2>2. QED
    BY <2>1, DecodedPart DEF d
<1>6. SubSeq(d, f + 1, Len(s)) = decode_url(SubSeq(s, f + 1, Len(s)))
  <2>1. f + 1 \in Nat /\ f + 1 >= 1 /\ Len(s) <= Len(s)
    BY <1>3, <1>4
  <2>2. QED
    BY <1>4, <2>1, DecodedPart DEF d
<1>7. Key(d) = SubSeq(d, 1, f - 1) /\ Value(d) = SubSeq(d, f + 1, Len(s))
  BY <1>1, <1>2 DEF Key, Value
<1>8. Key(s) = SubSeq(s, 1, f - 1) /\ Value(s) = SubSeq(s, f + 1, Len(s))
  BY DEF Key, Value, f
<1>9. QED
  BY <1>5, <1>6, <1>7, <1>8 DEF d

\* Where a sequence is cut, and the cut that ends the piece beginning at i.
Cuts(s, seps) == {i \in DOMAIN s : s[i] \in seps}
Till(s, seps, i) == Min({c \in Cuts(s, seps) : c >= i} \cup {Len(s) + 1})

\* What the pieces of a sequence are: its parts between the cuts.
Chopped(s, seps) ==
    /\ DOMAIN Pieces(s, seps) = {1} \cup {c + 1 : c \in Cuts(s, seps)}
    /\ DOMAIN Pieces(s, seps) \subseteq 1 .. Len(s) + 1
    /\ \A i \in DOMAIN Pieces(s, seps) :
           /\ Till(s, seps, i) \in i .. Len(s) + 1
           /\ Till(s, seps, i) <= Len(s) => s[Till(s, seps, i)] \in seps
           /\ \A k \in i .. Till(s, seps, i) - 1 : s[k] \notin seps
           /\ Pieces(s, seps)[i] = SubSeq(s, i, Till(s, seps, i) - 1)

\* Pieces cuts a sequence at the separators.
LEMMA PiecesAre ==
    ASSUME NEW S, NEW s \in Seq(S), NEW seps
    PROVE  Chopped(s, seps)
<1> DEFINE cuts == Cuts(s, seps)
           till(i) == Till(s, seps, i)
<1>1. Len(s) \in Nat /\ DOMAIN s = 1 .. Len(s)
  BY LenProperties
<1>2. Pieces(s, seps) = [i \in {1} \cup {c + 1 : c \in cuts} |-> SubSeq(s, i, till(i) - 1)]
  BY DEF Pieces, Cuts, Till
<1>3. cuts \subseteq 1 .. Len(s)
  BY <1>1 DEF Cuts
<1>4. {1} \cup {c + 1 : c \in cuts} \subseteq 1 .. Len(s) + 1
  BY <1>1, <1>3
<1>5. ASSUME NEW i \in 1 .. Len(s) + 1
      PROVE  /\ till(i) \in i .. Len(s) + 1
             /\ till(i) <= Len(s) => s[till(i)] \in seps
             /\ \A k \in i .. till(i) - 1 : s[k] \notin seps
  <2> DEFINE ends == {c \in cuts : c >= i} \cup {Len(s) + 1}
  <2>1. ends \subseteq Nat /\ ends # {} /\ Len(s) + 1 \in ends
    BY <1>1, <1>3
  <2>2. till(i) \in ends /\ \A m \in ends : till(i) <= m
    <3>1. till(i) = Min(ends)
      BY DEF Till
    <3> HIDE DEF ends, till
    <3>2. QED
      BY <2>1, <3>1, MinIsLeast
  <2> HIDE DEF till
  <2>3. till(i) \in i .. Len(s) + 1
    BY <1>1, <1>3, <2>1, <2>2
  <2>4. till(i) <= Len(s) => s[till(i)] \in seps
    BY <1>1, <2>2, <2>3 DEF Cuts
  <2>5. ASSUME NEW k \in i .. till(i) - 1, s[k] \in seps PROVE FALSE
    <3>1. k \in DOMAIN s /\ k >= i /\ k < till(i)
      BY <1>1, <2>3
    <3>2. k \in ends
      BY <2>5, <3>1 DEF Cuts
    <3>3. QED
      BY <2>2, <2>3, <3>1, <3>2
  <2>6. QED
    BY <2>3, <2>4, <2>5
<1> HIDE DEF till, cuts
<1>6. /\ DOMAIN Pieces(s, seps) = {1} \cup {c + 1 : c \in cuts}
      /\ \A i \in {1} \cup {c + 1 : c \in cuts} :
             Pieces(s, seps)[i] = SubSeq(s, i, till(i) - 1)
  BY <1>2
<1>7. QED
  BY <1>4, <1>5, <1>6 DEF till, cuts, Chopped

\* The pieces of what is decoded are the decoded pieces.
LEMMA DecodedPieces ==
    ASSUME NEW s \in Seq(Bytes), ~Contains(s, "%amp")
    PROVE  LET old == Pieces(s, {"&", ";"})
               new == Pieces(decode_url(s), {"&", ";"})
           IN /\ DOMAIN new = DOMAIN old /\ DOMAIN old \subseteq Nat
              /\ \A i \in DOMAIN old : /\ new[i] = decode_url(old[i])
                                       /\ old[i] \in Seq(Bytes) /\ ~Contains(old[i], "%amp")
<1> DEFINE seps == {"&", ";"}
           d == decode_url(s)
           old == Pieces(s, seps)
           new == Pieces(d, seps)
           till(i) == Till(s, seps, i)
<1>1. /\ d \in Seq(Bytes) /\ Len(d) = Len(s) /\ DOMAIN d = DOMAIN s
      /\ \A i \in DOMAIN s : d[i] \in seps <=> s[i] \in seps
  <2>1. seps \subseteq Separators
    BY DEF Separators
  <2>2. QED
    BY ZenonT(40), <2>1, Decoded
<1>2. Len(s) \in Nat
  BY LenProperties
<1> HIDE DEF d, seps
<1>3. Cuts(d, seps) = Cuts(s, seps)
  BY <1>1 DEF Cuts
<1>4. \A i : Till(d, seps, i) = till(i)
  BY <1>1, <1>3 DEF Till
<1>5. Chopped(s, seps) /\ Chopped(d, seps)
  BY <1>1, PiecesAre
<1>6. /\ DOMAIN old = {1} \cup {c + 1 : c \in Cuts(s, seps)}
      /\ DOMAIN old \subseteq 1 .. Len(s) + 1
      /\ \A i \in DOMAIN old : till(i) \in i .. Len(s) + 1 /\ old[i] = SubSeq(s, i, till(i) - 1)
  BY <1>5, Zenon DEF Chopped
<1>7. /\ DOMAIN new = {1} \cup {c + 1 : c \in Cuts(s, seps)}
      /\ \A i \in DOMAIN new : new[i] = SubSeq(d, i, till(i) - 1)
  BY <1>3, <1>4, <1>5, Zenon DEF Chopped
<1> HIDE DEF till, old, new
<1>8. DOMAIN new = DOMAIN old /\ DOMAIN old \subseteq Nat
  BY <1>2, <1>6, <1>7
<1>9. ASSUME NEW i \in DOMAIN old
      PROVE  new[i] = decode_url(old[i]) /\ old[i] \in Seq(Bytes) /\ ~Contains(old[i], "%amp")
  <2>1. i \in Nat /\ i >= 1 /\ till(i) - 1 \in Nat /\ till(i) - 1 <= Len(s)
    <3>1. i \in 1 .. Len(s) + 1 /\ till(i) \in i .. Len(s) + 1
      BY <1>6
    <3>2. QED
      BY <1>2, <3>1
  <2>2. PICK t \in Nat : t = till(i) - 1
    BY <2>1
  <2>3. /\ SubSeq(s, i, t) \in Seq(Bytes) /\ ~Contains(SubSeq(s, i, t), "%amp")
        /\ SubSeq(d, i, t) = decode_url(SubSeq(s, i, t))
    BY <2>1, <2>2, DecodedPart DEF d
  <2>4. new[i] = SubSeq(d, i, t) /\ old[i] = SubSeq(s, i, t)
    BY <1>6, <1>7, <1>8, <2>2
  <2>5. QED
    BY <2>3, <2>4
<1>10. QED
  BY <1>8, <1>9 DEF old, new, d, seps

\* Of the pairs with one key the last one stays.
LEMMA LastPair ==
    ASSUME NEW pieces, DOMAIN pieces \subseteq Nat, NEW i \in DOMAIN pieces,
           \A j \in DOMAIN pieces : Key(pieces[j]) = Key(pieces[i]) => j <= i
    PROVE  Pairs(pieces)[Key(pieces[i])] = Value(pieces[i])
<1> DEFINE k == Key(pieces[i])
           same == {j \in DOMAIN pieces : Key(pieces[j]) = k}
<1>1. i \in same /\ same \subseteq Nat /\ \A j \in same : i >= j
  OBVIOUS
<1>2. Max(same) = i
  <2> HIDE DEF same
  <2>1. Max(same) \in same /\ \A j \in same : Max(same) >= j
    BY <1>1 DEF Max
  <2>2. QED
    BY <1>1, <2>1
<1>3. k \in {Key(pieces[j]) : j \in DOMAIN pieces}
  OBVIOUS
<1>4. Pairs(pieces)[k] = Value(pieces[Max(same)])
  BY <1>3 DEF Pairs
<1>5. QED
  BY <1>2, <1>4

\* What UrlMeansWhatItEscapes says of one url.
UrlMeans(url) ==
    LET mark  == First(url, "?")
        query == SubSeq(url, mark + 1, Len(url))
        pairs == Pieces(query, {"&", ";"})
    IN ~Contains(url, "%amp") /\ ~Contains(query, "?") =>
           /\ parse_url(url).path = decode_url(SubSeq(url, 1, mark - 1))
           /\ mark <= Len(url) => \A i \in DOMAIN pairs :
                  LET key == decode_url(Key(pairs[i]))
                  IN (\A j \in DOMAIN pairs : decode_url(Key(pairs[j])) = key => j <= i) =>
                         parse_url(url).query[key] = decode_url(Value(pairs[i]))

\* parse_url(): the path and the values of the query are what was escaped.
LEMMA UrlParsed ==
    ASSUME NEW url \in Seq(Bytes)
    PROVE  UrlMeans(url)
<1> DEFINE mark  == First(url, "?")
           query == SubSeq(url, mark + 1, Len(url))
           seps  == {"&", ";"}
           pairs == Pieces(query, seps)
           marks == {i \in DOMAIN url : url[i] = "?"}
           got   == Pieces(decode_url(query), seps)
<1>1. SUFFICES ASSUME ~Contains(url, "%amp"), ~Contains(query, "?")
      PROVE  /\ parse_url(url).path = decode_url(SubSeq(url, 1, mark - 1))
             /\ mark <= Len(url) => \A i \in DOMAIN pairs :
                    (\A j \in DOMAIN pairs :
                        decode_url(Key(pairs[j])) = decode_url(Key(pairs[i])) => j <= i) =>
                    parse_url(url).query[decode_url(Key(pairs[i]))] = decode_url(Value(pairs[i]))
  BY DEF UrlMeans
<1>2. Len(url) \in Nat /\ DOMAIN url = 1 .. Len(url)
  BY LenProperties
<1>3. /\ mark \in 1 .. Len(url) + 1 /\ mark \in Nat
      /\ mark <= Len(url) => url[mark] = "?"
      /\ \A i \in DOMAIN url : url[i] = "?" => mark <= i
  BY FirstIs
<1>4. CASE mark > Len(url)
  <2>1. marks = {}
    BY <1>2, <1>3, <1>4
  <2>2. parse_url(url).path = decode_url(url)
    BY <2>1 DEF parse_url
  <2>3. SubSeq(url, 1, mark - 1) = url
    <3>1. mark - 1 = Len(url)
      BY <1>2, <1>3, <1>4
    <3>2. /\ SubSeq(url, 1, Len(url)) \in Seq(Bytes) /\ Len(SubSeq(url, 1, Len(url))) = Len(url)
          /\ \A i \in 1 .. Len(url) : SubSeq(url, 1, Len(url))[i] = url[i]
      <4>1. \A i \in 1 .. Len(url) : url[i] \in Bytes
        BY <1>2, LenProperties
      <4>2. 1 \in Int /\ Len(url) \in Int /\ Len(url) - 1 + 1 = Len(url)
        BY <1>2
      <4>3. /\ SubSeq(url, 1, Len(url)) \in Seq(Bytes)
            /\ Len(SubSeq(url, 1, Len(url))) = IF 1 <= Len(url) THEN Len(url) - 1 + 1 ELSE 0
            /\ \A i \in 1 .. Len(url) - 1 + 1 : SubSeq(url, 1, Len(url))[i] = url[1 + i - 1]
        BY <4>1, <4>2, SubSeqProperties
      <4>4. \A i \in 1 .. Len(url) : SubSeq(url, 1, Len(url))[i] = url[i]
        <5>1. ASSUME NEW i \in 1 .. Len(url) PROVE 1 + i - 1 = i /\ i \in 1 .. Len(url) - 1 + 1
          BY <1>2
        <5>2. QED
          BY <4>3, <5>1
      <4>5. QED
        BY <1>2, <4>3, <4>4
    <3>3. SubSeq(url, 1, Len(url)) = url
      BY <3>2, SeqEqual
    <3>4. QED
      BY <3>1, <3>3
  <2>4. ~(mark <= Len(url))
    BY <1>2, <1>3, <1>4
  <2> HIDE DEF mark, query, pairs, marks
  <2>5. QED
    BY <2>2, <2>3, <2>4
<1>5. CASE mark <= Len(url)
  <2>1. marks = {mark}
    <3>1. ASSUME NEW i \in marks, i # mark PROVE FALSE
      <4>1. i > mark /\ i \in Nat /\ i <= Len(url) /\ url[i] = "?"
        BY <1>2, <1>3, <3>1
      <4>2. /\ Len(query) = Len(url) - mark
            /\ \A k \in 1 .. Len(url) - mark : query[k] = url[mark + k]
        <5>1. /\ Len(query) = IF mark + 1 <= Len(url) THEN Len(url) - (mark + 1) + 1 ELSE 0
              /\ \A k \in 1 .. Len(url) - (mark + 1) + 1 : query[k] = url[mark + 1 + k - 1]
          <6>1. mark + 1 \in Nat /\ mark + 1 >= 1 /\ Len(url) <= Len(url)
            BY <1>2, <1>3
          <6>2. QED
            BY <1>2, <6>1, Part
        <5>2. Len(query) = Len(url) - mark
          BY <1>2, <1>3, <1>5, <5>1
        <5>3. ASSUME NEW k \in 1 .. Len(url) - mark
              PROVE  mark + 1 + k - 1 = mark + k /\ k \in 1 .. Len(url) - (mark + 1) + 1
          BY <1>2, <1>3
        <5> HIDE DEF query, mark
        <5>4. QED
          BY <5>1, <5>2, <5>3
      <4>3. PICK k \in 1 .. Len(url) - mark : k = i - mark /\ mark + k = i
        BY <1>2, <1>3, <4>1
      <4>4. query[k] = "?" /\ k \in 1 .. Len(query)
        BY <4>1, <4>2, <4>3
      <4>5. QED
        BY <1>1, <4>4 DEF Contains
    <3>2. mark \in marks
      BY <1>2, <1>3, <1>5
    <3> HIDE DEF marks
    <3>3. QED
      BY <3>1, <3>2
  <2>2. Max(marks) = mark
    <3>1. Max({mark}) = mark
      <4> HIDE DEF mark
      <4>1. mark \in {mark} /\ \A y \in {mark} : mark >= y
        BY <1>3
      <4>2. Max({mark}) \in {mark}
        BY <4>1 DEF Max
      <4>3. QED
        BY <4>2
    <3> HIDE DEF marks, mark
    <3>2. QED
      BY <2>1, <3>1
  <2>3. /\ parse_url(url).path = decode_url(SubSeq(url, 1, mark - 1))
        /\ parse_url(url).query = Pairs(Pieces(decode_url(query), seps))
    <3>1. marks # {}
      BY <2>1
    <3>2. parse_url(url) =
              [path  |-> decode_url(SubSeq(url, 1, Max(marks) - 1)),
               query |-> parse_query(decode_url(SubSeq(url, Max(marks) + 1, Len(url))))]
      BY <3>1, Zenon DEF parse_url
    <3>3. parse_url(url) =
              [path  |-> decode_url(SubSeq(url, 1, mark - 1)),
               query |-> parse_query(decode_url(query))]
      <4> HIDE DEF marks, mark
      <4>1. QED
        BY <2>2, <3>2, Zenon
    <3>4. parse_query(decode_url(query)) = Pairs(Pieces(decode_url(query), seps))
      BY Zenon DEF parse_query
    <3> HIDE DEF marks, mark, query, seps
    <3>5. QED
      BY <3>3, <3>4
  <2>4. query \in Seq(Bytes) /\ ~Contains(query, "%amp")
    <3>1. mark + 1 \in Nat /\ mark + 1 >= 1 /\ Len(url) <= Len(url)
      BY <1>2, <1>3
    <3>2. QED
      BY <1>1, <1>2, <3>1, DecodedPart
  <2> HIDE DEF query
  <2>5. /\ DOMAIN got = DOMAIN pairs /\ DOMAIN pairs \subseteq Nat
        /\ \A i \in DOMAIN pairs : /\ got[i] = decode_url(pairs[i])
                                   /\ pairs[i] \in Seq(Bytes) /\ ~Contains(pairs[i], "%amp")
    BY <2>4, DecodedPieces
  <2> HIDE DEF got, pairs
  <2>6. ASSUME NEW i \in DOMAIN pairs
        PROVE  /\ Key(got[i]) = decode_url(Key(pairs[i]))
               /\ Value(got[i]) = decode_url(Value(pairs[i]))
    BY <2>5, DecodedPair
  <2>7. ASSUME NEW i \in DOMAIN pairs,
               \A j \in DOMAIN pairs :
                   decode_url(Key(pairs[j])) = decode_url(Key(pairs[i])) => j <= i
        PROVE  parse_url(url).query[decode_url(Key(pairs[i]))] = decode_url(Value(pairs[i]))
    <3>1. i \in DOMAIN got /\ \A j \in DOMAIN got : Key(got[j]) = Key(got[i]) => j <= i
      BY <2>5, <2>6, <2>7
    <3>2. Pairs(got)[Key(got[i])] = Value(got[i])
      BY <2>5, <3>1, LastPair
    <3>3. parse_url(url).query = Pairs(got)
      BY <2>3 DEF got
    <3>4. QED
      BY <2>6, <3>2, <3>3
  <2>8. QED
    BY <2>3, <2>7
<1>6. mark > Len(url) \/ mark <= Len(url)
  BY <1>2, <1>3
<1> HIDE DEF mark, query, pairs, got, marks
<1>7. QED
  BY <1>4, <1>5, <1>6

\* A turn of feed's loop does not touch the words of the request line.
LEMMA LineKeepsWords ==
    ASSUME NEW p, DOMAIN p = ParserFields, NEW q, q = TakeLine(input, p)
    PROVE  DOMAIN q = ParserFields /\ q.url = p.url /\ q.method = p.method
<1>1. CASE q = p
  BY <1>1
<1>2. CASE q # p
  <2> DEFINE r == AfterLine(input, p)
             line == Line(input, p)
             added == [r EXCEPT !.fields = @ + 1]
             value == TrimLeft(SubSeq(line, First(line, "colon") + 1, Len(line)))
             number == Number(Trim(value))
  <2>1. \/ q = [r EXCEPT !.progress = "body"] \/ q = Refuse(r) \/ q = add_field(r, line)
    BY <1>2 DEF TakeLine
  <2>2. \/ add_field(r, line) = Refuse(added)
        \/ add_field(r, line) = [added EXCEPT !.length = number]
        \/ add_field(r, line) = [added EXCEPT !.cookies = Inserted(@, parse_cookies(value))]
        \/ add_field(r, line) = added
    BY DEF add_field
  <2>3. DOMAIN r = ParserFields /\ r.url = p.url /\ r.method = p.method
    BY DEF AfterLine, ParserFields
  <2> HIDE DEF r, line, value, number
  <2>4. DOMAIN added = ParserFields /\ added.url = p.url /\ added.method = p.method
    BY <2>3 DEF ParserFields
  <2> HIDE DEF added
  <2>5. CASE q = [r EXCEPT !.progress = "body"] \/ q = Refuse(r)
    BY <2>3, <2>5 DEF Refuse, ParserFields
  <2>6. CASE q = Refuse(added)
    BY <2>4, <2>6 DEF Refuse, ParserFields
  <2>7. CASE q = [added EXCEPT !.length = number]
    BY <2>4, <2>7 DEF ParserFields
  <2>8. CASE q = [added EXCEPT !.cookies = Inserted(@, parse_cookies(value))]
    BY <2>4, <2>8 DEF ParserFields
  <2>9. CASE q = added
    BY <2>4, <2>9
  <2>10. QED
    BY <2>1, <2>2, <2>5, <2>6, <2>7, <2>8, <2>9
<1>3. QED
  BY <1>1, <1>2

\* Nor does the whole loop.
LEMMA LinesKeepWords ==
    ASSUME NEW p, DOMAIN p = ParserFields, p.at \in Nat, p.end \in Nat,
           NEW q, q = TakeLines(input, p)
    PROVE  DOMAIN q = ParserFields /\ q.url = p.url /\ q.method = p.method
<1>1. PICK turns : /\ turns[0] = p
                   /\ \A n \in Nat : turns[n + 1] = TakeLine(input, turns[n])
                   /\ \E n \in Nat : q = turns[n]
  <2>1. PICK turns : /\ turns[0] = p
                     /\ \A n \in Nat : turns[n + 1] = TakeLine(input, turns[n])
                     /\ Cardinality(LineEnds(input, p)) \in Nat
                     /\ TakeLines(input, p) = turns[Cardinality(LineEnds(input, p))]
    BY Loop
  <2>2. \E n \in Nat : q = turns[n]
    BY <2>1
  <2>3. QED
    BY <2>1, <2>2
<1> DEFINE Good(n) == /\ DOMAIN turns[n] = ParserFields
                      /\ turns[n].url = p.url /\ turns[n].method = p.method
           Bad == {n \in Nat : ~Good(n)}
<1>2. ASSUME Bad # {} PROVE FALSE
  <2>1. PICK n \in Bad : \A m \in Bad : n <= m
    BY <1>2, Least
  <2>2. n # 0
    BY <1>1
  <2>3. PICK m \in Nat : n = m + 1 /\ m \notin Bad
    <3>1. n - 1 \in Nat /\ n = (n - 1) + 1 /\ n - 1 \notin Bad
      BY <2>1, <2>2
    <3>2. QED
      BY <3>1
  <2>4. turns[n] = TakeLine(input, turns[m])
    BY <1>1, <2>3
  <2>5. Good(m)
    BY <2>3
  <2>6. Good(n)
    BY <2>4, <2>5, LineKeepsWords
  <2>7. QED
    BY <2>6
<1>3. \A n \in Nat : Good(n)
  BY <1>2
<1>4. QED
  BY <1>1, <1>3

\* The url is a sequence of bytes.
Typed(p) == DOMAIN p = ParserFields /\ p.url \in Seq(Bytes)

\* A word of the buffer is a part of the input.
LEMMA WordIs ==
    ASSUME input \in Seq(Bytes), NEW p, ParserOK(p)
    PROVE  Word(input, p) \in Seq(Bytes)
<1>1. /\ p.at \in Nat /\ p.end \in Nat /\ p.end <= Len(input) /\ Len(input) \in Nat
  BY LenProperties DEF ParserOK
<1> DEFINE ends == WordEnds(input, p) \cup {p.end + 1}
<1>2. ends \subseteq Nat \ {0} /\ p.end + 1 \in ends
  BY <1>1 DEF WordEnds
<1> HIDE DEF ends
<1>3. Min(ends) \in ends /\ Min(ends) <= p.end + 1
  BY <1>2, MinIsLeast
<1>4. PICK m \in Nat : m = WordEnd(input, p) - 1
  BY <1>1, <1>2, <1>3 DEF WordEnd, ends
<1>5. m <= Len(input)
  BY <1>1, <1>2, <1>3, <1>4 DEF WordEnd, ends
<1>6. Word(input, p) = SubSeq(input, p.at + 1, m)
  BY <1>4 DEF Word
<1>7. p.at + 1 \in Nat /\ p.at + 1 >= 1
  BY <1>1
<1>8. QED
  BY <1>5, <1>6, <1>7, Part

\* What a feed leaves of the url.
LEMMA FedTyped ==
    ASSUME ReaderAssumption, input \in Seq(Bytes), NEW p, ParserOK(p), p.refused \/ Stands(p),
           Typed(p), NEW n \in Nat, p.end + n <= Len(input), NEW q, q = feed(input, p, n)
    PROVE  Typed(q)
<1> DEFINE r == [p EXCEPT !.end = @ + n]
<1>1. \/ q = p \/ q = Refuse(r)
      \/ q = TakeLines(input, r)
      \/ q = TakeLines(input, parse_words(input, r))
  BY DEF feed
<1>2. /\ DOMAIN r = ParserFields /\ r.at = p.at /\ r.end = p.end + n /\ r.progress = p.progress
      /\ r.refused = p.refused /\ r.length = p.length /\ r.url = p.url
  BY DEF ParserOK, ParserFields
<1> HIDE DEF r
<1>3. ParserOK(r) /\ Typed(r)
  BY <1>2 DEF ParserOK, Typed
<1>4. r.refused \/ Stands(r)
  BY <1>2 DEF Stands
<1>5. CASE q = p
  BY <1>5
<1>6. CASE q = Refuse(r)
  BY <1>3, <1>6 DEF Refuse, Typed, ParserFields
<1>7. CASE q = TakeLines(input, r)
  BY <1>3, <1>7, LinesKeepWords DEF Typed, ParserOK
<1>8. CASE q = TakeLines(input, parse_words(input, r))
  <2> DEFINE a == Verb(input, r)  b == Url(input, a)  c == Protocol(input, b)
             d == RestOfLine(input, c)
  <2>1. Kept(r, a) /\ Typed(a)
    <3>1. Kept(r, a)
      BY <1>3, <1>4, VerbKeeps
    <3>2. a.url = r.url
      <4> DEFINE w == Word(input, r)  s == [AfterWord(input, r) EXCEPT !.method = w]
      <4>1. a = r \/ a = ExpectSpace(input, s, "url")
        BY DEF Verb
      <4>2. DOMAIN s = ParserFields /\ s.url = r.url
        BY <1>3 DEF Typed, ParserFields, AfterWord
      <4> HIDE DEF s, a
      <4>3. ExpectSpace(input, s, "url") = s
              \/ ExpectSpace(input, s, "url") = [s EXCEPT !.at = @ + 1, !.progress = "url"]
        BY DEF ExpectSpace
      <4>4. QED
        BY <4>1, <4>2, <4>3 DEF ParserFields
    <3>3. QED
      BY <1>3, <3>1, <3>2 DEF Typed, Kept, ParserOK
  <2>2. Kept(a, b) /\ Typed(b)
    <3> HIDE DEF a
    <3>1. Kept(a, b)
      BY <2>1, UrlKeeps DEF Kept
    <3>2. b.url \in Seq(Bytes)
      <4> DEFINE w == Word(input, a)  s == [AfterWord(input, a) EXCEPT !.url = w]
      <4>1. b = a \/ b = ExpectSpace(input, s, "protocol")
        BY DEF Url
      <4>2. w \in Seq(Bytes)
        BY <2>1, WordIs DEF Kept
      <4> HIDE DEF w
      <4>3. DOMAIN s = ParserFields /\ s.url = w
        BY <2>1 DEF Typed, ParserFields, AfterWord
      <4> HIDE DEF s, b
      <4>4. ExpectSpace(input, s, "protocol") = s
              \/ ExpectSpace(input, s, "protocol") = [s EXCEPT !.at = @ + 1, !.progress = "protocol"]
        BY DEF ExpectSpace
      <4>5. b.url = a.url \/ b.url = w
        BY <4>1, <4>3, <4>4 DEF ParserFields
      <4>6. QED
        BY <2>1, <4>2, <4>5 DEF Typed
    <3>3. QED
      BY <3>1, <3>2 DEF Typed, Kept, ParserOK
  <2>3. Kept(b, c) /\ Typed(c)
    <3> HIDE DEF b
    <3>1. Kept(b, c)
      BY <2>2, ProtocolKeeps DEF Kept
    <3>2. c.url = b.url
      <4> DEFINE w == Word(input, b)  s == AfterWord(input, b)
      <4>1. c = b \/ c = [s EXCEPT !.protocol = w, !.progress = "phase2"] \/ c = Refuse(s)
        BY DEF Protocol
      <4>2. DOMAIN s = ParserFields /\ s.url = b.url
        BY <2>2 DEF Typed, ParserFields, AfterWord
      <4> HIDE DEF s, c, w
      <4>3. QED
        BY <4>1, <4>2 DEF ParserFields, Refuse
    <3>3. QED
      BY <2>2, <3>1, <3>2 DEF Typed, Kept, ParserOK
  <2>4. Kept(c, d) /\ Typed(d)
    <3> HIDE DEF c
    <3>1. Kept(c, d)
      BY <2>3, RestKeeps DEF Kept
    <3>2. d.url = c.url
      <4> DEFINE s == AfterLine(input, c)
      <4>1. d = c \/ d = [s EXCEPT !.progress = "fields"] \/ d = Refuse(s)
        BY DEF RestOfLine
      <4>2. DOMAIN s = ParserFields /\ s.url = c.url
        BY <2>3 DEF Typed, ParserFields, AfterLine
      <4> HIDE DEF s, d
      <4>3. QED
        BY <4>1, <4>2 DEF ParserFields, Refuse
    <3>3. QED
      BY <2>3, <3>1, <3>2 DEF Typed, Kept, ParserOK
  <2>5. q = TakeLines(input, d)
    BY <1>8 DEF parse_words
  <2> HIDE DEF a, b, c, d
  <2>6. d.at \in Nat /\ d.end \in Nat /\ DOMAIN d = ParserFields
    BY <2>4 DEF Kept, ParserOK
  <2>7. QED
    BY <2>4, <2>5, <2>6, LinesKeepWords DEF Typed
<1>9. QED
  BY <1>1, <1>5, <1>6, <1>7, <1>8

\* Every step keeps the url a sequence of bytes.
LEMMA TypedStep ==
    ASSUME ReaderAssumption, IInv, Typed(parser), [Next]_vars
    PROVE  Typed(parser')
<1>1. CASE UNCHANGED parser
  BY <1>1
<1>2. ASSUME NEW n \in 1 .. BufferSize, header_read_handler(n) PROVE Typed(parser')
  <2>1. /\ conn = "reading" /\ received + n <= Len(input) /\ cur = 0 /\ ~finished(parser)
        /\ parser' = feed(input, parser, n)
    BY <1>2 DEF header_read_handler, Receives
  <2>2. /\ ParserOK(parser) /\ (parser.refused \/ Stands(parser)) /\ parser.end = received
        /\ input \in Seq(Bytes)
    BY <2>1 DEF IInv, Reading, TypeOK
  <2>3. n \in Nat /\ parser.end + n <= Len(input)
    BY <2>1, <2>2 DEF ReaderAssumption
  <2>4. QED
    BY <2>1, <2>2, <2>3, FedTyped
<1>3. ASSUME NEW t \in Threads, read_body(t) PROVE Typed(parser')
  <2>1. parser' = parser \/ parser' = read_front(parser, FromHeader)
    BY <1>3 DEF read_body
  <2>2. QED
    BY <2>1 DEF Typed, read_front, ParserFields
<1>4. CASE Next
  <2>1. \/ UNCHANGED parser
        \/ \E n \in 1 .. BufferSize : header_read_handler(n)
        \/ \E t \in Threads : read_body(t)
    BY <1>4 DEF Next, Steps, body_read_handler, ReadFails, fullfill, CallFunc, then, Store, Run,
                error, SetError, except, StoreFail, Quiet
  <2>2. QED
    BY <1>1, <1>2, <1>3, <2>1
<1>5. QED
  BY <1>1, <1>4 DEF vars, state

\* A url that cannot be decoded is where the request ends.
Stopped ==
    Undecodable(parser) => conn = "refused" /\ cur = 0 /\ \A t \in Threads : todo[t] = <<>>

\* After it nothing happens; and no step but the header's handler makes one.
LEMMA StoppedStep ==
    ASSUME IInv, Stopped, [Next]_vars
    PROVE  Stopped'
<1>1. CASE UNCHANGED vars
  BY <1>1 DEF Stopped, Undecodable, vars, state
<1>2. ASSUME NEW n \in 1 .. BufferSize, header_read_handler(n) PROVE Stopped'
  <2>1. cur = 0 /\ cur' = 0 /\ conn = "reading"
    BY <1>2 DEF header_read_handler, Receives
  <2>2. \A t \in Threads : todo[t] = <<>>
    BY <2>1 DEF IInv, Reading
  <2>3. ASSUME Undecodable(parser') PROVE conn' = "refused" /\ todo' = todo
    <3>1. conn' = "refused"
      BY <1>2, <2>3 DEF header_read_handler
    <3>2. QED
      BY <1>2, <3>1 DEF header_read_handler
  <2>4. QED
    BY <2>1, <2>2, <2>3 DEF Stopped, Undecodable
<1>3. CASE Undecodable(parser) /\ Next
  <2>1. conn = "refused" /\ \A t \in Threads : todo[t] = <<>>
    BY <1>3 DEF Stopped
  <2>2. \A n \in 1 .. BufferSize : ~header_read_handler(n) /\ ~body_read_handler(n)
    BY <2>1 DEF header_read_handler, body_read_handler, Receives
  <2>3. ~ReadFails
    BY <2>1 DEF ReadFails
  <2>4. ASSUME NEW t \in Threads, Steps(t) PROVE FALSE
    BY <2>1, <2>4 DEF Steps, read_body, fullfill, CallFunc, then, Store, Run, error, SetError,
                      except, StoreFail, At
  <2>5. QED
    BY <1>3, <2>2, <2>3, <2>4 DEF Next
<1>4. ASSUME ~Undecodable(parser), Next, \A n \in 1 .. BufferSize : ~header_read_handler(n)
      PROVE  ~Undecodable(parser')
  <2>1. UNCHANGED parser \/ \E t \in Threads : read_body(t)
    BY <1>4 DEF Next, Steps, body_read_handler, ReadFails, fullfill, CallFunc, then, Store, Run,
                error, SetError, except, StoreFail, Quiet
  <2>2. CASE UNCHANGED parser
    BY <1>4, <2>2
  <2>3. ASSUME NEW t \in Threads, read_body(t) PROVE ~Undecodable(parser')
    <3>1. parser' = parser \/ parser' = read_front(parser, FromHeader)
      BY <2>3 DEF read_body
    <3>2. DOMAIN parser = ParserFields
      BY DEF IInv, ParserOK
    <3>3. parser'.progress = parser.progress /\ parser'.url = parser.url
      BY <3>1, <3>2 DEF read_front, ParserFields
    <3>4. QED
      BY <1>4, <3>3 DEF Undecodable, finished
  <2>4. QED
    BY <2>1, <2>2, <2>3
<1>5. QED
  BY <1>1, <1>2, <1>3, <1>4 DEF Stopped, Undecodable

\* parse_url(): whatever the peer sends and however it arrives, the path and the
\* values of the query are what the url escapes, where its values hold no separator;
\* and a url that cannot be decoded never reaches the application.
THEOREM UrlIsMeant == Spec => []UrlMeansWhatItEscapes
<1>1. Init => Typed(parser)
  <2>1. SUFFICES ASSUME Init PROVE Typed(parser)
    OBVIOUS
  <2>2. DOMAIN NewParser = ParserFields /\ NewParser.url = <<>>
    BY DEF NewParser, ParserFields
  <2>3. parser = NewParser
    BY <2>1 DEF Init
  <2>4. <<>> \in Seq(Bytes)
    BY EmptySeq
  <2>5. QED
    BY <2>2, <2>3, <2>4 DEF Typed
<1>2. Typed(parser) /\ Stopped => UrlMeansWhatItEscapes
  <2>1. SUFFICES ASSUME Typed(parser), Stopped PROVE UrlMeansWhatItEscapes
    OBVIOUS
  <2>2. UrlMeans(parser.url)
    BY <2>1, UrlParsed DEF Typed
  <2>3. Undecodable(parser) => conn = "refused" /\ cur = 0
    BY <2>1 DEF Stopped
  <2>4. QED
    BY <2>2, <2>3, Zenon DEF UrlMeans, UrlMeansWhatItEscapes
<1>3. ReaderAssumption /\ IInv /\ Typed(parser) /\ [Next]_vars => Typed(parser)'
  BY TypedStep
<1>4. Init => Stopped
  BY DEF Init, Stopped, Undecodable, finished, NewParser
<1>5. IInv /\ Stopped /\ [Next]_vars => Stopped'
  BY StoppedStep
<1>6. QED
  BY <1>1, <1>2, <1>3, <1>4, <1>5, ReaderAssumption, Invariance, PTL DEF Spec

-----------------------------------------------------------------------------
(* The header.                                                             *)

\* "\r\n" at a place; the end of the request line, and its spaces.
Crlf(i) == input[i] = "cr" /\ input[i + 1] = "lf"

RequestEnd == First(input, "cr")
FirstSpace == Min(Spaces)
SecondSpace == Max(Spaces)

\* What a well-formed request line looks like, and where the header ends.
Shaped ==
    /\ HeaderLength \in 4 .. Len(input) /\ EndsHeader(HeaderLength)
    /\ \A i \in 1 .. HeaderLength - 1 : ~EndsHeader(i)
    /\ RequestEnd \in 1 .. HeaderLength - 3 /\ Crlf(RequestEnd)
    /\ \A i \in 1 .. RequestEnd - 1 : input[i] # "cr"
    /\ FirstSpace \in 1 .. RequestEnd - 1 /\ SecondSpace \in FirstSpace + 1 .. RequestEnd - 1
    /\ input[FirstSpace] = "sp" /\ input[SecondSpace] = "sp"
    /\ \A i \in 1 .. RequestEnd - 1 : input[i] = "sp" => i \in {FirstSpace, SecondSpace}
    /\ \E i \in SecondSpace + 1 .. RequestEnd - 1 : input[i] = "slash"
    /\ RoomBehindLines => RequestEnd + BufferSize <= HeaderMax
    /\ SubSeq(RequestLine, 1, FirstSpace - 1) = SubSeq(input, 1, FirstSpace - 1)
    /\ SubSeq(RequestLine, FirstSpace + 1, SecondSpace - 1)
           = SubSeq(input, FirstSpace + 1, SecondSpace - 1)

\* A part of a beginning is a part of the whole.
LEMMA PartOfPart ==
    ASSUME NEW S, NEW s \in Seq(S), NEW m \in Nat, m <= Len(s),
           NEW a \in Nat, NEW b \in Nat, a >= 1, b <= m
    PROVE  SubSeq(SubSeq(s, 1, m), a, b) = SubSeq(s, a, b)
<1> DEFINE t == SubSeq(s, 1, m)  u == SubSeq(t, a, b)  v == SubSeq(s, a, b)
           n == IF a <= b THEN b - a + 1 ELSE 0
<1>1. Len(s) \in Nat
  BY LenProperties
<1>2. 1 \in Nat /\ 1 >= 1
  OBVIOUS
<1>3. /\ t \in Seq(S) /\ Len(t) = IF 1 <= m THEN m - 1 + 1 ELSE 0
      /\ \A i \in 1 .. m - 1 + 1 : t[i] = s[1 + i - 1]
  BY <1>2, Part
<1>4. /\ v \in Seq(S) /\ Len(v) = n
      /\ \A i \in 1 .. b - a + 1 : v[i] = s[a + i - 1]
  BY <1>1, Part
<1> HIDE DEF t, v
<1>5. Len(t) = m /\ \A i \in 1 .. m : t[i] = s[i]
  <2>1. Len(t) = m
    BY <1>3
  <2>2. ASSUME NEW i \in 1 .. m PROVE i \in 1 .. m - 1 + 1 /\ 1 + i - 1 = i
    OBVIOUS
  <2>3. QED
    BY <1>3, <2>1, <2>2
<1>6. /\ u \in Seq(S) /\ Len(u) = n
      /\ \A i \in 1 .. b - a + 1 : u[i] = t[a + i - 1]
  BY <1>3, <1>5, Part
<1> HIDE DEF u
<1>7. ASSUME NEW i \in 1 .. Len(u) PROVE u[i] = v[i]
  <2>1. PICK j \in 1 .. m : j = a + i - 1 /\ i \in 1 .. b - a + 1
    BY <1>6
  <2>2. QED
    BY <1>4, <1>5, <1>6, <2>1
<1>8. u = v
  BY <1>4, <1>6, <1>7, SeqEqual
<1>9. QED
  BY <1>8 DEF u, v, t

\* Two spaces: the first and the second.
LEMMA TwoSpaces ==
    ASSUME NEW S \in SUBSET Nat, IsFiniteSet(S), Cardinality(S) = 2
    PROVE  Min(S) \in S /\ Max(S) \in S /\ Min(S) < Max(S) /\ S = {Min(S), Max(S)}
<1>1. S # {}
  BY FS_EmptySet
<1>2. Min(S) \in S /\ \A m \in S : Min(S) <= m
  BY <1>1, MinIsLeast
<1>3. PICK a \in S : a = Min(S)
  BY <1>2
<1>4. IsFiniteSet(S \ {a}) /\ Cardinality(S \ {a}) = 1
  BY FS_RemoveElement
<1>5. PICK b : S \ {a} = {b}
  BY <1>4, FS_Singleton
<1>6. b \in S /\ b \in Nat /\ a < b /\ S = {a, b}
  <2>1. b \in S /\ b # a
    BY <1>5
  <2>2. S = {a, b}
    BY <1>5, Zenon
  <2>3. a <= b
    BY <1>2, <1>3, <2>1
  <2>4. QED
    BY <2>1, <2>2, <2>3
<1>7. Max(S) = b
  <2>1. \A y \in S : b >= y
    BY <1>3, <1>6
  <2>2. Max(S) \in S /\ \A y \in S : Max(S) >= y
    BY <1>6, <2>1 DEF Max
  <2>3. QED
    BY <1>3, <1>6, <2>2
<1>8. QED
  BY <1>3, <1>6, <1>7

\* A well-formed header has this shape.
LEMMA ShapedWhenWellFormed ==
    ASSUME ReaderAssumption, ParserAssumption, input \in Seq(Bytes), WellFormed
    PROVE  Shaped
<1> DEFINE c == RequestEnd  h == HeaderLength
<1>1. Len(input) \in Nat /\ DOMAIN input = 1 .. Len(input)
  BY LenProperties
<1>2. /\ HeaderEnds # {} /\ Cardinality(Spaces) = 2
      /\ Contains(SubSeq(RequestLine, Max(Spaces) + 1, Len(RequestLine)), "slash")
      /\ input[c + 1] = "lf"
      /\ RoomBehindLines => Len(RequestLine) + 1 + BufferSize <= HeaderMax
  <2>1. /\ HeaderEnds # {} /\ Cardinality(Spaces) = 2
        /\ Contains(SubSeq(RequestLine, Max(Spaces) + 1, Len(RequestLine)), "slash")
        /\ input[c + 1] = "lf"
    BY Zenon DEF WellFormed, RequestEnd
  <2>2. RoomBehindLines => Len(RequestLine) + 1 + BufferSize <= HeaderMax
    BY Zenon DEF RoomBehindLines
  <2>3. QED
    BY <2>1, <2>2
<1>3. h \in 4 .. Len(input) /\ EndsHeader(h) /\ \A i \in 1 .. h - 1 : ~EndsHeader(i)
  <2>1. HeaderEnds \subseteq Nat /\ HeaderEnds = {i \in 4 .. Len(input) : EndsHeader(i)}
    BY DEF HeaderEnds, EndsHeader
  <2>2. h \in HeaderEnds /\ \A m \in HeaderEnds : h <= m
    BY <1>2, <2>1, MinIsLeast DEF HeaderLength
  <2>3. h \in 4 .. Len(input) /\ EndsHeader(h)
    BY <2>1, <2>2
  <2>4. ASSUME NEW i \in 1 .. h - 1, EndsHeader(i) PROVE FALSE
    <3>1. i \in 4 .. Len(input)
      BY <2>4 DEF EndsHeader
    <3>2. i \in HeaderEnds
      BY <2>1, <2>4, <3>1
    <3>3. QED
      BY <2>2, <2>3, <3>1, <3>2
  <2>5. QED
    BY <2>3, <2>4
<1>4. input[h - 3] = "cr" /\ h - 3 \in 1 .. Len(input)
  BY <1>1, <1>3 DEF EndsHeader
<1>5. /\ c \in 1 .. Len(input) + 1 /\ c \in Nat
      /\ c <= Len(input) => input[c] = "cr"
      /\ \A i \in DOMAIN input : input[i] = "cr" => c <= i
  BY FirstIs DEF RequestEnd
<1> HIDE DEF c, h
<1>6. c <= h - 3
  BY <1>1, <1>4, <1>5
<1>7. c \in 1 .. h - 3 /\ input[c] = "cr"
  BY <1>1, <1>3, <1>5, <1>6
<1>8. \A i \in 1 .. c - 1 : input[i] # "cr"
  BY <1>1, <1>3, <1>5, <1>7
<1>9. PICK m \in Nat : m = c - 1 /\ m <= Len(input)
  BY <1>1, <1>3, <1>7
<1>10. RequestLine = SubSeq(input, 1, m)
  BY <1>9 DEF RequestLine, c, RequestEnd
<1>11. /\ RequestLine \in Seq(Bytes) /\ Len(RequestLine) = m
       /\ \A i \in 1 .. m : RequestLine[i] = input[i]
  <2>1. 1 \in Nat /\ 1 >= 1
    OBVIOUS
  <2>2. /\ RequestLine \in Seq(Bytes) /\ Len(RequestLine) = IF 1 <= m THEN m - 1 + 1 ELSE 0
        /\ \A i \in 1 .. m - 1 + 1 : RequestLine[i] = input[1 + i - 1]
    BY <1>9, <1>10, <2>1, Part
  <2>3. Len(RequestLine) = m
    BY <2>2
  <2>4. ASSUME NEW i \in 1 .. m PROVE i \in 1 .. m - 1 + 1 /\ 1 + i - 1 = i
    OBVIOUS
  <2>5. QED
    BY <2>2, <2>3, <2>4
<1>12. DOMAIN RequestLine = 1 .. m
  BY <1>11, LenProperties
<1>13. Spaces = {i \in 1 .. m : input[i] = "sp"}
  BY <1>11, <1>12 DEF Spaces
<1>14. IsFiniteSet(Spaces) /\ Spaces \in SUBSET Nat
  <2>1. IsFiniteSet(1 .. m)
    BY FS_Interval
  <2>2. QED
    BY <1>13, <2>1, FS_Subset
<1>15. /\ FirstSpace \in Spaces /\ SecondSpace \in Spaces /\ FirstSpace < SecondSpace
       /\ Spaces = {FirstSpace, SecondSpace}
  BY <1>2, <1>14, TwoSpaces DEF FirstSpace, SecondSpace
<1>16. /\ FirstSpace \in 1 .. m /\ SecondSpace \in 1 .. m
       /\ input[FirstSpace] = "sp" /\ input[SecondSpace] = "sp"
       /\ \A i \in 1 .. m : input[i] = "sp" => i \in {FirstSpace, SecondSpace}
  BY <1>13, <1>15
<1>17. \E i \in SecondSpace + 1 .. m : input[i] = "slash"
  <2> DEFINE a == SecondSpace + 1  w == SubSeq(RequestLine, a, m)
  <2>1. a \in Nat /\ a >= 1
    BY <1>16
  <2>2. Contains(w, "slash")
    BY <1>2, <1>11 DEF SecondSpace
  <2>3. /\ Len(w) = IF a <= m THEN m - a + 1 ELSE 0
        /\ \A i \in 1 .. m - a + 1 : w[i] = RequestLine[a + i - 1]
    <3> HIDE DEF a
    <3>1. m <= Len(RequestLine)
      BY <1>11
    <3>2. QED
      BY <1>11, <2>1, <3>1, Part
  <2> HIDE DEF w
  <2>4. PICK i \in 1 .. Len(w) : w[i] = "slash"
    BY <2>2 DEF Contains
  <2> HIDE DEF a
  <2>5. PICK j \in a .. m : j = a + i - 1 /\ i \in 1 .. m - a + 1
    BY <2>1, <2>3
  <2>6. input[j] = "slash"
    <3>1. j \in 1 .. m
      BY <2>1
    <3>2. QED
      BY <1>11, <2>3, <2>4, <2>5, <3>1
  <2>7. QED
    BY <2>6 DEF a
<1>18. /\ SubSeq(RequestLine, 1, FirstSpace - 1) = SubSeq(input, 1, FirstSpace - 1)
       /\ SubSeq(RequestLine, FirstSpace + 1, SecondSpace - 1)
              = SubSeq(input, FirstSpace + 1, SecondSpace - 1)
  <2>1. PICK x \in Nat, y \in Nat, z \in Nat :
            /\ x = FirstSpace - 1 /\ y = FirstSpace + 1 /\ z = SecondSpace - 1
            /\ y >= 1 /\ x <= m /\ z <= m
    <3>1. FirstSpace - 1 \in Nat /\ FirstSpace + 1 \in Nat /\ SecondSpace - 1 \in Nat
      BY <1>16
    <3>2. FirstSpace + 1 >= 1 /\ FirstSpace - 1 <= m /\ SecondSpace - 1 <= m
      BY <1>16
    <3>3. QED
      BY <3>1, <3>2
  <2>2. 1 \in Nat /\ 1 >= 1
    OBVIOUS
  <2>3. SubSeq(SubSeq(input, 1, m), 1, x) = SubSeq(input, 1, x)
    BY <1>9, <2>1, <2>2, PartOfPart
  <2>4. SubSeq(SubSeq(input, 1, m), y, z) = SubSeq(input, y, z)
    <3>1. y >= 1 /\ z <= m /\ m <= Len(input)
      BY <1>9, <2>1
    <3>2. QED
      BY <3>1, PartOfPart
  <2>5. QED
    BY <1>10, <2>1, <2>3, <2>4
<1>19. RoomBehindLines => RequestEnd + BufferSize <= HeaderMax
  <2>1. ASSUME RoomBehindLines PROVE RequestEnd + BufferSize <= HeaderMax
    <3>1. Len(RequestLine) + 1 + BufferSize <= HeaderMax
      BY <1>2, <2>1
    <3>2. QED
      BY <1>5, <1>9, <1>11, <3>1 DEF c, ReaderAssumption, ParserAssumption
  <2>2. QED
    BY <2>1
<1>20. SecondSpace \in FirstSpace + 1 .. m
  BY <1>15, <1>16
<1>21. /\ RequestEnd \in 1 .. HeaderLength - 3 /\ Crlf(RequestEnd)
       /\ \A i \in 1 .. RequestEnd - 1 : input[i] # "cr"
  BY <1>2, <1>7, <1>8 DEF c, h, Crlf
<1>22. m = RequestEnd - 1
  BY <1>9 DEF c
<1>23. HeaderLength \in 4 .. Len(input) /\ EndsHeader(HeaderLength)
       /\ \A i \in 1 .. HeaderLength - 1 : ~EndsHeader(i)
  BY <1>3 DEF h
<1>24. QED
  BY <1>16, <1>17, <1>18, <1>19, <1>20, <1>21, <1>22, <1>23 DEF Shaped

\* Where lines start, and where the one that starts there ends.
Starts == DOMAIN Lines
LineEnd(i) == Min({j \in i .. HeaderLength : Crlf(j)})

\* What a line of a well-formed header looks like.
LineShaped(i) ==
    /\ i - 2 \in 1 .. HeaderLength - 3 /\ Crlf(i - 2)
    /\ LineEnd(i) \in i .. HeaderLength - 1 /\ Crlf(LineEnd(i))
    /\ \A j \in i .. LineEnd(i) - 1 : ~Crlf(j)
    /\ Lines[i] = SubSeq(input, i, LineEnd(i) - 1)
    /\ Lines[i] \in Seq(Bytes) /\ Len(Lines[i]) = LineEnd(i) - i
    /\ \A k \in 1 .. LineEnd(i) - i : Lines[i][k] = input[i + k - 1]
    /\ LineEnd(i) = i => LineEnd(i) = HeaderLength - 1
    /\ LineEnd(i) # i => LineEnd(i) + 2 \in Starts /\ LineEnd(i) + 1 < HeaderLength
    /\ Lines[i] # <<>> => Lines[i][1] \in Alnum /\ Contains(Lines[i], "colon")
    /\ IsCookie(Lines[i]) =>
           \A j \in DOMAIN CookiesIn(Lines[i]) : Contains(CookiesIn(Lines[i])[j], "=")
    /\ RoomBehindLines => LineEnd(i) - i + 1 + BufferSize <= HeaderMax

\* Lines start behind line ends.
LEMMA StartsAre ==
    ASSUME HeaderLength \in Nat
    PROVE  /\ Starts \subseteq Nat
           /\ \A i \in Nat : i \in Starts <=> i - 2 \in 1 .. HeaderLength - 3 /\ Crlf(i - 2)
           /\ \A i \in Starts : Lines[i] = SubSeq(input, i, LineEnd(i) - 1)
<1> DEFINE cuts == {k \in 1 .. HeaderLength - 3 : Crlf(k)}
           starts == {j + 2 : j \in cuts}
<1>1. Lines = [i \in starts |-> SubSeq(input, i, LineEnd(i) - 1)]
  BY Zenon DEF Lines, Crlf, LineEnd
<1>2. Starts = starts /\ \A i \in starts : Lines[i] = SubSeq(input, i, LineEnd(i) - 1)
  <2> HIDE DEF starts
  <2>1. QED
    BY <1>1 DEF Starts
<1>3. starts \subseteq Nat
  OBVIOUS
<1>4. ASSUME NEW i \in Nat
      PROVE  i \in starts <=> i - 2 \in 1 .. HeaderLength - 3 /\ Crlf(i - 2)
  <2>1. ASSUME i \in starts PROVE i - 2 \in 1 .. HeaderLength - 3 /\ Crlf(i - 2)
    <3>1. PICK j \in cuts : i = j + 2
      BY <2>1
    <3>2. i - 2 = j
      BY <3>1
    <3>3. QED
      BY <3>1, <3>2
  <2>2. ASSUME i - 2 \in 1 .. HeaderLength - 3, Crlf(i - 2) PROVE i \in starts
    <3>1. PICK j \in 1 .. HeaderLength - 3 : j = i - 2 /\ i = j + 2
      BY <2>2
    <3>2. j \in cuts
      BY <2>2, <3>1
    <3>3. QED
      BY <3>1, <3>2
  <2>3. QED
    BY <2>1, <2>2
<1> HIDE DEF starts
<1>5. QED
  BY <1>2, <1>3, <1>4

\* And what WellFormed says of each.
LEMMA LinesWellFormed ==
    ASSUME WellFormed, NEW i \in Starts
    PROVE  /\ Lines[i] # <<>> => Lines[i][1] \in Alnum /\ Contains(Lines[i], "colon")
           /\ IsCookie(Lines[i]) =>
                  \A j \in DOMAIN CookiesIn(Lines[i]) : Contains(CookiesIn(Lines[i])[j], "=")
           /\ RoomBehindLines => Len(Lines[i]) + 1 + BufferSize <= HeaderMax
<1> DEFINE texts == Lines
           all == {texts[k] : k \in DOMAIN texts}
           line == Lines[i]
<1>1. line \in all
  BY DEF Starts
<1>2. /\ \A l \in all \ {<<>>} : l[1] \in Alnum /\ Contains(l, "colon")
      /\ \A l \in all : IsCookie(l) =>
             LET pieces == CookiesIn(l)
             IN \A j \in DOMAIN pieces : Contains(pieces[j], "=")
  BY Zenon DEF WellFormed
<1>5. RoomBehindLines => Len(line) + 1 + BufferSize <= HeaderMax
  BY <1>1, Zenon DEF RoomBehindLines
<1> HIDE DEF all, line
<1>3. line # <<>> => line[1] \in Alnum /\ Contains(line, "colon")
  BY <1>1, <1>2, Zenon
<1>4. IsCookie(line) => \A j \in DOMAIN CookiesIn(line) : Contains(CookiesIn(line)[j], "=")
  BY <1>1, <1>2, Zenon
<1>6. QED
  BY <1>3, <1>4, <1>5 DEF line

\* The lines of a well-formed header follow each other to the empty one.
LEMMA LinesAreShaped ==
    ASSUME ReaderAssumption, input \in Seq(Bytes), WellFormed, Shaped, NEW i \in Starts
    PROVE  LineShaped(i)
<1> DEFINE h == HeaderLength  e == LineEnd(i)
           ends == {j \in i .. h : Crlf(j)}
<1>1. Len(input) \in Nat /\ DOMAIN input = 1 .. Len(input)
  BY LenProperties
<1>2. h \in 4 .. Len(input) /\ EndsHeader(h) /\ \A k \in 1 .. h - 1 : ~EndsHeader(k)
  BY DEF Shaped
<1>3. h \in Nat
  BY <1>1, <1>2
<1>4. i \in Nat /\ i - 2 \in 1 .. h - 3 /\ Crlf(i - 2) /\ Lines[i] = SubSeq(input, i, e - 1)
  BY <1>3, StartsAre
<1>5. /\ Crlf(h - 1) /\ Crlf(h - 3) /\ ~Crlf(h) /\ ~Crlf(h - 2)
  <2>1. PICK x, y, z : x = h - 1 /\ y = h - 3 /\ z = h - 2 /\ x + 1 = h /\ y + 1 = z /\ z + 1 = x
    BY <1>3
  <2>2. input[y] = "cr" /\ input[z] = "lf" /\ input[x] = "cr" /\ input[h] = "lf"
    BY <1>2, <2>1 DEF EndsHeader
  <2>3. QED
    BY <2>1, <2>2 DEF Crlf
<1>6. i <= h - 1
  BY <1>3, <1>4
<1>7. h - 1 \in ends /\ ends \subseteq Nat
  BY <1>3, <1>4, <1>5, <1>6
<1>8. e \in ends /\ \A j \in ends : e <= j
  <2>1. e = Min(ends)
    BY DEF LineEnd
  <2> HIDE DEF ends, e
  <2>2. QED
    BY <1>7, <2>1, MinIsLeast
<1> HIDE DEF e
<1>9. e \in i .. h - 1 /\ Crlf(e) /\ e \in Nat
  BY <1>3, <1>4, <1>7, <1>8
<1>10. ASSUME NEW j \in i .. e - 1 PROVE ~Crlf(j)
  BY <1>3, <1>4, <1>8, <1>9
<1>11. /\ Lines[i] \in Seq(Bytes) /\ Len(Lines[i]) = e - i
       /\ \A k \in 1 .. e - i : Lines[i][k] = input[i + k - 1]
  <2>1. PICK b \in Nat : b = e - 1 /\ b <= Len(input)
    BY <1>1, <1>2, <1>4, <1>9
  <2>2. i >= 1
    BY <1>4
  <2>3. /\ SubSeq(input, i, b) \in Seq(Bytes)
        /\ Len(SubSeq(input, i, b)) = IF i <= b THEN b - i + 1 ELSE 0
        /\ \A k \in 1 .. b - i + 1 : SubSeq(input, i, b)[k] = input[i + k - 1]
    BY <1>4, <2>1, <2>2, Part
  <2>4. b - i + 1 = e - i /\ (IF i <= b THEN b - i + 1 ELSE 0) = e - i
    BY <1>4, <1>9, <2>1
  <2>5. QED
    BY <1>4, <2>1, <2>3, <2>4
<1>12. ASSUME e = i PROVE e = h - 1
  <2>1. PICK j \in Nat : j = i + 1 /\ j - 3 = i - 2 /\ j - 2 = i - 1 /\ j - 1 = i
                         /\ i - 2 + 1 = i - 1
    BY <1>4
  <2>2. j \in 4 .. Len(input)
    <3>1. i >= 3 /\ i + 1 <= h /\ h <= Len(input)
      BY <1>2, <1>3, <1>4, <1>6
    <3>2. QED
      BY <1>1, <1>3, <1>4, <2>1, <3>1
  <2>3. EndsHeader(j)
    <3>1. input[i - 2] = "cr" /\ input[i - 1] = "lf"
      BY <1>4, <2>1 DEF Crlf
    <3>2. input[i] = "cr" /\ input[j] = "lf"
      BY <1>9, <1>12, <2>1 DEF Crlf
    <3>3. QED
      BY <2>1, <2>2, <3>1, <3>2 DEF EndsHeader
  <2>4. j >= h
    <3>1. j >= 1 /\ j \in Nat
      BY <2>2
    <3>2. j \notin 1 .. h - 1
      BY <1>2, <2>3
    <3> HIDE DEF h
    <3>3. QED
      BY <1>3, <3>1, <3>2
  <2>5. QED
    BY <1>3, <1>4, <1>6, <1>12, <2>1, <2>4
<1>13. ASSUME e # i PROVE e <= h - 3
  <2>1. i <= h - 3
    <3>1. i # h - 1
      BY <1>3, <1>4, <1>9, <1>13
    <3>2. i # h - 2
      <4>1. ASSUME i = h - 2 PROVE FALSE
        <5>1. i - 2 + 1 = h - 3 /\ i - 2 + 1 = i - 1
          BY <1>3, <1>4, <4>1
        <5>2. input[h - 3] = "lf"
          BY <1>4, <5>1 DEF Crlf
        <5>3. QED
          BY <1>5, <5>2 DEF Crlf
      <4>2. QED
        BY <4>1
    <3>3. QED
      BY <1>3, <1>4, <1>6, <3>1, <3>2
  <2>2. h - 3 \in ends
    BY <1>3, <1>4, <1>5, <2>1
  <2>3. QED
    BY <1>8, <2>2
<1>14. ASSUME e # i PROVE e + 2 \in Starts /\ e + 1 < h
  <2>1. e <= h - 3 /\ e >= 1 /\ e + 2 - 2 = e /\ e + 2 \in Nat
    BY <1>4, <1>9, <1>13, <1>14
  <2>2. e + 2 - 2 \in 1 .. h - 3 /\ Crlf(e + 2 - 2)
    BY <1>3, <1>9, <2>1
  <2>3. QED
    BY <1>3, <2>1, <2>2, StartsAre
<1>15. RoomBehindLines => e - i + 1 + BufferSize <= HeaderMax
  BY <1>11, LinesWellFormed
<1>16. /\ Lines[i] # <<>> => Lines[i][1] \in Alnum /\ Contains(Lines[i], "colon")
       /\ IsCookie(Lines[i]) =>
              \A j \in DOMAIN CookiesIn(Lines[i]) : Contains(CookiesIn(Lines[i])[j], "=")
  BY LinesWellFormed
<1>17. QED
  BY <1>4, <1>9, <1>10, <1>11, <1>12, <1>14, <1>15, <1>16, Zenon DEF LineShaped, e, h

\* A set of natural numbers that is not empty and has a bound has a greatest element.
LEMMA Greatest ==
    ASSUME NEW n \in Nat, NEW S \in SUBSET (1 .. n), S # {}
    PROVE  Max(S) \in S /\ \A m \in S : Max(S) >= m
<1> DEFINE T == {n - x : x \in S}
<1>1. T \in SUBSET Nat /\ T # {}
  <2>1. PICK x \in S : TRUE
    OBVIOUS
  <2>2. n - x \in T
    OBVIOUS
  <2>3. ASSUME NEW y \in S PROVE n - y \in Nat
    OBVIOUS
  <2>4. T \subseteq Nat
    BY <2>3
  <2>5. QED
    BY <2>2, <2>4
<1>2. PICK t \in T : \A u \in T : t <= u
  BY <1>1, Least
<1>3. PICK x \in S : t = n - x
  OBVIOUS
<1>4. ASSUME NEW m \in S PROVE x >= m
  <2>1. n - m \in T
    OBVIOUS
  <2>2. n - x <= n - m
    BY <1>2, <1>3, <2>1
  <2>3. x \in Nat /\ m \in Nat
    OBVIOUS
  <2>4. QED
    BY <2>2, <2>3
<1>5. QED
  BY <1>4 DEF Max

\* The pieces of a Cookie field begin with one at its start, and that of an empty
\* field has no '='.
LEMMA CookiePiecesAre ==
    ASSUME NEW S, NEW s \in Seq(S)
    PROVE  /\ DOMAIN CookiePieces(s) \subseteq 1 .. Len(s) + 1 /\ 1 \in DOMAIN CookiePieces(s)
           /\ s = <<>> => ~Contains(CookiePieces(s)[1], "=")
<1> DEFINE all == Pieces(s, {";"})
           places == {j \in DOMAIN all : j = 1 \/ j > Len(s) \/ s[j] # ";"}
<1>1. Chopped(s, {";"})
  BY PiecesAre
<1>2. DOMAIN all \subseteq 1 .. Len(s) + 1 /\ 1 \in DOMAIN all
  BY <1>1, Zenon DEF Chopped
<1>3. CookiePieces(s) = [i \in places |-> TrimLeft(all[i])]
  BY DEF CookiePieces
<1>4. DOMAIN CookiePieces(s) = places /\ 1 \in places /\ places \subseteq DOMAIN all
  BY <1>2, <1>3
<1>5. ASSUME s = <<>> PROVE ~Contains(CookiePieces(s)[1], "=")
  <2>1. Len(s) = 0
    BY <1>5, EmptySeq
  <2>2. Till(s, {";"}, 1) \in 1 .. Len(s) + 1 /\ all[1] = SubSeq(s, 1, Till(s, {";"}, 1) - 1)
    BY <1>1, <1>2, Zenon DEF Chopped
  <2>3. Till(s, {";"}, 1) - 1 = 0
    <3>1. PICK t : t = Till(s, {";"}, 1)
      OBVIOUS
    <3>2. t \in 1 .. Len(s) + 1
      BY <2>2, <3>1, Zenon
    <3>3. t - 1 = 0
      BY <2>1, <3>2
    <3>4. QED
      BY <3>1, <3>3, Zenon
  <2>4. all[1] = <<>>
    <3>1. 1 \in Int /\ 0 \in Int /\ 0 < 1
      OBVIOUS
    <3>2. SubSeq(s, 1, 0) = <<>>
      BY <3>1, SubSeqEmpty
    <3>3. all[1] = SubSeq(s, 1, 0)
      BY <2>2, <2>3, Zenon
    <3>4. QED
      BY <3>2, <3>3, Zenon
  <2> HIDE DEF all
  <2>5. CookiePieces(s)[1] = TrimLeft(<<>>)
    BY <1>3, <1>4, <2>4
  <2>6. TrimLeft(<<>>) = <<>>
    <3> DEFINE a == Min({i \in DOMAIN <<>> : <<>>[i] # "sp"} \cup {Len(<<>>) + 1})
    <3>1. {i \in DOMAIN <<>> : <<>>[i] # "sp"} = {} /\ Len(<<>>) = 0
      OBVIOUS
    <3>2. {i \in DOMAIN <<>> : <<>>[i] # "sp"} \cup {Len(<<>>) + 1} = {1}
      BY <3>1
    <3>3. a = 1
      <4>1. {1} \in SUBSET Nat /\ {1} # {}
        OBVIOUS
      <4>2. Min({1}) \in {1}
        BY <4>1, MinIsLeast
      <4>3. QED
        BY <3>2, <4>2
    <3>4. TrimLeft(<<>>) = SubSeq(<<>>, a, Len(<<>>))
      BY DEF TrimLeft
    <3> HIDE DEF a
    <3>5. TrimLeft(<<>>) = SubSeq(<<>>, 1, 0)
      BY <3>1, <3>3, <3>4
    <3>6. QED
      BY <3>5, SubSeqEmpty
  <2>7. QED
    BY <2>5, <2>6 DEF Contains
<1>6. QED
  BY <1>2, <1>4, <1>5

\* The cookies of a header, by the line and the place in the line.
CookieAt(i, j) == [line |-> i, place |-> j, pair |-> CookiesIn(Lines[i])[j]]
Cookies == CookiesOf(Lines)
Upto(a) == {c \in Cookies : c.line <= a}

\* What CookiesOf collects.
LEMMA CookiesAre ==
    \A c : c \in Cookies <=>
        \E i \in Starts : IsCookie(Lines[i]) /\ \E j \in DOMAIN CookiesIn(Lines[i]) : c = CookieAt(i, j)
<1> DEFINE Row(i) == {[line |-> i, place |-> d[1], pair |-> d[2]] :
                          d \in {<<j, CookiesIn(Lines[i])[j]>> : j \in DOMAIN CookiesIn(Lines[i])}}
<1>1. Cookies = UNION {Row(i) : i \in {k \in DOMAIN Lines : IsCookie(Lines[k])}}
  BY Zenon DEF Cookies, CookiesOf
<1>2. ASSUME NEW i, NEW c
      PROVE  c \in Row(i) <=> \E j \in DOMAIN CookiesIn(Lines[i]) : c = CookieAt(i, j)
  <2> DEFINE pieces == CookiesIn(Lines[i])
             places == {<<j, pieces[j]>> : j \in DOMAIN pieces}
             At3(d) == [line |-> i, place |-> d[1], pair |-> d[2]]
  <2>1. \A j : At3(<<j, pieces[j]>>) = CookieAt(i, j)
    <3> HIDE DEF pieces
    <3>1. TAKE j
    <3>2. <<j, pieces[j]>>[1] = j /\ <<j, pieces[j]>>[2] = pieces[j]
      OBVIOUS
    <3>3. QED
      BY <3>2, Zenon DEF CookieAt, pieces
  <2>2. c \in Row(i) <=> \E d \in places : c = At3(d)
    <3> HIDE DEF places, pieces
    <3>1. Row(i) = {At3(d) : d \in places}
      BY Zenon DEF places, pieces
    <3> HIDE DEF Row, At3
    <3>2. QED
      BY <3>1
  <2>3. (\E d \in places : c = At3(d)) <=> \E j \in DOMAIN pieces : c = At3(<<j, pieces[j]>>)
    <3> HIDE DEF At3, pieces
    <3>1. QED
      BY Zenon
  <2> HIDE DEF Row, places, At3
  <2>4. QED
    BY <2>1, <2>2, <2>3, Zenon
<1> DEFINE rows == {k \in DOMAIN Lines : IsCookie(Lines[k])}
<1> HIDE DEF Row
<1>3. TAKE c
<1>4. c \in Cookies <=> \E i \in rows : c \in Row(i)
  <2> HIDE DEF rows
  <2>1. Cookies = UNION {Row(i) : i \in rows}
    BY <1>1 DEF rows
  <2>2. QED
    BY <2>1
<1>5. (\E i \in rows : c \in Row(i)) <=> \E i \in Starts : IsCookie(Lines[i]) /\ c \in Row(i)
  BY Zenon DEF Starts
<1> HIDE DEF rows
<1>6. QED
  BY <1>2, <1>4, <1>5, Zenon

\* The map of the cookies that count.
Best(cs, k) == CHOOSE c \in cs : Key(c.pair) = k /\ Counts(cs, c)
Jar(cs) == [k \in {Key(c.pair) : c \in cs} |-> Value(Best(cs, k).pair)]

\* Every key has a cookie that counts, and it counts alone.
HasBest(cs) ==
    /\ \A c \in cs : \E d \in cs : Key(d.pair) = Key(c.pair) /\ Counts(cs, d)
    /\ \A c, d \in cs : c.line = d.line /\ c.place = d.place => c.pair = d.pair
    /\ \A c \in cs : c.line \in Nat /\ c.place \in Nat

\* Two that count for one key are the same pair.
LEMMA BestIsUnique ==
    ASSUME NEW cs, HasBest(cs), NEW c \in cs, NEW d \in cs, Key(c.pair) = Key(d.pair),
           Counts(cs, c), Counts(cs, d)
    PROVE  c.pair = d.pair
<1>1. c.line < d.line \/ (c.line = d.line /\ d.place <= c.place)
  BY DEF Counts
<1>2. d.line < c.line \/ (d.line = c.line /\ c.place <= d.place)
  BY DEF Counts
<1>3. c.line = d.line /\ c.place = d.place
  BY <1>1, <1>2 DEF HasBest
<1>4. QED
  BY <1>3 DEF HasBest

\* So the map has the value of any that counts.
LEMMA InJar ==
    ASSUME NEW cs, HasBest(cs), NEW c \in cs, Counts(cs, c)
    PROVE  Key(c.pair) \in DOMAIN Jar(cs) /\ Jar(cs)[Key(c.pair)] = Value(c.pair)
<1> DEFINE k == Key(c.pair)  b == Best(cs, k)
<1>1. b \in cs /\ Key(b.pair) = k /\ Counts(cs, b)
  <2>1. \E d \in cs : Key(d.pair) = k /\ Counts(cs, d)
    OBVIOUS
  <2>2. QED
    BY <2>1, Zenon DEF Best
<1> HIDE DEF b
<1>2. b.pair = c.pair
  BY <1>1, BestIsUnique
<1>3. k \in {Key(d.pair) : d \in cs}
  OBVIOUS
<1>4. Jar(cs)[k] = Value(Best(cs, k).pair) /\ k \in DOMAIN Jar(cs)
  BY <1>3 DEF Jar
<1>5. QED
  BY <1>2, <1>4 DEF b

\* The cookies of one line.
RowOf(i, pieces) == {[line |-> i, place |-> j, pair |-> pieces[j]] : j \in DOMAIN pieces}

\* A later Cookie line: what is in the map stays, and of the line's own pairs with
\* one key the last comes in.
LEMMA JarGrows ==
    ASSUME NEW old, HasBest(old), NEW i \in Nat, \A c \in old : c.line < i,
           NEW pieces, NEW n \in Nat, DOMAIN pieces \subseteq 1 .. n,
           NEW new, new = RowOf(i, pieces)
    PROVE  HasBest(old \cup new) /\ Jar(old \cup new) = Inserted(Jar(old), Pairs(pieces))
<1> DEFINE cs == old \cup new
           entry(j) == [line |-> i, place |-> j, pair |-> pieces[j]]
           same(k) == {j \in DOMAIN pieces : Key(pieces[j]) = k}
<1>1. \A c \in new : \E j \in DOMAIN pieces : c = entry(j)
  BY DEF RowOf
<1>2. \A j \in DOMAIN pieces : entry(j) \in cs
  BY DEF RowOf
<1>3. \A j : entry(j).line = i /\ entry(j).place = j /\ entry(j).pair = pieces[j]
  OBVIOUS
<1> HIDE DEF entry
<1>4. ASSUME NEW c \in old, Counts(old, c) PROVE Counts(cs, c)
  <2>1. SUFFICES ASSUME NEW d \in cs, Key(d.pair) = Key(c.pair)
                 PROVE  c.line < d.line \/ (c.line = d.line /\ d.place <= c.place)
    BY DEF Counts
  <2>2. CASE d \in old
    BY <1>4, <2>1, <2>2 DEF Counts
  <2>3. CASE d \in new
    <3>1. d.line = i
      BY <1>1, <1>3, <2>3
    <3>2. QED
      BY <3>1
  <2>4. QED
    BY <2>1, <2>2, <2>3
<1>5. ASSUME NEW k, same(k) # {}, \A c \in old : Key(c.pair) # k
      PROVE  /\ Max(same(k)) \in same(k) /\ Counts(cs, entry(Max(same(k))))
             /\ Key(entry(Max(same(k))).pair) = k
  <2> DEFINE m == Max(same(k))
  <2>1. same(k) \in SUBSET (1 .. n)
    OBVIOUS
  <2> HIDE DEF same
  <2>2. m \in same(k) /\ \A j \in same(k) : m >= j
    BY <1>5, <2>1, Greatest
  <2> HIDE DEF m
  <2>3. m \in DOMAIN pieces /\ Key(pieces[m]) = k
    BY <2>2 DEF same
  <2>4. Key(entry(m).pair) = k
    BY <1>3, <2>3
  <2>5. Counts(cs, entry(m))
    <3>1. SUFFICES ASSUME NEW d \in cs, Key(d.pair) = k
                   PROVE  entry(m).line = d.line /\ d.place <= entry(m).place
      BY <2>4 DEF Counts
    <3>2. d \in new
      BY <1>5, <3>1
    <3>3. PICK j \in DOMAIN pieces : d = entry(j)
      BY <1>1, <3>2
    <3>4. j \in same(k)
      BY <1>3, <3>1, <3>3 DEF same
    <3>5. QED
      BY <1>3, <2>1, <2>2, <3>3, <3>4
  <2>6. QED
    BY <2>2, <2>4, <2>5 DEF m
<1> HIDE DEF same
<1>6. HasBest(cs)
  <2>1. ASSUME NEW c \in cs PROVE \E d \in cs : Key(d.pair) = Key(c.pair) /\ Counts(cs, d)
    <3>1. CASE \E d \in old : Key(d.pair) = Key(c.pair)
      <4>1. PICK d \in old : Key(d.pair) = Key(c.pair) /\ Counts(old, d)
        BY <3>1 DEF HasBest
      <4>2. QED
        BY <1>4, <4>1
    <3>2. CASE \A d \in old : Key(d.pair) # Key(c.pair)
      <4> DEFINE k == Key(c.pair)
      <4>1. PICK j \in DOMAIN pieces : c = entry(j)
        BY <1>1, <3>2
      <4>2. j \in same(k)
        BY <1>3, <4>1 DEF same
      <4> HIDE DEF k
      <4>3. /\ Max(same(k)) \in same(k) /\ Counts(cs, entry(Max(same(k))))
            /\ Key(entry(Max(same(k))).pair) = k
        BY <1>5, <3>2, <4>2 DEF k
      <4>4. entry(Max(same(k))) \in cs
        BY <1>2, <4>3 DEF same
      <4>5. QED
        BY <4>3, <4>4 DEF k
    <3>3. QED
      BY <3>1, <3>2
  <2>2. ASSUME NEW c \in cs, NEW d \in cs, c.line = d.line, c.place = d.place
        PROVE  c.pair = d.pair
    <3>1. CASE c \in old /\ d \in old
      BY <2>2, <3>1 DEF HasBest
    <3>2. CASE c \in new /\ d \in new
      BY <1>1, <1>3, <2>2, <3>2
    <3>3. ASSUME NEW a \in old, NEW b \in new PROVE a.line # b.line
      <4>1. a.line < i /\ a.line \in Nat /\ b.line = i
        BY <1>1, <1>3 DEF HasBest
      <4>2. QED
        BY <4>1
    <3>4. QED
      BY <2>2, <3>1, <3>2, <3>3
  <2>3. ASSUME NEW c \in cs PROVE c.line \in Nat /\ c.place \in Nat
    <3>1. CASE c \in old
      BY <3>1 DEF HasBest
    <3>2. CASE c \in new
      BY <1>1, <1>3, <3>2
    <3>3. QED
      BY <3>1, <3>2
  <2>4. QED
    BY <2>1, <2>2, <2>3, Zenon DEF HasBest
<1>7. DOMAIN Jar(cs) = DOMAIN Jar(old) \cup DOMAIN Pairs(pieces)
  <2>1. DOMAIN Jar(cs) = {Key(c.pair) : c \in cs} /\ DOMAIN Jar(old) = {Key(c.pair) : c \in old}
    BY DEF Jar
  <2>2. DOMAIN Pairs(pieces) = {Key(pieces[j]) : j \in DOMAIN pieces}
    BY DEF Pairs
  <2>3. {Key(c.pair) : c \in new} = {Key(pieces[j]) : j \in DOMAIN pieces}
    <3>1. ASSUME NEW c \in new PROVE Key(c.pair) \in {Key(pieces[j]) : j \in DOMAIN pieces}
      BY <1>1, <1>3
    <3>2. ASSUME NEW j \in DOMAIN pieces PROVE Key(pieces[j]) \in {Key(c.pair) : c \in new}
      <4>1. entry(j) \in new
        BY DEF entry, RowOf
      <4>2. QED
        BY <1>3, <4>1
    <3>3. QED
      BY <3>1, <3>2
  <2>4. QED
    BY <2>1, <2>2, <2>3
<1>8. ASSUME NEW k \in DOMAIN Jar(cs)
      PROVE  Jar(cs)[k] = IF k \in DOMAIN Jar(old) THEN Jar(old)[k] ELSE Pairs(pieces)[k]
  <2>1. CASE k \in DOMAIN Jar(old)
    <3>1. PICK c \in old : Key(c.pair) = k
      BY <2>1 DEF Jar
    <3>2. PICK d \in old : Key(d.pair) = k /\ Counts(old, d)
      BY <3>1 DEF HasBest
    <3>3. Jar(old)[k] = Value(d.pair)
      BY <3>2, InJar
    <3>4. Jar(cs)[k] = Value(d.pair)
      <4>1. d \in cs /\ Counts(cs, d)
        BY <1>4, <3>2
      <4> HIDE DEF cs
      <4>2. QED
        BY <1>6, <3>2, <4>1, InJar
    <3>5. QED
      BY <2>1, <3>3, <3>4
  <2>2. CASE k \notin DOMAIN Jar(old)
    <3>1. \A c \in old : Key(c.pair) # k
      BY <2>2 DEF Jar
    <3>2. k \in DOMAIN Pairs(pieces)
      BY <1>7, <2>2
    <3>3. same(k) # {} /\ Pairs(pieces)[k] = Value(pieces[Max(same(k))])
      BY <3>2 DEF Pairs, same
    <3>4. /\ Max(same(k)) \in same(k) /\ Counts(cs, entry(Max(same(k))))
          /\ Key(entry(Max(same(k))).pair) = k
      BY <1>5, <3>1, <3>3
    <3>5. PICK m \in DOMAIN pieces : m = Max(same(k))
      BY <3>4 DEF same
    <3>6. entry(m) \in cs /\ Counts(cs, entry(m)) /\ Key(entry(m).pair) = k
      BY <1>2, <3>4, <3>5
    <3>7. Jar(cs)[k] = Value(entry(m).pair)
      <4> HIDE DEF cs
      <4>1. QED
        BY <1>6, <3>6, InJar
    <3>8. QED
      BY <1>3, <2>2, <3>3, <3>5, <3>7
  <2>3. QED
    BY <2>1, <2>2
<1>9. Jar(cs) = [k \in DOMAIN Jar(cs) |-> Jar(cs)[k]]
  BY DEF Jar
<1>10. Jar(cs) = Inserted(Jar(old), Pairs(pieces))
  <2> DEFINE J == Jar(cs)  O == Jar(old)  P == Pairs(pieces)
  <2>1. /\ J = [k \in DOMAIN J |-> J[k]] /\ DOMAIN J = DOMAIN O \cup DOMAIN P
        /\ \A k \in DOMAIN J : J[k] = IF k \in DOMAIN O THEN O[k] ELSE P[k]
    BY <1>7, <1>8, <1>9
  <2> HIDE DEF J, O, P
  <2>2. J = Inserted(O, P)
    BY <2>1 DEF Inserted
  <2>3. QED
    BY <2>2 DEF J, O, P
<1>11. QED
  BY <1>6, <1>10

\* TrimLeft leaves a part.
LEMMA Trimmed ==
    ASSUME NEW S, NEW s \in Seq(S)
    PROVE  TrimLeft(s) \in Seq(S) /\ (s = <<>> => TrimLeft(s) = <<>>)
<1> DEFINE places == {i \in DOMAIN s : s[i] # "sp"} \cup {Len(s) + 1}
           a == Min(places)
<1>1. Len(s) \in Nat /\ DOMAIN s = 1 .. Len(s)
  BY LenProperties
<1>2. places \in SUBSET Nat /\ places # {} /\ \A i \in places : i >= 1
  BY <1>1
<1> HIDE DEF places
<1>3. a \in Nat /\ a >= 1
  BY <1>2, MinIsLeast
<1>4. TrimLeft(s) = SubSeq(s, a, Len(s))
  BY DEF TrimLeft, places
<1> HIDE DEF a
<1>5. TrimLeft(s) \in Seq(S)
  <2>1. Len(s) <= Len(s)
    BY <1>1
  <2>2. SubSeq(s, a, Len(s)) \in Seq(S)
    BY <1>1, <1>3, <2>1, Part
  <2>3. QED
    BY <1>4, <2>2
<1>6. ASSUME s = <<>> PROVE TrimLeft(s) = <<>>
  <2>1. Len(s) = 0
    BY <1>6, EmptySeq
  <2>2. Len(s) \in Int /\ a \in Int /\ Len(s) < a
    BY <1>3, <2>1
  <2>3. QED
    BY <1>4, <2>2, SubSeqEmpty
<1>7. QED
  BY <1>5, <1>6

\* The text of a field.
FieldText(line) == TrimLeft(SubSeq(line, First(line, "colon") + 1, Len(line)))

\* It is a sequence of bytes.
LEMMA FieldTextIs ==
    ASSUME NEW line \in Seq(Bytes)
    PROVE  FieldText(line) \in Seq(Bytes) /\ (line = <<>> => FieldText(line) = <<>>)
<1> DEFINE a == First(line, "colon") + 1  s == SubSeq(line, a, Len(line))
<1>1. Len(line) \in Nat
  BY LenProperties
<1>2. First(line, "colon") \in Nat /\ First(line, "colon") \in 1 .. Len(line) + 1
  BY FirstIs
<1>3. a \in Nat /\ a >= 1 /\ Len(line) <= Len(line)
  BY <1>1, <1>2
<1> HIDE DEF a
<1>4. /\ s \in Seq(Bytes)
      /\ Len(s) = IF a <= Len(line) THEN Len(line) - a + 1 ELSE 0
  BY <1>1, <1>3, Part
<1>5. FieldText(line) = TrimLeft(s)
  BY DEF FieldText, a
<1>6. ASSUME line = <<>> PROVE s = <<>>
  <2>1. Len(line) = 0
    BY <1>6, EmptySeq
  <2>2. Len(line) \in Int /\ a \in Int /\ Len(line) < a
    BY <1>3, <2>1
  <2>3. QED
    BY <2>2, SubSeqEmpty
<1> HIDE DEF s
<1>7. TrimLeft(s) \in Seq(Bytes) /\ (s = <<>> => TrimLeft(s) = <<>>)
  BY <1>4, Trimmed
<1>8. QED
  BY <1>5, <1>6, <1>7

\* A Cookie field of a well-formed header has text, and an empty line is none.
LEMMA CookieHasText ==
    ASSUME NEW line \in Seq(Bytes), IsCookie(line),
           \A j \in DOMAIN CookiesIn(line) : Contains(CookiesIn(line)[j], "=")
    PROVE  FieldText(line) # <<>> /\ line # <<>>
<1>1. CookiesIn(line) = CookiePieces(FieldText(line))
  BY DEF CookiesIn, FieldText
<1>2. FieldText(line) \in Seq(Bytes) /\ (line = <<>> => FieldText(line) = <<>>)
  BY FieldTextIs
<1>3. /\ 1 \in DOMAIN CookiePieces(FieldText(line))
      /\ FieldText(line) = <<>> => ~Contains(CookiePieces(FieldText(line))[1], "=")
  BY <1>2, CookiePiecesAre
<1>4. QED
  BY <1>1, <1>2, <1>3

\* What a field of a well-formed header changes of the parser.
LEMMA FieldAdded ==
    ASSUME NEW line \in Seq(Bytes), Contains(line, "colon"),
           IsCookie(line) =>
               \A j \in DOMAIN CookiesIn(line) : Contains(CookiesIn(line)[j], "="),
           NEW p, DOMAIN p = ParserFields, p.fields \in Nat, NEW q, q = add_field(p, line)
    PROVE  /\ DOMAIN q = ParserFields
           /\ \A f \in ParserFields \ {"fields", "length", "cookies"} : q[f] = p[f]
           /\ q.fields = p.fields + 1
           /\ q.cookies = IF IsCookie(line) THEN Inserted(p.cookies, Pairs(CookiesIn(line)))
                                            ELSE p.cookies
<1> DEFINE colon == First(line, "colon")
           name  == Trim(SubSeq(line, 1, colon - 1))
           r == [p EXCEPT !.fields = @ + 1]
           value == FieldText(line)
           number == Number(Trim(value))
<1>1. colon <= Len(line)
  <2>1. PICK i \in 1 .. Len(line) : line[i] = "colon"
    BY DEF Contains
  <2>2. i \in DOMAIN line /\ Len(line) \in Nat
    BY LenProperties
  <2>3. First(line, "colon") <= i /\ First(line, "colon") \in Nat
    BY <2>1, <2>2, FirstIs
  <2>4. QED
    BY <2>2, <2>3
<1>2. IsCookie(line) <=> name = <<"cookie">>
  BY DEF IsCookie
<1>3. ~(name = <<"length">> /\ name = <<"cookie">>)
  <2>1. <<"length">>[1] = "length" /\ <<"cookie">>[1] = "cookie"
    OBVIOUS
  <2>2. "length" # "cookie"
    OBVIOUS
  <2> HIDE DEF name
  <2>3. QED
    BY <2>1, <2>2, Zenon
<1>4. IsCookie(line) => ~NoCookies(value)
  <2>1. CookiesIn(line) = CookiePieces(value)
    BY DEF CookiesIn, FieldText
  <2>2. IsCookie(line) => value # <<>>
    BY CookieHasText
  <2> HIDE DEF value
  <2>3. QED
    BY <2>1, <2>2 DEF NoCookies
<1>5. CookiesIn(line) = CookiePieces(value)
  BY DEF CookiesIn, FieldText
<1>6. ~(colon > Len(line))
  <2>1. Len(line) \in Nat /\ colon \in Nat
    BY LenProperties, FirstIs
  <2>2. QED
    BY <1>1, <2>1
<1>7. \/ IsCookie(line) /\ q = [r EXCEPT !.cookies = Inserted(@, parse_cookies(value))]
      \/ ~IsCookie(line) /\ q = [r EXCEPT !.length = number]
      \/ ~IsCookie(line) /\ q = r
  <2>1. q = CASE colon > Len(line) -> Refuse(r)
              [] colon <= Len(line) /\ name = <<"length">> -> [r EXCEPT !.length = number]
              [] colon <= Len(line) /\ name = <<"cookie">> ->
                   IF NoCookies(value) THEN Refuse(r)
                                       ELSE [r EXCEPT !.cookies = Inserted(@, parse_cookies(value))]
              [] OTHER -> r
    BY Zenon DEF add_field, FieldText
  <2> HIDE DEF colon, name, r, value, number
  <2>2. CASE name = <<"length">>
    <3>1. q = [r EXCEPT !.length = number]
      BY <1>1, <1>3, <1>6, <2>1, <2>2
    <3>2. QED
      BY <1>2, <1>3, <2>2, <3>1
  <2>3. CASE name = <<"cookie">>
    <3>1. q = IF NoCookies(value) THEN Refuse(r)
                 ELSE [r EXCEPT !.cookies = Inserted(@, parse_cookies(value))]
      BY <1>1, <1>3, <1>6, <2>1, <2>3
    <3>2. QED
      BY <1>2, <1>4, <2>3, <3>1
  <2>4. CASE name # <<"length">> /\ name # <<"cookie">>
    <3>1. q = r
      BY <1>1, <1>6, <2>1, <2>4
    <3>2. QED
      BY <1>2, <2>4, <3>1
  <2>5. QED
    BY <2>2, <2>3, <2>4
<1>8. parse_cookies(value) = Pairs(CookiesIn(line))
  BY <1>5 DEF parse_cookies
<1> HIDE DEF value, number
<1>9. /\ DOMAIN r = ParserFields /\ r.fields = p.fields + 1
      /\ \A f \in ParserFields \ {"fields"} : r[f] = p[f]
  BY DEF ParserFields
<1> HIDE DEF r
<1>10. r.cookies = p.cookies
  BY <1>9 DEF ParserFields
<1>11. CASE IsCookie(line) /\ q = [r EXCEPT !.cookies = Inserted(@, parse_cookies(value))]
  <2>1. /\ DOMAIN q = ParserFields /\ q.cookies = Inserted(r.cookies, parse_cookies(value))
        /\ \A f \in ParserFields \ {"cookies"} : q[f] = r[f]
    BY <1>9, <1>11 DEF ParserFields
  <2>2. q.fields = p.fields + 1
    BY <1>9, <2>1 DEF ParserFields
  <2>3. QED
    BY <1>8, <1>9, <1>10, <1>11, <2>1, <2>2
<1>12. CASE ~IsCookie(line) /\ q = [r EXCEPT !.length = number]
  <2>1. /\ DOMAIN q = ParserFields
        /\ \A f \in ParserFields \ {"length"} : q[f] = r[f]
    BY <1>9, <1>12 DEF ParserFields
  <2>2. q.fields = p.fields + 1 /\ q.cookies = p.cookies
    BY <1>9, <1>10, <2>1 DEF ParserFields
  <2>3. QED
    BY <1>9, <1>12, <2>1, <2>2
<1>13. CASE ~IsCookie(line) /\ q = r
  BY <1>9, <1>10, <1>13
<1>14. QED
  BY <1>7, <1>11, <1>12, <1>13

\* The cookies up to the end of a line: those before it, and its own.
LEMMA UptoGrows ==
    ASSUME HeaderLength \in Nat, NEW i \in Starts, LineShaped(i)
    PROVE  Upto(LineEnd(i) + 1)
             = Upto(i - 1) \cup {c \in {CookieAt(i, j) : j \in DOMAIN CookiesIn(Lines[i])} :
                                     IsCookie(Lines[i])}
<1> DEFINE e == LineEnd(i)
           own == {c \in {CookieAt(i, j) : j \in DOMAIN CookiesIn(Lines[i])} : IsCookie(Lines[i])}
<1>1. /\ i \in Nat /\ Starts \subseteq Nat /\ e \in Nat /\ i <= e /\ Crlf(i - 2)
      /\ \A j \in i .. e - 1 : ~Crlf(j)
  <2>1. i \in Nat /\ Starts \subseteq Nat
    BY StartsAre
  <2>2. e \in i .. HeaderLength - 1 /\ Crlf(i - 2) /\ \A j \in i .. e - 1 : ~Crlf(j)
    BY Zenon DEF LineShaped
  <2> HIDE DEF e
  <2>3. QED
    BY <2>1, <2>2
<1> HIDE DEF e
<1>2. \A j : CookieAt(i, j).line = i
  BY DEF CookieAt
<1>3. ASSUME NEW c \in Upto(e + 1) PROVE c \in Upto(i - 1) \cup own
  <2>1. c \in Cookies /\ c.line <= e + 1
    BY DEF Upto
  <2>2. PICK k \in Starts : /\ IsCookie(Lines[k])
                            /\ \E j \in DOMAIN CookiesIn(Lines[k]) : c = CookieAt(k, j)
    BY <2>1, CookiesAre
  <2>3. c.line = k
    BY <2>2 DEF CookieAt
  <2>4. k \in Nat /\ k - 2 \in 1 .. HeaderLength - 3 /\ Crlf(k - 2)
    BY StartsAre
  <2>5. CASE k <= i - 1
    BY <2>1, <2>3, <2>5 DEF Upto
  <2>6. CASE k = i
    BY <2>2, <2>6
  <2>7. CASE k = i + 1
    <3>1. k - 2 = i - 1 /\ i - 2 + 1 = i - 1
      BY <1>1, <2>7
    <3>2. input[i - 1] = "cr" /\ input[i - 1] = "lf"
      BY <1>1, <2>4, <3>1 DEF Crlf
    <3>3. QED
      BY <3>2
  <2>8. CASE k > i + 1
    <3>1. k - 2 \in i .. e - 1
      BY <1>1, <2>1, <2>3, <2>4, <2>8
    <3>2. QED
      BY <1>1, <2>4, <3>1
  <2>9. QED
    BY <1>1, <2>4, <2>5, <2>6, <2>7, <2>8
<1>4. ASSUME NEW c \in Upto(i - 1) PROVE c \in Upto(e + 1)
  <2>1. c \in Cookies /\ c.line <= i - 1
    BY DEF Upto
  <2>2. PICK k \in Starts : \E j \in DOMAIN CookiesIn(Lines[k]) : c = CookieAt(k, j)
    BY <2>1, CookiesAre
  <2>3. c.line = k /\ k \in Nat
    BY <1>1, <2>2 DEF CookieAt
  <2>4. c.line <= e + 1
    BY <1>1, <2>1, <2>3
  <2>5. QED
    BY <2>1, <2>4 DEF Upto
<1>5. ASSUME NEW c \in own PROVE c \in Upto(e + 1)
  <2>1. c \in Cookies
    BY CookiesAre
  <2>2. c.line = i
    BY <1>2
  <2>3. QED
    BY <1>1, <2>1, <2>2 DEF Upto
<1> HIDE DEF own
<1>6. Upto(e + 1) = Upto(i - 1) \cup own
  BY <1>3, <1>4, <1>5, Zenon
<1>7. QED
  BY <1>6, Zenon DEF own, e

\* How many colons the first bytes have.
Colons(a) == Cardinality({k \in 1 .. a : input[k] = "colon"})

\* One more colon.
LEMMA ColonsGrow ==
    ASSUME NEW a \in Nat, NEW b \in Nat, a <= b
    PROVE  /\ Colons(a) \in Nat /\ Colons(b) \in Nat /\ Colons(a) <= Colons(b)
           /\ (\E k \in a + 1 .. b : input[k] = "colon") => Colons(a) + 1 <= Colons(b)
<1> DEFINE A == {k \in 1 .. a : input[k] = "colon"}  B == {k \in 1 .. b : input[k] = "colon"}
<1>1. IsFiniteSet(A) /\ IsFiniteSet(B)
  <2>1. IsFiniteSet(1 .. a) /\ IsFiniteSet(1 .. b)
    BY FS_Interval
  <2>2. A \subseteq 1 .. a /\ B \subseteq 1 .. b
    OBVIOUS
  <2> HIDE DEF A, B
  <2>3. QED
    BY <2>1, <2>2, FS_Subset
<1>2. A \subseteq B
  OBVIOUS
<1>3. ASSUME NEW k \in a + 1 .. b, input[k] = "colon" PROVE k \in B /\ k \notin A
  BY <1>3
<1>4. Cardinality(A) \in Nat /\ Cardinality(B) \in Nat
  <2> HIDE DEF A, B
  <2>1. QED
    BY <1>1, FS_CardinalityType
<1>5. Cardinality(A) <= Cardinality(B)
  <2> HIDE DEF A, B
  <2>1. QED
    BY <1>1, <1>2, FS_Subset
<1>6. ASSUME NEW k \in a + 1 .. b, input[k] = "colon" PROVE Cardinality(A) + 1 <= Cardinality(B)
  <2>1. k \in B /\ k \notin A
    BY <1>3, <1>6
  <2> HIDE DEF A, B
  <2>2. Cardinality(A \cup {k}) = Cardinality(A) + 1
    BY <1>1, <2>1, FS_AddElement
  <2>3. A \cup {k} \subseteq B
    BY <1>2, <2>1
  <2>4. Cardinality(A \cup {k}) <= Cardinality(B)
    BY <1>1, <2>3, FS_Subset
  <2>5. QED
    BY <2>2, <2>4
<1>7. Colons(a) = Cardinality(A) /\ Colons(b) = Cardinality(B)
  BY DEF Colons
<1> HIDE DEF A, B
<1>8. QED
  BY <1>4, <1>5, <1>6, <1>7

\* The next line in the buffer is the next line of the header.
LEMMA NextLine ==
    ASSUME input \in Seq(Bytes), Shaped, NEW p, ParserOK(p), NEW i \in Starts, i = p.at + 1,
           LineShaped(i), NEW e, e = LineEnd(i)
    PROVE  /\ e \in Nat /\ e >= i /\ e < HeaderLength
           /\ LineEnds(input, p) = {} => p.end <= e
           /\ LineEnds(input, p) # {} =>
                  /\ Min(LineEnds(input, p)) = e /\ e + 1 <= p.end
                  /\ Line(input, p) = Lines[i]
                  /\ AfterLine(input, p) = [p EXCEPT !.at = e + 1]
<1>1. p.at \in Nat /\ p.end \in Nat /\ p.end <= Len(input) /\ Len(input) \in Nat
  BY LenProperties DEF ParserOK
<1>2. HeaderLength \in Nat
  BY <1>1 DEF Shaped
<1>3. /\ e \in i .. HeaderLength - 1 /\ Crlf(e) /\ \A j \in i .. e - 1 : ~Crlf(j)
      /\ Lines[i] = SubSeq(input, i, e - 1)
  BY Zenon DEF LineShaped
<1>4. i \in Nat /\ e \in Nat /\ e >= i /\ e < HeaderLength
  BY <1>1, <1>2, <1>3
<1>5. LineEnds(input, p) = {j \in i .. p.end - 1 : Crlf(j)}
  BY DEF LineEnds, Crlf
<1>6. ASSUME LineEnds(input, p) = {} PROVE p.end <= e
  <2>1. ~(e \in i .. p.end - 1)
    BY <1>3, <1>5, <1>6
  <2>2. QED
    BY <1>1, <1>4, <2>1
<1>7. ASSUME LineEnds(input, p) # {}
      PROVE  /\ Min(LineEnds(input, p)) = e /\ e + 1 <= p.end
             /\ Line(input, p) = Lines[i] /\ AfterLine(input, p) = [p EXCEPT !.at = e + 1]
  <2> DEFINE m == Min(LineEnds(input, p))
  <2>1. LineEnds(input, p) \subseteq Nat
    BY <1>1, <1>4, <1>5
  <2>2. m \in LineEnds(input, p) /\ \A j \in LineEnds(input, p) : m <= j
    BY <1>7, <2>1, MinIsLeast
  <2> HIDE DEF m
  <2>3. m \in i .. p.end - 1 /\ Crlf(m)
    BY <1>5, <2>2
  <2>4. m >= e
    <3>1. ~(m \in i .. e - 1)
      BY <1>3, <2>3
    <3>2. QED
      BY <1>1, <1>4, <2>3, <3>1
  <2>5. e \in i .. p.end - 1
    BY <1>1, <1>4, <2>3, <2>4
  <2>6. m <= e
    BY <1>3, <1>5, <2>2, <2>5
  <2>7. m = e
    BY <1>1, <1>4, <2>3, <2>4, <2>6
  <2>8. e + 1 <= p.end
    BY <1>1, <1>4, <2>5
  <2>9. Line(input, p) = SubSeq(input, i, m - 1) /\ AfterLine(input, p) = [p EXCEPT !.at = m + 1]
    BY Zenon DEF Line, AfterLine, m
  <2>10. QED
    BY <1>3, <2>7, <2>8, <2>9 DEF m
<1>8. QED
  BY <1>4, <1>6, <1>7

\* The first two words of the request line, and the stages in which it is read.
Method == SubSeq(input, 1, FirstSpace - 1)
Target == SubSeq(input, FirstSpace + 1, SecondSpace - 1)

Words == {"verb", "url", "protocol", "phase2"}

\* Where the parser of a well-formed header stands, and what it has taken so far.
Reached(p) ==
    /\ ParserOK(p) /\ ~p.refused /\ p.progress \in Progress /\ p.fields \in Nat
    /\ p.progress = "verb" => p.at = 0
    /\ p.progress = "url" => p.at = FirstSpace
    /\ p.progress = "protocol" => p.at = SecondSpace
    /\ p.progress = "phase2" => p.at = RequestEnd - 1
    /\ p.progress \in Words => p.fields = 0 /\ p.cookies = Jar({})
    /\ p.progress # "verb" => p.method = Method
    /\ p.progress \notin {"verb", "url"} => p.url = Target
    /\ p.progress = "fields" => p.at + 1 \in Starts
    /\ p.progress = "body" => p.at = HeaderLength
    /\ p.progress \in {"fields", "body"} =>
           p.fields <= Colons(p.at) /\ HasBest(Upto(p.at)) /\ p.cookies = Jar(Upto(p.at))

\* The cookies behind a line.
LEMMA JarAfterLine ==
    ASSUME HeaderLength \in Nat, NEW i \in Starts, LineShaped(i), HasBest(Upto(i - 1)),
           NEW e, e = LineEnd(i)
    PROVE  /\ HasBest(Upto(e + 1))
           /\ Jar(Upto(e + 1)) =
                  IF IsCookie(Lines[i]) THEN Inserted(Jar(Upto(i - 1)), Pairs(CookiesIn(Lines[i])))
                                        ELSE Jar(Upto(i - 1))
           /\ Lines[i] = <<>> => ~IsCookie(Lines[i])
<1> DEFINE line == Lines[i]
           pieces == CookiesIn(line)
           old == Upto(i - 1)
           new == {CookieAt(i, j) : j \in DOMAIN pieces}
<1>1. i \in Nat /\ Starts \subseteq Nat
  BY StartsAre
<1>2. Upto(e + 1) = old \cup {c \in new : IsCookie(line)}
  BY UptoGrows
<1>3. /\ line \in Seq(Bytes)
      /\ IsCookie(line) => \A j \in DOMAIN pieces : Contains(pieces[j], "=")
  BY Zenon DEF LineShaped
<1>4. CASE ~IsCookie(line)
  <2>1. Upto(e + 1) = old
    BY <1>2, <1>4
  <2>2. QED
    BY <1>4, <2>1
<1>5. CASE IsCookie(line)
  <2>1. Upto(e + 1) = old \cup new
    BY <1>2, <1>5
  <2>2. new = RowOf(i, pieces)
    BY DEF CookieAt, RowOf
  <2>3. \A c \in old : c.line < i
    <3>1. TAKE c \in old
    <3>2. c.line <= i - 1 /\ c \in Cookies
      BY DEF Upto
    <3>3. PICK k \in Starts : \E j \in DOMAIN CookiesIn(Lines[k]) : c = CookieAt(k, j)
      BY <3>2, CookiesAre
    <3>4. c.line \in Nat
      BY <1>1, <3>3 DEF CookieAt
    <3>5. QED
      BY <1>1, <3>2, <3>4
  <2>4. PICK n \in Nat : DOMAIN pieces \subseteq 1 .. n
    <3>1. pieces = CookiePieces(FieldText(line))
      BY DEF CookiesIn, FieldText
    <3>2. FieldText(line) \in Seq(Bytes)
      BY <1>3, FieldTextIs
    <3>3. Len(FieldText(line)) + 1 \in Nat
      BY <3>2, LenProperties
    <3>4. DOMAIN CookiePieces(FieldText(line)) \subseteq 1 .. Len(FieldText(line)) + 1
      BY <3>2, CookiePiecesAre
    <3>5. QED
      BY <3>1, <3>3, <3>4
  <2>5. line # <<>>
    BY <1>3, <1>5, CookieHasText
  <2> HIDE DEF old, new, pieces, line
  <2>6. HasBest(old \cup new) /\ Jar(old \cup new) = Inserted(Jar(old), Pairs(pieces))
    <3>1. HasBest(old)
      BY DEF old
    <3>2. i \in Nat
      BY <1>1
    <3>3. QED
      BY <2>2, <2>3, <2>4, <3>1, <3>2, JarGrows
  <2>7. QED
    BY <1>5, <2>1, <2>5, <2>6 DEF line, pieces, old
<1>6. QED
  BY <1>4, <1>5

\* A turn of the loop stays on the way.
LEMMA TurnReaches ==
    ASSUME ReaderAssumption, ParserAssumption, input \in Seq(Bytes), WellFormed, Shaped,
           NEW p, Reached(p), NEW q, q = TakeLine(input, p)
    PROVE  /\ Reached(q) /\ q.end = p.end
           /\ p.progress = "fields" => q.progress \in {"fields", "body"}
           /\ p.progress = "fields" /\ LineEnds(input, p) # {} =>
                  /\ Min(LineEnds(input, p)) \in LineEnds(input, p)
                  /\ LineEnds(input, q) \subseteq LineEnds(input, p) \ {Min(LineEnds(input, p))}
           /\ p.progress # "fields" \/ LineEnds(input, p) = {} => q = p
<1>1. CASE p.progress # "fields" \/ LineEnds(input, p) = {}
  <2>1. q = p
    BY <1>1 DEF TakeLine
  <2>2. QED
    BY <1>1, <2>1
<1>2. CASE p.progress = "fields" /\ LineEnds(input, p) # {}
  <2> DEFINE i == p.at + 1  e == LineEnd(i)  line == Lines[i]  r == AfterLine(input, p)
  <2>1. /\ ParserOK(p) /\ ~p.refused /\ p.fields \in Nat /\ i \in Starts
        /\ p.method = Method /\ p.url = Target
        /\ p.fields <= Colons(p.at) /\ HasBest(Upto(p.at)) /\ p.cookies = Jar(Upto(p.at))
    BY <1>2 DEF Reached
  <2>2. /\ p.at \in Nat /\ p.end \in Nat /\ p.end <= Len(input) /\ Len(input) \in Nat
        /\ DOMAIN p = ParserFields /\ i - 1 = p.at /\ i \in Nat
    BY <2>1, LenProperties DEF ParserOK
  <2>3. HeaderLength \in Nat /\ HeaderLength <= Len(input)
    BY <2>2 DEF Shaped
  <2>4. LineShaped(i)
    BY <2>1, LinesAreShaped
  <2>5. /\ e \in Nat /\ e >= i /\ e < HeaderLength
        /\ Min(LineEnds(input, p)) = e /\ e + 1 <= p.end
        /\ Line(input, p) = line /\ r = [p EXCEPT !.at = e + 1]
    <3> HIDE DEF e, i
    <3>1. i = p.at + 1 /\ e = LineEnd(i)
      BY DEF i, e
    <3>2. QED
      BY <1>2, <2>1, <2>4, <3>1, NextLine
  <2>6. /\ line \in Seq(Bytes) /\ Len(line) = e - i
        /\ \A k \in 1 .. e - i : line[k] = input[i + k - 1]
        /\ e = i => e = HeaderLength - 1
        /\ e # i => e + 2 \in Starts
        /\ line # <<>> => line[1] \in Alnum /\ Contains(line, "colon")
        /\ IsCookie(line) => \A j \in DOMAIN CookiesIn(line) : Contains(CookiesIn(line)[j], "=")
    BY <2>4, Zenon DEF LineShaped
  <2>7. /\ HasBest(Upto(e + 1))
        /\ Jar(Upto(e + 1)) = IF IsCookie(line) THEN Inserted(Jar(Upto(p.at)), Pairs(CookiesIn(line)))
                                                ELSE Jar(Upto(p.at))
        /\ line = <<>> => ~IsCookie(line)
    <3> HIDE DEF i
    <3>1. HasBest(Upto(i - 1))
      BY <2>1, <2>2
    <3>2. /\ HasBest(Upto(e + 1))
          /\ Jar(Upto(e + 1)) = IF IsCookie(line) THEN Inserted(Jar(Upto(i - 1)), Pairs(CookiesIn(line)))
                                                  ELSE Jar(Upto(i - 1))
          /\ line = <<>> => ~IsCookie(line)
      BY <2>1, <2>3, <2>4, <3>1, JarAfterLine
    <3>3. QED
      BY <2>2, <3>2, Zenon
  <2>16. /\ i \in Nat /\ e \in Nat /\ p.at \in Nat /\ p.end \in Nat
         /\ i = p.at + 1 /\ e >= i /\ e + 1 <= p.end
    <3>1. i = p.at + 1 /\ p.at \in Nat /\ p.end \in Nat /\ i \in Nat
      BY <2>2
    <3>2. e \in Nat /\ e >= i /\ e + 1 <= p.end
      BY <2>5
    <3>3. QED
      BY <3>1, <3>2
  <2>17. line \in Seq(Bytes) /\ Len(line) = e - i
    BY <2>6
  <2> HIDE DEF e, line, r, i
  <2>8. /\ DOMAIN r = ParserFields /\ r.at = e + 1
        /\ \A f \in ParserFields \ {"at"} : r[f] = p[f]
    BY <2>2, <2>5 DEF ParserFields
  <2>9. /\ r.end = p.end /\ r.progress = "fields" /\ ~r.refused /\ r.fields = p.fields
        /\ r.method = Method /\ r.url = Target /\ r.cookies = p.cookies /\ r.length = p.length
        /\ r.refused = p.refused
    BY <1>2, <2>1, <2>8 DEF ParserFields
  <2>10. ParserOK(r)
    <3>1. r.at \in Nat /\ r.end \in Nat /\ r.at <= r.end /\ r.end <= Len(input)
      BY <2>2, <2>5, <2>8, <2>9
    <3>2. r.refused \in BOOLEAN /\ r.length \in Int /\ r.length < SizeModulus
      BY <2>1, <2>9 DEF ParserOK
    <3>3. QED
      BY <2>8, <3>1, <3>2 DEF ParserOK
  <2>11. /\ Colons(p.at) \in Nat /\ Colons(e + 1) \in Nat /\ Colons(p.at) <= Colons(e + 1)
         /\ (\E k \in p.at + 1 .. e + 1 : input[k] = "colon") => Colons(p.at) + 1 <= Colons(e + 1)
    <3>1. e + 1 \in Nat /\ p.at <= e + 1
      BY <2>2, <2>5
    <3>2. QED
      BY <2>2, <3>1, ColonsGrow
  <2>12. ASSUME q.at = e + 1, q.end = p.end
         PROVE  /\ Min(LineEnds(input, p)) \in LineEnds(input, p)
                /\ LineEnds(input, q) \subseteq LineEnds(input, p) \ {Min(LineEnds(input, p))}
    <3>1. LineEnds(input, p) \subseteq Nat
      BY <2>2 DEF LineEnds
    <3>2. Min(LineEnds(input, p)) \in LineEnds(input, p)
      BY <1>2, <3>1, MinIsLeast
    <3>3. ASSUME NEW k \in LineEnds(input, q) PROVE k \in LineEnds(input, p) /\ k # e
      <4>1. k \in e + 2 .. p.end - 1 /\ input[k] = "cr" /\ input[k + 1] = "lf"
        BY <2>5, <2>12 DEF LineEnds
      <4>2. k \in p.at + 1 .. p.end - 1 /\ k # e
        <5>1. k \in e + 2 .. p.end - 1
          BY <4>1
        <5>2. QED
          BY <2>16, <5>1
      <4>3. QED
        BY <4>1, <4>2 DEF LineEnds
    <3>4. QED
      BY <2>5, <3>2, <3>3
  <2>13. CASE line = <<>>
    <3>1. q = [r EXCEPT !.progress = "body"]
      BY <1>2, <2>1, <2>5, <2>13 DEF TakeLine, r
    <3>2. /\ DOMAIN q = ParserFields /\ q.progress = "body"
          /\ \A f \in ParserFields \ {"progress"} : q[f] = r[f]
      BY <2>8, <3>1 DEF ParserFields
    <3>3. /\ q.at = e + 1 /\ q.end = p.end /\ ~q.refused /\ q.refused = p.refused
          /\ q.fields = p.fields /\ q.method = Method /\ q.url = Target
          /\ q.cookies = p.cookies /\ q.length = p.length
      BY <2>8, <2>9, <3>2 DEF ParserFields
    <3>4. ParserOK(q)
      BY <2>8, <2>9, <2>10, <3>2, <3>3 DEF ParserOK
    <3>5. q.at = HeaderLength
      <4>1. Len(line) = 0
        BY <2>13, EmptySeq
      <4>2. e = i
        BY SMTT(30), <2>16, <2>17, <4>1
      <4>3. QED
        BY <2>3, <2>6, <3>3, <4>2
    <3>6. q.fields <= Colons(q.at) /\ q.fields \in Nat
      BY <2>1, <2>11, <3>3
    <3>7. HasBest(Upto(q.at)) /\ q.cookies = Jar(Upto(q.at))
      BY <2>1, <2>7, <2>13, <3>3
    <3>8. Reached(q)
      BY <3>2, <3>3, <3>4, <3>5, <3>6, <3>7 DEF Reached, Progress, Words
    <3>9. QED
      BY <1>2, <2>12, <3>2, <3>3, <3>8
  <2>14. CASE line # <<>>
    <3>1. line[1] \in Alnum /\ Contains(line, "colon")
      BY <2>6, <2>14
    <3>2. Colons(p.at) + 1 <= Colons(e + 1)
      <4>1. PICK k \in 1 .. Len(line) : line[k] = "colon"
        BY <3>1 DEF Contains
      <4>2. PICK j \in Nat : j = i + k - 1 /\ j \in p.at + 1 .. e + 1 /\ k \in 1 .. e - i
        <5>1. k \in Nat /\ k >= 1 /\ k <= e - i
          BY <2>16, <2>17
        <5>2. i + k - 1 \in Nat /\ i + k - 1 \in p.at + 1 .. e + 1 /\ k \in 1 .. e - i
          BY SMTT(30), <2>16, <5>1
        <5>3. QED
          BY <5>2
      <4>3. input[j] = "colon"
        <5>1. line[k] = input[i + k - 1]
          BY <2>6, <4>2
        <5>2. QED
          BY <4>1, <4>2, <5>1
      <4>4. QED
        BY <2>11, <4>2, <4>3
    <3>3. p.fields + 1 <= FieldMax
      <4>1. Colons(HeaderLength) <= FieldMax
        BY Zenon DEF WellFormed, Colons
      <4>2. Colons(e + 1) <= Colons(HeaderLength) /\ Colons(HeaderLength) \in Nat
        <5>1. e + 1 \in Nat /\ e + 1 <= HeaderLength
          BY <2>3, <2>5
        <5>2. QED
          BY <2>3, <5>1, ColonsGrow
      <4>3. QED
        BY <2>1, <2>11, <3>2, <4>1, <4>2 DEF ParserAssumption
    <3>4. q = add_field(r, line)
      <4>1. ~(r.fields + 1 > FieldMax) /\ ~(p.fields + 1 > FieldMax)
        BY <2>1, <2>9, <3>3 DEF ParserAssumption
      <4>2. q = CASE line = <<>> -> [r EXCEPT !.progress = "body"]
                  [] line # <<>> /\ (line[1] \notin Alnum \/ p.fields + 1 > FieldMax) -> Refuse(r)
                  [] OTHER -> add_field(r, line)
        <5>1. ~(p.progress # "fields" \/ p.refused \/ LineEnds(input, p) = {})
          BY <1>2, <2>1
        <5>2. TakeLine(input, p) =
                CASE Line(input, p) = <<>> -> [AfterLine(input, p) EXCEPT !.progress = "body"]
                  [] Line(input, p) # <<>>
                       /\ (Line(input, p)[1] \notin Alnum \/ p.fields + 1 > FieldMax) ->
                          Refuse(AfterLine(input, p))
                  [] OTHER -> add_field(AfterLine(input, p), Line(input, p))
          BY <5>1, Zenon DEF TakeLine
        <5>3. QED
          BY <2>5, <5>2, Zenon DEF r
      <4>3. QED
        BY <2>14, <3>1, <4>1, <4>2
    <3>5. /\ DOMAIN q = ParserFields
          /\ \A f \in ParserFields \ {"fields", "length", "cookies"} : q[f] = r[f]
          /\ q.fields = r.fields + 1
          /\ q.cookies = IF IsCookie(line) THEN Inserted(r.cookies, Pairs(CookiesIn(line)))
                                           ELSE r.cookies
      BY <2>1, <2>6, <2>8, <2>9, <3>1, <3>4, FieldAdded
    <3>6. /\ q.at = e + 1 /\ q.end = p.end /\ ~q.refused /\ q.progress = "fields"
          /\ q.method = Method /\ q.url = Target
      BY <2>8, <2>9, <3>5 DEF ParserFields
    <3>7. ParserOK(q)
      BY <2>10, <3>4, Adds
    <3>8. q.fields = p.fields + 1 /\ q.fields \in Nat /\ q.fields <= Colons(q.at)
      <4>1. q.fields = p.fields + 1
        BY <2>9, <3>5
      <4>2. QED
        BY <2>1, <2>11, <3>2, <3>6, <4>1
    <3>9. HasBest(Upto(q.at)) /\ q.cookies = Jar(Upto(q.at))
      BY <2>1, <2>7, <2>9, <3>5, <3>6
    <3>10. q.at + 1 \in Starts
      <4>1. e # i
        <5>1. Len(line) # 0
          BY <2>6, <2>14, EmptySeq
        <5>2. QED
          BY <2>2, <2>6, <5>1
      <4>2. q.at + 1 = e + 2
        BY <2>5, <3>6
      <4>3. QED
        BY <2>6, <4>1, <4>2
    <3>11. Reached(q)
      BY <3>6, <3>7, <3>8, <3>9, <3>10 DEF Reached, Progress, Words
    <3>12. QED
      BY <1>2, <2>12, <3>6, <3>11
  <2>15. QED
    BY <2>13, <2>14
<1>3. QED
  BY <1>1, <1>2

\* What the parser leaves in its buffer when it waits for more.
Settled(p) ==
    /\ p.progress \in {"verb", "url", "protocol"} => WordEnds(input, p) = {}
    /\ p.progress \in {"phase2", "fields"} => LineEnds(input, p) = {}

\* The next word in the buffer is the next word of the request line.
LEMMA NextWord ==
    ASSUME input \in Seq(Bytes), NEW p, ParserOK(p), NEW m \in Nat, p.at < m,
           input[m] \in {"sp", "cr"}, \A i \in p.at + 1 .. m - 1 : input[i] \notin {"sp", "cr"}
    PROVE  /\ ~HasWord(input, p) => p.end < m
           /\ HasWord(input, p) =>
                  /\ m <= p.end /\ WordEnd(input, p) = m
                  /\ Word(input, p) = SubSeq(input, p.at + 1, m - 1)
                  /\ AfterWord(input, p) = [p EXCEPT !.at = m - 1]
<1> DEFINE ends == WordEnds(input, p)
<1>1. p.at \in Nat /\ p.end \in Nat
  BY DEF ParserOK
<1>2. \A i : i \in ends <=> i \in p.at + 1 .. p.end /\ input[i] \in {"sp", "cr"}
  BY DEF WordEnds
<1>3. ends \subseteq Nat
  BY <1>1, <1>2
<1> HIDE DEF ends
<1>4. ASSUME ends = {} PROVE p.end < m
  <2>1. m \notin p.at + 1 .. p.end
    BY <1>2, <1>4
  <2>2. QED
    BY <1>1, <2>1
<1>5. ASSUME ends # {}
      PROVE  m <= p.end /\ WordEnd(input, p) = m
  <2> DEFINE all == ends \cup {p.end + 1}
  <2>1. all \in SUBSET Nat /\ all # {}
    <3>1. p.end + 1 \in Nat
      BY <1>1
    <3>2. QED
      BY <1>3, <3>1
  <2>2. PICK w \in Nat : w = WordEnd(input, p) /\ w \in all /\ \A k \in all : w <= k
    <3>1. WordEnd(input, p) = Min(all)
      BY DEF WordEnd, ends
    <3> HIDE DEF all
    <3>2. Min(all) \in all /\ \A k \in all : Min(all) <= k
      BY <2>1, MinIsLeast
    <3>3. QED
      BY <2>1, <3>1, <3>2
  <2>3. PICK k \in ends : TRUE
    BY <1>5
  <2>4. k \in Nat /\ k >= p.at + 1 /\ k <= p.end /\ k \notin p.at + 1 .. m - 1
    BY <1>1, <1>2, <2>3
  <2>5. m <= k
    BY <1>1, <2>4
  <2>6. m \in ends
    <3>1. m \in p.at + 1 .. p.end
      BY <1>1, <2>4, <2>5
    <3>2. QED
      BY <1>2, <3>1
  <2>7. w <= m
    BY <2>2, <2>6
  <2>8. w \in ends
    BY <1>1, <2>2, <2>4, <2>5, <2>7
  <2>9. w \notin p.at + 1 .. m - 1 /\ w >= p.at + 1
    BY <1>1, <1>2, <2>8
  <2>10. QED
    BY <1>1, <2>2, <2>4, <2>5, <2>7, <2>9
<1>6. ASSUME WordEnd(input, p) = m
      PROVE  /\ Word(input, p) = SubSeq(input, p.at + 1, m - 1)
             /\ AfterWord(input, p) = [p EXCEPT !.at = m - 1]
  BY <1>6, Zenon DEF Word, AfterWord
<1>7. HasWord(input, p) <=> ends # {}
  BY DEF HasWord, ends
<1>8. QED
  BY <1>4, <1>5, <1>6, <1>7

\* A part contains what lies in it.
LEMMA PartContains ==
    ASSUME NEW s \in Seq(Bytes), NEW a \in Nat, a >= 1, NEW b \in Nat, b <= Len(s),
           NEW i \in a .. b, NEW x, s[i] = x
    PROVE  Contains(SubSeq(s, a, b), x)
<1> DEFINE t == SubSeq(s, a, b)
<1>1. /\ t \in Seq(Bytes) /\ Len(t) = IF a <= b THEN b - a + 1 ELSE 0
      /\ \A k \in 1 .. b - a + 1 : t[k] = s[a + k - 1]
  BY Part
<1>2. PICK j \in 1 .. b - a + 1 : a + j - 1 = i
  <2>1. i - a + 1 \in 1 .. b - a + 1 /\ a + (i - a + 1) - 1 = i
    OBVIOUS
  <2>2. QED
    BY <2>1
<1> HIDE DEF t
<1>3. t[j] = x
  BY <1>1, <1>2
<1>4. j \in 1 .. Len(t)
  BY <1>1
<1>5. Contains(t, x)
  BY <1>3, <1>4 DEF Contains
<1>6. QED
  BY <1>5 DEF t

\* The method.
LEMMA VerbReaches ==
    ASSUME ReaderAssumption, input \in Seq(Bytes), Shaped, NEW p, Reached(p),
           NEW q, q = Verb(input, p)
    PROVE  /\ Reached(q) /\ q.end = p.end
           /\ q.progress = "verb" => Settled(q)
<1>1. CASE p.progress = "verb" /\ HasWord(input, p)
  <2> DEFINE m == FirstSpace  w == AfterWord(input, p)
  <2>1. /\ ParserOK(p) /\ ~p.refused /\ p.at = 0 /\ p.fields = 0 /\ p.cookies = Jar({})
        /\ p.fields \in Nat
    BY <1>1 DEF Reached, Words
  <2>2. /\ p.at \in Nat /\ p.end \in Nat /\ p.end <= Len(input) /\ Len(input) \in Nat
        /\ DOMAIN p = ParserFields
    BY <2>1, LenProperties DEF ParserOK
  <2>3. HeaderLength \in Nat /\ RequestEnd \in Nat
    BY <2>2 DEF Shaped
  <2>4. m \in Nat /\ m >= 1 /\ m < RequestEnd /\ m < SecondSpace /\ SecondSpace \in Nat
        /\ input[m] = "sp"
    BY <2>3 DEF Shaped
  <2>5. \A i \in 1 .. m - 1 : input[i] \notin {"sp", "cr"}
    <3>1. TAKE i \in 1 .. m - 1
    <3>2. i \in 1 .. RequestEnd - 1 /\ i # FirstSpace /\ i # SecondSpace
      BY <2>3, <2>4
    <3>3. QED
      BY <3>2 DEF Shaped
  <2>6. m <= p.end /\ Word(input, p) = SubSeq(input, 1, m - 1) /\ w = [p EXCEPT !.at = m - 1]
    <3>1. p.at + 1 = 1
      BY <2>1
    <3> HIDE DEF m
    <3>2. p.at < m /\ \A i \in p.at + 1 .. m - 1 : input[i] \notin {"sp", "cr"}
      BY <2>1, <2>4, <2>5, <3>1
    <3>3. QED
      BY <1>1, <2>1, <2>4, <3>1, <3>2, NextWord
  <2> DEFINE v == [w EXCEPT !.method = Word(input, p)]
  <2>7. /\ DOMAIN v = ParserFields /\ v.at = m - 1 /\ v.method = Method
        /\ \A f \in ParserFields \ {"at", "method"} : v[f] = p[f]
    BY <2>2, <2>6 DEF ParserFields, Method
  <2>8. q = ExpectSpace(input, v, "url")
    BY <1>1 DEF Verb
  <2> HIDE DEF v, w, m
  <2>9. v.at < v.end /\ input[v.at + 1] = "sp" /\ v.at + 1 = m
    <3>1. v.end = p.end
      BY <2>7 DEF ParserFields
    <3>2. v.at + 1 = m
      BY <2>4, <2>7
    <3>3. QED
      BY <2>2, <2>4, <2>6, <2>7, <3>1, <3>2
  <2>10. q = [v EXCEPT !.at = @ + 1, !.progress = "url"]
    BY <2>8, <2>9 DEF ExpectSpace
  <2>11. /\ DOMAIN q = ParserFields /\ q.at = m /\ q.progress = "url"
         /\ \A f \in ParserFields \ {"at", "progress"} : q[f] = v[f]
    BY <2>7, <2>9, <2>10 DEF ParserFields
  <2>12. /\ q.end = p.end /\ q.method = Method /\ q.fields = p.fields /\ q.cookies = p.cookies
         /\ q.refused = p.refused /\ q.length = p.length
    BY <2>7, <2>11 DEF ParserFields
  <2>13. ParserOK(q)
    <3>1. q.at \in Nat /\ q.end \in Nat /\ q.at <= q.end /\ q.end <= Len(input)
      BY <2>2, <2>4, <2>6, <2>11, <2>12
    <3>2. q.refused \in BOOLEAN /\ q.length \in Int /\ q.length < SizeModulus
      BY <2>1, <2>12 DEF ParserOK
    <3>3. QED
      BY <2>11, <3>1, <3>2 DEF ParserOK
  <2>14. Reached(q)
    BY <2>1, <2>11, <2>12, <2>13 DEF Reached, Progress, Words, m
  <2>15. QED
    BY <2>11, <2>12, <2>14
<1>2. CASE ~(p.progress = "verb" /\ HasWord(input, p))
  <2>1. q = p
    BY <1>2 DEF Verb
  <2>2. q.progress = "verb" => Settled(q)
    BY <1>2, <2>1 DEF Settled, HasWord
  <2>3. QED
    BY <2>1, <2>2
<1>3. QED
  BY <1>1, <1>2

\* The url.
LEMMA UrlReaches ==
    ASSUME ReaderAssumption, input \in Seq(Bytes), Shaped, NEW p, Reached(p),
           p.progress = "verb" => Settled(p), NEW q, q = Url(input, p)
    PROVE  /\ Reached(q) /\ q.end = p.end
           /\ q.progress \in {"verb", "url"} => Settled(q)
<1>1. CASE p.progress = "url" /\ HasWord(input, p)
  <2> DEFINE m == SecondSpace  w == AfterWord(input, p)
  <2>1. /\ ParserOK(p) /\ ~p.refused /\ p.at = FirstSpace /\ p.fields = 0 /\ p.cookies = Jar({})
        /\ p.fields \in Nat /\ p.method = Method
    BY <1>1 DEF Reached, Words
  <2>2. /\ p.at \in Nat /\ p.end \in Nat /\ p.end <= Len(input) /\ Len(input) \in Nat
        /\ DOMAIN p = ParserFields
    BY <2>1, LenProperties DEF ParserOK
  <2>3. HeaderLength \in Nat /\ RequestEnd \in Nat
    BY <2>2 DEF Shaped
  <2>4. m \in Nat /\ p.at < m /\ m < RequestEnd /\ input[m] = "sp" /\ p.at >= 1
    BY <2>1, <2>3 DEF Shaped
  <2>5. \A i \in p.at + 1 .. m - 1 : input[i] \notin {"sp", "cr"}
    <3>1. TAKE i \in p.at + 1 .. m - 1
    <3>2. i \in 1 .. RequestEnd - 1 /\ i # p.at /\ i # m
      BY <2>2, <2>3, <2>4
    <3>3. i # FirstSpace /\ i # SecondSpace
      BY <2>1, <3>2
    <3>4. QED
      BY <3>2, <3>3 DEF Shaped
  <2>6. m <= p.end /\ Word(input, p) = SubSeq(input, p.at + 1, m - 1) /\ w = [p EXCEPT !.at = m - 1]
    <3> HIDE DEF m
    <3>1. QED
      BY <1>1, <2>1, <2>4, <2>5, NextWord
  <2> DEFINE v == [w EXCEPT !.url = Word(input, p)]
  <2>7. /\ DOMAIN v = ParserFields /\ v.at = m - 1 /\ v.url = Target
        /\ \A f \in ParserFields \ {"at", "url"} : v[f] = p[f]
    BY <2>1, <2>2, <2>6 DEF ParserFields, Target
  <2>8. q = ExpectSpace(input, v, "protocol")
    BY <1>1 DEF Url
  <2> HIDE DEF v, w, m
  <2>9. v.at < v.end /\ input[v.at + 1] = "sp" /\ v.at + 1 = m
    <3>1. v.end = p.end
      BY <2>7 DEF ParserFields
    <3>2. v.at + 1 = m
      BY <2>4, <2>7
    <3>3. QED
      BY <2>2, <2>4, <2>6, <2>7, <3>1, <3>2
  <2>10. q = [v EXCEPT !.at = @ + 1, !.progress = "protocol"]
    BY <2>8, <2>9 DEF ExpectSpace
  <2>11. /\ DOMAIN q = ParserFields /\ q.at = m /\ q.progress = "protocol"
         /\ \A f \in ParserFields \ {"at", "progress"} : q[f] = v[f]
    BY <2>7, <2>9, <2>10 DEF ParserFields
  <2>12. /\ q.end = p.end /\ q.method = Method /\ q.url = Target /\ q.fields = p.fields
         /\ q.cookies = p.cookies /\ q.refused = p.refused /\ q.length = p.length
    BY <2>1, <2>7, <2>11 DEF ParserFields
  <2>13. ParserOK(q)
    <3>1. q.at \in Nat /\ q.end \in Nat /\ q.at <= q.end /\ q.end <= Len(input)
      BY <2>2, <2>4, <2>6, <2>11, <2>12
    <3>2. q.refused \in BOOLEAN /\ q.length \in Int /\ q.length < SizeModulus
      BY <2>1, <2>12 DEF ParserOK
    <3>3. QED
      BY <2>11, <3>1, <3>2 DEF ParserOK
  <2>14. Reached(q)
    BY <2>1, <2>11, <2>12, <2>13 DEF Reached, Progress, Words, m
  <2>15. QED
    BY <2>11, <2>12, <2>14
<1>2. CASE ~(p.progress = "url" /\ HasWord(input, p))
  <2>1. q = p
    BY <1>2 DEF Url
  <2>2. q.progress = "url" => Settled(q)
    BY <1>2, <2>1 DEF Settled, HasWord
  <2>3. QED
    BY <2>1, <2>2
<1>3. QED
  BY <1>1, <1>2

\* The protocol.
LEMMA ProtocolReaches ==
    ASSUME ReaderAssumption, input \in Seq(Bytes), Shaped, NEW p, Reached(p),
           p.progress \in {"verb", "url"} => Settled(p), NEW q, q = Protocol(input, p)
    PROVE  /\ Reached(q) /\ q.end = p.end
           /\ q.progress \in {"verb", "url", "protocol"} => Settled(q)
<1>1. CASE p.progress = "protocol" /\ HasWord(input, p)
  <2> DEFINE m == RequestEnd  w == AfterWord(input, p)
  <2>1. /\ ParserOK(p) /\ ~p.refused /\ p.at = SecondSpace /\ p.fields = 0 /\ p.cookies = Jar({})
        /\ p.fields \in Nat /\ p.method = Method /\ p.url = Target
    BY <1>1 DEF Reached, Words
  <2>2. /\ p.at \in Nat /\ p.end \in Nat /\ p.end <= Len(input) /\ Len(input) \in Nat
        /\ DOMAIN p = ParserFields
    BY <2>1, LenProperties DEF ParserOK
  <2>3. HeaderLength \in Nat /\ m \in Nat
    BY <2>2 DEF Shaped
  <2>4. p.at < m /\ input[m] = "cr" /\ p.at > FirstSpace /\ FirstSpace \in Nat /\ p.at >= 1
    BY <2>1, <2>3 DEF Shaped, Crlf
  <2>5. \A i \in p.at + 1 .. m - 1 : input[i] \notin {"sp", "cr"}
    <3>1. TAKE i \in p.at + 1 .. m - 1
    <3>2. i \in 1 .. m - 1 /\ i # p.at /\ i # FirstSpace
      BY <2>2, <2>3, <2>4
    <3>3. i \in 1 .. RequestEnd - 1 /\ i # FirstSpace /\ i # SecondSpace
      BY <2>1, <3>2
    <3>4. QED
      BY <3>3 DEF Shaped
  <2>6. m <= p.end /\ Word(input, p) = SubSeq(input, p.at + 1, m - 1) /\ w = [p EXCEPT !.at = m - 1]
    <3> HIDE DEF m
    <3>1. input[m] \in {"sp", "cr"}
      BY <2>4
    <3>2. QED
      BY <1>1, <2>1, <2>3, <2>4, <2>5, <3>1, NextWord
  <2>7. Contains(Word(input, p), "slash")
    <3>1. PICK i \in SecondSpace + 1 .. RequestEnd - 1 : input[i] = "slash"
      BY DEF Shaped
    <3>2. PICK a \in Nat : a = p.at + 1 /\ a >= 1
      BY <2>2
    <3> HIDE DEF m
    <3>3. PICK b \in Nat : b = m - 1 /\ b <= Len(input)
      <4>1. m >= 1 /\ m <= Len(input)
        BY SMTT(30), <2>2, <2>3, <2>4, <2>6
      <4>2. m - 1 \in Nat /\ m - 1 <= Len(input)
        BY <2>2, <2>3, <4>1
      <4>3. QED
        BY <4>2
    <3>4. i \in a .. b
      BY <2>1, <3>1, <3>2, <3>3 DEF m
    <3>5. Contains(SubSeq(input, a, b), "slash")
      BY <3>1, <3>2, <3>3, <3>4, PartContains
    <3>6. QED
      BY <2>6, <3>2, <3>3, <3>5
  <2>8. q = [w EXCEPT !.protocol = Word(input, p), !.progress = "phase2"]
    BY <1>1, <2>7 DEF Protocol
  <2>9. /\ DOMAIN q = ParserFields /\ q.at = m - 1 /\ q.progress = "phase2"
        /\ \A f \in ParserFields \ {"at", "protocol", "progress"} : q[f] = p[f]
    <3> HIDE DEF w, m
    <3>1. DOMAIN w = ParserFields /\ w.at = m - 1 /\ \A f \in ParserFields \ {"at"} : w[f] = p[f]
      BY <2>2, <2>6 DEF ParserFields
    <3>2. QED
      BY <2>8, <3>1 DEF ParserFields
  <2>10. /\ q.end = p.end /\ q.method = Method /\ q.url = Target /\ q.fields = p.fields
         /\ q.cookies = p.cookies /\ q.refused = p.refused /\ q.length = p.length
    BY <2>1, <2>9 DEF ParserFields
  <2> HIDE DEF w, m
  <2>11. ParserOK(q)
    <3>1. q.at \in Nat /\ q.end \in Nat /\ q.at <= q.end /\ q.end <= Len(input)
      BY SMTT(30), <2>2, <2>3, <2>4, <2>6, <2>9, <2>10
    <3>2. q.refused \in BOOLEAN /\ q.length \in Int /\ q.length < SizeModulus
      BY <2>1, <2>10 DEF ParserOK
    <3>3. QED
      BY <2>9, <3>1, <3>2 DEF ParserOK
  <2>12. Reached(q)
    BY <2>1, <2>9, <2>10, <2>11 DEF Reached, Progress, Words, m
  <2>13. QED
    BY <2>9, <2>10, <2>12
<1>2. CASE ~(p.progress = "protocol" /\ HasWord(input, p))
  <2>1. q = p
    BY <1>2 DEF Protocol
  <2>2. q.progress = "protocol" => Settled(q)
    BY <1>2, <2>1 DEF Settled, HasWord
  <2>3. QED
    BY <2>1, <2>2
<1>3. QED
  BY <1>1, <1>2

\* There is no cookie before the first field.
LEMMA NoCookiesYet ==
    ASSUME input \in Seq(Bytes), Shaped
    PROVE  Upto(RequestEnd + 1) = {} /\ HasBest({}) /\ RequestEnd + 2 \in Starts
<1>1. Len(input) \in Nat
  BY LenProperties
<1>2. HeaderLength \in Nat /\ RequestEnd \in Nat
  BY <1>1 DEF Shaped
<1>3. ASSUME NEW c \in Upto(RequestEnd + 1) PROVE FALSE
  <2>1. c \in Cookies /\ c.line <= RequestEnd + 1
    BY DEF Upto
  <2>2. PICK k \in Starts : \E j \in DOMAIN CookiesIn(Lines[k]) : c = CookieAt(k, j)
    BY <2>1, CookiesAre
  <2>3. c.line = k
    BY <2>2 DEF CookieAt
  <2>4. k \in Nat /\ k - 2 \in 1 .. HeaderLength - 3 /\ Crlf(k - 2)
    BY <1>2, StartsAre
  <2>5. k - 2 \in 1 .. RequestEnd - 1
    <3>1. k <= RequestEnd + 1
      BY <2>1, <2>3
    <3>2. k - 2 >= 1
      BY <1>2, <2>4
    <3>3. QED
      BY <1>2, <2>4, <3>1, <3>2
  <2>6. input[k - 2] # "cr"
    BY <2>5 DEF Shaped
  <2>7. QED
    BY <2>4, <2>6 DEF Crlf
<1>4. HasBest({})
  BY DEF HasBest
<1>5. RequestEnd + 2 \in Starts
  <2>1. RequestEnd \in 1 .. HeaderLength - 3 /\ Crlf(RequestEnd)
    BY DEF Shaped
  <2>2. RequestEnd + 2 \in Nat /\ RequestEnd + 2 - 2 = RequestEnd
    BY <1>2
  <2>3. RequestEnd + 2 - 2 \in 1 .. HeaderLength - 3 /\ Crlf(RequestEnd + 2 - 2)
    BY <2>1, <2>2
  <2>4. QED
    BY <1>2, <2>2, <2>3, StartsAre
<1>6. QED
  BY <1>3, <1>4, <1>5

\* The end of the request line.
LEMMA RestReaches ==
    ASSUME ReaderAssumption, input \in Seq(Bytes), Shaped, NEW p, Reached(p),
           p.progress \in {"verb", "url", "protocol"} => Settled(p), NEW q, q = RestOfLine(input, p)
    PROVE  /\ Reached(q) /\ q.end = p.end
           /\ q.progress \in Words => Settled(q)
<1>1. CASE p.progress = "phase2" /\ LineEnds(input, p) # {}
  <2> DEFINE m == RequestEnd  w == AfterLine(input, p)  ends == LineEnds(input, p)
  <2>1. /\ ParserOK(p) /\ ~p.refused /\ p.at = m - 1 /\ p.fields = 0 /\ p.cookies = Jar({})
        /\ p.fields \in Nat /\ p.method = Method /\ p.url = Target
    BY <1>1 DEF Reached, Words
  <2>2. /\ p.at \in Nat /\ p.end \in Nat /\ p.end <= Len(input) /\ Len(input) \in Nat
        /\ DOMAIN p = ParserFields
    BY <2>1, LenProperties DEF ParserOK
  <2>3. HeaderLength \in Nat /\ m \in Nat /\ m >= 1 /\ input[m] = "cr" /\ input[m + 1] = "lf"
    BY <2>2 DEF Shaped, Crlf
  <2>4. /\ Upto(m + 1) = {} /\ HasBest({}) /\ m + 2 \in Starts
    BY NoCookiesYet
  <2> HIDE DEF m
  <2>5. \A i : i \in ends <=> i \in m .. p.end - 1 /\ input[i] = "cr" /\ input[i + 1] = "lf"
    <3>1. p.at + 1 = m
      BY <2>1, <2>3
    <3>2. QED
      BY <3>1 DEF LineEnds
  <2>6. ends \in SUBSET Nat /\ ends # {}
    BY <1>1, <2>2, <2>3, <2>5
  <2> HIDE DEF ends
  <2>7. Min(ends) = m /\ m <= p.end - 1
    <3>1. Min(ends) \in ends /\ \A k \in ends : Min(ends) <= k
      BY <2>6, MinIsLeast
    <3>2. PICK k \in Nat : k = Min(ends)
      BY <2>6, <3>1
    <3>3. k \in m .. p.end - 1
      BY <2>5, <3>1, <3>2
    <3>4. m \in m .. p.end - 1
      BY <2>2, <2>3, <3>3
    <3>5. m \in ends
      BY <2>3, <2>5, <3>4
    <3>6. k <= m
      BY <3>1, <3>2, <3>5
    <3>7. QED
      BY <2>2, <2>3, <3>2, <3>3, <3>6
  <2>8. Line(input, p) = <<>>
    <3>1. Line(input, p) = SubSeq(input, p.at + 1, Min(ends) - 1)
      BY Zenon DEF Line, ends
    <3>2. p.at + 1 = m
      BY <2>1, <2>3
    <3>3. SubSeq(input, m, m - 1) = <<>>
      <4>1. m \in Int /\ m - 1 \in Int /\ m - 1 < m
        BY <2>3
      <4>2. QED
        BY <4>1, SubSeqEmpty
    <3>4. QED
      BY <2>7, <3>1, <3>2, <3>3
  <2>9. w = [p EXCEPT !.at = m + 1]
    BY <2>7, Zenon DEF AfterLine, ends
  <2>10. q = [w EXCEPT !.progress = "fields"]
    BY <1>1, <2>8 DEF RestOfLine
  <2> HIDE DEF w
  <2>11. DOMAIN w = ParserFields /\ w.at = m + 1 /\ \A f \in ParserFields \ {"at"} : w[f] = p[f]
    BY <2>2, <2>9 DEF ParserFields
  <2>12. /\ DOMAIN q = ParserFields /\ q.at = m + 1 /\ q.progress = "fields"
         /\ \A f \in ParserFields \ {"at", "progress"} : q[f] = p[f]
    BY <2>10, <2>11 DEF ParserFields
  <2>13. /\ q.end = p.end /\ q.method = Method /\ q.url = Target /\ q.fields = p.fields
         /\ q.cookies = p.cookies /\ q.refused = p.refused /\ q.length = p.length
    BY <2>1, <2>12 DEF ParserFields
  <2>14. ParserOK(q)
    <3>1. q.at \in Nat /\ q.end \in Nat /\ q.at <= q.end /\ q.end <= Len(input)
      BY <2>2, <2>3, <2>7, <2>12, <2>13
    <3>2. q.refused \in BOOLEAN /\ q.length \in Int /\ q.length < SizeModulus
      BY <2>1, <2>13 DEF ParserOK
    <3>3. QED
      BY <2>12, <3>1, <3>2 DEF ParserOK
  <2>15. q.fields = 0 /\ q.fields \in Nat /\ q.fields <= Colons(q.at)
    <3>1. m + 1 \in Nat /\ m + 1 <= m + 1
      BY <2>3
    <3>2. Colons(m + 1) \in Nat
      BY <3>1, ColonsGrow
    <3>3. QED
      BY <2>1, <2>12, <2>13, <3>2
  <2>16. q.at + 1 \in Starts
    <3>1. q.at + 1 = m + 2
      BY <2>3, <2>12
    <3>2. QED
      BY <2>4, <3>1
  <2>17. HasBest(Upto(q.at)) /\ q.cookies = Jar(Upto(q.at))
    BY <2>1, <2>4, <2>12, <2>13
  <2>18. Reached(q)
    BY <2>1, <2>12, <2>13, <2>14, <2>15, <2>16, <2>17 DEF Reached, Progress, Words
  <2>19. QED
    BY <2>12, <2>13, <2>18 DEF Words
<1>2. CASE ~(p.progress = "phase2" /\ LineEnds(input, p) # {})
  <2>1. q = p
    BY <1>2 DEF RestOfLine
  <2>2. q.progress = "phase2" => Settled(q)
    BY <1>2, <2>1 DEF Settled
  <2>3. QED
    BY <2>1, <2>2 DEF Words
<1>3. QED
  BY <1>1, <1>2

\* The loop takes every line that is there.
LEMMA LinesReach ==
    ASSUME ReaderAssumption, ParserAssumption, input \in Seq(Bytes), WellFormed, Shaped,
           NEW p, Reached(p), p.progress \in Words => Settled(p), NEW q, q = TakeLines(input, p)
    PROVE  Reached(q) /\ Settled(q) /\ q.end = p.end
<1> DEFINE Left(r) == LineEnds(input, r)
<1>1. p.at \in Nat /\ p.end \in Nat
  BY DEF Reached, ParserOK
<1>2. PICK turns : /\ turns[0] = p
                   /\ \A n \in Nat : turns[n + 1] = TakeLine(input, turns[n])
                   /\ Cardinality(Left(p)) \in Nat /\ q = turns[Cardinality(Left(p))]
  BY <1>1, Loop
<1>3. ASSUME NEW r, Reached(r)
      PROVE  IsFiniteSet(Left(r)) /\ Cardinality(Left(r)) \in Nat /\ Left(r) \subseteq Nat
  <2>1. r.at \in Nat /\ r.end \in Nat
    BY <1>3 DEF Reached, ParserOK
  <2>2. IsFiniteSet(r.at + 1 .. r.end - 1)
    <3>1. r.at + 1 \in Int /\ r.end - 1 \in Int
      BY <2>1
    <3>2. QED
      BY <3>1, FS_Interval
  <2>3. Left(r) \subseteq r.at + 1 .. r.end - 1 /\ Left(r) \subseteq Nat
    BY <2>1 DEF LineEnds
  <2> HIDE DEF Left
  <2>4. QED
    BY <2>2, <2>3, FS_Subset, FS_CardinalityType
<1> HIDE DEF Left
<1> DEFINE c == Cardinality(Left(p))
           Good(n) == /\ Reached(turns[n]) /\ turns[n].end = p.end
                      /\ p.progress # "fields" => turns[n] = p
                      /\ p.progress = "fields" => turns[n].progress \in {"fields", "body"}
                      /\ turns[n].progress = "fields" =>
                             Left(turns[n]) = {} \/ Cardinality(Left(turns[n])) + n <= c
           Bad == {n \in Nat : ~Good(n)}
<1>4. Good(0)
  <2>1. c \in Nat /\ Cardinality(Left(turns[0])) + 0 <= c
    BY <1>2
  <2>2. QED
    BY <1>2, <2>1
<1>5. ASSUME NEW n \in Nat, Good(n) PROVE Good(n + 1)
  <2> DEFINE a == turns[n]  b == turns[n + 1]
  <2>1. b = TakeLine(input, a) /\ Reached(a) /\ a.end = p.end
    BY <1>2, <1>5
  <2>2. /\ Reached(b) /\ b.end = a.end
        /\ a.progress = "fields" => b.progress \in {"fields", "body"}
        /\ a.progress = "fields" /\ Left(a) # {} =>
                  /\ Min(Left(a)) \in Left(a)
                  /\ Left(b) \subseteq Left(a) \ {Min(Left(a))}
        /\ a.progress # "fields" \/ Left(a) = {} => b = a
    <3> HIDE DEF a, b
    <3>1. QED
      BY <2>1, TurnReaches DEF Left
  <2>3. p.progress # "fields" => b = p
    BY <1>5, <2>2
  <2>4. p.progress = "fields" => b.progress \in {"fields", "body"}
    BY <1>5, <2>2
  <2>5. ASSUME b.progress = "fields" PROVE Left(b) = {} \/ Cardinality(Left(b)) + (n + 1) <= c
    <3>1. CASE a.progress # "fields" \/ Left(a) = {}
      <4>1. b = a /\ a.progress = "fields"
        BY <2>2, <2>5, <3>1
      <4>2. QED
        BY <3>1, <4>1
    <3>2. CASE a.progress = "fields" /\ Left(a) # {}
      <4>1. Cardinality(Left(a)) + n <= c
        BY <1>5, <3>2
      <4> HIDE DEF a, b
      <4>2. PICK x : x = Min(Left(a))
        OBVIOUS
      <4>3. x \in Left(a) /\ Left(b) \subseteq Left(a) \ {x}
        BY <2>2, <3>2, <4>2
      <4>4. IsFiniteSet(Left(a)) /\ Cardinality(Left(a)) \in Nat /\ Cardinality(Left(b)) \in Nat
        BY <1>3, <2>1, <2>2
      <4>5. IsFiniteSet(Left(a) \ {x}) /\ Cardinality(Left(a) \ {x}) = Cardinality(Left(a)) - 1
        BY <4>3, <4>4, FS_RemoveElement
      <4>6. Cardinality(Left(b)) <= Cardinality(Left(a) \ {x})
        BY <4>3, <4>5, FS_Subset
      <4>7. QED
        BY <1>2, <4>1, <4>4, <4>5, <4>6
    <3>3. QED
      BY <3>1, <3>2
  <2>6. QED
    BY <2>1, <2>2, <2>3, <2>4, <2>5
<1>6. ASSUME Bad # {} PROVE FALSE
  <2> HIDE DEF Good
  <2>1. PICK n \in Bad : \A m \in Bad : n <= m
    BY <1>6, Least
  <2>2. n # 0
    BY <1>4, <2>1
  <2>3. PICK m \in Nat : n = m + 1 /\ m \notin Bad
    <3>1. n - 1 \in Nat /\ n = (n - 1) + 1 /\ n - 1 \notin Bad
      BY <2>1, <2>2
    <3>2. QED
      BY <3>1
  <2>4. Good(n)
    BY <1>5, <2>3
  <2>5. QED
    BY <2>4
<1>7. Good(c)
  <2> HIDE DEF Good
  <2>1. QED
    BY <1>2, <1>6
<1>8. Reached(q) /\ q.end = p.end
  BY <1>2, <1>7
<1>9. Settled(q)
  <2>1. CASE p.progress \in Words
    <3>1. q = p
      BY <1>2, <1>7, <2>1 DEF Words
    <3>2. QED
      BY <2>1, <3>1
  <2>2. CASE p.progress = "fields"
    <3>1. q.progress = "fields" => Left(q) = {}
      <4>1. CASE q.progress = "fields" /\ Left(q) # {}
        <5>1. Cardinality(Left(q)) + c <= c
          BY <1>2, <1>7, <4>1
        <5>2. IsFiniteSet(Left(q)) /\ Cardinality(Left(q)) \in Nat
          BY <1>3, <1>8
        <5>3. Cardinality(Left(q)) = 0
          BY <1>2, <5>1, <5>2
        <5>4. QED
          BY <4>1, <5>2, <5>3, FS_EmptySet
      <4>2. QED
        BY <4>1
    <3>2. q.progress \in {"fields", "body"}
      BY <1>2, <1>7, <2>2
    <3>3. QED
      BY <3>1, <3>2 DEF Settled, Left
  <2>3. CASE p.progress = "body"
    <3>1. q = p
      BY <1>2, <1>7, <2>3
    <3>2. QED
      BY <2>3, <3>1 DEF Settled
  <2>4. QED
    BY <2>1, <2>2, <2>3 DEF Reached, Progress, Words
<1>10. QED
  BY <1>8, <1>9

\* A parser that waits has not got the whole header, and has room for the next read.
LEMMA Waiting ==
    ASSUME ReaderAssumption, ParserAssumption, input \in Seq(Bytes), WellFormed, Shaped,
           NEW p, Reached(p), Settled(p), ~finished(p)
    PROVE  /\ p.end < HeaderLength
           /\ RoomBehindLines => p.end - p.at + BufferSize <= HeaderMax
<1>1. /\ p.at \in Nat /\ p.end \in Nat /\ p.end <= Len(input) /\ Len(input) \in Nat
      /\ p.at <= p.end /\ ParserOK(p)
  BY LenProperties DEF Reached, ParserOK
<1>2. /\ HeaderLength \in Nat /\ RequestEnd \in Nat /\ RequestEnd < HeaderLength
      /\ BufferSize \in Nat /\ HeaderMax \in Nat
  BY <1>1 DEF Shaped, ReaderAssumption, ParserAssumption
<1>3. /\ FirstSpace \in Nat /\ SecondSpace \in Nat /\ FirstSpace >= 1
      /\ FirstSpace < SecondSpace /\ SecondSpace < RequestEnd
      /\ RoomBehindLines => RequestEnd + BufferSize <= HeaderMax
      /\ input[FirstSpace] = "sp" /\ input[SecondSpace] = "sp"
      /\ input[RequestEnd] = "cr" /\ input[RequestEnd + 1] = "lf"
  BY <1>2 DEF Shaped, Crlf
<1>4. ASSUME NEW m \in Nat, p.at < m, m <= RequestEnd, input[m] \in {"sp", "cr"},
             p.progress \in {"verb", "url", "protocol"}
      PROVE  /\ p.end < HeaderLength
             /\ RoomBehindLines => p.end - p.at + BufferSize <= HeaderMax
  <2>1. m \notin p.at + 1 .. p.end
    BY <1>4 DEF Settled, WordEnds
  <2>2. p.end < m
    BY <1>1, <1>4, <2>1
  <2>3. QED
    BY <1>1, <1>2, <1>3, <1>4, <2>2
<1>5. CASE p.progress = "verb"
  <2>1. p.at = 0
    BY <1>5 DEF Reached
  <2>2. p.at < FirstSpace /\ FirstSpace <= RequestEnd
    BY <1>2, <1>3, <2>1
  <2>3. QED
    BY <1>3, <1>4, <1>5, <2>2
<1>6. CASE p.progress = "url"
  <2>1. p.at = FirstSpace
    BY <1>6 DEF Reached
  <2>2. p.at < SecondSpace /\ SecondSpace <= RequestEnd
    BY <1>2, <1>3, <2>1
  <2>3. QED
    BY <1>3, <1>4, <1>6, <2>2
<1>7. CASE p.progress = "protocol"
  <2>1. p.at = SecondSpace
    BY <1>7 DEF Reached
  <2>2. p.at < RequestEnd /\ RequestEnd <= RequestEnd
    BY <1>2, <1>3, <2>1
  <2>3. QED
    BY <1>2, <1>3, <1>4, <1>7, <2>2
<1>8. CASE p.progress = "phase2"
  <2>1. p.at = RequestEnd - 1
    BY <1>8 DEF Reached
  <2>2. RequestEnd \notin p.at + 1 .. p.end - 1
    BY <1>3, <1>8 DEF Settled, LineEnds
  <2>3. p.end <= RequestEnd
    BY <1>1, <1>2, <2>1, <2>2
  <2>4. p.at >= 1
    BY <1>2, <1>3, <2>1
  <2>5. QED
    BY <1>1, <1>2, <1>3, <2>3, <2>4
<1>9. CASE p.progress = "fields"
  <2> DEFINE i == p.at + 1  e == LineEnd(i)
  <2>1. i \in Starts /\ LineEnds(input, p) = {}
    BY <1>9 DEF Reached, Settled
  <2>2. LineShaped(i)
    BY <2>1, LinesAreShaped
  <2>3. RoomBehindLines => e - i + 1 + BufferSize <= HeaderMax
    BY <2>2, Zenon DEF LineShaped
  <2>4. i = p.at + 1 /\ i \in Nat
    BY <1>1
  <2> HIDE DEF i
  <2>5. e \in Nat /\ e < HeaderLength /\ p.end <= e
    <3>1. e = LineEnd(i)
      OBVIOUS
    <3> HIDE DEF e
    <3>2. QED
      BY <1>1, <2>1, <2>2, <2>4, <3>1, NextLine
  <2> HIDE DEF e
  <2>6. p.at \in Nat /\ p.end \in Nat
    BY <1>1
  <2>7. p.end < HeaderLength
    BY <1>2, <2>5, <2>6
  <2>8. ASSUME RoomBehindLines PROVE p.end - p.at + BufferSize <= HeaderMax
    <3>1. PICK a \in Nat, b \in Nat, l \in Nat : a = p.at /\ b = p.end /\ l = e
      BY <2>5, <2>6
    <3>2. l - (a + 1) + 1 + BufferSize <= HeaderMax /\ b <= l
      BY <2>3, <2>4, <2>5, <2>8, <3>1, Zenon
    <3>3. BufferSize \in Nat /\ HeaderMax \in Nat
      BY <1>2
    <3>4. b - a + BufferSize <= HeaderMax
      BY <3>2, <3>3
    <3>5. QED
      BY <3>1, <3>4, Zenon
  <2>9. QED
    BY <2>7, <2>8
<1>10. QED
  BY <1>5, <1>6, <1>7, <1>8, <1>9 DEF Reached, Progress, finished

\* Whoever refused a well-formed header had no room for the piece behind a line.
NoRoom(p) == ~finished(p) /\ Buffered(p) > HeaderMax /\ ~RoomBehindLines

\* feed keeps a well-formed header on its way, while there is room.
LEMMA FeedReaches ==
    ASSUME ReaderAssumption, ParserAssumption, input \in Seq(Bytes), WellFormed, Shaped,
           NEW p, Reached(p), Settled(p), ~finished(p),
           NEW n \in 1 .. BufferSize, p.end + n <= Len(input), NEW q, q = feed(input, p, n)
    PROVE  IF q.refused THEN NoRoom(q) ELSE Reached(q) /\ Settled(q)
<1> DEFINE r == [p EXCEPT !.end = @ + n]
           w == IF r.progress # "fields" THEN parse_words(input, r) ELSE r
<1>1. /\ p.at \in Nat /\ p.end \in Nat /\ p.at <= p.end /\ ParserOK(p) /\ DOMAIN p = ParserFields
  BY DEF Reached, ParserOK
<1>2. n \in Nat /\ BufferSize \in Nat /\ n <= BufferSize /\ HeaderMax \in Nat
  BY DEF ReaderAssumption, ParserAssumption
<1>3. /\ DOMAIN r = ParserFields /\ r.end = p.end + n
      /\ \A f \in ParserFields \ {"end"} : r[f] = p[f]
  BY <1>1 DEF ParserFields
<1> HIDE DEF r
<1>4. /\ r.at = p.at /\ r.progress = p.progress /\ r.fields = p.fields /\ r.refused = p.refused
      /\ r.method = p.method /\ r.url = p.url /\ r.length = p.length /\ r.cookies = p.cookies
  BY <1>3 DEF ParserFields
<1>5. ParserOK(r)
  <2>1. r.at \in Nat /\ r.end \in Nat /\ r.at <= r.end /\ r.end <= Len(input)
    BY <1>1, <1>2, <1>3, <1>4
  <2>2. r.refused \in BOOLEAN /\ r.length \in Int /\ r.length < SizeModulus
    BY <1>1, <1>4 DEF ParserOK
  <2>3. QED
    BY <1>3, <2>1, <2>2 DEF ParserOK
<1>6. Reached(r)
  BY <1>4, <1>5 DEF Reached
<1>7. ASSUME RoomBehindLines PROVE ~(Buffered(r) > HeaderMax)
  <2>1. p.end - p.at + BufferSize <= HeaderMax
    BY <1>7, Waiting
  <2>2. Buffered(r) = p.end + n - p.at
    <3>1. r.end = p.end + n
      BY <1>3
    <3>2. r.at = p.at
      BY <1>4
    <3>3. Buffered(r) = r.end - r.at
      BY DEF Buffered
    <3>4. p.end \in Nat /\ p.at \in Nat /\ n \in Nat
      BY <1>1, <1>2
    <3>5. QED
      BY <3>1, <3>2, <3>3, <3>4
  <2>3. QED
    BY <1>1, <1>2, <2>1, <2>2
<1>8. /\ Buffered(r) > HeaderMax => q = Refuse(r)
      /\ ~(Buffered(r) > HeaderMax) => q = TakeLines(input, w)
  BY Zenon DEF feed, r
<1>9. Reached(w) /\ (w.progress \in Words => Settled(w))
  <2>1. CASE r.progress = "fields"
    BY <1>6, <2>1 DEF Words
  <2>2. CASE r.progress # "fields"
    <3> DEFINE a == Verb(input, r)  b == Url(input, a)  c == Protocol(input, b)
               d == RestOfLine(input, c)
    <3>1. w = d
      BY <2>2 DEF parse_words
    <3> HIDE DEF d
    <3>2. Reached(a) /\ (a.progress = "verb" => Settled(a))
      <4>1. PICK s : s = a
        OBVIOUS
      <4> HIDE DEF a
      <4>2. QED
        BY <1>6, <4>1, VerbReaches DEF a
    <3> HIDE DEF a
    <3>3. Reached(b) /\ (b.progress \in {"verb", "url"} => Settled(b))
      BY <3>2, UrlReaches
    <3> HIDE DEF b
    <3>4. Reached(c) /\ (c.progress \in {"verb", "url", "protocol"} => Settled(c))
      BY <3>3, ProtocolReaches
    <3> HIDE DEF c
    <3>5. Reached(d) /\ (d.progress \in Words => Settled(d))
      BY <3>4, RestReaches DEF d
    <3>6. QED
      BY <3>1, <3>5
  <2>3. QED
    BY <2>1, <2>2
<1> HIDE DEF w
<1>10. CASE Buffered(r) > HeaderMax
  <2>1. q.refused /\ q.at = r.at /\ q.end = r.end /\ q.progress = p.progress
    BY <1>3, <1>4, <1>8, <1>10 DEF Refuse, ParserFields
  <2>2. Buffered(q) = Buffered(r)
    BY <2>1 DEF Buffered
  <2>3. QED
    BY <1>7, <1>10, <2>1, <2>2 DEF NoRoom, finished
<1>11. CASE ~(Buffered(r) > HeaderMax)
  <2>1. Reached(q) /\ Settled(q)
    BY <1>8, <1>9, <1>11, LinesReach
  <2>2. QED
    BY <2>1 DEF Reached
<1>12. QED
  BY <1>10, <1>11

\* The invariant of the header: while the application has not got it, the parser of
\* a well-formed one is on its way through it and waits only for what is not there,
\* or has refused it for want of room.
OnItsWay ==
    cur = 0 /\ WellFormed =>
        IF parser.refused THEN NoRoom(parser) ELSE Reached(parser) /\ Settled(parser)

\* What depends on the input alone stays.
LEMMA SameInput ==
    ASSUME input' = input
    PROVE  /\ WellFormed' <=> WellFormed
           /\ Reached(parser') /\ Settled(parser') => (Reached(parser) /\ Settled(parser))'
           /\ NoRoom(parser') => NoRoom(parser)'
<1>1. HeaderEnds' = HeaderEnds /\ HeaderLength' = HeaderLength /\ RequestLine' = RequestLine
  BY DEF HeaderEnds, HeaderLength, RequestLine
<1>2. Spaces' = Spaces
  BY <1>1 DEF Spaces
<1>3. Lines' = Lines
  BY <1>1 DEF Lines
<1>4. WellFormed' <=> WellFormed
  BY <1>1, <1>2, <1>3 DEF WellFormed
<1>5. /\ RequestEnd' = RequestEnd /\ FirstSpace' = FirstSpace /\ SecondSpace' = SecondSpace
      /\ Starts' = Starts /\ Cookies' = Cookies
  BY <1>2, <1>3 DEF RequestEnd, FirstSpace, SecondSpace, Starts, Cookies
<1>6. Method' = Method /\ Target' = Target
  BY <1>5 DEF Method, Target
<1>7. ASSUME Reached(parser'), Settled(parser') PROVE (Reached(parser) /\ Settled(parser))'
  <2>1. ParserOK(parser)'
    BY <1>7 DEF Reached, ParserOK
  <2>2. Colons(parser.at)' = Colons(parser'.at)
    BY DEF Colons
  <2>3. Upto(parser.at)' = Upto(parser'.at)
    BY <1>5 DEF Upto
  <2>4. Reached(parser)'
    BY <1>1, <1>5, <1>6, <1>7, <2>1, <2>2, <2>3 DEF Reached
  <2>5. Settled(parser)'
    BY <1>7 DEF Settled
  <2>6. QED
    BY <2>4, <2>5
<1>8. RoomBehindLines' <=> RoomBehindLines
  BY <1>1, <1>3 DEF RoomBehindLines
<1>9. NoRoom(parser') => NoRoom(parser)'
  BY <1>8 DEF NoRoom, Buffered, finished
<1>10. QED
  BY <1>4, <1>7, <1>9

\* It is one from the start.
LEMMA InitOnItsWay == ReaderAssumption /\ Init => OnItsWay
<1>1. SUFFICES ASSUME ReaderAssumption, Init
               PROVE  ~parser.refused /\ Reached(parser) /\ Settled(parser)
  BY DEF OnItsWay
<1>2. parser = NewParser /\ input \in Seq(Bytes)
  BY <1>1 DEF Init, ReaderAssumption
<1>3. /\ parser.progress = "verb" /\ parser.at = 0 /\ parser.end = 0 /\ parser.fields = 0
      /\ parser.refused = FALSE /\ parser.length = -1 /\ parser.cookies = <<>>
      /\ DOMAIN parser = ParserFields
  BY <1>2 DEF NewParser, NoLength, ParserFields
<1>4. Jar({}) = <<>>
  <2>1. DOMAIN Jar({}) = {} /\ DOMAIN <<>> = {}
    BY DEF Jar
  <2>2. QED
    BY <2>1 DEF Jar
<1>5. ParserOK(parser)
  <2>1. 0 <= Len(input) /\ Len(input) \in Nat
    BY <1>2, LenProperties
  <2>2. 0 < SizeModulus /\ -1 < SizeModulus
    BY <1>1 DEF ReaderAssumption
  <2>3. parser.at \in Nat /\ parser.end \in Nat /\ parser.at <= parser.end /\ parser.end <= Len(input)
    BY <1>3, <2>1
  <2>4. parser.length \in Int /\ parser.length < SizeModulus
    BY <1>3, <2>2
  <2>5. parser.refused \in BOOLEAN
    BY <1>3
  <2>6. QED
    BY <1>3, <2>3, <2>4, <2>5 DEF ParserOK
<1>6. Reached(parser)
  BY <1>3, <1>4, <1>5 DEF Reached, Progress, Words
<1>7. Settled(parser)
  BY <1>3 DEF Settled, WordEnds
<1>8. QED
  BY <1>3, <1>6, <1>7

\* And it stays one.
LEMMA OnItsWayStep ==
    ASSUME ReaderAssumption, ParserAssumption, IInv, OnItsWay, [Next]_vars
    PROVE  OnItsWay'
<1> DEFINE Way(p) == IF p.refused THEN NoRoom(p) ELSE Reached(p) /\ Settled(p)
<1>1. SUFFICES ASSUME cur' = 0, WellFormed'
               PROVE  IF parser'.refused THEN NoRoom(parser)' ELSE (Reached(parser) /\ Settled(parser))'
  BY DEF OnItsWay
<1>2. input' = input
  BY DEF Next, vars
<1>3. /\ WellFormed
      /\ Reached(parser') /\ Settled(parser') => (Reached(parser) /\ Settled(parser))'
      /\ NoRoom(parser') => NoRoom(parser)'
  BY <1>1, <1>2, SameInput
<1>4. SUFFICES Way(parser')
  BY <1>3
<1>5. CASE cur = 0 /\ UNCHANGED parser
  BY <1>3, <1>5 DEF OnItsWay
<1>6. ASSUME NEW n \in 1 .. BufferSize, header_read_handler(n)
      PROVE  Way(parser')
  <2>1. /\ cur = 0 /\ ~finished(parser) /\ received + n <= Len(input)
        /\ parser' = feed(input, parser, n) /\ conn = "reading"
    BY <1>6 DEF header_read_handler, Receives
  <2>2. ~parser.refused
    BY <2>1 DEF IInv, Reading
  <2>3. Reached(parser) /\ Settled(parser)
    BY <1>3, <2>1, <2>2 DEF OnItsWay
  <2>4. input \in Seq(Bytes) /\ parser.end = received
    BY <2>1 DEF IInv, TypeOK, Reading
  <2>5. Shaped
    BY <1>3, <2>4, ShapedWhenWellFormed
  <2>6. parser.end + n <= Len(input)
    BY <2>1, <2>4
  <2>7. QED
    BY <1>3, <2>1, <2>3, <2>4, <2>5, <2>6, FeedReaches
<1> HIDE DEF Way
<1>7. CASE Next
  <2>1. \/ cur = 0 /\ UNCHANGED parser
        \/ \E n \in 1 .. BufferSize : header_read_handler(n)
        \/ \E n \in 1 .. BufferSize : body_read_handler(n)
        \/ \E t \in Threads : read_body(t)
    BY <1>1, <1>7 DEF Next, Steps, ReadFails, fullfill, CallFunc, then, Store, Run, error, SetError,
                      except, StoreFail, Quiet
  <2>2. ASSUME NEW n \in 1 .. BufferSize, body_read_handler(n) PROVE FALSE
    BY <1>1, <2>2 DEF body_read_handler
  <2>3. ASSUME NEW t \in Threads, read_body(t) PROVE FALSE
    <3>1. cur' = Mine(t) /\ At(t, "read")
      BY <2>3 DEF read_body
    <3>2. todo[t] \in Seq(StepRecords) /\ todo[t] # <<>> /\ Head(todo[t]).do = "read"
      BY <3>1 DEF IInv, TypeOK, At
    <3>3. Head(todo[t]) \in StepRecords
      BY <3>2
    <3>4. Head(todo[t]).read \in Reads
      BY <3>2, <3>3 DEF StepRecords, Others, Mines
    <3>5. QED
      BY <1>1, <3>1, <3>4 DEF Mine, Reads
  <2>4. QED
    BY <1>5, <1>6, <2>1, <2>2, <2>3
<1>8. CASE UNCHANGED vars
  BY <1>1, <1>5, <1>8 DEF vars, state
<1>9. QED
  BY <1>7, <1>8

\* What the way says of the header.
LEMMA HeaderIs ==
    ASSUME ReaderAssumption, ParserAssumption, IInv, OnItsWay
    PROVE  HeaderIndependentOfCuts
<1>1. SUFFICES ASSUME cur = 0, WellFormed
               PROVE  /\ parser.refused => NoRoom(parser)
                      /\ ~parser.refused => (finished(parser) <=> received >= HeaderLength)
                      /\ finished(parser) =>
                             /\ parser.at = HeaderLength
                             /\ parser.method = SubSeq(RequestLine, 1, Min(Spaces) - 1)
                             /\ parser.url = SubSeq(RequestLine, Min(Spaces) + 1, Max(Spaces) - 1)
                             /\ parser.cookies = Jar(Cookies)
  BY Zenon DEF HeaderIndependentOfCuts, Jar, Best, Cookies, NoRoom
<1>2. input \in Seq(Bytes) /\ parser.end = received
  BY <1>1 DEF IInv, TypeOK, Reading
<1>3. Shaped
  BY <1>1, <1>2, ShapedWhenWellFormed
<1>4. SUFFICES ASSUME ~parser.refused
               PROVE  /\ finished(parser) <=> received >= HeaderLength
                      /\ finished(parser) =>
                             /\ parser.at = HeaderLength
                             /\ parser.method = SubSeq(RequestLine, 1, Min(Spaces) - 1)
                             /\ parser.url = SubSeq(RequestLine, Min(Spaces) + 1, Max(Spaces) - 1)
                             /\ parser.cookies = Jar(Cookies)
  <2>1. parser.refused => NoRoom(parser) /\ ~finished(parser)
    BY <1>1 DEF OnItsWay, NoRoom
  <2>2. QED
    BY <2>1, Zenon
<1>5. Reached(parser) /\ Settled(parser)
  BY <1>1, <1>4 DEF OnItsWay
<1>6. Len(input) \in Nat /\ parser.at \in Nat /\ parser.end \in Nat /\ parser.at <= parser.end
  BY <1>2, <1>5, LenProperties DEF Reached, ParserOK
<1>7. HeaderLength \in Nat
  BY <1>3, <1>6 DEF Shaped
<1>8. CASE finished(parser)
  <2>1. /\ parser.at = HeaderLength /\ parser.method = Method /\ parser.url = Target
        /\ parser.cookies = Jar(Upto(HeaderLength))
    BY <1>2, <1>5, <1>8 DEF Reached, finished
  <2>2. received >= HeaderLength
    BY <1>2, <1>5, <1>6, <1>7, <2>1
  <2>3. Upto(HeaderLength) = Cookies
    <3>1. ASSUME NEW c \in Cookies PROVE c.line <= HeaderLength
      <4>1. PICK i \in Starts : \E j \in DOMAIN CookiesIn(Lines[i]) : c = CookieAt(i, j)
        BY CookiesAre
      <4>2. c.line = i
        BY <4>1 DEF CookieAt
      <4>3. i \in Nat /\ i - 2 \in 1 .. HeaderLength - 3
        BY <1>7, StartsAre
      <4>4. QED
        BY <1>7, <4>2, <4>3
    <3>2. QED
      BY <3>1 DEF Upto
  <2>4. /\ Method = SubSeq(RequestLine, 1, Min(Spaces) - 1)
        /\ Target = SubSeq(RequestLine, Min(Spaces) + 1, Max(Spaces) - 1)
    BY <1>3, Zenon DEF Shaped, Method, Target, FirstSpace, SecondSpace
  <2>5. QED
    BY <1>8, <2>1, <2>2, <2>3, <2>4
<1>9. CASE ~finished(parser)
  <2>1. parser.end < HeaderLength
    BY <1>1, <1>2, <1>5, <1>3, <1>9, Waiting
  <2>2. ~(received >= HeaderLength)
    BY <1>2, <1>5, <1>6, <1>7, <2>1
  <2>3. QED
    BY <1>9, <2>2
<1>10. QED
  BY <1>8, <1>9

\* feed(): however a well-formed header is cut into reads, it is finished with its last
\* byte, and method, url and cookies are those of the whole input; it is refused only
\* when a line that is not complete and the piece behind it do not fit the buffer,
\* and never where header_buffer_max leaves room for that.
THEOREM HeaderIsIndependent == Spec => []HeaderIndependentOfCuts
<1>1. ReaderAssumption /\ Init => OnItsWay
  BY InitOnItsWay
<1>2. ReaderAssumption /\ ParserAssumption /\ IInv /\ OnItsWay /\ [Next]_vars => OnItsWay'
  BY OnItsWayStep
<1>3. ReaderAssumption /\ ParserAssumption /\ IInv /\ OnItsWay => HeaderIndependentOfCuts
  BY HeaderIs
<1>4. QED
  BY <1>1, <1>2, <1>3, ReaderAssumption, ParserAssumption, Invariance, PTL DEF Spec

=============================================================================
