---------------------------- MODULE RequestParser ----------------------------
(***************************************************************************)
(* The request parser: the machine Ragel generated from http11_parser.rl,  *)
(* the callbacks HttpRequestParser gives it, and HttpRequest::dump, which  *)
(* writes what it reads.  Copy "req" of the URI grammar reads the target   *)
(* of a request, copy "json" the one of a "@path {...}" message.           *)
(***************************************************************************)
EXTENDS IpLiteral, SequencesExt

CONSTANT Methods        \* the names of HTTP_METHOD_MAP, as sequences of symbols

(* The end of a target: " " begins the version (or, after "@path", the     *)
(* JSON text), "#" the fragment and "?" the query.                         *)
Ends(m, x, pre) ==
    IF m = "req"
    THEN {Row(S(m, x), {"SP"}, <<m, "ver", 0, 0>>, pre \o <<"path", "uri">>),
          Row(S(m, x), {"#"}, S(m, "frag0"), pre \o <<"path", "uri">>),
          Row(S(m, x), {"?"}, S(m, "query0"), pre \o <<"path">>)}
    ELSE {Row(S(m, x), {"SP"}, <<m, "text", 0, 0>>, <<"path">>)}

Start == {Row(S("req", "start"), Upper \cup Digit, <<"req", "method", 1, 0>>, <<"mark">>),
          Row(S("req", "start"), {"<"}, <<"req", "xml", 0, 0>>, <<"mark">>),
          Row(S("req", "start"), {"@"}, S("json", "target"), <<"mark">>)}

(* At most twenty capitals and digits                                      *)
Method ==
    {Row(<<"req", "method", k, 0>>, Upper \cup Digit, <<"req", "method", k + 1, 0>>, <<>>) :
        k \in 1..19}
    \cup {Row(<<"req", "method", k, 0>>, {"SP"}, S("req", "target"), <<"method">>) : k \in 1..20}

Target == {Row(S("req", "target"), NoColon \ Alpha, S("req", "noscheme"), <<"mark">>),
           Row(S("req", "target"), Alpha, S("req", "scheme"), <<"mark">>),
           Row(S("req", "target"), {"%"}, <<"req", "noscheme", 1, 0>>, <<"mark">>),
           Row(S("req", "target"), {"/"}, S("req", "slash"), <<"mark">>)}
          \cup Ends("req", "target", <<"mark">>)

Scheme == {Go("req", "scheme", Alpha \cup Digit \cup {"+", "-", "."}, "scheme"),
           Go("req", "scheme", {"!", "(", "@", "wide"}, "noscheme"),
           Row(S("req", "scheme"), {"%"}, <<"req", "noscheme", 1, 0>>, <<>>),
           Go("req", "scheme", {"/"}, "path"), Go("req", "scheme", {":"}, "hier")}
          \cup Ends("req", "scheme", <<>>)

Hier == {Row(S("req", "hier"), Pchar, S("req", "path"), <<"mark">>),
         Row(S("req", "hier"), {"%"}, <<"req", "path", 1, 0>>, <<"mark">>),
         Row(S("req", "hier"), {"/"}, S("req", "slash"), <<"mark">>)}
        \cup Ends("req", "hier", <<"mark">>)

NoScheme(m) == {Go(m, "noscheme", NoColon, "noscheme"), Go(m, "noscheme", {"/"}, "path")}
               \cup Pct(m, "noscheme") \cup Ends(m, "noscheme", <<>>)

Path(m) == {Go(m, "path", Pchar \cup {"/"}, "path")} \cup Pct(m, "path") \cup Ends(m, "path", <<>>)

Slash(m) == {Go(m, "slash", Pchar, "path"), Go(m, "slash", {"/"}, "auth"),
             Row(S(m, "slash"), {"%"}, <<m, "path", 1, 0>>, <<>>)} \cup Ends(m, "slash", <<>>)

(* After "//": a user or a host, which only "@" or ":" tells apart         *)
Authority(m) ==
    UNION {{Go(m, x, Seg, "reg"), Go(m, x, {"/"}, "path"), Go(m, x, {":"}, "colon"),
            Go(m, x, {"@"}, "host"), Row(S(m, x), {"%"}, <<m, "reg", 1, 0>>, <<>>)}
           \cup Ends(m, x, <<>>) : x \in {"auth", "reg"}}
    \cup {Go(m, "auth", {"["}, "ip")} \cup Pct(m, "reg")

(* After a ":": digits are a port until something else makes them a user   *)
Colon(m) == {Go(m, "colon", Digit, "colon"), Go(m, "colon", (Seg \ Digit) \cup {":"}, "user"),
             Row(S(m, "colon"), {"%"}, <<m, "user", 1, 0>>, <<>>),
             Go(m, "colon", {"/"}, "path"), Go(m, "colon", {"@"}, "host")}
            \cup Ends(m, "colon", <<>>)

User(m) == {Go(m, "user", Seg \cup {":"}, "user"), Go(m, "user", {"@"}, "host")} \cup Pct(m, "user")

Host(m) ==
    UNION {{Go(m, x, Seg, "hreg"), Go(m, x, {"/"}, "path"), Go(m, x, {":"}, "port"),
            Row(S(m, x), {"%"}, <<m, "hreg", 1, 0>>, <<>>)}
           \cup Ends(m, x, <<>>) : x \in {"host", "hreg"}}
    \cup {Go(m, "host", {"["}, "ip")} \cup Pct(m, "hreg")

Port(m) == {Go(m, "port", Digit, "port"), Go(m, "port", {"/"}, "path")} \cup Ends(m, "port", <<>>)

Query == LET Body(x, pre) == {Row(S("req", x), Pchar \cup {"/", "?"}, S("req", "query"), pre),
                              Row(S("req", x), {"%"}, <<"req", "query", 1, 0>>, pre),
                              Row(S("req", x), {"SP"}, <<"req", "ver", 0, 0>>, pre \o <<"query", "uri">>),
                              Row(S("req", x), {"#"}, S("req", "frag0"), pre \o <<"query", "uri">>)}
         IN  Body("query0", <<"query0">>) \cup Body("query", <<>>)
             \cup {r \in Pct("req", "query") : r.at # S("req", "query")}

Fragment == LET Body(x, pre) == {Row(S("req", x), Pchar \cup {"/", "?"}, S("req", "frag"), pre),
                                 Row(S("req", x), {"%"}, <<"req", "frag", 1, 0>>, pre),
                                 Row(S("req", x), {"SP"}, <<"req", "ver", 0, 0>>, pre \o <<"fragment">>)}
            IN  Body("frag0", <<"mark">>) \cup Body("frag", <<>>)
                \cup {r \in Pct("req", "frag") : r.at # S("req", "frag")}

-----------------------------------------------------------------------------
(***************************************************************************)
(* The IPv6 host.  In http11_parser.rl "6( h16 ":" )" is the BYTE 6 before *)
(* one group, not six groups, and {k,} has no upper bound: these rows are  *)
(* the language that grammar really has.                                   *)
(***************************************************************************)
Bracket(m) == {Go(m, "ip", {"b6"}, "six"), Go(m, "ip", {":"}, "ip:"),
               Row(S(m, "ip"), Hex, <<m, "grp", 1, 1>>, <<>>)}

Six(m) == {Row(S(m, "six"), Hex, <<m, "six", 0, 1>>, <<>>)}
          \cup {Row(<<m, "six", 0, d>>, Hex, <<m, "six", 0, d + 1>>, <<>>) : d \in 1..3}
          \cup {Row(<<m, "six", 0, d>>, {":"}, S(m, "ls"), <<>>) : d \in 1..4}

(* The last 32 bits: two groups or a dotted address                        *)
Ls32(m) == QuadStart(m, S(m, "ls"), "ls") \cup QuadHex(m, "ls") \cup QuadDecimal(m, "ls")
           \cup QuadEnd(m, "ls", S(m, "last"), FALSE)

(* Group k before the "::"; the seventh repeats                            *)
Group(m, k) ==
    {Row(<<m, "grp", k, d>>, Hex, <<m, "grp", k, d + 1>>, <<>>) : d \in 1..3}
    \cup {Row(<<m, "grp", k, d>>, {":"}, <<m, "grp", k, 0>>, <<>>) : d \in 1..4}
    \cup {Row(<<m, "grp", k, 0>>, Hex, <<m, "grp", IF k = 7 THEN 7 ELSE k + 1, 1>>, <<>>),
          Row(<<m, "grp", k, 0>>, {":"}, <<m, "dbl", k, 0>>, <<>>)}

FirstGroups(m) == UNION {Group(m, k) : k \in 1..3}
LaterGroups(m) == UNION {Group(m, k) : k \in 4..7}

(* What may follow a "::" with k groups before it                          *)
Literal(k) == CASE k = 0 -> {"b2", "b3", "b4", "b5"} [] k = 1 -> {"b4"} [] k = 2 -> {"b3"}
                [] OTHER -> {"b2", "b3"}
DoubleColon(m) ==
    {Row(<<m, "dbl", k, 0>>, Literal(k), S(m, "six"), <<>>) : k \in 0..7}
    \cup {Row(S(m, "ip:"), {":"}, <<m, "dbl", 0, 0>>, <<>>),
          Row(<<m, "dbl", 4, 0>>, Hex, <<m, "six", 0, 1>>, <<>>)}

AfterSeven(m) == UNION {QuadStart(m, <<m, "dbl", k, 0>>, "one") : k \in {0, 6, 7}}
                 \cup {Row(<<m, "dbl", k, 0>>, {"]"}, S(m, "ipEnd"), <<>>) : k \in {0, 7}}

TailOne(m) == QuadHex(m, "one") \cup QuadDecimal(m, "one") \cup QuadEnd(m, "one", S(m, "two"), TRUE)
TailTwo(m) == QuadStart(m, S(m, "two"), "two") \cup QuadHex(m, "two") \cup QuadDecimal(m, "two")
              \cup QuadEnd(m, "two", S(m, "last"), TRUE)
TailFive(m) == QuadStart(m, <<m, "dbl", 5, 0>>, "five") \cup QuadHex(m, "five")
               \cup QuadDecimal(m, "five") \cup QuadEnd(m, "five", S(m, "two"), FALSE)

IpEnd(m) == {Go(m, "ipEnd", {"/"}, "path"), Go(m, "ipEnd", {":"}, "port")} \cup Ends(m, "ipEnd", <<>>)
-----------------------------------------------------------------------------
VersionText == <<{"H"}, {"T"}, {"T"}, {"P"}, {"/"}, {"1"}, {"."}, {"0", "1"}>>
Version ==
    {Row(<<"req", "ver", k, 0>>, VersionText[k + 1], <<"req", "ver", k + 1, 0>>,
         IF k = 0 THEN <<"mark">> ELSE <<>>) : k \in 0..7}
    \cup {Row(<<"req", "ver", 8, 0>>, {"LF"}, S("req", "line"), <<"version">>),
          Row(<<"req", "ver", 8, 0>>, {"CR"}, S("req", "cr"), <<"version">>)}

(* The grammar's "0 - 31" subtracts sets, so control bytes are tokens      *)
Token == Alpha \cup Digit \cup
         {"tok", "^", "b2", "b3", "b4", "b5", "b6", "VT", "!", "#", "%", "+", "-", "."}
Content == Token \cup {"TAB", "SP", "quote", "(", "/", ":", "<", ">", "?", "@", "[", "]", "{", "}", "hi"}

Line == {Row(S("req", "line"), Token, S("req", "name"), <<"field0">>),
         Row(S("req", "line"), {"LF"}, S("req", "done"), <<"field0", "done">>),
         Row(S("req", "line"), {"CR"}, S("req", "lineCR"), <<"field0">>)}

LineCR == {Go("req", "lineCR", Token \cup {"CR"}, "name"),
           Row(S("req", "lineCR"), {":"}, S("req", "value0"), <<"field">>),
           Row(S("req", "lineCR"), {"LF"}, S("req", "done"), <<"done">>)}

Name == {Go("req", "name", Token \cup {"LF", "CR"}, "name"),
         Row(S("req", "name"), {":"}, S("req", "value0"), <<"field">>)}

Value == {Row(S("req", "value0"), Content \ {"SP", "TAB"}, S("req", "value"), <<"mark">>),
          Row(S("req", "value0"), {"SP", "TAB"}, S("req", "value0"), <<"mark">>),
          Row(S("req", "value0"), {"LF"}, S("req", "line"), <<"mark", "value">>),
          Row(S("req", "value0"), {"CR"}, S("req", "cr"), <<"mark", "value">>),
          Go("req", "value", Content, "value"),
          Row(S("req", "value"), {"LF"}, S("req", "line"), <<"value">>),
          Row(S("req", "value"), {"CR"}, S("req", "cr"), <<"value">>)}

Cr == {Go("req", "cr", {"LF"}, "line")}

-----------------------------------------------------------------------------
AnyByte == Content \cup {"NUL", "LF", "CR", "DEL"}

Xml == LET X(k) == <<"req", "xml", k, 0>>
           NameChar == Alpha \cup Digit \cup {"-", "."}
       IN  {Row(X(0), NameChar, X(1), <<>>), Row(X(1), NameChar, X(1), <<>>),
            Row(X(1), {"TAB", "LF", "VT", "CR", "SP", "/", ">"}, X(2), <<"path">>),
            Row(X(2), AnyByte \ {">"}, X(2), <<>>), Row(X(2), {">"}, X(3), <<>>),
            Row(X(3), AnyByte \ {">", "NUL"}, X(2), <<>>), Row(X(3), {">"}, X(3), <<>>),
            Row(X(3), {"NUL"}, S("req", "done"), <<"xml", "done">>)}

JsonTarget == {Go("json", "target", NoColon, "noscheme"), Go("json", "target", {"/"}, "slash"),
               Row(S("json", "target"), {"%"}, <<"json", "noscheme", 1, 0>>, <<>>)}
              \cup Ends("json", "target", <<>>)

JsonText == LET J(k) == <<"json", "text", k, 0>>
            IN  {Row(J(0), {"{"}, J(1), <<"mark">>),
                 Row(J(1), AnyByte \ {"}"}, J(1), <<>>), Row(J(1), {"}"}, J(2), <<>>),
                 Row(J(2), AnyByte \ {"}", "NUL"}, J(1), <<>>), Row(J(2), {"}"}, J(2), <<>>),
                 Row(J(2), {"NUL"}, S("req", "done"), <<"json", "done">>)}

(* The generated code repeats the grammar of a relative target for "@"     *)
JsonPath == NoScheme("json") \cup Path("json") \cup Slash("json")
JsonAuthority == Authority("json") \cup Colon("json")
JsonHost == User("json") \cup Host("json") \cup Port("json")
JsonSix == Bracket("json") \cup Six("json")
JsonOctets == Octets("json") \cup IpEnd("json")
JsonLs32 == Ls32("json") \cup LastGroup("json")
JsonFirstGroups == FirstGroups("json")
JsonLaterGroups == LaterGroups("json")
JsonTailTwo == TailTwo("json")
JsonTailOne == TailOne("json") \cup AfterSeven("json")
JsonTailFive == TailFive("json")
JsonDoubleColon == DoubleColon("json")
JsonFuture == Future("json")
JsonRows == JsonTarget \cup JsonText \cup JsonPath \cup JsonAuthority \cup JsonHost \cup JsonSix \cup JsonOctets
            \cup JsonLs32 \cup JsonFirstGroups \cup JsonLaterGroups \cup JsonTailTwo \cup JsonTailOne
            \cup JsonTailFive \cup JsonDoubleColon \cup JsonFuture
IpRows == Bracket("req") \cup Future("req") \cup Six("req") \cup Ls32("req") \cup LastGroup("req") \cup Octets("req")
          \cup IpEnd("req") \cup FirstGroups("req") \cup LaterGroups("req") \cup DoubleColon("req")
          \cup AfterSeven("req") \cup TailOne("req") \cup TailTwo("req") \cup TailFive("req")
TargetRows == Target \cup Scheme \cup Hier \cup NoScheme("req") \cup Path("req") \cup Slash("req")
              \cup Authority("req") \cup Colon("req") \cup User("req") \cup Host("req") \cup Port("req")
              \cup Query \cup Fragment
HeadRows == Start \cup Method \cup Version \cup Line \cup LineCR \cup Name \cup Value \cup Cr \cup Xml
Table == ByPlace(JsonRows \cup IpRows \cup TargetRows \cup HeadRows)

(* The rows for a byte.  uri_relaxed, which nobody initializes, makes "{", *)
(* "}" and "^" one more delimiter of a URI.                                *)
On(rows, c, relaxed) ==
    LET plain == {r \in rows : c \in r.on}
    IN  IF plain = {} /\ relaxed /\ c \in {"{", "}", "^"}
        THEN {r \in rows : "wide" \in r.on} ELSE plain
-----------------------------------------------------------------------------
(***************************************************************************)
(* http_parser_execute and the callbacks of HttpRequestParser; rows is the *)
(* machine, Table.  A callback gets bytes of the CURRENT buffer: mark and  *)
(* field_start go back to 0 at every call, query_start does not.           *)
(***************************************************************************)
NoHeaders == [n \in {} |-> <<>>]
HttpRequest == [method |-> <<"G", "E", "T">>, path |-> <<"/">>, query |-> <<>>, fragment |-> <<>>,
                version |-> "1", close |-> TRUE, headers |-> NoHeaders, body |-> <<>>]

NewParser(relaxed) == [cs |-> S("req", "start"), mark |-> 0, qs |-> 0, fs |-> 0, fl |-> 0, n |-> 0,
                       halt |-> FALSE, error |-> FALSE, threw |-> FALSE,
                       relaxed |-> relaxed, req |-> HttpRequest]

Bytes(buf, from, to) == SubSeq(buf, from + 1, to)

(* CharsToHttpMethod compares what is at the mark with every name          *)
OnMethod(q, buf) ==
    LET found == {m \in Methods : IsPrefix(m, Bytes(buf, q.mark, Len(buf)))}
    IN  IF found = {} THEN [q EXCEPT !.error = TRUE]
        ELSE [q EXCEPT !.req.method = CHOOSE m \in found : TRUE]

(* strncmp over the length of what was marked, which may be 0              *)
OnVersion(q, text) ==
    LET Is(minor) == IsPrefix(text, <<"H", "T", "T", "P", "/", "1", ".", minor>>)
    IN  IF Is("1") THEN [q EXCEPT !.req.version = "1"]
        ELSE IF Is("0") THEN [q EXCEPT !.req.version = "0"] ELSE [q EXCEPT !.error = TRUE]

OnField(q, name, value) ==
    IF name = <<>> THEN q ELSE [q EXCEPT !.req.headers = (name :> value) @@ @]

MutOnQuery(q, buf) == [q EXCEPT !.req.query = Bytes(buf, 0, q.n)]   \* mutant: from the buffer's start
(* A length that came out negative makes std::string throw                 *)
OnQuery(q, buf) == IF q.qs > q.n THEN [q EXCEPT !.threw = TRUE, !.halt = TRUE]
                   ELSE [q EXCEPT !.req.query = Bytes(buf, q.qs, q.n)]

(* One action of the machine at the byte after the first q.n               *)
Act(q, a, buf) ==
    CASE a = "mark" -> [q EXCEPT !.mark = q.n]
      [] a = "query0" -> [q EXCEPT !.qs = q.n]
      [] a = "field0" -> [q EXCEPT !.fs = q.n]
      [] a = "field" -> [q EXCEPT !.fl = q.n - q.fs]
      [] a = "method" -> OnMethod(q, buf)
      [] a = "path" -> [q EXCEPT !.req.path = Bytes(buf, q.mark, q.n)]
      [] a = "query" -> OnQuery(q, buf)
      [] a = "fragment" -> [q EXCEPT !.req.fragment = Bytes(buf, q.mark, q.n)]
      [] a = "version" -> OnVersion(q, Bytes(buf, q.mark, q.n))
      [] a = "value" -> OnField(q, Bytes(buf, q.fs, q.fs + q.fl), Bytes(buf, q.mark, q.n))
      [] a = "done" -> [q EXCEPT !.halt = TRUE]
      [] a \in {"uri", "xml", "json"} -> q

(* One byte: no row is the error state, which does not consume it          *)
Taken(q, row, buf) ==
    LET acted[k \in 0..Len(row.do)] == IF k = 0 THEN q ELSE Act(acted[k - 1], row.do[k], buf)
    IN  [acted[Len(row.do)] EXCEPT !.cs = row.to, !.n = @ + 1]
Step(q, next) == IF next = {} THEN [q EXCEPT !.cs = S("req", "error"), !.halt = TRUE]
                 ELSE CHOOSE p \in next : TRUE
Feed(rows, q, c, buf) ==
    IF q.halt THEN q
    ELSE Step(q, {Taken(q, row, buf) : row \in On(Leaving(rows, q.cs), c, q.relaxed)})

Reset(q) == [q EXCEPT !.mark = 0, !.fs = 0, !.fl = 0, !.n = 0]
Execute(rows, q, buf) ==
    LET run[i \in 0..Len(buf)] == IF i = 0 THEN Reset(q) ELSE Feed(rows, run[i - 1], buf[i], buf)
    IN  run[Len(buf)]

HasError(q) == q.error \/ q.cs = S("req", "error")
IsFinished(q) == q.cs = S("req", "done")

-----------------------------------------------------------------------------
(* lexical_cast of a header; what is no number is 0                        *)
Number(text) == IF text = <<>> \/ ~(Range(text) \subseteq Digit) THEN 0
                ELSE FoldLeft(LAMBDA n, c : 10 * n + DigitValue[c], 0, text)
Header(req, name) == IF name \in DOMAIN req.headers THEN req.headers[name] ELSE <<>>
ContentLength(req) == Number(Header(req, <<"content-length">>))

(***************************************************************************)
(* HttpRequest::dump, as the pieces it writes.  Each piece ends with the   *)
(* byte at which the parser acts on it.                                    *)
(***************************************************************************)
Piece(what, name, text) == [what |-> what, name |-> name, text |-> text]
HeaderPieces(name, value) == <<Piece("header", name, name \o <<":", "SP">> \o value \o <<"CR">>),
                               Piece("eol", <<>>, <<"LF">>)>>
Pieces(req) ==
    LET NumberText(n) == <<CHOOSE c \in Digit : DigitValue[c] = n>>
        Opt(what, text, end) == IF text = <<>> THEN <<>> ELSE <<Piece(what, <<>>, text \o <<end>>)>>
        afterPath == IF req.query # <<>> THEN "?" ELSE IF req.fragment # <<>> THEN "#" ELSE "SP"
        others == SetToSeq(DOMAIN req.headers \ {<<"connection">>})
    IN  <<Piece("method", <<>>, req.method \o <<"SP">>), Piece("path", <<>>, req.path \o <<afterPath>>)>>
        \o Opt("query", req.query, IF req.fragment # <<>> THEN "#" ELSE "SP")
        \o Opt("fragment", req.fragment, "SP")
        \o <<Piece("version", <<>>, <<"H", "T", "T", "P", "/", "1", ".", req.version, "CR">>),
             Piece("eol", <<>>, <<"LF">>)>>
        \o HeaderPieces(<<"connection">>, IF req.close THEN <<"close">> ELSE <<"keep-alive">>)
        \o FlattenSeq([i \in DOMAIN others |-> HeaderPieces(others[i], req.headers[others[i]])])
        \o (IF req.body = <<>> THEN <<Piece("eol", <<>>, <<"CR", "LF">>)>>
            ELSE HeaderPieces(<<"content-length">>, NumberText(Len(req.body)))
                 \o <<Piece("eol", <<>>, <<"CR", "LF">>), Piece("body", <<>>, req.body)>>)
=============================================================================
