---------------------------- MODULE ResponseParser ----------------------------
(***************************************************************************)
(* The response parser: the machine Ragel generated from                   *)
(* httpclient_parser.rl and the callbacks HttpResponseParser gives it.  A  *)
(* state is <<place, k>>, where k counts the letters of a word matched so  *)
(* far.  A letter stands for both its cases; "H", "T", "P" are capitals,   *)
(* "x" is any other token character and "bad" any other byte.              *)
(***************************************************************************)
EXTENDS Naturals, Integers, Sequences, FiniteSets, SequencesExt

Row(s, on, t, do) == [at |-> s, on |-> on, to |-> t, do |-> do]
S(x) == <<x, 0>>

Digit == {"0", "1", "2", "5"}
HexLetter == {"a", "b", "c", "d", "e", "f"}
Token == Digit \cup HexLetter \cup {"g", "h", "i", "k", "l", "n", "o", "r", "s", "t", "u", "H", "T", "P", "x", "-", "."}
Blank == {"SP", "TAB"}
Text == Token \cup Blank \cup {"bad", "/", ":", ";", "="}
Eol == {"LF", "CR"}

Start == {Row(S("start"), Digit \cup HexLetter, S("size"), <<"mark">>),
          Row(S("start"), {"H"}, <<"ver", 1>>, <<"mark">>)}

(* A chunk's header: its size and extensions                               *)
ChunkSize == {Row(S("size"), Digit \cup HexLetter, S("size"), <<>>),
              Row(S("size"), {"LF"}, S("done"), <<"chunk_size", "done">>),
              Row(S("size"), {"CR"}, S("endCR"), <<"chunk_size">>),
              Row(S("size"), {";"}, S("ext"), <<"chunk_size">>)}
EndCr == {Row(S("endCR"), {"LF"}, S("done"), <<"done">>)}
Extension ==
    LET Ends(x, acts) == {Row(S(x), {"LF"}, S("done"), acts \o <<"done">>),
                          Row(S(x), {"CR"}, S("endCR"), acts), Row(S(x), {";"}, S("ext"), acts)}
    IN  {Row(S("ext"), Token, S("extName"), <<"start_field">>), Row(S("extName"), Token, S("extName"), <<>>),
         Row(S("extName"), {"="}, S("extValue0"), <<"write_field", "mark">>),
         Row(S("extValue0"), Token, S("extValue"), <<"mark">>), Row(S("extValue"), Token, S("extValue"), <<>>)}
        \cup Ends("extName", <<"write_field", "mark", "write_value">>) \cup Ends("extValue", <<"write_value">>)

(* "HTTP/" digits "." digits                                               *)
Version == LET To(k, on, j) == Row(<<"ver", k>>, on, <<"ver", j>>, <<>>)
           IN  {To(1, {"T"}, 2), To(2, {"T"}, 3), To(3, {"P"}, 4), To(4, {"/"}, 5), To(5, Digit, 6),
                To(6, Digit, 6), To(6, {"."}, 7), To(7, Digit, 8), To(8, Digit, 8),
                Row(<<"ver", 8>>, {"SP"}, S("status0"), <<"http_version">>)}
Status == {Row(S("status0"), Digit, S("status"), <<"mark">>), Row(S("status"), Digit, S("status"), <<>>),
           Row(S("status"), {"SP"}, S("reason0"), <<"status_code">>)}
Reason == {Row(S("reason0"), Text \cup {"CR"}, S("reason"), <<"mark">>), Row(S("reason"), Text, S("reason"), <<>>),
           Row(S("reason"), {"LF"}, S("line"), <<"reason_phrase">>),
           Row(S("reason"), {"CR"}, S("cr"), <<"reason_phrase">>)}

(* The start of a line in state s.  "c" and "t" may begin one of three     *)
(* words the machine looks for.                                            *)
LineStart(s, pre) ==
    {Row(s, Token \ {"c", "t", "T"}, S("name"), pre \o <<"start_field">>),
     Row(s, {"c"}, <<"conn", 1>>, pre \o <<"start_field">>),
     Row(s, {"t", "T"}, <<"te", 1>>, pre \o <<"start_field">>)}
Line == LineStart(S("line"), <<>>)
        \cup {Row(S("line"), {"LF"}, S("done"), <<"done">>), Row(S("line"), {"CR"}, S("endCR"), <<>>)}
Name == {Row(S("name"), Token, S("name"), <<>>), Row(S("name"), {":"}, S("value0"), <<"write_field">>)}
Value == {Row(S("value0"), Text \ Blank, S("value"), <<"mark">>), Row(S("value0"), Blank, S("value0"), <<"mark">>),
          Row(S("value0"), {"LF"}, S("line"), <<"mark", "write_value">>),
          Row(S("value0"), {"CR"}, S("cr"), <<"mark", "write_value">>),
          Row(S("value"), Text, S("value"), <<>>),
          Row(S("value"), {"LF"}, S("line"), <<"write_value">>),
          Row(S("value"), {"CR"}, S("cr"), <<"write_value">>)}
Cr == {Row(S("cr"), {"LF"}, S("line"), <<>>)}

-----------------------------------------------------------------------------
(* A word to look for, in either case                                      *)
Letters(word) == [k \in DOMAIN word |-> CASE word[k] = "t" -> {"t", "T"} [] word[k] = "h" -> {"h", "H"}
                                           [] OTHER -> {word[k]}]
ConnectionText == <<"c", "o", "n", "n", "e", "c", "t", "i", "o", "n">>
Connection == Letters(ConnectionText)
LengthText == <<"c", "o", "n", "t", "e", "n", "t", "-", "l", "e", "n", "g", "t", "h">>
TransferText == <<"t", "r", "a", "n", "s", "f", "e", "r", "-", "e", "n", "c", "o", "d", "i", "n", "g">>
ContentLength == Letters(LengthText)
TransferEncoding == Letters(TransferText)
CloseWord == Letters(<<"c", "l", "o", "s", "e">>)
ChunkedWord == Letters(<<"c", "h", "u", "n", "k", "e", "d">>)

(* A name that is word so far; any other letter makes it an ordinary name  *)
NameWord(x, word, from) ==
    UNION {{Row(<<x, k>>, word[k + 1], <<x, k + 1>>, <<>>),
            Row(<<x, k>>, {":"}, S("value0"), <<"write_field">>)} : k \in from..(Len(word) - 1)}
    \cup {Row(<<x, k>>, Token \ word[k + 1], S("name"), <<>>) : k \in (from..(Len(word) - 1)) \ {3}}
    \cup {Row(<<x, Len(word)>>, Token, S("name"), <<>>),
          Row(<<x, Len(word)>>, {":"}, <<x, 100>>, <<"write_field">>)}
ConnectionName == NameWord("conn", Connection, 1)
                  \cup {Row(<<"conn", 3>>, Token \ {"n", "t", "T"}, S("name"), <<>>), Row(<<"conn", 3>>, {"t", "T"}, <<"cl", 4>>, <<>>)}
TransferName == NameWord("te", TransferEncoding, 1) \cup {Row(<<"te", 3>>, Token \ {"n"}, S("name"), <<>>)}
LengthName == NameWord("cl", ContentLength, 4)

(***************************************************************************)
(* The value of such a header.  100 is its start, 101 and 102 a line that  *)
(* ended before any value (LF, CR), 103 blanks after that, 104 a CR after  *)
(* the LF, 105 the place a message ends in when nothing follows: not the   *)
(* place is_finished asks for.                                             *)
(***************************************************************************)
ValueStart(x, first, word1) ==
    {Row(<<x, 100>>, Text \ (Blank \cup first), S("value"), <<"mark">>), Row(<<x, 100>>, Blank, <<x, 100>>, <<"mark">>),
     Row(<<x, 100>>, {"LF"}, <<x, 101>>, <<"mark", "write_value">>),
     Row(<<x, 100>>, {"CR"}, <<x, 102>>, <<"mark", "write_value">>),
     Row(<<x, 100>>, first, <<word1, 1>>, <<"mark">>)}
Folded(x, first, kw, mark) ==
    {Row(<<x, 101>>, Blank, <<x, 103>>, <<>>), Row(<<x, 101>>, {"LF"}, <<x, 105>>, <<"done">>),
     Row(<<x, 101>>, {"CR"}, <<x, 104>>, <<>>),
     Row(<<x, 102>>, Blank \cup {"CR"}, <<x, 103>>, <<>>), Row(<<x, 102>>, {"LF"}, <<x, 101>>, <<>>),
     Row(<<x, 103>>, Blank \cup Eol, <<x, 103>>, <<>>),
     Row(<<x, 104>>, Blank \cup {"CR"}, <<x, 103>>, <<>>), Row(<<x, 104>>, {"LF"}, <<x, 105>>, <<"done">>)}
    \cup {Row(<<x, k>>, first, <<kw, 1>>, mark) : k \in 102..104}
FoldedAgain(x, kw, mark) == {Row(<<x, 105>>, Blank \cup Eol, <<x, 103>>, <<>>), Row(<<x, 105>>, {"c"}, <<kw, 1>>, mark)}

(* The word alone, the word as a value, the word or a name                 *)
WordOnly(kw, word) == {Row(<<kw, k>>, word[k + 1], <<kw, k + 1>>, <<>>) : k \in 1..(Len(word) - 1)}
WordValue(vw, word) ==
    UNION {{Row(<<vw, k>>, Text \ word[k + 1], S("value"), <<>>), Row(<<vw, k>>, {"LF"}, S("line"), <<"write_value">>),
            Row(<<vw, k>>, {"CR"}, S("cr"), <<"write_value">>)} : k \in 1..(Len(word) - 1)}
    \cup {Row(<<vw, Len(word)>>, Text, S("value"), <<>>)} \cup WordOnly(vw, word)
WordName(nw, word) ==
    {Row(<<nw, k>>, Token \ word[k + 1], S("name"), <<>>) : k \in 2..(Len(word) - 1)}
    \cup {Row(<<nw, k>>, {":"}, S("value0"), <<"write_field">>) : k \in 1..Len(word)}
    \cup {Row(<<nw, Len(word)>>, Token, S("name"), <<>>),
          Row(<<nw, 1>>, Token \ (word[2] \cup {"o"}), S("name"), <<>>), Row(<<nw, 1>>, {"o"}, <<"conn", 2>>, <<>>)}
    \cup WordOnly(nw, word)
FoldedName(x, nw, acts) ==
    {r \in LineStart(<<x, 101>>, <<>>) : r.on # {"c"}} \cup {Row(<<x, 101>>, {"c"}, <<nw, 1>>, acts)}

CloseEnd(kw, acts) == {Row(<<kw, 5>>, {"LF"}, S("closeLine"), acts), Row(<<kw, 5>>, {"CR"}, S("closeCR"), acts)}
ConnectionValue == ValueStart("conn", {"c"}, "closeV") \cup Folded("conn", {"c"}, "close", <<>>)
                   \cup FoldedAgain("conn", "close", <<>>) \cup FoldedName("conn", "closeN", <<"start_field">>)
CloseOnly == WordOnly("close", CloseWord) \cup CloseEnd("close", <<>>)
CloseName == WordName("closeN", CloseWord) \cup CloseEnd("closeN", <<>>)
CloseValue == WordValue("closeV", CloseWord) \cup CloseEnd("closeV", <<"write_value">>)
CloseLine == LineStart(S("closeLine"), <<"close">>)
             \cup {Row(S("closeLine"), {"LF"}, S("done"), <<"close", "done">>),
                   Row(S("closeLine"), {"CR"}, S("endCR"), <<"close">>), Row(S("closeCR"), {"LF"}, S("closeLine"), <<>>)}

ChunkedEnd(kw) == {Row(<<kw, 7>>, {"LF"}, S("line"), <<"write_value", "chunked">>),
                   Row(<<kw, 7>>, {"CR"}, S("chunkedCR"), <<"write_value">>)}
TransferValue == ValueStart("te", {"c"}, "chunkedV") \cup Folded("te", {"c"}, "chunked", <<"mark">>)
                 \cup FoldedAgain("te", "chunked", <<"mark">>) \cup FoldedName("te", "chunkedN", <<"mark", "start_field">>)
ChunkedOnly == WordOnly("chunked", ChunkedWord) \cup ChunkedEnd("chunked")
               \cup {Row(S("chunkedCR"), {"LF"}, S("line"), <<"chunked">>)}
ChunkedName == WordName("chunkedN", ChunkedWord) \cup ChunkedEnd("chunkedN")
ChunkedValue == WordValue("chunkedV", ChunkedWord) \cup ChunkedEnd("chunkedV")

LengthEnd(x) == {Row(<<x, 1>>, Digit, <<x, 1>>, <<>>), Row(<<x, 1>>, {"LF"}, S("line"), <<"write_value", "content_len">>),
                 Row(<<x, 1>>, {"CR"}, S("cr"), <<"write_value", "content_len">>)}
LengthValue == ValueStart("cl", Digit, "lenV") \cup Folded("cl", Digit, "len", <<"mark">>)
               \cup {[r EXCEPT !.on = @ \ Digit] : r \in LineStart(<<"cl", 101>>, <<>>)}
               \cup {Row(<<"cl", 101>>, Digit, <<"lenN", 1>>, <<"mark", "start_field">>)}
LengthDigits == LengthEnd("len") \cup LengthEnd("lenV") \cup LengthEnd("lenN")
                \cup {Row(<<"lenV", 1>>, Text \ Digit, S("value"), <<>>),
                      Row(<<"lenN", 1>>, Token \ Digit, S("name"), <<>>),
                      Row(<<"lenN", 1>>, {":"}, S("value0"), <<"write_field">>)}

(* The machine: its rows by the place they leave                           *)
ByPlace(rows) == [s \in {r.at : r \in rows} |-> {r \in rows : r.at = s}]
Leaving(table, s) == IF s \in DOMAIN table THEN table[s] ELSE {}
LineRows == Version \cup Status \cup Reason \cup Line \cup Name \cup Value \cup Cr
Table == ByPlace(Start \cup ChunkSize \cup EndCr \cup Extension \cup LineRows
                 \cup ConnectionName \cup ConnectionValue \cup TransferName \cup TransferValue
                 \cup LengthName \cup LengthValue \cup LengthDigits
                 \cup CloseOnly \cup CloseName \cup CloseValue \cup CloseLine
                 \cup ChunkedOnly \cup ChunkedName \cup ChunkedValue)

-----------------------------------------------------------------------------
(***************************************************************************)
(* httpclient_parser_execute and the callbacks.  As in the request parser, *)
(* mark, field_start and field_len go back to 0 at every call.             *)
(***************************************************************************)
NoHeaders == [n \in {} |-> <<>>]
HttpResponse == [status |-> 200, version |-> "1", reason |-> <<>>, headers |-> NoHeaders, body |-> <<>>]
Machine == [cs |-> S("start"), mark |-> 0, fs |-> 0, fl |-> 0, n |-> 0, halt |-> FALSE,
            len |-> -1, chunked |-> FALSE, done |-> FALSE, close |-> FALSE]
NewParser == [m |-> Machine, error |-> FALSE, rsp |-> HttpResponse]

Bytes(buf, from, to) == SubSeq(buf, from + 1, to)
DigitOf == [c \in Digit \cup HexLetter |->
    CASE c = "0" -> 0 [] c = "1" -> 1 [] c = "2" -> 2 [] c = "5" -> 5 [] c = "a" -> 10 [] c = "b" -> 11
      [] c = "c" -> 12 [] c = "d" -> 13 [] c = "e" -> 14 [] c = "f" -> 15]
(* strtol and atoi: the digits at the start of a text                      *)
strtol(text, digits, base) ==
    LET stop == {i \in DOMAIN text : text[i] \notin digits}
        len == IF stop = {} THEN Len(text) ELSE (CHOOSE i \in stop : \A j \in stop : i <= j) - 1
    IN  FoldLeft(LAMBDA n, c : base * n + DigitOf[c], 0, SubSeq(text, 1, len))

OnVersion(q, text) ==
    LET Is(minor) == IsPrefix(text, <<"H", "T", "T", "P", "/", "1", ".", minor>>)
    IN  IF Is("1") THEN [q EXCEPT !.rsp.version = "1"]
        ELSE IF Is("0") THEN [q EXCEPT !.rsp.version = "0"] ELSE [q EXCEPT !.error = TRUE]
OnField(q, name, value) == IF name = <<>> THEN q ELSE [q EXCEPT !.rsp.headers = (name :> value) @@ @]
OnChunkSize(q, rest) ==
    LET len == strtol(rest, Digit \cup HexLetter, 16)
    IN  [q EXCEPT !.m.chunked = TRUE, !.m.len = len, !.m.done = len <= 0]

Act(q, a, buf) ==
    LET m == q.m IN
    CASE a = "mark" -> [q EXCEPT !.m.mark = m.n]
      [] a = "start_field" -> [q EXCEPT !.m.fs = m.n]
      [] a = "write_field" -> [q EXCEPT !.m.fl = m.n - m.fs]
      [] a = "write_value" -> OnField(q, Bytes(buf, m.fs, m.fs + m.fl), Bytes(buf, m.mark, m.n))
      [] a = "content_len" -> [q EXCEPT !.m.len = strtol(Bytes(buf, m.mark, Len(buf)), Digit, 10)]
      [] a = "http_version" -> OnVersion(q, Bytes(buf, m.mark, m.n))
      [] a = "status_code" -> [q EXCEPT !.rsp.status = strtol(Bytes(buf, m.mark, Len(buf)), Digit, 10)]
      [] a = "reason_phrase" -> [q EXCEPT !.rsp.reason = Bytes(buf, m.mark, m.n)]
      [] a = "chunk_size" -> OnChunkSize(q, Bytes(buf, m.mark, Len(buf)))
      [] a = "chunked" -> [q EXCEPT !.m.chunked = TRUE]
      [] a = "close" -> [q EXCEPT !.m.close = TRUE]
      [] a = "done" -> [q EXCEPT !.m.halt = TRUE]

Taken(q, row, buf) == [FoldLeft(LAMBDA r, a : Act(r, a, buf), q, row.do)
                          EXCEPT !.m.cs = row.to, !.m.n = @ + 1]
Step(q, next) == IF next = {} THEN [q EXCEPT !.m.cs = S("error"), !.m.halt = TRUE]
                 ELSE CHOOSE p \in next : TRUE
Feed(rows, q, c, buf) ==
    IF q.m.halt THEN q
    ELSE Step(q, {Taken(q, row, buf) : row \in {r \in Leaving(rows, q.m.cs) : c \in r.on}})

(* A chunk's header is parsed from the machine's first state every time    *)
Execute(rows, q, buf, chunk) ==
    LET init == [q EXCEPT !.m = IF chunk THEN Machine
                                ELSE [@ EXCEPT !.mark = 0, !.fs = 0, !.fl = 0, !.n = 0, !.halt = FALSE]]
        run[i \in 0..Len(buf)] == IF i = 0 THEN init ELSE Feed(rows, run[i - 1], buf[i], buf)
    IN  run[Len(buf)]

HasError(q) == q.error \/ q.m.cs = S("error")
IsFinished(q) == q.m.cs = S("done")

Header(rsp, name) == IF name \in DOMAIN rsp.headers THEN rsp.headers[name] ELSE <<>>
GetContentLength(rsp) ==
    LET text == Header(rsp, LengthText)
    IN  IF text = <<>> \/ ~(Range(text) \subseteq Digit) THEN 0 ELSE strtol(text, Digit, 10)

(***************************************************************************)
(* HttpResponse::dump, as the pieces it writes; each ends with the byte at *)
(* which the parser acts on it.  The headers that say where the body ends  *)
(* are told from the others.                                               *)
(***************************************************************************)
Piece(what, text) == [what |-> what, text |-> text]
HeaderPieces(name, value) ==
    <<Piece(IF name \in {LengthText, TransferText} THEN "framing" ELSE "header",
            name \o <<":", "SP">> \o value \o <<"CR">>), Piece("eol", <<"LF">>)>>
Status200 == <<"2", "0", "0", "SP">>
HeadPieces(rsp) == <<Piece("version", <<"H", "T", "T", "P", "/", "1", ".", rsp.version, "SP">>),
                     Piece("status", Status200), Piece("reason", <<"o", "k", "CR">>), Piece("eol", <<"LF">>)>>
                   \o HeaderPieces(ConnectionText, <<"k", "e", "e", "x", "-", "a", "l", "i", "x", "e">>)
BodyPieces(body) == IF body = <<>> THEN <<Piece("eol", <<"CR", "LF">>)>>
    ELSE HeaderPieces(LengthText, <<CHOOSE d \in Digit : DigitOf[d] = Len(body)>>)
         \o <<Piece("eol", <<"CR", "LF">>), Piece("body", body)>>
=============================================================================
