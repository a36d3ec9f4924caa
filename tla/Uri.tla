--------------------------------- MODULE Uri ---------------------------------
(***************************************************************************)
(* Uri::Create, the machine Ragel generated from uri.rl, and what Uri says *)
(* of the parts it found.  Copy "abs" of the authority follows "scheme:",  *)
(* copy "rel" does not; only the first one saves its path.  A state from   *)
(* which "#" leaves may be the last one, and what the machine does at the  *)
(* end of the text is what it does at "#".                                 *)
(***************************************************************************)
EXTENDS IpLiteral, SequencesExt

-----------------------------------------------------------------------------
Leave(m, s, acts) ==
    LET save == IF m = "abs" THEN <<"path">> ELSE <<>>
    IN  {Row(s, {"#"}, S("rel", "frag0"), acts \o save),
         Row(s, {"?"}, S("rel", "query0"), acts \o save), Row(s, {"/"}, S(m, "path"), acts)}
Then(m, acts) == IF m = "abs" THEN acts \o <<"mark">> ELSE acts
LeaveHost(m, s, pre) == Leave(m, s, Then(m, pre \o <<"host">>))

Relative == {Row(S("rel", "start"), (NoColon \ Alpha) \cup {"hi"}, S("rel", "noscheme"), <<>>),
             Row(S("rel", "start"), Alpha, S("rel", "scheme"), <<"mark">>),
             Row(S("rel", "start"), {"%"}, <<"rel", "noscheme", 1, 0>>, <<>>),
             Row(S("rel", "start"), {"/"}, S("rel", "slash"), <<>>),
             Row(S("rel", "start"), {"#"}, S("rel", "frag0"), <<>>),
             Row(S("rel", "start"), {"?"}, S("rel", "query0"), <<>>),
             Go("rel", "noscheme", NoColon \cup {"hi"}, "noscheme")}
            \cup Pct("rel", "noscheme") \cup Leave("rel", S("rel", "noscheme"), <<>>)

Fragment == {Row(S("rel", x), Pchar \cup {"/", "?"}, S("rel", "frag"),
                 IF x = "frag0" THEN <<"mark">> ELSE <<>>) : x \in {"frag0", "frag"}}
            \cup {Row(S("rel", "frag0"), {"%"}, <<"rel", "frag", 1, 0>>, <<"mark">>)}
            \cup Pct("rel", "frag")

Path == {Go("rel", "path", Pchar \cup {"/"}, "path")} \cup Pct("rel", "path")
        \cup {r \in Leave("rel", S("rel", "path"), <<>>) : r.on # {"/"}}

Query == LET Body(x, pre) == {Row(S("rel", x), Pchar \cup {"/", "?"}, S("rel", "query"), pre),
                              Row(S("rel", x), {"%"}, <<"rel", "query", 1, 0>>, pre),
                              Row(S("rel", x), {"#"}, S("rel", "frag0"), pre \o <<"query">>)}
         IN  Body("query0", <<"mark">>) \cup Body("query", <<>>)
             \cup {r \in Pct("rel", "query") : r.at # S("rel", "query")}

(* "/" at the start, ":" after a scheme and "/" after that; "//" begins an *)
(* authority                                                               *)
Slashes(x, m, next) ==
    {Go("rel", x, Pchar, "path"), Row(S("rel", x), {"%"}, <<"rel", "path", 1, 0>>, <<>>),
     Row(S("rel", x), {"/"}, S(m, next), <<>>)}
    \cup {r \in Leave("rel", S("rel", x), <<>>) : r.on # {"/"}}
Slash == Slashes("slash", "rel", "auth")
Hier == Slashes("hier", "rel", "hslash") \cup Slashes("hslash", "abs", "auth")

Scheme == {Go("rel", "scheme", Alpha \cup Digit \cup {"+", "-", "."}, "scheme"),
           Go("rel", "scheme", {"!", "(", "@", "wide", "hi"}, "noscheme"),
           Row(S("rel", "scheme"), {"%"}, <<"rel", "noscheme", 1, 0>>, <<>>),
           Row(S("rel", "scheme"), {":"}, S("rel", "hier"), <<"scheme">>)}
          \cup Leave("rel", S("rel", "scheme"), <<>>)

-----------------------------------------------------------------------------
(***************************************************************************)
(* A decimal number from 0 to 255 in <<m, x, j, k>>: k is 1 when it is     *)
(* complete, 2 after "1", 7 after "3" or "1" and a digit, 4 after "2", 6   *)
(* after "25".  "2 [0-4] digit" of the grammar is the BYTE 2 before two    *)
(* digits (8 and 9).                                                       *)
(***************************************************************************)
FirstDigits(To(_, _)) == {To({"0"}, 1), To({"1"}, 2), To({"2"}, 4), To({"3", "5", "6"}, 7)}
Decimal(m, x, j) ==
    LET To(k, C, i) == Row(<<m, x, j, k>>, C, <<m, x, j, i>>, <<>>)
        From0(C, i) == To(0, C, i)
    IN  FirstDigits(From0)
        \cup {To(0, {"b2"}, 8), To(8, {"0", "1", "2", "3"}, 9), To(9, Digit, 1), To(2, Digit, 7),
              To(7, Digit, 1), To(4, Digit \ {"5"}, 1), To(4, {"5"}, 6), To(6, Digit \ {"6"}, 1)}
Complete == {1, 2, 4, 6, 7}

(* A host with the byte 2 in it is a dotted address or nothing             *)
Dotted(m) ==
    UNION {Decimal(m, "num", j) : j \in 1..4}
    \cup {Row(<<m, "num", j, k>>, {"."}, <<m, "num", j + 1, 0>>, <<>>) : j \in 1..3, k \in Complete}
    \cup UNION {LeaveHost(m, <<m, "num", 4, k>>, <<>>) : k \in Complete}
    \cup {Row(<<m, "num", 4, k>>, {":"}, S(m, "port0"), <<"host">>) : k \in Complete}

(* What may follow a character of a host or user in state s; reg is the    *)
(* place that takes any of them                                            *)
Named(m, s, reg, pre) ==
    {Row(s, {"%"}, <<m, reg, 1, 0>>, pre)} \cup LeaveHost(m, s, pre)
    \cup (IF reg = "reg"
          THEN {Row(s, {":"}, S(m, "colon"), pre \o <<"host">>),
                Row(s, {"@"}, S(m, "host"), pre \o <<"user">>)}
          ELSE {Row(s, {":"}, S(m, "port0"), pre \o <<"host">>)})

(* A host that still could be a dotted address: one more octet may begin   *)
(* with the byte 2                                                         *)
Numeric(m, x, reg) ==
    LET At(j, k) == <<m, x, j, k>>
        To(j, k, C, i) == Row(At(j, k), C, At(j, i), <<>>)
        Moves(j) == {To(j, 2, Digit, 7), To(j, 7, Digit, 1), To(j, 4, Digit \ {"5"}, 1),
                     To(j, 4, {"5"}, 6), To(j, 6, Digit \ {"6"}, 1)}
                    \cup {Row(At(j, k), {"."}, At(j + 1, 0), <<>>) : k \in Complete}
                    \cup {Row(At(j, k), Seg \ (Digit \cup {"."}), S(m, reg), <<>>) : k \in Complete}
                    \cup {Row(At(j, 1), Digit, S(m, reg), <<>>), Row(At(j, 6), {"6"}, S(m, reg), <<>>)}
        First(j) == LET From0(C, i) == To(j, 0, C, i) IN
                    FirstDigits(From0) \cup {Row(At(j, 0), Seg \ Digit, S(m, reg), <<>>)}
    IN  UNION {Moves(j) : j \in 1..3} \cup First(2) \cup First(3)
        \cup {Row(At(4, 0), Seg, S(m, reg), <<>>)}
        \cup {Row(At(j, 0), {"b2"}, <<m, "num", j, 8>>, <<>>) : j \in 2..4}
        \cup UNION {Named(m, At(j, k), reg, <<>>) : j \in 1..3, k \in Complete}
        \cup UNION {Named(m, At(j, 0), reg, <<>>) : j \in 2..4}

(* Where a host begins: after "//" (it may prove a user) and after "@"     *)
Begin(m, s, x, reg) ==
    LET From(C, k) == Row(s, C, <<m, x, 1, k>>, <<"mark">>)
    IN  FirstDigits(From) \cup Named(m, s, reg, <<"mark">>)
        \cup {Row(s, Seg \ Digit, S(m, reg), <<"mark">>), Row(s, {"["}, S(m, "ip"), <<"mark">>),
              Row(s, {"b2"}, <<m, "num", 1, 8>>, <<"mark">>)}
Registered(m, reg) == {Go(m, reg, Seg, reg), Row(<<m, reg, 1, 0>>, Hex, <<m, reg, 2, 0>>, <<>>),
                       Row(<<m, reg, 2, 0>>, Hex, S(m, reg), <<>>)}
                      \cup Named(m, S(m, reg), reg, <<>>)

Authority(m) == Begin(m, S(m, "auth"), "v4", "reg")
RegName(m) == Registered(m, "reg")
Host(m) == Begin(m, S(m, "host"), "h4", "hreg") \cup Registered(m, "hreg")
HostNumeric(m) == Numeric(m, "h4", "hreg")
AuthNumeric(m) == Numeric(m, "v4", "reg")

(* After a ":" digits are a port until something else makes them a user;   *)
(* the mark has moved by then.  An empty port leaves no mark at all.       *)
Colon(m) ==
    {Go(m, x, (Seg \ Digit) \cup {":"}, "user") : x \in {"colon", "digits"}}
    \cup {Row(S(m, x), {"%"}, <<m, "user", 1, 0>>, <<>>) : x \in {"colon", "digits"}}
    \cup {Row(S(m, x), {"@"}, S(m, "host"), <<"user">>) : x \in {"colon", "digits"}}
    \cup {Row(S(m, "colon"), Digit, S(m, "digits"), <<"mark">>), Go(m, "digits", Digit, "digits")}
    \cup Leave(m, S(m, "colon"), <<"mark", "port">>)
    \cup Leave(m, S(m, "digits"), Then(m, <<"port">>))

User(m) == {Go(m, "user", Seg \cup {":"}, "user"), Row(S(m, "user"), {"@"}, S(m, "host"), <<"user">>)}
           \cup Pct(m, "user")

IpEnd(m) == LeaveHost(m, S(m, "ipEnd"), <<>>) \cup {Row(S(m, "ipEnd"), {":"}, S(m, "port0"), <<"host">>)}
Port(m) == {Row(S(m, "port0"), Digit, S(m, "port"), <<"mark">>), Go(m, "port", Digit, "port")}
           \cup Leave(m, S(m, "port0"), <<"mark", "port">>)
           \cup Leave(m, S(m, "port"), Then(m, <<"port">>))

-----------------------------------------------------------------------------
(* A group of hexadecimal digits that may be the first number of a dotted  *)
(* address: d counts digits, k as above and 0 once it can only be hex      *)
Quad(m, s, x, next, stops) ==
    LET To(k, d, C, i) == Row(<<m, x, k, d>>, C, <<m, x, i, d + 1>>, <<>>)
        From(C, k) == Row(s, C, <<m, x, k, 1>>, <<>>)
        states == {<<m, x, 0, d>> : d \in 1..4}
                  \cup {<<m, x, 1, d>> : d \in 1..3} \cup {<<m, x, k, 1>> : k \in {2, 4, 7}}
                  \cup {<<m, x, 3, 2>>, <<m, x, 6, 2>>}
    IN  FirstDigits(From) \cup {From(HexAlpha, 0), Row(s, {"b2"}, <<m, "oct", 1, 8>>, <<>>)}
        \cup {To(0, d, Hex, 0) : d \in 1..3} \cup {To(1, d, Hex, 0) : d \in 1..3}
        \cup {To(2, 1, Digit, 3), To(2, 1, HexAlpha, 0), To(3, 2, Digit, 1), To(3, 2, HexAlpha, 0),
              To(4, 1, Digit \ {"5"}, 1), To(4, 1, {"5"}, 6), To(4, 1, HexAlpha, 0),
              To(7, 1, Digit, 1), To(7, 1, HexAlpha, 0),
              To(6, 2, Digit \ {"6"}, 1), To(6, 2, HexAlpha \cup {"6"}, 0)}
        \cup {Row(q, {":"}, next, <<>>) : q \in states}
        \cup {Row(q, {"."}, <<m, "oct", 2, 0>>, <<>>) : q \in {r \in states : r[3] # 0}}
        \cup (IF stops THEN {Row(q, {"]"}, S(m, "ipEnd"), <<>>) : q \in states} ELSE {})

Bracket(m) == {Row(S(m, "ip"), Hex, <<m, "grp", 1, 1>>, <<>>), Go(m, "ip", {":"}, "ip:")}

(* Group k, and where it goes after ":"                                    *)
Digits4(m, x, k, next) ==
    {Row(<<m, x, k, d>>, Hex, <<m, x, k, d + 1>>, <<>>) : d \in 1..3}
    \cup {Row(<<m, x, k, d>>, {":"}, next, <<>>) : d \in 1..4}
Groups(m) == UNION {Digits4(m, "grp", k, <<m, "grp", k, 0>>) : k \in 1..6}
             \cup {Row(<<m, "grp", k, 0>>, Hex, <<m, "grp", k + 1, 1>>, <<>>) : k \in 1..5}
             \cup {Row(<<m, "grp", k, 0>>, {":"}, <<m, "dbl", k, 0>>, <<>>) : k \in 1..5}

(* After six groups: the last 32 bits, or "::" and one group               *)
LastBits(m) == Quad(m, <<m, "grp", 6, 0>>, "ls", S(m, "seven"), FALSE)
               \cup {Row(<<m, "grp", 6, 0>>, {":"}, S(m, "last"), <<>>),
                     Row(S(m, "seven"), Hex, <<m, "last", 0, 1>>, <<>>),
                     Row(S(m, "seven"), {":"}, <<m, "last", 0, 4>>, <<>>)}
             
(* "::" after k groups: the repetitions {k} are exact, so exactly as many  *)
(* groups must follow as make eight                                        *)
DoubleColon(m) ==
    {Row(<<m, "dbl", k, 0>>, Hex, <<m, "dbl", k, 1>>, <<>>) : k \in 1..4}
    \cup UNION {Digits4(m, "dbl", k, <<m, "dbl", k + 1, 0>>) : k \in 1..4}
AfterFive(m) == Quad(m, <<m, "dbl", 5, 0>>, "five", S(m, "last"), FALSE)

(* "::" first: one to six groups                                           *)
Tails == <<"t1", "t2", "t3", "t4", "t5", "t6", "last">>
Tail1(m) == Quad(m, S(m, "t1"), "t1", S(m, "t2"), TRUE)
            \cup {Go(m, "ip:", {":"}, "t1"), Go(m, "t1", {"]"}, "ipEnd")}
TailN(m) == UNION {Quad(m, S(m, Tails[t]), Tails[t], S(m, Tails[t + 1]), TRUE) : t \in 2..6}

Numbers(m) ==
    UNION {Decimal(m, "oct", j) : j \in 1..4}
    \cup {Row(<<m, "oct", j, k>>, {"."}, <<m, "oct", j + 1, 0>>, <<>>) : j \in 1..3, k \in Complete}
    \cup {Row(<<m, "oct", 4, k>>, {"]"}, S(m, "ipEnd"), <<>>) : k \in Complete}

-----------------------------------------------------------------------------
(* The generated code has the authority twice                              *)
AbsAuthority == Authority("abs")
AbsDotted == Dotted("abs") \cup IpEnd("abs")
AbsPath == {Go("abs", "path", Pchar \cup {"/"}, "path")} \cup Pct("abs", "path")
           \cup {r \in Leave("abs", S("abs", "path"), <<>>) : r.on # {"/"}}
AbsPort == Port("abs")
AbsRegName == RegName("abs")
AbsColon == Colon("abs")
AbsUser == User("abs")
AbsHost == Host("abs")
AbsHostNumeric == HostNumeric("abs")
AbsGroups == Bracket("abs") \cup Groups("abs")
AbsNumbers == Numbers("abs")
AbsLastBits == LastBits("abs") \cup LastGroup("abs")
AbsAfterFive == AfterFive("abs")
AbsDoubleColon == DoubleColon("abs")
AbsTail1 == Tail1("abs")
AbsTailN == TailN("abs")
AbsFuture == Future("abs")
AbsAuthNumeric == AuthNumeric("abs")

AbsRows == AbsAuthority \cup AbsDotted \cup AbsPath \cup AbsPort \cup AbsRegName \cup AbsColon \cup AbsUser
           \cup AbsHost \cup AbsHostNumeric \cup AbsGroups \cup AbsNumbers \cup AbsLastBits \cup AbsAfterFive
           \cup AbsDoubleColon \cup AbsTail1 \cup AbsTailN \cup AbsFuture \cup AbsAuthNumeric
RelRows == Relative \cup Fragment \cup Path \cup Query \cup Slash \cup Hier \cup Scheme
           \cup Authority("rel") \cup Dotted("rel") \cup IpEnd("rel") \cup Port("rel") \cup RegName("rel")
           \cup Colon("rel") \cup User("rel") \cup Host("rel") \cup HostNumeric("rel") \cup AuthNumeric("rel")
RelIpRows == Bracket("rel") \cup Future("rel") \cup Groups("rel") \cup LastBits("rel") \cup LastGroup("rel")
             \cup Numbers("rel") \cup DoubleColon("rel") \cup AfterFive("rel") \cup Tail1("rel") \cup TailN("rel")
Table == ByPlace(AbsRows \cup RelRows \cup RelIpRows)

-----------------------------------------------------------------------------
(***************************************************************************)
(* The actions.  mark is a position, or NULL.  A string made from NULL     *)
(* throws logic_error; save_userinfo and save_host test for it first.      *)
(***************************************************************************)
NoUri == [scheme |-> <<>>, user |-> <<>>, host |-> <<>>, port |-> 0, path |-> <<>>,
          query |-> <<>>, fragment |-> <<>>]
NULL == 1000     \* no position: a text is shorter
atoi(text) == FoldLeft(LAMBDA n, c : 10 * n + DigitValue[c], 0, text)

Save(q, part, text) == [q EXCEPT !.uri[part] = SubSeq(text, q.mark + 1, q.n), !.mark = NULL]
SavePort(q, text) == IF q.mark = q.n THEN [q EXCEPT !.mark = NULL]
                     ELSE [q EXCEPT !.uri.port = atoi(SubSeq(text, q.mark + 1, q.n)), !.mark = NULL]
MutSaveHost(q, text) == Save(q, "host", text)     \* mutant: the mark is forgotten
SaveHost(q, text) == IF q.mark = NULL THEN q ELSE [Save(q, "host", text) EXCEPT !.mark = q.mark]
SaveUser(q, text) == IF q.mark = NULL THEN q ELSE Save(q, "user", text)
SavePath(q, text) == IF q.mark = NULL THEN [q EXCEPT !.threw = TRUE] ELSE Save(q, "path", text)

Act(q, a, text) ==
    CASE q.threw -> q
      [] a = "mark" -> [q EXCEPT !.mark = q.n]
      [] a = "port" -> SavePort(q, text)
      [] a = "host" -> SaveHost(q, text)
      [] a = "path" -> SavePath(q, text)
      [] a = "user" -> SaveUser(q, text)
      [] a \in {"scheme", "query", "fragment"} -> Save(q, a, text)
Acts(q, acts, text) == FoldLeft(LAMBDA r, a : Act(r, a, text), q, acts)

Step(q, next) == IF next = {} THEN [q EXCEPT !.cs = S("rel", "error")] ELSE CHOOSE p \in next : TRUE
Feed(rows, q, c, text) ==
    IF q.cs = S("rel", "error") THEN q
    ELSE Step(q, {[Acts(q, r.do, text) EXCEPT !.cs = r.to, !.n = @ + 1] :
                    r \in {row \in Leaving(rows, q.cs) : c \in row.on}})

(* What is done at the end of the text, for each state that may be last    *)
AtEnd(rows, s) == CASE s = S("rel", "frag0") -> {<<"mark", "fragment">>}
              [] s = S("rel", "frag") -> {<<"fragment">>}
              [] OTHER -> {r.do : r \in {t \in Leaving(rows, s) : "#" \in t.on}}

(* Uri::Create: the parts, or "null", or "threw"; rows is the machine      *)
Made(ends) == IF ends = {} THEN [is |-> "null", uri |-> NoUri]
              ELSE LET end == CHOOSE p \in ends : TRUE
                   IN  [is |-> IF end.threw THEN "threw" ELSE "uri", uri |-> end.uri]
Finish(rows, q, text) == Made({Acts(q, acts, text) : acts \in AtEnd(rows, q.cs)})
Create(rows, text) ==
    LET init == [cs |-> S("rel", "start"), n |-> 0, mark |-> NULL, threw |-> FALSE, uri |-> NoUri]
        run[i \in 0..Len(text)] == IF i = 0 THEN init ELSE Feed(rows, run[i - 1], text[i], text)
    IN  Finish(rows, run[Len(text)], text)

SchemePort(scheme) == CASE scheme \in {<<"http">>, <<"ws">>} -> 80
                        [] scheme \in {<<"https">>, <<"wss">>} -> 443 [] OTHER -> 0
isDefaultPort(uri) == uri.port = 0 \/ (SchemePort(uri.scheme) # 0 /\ uri.port = SchemePort(uri.scheme))
getPort(uri) == IF uri.port # 0 THEN uri.port ELSE SchemePort(uri.scheme)
getPath(uri) == IF uri.path = <<>> THEN <<"/">> ELSE uri.path

(* Uri::dump                                                               *)
PortText(n) == CHOOSE t \in {<<d>> : d \in Digit} \cup {<<d, e>> : d, e \in Digit} : atoi(t) = n /\ t[1] # "0"
After(sep, text) == IF text = <<>> THEN <<>> ELSE <<sep>> \o text
Dump(uri) == uri.scheme \o <<":", "/", "/">> \o (IF uri.user = <<>> THEN <<>> ELSE uri.user \o <<"@">>)
             \o uri.host \o (IF isDefaultPort(uri) THEN <<>> ELSE <<":">> \o PortText(uri.port))
             \o getPath(uri) \o After("?", uri.query) \o After("#", uri.fragment)
=============================================================================
