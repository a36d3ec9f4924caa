------------------------------ MODULE IpLiteral ------------------------------
(***************************************************************************)
(* The bracketed host of a URI as the generated state machines read it.    *)
(* A machine is a set of rows: in state `at', on one of the symbols `on',  *)
(* go to `to' and run the actions `do'.  A state is <<m, x, k, d>>: the    *)
(* copy m of the grammar, the place x in it and two counters.  A symbol is *)
(* a byte, or stands for a class of bytes no row tells apart.              *)
(***************************************************************************)
EXTENDS Naturals, Sequences, FiniteSets

Row(s, C, t, do) == [at |-> s, on |-> C, to |-> t, do |-> do]
S(m, x) == <<m, x, 0, 0>>
Go(m, x, C, y) == Row(S(m, x), C, S(m, y), <<>>)

(* The rows by the place they leave, and those that leave s                *)
ByPlace(rows) == [s \in {r.at : r \in rows} |-> {r \in rows : r.at = s}]
Leaving(table, s) == IF s \in DOMAIN table THEN table[s] ELSE {}

Digit == {"0", "1", "2", "3", "5", "6"}
(* "3" stands for 3 and 4, "6" for 6 to 9, of which it counts as 8         *)
DigitValue == [c \in Digit |-> CASE c = "0" -> 0 [] c = "1" -> 1 [] c = "2" -> 2 [] c = "3" -> 3
                                [] c = "5" -> 5 [] c = "6" -> 8]
HexAlpha == {"A", "E", "a"}
Hex == Digit \cup HexAlpha
Words == {"connection", "content-length", "keep-alive", "close", "host", "http", "https", "ws", "wss"}
Upper == {"A", "E", "G", "H", "P", "T"}
Alpha == Upper \cup {"a", "g", "v"} \cup Words
Sub == {"!", "(", "+", "wide"}
Seg == Alpha \cup Digit \cup Sub \cup {"-", "."}
NoColon == Seg \cup {"@"}
Pchar == NoColon \cup {":", "hi"}

(* "%" xdigit xdigit inside the place x                                    *)
Pct(m, x) == {Row(S(m, x), {"%"}, <<m, x, 1, 0>>, <<>>),
              Row(<<m, x, 1, 0>>, Hex, <<m, x, 2, 0>>, <<>>),
              Row(<<m, x, 2, 0>>, Hex, S(m, x), <<>>)}

(***************************************************************************)
(* A group of hexadecimal digits that may turn out to be the first number  *)
(* of a dotted address.  d counts its digits; k is 0 once it can only be   *)
(* hexadecimal, 1 when a decimal number is complete, 2 after "1", 3 after  *)
(* "1" and a digit, 4 after "2", 5 after "20", 6 after "25".               *)
(***************************************************************************)
QuadStart(m, s, x) ==
    {Row(s, {"0", "3", "5", "6"}, <<m, x, 1, 1>>, <<>>), Row(s, {"1"}, <<m, x, 2, 1>>, <<>>),
     Row(s, {"2"}, <<m, x, 4, 1>>, <<>>), Row(s, HexAlpha, <<m, x, 0, 1>>, <<>>)}

QuadHex(m, x) == {Row(<<m, x, 0, d>>, Hex, <<m, x, 0, d + 1>>, <<>>) : d \in 1..3}

QuadDecimal(m, x) ==
    LET To(k, d, C, j) == Row(<<m, x, k, d>>, C, <<m, x, j, d + 1>>, <<>>)
    IN  {To(1, 1, Hex, 0), To(1, 3, Hex, 0),
         To(2, 1, Digit, 3), To(2, 1, HexAlpha, 0),
         To(3, 2, Digit, 1), To(3, 2, HexAlpha, 0),
         To(4, 1, {"0"}, 5), To(4, 1, {"5"}, 6), To(4, 1, Hex \ {"0", "5"}, 0),
         To(5, 2, Digit, 1), To(5, 2, HexAlpha, 0),
         To(6, 2, {"0"}, 1), To(6, 2, Hex \ {"0"}, 0)}

QuadStates(m, x) == {<<m, x, 0, d>> : d \in 1..4} \cup
    {<<m, x, 1, 1>>, <<m, x, 1, 3>>, <<m, x, 2, 1>>, <<m, x, 3, 2>>,
     <<m, x, 4, 1>>, <<m, x, 5, 2>>, <<m, x, 6, 2>>}

(* After the group: ":" to the next place, "." to the rest of a dotted     *)
(* address, and "]" where the address may stop here.                       *)
QuadEnd(m, x, next, stops) ==
    {Row(s, {":"}, next, <<>>) : s \in QuadStates(m, x)}
    \cup {Row(s, {"."}, <<m, "oct", 2, 0>>, <<>>) :
            s \in {q \in QuadStates(m, x) : q[3] \in 1..4}}
    \cup (IF stops THEN {Row(s, {"]"}, S(m, "ipEnd"), <<>>) : s \in QuadStates(m, x)}
                   ELSE {})

(* The second to fourth number of a dotted address                         *)
Octets(m) ==
    LET To(j, k, C, i) == Row(<<m, "oct", j, k>>, C, <<m, "oct", j, i>>, <<>>)
        Digits(j) == {To(j, 0, {"0", "3", "5", "6"}, 1), To(j, 0, {"1"}, 2), To(j, 0, {"2"}, 4),
                      To(j, 2, Digit, 3), To(j, 3, Digit, 1), To(j, 4, {"0"}, 5),
                      To(j, 4, {"5"}, 6), To(j, 5, Digit, 1), To(j, 6, {"0"}, 1)}
    IN  UNION {Digits(j) : j \in 2..4}
        \cup {Row(<<m, "oct", j, k>>, {"."}, <<m, "oct", j + 1, 0>>, <<>>) :
                j \in 2..3, k \in 1..4}
        \cup {Row(<<m, "oct", 4, k>>, {"]"}, S(m, "ipEnd"), <<>>) : k \in 1..4}

(* The last group, after the ":" of the last 32 bits                       *)
LastGroup(m) ==
    {Row(S(m, "last"), Hex, <<m, "last", 0, 1>>, <<>>)}
    \cup {Row(<<m, "last", 0, d>>, Hex, <<m, "last", 0, d + 1>>, <<>>) : d \in 1..3}
    \cup {Row(<<m, "last", 0, d>>, {"]"}, S(m, "ipEnd"), <<>>) : d \in 1..4}

(* "v" xdigit+ "." and the rest of an address of a future version          *)
Future(m) ==
    LET F(k) == <<m, "v", k, 0>>
    IN  {Row(S(m, "ip"), {"v"}, F(1), <<>>), Row(F(1), Hex, F(2), <<>>),
         Row(F(2), Hex, F(2), <<>>), Row(F(2), {"."}, F(3), <<>>),
         Row(F(3), Seg \cup {":"}, F(4), <<>>), Row(F(4), Seg \cup {":"}, F(4), <<>>),
         Row(F(4), {"]"}, S(m, "ipEnd"), <<>>)}
=============================================================================
