------------------------------ MODULE MCClient ------------------------------
EXTENDS HttpClient

Get == {<<"G", "E", "T">>}
Alike == Permutations(Callers)
Vhost == <<"g">>
TagBytes == <<"a", "b", "c">>

(* URLs from their parts, and texts that are no URL                        *)
UrlText(p, port) == p.scheme \o <<":", "/", "/">> \o (IF p.user = <<>> THEN <<>> ELSE p.user \o <<"@">>) \o p.host
                    \o port \o p.path \o U!After("?", p.query) \o U!After("#", p.fragment)
Schemes == {<<"http">>, <<"wss">>, <<"g">>}
Users == {<<>>, <<"a", ":", "g">>}
DigitUsers == {<<"a", ":", "1">>, <<"1", "5", ":", "1", "g">>, <<"g", ":", "a", ":", "1">>}
Hosts == {<<"a", ".", "g">>, <<"1", ".", "2", "5", "0", ".", "0", ".", "1", "2">>, <<"[", "v", "1", ".", "a", "]">>}
Ports == {<<>>, <<"6", "0">>, <<"5">>}
Paths == {<<>>, <<"/", "a", "%", "1", "A", "/", "g">>}
(* Every authority, and everything that may follow each host               *)
Parts == [scheme : Schemes, user : Users, host : Hosts, port : Ports, path : Paths, query : {<<>>}, fragment : {<<>>}]
         \cup [scheme : {<<"http">>}, user : {<<>>}, host : Hosts, port : {<<>>, <<"5">>}, path : Paths,
               query : {<<>>, <<"g", "?", "/">>}, fragment : {<<>>, <<"v">>}]
         \cup [scheme : {<<"http">>}, user : DigitUsers, host : Hosts, port : Ports, path : Paths,
               query : {<<>>, <<"g">>}, fragment : {<<>>}]
Good == {[text |-> UrlText(p, U!After(":", p.port)), is |-> "uri", parts |-> [p EXCEPT !.port = U!atoi(@)]] : p \in Parts}
(* "a:" is a host and a port: port = digit* in the grammar                 *)
EmptyPorts == {[text |-> UrlText(p, <<":">>), is |-> "empty port", parts |-> [p EXCEPT !.port = 0]] :
                  p \in {q \in Parts : q.port = <<>> /\ q.scheme = <<"http">> /\ q.host = <<"a", ".", "g">>}}
Wrong == {[text |-> t, is |-> "INVALID_URL", parts |-> U!NoUri] : t \in
    {<<"http", ":", "/", "/", "[", "1", "]">>, <<"1", ":", "/">>, <<"/", "%", "g">>, <<"http", ":", "/", "/", "a", ":", "g">>}}
AllUrls == Good \cup EmptyPorts \cup Wrong
Wanted == [U!NoUri EXCEPT !.path = <<"/", "a">>, !.query = <<"g", "1">>, !.fragment = <<"v">>]
Hdrs == {Q!NoHeaders, (<<"host">> :> <<"v">>), (<<"connection">> :> <<"keep-alive">>)}

(* The answers: one HttpResponse::dump writes, and a chunked one           *)
Rsp(tag) == [R!HttpResponse EXCEPT !.reason = <<"o", "k">>, !.body = <<tag, tag>>]
Size(t) == R!Piece("size", t \o <<"CR", "LF">>)
Chunked(tag) == R!HeadPieces(Rsp(tag))
    \o R!HeaderPieces(R!TransferText, <<"c", "h", "u", "n", "k", "e", "d">>)
    \o <<R!Piece("eol", <<"CR", "LF">>), Size(<<"1", ";", "x">>), R!Piece("body", <<tag, "CR", "LF">>),
         Size(<<"1">>), R!Piece("body", <<tag, "CR", "LF">>), Size(<<"0">>), R!Piece("eol", <<"CR", "LF">>)>>
Plain(tag) == R!HeadPieces(Rsp(tag)) \o R!BodyPieces(Rsp(tag).body)
Text(pieces, rsp) ==
    LET Flat(k) == FlattenSeq([i \in 1..k |-> pieces[i].text])
    IN  [pieces |-> pieces, from |-> [k \in DOMAIN pieces |-> Len(Flat(k - 1))], bytes |-> Flat(Len(pieces)), rsp |-> rsp]
Answers == [plain |-> [t \in Range(TagBytes) |-> Text(Plain(t), Rsp(t))],
            chunked |-> [t \in Range(TagBytes) |-> Text(Chunked(t), Rsp(t))]]
AnswerOf(kind, tag) == Answers[kind][tag]
=============================================================================
