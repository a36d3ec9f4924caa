------------------------------ MODULE MCServer ------------------------------
EXTENDS HttpServer

Get == {<<"G", "E", "T">>, <<"P", "T">>}
TextOf(pieces, req, dumped) ==
    LET Flat(k) == FlattenSeq([i \in 1..k |-> pieces[i].text])
    IN  [pieces |-> pieces, from |-> [k \in DOMAIN pieces |-> Len(Flat(k - 1))],
         bytes |-> Flat(Len(pieces)), req |-> req, dumped |-> dumped]
Dumped(req) == TextOf(Pieces(req), req, TRUE)
Raw(line, rest) == TextOf(<<Piece("line", <<>>, line), Piece("rest", <<>>, rest)>>, HttpRequest, FALSE)
Ver == <<"SP", "H", "T", "T", "P", "/", "1", ".", "0", "LF">>
Req(target) == Raw(<<"G", "E", "T", "SP">> \o target \o Ver, <<"LF">>)

Plain == Dumped([HttpRequest EXCEPT !.close = FALSE, !.path = <<"/", "a">>])
Full == Dumped([HttpRequest EXCEPT !.method = <<"P", "T">>, !.version = "0",
                !.query = <<"g", "1">>, !.fragment = <<"v">>, !.close = FALSE,
                !.headers = (<<"g", "v">> :> <<"a", "SP", "1">>), !.body = <<"1", "g">>])
Bad == Raw(<<"G", "T", "SP", "/">> \o Ver, <<"LF">>)

(* Targets and messages no dump writes                                     *)
Numeric == Req(<<"/", "/", "1", "@", "[", "1", ":", ":", "b4", "a", ":", "2", "5", "0", ".", "1", "3", ".", "0",
                 ".", "2", "]", ":", "5", "/", "g", "%", "A", "1">>)
Absolute == Req(<<"g", "+", ":", "/", "/", "a", ":", "1", "@", "a", ":", "5", "?", "#", "?">>)
Brace == Req(<<"/", "{">>)
Json == Raw(<<"@", "/", "a", "SP">>, <<"{", "a", "}", "}", "NUL">>)
Xml1 == Raw(<<"<", "a", "SP">>, <<"g", ">", "a", ">", "NUL">>)

Requests == [plain |-> Plain, full |-> Full, bad |-> Bad, numeric |-> Numeric,
             absolute |-> Absolute, brace |-> Brace, json |-> Json, xml |-> Xml1]
Answered == {"plain"}
OneUri == {<<"/", "a">>}
Patterns == {<<"/", "*">>, <<"/", "a", "*">>}
Fnmatch(glob, path) == IsPrefix(SubSeq(glob, 1, Len(glob) - 1), path)
=============================================================================
