------------------------------- MODULE MCHTTP -------------------------------
(* Short requests, small buffers and few goroutines for HTTP.              *)
EXTENDS HTTP

A == <<97>>
B == <<98>>
X == <<120>>
Y == <<121>>
GET == 311
POST == 312

\* Patterns and paths over two literals.
Lit(t) == [kind |-> "lit", text |-> t]
One(t) == [kind |-> "one", text |-> t]
Rest(t) == [kind |-> "rest", text |-> t]
End == [kind |-> "end", text |-> <<>>]
Slash == Lit(<<>>)
MCPaths == UNION {[1 .. n -> {A, B, <<>>}] : n \in 1 .. 3}

Root(p) == Register(<<>>, MethUndefined, <<Slash>>, p)

RECURSIVE All(_, _, _)
All(handlers, pats, p) ==
    IF pats = <<>> THEN handlers ELSE All(Register(handlers, pats[1][1], pats[1][2], p), Tail(pats), p)

Cfg(n, req, resp, mux) ==
    [goros |-> n, reqBuf |-> req, respBuf |-> resp, kvs |-> 6, mux |-> mux, pathVals |-> 0]
Configures(cfg) == [op |-> "Configure", cfg |-> cfg]
Shuts == [op |-> "Shutdown", cfg |-> Cfg(0, 0, 0, 0)]

Asks(method, target) == <<<<"method", <<method>>>>, <<"target", target>>, <<"proto", <<HTTP11>>>>>>

Req(ops, body) ==
    [ops |-> ops, cap |-> 80, kvs |-> 6, grows |-> FALSE, body |-> body, cuts |-> "whole", eager |-> {FALSE},
     rooms |-> {99}, pairs |-> <<>>, cookies |-> <<>>, parts |-> <<>>]

One1(req, mux, reqBuf, respBuf) ==
    [reqs |-> <<req>>, muxes |-> <<mux>>, calls |-> <<Configures(Cfg(1, reqBuf, respBuf, 1))>>]

Says(body) == <<<<"write", body>>>>

\* Fields are set, set again to more and to less, added twice, and read back from every two cuts.
Fields ==
    One1([Req(Asks(POST, <<47, 97>>)
              \o <<<<"set", <<ContentType>>, <<97, 98>>>>, <<"set", <<400>>, <<97>>>>,
                   <<"set", <<ContentType>>, <<97, 98, 99>>>>, <<"add", <<401>>, B>>, <<"add", <<401>>, A>>,
                   <<"setInt", <<ContentType>>, 7>>, <<"target", <<47>>>>, <<"set", <<401>>, <<98, 97>>>>>>, <<1, 2>>)
          EXCEPT !.cuts = "twice"], Root(<<<<"read", 1>>, <<"read", 4>>>> \o Says(A)), 60, 14)

\* A value folded over two lines, bare line feeds, and the ways a header is not one.
Raw(bytes) == [Req(<<>>, bytes) EXCEPT !.cuts = "once", !.eager = {FALSE, TRUE}]
FirstLine == <<GET, SP, 47, SP, HTTP11, CR, LF>>
Odd(bytes) == [One1(Raw(bytes), Root(Says(A)), 20, 14) EXCEPT !.calls[1].cfg.kvs = 3]
Odds ==
    {Odd(<<LF>> \o FirstLine \o <<400, 58, SP, 97, CR, LF, SP, 98, LF, 401, 58, LF, LF>>),
     Odd(<<SP, 47, 97, SP, HTTP11, CR, LF, CR, LF>>),
     Odd(FirstLine \o <<400, SP, 58, 97, CR, LF, CR, LF>>),
     Odd(FirstLine \o <<400, CR, LF, CR, LF>>),
     Odd(<<GET, SP, 47, 97, 97, CR, LF, CR, LF>>),
     Odd(<<GET, SP, 47, SP, HTTP2, CR, LF, CR, LF>>),
     Odd(<<GET, SP, SP, 97, SP, HTTP10, CR, LF, CR, LF>>),
     Odd(<<GET, SP, 97, SP, HTTP10, CR, LF, CR, LF>>),
     Odd(FirstLine \o <<400, 58, 97, 97, 97, 97, 97, 97, 97, 97, 97, 97, 97, CR, LF, CR, LF>>),
     Odd(FirstLine \o <<1, 58, LF, 2, 58, LF, 3, 58, LF, 4, 58, LF, LF>>),
     Odd(FirstLine \o <<400, 58, 97>>)}

\* A body read in pieces before and after the response header goes out, and one handed over.
Bodies ==
    {One1([Req(Asks(POST, <<47>>), <<1, 2, 3, 4, 5, 6>>) EXCEPT !.cuts = "twice", !.eager = {FALSE, TRUE}],
          Root(p), 24, 14) :
        p \in {<<<<"read", 2>>, <<"read", 2>>, <<"read", 4>>, <<"read", 4>>>> \o Says(A),
               <<<<"read", 3>>, <<"stage", <<400>>, A>>, <<"read", 1>>, <<"header", 204>>, <<"read", 9>>, <<"read", 9>>>>,
               <<<<"read", 1>>, <<"hijack">>>>,
               <<<<"header", 200>>, <<"read", 2>>, <<"hijack">>>>}}

\* The response fails after each of its bytes, or a field does not fit.
Responses ==
    {One1([Req(Asks(GET, <<47>>), <<>>) EXCEPT !.rooms = 0 .. 34], Root(p), 12, 14) :
        p \in {<<<<"status", 404>>, <<"stage", <<400>>, A>>, <<"status", 201>>, <<"write", A>>, <<"write", <<98, 99>>>>>>,
               <<<<"respond", 200, A, <<97, 98>>>>>>,
               <<<<"stage", <<400>>, <<1, 2, 3, 4, 5, 6, 7>>>>, <<"stage", <<401>>, <<1, 2, 3, 4>>>>, <<"write", A>>>>,
               <<<<"stage", <<400>>, <<1, 2, 3, 4, 5, 6, 7>>>>, <<"header", 404>>, <<"write", A>>>>,
               <<<<"status", 1000>>, <<"header", 204>>, <<"stage", <<400>>, A>>, <<"header", 500>>, <<"write", B>>>>,
               <<>>}}

\* Pairs with a blank, an escape, no value and no key, in the query and in the body.
FormType == <<"set", <<ContentType>>, <<WordFormEncoded, 59, SP, 98>>>>
Query == Asks(POST, <<47, 63, 97, 61, 43, 38, 38, 98>>) \o <<FormType>>
Asked(n) == Query \o <<<<"setInt", <<ContentLength>>, n>>>>
InQuery == <<<<A, <<32>>>>, <<B, <<>>>>>>
InBody == <<<<<<97, 38>>, <<98>>>>, <<<<>>, A>>>>
Body8 == <<97, 37, 50, 54, 61, 98, 38, 61, 97>>
Forms ==
    {One1([Req(Asked(9), Body8 \o <<5, 5>>) EXCEPT !.cuts = "once", !.pairs = IF first THEN InQuery \o InBody ELSE InBody \o InQuery],
          Root(<<<<"form", room, 4, first>>>> \o Says(A)), 48, 14) : first \in BOOLEAN, room \in {0, 17}}
    \union {One1([Req(Asked(9), Body8) EXCEPT !.cuts = "whole", !.pairs = InQuery],
          Root(<<<<"query", A>>, <<"query", B>>, <<"query", X>>, <<"form", 9, 4, TRUE>>, <<"stage", <<400>>, A>>>>), 48, 14)}
    \union {One1([Req(Query \o <<<<"set", <<ContentLength>>, length>>>>, Body8)
                  EXCEPT !.pairs = IF length[1] = 43 THEN InQuery \o InBody ELSE InQuery],
                 Root(<<<<"form", 0, 4, TRUE>>>> \o Says(A)), 48, 14) : length \in {<<43, 57>>, <<45, 48>>, <<45, 57>>}}

\* Cookies with blanks and quotes.
Cookies ==
    One1([Req(Asks(GET, <<47>>) \o <<<<"set", <<1000 + CookieField>>, <<97, 61, 34, 98, 34, 59, SP, 98, 61, 59, 99, SP>>>>>>, <<>>)
          EXCEPT !.cookies = <<<<TRUE, A, B>>, <<TRUE, B, <<>>>>, <<TRUE, <<>>, <<99>>>>>>],
         Root(<<<<"cookie">>>> \o Says(A)), 40, 14)

\* A body of two parts, one of them with the start of a delimiter in it, read into buffers of three sizes.
Mark == <<45, 45, 77, 78>>
PartHeader(params) == <<CR, LF, Disposition, 58, 360, 59>> \o params \o <<CR, LF, CR, LF>>
Multipart ==
    Mark \o PartHeader(<<WordName, 61, 34, 97, 34>>) \o <<1, CR, LF, 45, 45, 77, 2, CR, LF>>
    \o Mark \o PartHeader(<<WordName, 61, 34, 98, 34, 59, SP, WordFilename, 61, 34, 99, 34>>) \o <<CR, LF>>
    \o Mark \o <<45, 45, CR, LF>>
PartsType == <<"set", <<ContentType>>, <<WordMultipart, 59, SP, WordBoundary, 61, 77, 78>>>>
TwoParts ==
    <<[name |-> A, filename |-> <<>>, sink |-> <<1, CR, LF, 45, 45, 77, 2>>, closed |-> TRUE],
      [name |-> B, filename |-> <<99>>, sink |-> <<>>, closed |-> TRUE]>>
Multiparts ==
    {One1([Req(Asks(POST, <<47>>) \o <<PartsType>>, SubSeq(Multipart, 1, len))
           EXCEPT !.cap = 99, !.cuts = "threes", !.parts = TwoParts],
          Root(<<<<"parts", room>>>> \o Says(A)), 30, 14) : room \in {14, 24, 28, 90}, len \in {40, Len(Multipart)}}

\* Which of several patterns serves, for every path of two segments and two methods.
Patterns ==
    {<<<<0, <<One(X)>>>>, <<0, <<Lit(A), Slash>>>>, <<0, <<One(X), One(Y)>>>>, <<GET, <<Lit(A), One(Y)>>>>, <<0, <<Slash>>>>>>,
     <<<<0, <<Lit(A), Rest(X)>>>>, <<0, <<One(Y), Lit(B)>>>>, <<0, <<One(X), Slash>>>>, <<0, <<One(X), End>>>>>>,
     <<<<POST, <<Lit(A), Lit(B)>>>>, <<0, <<One(X), One(Y)>>>>, <<0, <<One(Y), Lit(B)>>>>, <<0, <<Lit(B)>>>>, <<0, <<Rest(<<>>)>>>>>>,
     <<<<0, <<One(X), One(Y)>>>>, <<0, <<One(Y), Lit(B)>>>>, <<POST, <<Lit(A), Lit(B)>>>>>>,
     <<<<0, <<End>>>>, <<0, <<Rest(X)>>>>, <<0, <<One(Y), Lit(A), Slash>>>>, <<0, <<One(X), Slash>>>>, <<GET, <<Rest(X)>>>>>>}
Routes ==
    {One1(Req(Asks(m, <<47>> \o text(path)), <<>>), All(<<>>, pats, Says(A)), 20, 14) :
        m \in {GET, POST, 398}, path \in UNION {[1 .. n -> {A, B, <<>>}] : n \in 1 .. 2} \union {<<A, B, A>>, <<B, A, B>>},
        pats \in Patterns}

\* Connections come while the router is set up, set up again and shut down.
Tiny == Req(Asks(GET, <<47>>), <<>>)
Two == <<Root(<<<<"stage", <<400>>, A>>>>), Root(Says(B))>>
Resetup ==
    [reqs |-> <<Tiny, Tiny>>, muxes |-> Two,
     calls |-> <<Configures(Cfg(2, 12, 14, 1)), Configures(Cfg(1, 16, 14, 2)), Shuts>>]
Unbound ==
    [reqs |-> <<Tiny, Tiny, Tiny>>, muxes |-> Two,
     calls |-> <<Configures(Cfg(-1, 12, 14, 1)), Configures(Cfg(1, 12, 14, 2)), Configures(Cfg(-1, 14, 14, 2))>>]
Reuses ==
    [reqs |-> <<Tiny, Tiny, Tiny>>, muxes |-> Two, calls |-> <<Configures(Cfg(2, 12, 14, 1)), Shuts>>]
Refuses ==
    [reqs |-> <<Tiny, Tiny>>, muxes |-> Two \o <<<<>>>>,
     calls |-> <<Configures(Cfg(1, 12, 14, 1)), Configures(Cfg(0, 14, 14, 2)), Configures(Cfg(2, 16, 14, 3)),
                 Configures(Cfg(2, 18, 14, 2)), Shuts>>]
RefusesUnbound ==
    [reqs |-> <<Tiny, Tiny, Tiny>>, muxes |-> Two \o <<<<>>>>,
     calls |-> <<Configures(Cfg(-1, 12, 14, 1)), Configures(Cfg(-1, 16, 14, 3)), Configures(Cfg(-1, 18, 14, 2))>>]

\* A handler keeps its handle, and a later one uses it; a third request may get the exchange in between.
To(segment) == Req(Asks(GET, <<47>> \o segment), <<>>)
Keeps ==
    [reqs |-> <<Tiny, To(A), To(B)>>,
     muxes |-> <<All(All(Root(<<<<"keep">>>> \o Says(A)), <<<<0, <<Lit(A)>>>>>>, <<<<"write", B>>, <<"stale", X>>, <<"write", B>>>>),
                     <<<<0, <<Lit(B)>>>>>>, Says(Y))>>,
     calls |-> <<Configures(Cfg(2, 12, 14, 1))>>]

Used ==
    {Fields, Cookies, Resetup, Unbound, Reuses, Refuses, RefusesUnbound, Keeps} \union Odds \union Bodies \union Responses \union Forms
    \union Multiparts \union Routes
=============================================================================
