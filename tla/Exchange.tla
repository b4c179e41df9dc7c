------------------------------- MODULE Exchange -------------------------------
(***************************************************************************)
(* httphi.MuxSlice (http/httphi/mux.go): which registration serves a       *)
(* request, and what the wildcards of its pattern are bound to.            *)
(*                                                                         *)
(* A pattern and a path are the sequences of their segments, what lies     *)
(* between the slashes.  A segment of a pattern is a literal ("lit"), one  *)
(* wildcard ("one"), a wildcard for the rest ("rest") or {$} ("end"), with *)
(* the literal or the name; a pattern that ends in a slash ends in the     *)
(* empty literal.                                                          *)
(***************************************************************************)
EXTENDS Integers, Sequences, HTTPRaw

\* A bare path is registered for any method, and every method without a name of its own is one.
MethUndefined == 0
MethUnknown == 399
Named == {311, 312}
MethodFrom(meth) ==
    IF meth = <<>> THEN MethUndefined ELSE IF meth[1] \in Named /\ Len(meth) = 1 THEN meth[1] ELSE MethUnknown

NoValue == [key |-> <<>>, value |-> <<>>]

\* The text of the segments of a path, with its slashes.
RECURSIVE text(_)
text(segs) == IF Len(segs) = 1 THEN segs[1] ELSE segs[1] \o <<47>> \o text(Tail(segs))

Bound(matched, short, vals) == [matched |-> matched, short |-> short, vals |-> vals]

\* setPathValues, with room for room values.
RECURSIVE setPathValues(_, _, _, _)
setPathValues(pat, req, vals, room) ==
    LET seg  == pat[1]
        more == Len(pat) > 1
        bind(v) == Append(vals, [key |-> seg.text, value |-> v])
        walk(vs) == IF more # (Len(req) > 1) THEN Bound(FALSE, FALSE, vs)
                    ELSE IF ~more THEN Bound(TRUE, FALSE, vs)
                    ELSE setPathValues(Tail(pat), Tail(req), vs, room)
    IN  IF ~more /\ seg.kind = "lit" /\ seg.text = <<>> THEN Bound(TRUE, FALSE, vals)
        ELSE CASE seg.kind = "end" -> Bound(~more /\ req = <<<<>>>>, FALSE, vals)
               [] seg.kind = "rest" -> IF seg.text = <<>> THEN Bound(TRUE, FALSE, vals)
                                       ELSE IF Len(vals) >= room THEN Bound(FALSE, TRUE, vals)
                                       ELSE Bound(TRUE, FALSE, bind(text(req)))
               [] seg.kind = "one" -> IF req[1] = <<>> THEN Bound(FALSE, FALSE, vals)
                                      ELSE IF Len(vals) >= room THEN Bound(FALSE, TRUE, vals)
                                      ELSE walk(bind(req[1]))
               [] OTHER -> IF req[1] # seg.text THEN Bound(FALSE, FALSE, vals) ELSE walk(vals)

\* SetPathValues writes over the first values of dst, and clears them again when the pattern does not match.
SetPathValues(dst, pat, req) ==
    LET r == setPathValues(pat, req, <<>>, Len(dst))
    IN  [matched |-> r.matched,
         dst |-> [i \in DOMAIN dst |-> IF i > Len(r.vals) THEN dst[i] ELSE IF r.matched THEN r.vals[i] ELSE NoValue]]

isWildcardPattern(pat) == (\E i \in DOMAIN pat : pat[i].kind # "lit") \/ pat[Len(pat)].text = <<>>

literal(pat) == [i \in DOMAIN pat |-> pat[i].text]

\* Mutant: a literal segment pins no harder than a wildcard.
RECURSIVE patternSpecificityMutant(_)
patternSpecificityMutant(pat) ==
    LET seg  == pat[1]
        more == Len(pat) > 1
    IN  IF ~more /\ seg.kind = "lit" /\ seg.text = <<>> THEN 0
        ELSE IF seg.kind = "end" THEN 1
        ELSE IF seg.kind = "rest" THEN 0
        ELSE 1 + (IF more THEN patternSpecificityMutant(Tail(pat)) ELSE 1)

RECURSIVE patternSpecificity(_)
patternSpecificity(pat) ==
    LET seg  == pat[1]
        more == Len(pat) > 1
    IN  IF ~more /\ seg.kind = "lit" /\ seg.text = <<>> THEN 0
        ELSE IF seg.kind = "end" THEN 1
        ELSE IF seg.kind = "rest" THEN 0
        ELSE (IF seg.kind = "one" THEN 1 ELSE 2) + (IF more THEN patternSpecificity(Tail(pat)) ELSE 1)

named(seg) == seg.kind \in {"one", "rest"} /\ seg.text # <<>>
countPathValues(pat) == Len(SelectSeq(pat, named))

\* Handle, for a method and pattern not registered yet: a second registration panics.
Register(handlers, method, pat, prog) ==
    Append(handlers, [method |-> method, pat |-> pat, prog |-> prog,
                      spec |-> patternSpecificity(pat), pathVals |-> countPathValues(pat)])

\* -1 when nothing is registered.
MaxPathValues(handlers) ==
    IF handlers = <<>> THEN -1
    ELSE CHOOSE n \in {handlers[i].pathVals : i \in DOMAIN handlers} : \A i \in DOMAIN handlers : handlers[i].pathVals <= n

\* The scan of LookupHandler from registration i on; dst is scratch.
RECURSIVE scan(_, _, _, _, _, _)
scan(handlers, i, method, path, best, dst) ==
    LET e     == handlers[i]
        tried == SetPathValues(dst, e.pat, path)
        wild  == isWildcardPattern(e.pat)
        ok    == IF wild THEN tried.matched ELSE path = literal(e.pat)
    IN  IF i > Len(handlers) THEN [best |-> best, dst |-> dst]
        ELSE IF \/ e.method # MethUndefined /\ e.method # method
                \/ best # 0 /\ e.spec <= handlers[best].spec THEN scan(handlers, i + 1, method, path, best, dst)
        ELSE scan(handlers, i + 1, method, path, IF ok THEN i ELSE best, IF wild THEN tried.dst ELSE dst)

\* LookupHandler: 0 or the index of the winner, and the values; a pattern with wildcards is bound once more.
LookupHandler(handlers, method, path, dst) ==
    LET s   == scan(handlers, 1, method, path, 0, dst)
        pat == handlers[s.best].pat
    IN  IF s.best = 0 \/ ~isWildcardPattern(pat) THEN s
        ELSE [best |-> s.best, dst |-> SetPathValues([i \in DOMAIN dst |-> NoValue], pat, path).dst]

-----------------------------------------------------------------------------
(***************************************************************************)
(* httphi.Exchange and httphi.Handle (http/httphi/exchange.go, mux.go):    *)
(* one request and its response on one connection.  The buffer rawbuf      *)
(* holds the request header, what arrived after it and, written over that, *)
(* the fields of the response.                                             *)
(*                                                                         *)
(* An operation takes the exchange x and the connection c and gives both   *)
(* back.  A connection is the pieces its reads will give, whether the last *)
(* comes with the end, and how many bytes can be written before it fails.  *)
(***************************************************************************)

WordFormEncoded == 341
WordMultipart == 342
TransferEncoding == 326
StatusText == 361

Did(x, c, n, err) == [x |-> x, c |-> c, n |-> n, err |-> err]

least(a, b) == IF a < b THEN a ELSE b

\* conn.Read into n bytes.
connRead(c, n) ==
    LET take == least(n, Len(c.chunks[1]))
        left == SubSeq(c.chunks[1], take + 1, Len(c.chunks[1]))
        rest == IF left = <<>> THEN Tail(c.chunks) ELSE <<left>> \o Tail(c.chunks)
    IN  IF c.chunks = <<>> THEN [c |-> c, b |-> <<>>, err |-> "EOF"]
        ELSE [c |-> [c EXCEPT !.chunks = rest], b |-> SubSeq(c.chunks[1], 1, take),
              err |-> IF rest = <<>> /\ c.eager THEN "EOF" ELSE "nil"]

\* conn.Write.
connWrite(c, b) ==
    LET n == least(c.room, Len(b))
    IN  [c |-> [c EXCEPT !.out = @ \o SubSeq(b, 1, n), !.room = @ - n], n |-> n,
         err |-> IF n < Len(b) THEN "broken" ELSE "nil"]

------------------------------------------------------------------------------
\* Configure: a buffer of size bytes, lim of them for the request header.
ConfigureExchange(x, cfg) ==
    [x EXCEPT !.rawbuf = [i \in 1 .. cfg.reqBuf + cfg.respBuf |-> 0],
              !.hdr = NewHeader(NewKV(cfg.reqBuf, cfg.kvs, FALSE)),
              !.pathValues = [i \in 1 .. cfg.pathVals |-> NoValue]]

NewExchange ==
    [acquired |-> FALSE, gen |-> 0, conn |-> 0, hijacked |-> FALSE, rawbuf |-> <<>>, hdr |-> NewHeader(NewKV(0, 0, FALSE)),
     pathValues |-> <<>>, pattern |-> 0, respErr |-> "nil", headerWritten |-> FALSE, top |-> <<>>,
     respHeaderOff |-> 0, respHeaderLen |-> 0, respRemains |-> 0]

\* Acquire, once the swap of acquired succeeded.
Acquire(x, conn) ==
    [x EXCEPT !.acquired = TRUE, !.gen = @ + 1, !.conn = conn, !.hijacked = FALSE, !.pattern = 0,
              !.respErr = "nil", !.headerWritten = FALSE, !.top = <<>>,
              !.respHeaderOff = 0, !.respHeaderLen = 0, !.respRemains = 0,
              !.pathValues = [i \in DOMAIN @ |-> NoValue],
              !.hdr = HeaderReset(@, <<>>, @.kv.cap, 0)]

Release(x) == [x EXCEPT !.acquired = FALSE, !.gen = @ + 1, !.conn = 0]

\* The header is parsed in place: what is written to rawbuf is written under it.
poke(x, off, b) ==
    LET raw == copyAt(x.rawbuf, off, b)
    IN  [x EXCEPT !.rawbuf = raw, !.hdr.kv.buf = SubSeq(raw, 1, Len(@))]

\* StageHeader: the field and the line break that will end the header must fit.
StageHeader(x, key, value) ==
    LET off  == x.respHeaderOff + x.respHeaderLen
        line == key \o <<58>> \o value \o <<CR, LF>>
    IN  IF Len(line) + 2 > Len(x.rawbuf) - off THEN [x EXCEPT !.respErr = "buffer full"]
        ELSE [poke(x, off, line) EXCEPT !.respHeaderLen = @ + Len(line)]

StageHeaderInt(x, key, n) == StageHeader(x, key, digits(n))

statusLine(code) == <<HTTP11, SP>> \o digits(code) \o <<SP, StatusText, CR, LF>>
StageStatus(x, code) == IF code >= 1000 THEN x ELSE [x EXCEPT !.top = statusLine(code)]

\* FlushHeader: two writes, and the header counts as written before the first.
FlushHeader(x, c) ==
    LET top   == IF x.top = <<>> THEN statusLine(200) ELSE x.top
        w1    == connWrite(c, top)
        end   == x.respHeaderOff + x.respHeaderLen
        ended == poke(x, end, <<CR, LF>>)
        w2    == connWrite(w1.c, SubSeq(ended.rawbuf, x.respHeaderOff + 1, end + 2))
    IN  IF x.respErr # "nil" THEN Did(x, c, 0, x.respErr)
        ELSE IF x.headerWritten THEN Did(x, c, 0, "nil")
        ELSE IF w1.err # "nil"
             THEN Did([x EXCEPT !.headerWritten = TRUE, !.top = top, !.respErr = w1.err], w1.c, w1.n, w1.err)
        ELSE Did([ended EXCEPT !.headerWritten = TRUE, !.top = top, !.respErr = w2.err], w2.c, w1.n + w2.n, w2.err)

WriteHeader(x, c, code) == FlushHeader(StageStatus(x, code), c)

WriteBody(x, c, b) ==
    LET wrote(f, w) == Did([f.x EXCEPT !.respErr = w.err], w.c, w.n, w.err)
        flushed(f) == IF f.err # "nil" \/ b = <<>> THEN Did(f.x, f.c, 0, f.err) ELSE wrote(f, connWrite(f.c, b))
    IN  IF x.respErr # "nil" THEN Did(x, c, 0, x.respErr)
        ELSE flushed(IF x.headerWritten THEN Did(x, c, 0, "nil") ELSE FlushHeader(x, c))

\* Respond, with stageResponse.
Respond(x, c, code, contentType, b) ==
    LET t == IF contentType = <<>> THEN x ELSE StageHeader(x, <<1000 + ContentType>>, contentType)
        l == StageHeaderInt(t, <<1000 + ContentLength>>, Len(b))
        s == StageStatus(StageHeader(l, <<1000 + Connection>>, <<WordClose>>), code)
    IN  WriteBody(s, c, b)

------------------------------------------------------------------------------
\* The bytes that arrived with the header and were not read yet.
remainingSurplusBody(x) ==
    LET to == BufferReceived(x.hdr) IN SubSeq(x.rawbuf, to - x.respRemains + 1, to)

\* Mutant: what is left of the first read is counted from its start.
ReadBodyMutant(x, c, n) ==
    LET b == SubSeq(x.rawbuf, BufferParsed(x.hdr) + 1, BufferParsed(x.hdr) + least(n, x.respRemains))
        r == connRead(c, n)
    IN  IF x.respRemains > 0 THEN [x |-> [x EXCEPT !.respRemains = @ - Len(b)], c |-> c, b |-> b, err |-> "nil"]
        ELSE [x |-> x, c |-> r.c, b |-> r.b, err |-> r.err]

\* ReadBody into n bytes: what arrived with the header first, then the connection.
ReadBody(x, c, n) ==
    LET b == SubSeq(remainingSurplusBody(x), 1, least(n, x.respRemains))
        r == connRead(c, n)
    IN  IF x.respRemains > 0 /\ Body(x.hdr).err # "nil" THEN [x |-> x, c |-> c, b |-> <<>>, err |-> Body(x.hdr).err]
        ELSE IF x.respRemains > 0 THEN [x |-> [x EXCEPT !.respRemains = @ - Len(b)], c |-> c, b |-> b, err |-> "nil"]
        ELSE [x |-> x, c |-> r.c, b |-> r.b, err |-> r.err]

\* HijackRaw: the bytes the handler gets with the connection.
HijackRaw(x) ==
    IF Body(x.hdr).err # "nil" THEN [x |-> x, b |-> <<>>, err |-> Body(x.hdr).err]
    ELSE [x |-> [x EXCEPT !.hijacked = TRUE], b |-> remainingSurplusBody(x), err |-> "nil"]

------------------------------------------------------------------------------
hasField(x, key) == getFoldIdx(x.hdr.kv, key) # 0
RequestHeader(x, key) == GetFold(x.hdr.kv, key)

\* What RequestParseForm does: the form's buffer f with the exchange and the connection.
Read(x, c, f, err) == [x |-> x, c |-> c, f |-> f, err |-> err]

separateForm(f) == IF f.buf = <<>> THEN Ret(f, "nil") ELSE ReadFromBytes(f, <<38>>)

readQueryForm(f, query) ==
    LET s == separateForm(f)
    IN  IF query = <<>> THEN Ret(f, "nil") ELSE IF s.err # "nil" THEN s ELSE ReadFromBytes(s.kv, query)

\* Read until left more bytes arrived; a connection that ends early ends the form.
RECURSIVE readLength(_, _, _, _)
readLength(x, c, f, left) ==
    LET no == readRefused(f, left)
        end(err) == IF err = "EOF" THEN "nil" ELSE err
        took(r, t) == IF r.b = <<>> THEN Read(r.x, r.c, t.kv, IF t.err = "nil" THEN "no progress" ELSE end(t.err))
                      ELSE IF end(t.err) # "nil" THEN Read(r.x, r.c, t.kv, t.err)
                      ELSE readLength(r.x, r.c, t.kv, left - Len(r.b))
        read(r) == took(r, readTaken(f, r.b, r.err))
    IN  IF left <= 0 THEN Read(x, c, f, "nil")
        ELSE IF no # "nil" THEN Read(x, c, f, end(no))
        ELSE read(ReadBody(x, c, least(left, maxBufLen - Len(f.buf))))

readBodyForm(x, c, f) ==
    LET length == ContentLengthOf(x.hdr)
        s      == separateForm(f)
    IN  IF ~hasField(x, <<ContentType>>) THEN Read(x, c, f, "nil")
        ELSE IF ~MediaTypeIs(RequestHeader(x, <<ContentType>>), <<WordFormEncoded>>) THEN Read(x, c, f, "not a form")
        ELSE IF hasField(x, <<TransferEncoding>>) THEN Read(x, c, f, "transfer coding")
        ELSE IF length.err # "nil" THEN Read(x, c, f, length.err)
        ELSE IF ~length.present \/ length.n = 0 THEN Read(x, c, f, "nil")
        ELSE IF s.err # "nil" THEN Read(x, c, s.kv, s.err)
        ELSE readLength(x, c, s.kv, length.n)

RequestParseForm(x, c, form, parseURL, prioritizeURL) ==
    LET query == RequestQuery(x.hdr)
        none  == Ret(KVReset(form, <<>>, form.cap, 0), "nil")
        parsed(body, p) == Read(body.x, body.c, p.kv, p.err)
        after(body, second) == IF second.err # "nil" THEN Read(body.x, body.c, second.kv, second.err)
                               ELSE parsed(body, FormParse(second.kv))
        read(body) == IF body.err # "nil" THEN body
                      ELSE after(body, IF parseURL /\ ~prioritizeURL THEN readQueryForm(body.f, query) ELSE Ret(body.f, "nil"))
        before(first) == IF first.err # "nil" THEN Read(x, c, first.kv, first.err) ELSE read(readBodyForm(x, c, first.kv))
    IN  before(IF parseURL /\ prioritizeURL THEN readQueryForm(none.kv, query) ELSE none)

RequestParseCookie(x, cookie) == CookieParseBytes(cookie, RequestHeader(x, <<CookieField>>))

\* RequestQueryAppend of a decoded value: whether the parameter is there, and its value.
RECURSIVE queryFrom(_, _, _)
queryFrom(query, off, key) ==
    LET of(v) == SubSeq(query, v.start + 1, v.start + v.len)
        among(p) == IF ~p.found THEN Wire(<<>>, "absent")
                    ELSE IF of(p.key) = key \/ EqualDecodedPercentURL(of(p.key), key, TRUE) THEN Wire(of(p.value), "nil")
                    ELSE queryFrom(query, p.rest, key)
    IN  among(NextQueryPair(query, off))

RequestQueryValue(x, key) == queryFrom(RequestQuery(x.hdr), 0, key)

RequestQueryAppend(x, key) ==
    LET clean(d) == IF d.err # "nil" THEN Wire(<<>>, "absent") ELSE d
        raw(v) == IF v.err # "nil" \/ v.b = <<>> THEN v ELSE clean(CopyDecodedPercentURL(v.b, TRUE))
    IN  raw(RequestQueryValue(x, key))

\* PathValue stops at the first value without a key.
RECURSIVE pathValueFrom(_, _)
pathValueFrom(vals, key) ==
    IF vals = <<>> THEN <<>>
    ELSE IF vals[1].key = key THEN vals[1].value
    ELSE IF vals[1].key = <<>> THEN <<>>
    ELSE pathValueFrom(Tail(vals), key)
PathValue(x, key) == pathValueFrom(x.pathValues, key)

------------------------------------------------------------------------------
\* ReadMultiparts, with what it holds: buf of at most n bytes, the parts so far, and whether it reads one's body.
\* more is s after one more read, which ends it when it fails and gave nothing.
RECURSIVE parts(_, _)
more(s, r, n) ==
    IF r.b = <<>> /\ r.err # "nil" THEN [s EXCEPT !.x = r.x, !.c = r.c, !.err = r.err]
    ELSE parts([s EXCEPT !.x = r.x, !.c = r.c, !.buf = @ \o r.b], n)

partHeader(s, h, n) ==
    IF h.err # "nil" THEN [s EXCEPT !.err = IF h.err = "EOF" THEN "nil" ELSE h.err]
    ELSE IF h.n > 0
         THEN parts([s EXCEPT !.buf = SubSeq(@, h.n + 1, Len(@)), !.inside = TRUE,
                              !.parts = Append(@, [name |-> h.name, filename |-> h.filename,
                                                   sink |-> <<>>, closed |-> FALSE])], n)
    ELSE IF Len(s.buf) = n THEN [s EXCEPT !.err = "short buffer"]
    ELSE more(s, ReadBody(s.x, s.c, n - Len(s.buf)), n)

partBody(s, b, n) ==
    LET gave(t) == IF b.done THEN parts(t, n) ELSE more(t, ReadBody(t.x, t.c, n - Len(t.buf)), n)
    IN  gave([s EXCEPT !.buf = SubSeq(@, b.rest + 1, Len(@)), !.inside = ~b.done,
                       !.parts[Len(s.parts)].sink = @ \o SubSeq(s.buf, 1, b.n),
                       !.parts[Len(s.parts)].closed = b.done])

parts(s, n) ==
    IF s.inside THEN partBody(s, NextBody(s.boundary, s.buf), n)
    ELSE partHeader(s, NextHeader(s.boundary, s.buf), n)

ReadMultiparts(x, c, n) ==
    LET over(ct, bd, s) == IF ~MediaTypeIs(ct, <<WordMultipart>>) THEN [s EXCEPT !.err = "not multipart"]
                           ELSE IF bd = <<>> \/ Len(bd) > 70 THEN [s EXCEPT !.err = "no boundary"]
                           ELSE IF n <= 4 + Len(bd) THEN [s EXCEPT !.err = "invalid config"]
                           ELSE parts(s, n)
        with(ct, bd) == over(ct, bd, [x |-> x, c |-> c, boundary |-> bd, buf |-> <<>>, parts |-> <<>>,
                                      inside |-> FALSE, err |-> "nil"])
        typed(ct) == with(ct, ContentParam(ct, <<WordBoundary>>))
    IN  typed(RequestHeader(x, <<ContentType>>))

------------------------------------------------------------------------------
\* handleError: what the peer is told of a request that could not be read.
handleError(x, c, err) ==
    IF err = "unsupported" THEN WriteHeader(x, c, IF x.hdr.proto.len = 0 THEN 400 ELSE 505)
    ELSE IF err \in {"too many", "exhausted"} \/ free(x.hdr.kv) = 0
         THEN WriteHeader(StageHeader(x, <<1000 + ContentLength>>, <<48>>), c, 431)
    ELSE Did(x, c, 0, "nil")

\* Handle up to the handler: reads until the header is whole.  read is what a read of the connection gave,
\* and p what parsing made of it.
fail(x, c, err) == [handleError(x, c, err) EXCEPT !.err = err]

RECURSIVE receive(_, _)
tried(x, c, p) ==
    IF p.err = "need more" THEN receive([x EXCEPT !.hdr = p.h], c)
    ELSE IF p.err # "nil" THEN fail([x EXCEPT !.hdr = p.h], c, p.err)
    ELSE Did([x EXCEPT !.hdr = p.h, !.respRemains = BufferReceived(p.h) - BufferParsed(p.h),
                       !.respHeaderOff = BufferParsed(p.h), !.respHeaderLen = 0], c, 0, "nil")

received(x, read, t) ==
    LET got(y) == IF t.err # "nil" THEN fail(y, read.c, t.err)
                  ELSE IF read.b = <<>> THEN Did(y, read.c, 0, "no progress")
                  ELSE tried(y, read.c, TryParse(y.hdr, FALSE))
    IN  got(poke([x EXCEPT !.hdr.kv = t.kv], Len(x.hdr.kv.buf), read.b))

receive(x, c) ==
    LET no == readRefused(x.hdr.kv, free(x.hdr.kv))
        take(read) == received(x, read, readTaken(x.hdr.kv, read.b, read.err))
    IN  IF no # "nil" THEN fail(x, c, no) ELSE take(connRead(c, free(x.hdr.kv)))

\* The rest of Handle before the handler runs: n is the registration that serves, 0 when the answer is given.
dispatch(x, c, handlers) ==
    LET told(code, err) == [WriteHeader(x, c, code) EXCEPT !.n = 0, !.err = err]
        found(hit) == IF hit.best = 0 THEN told(404, "not found")
                      ELSE Did([x EXCEPT !.pattern = hit.best, !.pathValues = hit.dst], c, hit.best, "nil")
        at(path) == IF path = <<>> \/ path[1] # 47 THEN told(404, "not found")
                    ELSE found(LookupHandler(handlers, MethodFrom(Method(x.hdr)), cutAll(Tail(path), 47),
                                             [i \in DOMAIN x.pathValues |-> NoValue]))
    IN  IF x.hdr.proto.len = 0 THEN told(400, "no proto")
        ELSE IF Protocol(x.hdr) \notin {<<HTTP11>>, <<HTTP10>>} THEN told(505, "bad proto")
        ELSE at(RequestPath(x.hdr))
=============================================================================
