------------------------------- MODULE HTTPRaw --------------------------------
(***************************************************************************)
(* httpraw.kvBuffer (http/httpraw/kvbuffer.go): the store of key-value     *)
(* pairs under HeaderV1, Form and Cookie.  A pair is two views, each a     *)
(* start and a length, into one buffer of bytes.                           *)
(*                                                                         *)
(* A byte is its code.  A number of 256 or more stands for a word no       *)
(* parser looks into, and counts as one byte of room.                      *)
(***************************************************************************)
EXTENDS Integers, Sequences

CONSTANT maxBufLen              \* the largest offset a view can hold

S == INSTANCE SequencesExt

CR == 13
LF == 10
SP == 32
TAB == 9

noView == [start |-> 0, len |-> 0]
noKV == [key |-> noView, value |-> noView]

NewKV(cap, kvCap, grows) ==
    [buf |-> <<>>, cap |-> cap, kvs |-> <<>>, kvCap |-> kvCap, grows |-> grows, flags |-> {}]

free(kv) == kv.cap - Len(kv.buf)
musttoken(kv, v) == SubSeq(kv.buf, v.start + 1, v.start + v.len)

isValid(p) == p.key.len > 0 \/ p.value.len > 0
isValidHeader(p) == p.key.start > 0
HasValue(p) == p.value.start > 0
size(p) == p.key.len + p.value.len

\* Words have two spellings, 1000 apart, as letters have two cases.
lower(c) == IF c \in 65 .. 90 THEN c + 32 ELSE IF c >= 1000 THEN c - 1000 ELSE c
EqualFoldASCII(a, b) == Len(a) = Len(b) /\ \A i \in DOMAIN a : lower(a[i]) = lower(b[i])

\* The first position of c in s from i on, or 0.
IndexFrom(s, c, i) == S!SelectInSubSeq(s, i, Len(s), LAMBDA x : x = c)
Index(s, c) == IndexFrom(s, c, 1)

\* s with b written over it from offset off on.
copyAt(s, off, b) ==
    [i \in 1 .. (IF off + Len(b) > Len(s) THEN off + Len(b) ELSE Len(s)) |->
        IF i \in off + 1 .. off + Len(b) THEN b[i - off] ELSE IF i <= Len(s) THEN s[i] ELSE 0]

Ret(kv, err) == [kv |-> kv, err |-> err]

KVReset(kv, buf, cap, kvCap) ==
    [kv EXCEPT !.buf = buf, !.cap = cap, !.kvs = <<>>, !.flags = {},
               !.kvCap = IF kvCap > @ THEN kvCap ELSE @]

ReadFromBytes(kv, b) ==
    IF b = <<>> THEN Ret(kv, "no progress")
    ELSE IF "mangled" \in kv.flags THEN Ret(kv, "mangled")
    ELSE IF \/ Len(b) + kv.cap > maxBufLen
            \/ Len(b) > free(kv) /\ ~kv.grows THEN Ret(kv, "exhausted")
    ELSE Ret([kv EXCEPT !.buf = @ \o b, !.cap = IF Len(b) > free(kv) THEN Len(kv.buf) + Len(b) ELSE @], "nil")

\* How ReadLimited ends before it reads, or "nil" when it reads.
readRefused(kv, limit) ==
    IF \/ ~kv.grows /\ (free(kv) = 0 \/ free(kv) < limit)
       \/ Len(kv.buf) >= maxBufLen THEN "exhausted"
    ELSE IF "mangled" \in kv.flags THEN "mangled"
    ELSE IF "eof" \in kv.flags THEN "EOF"
    ELSE IF limit <= 0 THEN "no progress"
    ELSE "nil"

\* What ReadLimited does with what the reader gave: an end that comes with bytes is kept for later.
readTaken(kv, b, err) ==
    LET ends == err = "EOF" /\ b # <<>>
    IN  Ret([kv EXCEPT !.buf = @ \o b, !.cap = IF Len(b) > free(kv) THEN Len(kv.buf) + Len(b) ELSE @,
                       !.flags = IF ends THEN @ \union {"eof"} ELSE @],
            IF ends THEN "nil" ELSE err)

getIdx(kv, key) == S!SelectInSeq(kv.kvs, LAMBDA p : isValid(p) /\ musttoken(kv, p.key) = key)
getFoldIdx(kv, key) == S!SelectInSeq(kv.kvs, LAMBDA p : isValid(p) /\ EqualFoldASCII(key, musttoken(kv, p.key)))

Present(kv, key) == getIdx(kv, key) # 0
AtValue(kv, i) == IF HasValue(kv.kvs[i]) THEN musttoken(kv, kv.kvs[i].value) ELSE <<>>
GetFold(kv, key) == LET i == getFoldIdx(kv, key) IN IF i = 0 THEN <<>> ELSE AtValue(kv, i)

canAddOneKV(kv) == Len(kv.kvs) < kv.kvCap \/ kv.grows

\* reserve: byte 0 of an empty buffer is never part of a pair.
reserve(kv, n) ==
    LET need == IF kv.buf = <<>> THEN n + 1 ELSE n
    IN  IF \/ Len(kv.buf) + need > maxBufLen
           \/ need > free(kv) /\ ~kv.grows THEN Ret([kv EXCEPT !.flags = @ \union {"oom"}], "exhausted")
        ELSE Ret([kv EXCEPT !.cap = IF need > free(kv) THEN Len(kv.buf) + need ELSE @], "nil")

mustAppendSlice(kv, b) == [kv EXCEPT !.buf = (IF @ = <<>> THEN <<0>> ELSE @) \o b]

\* The view of the last n bytes.
lastView(kv, n) == [start |-> Len(kv.buf) - n, len |-> n]

appendPair(kv, key, val) ==
    LET r == reserve(kv, Len(key) + Len(val))
        k == mustAppendSlice(r.kv, key)
        v == mustAppendSlice(k, val)
    IN  IF ~canAddOneKV(kv) THEN Ret(kv, "exhausted")
        ELSE IF r.err # "nil" THEN r
        ELSE Ret([v EXCEPT !.flags = @ \union {"kvAppended"},
                           !.kvs = Append(@, [key |-> lastView(k, Len(key)), value |-> lastView(v, Len(val))])],
                 "nil")

Add(kv, key, val) ==
    LET r == appendPair(kv, key, val)
    IN  Ret(r.kv, IF Present(r.kv, key) THEN "nil" ELSE "exhausted")

\* The pairs of this key whose regions hold a value of n bytes; the first of the smallest is kept.
fitting(kv, key, n) ==
    {i \in DOMAIN kv.kvs : /\ isValid(kv.kvs[i])
                           /\ musttoken(kv, kv.kvs[i].key) = key
                           /\ HasValue(kv.kvs[i])
                           /\ kv.kvs[i].value.len >= n}
tightest(kv, fits) ==
    CHOOSE i \in fits : \A j \in fits : \/ size(kv.kvs[i]) < size(kv.kvs[j])
                                        \/ size(kv.kvs[i]) = size(kv.kvs[j]) /\ i <= j

\* Mutant: the other pairs of the key stay.
takeReusableSlotMutant(kv, key, kept) == kv.kvs

\* takeReusableSlot: every pair of the key but the one kept is invalidated.
takeReusableSlot(kv, key, kept) ==
    [i \in DOMAIN kv.kvs |->
        IF i # kept /\ isValid(kv.kvs[i]) /\ musttoken(kv, kv.kvs[i].key) = key THEN noKV ELSE kv.kvs[i]]

overwriteAt(kv, i, key, val) ==
    LET p == kv.kvs[i]
    IN  [kv EXCEPT !.flags = @ \union {"mangled"},
                   !.buf = copyAt(copyAt(@, p.key.start, key), p.value.start, val),
                   !.kvs[i].key.len = Len(key), !.kvs[i].value.len = Len(val)]

Set(kv, key, val) ==
    LET fits == fitting(kv, key, Len(val))
        kept == IF fits = {} THEN 0 ELSE tightest(kv, fits)
        rest == [kv EXCEPT !.kvs = takeReusableSlot(kv, key, kept)]
    IN  IF kept = 0 THEN Add(rest, key, val) ELSE Ret(overwriteAt(rest, kept, key, val), "nil")

\* A number in base 10.
RECURSIVE digits(_)
digits(n) == IF n < 10 THEN <<48 + n>> ELSE Append(digits(n \div 10), 48 + (n % 10))

SetInt(kv, key, n) == Set(kv, key, digits(n))

\* reuseOrAppend: the new value goes over the old one when it is shorter.
reuseOrAppend(kv, tok, val) ==
    LET r == reserve(kv, Len(val))
        v == mustAppendSlice([r.kv EXCEPT !.flags = @ \union {"mangled"}], val)
    IN  IF tok.len > Len(val)
        THEN [kv |-> [kv EXCEPT !.buf = copyAt(@, tok.start, val)], tok |-> [tok EXCEPT !.len = Len(val)]]
        ELSE IF r.err # "nil" THEN [kv |-> r.kv, tok |-> noView]
        ELSE [kv |-> v, tok |-> lastView(v, Len(val))]

\* setInternal: a pair of views the parser found.
setInternal(kv, key, value) ==
    IF ~canAddOneKV(kv) THEN Ret(kv, "exhausted")
    ELSE Ret([kv EXCEPT !.flags = @ \union {"kvAppended"}, !.kvs = Append(@, [key |-> key, value |-> value])], "nil")

\* The valid pairs in the order they are stored.
pairs(kv) ==
    SelectSeq([i \in DOMAIN kv.kvs |-> <<isValid(kv.kvs[i]), musttoken(kv, kv.kvs[i].key), AtValue(kv, i)>>],
                LAMBDA p : p[1])

-----------------------------------------------------------------------------
(***************************************************************************)
(* httpraw.HeaderV1 (http/httpraw/headerv1.go, parsev1.go): the header of  *)
(* an HTTP/1 message, parsed in place as its bytes arrive or put together  *)
(* field by field.                                                         *)
(***************************************************************************)

\* Words: protocols, methods, field names and what their values name.
HTTP11 == 301
HTTP10 == 302
HTTP2 == 303
ContentType == 321
ContentLength == 322
Connection == 323
CookieField == 324
Disposition == 325
WordClose == 331

NewHeader(kv) ==
    [kv |-> kv, off |-> 0, method |-> noView, requestTarget |-> noView, proto |-> noView,
     statusCode |-> noView, statusText |-> noView]

HeaderReset(h, buf, cap, kvCap) == NewHeader(KVReset(h.kv, buf, cap, kvCap))

protoIsV1(s) == s # <<>> /\ s[1] \in {HTTP11, HTTP10}

Parsed(h, err) == [h |-> h, err |-> err]

withFlags(h, fs) == [h EXCEPT !.kv.flags = @ \union fs]

\* The first offset at or after off whose byte is neither CR nor LF.
skipLeadingCRLF(buf) ==
    CHOOSE i \in 0 .. Len(buf) : /\ \A j \in 1 .. i : buf[j] \in {CR, LF}
                                 /\ i < Len(buf) => buf[i + 1] \notin {CR, LF}

\* scanLine from offset o: the offset after its last byte, line break excluded, and the one after the break.
scanLine(buf, o) ==
    LET nl == IndexFrom(buf, LF, o + 1)
    IN  [found |-> nl # 0, next |-> nl,
         end |-> IF nl - 1 > o /\ buf[nl - 1] = CR THEN nl - 2 ELSE nl - 1]

view(from, to) == [start |-> from, len |-> to - from]

\* A request line b that starts at offset o: method, target and protocol.
requestLine(h, o, line, b, mEnd, uEnd) ==
    LET proto  == SubSeq(b, uEnd + 2, Len(b))
        method == view(o, o + mEnd)
        at     == [h EXCEPT !.off = IF line.found THEN line.next ELSE o,
                            !.method = noView, !.requestTarget = noView, !.proto = noView]
        named  == [at EXCEPT !.method = method, !.requestTarget = view(o + mEnd + 1, o + uEnd),
                             !.proto = view(o + uEnd + 1, line.end)]
    IN  IF ~line.found THEN Parsed(at, "need more")
        ELSE IF Len(b) < 5 THEN Parsed(at, "need more")
        ELSE IF uEnd = mEnd + 1 THEN Parsed(at, "empty URI")
        ELSE IF uEnd < 0
             THEN Parsed(withFlags([at EXCEPT !.method = method, !.requestTarget = view(o + mEnd + 1, line.end)],
                                   {"noHTTP11"}), "unsupported")
        ELSE IF ~protoIsV1(proto) THEN Parsed(withFlags(named, {"noHTTP11"}), "unsupported")
        ELSE Parsed(withFlags(named, IF proto # <<HTTP11>> THEN {"noHTTP11"} ELSE {}), "nil")

parseFirstLineRequest(h) ==
    LET cut(o, line, b, sp) == LET mEnd == IF sp = 0 THEN 0 ELSE sp - 1
                               IN  requestLine(h, o, line, b, mEnd, IndexFrom(b, SP, mEnd + 2) - 1)
        scan(o, line, b) == cut(o, line, b, Index(b, SP))
        start(o, line) == scan(o, line, SubSeq(h.kv.buf, o + 1, line.end))
    IN  start(skipLeadingCRLF(h.kv.buf), scanLine(h.kv.buf, skipLeadingCRLF(h.kv.buf)))

\* A status line b that starts at offset o: the first blank ends the protocol, the one at cSP the code.
statusLineAt(h, o, line, b, pEnd, cSP) ==
    LET proto == SubSeq(b, 1, pEnd)
        cEnd  == IF cSP = 0 THEN Len(b) ELSE cSP - 1
        code  == SubSeq(b, pEnd + 2, cEnd)
        at    == [h EXCEPT !.off = IF line.found THEN line.next ELSE o,
                           !.statusCode = noView, !.statusText = noView]
        http1 == withFlags(at, IF proto # <<HTTP11>> THEN {"noHTTP11"} ELSE {})
    IN  IF ~line.found \/ Len(b) < 5 \/ pEnd < 0 THEN Parsed(at, "need more")
        ELSE IF ~protoIsV1(proto) THEN Parsed(withFlags(at, {"noHTTP11"}), "unsupported")
        ELSE IF Len(code) > 3 THEN Parsed(http1, "long status")
        ELSE IF \E i \in DOMAIN code : code[i] \notin 48 .. 57 THEN Parsed(http1, "bad status")
        ELSE Parsed([http1 EXCEPT !.statusCode = view(o + pEnd + 1, o + cEnd),
                                  !.statusText = IF cSP = 0 THEN noView ELSE view(o + cEnd + 1, line.end)], "nil")

parseFirstLineResponse(h) ==
    LET cut(o, line, b, sp) == statusLineAt(h, o, line, b, sp - 1, IndexFrom(b, SP, sp + 1))
        scan(o, line, b) == cut(o, line, b, Index(b, SP))
        start(o, line) == scan(o, line, SubSeq(h.kv.buf, o + 1, line.end))
    IN  start(skipLeadingCRLF(h.kv.buf), scanLine(h.kv.buf, skipLeadingCRLF(h.kv.buf)))

\* The line break that ends the value from position v on: the first that no blank follows.
\* The last byte of the buffer cannot be it, and ends the search.
valueBreak(buf, v) ==
    LET ends == {p \in v .. Len(buf) : buf[p] = LF /\ (p = Len(buf) \/ buf[p + 1] \notin {SP, TAB})}
    IN  IF ends = {} THEN Len(buf) ELSE CHOOSE p \in ends : \A q \in ends : p <= q

\* The field at h.off: its views and where the next one starts.  In buf, what is left, it has its colon and
\* first line feed at positions colon and nl, and its value starts at v.
fieldAt(h, buf, colon, nl, v, brk) ==
    LET end   == IF brk - 1 >= v /\ buf[brk - 1] = CR THEN brk - 2 ELSE brk - 1
        none(n, err) == [kv |-> noKV, off |-> h.off + n, err |-> err]
    IN  IF Len(buf) >= 2 /\ buf[1] = CR /\ buf[2] = LF THEN none(2, "nil")
        ELSE IF Len(buf) >= 1 /\ buf[1] = LF THEN none(1, "nil")
        ELSE IF nl = 0 THEN none(0, "need more")
        ELSE IF nl < colon \/ colon = 0 THEN none(0, "invalid name")
        ELSE IF \E i \in 1 .. colon - 1 : buf[i] \in {SP, TAB} THEN none(0, "invalid name")
        ELSE IF brk >= Len(buf) THEN none(0, "need more")
        ELSE [kv |-> [key |-> view(h.off, h.off + colon - 1), value |-> view(h.off + v - 1, h.off + end)],
              off |-> h.off + brk, err |-> "nil"]

next(h) ==
    LET blanks(buf, colon) == CHOOSE i \in colon + 1 .. Len(buf) + 1 :
                                  /\ \A j \in colon + 1 .. i - 1 : buf[j] = SP
                                  /\ i <= Len(buf) => buf[i] # SP
        from(buf, colon, v) == fieldAt(h, buf, colon, Index(buf, LF), v, valueBreak(buf, v))
        named(buf, colon) == from(buf, colon, blanks(buf, colon))
        left(buf) == named(buf, Index(buf, 58))
    IN  left(SubSeq(h.kv.buf, h.off + 1, Len(h.kv.buf)))

RECURSIVE fields(_)
fields(h) ==
    LET take(f, adv) == IF f.err # "nil" THEN Parsed(adv, f.err)
                        ELSE IF ~isValidHeader(f.kv) THEN Parsed(adv, "nil")
                        ELSE IF ~canAddOneKV(h.kv) THEN Parsed(adv, "too many")
                        ELSE fields([adv EXCEPT !.kv.kvs = Append(@, f.kv)])
        found(f) == take(f, [h EXCEPT !.off = f.off])
    IN  found(next(h))

parseNextHeaders(h) ==
    LET flagged(r) == Parsed(withFlags(r.h, IF r.err = "nil" THEN {"done"} ELSE {"connClose"}), r.err)
    IN  flagged(fields(h))

parseFirstLine(h, asResponse) ==
    IF Len(h.kv.buf) > maxBufLen THEN Parsed(h, "too large")
    ELSE IF asResponse THEN parseFirstLineResponse(h) ELSE parseFirstLineRequest(h)

parse(h, asResponse) ==
    LET after(r) == IF r.err # "nil" THEN r ELSE parseNextHeaders(r.h)
    IN  after(parseFirstLine(h, asResponse))

\* The first line is parsed again until it is whole, the fields from where the last try stopped.
TryParse(h, asResponse) ==
    IF "done" \in h.kv.flags THEN Parsed(h, "already parsed")
    ELSE IF "mangled" \in h.kv.flags THEN Parsed(h, "mangled")
    ELSE IF IF asResponse THEN h.statusCode.len = 0 ELSE h.requestTarget.start = 0 THEN parse(h, asResponse)
    ELSE parseNextHeaders(h)

ParseBytes(h, asResponse, b) ==
    LET read(r) == IF r.err # "nil" THEN Parsed(NewHeader(r.kv), r.err) ELSE parse(NewHeader(r.kv), asResponse)
    IN  read(ReadFromBytes(HeaderReset(h, <<>>, h.kv.cap, 0).kv, b))

BufferReceived(h) == IF h.kv.flags \cap {"mangled", "oom"} # {} THEN 0 ELSE Len(h.kv.buf)
BufferParsed(h) == IF h.kv.flags \cap {"mangled", "oom"} # {} THEN 0 ELSE h.off

\* Body: what was received after the header.
Body(h) ==
    IF "mangled" \in h.kv.flags THEN [b |-> <<>>, err |-> "mangled"]
    ELSE IF "done" \in h.kv.flags THEN [b |-> SubSeq(h.kv.buf, h.off + 1, Len(h.kv.buf)), err |-> "nil"]
    ELSE [b |-> <<>>, err |-> "unparsed"]

Method(h) == musttoken(h.kv, h.method)
RequestTarget(h) == musttoken(h.kv, h.requestTarget)
Protocol(h) == musttoken(h.kv, h.proto)

\* The target up to its first question mark, and what follows it.
RequestPath(h) ==
    LET t == RequestTarget(h) IN IF Index(t, 63) = 0 THEN t ELSE SubSeq(t, 1, Index(t, 63) - 1)
RequestQuery(h) ==
    LET t == RequestTarget(h) IN IF Index(t, 63) = 0 THEN <<>> ELSE SubSeq(t, Index(t, 63) + 1, Len(t))

SetMethod(h, m) == LET r == reuseOrAppend(h.kv, h.method, m) IN [h EXCEPT !.kv = r.kv, !.method = r.tok]
SetRequestTarget(h, t) ==
    LET r == reuseOrAppend(h.kv, h.requestTarget, t) IN [h EXCEPT !.kv = r.kv, !.requestTarget = r.tok]
SetProtocol(h, p) == LET r == reuseOrAppend(h.kv, h.proto, p) IN [h EXCEPT !.kv = r.kv, !.proto = r.tok]
appendHeaderLine(key, value) == key \o <<58, SP>> \o value \o <<CR, LF>>

AppendHeaders(h) ==
    LET line(i) == IF isValidHeader(h.kv.kvs[i])
                   THEN appendHeaderLine(musttoken(h.kv, h.kv.kvs[i].key), AtValue(h.kv, i)) ELSE <<>>
    IN  S!FlattenSeq([i \in DOMAIN h.kv.kvs |-> line(i)])

Wire(b, err) == [b |-> b, err |-> err]

AppendRequest(h) ==
    IF "oom" \in h.kv.flags THEN Wire(<<>>, "exhausted")
    ELSE IF h.requestTarget.len = 0 \/ h.method.len = 0 THEN Wire(<<>>, "need method")
    ELSE IF h.proto.len = 0 THEN Wire(<<>>, "no proto")
    ELSE Wire(Method(h) \o <<SP>> \o RequestTarget(h) \o <<SP>> \o Protocol(h) \o <<CR, LF>>
              \o AppendHeaders(h) \o <<CR, LF>>, "nil")

\* b without the blanks at its ends.
trimOWS(b) ==
    LET ink == {i \in DOMAIN b : b[i] \notin {SP, TAB}}
    IN  IF ink = {} THEN <<>>
        ELSE SubSeq(b, CHOOSE i \in ink : \A j \in ink : i <= j, CHOOSE i \in ink : \A j \in ink : j <= i)

\* s cut at every c.
RECURSIVE cutAll(_, _)
cutAll(s, c) ==
    IF Index(s, c) = 0 THEN <<s>>
    ELSE <<SubSeq(s, 1, Index(s, c) - 1)>> \o cutAll(SubSeq(s, Index(s, c) + 1, Len(s)), c)

\* The number a field of digits stands for.
RECURSIVE number(_)
number(b) == IF b = <<>> THEN 0 ELSE 10 * number(SubSeq(b, 1, Len(b) - 1)) + b[Len(b)] - 48

\* strconv.ParseInt takes one sign, so +5 and -0 are lengths.
ContentLengthOf(h) ==
    LET i == getFoldIdx(h.kv, <<ContentLength>>)
        v == trimOWS(AtValue(h.kv, i))
        d == IF v # <<>> /\ v[1] \in {43, 45} THEN Tail(v) ELSE v
        n == IF v[1] = 45 THEN -number(d) ELSE number(d)
    IN  IF i = 0 \/ ~HasValue(h.kv.kvs[i]) THEN [n |-> 0, present |-> FALSE, err |-> "nil"]
        ELSE IF d = <<>> \/ (\E j \in DOMAIN d : d[j] \notin 48 .. 57) \/ n < 0
             THEN [n |-> 0, present |-> TRUE, err |-> "bad length"]
        ELSE [n |-> n, present |-> TRUE, err |-> "nil"]

unhexdigit(c) ==
    IF c \in 48 .. 57 THEN c - 48 ELSE IF c \in 97 .. 102 THEN c - 87 ELSE IF c \in 65 .. 70 THEN c - 55 ELSE -1

\* CopyDecodedPercentURL: the bytes written, all of them or those before the first bad escape.
RECURSIVE CopyDecodedPercentURL(_, _)
CopyDecodedPercentURL(value, plusAsSpace) ==
    LET rest(n) == CopyDecodedPercentURL(SubSeq(value, n + 1, Len(value)), plusAsSpace)
        put(c, n) == LET r == rest(n) IN Wire(<<c>> \o r.b, r.err)
    IN  IF value = <<>> THEN Wire(<<>>, "nil")
        ELSE IF value[1] = 37
             THEN IF Len(value) < 3 \/ unhexdigit(value[2]) < 0 \/ unhexdigit(value[3]) < 0 THEN Wire(<<>>, "bad escape")
                  ELSE put(16 * unhexdigit(value[2]) + unhexdigit(value[3]), 3)
        ELSE put(IF plusAsSpace /\ value[1] = 43 THEN SP ELSE value[1], 1)

\* EqualDecodedPercentURL compares as it decodes; a bad escape equals nothing.
EqualDecodedPercentURL(value, want, plusAsSpace) ==
    CopyDecodedPercentURL(value, plusAsSpace) = Wire(want, "nil")

-----------------------------------------------------------------------------
(***************************************************************************)
(* httpraw.Form, Cookie and Multipart (http/httpraw/form.go, cookie.go,    *)
(* multipart.go): what a request carries in its query, its Cookie field    *)
(* and its body.  Form and Cookie are a kvBuffer parsed in place.          *)
(***************************************************************************)

WordName == 351
WordFilename == 352
WordBoundary == 353

------------------------------------------------------------------------------
\* NextQueryPair from offset off of buf: two views, and the offset of the rest.  Empty pieces are passed over.
RECURSIVE NextQueryPair(_, _)
NextQueryPair(buf, off) ==
    LET amp == IndexFrom(buf, 38, off + 1)
        end == IF amp = 0 THEN Len(buf) ELSE amp - 1
        eq  == S!SelectInSubSeq(buf, off + 1, end, LAMBDA c : c = 61)
        to  == IF amp = 0 THEN Len(buf) ELSE amp
    IN  IF off >= Len(buf) THEN [found |-> FALSE, key |-> noView, value |-> noView, rest |-> off]
        ELSE IF end = off THEN NextQueryPair(buf, to)
        ELSE IF eq = 0 THEN [found |-> TRUE, key |-> view(off, end), value |-> noView, rest |-> to]
        ELSE [found |-> TRUE, key |-> view(off, eq - 1), value |-> view(eq, end), rest |-> to]

RECURSIVE parsePairs(_, _)
parsePairs(kv, off) ==
    LET p == NextQueryPair(kv.buf, off)
        r == setInternal(kv, p.key, p.value)
    IN  IF ~p.found THEN Ret(kv, "nil") ELSE IF r.err # "nil" THEN r ELSE parsePairs(r.kv, p.rest)

FormParse(kv) == parsePairs([kv EXCEPT !.kvs = <<>>], 0)

\* Form.Decode from pair i on, in place: a pair that shrinks gets new views.
RECURSIVE decodePairs(_, _)
decodePairs(kv, i) ==
    LET p  == kv.kvs[i]
        dk == CopyDecodedPercentURL(musttoken(kv, p.key), TRUE)
        k  == [kv EXCEPT !.buf = copyAt(@, p.key.start, dk.b)]
        dv == CopyDecodedPercentURL(AtValue(kv, i), TRUE)
        v  == [k EXCEPT !.buf = copyAt(@, p.value.start, dv.b)]
        at(x) == [x EXCEPT !.flags = @ \union {"mangled"},
                           !.kvs[i] = [key   |-> view(p.key.start, p.key.start + Len(dk.b)),
                                       value |-> view(p.value.start, p.value.start + Len(dv.b))]]
        shrunk == Len(dk.b) # p.key.len \/ Len(dv.b) # p.value.len
    IN  IF i > Len(kv.kvs) THEN Ret(kv, "nil")
        ELSE IF dk.err # "nil" THEN Ret(k, dk.err)
        ELSE IF dv.err # "nil" THEN Ret(v, dv.err)
        ELSE decodePairs(IF shrunk THEN at(v) ELSE v, i + 1)

FormDecode(kv) == decodePairs(kv, 1)

------------------------------------------------------------------------------
\* trimCookie on positions from .. to of buf.
RECURSIVE trimCookie(_, _, _, _)
trimCookie(buf, from, to, quotes) ==
    IF from < to /\ buf[from + 1] = SP THEN trimCookie(buf, from + 1, to, quotes)
    ELSE IF from < to /\ buf[to] = SP THEN trimCookie(buf, from, to - 1, quotes)
    ELSE IF quotes /\ to - from > 1 /\ buf[from + 1] = 34 /\ buf[to] = 34 THEN view(from + 1, to - 1)
    ELSE view(from, to)

RECURSIVE parseCookies(_, _)
parseCookies(kv, off) ==
    LET semi == IndexFrom(kv.buf, 59, off + 1)
        end  == IF semi = 0 THEN Len(kv.buf) ELSE semi - 1
        eq   == S!SelectInSubSeq(kv.buf, off + 1, end, LAMBDA c : c = 61)
        key  == IF eq > off + 1 THEN trimCookie(kv.buf, off, eq - 1, FALSE) ELSE view(off, off)
        val  == trimCookie(kv.buf, IF eq = 0 THEN off ELSE eq, end, TRUE)
        r    == setInternal(kv, key, val)
    IN  IF off >= Len(kv.buf) THEN Ret(kv, "nil")
        ELSE IF r.err # "nil" THEN r
        ELSE parseCookies(r.kv, IF semi = 0 THEN Len(kv.buf) ELSE semi)

\* Cookie.ParseBytes.
CookieParseBytes(kv, b) ==
    LET r == parseCookies([KVReset(kv, b, IF Len(b) > kv.cap THEN Len(b) ELSE kv.cap, 0) EXCEPT !.buf = b], 0)
    IN  IF r.err = "nil" /\ r.kv.kvs = <<>> THEN Ret(r.kv, "no cookies") ELSE r

------------------------------------------------------------------------------
MediaTypeIs(value, mediaType) ==
    EqualFoldASCII(trimOWS(IF Index(value, 59) = 0 THEN value ELSE SubSeq(value, 1, Index(value, 59) - 1)), mediaType)

\* ContentParam: the first parameter of that name; the name and an unquoted value lose their blanks.
RECURSIVE ContentParam(_, _)
ContentParam(value, key) ==
    LET from   == trimOWS(SubSeq(value, Index(value, 59) + 1, Len(value)))
        eq     == Index(from, 61)
        got    == trimOWS(SubSeq(from, 1, eq - 1))
        v      == SubSeq(from, eq + 1, Len(from))
        quoted == v # <<>> /\ v[1] = 34
        close  == IndexFrom(v, 34, 2)
        semi   == Index(v, 59)
        param  == IF quoted THEN SubSeq(v, 2, close - 1) ELSE trimOWS(IF semi = 0 THEN v ELSE SubSeq(v, 1, semi - 1))
        rest   == IF quoted THEN SubSeq(v, close + 1, Len(v)) ELSE IF semi = 0 THEN <<>> ELSE SubSeq(v, semi, Len(v))
    IN  IF Index(value, 59) = 0 \/ eq = 0 \/ (quoted /\ close = 0) THEN <<>>
        ELSE IF EqualFoldASCII(got, key) THEN param
        ELSE ContentParam(rest, key)

\* partField: the value of the Content-Disposition line.
partField(hdr) ==
    LET lines == cutAll(hdr, LF)
        i == S!SelectInSeq(lines, LAMBDA l : Index(l, 58) > 1 /\ EqualFoldASCII(SubSeq(l, 1, Index(l, 58) - 1), <<Disposition>>))
    IN  IF i = 0 THEN <<>> ELSE SubSeq(lines[i], Index(lines[i], 58) + 1, Len(lines[i]))

\* Where mark first occurs in data from offset off on, or -1.
indexOf(data, mark, off) ==
    LET at == {i \in off .. Len(data) - Len(mark) : SubSeq(data, i + 1, i + Len(mark)) = mark}
    IN  IF at = {} THEN -1 ELSE CHOOSE i \in at : \A j \in at : i <= j

indexDelimiter(boundary, data) == indexOf(data, <<45, 45>> \o boundary, 0)
indexPartEnd(boundary, data) == indexOf(data, <<CR, LF, 45, 45>> \o boundary, 0)

Part(n, err, name, filename) == [n |-> n, err |-> err, name |-> name, filename |-> filename]

NextHeader(boundary, data) ==
    LET idx  == indexDelimiter(boundary, data)
        a    == idx + 2 + Len(boundary)
        nl   == IF a < Len(data) /\ data[a + 1] = CR THEN a + 1 ELSE a
        end  == indexOf(data, <<CR, LF, CR, LF>>, nl + 1)
        disp == partField(SubSeq(data, nl + 2, end + 2))
    IN  IF boundary = <<>> THEN Part(0, "no boundary", <<>>, <<>>)
        ELSE IF idx < 0 \/ a + 2 > Len(data) THEN Part(0, "nil", <<>>, <<>>)
        ELSE IF data[a + 1] = 45 /\ data[a + 2] = 45 THEN Part(0, "EOF", <<>>, <<>>)
        ELSE IF nl >= Len(data) THEN Part(0, "nil", <<>>, <<>>)
        ELSE IF data[nl + 1] # LF THEN Part(0, "bad delimiter", <<>>, <<>>)
        ELSE IF end < 0 THEN Part(0, "nil", <<>>, <<>>)
        ELSE Part(end + 4, "nil", ContentParam(disp, <<WordName>>), ContentParam(disp, <<WordFilename>>))

\* NextBody: bytes that may be the start of a delimiter are held back.
NextBody(boundary, data) ==
    LET idx  == indexPartEnd(boundary, data)
        hold == IF Len(boundary) + 3 > Len(data) THEN Len(data) ELSE Len(boundary) + 3
    IN  IF idx >= 0 THEN [n |-> idx, rest |-> idx + 2, done |-> TRUE]
        ELSE [n |-> Len(data) - hold, rest |-> Len(data) - hold, done |-> FALSE]
=============================================================================
