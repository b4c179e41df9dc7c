-------------------------------- MODULE HTTP --------------------------------
(***************************************************************************)
(* httphi.Router (http/httphi/router.go) with the exchanges it serves      *)
(* connections on, the goroutines that run them, a client at the far end   *)
(* of every connection, and an application that sets the router up, sets   *)
(* it up again and shuts it down while it serves.                          *)
(*                                                                         *)
(* The exchanges are 1, 2, ... for the ones a router with workers owns and *)
(* 10 + c for the one a router without a bound makes for connection c.     *)
(***************************************************************************)
EXTENDS Exchange, FiniteSets

CONSTANTS Scenarios,
          minRequestHeaderBuffer, minResponseHeaderBuffer,
          freelistMaxDepth,     \* how many exchanges wait in the free list
          MaxWaits,             \* polls before Configure gives up
          MaxGoros,             \* how many goroutines there can be
          Paths                 \* the paths patterns are compared on

VARIABLES scn,      \* what the clients send, what the application does, which handlers there are
          router,   \* Router
          exch,     \* the exchanges
          queues,   \* the channels of jobs, one for each setup with workers
          goros,    \* the goroutines
          conns,    \* the connections
          admin,    \* the application: its next call, and whether it waits in it
          kept,     \* an ExchangeRW a handler kept
          hist      \* what each connection carried, for the properties

vars == <<scn, router, exch, queues, goros, conns, admin, kept, hist>>

Conns == DOMAIN scn.reqs

Validate(cfg) ==
    /\ cfg.goros > 0 \/ cfg.goros = -1
    /\ cfg.kvs > 0
    /\ cfg.reqBuf >= minRequestHeaderBuffer
    /\ cfg.respBuf >= minResponseHeaderBuffer
    /\ cfg.reqBuf + cfg.respBuf <= maxBufLen

------------------------------------------------------------------------------
(* The client.                                                             *)

\* One call on the header a request is put together with.
compose(h, op) ==
    CASE op[1] = "method" -> SetMethod(h, op[2])
      [] op[1] = "target" -> SetRequestTarget(h, op[2])
      [] op[1] = "proto" -> SetProtocol(h, op[2])
      [] op[1] = "set" -> [h EXCEPT !.kv = Set(h.kv, op[2], op[3]).kv]
      [] op[1] = "setInt" -> [h EXCEPT !.kv = SetInt(h.kv, op[2], op[3]).kv]
      [] op[1] = "add" -> [h EXCEPT !.kv = appendPair(h.kv, op[2], op[3]).kv]

RECURSIVE composed(_, _)
composed(h, ops) == IF ops = <<>> THEN h ELSE composed(compose(h, ops[1]), Tail(ops))

\* What goes on the connection: raw bytes, or a header put together in a buffer of its own and a body.
wire(req) ==
    LET with(w) == IF w.err # "nil" THEN w ELSE Wire(w.b \o req.body, "nil")
    IN  IF req.ops = <<>> THEN Wire(req.body, "nil")
        ELSE with(AppendRequest(composed(NewHeader(NewKV(req.cap, req.kvs, req.grows)), req.ops)))

\* The pieces that reads give when s is cut before each position of cuts.
RECURSIVE pieces(_, _)
pieces(s, cuts) ==
    LET at == {i \in cuts : i \in 2 .. Len(s)}
        i  == CHOOSE i \in at : \A j \in at : i <= j
    IN  IF s = <<>> THEN <<>>
        ELSE IF at = {} THEN <<s>>
        ELSE <<SubSeq(s, 1, i - 1)>> \o pieces(SubSeq(s, i, Len(s)), {j - i + 1 : j \in at \ {i}})

NoConn == [state |-> "none", chunks |-> <<>>, eager |-> FALSE, room |-> 0, out |-> <<>>, closed |-> 0]

NoHist ==
    [sent |-> <<>>, setup |-> 0, sizes |-> {}, mixed |-> FALSE, served |-> 0, mux |-> 0, hit |-> 0, seen |-> <<>>, hdrLen |-> 0,
     read |-> <<>>, handed |-> <<>>, covered |-> 0, code |-> 200, fields |-> <<>>, refused |-> FALSE, answered |-> FALSE,
     body |-> <<>>, form |-> <<>>, parts |-> <<>>, cookies |-> <<>>, found |-> <<>>]

\* Where the n bytes of a request may be cut: nowhere, into single or three bytes, or at any one or two places.
cutsOf(how, n) ==
    LET places == 2 .. n
        once   == {{}} \union {{i} : i \in places}
    IN  CASE how = "whole" -> {{}}
          [] how = "once" -> once \union {places}
          [] how = "threes" -> once \union {{i \in places : i % 3 = 0}}
          [] how = "twice" -> once \union {places} \union {{i, j} : i, j \in places}

\* The connection a client dialled: its reads give the request in some pieces, and a write may fail.
Dialled(c, sent) ==
    {[NoConn EXCEPT !.chunks = pieces(sent, cuts), !.eager = eager, !.room = room] :
        cuts \in cutsOf(scn.reqs[c].cuts, Len(sent)), eager \in scn.reqs[c].eager, room \in scn.reqs[c].rooms}

\* What the client makes of the response.
Collect(out) ==
    LET got(r) == <<r.err, musttoken(r.h.kv, r.h.statusCode), pairs(r.h.kv), Body(r.h).b>>
    IN  got(ParseBytes(NewHeader(NewKV(0, 0, TRUE)), TRUE, out))

------------------------------------------------------------------------------
(* The router.                                                             *)

\* getExchLocked: the head of the free list, an idle exchange of the store, or a new one; 0 when there is none.
fromFreeList(c) == router.freeList # <<>> /\ ~exch[router.freeList[1]].acquired
idle == {e \in 1 .. router.store : ~exch[e].acquired}
getExchLocked(c) ==
    IF fromFreeList(c) THEN router.freeList[1]
    ELSE IF router.numGoro = 0 THEN 10 + c
    ELSE IF idle = {} THEN 0 ELSE CHOOSE e \in idle : \A f \in idle : e <= f

exchOf(e) == IF e \in DOMAIN exch THEN exch[e] ELSE ConfigureExchange(NewExchange, router.cfg)

NewGoro(gen, queue, mux, e, at) ==
    [gen |-> gen, queue |-> queue, mux |-> mux, exch |-> e, at |-> at, pc |-> 1, good |-> FALSE]

\* Configure holds the lock until it first finds an exchange busy.
locked == admin.waits = 0

\* The sizes exchanges may have: those of the last setup that had paths to serve, and of the ones refused
\* since, which change the sizes and leave the free list.
setups == {i \in DOMAIN scn.calls : /\ scn.calls[i].op = "Configure" /\ Validate(scn.calls[i].cfg)
                                    /\ i < admin.pc \/ (i = admin.pc /\ admin.waits >= 0)}
sizesNow ==
    {scn.calls[i].cfg.reqBuf + scn.calls[i].cfg.respBuf :
        i \in {j \in setups : \A k \in setups : MaxPathValues(scn.muxes[scn.calls[k].cfg.mux]) >= 0 => k <= j}}

\* Handle: ownership of the connection passes only with a nil error.
Handle(c) ==
    LET e     == getExchLocked(c)
        torn  == router.numGoro > 0 /\ router.pending = 0
        full  == router.numGoro > 0 /\ Len(queues[router.pending].jobs) >= queues[router.pending].cap
        taken == Acquire(exchOf(e), c)
        err   == IF torn THEN "torn down" ELSE IF e = 0 THEN "exhausted" ELSE IF full THEN "drop" ELSE "nil"
    IN  /\ conns[c].state = "none" /\ router.gen > 0 /\ ~locked
        /\ \E w \in {wire(scn.reqs[c])} : \E d \in Dialled(c, w.b) :
             /\ w.err = "nil"
             /\ conns' = [conns EXCEPT ![c] = [d EXCEPT !.state = IF err = "nil" THEN "open" ELSE "refused"]]
             /\ hist' = [hist EXCEPT ![c].sent = w.b, ![c].setup = router.cfg.mux, ![c].sizes = sizesNow]
        /\ IF torn \/ e = 0 THEN UNCHANGED <<router, exch>>
           ELSE /\ router' = [router EXCEPT !.freeList = IF fromFreeList(c) THEN Tail(@) ELSE @]
                /\ exch' = [f \in DOMAIN exch \union {e} |->
                              IF f # e THEN exch[f] ELSE IF err = "nil" THEN taken ELSE [taken EXCEPT !.acquired = FALSE]]
        /\ queues' = IF err = "nil" /\ router.numGoro > 0
                     THEN [queues EXCEPT ![router.pending].jobs = Append(@, e)] ELSE queues
        /\ goros' = IF err = "nil" /\ router.numGoro = 0
                    THEN Append(goros, NewGoro(router.gen, 0, router.cfg.mux, e, "serve")) ELSE goros
        /\ UNCHANGED <<scn, admin, kept>>

\* shutdownLocked: the channel is closed, and what it still holds is left to its workers.
shutQueues == IF router.pending = 0 THEN queues ELSE [queues EXCEPT ![router.pending].open = FALSE]

call == scn.calls[admin.pc]
returns == admin' = [pc |-> admin.pc + 1, waits |-> -1]

Shutdown ==
    /\ admin.waits < 0 /\ admin.pc <= Len(scn.calls) /\ call.op = "Shutdown"
    /\ router' = [router EXCEPT !.gen = @ + 1, !.pending = 0]
    /\ queues' = shutQueues
    /\ returns
    /\ UNCHANGED <<scn, exch, goros, conns, kept, hist>>

\* The part of Configure up to the wait for the exchanges of the setup before.
Configure ==
    LET cfg == call.cfg
        max == MaxPathValues(scn.muxes[cfg.mux])
        set == [router EXCEPT !.gen = @ + 1, !.pending = 0, !.cfg = [cfg EXCEPT !.pathVals = max]]
    IN  /\ admin.waits < 0 /\ admin.pc <= Len(scn.calls) /\ call.op = "Configure"
        /\ IF ~Validate(cfg) THEN returns /\ UNCHANGED <<router, queues>>
           ELSE /\ queues' = shutQueues
                /\ IF max < 0 THEN router' = [set EXCEPT !.cfg.pathVals = router.cfg.pathVals] /\ returns
                   ELSE IF cfg.goros < 0 THEN router' = [set EXCEPT !.freeList = <<>>, !.numGoro = 0] /\ returns
                   ELSE /\ router' = [set EXCEPT !.freeList = <<>>]
                        /\ admin' = [admin EXCEPT !.waits = 0]
        /\ UNCHANGED <<scn, exch, goros, conns, kept, hist>>

busy == \E e \in 1 .. router.store : exch[e].acquired

\* The exchanges are idle, or this is the first setup: their buffers are laid out again and workers start.
Install ==
    LET n == call.cfg.goros
    IN  /\ admin.waits >= 0
        /\ router.gen > 1 => ~busy
        /\ exch' = [e \in DOMAIN exch \union 1 .. n |->
                      IF e \in 1 .. n THEN ConfigureExchange(IF e \in DOMAIN exch THEN exch[e] ELSE NewExchange, router.cfg)
                      ELSE exch[e]]
        /\ queues' = Append(queues, [open |-> TRUE, jobs |-> <<>>, cap |-> n])
        /\ router' = [router EXCEPT !.pending = Len(queues) + 1, !.numGoro = n, !.store = n]
        /\ goros' = goros \o [i \in 1 .. n |-> NewGoro(router.gen, Len(queues) + 1, router.cfg.mux, 0, "idle")]
        /\ returns
        /\ UNCHANGED <<scn, conns, kept, hist>>

\* A poll that finds an exchange busy, with the lock released until the next; at last Configure fails.
Wait ==
    /\ admin.waits >= 0 /\ router.gen > 1 /\ busy
    /\ IF admin.waits >= MaxWaits THEN returns ELSE admin' = [admin EXCEPT !.waits = @ + 1]
    /\ UNCHANGED <<scn, router, exch, queues, goros, conns, kept, hist>>

------------------------------------------------------------------------------
(* The goroutines.                                                         *)

connOf(g) == exch[goros[g].exch].conn
closes(c, hijacked) == IF hijacked THEN [conns EXCEPT ![c].state = "handed"]
                       ELSE [conns EXCEPT ![c].state = "closed", ![c].closed = @ + 1]

\* goroWorker takes the next job, or ends with its channel.
Take(g) ==
    LET q == queues[goros[g].queue]
    IN  /\ goros[g].at = "idle"
        /\ \/ /\ q.jobs # <<>>
              /\ goros' = [goros EXCEPT ![g].exch = q.jobs[1], ![g].at = "check"]
              /\ queues' = [queues EXCEPT ![goros[g].queue].jobs = Tail(@)]
           \/ /\ q.jobs = <<>> /\ ~q.open
              /\ goros' = [goros EXCEPT ![g].at = "end"]
              /\ UNCHANGED queues
        /\ UNCHANGED <<scn, router, exch, conns, admin, kept, hist>>

\* Mutant: a job of a setup torn down is dropped as it is.
CheckMutant(g) ==
    /\ goros[g].at = "check"
    /\ IF goros[g].gen = router.gen
       THEN goros' = [goros EXCEPT ![g].at = "serve"]
       ELSE goros' = [goros EXCEPT ![g].at = "idle", ![g].exch = 0]
    /\ UNCHANGED <<scn, router, exch, queues, conns, admin, kept, hist>>

\* A job of a setup torn down is released unserved.
Check(g) ==
    /\ goros[g].at = "check"
    /\ IF goros[g].gen = router.gen
       THEN goros' = [goros EXCEPT ![g].at = "serve"] /\ UNCHANGED <<exch, conns>>
       ELSE /\ goros' = [goros EXCEPT ![g].at = "idle", ![g].exch = 0]
            /\ exch' = [exch EXCEPT ![goros[g].exch] = Release(@)]
            /\ conns' = closes(connOf(g), exch[goros[g].exch].hijacked)
    /\ UNCHANGED <<scn, router, queues, admin, kept, hist>>

\* What the peer is told when no handler runs, or 0.
answer(err, x) ==
    CASE err = "unsupported" -> IF x.hdr.proto.len = 0 THEN 400 ELSE 505
      [] err = "no proto" -> 400
      [] err = "bad proto" -> 505
      [] err = "not found" -> 404
      [] err \in {"too many", "exhausted"} -> 431
      [] OTHER -> IF err # "no progress" /\ free(x.hdr.kv) = 0 THEN 431 ELSE 0

\* httphi.Handle: the header is read and a handler found, or the answer given.
Serve(g) ==
    /\ goros[g].at = "serve"
    /\ \E c \in {connOf(g)} : \E r \in {receive(exch[goros[g].exch], conns[c])} :
       \E d \in {IF r.err = "nil" THEN dispatch(r.x, r.c, scn.muxes[goros[g].mux]) ELSE [r EXCEPT !.n = 0]} :
         /\ exch' = [exch EXCEPT ![goros[g].exch] = d.x]
         /\ conns' = [conns EXCEPT ![c] = d.c]
         /\ hist' = [hist EXCEPT ![c] = [@ EXCEPT
                !.served = @ + 1, !.mux = goros[g].mux, !.hit = d.n, !.hdrLen = r.x.hdr.off,
                !.seen = IF r.err = "nil" THEN <<Method(r.x.hdr), RequestTarget(r.x.hdr), pairs(r.x.hdr.kv)>> ELSE <<>>,
                !.code = IF d.n # 0 THEN 200 ELSE answer(d.err, r.x),
                !.answered = d.n = 0,
                !.fields = IF d.n = 0 /\ answer(d.err, r.x) = 431 
                           THEN <<<<<<1000 + ContentLength>>, <<48>>>>>> ELSE <<>>]]
         /\ goros' = [goros EXCEPT ![g].at = IF d.n = 0 THEN "free" ELSE "run", ![g].pc = 1]
    /\ UNCHANGED <<scn, router, queues, admin, kept>>

prog(g) == scn.muxes[goros[g].mux][exch[goros[g].exch].pattern].prog

\* The call a handler makes: the exchange and the connection after it, and what it is remembered by.
Step(x, c, h) == [x |-> x, c |-> c, h |-> h]

staged(x, y, h, line) ==
    IF y.respHeaderLen = x.respHeaderLen THEN [h EXCEPT !.refused = @ \/ ~x.headerWritten]
    ELSE IF x.headerWritten THEN h ELSE [h EXCEPT !.fields = Append(@, line)]

\* How much of what follows the request header lies under the response header.
covered(y) == y.respHeaderLen + (IF y.headerWritten THEN 2 ELSE 0)

Call(x, c, h, op) ==
    LET read(r) == Step(r.x, r.c, [h EXCEPT !.read = @ \o r.b])
        stage(y) == Step(y, c, staged(x, y, h, <<op[2], op[3]>>))
        header(r) == Step(r.x, r.c, [h EXCEPT !.code = IF x.headerWritten THEN @ ELSE op[2], !.answered = TRUE])
        write(r) == Step(r.x, r.c, [h EXCEPT !.answered = TRUE, !.body = IF x.respErr = "nil" THEN @ \o op[2] ELSE @])
        respond(r) == Step(r.x, r.c, [h EXCEPT !.answered = TRUE, !.code = op[2], !.body = op[4],
                                               !.refused = r.err = "buffer full",
                                               !.fields = <<<<<<1000 + ContentType>>, op[3]>>,
                                                            <<<<1000 + ContentLength>>, digits(Len(op[4]))>>,
                                                            <<<<1000 + Connection>>, <<WordClose>>>>>>])
        decoded(r, d) == Step(r.x, r.c, [h EXCEPT !.form = IF r.err # "nil" THEN <<r.err>> ELSE <<d.err, pairs(d.kv)>>])
        form(r) == decoded(r, FormDecode(r.f))
        sinks(r) == Step(r.x, r.c, [h EXCEPT !.parts = <<r.err, r.parts>>])
        cookie(r) == Step(x, c, [h EXCEPT !.cookies = <<r.err, pairs(r.kv)>>])
        hijack(r) == Step(r.x, c, [h EXCEPT !.handed = r.b])
    IN  CASE op[1] = "read" -> read(ReadBody(x, c, op[2]))
          [] op[1] = "stage" -> stage(StageHeader(x, op[2], op[3]))
          [] op[1] = "status" -> Step(StageStatus(x, op[2]), c,
                                      IF x.headerWritten \/ op[2] >= 1000 THEN h ELSE [h EXCEPT !.code = op[2]])
          [] op[1] = "header" -> header(WriteHeader(x, c, op[2]))
          [] op[1] = "write" -> write(WriteBody(x, c, op[2]))
          [] op[1] = "respond" -> respond(Respond(x, c, op[2], op[3], op[4]))
          [] op[1] = "form" -> form(RequestParseForm(x, c, NewKV(op[2], op[3], op[2] = 0), TRUE, op[4]))
          [] op[1] = "parts" -> sinks(ReadMultiparts(x, c, op[2]))
          [] op[1] = "cookie" -> cookie(RequestParseCookie(x, NewKV(0, 0, TRUE)))
          [] op[1] = "query" -> Step(x, c, [h EXCEPT !.found = Append(@, <<op[2], RequestQueryAppend(x, op[2])>>)])
          [] op[1] = "hijack" -> hijack(HijackRaw(x))
          [] op[1] = "keep" -> Step(x, c, h)

Run(g) ==
    LET e == goros[g].exch
        c == connOf(g)
    IN  /\ goros[g].at = "run" /\ goros[g].pc <= Len(prog(g)) /\ prog(g)[goros[g].pc][1] # "stale"
        /\ \E s \in {Call(exch[e], conns[c], hist[c], prog(g)[goros[g].pc])} :
             /\ exch' = [exch EXCEPT ![e] = s.x]
             /\ conns' = [conns EXCEPT ![c] = s.c]
             /\ hist' = [hist EXCEPT ![c] = [s.h EXCEPT !.covered = covered(s.x)]]
        /\ kept' = IF prog(g)[goros[g].pc][1] = "keep" THEN [exch |-> e, gen |-> exch[e].gen, conn |-> c] ELSE kept
        /\ goros' = [goros EXCEPT ![g].pc = @ + 1]
        /\ UNCHANGED <<scn, router, queues, admin>>

\* Mutant: a handle is good as long as its exchange serves.
sameGenMutant(rw) == TRUE

\* ExchangeRW.IsValid loads the generation, and then whether the exchange is acquired.
sameGen(rw) == exch[rw.exch].gen = rw.gen

\* A handler writes through the handle an earlier one kept, if there is one: Write loads the generation of
\* the exchange, then whether it is acquired, and then writes, to the connection the exchange has by then.
\* The generation of a kept handle was good if its exchange still had the connection; a connection that is
\* written to by a call that began so is mixed.  A write to an exchange without a connection panics.
Stale(g) ==
    LET e  == kept.exch
        x  == exch[e]
        op == prog(g)[goros[g].pc]
        returned == goros' = [goros EXCEPT ![g].at = "run", ![g].pc = @ + 1]
    IN  /\ \/ /\ goros[g].at = "run" /\ goros[g].pc <= Len(prog(g)) /\ op[1] = "stale"
              /\ IF e = 0 THEN returned ELSE IF ~sameGen(kept) THEN returned
                 ELSE goros' = [goros EXCEPT ![g].at = "loaded", ![g].good = x.conn = kept.conn]
              /\ UNCHANGED <<exch, conns, hist>>
           \/ /\ goros[g].at = "loaded"
              /\ IF x.acquired THEN goros' = [goros EXCEPT ![g].at = "valid"] ELSE returned
              /\ UNCHANGED <<exch, conns, hist>>
           \/ /\ goros[g].at = "valid" /\ x.conn = 0
              /\ IF x.respErr = "nil" THEN goros' = [goros EXCEPT ![g].at = "panic"] ELSE returned
              /\ UNCHANGED <<exch, conns, hist>>
           \/ /\ goros[g].at = "valid" /\ x.conn # 0
              /\ \E r \in {WriteBody(x, conns[x.conn], op[2])} :
                    exch' = [exch EXCEPT ![e] = r.x] /\ conns' = [conns EXCEPT ![x.conn] = r.c]
              /\ hist' = IF x.conn = kept.conn
                         THEN [hist EXCEPT ![x.conn].answered = TRUE,
                                           ![x.conn].body = IF x.respErr = "nil" THEN @ \o op[2] ELSE @]
                         ELSE [hist EXCEPT ![x.conn].mixed = @ \/ goros[g].good]
              /\ returned
        /\ UNCHANGED <<scn, router, queues, admin, kept>>

\* The handler returned: a header it did not write is written, unless it took the connection.
Finish(g) ==
    LET e == goros[g].exch
        c == connOf(g)
    IN  /\ goros[g].at = "run" /\ goros[g].pc > Len(prog(g))
        /\ IF exch[e].hijacked THEN UNCHANGED <<exch, conns, hist>>
           ELSE \E r \in {FlushHeader(exch[e], conns[c])} :
                  /\ exch' = [exch EXCEPT ![e] = r.x]
                  /\ conns' = [conns EXCEPT ![c] = r.c]
                  /\ hist' = [hist EXCEPT ![c].answered = TRUE]
        /\ goros' = [goros EXCEPT ![g].at = "free"]
        /\ UNCHANGED <<scn, router, queues, admin, kept>>

\* Mutant: an exchange of a setup torn down goes back to the free list too.
FreeMutant(g) ==
    LET e == goros[g].exch
    IN  /\ goros[g].at = "free" /\ ~locked
        /\ router' = [router EXCEPT !.freeList = IF Len(@) < freelistMaxDepth THEN <<e>> \o @ ELSE @]
        /\ exch' = [exch EXCEPT ![e] = Release(@)]
        /\ conns' = closes(connOf(g), exch[e].hijacked)
        /\ goros' = [goros EXCEPT ![g].exch = 0, ![g].at = IF goros[g].queue = 0 THEN "end" ELSE "idle"]
        /\ UNCHANGED <<scn, queues, admin, kept, hist>>

\* freeExch: an exchange of the present setup goes to the head of the free list while there is room.
Free(g) ==
    LET e == goros[g].exch
    IN  /\ goros[g].at = "free" /\ ~locked
        /\ router' = [router EXCEPT !.freeList =
                         IF goros[g].gen = router.gen /\ Len(@) < freelistMaxDepth THEN <<e>> \o @ ELSE @]
        /\ exch' = [exch EXCEPT ![e] = Release(@)]
        /\ conns' = closes(connOf(g), exch[e].hijacked)
        /\ goros' = [goros EXCEPT ![g].exch = 0, ![g].at = IF goros[g].queue = 0 THEN "end" ELSE "idle"]
        /\ UNCHANGED <<scn, queues, admin, kept, hist>>

------------------------------------------------------------------------------
Init ==
    /\ scn \in Scenarios
    /\ router = [gen |-> 0, numGoro |-> 0, pending |-> 0, store |-> 0, freeList |-> <<>>,
                 cfg |-> [goros |-> 0, reqBuf |-> 0, respBuf |-> 0, kvs |-> 0, mux |-> 0, pathVals |-> 0]]
    /\ exch = <<>>
    /\ queues = <<>>
    /\ goros = <<>>
    /\ conns = [c \in Conns |-> NoConn]
    /\ admin = [pc |-> 1, waits |-> -1]
    /\ kept = [exch |-> 0, gen |-> 0, conn |-> 0]
    /\ hist = [c \in Conns |-> NoHist]

GoroStep(g) == Take(g) \/ Check(g) \/ Serve(g) \/ Run(g) \/ Stale(g) \/ Finish(g) \/ Free(g)

\* A goroutine that panics ends the program.
crashed == \E g \in DOMAIN goros : goros[g].at = "panic"

Next ==
    /\ ~crashed
    /\ \/ \E c \in Conns : Handle(c)
       \/ Shutdown \/ Configure \/ Install \/ Wait
       \/ \E g \in DOMAIN goros : GoroStep(g)

\* Whether goroutine g can take a step, and whether the application is in a call.
runs(g) ==
    /\ g \in DOMAIN goros /\ ~crashed
    /\ \/ goros[g].at \in {"check", "serve", "run", "loaded", "valid", "free"}
       \/ goros[g].at = "idle" /\ (queues[goros[g].queue].jobs # <<>> \/ ~queues[goros[g].queue].open)

\* Every goroutine that can run is run until it waits, and a call of the application is taken to its end.
Fair == (\A g \in 1 .. MaxGoros : []<>~runs(g)) /\ []<>(admin.waits < 0 \/ crashed)

Spec == Init /\ [][Next]_vars /\ Fair

------------------------------------------------------------------------------
(* What is checked.                                                        *)

lines(kvs) == S!FlattenSeq([i \in DOMAIN kvs |-> kvs[i][1] \o <<58>> \o kvs[i][2] \o <<CR, LF>>])
response(h) == statusLine(h.code) \o lines(h.fields) \o <<CR, LF>> \o h.body
held(c) == {e \in DOMAIN exch : exch[e].acquired /\ exch[e].conn = c}
isPrefix(s, t) == Len(s) <= Len(t) /\ s = SubSeq(t, 1, Len(s))

\* What goes out on a connection is nothing, or a prefix of one response: the status line staged last before
\* the header went out, the fields that fitted, and the bodies in the order they were written.  It is all of
\* it unless the connection failed, and nothing at all when a field did not fit; and the client that gets it
\* whole parses it back.  Nothing a handler writes through a handle kept from another request is in it, but
\* for a call that began while that request had the exchange and was overtaken by its release and the next
\* Acquire (FlushHeader, WriteBody, StageHeader, Respond, handleError, ParseBytes, ExchangeRW.Write).
ResponseIsWhole ==
    \A c \in Conns :
        LET h == hist[c]
            k == conns[c]
        IN  h.mixed \/
            IF ~h.answered \/ h.refused \/ h.code = 0 THEN k.out = <<>>
            ELSE /\ isPrefix(k.out, response(h))
                 /\ k.room > 0 => k.out = response(h)
                 /\ k.state = "closed" /\ k.out = response(h) =>
                        Collect(k.out) = <<"nil", digits(h.code), [i \in DOMAIN h.fields |-> <<TRUE>> \o h.fields[i]], h.body>>

\* The values ops leave for key: a Set replaces them all, an Add comes after.
RECURSIVE valuesOf(_, _)
valuesOf(ops, key) ==
    LET op == ops[Len(ops)]
        before == valuesOf(SubSeq(ops, 1, Len(ops) - 1), key)
        val == IF op[1] = "setInt" THEN digits(op[3]) ELSE op[3]
    IN  IF ops = <<>> THEN <<>>
        ELSE IF op[1] \notin {"set", "setInt", "add"} THEN before
        ELSE IF op[2] # key THEN before
        ELSE IF op[1] = "add" THEN Append(before, val) ELSE <<val>>

lastOf(ops, what) == LET s == SelectSeq(ops, LAMBDA op : op[1] = what) IN s[Len(s)][2]
valuesIn(ps, key) == LET s == SelectSeq(ps, LAMBDA p : p[2] = key) IN [i \in DOMAIN s |-> s[i][3]]

\* A handler sees the method, the target and, field by field, the values that the client put together, however
\* the bytes were cut into reads and however often the client wrote over its fields (Set, reuseOrAppend,
\* AppendRequest against TryParse, next).
ServedAsSent ==
    \A c \in Conns :
        LET ops == scn.reqs[c].ops
            seen == hist[c].seen
        IN  seen # <<>> /\ ops # <<>> =>
                /\ seen[1] = lastOf(ops, "method") /\ seen[2] = lastOf(ops, "target")
                /\ \A i \in DOMAIN ops : Len(ops[i]) = 3 => valuesIn(seen[3], ops[i][2]) = valuesOf(ops, ops[i][2])
                /\ \A i \in DOMAIN seen[3] : valuesOf(ops, seen[3][i][2]) # <<>>

\* The body a handler reads, and what it is handed with the connection, is the body that was sent, in order
\* and without a gap; only bytes that the response header was written over can differ (ReadBody, HijackRaw).
BodyInOrder ==
    \A c \in Conns :
        LET h    == hist[c]
            body == SubSeq(h.sent, h.hdrLen + 1, Len(h.sent))
            got  == h.read \o h.handed
            left == Len(S!FlattenSeq(conns[c].chunks))
        IN  h.hit # 0 /\ h.form = <<>> /\ h.parts = <<>> =>
                /\ \A i \in DOMAIN got : got[i] = body[i] \/ i <= h.covered
                /\ h.handed # <<>> => Len(got) + left = Len(body)
                /\ h.handed = <<>> => \A e \in held(c) : Len(got) + exch[e].respRemains + left = Len(body)

\* A form has the pairs of the query and of the body, decoded and in the order asked for, however the body
\* arrived; a query value is the first of its key; and the cookies are those sent (RequestParseForm, Decode).
FormIsExact ==
    \A c \in Conns :
        LET h == hist[c]
            q == scn.reqs[c].pairs
        IN  /\ h.form # <<>> /\ h.form[1] = "nil" => h.form[2] = [i \in DOMAIN q |-> <<TRUE>> \o q[i]]
            /\ h.cookies # <<>> => h.cookies = <<"nil", scn.reqs[c].cookies>>
            /\ \A i \in DOMAIN h.found :
                 LET first == S!SelectInSeq(q, LAMBDA p : p[1] = h.found[i][1])
                 IN  h.found[i][2] = IF first = 0 THEN Wire(<<>>, "absent") ELSE Wire(q[first][2], "nil")

\* The parts of a multipart body reach their sinks whole and closed, however the body arrived and whatever the
\* size of the buffer; when the buffer is too small or the body ends early, what was given is a prefix of them.
PartsAreExact ==
    \A c \in Conns :
        LET got == hist[c].parts[2]
            ref == scn.reqs[c].parts
        IN  hist[c].parts # <<>> =>
                /\ hist[c].parts[1] = "nil" => got = ref
                /\ Len(got) <= Len(ref)
                /\ \A i \in DOMAIN got : /\ got[i].name = ref[i].name /\ got[i].filename = ref[i].filename
                                         /\ isPrefix(got[i].sink, ref[i].sink)
                                         /\ got[i].closed => got[i] = ref[i]
                                         /\ i < Len(got) => got[i].closed

\* A handler is given the request that the client made: its line and fields, its form and cookies, its parts.
RequestIsExact == ServedAsSent /\ FormIsExact /\ PartsAreExact

\* Which paths a pattern stands for, said of the segments at once.
fixed(pat) == {i \in DOMAIN pat : \A j \in 1 .. i : pat[j].kind \in {"lit", "one"} /\ ~(j = Len(pat) /\ pat[j].text = <<>>)}
covers(pat, path) ==
    LET n == Cardinality(fixed(pat))
        last == pat[n + 1]
    IN  /\ Len(path) >= n
        /\ \A i \in fixed(pat) : IF pat[i].kind = "lit" THEN path[i] = pat[i].text ELSE path[i] # <<>>
        /\ IF n = Len(pat) THEN Len(path) = n
           ELSE IF last.kind = "end" THEN n + 1 = Len(pat) /\ Len(path) = n + 1 /\ path[n + 1] = <<>>
           ELSE Len(path) > n

valueOf(pat, path, name) ==
    LET at == {i \in DOMAIN pat : named(pat[i]) /\ pat[i].text = name}
        i  == CHOOSE i \in at : \A j \in at : i <= j
    IN  IF at = {} THEN <<>> ELSE IF pat[i].kind = "one" THEN path[i] ELSE text(SubSeq(path, i, Len(path)))

pathOf(target) == LET q == Index(target, 63) IN cutAll(Tail(IF q = 0 THEN target ELSE SubSeq(target, 1, q - 1)), 47)
eligible(m, seen) ==
    {i \in DOMAIN m : /\ seen[2][1] = 47
                      /\ m[i].method \in {MethUndefined, MethodFrom(seen[1])}
                      /\ covers(m[i].pat, pathOf(seen[2]))}
narrower(p, q) ==
    /\ \A path \in Paths : covers(p, path) => covers(q, path)
    /\ \E path \in Paths : covers(q, path) /\ ~covers(p, path)

\* Connection c was given to its handler, or answered without one, and nothing more happened.
begins(c) == \E g \in DOMAIN goros : goros[g].at \in {"run", "free"} /\ goros[g].pc = 1 /\ c = exch[goros[g].exch].conn

\* A request is served by a registration that covers its path, by none that a narrower one could have served,
\* and by the first of those that cover the same paths; it is answered 404 only when none covers it
\* (LookupHandler, patternSpecificity).
NarrowestWins ==
    \A c \in Conns :
        LET h == hist[c]
            m == scn.muxes[h.mux]
            fit == eligible(m, h.seen)
        IN  h.seen # <<>> /\ begins(c) =>
                IF h.hit = 0 THEN fit = {}
                ELSE /\ h.hit \in fit
                     /\ \A i \in fit : ~narrower(m[i].pat, m[h.hit].pat) /\ (m[i].pat = m[h.hit].pat => h.hit <= i)

\* The values a handler with wildcards in its pattern reads are the parts of the path its own pattern binds.
\* A handler without any is not given nothing, but what the scan left behind: each value it reads is one that
\* a registration before it, which serves the path too and was beaten, binds to that name.
ValuesAreTheWinners ==
    \A g \in DOMAIN goros :
        LET x == exch[goros[g].exch]
            m == scn.muxes[goros[g].mux]
            w == m[x.pattern].pat
            seen == hist[x.conn].seen
            bound(i, key) == valueOf(m[i].pat, pathOf(seen[2]), key)
            beaten == {i \in eligible(m, seen) : i < x.pattern}
        IN  goros[g].at = "run" =>
                \A key \in {s.text : s \in {s \in UNION {S!ToSet(m[i].pat) : i \in DOMAIN m} : named(s)}} :
                    IF isWildcardPattern(w) THEN PathValue(x, key) = bound(x.pattern, key)
                    ELSE PathValue(x, key) \in {<<>>} \union {bound(i, key) : i \in beaten}

\* A request goes to the narrowest registration for its path, with the values of that registration when it
\* has wildcards, and with none but those of the ones it beat when it has not.
RoutedRightly == NarrowestWins /\ ValuesAreTheWinners

queued == S!FlattenSeq([q \in DOMAIN queues |-> queues[q].jobs])
running == SelectSeq([g \in DOMAIN goros |-> goros[g].exch], LAMBDA e : e # 0)

\* An accepted connection is held by one exchange, which one goroutine or one queue has, until it is closed
\* once or handed over; a refused one is left as it was; and the exchanges that wait in the free list are
\* idle, once each, and of the size of the present setup.  A connection is served at most once, by the handlers
\* and in buffers of the size it was accepted under, however often the router is set up again.  A Configure
\* refused for a Mux without paths leaves two sizes in use, its own and that of the setup before, until the
\* next one (Handle, getExchLocked, freeExch, Configure, goroWorker).
EveryConnectionHasItsExchange ==
    /\ S!IsInjective(queued \o running \o router.freeList)
    /\ \A i \in DOMAIN queued : exch[queued[i]].acquired
    /\ \A i \in DOMAIN running : exch[running[i]].acquired
    /\ Len(router.freeList) <= freelistMaxDepth
    /\ \A i \in DOMAIN router.freeList :
         LET x == exch[router.freeList[i]]
         IN  ~x.acquired /\ Len(x.rawbuf) \in sizesNow
    /\ \A c \in Conns :
         /\ Cardinality(held(c)) = IF conns[c].state = "open" THEN 1 ELSE 0
         /\ conns[c].closed = IF conns[c].state = "closed" THEN 1 ELSE 0
         /\ conns[c].state = "refused" => conns[c].out = <<>> /\ S!FlattenSeq(conns[c].chunks) = hist[c].sent
         /\ hist[c].served <= 1
         /\ hist[c].served = 1 => hist[c].mux = hist[c].setup
         /\ \A e \in held(c) : Len(exch[e].rawbuf) \in hist[c].sizes

\* In the end every accepted connection was closed or handed over, whatever the application did to the router
\* meanwhile, and every goroutine of a setup torn down is gone; unless the program ended because a kept handle
\* was written to after its exchange was released (goroWorker, goroHandle, Configure, Shutdown).
EveryConnectionEnds ==
    <>[](\/ crashed
         \/ /\ \A c \in DOMAIN conns : conns[c].state # "open"
            /\ \A g \in DOMAIN goros : goros[g].gen = router.gen \/ goros[g].at = "end")
=============================================================================
