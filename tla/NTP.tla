--------------------------------- MODULE NTP ----------------------------------
(***************************************************************************)
(* ntp.Client (ntp/client.go), which measures its clock's offset in two    *)
(* exchanges, and ntp.Server (ntp/server.go).  Timestamps are integers;    *)
(* the division by two rounds toward zero, as Go's does.                   *)
(***************************************************************************)
EXTENDS Integers, Sequences

ntpNewClient == [state |-> "closed", connID |-> 0, t |-> <<0, 0, 0, 0>>, offset1 |-> 0, rtt1 |-> 0]

\* Mutant: the connection identifier stays.
ntpResetMutant(c) == [ntpNewClient EXCEPT !.connID = 1, !.state = "send1"]

ntpReset(c) == [ntpNewClient EXCEPT !.connID = c.connID + 1, !.state = "send1"]

IsDone(c) == c.state = "done"

ntpSends(c) == c.state \in {"send1", "send2"}

\* The request carries the client's clock, and the client keeps it.
ntpEncapsulate(c, now) ==
    [c EXCEPT !.t[1] = now, !.state = IF @ = "send1" THEN "await1" ELSE "await2"]

ntpRequest(now) == [kind |-> "ntpRequest", xmt |-> now]

half(x) == IF x >= 0 THEN x \div 2 ELSE -((-x) \div 2)

offset(t) == half((t[2] - t[1]) + (t[3] - t[4]))
rtt(t)    == (t[4] - t[1]) - (t[3] - t[2])

\* A packet that does not echo the request's time, or has no time of its own.
bogus(c, m) == m.xmt = m.orig \/ m.orig # c.t[1]

ntpDemux(c, m, now) ==
    LET t == <<c.t[1], m.rec, m.xmt, now>>
    IN  IF c.state \notin {"await1", "await2"} \/ m.kind # "ntpResponse" \/ bogus(c, m) THEN c
        ELSE IF c.state = "await1"
             THEN [c EXCEPT !.t = t, !.offset1 = offset(t), !.rtt1 = rtt(t), !.state = "send2"]
             ELSE [c EXCEPT !.t = t, !.state = "done"]

Offset(c)         == IF IsDone(c) THEN half(c.offset1 + offset(c.t)) ELSE 0
RoundTripDelay(c) == IF IsDone(c) THEN half(c.rtt1 + rtt(c.t)) ELSE -1

\* The server queues requests and answers the newest; it stamps both of its times when it answers.
ntpServerDemux(pending, m, cap) ==
    IF m.kind # "ntpRequest" \/ Len(pending) = cap THEN pending ELSE Append(pending, m.xmt)

\* Mutant: the oldest request is answered.
ntpServerResponseMutant(pending, now) ==
    [kind |-> "ntpResponse", orig |-> pending[1], rec |-> now, xmt |-> now]

ntpServerResponse(pending, now) ==
    [kind |-> "ntpResponse", orig |-> pending[Len(pending)], rec |-> now, xmt |-> now]

ntpServerEncapsulate(pending) == SubSeq(pending, 1, Len(pending) - 1)

-----------------------------------------------------------------------------
(***************************************************************************)
(* Network Time Security (x/nts): the key exchange of ke.go and            *)
(* ke_server.go over a TLS stream of records, and the client and server    *)
(* that wrap NTP with unique identifiers, cookies and sealed fields.       *)
(* A cookie is its identity and its length; a key is the session it was    *)
(* exported from, the algorithm and the direction; a sealed field holds    *)
(* the key, what it authenticates and what it encrypts.                    *)
(***************************************************************************)

CONSTANTS MaxCookies,   \* 8 in the code.
          MaxCookieLen  \* 256 in the code.

DefaultAlg == 15    \* AlgAESSIVCMAC256
NTPv4 == 0          \* ntpv4ProtocolID
NoTLS13 == 0        \* A session of an older TLS.
MaxPending == 4     \* ntp.Server's default.

Range(s) == {s[i] : i \in DOMAIN s}

-----------------------------------------------------------------------------
(* The key exchange.                                                       *)

Record(critical, type, body) == [critical |-> critical, type |-> type, body |-> body]
EndOfMessage == Record(TRUE, "end", 0)

offeredBy(algs) == IF algs = <<>> THEN <<DefaultAlg>> ELSE algs

\* sendKERequest.
KERequest(algs) ==
    <<Record(TRUE, "proto", NTPv4), Record(TRUE, "algs", offeredBy(algs)), EndOfMessage>>

\* negotiateAlg: the client's first algorithm that the server has, or 0.
negotiateAlg(clientOffered, serverSupported) ==
    LET both == {i \in DOMAIN clientOffered : clientOffered[i] \in Range(serverSupported)}
    IN  IF both = {} THEN 0 ELSE clientOffered[CHOOSE i \in both : \A j \in both : i <= j]

\* sendKEResponse.
KEResponse(chosen, cookies, port) ==
    <<Record(TRUE, "proto", NTPv4), Record(TRUE, "alg", chosen)>>
      \o [i \in DOMAIN cookies |-> Record(FALSE, "cookie", cookies[i])]
      \o (IF port = 0 THEN <<>> ELSE <<Record(FALSE, "port", port)>>)
      \o <<EndOfMessage>>

NoSecrets == [alg |-> 0, cookies |-> <<>>, port |-> 0, c2s |-> <<>>, s2c |-> <<>>]

\* DeriveKeys: one key a direction, bound to the session and the algorithm.
DeriveKeys(secrets, session) ==
    [secrets EXCEPT !.c2s = <<session, secrets.alg, "c2s">>, !.s2c = <<session, secrets.alg, "s2c">>]

KERet(secrets, err) == [secrets |-> secrets, err |-> err]

\* A cookie is stored whole, while there is room.
storeCookie(cookies, c) ==
    IF Len(cookies) < MaxCookies /\ c.len <= MaxCookieLen THEN Append(cookies, c) ELSE cookies

\* readKEResponse, as a function of how many records were read: the stream may end early.
readKEResponse(recs) ==
    LET took[n \in 0 .. Len(recs)] ==
            IF n = 0 THEN KERet(NoSecrets, "more")
            ELSE LET was == took[n - 1]
                     s   == was.secrets
                     r   == recs[n]
                     on(sec) == KERet(sec, "more")
                 IN  IF was.err # "more" THEN was
                     ELSE CASE r.type = "end"    -> KERet(s, IF s.alg = 0 THEN "config" ELSE "nil")
                            [] r.type = "error"  -> KERet(s, "field")
                            [] r.type = "proto"  -> IF r.body # NTPv4 THEN KERet(s, "unsupported") ELSE on(s)
                            [] r.type = "alg"    -> on([s EXCEPT !.alg = r.body])
                            [] r.type = "cookie" -> on([s EXCEPT !.cookies = storeCookie(@, r.body)])
                            [] r.type = "port"   -> on([s EXCEPT !.port = r.body])
                            [] OTHER             -> IF r.critical THEN KERet(s, "unsupported") ELSE on(s)
        last == took[Len(recs)]
    IN  IF last.err = "more" THEN KERet(last.secrets, "eof") ELSE last

\* readKERequest of a whole request: what it offers; the records it does not know are skipped.
readKERequest(recs) ==
    LET offered[n \in 0 .. Len(recs)] ==
            IF n = 0 THEN <<>>
            ELSE offered[n - 1] \o (IF recs[n].type = "algs" THEN recs[n].body ELSE <<>>)
    IN  IF \E r \in Range(recs) : r.type = "proto" /\ r.body # NTPv4
        THEN [algs |-> <<>>, err |-> "unsupported"]
        ELSE [algs |-> offered[Len(recs)], err |-> "nil"]

min(a, b) == IF a < b THEN a ELSE b

\* HandleKE: what the server keeps, and what it writes.  It cuts the cookies it cannot keep.
HandleKE(request, cfg, session) ==
    LET req    == readKERequest(request)
        chosen == negotiateAlg(req.algs, offeredBy(cfg.algs))
        kept   == [i \in 1 .. min(Len(cfg.cookies), MaxCookies) |->
                     [cfg.cookies[i] EXCEPT !.len = min(@, MaxCookieLen)]]
        refuses(err, out) == [secrets |-> NoSecrets, err |-> err, out |-> out]
    IN  IF session = NoTLS13 THEN refuses("config", <<>>)
        ELSE IF req.err # "nil" THEN refuses(req.err, <<>>)
        ELSE IF chosen = 0 THEN refuses("unsupported", <<Record(TRUE, "error", 0), EndOfMessage>>)
        ELSE [secrets |-> DeriveKeys([NoSecrets EXCEPT !.alg = chosen, !.cookies = kept], session),
              err |-> "nil", out |-> KEResponse(chosen, cfg.cookies, cfg.port)]

\* PerformKE, given what came back on the stream.
PerformKE(response, session) ==
    LET r == readKEResponse(response)
    IN  IF session = NoTLS13 THEN KERet(NoSecrets, "config")
        ELSE IF r.err # "nil" THEN r ELSE KERet(DeriveKeys(r.secrets, session), "nil")

-----------------------------------------------------------------------------
(* Extension fields.  A value is padded to four bytes on the wire.         *)

padded(len) == ((len + 3) \div 4) * 4

Field(type, value) == [type |-> type, value |-> value]
CookieField(c) == Field("cookie", [c EXCEPT !.len = padded(@)])

\* The fields before the first malformed one.
wellFormed(ext) ==
    LET bad == {i \in DOMAIN ext : ext[i].type = "bad"}
    IN  IF bad = {} THEN ext ELSE SubSeq(ext, 1, (CHOOSE i \in bad : \A j \in bad : i <= j) - 1)

firstOf(ext, type) ==
    LET at == {i \in DOMAIN wellFormed(ext) : ext[i].type = type}
    IN  IF at = {} THEN 0 ELSE CHOOSE i \in at : \A j \in at : i <= j

findAuthField(ext) == firstOf(ext, "auth")

\* The authenticator seals plain and authenticates the header and the fields before it.
Seal(key, plain, ntp, ext) == Field("auth", [key |-> key, plain |-> plain, aad |-> <<ntp, ext>>])

Opens(key, m, at) ==
    /\ m.ext[at].value.key = key
    /\ m.ext[at].value.aad = <<m.ntp, SubSeq(m.ext, 1, at - 1)>>

-----------------------------------------------------------------------------
(* The client.                                                             *)

NoUID == 0

newClient == [connID |-> 0, ntp |-> ntpNewClient, secrets |-> NoSecrets, uid |-> NoUID, cookies |-> <<>>]

\* Client.Reset with what the key exchange gave; it needs one cookie at least.
ClientReset(c, secrets) ==
    IF secrets.cookies = <<>> THEN [client |-> c, err |-> "config"]
    ELSE [client |-> [newClient EXCEPT !.connID = c.connID + 1, !.ntp = ntpReset(ntpNewClient),
                                       !.secrets = secrets, !.cookies = secrets.cookies],
          err |-> "nil"]

sends(c) == c.cookies # <<>> /\ ntpSends(c.ntp)

\* Mutant: the cookie that was sent stays in the pool.
popCookieMutant(cookies) == cookies

\* The newest cookie leaves the pool.
popCookie(cookies) == SubSeq(cookies, 1, Len(cookies) - 1)

\* Client.Encapsulate with identifier uid.  fails is where the random source fails: NTP waits
\* for an answer all the same, and at "nonce" the identifier is replaced and the cookie is gone.
Encapsulate(c, now, uid, fails) ==
    [c EXCEPT !.ntp = ntpEncapsulate(@, now),
              !.uid = IF fails = "uid" THEN @ ELSE uid,
              !.cookies = IF fails = "uid" THEN @ ELSE popCookie(@)]

Request(c, now, uid) ==
    LET ext == <<Field("uid", uid), CookieField(c.cookies[Len(c.cookies)])>>
    IN  [kind |-> "nts", ntp |-> ntpRequest(now),
         ext |-> Append(ext, Seal(c.secrets.c2s, <<>>, ntpRequest(now), ext))]

verifyUniqueID(c, ext) ==
    LET at == firstOf(ext, "uid")
    IN  at # 0 /\ ext[at].value = c.uid

\* Stores the cookies of the sealed fields, while there is room.
ingestAuthPayload(cookies, plain) ==
    LET took[n \in 0 .. Len(plain)] ==
            IF n = 0 THEN cookies
            ELSE IF plain[n].type = "cookie" THEN storeCookie(took[n - 1], plain[n].value)
            ELSE took[n - 1]
    IN  took[Len(plain)]

\* Client.Demux: the cookies are taken in before NTP looks at the packet.
Demux(c, m, now) ==
    LET at == findAuthField(m.ext)
    IN  IF ~verifyUniqueID(c, m.ext) \/ at = 0 THEN c
        ELSE IF ~Opens(c.secrets.s2c, m, at) THEN c
        ELSE [c EXCEPT !.cookies = ingestAuthPayload(@, m.ext[at].value.plain),
                       !.ntp = ntpDemux(@, m.ntp, now)]

-----------------------------------------------------------------------------
(* The server: NTP's queue, and the identifier of the last request.        *)

newServer == [connID |-> 0, secrets |-> NoSecrets, queue |-> <<>>, uid |-> NoUID, hasPending |-> FALSE]

ServerReset(s, secrets) == [newServer EXCEPT !.connID = s.connID + 1, !.secrets = secrets]

\* Server.Demux: the last identifier of the packet is the one to echo.
ServerDemux(s, m) ==
    LET at    == findAuthField(m.ext)
        uids  == {i \in DOMAIN wellFormed(m.ext) : m.ext[i].type = "uid"}
        queue == ntpServerDemux(s.queue, m.ntp, MaxPending)
    IN  IF at = 0 THEN s
        ELSE IF ~Opens(s.secrets.c2s, m, at) \/ queue = s.queue THEN s
        ELSE [s EXCEPT !.queue = queue, !.hasPending = TRUE,
                       !.uid = IF uids = {} THEN NoUID
                               ELSE m.ext[CHOOSE i \in uids : \A j \in uids : j <= i].value]

serverSends(s) == s.hasPending /\ s.queue # <<>>

\* Server.Encapsulate.  When the random source fails NTP's request is gone and hasPending stays.
ServerEncapsulate(s, fails) ==
    [s EXCEPT !.queue = ntpServerEncapsulate(@), !.hasPending = fails]

\* The answer, with a fresh cookie sealed into it if there is one.
Response(s, now, cookies) ==
    LET ntp == ntpServerResponse(s.queue, now)
        ext == IF s.uid = NoUID THEN <<>> ELSE <<Field("uid", s.uid)>>
    IN  [kind |-> "nts", ntp |-> ntp,
         ext |-> Append(ext, Seal(s.secrets.s2c, [i \in DOMAIN cookies |-> CookieField(cookies[i])], ntp, ext))]
=============================================================================
