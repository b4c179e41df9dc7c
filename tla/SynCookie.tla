------------------------------ MODULE SynCookie -----------------------------
(***************************************************************************)
(* tcp.SYNCookieJar (tcp/syncookie.go): initial sequence numbers that      *)
(* carry a hash of the connection and the low bits of a counter, so that a *)
(* SYN is answered without keeping state and its cookie expires.           *)
(*                                                                         *)
(* The hash is any function of the secret, the connection (addresses,      *)
(* ports and the client's sequence number) and the counter.                *)
(***************************************************************************)
EXTENDS Integers, Sequences, TLAPS

CONSTANTS
    hashMod,                    \* 2^hashbits, 2^27 in the code
    Conn,
    hashTuple(_, _, _)          \* of a secret, a connection and a counter

counterMod == 32                \* 2^counterbits
wordMod == counterMod * hashMod

Word == 0 .. wordMod - 1

secretLen == 16
Byte == 0 .. 255
Secret == [1 .. secretLen -> Byte]

\* Reset keeps the counter.  The secret is read in place from Rand, which gives the bytes of
\* config.read before it fails, or enough of them: a read that fails leaves the rest of the
\* old secret behind the new bytes, and the old window.
Reset(jar, config) ==
    LET filled == [jar EXCEPT !.secret = [i \in 1 .. secretLen |-> IF i <= Len(config.read) THEN config.read[i]
                                                                    ELSE jar.secret[i]]]
        delta == IF config.MaxCounterDelta = 0 THEN 1 ELSE config.MaxCounterDelta
    IN  IF ~config.hasRand THEN [jar |-> jar, err |-> "invalidConfig"]
        ELSE IF Len(config.read) < secretLen THEN [jar |-> filled, err |-> "read"]
        ELSE [jar |-> [filled EXCEPT !.maxCounterDelta = delta], err |-> "nil"]

IncrementCounter(jar) == [jar EXCEPT !.counter = (@ + 1) % wordMod]

\* The hash is shifted left, out of the word, to make room for the counter's bits.
generateWithCounter(jar, conn, counter) ==
    (hashTuple(jar.secret, conn, counter) % hashMod) * counterMod + (counter % counterMod)

MakeSYNCookie(jar, conn) == generateWithCounter(jar, conn, jar.counter)

\* The client acknowledges the cookie plus one; the counters that may have made it
\* are tried from the present one back.  (With a window of 2^32 - 1 the code's loop never
\* ends once no counter matches; every smaller window ends as here.)
ValidateSYNCookie(jar, conn, ackNum) ==
    LET cookie == (ackNum - 1) % wordMod
        made(delta) ==
            LET tryCounter == (jar.counter - delta) % wordMod
            IN  /\ tryCounter % counterMod = cookie % counterMod
                /\ generateWithCounter(jar, conn, tryCounter) = cookie
    IN  IF \E delta \in 0 .. jar.maxCounterDelta : made(delta)
        THEN [cookie |-> cookie, err |-> "nil"]
        ELSE [cookie |-> 0, err |-> "mismatch"]

\* The jar after n calls of IncrementCounter.
aged(jar, n) == [jar EXCEPT !.counter = (@ + n) % wordMod]

Jar == [counter : Word, maxCounterDelta : Word, secret : Secret]
Config == [hasRand : BOOLEAN, read : Seq(Byte), MaxCounterDelta : Word]

\* What is assumed of the hash and of the word it is cut from.
HashIsWord ==
    /\ hashMod \in Nat \ {0}
    /\ \A s \in Secret, t \in Conn, k \in Word : hashTuple(s, t, k) \in Word

-----------------------------------------------------------------------------
(* For every width, hash, secret, connection and counter.                  *)

\* Sums and differences of words wrap.
LEMMA Wraps ==
    ASSUME hashMod \in Nat \ {0}
    PROVE  /\ wordMod \in Nat /\ wordMod >= 32
           /\ \A x \in -wordMod .. 2 * wordMod - 1 :
                /\ x % wordMod \in Word
                /\ x % wordMod = IF x = -wordMod THEN 0 ELSE IF x < 0 THEN x + wordMod
                                 ELSE IF x < wordMod THEN x ELSE x - wordMod
<1>1. wordMod \in Nat /\ wordMod >= 32
  BY DEF wordMod, counterMod
<1> QED BY <1>1 DEF Word

\* The low bits of a word are those of the sum or difference it wraps from.
LEMMA LowBits ==
    ASSUME hashMod \in Nat \ {0}, NEW x \in -wordMod .. 2 * wordMod - 1
    PROVE  (x % wordMod) % counterMod = x % counterMod
<1>1. wordMod \in Nat /\ x \in Int
  BY Wraps
<1>2. x % wordMod = x \/ x % wordMod = x + wordMod \/ x % wordMod = x - wordMod
  BY <1>1, Wraps
<1>3. (x + 32 * hashMod) % 32 = x % 32 /\ (x - 32 * hashMod) % 32 = x % 32
  BY <1>1
<1>4. wordMod = 32 * hashMod
  BY DEF wordMod, counterMod
<1>5. (x + wordMod) % 32 = x % 32 /\ (x - wordMod) % 32 = x % 32
  BY <1>3, <1>4
<1> QED BY <1>2, <1>5 DEF counterMod

\* aged counts the calls of IncrementCounter, up to a turn of the counter.
LEMMA AgedIs ==
    ASSUME HashIsWord, NEW jar \in Jar
    PROVE  /\ aged(jar, 0) = jar
           /\ \A n \in Word : aged(jar, n) \in Jar /\ IncrementCounter(aged(jar, n)) = aged(jar, n + 1)
<1>0. hashMod \in Nat \ {0} /\ jar.counter \in Word
  BY DEF HashIsWord, Jar
<1>1. wordMod \in Nat /\ wordMod >= 32
  BY <1>0, Wraps
<1>2. aged(jar, 0) = jar
  <2>1. (jar.counter + 0) % wordMod = jar.counter
    BY <1>0, <1>1, Wraps DEF Word
  <2> QED BY <2>1 DEF aged, Jar
<1>3. ASSUME NEW n \in Word
      PROVE  aged(jar, n) \in Jar /\ IncrementCounter(aged(jar, n)) = aged(jar, n + 1)
  <2> DEFINE k == (jar.counter + n) % wordMod
  <2>1. k \in Word /\ k = IF jar.counter + n < wordMod THEN jar.counter + n ELSE jar.counter + n - wordMod
    BY <1>0, <1>1, Wraps DEF Word
  <2>2. aged(jar, n) \in Jar /\ aged(jar, n) = [jar EXCEPT !.counter = k]
    BY <2>1 DEF aged, Jar
  <2>3. (jar.counter + (n + 1)) % wordMod = IF jar.counter + n + 1 < wordMod THEN jar.counter + n + 1
                                            ELSE jar.counter + n + 1 - wordMod
    BY <1>0, <1>1, Wraps DEF Word
  <2> HIDE DEF k
  <2>4. (k + 1) % wordMod = IF k + 1 < wordMod THEN k + 1 ELSE k + 1 - wordMod
    BY <1>0, <1>1, <2>1, Wraps DEF Word
  <2>5. (k + 1) % wordMod = (jar.counter + (n + 1)) % wordMod
    BY <1>0, <1>1, <2>1, <2>3, <2>4 DEF Word
  <2> QED BY <2>2, <2>5 DEF aged, IncrementCounter, Jar
<1> QED BY <1>2, <1>3

\* A cookie is a word whose low bits are the counter's.
LEMMA CookieBits ==
    ASSUME HashIsWord, NEW jar \in Jar, NEW conn \in Conn, NEW k \in Word
    PROVE  /\ generateWithCounter(jar, conn, k) \in Word
           /\ generateWithCounter(jar, conn, k) % counterMod = k % counterMod
<1> DEFINE h == hashTuple(jar.secret, conn, k)
           g == h % hashMod
           b == k % 32
<1>0. hashMod \in Nat \ {0} /\ h \in Nat /\ k \in Nat
  BY Wraps DEF HashIsWord, Jar, Word
<1>1. g \in 0 .. hashMod - 1
  <2> HIDE DEF h
  <2> QED BY <1>0
<1>2. b \in 0 .. 31
  BY <1>0
<1>3. generateWithCounter(jar, conn, k) = g * 32 + b
  BY DEF generateWithCounter, counterMod
<1> HIDE DEF g, h, b
<1>4. g * 32 + b \in 0 .. 32 * hashMod - 1 /\ (g * 32 + b) % 32 = b
  BY <1>0, <1>1, <1>2
<1> QED BY <1>3, <1>4 DEF Word, wordMod, counterMod, b

\* The acknowledgement of a cookie gives the cookie back.
LEMMA AckGivesCookie ==
    ASSUME hashMod \in Nat \ {0}, NEW cookie \in Word
    PROVE  (((cookie + 1) % wordMod) - 1) % wordMod = cookie
<1> DEFINE a == (cookie + 1) % wordMod
<1>1. wordMod \in Nat /\ wordMod >= 32 /\ cookie \in 0 .. wordMod - 1
  BY Wraps DEF Word
<1>2. a = IF cookie + 1 < wordMod THEN cookie + 1 ELSE 0
  BY <1>1, Wraps
<1> HIDE DEF a
<1>3. (a - 1) % wordMod = IF a - 1 < 0 THEN a - 1 + wordMod ELSE a - 1
  BY <1>1, <1>2, Wraps
<1>4. (a - 1) % wordMod = cookie
  BY <1>1, <1>2, <1>3
<1> QED BY <1>4 DEF a

\* The cookie that one jar made for the connection t has the counter bits and the hash bits
\* of a counter that another one tries for conn.
taken(now, conn, made, t) ==
    \E delta \in 0 .. now.maxCounterDelta :
        LET k == (now.counter - delta) % wordMod
        IN  /\ k % counterMod = made.counter % counterMod
            /\ hashTuple(now.secret, conn, k) % hashMod = hashTuple(made.secret, t, made.counter) % hashMod

\* ValidateSYNCookie accepts exactly the cookies whose counter bits and hash bits are those
\* of a counter it tries, and gives them back.
LEMMA AcceptedIff ==
    ASSUME HashIsWord, NEW made \in Jar, NEW t \in Conn, NEW now \in Jar, NEW conn \in Conn
    PROVE  LET cookie == MakeSYNCookie(made, t)
               answer == ValidateSYNCookie(now, conn, (cookie + 1) % wordMod)
           IN  answer = IF taken(now, conn, made, t) THEN [cookie |-> cookie, err |-> "nil"]
                        ELSE [cookie |-> 0, err |-> "mismatch"]
<1> DEFINE cookie == MakeSYNCookie(made, t)
           ack == (cookie + 1) % wordMod
           k(delta) == (now.counter - delta) % wordMod
<1>0. /\ hashMod \in Nat \ {0} /\ wordMod \in Nat /\ wordMod >= 32
      /\ made.counter \in Word /\ now.counter \in Word /\ now.maxCounterDelta \in Word
  BY Wraps DEF HashIsWord, Jar
<1>1. cookie \in Word /\ cookie % counterMod = made.counter % counterMod
  BY <1>0, CookieBits DEF MakeSYNCookie
<1>2. (ack - 1) % wordMod = cookie
  BY <1>0, <1>1, AckGivesCookie
<1>3. ASSUME NEW delta \in 0 .. now.maxCounterDelta
      PROVE  /\ k(delta) \in Word
             /\ k(delta) % counterMod = made.counter % counterMod =>
                  (generateWithCounter(now, conn, k(delta)) = cookie
                   <=> hashTuple(now.secret, conn, k(delta)) % hashMod
                       = hashTuple(made.secret, t, made.counter) % hashMod)
  <2>1. now.counter - delta \in -wordMod .. 2 * wordMod - 1
    BY <1>0 DEF Word
  <2>2. k(delta) \in Word
    BY <1>0, <2>1, Wraps
  <2> DEFINE g == hashTuple(now.secret, conn, k(delta)) % hashMod
             h == hashTuple(made.secret, t, made.counter) % hashMod
             b == k(delta) % counterMod
  <2>3. hashTuple(now.secret, conn, k(delta)) \in Int /\ hashTuple(made.secret, t, made.counter) \in Int
    BY <1>0, <2>2 DEF HashIsWord, Jar, Word
  <2>4. g \in Int /\ h \in Int
    BY <1>0, <2>3
  <2>5. b \in Int
    BY <1>0, <2>2 DEF Word, counterMod
  <2>6. ASSUME b = made.counter % counterMod
        PROVE  generateWithCounter(now, conn, k(delta)) = g * counterMod + b /\ cookie = h * counterMod + b
    BY <2>6 DEF generateWithCounter, MakeSYNCookie
  <2> HIDE DEF g, h, b, cookie
  <2>7. g * 32 + b = h * 32 + b <=> g = h
    BY <2>4, <2>5
  <2> QED BY <2>2, <2>6, <2>7 DEF g, h, b, counterMod
<1>4. (\E delta \in 0 .. now.maxCounterDelta :
          /\ k(delta) % counterMod = cookie % counterMod
          /\ generateWithCounter(now, conn, k(delta)) = cookie) <=> taken(now, conn, made, t)
  BY <1>1, <1>3 DEF taken
<1> HIDE DEF cookie, ack
<1>5. ValidateSYNCookie(now, conn, ack) = IF taken(now, conn, made, t) THEN [cookie |-> cookie, err |-> "nil"]
                                          ELSE [cookie |-> 0, err |-> "mismatch"]
  BY <1>2, <1>4 DEF ValidateSYNCookie
<1> QED BY <1>5 DEF cookie, ack

\* The counters a jar tries, n increments after it made a cookie.
LEMMA Tried ==
    ASSUME HashIsWord, NEW jar \in Jar, NEW n \in Word, NEW delta \in Word
    PROVE  LET k == (aged(jar, n).counter - delta) % wordMod
           IN  /\ k \in Word
               /\ k = jar.counter <=> delta = n
               /\ k % counterMod = (jar.counter + n - delta) % counterMod
<1> DEFINE j == jar.counter
           a == aged(jar, n).counter
           k == (a - delta) % wordMod
<1>0. /\ hashMod \in Nat \ {0} /\ wordMod \in Nat /\ wordMod >= 32
      /\ j \in 0 .. wordMod - 1 /\ n \in 0 .. wordMod - 1 /\ delta \in 0 .. wordMod - 1
  BY Wraps DEF HashIsWord, Jar, Word
<1>1. a = (j + n) % wordMod
  BY DEF aged, Jar
<1> HIDE DEF a, j
<1>2. a = IF j + n < wordMod THEN j + n ELSE j + n - wordMod
  <2> DEFINE x == j + n
  <2>1. x \in 0 .. 2 * wordMod - 1 /\ a = x % wordMod
    BY <1>0, <1>1
  <2> HIDE DEF x
  <2>2. a = IF x < wordMod THEN x ELSE x - wordMod
    BY <1>0, <2>1, Wraps
  <2> QED BY <1>0, <2>2 DEF x
<1>3. a - delta \in -wordMod .. 2 * wordMod - 1 /\ a \in Int
  BY <1>0, <1>2
<1>4. k = IF a - delta < 0 THEN a - delta + wordMod ELSE a - delta
  <2> DEFINE x == a - delta
  <2>1. x \in -wordMod + 1 .. wordMod - 1 /\ k = x % wordMod
    BY <1>0, <1>2, <1>3
  <2> HIDE DEF x
  <2>2. x % wordMod = IF x < 0 THEN x + wordMod ELSE x
    BY <1>0, <2>1, Wraps
  <2> QED BY <2>1, <2>2 DEF x
<1>5. k \in Word
  BY <1>0, <1>3, Wraps
<1>6. k % counterMod = (a - delta) % counterMod
  BY <1>0, <1>3, LowBits
<1> HIDE DEF k
<1>7. k = j <=> delta = n
  BY <1>0, <1>2, <1>4
<1>8. (a - delta) % 32 = (j + n - delta) % 32
  <2> DEFINE x == j + n - delta
  <2>1. x \in Int /\ (a - delta = x \/ a - delta = x - wordMod)
    BY <1>0, <1>2
  <2> HIDE DEF x
  <2>2. (x - 32 * hashMod) % 32 = x % 32
    BY <1>0, <2>1
  <2>3. wordMod = 32 * hashMod
    BY DEF wordMod, counterMod
  <2> QED BY <2>1, <2>2, <2>3 DEF x
<1> QED BY <1>5, <1>6, <1>7, <1>8 DEF counterMod, j, a, k

\* A cookie is accepted, and given back, for as long as the counter was incremented
\* at most MaxCounterDelta times since, across the wrap of the counter and of the
\* acknowledgement number (syncookie.go:33-35).
THEOREM CookieAccepted ==
    ASSUME HashIsWord, NEW jar \in Jar, NEW conn \in Conn, NEW n \in 0 .. jar.maxCounterDelta
    PROVE  LET cookie == MakeSYNCookie(jar, conn)
               answer == ValidateSYNCookie(aged(jar, n), conn, (cookie + 1) % wordMod)
           IN  answer = [cookie |-> cookie, err |-> "nil"]
<1>0. n \in Word /\ wordMod \in Nat
  BY Wraps DEF HashIsWord, Jar, Word
<1>1. /\ aged(jar, n) \in Jar /\ aged(jar, n).secret = jar.secret
      /\ aged(jar, n).maxCounterDelta = jar.maxCounterDelta
  BY <1>0, AgedIs DEF aged, Jar
<1>2. (aged(jar, n).counter - n) % wordMod = jar.counter
  BY <1>0, Tried
<1>3. taken(aged(jar, n), conn, jar, conn)
  BY <1>1, <1>2 DEF taken
<1> QED BY <1>1, <1>3, AcceptedIff

\* A cookie that comes back after the counter was incremented more than MaxCounterDelta
\* times, at any time before the 32-bit counter has made a whole turn, is accepted exactly
\* when, for another counter among those tried, the five counter bits have come round and
\* the hash, over that other counter, agrees in all its 27 bits; so, whatever the hash, it
\* is refused while they have not come round, for the first 31 increments
\* (syncookie.go:30-31, ValidateSYNCookie).
THEOREM CookieExpires ==
    ASSUME HashIsWord, NEW jar \in Jar, NEW conn \in Conn, NEW n \in Word, jar.maxCounterDelta < n
    PROVE  LET old == aged(jar, n)
               answer == ValidateSYNCookie(old, conn, (MakeSYNCookie(jar, conn) + 1) % wordMod)
               agrees(k) ==
                   /\ k # jar.counter /\ k % counterMod = jar.counter % counterMod
                   /\ hashTuple(jar.secret, conn, k) % hashMod = hashTuple(jar.secret, conn, jar.counter) % hashMod
           IN  /\ answer.err = "nil"
                  <=> \E delta \in 0 .. jar.maxCounterDelta : agrees((old.counter - delta) % wordMod)
               /\ n < counterMod => answer.err = "mismatch"
<1> DEFINE old == aged(jar, n)
           k(delta) == (old.counter - delta) % wordMod
           agrees(i) ==
               /\ i # jar.counter /\ i % counterMod = jar.counter % counterMod
               /\ hashTuple(jar.secret, conn, i) % hashMod = hashTuple(jar.secret, conn, jar.counter) % hashMod
           answer == ValidateSYNCookie(old, conn, (MakeSYNCookie(jar, conn) + 1) % wordMod)
<1>0. wordMod \in Nat /\ jar.counter \in Word /\ jar.maxCounterDelta \in Word
  BY Wraps DEF HashIsWord, Jar
<1>1. old \in Jar /\ old.secret = jar.secret /\ old.maxCounterDelta = jar.maxCounterDelta
  BY AgedIs DEF aged, Jar
<1>2. ASSUME NEW delta \in 0 .. jar.maxCounterDelta
      PROVE  k(delta) # jar.counter /\ k(delta) % counterMod = (jar.counter + n - delta) % counterMod
  <2>1. delta \in Word /\ delta # n
    BY <1>0 DEF Word
  <2> QED BY <2>1, Tried
<1>3. taken(old, conn, jar, conn) <=> \E delta \in 0 .. jar.maxCounterDelta : agrees(k(delta))
  BY <1>1, <1>2 DEF taken
<1>4. answer.err = IF taken(old, conn, jar, conn) THEN "nil" ELSE "mismatch"
  <2> HIDE DEF old
  <2>1. answer = IF taken(old, conn, jar, conn) THEN [cookie |-> MakeSYNCookie(jar, conn), err |-> "nil"]
                 ELSE [cookie |-> 0, err |-> "mismatch"]
    BY <1>1, AcceptedIff
  <2> HIDE DEF answer
  <2> QED BY <2>1
<1>5. ASSUME n < counterMod, NEW delta \in 0 .. jar.maxCounterDelta
      PROVE  ~agrees(k(delta))
  <2> DEFINE j == jar.counter
  <2>1. j \in Int /\ n \in 0 .. 31 /\ delta \in Int /\ 0 < n - delta /\ n - delta < 32
    BY <1>0, <1>5 DEF Word, counterMod
  <2> HIDE DEF j
  <2>2. (j + n - delta) % 32 # j % 32
    BY <2>1
  <2> QED BY <1>2, <2>2 DEF counterMod, j
<1> HIDE DEF answer, agrees, k, old
<1>6. (answer.err = "nil" <=> \E delta \in 0 .. jar.maxCounterDelta : agrees(k(delta)))
      /\ (n < counterMod => answer.err = "mismatch")
  BY <1>3, <1>4, <1>5
<1> QED BY <1>6 DEF answer, agrees, k, old

\* Reset does not touch the counter, and the window only when it succeeds; but from then on
\* the cookies of before are judged by the secret that is now there, also by one that was
\* read in part: such a cookie is accepted exactly when the hash under the one secret agrees
\* with that under the other, for a counter that is tried (syncookie.go:51-52 "to maintain
\* cookie validity during secret rotation").
THEOREM CookieAfterReset ==
    ASSUME HashIsWord, NEW jar \in Jar, NEW conn \in Conn, NEW config \in Config
    PROVE  LET after == Reset(jar, config).jar
               answer == ValidateSYNCookie(after, conn, (MakeSYNCookie(jar, conn) + 1) % wordMod)
           IN  /\ after \in Jar /\ after.counter = jar.counter
               /\ Reset(jar, config).err # "nil" => after.maxCounterDelta = jar.maxCounterDelta
               /\ answer.err = "nil" <=> taken(after, conn, jar, conn)
<1> DEFINE after == Reset(jar, config).jar
           secret == [i \in 1 .. secretLen |-> IF i <= Len(config.read) THEN config.read[i] ELSE jar.secret[i]]
<1>1. secret \in Secret
  <2>1. ASSUME NEW i \in 1 .. 16, i <= Len(config.read)
        PROVE  config.read[i] \in Byte
    BY <2>1 DEF Config
  <2> QED BY <2>1 DEF Secret, secretLen, Jar
<1>2. 1 \in Word
  BY Wraps DEF HashIsWord, Word
<1>3. /\ after \in Jar /\ after.counter = jar.counter
      /\ Reset(jar, config).err # "nil" => after.maxCounterDelta = jar.maxCounterDelta
  <2> HIDE DEF secret
  <2>1. [jar EXCEPT !.secret = secret] \in Jar
    BY <1>1 DEF Jar
  <2> QED BY <1>1, <1>2, <2>1 DEF Reset, Jar, Config, secret
<1> HIDE DEF after
<1>4. ValidateSYNCookie(after, conn, (MakeSYNCookie(jar, conn) + 1) % wordMod)
      = IF taken(after, conn, jar, conn) THEN [cookie |-> MakeSYNCookie(jar, conn), err |-> "nil"]
        ELSE [cookie |-> 0, err |-> "mismatch"]
  BY <1>3, AcceptedIff
<1> QED BY <1>3, <1>4 DEF after
=============================================================================
