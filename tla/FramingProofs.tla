--------------------------- MODULE FramingProofs ---------------------------
(***************************************************************************)
(* One connection, for bytes, buffers, kernels and messages of any size:   *)
(* reads stay in their buffer, and each direction implements Channel.      *)
(***************************************************************************)
EXTENDS Framing, SequenceTheorems, TLAPS

\* What is in mBuff is less than what is waited for, and that fits in it.
Partial ==
  \A e \in Ends : /\ Len(buff[e]) < Goal(e)
                  /\ state[e] = "remaining" => expected[e] <= Buffer

\* W is what the messages ms come to on the wire, the frame of the ith ending
\* at pos[i].
Laid(W, pos, ms) ==
  /\ W \in Seq(Bytes) /\ pos \in [0 .. Len(ms) -> Nat]
  /\ pos[0] = 0 /\ pos[Len(ms)] = Len(W)
  /\ \A i \in 0 .. Len(ms) : pos[i] <= Len(W)
  /\ \A i \in 1 .. Len(ms) :
       /\ pos[i] = pos[i - 1] + 2 + Len(ms[i])
       /\ \A j \in 1 .. 2 + Len(ms[i]) : W[pos[i - 1] + j] = Frame(ms[i])[j]

\* The bytes s stand in W behind the first a.
Stands(W, a, s) == \A i \in 1 .. Len(s) : s[i] = W[a + i]

\* Behind the first a bytes of W stands buf, then wir, then o; what follows,
\* if anything, is lost with an end that has gone.
Follows(W, a, buf, wir, o) ==
  /\ a \in Nat
  /\ Stands(W, a, buf) /\ Stands(W, a + Len(buf), wir)
  /\ Stands(W, a + Len(buf) + Len(wir), o)
  /\ a + Len(buf) + Len(wir) + Len(o) <= Len(W)

\* One direction: what is left of its messages ms after d of them have been
\* delivered is in the buffer of the receiver, on the wire and in the send of
\* the sender, if it is up.  Of a frame whose header has been read, two bytes
\* are in mExpectedReadSize instead.
Whole(up, ms, d, st, ex, buf, wir, o) ==
  /\ d <= Len(ms)
  /\ st = "remaining" => d < Len(ms) /\ ex = Len(ms[d + 1])
  /\ \E W, pos, a :
       /\ Laid(W, pos, ms) /\ a = pos[d] + (IF st = "header" THEN 0 ELSE 2)
       /\ Follows(W, a, buf, wir, o)
       /\ up => a + Len(buf) + Len(wir) + Len(o) = Len(W)

Intact(e) ==
  LET r == Peer(e) IN
  Whole(Up(e), sent[e], Len(delivered[r]), state[r], expected[r], buff[r],
        wire[e], out[e])

FramingInv ==
  /\ TypeOK /\ Partial
  /\ \A e \in Ends : ~cut[e] => Intact(e)
-----------------------------------------------------------------------------
(* Bytes and frames. *)

LEMMA PeerEnds ==
  \A e \in Ends : Peer(e) \in Ends /\ Peer(e) # e /\ Peer(Peer(e)) = e
BY DEF Ends, Peer

LEMMA Sizes ==
  /\ Base \in Nat /\ Buffer \in Nat /\ Capacity \in Nat
  /\ Base > 1 /\ 2 < Buffer /\ Buffer < Base * Base /\ Base * Base \in Nat
  /\ 0 \in Bytes /\ 0 \in 0 .. Base * Base - 1
BY FramingAssumption DEF Bytes

\* Two bytes make a number.
LEMMA HeaderType ==
  ASSUME NEW b, b[1] \in Bytes, b[2] \in Bytes
  PROVE  HeaderValue(b) \in 0 .. Base * Base - 1
<1>1. PICK x \in Nat : x = b[1] /\ x <= Base - 1
  BY Sizes DEF Bytes
<1>2. PICK y \in Nat : y = b[2] /\ y <= Base - 1
  BY Sizes DEF Bytes
<1>3. Base * y <= Base * (Base - 1) /\ Base * y \in Nat
  BY <1>2, Sizes
<1>4. Base * (Base - 1) = Base * Base - Base
  BY Sizes
<1>5. x + Base * y \in 0 .. Base * Base - 1
  BY <1>1, <1>3, <1>4, Sizes
<1> QED BY <1>1, <1>2, <1>5 DEF HeaderValue

\* What is taken of a stream, and what is put behind another.
Splits(s, n, u, v) == u = SubSeq(s, 1, n) /\ v = SubSeq(s, n + 1, Len(s))
Joins(s, t, u) == u = s \o t

\* A stream is taken in two.
LEMMA TakenInTwo ==
  ASSUME NEW S, NEW s \in Seq(S), NEW n \in 1 .. Len(s),
         NEW u, NEW v, Splits(s, n, u, v)
  PROVE  /\ u \in Seq(S) /\ Len(u) = n /\ \A i \in 1 .. n : u[i] = s[i]
         /\ v \in Seq(S) /\ Len(v) = Len(s) - n
         /\ \A i \in 1 .. Len(s) - n : v[i] = s[n + i]
<1>1. PICK k \in Nat : k = Len(s)
  OBVIOUS
<1>2. n \in Nat /\ 1 <= n /\ n <= k /\ \A i \in 1 .. k : s[i] \in S
  BY <1>1
<1>3. u \in Seq(S) /\ Len(u) = n /\ \A i \in 1 .. n : u[i] = s[i]
  BY <1>1, <1>2 DEF Splits
<1>4. /\ v \in Seq(S) /\ Len(v) = (IF n + 1 <= k THEN k - (n + 1) + 1 ELSE 0)
      /\ \A i \in 1 .. k - (n + 1) + 1 : v[i] = s[(n + 1) + i - 1]
  <2>1. n + 1 \in Int /\ k \in Int /\ \A i \in n + 1 .. k : s[i] \in S
    BY <1>2
  <2> QED BY <1>1, <2>1, SubSeqProperties DEF Splits
<1>5. (IF n + 1 <= k THEN k - (n + 1) + 1 ELSE 0) = k - n /\ k - (n + 1) + 1 = k - n
  BY <1>2
<1>6. \A i \in 1 .. k - n : (n + 1) + i - 1 = n + i
  BY <1>2
<1> QED BY <1>1, <1>3, <1>4, <1>5, <1>6

\* One stream behind another.
LEMMA JoinedUp ==
  ASSUME NEW S, NEW s \in Seq(S), NEW t \in Seq(S), NEW u, Joins(s, t, u)
  PROVE  /\ u \in Seq(S) /\ Len(u) = Len(s) + Len(t)
         /\ \A i \in 1 .. Len(s) : u[i] = s[i]
         /\ \A i \in 1 .. Len(t) : u[Len(s) + i] = t[i]
<1>1. Len(s) \in Nat /\ Len(t) \in Nat
  OBVIOUS
<1>2. u \in Seq(S) /\ Len(u) = Len(s) + Len(t)
      /\ \A i \in 1 .. Len(s) + Len(t) :
           u[i] = IF i <= Len(s) THEN s[i] ELSE t[i - Len(s)]
  BY ConcatProperties DEF Joins
<1>3. ASSUME NEW i \in 1 .. Len(t)  PROVE u[Len(s) + i] = t[i]
  <2>1. Len(s) + i \in 1 .. Len(s) + Len(t) /\ ~(Len(s) + i <= Len(s))
        /\ (Len(s) + i) - Len(s) = i
    BY <1>1
  <2> QED BY <1>2, <2>1
<1> QED BY <1>1, <1>2, <1>3

\* The size of a message is written in two bytes and read back.
LEMMA FrameIs ==
  ASSUME NEW m \in Payloads
  PROVE  /\ m \in Seq(Bytes) /\ Len(m) \in 1 .. Buffer - 2
         /\ Frame(m) \in Seq(Bytes) /\ Len(Frame(m)) = 2 + Len(m)
         /\ \A j \in 1 .. Len(m) : Frame(m)[2 + j] = m[j]
         /\ \A b : b[1] = Frame(m)[1] /\ b[2] = Frame(m)[2] => HeaderValue(b) = Len(m)
<1>1. m \in Seq(Bytes) /\ Len(m) \in 1 .. Buffer - 2
  BY FramingAssumption
<1>2. PICK n \in Nat : n = Len(m)
  BY <1>1
<1>3. n < Base * Base
  BY <1>1, <1>2, Sizes
<1>4. n % Base \in 0 .. Base - 1 /\ n = Base * (n \div Base) + (n % Base)
      /\ n \div Base \in Nat
  BY <1>2, Sizes
<1>5. n \div Base <= Base - 1
  <2>1. PICK q \in Nat : q = n \div Base
    BY <1>4
  <2>2. Base * q <= n
    BY <1>4, <2>1, Sizes
  <2>3. q >= Base => Base * q >= Base * Base
    BY Sizes
  <2> QED BY <1>3, <2>1, <2>2, <2>3, Sizes
<1>6. PICK h : h = <<n % Base, n \div Base>>
  OBVIOUS
<1>7. h \in Seq(Bytes) /\ Len(h) = 2 /\ h[1] = n % Base /\ h[2] = n \div Base
  BY <1>4, <1>5, <1>6, Sizes DEF Bytes
<1>8. Frame(m) = h \o m
  BY <1>2, <1>6 DEF Frame
<1>9. /\ Frame(m) \in Seq(Bytes) /\ Len(Frame(m)) = 2 + Len(m)
      /\ \A i \in 1 .. 2 : Frame(m)[i] = h[i]
      /\ \A i \in 1 .. Len(m) : Frame(m)[2 + i] = m[i]
  <2>1. PICK f : f = h \o m /\ Joins(h, m, f)
    BY DEF Joins
  <2>2. h \in Seq(Bytes) /\ m \in Seq(Bytes)
    BY <1>1, <1>7
  <2>3. /\ f \in Seq(Bytes) /\ Len(f) = Len(h) + Len(m)
        /\ \A i \in 1 .. Len(h) : f[i] = h[i]
        /\ \A i \in 1 .. Len(m) : f[Len(h) + i] = m[i]
    BY <2>1, <2>2, JoinedUp
  <2>4. Frame(m) = f
    BY <1>8, <2>1
  <2> QED BY <1>7, <2>3, <2>4
<1>10. Frame(m)[1] = n % Base /\ Frame(m)[2] = n \div Base
  BY <1>7, <1>9
<1>11. ASSUME NEW b, b[1] = Frame(m)[1], b[2] = Frame(m)[2]
       PROVE  HeaderValue(b) = Len(m)
  BY <1>2, <1>4, <1>10, <1>11, Sizes DEF HeaderValue
<1> QED BY <1>1, <1>9, <1>11

-----------------------------------------------------------------------------
(* Where bytes stand. *)

LEMMA StandsTaken ==
  ASSUME NEW s \in Seq(Bytes), NEW n \in 1 .. Len(s),
         NEW u, NEW v, Splits(s, n, u, v),
         NEW W, NEW a \in Nat, Stands(W, a, s)
  PROVE  /\ u \in Seq(Bytes) /\ Len(u) = n /\ Stands(W, a, u)
         /\ v \in Seq(Bytes) /\ Len(v) = Len(s) - n /\ Stands(W, a + n, v)
<1>1. /\ u \in Seq(Bytes) /\ Len(u) = n /\ \A i \in 1 .. n : u[i] = s[i]
      /\ v \in Seq(Bytes) /\ Len(v) = Len(s) - n
      /\ \A i \in 1 .. Len(s) - n : v[i] = s[n + i]
  BY TakenInTwo
<1>2. \A i \in 1 .. Len(s) : s[i] = W[a + i]
  BY DEF Stands
<1>3. PICK l \in Nat : l = Len(s)
  OBVIOUS
<1>4. n \in Nat /\ 1 <= n /\ n <= l
  BY <1>3
<1>5. Stands(W, a, u)
  BY <1>1, <1>2, <1>3, <1>4 DEF Stands
<1>6. ASSUME NEW i \in 1 .. l - n  PROVE v[i] = W[(a + n) + i]
  <2>1. n + i \in 1 .. l
    BY <1>4
  <2>2. a + (n + i) = (a + n) + i
    BY <1>4
  <2> QED BY <1>1, <1>2, <1>3, <2>1, <2>2
<1>7. Stands(W, a + n, v)
  BY <1>1, <1>3, <1>6 DEF Stands
<1> QED BY <1>1, <1>5, <1>7

LEMMA StandsJoined ==
  ASSUME NEW s \in Seq(Bytes), NEW t \in Seq(Bytes), NEW u, Joins(s, t, u),
         NEW W, NEW a \in Nat, Stands(W, a, s), Stands(W, a + Len(s), t)
  PROVE  u \in Seq(Bytes) /\ Len(u) = Len(s) + Len(t) /\ Stands(W, a, u)
<1>1. /\ u \in Seq(Bytes) /\ Len(u) = Len(s) + Len(t)
      /\ \A i \in 1 .. Len(s) : u[i] = s[i]
      /\ \A i \in 1 .. Len(t) : u[Len(s) + i] = t[i]
  BY JoinedUp
<1>2. /\ \A i \in 1 .. Len(s) : s[i] = W[a + i]
      /\ \A i \in 1 .. Len(t) : t[i] = W[(a + Len(s)) + i]
  BY DEF Stands
<1>3. PICK k \in Nat, l \in Nat : k = Len(s) /\ l = Len(t)
  OBVIOUS
<1>4. ASSUME NEW i \in 1 .. k + l  PROVE u[i] = W[a + i]
  <2>1. CASE i <= k
    <3>1. i \in 1 .. k
      BY <2>1
    <3>2. u[i] = s[i] /\ s[i] = W[a + i]
      BY <1>1, <1>2, <1>3, <3>1
    <3> QED BY <3>2
  <2>2. CASE i > k
    <3>1. i - k \in 1 .. l
      BY <2>2
    <3>2. k + (i - k) = i /\ (a + k) + (i - k) = a + i
      BY <2>2
    <3>3. PICK j : j = i - k
      OBVIOUS
    <3>4. u[k + j] = t[j] /\ t[j] = W[(a + k) + j]
      BY <1>1, <1>2, <1>3, <3>1, <3>3
    <3> QED BY <3>2, <3>3, <3>4
  <2> QED BY <2>1, <2>2
<1>5. Stands(W, a, u)
  BY <1>1, <1>3, <1>4 DEF Stands
<1> QED BY <1>1, <1>5

\* A longer stream has what the shorter had.
LEMMA StandsLonger ==
  ASSUME NEW s \in Seq(Bytes), NEW a \in Nat,
         NEW W \in Seq(Bytes), Stands(W, a, s), a + Len(s) <= Len(W),
         NEW V, \A i \in 1 .. Len(W) : V[i] = W[i]
  PROVE  Stands(V, a, s)
<1>1. PICK k \in Nat, l \in Nat : k = Len(s) /\ l = Len(W)
  OBVIOUS
<1>2. \A i \in 1 .. k : a + i \in 1 .. l
  BY <1>1
<1> QED BY <1>1, <1>2 DEF Stands

LEMMA StandsNothing == \A W, a : Stands(W, a, <<>>)
<1>1. Len(<<>>) = 0 /\ 1 .. 0 = {}
  OBVIOUS
<1> QED BY <1>1 DEF Stands
-----------------------------------------------------------------------------
(* The bytes of a direction. *)

\* A write.
LEMMA FollowsWrite ==
  ASSUME NEW W \in Seq(Bytes), NEW a, NEW buf \in Seq(Bytes),
         NEW wir \in Seq(Bytes), NEW o \in Seq(Bytes), Follows(W, a, buf, wir, o),
         NEW n \in 1 .. Len(o), NEW u, NEW o2, Splits(o, n, u, o2),
         NEW wir2, Joins(wir, u, wir2)
  PROVE  Follows(W, a, buf, wir2, o2)
<1>1. PICK b \in Nat : b = a + Len(buf)
  BY DEF Follows
<1>2. PICK c \in Nat : c = b + Len(wir)
  OBVIOUS
<1>3. /\ a \in Nat /\ Stands(W, a, buf) /\ Stands(W, b, wir) /\ Stands(W, c, o)
      /\ c + Len(o) <= Len(W)
  BY <1>1, <1>2 DEF Follows
<1>4. /\ u \in Seq(Bytes) /\ Len(u) = n /\ Stands(W, c, u)
      /\ o2 \in Seq(Bytes) /\ Len(o2) = Len(o) - n /\ Stands(W, c + n, o2)
  BY <1>3, StandsTaken
<1>5. wir2 \in Seq(Bytes) /\ Len(wir2) = Len(wir) + Len(u) /\ Stands(W, b, wir2)
  BY <1>2, <1>3, <1>4, StandsJoined
<1>6. b + Len(wir2) = c + n /\ c + n + Len(o2) <= Len(W)
  <2>1. PICK w \in Nat, l \in Nat, k \in Nat : w = Len(wir) /\ l = Len(o) /\ k = Len(W)
    OBVIOUS
  <2>2. n \in Nat
    OBVIOUS
  <2>3. Len(wir2) = w + n /\ Len(o2) = l - n /\ c = b + w /\ c + l <= k
    BY <1>2, <1>3, <1>4, <1>5, <2>1
  <2>4. b + (w + n) = c + n /\ c + n + (l - n) <= k
    BY <2>2, <2>3
  <2> QED BY <2>1, <2>3, <2>4
<1> QED BY <1>1, <1>3, <1>4, <1>5, <1>6 DEF Follows

\* A read.
LEMMA FollowsRead ==
  ASSUME NEW W \in Seq(Bytes), NEW a, NEW buf \in Seq(Bytes),
         NEW wir \in Seq(Bytes), NEW o \in Seq(Bytes), Follows(W, a, buf, wir, o),
         NEW n \in 1 .. Len(wir), NEW u, NEW wir2, Splits(wir, n, u, wir2),
         NEW b, Joins(buf, u, b)
  PROVE  Follows(W, a, b, wir2, o)
<1>1. PICK c \in Nat : c = a + Len(buf)
  BY DEF Follows
<1>2. PICK e \in Nat : e = c + Len(wir)
  OBVIOUS
<1>3. /\ a \in Nat /\ Stands(W, a, buf) /\ Stands(W, c, wir) /\ Stands(W, e, o)
      /\ e + Len(o) <= Len(W)
  BY <1>1, <1>2 DEF Follows
<1>4. /\ u \in Seq(Bytes) /\ Len(u) = n /\ Stands(W, c, u)
      /\ wir2 \in Seq(Bytes) /\ Len(wir2) = Len(wir) - n /\ Stands(W, c + n, wir2)
  BY <1>3, StandsTaken
<1>5. b \in Seq(Bytes) /\ Len(b) = Len(buf) + Len(u) /\ Stands(W, a, b)
  BY <1>1, <1>3, <1>4, StandsJoined
<1>6. a + Len(b) = c + n /\ c + n + Len(wir2) = e
  <2>1. PICK k \in Nat, w \in Nat : k = Len(buf) /\ w = Len(wir)
    OBVIOUS
  <2>2. n \in Nat /\ a \in Nat
    BY <1>3
  <2>3. Len(b) = k + n /\ Len(wir2) = w - n /\ c = a + k /\ e = c + w
    BY <1>1, <1>2, <1>4, <1>5, <2>1
  <2>4. a + (k + n) = c + n /\ c + n + (w - n) = e
    BY <2>2, <2>3
  <2> QED BY <2>1, <2>3, <2>4
<1> QED BY <1>3, <1>4, <1>5, <1>6 DEF Follows

\* What was in mBuff has been decoded, or what was in a send is lost.
LEMMA FollowsDropped ==
  ASSUME NEW W \in Seq(Bytes), NEW a, NEW buf \in Seq(Bytes),
         NEW wir \in Seq(Bytes), NEW o \in Seq(Bytes), Follows(W, a, buf, wir, o)
  PROVE  Follows(W, a + Len(buf), <<>>, wir, o) /\ Follows(W, a, buf, wir, <<>>)
<1>1. PICK b \in Nat : b = a + Len(buf)
  BY DEF Follows
<1>2. PICK c \in Nat : c = b + Len(wir)
  OBVIOUS
<1>3. /\ a \in Nat /\ Stands(W, a, buf) /\ Stands(W, b, wir) /\ Stands(W, c, o)
      /\ c + Len(o) <= Len(W) /\ Len(o) \in Nat /\ Len(W) \in Nat
  BY <1>1, <1>2 DEF Follows
<1>4. Len(<<>>) = 0 /\ b + 0 = b /\ c + 0 <= Len(W)
  BY <1>3
<1>5. Follows(W, b, <<>>, wir, o)
  BY <1>2, <1>3, <1>4, StandsNothing DEF Follows
<1>6. Follows(W, a, buf, wir, <<>>)
  BY <1>1, <1>2, <1>3, <1>4, StandsNothing DEF Follows
<1> QED BY <1>1, <1>5, <1>6

\* A send into an empty one.
LEMMA FollowsSend ==
  ASSUME NEW W \in Seq(Bytes), NEW a, NEW buf \in Seq(Bytes),
         NEW wir \in Seq(Bytes), NEW o, Follows(W, a, buf, wir, o),
         a + Len(buf) + Len(wir) = Len(W),
         NEW f \in Seq(Bytes), NEW V, Joins(W, f, V)
  PROVE  /\ Follows(V, a, buf, wir, f)
         /\ a + Len(buf) + Len(wir) + Len(f) = Len(V)
<1>1. /\ V \in Seq(Bytes) /\ Len(V) = Len(W) + Len(f)
      /\ \A i \in 1 .. Len(W) : V[i] = W[i]
      /\ \A i \in 1 .. Len(f) : V[Len(W) + i] = f[i]
  BY JoinedUp
<1>2. PICK b \in Nat : b = a + Len(buf)
  BY DEF Follows
<1>3. PICK c \in Nat : c = b + Len(wir)
  OBVIOUS
<1>4. /\ a \in Nat /\ Stands(W, a, buf) /\ Stands(W, b, wir)
      /\ b + Len(wir) <= Len(W) /\ a + Len(buf) <= Len(W) /\ c = Len(W)
  <2>1. a \in Nat /\ Stands(W, a, buf) /\ Stands(W, b, wir)
    BY <1>2 DEF Follows
  <2> QED BY <1>2, <1>3, <2>1
<1>5. Stands(V, a, buf) /\ Stands(V, b, wir)
  BY <1>1, <1>4, StandsLonger
<1>6. Stands(V, c, f)
  BY <1>1, <1>4 DEF Stands
<1>7. c + Len(f) = Len(V) /\ c + Len(f) <= Len(V)
  <2>1. PICK k \in Nat : k = Len(V)
    BY <1>1
  <2> QED BY <1>1, <1>4, <2>1
<1> QED BY <1>2, <1>3, <1>4, <1>5, <1>6, <1>7 DEF Follows
-----------------------------------------------------------------------------
(* The frames of a direction. *)

LEMMA LaidSend ==
  ASSUME NEW W, NEW pos, NEW ms \in Seq(Payloads), Laid(W, pos, ms),
         NEW m \in Payloads, NEW f, f = Frame(m), NEW V, Joins(W, f, V),
         NEW ms2, Len(ms2) = Len(ms) + 1, ms2[Len(ms) + 1] = m,
         \A i \in 1 .. Len(ms) : ms2[i] = ms[i]
  PROVE  \E pos2 : /\ Laid(V, pos2, ms2)
                   /\ \A i \in 0 .. Len(ms) : pos2[i] = pos[i]
<1>1. /\ W \in Seq(Bytes) /\ pos \in [0 .. Len(ms) -> Nat]
      /\ pos[0] = 0 /\ pos[Len(ms)] = Len(W)
      /\ \A i \in 0 .. Len(ms) : pos[i] <= Len(W)
      /\ \A i \in 1 .. Len(ms) :
           /\ pos[i] = pos[i - 1] + 2 + Len(ms[i])
           /\ \A j \in 1 .. 2 + Len(ms[i]) : W[pos[i - 1] + j] = Frame(ms[i])[j]
  BY DEF Laid
<1>2. f \in Seq(Bytes) /\ Len(f) = 2 + Len(m) /\ Len(m) \in Nat
  BY FrameIs, Sizes
<1>3. /\ V \in Seq(Bytes) /\ Len(V) = Len(W) + Len(f)
      /\ \A i \in 1 .. Len(W) : V[i] = W[i]
      /\ \A i \in 1 .. Len(f) : V[Len(W) + i] = f[i]
  BY <1>1, <1>2, JoinedUp
<1>4. PICK n \in Nat, w \in Nat, l \in Nat :
        n = Len(ms) /\ w = Len(W) /\ l = Len(m)
  BY <1>1, <1>2
<1>5. PICK pos2 : pos2 = [i \in 0 .. n + 1 |-> IF i <= n THEN pos[i] ELSE w + 2 + l]
  OBVIOUS
<1>6. /\ pos2 \in [0 .. n + 1 -> Nat] /\ pos2[n + 1] = w + 2 + l
      /\ \A i \in 0 .. n : pos2[i] = pos[i] /\ pos2[i] \in Nat /\ pos2[i] <= w
  <2>1. \A i \in 0 .. n : pos[i] \in Nat /\ pos[i] <= w
    BY <1>1, <1>4
  <2>2. \A i \in 0 .. n : i \in 0 .. n + 1 /\ i <= n
    OBVIOUS
  <2>3. \A i \in 0 .. n : pos2[i] = pos[i]
    BY <1>5, <2>2
  <2>4. n + 1 \in 0 .. n + 1 /\ ~(n + 1 <= n) /\ w + 2 + l \in Nat
    OBVIOUS
  <2>5. pos2[n + 1] = w + 2 + l
    BY <1>5, <2>4
  <2>6. \A i \in 0 .. n + 1 : i \notin 0 .. n => ~(i <= n)
    OBVIOUS
  <2>7. ASSUME NEW i \in 0 .. n + 1
        PROVE  (IF i <= n THEN pos[i] ELSE w + 2 + l) \in Nat
    <3>1. CASE i <= n
      BY <2>1, <2>6, <3>1
    <3>2. CASE ~(i <= n)
      BY <2>4, <3>2
    <3> QED BY <3>1, <3>2
  <2>8. pos2 \in [0 .. n + 1 -> Nat]
    BY <1>5, <2>7
  <2> QED BY <2>1, <2>3, <2>5, <2>8
<1>7. Len(V) = w + 2 + l /\ Len(ms2) = n + 1
  BY <1>2, <1>3, <1>4
<1>8. \A i \in 0 .. n + 1 : pos2[i] <= w + 2 + l
  BY <1>6
<1>9. ASSUME NEW i \in 1 .. n + 1
      PROVE  /\ pos2[i] = pos2[i - 1] + 2 + Len(ms2[i])
             /\ \A j \in 1 .. 2 + Len(ms2[i]) : V[pos2[i - 1] + j] = Frame(ms2[i])[j]
  <2>1. CASE i <= n
    <3>1. i \in 1 .. n /\ i \in 0 .. n /\ i - 1 \in 0 .. n
      BY <2>1
    <3>2. /\ pos2[i] = pos[i] /\ pos2[i - 1] = pos[i - 1] /\ ms2[i] = ms[i]
          /\ pos[i - 1] \in Nat /\ pos[i] \in Nat /\ pos[i] <= w
          /\ pos[i] = pos[i - 1] + 2 + Len(ms[i])
      BY <1>1, <1>4, <1>6, <3>1
    <3>3. ms[i] \in Payloads
      BY <1>4, <3>1
    <3>4. PICK k \in Nat : k = Len(ms[i])
      BY <3>3, FrameIs, Sizes
    <3>5. ASSUME NEW j \in 1 .. 2 + k  PROVE V[pos[i - 1] + j] = Frame(ms[i])[j]
      <4>1. W[pos[i - 1] + j] = Frame(ms[i])[j]
        BY <1>1, <1>4, <3>1, <3>4
      <4>2. PICK q \in Nat : q = pos[i - 1] /\ q + 2 + k <= w
        BY <3>2, <3>4
      <4>3. q + j \in 1 .. w
        BY <4>2
      <4>4. V[q + j] = W[q + j]
        BY <1>3, <1>4, <4>3
      <4> QED BY <4>1, <4>2, <4>4
    <3> QED BY <3>2, <3>4, <3>5
  <2>2. CASE i = n + 1
    <3>1. pos2[i - 1] = w /\ ms2[i] = m
      <4>1. i - 1 = n /\ n \in 0 .. n
        BY <2>2
      <4> QED BY <1>1, <1>4, <1>6, <2>2, <4>1
    <3>2. pos2[i] = w + 2 + l
      BY <1>6, <2>2
    <3>3. \A j \in 1 .. 2 + l : V[w + j] = f[j]
      BY <1>2, <1>3, <1>4
    <3> QED BY <1>4, <3>1, <3>2, <3>3
  <2> QED BY <2>1, <2>2
<1>10. pos2[0] = 0
  BY <1>1, <1>6
<1>11. Laid(V, pos2, ms2)
  BY <1>3, <1>6, <1>7, <1>8, <1>9, <1>10 DEF Laid
<1> QED BY <1>4, <1>6, <1>11

\* The next message, and where its frame ends.
LEMMA NextFrame ==
  ASSUME NEW W, NEW pos, NEW ms \in Seq(Payloads), Laid(W, pos, ms),
         NEW d \in Nat, d < Len(ms)
  PROVE  /\ ms[d + 1] \in Payloads /\ pos[d] \in Nat
         /\ pos[d + 1] = pos[d] + 2 + Len(ms[d + 1])
         /\ \A j \in 1 .. 2 + Len(ms[d + 1]) : W[pos[d] + j] = Frame(ms[d + 1])[j]
<1>1. PICK n \in Nat : n = Len(ms)
  OBVIOUS
<1>2. d \in 0 .. n /\ d + 1 \in 1 .. n /\ (d + 1) - 1 = d
  BY <1>1
<1>3. PICK e \in 1 .. n : e = d + 1 /\ e - 1 = d
  BY <1>2
<1>4. /\ pos[e] = pos[e - 1] + 2 + Len(ms[e])
      /\ \A j \in 1 .. 2 + Len(ms[e]) : W[pos[e - 1] + j] = Frame(ms[e])[j]
  BY <1>1 DEF Laid
<1>5. ms[e] \in Payloads
  BY <1>1
<1>6. pos[d] \in Nat
  <2>1. pos \in [0 .. n -> Nat]
    BY <1>1 DEF Laid
  <2> QED BY <1>2, <2>1
<1> QED BY <1>3, <1>4, <1>5, <1>6

\* A header that has been read is the size of the next message.
LEMMA HeaderRead ==
  ASSUME NEW W, NEW pos, NEW ms \in Seq(Payloads), Laid(W, pos, ms),
         NEW d \in Nat, d < Len(ms),
         NEW b \in Seq(Bytes), Len(b) = 2, Stands(W, pos[d], b)
  PROVE  HeaderValue(b) = Len(ms[d + 1]) /\ ~Invalid(HeaderValue(b))
<1>1. PICK m \in Payloads : m = ms[d + 1]
  BY NextFrame
<1>2. \A j \in 1 .. 2 + Len(m) : W[pos[d] + j] = Frame(m)[j]
  BY <1>1, NextFrame
<1>3. /\ Len(m) \in 1 .. Buffer - 2
      /\ \A x : x[1] = Frame(m)[1] /\ x[2] = Frame(m)[2] => HeaderValue(x) = Len(m)
  BY FrameIs
<1>4. b[1] = W[pos[d] + 1] /\ b[2] = W[pos[d] + 2]
  BY DEF Stands
<1>5. 1 \in 1 .. 2 + Len(m) /\ 2 \in 1 .. 2 + Len(m)
  BY <1>3, Sizes
<1>6. HeaderValue(b) = Len(m)
  BY <1>2, <1>3, <1>4, <1>5
<1>7. ~Invalid(Len(m))
  BY <1>3, Sizes DEF Invalid
<1> QED BY <1>1, <1>6, <1>7

\* As many bytes as it has, behind its header, are the message.
LEMMA PayloadRead ==
  ASSUME NEW W, NEW pos, NEW ms \in Seq(Payloads), Laid(W, pos, ms),
         NEW d \in Nat, d < Len(ms),
         NEW b \in Seq(Bytes), Len(b) = Len(ms[d + 1]), Stands(W, pos[d] + 2, b)
  PROVE  b = ms[d + 1] /\ pos[d] + 2 + Len(b) = pos[d + 1]
<1>1. PICK m \in Payloads : m = ms[d + 1]
  BY NextFrame
<1>2. \A j \in 1 .. 2 + Len(m) : W[pos[d] + j] = Frame(m)[j]
  BY <1>1, NextFrame
<1>3. m \in Seq(Bytes) /\ \A j \in 1 .. Len(m) : Frame(m)[2 + j] = m[j]
  BY FrameIs
<1>4. PICK k \in Nat, q \in Nat : k = Len(m) /\ q = pos[d]
  BY <1>3, NextFrame
<1>5. \A i \in 1 .. k : b[i] = W[(q + 2) + i]
  BY <1>1, <1>4 DEF Stands
<1>6. ASSUME NEW i \in 1 .. k  PROVE b[i] = m[i]
  <2>1. 2 + i \in 1 .. 2 + k
    OBVIOUS
  <2>2. q + (2 + i) = (q + 2) + i
    OBVIOUS
  <2>3. W[q + (2 + i)] = Frame(m)[2 + i]
    BY <1>2, <1>4, <2>1
  <2>4. Frame(m)[2 + i] = m[i]
    BY <1>3, <1>4
  <2> QED BY <1>5, <2>2, <2>3, <2>4
<1>7. b = m
  <2>1. Len(b) = k /\ Len(m) = k
    BY <1>1, <1>4
  <2> QED BY <1>3, <1>6, <2>1, SeqEqual
<1>8. pos[d + 1] = pos[d] + 2 + Len(m)
  BY <1>1, NextFrame
<1> QED BY <1>1, <1>7, <1>8

\* As long as there is something on the wire, there is a message to come.
LEMMA MoreToCome ==
  ASSUME NEW W, NEW pos, NEW ms \in Seq(Payloads), Laid(W, pos, ms),
         NEW d \in Nat, d <= Len(ms), NEW g \in Nat,
         NEW buf \in Seq(Bytes), NEW wir \in Seq(Bytes), NEW o \in Seq(Bytes),
         Follows(W, pos[d] + g, buf, wir, o), Len(wir) > 0
  PROVE  d < Len(ms)
<1>1. PICK n \in Nat, k \in Nat, w \in Nat, l \in Nat :
        n = Len(ms) /\ k = Len(buf) /\ w = Len(wir) /\ l = Len(o)
  OBVIOUS
<1>2. PICK t \in Nat : t = Len(W)
  BY DEF Laid
<1>3. pos[n] = t /\ d \in 0 .. n
  BY <1>1, <1>2 DEF Laid
<1>4. pos[d] \in Nat
  BY <1>1, <1>3 DEF Laid
<1>5. pos[d] + g + k + w + l <= t /\ w > 0
  BY <1>1, <1>2 DEF Follows
<1>6. pos[d] # t
  BY <1>4, <1>5
<1>7. d # n
  BY <1>3, <1>6
<1> QED BY <1>1, <1>3, <1>7
-----------------------------------------------------------------------------
(* What a step makes of a direction. *)

\* An end that goes, or gives up a send, loses what it had not written.
LEMMA WholeLost ==
  ASSUME NEW up, NEW ms, NEW d, NEW st, NEW ex, NEW buf \in Seq(Bytes),
         NEW wir \in Seq(Bytes), NEW o \in Seq(Bytes),
         Whole(up, ms, d, st, ex, buf, wir, o)
  PROVE  /\ Whole(FALSE, ms, d, st, ex, buf, wir, o)
         /\ Whole(FALSE, ms, d, st, ex, buf, wir, <<>>)
<1>1. PICK W, pos, a :
        /\ Laid(W, pos, ms) /\ a = pos[d] + (IF st = "header" THEN 0 ELSE 2)
        /\ Follows(W, a, buf, wir, o)
  BY DEF Whole
<1>2. Follows(W, a, buf, wir, <<>>)
  BY <1>1, FollowsDropped DEF Laid
<1> QED BY <1>1, <1>2 DEF Whole

LEMMA WholeSend ==
  ASSUME NEW ms \in Seq(Payloads), NEW d \in Nat, NEW st, NEW ex,
         NEW buf \in Seq(Bytes), NEW wir \in Seq(Bytes), NEW o, Len(o) = 0,
         Whole(TRUE, ms, d, st, ex, buf, wir, o),
         NEW m \in Payloads, NEW f, f = Frame(m),
         NEW ms2, Len(ms2) = Len(ms) + 1, ms2[Len(ms) + 1] = m,
         \A i \in 1 .. Len(ms) : ms2[i] = ms[i]
  PROVE  Whole(TRUE, ms2, d, st, ex, buf, wir, f)
<1>1. PICK W, pos, a :
        /\ Laid(W, pos, ms) /\ a = pos[d] + (IF st = "header" THEN 0 ELSE 2)
        /\ Follows(W, a, buf, wir, o)
        /\ a + Len(buf) + Len(wir) + Len(o) = Len(W)
  BY DEF Whole
<1>2. PICK V : Joins(W, f, V)
  BY DEF Joins
<1>3. PICK pos2 : Laid(V, pos2, ms2) /\ \A i \in 0 .. Len(ms) : pos2[i] = pos[i]
  <2>1. Laid(W, pos, ms)
    BY <1>1
  <2> QED BY <1>2, <2>1, LaidSend
<1>4. W \in Seq(Bytes) /\ f \in Seq(Bytes)
  BY <1>1, FrameIs DEF Laid
<1>5. a + Len(buf) + Len(wir) = Len(W)
  BY <1>1 DEF Follows
<1>6. /\ Follows(V, a, buf, wir, f)
      /\ a + Len(buf) + Len(wir) + Len(f) = Len(V)
  BY <1>1, <1>2, <1>4, <1>5, FollowsSend
<1>7. /\ d <= Len(ms)
      /\ st = "remaining" => d < Len(ms) /\ ex = Len(ms[d + 1])
  BY DEF Whole
<1>8. d \in 0 .. Len(ms) /\ d <= Len(ms2)
      /\ (d < Len(ms) => d + 1 \in 1 .. Len(ms) /\ d < Len(ms2))
  <2>1. PICK n \in Nat : n = Len(ms)
    OBVIOUS
  <2> QED BY <1>7, <2>1
<1>9. pos2[d] = pos[d]
  BY <1>3, <1>8
<1>10. st = "remaining" => d < Len(ms2) /\ ex = Len(ms2[d + 1])
  BY <1>7, <1>8
<1> QED BY <1>1, <1>3, <1>6, <1>8, <1>9, <1>10 DEF Whole

LEMMA WholeWrite ==
  ASSUME NEW up, NEW ms, NEW d, NEW st, NEW ex, NEW buf \in Seq(Bytes),
         NEW wir \in Seq(Bytes), NEW o \in Seq(Bytes),
         Whole(up, ms, d, st, ex, buf, wir, o),
         NEW n \in 1 .. Len(o), NEW u, NEW o2, Splits(o, n, u, o2),
         NEW wir2, Joins(wir, u, wir2)
  PROVE  Whole(up, ms, d, st, ex, buf, wir2, o2)
<1>1. PICK W, pos, a :
        /\ Laid(W, pos, ms) /\ a = pos[d] + (IF st = "header" THEN 0 ELSE 2)
        /\ Follows(W, a, buf, wir, o)
        /\ up => a + Len(buf) + Len(wir) + Len(o) = Len(W)
  BY DEF Whole
<1>2. W \in Seq(Bytes) /\ Follows(W, a, buf, wir, o)
  BY <1>1 DEF Laid
<1>3. Follows(W, a, buf, wir2, o2) /\ Len(wir2) + Len(o2) = Len(wir) + Len(o)
  <2>1. Follows(W, a, buf, wir2, o2)
    BY <1>2, FollowsWrite
  <2>2. u \in Seq(Bytes) /\ Len(u) = n /\ Len(o2) = Len(o) - n
    BY TakenInTwo
  <2>3. Len(wir2) = Len(wir) + Len(u)
    BY <2>2, JoinedUp
  <2>4. PICK w \in Nat, l \in Nat : w = Len(wir) /\ l = Len(o) /\ n \in Nat
    OBVIOUS
  <2>5. (w + n) + (l - n) = w + l
    BY <2>4
  <2> QED BY <2>1, <2>2, <2>3, <2>4, <2>5
<1>4. up => a + Len(buf) + Len(wir2) + Len(o2) = Len(W)
  <2>1. /\ wir2 \in Seq(Bytes) /\ o2 \in Seq(Bytes) /\ a \in Nat
    <3>1. u \in Seq(Bytes) /\ o2 \in Seq(Bytes)
      BY TakenInTwo
    <3>2. wir2 \in Seq(Bytes)
      BY <3>1, JoinedUp
    <3> QED BY <1>1, <3>1, <3>2 DEF Follows
  <2>2. PICK k \in Nat, w \in Nat, l \in Nat, w2 \in Nat, l2 \in Nat :
          k = Len(buf) /\ w = Len(wir) /\ l = Len(o) /\ w2 = Len(wir2) /\ l2 = Len(o2)
    BY <2>1
  <2>3. w2 + l2 = w + l
    BY <1>3, <2>2
  <2>4. PICK c \in Nat : c = a
    BY <2>1
  <2>5. c + k + w2 + l2 = c + k + w + l
    BY <2>3
  <2> QED BY <1>1, <2>2, <2>4, <2>5
<1> QED BY <1>1, <1>3, <1>4 DEF Whole

\* A read is of a message that was sent; a partial one leaves it for later.
LEMMA WholeRead ==
  ASSUME NEW up, NEW ms \in Seq(Payloads), NEW d \in Nat, NEW st, NEW ex,
         NEW buf \in Seq(Bytes), NEW wir \in Seq(Bytes), NEW o \in Seq(Bytes),
         Whole(up, ms, d, st, ex, buf, wir, o),
         NEW n \in 1 .. Len(wir), NEW u, NEW wir2, Splits(wir, n, u, wir2),
         NEW b, Joins(buf, u, b)
  PROVE  Whole(up, ms, d, st, ex, b, wir2, o) /\ d < Len(ms)
<1>1. PICK W, pos, a :
        /\ Laid(W, pos, ms) /\ a = pos[d] + (IF st = "header" THEN 0 ELSE 2)
        /\ Follows(W, a, buf, wir, o)
        /\ up => a + Len(buf) + Len(wir) + Len(o) = Len(W)
  BY DEF Whole
<1>2. W \in Seq(Bytes) /\ a \in Nat /\ d <= Len(ms)
  BY <1>1 DEF Laid, Follows, Whole
<1>3. Follows(W, a, b, wir2, o) /\ Len(b) + Len(wir2) = Len(buf) + Len(wir)
  <2>1. W \in Seq(Bytes) /\ Follows(W, a, buf, wir, o)
    BY <1>1, <1>2
  <2>2. Follows(W, a, b, wir2, o)
    BY <2>1, FollowsRead
  <2>3. u \in Seq(Bytes) /\ Len(u) = n /\ Len(wir2) = Len(wir) - n
    BY TakenInTwo
  <2>4. Len(b) = Len(buf) + Len(u)
    BY <2>3, JoinedUp
  <2>5. PICK k \in Nat, w \in Nat : k = Len(buf) /\ w = Len(wir) /\ n \in Nat
    OBVIOUS
  <2>6. (k + n) + (w - n) = k + w
    BY <2>5
  <2> QED BY <2>2, <2>3, <2>4, <2>5, <2>6
<1>4. up => a + Len(b) + Len(wir2) + Len(o) = Len(W)
  <2>1. /\ wir2 \in Seq(Bytes) /\ b \in Seq(Bytes)
    <3>1. u \in Seq(Bytes) /\ wir2 \in Seq(Bytes)
      BY TakenInTwo
    <3>2. b \in Seq(Bytes)
      BY <3>1, JoinedUp
    <3> QED BY <3>1, <3>2
  <2>2. PICK k \in Nat, w \in Nat, l \in Nat, w2 \in Nat, k2 \in Nat :
          k = Len(buf) /\ w = Len(wir) /\ l = Len(o) /\ w2 = Len(wir2) /\ k2 = Len(b)
    BY <2>1
  <2>3. k2 + w2 = k + w
    BY <1>3, <2>2
  <2>4. PICK c \in Nat : c = a
    BY <1>2
  <2>5. c + k2 + w2 + l = c + k + w + l
    BY <2>3
  <2> QED BY <1>1, <2>2, <2>4, <2>5
<1>5. d < Len(ms)
  <2>1. Len(wir) > 0
    OBVIOUS
  <2>2. PICK g \in Nat : g = IF st = "header" THEN 0 ELSE 2
    OBVIOUS
  <2>3. Follows(W, pos[d] + g, buf, wir, o)
    BY <1>1, <2>2
  <2> QED BY <1>1, <1>2, <2>1, <2>3, MoreToCome
<1> QED BY <1>1, <1>3, <1>4, <1>5 DEF Whole

LEMMA WholeHeader ==
  ASSUME NEW up, NEW ms \in Seq(Payloads), NEW d \in Nat, NEW ex,
         NEW b \in Seq(Bytes), NEW wir \in Seq(Bytes), NEW o \in Seq(Bytes),
         Whole(up, ms, d, "header", ex, b, wir, o), d < Len(ms), Len(b) = 2
  PROVE  /\ ~Invalid(HeaderValue(b))
         /\ Whole(up, ms, d, "remaining", HeaderValue(b), <<>>, wir, o)
<1>1. PICK W, pos, a :
        /\ Laid(W, pos, ms) /\ a = pos[d] + (IF "header" = "header" THEN 0 ELSE 2)
        /\ Follows(W, a, b, wir, o)
        /\ up => a + Len(b) + Len(wir) + Len(o) = Len(W)
  BY DEF Whole
<1>2. pos[d] \in Nat
  BY <1>1, NextFrame
<1>3. a = pos[d]
  BY <1>1, <1>2
<1>4. Stands(W, pos[d], b)
  BY <1>1, <1>3 DEF Follows
<1>5. HeaderValue(b) = Len(ms[d + 1]) /\ ~Invalid(HeaderValue(b))
  BY <1>1, <1>4, HeaderRead
<1>6. Follows(W, a + 2, <<>>, wir, o)
  <2>1. W \in Seq(Bytes)
    BY <1>1 DEF Laid
  <2>2. Follows(W, a + Len(b), <<>>, wir, o)
    BY <1>1, <2>1, FollowsDropped
  <2> QED BY <2>2
<1>7. a + 2 = pos[d] + (IF "remaining" = "header" THEN 0 ELSE 2)
  BY <1>3
<1>8. up => (a + 2) + Len(<<>>) + Len(wir) + Len(o) = Len(W)
  <2>1. PICK w \in Nat, l \in Nat : w = Len(wir) /\ l = Len(o)
    OBVIOUS
  <2>2. Len(<<>>) = 0 /\ (a + 2) + 0 + w + l = a + 2 + w + l
    BY <1>2, <1>3
  <2> QED BY <1>1, <2>1, <2>2
<1>9. d <= Len(ms)
  BY DEF Whole
<1> QED BY <1>1, <1>5, <1>6, <1>7, <1>8, <1>9 DEF Whole

LEMMA WholePayload ==
  ASSUME NEW up, NEW ms \in Seq(Payloads), NEW d \in Nat, NEW ex, NEW ex2,
         NEW b \in Seq(Bytes), NEW wir \in Seq(Bytes), NEW o \in Seq(Bytes),
         Whole(up, ms, d, "remaining", ex, b, wir, o), Len(b) = ex
  PROVE  /\ d < Len(ms) /\ b = ms[d + 1]
         /\ Whole(up, ms, d + 1, "header", ex2, <<>>, wir, o)
<1>1. PICK W, pos, a :
        /\ Laid(W, pos, ms) /\ a = pos[d] + (IF "remaining" = "header" THEN 0 ELSE 2)
        /\ Follows(W, a, b, wir, o)
        /\ up => a + Len(b) + Len(wir) + Len(o) = Len(W)
  BY DEF Whole
<1>2. d < Len(ms) /\ Len(b) = Len(ms[d + 1])
  BY DEF Whole
<1>3. a = pos[d] + 2 /\ pos[d] \in Nat
  BY <1>1, <1>2, NextFrame
<1>4. Stands(W, pos[d] + 2, b)
  BY <1>1, <1>3 DEF Follows
<1>5. b = ms[d + 1] /\ pos[d] + 2 + Len(b) = pos[d + 1]
  BY <1>1, <1>2, <1>4, PayloadRead
<1>6. Follows(W, a + Len(b), <<>>, wir, o)
  <2>1. W \in Seq(Bytes)
    BY <1>1 DEF Laid
  <2> QED BY <1>1, <2>1, FollowsDropped
<1>7. PICK c \in Nat : c = a + Len(b)
  BY <1>3
<1>8. c = pos[d + 1] + (IF "header" = "header" THEN 0 ELSE 2)
  <2>1. c = pos[d + 1]
    BY <1>3, <1>5, <1>7
  <2>2. c = c + (IF "header" = "header" THEN 0 ELSE 2)
    BY <1>7
  <2> QED BY <2>1, <2>2
<1>9. up => c + Len(<<>>) + Len(wir) + Len(o) = Len(W)
  <2>1. PICK w \in Nat, l \in Nat : w = Len(wir) /\ l = Len(o)
    OBVIOUS
  <2>2. Len(<<>>) = 0 /\ c + 0 + w + l = c + w + l
    BY <1>7
  <2> QED BY <1>1, <1>7, <2>1, <2>2
<1>10. d + 1 <= Len(ms)
  <2>1. PICK n \in Nat : n = Len(ms)
    OBVIOUS
  <2> QED BY <1>2, <2>1
<1>11. Whole(up, ms, d + 1, "header", ex2, <<>>, wir, o)
  BY <1>1, <1>6, <1>7, <1>8, <1>9, <1>10 DEF Whole
<1> QED BY <1>2, <1>5, <1>11
-----------------------------------------------------------------------------
(* One step per action. *)

\* What every step starts from.
LEMMA GivenFrames ==
  ASSUME TypeOK, NEW e \in Ends
  PROVE  /\ out[e] \in Seq(Bytes) /\ wire[e] \in Seq(Bytes) /\ buff[e] \in Seq(Bytes)
         /\ sent[e] \in Seq(Payloads) /\ Len(sent[e]) \in Nat
         /\ delivered[e] \in Seq(Seq(Bytes)) /\ Len(delivered[e]) \in Nat
         /\ status[e] \in {"up", "down", "refused"} /\ cut[e] \in BOOLEAN
         /\ state[e] \in {"header", "remaining"}
         /\ expected[e] \in 0 .. Base * Base - 1 /\ expected[e] \in Nat
         /\ Peer(e) \in Ends /\ Peer(e) # e /\ Peer(Peer(e)) = e
<1>1. /\ out[e] \in Seq(Bytes) /\ wire[e] \in Seq(Bytes) /\ buff[e] \in Seq(Bytes)
      /\ sent[e] \in Seq(Payloads)
      /\ status[e] \in {"up", "down", "refused"} /\ cut[e] \in BOOLEAN
      /\ state[e] \in {"header", "remaining"}
      /\ expected[e] \in 0 .. Base * Base - 1
  BY DEF TypeOK
<1>2. delivered[e] \in Seq(Seq(Bytes))
  BY DEF TypeOK
<1>3. Len(sent[e]) \in Nat
  BY <1>1
<1>4. Len(delivered[e]) \in Nat
  BY <1>2
<1>5. expected[e] \in Nat
  BY <1>1, Sizes
<1> QED BY <1>1, <1>2, <1>3, <1>4, <1>5, PeerEnds

LEMMA WholeWeaker ==
  ASSUME NEW up, NEW ms, NEW d, NEW st, NEW ex, NEW buf, NEW wir, NEW o,
         Whole(up, ms, d, st, ex, buf, wir, o), NEW up2, up2 => up
  PROVE  Whole(up2, ms, d, st, ex, buf, wir, o)
BY DEF Whole

\* A direction in which nothing moves stays whole.
LEMMA IntactStays ==
  ASSUME NEW e \in Ends, Intact(e), Up(e)' => Up(e),
         sent'[e] = sent[e], wire'[e] = wire[e], out'[e] = out[e],
         delivered'[Peer(e)] = delivered[Peer(e)], state'[Peer(e)] = state[Peer(e)],
         expected'[Peer(e)] = expected[Peer(e)], buff'[Peer(e)] = buff[Peer(e)]
  PROVE  Intact(e)'
<1>1. PICK up : up = Up(e)'
  OBVIOUS
<1>2. Whole(up, sent[e], Len(delivered[Peer(e)]), state[Peer(e)],
            expected[Peer(e)], buff[Peer(e)], wire[e], out[e])
  BY <1>1, WholeWeaker DEF Intact
<1> QED BY <1>1, <1>2 DEF Intact

LEMMA SendKeeps ==
  ASSUME FramingInv, NEW e \in Ends, Send(e)
  PROVE  FramingInv'
<1>1. PICK m \in Payloads : /\ sent' = [sent EXCEPT ![e] = Append(@, m)]
                            /\ out' = [out EXCEPT ![e] = Frame(m)]
  BY DEF Send
<1>2. /\ Up(e) /\ out[e] = <<>>
      /\ UNCHANGED <<status, wire, buff, state, expected, delivered, cut>>
  BY DEF Send, Idle
<1>3. TypeOK
  BY DEF FramingInv
<1>4. PICK f \in Seq(Bytes) : f = Frame(m)
  BY FrameIs
<1>5. PICK ms2 : ms2 = Append(sent[e], m)
  OBVIOUS
<1>6. /\ ms2 \in Seq(Payloads) /\ Len(ms2) = Len(sent[e]) + 1
      /\ ms2[Len(sent[e]) + 1] = m
      /\ \A i \in 1 .. Len(sent[e]) : ms2[i] = sent[e][i]
  BY <1>3, <1>5, AppendProperties, GivenFrames
<1>7. /\ sent' \in [Ends -> Seq(Payloads)] /\ sent'[e] = ms2
      /\ \A x \in Ends : x # e => sent'[x] = sent[x]
  <2>1. sent' = [sent EXCEPT ![e] = ms2] /\ sent \in [Ends -> Seq(Payloads)]
    BY <1>1, <1>3, <1>5 DEF TypeOK
  <2> QED BY <1>6, <2>1
<1>8. /\ out' \in [Ends -> Seq(Bytes)] /\ out'[e] = f
      /\ \A x \in Ends : x # e => out'[x] = out[x]
  <2>1. out' = [out EXCEPT ![e] = f] /\ out \in [Ends -> Seq(Bytes)]
    BY <1>1, <1>3, <1>4 DEF TypeOK
  <2> QED BY <1>4, <2>1
<1>9. TypeOK'
  BY <1>2, <1>3, <1>7, <1>8 DEF TypeOK
<1>10. Partial'
  BY <1>2 DEF FramingInv, Partial, Goal
<1>11. ASSUME NEW x \in Ends, ~cut'[x]  PROVE Intact(x)'
  <2>1. Intact(x)
    BY <1>2, <1>11 DEF FramingInv
  <2>2. CASE x = e
    <3>1. PICK r \in Ends : r = Peer(e)
      BY PeerEnds
    <3>2. /\ buff[r] \in Seq(Bytes) /\ wire[e] \in Seq(Bytes)
          /\ sent[e] \in Seq(Payloads) /\ Len(delivered[r]) \in Nat
          /\ Len(out[e]) = 0
      BY <1>2, <1>3, GivenFrames
    <3>3. Up(e) = TRUE /\ Up(e)' = TRUE
      BY <1>2 DEF Up
    <3>4. Whole(TRUE, sent[e], Len(delivered[r]), state[r], expected[r], buff[r],
                wire[e], out[e])
      BY <2>1, <2>2, <3>1, <3>3 DEF Intact
    <3>5. Whole(TRUE, ms2, Len(delivered[r]), state[r], expected[r], buff[r],
                wire[e], f)
      BY <1>4, <1>6, <3>2, <3>4, WholeSend
    <3> QED BY <1>2, <1>7, <1>8, <2>2, <3>1, <3>3, <3>5 DEF Intact
  <2>3. CASE x # e
    BY <1>2, <1>7, <1>8, <2>1, <2>3, IntactStays DEF Up
  <2> QED BY <2>2, <2>3
<1> QED BY <1>9, <1>10, <1>11 DEF FramingInv

LEMMA WriteKeeps ==
  ASSUME FramingInv, NEW e \in Ends, Write(e)
  PROVE  FramingInv'
<1>1. PICK n \in 1 .. Len(out[e]) :
        /\ wire' = [wire EXCEPT ![e] = @ \o SubSeq(out[e], 1, n)]
        /\ out' = [out EXCEPT ![e] = SubSeq(@, n + 1, Len(@))]
  BY DEF Write
<1>2. UNCHANGED <<status, buff, state, expected, sent, delivered, cut>>
  BY DEF Write
<1>3. TypeOK
  BY DEF FramingInv
<1>4. /\ out[e] \in Seq(Bytes) /\ wire[e] \in Seq(Bytes)
      /\ out \in [Ends -> Seq(Bytes)] /\ wire \in [Ends -> Seq(Bytes)]
  BY <1>3, GivenFrames DEF TypeOK
<1>5. PICK u, o2 : /\ u = SubSeq(out[e], 1, n) /\ o2 = SubSeq(out[e], n + 1, Len(out[e]))
                   /\ Splits(out[e], n, u, o2)
  BY DEF Splits
<1>6. PICK w2 : w2 = wire[e] \o u /\ Joins(wire[e], u, w2)
  BY DEF Joins
<1>7. wire' = [wire EXCEPT ![e] = w2] /\ out' = [out EXCEPT ![e] = o2]
  BY <1>1, <1>4, <1>5, <1>6
<1>8. u \in Seq(Bytes) /\ o2 \in Seq(Bytes)
  <2>1. Splits(out[e], n, u, o2)
    BY <1>5
  <2> QED BY <1>4, <2>1, TakenInTwo
<1>9. w2 \in Seq(Bytes)
  <2>1. Joins(wire[e], u, w2)
    BY <1>6
  <2> QED BY <1>4, <1>8, <2>1, JoinedUp
<1>10. /\ wire' \in [Ends -> Seq(Bytes)] /\ wire'[e] = w2
       /\ out' \in [Ends -> Seq(Bytes)] /\ out'[e] = o2
       /\ \A x \in Ends : x # e => wire'[x] = wire[x] /\ out'[x] = out[x]
  BY <1>4, <1>7, <1>8, <1>9
<1>11. TypeOK'
  BY <1>2, <1>3, <1>10 DEF TypeOK
<1>12. Partial'
  BY <1>2 DEF FramingInv, Partial, Goal
<1>13. ASSUME NEW x \in Ends, ~cut'[x]  PROVE Intact(x)'
  <2>1. Intact(x)
    BY <1>2, <1>13 DEF FramingInv
  <2>2. CASE x = e
    <3>1. PICK r \in Ends : r = Peer(e)
      BY PeerEnds
    <3>2. buff[r] \in Seq(Bytes)
      BY <1>3, GivenFrames
    <3>3. PICK up : up = Up(e) /\ up = Up(e)'
      BY <1>2 DEF Up
    <3>4. Whole(up, sent[e], Len(delivered[r]), state[r], expected[r], buff[r],
                wire[e], out[e])
      BY <2>1, <2>2, <3>1, <3>3 DEF Intact
    <3>5. Splits(out[e], n, u, o2) /\ Joins(wire[e], u, w2)
      BY <1>5, <1>6
    <3>6. Whole(up, sent[e], Len(delivered[r]), state[r], expected[r], buff[r], w2, o2)
      BY <1>4, <3>2, <3>4, <3>5, WholeWrite
    <3> QED BY <1>2, <1>10, <2>2, <3>1, <3>3, <3>6 DEF Intact
  <2>3. CASE x # e
    BY <1>2, <1>10, <2>1, <2>3, IntactStays DEF Up
  <2> QED BY <2>2, <2>3
<1> QED BY <1>11, <1>12, <1>13 DEF FramingInv
\* An end goes, with what it had to write.
LEMMA GoingKeeps ==
  ASSUME FramingInv, NEW e \in Ends,
         status' = [status EXCEPT ![e] = "down"], out' = [out EXCEPT ![e] = <<>>],
         UNCHANGED <<wire, buff, state, expected, sent, delivered, cut>>
  PROVE  FramingInv'
<1>1. TypeOK
  BY DEF FramingInv
<1>2. /\ out' \in [Ends -> Seq(Bytes)] /\ out'[e] = <<>>
      /\ \A x \in Ends : x # e => out'[x] = out[x]
  BY <1>1 DEF TypeOK
<1>3. /\ status' \in [Ends -> {"up", "down", "refused"}] /\ status'[e] = "down"
      /\ \A x \in Ends : x # e => status'[x] = status[x]
  BY <1>1 DEF TypeOK
<1>4. TypeOK'
  BY <1>1, <1>2, <1>3 DEF TypeOK
<1>5. Partial'
  BY DEF FramingInv, Partial, Goal
<1>6. ASSUME NEW x \in Ends, ~cut'[x]  PROVE Intact(x)'
  <2>1. Intact(x)
    BY <1>6 DEF FramingInv
  <2>2. CASE x = e
    <3>1. PICK r \in Ends : r = Peer(e)
      BY PeerEnds
    <3>2. /\ buff[r] \in Seq(Bytes) /\ wire[e] \in Seq(Bytes) /\ out[e] \in Seq(Bytes)
      BY <1>1, GivenFrames
    <3>3. PICK up : up = Up(e)
      OBVIOUS
    <3>4. Whole(up, sent[e], Len(delivered[r]), state[r], expected[r], buff[r],
                wire[e], out[e])
      BY <2>1, <2>2, <3>1, <3>3 DEF Intact
    <3>5. Whole(FALSE, sent[e], Len(delivered[r]), state[r], expected[r], buff[r],
                wire[e], <<>>)
      BY <3>2, <3>4, WholeLost
    <3>6. Up(e)' = FALSE
      BY <1>3 DEF Up
    <3> QED BY <1>2, <2>2, <3>1, <3>5, <3>6 DEF Intact
  <2>3. CASE x # e
    BY <1>2, <1>3, <2>1, <2>3, IntactStays DEF Up
  <2> QED BY <2>2, <2>3
<1> QED BY <1>4, <1>5, <1>6 DEF FramingInv

LEMMA CloseKeeps ==
  ASSUME FramingInv, NEW e \in Ends, Close(e)
  PROVE  FramingInv'
BY GoingKeeps DEF Close

LEMMA InterruptKeeps ==
  ASSUME FramingInv, Interrupt
  PROVE  FramingInv'
<1>1. PICK e \in Ends : e = "client"
  BY DEF Ends
<1>2. /\ out' = [out EXCEPT ![e] = <<>>]
      /\ UNCHANGED <<wire, buff, state, expected, sent, delivered>>
  BY <1>1 DEF Interrupt
<1>3. CASE status' = [status EXCEPT ![e] = "down"] /\ UNCHANGED cut
  BY <1>2, <1>3, GoingKeeps
<1>4. CASE cut' = [cut EXCEPT ![e] = TRUE] /\ UNCHANGED status
  <2>1. TypeOK
    BY DEF FramingInv
  <2>2. /\ out' \in [Ends -> Seq(Bytes)]
        /\ \A x \in Ends : x # e => out'[x] = out[x]
    BY <1>2, <2>1 DEF TypeOK
  <2>3. /\ cut' \in [Ends -> BOOLEAN] /\ cut'[e]
        /\ \A x \in Ends : x # e => cut'[x] = cut[x]
    BY <1>4, <2>1 DEF TypeOK
  <2>4. TypeOK'
    BY <1>2, <1>4, <2>1, <2>2, <2>3 DEF TypeOK
  <2>5. Partial'
    BY <1>2 DEF FramingInv, Partial, Goal
  <2>6. ASSUME NEW x \in Ends, ~cut'[x]  PROVE Intact(x)'
    <3>1. x # e /\ Intact(x)
      BY <2>3, <2>6 DEF FramingInv
    <3> QED BY <1>2, <1>4, <2>2, <3>1, IntactStays DEF Up
  <2> QED BY <2>4, <2>5, <2>6 DEF FramingInv
<1>5. \/ status' = [status EXCEPT !["client"] = "down"] /\ UNCHANGED cut
      \/ cut' = [cut EXCEPT !["client"] = TRUE] /\ UNCHANGED status
  BY DEF Interrupt
<1> QED BY <1>1, <1>3, <1>4, <1>5
\* A read of the bytes u, which makes b of what is in mBuff and leaves w2 on
\* the wire.
Reading(e, u, b, w2) ==
  /\ Splits(wire[Peer(e)], Len(u), u, w2) /\ Len(u) \in 1 .. Len(wire[Peer(e)])
  /\ Joins(buff[e], u, b) /\ b \in Seq(Bytes) /\ w2 \in Seq(Bytes)
  /\ Len(b) <= Goal(e)
  /\ Idle(e) /\ wire' = [wire EXCEPT ![Peer(e)] = w2] /\ UNCHANGED <<out, sent, cut>>
  /\ \/ /\ Len(b) < Goal(e) /\ buff' = [buff EXCEPT ![e] = b]
        /\ UNCHANGED <<status, state, expected, delivered>>
     \/ Len(b) = Goal(e) /\ state[e] = "header" /\ Header(e, b)
     \/ Len(b) = Goal(e) /\ state[e] = "remaining" /\ Payload(e, b)

LEMMA ReadReads ==
  ASSUME TypeOK, Partial, NEW e \in Ends, Read(e)
  PROVE  \E u, b, w2 : Reading(e, u, b, w2)
<1>1. PICK p \in Ends : p = Peer(e)
  BY PeerEnds
<1>2. PICK n \in 1 .. Len(wire[p]) :
       /\ n <= ReadSize(e)
       /\ wire' = [wire EXCEPT ![p] = SubSeq(@, n + 1, Len(@))]
       /\ LET b == buff[e] \o SubSeq(wire[p], 1, n) IN
            IF Len(b) < Goal(e)
            THEN /\ buff' = [buff EXCEPT ![e] = b]
                 /\ UNCHANGED <<status, state, expected, delivered>>
            ELSE \/ state[e] = "header" /\ Header(e, b)
                 \/ state[e] = "remaining" /\ Payload(e, b)
  BY <1>1 DEF Read
<1>3. Idle(e) /\ UNCHANGED <<out, sent, cut>>
  BY DEF Read
<1>4. /\ wire[p] \in Seq(Bytes) /\ buff[e] \in Seq(Bytes)
      /\ wire \in [Ends -> Seq(Bytes)]
  BY GivenFrames DEF TypeOK
<1>5. PICK u, w2 : /\ u = SubSeq(wire[p], 1, n)
                   /\ w2 = SubSeq(wire[p], n + 1, Len(wire[p]))
                   /\ Splits(wire[p], n, u, w2)
  BY DEF Splits
<1>6. PICK b : b = buff[e] \o u /\ Joins(buff[e], u, b)
  BY DEF Joins
<1>7. u \in Seq(Bytes) /\ Len(u) = n /\ w2 \in Seq(Bytes)
  <2>1. Splits(wire[p], n, u, w2)
    BY <1>5
  <2> QED BY <1>4, <2>1, TakenInTwo
<1>8. b \in Seq(Bytes) /\ Len(b) = Len(buff[e]) + n
  <2>1. Joins(buff[e], u, b)
    BY <1>6
  <2> QED BY <1>4, <1>7, <2>1, JoinedUp
<1>9. Len(b) <= Goal(e) /\ (~(Len(b) < Goal(e)) => Len(b) = Goal(e))
  <2>1. PICK k \in Nat, g \in Nat : k = Len(buff[e]) /\ g = Goal(e)
    <3>1. Len(buff[e]) \in Nat
      BY <1>4
    <3>2. expected[e] \in Nat
      BY GivenFrames
    <3>3. Goal(e) \in Nat
      BY <3>2 DEF Goal
    <3> QED BY <3>1, <3>3
  <2>2. n \in Nat /\ n <= g - k
    BY <1>2, <2>1 DEF ReadSize
  <2>3. k + n <= g /\ (~(k + n < g) => k + n = g)
    BY <2>2
  <2> QED BY <1>8, <2>1, <2>3
<1>10. wire' = [wire EXCEPT ![p] = w2]
  BY <1>2, <1>4, <1>5
<1>11. IF Len(b) < Goal(e)
       THEN /\ buff' = [buff EXCEPT ![e] = b]
            /\ UNCHANGED <<status, state, expected, delivered>>
       ELSE \/ state[e] = "header" /\ Header(e, b)
            \/ state[e] = "remaining" /\ Payload(e, b)
  <2>1. b = buff[e] \o SubSeq(wire[p], 1, n)
    BY <1>5, <1>6
  <2> QED BY <1>2, <2>1
<1>12. \/ /\ Len(b) < Goal(e) /\ buff' = [buff EXCEPT ![e] = b]
          /\ UNCHANGED <<status, state, expected, delivered>>
       \/ Len(b) = Goal(e) /\ state[e] = "header" /\ Header(e, b)
       \/ Len(b) = Goal(e) /\ state[e] = "remaining" /\ Payload(e, b)
  <2>1. CASE Len(b) < Goal(e)
    BY <1>11, <2>1
  <2>2. CASE ~(Len(b) < Goal(e))
    BY <1>9, <1>11, <2>2
  <2> QED BY <2>1, <2>2
<1>13. Reading(e, u, b, w2)
  <2>1. Splits(wire[Peer(e)], Len(u), u, w2) /\ Len(u) \in 1 .. Len(wire[Peer(e)])
    BY <1>1, <1>5, <1>7
  <2>2. Joins(buff[e], u, b) /\ wire' = [wire EXCEPT ![Peer(e)] = w2]
    BY <1>1, <1>6, <1>10
  <2> QED BY <1>3, <1>7, <1>8, <1>9, <1>12, <2>1, <2>2 DEF Reading
<1> QED BY <1>13

\* What is read of a direction that is intact belongs to its next message.
LEMMA ReadOfNext ==
  ASSUME TypeOK, NEW e \in Ends, NEW u, NEW b, NEW w2, Reading(e, u, b, w2),
         NEW p, p = Peer(e), Intact(p), NEW up, up = Up(p)
  PROVE  /\ Whole(up, sent[p], Len(delivered[e]), state[e], expected[e], b, w2, out[p])
         /\ Len(delivered[e]) < Len(sent[p])
<1>1. /\ p \in Ends /\ Peer(p) = e /\ buff[e] \in Seq(Bytes) /\ wire[p] \in Seq(Bytes)
      /\ out[p] \in Seq(Bytes) /\ sent[p] \in Seq(Payloads)
      /\ Len(delivered[e]) \in Nat
  BY GivenFrames
<1>2. Whole(up, sent[p], Len(delivered[e]), state[e], expected[e], buff[e],
            wire[p], out[p])
  BY <1>1 DEF Intact
<1>3. Splits(wire[p], Len(u), u, w2) /\ Len(u) \in 1 .. Len(wire[p]) /\ Joins(buff[e], u, b)
  BY DEF Reading
<1> QED BY <1>1, <1>2, <1>3, WholeRead
\* What a read leaves alone.
LEMMA ReadElsewhere ==
  ASSUME TypeOK, NEW e \in Ends, NEW u, NEW b, NEW w2, Reading(e, u, b, w2),
         NEW p, p = Peer(e)
  PROVE  /\ wire' \in [Ends -> Seq(Bytes)] /\ wire'[p] = w2 /\ wire'[e] = wire[e]
         /\ UNCHANGED <<out, sent, cut>> /\ b \in Seq(Bytes) /\ w2 \in Seq(Bytes)
<1>1. p \in Ends /\ p # e /\ wire \in [Ends -> Seq(Bytes)]
  BY PeerEnds DEF TypeOK
<1>2. /\ wire' = [wire EXCEPT ![p] = w2] /\ w2 \in Seq(Bytes) /\ b \in Seq(Bytes)
      /\ UNCHANGED <<out, sent, cut>>
  BY DEF Reading
<1> QED BY <1>1, <1>2

\* The other direction, of which a read reads nothing.
LEMMA OtherDirection ==
  ASSUME TypeOK, NEW e \in Ends, NEW u, NEW b, NEW w2, Reading(e, u, b, w2),
         Intact(e), Up(e)' => Up(e),
         \A x \in Ends : x # e => /\ delivered'[x] = delivered[x] /\ state'[x] = state[x]
                                  /\ expected'[x] = expected[x] /\ buff'[x] = buff[x]
  PROVE  Intact(e)'
<1>1. Peer(e) \in Ends /\ Peer(e) # e
  BY PeerEnds
<1>2. wire'[e] = wire[e] /\ UNCHANGED <<out, sent, cut>>
  BY ReadElsewhere
<1> QED BY <1>1, <1>2, IntactStays

\* Both directions, from the one that is read.
LEMMA BothDirections ==
  ASSUME FramingInv, NEW e \in Ends, NEW u, NEW b, NEW w2, Reading(e, u, b, w2),
         Up(e)' => Up(e), ~cut[Peer(e)] => Intact(Peer(e))',
         \A x \in Ends : x # e => /\ delivered'[x] = delivered[x] /\ state'[x] = state[x]
                                  /\ expected'[x] = expected[x] /\ buff'[x] = buff[x]
  PROVE  \A x \in Ends : ~cut'[x] => Intact(x)'
<1>1. TypeOK /\ \A x \in Ends : ~cut[x] => Intact(x)
  BY DEF FramingInv
<1>2. UNCHANGED cut
  BY DEF Reading
<1>3. ~cut'[e] => Intact(e)'
  BY <1>1, <1>2, OtherDirection
<1>4. \A x \in Ends : x = e \/ x = Peer(e)
  BY DEF Ends, Peer
<1> QED BY <1>2, <1>3, <1>4

\* Less than what is missing.
LEMMA PartlyKeeps ==
  ASSUME FramingInv, NEW e \in Ends, NEW u, NEW b, NEW w2, Reading(e, u, b, w2),
         Len(b) < Goal(e), buff' = [buff EXCEPT ![e] = b],
         UNCHANGED <<status, state, expected, delivered>>
  PROVE  FramingInv'
<1>1. TypeOK /\ Partial
  BY DEF FramingInv
<1>2. PICK p \in Ends : p = Peer(e) /\ p # e /\ Peer(p) = e
  BY PeerEnds
<1>3. /\ wire' \in [Ends -> Seq(Bytes)] /\ wire'[p] = w2 /\ wire'[e] = wire[e]
      /\ UNCHANGED <<out, sent, cut>> /\ b \in Seq(Bytes)
  BY <1>1, <1>2, ReadElsewhere
<1>4. /\ buff' \in [Ends -> Seq(Bytes)] /\ buff'[e] = b
      /\ \A x \in Ends : x # e => buff'[x] = buff[x]
  BY <1>1, <1>3 DEF TypeOK
<1>5. TypeOK'
  BY <1>1, <1>3, <1>4 DEF TypeOK
<1>6. Partial'
  BY <1>1, <1>4 DEF Partial, Goal
<1>7. ASSUME ~cut[p]  PROVE Intact(p)'
  <2>1. PICK up : up = Up(p) /\ up = Up(p)'
    BY DEF Up
  <2>2. Intact(p)
    BY <1>7 DEF FramingInv
  <2>3. Whole(up, sent[p], Len(delivered[e]), state[e], expected[e], b, w2, out[p])
    BY <1>1, <1>2, <2>1, <2>2, ReadOfNext
  <2> QED BY <1>2, <1>3, <1>4, <2>1, <2>3 DEF Intact
<1>8. \A x \in Ends : ~cut'[x] => Intact(x)'
  BY <1>2, <1>4, <1>7, BothDirections DEF Up
<1> QED BY <1>5, <1>6, <1>8 DEF FramingInv

\* A header.
LEMMA HeaderKeeps ==
  ASSUME FramingInv, NEW e \in Ends, NEW u, NEW b, NEW w2, Reading(e, u, b, w2),
         Len(b) = Goal(e), state[e] = "header", Header(e, b)
  PROVE  FramingInv'
<1>1. TypeOK /\ Partial
  BY DEF FramingInv
<1>2. PICK p \in Ends : p = Peer(e) /\ p # e /\ Peer(p) = e
  BY PeerEnds
<1>3. /\ wire' \in [Ends -> Seq(Bytes)] /\ wire'[p] = w2 /\ wire'[e] = wire[e]
      /\ UNCHANGED <<out, sent, cut>> /\ b \in Seq(Bytes) /\ w2 \in Seq(Bytes)
  BY <1>1, <1>2, ReadElsewhere
<1>4. Len(b) = 2 /\ b[1] \in Bytes /\ b[2] \in Bytes
  <2>1. Len(b) = 2
    BY DEF Goal
  <2>2. \A i \in 1 .. Len(b) : b[i] \in Bytes
    <3>1. b \in Seq(Bytes)
      BY <1>3
    <3> QED BY <3>1
  <2>3. 1 \in 1 .. Len(b) /\ 2 \in 1 .. Len(b)
    BY <2>1
  <2> QED BY <2>1, <2>2, <2>3
<1>5. PICK h \in 0 .. Base * Base - 1 : h = HeaderValue(b) /\ h \in Nat
  <2>1. HeaderValue(b) \in 0 .. Base * Base - 1
    BY <1>4, HeaderType
  <2> QED BY <2>1, Sizes
<1>6. /\ buff' \in [Ends -> Seq(Bytes)] /\ buff'[e] = <<>>
      /\ \A x \in Ends : x # e => buff'[x] = buff[x]
  BY <1>1 DEF Header, TypeOK
<1>7. /\ expected' \in [Ends -> 0 .. Base * Base - 1] /\ expected'[e] = h
      /\ \A x \in Ends : x # e => expected'[x] = expected[x]
  BY <1>1, <1>5 DEF Header, TypeOK
<1>8. /\ status' \in [Ends -> {"up", "down", "refused"}]
      /\ state' \in [Ends -> {"header", "remaining"}]
      /\ \A x \in Ends : x # e => status'[x] = status[x] /\ state'[x] = state[x]
      /\ Up(e)' => Up(e)
      /\ Invalid(h) => state'[e] = "header" /\ status'[e] = "refused"
      /\ ~Invalid(h) => state'[e] = "remaining" /\ status'[e] = status[e]
      /\ UNCHANGED delivered
  <2>1. /\ status \in [Ends -> {"up", "down", "refused"}]
        /\ state \in [Ends -> {"header", "remaining"}]
    BY <1>1 DEF TypeOK
  <2>2. CASE Invalid(h)
    BY <1>5, <2>1, <2>2 DEF Header, Up
  <2>3. CASE ~Invalid(h)
    BY <1>5, <2>1, <2>3 DEF Header, Up
  <2> QED BY <2>2, <2>3
<1>9. TypeOK'
  BY <1>1, <1>3, <1>6, <1>7, <1>8 DEF TypeOK
<1>10. Partial'
  <2>1. /\ Len(buff'[e]) < (IF state'[e] = "header" THEN 2 ELSE expected'[e])
        /\ state'[e] = "remaining" => expected'[e] <= Buffer
    <3>1. Len(<<>>) = 0
      OBVIOUS
    <3>2. CASE Invalid(h)
      BY <1>6, <1>8, <3>1, <3>2
    <3>3. CASE ~Invalid(h)
      BY <1>5, <1>6, <1>7, <1>8, <3>1, <3>3, Sizes DEF Invalid
    <3> QED BY <3>2, <3>3
  <2>2. ASSUME NEW x \in Ends, x # e
        PROVE  /\ Len(buff'[x]) < (IF state'[x] = "header" THEN 2 ELSE expected'[x])
               /\ state'[x] = "remaining" => expected'[x] <= Buffer
    BY <1>1, <1>6, <1>7, <1>8, <2>2 DEF Partial, Goal
  <2> QED BY <2>1, <2>2 DEF Partial, Goal
<1>11. ASSUME ~cut[p]  PROVE Intact(p)'
  <2>1. PICK up : up = Up(p) /\ up = Up(p)'
    BY <1>2, <1>8 DEF Up
  <2>2. Intact(p)
    BY <1>11 DEF FramingInv
  <2>3. PICK d \in Nat : d = Len(delivered[e])
    BY <1>1, GivenFrames
  <2>4. /\ Whole(up, sent[p], d, "header", expected[e], b, w2, out[p])
        /\ d < Len(sent[p])
    BY <1>1, <1>2, <2>1, <2>2, <2>3, ReadOfNext
  <2>5. sent[p] \in Seq(Payloads) /\ out[p] \in Seq(Bytes)
    BY <1>1, GivenFrames
  <2>6. ~Invalid(h) /\ Whole(up, sent[p], d, "remaining", h, <<>>, w2, out[p])
    BY <1>3, <1>4, <1>5, <2>4, <2>5, WholeHeader
  <2> QED BY <1>2, <1>3, <1>6, <1>7, <1>8, <2>1, <2>3, <2>6 DEF Intact
<1>12. \A x \in Ends : ~cut'[x] => Intact(x)'
  BY <1>2, <1>6, <1>7, <1>8, <1>11, BothDirections
<1> QED BY <1>9, <1>10, <1>12 DEF FramingInv

\* A payload.
LEMMA PayloadKeeps ==
  ASSUME FramingInv, NEW e \in Ends, NEW u, NEW b, NEW w2, Reading(e, u, b, w2),
         Len(b) = Goal(e), state[e] = "remaining", Payload(e, b)
  PROVE  FramingInv'
<1>1. TypeOK /\ Partial
  BY DEF FramingInv
<1>2. PICK p \in Ends : p = Peer(e) /\ p # e /\ Peer(p) = e
  BY PeerEnds
<1>3. /\ wire' \in [Ends -> Seq(Bytes)] /\ wire'[p] = w2 /\ wire'[e] = wire[e]
      /\ UNCHANGED <<out, sent, cut>> /\ b \in Seq(Bytes) /\ w2 \in Seq(Bytes)
  BY <1>1, <1>2, ReadElsewhere
<1>4. /\ delivered[e] \in Seq(Seq(Bytes))
      /\ delivered \in [Ends -> Seq(Seq(Bytes))]
  BY <1>1 DEF TypeOK
<1>5. PICK d \in Nat : d = Len(delivered[e])
  BY <1>4
<1>6. PICK ds : ds = Append(delivered[e], b)
  OBVIOUS
<1>7. ds \in Seq(Seq(Bytes)) /\ Len(ds) = d + 1
  BY <1>3, <1>4, <1>5, <1>6, AppendProperties
<1>8. /\ delivered' \in [Ends -> Seq(Seq(Bytes))] /\ delivered'[e] = ds
      /\ \A x \in Ends : x # e => delivered'[x] = delivered[x]
  <2>1. delivered' = [delivered EXCEPT ![e] = ds]
    BY <1>6 DEF Payload
  <2> QED BY <1>4, <1>7, <2>1
<1>9. /\ buff' \in [Ends -> Seq(Bytes)] /\ buff'[e] = <<>>
      /\ \A x \in Ends : x # e => buff'[x] = buff[x]
  BY <1>1 DEF Payload, TypeOK
<1>10. /\ state' \in [Ends -> {"header", "remaining"}] /\ state'[e] = "header"
       /\ \A x \in Ends : x # e => state'[x] = state[x]
       /\ UNCHANGED <<status, expected>>
  BY <1>1 DEF Payload, TypeOK
<1>11. TypeOK'
  BY <1>1, <1>3, <1>8, <1>9, <1>10 DEF TypeOK
<1>12. Partial'
  <2>1. /\ Len(buff'[e]) < (IF state'[e] = "header" THEN 2 ELSE expected'[e])
        /\ state'[e] = "remaining" => expected'[e] <= Buffer
    <3>1. Len(<<>>) = 0
      OBVIOUS
    <3> QED BY <1>9, <1>10, <3>1
  <2>2. ASSUME NEW x \in Ends, x # e
        PROVE  /\ Len(buff'[x]) < (IF state'[x] = "header" THEN 2 ELSE expected'[x])
               /\ state'[x] = "remaining" => expected'[x] <= Buffer
    BY <1>1, <1>9, <1>10, <2>2 DEF Partial, Goal
  <2> QED BY <2>1, <2>2 DEF Partial, Goal
<1>13. ASSUME ~cut[p]  PROVE Intact(p)'
  <2>1. PICK up : up = Up(p) /\ up = Up(p)'
    BY <1>10 DEF Up
  <2>2. Intact(p)
    BY <1>13 DEF FramingInv
  <2>3. Whole(up, sent[p], d, "remaining", expected[e], b, w2, out[p])
    BY <1>1, <1>2, <1>5, <2>1, <2>2, ReadOfNext
  <2>4. sent[p] \in Seq(Payloads) /\ out[p] \in Seq(Bytes) /\ Len(b) = expected[e]
    BY <1>1, GivenFrames DEF Goal
  <2>5. Whole(up, sent[p], d + 1, "header", expected[e], <<>>, w2, out[p])
    BY <1>3, <2>3, <2>4, WholePayload
  <2> QED BY <1>2, <1>3, <1>7, <1>8, <1>9, <1>10, <2>1, <2>5 DEF Intact
<1>14. \A x \in Ends : ~cut'[x] => Intact(x)'
  BY <1>2, <1>8, <1>9, <1>10, <1>13, BothDirections DEF Up
<1> QED BY <1>11, <1>12, <1>14 DEF FramingInv

LEMMA ReadKeeps ==
  ASSUME FramingInv, NEW e \in Ends, Read(e)
  PROVE  FramingInv'
<1>1. PICK u, b, w2 : Reading(e, u, b, w2)
  BY ReadReads DEF FramingInv
<1>2. CASE /\ Len(b) < Goal(e) /\ buff' = [buff EXCEPT ![e] = b]
           /\ UNCHANGED <<status, state, expected, delivered>>
  BY <1>1, <1>2, PartlyKeeps
<1>3. CASE Len(b) = Goal(e) /\ state[e] = "header" /\ Header(e, b)
  BY <1>1, <1>3, HeaderKeeps
<1>4. CASE Len(b) = Goal(e) /\ state[e] = "remaining" /\ Payload(e, b)
  BY <1>1, <1>4, PayloadKeeps
<1> QED BY <1>1, <1>2, <1>3, <1>4 DEF Reading
LEMMA FramingInit == Init => FramingInv
<1> SUFFICES ASSUME Init PROVE FramingInv
  OBVIOUS
<1>1. /\ out = [e \in Ends |-> <<>>] /\ wire = [e \in Ends |-> <<>>]
      /\ buff = [e \in Ends |-> <<>>] /\ sent = [e \in Ends |-> <<>>]
      /\ delivered = [e \in Ends |-> <<>>]
      /\ state = [e \in Ends |-> "header"] /\ expected = [e \in Ends |-> 0]
      /\ status = [e \in Ends |-> "up"] /\ cut = [e \in Ends |-> FALSE]
  BY DEF Init
<1>2. PICK z : z = <<>> /\ Len(z) = 0 /\ 1 .. Len(z) = {}
               /\ z \in Seq(Bytes) /\ z \in Seq(Payloads) /\ z \in Seq(Seq(Bytes))
  <2>1. Len(<<>>) = 0 /\ 1 .. 0 = {}
    OBVIOUS
  <2>2. <<>> \in Seq(Bytes)
    OBVIOUS
  <2>3. <<>> \in Seq(Payloads)
    OBVIOUS
  <2>4. <<>> \in Seq(Seq(Bytes))
    OBVIOUS
  <2> QED BY <2>1, <2>2, <2>3, <2>4
<1>3. TypeOK
  BY <1>1, <1>2, Sizes DEF TypeOK
<1>4. Partial
  BY <1>1, <1>2 DEF Partial, Goal
<1>5. PICK pos : pos = [i \in 0 .. 0 |-> 0]
  OBVIOUS
<1>6. Laid(z, pos, z)
  <2>1. pos \in [0 .. 0 -> Nat] /\ pos[0] = 0 /\ \A i \in 0 .. 0 : pos[i] = 0
    BY <1>5
  <2> QED BY <1>2, <2>1 DEF Laid
<1>7. Follows(z, 0, z, z, z)
  <2>1. \A a : Stands(z, a, z)
    BY <1>2 DEF Stands
  <2> QED BY <1>2, <2>1 DEF Follows
<1>8. Whole(TRUE, z, 0, "header", 0, z, z, z)
  <2>1. 0 = pos[0] + (IF "header" = "header" THEN 0 ELSE 2)
    BY <1>5
  <2>2. 0 + Len(z) + Len(z) + Len(z) = Len(z) /\ 0 <= Len(z)
    BY <1>2
  <2> QED BY <1>6, <1>7, <2>1, <2>2 DEF Whole
<1>9. ASSUME NEW e \in Ends  PROVE Intact(e)
  <2>1. Peer(e) \in Ends
    BY PeerEnds
  <2>2. Up(e) = TRUE
    BY <1>1 DEF Up
  <2>3. /\ sent[e] = z /\ Len(delivered[Peer(e)]) = 0 /\ state[Peer(e)] = "header"
        /\ expected[Peer(e)] = 0 /\ buff[Peer(e)] = z /\ wire[e] = z /\ out[e] = z
    BY <1>1, <1>2, <2>1
  <2> QED BY <1>8, <2>2, <2>3 DEF Intact
<1> QED BY <1>3, <1>4, <1>9 DEF FramingInv

LEMMA FramingStep == FramingInv /\ [Next]_vars => FramingInv'
<1> SUFFICES ASSUME FramingInv, [Next]_vars PROVE FramingInv'
  OBVIOUS
<1>1. CASE Interrupt
  BY <1>1, InterruptKeeps
<1>2. ASSUME NEW e \in Ends, Send(e) \/ Write(e) \/ Read(e) \/ Close(e)
      PROVE  FramingInv'
  BY <1>2, SendKeeps, WriteKeeps, ReadKeeps, CloseKeeps
<1>3. CASE UNCHANGED vars
  <2>1. UNCHANGED <<status, out, wire, buff, state, expected, sent, delivered, cut>>
    BY <1>3 DEF vars
  <2>2. TypeOK' /\ Partial'
    BY <2>1 DEF FramingInv, TypeOK, Partial, Goal
  <2>3. ASSUME NEW x \in Ends, ~cut'[x]  PROVE Intact(x)'
    BY <2>1, <2>3, IntactStays DEF FramingInv, Up
  <2> QED BY <2>2, <2>3 DEF FramingInv
<1> QED BY <1>1, <1>2, <1>3 DEF Next

\* The inductive invariant: whatever the size of a byte, of the buffers and
\* of the kernel's, and whatever is sent, an unbroken direction is its
\* messages laid one behind the other.
THEOREM FramingInductive == Spec => []FramingInv
<1> QED BY FramingInit, FramingStep, PTL DEF Spec
-----------------------------------------------------------------------------
(* What follows. *)

\* The state of a connection has its types: two bytes always make a size that
\* mExpectedReadSize can hold, and what is decoded is bytes.
THEOREM FramingTypes == Spec => []TypeOK
<1>1. FramingInv => TypeOK
  BY DEF FramingInv
<1> QED BY <1>1, FramingInductive, PTL

\* handleRead never reads nothing, which would look like the end of the
\* stream, nor more than mBuff holds, whatever bytes are taken for a header.
THEOREM ReadsStayInBuffer == Spec => []ReadsInBounds
<1>1. ASSUME FramingInv, NEW e \in Ends
      PROVE  ReadSize(e) > 0 /\ Len(buff[e]) + ReadSize(e) <= Buffer
  <2>1. TypeOK /\ Partial
    BY <1>1 DEF FramingInv
  <2>2. PICK k \in Nat : k = Len(buff[e])
    BY <2>1, GivenFrames
  <2>3. expected[e] \in Nat /\ state[e] \in {"header", "remaining"}
    BY <2>1, GivenFrames
  <2>4. PICK g \in Nat : g = Goal(e) /\ k < g /\ g <= Buffer
    BY <2>1, <2>2, <2>3, Sizes DEF Partial, Goal
  <2>5. g - k > 0 /\ k + (g - k) <= Buffer
    BY <2>4, Sizes
  <2> QED BY <2>2, <2>4, <2>5 DEF ReadSize
<1>2. FramingInv => ReadsInBounds
  BY <1>1 DEF ReadsInBounds
<1> QED BY <1>2, FramingInductive, PTL
-----------------------------------------------------------------------------
(* Each direction implements Channel: what a step does to what s sends and *)
(* r receives. *)

Refused(r) == status[r] = "refused"
Longer(t, t2) == Len(t2) = Len(t) + 1 /\ SubSeq(t2, 1, Len(t)) = t

Rests(s, r) ==
  /\ sent'[s] = sent[s] /\ delivered'[r] = delivered[r] /\ cut'[s] = cut[s]
  /\ Refused(r)' = Refused(r)
Sends(s, r) ==
  /\ Longer(sent[s], sent'[s]) /\ delivered'[r] = delivered[r] /\ cut'[s] = cut[s]
  /\ Refused(r)' = Refused(r)
Delivers(s, r) ==
  /\ Len(delivered[r]) < Len(sent[s])
  /\ delivered'[r] = Append(delivered[r], sent[s][Len(delivered[r]) + 1])
  /\ sent'[s] = sent[s] /\ cut'[s] = cut[s] /\ Refused(r)' = Refused(r)
BreaksOff(s, r) ==
  /\ cut'[s] = TRUE
  /\ sent'[s] = sent[s] /\ delivered'[r] = delivered[r] /\ Refused(r)' = Refused(r)
Garbles(s, r) ==
  /\ cut[s] /\ sent'[s] = sent[s] /\ cut'[s] = cut[s]
  /\ Longer(delivered[r], delivered'[r]) \/ delivered'[r] = delivered[r]
Moves(s, r) ==
  Rests(s, r) \/ Sends(s, r) \/ Delivers(s, r) \/ BreaksOff(s, r) \/ Garbles(s, r)

\* A prefix is what is taken of a sequence first.
LEMMA PrefixTaken ==
  ASSUME NEW S, NEW s \in Seq(S), NEW t \in Seq(S), Len(t) = Len(s) + 1,
         \A i \in 1 .. Len(s) : t[i] = s[i]
  PROVE  Longer(s, t)
<1>1. PICK u : u = SubSeq(t, 1, Len(s))
  OBVIOUS
<1>2. PICK k \in Nat : k = Len(s)
  OBVIOUS
<1>3. CASE k = 0
  <2>1. u = <<>>
    BY <1>1, <1>2, <1>3, SubSeqEmpty
  <2>2. s = <<>>
    BY <1>2, <1>3, EmptySeq
  <2> QED BY <1>1, <2>1, <2>2 DEF Longer
<1>4. CASE k # 0
  <2>1. PICK v : Splits(t, k, u, v)
    BY <1>1, <1>2 DEF Splits
  <2>2. k \in 1 .. Len(t)
    BY <1>2, <1>4
  <2>3. u \in Seq(S) /\ Len(u) = k /\ \A i \in 1 .. k : u[i] = t[i]
    BY <2>1, <2>2, TakenInTwo
  <2>4. u = s
    BY <1>2, <2>3, SeqEqual
  <2> QED BY <1>1, <2>4 DEF Longer
<1> QED BY <1>3, <1>4

LEMMA Appended ==
  ASSUME NEW S, NEW s \in Seq(S), NEW m \in S, NEW t, t = Append(s, m)
  PROVE  Longer(s, t)
<1>1. /\ t \in Seq(S) /\ Len(t) = Len(s) + 1 /\ \A i \in 1 .. Len(s) : t[i] = s[i]
  BY AppendProperties
<1> QED BY <1>1, PrefixTaken

LEMMA SendMoves ==
  ASSUME FramingInv, NEW e \in Ends, Send(e), NEW s \in Ends, NEW r \in Ends
  PROVE  Moves(s, r)
<1>1. TypeOK
  BY DEF FramingInv
<1>2. PICK m \in Payloads : sent' = [sent EXCEPT ![e] = Append(@, m)]
  BY DEF Send
<1>3. UNCHANGED <<status, wire, buff, state, expected, delivered, cut>>
  BY DEF Send
<1>4. PICK ms2 : ms2 = Append(sent[e], m)
  OBVIOUS
<1>5. Longer(sent[e], ms2)
  BY <1>1, <1>4, Appended, GivenFrames
<1>6. sent'[e] = ms2 /\ \A x \in Ends : x # e => sent'[x] = sent[x]
  BY <1>1, <1>2, <1>4 DEF TypeOK
<1>7. CASE s = e
  BY <1>3, <1>5, <1>6, <1>7 DEF Moves, Sends, Refused
<1>8. CASE s # e
  BY <1>3, <1>6, <1>8 DEF Moves, Rests, Refused
<1> QED BY <1>7, <1>8

LEMMA WriteMoves ==
  ASSUME NEW e \in Ends, Write(e), NEW s \in Ends, NEW r \in Ends
  PROVE  Moves(s, r)
BY DEF Write, Moves, Rests, Refused

LEMMA GoingMoves ==
  ASSUME FramingInv, NEW e \in Ends, Up(e), status' = [status EXCEPT ![e] = "down"],
         UNCHANGED <<sent, delivered, cut>>, NEW s \in Ends, NEW r \in Ends
  PROVE  Moves(s, r)
<1>1. status \in [Ends -> {"up", "down", "refused"}]
  BY DEF FramingInv, TypeOK
<1>2. Refused(r)' = Refused(r)
  <2>1. CASE r = e
    BY <1>1, <2>1 DEF Refused, Up
  <2>2. CASE r # e
    BY <1>1, <2>2 DEF Refused
  <2> QED BY <2>1, <2>2
<1> QED BY <1>2 DEF Moves, Rests

LEMMA InterruptMoves ==
  ASSUME FramingInv, Interrupt, NEW s \in Ends, NEW r \in Ends
  PROVE  Moves(s, r)
<1>1. "client" \in Ends /\ Up("client") /\ UNCHANGED <<sent, delivered>>
  BY DEF Interrupt, Ends, Blocked
<1>2. CASE status' = [status EXCEPT !["client"] = "down"] /\ UNCHANGED cut
  BY <1>1, <1>2, GoingMoves
<1>3. CASE cut' = [cut EXCEPT !["client"] = TRUE] /\ UNCHANGED status
  <2>1. cut \in [Ends -> BOOLEAN]
    BY DEF FramingInv, TypeOK
  <2>2. CASE s = "client"
    BY <1>1, <1>3, <2>1, <2>2 DEF Moves, BreaksOff, Refused
  <2>3. CASE s # "client"
    BY <1>1, <1>3, <2>1, <2>3 DEF Moves, Rests, Refused
  <2> QED BY <2>2, <2>3
<1> QED BY <1>2, <1>3 DEF Interrupt
\* A read delivers the next message or nothing, unless a frame was broken off.
LEMMA ReadMoves ==
  ASSUME FramingInv, NEW e \in Ends, Read(e), NEW s \in Ends, NEW r \in Ends,
         r = Peer(s)
  PROVE  Moves(s, r)
<1>1. TypeOK /\ Partial
  BY DEF FramingInv
<1>2. PICK u, b, w2 : Reading(e, u, b, w2)
  BY <1>1, ReadReads
<1>3. UNCHANGED <<sent, cut>> /\ b \in Seq(Bytes) /\ w2 \in Seq(Bytes) /\ Up(e)
  BY <1>2 DEF Reading, Idle
<1>4. /\ status \in [Ends -> {"up", "down", "refused"}]
      /\ delivered \in [Ends -> Seq(Seq(Bytes))]
  BY <1>1 DEF TypeOK
<1>5. CASE r # e
  <2>1. delivered'[r] = delivered[r] /\ status'[r] = status[r]
    <3>1. CASE UNCHANGED <<status, state, expected, delivered>>
      BY <3>1
    <3>2. CASE Header(e, b)
      BY <1>4, <1>5, <3>2 DEF Header
    <3>3. CASE Payload(e, b)
      BY <1>4, <1>5, <3>3 DEF Payload
    <3> QED BY <1>2, <3>1, <3>2, <3>3 DEF Reading
  <2> QED BY <1>3, <2>1 DEF Moves, Rests, Refused
<1>6. CASE r = e
  <2>1. s = Peer(e)
    BY <1>6, PeerEnds
  <2>2. CASE UNCHANGED <<status, state, expected, delivered>>
    BY <1>3, <2>2 DEF Moves, Rests, Refused
  <2>3. CASE cut[s]
    <3>1. CASE Header(e, b)
      BY <1>3, <1>6, <2>3, <3>1 DEF Moves, Garbles, Header
    <3>2. CASE Payload(e, b)
      <4>1. PICK ds : ds = Append(delivered[e], b)
        OBVIOUS
      <4>2. delivered'[e] = ds
        BY <1>4, <3>2, <4>1 DEF Payload
      <4>3. Longer(delivered[e], ds)
        BY <1>3, <1>4, <4>1, Appended
      <4> QED BY <1>3, <1>6, <2>3, <4>2, <4>3 DEF Moves, Garbles
    <3> QED BY <1>2, <2>2, <3>1, <3>2 DEF Reading
  <2>4. CASE ~cut[s]
    <3>1. Intact(s)
      BY <2>4 DEF FramingInv
    <3>2. PICK up : up = Up(s)
      OBVIOUS
    <3>3. PICK d \in Nat : d = Len(delivered[e])
      BY <1>1, GivenFrames
    <3>4. /\ Whole(up, sent[s], d, state[e], expected[e], b, w2, out[s])
          /\ d < Len(sent[s])
      BY <1>1, <1>2, <2>1, <3>1, <3>2, <3>3, ReadOfNext
    <3>5. sent[s] \in Seq(Payloads) /\ out[s] \in Seq(Bytes)
      BY <1>1, GivenFrames
    <3>6. CASE Len(b) = Goal(e) /\ state[e] = "header" /\ Header(e, b)
      <4>1. Len(b) = 2 /\ Whole(up, sent[s], d, "header", expected[e], b, w2, out[s])
        BY <3>4, <3>6 DEF Goal
      <4>2. ~Invalid(HeaderValue(b))
        BY <1>3, <3>4, <3>5, <4>1, WholeHeader
      <4>3. UNCHANGED <<status, delivered>>
        BY <3>6, <4>2 DEF Header
      <4> QED BY <1>3, <4>3 DEF Moves, Rests, Refused
    <3>7. CASE Len(b) = Goal(e) /\ state[e] = "remaining" /\ Payload(e, b)
      <4>1. Len(b) = expected[e]
            /\ Whole(up, sent[s], d, "remaining", expected[e], b, w2, out[s])
        BY <3>4, <3>7 DEF Goal
      <4>2. b = sent[s][d + 1]
        BY <1>3, <3>5, <4>1, WholePayload
      <4>3. delivered'[e] = Append(delivered[e], b) /\ UNCHANGED status
        BY <1>4, <3>7 DEF Payload
      <4> QED BY <1>3, <1>6, <3>3, <3>4, <4>2, <4>3 DEF Moves, Delivers, Refused
    <3> QED BY <1>2, <2>2, <3>6, <3>7 DEF Reading
  <2> QED BY <2>3, <2>4
<1> QED BY <1>5, <1>6

LEMMA StepMoves ==
  ASSUME FramingInv, [Next]_vars, NEW s \in Ends, NEW r \in Ends, r = Peer(s)
  PROVE  Moves(s, r)
<1>1. CASE Interrupt
  BY <1>1, InterruptMoves
<1>2. ASSUME NEW e \in Ends, Send(e) \/ Write(e) \/ Read(e) \/ Close(e)
      PROVE  Moves(s, r)
  <2>1. CASE Close(e)
    <3>1. /\ Up(e) /\ status' = [status EXCEPT ![e] = "down"]
          /\ UNCHANGED <<sent, delivered, cut>>
      BY <2>1 DEF Close
    <3> QED BY <3>1, GoingMoves
  <2> QED BY <1>2, <2>1, SendMoves, WriteMoves, ReadMoves
<1>3. CASE UNCHANGED vars
  BY <1>3 DEF vars, Moves, Rests, Refused
<1> QED BY <1>1, <1>2, <1>3 DEF Next

LEMMA ClientDirection ==
  ASSUME FramingInv, [Next]_vars
  PROVE  [FromClient!Next]_FromClient!vars
<1>1. PICK s \in Ends, r \in Ends : s = "client" /\ r = "server" /\ r = Peer(s)
  BY DEF Ends, Peer
<1>2. Moves(s, r)
  BY <1>1, StepMoves
<1>3. CASE Rests(s, r)
  BY <1>1, <1>3 DEF Rests, Refused, FromClient!vars
<1>4. CASE Sends(s, r)
  BY <1>1, <1>4 DEF Sends, Refused, Longer, FromClient!Next, FromClient!Send,
                    FromClient!Extends
<1>5. CASE Delivers(s, r)
  BY <1>1, <1>5 DEF Delivers, Refused, FromClient!Next, FromClient!Deliver
<1>6. CASE BreaksOff(s, r)
  BY <1>1, <1>6 DEF BreaksOff, Refused, FromClient!Next, FromClient!BreakOff
<1>7. CASE Garbles(s, r)
  BY <1>1, <1>7 DEF Garbles, Longer, FromClient!Next, FromClient!Garbage,
                    FromClient!Extends
<1> QED BY <1>2, <1>3, <1>4, <1>5, <1>6, <1>7 DEF Moves

LEMMA ServerDirection ==
  ASSUME FramingInv, [Next]_vars
  PROVE  [FromServer!Next]_FromServer!vars
<1>1. PICK s \in Ends, r \in Ends : s = "server" /\ r = "client" /\ r = Peer(s)
  BY DEF Ends, Peer
<1>2. Moves(s, r)
  BY <1>1, StepMoves
<1>3. CASE Rests(s, r)
  BY <1>1, <1>3 DEF Rests, Refused, FromServer!vars
<1>4. CASE Sends(s, r)
  BY <1>1, <1>4 DEF Sends, Refused, Longer, FromServer!Next, FromServer!Send,
                    FromServer!Extends
<1>5. CASE Delivers(s, r)
  BY <1>1, <1>5 DEF Delivers, Refused, FromServer!Next, FromServer!Deliver
<1>6. CASE BreaksOff(s, r)
  BY <1>1, <1>6 DEF BreaksOff, Refused, FromServer!Next, FromServer!BreakOff
<1>7. CASE Garbles(s, r)
  BY <1>1, <1>7 DEF Garbles, Longer, FromServer!Next, FromServer!Garbage,
                    FromServer!Extends
<1> QED BY <1>2, <1>3, <1>4, <1>5, <1>6, <1>7 DEF Moves

LEMMA DirectionsInit == Init => FromClient!Init /\ FromServer!Init
BY DEF Init, FromClient!Init, FromServer!Init, Ends

\* However the kernel cuts the frames and however the sends block, what is
\* decoded is what was sent, whole, once and in order, and no stream is taken
\* for garbage, until its sender breaks off a send: each direction of
\* handleRead and its twin implements a channel.
THEOREM ConnectionImplements == Spec => KeepsChannels
<1>1. FramingInv /\ [Next]_vars => [FromClient!Next]_FromClient!vars
  BY ClientDirection
<1>2. FramingInv /\ [Next]_vars => [FromServer!Next]_FromServer!vars
  BY ServerDirection
<1>3. Init => FromClient!Init /\ FromServer!Init
  BY DirectionsInit
<1> QED
  BY <1>1, <1>2, <1>3, FramingInductive, PTL
  DEF Spec, KeepsChannels, FromClient!Spec, FromServer!Spec
=============================================================================
