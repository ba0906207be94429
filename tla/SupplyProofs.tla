---------------------------- MODULE SupplyProofs ----------------------------
(***************************************************************************)
(* The pieces of a room, for any number of players and matches, previews   *)
(* and answers of any size: one request at most is under way and the flag  *)
(* says which, nobody's preview is short without one, and a game master    *)
(* that believes in a match is right or about to learn better.             *)
(***************************************************************************)
EXTENDS Supply, FiniteSetTheorems, TLAPS

\* In a match no player is ahead of the cache, contender or not.
NotAhead == started => \A p \in room : board[p].index <= cache

SupplyInv ==
  /\ TypeOK
  /\ IsFiniteSet(room)
  /\ NotAhead
  /\ RequestedIffUnderWay
  /\ ShortIsAskedFor
  /\ GmNotLeftBehind
-----------------------------------------------------------------------------
(* Counting messages in a stream. *)

Places(seq, kinds) == {i \in DOMAIN seq : seq[i] \in kinds}

LEMMA PlacesCount ==
  ASSUME NEW M, NEW s \in Seq(M), NEW K
  PROVE  /\ IsFiniteSet(Places(s, K)) /\ InFlight(s, K) \in Nat
         /\ InFlight(s, K) = Cardinality(Places(s, K))
         /\ InFlight(s, K) = 0 <=> \A i \in DOMAIN s : s[i] \notin K
<1>1. DOMAIN s = 1 .. Len(s) /\ Len(s) \in Nat
  OBVIOUS
<1>2. IsFiniteSet(1 .. Len(s))
  BY <1>1, FS_Interval
<1>3. Places(s, K) \in SUBSET (1 .. Len(s))
  BY <1>1 DEF Places
<1>4. IsFiniteSet(Places(s, K))
  BY <1>2, <1>3, FS_Subset
<1>5. Cardinality(Places(s, K)) \in Nat
  BY <1>4, FS_CardinalityType
<1>6. InFlight(s, K) = Cardinality(Places(s, K))
  BY DEF InFlight, Places
<1>7. Cardinality(Places(s, K)) = 0 <=> Places(s, K) = {}
  BY <1>4, FS_EmptySet
<1> QED BY <1>4, <1>5, <1>6, <1>7 DEF Places

\* Two streams one after the other: the places of the second are moved on by
\* the length of the first.
LEMMA ConcatCount ==
  ASSUME NEW M, NEW s \in Seq(M), NEW t \in Seq(M), NEW K
  PROVE  InFlight(s \o t, K) = InFlight(s, K) + InFlight(t, K)
<1> DEFINE n == Len(s)
           moved == {i \in n + 1 .. n + Len(t) : t[i - n] \in K}
<1>1. /\ n \in Nat /\ Len(t) \in Nat /\ s \o t \in Seq(M)
      /\ DOMAIN s = 1 .. n /\ DOMAIN t = 1 .. Len(t)
      /\ DOMAIN (s \o t) = 1 .. n + Len(t)
      /\ \A i \in 1 .. n : (s \o t)[i] = s[i]
      /\ \A i \in n + 1 .. n + Len(t) : (s \o t)[i] = t[i - n]
  OBVIOUS
<1>2. Places(s \o t, K) = Places(s, K) \cup moved
  BY <1>1 DEF Places
<1>3. Places(s, K) \cap moved = {}
  BY <1>1 DEF Places
<1>4. /\ IsFiniteSet(Places(s, K)) /\ IsFiniteSet(Places(t, K))
      /\ InFlight(s, K) = Cardinality(Places(s, K)) /\ InFlight(s, K) \in Nat
      /\ InFlight(t, K) = Cardinality(Places(t, K)) /\ InFlight(t, K) \in Nat
      /\ InFlight(s \o t, K) = Cardinality(Places(s \o t, K))
  BY <1>1, PlacesCount
<1>5. ExistsBijection(Places(t, K), moved)
  <2> DEFINE f == [i \in Places(t, K) |-> i + n]
  <2>1. f \in [Places(t, K) -> moved]
    BY <1>1 DEF Places
  <2>2. \A i, j \in Places(t, K) : f[i] = f[j] => i = j
    BY <1>1 DEF Places
  <2>3. \A j \in moved : j - n \in Places(t, K) /\ f[j - n] = j
    BY <1>1 DEF Places
  <2>4. f \in Bijection(Places(t, K), moved)
    BY <2>1, <2>2, <2>3 DEF Bijection, Injection, Surjection, IsInjective
  <2> QED BY <2>4 DEF ExistsBijection
<1>6. IsFiniteSet(moved) /\ Cardinality(moved) = Cardinality(Places(t, K))
  BY <1>4, <1>5, FS_Bijection
<1>7. Cardinality(Places(s \o t, K))
        = Cardinality(Places(s, K)) + Cardinality(moved)
  <2> DEFINE A == Places(s, K)
  <2>1. Cardinality(A \cup moved)
          = Cardinality(A) + Cardinality(moved) - Cardinality(A \cap moved)
    <3> HIDE DEF A, moved
    <3> QED BY <1>4, <1>6, FS_Union DEF A
  <2>2. Cardinality(A \cap moved) = 0
    BY <1>3, FS_EmptySet
  <2>3. Cardinality(A) \in Nat /\ Cardinality(moved) \in Nat
    BY <1>4, <1>6
  <2>4. Cardinality(A \cup moved) = Cardinality(A) + Cardinality(moved)
    BY <2>1, <2>2, <2>3
  <2> QED BY <1>2, <2>4
<1> QED BY <1>4, <1>6, <1>7

LEMMA OneCount ==
  ASSUME NEW m, NEW K
  PROVE  InFlight(<<m>>, K) = IF m \in K THEN 1 ELSE 0
<1>1. Places(<<m>>, K) = IF m \in K THEN {1} ELSE {}
  BY DEF Places
<1>2. InFlight(<<m>>, K) = Cardinality(Places(<<m>>, K))
  BY DEF Places, InFlight
<1> QED BY <1>1, <1>2, FS_EmptySet, FS_Singleton

LEMMA NoneCount ==
  ASSUME NEW K
  PROVE  InFlight(<<>>, K) = 0
<1>1. {i \in DOMAIN << >> : << >>[i] \in K} = {}
  OBVIOUS
<1> QED BY <1>1, FS_EmptySet DEF InFlight

LEMMA AppendCount ==
  ASSUME NEW M, NEW s \in Seq(M), NEW m \in M, NEW K
  PROVE  InFlight(Append(s, m), K) = InFlight(s, K) + (IF m \in K THEN 1 ELSE 0)
<1>1. Append(s, m) = s \o <<m>> /\ <<m>> \in Seq(M)
  OBVIOUS
<1>2. InFlight(s \o <<m>>, K) = InFlight(s, K) + InFlight(<<m>>, K)
  BY <1>1, ConcatCount
<1> QED BY <1>1, <1>2, OneCount

LEMMA TailCount ==
  ASSUME NEW M, NEW s \in Seq(M), s # <<>>, NEW K
  PROVE  /\ InFlight(s, K) = InFlight(Tail(s), K) + (IF Head(s) \in K THEN 1 ELSE 0)
         /\ InFlight(Tail(s), K) \in Nat
<1>1. /\ s = <<Head(s)>> \o Tail(s) /\ <<Head(s)>> \in Seq(M) /\ Tail(s) \in Seq(M)
  OBVIOUS
<1>2. InFlight(s, K) = InFlight(<<Head(s)>>, K) + InFlight(Tail(s), K)
  <2>1. InFlight(<<Head(s)>> \o Tail(s), K)
          = InFlight(<<Head(s)>>, K) + InFlight(Tail(s), K)
    BY <1>1, ConcatCount
  <2> QED BY <1>1, <2>1
<1>3. InFlight(Tail(s), K) \in Nat
  BY <1>1, PlacesCount
<1> QED BY <1>2, <1>3, OneCount
-----------------------------------------------------------------------------
(* Boards. *)

LEMMA MinOfTwo ==
  ASSUME NEW a \in Nat, NEW b \in Nat
  PROVE  /\ Min({a, b}) \in {a, b} /\ Min({a, b}) <= a /\ Min({a, b}) <= b
<1>1. PICK x \in {a, b} : \A y \in {a, b} : x <= y
  <2>1. CASE a <= b  BY <2>1
  <2>2. CASE ~(a <= b)  BY <2>2
  <2> QED BY <2>1, <2>2
<1>2. Min({a, b}) \in {a, b} /\ \A y \in {a, b} : Min({a, b}) <= y
  BY <1>1 DEF Min
<1> QED BY <1>2

\* The refill never overdraws the cache and never stops short of a full
\* preview while there is more.
LEMMA RefilledBoard ==
  ASSUME NEW b \in Board, NEW c \in Nat, b.index <= c
  PROVE  LET r == Refilled(b, c) IN
         /\ r \in Board /\ r.index <= c
         /\ r.list < Preview => r.index = c
         /\ r.list >= b.list /\ r.cur = b.cur
<1> DEFINE n == Min({Preview - b.list, c - b.index})
<1>1. /\ b.index \in Nat /\ b.list \in 0 .. Preview /\ Preview \in Nat \ {0}
  BY SupplyAssumption DEF Board
<1>2. /\ n \in {Preview - b.list, c - b.index}
      /\ n <= Preview - b.list /\ n <= c - b.index
  <2>1. Preview - b.list \in Nat /\ c - b.index \in Nat
    BY <1>1
  <2> QED BY <2>1, MinOfTwo
<1>3. Refilled(b, c) = [b EXCEPT !.list = b.list + n, !.index = b.index + n]
  BY DEF Refilled
<1> HIDE DEF n
<1>4. n \in Nat /\ b.list + n \in 0 .. Preview /\ b.index + n \in Nat
  BY <1>1, <1>2
<1>5. Refilled(b, c) \in Board
  BY <1>3, <1>4 DEF Board
<1>6. /\ Refilled(b, c).list = b.list + n /\ Refilled(b, c).index = b.index + n
      /\ Refilled(b, c).cur = b.cur
  BY <1>3 DEF Board
<1> QED BY <1>1, <1>2, <1>4, <1>5, <1>6

\* What is known of an outcome: who is still in with a short preview has all
\* there is and has run into the end of the cache.
Good(o, c) ==
  /\ o.board \in Board /\ o.board.index <= c
  /\ {o.asks, o.out} \subseteq BOOLEAN
  /\ ~o.out /\ o.board.list < Preview => o.asks /\ o.board.index = c

\* A used piece stays only where nothing follows.
Dry(o, c) ==
  o.board.cur = "spent" => o.board.list = 0 /\ o.board.index = c /\ o.asks

LEMMA OutcomeGood ==
  ASSUME NEW b \in Board, NEW c \in Nat, b.index <= c,
         NEW asks \in BOOLEAN, NEW out \in BOOLEAN,
         ~out /\ b.list < Preview => asks /\ b.index = c
  PROVE  /\ Good(Outcome(b, asks, out), c) /\ Outcome(b, asks, out).board = b
         /\ Outcome(b, asks, out).asks = asks /\ Outcome(b, asks, out).out = out
<1>1. /\ Outcome(b, asks, out).board = b
      /\ Outcome(b, asks, out).asks = asks /\ Outcome(b, asks, out).out = out
  BY DEF Outcome
<1> QED BY <1>1 DEF Good

LEMMA PlacedGood ==
  ASSUME NEW b \in Board, NEW c \in Nat, b.index <= c,
         NEW asked \in BOOLEAN, NEW used \in BOOLEAN,
         NEW o \in Placed(b, c, asked, used)
  PROVE  Good(o, c) /\ o.board.cur = "live" /\ (o.out => used)
<1> DEFINE placed == [b EXCEPT !.cur = "live", !.wired = TRUE]
           ahead == Refilled(placed, c)
<1>1. placed \in Board /\ placed.index = b.index /\ placed.cur = "live"
  BY DEF Board
<1>2. /\ ahead \in Board /\ ahead.index <= c /\ ahead.cur = "live"
      /\ ahead.list < Preview => ahead.index = c
  BY <1>1, RefilledBoard
<1>3. \/ o = Outcome(ahead, ahead.list < Preview, FALSE)
      \/ used /\ o = Outcome(placed, asked, TRUE)
  BY DEF Placed
<1> HIDE DEF placed, ahead
<1>4. CASE o = Outcome(ahead, ahead.list < Preview, FALSE)
  <2>1. CASE ahead.list < Preview
    <3>1. o = Outcome(ahead, TRUE, FALSE)
      BY <1>4, <2>1
    <3> QED BY <1>2, <2>1, <3>1, OutcomeGood
  <2>2. CASE ~(ahead.list < Preview)
    <3>0. (ahead.list < Preview) = FALSE
      BY <1>2, <2>2, SupplyAssumption DEF Board
    <3>1. o = Outcome(ahead, FALSE, FALSE)
      BY <1>4, <3>0
    <3> QED BY <1>2, <2>2, <3>1, OutcomeGood
  <2> QED BY <2>1, <2>2
<1>5. CASE used /\ o = Outcome(placed, asked, TRUE)
  BY <1>1, <1>5, OutcomeGood
<1> QED BY <1>3, <1>4, <1>5

LEMMA NextPieceGood ==
  ASSUME NEW b \in Board, NEW c \in Nat, b.index <= c, NEW used \in BOOLEAN,
         NEW o \in NextPiece(b, c, used)
  PROVE  /\ Good(o, c) /\ Dry(o, c) /\ (o.out => used)
         /\ o.board.cur \in {b.cur, "live"}
<1> DEFINE first == IF b.list = 0 THEN Refilled(b, c) ELSE b
           asked == b.list = 0 /\ first.list < Preview
           next == [first EXCEPT !.list = first.list - 1]
<1>1. /\ first \in Board /\ first.index <= c /\ first.cur = b.cur
      /\ first.list = 0 => first.index = c
  <2>1. CASE b.list = 0
    BY <2>1, RefilledBoard, SupplyAssumption DEF Board
  <2>2. CASE b.list # 0
    BY <2>2
  <2> QED BY <2>1, <2>2
<1>2. o \in IF first.list = 0 THEN {Outcome(first, TRUE, FALSE)}
            ELSE Placed(next, c, asked, used)
  BY DEF NextPiece
<1>3. asked \in BOOLEAN
  OBVIOUS
<1> HIDE DEF first, asked
<1>4. CASE first.list = 0
  BY <1>1, <1>2, <1>4, OutcomeGood DEF Dry
<1>5. CASE first.list # 0
  <2>1. first.list - 1 \in 0 .. Preview
    BY <1>1, <1>5, SupplyAssumption DEF Board
  <2>2. next \in Board /\ next.index <= c
    BY <1>1, <2>1 DEF Board
  <2> HIDE DEF next
  <2>3. Good(o, c) /\ o.board.cur = "live" /\ (o.out => used)
    BY <1>2, <1>3, <1>5, <2>2, PlacedGood
  <2> QED BY <2>3 DEF Dry
<1> QED BY <1>4, <1>5

LEMMA TerminoAvailableGood ==
  ASSUME NEW b \in Board, NEW c \in Nat, b.index <= c, dirty \in BOOLEAN,
         NEW o \in OnTerminoAvailable(b, c)
  PROVE  Good(o, c) /\ (o.board.cur = "spent" => b.cur = "spent")
<1>1. CASE b.cur = "none"
  BY <1>1, NextPieceGood DEF OnTerminoAvailable
<1>2. CASE b.cur # "none"
  <2> DEFINE ahead == Refilled(b, c)
  <2>1. o = Outcome(ahead, ahead.list < Preview, FALSE)
    BY <1>2 DEF OnTerminoAvailable
  <2>2. /\ ahead \in Board /\ ahead.index <= c /\ ahead.cur = b.cur
        /\ ahead.list < Preview => ahead.index = c
    BY RefilledBoard
  <2> HIDE DEF ahead
  <2>3. CASE ahead.list < Preview
    <3>1. o = Outcome(ahead, TRUE, FALSE)
      BY <2>1, <2>3
    <3> QED BY <2>2, <2>3, <3>1, OutcomeGood
  <2>4. CASE ~(ahead.list < Preview)
    <3>0. (ahead.list < Preview) = FALSE
      BY <2>2, <2>4, SupplyAssumption DEF Board
    <3>1. o = Outcome(ahead, FALSE, FALSE)
      BY <2>1, <3>0
    <3> QED BY <2>2, <2>4, <3>1, OutcomeGood
  <2> QED BY <2>3, <2>4
<1> QED BY <1>1, <1>2

LEMMA UsedBoard ==
  ASSUME NEW b \in Board
  PROVE  Used(b) \in Board /\ Used(b).index = b.index
BY DEF Used, Board

LEMMA LockGood ==
  ASSUME NEW b \in Board, NEW c \in Nat, b.index <= c, NEW o \in OnLock(b, c)
  PROVE  Good(o, c) /\ Dry(o, c)
<1> DEFINE free == [Used(b) EXCEPT !.credit = TRUE]
<1>1. free \in Board /\ free.index = b.index
  BY UsedBoard DEF Board
<1>2. o \in NextPiece(free, c, TRUE)
  BY DEF OnLock
<1> QED BY <1>1, <1>2, NextPieceGood

LEMMA HoldGood ==
  ASSUME NEW b \in Board, NEW c \in Nat, b.index <= c, dirty \in BOOLEAN,
         NEW o \in OnHold(b, c)
  PROVE  Good(o, c) /\ Dry(o, c)
<1> DEFINE stored == [b EXCEPT !.credit = FALSE,
                        !.hold = IF b.cur = "none" THEN "void" ELSE "piece"]
<1>1. stored \in Board /\ stored.index = b.index
  BY DEF Board
<1>2. Used(stored) \in Board /\ Used(stored).index = b.index
  BY <1>1, UsedBoard
<1>3. o \in IF b.hold = "empty" THEN NextPiece(Used(stored), c, dirty)
                                ELSE Placed(stored, c, FALSE, dirty)
  BY DEF OnHold
<1>4. CASE b.hold = "empty"
  BY <1>2, <1>3, <1>4, NextPieceGood
<1>5. CASE b.hold # "empty"
  BY <1>1, <1>3, <1>5, PlacedGood DEF Dry
<1> QED BY <1>4, <1>5

LEMMA NewBoards ==
  /\ NewBoard \in Board /\ NewBoard.index = 0
  /\ \A b \in Board : /\ Restarted(b) \in Board /\ Restarted(b).index = 0
                      /\ Restarted(b).list = 0 /\ Restarted(b).cur = "none"
<1>1. NewBoard \in Board /\ NewBoard.index = 0
  BY SupplyAssumption DEF NewBoard, Board
<1>2. ASSUME NEW b \in Board
      PROVE  /\ Restarted(b) \in Board /\ Restarted(b).index = 0
             /\ Restarted(b).list = 0 /\ Restarted(b).cur = "none"
  <2>1. 0 \in 0 .. Preview
    BY SupplyAssumption
  <2>2. Restarted(b) \in Board
    BY <2>1 DEF Restarted, Board
  <2>3. /\ Restarted(b).index = 0 /\ Restarted(b).list = 0
        /\ Restarted(b).cur = "none"
    BY DEF Restarted, Board
  <2> QED BY <2>2, <2>3
<1> QED BY <1>1, <1>2
-----------------------------------------------------------------------------
(* What is sent. *)

ToGm == {"request", "end"}
ToServer == {"start", "pieces", "empty"}

LEMMA AskCount ==
  ASSUME requested \in BOOLEAN, NEW asks \in BOOLEAN
  PROVE  /\ Ask(asks) \in Seq(ToGm) /\ InFlight(Ask(asks), {"end"}) = 0
         /\ InFlight(Ask(asks), {"request"})
              = IF asks /\ ~requested THEN 1 ELSE 0
<1>1. CASE asks /\ ~requested
  <2>1. Ask(asks) = <<"request">>
    BY <1>1 DEF Ask
  <2>2. <<"request">> \in Seq(ToGm)
    BY DEF ToGm
  <2>3. "request" \in {"request"} /\ "request" \notin {"end"}
    OBVIOUS
  <2>4. /\ InFlight(<<"request">>, {"end"}) = 0
        /\ InFlight(<<"request">>, {"request"}) = 1
    BY <2>3, OneCount, Zenon
  <2> QED BY <1>1, <2>1, <2>2, <2>4
<1>2. CASE ~(asks /\ ~requested)
  <2>1. Ask(asks) = <<>>
    BY <1>2 DEF Ask
  <2>2. <<>> \in Seq(ToGm)
    OBVIOUS
  <2> QED BY <1>2, <2>1, <2>2, NoneCount
<1> QED BY <1>1, <1>2

LEMMA EndsCount ==
  ASSUME NEW s \in Seq({"end"})
  PROVE  /\ s \in Seq(ToGm) /\ InFlight(s, {"request"}) = 0
         /\ InFlight(s, {"end"}) \in Nat
         /\ s # <<>> => InFlight(s, {"end"}) > 0
<1>1. s \in Seq(ToGm) /\ \A i \in DOMAIN s : s[i] = "end"
  BY DEF ToGm
<1>2. InFlight(s, {"request"}) = 0
  BY <1>1, PlacesCount
<1>3. InFlight(s, {"end"}) \in Nat
  BY PlacesCount
<1>4. ASSUME s # <<>>  PROVE InFlight(s, {"end"}) > 0
  <2>1. 1 \in DOMAIN s
    BY <1>4
  <2>2. ~(\A i \in DOMAIN s : s[i] \notin {"end"})
    BY <1>1, <2>1
  <2>3. InFlight(s, {"end"}) # 0
    BY <2>2, PlacesCount
  <2> QED BY <1>3, <2>3
<1> QED BY <1>1, <1>2, <1>3, <1>4

LEMMA EndsAreEnds ==
  ASSUME IsFiniteSet(playing), NEW out, IsFiniteSet(out)
  PROVE  Ends(out) \in Seq({"end"})
<1> DEFINE S == {n \in 1 .. Cardinality(out) : Cardinality(playing) - n <= 1}
<1>1. Cardinality(out) \in Nat
  BY FS_CardinalityType
<1>2. IsFiniteSet(1 .. Cardinality(out)) /\ S \in SUBSET (1 .. Cardinality(out))
  BY <1>1, FS_Interval
<1>3. Cardinality(S) \in Nat
  BY <1>2, FS_Subset, FS_CardinalityType
<1>4. Ends(out) = [i \in 1 .. Cardinality(S) |-> "end"]
  BY DEF Ends
<1> HIDE DEF S
<1> QED BY <1>3, <1>4

\* A stream with an end in it is what tells the game master.
LEMMA CutEnds ==
  ASSUME NEW s \in Seq({"end"}), NEW k \in 0 .. Len(s)
  PROVE  /\ SubSeq(s, 1, k) \in Seq({"end"})
         /\ SubSeq(s, k + 1, Len(s)) \in Seq({"end"})
         /\ s # <<>> => SubSeq(s, 1, k) # <<>> \/ SubSeq(s, k + 1, Len(s)) # <<>>
<1>1. /\ Len(s) \in Nat /\ Len(SubSeq(s, 1, k)) = k
      /\ SubSeq(s, 1, k) \in Seq({"end"})
  OBVIOUS
<1>2. /\ SubSeq(s, k + 1, Len(s)) \in Seq({"end"})
      /\ Len(SubSeq(s, k + 1, Len(s))) = Len(s) - k
  OBVIOUS
<1>3. s # <<>> => Len(s) > 0
  OBVIOUS
<1> QED BY <1>1, <1>2, <1>3

\* What two messages' worth of sending adds to a count.
LEMMA TwiceCount ==
  ASSUME NEW s \in Seq(ToGm), NEW t \in Seq(ToGm), NEW u \in Seq(ToGm), NEW K
  PROVE  /\ s \o t \o u \in Seq(ToGm)
         /\ InFlight(s \o t \o u, K)
              = InFlight(s, K) + InFlight(t, K) + InFlight(u, K)
         /\ InFlight(s, K) \in Nat /\ InFlight(t, K) \in Nat
         /\ InFlight(u, K) \in Nat
<1>1. s \o t \in Seq(ToGm) /\ s \o t \o u \in Seq(ToGm)
  OBVIOUS
<1>2. InFlight(s \o t, K) = InFlight(s, K) + InFlight(t, K)
  BY ConcatCount
<1>3. InFlight(s \o t \o u, K) = InFlight(s \o t, K) + InFlight(u, K)
  BY <1>1, ConcatCount
<1>4. /\ InFlight(s, K) \in Nat /\ InFlight(t, K) \in Nat
      /\ InFlight(u, K) \in Nat
  BY PlacesCount
<1> QED BY <1>1, <1>2, <1>3, <1>4
-----------------------------------------------------------------------------
(* One step per action. *)

Streams ==
  toGm \in Seq(ToGm) /\ toServer \in Seq(ToServer)

\* What every step starts from, in the words of the lemmas above.
LEMMA Given ==
  ASSUME SupplyInv
  PROVE  /\ TypeOK /\ Streams /\ IsFiniteSet(playing)
         /\ InFlight(toGm, {"request"}) \in Nat
         /\ InFlight(toGm, {"end"}) \in Nat
         /\ InFlight(toServer, {"start"}) \in Nat
         /\ InFlight(toServer, {"pieces", "empty"}) \in Nat
         /\ InFlight(toGm, {"request"}) + InFlight(toServer, {"pieces", "empty"})
              = IF requested THEN 1 ELSE 0
<1>1. TypeOK /\ Streams
  BY DEF SupplyInv, TypeOK, Streams, ToGm, ToServer
<1>2. IsFiniteSet(playing)
  BY FS_Subset DEF SupplyInv, TypeOK
<1>3. /\ InFlight(toGm, {"request"}) \in Nat
      /\ InFlight(toGm, {"end"}) \in Nat
  BY <1>1, PlacesCount DEF Streams
<1>4. /\ InFlight(toServer, {"start"}) \in Nat
      /\ InFlight(toServer, {"pieces", "empty"}) \in Nat
  BY <1>1, PlacesCount DEF Streams
<1> QED BY <1>1, <1>2, <1>3, <1>4 DEF SupplyInv, RequestedIffUnderWay

LEMMA BoardEventKeeps ==
  ASSUME SupplyInv, started, NEW p \in playing, NEW outcomes,
         \A o \in outcomes : Good(o, cache),
         BoardEvent(p, outcomes), {dirty', crashed'} \subseteq BOOLEAN
  PROVE  SupplyInv'
<1>1. PICK o \in outcomes :
        /\ board' = [board EXCEPT ![p] = o.board]
        /\ Flagged(o.asks)
        /\ LET out == IF o.out THEN {p} ELSE {}
           IN  Out(out) /\ toGm' = toGm \o Ask(o.asks) \o Ends(out)
        /\ UNCHANGED <<room, cache, gmVars, toServer, leaves>>
  BY DEF BoardEvent
<1> DEFINE out == IF o.out THEN {p} ELSE {}
           ends == Ends(out)
<1>2. Good(o, cache)
  OBVIOUS
<1>3. o.asks \in BOOLEAN /\ o.out \in BOOLEAN /\ o.board \in Board
  BY <1>2 DEF Good
<1>4. /\ playing' = playing \ out /\ started' = (ends = <<>>)
      /\ requested' = (requested \/ o.asks)
      /\ toGm' = toGm \o Ask(o.asks) \o ends
  BY <1>1 DEF Out, Flagged
<1>5. /\ toServer' = toServer /\ cache' = cache /\ room' = room
      /\ gmStarted' = gmStarted /\ starts' = starts /\ leaves' = leaves
  BY <1>1 DEF gmVars
<1>6. TypeOK /\ Streams /\ IsFiniteSet(playing)
  BY Given
<1>7. IsFiniteSet(out)
  BY FS_EmptySet, FS_Singleton
<1>8. ends \in Seq({"end"})
  <2> HIDE DEF out
  <2> QED BY <1>6, <1>7, EndsAreEnds
<1> HIDE DEF ends
<1>9. /\ ends \in Seq(ToGm) /\ InFlight(ends, {"request"}) = 0
      /\ ends # <<>> => InFlight(ends, {"end"}) > 0
  BY <1>8, EndsCount
<1>10. /\ Ask(o.asks) \in Seq(ToGm) /\ InFlight(Ask(o.asks), {"end"}) = 0
       /\ InFlight(Ask(o.asks), {"request"})
            = IF o.asks /\ ~requested THEN 1 ELSE 0
  <2>1. requested \in BOOLEAN
    BY <1>6 DEF TypeOK
  <2> QED BY <1>3, <2>1, AskCount
<1>11. \A K :
         /\ toGm' \in Seq(ToGm)
         /\ InFlight(toGm', K)
              = InFlight(toGm, K) + InFlight(Ask(o.asks), K) + InFlight(ends, K)
  BY <1>4, <1>6, <1>9, <1>10, TwiceCount DEF Streams
<1>12. TypeOK'
  <2>1. toGm' \in Seq({"request", "end"})
    BY <1>11 DEF ToGm
  <2>2. board' \in [Slots -> Board]
    BY <1>1, <1>3, <1>6 DEF TypeOK
  <2>3. {started', requested'} \subseteq BOOLEAN /\ playing' \subseteq room'
    BY <1>3, <1>4, <1>5, <1>6 DEF TypeOK
  <2> QED BY <1>5, <1>6, <2>1, <2>2, <2>3 DEF TypeOK
<1>13. IsFiniteSet(room)' /\ NotAhead'
  <2>1. \A q \in room : board[q].index <= cache
    BY DEF SupplyInv, NotAhead
  <2>2. \A q \in room : board'[q].index <= cache
    BY <1>1, <1>2, <1>6, <2>1 DEF TypeOK, Good
  <2> QED BY <1>5, <2>2 DEF SupplyInv, NotAhead
<1>14. RequestedIffUnderWay'
  <2>1. InFlight(toGm', {"request"}) = InFlight(toGm, {"request"})
          + IF o.asks /\ ~requested THEN 1 ELSE 0
    BY <1>9, <1>10, <1>11, Given
  <2>2. InFlight(toServer', {"pieces", "empty"})
          = InFlight(toServer, {"pieces", "empty"})
    BY <1>5
  <2>3. InFlight(toGm', {"request"}) + InFlight(toServer', {"pieces", "empty"})
          = IF requested' THEN 1 ELSE 0
    <3>1. InFlight(toGm, {"request"}) + InFlight(toServer, {"pieces", "empty"})
            = IF requested THEN 1 ELSE 0
      BY Given
    <3>2. /\ InFlight(toGm, {"request"}) \in Nat
          /\ InFlight(toServer, {"pieces", "empty"}) \in Nat
      BY Given
    <3>3. CASE o.asks /\ ~requested
      <4>1. requested' = TRUE
        BY <1>4, <3>3
      <4>2. InFlight(toGm', {"request"}) = InFlight(toGm, {"request"}) + 1
        BY <2>1, <3>3
      <4>3. InFlight(toGm, {"request"})
              + InFlight(toServer, {"pieces", "empty"}) = 0
        BY <3>1, <3>3
      <4> QED BY <2>2, <3>2, <4>1, <4>2, <4>3
    <3>4. CASE ~(o.asks /\ ~requested)
      <4>1. requested' = requested
        BY <1>3, <1>4, <1>6, <3>4 DEF TypeOK
      <4> QED BY <2>1, <2>2, <3>1, <3>2, <3>4, <4>1
    <3> QED BY <3>3, <3>4
  <2> QED BY <2>3 DEF RequestedIffUnderWay
<1>15. ShortIsAskedFor'
  <2> SUFFICES ASSUME NEW q \in Slots, started', q \in playing',
                      board'[q].list < Preview
               PROVE  requested' /\ board'[q].index = cache'
    BY DEF ShortIsAskedFor, Waiting
  <2>1. CASE q = p
    <3>1. ~o.out /\ board'[q] = o.board
      BY <1>1, <1>3, <1>4, <1>6, <2>1 DEF TypeOK
    <3> QED BY <1>2, <1>4, <1>5, <3>1 DEF Good
  <2>2. CASE q # p
    <3>1. board'[q] = board[q] /\ q \in playing
      BY <1>1, <1>4, <1>6, <2>2 DEF TypeOK
    <3> QED BY <1>4, <1>5, <3>1 DEF SupplyInv, ShortIsAskedFor, Waiting
  <2> QED BY <2>1, <2>2
<1>16. GmNotLeftBehind'
  <2>1. CASE started'
    BY <2>1 DEF GmNotLeftBehind
  <2>2. CASE ~started'
    <3>1. InFlight(toGm', {"end"}) > 0
      <4>1. InFlight(ends, {"end"}) > 0
        BY <1>4, <1>9, <2>2
      <4>2. InFlight(toGm', {"end"})
              = InFlight(toGm, {"end"}) + InFlight(ends, {"end"})
        BY <1>8, <1>10, <1>11, EndsCount, Given
      <4>3. InFlight(toGm, {"end"}) \in Nat /\ InFlight(ends, {"end"}) \in Nat
        BY <1>8, EndsCount, Given
      <4> QED BY <4>1, <4>2, <4>3
    <3> QED BY <3>1 DEF GmNotLeftBehind
  <2> QED BY <2>1, <2>2
<1> QED BY <1>12, <1>13, <1>14, <1>15, <1>16 DEF SupplyInv
\* A crash, or a step of somebody else.
LEMMA CrashKeeps ==
  ASSUME SupplyInv, crashed' \in BOOLEAN,
         UNCHANGED <<started, room, playing, dirty, cache, requested, board,
                     gmVars, toGm, toServer, leaves>>
  PROVE  SupplyInv'
BY DEF SupplyInv, TypeOK, NotAhead, RequestedIffUnderWay, ShortIsAskedFor,
       GmNotLeftBehind, Waiting, InFlight, gmVars

LEMMA JoinKeeps ==
  ASSUME SupplyInv, NEW p \in Slots, Join(p)
  PROVE  SupplyInv'
<1>1. /\ p \notin room /\ room' = room \cup {p}
      /\ UNCHANGED <<started, dirty, crashed, cache, gmStarted, starts, toServer,
                     leaves>>
  BY DEF Join, gmVars
<1>2. TypeOK /\ Streams /\ p \notin playing
  BY <1>1, Given DEF TypeOK
<1>3. IsFiniteSet(room')
  BY <1>1, FS_AddElement DEF SupplyInv
<1>4. CASE started
  <2>1. PICK o \in NextPiece(Restarted(NewBoard), cache, FALSE) :
          /\ board' = [board EXCEPT ![p] = o.board]
          /\ requested' = (requested \/ o.asks)
          /\ toGm' = toGm \o Ask(o.asks)
    BY <1>4 DEF Join, Flagged
  <2>2. playing' = playing \cup {p}
    BY <1>4 DEF Join
  <2>3. Good(o, cache) /\ ~o.out
    <3>1. PICK b \in Board : b = Restarted(NewBoard) /\ b.index = 0
      BY NewBoards
    <3>2. cache \in Nat /\ b.index <= cache
      BY <1>2, <3>1 DEF TypeOK
    <3>3. o \in NextPiece(b, cache, FALSE)
      BY <3>1
    <3> QED BY <3>2, <3>3, NextPieceGood
  <2>4. o.board \in Board /\ o.board.index <= cache /\ o.asks \in BOOLEAN
    BY <2>3 DEF Good
  <2>5. /\ Ask(o.asks) \in Seq(ToGm) /\ InFlight(Ask(o.asks), {"end"}) = 0
        /\ InFlight(Ask(o.asks), {"request"})
             = IF o.asks /\ ~requested THEN 1 ELSE 0
    BY <1>2, <2>4, AskCount DEF TypeOK
  <2>6. \A K : /\ toGm' \in Seq(ToGm)
               /\ InFlight(toGm', K) = InFlight(toGm, K) + InFlight(Ask(o.asks), K)
    BY <1>2, <2>1, <2>5, ConcatCount DEF Streams
  <2>7. TypeOK'
    <3>1. toGm' \in Seq({"request", "end"})
      BY <2>6 DEF ToGm
    <3>2. board' \in [Slots -> Board] /\ requested' \in BOOLEAN
      BY <1>2, <2>1, <2>4 DEF TypeOK
    <3> QED BY <1>1, <1>2, <2>2, <3>1, <3>2 DEF TypeOK
  <2>8. NotAhead'
    BY <1>1, <1>2, <1>4, <2>1, <2>4 DEF SupplyInv, NotAhead, TypeOK
  <2>9. RequestedIffUnderWay'
    <3>1. InFlight(toGm, {"request"}) + InFlight(toServer, {"pieces", "empty"})
            = IF requested THEN 1 ELSE 0
      BY Given
    <3>2. /\ InFlight(toGm, {"request"}) \in Nat
          /\ InFlight(toServer, {"pieces", "empty"}) \in Nat
      BY Given
    <3>3. InFlight(toServer', {"pieces", "empty"})
            = InFlight(toServer, {"pieces", "empty"})
      BY <1>1
    <3>4. InFlight(toGm', {"request"}) = InFlight(toGm, {"request"})
            + IF o.asks /\ ~requested THEN 1 ELSE 0
      BY <2>5, <2>6
    <3>5. CASE o.asks /\ ~requested
      <4>1. requested' = TRUE
        BY <2>1, <3>5
      <4>2. InFlight(toGm', {"request"}) = InFlight(toGm, {"request"}) + 1
        BY <3>4, <3>5
      <4>3. InFlight(toGm, {"request"})
              + InFlight(toServer, {"pieces", "empty"}) = 0
        BY <3>1, <3>5
      <4> QED BY <3>2, <3>3, <4>1, <4>2, <4>3 DEF RequestedIffUnderWay
    <3>6. CASE ~(o.asks /\ ~requested)
      <4>1. requested' = requested
        BY <1>2, <2>1, <2>4, <3>6 DEF TypeOK
      <4> QED BY <3>1, <3>2, <3>3, <3>4, <3>6, <4>1 DEF RequestedIffUnderWay
    <3> QED BY <3>5, <3>6
  <2>10. ShortIsAskedFor'
    <3> SUFFICES ASSUME NEW q \in Slots, q \in playing', board'[q].list < Preview
                 PROVE  requested' /\ board'[q].index = cache'
      BY DEF ShortIsAskedFor, Waiting
    <3>1. CASE q = p
      <4>1. board'[q] = o.board
        BY <1>2, <2>1, <3>1 DEF TypeOK
      <4> QED BY <1>1, <2>1, <2>3, <4>1 DEF Good
    <3>2. CASE q # p
      <4>1. board'[q] = board[q] /\ q \in playing
        BY <1>2, <2>1, <2>2, <3>2 DEF TypeOK
      <4> QED BY <1>1, <1>4, <2>1, <4>1 DEF SupplyInv, ShortIsAskedFor, Waiting
    <3> QED BY <3>1, <3>2
  <2>11. GmNotLeftBehind'
    BY <1>1, <1>4 DEF GmNotLeftBehind
  <2> QED BY <1>3, <2>7, <2>8, <2>9, <2>10, <2>11 DEF SupplyInv
<1>5. CASE ~started
  <2>1. board' = [board EXCEPT ![p] = NewBoard]
        /\ UNCHANGED <<playing, requested, toGm>>
    BY <1>5 DEF Join
  <2>2. TypeOK'
    BY <1>1, <1>2, <2>1, NewBoards DEF TypeOK
  <2>3. RequestedIffUnderWay' /\ GmNotLeftBehind'
    BY <1>1, <2>1 DEF SupplyInv, RequestedIffUnderWay, GmNotLeftBehind, InFlight
  <2> QED BY <1>1, <1>3, <1>5, <2>2, <2>3
          DEF SupplyInv, NotAhead, ShortIsAskedFor, Waiting
<1> QED BY <1>4, <1>5

LEMMA LeaveKeeps ==
  ASSUME SupplyInv, NEW p \in Slots, Leave(p)
  PROVE  SupplyInv'
<1> DEFINE out == playing \cap {p}
           ends == Ends(out)
<1>1. /\ leaves < MaxLeaves /\ leaves' = leaves + 1
      /\ room' = room \ {p} /\ playing' = playing \ out
      /\ started' = (started /\ ends = <<>>) /\ toGm' = toGm \o ends
      /\ board' = [board EXCEPT ![p] = NewBoard]
      /\ UNCHANGED <<dirty, crashed, cache, requested, gmStarted, starts,
                     toServer>>
  BY DEF Leave, Out, gmVars
<1>2. TypeOK /\ Streams /\ IsFiniteSet(playing)
  BY Given
<1>3. IsFiniteSet(out) /\ IsFiniteSet(room')
  BY <1>1, <1>2, FS_Subset, FS_RemoveElement DEF SupplyInv
<1>4. ends \in Seq({"end"})
  <2> HIDE DEF out
  <2> QED BY <1>2, <1>3, EndsAreEnds
<1> HIDE DEF ends
<1>5. /\ ends \in Seq(ToGm) /\ InFlight(ends, {"request"}) = 0
      /\ InFlight(ends, {"end"}) \in Nat
      /\ ends # <<>> => InFlight(ends, {"end"}) > 0
  BY <1>4, EndsCount
<1>6. \A K : /\ toGm' \in Seq(ToGm)
             /\ InFlight(toGm', K) = InFlight(toGm, K) + InFlight(ends, K)
  BY <1>1, <1>2, <1>5, ConcatCount DEF Streams
<1>7. TypeOK'
  <2>1. toGm' \in Seq({"request", "end"})
    BY <1>6 DEF ToGm
  <2>2. board' \in [Slots -> Board] /\ started' \in BOOLEAN
    BY <1>1, <1>2, NewBoards DEF TypeOK
  <2>3. playing' \subseteq room' /\ leaves' \in 0 .. MaxLeaves
    BY <1>1, <1>2, SupplyAssumption DEF TypeOK
  <2> QED BY <1>1, <1>2, <2>1, <2>2, <2>3 DEF TypeOK
<1>8. NotAhead'
  BY <1>1, <1>2 DEF SupplyInv, NotAhead, TypeOK
<1>9. RequestedIffUnderWay'
  <2>1. InFlight(toGm', {"request"}) = InFlight(toGm, {"request"})
    BY <1>5, <1>6, Given
  <2>2. InFlight(toServer', {"pieces", "empty"})
          = InFlight(toServer, {"pieces", "empty"})
    BY <1>1
  <2> QED BY <1>1, <2>1, <2>2, Given DEF RequestedIffUnderWay
<1>10. ShortIsAskedFor'
  <2> SUFFICES ASSUME NEW q \in Slots, started', q \in playing',
                      board'[q].list < Preview
               PROVE  requested' /\ board'[q].index = cache'
    BY DEF ShortIsAskedFor, Waiting
  <2>1. q # p /\ q \in playing /\ board'[q] = board[q] /\ started
    BY <1>1, <1>2 DEF TypeOK
  <2> QED BY <1>1, <2>1 DEF SupplyInv, ShortIsAskedFor, Waiting
<1>11. GmNotLeftBehind'
  <2>1. CASE ends = <<>>
    <3>1. InFlight(toGm', {"end"}) = InFlight(toGm, {"end"})
      BY <1>5, <1>6, <2>1, NoneCount, Given
    <3>2. InFlight(toServer', {"start"}) = InFlight(toServer, {"start"})
      BY <1>1
    <3> QED BY <1>1, <2>1, <3>1, <3>2 DEF SupplyInv, GmNotLeftBehind
  <2>2. CASE ends # <<>>
    <3>1. InFlight(toGm', {"end"}) > 0
      BY <1>5, <1>6, <2>2, Given
    <3> QED BY <3>1 DEF GmNotLeftBehind
  <2> QED BY <2>1, <2>2
<1> QED BY <1>3, <1>7, <1>8, <1>9, <1>10, <1>11 DEF SupplyInv
LEMMA LockKeeps ==
  ASSUME SupplyInv, NEW p \in Slots, Lock(p)
  PROVE  SupplyInv'
<1>1. /\ started /\ p \in playing /\ dirty' = TRUE /\ crashed' = crashed
      /\ BoardEvent(p, OnLock(board[p], cache))
  BY DEF Lock
<1>2. TypeOK /\ board[p] \in Board /\ cache \in Nat /\ board[p].index <= cache
  BY <1>1 DEF SupplyInv, TypeOK, NotAhead
<1>3. \A o \in OnLock(board[p], cache) : Good(o, cache)
  BY <1>2, LockGood
<1>4. {dirty', crashed'} \subseteq BOOLEAN
  BY <1>1, <1>2 DEF TypeOK
<1> QED BY <1>1, <1>3, <1>4, BoardEventKeeps

LEMMA HoldKeeps ==
  ASSUME SupplyInv, NEW p \in Slots, Hold(p)
  PROVE  SupplyInv'
<1>1. started /\ p \in playing
  BY DEF Hold
<1>2. /\ TypeOK /\ board[p] \in Board /\ cache \in Nat /\ dirty \in BOOLEAN
      /\ board[p].index <= cache
  BY <1>1 DEF SupplyInv, TypeOK, NotAhead
<1>3. CASE Crash
  BY <1>3, CrashKeeps DEF Crash
<1>4. CASE /\ UNCHANGED <<dirty, crashed>>
           /\ BoardEvent(p, OnHold(board[p], cache))
  <2>1. \A o \in OnHold(board[p], cache) : Good(o, cache)
    BY <1>2, HoldGood
  <2>2. {dirty', crashed'} \subseteq BOOLEAN
    BY <1>2, <1>4 DEF TypeOK
  <2> QED BY <1>1, <1>4, <2>1, <2>2, BoardEventKeeps
<1> QED BY <1>3, <1>4 DEF Hold

LEMMA GmStartsKeeps ==
  ASSUME SupplyInv, GmStarts
  PROVE  SupplyInv'
<1>1. /\ starts < MaxStarts /\ starts' = starts + 1 /\ gmStarted' = TRUE
      /\ toServer' = Append(toServer, "start")
      /\ UNCHANGED <<started, room, playing, dirty, crashed, cache, requested,
                     board, toGm, leaves>>
  BY DEF GmStarts, matchVars
<1>2. TypeOK /\ Streams /\ "start" \in ToServer
  BY Given DEF ToServer
<1>3. /\ InFlight(toServer', {"start"}) = InFlight(toServer, {"start"}) + 1
      /\ InFlight(toServer', {"pieces", "empty"})
           = InFlight(toServer, {"pieces", "empty"}) + 0
  <2>1. /\ (IF "start" \in {"start"} THEN 1 ELSE 0) = 1
        /\ (IF "start" \in {"pieces", "empty"} THEN 1 ELSE 0) = 0
    OBVIOUS
  <2>2. toServer \in Seq(ToServer)
    BY <1>2 DEF Streams
  <2> QED BY <1>1, <1>2, <2>1, <2>2, AppendCount
<1>4. TypeOK'
  BY <1>1, <1>2, SupplyAssumption DEF TypeOK
<1>5. RequestedIffUnderWay'
  <2>1. InFlight(toGm', {"request"}) = InFlight(toGm, {"request"})
    BY <1>1
  <2> QED BY <1>1, <1>3, <2>1, Given DEF RequestedIffUnderWay
<1>6. GmNotLeftBehind'
  <2>1. InFlight(toServer', {"start"}) > 0
    BY <1>3, Given
  <2> QED BY <2>1 DEF GmNotLeftBehind
<1> QED BY <1>1, <1>4, <1>5, <1>6
        DEF SupplyInv, NotAhead, ShortIsAskedFor, Waiting

LEMMA GmReadsKeeps ==
  ASSUME SupplyInv, GmReads
  PROVE  SupplyInv'
<1>1. /\ toGm # <<>> /\ toGm' = Tail(toGm)
      /\ UNCHANGED <<started, room, playing, dirty, crashed, cache, requested,
                     board, starts, leaves>>
  BY DEF GmReads, matchVars
<1>2. TypeOK /\ Streams
  BY Given
<1>3. toGm' \in Seq(ToGm) /\ Head(toGm) \in ToGm
  BY <1>1, <1>2 DEF Streams
<1>4. \A K : /\ InFlight(toGm, K)
                  = InFlight(toGm', K) + (IF Head(toGm) \in K THEN 1 ELSE 0)
             /\ InFlight(toGm', K) \in Nat
  BY <1>1, <1>2, TailCount DEF Streams
<1>5. CASE Head(toGm) = "request"
  <2>1. PICK a \in {"pieces", "empty"} :
          toServer' = Append(toServer, a) /\ gmStarted' = gmStarted
    BY <1>5 DEF GmReads
  <2>2. /\ InFlight(toGm, {"request"}) = InFlight(toGm', {"request"}) + 1
        /\ InFlight(toGm, {"end"}) = InFlight(toGm', {"end"}) + 0
    <3>1. /\ (IF Head(toGm) \in {"request"} THEN 1 ELSE 0) = 1
          /\ (IF Head(toGm) \in {"end"} THEN 1 ELSE 0) = 0
      BY <1>5
    <3> QED BY <1>4, <3>1
  <2>3. /\ InFlight(toServer', {"pieces", "empty"})
             = InFlight(toServer, {"pieces", "empty"}) + 1
        /\ InFlight(toServer', {"start"}) = InFlight(toServer, {"start"}) + 0
    <3>1. /\ (IF a \in {"pieces", "empty"} THEN 1 ELSE 0) = 1
          /\ (IF a \in {"start"} THEN 1 ELSE 0) = 0
      OBVIOUS
    <3>2. toServer \in Seq(ToServer) /\ a \in ToServer
      BY <1>2 DEF Streams, ToServer
    <3> QED BY <2>1, <3>1, <3>2, AppendCount
  <2>4. TypeOK'
    <3>1. toGm' \in Seq({"request", "end"})
      BY <1>3 DEF ToGm
    <3>2. toServer' \in Seq({"start", "pieces", "empty"})
      BY <1>2, <2>1 DEF TypeOK
    <3> QED BY <1>1, <1>2, <2>1, <3>1, <3>2 DEF TypeOK
  <2>5. RequestedIffUnderWay'
    <3>1. InFlight(toGm', {"request"}) \in Nat
      BY <1>4
    <3> QED BY <1>1, <2>2, <2>3, <3>1, Given DEF RequestedIffUnderWay
  <2>6. GmNotLeftBehind'
    <3>1. InFlight(toGm', {"end"}) \in Nat
      BY <1>4
    <3>2. /\ InFlight(toGm', {"end"}) = InFlight(toGm, {"end"})
          /\ InFlight(toServer', {"start"}) = InFlight(toServer, {"start"})
      BY <2>2, <2>3, <3>1, Given
    <3> QED BY <1>1, <2>1, <3>2 DEF SupplyInv, GmNotLeftBehind
  <2> QED BY <1>1, <2>4, <2>5, <2>6
          DEF SupplyInv, NotAhead, ShortIsAskedFor, Waiting
<1>6. CASE Head(toGm) = "end"
  <2>1. gmStarted' = FALSE /\ toServer' = toServer
    BY <1>6 DEF GmReads
  <2>2. InFlight(toGm, {"request"}) = InFlight(toGm', {"request"}) + 0
    <3>1. (IF Head(toGm) \in {"request"} THEN 1 ELSE 0) = 0
      BY <1>6
    <3> QED BY <1>4, <3>1
  <2>3. TypeOK'
    <3>1. toGm' \in Seq({"request", "end"})
      BY <1>3 DEF ToGm
    <3> QED BY <1>1, <1>2, <2>1, <3>1 DEF TypeOK
  <2>4. RequestedIffUnderWay'
    <3>1. InFlight(toGm', {"request"}) = InFlight(toGm, {"request"})
      BY <1>4, <2>2
    <3>2. InFlight(toServer', {"pieces", "empty"})
            = InFlight(toServer, {"pieces", "empty"})
      BY <2>1
    <3> QED BY <1>1, <3>1, <3>2, Given DEF RequestedIffUnderWay
  <2> QED BY <1>1, <2>1, <2>3, <2>4
          DEF SupplyInv, NotAhead, ShortIsAskedFor, Waiting, GmNotLeftBehind
<1> QED BY <1>3, <1>5, <1>6 DEF ToGm
\* What the server has read: a start leaves the answers alone, an answer was
\* the one thing under way.
LEMMA ServerReadCount ==
  ASSUME SupplyInv, ServerReads
  PROVE  /\ toServer' = Tail(toServer) /\ toServer' \in Seq(ToServer)
         /\ Head(toServer) \in ToServer
         /\ Head(toServer) = "start" =>
              InFlight(toServer', {"pieces", "empty"})
                = InFlight(toServer, {"pieces", "empty"})
         /\ Head(toServer) # "start" =>
              /\ InFlight(toServer', {"start"}) = InFlight(toServer, {"start"})
              /\ requested = TRUE
              /\ InFlight(toGm, {"request"}) = 0
              /\ InFlight(toServer', {"pieces", "empty"}) = 0
<1>1. toServer # <<>> /\ toServer' = Tail(toServer) /\ Streams
  BY Given DEF ServerReads
<1>2. toServer' \in Seq(ToServer) /\ Head(toServer) \in ToServer
  BY <1>1 DEF Streams
<1>3. \A K : /\ InFlight(toServer, K)
                  = InFlight(toServer', K) + (IF Head(toServer) \in K THEN 1 ELSE 0)
             /\ InFlight(toServer', K) \in Nat
  BY <1>1, TailCount DEF Streams
<1>4. ASSUME Head(toServer) = "start"
      PROVE  InFlight(toServer', {"pieces", "empty"})
                = InFlight(toServer, {"pieces", "empty"})
  <2>1. (IF Head(toServer) \in {"pieces", "empty"} THEN 1 ELSE 0) = 0
    BY <1>4
  <2>2. InFlight(toServer', {"pieces", "empty"}) \in Nat
    BY <1>3
  <2>3. InFlight(toServer, {"pieces", "empty"})
          = InFlight(toServer', {"pieces", "empty"}) + 0
    BY <1>3, <2>1
  <2> QED BY <2>2, <2>3
<1>5. ASSUME Head(toServer) # "start"
      PROVE  /\ InFlight(toServer', {"start"}) = InFlight(toServer, {"start"})
             /\ requested = TRUE
             /\ InFlight(toGm, {"request"}) = 0
             /\ InFlight(toServer', {"pieces", "empty"}) = 0
  <2>1. /\ (IF Head(toServer) \in {"start"} THEN 1 ELSE 0) = 0
        /\ (IF Head(toServer) \in {"pieces", "empty"} THEN 1 ELSE 0) = 1
    BY <1>2, <1>5 DEF ToServer
  <2>2. /\ InFlight(toServer, {"start"}) = InFlight(toServer', {"start"}) + 0
        /\ InFlight(toServer', {"start"}) \in Nat
        /\ InFlight(toServer, {"pieces", "empty"})
             = InFlight(toServer', {"pieces", "empty"}) + 1
        /\ InFlight(toServer', {"pieces", "empty"}) \in Nat
    BY <1>3, <2>1
  <2>3. /\ InFlight(toGm, {"request"}) + InFlight(toServer, {"pieces", "empty"})
             = IF requested THEN 1 ELSE 0
        /\ InFlight(toGm, {"request"}) \in Nat /\ requested \in BOOLEAN
    BY Given DEF TypeOK
  <2>4. requested = TRUE
    BY <2>2, <2>3
  <2>5. InFlight(toGm, {"request"}) + InFlight(toServer, {"pieces", "empty"}) = 1
    BY <2>3, <2>4
  <2> QED BY <2>2, <2>3, <2>4, <2>5
<1> QED BY <1>1, <1>2, <1>4, <1>5

\* A start that finds no match on.
LEMMA StartMatchKeeps ==
  ASSUME SupplyInv, ServerReads, Head(toServer) = "start", ~started, StartMatch
  PROVE  SupplyInv'
<1> DEFINE asks == room # {}
           ends == EndIfEmpty
<1>1. /\ started' = asks /\ cache' = 0 /\ playing' = room
      /\ board' = [q \in Slots |->
                    IF q \in room THEN Restarted(board[q]) ELSE board[q]]
      /\ requested' = (requested \/ asks) /\ toGm' = toGm \o Ask(asks) \o ends
      /\ dirty' = FALSE /\ UNCHANGED <<room, crashed>>
  BY DEF StartMatch, Flagged
<1>2. UNCHANGED <<gmStarted, starts, leaves>>
  BY DEF ServerReads, gmVars
<1>3. TypeOK /\ Streams /\ IsFiniteSet(playing)
  BY Given
<1>4. asks \in BOOLEAN
  OBVIOUS
<1>5. /\ ends \in Seq({"end"})
      /\ ~asks => ends # <<>>
  <2>1. <<"end">> \in Seq({"end"}) /\ <<>> \in Seq({"end"}) /\ <<"end">> # <<>>
    OBVIOUS
  <2>2. ends = IF asks THEN <<>> ELSE <<"end">>
    BY DEF EndIfEmpty
  <2> QED BY <2>1, <2>2
<1> HIDE DEF ends, asks
<1>6. /\ ends \in Seq(ToGm) /\ InFlight(ends, {"request"}) = 0
      /\ ~asks => InFlight(ends, {"end"}) > 0
  BY <1>5, EndsCount
<1>7. /\ Ask(asks) \in Seq(ToGm) /\ InFlight(Ask(asks), {"end"}) = 0
      /\ InFlight(Ask(asks), {"request"}) = IF asks /\ ~requested THEN 1 ELSE 0
  BY <1>3, <1>4, AskCount DEF TypeOK
<1>8. \A K : /\ toGm' \in Seq(ToGm)
             /\ InFlight(toGm', K)
                  = InFlight(toGm, K) + InFlight(Ask(asks), K) + InFlight(ends, K)
  BY <1>1, <1>3, <1>6, <1>7, TwiceCount DEF Streams
<1>9. \A q \in Slots : board'[q] \in Board
  BY <1>1, <1>3, NewBoards DEF TypeOK
<1>10. TypeOK'
  <2>1. toGm' \in Seq({"request", "end"})
    BY <1>8 DEF ToGm
  <2>2. toServer' \in Seq({"start", "pieces", "empty"})
    BY ServerReadCount DEF ToServer
  <2>3. board' \in [Slots -> Board]
    BY <1>1, <1>9
  <2>4. {started', requested'} \subseteq BOOLEAN
    BY <1>1, <1>3, <1>4 DEF TypeOK
  <2> QED BY <1>1, <1>2, <1>3, <2>1, <2>2, <2>3, <2>4 DEF TypeOK
<1>11. \A q \in room : board'[q].index = 0
  BY <1>1, <1>3, NewBoards DEF TypeOK
<1>12. NotAhead'
  BY <1>1, <1>11 DEF NotAhead
<1>13. RequestedIffUnderWay'
  <2>1. InFlight(toGm, {"request"}) + InFlight(toServer, {"pieces", "empty"})
          = IF requested THEN 1 ELSE 0
    BY Given
  <2>2. /\ InFlight(toGm, {"request"}) \in Nat
        /\ InFlight(toServer, {"pieces", "empty"}) \in Nat
    BY Given
  <2>3. InFlight(toServer', {"pieces", "empty"})
          = InFlight(toServer, {"pieces", "empty"})
    BY ServerReadCount
  <2>4. InFlight(toGm', {"request"}) = InFlight(toGm, {"request"})
          + IF asks /\ ~requested THEN 1 ELSE 0
    BY <1>6, <1>7, <1>8, <2>2
  <2>5. CASE asks /\ ~requested
    <3>1. requested' = TRUE
      BY <1>1, <2>5
    <3>2. InFlight(toGm', {"request"}) = InFlight(toGm, {"request"}) + 1
      BY <2>4, <2>5
    <3>3. InFlight(toGm, {"request"})
            + InFlight(toServer, {"pieces", "empty"}) = 0
      BY <2>1, <2>5
    <3> QED BY <2>2, <2>3, <3>1, <3>2, <3>3 DEF RequestedIffUnderWay
  <2>6. CASE ~(asks /\ ~requested)
    <3>1. requested' = requested
      BY <1>1, <1>3, <1>4, <2>6 DEF TypeOK
    <3> QED BY <2>1, <2>2, <2>3, <2>4, <2>6, <3>1 DEF RequestedIffUnderWay
  <2> QED BY <2>5, <2>6
<1>14. ShortIsAskedFor'
  BY <1>1, <1>11 DEF ShortIsAskedFor, Waiting
<1>15. GmNotLeftBehind'
  <2>1. CASE asks
    BY <1>1, <2>1 DEF GmNotLeftBehind
  <2>2. CASE ~asks
    <3>1. InFlight(ends, {"end"}) > 0 /\ InFlight(ends, {"end"}) \in Nat
      BY <1>5, <1>6, <2>2, EndsCount
    <3>2. InFlight(toGm', {"end"})
            = InFlight(toGm, {"end"}) + InFlight(ends, {"end"})
      BY <1>7, <1>8, <3>1, Given
    <3>3. InFlight(toGm', {"end"}) > 0
      BY <3>1, <3>2, Given
    <3> QED BY <3>3 DEF GmNotLeftBehind
  <2> QED BY <2>1, <2>2
<1>16. IsFiniteSet(room)'
  BY <1>1 DEF SupplyInv
<1> QED BY <1>10, <1>12, <1>13, <1>14, <1>15, <1>16 DEF SupplyInv

LEMMA ThriceCount ==
  ASSUME NEW s \in Seq(ToGm), NEW t \in Seq(ToGm), NEW u \in Seq(ToGm),
         NEW v \in Seq(ToGm), NEW K
  PROVE  /\ s \o t \o u \o v \in Seq(ToGm)
         /\ InFlight(s \o t \o u \o v, K)
              = InFlight(s, K) + InFlight(t, K) + InFlight(u, K) + InFlight(v, K)
         /\ InFlight(s, K) \in Nat /\ InFlight(t, K) \in Nat
         /\ InFlight(u, K) \in Nat /\ InFlight(v, K) \in Nat
<1>1. PICK w \in Seq(ToGm) : w = s \o t \o u
  BY TwiceCount
<1>2. /\ InFlight(w, K) = InFlight(s, K) + InFlight(t, K) + InFlight(u, K)
      /\ InFlight(s, K) \in Nat /\ InFlight(t, K) \in Nat
      /\ InFlight(u, K) \in Nat
  BY <1>1, TwiceCount
<1>3. w \o v \in Seq(ToGm) /\ w \o v = s \o t \o u \o v
  BY <1>1
<1>4. InFlight(w \o v, K) = InFlight(w, K) + InFlight(v, K)
  BY ConcatCount
<1>5. InFlight(v, K) \in Nat
  BY PlacesCount
<1> QED BY <1>2, <1>3, <1>4, <1>5

\* Nothing but ends, if anything.
Silent(s) ==
  /\ s \in Seq(ToGm) /\ InFlight(s, {"request"}) = 0
  /\ InFlight(s, {"end"}) \in Nat /\ (s # <<>> => InFlight(s, {"end"}) > 0)

\* What a deal sends, wherever the request goes between the ends.
LEMMA DealtCount ==
  ASSUME NEW g \in Seq(ToGm), NEW ask \in Seq(ToGm),
         NEW first, NEW last, Silent(first), Silent(last)
  PROVE  LET s == g \o first \o ask \o last IN
         /\ s \in Seq(ToGm)
         /\ InFlight(s, {"request"})
              = InFlight(g, {"request"}) + InFlight(ask, {"request"})
         /\ InFlight(s, {"end"}) \in Nat
         /\ first # <<>> \/ last # <<>> => InFlight(s, {"end"}) > 0
<1> DEFINE s == g \o first \o ask \o last
<1>1. first \in Seq(ToGm) /\ last \in Seq(ToGm)
  BY DEF Silent
<1>2. s \in Seq(ToGm)
  BY <1>1, ThriceCount
<1>3. \A K :
        /\ InFlight(s, K) = InFlight(g, K) + InFlight(first, K)
                              + InFlight(ask, K) + InFlight(last, K)
        /\ InFlight(g, K) \in Nat /\ InFlight(ask, K) \in Nat
  BY <1>1, ThriceCount
<1> HIDE DEF s
<1>4. InFlight(s, {"request"})
        = InFlight(g, {"request"}) + InFlight(ask, {"request"})
  BY <1>3 DEF Silent
<1>5. InFlight(s, {"end"})
        = InFlight(g, {"end"}) + InFlight(first, {"end"})
            + InFlight(ask, {"end"}) + InFlight(last, {"end"})
  BY <1>3
<1>6. InFlight(g, {"end"}) \in Nat /\ InFlight(ask, {"end"}) \in Nat
  BY <1>3
<1>7. /\ InFlight(s, {"end"}) \in Nat
      /\ first # <<>> \/ last # <<>> => InFlight(s, {"end"}) > 0
  BY <1>5, <1>6 DEF Silent
<1> QED BY <1>2, <1>4, <1>7 DEF s

\* An answer in a match: every board in the room has been told.
LEMMA DealOutKeeps ==
  ASSUME SupplyInv, ServerReads, Head(toServer) # "start", started,
         NEW n \in Nat, DealOut(n)
  PROVE  SupplyInv'
<1> DEFINE c == cache + n
<1>1. PICK o \in [room -> UNION {OnTerminoAvailable(board[p], c) : p \in room}] :
        /\ \A p \in room : o[p] \in OnTerminoAvailable(board[p], c)
        /\ LET asks == \E p \in room : o[p].asks
               ends == Ends({p \in playing : o[p].out})
           IN  /\ Out({p \in playing : o[p].out})
               /\ requested' = asks
               /\ \E k \in 0..Len(ends) :
                    toGm' = toGm \o SubSeq(ends, 1, k)
                                 \o (IF asks THEN <<"request">> ELSE <<>>)
                                 \o SubSeq(ends, k + 1, Len(ends))
        /\ board' = [p \in Slots |-> IF p \in room THEN o[p].board ELSE board[p]]
        /\ cache' = c
        /\ UNCHANGED <<room, dirty, crashed>>
  BY DEF DealOut
<1> DEFINE asks == \E p \in room : o[p].asks
           out == {p \in playing : o[p].out}
           ends == Ends(out)
<1>2. PICK k \in 0 .. Len(ends) :
        toGm' = toGm \o SubSeq(ends, 1, k)
                     \o (IF asks THEN <<"request">> ELSE <<>>)
                     \o SubSeq(ends, k + 1, Len(ends))
  BY <1>1
<1>3. /\ playing' = playing \ out /\ started' = (ends = <<>>)
      /\ requested' = asks /\ cache' = c
      /\ board' = [p \in Slots |-> IF p \in room THEN o[p].board ELSE board[p]]
      /\ UNCHANGED <<room, dirty, crashed, gmStarted, starts, leaves>>
  BY <1>1 DEF Out, ServerReads, gmVars
<1>4. TypeOK /\ Streams /\ IsFiniteSet(playing) /\ c \in Nat
  BY Given DEF TypeOK
<1>5. ASSUME NEW p \in room
      PROVE  Good(o[p], c) /\ o[p].board \in Board /\ o[p].board.index <= c
  <2>1. board[p] \in Board /\ board[p].index <= c /\ dirty \in BOOLEAN
    BY <1>4 DEF SupplyInv, TypeOK, NotAhead, Board
  <2>2. Good(o[p], c)
    BY <1>1, <1>4, <2>1, TerminoAvailableGood
  <2> QED BY <2>2 DEF Good
<1>6. asks \in BOOLEAN
  OBVIOUS
<1>7. IsFiniteSet(out)
  BY <1>4, FS_Subset
<1>8. ends \in Seq({"end"})
  <2> HIDE DEF out
  <2> QED BY <1>4, <1>7, EndsAreEnds
<1> HIDE DEF ends, asks, c
<1>9. /\ toGm' \in Seq(ToGm)
      /\ InFlight(toGm', {"request"})
           = InFlight(toGm, {"request"}) + IF asks THEN 1 ELSE 0
      /\ InFlight(toGm', {"end"}) \in Nat
      /\ ends # <<>> => InFlight(toGm', {"end"}) > 0
  <2>1. PICK first, last :
          /\ first = SubSeq(ends, 1, k) /\ last = SubSeq(ends, k + 1, Len(ends))
          /\ Silent(first) /\ Silent(last)
          /\ ends # <<>> => first # <<>> \/ last # <<>>
    <3>1. /\ SubSeq(ends, 1, k) \in Seq({"end"})
          /\ SubSeq(ends, k + 1, Len(ends)) \in Seq({"end"})
          /\ ends # <<>> => \/ SubSeq(ends, 1, k) # <<>>
                            \/ SubSeq(ends, k + 1, Len(ends)) # <<>>
      BY <1>8, CutEnds
    <3>2. /\ Silent(SubSeq(ends, 1, k))
          /\ Silent(SubSeq(ends, k + 1, Len(ends)))
      BY <3>1, EndsCount DEF Silent
    <3> QED BY <3>1, <3>2
  <2>2. PICK ask \in Seq(ToGm) :
          /\ ask = IF asks THEN <<"request">> ELSE <<>>
          /\ InFlight(ask, {"request"}) = IF asks THEN 1 ELSE 0
    <3>1. <<"request">> \in Seq(ToGm) /\ <<>> \in Seq(ToGm)
      BY DEF ToGm
    <3>2. "request" \in {"request"}
      OBVIOUS
    <3>3. InFlight(<<"request">>, {"request"}) = 1
      BY <3>2, OneCount, Zenon
    <3>4. InFlight(<<>>, {"request"}) = 0
      BY NoneCount
    <3> QED BY <3>1, <3>3, <3>4
  <2>3. PICK g \in Seq(ToGm) : g = toGm
    BY <1>4 DEF Streams
  <2>4. PICK s : s = g \o first \o ask \o last
    OBVIOUS
  <2>5. /\ s \in Seq(ToGm)
        /\ InFlight(s, {"request"})
             = InFlight(g, {"request"}) + InFlight(ask, {"request"})
        /\ InFlight(s, {"end"}) \in Nat
        /\ first # <<>> \/ last # <<>> => InFlight(s, {"end"}) > 0
    <3>1. Silent(first) /\ Silent(last)
      BY <2>1
    <3>2. s \in Seq(ToGm)
      BY <2>4, <3>1, DealtCount
    <3>3. InFlight(s, {"request"})
             = InFlight(g, {"request"}) + InFlight(ask, {"request"})
      BY <2>4, <3>1, DealtCount
    <3>4. InFlight(s, {"end"}) \in Nat
      BY <2>4, <3>1, DealtCount
    <3>5. ASSUME first # <<>> \/ last # <<>>  PROVE InFlight(s, {"end"}) > 0
      BY <2>4, <3>1, <3>5, DealtCount
    <3> QED BY <3>2, <3>3, <3>4, <3>5
  <2>6. toGm' = s
    BY <1>2, <2>1, <2>2, <2>3, <2>4
  <2> QED BY <2>1, <2>2, <2>3, <2>5, <2>6
<1>10. TypeOK'
  <2>1. toGm' \in Seq({"request", "end"})
    BY <1>9 DEF ToGm
  <2>2. toServer' \in Seq({"start", "pieces", "empty"})
    BY ServerReadCount DEF ToServer
  <2>3. board' \in [Slots -> Board]
    BY <1>3, <1>4, <1>5 DEF TypeOK
  <2>4. {started', requested'} \subseteq BOOLEAN
    BY <1>3, <1>6
  <2> QED BY <1>3, <1>4, <2>1, <2>2, <2>3, <2>4 DEF TypeOK
<1>11. NotAhead' /\ IsFiniteSet(room)'
  BY <1>3, <1>4, <1>5 DEF SupplyInv, NotAhead, TypeOK
<1>12. RequestedIffUnderWay'
  <2>1. /\ InFlight(toGm, {"request"}) = 0
        /\ InFlight(toServer', {"pieces", "empty"}) = 0
    BY ServerReadCount
  <2> QED BY <1>3, <1>9, <2>1 DEF RequestedIffUnderWay
<1>13. ShortIsAskedFor'
  <2> SUFFICES ASSUME NEW q \in Slots, q \in playing', board'[q].list < Preview
               PROVE  requested' /\ board'[q].index = cache'
    BY DEF ShortIsAskedFor, Waiting
  <2>1. q \in room /\ board'[q] = o[q].board /\ ~o[q].out
    BY <1>3, <1>4 DEF TypeOK
  <2>2. o[q].asks /\ o[q].board.index = c
    BY <1>5, <2>1 DEF Good
  <2> QED BY <1>3, <2>1, <2>2 DEF asks
<1>14. GmNotLeftBehind'
  BY <1>3, <1>9 DEF GmNotLeftBehind
<1> QED BY <1>10, <1>11, <1>12, <1>13, <1>14 DEF SupplyInv

LEMMA ServerReadsKeeps ==
  ASSUME SupplyInv, ServerReads
  PROVE  SupplyInv'
<1>1. /\ toServer' \in Seq(ToServer) /\ Head(toServer) \in ToServer
      /\ UNCHANGED <<gmStarted, starts, leaves>>
  BY ServerReadCount DEF ServerReads, gmVars
<1>2. TypeOK
  BY Given
<1>3. CASE Head(toServer) = "start" /\ started
  <2>1. UNCHANGED <<started, room, playing, dirty, crashed, cache, requested,
                    board, toGm>>
    BY <1>3 DEF ServerReads, matchVars
  <2>2. RequestedIffUnderWay'
    <3>1. InFlight(toGm', {"request"}) = InFlight(toGm, {"request"})
      BY <2>1
    <3> QED BY <1>3, <2>1, <3>1, ServerReadCount
            DEF SupplyInv, RequestedIffUnderWay
  <2>3. TypeOK'
    BY <1>1, <1>2, <2>1 DEF TypeOK, ToServer
  <2> QED BY <1>3, <2>1, <2>2, <2>3
          DEF SupplyInv, NotAhead, ShortIsAskedFor, Waiting, GmNotLeftBehind
<1>4. CASE Head(toServer) = "start" /\ ~started
  BY <1>4, StartMatchKeeps DEF ServerReads
<1>5. CASE Head(toServer) # "start" /\ started
  <2> DEFINE n == IF Head(toServer) = "pieces" THEN Batch ELSE 0
  <2>1. DealOut(n) /\ n \in Nat
    BY <1>5, SupplyAssumption DEF ServerReads
  <2> HIDE DEF n
  <2> QED BY <1>5, <2>1, DealOutKeeps
<1>6. CASE Head(toServer) # "start" /\ ~started
  <2>1. /\ requested' = FALSE
        /\ UNCHANGED <<started, room, playing, dirty, crashed, cache, board, toGm>>
    BY <1>6 DEF ServerReads, matchVars
  <2>2. /\ InFlight(toServer', {"start"}) = InFlight(toServer, {"start"})
        /\ InFlight(toGm, {"request"}) = 0
        /\ InFlight(toServer', {"pieces", "empty"}) = 0
    BY <1>6, ServerReadCount
  <2>3. /\ InFlight(toGm', {"request"}) = InFlight(toGm, {"request"})
        /\ InFlight(toGm', {"end"}) = InFlight(toGm, {"end"})
    BY <2>1
  <2>4. RequestedIffUnderWay'
    BY <2>1, <2>2, <2>3 DEF RequestedIffUnderWay
  <2>5. GmNotLeftBehind'
    BY <1>1, <2>1, <2>2, <2>3 DEF SupplyInv, GmNotLeftBehind
  <2>6. TypeOK'
    BY <1>1, <1>2, <2>1 DEF TypeOK, ToServer
  <2> QED BY <1>6, <2>1, <2>4, <2>5, <2>6
          DEF SupplyInv, NotAhead, ShortIsAskedFor, Waiting
<1> QED BY <1>3, <1>4, <1>5, <1>6
-----------------------------------------------------------------------------
(* Theorems. *)

\* Before anybody has joined nothing is sent, flagged or owed.
THEOREM SupplyInit == Init => SupplyInv
<1> SUFFICES ASSUME Init  PROVE SupplyInv
  OBVIOUS
<1>1. TypeOK
  <2>1. board \in [Slots -> Board]
    BY NewBoards DEF Init
  <2>2. 0 \in 0 .. MaxStarts /\ 0 \in 0 .. MaxLeaves
    BY SupplyAssumption
  <2>3. toGm \in Seq({"request", "end"})
        /\ toServer \in Seq({"start", "pieces", "empty"})
    BY DEF Init
  <2> QED BY <2>1, <2>2, <2>3 DEF Init, TypeOK
<1>2. RequestedIffUnderWay
  <2>1. /\ InFlight(toGm, {"request"}) = 0
        /\ InFlight(toServer, {"pieces", "empty"}) = 0
    BY NoneCount DEF Init
  <2> QED BY <2>1 DEF Init, RequestedIffUnderWay
<1>3. IsFiniteSet(room)
  BY FS_EmptySet DEF Init
<1> QED BY <1>1, <1>2, <1>3
        DEF Init, SupplyInv, NotAhead, ShortIsAskedFor, Waiting, GmNotLeftBehind

\* One step of the server, the game master or a player (handle and onBcb
\* functions of Game, the board's events, GameMaster's handlers) keeps the
\* whole of it.
THEOREM SupplyStep == SupplyInv /\ [Next]_vars => SupplyInv'
<1> SUFFICES ASSUME SupplyInv, [Next]_vars  PROVE SupplyInv'
  OBVIOUS
<1>1. CASE \E p \in Slots : Join(p)
  BY <1>1, JoinKeeps
<1>2. CASE \E p \in Slots : Leave(p)
  BY <1>2, LeaveKeeps
<1>3. CASE \E p \in Slots : Sink(p)
  BY <1>3, CrashKeeps DEF Sink, Crash
<1>4. CASE \E p \in Slots : Lock(p)
  BY <1>4, LockKeeps
<1>5. CASE \E p \in Slots : Hold(p)
  BY <1>5, HoldKeeps
<1>6. CASE ServerReads
  BY <1>6, ServerReadsKeeps
<1>7. CASE GmStarts
  BY <1>7, GmStartsKeeps
<1>8. CASE GmReads
  BY <1>8, GmReadsKeeps
<1>9. CASE UNCHANGED vars
  <2>1. crashed \in BOOLEAN
    BY DEF SupplyInv, TypeOK
  <2> QED BY <1>9, <2>1, CrashKeeps DEF vars, matchVars, gmVars
<1> QED BY <1>1, <1>2, <1>3, <1>4, <1>5, <1>6, <1>7, <1>8, <1>9 DEF Next

\* The invariant all the others follow from.
THEOREM SupplyInductive == Spec => []SupplyInv
BY SupplyInit, SupplyStep, PTL DEF Spec

\* Every variable keeps its type: no preview runs below zero or past its
\* length, and who plays is in the room.
THEOREM SupplyTypes == Spec => []TypeOK
<1>1. SupplyInv => TypeOK
  BY DEF SupplyInv
<1> QED BY <1>1, SupplyInductive, PTL

\* mTerminoRequested is true exactly while one PieceRequest or its answer is
\* on one of the two streams, however matches end and start in between.
THEOREM OneRequest == Spec => []RequestedIffUnderWay
<1>1. SupplyInv => RequestedIffUnderWay
  BY DEF SupplyInv
<1> QED BY <1>1, SupplyInductive, PTL

\* A contender with a short preview has all of the cache and a request under
\* way: nobody waits for what nobody has asked for.
THEOREM NobodyWaitsUnasked == Spec => []ShortIsAskedFor
<1>1. SupplyInv => ShortIsAskedFor
  BY DEF SupplyInv
<1> QED BY <1>1, SupplyInductive, PTL

\* GameMaster::mStarted is true only during a match, before its start is
\* read, or while its end is on the way.
THEOREM GmLearnsTheEnd == Spec => []GmNotLeftBehind
<1>1. SupplyInv => GmNotLeftBehind
  BY DEF SupplyInv
<1> QED BY <1>1, SupplyInductive, PTL
-----------------------------------------------------------------------------
(* Pieces that are played twice. *)

\* What a board event does to the boards.
LEMMA BoardEventReplay ==
  ASSUME SupplyInv, NEW p \in playing, NEW outcomes,
         \A o \in outcomes : Dry(o, cache), \A o \in outcomes : Good(o, cache),
         BoardEvent(p, outcomes), NEW q \in playing,
         board[q].cur # "spent", board'[q].cur = "spent"
  PROVE  board'[q].list = 0 /\ board'[q].index = cache /\ requested'
<1>1. PICK o \in outcomes :
        /\ board' = [board EXCEPT ![p] = o.board]
        /\ requested' = (requested \/ o.asks) /\ cache' = cache
  BY DEF BoardEvent, Flagged
<1>2. board \in [Slots -> Board] /\ p \in Slots /\ q \in Slots
  BY DEF SupplyInv, TypeOK
<1>3. q = p /\ board'[q] = o.board
  BY <1>1, <1>2
<1>4. Dry(o, cache)
  OBVIOUS
<1> QED BY <1>1, <1>3, <1>4 DEF Dry

LEMMA ReplayStep ==
  ASSUME SupplyInv, Next, NEW q \in playing,
         board[q].cur # "spent", board'[q].cur = "spent"
  PROVE  board'[q].list = 0 /\ board'[q].index = cache /\ requested'
<1>1. /\ TypeOK /\ q \in room /\ q \in Slots /\ board \in [Slots -> Board]
      /\ cache \in Nat /\ dirty \in BOOLEAN
  BY DEF SupplyInv, TypeOK
<1>2. ASSUME NEW p \in Slots, Join(p)  PROVE FALSE
  <2>1. p # q
    BY <1>1, <1>2 DEF Join
  <2>2. \E b : board' = [board EXCEPT ![p] = b]
    BY <1>2 DEF Join
  <2> QED BY <1>1, <2>1, <2>2
<1>3. ASSUME NEW p \in Slots, Leave(p)  PROVE FALSE
  <2>1. board' = [board EXCEPT ![p] = NewBoard]
    BY <1>3 DEF Leave
  <2>2. NewBoard.cur = "none"
    BY DEF NewBoard
  <2> QED BY <1>1, <2>1, <2>2
<1>4. ASSUME board' = board  PROVE FALSE
  BY <1>4
<1>5. ASSUME NEW p \in Slots, Lock(p)
      PROVE  board'[q].list = 0 /\ board'[q].index = cache /\ requested'
  <2>1. /\ p \in playing /\ board[p] \in Board /\ board[p].index <= cache
        /\ BoardEvent(p, OnLock(board[p], cache))
    BY <1>1, <1>5 DEF Lock, SupplyInv, NotAhead, TypeOK
  <2>2. \A o \in OnLock(board[p], cache) : Good(o, cache) /\ Dry(o, cache)
    BY <1>1, <2>1, LockGood
  <2> QED BY <2>1, <2>2, BoardEventReplay
<1>6. ASSUME NEW p \in Slots, Hold(p)
      PROVE  board'[q].list = 0 /\ board'[q].index = cache /\ requested'
  <2>1. /\ p \in playing /\ board[p] \in Board /\ board[p].index <= cache
    BY <1>1, <1>6 DEF Hold, SupplyInv, NotAhead, TypeOK
  <2>2. CASE Crash
    BY <1>4, <2>2 DEF Crash
  <2>3. CASE BoardEvent(p, OnHold(board[p], cache))
    <3>1. \A o \in OnHold(board[p], cache) : Good(o, cache) /\ Dry(o, cache)
      BY <1>1, <2>1, HoldGood
    <3> QED BY <2>1, <2>3, <3>1, BoardEventReplay
  <2> QED BY <1>6, <2>2, <2>3 DEF Hold
<1>7. ASSUME NEW n \in Nat, DealOut(n), started
      PROVE  FALSE
  <2> DEFINE c == cache + n
  <2>1. PICK o :
          /\ o[q] \in OnTerminoAvailable(board[q], c)
          /\ board'[q] = o[q].board
    BY <1>1, <1>7 DEF DealOut
  <2>2. c \in Nat /\ board[q] \in Board /\ board[q].index <= c
    BY <1>1, <1>7 DEF SupplyInv, NotAhead, Board
  <2> HIDE DEF c
  <2>3. o[q].board.cur = "spent" => board[q].cur = "spent"
    BY <1>1, <2>1, <2>2, TerminoAvailableGood
  <2> QED BY <2>1, <2>3
<1>8. ASSUME StartMatch  PROVE FALSE
  <2>1. board'[q] = Restarted(board[q])
    BY <1>1, <1>8 DEF StartMatch
  <2> QED BY <1>1, <2>1, NewBoards
<1>9. CASE ServerReads
  <2>1. CASE board' = board
    BY <1>4, <2>1
  <2>2. CASE StartMatch
    BY <1>8, <2>2
  <2>3. CASE started /\ DealOut(IF Head(toServer) = "pieces" THEN Batch ELSE 0)
    <3>1. (IF Head(toServer) = "pieces" THEN Batch ELSE 0) \in Nat
      BY SupplyAssumption
    <3> QED BY <1>7, <2>3, <3>1
  <2> QED BY <1>9, <2>1, <2>2, <2>3 DEF ServerReads
<1>10. CASE GmStarts \/ GmReads \/ \E p \in Slots : Sink(p)
  BY <1>4, <1>10 DEF GmStarts, GmReads, Sink, Crash
<1> QED BY <1>2, <1>3, <1>5, <1>6, <1>9, <1>10 DEF Next

\* A piece stays in play after it has been put down or away only on a board
\* that has run through its preview and the cache, with a request under way
\* (StandardTetrisBoard::nextPiece).
THEOREM ReplaysAreDry == Spec => ReplaysOnlyWhenDry
<1> DEFINE A == \A p \in playing :
                  board[p].cur # "spent" /\ board'[p].cur = "spent" =>
                    board'[p].list = 0 /\ board'[p].index = cache /\ requested'
<1>1. SupplyInv /\ [Next]_vars => [A]_vars
  BY ReplayStep DEF A
<1> QED BY <1>1, SupplyInductive, PTL DEF Spec, ReplaysOnlyWhenDry
=============================================================================
