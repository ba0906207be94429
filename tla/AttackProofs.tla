---------------------------- MODULE AttackProofs ----------------------------
(***************************************************************************)
(* The accounts of an attacker, for rooms of any size, maps that iterate   *)
(* in any order and counters of any width: no line is delivered that       *)
(* nobody else has cleared, nobody but the target owes or is owed, and     *)
(* the turn is passed on to contenders only.                               *)
(***************************************************************************)
EXTENDS Attack, FiniteSetTheorems, SequenceTheorems, WellFoundedInduction, TLAPS

\* The room, in the order in which the map iterates.
Ordered ==
  /\ order \in Seq(Players)
  /\ \A i, j \in DOMAIN order : order[i] = order[j] => i = j

\* A stopped attacker has no target and no timer.
Rests == (~running => cur = None) /\ (timer => running)

\* Who is not in the room has no account.
Outside ==
  \A p \in Players \ InRoom : received[p] = 0 /\ sent[p] = 0 /\ delivered[p] = 0

\* NothingFromNothing for everybody, in a match or not.
Accounts == \A p \in Players : delivered[p] + Positive(received[p]) <= sent[p]

\* A match goes on with two contenders, or with nobody out.
Contested == on => Cardinality(alive) > 1 \/ alive = InRoom

\* While nobody has left, the attacker rests only in a match of one.
Alone == on /\ ~restarted /\ ~running => alive = InRoom /\ Len(order) <= 1

AttackInv ==
  /\ TypeOK /\ Ordered /\ Rests
  /\ Outside /\ Accounts /\ AccountsHonest
  /\ Contested /\ Alone
-----------------------------------------------------------------------------
(* Conversions. *)

LEMMA UnsignedShrinks ==
  ASSUME NEW n \in Nat
  PROVE  Unsigned(n) \in Nat /\ Unsigned(n) <= n
<1> DEFINE m == 2 * Half
<1>1. m \in Nat \ {0}
  BY AttackAssumption
<1> HIDE DEF m
<1>2. n % m \in 0 .. m - 1
  BY <1>1
<1>3. n % m <= n
  <2>1. CASE n < m
    BY <1>1, <1>2, <2>1
  <2>2. CASE n >= m
    BY <1>1, <1>2, <2>2
  <2> QED BY <1>1, <2>1, <2>2
<1> QED BY <1>2, <1>3 DEF Unsigned, m

LEMMA SignedExact ==
  ASSUME NEW n \in Int
  PROVE  /\ Positive(Signed(n)) \in 0 .. 2 * Half - 1
         /\ Fits(n) => Signed(n) = n
<1> DEFINE m == 2 * Half
           k == n + Half
<1>1. m \in Nat \ {0} /\ Half \in Nat \ {0} /\ k \in Int
  BY AttackAssumption
<1> HIDE DEF m, k
<1>2. k % m \in 0 .. m - 1
  BY <1>1
<1>3. Signed(n) = (k % m) - Half
  BY DEF Signed, m, k
<1>4. Positive(Signed(n)) \in 0 .. 2 * Half - 1
  BY <1>1, <1>2, <1>3 DEF Positive, m
<1>5. ASSUME Fits(n)  PROVE Signed(n) = n
  <2>1. k \in 0 .. m - 1
    BY <1>1, <1>5 DEF Fits, k, m
  <2>2. k % m = k
    BY <1>1, <2>1
  <2> QED BY <1>1, <1>3, <2>2 DEF k
<1> QED BY <1>4, <1>5

LEMMA PositiveType ==
  ASSUME NEW n \in Int
  PROVE  Positive(n) \in Nat /\ Positive(n) >= n /\ (n <= 0 => Positive(n) = 0)
BY DEF Positive
-----------------------------------------------------------------------------
(* The order of the room. *)

LEMMA OrderedRoom ==
  ASSUME Ordered
  PROVE  /\ InRoom \subseteq Players /\ IsFiniteSet(InRoom)
         /\ Cardinality(InRoom) = Len(order) /\ Len(order) \in Nat
         /\ \A i \in 1 .. Len(order) : order[i] \in InRoom
<1>1. /\ DOMAIN order = 1 .. Len(order) /\ Len(order) \in Nat
      /\ order \in [1 .. Len(order) -> Players]
  BY DEF Ordered
<1>2. InRoom = {order[i] : i \in 1 .. Len(order)}
  BY <1>1 DEF InRoom, ToSet
<1>3. order \in Bijection(1 .. Len(order), InRoom)
  BY <1>1, <1>2 DEF Ordered, Bijection, Injection, Surjection, IsInjective
<1>4. IsFiniteSet(1 .. Len(order)) /\ Cardinality(1 .. Len(order)) = Len(order)
  BY <1>1, FS_Interval
<1>5. ExistsBijection(1 .. Len(order), InRoom)
  BY <1>3 DEF ExistsBijection
<1>6. IsFiniteSet(InRoom) /\ Cardinality(InRoom) = Len(order)
  BY <1>4, <1>5, FS_Bijection
<1> QED BY <1>1, <1>2, <1>6

\* A newcomer: the map may iterate in another order, over one more.
LEMMA JoinedRoom ==
  ASSUME Ordered, NEW p \in Players \ InRoom,
         NEW ord \in SetToSeqs(InRoom \cup {p})
  PROVE  /\ ord \in Seq(Players)
         /\ \A i, j \in DOMAIN ord : ord[i] = ord[j] => i = j
         /\ ToSet(ord) = InRoom \cup {p}
<1> DEFINE S == InRoom \cup {p}
           D == 1 .. Cardinality(S)
<1>1. IsFiniteSet(S) /\ S \subseteq Players
  BY OrderedRoom, FS_AddElement
<1>2. Cardinality(S) \in Nat
  BY <1>1, FS_CardinalityType
<1>3. ord \in [D -> S] /\ \A i, j \in D : i # j => ord[i] # ord[j]
  BY DEF SetToSeqs
<1>4. IsFiniteSet(D) /\ Cardinality(D) = Cardinality(S)
  BY <1>2, FS_Interval
<1>5. ord \in Injection(D, S)
  BY <1>3 DEF Injection, IsInjective
<1>6. ord \in Surjection(D, S)
  BY <1>1, <1>4, <1>5, FS_Injection
<1>7. ToSet(ord) = S
  <2>1. DOMAIN ord = D /\ \A i \in D : ord[i] \in S
    BY <1>3
  <2>2. \A q \in S : \E i \in D : ord[i] = q
    BY <1>6 DEF Surjection
  <2> HIDE DEF S, D
  <2> QED BY <2>1, <2>2 DEF ToSet
<1>8. ord \in Seq(Players)
  <2>1. ord \in [1 .. Cardinality(S) -> Players]
    BY <1>1, <1>3
  <2>2. PICK n \in Nat : n = Cardinality(S)
    BY <1>2
  <2>3. ord \in [1 .. n -> Players]
    BY <2>1, <2>2
  <2> HIDE DEF S, D
  <2> QED BY <2>3
<1> QED BY <1>3, <1>7, <1>8

\* One who leaves: the others keep their order.
LEMMA LeftRoom ==
  ASSUME Ordered, NEW p \in InRoom
  PROVE  LET ord == RemoveAt(order, At(p)) IN
         /\ ord \in Seq(Players)
         /\ \A i, j \in DOMAIN ord : ord[i] = ord[j] => i = j
         /\ ToSet(ord) = InRoom \ {p}
<1>1. /\ DOMAIN order = 1 .. Len(order) /\ Len(order) \in Nat
      /\ order \in Seq(Players)
  BY DEF Ordered
<1>2. PICK at \in 1 .. Len(order) : at = At(p) /\ order[at] = p
  BY <1>1 DEF InRoom, ToSet, At
<1>3. PICK head : head = SubSeq(order, 1, at - 1)
  OBVIOUS
<1>4. PICK tail : tail = SubSeq(order, at + 1, Len(order))
  OBVIOUS
<1>5. /\ head \in Seq(Players) /\ Len(head) = at - 1
      /\ \A i \in 1 .. at - 1 : head[i] = order[i]
  BY <1>1, <1>3
<1>6. /\ tail \in Seq(Players) /\ Len(tail) = Len(order) - at
      /\ \A i \in 1 .. Len(order) - at : tail[i] = order[i + at]
  <2> DEFINE l == at + 1
             r == Len(order)
  <2>1. l \in Int /\ r \in Int /\ \A i \in l .. r : order[i] \in Players
    BY <1>1
  <2>2. /\ SubSeq(order, l, r) \in Seq(Players)
        /\ Len(SubSeq(order, l, r)) = IF l <= r THEN r - l + 1 ELSE 0
        /\ \A i \in 1 .. r - l + 1 : SubSeq(order, l, r)[i] = order[l + i - 1]
    <3> HIDE DEF l, r
    <3> QED BY <2>1, SubSeqProperties
  <2>3. tail = SubSeq(order, l, r)
    BY <1>4
  <2>4. /\ (IF l <= r THEN r - l + 1 ELSE 0) = r - at
        /\ r - l + 1 = r - at
        /\ \A i \in 1 .. r - at : l + i - 1 = i + at
    <3>1. PICK n \in Nat : n = Len(order)
      BY <1>1
    <3>2. at \in Nat /\ at <= n
      BY <3>1
    <3>3. /\ (IF at + 1 <= n THEN n - (at + 1) + 1 ELSE 0) = n - at
          /\ n - (at + 1) + 1 = n - at
      BY <3>2
    <3>4. \A i \in 1 .. n - at : (at + 1) + i - 1 = i + at
      BY <3>2
    <3> QED BY <3>1, <3>3, <3>4
  <2> HIDE DEF l, r
  <2>5. Len(tail) = r - at /\ \A i \in 1 .. r - at : tail[i] = order[i + at]
    BY <2>2, <2>3, <2>4
  <2> QED BY <2>2, <2>3, <2>5 DEF r
<1>7. PICK ord : ord = head \o tail
  OBVIOUS
<1>8. ord = RemoveAt(order, At(p))
  BY <1>2, <1>3, <1>4, <1>7 DEF RemoveAt
<1>9. /\ ord \in Seq(Players) /\ Len(ord) = Len(order) - 1
      /\ DOMAIN ord = 1 .. Len(order) - 1
      /\ \A i \in 1 .. Len(order) - 1 :
           ord[i] = IF i < at THEN order[i] ELSE order[i + 1]
  <2>1. /\ ord \in Seq(Players) /\ Len(ord) = Len(head) + Len(tail)
        /\ DOMAIN ord = 1 .. Len(ord)
    <3>1. head \in Seq(Players) /\ tail \in Seq(Players)
      BY <1>5, <1>6
    <3> QED BY <1>7, <3>1
  <2>2. Len(ord) = Len(order) - 1
    BY <1>1, <1>5, <1>6, <2>1
  <2>3. ASSUME NEW i \in 1 .. Len(order) - 1
        PROVE  ord[i] = IF i < at THEN order[i] ELSE order[i + 1]
    <3>1. CASE i < at
      <4>1. i \in 1 .. Len(head)
        BY <1>5, <3>1
      <4>2. ord[i] = head[i]
        BY <1>5, <1>6, <1>7, <4>1
      <4> QED BY <1>5, <3>1, <4>2
    <3>2. CASE ~(i < at)
      <4>1. i - (at - 1) \in 1 .. Len(tail)
        BY <1>1, <1>6, <3>2
      <4>2. ord[i] = tail[i - (at - 1)]
        BY <1>5, <1>6, <1>7, <4>1
      <4>3. (i - (at - 1)) + at = i + 1
        BY <3>2
      <4>4. tail[i - (at - 1)] = order[(i - (at - 1)) + at]
        BY <1>6, <4>1
      <4> QED BY <3>2, <4>2, <4>3, <4>4
    <3> QED BY <3>1, <3>2
  <2> QED BY <2>1, <2>2, <2>3
<1>10. \A i, j \in DOMAIN ord : ord[i] = ord[j] => i = j
  <2> SUFFICES ASSUME NEW i \in 1 .. Len(order) - 1,
                      NEW j \in 1 .. Len(order) - 1, ord[i] = ord[j]
               PROVE  i = j
    BY <1>9
  <2>1. PICK k \in 1 .. Len(order) :
          k = (IF i < at THEN i ELSE i + 1) /\ ord[i] = order[k]
    BY <1>1, <1>9
  <2>2. PICK l \in 1 .. Len(order) :
          l = (IF j < at THEN j ELSE j + 1) /\ ord[j] = order[l]
    BY <1>1, <1>9
  <2>3. k = l
    BY <1>1, <2>1, <2>2 DEF Ordered
  <2> QED BY <2>1, <2>2, <2>3
<1>11. ToSet(ord) = InRoom \ {p}
  <2>1. ASSUME NEW q \in ToSet(ord)  PROVE q \in InRoom \ {p}
    <3>1. PICK i \in 1 .. Len(order) - 1 : ord[i] = q
      BY <1>9, <2>1 DEF ToSet
    <3>2. \E k \in 1 .. Len(order) : k # at /\ order[k] = q
      BY <1>1, <1>2, <1>9, <3>1
    <3> QED BY <1>1, <1>2, <3>2 DEF Ordered, InRoom, ToSet
  <2>2. ASSUME NEW q \in InRoom \ {p}  PROVE q \in ToSet(ord)
    <3>1. PICK k \in 1 .. Len(order) : order[k] = q /\ k # at
      BY <1>1, <1>2, <2>2 DEF InRoom, ToSet
    <3>2. CASE k < at
      BY <1>1, <1>2, <1>9, <3>1, <3>2 DEF ToSet
    <3>3. CASE k > at
      <4>1. k - 1 \in 1 .. Len(order) - 1 /\ ~(k - 1 < at) /\ (k - 1) + 1 = k
        BY <1>1, <1>2, <3>1, <3>3
      <4>2. ord[k - 1] = order[k]
        BY <1>9, <4>1
      <4> QED BY <1>9, <3>1, <4>1, <4>2 DEF ToSet
    <3> QED BY <3>1, <3>2, <3>3
  <2> QED BY <2>1, <2>2
<1> QED BY <1>8, <1>9, <1>10, <1>11
-----------------------------------------------------------------------------
(* Whose turn is next. *)

LEMMA LeastOf ==
  ASSUME NEW T \in SUBSET Nat, NEW n \in T
  PROVE  \E m \in T : \A k \in T : m <= k
<1> DEFINE R == OpToRel(<, Nat)
<1>1. \A x, y \in Nat : <<y, x>> \in R <=> y < x
  BY DEF OpToRel
<1>2. IsWellFoundedOn(R, Nat)
  BY NatLessThanWellFounded
<1> HIDE DEF R
<1>3. PICK x \in T : \A y \in T : ~ (<<y, x>> \in R)
  BY <1>2, WFMin
<1>4. \A y \in T : ~(y < x)
  BY <1>1, <1>3
<1>5. \A y \in T : x <= y
  BY <1>4
<1> QED BY <1>5

\* The search for the next target: round the room from behind cur to cur.
Search == SubSeq(order, At(cur) + 1, Len(order)) \o SubSeq(order, 1, At(cur))
Found == {Search[i] : i \in {j \in DOMAIN Search :
            Search[j] \in alive /\ \A k \in 1 .. j - 1 : Search[k] \notin alive}}

LEMMA AfterIs ==
  After = IF Found \subseteq {cur} THEN None ELSE CHOOSE p \in Found : TRUE
BY DEF After, Found, Search

\* The turn goes to nobody who is out.
LEMMA AfterAlive == After = None \/ After \in alive
<1>1. Found \subseteq alive
  BY DEF Found
<1>2. CASE Found \subseteq {cur}
  BY <1>2, AfterIs
<1>3. CASE ~(Found \subseteq {cur})
  <2>1. After \in Found
    BY <1>3, AfterIs
  <2> QED BY <1>1, <2>1
<1> QED BY <1>2, <1>3

\* The search ends with cur, and passes everybody else before it.
LEMMA SearchIs ==
  ASSUME Ordered, cur \in InRoom
  PROVE  LET n == Len(order) IN
         /\ n \in Nat /\ DOMAIN Search = 1 .. n
         /\ \A i \in 1 .. n - 1 : Search[i] # cur
         /\ \A q \in InRoom \ {cur} : \E i \in 1 .. n - 1 : Search[i] = q
<1>1. PICK n \in Nat : n = Len(order)
  BY DEF Ordered
<1>2. /\ order \in Seq(Players) /\ DOMAIN order = 1 .. n
      /\ \A i, j \in 1 .. n : order[i] = order[j] => i = j
  BY <1>1 DEF Ordered
<1>3. PICK at \in 1 .. n : at = At(cur) /\ order[at] = cur
  BY <1>2 DEF InRoom, ToSet, At
<1>4. at \in Nat /\ 1 <= at /\ at <= n
  OBVIOUS
<1>5. PICK head : head = SubSeq(order, at + 1, n)
  OBVIOUS
<1>6. PICK tail : tail = SubSeq(order, 1, at)
  OBVIOUS
<1>7. /\ head \in Seq(Players) /\ Len(head) = n - at
      /\ \A i \in 1 .. n - at : head[i] = order[i + at]
  <2>1. at + 1 \in Int /\ n \in Int /\ \A i \in at + 1 .. n : order[i] \in Players
    BY <1>1, <1>2, <1>4
  <2>2. /\ SubSeq(order, at + 1, n) \in Seq(Players)
        /\ Len(SubSeq(order, at + 1, n))
             = IF at + 1 <= n THEN n - (at + 1) + 1 ELSE 0
        /\ \A i \in 1 .. n - (at + 1) + 1 :
             SubSeq(order, at + 1, n)[i] = order[(at + 1) + i - 1]
    BY <2>1, SubSeqProperties
  <2>3. /\ (IF at + 1 <= n THEN n - (at + 1) + 1 ELSE 0) = n - at
        /\ n - (at + 1) + 1 = n - at
    BY <1>4
  <2>4. \A i \in 1 .. n - at : (at + 1) + i - 1 = i + at
    BY <1>4
  <2> QED BY <1>5, <2>2, <2>3, <2>4
<1>8. /\ tail \in Seq(Players) /\ Len(tail) = at
      /\ \A i \in 1 .. at : tail[i] = order[i]
  BY <1>1, <1>2, <1>4, <1>6
<1>9. Search = head \o tail
  BY <1>1, <1>3, <1>5, <1>6 DEF Search
<1>10. DOMAIN Search = 1 .. n
  <2>1. DOMAIN Search = 1 .. Len(head) + Len(tail)
    <3>1. head \in Seq(Players) /\ tail \in Seq(Players)
      BY <1>7, <1>8
    <3> QED BY <1>9, <3>1
  <2>2. Len(head) + Len(tail) = n
    BY <1>4, <1>7, <1>8
  <2> QED BY <2>1, <2>2
<1>11. \A i \in 1 .. n : Search[i] = IF i <= n - at THEN order[i + at]
                                                  ELSE order[i - (n - at)]
  <2> SUFFICES ASSUME NEW i \in 1 .. n
               PROVE  Search[i] = IF i <= n - at THEN order[i + at]
                                                 ELSE order[i - (n - at)]
    OBVIOUS
  <2>0. head \in Seq(Players) /\ tail \in Seq(Players)
        /\ Len(head) = n - at /\ Len(tail) = at
    BY <1>7, <1>8
  <2>1. CASE i <= n - at
    <3>1. Search[i] = head[i]
      BY <1>4, <1>9, <2>0, <2>1
    <3>2. i \in 1 .. n - at
      BY <1>4, <2>1
    <3> QED BY <1>7, <2>1, <3>1, <3>2
  <2>2. CASE ~(i <= n - at)
    <3>1. Search[i] = tail[i - (n - at)]
      BY <1>4, <1>9, <2>0, <2>2
    <3>2. i - (n - at) \in 1 .. at
      BY <1>4, <2>2
    <3> QED BY <1>8, <2>2, <3>1, <3>2
  <2> QED BY <2>1, <2>2
<1>12. ASSUME NEW i \in 1 .. n - 1  PROVE Search[i] # cur
  <2>1. PICK k \in 1 .. n : k # at /\ Search[i] = order[k]
    BY <1>4, <1>11
  <2> QED BY <1>2, <1>3, <2>1
<1>13. ASSUME NEW q \in InRoom \ {cur}
       PROVE  \E i \in 1 .. n - 1 : Search[i] = q
  <2>1. PICK k \in 1 .. n : order[k] = q /\ k # at
    BY <1>2, <1>3 DEF InRoom, ToSet
  <2>2. CASE k > at
    <3>1. /\ k - at \in 1 .. n - 1 /\ k - at \in 1 .. n /\ k - at <= n - at
          /\ (k - at) + at = k
      BY <1>4, <2>1, <2>2
    <3> QED BY <1>11, <2>1, <3>1
  <2>3. CASE k < at
    <3>1. /\ k + (n - at) \in 1 .. n - 1 /\ k + (n - at) \in 1 .. n
          /\ ~(k + (n - at) <= n - at) /\ (k + (n - at)) - (n - at) = k
      BY <1>4, <2>1, <2>3
    <3> QED BY <1>11, <2>1, <3>1
  <2> QED BY <1>4, <2>1, <2>2, <2>3
<1> QED BY <1>1, <1>10, <1>12, <1>13

\* As long as another contender is left, somebody is found.
LEMMA AfterThere ==
  ASSUME Ordered, cur \in InRoom, alive \subseteq InRoom,
         NEW q \in alive, q # cur
  PROVE  After # None
<1>1. PICK n \in Nat : n = Len(order)
  BY DEF Ordered
<1>2. /\ DOMAIN Search = 1 .. n
      /\ \A i \in 1 .. n - 1 : Search[i] # cur
      /\ \E i \in 1 .. n - 1 : Search[i] = q
  BY <1>1, SearchIs
<1> DEFINE T == {i \in 1 .. n : Search[i] \in alive}
<1>3. PICK i \in 1 .. n - 1 : Search[i] = q
  BY <1>2
<1>4. i \in T /\ T \in SUBSET Nat
  BY <1>3
<1>5. PICK m \in T : \A k \in T : m <= k
  BY <1>4, LeastOf
<1>6. m \in 1 .. n - 1 /\ m \in 1 .. n /\ Search[m] \in alive
  BY <1>4, <1>5
<1>7. \A k \in 1 .. m - 1 : Search[k] \notin alive
  BY <1>5, <1>6
<1>8. Search[m] \in Found /\ Search[m] # cur
  BY <1>2, <1>6, <1>7 DEF Found
<1>9. After \in Found
  BY <1>8, AfterIs
<1>10. Found \subseteq alive /\ None \notin alive
  BY OrderedRoom, AttackAssumption DEF Found
<1> QED BY <1>9, <1>10
-----------------------------------------------------------------------------
(* One step per action. *)

Shown == [Players -> 0 .. 2 * Half - 1]

LEMMA Started ==
  ASSUME NEW ord \in Seq(Players), NEW rec \in [Players -> Int],
         NEW shw \in Shown, StartStopped(ord, rec, shw)
  PROVE  /\ running' \in BOOLEAN /\ timer' = running'
         /\ cur' \in ToSet(ord) \cup {None}
         /\ ~running' => cur' = None /\ Len(ord) <= 1
         /\ received' \in [Players -> Int] /\ shown' \in Shown
         /\ \A p \in Players : received'[p] = IF p = cur' THEN 0 ELSE rec[p]
         /\ \A p \in Players : shown'[p] = IF p = cur' THEN 0 ELSE shw[p]
<1>1. Len(ord) \in Nat /\ 0 \in 0 .. 2 * Half - 1 /\ None \notin Players
  BY AttackAssumption
<1>2. CASE mode = "SEQUENTIAL" /\ Len(ord) > 1
  <2>1. /\ running' = TRUE /\ timer' = TRUE /\ cur' = ord[2]
        /\ received' = [rec EXCEPT ![cur'] = 0]
        /\ shown' = [shw EXCEPT ![cur'] = 0]
    BY <1>2 DEF StartStopped
  <2>2. 2 \in DOMAIN ord /\ ord[2] \in ToSet(ord)
    BY <1>1, <1>2 DEF ToSet
  <2>3. PICK q : q = cur'
    OBVIOUS
  <2>4. /\ received' = [rec EXCEPT ![q] = 0] /\ shown' = [shw EXCEPT ![q] = 0]
        /\ q \in ToSet(ord)
    BY <2>1, <2>2, <2>3
  <2> QED BY <1>1, <2>1, <2>2, <2>3, <2>4 DEF Shown
<1>3. CASE ~(mode = "SEQUENTIAL" /\ Len(ord) > 1)
  <2>1. /\ running' = (mode # "SEQUENTIAL") /\ timer' = running' /\ cur' = None
        /\ received' = rec /\ shown' = shw
    BY <1>3 DEF StartStopped
  <2>2. \A p \in Players : p # cur'
    BY <1>1, <2>1
  <2>3. ASSUME ~running'  PROVE Len(ord) <= 1
    <3>1. mode = "SEQUENTIAL"
      BY <2>1, <2>3
    <3>2. ~(Len(ord) > 1)
      BY <1>3, <3>1
    <3> QED BY <1>1, <3>2
  <2>4. running' \in BOOLEAN
    BY <2>1
  <2> QED BY <2>1, <2>2, <2>3, <2>4
<1> QED BY <1>2, <1>3

\* What every step starts from.
LEMMA GivenAttack ==
  ASSUME AttackInv
  PROVE  /\ InRoom \subseteq Players /\ alive \subseteq InRoom
         /\ IsFiniteSet(InRoom) /\ IsFiniteSet(alive) /\ Cardinality(alive) \in Nat
         /\ received \in [Players -> Int] /\ shown \in Shown
         /\ sent \in [Players -> Nat] /\ delivered \in [Players -> Nat]
         /\ cur \in InRoom \cup {None} /\ None \notin Players
         /\ {on, running, timer, restarted, crashed} \subseteq BOOLEAN
         /\ mode \in Modes /\ cleared \in 0 .. MaxCleared
<1>1. TypeOK /\ Ordered
  BY DEF AttackInv
<1>2. IsFiniteSet(InRoom)
  BY <1>1, OrderedRoom
<1>3. IsFiniteSet(alive) /\ Cardinality(alive) \in Nat
  BY <1>1, <1>2, FS_Subset, FS_CardinalityType DEF TypeOK
<1> QED BY <1>1, <1>2, <1>3, AttackAssumption DEF TypeOK, Shown

LEMMA SameRoom ==
  ASSUME Ordered, order' = order
  PROVE  InRoom' = InRoom /\ Ordered'
BY DEF Ordered, InRoom, ToSet

\* Nothing but the history of the match has changed, or crashed.
LEMMA StutterKeeps ==
  ASSUME AttackInv, crashed' \in BOOLEAN,
         UNCHANGED <<roomVars, attackerVars, ledger, history>>
  PROVE  AttackInv'
<1>1. InRoom' = InRoom /\ Ordered'
  BY SameRoom DEF AttackInv, roomVars
<1> USE DEF roomVars, attackerVars, ledger, history
<1>2. TypeOK'
  BY <1>1 DEF AttackInv, TypeOK
<1>3. Rests' /\ Outside' /\ Accounts'
  BY <1>1 DEF AttackInv, Rests, Outside, Accounts, Positive
<1>4. AccountsHonest'
  BY <1>1 DEF AttackInv, AccountsHonest, Positive, Fits
<1>5. Contested' /\ Alone'
  BY <1>1 DEF AttackInv, Contested, Alone
<1> QED BY <1>1, <1>2, <1>3, <1>4, <1>5 DEF AttackInv

LEMMA GameStartKeeps ==
  ASSUME AttackInv, GameStart
  PROVE  AttackInv'
<1> DEFINE zero == [p \in Players |-> 0]
<1>1. /\ on' = TRUE /\ alive' = InRoom /\ sent' = zero /\ delivered' = zero
      /\ restarted' = FALSE /\ cleared' = 0 /\ order # <<>>
      /\ UNCHANGED <<mode, order, crashed>>
  BY DEF GameStart
<1>2. InRoom' = InRoom /\ Ordered'
  BY <1>1, SameRoom DEF AttackInv
<1>3. zero \in [Players -> Int] /\ zero \in Shown /\ zero \in [Players -> Nat]
      /\ \A p \in Players : zero[p] = 0
  BY AttackAssumption DEF Shown
<1>4. /\ {running', timer'} \subseteq BOOLEAN /\ Rests'
      /\ cur' \in InRoom \cup {None}
      /\ ~running' => Len(order) <= 1
      /\ received' \in [Players -> Int] /\ shown' \in Shown
      /\ \A p \in Players : received'[p] = 0 /\ shown'[p] = 0
  <2>1. CASE UNCHANGED attackerVars /\ received' = zero /\ shown' = zero
             /\ (running \/ Len(order) = 1)
    <3>1. /\ running' = running /\ cur' = cur /\ timer' = timer
          /\ received' = zero /\ shown' = zero
      BY <2>1 DEF attackerVars
    <3>2. Rests'
      BY <3>1 DEF AttackInv, Rests
    <3>3. Len(order) = 1 => Len(order) <= 1
      OBVIOUS
    <3> HIDE DEF zero
    <3> QED BY <1>3, <2>1, <3>1, <3>2, <3>3, GivenAttack
  <2>2. CASE StartStopped(order, zero, zero)
    <3> HIDE DEF zero
    <3>1. /\ running' \in BOOLEAN /\ timer' = running'
          /\ cur' \in ToSet(order) \cup {None}
          /\ ~running' => cur' = None /\ Len(order) <= 1
          /\ received' \in [Players -> Int] /\ shown' \in Shown
          /\ \A p \in Players : received'[p] = IF p = cur' THEN 0 ELSE zero[p]
          /\ \A p \in Players : shown'[p] = IF p = cur' THEN 0 ELSE zero[p]
      BY <1>3, <2>2, Started DEF AttackInv, Ordered
    <3> QED BY <1>3, <3>1 DEF Rests, InRoom
  <2> QED BY <2>1, <2>2 DEF GameStart, Start
<1> HIDE DEF zero
<1>5. TypeOK'
  <2>1. 0 \in 0 .. MaxCleared
    BY AttackAssumption
  <2>2. {on', running', timer', restarted', crashed'} \subseteq BOOLEAN
    BY <1>1, <1>4, GivenAttack
  <2>3. alive' \subseteq InRoom' /\ InRoom' \subseteq Players
    BY <1>1, <1>2, GivenAttack
  <2>4. {sent', delivered'} \subseteq [Players -> Nat]
    BY <1>1, <1>3
  <2> QED BY <1>1, <1>2, <1>4, <2>1, <2>2, <2>3, <2>4, GivenAttack
          DEF TypeOK, Shown
<1>6. Outside' /\ Accounts' /\ AccountsHonest'
  <2>1. \A p \in Players : /\ received'[p] = 0 /\ shown'[p] = 0
                           /\ sent'[p] = 0 /\ delivered'[p] = 0
    BY <1>1, <1>3, <1>4
  <2>2. Positive(0) = 0
    BY DEF Positive
  <2>3. \A p \in Players : Positive(received'[p]) = 0
    BY <2>1, <2>2
  <2>4. Outside' /\ Accounts'
    BY <2>1, <2>3 DEF Outside, Accounts, Positive
  <2>5. AccountsHonest'
    BY <1>2, <2>1, <2>3, GivenAttack DEF AccountsHonest, Positive
  <2> QED BY <2>4, <2>5
<1>7. Contested' /\ Alone'
  BY <1>1, <1>2, <1>4 DEF Contested, Alone
<1> QED BY <1>2, <1>4, <1>5, <1>6, <1>7 DEF AttackInv

\* Accounts that are kept or cleared stay covered.
LEMMA ClearedCovered ==
  ASSUME AttackInv, UNCHANGED <<sent, delivered>>,
         \A q \in Players : received'[q] \in {received[q], 0}
  PROVE  Accounts'
<1> SUFFICES ASSUME NEW q \in Players
             PROVE  delivered'[q] + Positive(received'[q]) <= sent'[q]
  BY DEF Accounts, Positive
<1>1. delivered[q] + Positive(received[q]) <= sent[q]
  BY DEF AttackInv, Accounts
<1>2. /\ received[q] \in Int /\ delivered[q] \in Nat /\ sent[q] \in Nat
      /\ Positive(received[q]) \in Nat /\ Positive(0) = 0
  BY GivenAttack, PositiveType DEF Positive
<1>3. CASE received'[q] = received[q]
  BY <1>1, <1>3
<1>4. CASE received'[q] = 0
  BY <1>1, <1>2, <1>4
<1> QED BY <1>3, <1>4

LEMMA JoinKeeps ==
  ASSUME AttackInv, NEW p \in Players, Join(p)
  PROVE  AttackInv'
<1>1. /\ p \in Players \ InRoom /\ order' \in SetToSeqs(InRoom \cup {p})
      /\ UNCHANGED <<mode, on, sent, delivered, restarted, cleared, crashed>>
  BY DEF Join, history
<1>2. PICK ord \in SetToSeqs(InRoom \cup {p}) : ord = order'
  BY <1>1
<1>3. /\ ord \in Seq(Players)
      /\ \A i, j \in DOMAIN ord : ord[i] = ord[j] => i = j
      /\ ToSet(ord) = InRoom \cup {p}
  BY <1>1, JoinedRoom DEF AttackInv
<1>4. InRoom' = InRoom \cup {p} /\ Ordered'
  <2>1. InRoom' = ToSet(order')
    BY DEF InRoom, ToSet
  <2>2. ToSet(order') = ToSet(ord)
    BY <1>2
  <2>3. Ordered'
    BY <1>2, <1>3 DEF Ordered
  <2> QED BY <1>3, <2>1, <2>2, <2>3
<1>5. CASE on
  <2>1. alive' = alive \cup {p} /\ Start(ord, received, shown)
    BY <1>2, <1>5 DEF Join
  <2>2. /\ {running', timer'} \subseteq BOOLEAN /\ Rests'
        /\ cur' \in InRoom' \cup {None}
        /\ received' \in [Players -> Int] /\ shown' \in Shown
        /\ \A q \in Players : received'[q] = received[q] \/ received'[q] = 0
        /\ ~running' => ~running /\ Len(ord) <= 1
    <3>1. CASE running
      <4>1. /\ running' = running /\ cur' = cur /\ timer' = timer
            /\ received' = received /\ shown' = shown
        BY <2>1, <3>1 DEF Start, attackerVars
      <4>2. Rests'
        BY <4>1 DEF AttackInv, Rests
      <4> QED BY <1>4, <3>1, <4>1, <4>2, GivenAttack
    <3>2. CASE ~running
      <4>1. StartStopped(ord, received, shown)
        BY <2>1, <3>2 DEF Start
      <4>2. /\ running' \in BOOLEAN /\ timer' = running'
            /\ cur' \in ToSet(ord) \cup {None}
            /\ ~running' => cur' = None /\ Len(ord) <= 1
            /\ received' \in [Players -> Int] /\ shown' \in Shown
            /\ \A q \in Players :
                 received'[q] = IF q = cur' THEN 0 ELSE received[q]
        BY <1>3, <4>1, Started, GivenAttack
      <4>3. Rests'
        BY <4>2 DEF Rests
      <4> QED BY <1>3, <1>4, <3>2, <4>2, <4>3
    <3> QED BY <3>1, <3>2
  <2>3. TypeOK'
    <3>1. alive' \subseteq InRoom' /\ InRoom' \subseteq Players
      BY <1>1, <1>4, <2>1, GivenAttack
    <3> QED BY <1>1, <2>2, <3>1, GivenAttack DEF TypeOK, Shown
  <2>4. Outside'
    BY <1>1, <1>4, <2>2 DEF AttackInv, Outside
  <2>5. Accounts'
    BY <1>1, <2>2, ClearedCovered
  <2>6. AccountsHonest'
    <3> SUFFICES ASSUME on, ~restarted, NEW q \in InRoom'
                 PROVE  IF q = cur'
                        THEN running' /\ Fits(received'[q])
                               => shown'[q] = Positive(received'[q])
                        ELSE received'[q] = 0
      BY <1>1 DEF AccountsHonest, Fits, Positive
    <3>1. q \in Players
      BY <1>1, <1>4, GivenAttack
    <3>2. CASE running
      <4>1. /\ running' = running /\ cur' = cur
            /\ received' = received /\ shown' = shown
        BY <2>1, <3>2 DEF Start, attackerVars
      <4>2. CASE q = p
        <5>1. q # cur' /\ received[q] = 0
          BY <1>1, <4>1, <4>2, GivenAttack DEF AttackInv, Outside
        <5> QED BY <4>1, <5>1
      <4>3. CASE q # p
        <5>1. q \in InRoom
          BY <1>4, <4>3
        <5> QED BY <3>2, <4>1, <5>1 DEF AttackInv, AccountsHonest
      <4> QED BY <4>2, <4>3
    <3>3. CASE ~running
      <4>1. StartStopped(ord, received, shown)
        BY <2>1, <3>3 DEF Start
      <4>2. /\ received'[q] = IF q = cur' THEN 0 ELSE received[q]
            /\ shown'[q] = IF q = cur' THEN 0 ELSE shown[q]
        <5>1. received \in [Players -> Int] /\ shown \in Shown
          BY GivenAttack
        <5>2. /\ \A x \in Players :
                   received'[x] = IF x = cur' THEN 0 ELSE received[x]
              /\ \A x \in Players : shown'[x] = IF x = cur' THEN 0 ELSE shown[x]
          BY <1>3, <4>1, <5>1, Started
        <5> QED BY <3>1, <5>2
      <4>3. received[q] = 0
        <5>1. CASE q = p
          BY <1>1, <5>1 DEF AttackInv, Outside
        <5>2. CASE q # p
          <6>1. q \in InRoom /\ q # cur
            BY <1>4, <3>1, <3>3, <5>2, GivenAttack DEF AttackInv, Rests
          <6> QED BY <6>1 DEF AttackInv, AccountsHonest
        <5> QED BY <5>1, <5>2
      <4>4. Positive(0) = 0
        BY DEF Positive
      <4> QED BY <4>2, <4>3, <4>4
    <3> QED BY <3>2, <3>3
  <2>7. Contested'
    <3>1. CASE Cardinality(alive) > 1
      <4>1. p \notin alive
        BY <1>1, GivenAttack
      <4>2. Cardinality(alive \cup {p}) = Cardinality(alive) + 1
        BY <4>1, FS_AddElement, GivenAttack
      <4>3. Cardinality(alive \cup {p}) > 1
        BY <3>1, <4>2, GivenAttack
      <4> QED BY <2>1, <4>3 DEF Contested
    <3>2. CASE alive = InRoom
      BY <1>4, <2>1, <3>2 DEF Contested
    <3> QED BY <1>5, <3>1, <3>2 DEF AttackInv, Contested
  <2>8. Alone'
    <3> SUFFICES ASSUME ~restarted, ~running'
                 PROVE  alive' = InRoom' /\ Len(order') <= 1
      BY <1>1 DEF Alone
    <3>1. alive = InRoom
      BY <1>5, <2>2 DEF AttackInv, Alone
    <3> QED BY <1>2, <1>4, <2>1, <2>2, <3>1
  <2> QED BY <1>4, <2>2, <2>3, <2>4, <2>5, <2>6, <2>7, <2>8 DEF AttackInv
<1>6. CASE ~on
  <2>1. UNCHANGED <<alive, running, cur, timer, received, shown>>
    BY <1>6 DEF Join, attackerVars
  <2>2. TypeOK'
    <3>1. alive' \subseteq InRoom' /\ InRoom' \subseteq Players
          /\ cur' \in InRoom' \cup {None}
      BY <1>1, <1>4, <2>1, GivenAttack
    <3> QED BY <1>1, <2>1, <3>1, GivenAttack DEF TypeOK, Shown
  <2>3. Outside' /\ Rests'
    BY <1>1, <1>4, <2>1 DEF AttackInv, Outside, Rests
  <2>4. Accounts'
    BY <1>1, <2>1, ClearedCovered
  <2> QED BY <1>1, <1>4, <1>6, <2>2, <2>3, <2>4
          DEF AttackInv, AccountsHonest, Contested, Alone
<1> QED BY <1>5, <1>6
\* What attack() leaves of the accounts.
LEMMA AttackedKeeps ==
  ASSUME AttackInv, AttackIsSafe, NEW p \in Players, NEW n \in Nat,
         Attacked(p, n)
  PROVE  /\ received' \in [Players -> Int] /\ shown' \in Shown
         /\ sent' \in [Players -> Nat] /\ delivered' = delivered
         /\ \A q \in Players \ {cur} : received'[q] = received[q] /\ sent'[q] = sent[q]
         /\ Accounts'
         /\ on /\ ~restarted /\ running /\ Fits(received'[cur])
              => shown'[cur] = Positive(received'[cur])
<1>1. /\ received \in [Players -> Int] /\ shown \in Shown
      /\ sent \in [Players -> Nat] /\ delivered \in [Players -> Nat]
      /\ delivered' = delivered
      /\ \A q \in Players : delivered[q] + Positive(received[q]) <= sent[q]
  BY GivenAttack DEF AttackInv, Accounts, Attacked
<1>2. CASE ~running
  <2>1. received' = received /\ shown' = shown /\ sent' = sent
    BY <1>2 DEF Attacked, Owed
  <2>2. Accounts'
    BY <1>1, <2>1 DEF Accounts, Positive
  <2> QED BY <1>1, <1>2, <2>1, <2>2
<1>3. CASE running
  <2>1. cur \in InRoom /\ cur \in Players
    BY <1>3, GivenAttack DEF AttackIsSafe
  <2>2. PICK r \in Int : r = received[cur]
    BY <1>1, <2>1
  <2>3. PICK x \in Int : x = IF p = cur THEN r - n ELSE r + n
    <3>1. r - n \in Int /\ r + n \in Int
      OBVIOUS
    <3>2. (IF p = cur THEN r - n ELSE r + n) \in Int
      BY <3>1
    <3> QED BY <3>2
  <2>4. received' = [received EXCEPT ![cur] = x]
    BY <1>1, <1>3, <2>1, <2>2, <2>3 DEF Attacked, Owed
  <2>5. /\ received' \in [Players -> Int] /\ received'[cur] = x
        /\ \A q \in Players \ {cur} : received'[q] = received[q]
    BY <1>1, <2>1, <2>4
  <2>6. shown' = IF n > 0 THEN [shown EXCEPT ![cur] = Positive(Signed(x))] ELSE shown
    BY <1>3, <2>5 DEF Attacked, ShownOwed
  <2>7. shown' \in Shown
    BY <1>1, <2>1, <2>6, SignedExact DEF Shown
  <2>8. PICK s \in Nat : s = sent[cur]
    BY <1>1, <2>1
  <2>9. PICK y \in Nat : y = IF p = cur THEN s ELSE s + n
    OBVIOUS
  <2>10. /\ sent' \in [Players -> Nat] /\ sent'[cur] = y
         /\ \A q \in Players \ {cur} : sent'[q] = sent[q]
    <3>1. CASE p = cur
      <4>1. sent' = sent
        BY <3>1 DEF Attacked
      <4> QED BY <1>1, <2>8, <2>9, <3>1, <4>1
    <3>2. CASE p # cur
      <4>1. sent' = [sent EXCEPT ![cur] = y]
        BY <1>1, <1>3, <2>1, <2>8, <2>9, <3>2 DEF Attacked
      <4> QED BY <1>1, <2>1, <4>1
    <3> QED BY <3>1, <3>2
  <2>11. Accounts'
    <3> SUFFICES ASSUME NEW q \in Players
                 PROVE  delivered'[q] + Positive(received'[q]) <= sent'[q]
      BY DEF Accounts, Positive
    <3>1. CASE q = cur
      <4>1. PICK d \in Nat : d = delivered[cur]
        BY <1>1, <2>1
      <4>2. d + Positive(r) <= s
        BY <1>1, <2>1, <2>2, <2>8, <4>1
      <4>3. d + Positive(x) <= y
        BY <2>3, <2>9, <4>2 DEF Positive
      <4> QED BY <1>1, <2>5, <2>10, <3>1, <4>1, <4>3
    <3>2. CASE q # cur
      BY <1>1, <2>5, <2>10, <3>2
    <3> QED BY <3>1, <3>2
  <2>12. ASSUME on, ~restarted, Fits(received'[cur])
         PROVE  shown'[cur] = Positive(received'[cur])
    <3>1. CASE n > 0
      <4>1. shown'[cur] = Positive(Signed(x))
        BY <1>1, <2>1, <2>6, <3>1 DEF Shown
      <4>2. Signed(x) = x
        BY <2>5, <2>12, SignedExact
      <4> QED BY <2>5, <4>1, <4>2
    <3>2. CASE ~(n > 0)
      <4>1. x = r /\ shown' = shown
        BY <2>3, <2>6, <3>2
      <4>2. Fits(received[cur]) => shown[cur] = Positive(received[cur])
        BY <1>3, <2>1, <2>12 DEF AttackInv, AccountsHonest
      <4> QED BY <2>2, <2>5, <2>12, <4>1, <4>2
    <3> QED BY <3>1, <3>2
  <2> QED BY <1>1, <2>5, <2>7, <2>10, <2>11, <2>12
<1> QED BY <1>2, <1>3

LEMMA LockKeeps ==
  ASSUME AttackInv, NEW p \in Players, NEW n \in LineCounts, Lock(p, n)
  PROVE  AttackInv'
<1>1. /\ on /\ p \in alive /\ AttackIsSafe /\ n \in Nat /\ Attacked(p, n)
      /\ cleared + n <= MaxCleared /\ cleared' = cleared + n
      /\ UNCHANGED <<mode, order, restarted, crashed>>
  BY AttackAssumption DEF Lock
<1>2. InRoom' = InRoom /\ Ordered'
  BY <1>1, SameRoom DEF AttackInv
<1>3. /\ received' \in [Players -> Int] /\ shown' \in Shown
      /\ sent' \in [Players -> Nat] /\ delivered' = delivered
      /\ \A q \in Players \ {cur} : received'[q] = received[q] /\ sent'[q] = sent[q]
      /\ Accounts'
      /\ on /\ ~restarted /\ running /\ Fits(received'[cur])
           => shown'[cur] = Positive(received'[cur])
  BY <1>1, AttackedKeeps
<1>4. cleared' \in 0 .. MaxCleared
  BY <1>1, GivenAttack, AttackAssumption
<1>5. Outside'
  <2> SUFFICES ASSUME NEW q \in Players \ InRoom
               PROVE  received'[q] = 0 /\ sent'[q] = 0 /\ delivered'[q] = 0
    BY <1>2 DEF Outside
  <2>1. q # cur
    BY GivenAttack
  <2> QED BY <1>3, <2>1 DEF AttackInv, Outside
<1>6. CASE /\ alive' = alive \ {p} /\ Cardinality(alive') <= 1
           /\ Stop /\ on' = FALSE
  <2>1. /\ on' = FALSE /\ running' = FALSE /\ timer' = FALSE /\ cur' = None
        /\ alive' \subseteq InRoom
    BY <1>6, GivenAttack DEF Stop
  <2>2. TypeOK'
    BY <1>1, <1>2, <1>3, <1>4, <2>1, GivenAttack DEF TypeOK, Shown
  <2> QED BY <1>2, <1>3, <1>5, <2>1, <2>2
          DEF AttackInv, Rests, AccountsHonest, Contested, Alone
<1>7. CASE /\ UNCHANGED <<attackerVars, on>>
           /\ \/ alive' = alive
              \/ alive' = alive \ {p} /\ ~(Cardinality(alive') <= 1)
  <2>1. /\ on' = on /\ running' = running /\ timer' = timer /\ cur' = cur
        /\ alive' \subseteq InRoom
    BY <1>7, GivenAttack DEF attackerVars
  <2>2. TypeOK'
    BY <1>1, <1>2, <1>3, <1>4, <2>1, GivenAttack DEF TypeOK, Shown
  <2>3. Rests'
    BY <2>1 DEF AttackInv, Rests
  <2>4. AccountsHonest'
    <3> SUFFICES ASSUME on, ~restarted, NEW q \in InRoom
                 PROVE  IF q = cur
                        THEN running /\ Fits(received'[q])
                               => shown'[q] = Positive(received'[q])
                        ELSE received'[q] = 0
      BY <1>1, <1>2, <2>1 DEF AccountsHonest, Fits, Positive
    <3>1. CASE q = cur
      BY <1>3, <3>1
    <3>2. CASE q # cur
      <4>1. q \in Players \ {cur}
        BY <3>2, GivenAttack
      <4> QED BY <1>3, <3>2, <4>1 DEF AttackInv, AccountsHonest
    <3> QED BY <3>1, <3>2
  <2>5. ASSUME alive' = alive \ {p}, ~(Cardinality(alive') <= 1)
        PROVE  Contested' /\ Alone'
    <3>1. Cardinality(alive') \in Nat /\ Cardinality(alive') = Cardinality(alive) - 1
      BY <1>1, <2>5, FS_RemoveElement, FS_CardinalityType, GivenAttack
    <3>2. Cardinality(alive') > 1
      BY <2>5, <3>1
    <3>3. ASSUME ~restarted, ~running  PROVE FALSE
      <4>1. alive = InRoom /\ Len(order) <= 1
        BY <1>1, <3>3 DEF AttackInv, Alone
      <4>2. Cardinality(alive) = Len(order) /\ Len(order) \in Nat
        BY <4>1, OrderedRoom DEF AttackInv
      <4> QED BY <3>1, <3>2, <4>1, <4>2
    <3> QED BY <1>1, <2>1, <3>2, <3>3 DEF Contested, Alone
  <2>6. ASSUME alive' = alive  PROVE Contested' /\ Alone'
    <3>1. Contested'
      BY <1>2, <2>1, <2>6 DEF AttackInv, Contested
    <3>2. Alone'
      BY <1>1, <1>2, <2>1, <2>6 DEF AttackInv, Alone
    <3> QED BY <3>1, <3>2
  <2> QED BY <1>2, <1>3, <1>5, <1>7, <2>2, <2>3, <2>4, <2>5, <2>6 DEF AttackInv
<1> QED BY <1>6, <1>7 DEF Lock
\* A player leaves: its account with it, and the attacker starts again when
\* the match goes on.
LEMMA LeaveKeeps ==
  ASSUME AttackInv, NEW p \in Players, Leave(p)
  PROVE  AttackInv'
<1>1. /\ p \in InRoom /\ order' = RemoveAt(order, At(p)) /\ alive' = alive \ {p}
      /\ on' = (on /\ (p \notin alive \/ Cardinality(alive') > 1))
      /\ sent' = Erased(sent, p) /\ delivered' = Erased(delivered, p)
      /\ UNCHANGED <<mode, cleared, crashed>>
  BY DEF Leave
<1>2. PICK ord : ord = RemoveAt(order, At(p))
  OBVIOUS
<1>3. /\ ord \in Seq(Players)
      /\ \A i, j \in DOMAIN ord : ord[i] = ord[j] => i = j
      /\ ToSet(ord) = InRoom \ {p}
  BY <1>1, <1>2, LeftRoom DEF AttackInv
<1>4. order' = ord /\ InRoom' = InRoom \ {p} /\ Ordered'
  <2>1. order' = ord
    BY <1>1, <1>2
  <2>2. InRoom' = ToSet(order')
    BY DEF InRoom, ToSet
  <2>3. ToSet(order') = ToSet(ord)
    BY <2>1
  <2>4. Ordered'
    BY <1>3, <2>1 DEF Ordered
  <2> QED BY <1>3, <2>1, <2>2, <2>3, <2>4
<1>5. PICK rec : rec = Erased(received, p)
  OBVIOUS
<1>6. PICK shw : shw = Erased(shown, p)
  OBVIOUS
<1>7. /\ rec \in [Players -> Int] /\ shw \in Shown
      /\ sent' \in [Players -> Nat] /\ delivered' \in [Players -> Nat]
      /\ rec[p] = 0 /\ shw[p] = 0 /\ sent'[p] = 0 /\ delivered'[p] = 0
      /\ \A q \in Players \ {p} : /\ rec[q] = received[q] /\ shw[q] = shown[q]
                                  /\ sent'[q] = sent[q] /\ delivered'[q] = delivered[q]
  <2>1. rec \in [Players -> Int] /\ rec[p] = 0
        /\ \A q \in Players \ {p} : rec[q] = received[q]
    BY <1>5, GivenAttack DEF Erased
  <2>2. shw \in Shown /\ shw[p] = 0
        /\ \A q \in Players \ {p} : shw[q] = shown[q]
    <3>1. 0 \in 0 .. 2 * Half - 1
      BY AttackAssumption
    <3> QED BY <1>6, <3>1, GivenAttack DEF Erased, Shown
  <2>3. sent' \in [Players -> Nat] /\ sent'[p] = 0
        /\ \A q \in Players \ {p} : sent'[q] = sent[q]
    BY <1>1, GivenAttack DEF Erased
  <2>4. delivered' \in [Players -> Nat] /\ delivered'[p] = 0
        /\ \A q \in Players \ {p} : delivered'[q] = delivered[q]
    BY <1>1, GivenAttack DEF Erased
  <2> QED BY <2>1, <2>2, <2>3, <2>4
<1>8. /\ {running', timer', restarted'} \subseteq BOOLEAN /\ Rests'
      /\ cur' \in InRoom' \cup {None}
      /\ received' \in [Players -> Int] /\ shown' \in Shown
      /\ \A q \in Players : received'[q] \in {rec[q], 0}
      /\ restarted' \/ ~(on /\ Cardinality(alive') > 1)
  <2>1. CASE on /\ Cardinality(alive') > 1
    <3>1. StartStopped(ord, rec, shw) /\ restarted' = TRUE
      BY <1>4, <1>5, <1>6, <2>1 DEF Leave, StartAgain
    <3>2. /\ running' \in BOOLEAN /\ timer' = running'
          /\ cur' \in ToSet(ord) \cup {None}
          /\ ~running' => cur' = None
          /\ received' \in [Players -> Int] /\ shown' \in Shown
          /\ \A q \in Players : received'[q] = IF q = cur' THEN 0 ELSE rec[q]
      BY <1>3, <1>7, <3>1, Started
    <3>3. Rests'
      BY <3>2 DEF Rests
    <3> QED BY <1>3, <1>4, <3>1, <3>2, <3>3
  <2>2. CASE ~(on /\ Cardinality(alive') > 1)
    <3>1. /\ Stop /\ received' = rec /\ shown' = shw /\ restarted' = restarted
      BY <1>5, <1>6, <2>2 DEF Leave
    <3>2. running' = FALSE /\ timer' = FALSE /\ cur' = None
      BY <3>1 DEF Stop
    <3> QED BY <1>7, <2>2, <3>1, <3>2, GivenAttack DEF Rests
  <2> QED BY <2>1, <2>2
<1>9. on' \in BOOLEAN /\ (on' => on /\ Cardinality(alive') > 1)
  <2>1. on' = (on /\ (p \notin alive \/ Cardinality(alive') > 1))
    BY <1>1
  <2>2. on' \in BOOLEAN /\ (on' => on /\ (p \notin alive \/ Cardinality(alive') > 1))
    BY <2>1
  <2>3. ASSUME on, p \notin alive  PROVE Cardinality(alive') > 1
    <3>1. Cardinality(alive) > 1
      BY <1>1, <2>3 DEF AttackInv, Contested
    <3>2. alive' = alive
      BY <1>1, <2>3
    <3> QED BY <3>1, <3>2
  <2> QED BY <2>2, <2>3
<1>10. TypeOK'
  <2>1. alive' \subseteq InRoom' /\ InRoom' \subseteq Players
    BY <1>1, <1>4, GivenAttack
  <2>2. {on', running', timer', restarted', crashed'} \subseteq BOOLEAN
    BY <1>1, <1>8, <1>9, GivenAttack
  <2> QED BY <1>1, <1>7, <1>8, <2>1, <2>2, GivenAttack DEF TypeOK, Shown
<1>11. Outside'
  <2> SUFFICES ASSUME NEW q \in Players \ InRoom'
               PROVE  received'[q] = 0 /\ sent'[q] = 0 /\ delivered'[q] = 0
    BY DEF Outside
  <2>1. CASE q = p
    BY <1>7, <1>8, <2>1
  <2>2. CASE q # p
    <3>1. q \in Players \ InRoom
      BY <1>4, <2>2
    <3> QED BY <1>7, <1>8, <2>2, <3>1 DEF AttackInv, Outside
  <2> QED BY <2>1, <2>2
<1>12. Accounts'
  <2> SUFFICES ASSUME NEW q \in Players
               PROVE  delivered'[q] + Positive(received'[q]) <= sent'[q]
    BY DEF Accounts, Positive
  <2>1. CASE q = p
    <3>1. received'[q] = 0 /\ Positive(0) = 0
      BY <1>7, <1>8, <2>1 DEF Positive
    <3> QED BY <1>7, <2>1, <3>1
  <2>2. CASE q # p
    <3>1. /\ received'[q] = received[q] \/ received'[q] = 0
          /\ sent'[q] = sent[q] /\ delivered'[q] = delivered[q]
      BY <1>7, <1>8, <2>2
    <3>2. delivered[q] + Positive(received[q]) <= sent[q]
      BY DEF AttackInv, Accounts
    <3>3. /\ received[q] \in Int /\ delivered[q] \in Nat /\ sent[q] \in Nat
          /\ Positive(received[q]) \in Nat /\ Positive(0) = 0
      BY GivenAttack, PositiveType DEF Positive
    <3>4. CASE received'[q] = received[q]
      BY <3>1, <3>2, <3>4
    <3>5. CASE received'[q] = 0
      BY <3>1, <3>2, <3>3, <3>5
    <3> QED BY <3>1, <3>4, <3>5
  <2> QED BY <2>1, <2>2
<1>13. AccountsHonest' /\ Contested' /\ Alone'
  BY <1>8, <1>9 DEF AccountsHonest, Contested, Alone
<1> QED BY <1>4, <1>8, <1>10, <1>11, <1>12, <1>13 DEF AttackInv

\* The turn of the target ends: its lines are inserted and its account is
\* settled.
LEMMA TimeoutKeeps ==
  ASSUME AttackInv, Timeout
  PROVE  AttackInv'
<1>1. /\ timer /\ running /\ cur \in InRoom /\ cur \in Players /\ OnTimeout
      /\ UNCHANGED <<mode, order, on, alive, restarted, cleared, crashed>>
  <2>1. timer /\ AttackIsSafe /\ OnTimeout
        /\ UNCHANGED <<mode, order, on, alive, restarted, cleared, crashed>>
    BY DEF Timeout, roomVars
  <2>2. running
    BY <2>1 DEF AttackInv, Rests
  <2> QED BY <2>1, <2>2, GivenAttack DEF AttackIsSafe
<1>2. InRoom' = InRoom /\ Ordered'
  BY <1>1, SameRoom DEF AttackInv
<1>3. PICK next : next = After
  OBVIOUS
<1>4. next = None \/ next \in alive
  BY <1>3, AfterAlive
<1>5. /\ \A q \in Players : received'[q] = IF q = cur THEN 0 ELSE received[q]
      /\ received' \in [Players -> Int] /\ sent' = sent
  <2>1. received' = [received EXCEPT ![cur] = 0] /\ sent' = sent
    BY <1>1 DEF OnTimeout, Settled
  <2> QED BY <1>1, <2>1, GivenAttack
<1>6. PICK due \in Nat : due <= Positive(received[cur])
        /\ delivered' = [delivered EXCEPT ![cur] = @ + due]
  <2>1. Positive(received[cur]) \in Nat
    BY <1>1, PositiveType, GivenAttack
  <2>2. PICK k \in Nat : k = Positive(received[cur])
    BY <2>1
  <2>3. Unsigned(k) \in Nat /\ Unsigned(k) <= k
    BY UnsignedShrinks
  <2>4. delivered' = [delivered EXCEPT ![cur] = @ + Unsigned(k)]
    BY <1>1, <2>2 DEF OnTimeout, Settled
  <2> QED BY <2>2, <2>3, <2>4
<1>7. /\ delivered' \in [Players -> Nat] /\ delivered'[cur] = delivered[cur] + due
      /\ \A q \in Players \ {cur} : delivered'[q] = delivered[q]
  BY <1>1, <1>6, GivenAttack
<1>8. /\ shown' \in Shown
      /\ next # None => shown'[next] = 0
  <2>1. shown' = [q \in Players |->
          IF q = next \/ (q = cur /\ received[cur] > 0) THEN 0 ELSE shown[q]]
    BY <1>1, <1>3 DEF OnTimeout
  <2>2. 0 \in 0 .. 2 * Half - 1
    BY AttackAssumption
  <2>3. next # None => next \in Players
    BY <1>4, GivenAttack
  <2> QED BY <2>1, <2>2, <2>3, GivenAttack DEF Shown
<1>9. /\ {running', timer'} \subseteq BOOLEAN /\ Rests' /\ cur' \in InRoom \cup {None}
      /\ cur' = next /\ (next # None => running') /\ (running' => next # None)
  <2>1. CASE next = None
    BY <1>1, <1>3, <2>1 DEF OnTimeout, Stop, Rests
  <2>2. CASE next # None
    <3>1. cur' = next /\ running' = running /\ timer' = timer
      BY <1>1, <1>3, <2>2 DEF OnTimeout
    <3> QED BY <1>1, <1>4, <2>2, <3>1, GivenAttack DEF Rests
  <2> QED BY <2>1, <2>2
<1>10. TypeOK'
  BY <1>1, <1>2, <1>5, <1>7, <1>8, <1>9, GivenAttack DEF TypeOK, Shown
<1>11. Outside'
  <2> SUFFICES ASSUME NEW q \in Players \ InRoom
               PROVE  received'[q] = 0 /\ sent'[q] = 0 /\ delivered'[q] = 0
    BY <1>2 DEF Outside
  <2> QED BY <1>1, <1>5, <1>7 DEF AttackInv, Outside
<1>12. Accounts'
  <2> SUFFICES ASSUME NEW q \in Players
               PROVE  delivered'[q] + Positive(received'[q]) <= sent'[q]
    BY DEF Accounts, Positive
  <2>1. delivered[q] + Positive(received[q]) <= sent[q]
    BY DEF AttackInv, Accounts
  <2>2. CASE q = cur
    <3>1. received'[q] = 0 /\ Positive(0) = 0 /\ delivered'[q] = delivered[q] + due
      BY <1>1, <1>5, <1>7, <2>2 DEF Positive
    <3>2. /\ delivered[q] \in Nat /\ sent[q] \in Nat /\ sent'[q] = sent[q]
          /\ Positive(received[q]) \in Nat /\ due <= Positive(received[q])
      BY <1>5, <1>6, <2>2, PositiveType, GivenAttack
    <3>3. delivered'[q] + 0 <= sent'[q]
      BY <2>1, <3>1, <3>2
    <3> QED BY <3>1, <3>3
  <2>3. CASE q # cur
    BY <1>5, <1>7, <2>1, <2>3
  <2> QED BY <2>2, <2>3
<1>13. AccountsHonest'
  <2> SUFFICES ASSUME on, ~restarted, NEW q \in InRoom
               PROVE  IF q = cur'
                      THEN running' /\ Fits(received'[q])
                             => shown'[q] = Positive(received'[q])
                      ELSE received'[q] = 0
    BY <1>1, <1>2 DEF AccountsHonest, Fits, Positive
  <2>1. q \in Players /\ q # None
    BY GivenAttack
  <2>2. received'[q] = 0
    <3>1. CASE q = cur
      BY <1>5, <2>1, <3>1
    <3>2. CASE q # cur
      BY <1>5, <2>1, <3>2 DEF AttackInv, AccountsHonest
    <3> QED BY <3>1, <3>2
  <2>3. Positive(0) = 0
    BY DEF Positive
  <2> QED BY <1>8, <1>9, <2>1, <2>2, <2>3
<1>14. Contested'
  BY <1>1, <1>2 DEF AttackInv, Contested
<1>15. Alone'
  <2> SUFFICES ASSUME on, ~restarted, ~running'
               PROVE  alive = InRoom /\ Len(order) <= 1
    BY <1>1, <1>2 DEF Alone
  <2>1. next = None
    BY <1>9
  <2>2. \A q \in alive : q = cur
    BY <1>1, <1>3, <2>1, AfterThere, GivenAttack DEF AttackInv
  <2>3. Cardinality(alive) <= 1
    <3>1. alive \subseteq {cur} /\ IsFiniteSet({cur}) /\ Cardinality({cur}) = 1
      BY <2>2, FS_Singleton
    <3> QED BY <3>1, FS_Subset
  <2>4. alive = InRoom
    BY <2>3, GivenAttack DEF AttackInv, Contested
  <2>5. Cardinality(alive) = Len(order)
    BY <2>4, OrderedRoom DEF AttackInv
  <2> QED BY <2>3, <2>4, <2>5
<1> QED BY <1>2, <1>9, <1>10, <1>11, <1>12, <1>13, <1>14, <1>15 DEF AttackInv
-----------------------------------------------------------------------------
(* The theorems. *)

LEMMA AttackInit == Init => AttackInv
<1> SUFFICES ASSUME Init  PROVE AttackInv
  OBVIOUS
<1>1. /\ mode \in Modes /\ order = <<>> /\ on = FALSE /\ alive = {}
      /\ running = FALSE /\ cur = None /\ timer = FALSE
      /\ received = [p \in Players |-> 0] /\ shown = received
      /\ sent = received /\ delivered = received
      /\ restarted = FALSE /\ cleared = 0 /\ crashed = FALSE
  BY DEF Init
<1>2. InRoom = {}
  BY <1>1 DEF InRoom, ToSet
<1>3. Ordered
  BY <1>1 DEF Ordered
<1>4. TypeOK
  <2>1. 0 \in 0 .. 2 * Half - 1 /\ 0 \in 0 .. MaxCleared
    BY AttackAssumption
  <2>2. received \in [Players -> Int] /\ shown \in [Players -> 0 .. 2 * Half - 1]
        /\ sent \in [Players -> Nat] /\ delivered \in [Players -> Nat]
    BY <1>1, <2>1
  <2> QED BY <1>1, <1>2, <2>1, <2>2 DEF TypeOK
<1>5. Outside /\ Accounts
  <2>1. \A p \in Players : received[p] = 0 /\ sent[p] = 0 /\ delivered[p] = 0
    BY <1>1
  <2>2. Positive(0) = 0
    BY DEF Positive
  <2> QED BY <2>1, <2>2 DEF Outside, Accounts
<1> QED BY <1>1, <1>3, <1>4, <1>5
        DEF AttackInv, Rests, AccountsHonest, Contested, Alone

LEMMA AttackStep == AttackInv /\ [Next]_vars => AttackInv'
<1> SUFFICES ASSUME AttackInv, [Next]_vars  PROVE AttackInv'
  OBVIOUS
<1>1. CASE GameStart
  BY <1>1, GameStartKeeps
<1>2. ASSUME NEW p \in Players, Join(p)  PROVE AttackInv'
  BY <1>2, JoinKeeps
<1>3. ASSUME NEW p \in Players, Leave(p)  PROVE AttackInv'
  BY <1>3, LeaveKeeps
<1>4. ASSUME NEW p \in Players, NEW n \in LineCounts, Lock(p, n)  PROVE AttackInv'
  BY <1>4, LockKeeps
<1>5. CASE Timeout
  BY <1>5, TimeoutKeeps
<1>6. CASE Crash
  BY <1>6, StutterKeeps DEF Crash
<1>7. CASE UNCHANGED vars
  <2>1. crashed' \in BOOLEAN
    BY <1>7, GivenAttack DEF vars
  <2> QED BY <1>7, <2>1, StutterKeeps DEF vars
<1> QED BY <1>1, <1>2, <1>3, <1>4, <1>5, <1>6, <1>7 DEF Next

\* The invariant of CommonAttacker under the calls of Game.
THEOREM AttackInductive == Spec => []AttackInv
BY AttackInit, AttackStep, PTL DEF Spec

\* The types of Attack: in particular the number shown to a client is one
\* that fits in its byte.
THEOREM AttackTypes == Spec => []TypeOK
<1>1. AttackInv => TypeOK
  BY DEF AttackInv
<1> QED BY <1>1, AttackInductive, PTL

\* NothingFromNothing: attack() and onTimeout(), with their conversions to
\* eight bits, never insert a line that nobody else has cleared, or one twice.
THEOREM LinesAreEarned == Spec => []NothingFromNothing
<1>1. AttackInv => NothingFromNothing
  BY GivenAttack DEF AttackInv, Accounts, NothingFromNothing
<1> QED BY <1>1, AttackInductive, PTL

\* AccountsHonest: while nobody has left, only the target owes or is owed
\* lines, and its client is shown what it will be given (mCurrentTarget,
\* receivedLines and the notification of the incoming attack).
THEOREM DebtsAreTheTargets == Spec => []AccountsHonest
<1>1. AttackInv => AccountsHonest
  BY DEF AttackInv
<1> QED BY <1>1, AttackInductive, PTL

\* A step that moves the target of a running attacker, other than by a leave,
\* moves it to a contender.
LEMMA TurnStep ==
  ASSUME AttackInv, Next, cur' # cur, running', Timeout \/ ~restarted'
  PROVE  cur' \in alive'
<1>1. CASE Timeout
  <2>1. cur' = After \/ cur' = None
    BY <1>1 DEF Timeout, OnTimeout, Stop
  <2>2. After # None
    BY <1>1 DEF Timeout, OnTimeout, Stop
  <2>3. cur' = After
    BY <1>1, <2>2 DEF Timeout, OnTimeout
  <2>4. alive' = alive
    BY <1>1 DEF Timeout, roomVars
  <2> QED BY <2>2, <2>3, <2>4, AfterAlive
<1>2. CASE GameStart
  <2> DEFINE zero == [p \in Players |-> 0]
  <2>1. zero \in [Players -> Int] /\ zero \in Shown
    BY AttackAssumption DEF Shown
  <2>2. alive' = InRoom
    BY <1>2 DEF GameStart
  <2>3. Start(order, zero, zero)
    BY <1>2 DEF GameStart, attackerVars
  <2> HIDE DEF zero
  <2>4. ~running /\ StartStopped(order, zero, zero)
    BY <2>3 DEF Start, attackerVars
  <2>5. cur' \in ToSet(order) \cup {None}
    BY <2>1, <2>4, Started DEF AttackInv, Ordered
  <2>6. cur = None
    BY <2>4 DEF AttackInv, Rests
  <2> QED BY <2>2, <2>5, <2>6 DEF InRoom
<1>3. ASSUME NEW p \in Players, Join(p)  PROVE cur' \in alive'
  <2>1. /\ p \in Players \ InRoom /\ order' \in SetToSeqs(InRoom \cup {p})
        /\ on' = on /\ restarted' = restarted
    BY <1>3 DEF Join, history
  <2>2. PICK ord \in SetToSeqs(InRoom \cup {p}) : ord = order'
    BY <2>1
  <2>3. ord \in Seq(Players) /\ ToSet(ord) = InRoom \cup {p}
    BY <2>1, JoinedRoom DEF AttackInv
  <2>4. on /\ alive' = alive \cup {p} /\ Start(ord, received, shown)
    BY <1>3, <2>2 DEF Join, attackerVars
  <2>5. ~running /\ StartStopped(ord, received, shown)
    BY <2>4 DEF Start, attackerVars
  <2>6. received \in [Players -> Int] /\ shown \in Shown
    BY GivenAttack
  <2>7. cur' \in ToSet(ord) \cup {None}
    BY <2>3, <2>5, <2>6, Started
  <2>8. cur = None
    BY <2>5 DEF AttackInv, Rests
  <2>9. ~restarted
    <3>1. CASE Timeout
      BY <2>5, <3>1 DEF Timeout, AttackInv, Rests
    <3>2. CASE ~restarted'
      BY <2>1, <3>2
    <3> QED BY <3>1, <3>2
  <2>10. alive = InRoom
    BY <2>4, <2>5, <2>9 DEF AttackInv, Alone
  <2> QED BY <2>3, <2>4, <2>7, <2>8, <2>10
<1>4. ASSUME NEW p \in Players, Leave(p)  PROVE cur' \in alive'
  <2>1. restarted' = TRUE \/ Stop
    BY <1>4 DEF Leave
  <2>2. restarted' = TRUE
    BY <2>1 DEF Stop
  <2>3. Timeout
    BY <2>2
  <2> QED BY <1>1, <2>3
<1>5. ASSUME NEW p \in Players, NEW n \in LineCounts, Lock(p, n)
      PROVE  cur' \in alive'
  BY <1>5 DEF Lock, Stop, attackerVars
<1>6. CASE Crash
  BY <1>6 DEF Crash, attackerVars
<1> QED BY <1>1, <1>2, <1>3, <1>4, <1>5, <1>6 DEF Next

\* TurnsGoToContenders: nextTarget gives the turn to a player that is still
\* PLAYING, and so does start() as long as nobody has left.
THEOREM TurnsReachContenders == Spec => TurnsGoToContenders
<1> DEFINE A == cur' # cur /\ running' /\ (Timeout \/ ~restarted') => cur' \in alive'
<1>1. AttackInv /\ [Next]_vars => [A]_vars
  BY TurnStep
<1> QED BY <1>1, AttackInductive, PTL DEF Spec, TurnsGoToContenders
=============================================================================
