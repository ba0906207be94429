---------------------------- MODULE MirrorProofs ----------------------------
(***************************************************************************)
(* The board, and the copy a client keeps of it, for every width and       *)
(* height, preview and set of pieces.                                      *)
(***************************************************************************)
EXTENDS Mirror, FiniteSetTheorems, SequenceTheorems, WellFoundedInduction, TLAPS

-----------------------------------------------------------------------------
(* Numbers, and loops that count them. *)

LEMMA LeastOf ==
  ASSUME NEW T \in SUBSET Nat, NEW n \in T
  PROVE  \E m \in T : \A k \in T : m <= k
<1> DEFINE R == OpToRel(<, Nat)
<1>1. \A x, y \in Nat : <<y, x>> \in R <=> y < x
  BY DEF OpToRel
<1>2. IsWellFoundedOn(R, Nat)
  BY NatLessThanWellFounded
<1> HIDE DEF R
<1>3. PICK x \in T : \A y \in T : ~ (<<y, x>> \in R)
  BY <1>2, WFMin
<1>4. \A y \in T : ~(y < x)
  BY <1>1, <1>3
<1>5. \A y \in T : x <= y
  BY <1>4
<1> QED BY <1>5

\* What holds at first and is kept holds throughout.
LEMMA Loop ==
  ASSUME NEW n \in Nat, NEW T, 0 \in T, \A k \in 1 .. n : k - 1 \in T => k \in T
  PROVE  \A k \in 0 .. n : k \in T
<1> SUFFICES ASSUME NEW i \in 0 .. n, i \notin T  PROVE FALSE
  OBVIOUS
<1>1. PICK U : U = {k \in 0 .. n : k \notin T}
  OBVIOUS
<1>2. U \in SUBSET Nat /\ i \in U
  BY <1>1
<1>3. PICK m \in U : \A k \in U : m <= k
  BY <1>2, LeastOf
<1>4. m \in 1 .. n /\ m - 1 \in 0 .. n /\ m \notin T /\ ~(m <= m - 1)
  BY <1>1, <1>3
<1>5. m - 1 \in T
  BY <1>1, <1>3, <1>4
<1> QED BY <1>4, <1>5

\* A loop of n rounds goes through n states, each made of the one before it.
IsRun(f, F, n, s0, S) ==
  f \in [0 .. n -> S] /\ f[0] = s0 /\ \A k \in 1 .. n : f[k] = F[k][f[k - 1]]

LEMMA Rounds ==
  ASSUME NEW S, NEW n \in Nat, NEW s0 \in S, NEW F,
         \A k \in 1 .. n : F[k] \in [S -> S]
  PROVE  \E f : IsRun(f, F, n, s0, S)
<1> DEFINE Run(k, f) == /\ f \in [0 .. k -> S]
                        /\ f[0] = s0 /\ \A j \in 1 .. k : f[j] = F[j][f[j - 1]]
           T == {k \in 0 .. n : \E f : Run(k, f)}
<1>1. 0 \in T
  <2>1. PICK f : f = [i \in 0 .. 0 |-> s0]
    OBVIOUS
  <2>2. f \in [0 .. 0 -> S] /\ f[0] = s0 /\ 1 .. 0 = {}
    BY <2>1
  <2>3. Run(0, f)
    BY <2>2
  <2> QED BY <2>3
<1>2. ASSUME NEW k \in 1 .. n, k - 1 \in T  PROVE k \in T
  <2>1. PICK f : Run(k - 1, f)
    BY <1>2
  <2>2. PICK s : s = F[k][f[k - 1]]
    OBVIOUS
  <2>3. f[k - 1] \in S /\ s \in S
    BY <2>1, <2>2
  <2>4. PICK g : g = [i \in 0 .. k |-> IF i = k THEN s ELSE f[i]]
    OBVIOUS
  <2>5. \A i \in 0 .. k : i # k => i \in 0 .. k - 1
    OBVIOUS
  <2>6. /\ g \in [0 .. k -> S] /\ g[k] = s
        /\ \A i \in 0 .. k - 1 : g[i] = f[i]
    BY <2>1, <2>3, <2>4, <2>5
  <2>7. g[0] = s0
    BY <2>1, <2>6
  <2>8. ASSUME NEW j \in 1 .. k  PROVE g[j] = F[j][g[j - 1]]
    <3>1. CASE j = k
      <4>1. k - 1 \in 0 .. k - 1
        OBVIOUS
      <4> QED BY <2>2, <2>6, <3>1, <4>1
    <3>2. CASE j # k
      <4>1. j \in 1 .. k - 1 /\ j \in 0 .. k - 1 /\ j - 1 \in 0 .. k - 1
        BY <3>2
      <4> QED BY <2>1, <2>6, <4>1
    <3> QED BY <3>1, <3>2
  <2>9. Run(k, g)
    BY <2>6, <2>7, <2>8
  <2> QED BY <2>9
<1>3. n \in T
  <2> HIDE DEF T
  <2>1. \A k \in 0 .. n : k \in T
    BY <1>1, <1>2, Loop
  <2> QED BY <2>1
<1> QED BY <1>3 DEF IsRun

\* The largest of some numbers.
LEMMA MaxIs ==
  ASSUME NEW n \in Nat, NEW T \in SUBSET (0 .. n), T # {}
  PROVE  Max(T) \in T /\ \A k \in T : k <= Max(T)
<1>1. PICK t \in T : TRUE
  OBVIOUS
<1>2. PICK U : U = {n - k : k \in T}
  OBVIOUS
<1>3. U \in SUBSET Nat /\ n - t \in U
  BY <1>2
<1>4. PICK m \in U : \A k \in U : m <= k
  BY <1>3, LeastOf
<1>5. PICK g \in T : m = n - g
  BY <1>2, <1>4
<1>6. \A k \in T : k <= g
  <2>1. ASSUME NEW k \in T PROVE k <= g
    <3>1. n - g <= n - k
      BY <1>2, <1>4, <1>5
    <3> QED BY <3>1
  <2> QED BY <2>1
<1>7. \A k \in T : g >= k
  BY <1>6
<1>8. Max(T) \in T /\ \A k \in T : Max(T) >= k
  BY <1>7 DEF Max
<1> QED BY <1>8
-----------------------------------------------------------------------------
(* The pieces. *)

LEMMA Sizes ==
  /\ Width \in 4 .. 15 /\ Height \in 4 .. 128 /\ Width \in Nat /\ Height \in Nat
  /\ Preview \in Nat /\ Preview >= 1
  /\ \A p \in Terminoes : Box(p) \in 3 .. 4 /\ Box(p) \in Nat
  /\ None \notin Terminoes
BY BoardAssumption DEF Box

\* A turned piece is the one before, turned once more.
LEMMA ShapeIs ==
  ASSUME NEW p \in Terminoes
  PROVE  /\ Shape[p][0] = Cells[p]
         /\ \A r \in 1 .. 3 : Shape[p][r] = {Turned(p, c) : c \in Shape[p][r - 1]}
<1> DEFINE Turn(s) == {Turned(p, c) : c \in s}
           Def(f) == [r \in 0..3 |-> IF r = 0 THEN Cells[p]
                                     ELSE {Turned(p, c) : c \in f[r - 1]}]
<1>1. Shape[p] = CHOOSE f : f = Def(f)
  BY DEF Shape
<1>2. \E f : f = Def(f)
  <2>1. PICK s1 : s1 = Turn(Cells[p])
    OBVIOUS
  <2>2. PICK s2 : s2 = Turn(s1)
    OBVIOUS
  <2>3. PICK s3 : s3 = Turn(s2)
    OBVIOUS
  <2>4. PICK f : f = [r \in 0..3 |-> IF r = 0 THEN Cells[p]
                                     ELSE IF r = 1 THEN s1
                                     ELSE IF r = 2 THEN s2 ELSE s3]
    OBVIOUS
  <2>5. f[0] = Cells[p] /\ f[1] = s1 /\ f[2] = s2 /\ f[3] = s3
    BY <2>4
  <2>6. \A r \in 0..3 : f[r] = IF r = 0 THEN Cells[p] ELSE Turn(f[r - 1])
    <3>1. f[1] = Turn(f[0]) /\ f[2] = Turn(f[1]) /\ f[3] = Turn(f[2])
      BY <2>1, <2>2, <2>3, <2>5
    <3>2. 1 - 1 = 0 /\ 2 - 1 = 1 /\ 3 - 1 = 2
      OBVIOUS
    <3> HIDE DEF Turn
    <3>3. ASSUME NEW r \in 0..3
          PROVE  f[r] = IF r = 0 THEN Cells[p] ELSE Turn(f[r - 1])
      <4>1. CASE r = 0
        BY <2>5, <4>1
      <4>2. CASE r = 1
        BY <3>1, <3>2, <4>2
      <4>3. CASE r = 2
        BY <3>1, <3>2, <4>3
      <4>4. CASE r = 3
        BY <3>1, <3>2, <4>4
      <4>5. r = 0 \/ r = 1 \/ r = 2 \/ r = 3
        OBVIOUS
      <4> QED BY <4>1, <4>2, <4>3, <4>4, <4>5
    <3> QED BY <3>3
  <2>7. f = [r \in 0..3 |-> f[r]]
    BY <2>4
  <2>8. f = Def(f)
    BY <2>6, <2>7
  <2> QED BY <2>8
<1>3. Shape[p] = Def(Shape[p])
  <2> HIDE DEF Def
  <2> QED BY <1>1, <1>2
<1>4. PICK s : s = Shape[p]
  OBVIOUS
<1>5. s = [r \in 0..3 |-> IF r = 0 THEN Cells[p] ELSE Turn(s[r - 1])]
  BY <1>3, <1>4
<1>6. s[0] = Cells[p] /\ \A r \in 1 .. 3 : s[r] = Turn(s[r - 1])
  <2> HIDE DEF Turn
  <2>1. \A r \in 0 .. 3 : s[r] = IF r = 0 THEN Cells[p] ELSE Turn(s[r - 1])
    BY <1>5
  <2>2. 0 \in 0 .. 3 /\ \A r \in 1 .. 3 : r \in 0 .. 3 /\ r # 0
    OBVIOUS
  <2> QED BY <2>1, <2>2
<1> QED BY <1>4, <1>6

\* A piece stays in its box.
Inside(p) == (0 .. Box(p) - 1) \X (0 .. Box(p) - 1)

LEMMA ShapeIn ==
  ASSUME NEW p \in Terminoes, NEW r \in 0 .. 3
  PROVE  Shape[p][r] \subseteq Inside(p)
<1>1. Cells[p] \subseteq Inside(p)
  <2>1. CASE p \in {"I", "O"}
    BY <2>1 DEF Cells, Inside, Box
  <2>2. CASE p \in {"L", "J"}
    BY <2>2 DEF Cells, Inside, Box
  <2>3. CASE p \in {"S", "Z", "T"}
    BY <2>3 DEF Cells, Inside, Box
  <2> QED BY <2>1, <2>2, <2>3 DEF Terminoes
<1>2. \A c \in Inside(p) : Turned(p, c) \in Inside(p)
  BY Sizes DEF Inside, Turned
<1>3. \A k \in 1 .. 3 : Shape[p][k - 1] \subseteq Inside(p) => Shape[p][k] \subseteq Inside(p)
  BY <1>2, ShapeIs
<1>4. Shape[p][0] \subseteq Inside(p)
  BY <1>1, ShapeIs
<1>5. PICK T : T = {k \in 0 .. 3 : Shape[p][k] \subseteq Inside(p)}
  OBVIOUS
<1>6. 0 \in T /\ \A k \in 1 .. 3 : k - 1 \in T => k \in T
  BY <1>3, <1>4, <1>5
<1>7. \A k \in 0 .. 3 : k \in T
  BY <1>6, Loop
<1> QED BY <1>5, <1>7
-----------------------------------------------------------------------------
(* Where pieces can be. *)

Ground == Columns \X (0 .. Height - 1)
Grid == [1 .. Height -> SUBSET Columns]

\* What Bitmap::get calls free is on the board.
LEMMA FreeInside ==
  ASSUME NEW b, NEW p, NEW r, NEW spot, Free(b, p, r, spot)
  PROVE  Covered(p, r, spot) \subseteq Ground
<1>1. ASSUME NEW c \in Covered(p, r, spot)  PROVE c \in Ground
  <2>1. PICK d : c = Plus(spot, d)
    BY DEF Covered
  <2>2. c = <<c[1], c[2]>>
    BY <2>1 DEF Plus
  <2>3. ~Taken(b, c)
    BY DEF Free
  <2>4. c[1] \in Columns /\ c[2] \in 0 .. Height - 1
    BY <2>3 DEF Taken
  <2> QED BY <2>2, <2>4 DEF Ground
<1> QED BY <1>1

\* Every step of a move is onto free ground.
LEMMA StepsAre ==
  ASSUME NEW b, NEW p, NEW r, NEW spot, NEW d, NEW n \in Nat
  PROVE  /\ Steps(b, p, r, spot, d, n) \in 0 .. n
         /\ \A j \in 1 .. Steps(b, p, r, spot, d, n) :
              Free(b, p, r, <<spot[1] + j * d[1], spot[2] + j * d[2]>>)
<1>1. PICK T : T = {k \in 0..n : \A j \in 1..k :
                      Free(b, p, r, <<spot[1] + j * d[1], spot[2] + j * d[2]>>)}
  OBVIOUS
<1>2. T \in SUBSET (0 .. n) /\ 0 \in T
  BY <1>1
<1>3. Max(T) \in T
  BY <1>2, MaxIs
<1>4. Steps(b, p, r, spot, d, n) = Max(T)
  BY <1>1 DEF Steps
<1> QED BY <1>1, <1>3, <1>4

\* A piece at the top, in the middle, is on the board.
LEMMA EnterInside ==
  ASSUME NEW p \in Terminoes, NEW spot,
         spot = <<(Width - Box(p)) \div 2, Height - Box(p)>>
  PROVE  spot \in Int \X Int /\ Covered(p, 0, spot) \subseteq Ground
<1>1a. Box(p) \in Nat /\ Box(p) <= 4 /\ Box(p) >= 3
  BY DEF Box
<1>1b. Width \in Nat /\ Height \in Nat /\ Width >= 4 /\ Height >= 4
  BY Sizes
<1>1c. PICK s \in Nat : s = Box(p) /\ s <= 4 /\ s >= 3
  BY <1>1a
<1>1. PICK w \in Nat, h \in Nat : w = Width /\ h = Height /\ w >= 4 /\ h >= 4
  BY <1>1b
<1>2. PICK x \in Nat : x = (w - s) \div 2 /\ 2 * x <= w - s
  BY <1>1, <1>1c
<1>3. spot = <<x, h - s>>
  BY <1>1, <1>1c, <1>2
<1>4. ASSUME NEW d \in Inside(p)  PROVE Plus(spot, d) \in Ground
  <2>1. PICK i \in Nat, j \in Nat : d = <<i, j>> /\ i <= s - 1 /\ j <= s - 1
    BY <1>1c DEF Inside
  <2>2. Plus(spot, d) = <<x + i, h - s + j>>
    BY <1>3, <2>1 DEF Plus
  <2>3. x + i \in 0 .. w - 1 /\ h - s + j \in 0 .. h - 1
    BY <1>1, <1>1c, <1>2, <2>1
  <2> QED BY <1>1, <2>2, <2>3 DEF Ground, Columns
<1>5. Shape[p][0] \subseteq Inside(p)
  BY ShapeIn
<1> QED BY <1>1, <1>3, <1>4, <1>5 DEF Covered
-----------------------------------------------------------------------------
(* The rows. *)

\* Rows are a sequence.
LEMMA GridSeq ==
  ASSUME NEW b \in Grid
  PROVE  /\ b \in Seq(SUBSET Columns) /\ Len(b) = Height /\ DOMAIN b = 1 .. Height
         /\ \A i \in 1 .. Height : b[i] \in SUBSET Columns
BY Sizes DEF Grid

LEMMA SeqGrid ==
  ASSUME NEW s \in Seq(SUBSET Columns), Len(s) = Height
  PROVE  s \in Grid
BY Sizes DEF Grid

LEMMA EmptyGrid == Empty \in Grid /\ \A i \in 1 .. Height : Empty[i] = {}
BY DEF Empty, Grid

LEMMA PutIs ==
  ASSUME NEW b \in Grid, NEW cells
  PROVE  /\ Put(b, cells) \in Grid
         /\ \A i \in 1 .. Height :
              Put(b, cells)[i] = b[i] \cup {x \in Columns : <<x, i - 1>> \in cells}
BY DEF Put, Grid

\* A line comes in at the bottom.
LEMMA InsertedIs ==
  ASSUME NEW b \in Grid, NEW line \in SUBSET Columns
  PROVE  /\ Inserted(b, line) \in Grid /\ Inserted(b, line)[1] = line
         /\ \A i \in 2 .. Height : Inserted(b, line)[i] = b[i - 1]
<1>1. PICK h \in Nat : h = Height /\ h >= 4
  BY Sizes
<1>2. PICK u : u = SubSeq(b, 1, h - 1)
  OBVIOUS
<1>3. /\ u \in Seq(SUBSET Columns) /\ Len(u) = h - 1
      /\ \A i \in 1 .. h - 1 : u[i] = b[i]
  <2>1. /\ \A i \in 1 .. h - 1 : b[i] \in SUBSET Columns
    BY <1>1, GridSeq
  <2>2. h - 1 \in Int /\ 1 <= h - 1
    BY <1>1
  <2>3. /\ u \in Seq(SUBSET Columns) /\ Len(u) = (h - 1) - 1 + 1
        /\ \A i \in 1 .. (h - 1) - 1 + 1 : u[i] = b[1 + i - 1]
    BY <1>2, <2>1, <2>2, SubSeqProperties
  <2>4. (h - 1) - 1 + 1 = h - 1 /\ \A i \in 1 .. h - 1 : 1 + i - 1 = i
    BY <1>1
  <2> QED BY <2>3, <2>4
<1>4a. PICK l : l = <<line>>
  OBVIOUS
<1>4. l \in Seq(SUBSET Columns) /\ Len(l) = 1 /\ l[1] = line
  BY <1>4a
<1>5. PICK v : v = l \o u
  OBVIOUS
<1>6. /\ v \in Seq(SUBSET Columns) /\ Len(v) = 1 + (h - 1)
      /\ \A i \in 1 .. 1 + (h - 1) : v[i] = IF i <= 1 THEN l[i] ELSE u[i - 1]
  <2>1. /\ l \o u \in Seq(SUBSET Columns) /\ Len(l \o u) = Len(l) + Len(u)
        /\ \A i \in 1 .. Len(l) + Len(u) :
             (l \o u)[i] = IF i <= Len(l) THEN l[i] ELSE u[i - Len(l)]
    BY <1>3, <1>4, ConcatProperties
  <2>2. Len(l) = 1 /\ Len(u) = h - 1
    BY <1>3, <1>4
  <2> QED BY <1>5, <2>1, <2>2
<1>7. Inserted(b, line) = v
  BY <1>1, <1>2, <1>4a, <1>5 DEF Inserted
<1>8. v[1] = line
  BY <1>1, <1>4, <1>6
<1>9. ASSUME NEW i \in 2 .. h  PROVE v[i] = b[i - 1]
  <2>1. i \in 1 .. 1 + (h - 1) /\ ~(i <= 1) /\ i - 1 \in 1 .. h - 1
    BY <1>1
  <2> QED BY <1>3, <1>6, <2>1
<1>10. v \in Grid
  BY <1>1, <1>6, SeqGrid
<1> QED BY <1>1, <1>7, <1>8, <1>9, <1>10

\* A line goes, and what is above it comes down.
LEMMA ClearLineIs ==
  ASSUME NEW b \in Grid, NEW y \in 0 .. Height - 1
  PROVE  /\ ClearLine(b, y) \in Grid /\ ClearLine(b, y)[Height] = {}
         /\ \A i \in 1 .. Height - 1 :
              ClearLine(b, y)[i] = IF i <= y THEN b[i] ELSE b[i + 1]
<1>1. PICK h \in Nat : h = Height /\ h >= 4
  BY Sizes
<1>2. \A i \in 1 .. h : b[i] \in SUBSET Columns
  BY <1>1, GridSeq
<1>3. y \in Nat /\ y <= h - 1
  BY <1>1
<1>4. PICK u : u = SubSeq(b, 1, y)
  OBVIOUS
<1>5. PICK v : v = SubSeq(b, y + 2, h)
  OBVIOUS
<1>6. /\ u \in Seq(SUBSET Columns) /\ Len(u) = y
      /\ \A i \in 1 .. y : u[i] = b[i]
  <2>1. \A i \in 1 .. y : b[i] \in SUBSET Columns
    BY <1>1, <1>2, <1>3
  <2>2. /\ u \in Seq(SUBSET Columns) /\ Len(u) = (IF 1 <= y THEN y - 1 + 1 ELSE 0)
        /\ \A i \in 1 .. y - 1 + 1 : u[i] = b[1 + i - 1]
    BY <1>3, <1>4, <2>1, SubSeqProperties
  <2>3. (IF 1 <= y THEN y - 1 + 1 ELSE 0) = y /\ y - 1 + 1 = y
        /\ \A i \in 1 .. y : 1 + i - 1 = i
    BY <1>3
  <2> QED BY <2>2, <2>3
<1>7. /\ v \in Seq(SUBSET Columns) /\ Len(v) = h - 1 - y
      /\ \A i \in 1 .. h - 1 - y : v[i] = b[y + 1 + i]
  <2>1. y + 2 \in Int /\ \A i \in y + 2 .. h : b[i] \in SUBSET Columns
    BY <1>1, <1>2, <1>3
  <2>2. /\ v \in Seq(SUBSET Columns)
        /\ Len(v) = (IF y + 2 <= h THEN h - (y + 2) + 1 ELSE 0)
        /\ \A i \in 1 .. h - (y + 2) + 1 : v[i] = b[(y + 2) + i - 1]
    BY <1>1, <1>5, <2>1, SubSeqProperties
  <2>3. (IF y + 2 <= h THEN h - (y + 2) + 1 ELSE 0) = h - 1 - y
        /\ h - (y + 2) + 1 = h - 1 - y
        /\ \A i \in 1 .. h - 1 - y : (y + 2) + i - 1 = y + 1 + i
    BY <1>1, <1>3
  <2> QED BY <2>2, <2>3
<1>8. PICK w : w = u \o v
  OBVIOUS
<1>9. /\ w \in Seq(SUBSET Columns) /\ Len(w) = y + (h - 1 - y)
      /\ \A i \in 1 .. y + (h - 1 - y) : w[i] = IF i <= y THEN u[i] ELSE v[i - y]
  BY <1>6, <1>7, <1>8, ConcatProperties
<1>10. PICK z : z = Append(w, {})
  OBVIOUS
<1>11. /\ z \in Seq(SUBSET Columns) /\ Len(z) = Len(w) + 1
       /\ \A i \in 1 .. Len(w) : z[i] = w[i]
       /\ z[Len(w) + 1] = {}
  <2>1. {} \in SUBSET Columns /\ w \in Seq(SUBSET Columns)
    BY <1>9
  <2> QED BY <1>10, <2>1, AppendProperties
<1>12. Len(w) = h - 1 /\ Len(z) = h /\ z[h] = {}
  <2>1. y + (h - 1 - y) = h - 1 /\ h - 1 + 1 = h
    BY <1>1, <1>3
  <2> QED BY <1>9, <1>11, <2>1
<1>13. ASSUME NEW i \in 1 .. h - 1  PROVE z[i] = IF i <= y THEN b[i] ELSE b[i + 1]
  <2>1. y + (h - 1 - y) = h - 1
    BY <1>1, <1>3
  <2>2. z[i] = IF i <= y THEN u[i] ELSE v[i - y]
    BY <1>9, <1>11, <1>12, <2>1
  <2>3. CASE i <= y
    <3>1. i \in 1 .. y
      BY <1>3, <2>3
    <3> QED BY <1>6, <2>2, <2>3, <3>1
  <2>4. CASE ~(i <= y)
    <3>1. i - y \in 1 .. h - 1 - y /\ y + 1 + (i - y) = i + 1
      BY <1>1, <1>3, <2>4
    <3> QED BY <1>7, <2>2, <2>4, <3>1
  <2> QED BY <2>3, <2>4
<1>14. ClearLine(b, y) = z
  <2>1. (y + 1) - 1 = y /\ (y + 1) + 1 = y + 2 /\ Len(b) = h
    BY <1>1, <1>3, GridSeq
  <2>2. RemoveAt(b, y + 1) = w
    BY <1>4, <1>5, <1>8, <2>1 DEF RemoveAt
  <2> QED BY <1>10, <2>2 DEF ClearLine
<1>15. z \in Grid
  BY <1>1, <1>11, <1>12, SeqGrid
<1> QED BY <1>1, <1>12, <1>13, <1>14, <1>15

\* A board without a full line.
Sparse(b) == \A i \in 1 .. Height : b[i] # Columns
Gap == Columns \ {Width - 1}

LEMMA ColumnsAre == Columns # {} /\ Gap \in SUBSET Columns /\ Gap # Columns
<1>1. Width - 1 \in Columns
  BY Sizes DEF Columns
<1> QED BY <1>1 DEF Gap

\* The states that the loop of Attack goes through.
LEMMA RaisedIs ==
  ASSUME NEW b \in Grid, NEW n \in Nat
  PROVE  \E f \in [0 .. n -> Grid] :
           /\ f[0] = b /\ f[n] = Raised(b, n)
           /\ \A k \in 1 .. n : f[k] = Inserted(f[k - 1], Gap)
<1> DEFINE Def(f) == [k \in 0..n |-> IF k = 0 THEN b
                                     ELSE Inserted(f[k - 1], Columns \ {Width - 1})]
<1>1. \A x \in Grid : Inserted(x, Gap) \in Grid
  BY InsertedIs, ColumnsAre
<1>2. PICK F : F = [k \in 1 .. n |-> [x \in Grid |-> Inserted(x, Gap)]]
  OBVIOUS
<1>3. \A k \in 1 .. n : F[k] \in [Grid -> Grid]
  BY <1>1, <1>2
<1>4a. PICK g : IsRun(g, F, n, b, Grid)
  BY <1>3, Rounds
<1>4. g \in [0 .. n -> Grid] /\ g[0] = b /\ \A k \in 1 .. n : g[k] = F[k][g[k - 1]]
  BY <1>4a DEF IsRun
<1>5. \A k \in 1 .. n : k \in 0 .. n /\ k - 1 \in 0 .. n /\ k # 0
  OBVIOUS
<1>6. \A k \in 1 .. n : g[k] = Inserted(g[k - 1], Gap)
  BY <1>2, <1>4, <1>5
<1>7. g = Def(g)
  <2>1. \A k \in 0 .. n : k = 0 \/ k \in 1 .. n
    OBVIOUS
  <2> HIDE DEF Inserted
  <2>2. \A k \in 0 .. n : g[k] = IF k = 0 THEN b
                                 ELSE Inserted(g[k - 1], Columns \ {Width - 1})
    BY <1>4, <1>5, <1>6, <2>1 DEF Gap
  <2> QED BY <1>4, <2>2
<1>8. PICK f : f = CHOOSE h : h = Def(h)
  OBVIOUS
<1>9. f = Def(f)
  <2> HIDE DEF Def
  <2> QED BY <1>7, <1>8
<1>10. Raised(b, n) = f[n]
  BY <1>8 DEF Raised
<1>11. f[0] = b /\ \A k \in 1 .. n : f[k] = Inserted(f[k - 1], Gap)
  <2>1. 0 \in 0 .. n
    OBVIOUS
  <2> QED BY <1>5, <1>9, <2>1 DEF Gap
<1>12. \A k \in 0 .. n : f[k] \in Grid
  <2>1. PICK T : T = {k \in 0 .. n : f[k] \in Grid}
    OBVIOUS
  <2>2. 0 \in T /\ \A k \in 1 .. n : k - 1 \in T => k \in T
    BY <1>1, <1>5, <1>11, <2>1
  <2>3. \A k \in 0 .. n : k \in T
    BY <2>2, Loop
  <2> QED BY <2>1, <2>3
<1>13. f \in [0 .. n -> Grid]
  BY <1>9, <1>12
<1> QED BY <1>10, <1>11, <1>13

\* Lines with a hole that come in below fill no line.
LEMMA RaisedSparse ==
  ASSUME NEW b \in Grid, Sparse(b), NEW n \in Nat
  PROVE  Raised(b, n) \in Grid /\ Sparse(Raised(b, n))
<1>1. PICK f \in [0 .. n -> Grid] :
        /\ f[0] = b /\ f[n] = Raised(b, n)
        /\ \A k \in 1 .. n : f[k] = Inserted(f[k - 1], Gap)
  BY RaisedIs
<1>2. PICK T : T = {k \in 0 .. n : Sparse(f[k])}
  OBVIOUS
<1>3. 0 \in T
  BY <1>1, <1>2
<1>4. ASSUME NEW k \in 1 .. n, k - 1 \in T  PROVE k \in T
  <2>1. f[k - 1] \in Grid /\ Sparse(f[k - 1]) /\ f[k] = Inserted(f[k - 1], Gap)
    BY <1>1, <1>2, <1>4
  <2>2. ASSUME NEW i \in 1 .. Height  PROVE f[k][i] # Columns
    <3>1. CASE i = 1
      BY <2>1, <3>1, InsertedIs, ColumnsAre
    <3>2. CASE i # 1
      <4>1. i \in 2 .. Height /\ i - 1 \in 1 .. Height
        BY <3>2, Sizes
      <4>2. f[k][i] = f[k - 1][i - 1]
        BY <2>1, <4>1, InsertedIs, ColumnsAre
      <4> QED BY <2>1, <4>1, <4>2 DEF Sparse
    <3> QED BY <3>1, <3>2
  <2> QED BY <1>2, <2>2 DEF Sparse
<1>5. \A k \in 0 .. n : k \in T
  BY <1>3, <1>4, Loop
<1>6. n \in 0 .. n
  OBVIOUS
<1> QED BY <1>1, <1>2, <1>5, <1>6

\* The states that the loop of lock() goes through.
Cleanup == [rows : Grid, removed : Seq(0 .. Height - 1)]
ClearStep(k, s) ==
  IF s.rows[Height - k + 1] = Columns
  THEN [rows |-> ClearLine(s.rows, Height - k),
        removed |-> Append(s.removed, Height - k)]
  ELSE s

LEMMA ClearStepIn ==
  ASSUME NEW k \in 1 .. Height, NEW s \in Cleanup
  PROVE  ClearStep(k, s) \in Cleanup
<1>1. Height - k \in 0 .. Height - 1
  BY Sizes
<1>2. s.rows \in Grid /\ s.removed \in Seq(0 .. Height - 1)
  BY DEF Cleanup
<1>3. ClearLine(s.rows, Height - k) \in Grid
  BY <1>1, <1>2, ClearLineIs
<1>4. Append(s.removed, Height - k) \in Seq(0 .. Height - 1)
  BY <1>1, <1>2, AppendProperties
<1> QED BY <1>3, <1>4 DEF ClearStep, Cleanup

LEMMA ClearLoopIs ==
  ASSUME NEW b \in Grid
  PROVE  \E f \in [0 .. Height -> Cleanup] :
           /\ f[0] = [rows |-> b, removed |-> <<>>] /\ f[Height] = ClearLoop(b)
           /\ \A k \in 1 .. Height : f[k] = ClearStep(k, f[k - 1])
<1> DEFINE Def(f) ==
      [k \in 0..Height |->
         IF k = 0 THEN [rows |-> b, removed |-> <<>>]
         ELSE LET y == Height - k
                  before == f[k - 1]
              IN  IF before.rows[y + 1] = Columns
                  THEN [rows |-> ClearLine(before.rows, y),
                        removed |-> Append(before.removed, y)]
                  ELSE before]
<1>1. PICK n \in Nat : n = Height
  BY Sizes
<1>2. PICK F : F = [k \in 1 .. n |-> [s \in Cleanup |-> ClearStep(k, s)]]
  OBVIOUS
<1>3. \A k \in 1 .. n : F[k] \in [Cleanup -> Cleanup]
  BY <1>1, <1>2, ClearStepIn
<1>4. PICK s0 : s0 = [rows |-> b, removed |-> <<>>]
  OBVIOUS
<1>5. s0 \in Cleanup
  <2>1. <<>> \in Seq(0 .. Height - 1)
    BY EmptySeq
  <2> QED BY <1>4, <2>1 DEF Cleanup
<1>6a. PICK g : IsRun(g, F, n, s0, Cleanup)
  BY <1>3, <1>5, Rounds
<1>6. /\ g \in [0 .. n -> Cleanup] /\ g[0] = s0
      /\ \A k \in 1 .. n : g[k] = F[k][g[k - 1]]
  BY <1>6a DEF IsRun
<1>7. \A k \in 1 .. n : k \in 0 .. n /\ k - 1 \in 0 .. n /\ k # 0
  OBVIOUS
<1>8. \A k \in 1 .. n : g[k] = ClearStep(k, g[k - 1])
  BY <1>2, <1>6, <1>7
<1>9. \A h : Def(h) = [k \in 0 .. n |-> IF k = 0 THEN s0 ELSE ClearStep(k, h[k - 1])]
  BY <1>1, <1>4 DEF ClearStep
<1> HIDE DEF Def
<1>10. g = Def(g)
  <2>1. \A k \in 0 .. n : k = 0 \/ k \in 1 .. n
    OBVIOUS
  <2>2. \A k \in 0 .. n : g[k] = IF k = 0 THEN s0 ELSE ClearStep(k, g[k - 1])
    BY <1>6, <1>7, <1>8, <2>1
  <2> QED BY <1>6, <1>9, <2>2
<1>11. PICK f : f = CHOOSE h : h = Def(h)
  OBVIOUS
<1>12. f = Def(f)
  BY <1>10, <1>11
<1>13. ClearLoop(b) = f[n]
  BY <1>1, <1>11 DEF ClearLoop, Def
<1>14. f[0] = s0 /\ \A k \in 1 .. n : f[k] = ClearStep(k, f[k - 1])
  <2>1. 0 \in 0 .. n
    OBVIOUS
  <2> QED BY <1>7, <1>9, <1>12, <2>1
<1>15. \A k \in 0 .. n : f[k] \in Cleanup
  <2>1. PICK T : T = {k \in 0 .. n : f[k] \in Cleanup}
    OBVIOUS
  <2>2. 0 \in T /\ \A k \in 1 .. n : k - 1 \in T => k \in T
    BY <1>1, <1>5, <1>7, <1>14, <2>1, ClearStepIn
  <2>3. \A k \in 0 .. n : k \in T
    BY <2>2, Loop
  <2> QED BY <2>1, <2>3
<1>16. f \in [0 .. n -> Cleanup]
  BY <1>9, <1>12, <1>15
<1> QED BY <1>1, <1>4, <1>13, <1>14, <1>16

\* A lock leaves no full line: those that have been looked at have a gap.
LEMMA ClearedSparse ==
  ASSUME NEW b \in Grid
  PROVE  /\ Cleared(b) \in Grid /\ Sparse(Cleared(b))
         /\ Removed(b) \in Seq(0 .. Height - 1)
<1>1. PICK f \in [0 .. Height -> Cleanup] :
        /\ f[0] = [rows |-> b, removed |-> <<>>] /\ f[Height] = ClearLoop(b)
        /\ \A k \in 1 .. Height : f[k] = ClearStep(k, f[k - 1])
  BY ClearLoopIs
<1>2. PICK T : T = {k \in 0 .. Height :
                      \A i \in Height - k + 1 .. Height : f[k].rows[i] # Columns}
  OBVIOUS
<1>3. 0 \in T
  BY <1>2, Sizes
<1>4. ASSUME NEW k \in 1 .. Height, k - 1 \in T  PROVE k \in T
  <2>1. PICK s \in Cleanup : s = f[k - 1]
    <3>1. k - 1 \in 0 .. Height
      BY Sizes
    <3> QED BY <1>1, <3>1
  <2>2. f[k] = ClearStep(k, s) /\ s.rows \in Grid
    BY <1>1, <2>1 DEF Cleanup
  <2>3. \A i \in Height - k + 2 .. Height : s.rows[i] # Columns
    <3>1. Height - (k - 1) + 1 = Height - k + 2
      BY Sizes
    <3> QED BY <1>2, <1>4, <2>1, <3>1
  <2>4. Height - k \in 0 .. Height - 1
    BY Sizes
  <2>5. ASSUME NEW i \in Height - k + 1 .. Height  PROVE f[k].rows[i] # Columns
    <3>1. CASE s.rows[Height - k + 1] = Columns
      <4>1. f[k].rows = ClearLine(s.rows, Height - k)
        BY <2>2, <3>1 DEF ClearStep
      <4>2. CASE i = Height
        BY <2>2, <2>4, <4>1, <4>2, ClearLineIs, ColumnsAre
      <4>3. CASE i # Height
        <5>1. /\ i \in 1 .. Height - 1 /\ ~(i <= Height - k)
              /\ i + 1 \in Height - k + 2 .. Height
          BY <4>3, Sizes
        <5>2. f[k].rows[i] = s.rows[i + 1]
          BY <2>2, <2>4, <4>1, <5>1, ClearLineIs
        <5> QED BY <2>3, <5>1, <5>2
      <4> QED BY <4>2, <4>3
    <3>2. CASE s.rows[Height - k + 1] # Columns
      <4>1. f[k] = s
        BY <2>2, <3>2 DEF ClearStep
      <4>2. i = Height - k + 1 \/ i \in Height - k + 2 .. Height
        BY Sizes
      <4> QED BY <2>3, <3>2, <4>1, <4>2
    <3> QED BY <3>1, <3>2
  <2>6. k \in 0 .. Height
    BY Sizes
  <2> QED BY <1>2, <2>5, <2>6
<1>5. \A k \in 0 .. Height : k \in T
  BY <1>3, <1>4, Loop, Sizes
<1>6. Height \in 0 .. Height /\ Height - Height + 1 = 1
  BY Sizes
<1>7. \A i \in 1 .. Height : f[Height].rows[i] # Columns
  BY <1>2, <1>5, <1>6
<1>8. f[Height] \in Cleanup
  BY <1>1, <1>6
<1> QED BY <1>1, <1>7, <1>8 DEF Cleared, Removed, Cleanup, Sparse
-----------------------------------------------------------------------------
(* The inductive invariant of the board, and what keeps it. *)

\* What is said of the piece, and of the rest.
PieceOK ==
  /\ cur \in Pieces \cup {None} /\ rot \in 0..3 /\ at \in Int \X Int
  /\ list \in Seq(Pieces) /\ Len(list) <= Preview
  /\ over \in BOOLEAN /\ use \in {"fresh", "pushed", "spent"}
  /\ cur = None => list = <<>> /\ ~over
  /\ PieceFits
RowsOK ==
  /\ match \in Matches
  /\ rows \in Grid /\ Sparse(rows)
  /\ hold \in Pieces \cup {None} /\ {credit, exact} \subseteq BOOLEAN
  /\ locks \in 0 .. match.locks /\ inserted \in 0..MaxInserts /\ cleared \in Nat
Fits == PieceOK /\ RowsOK

LEMMA FitsIs == Fits => TypeOK /\ PieceFits /\ NoFullLine
BY DEF Fits, PieceOK, RowsOK, TypeOK, NoFullLine, Sparse, Grid

LEMMA MatchIs ==
  ASSUME match \in Matches
  PROVE  Pieces \subseteq Terminoes /\ None \notin Pieces /\ match.locks \in Nat
BY BoardAssumption DEF Pieces

\* A way through free cells stays on the board.
Onward(spot, d, k) == <<spot[1] + k * d[1], spot[2] + k * d[2]>>

LEMMA OnTheWay ==
  ASSUME NEW b, NEW p, NEW r, NEW spot \in Int \X Int, NEW n \in Nat,
         NEW d \in {<<0, -1>>, <<-1, 0>>, <<1, 0>>},
         NEW k \in 0 .. Steps(b, p, r, spot, d, n),
         Covered(p, r, spot) \subseteq Ground,
         NEW far, far = Onward(spot, d, k)
  PROVE  /\ far \in Int \X Int /\ Covered(p, r, far) \subseteq Ground
         /\ Free(b, p, r, spot) => Free(b, p, r, far)
<1>1. k \in Nat /\ spot[1] \in Int /\ spot[2] \in Int
  BY StepsAre
<1>2. far \in Int \X Int
  BY <1>1 DEF Onward
<1>3. CASE k = 0
  <2>1. spot = <<spot[1], spot[2]>>
    OBVIOUS
  <2>2. far = spot
    BY <1>1, <1>3, <2>1 DEF Onward
  <2> QED BY <1>2, <2>2
<1>4. CASE k # 0
  <2>1. Free(b, p, r, far)
    <3>1. k \in 1 .. Steps(b, p, r, spot, d, n)
      BY <1>1, <1>4, StepsAre
    <3> QED BY <3>1, StepsAre DEF Onward
  <2> QED BY <1>2, <2>1, FreeInside
<1> QED BY <1>3, <1>4

\* Where a piece comes to rest.
LEMMA FloorIs ==
  ASSUME NEW b, NEW p, NEW r, NEW spot \in Int \X Int,
         Covered(p, r, spot) \subseteq Ground,
         NEW y \in Floor(b, p, r, spot) .. spot[2]
  PROVE  /\ <<spot[1], y>> \in Int \X Int
         /\ Covered(p, r, <<spot[1], y>>) \subseteq Ground
         /\ Free(b, p, r, spot) => Free(b, p, r, <<spot[1], y>>)
<1>1. Height \in Nat /\ spot[1] \in Int /\ spot[2] \in Int
  BY Sizes
<1>2. PICK d : d = <<0, -1>>
  OBVIOUS
<1>3. PICK s : s = Steps(b, p, r, spot, d, Height)
  OBVIOUS
<1>4. s \in 0 .. Height
  BY <1>1, <1>3, StepsAre
<1>5. Floor(b, p, r, spot) = spot[2] - s
  BY <1>2, <1>3 DEF Floor
<1>6. PICK k \in 0 .. s : k = spot[2] - y
  BY <1>1, <1>4, <1>5
<1>7. <<spot[1], y>> = <<spot[1] + k * d[1], spot[2] + k * d[2]>>
  <2>1. d[1] = 0 /\ d[2] = -1
    BY <1>2
  <2>2. k * 0 = 0 /\ k * (-1) = - k
    BY <1>4
  <2>3. y = spot[2] + (- k) /\ spot[1] = spot[1] + 0
    BY <1>1, <1>4, <1>5, <1>6
  <2> QED BY <2>1, <2>2, <2>3
<1>8. d \in {<<0, -1>>, <<-1, 0>>, <<1, 0>>}
  BY <1>2
<1>9. k \in 0 .. Steps(b, p, r, spot, d, Height)
  BY <1>3, <1>6
<1>10. PICK far : far = <<spot[1], y>>
  OBVIOUS
<1>11. far = Onward(spot, d, k)
  BY <1>7, <1>10 DEF Onward
<1>12. /\ far \in Int \X Int /\ Covered(p, r, far) \subseteq Ground
       /\ Free(b, p, r, spot) => Free(b, p, r, far)
  BY <1>1, <1>8, <1>9, <1>11, OnTheWay
<1> QED BY <1>10, <1>12

\* The lowest place is not above where the piece is.
LEMMA FloorBelow ==
  ASSUME NEW b, NEW p, NEW r, NEW spot \in Int \X Int
  PROVE  Floor(b, p, r, spot) \in Int /\ Floor(b, p, r, spot) <= spot[2]
<1>1. PICK s : s = Steps(b, p, r, spot, <<0, -1>>, Height)
  OBVIOUS
<1>2. s \in 0 .. Height
  BY <1>1, Sizes, StepsAre
<1> QED BY <1>1, <1>2, Sizes DEF Floor

\* What requestPiece is given.
LEMMA DealtIs ==
  ASSUME NEW n \in Nat, NEW new \in Dealt(n)
  PROVE  new \in Seq(Pieces) /\ Len(new) \in 0 .. n
<1>1. PICK k \in 0 .. n : new \in [1 .. k -> Pieces]
  BY DEF Dealt
<1> QED BY <1>1

\* A list that is joined to what it is given.
LEMMA JoinedIs ==
  ASSUME NEW lst \in Seq(Pieces), NEW n \in Nat, NEW new \in Dealt(n),
         Len(lst) + n <= Preview
  PROVE  lst \o new \in Seq(Pieces) /\ Len(lst \o new) <= Preview
<1>1. new \in Seq(Pieces) /\ Len(new) \in 0 .. n
  BY DealtIs
<1>2. lst \o new \in Seq(Pieces) /\ Len(lst \o new) = Len(lst) + Len(new)
  BY <1>1, ConcatProperties
<1>3. Len(lst) \in Nat
  BY LenProperties
<1> QED BY <1>1, <1>2, <1>3, Sizes

\* The piece that enters: initializeCurrentTermino and what follows.
LEMMA EnterOK ==
  ASSUME match \in Matches, match' = match,
         NEW p \in Pieces, NEW lst \in Seq(Pieces), Len(lst) <= Preview,
         rows' \in Grid, NEW before, NEW u, Enter(p, lst, rows', before, u)
  PROVE  PieceOK'
<1>1. p \in Terminoes /\ Pieces' = Pieces
  BY MatchIs DEF Pieces
<1>2. /\ cur' = p /\ rot' = 0 /\ use' = "fresh"
      /\ at' = <<(Width - Box(p)) \div 2, Height - Box(p)>>
      /\ over' = ~Free(rows', p, 0, at')
  BY DEF Enter
<1>3. at' \in Int \X Int /\ Covered(p, 0, at') \subseteq Ground
  BY <1>1, <1>2, EnterInside
<1>4. list' \in Seq(Pieces) /\ Len(list') <= Preview
  <2>1. CASE over'
    BY <2>1 DEF Enter
  <2>2. CASE ~over'
    <3>1. PICK new \in Dealt(Preview - Len(lst)) : list' = lst \o new
      BY <2>2 DEF Enter
    <3>2. Preview - Len(lst) \in Nat /\ Len(lst) + (Preview - Len(lst)) <= Preview
      <4>1. Len(lst) \in Nat
        BY LenProperties
      <4> QED BY <4>1, Sizes
    <3> QED BY <3>1, <3>2, JoinedIs
  <2> QED BY <2>1, <2>2
<1>5. over' \in BOOLEAN
  BY <1>2
<1>6. PieceFits'
  <2>1. Covered(cur', rot', at') \subseteq Columns \X (0 .. Height - 1)
    BY <1>2, <1>3 DEF Ground
  <2>2. ~over' => Free(rows', cur', rot', at')
    BY <1>2
  <2> QED BY <2>1, <2>2 DEF PieceFits
<1>7. cur' # None
  BY <1>1, <1>2, MatchIs
<1> QED BY <1>1, <1>2, <1>3, <1>4, <1>5, <1>6, <1>7 DEF PieceOK

\* The next piece, or none: the last one is then spent where it is.
LEMMA NextPieceOK ==
  ASSUME Fits, match' = match, rows' \in Grid, NEW spot \in Int \X Int,
         cur # None => Covered(cur, rot, spot) \subseteq Ground,
         NEW before, NEW u, NextPiece(rows', spot, before, u)
  PROVE  PieceOK'
<1>1. list \in Seq(Pieces) /\ Len(list) <= Preview /\ match \in Matches
  BY DEF Fits, PieceOK, RowsOK
<1>2. PICK k \in Nat : k = IF list = <<>> THEN Preview ELSE 0
  BY Sizes
<1>3. PICK new \in Dealt(k) :
        IF list \o new = <<>>
        THEN /\ at' = spot /\ use' = IF cur = None THEN use ELSE "spent"
             /\ UNCHANGED <<cur, rot, list, over>>
        ELSE Enter(Head(list \o new), Tail(list \o new), rows', before,
                   [u EXCEPT !.add = new])
  BY <1>2 DEF NextPiece
<1>4. PICK all : all = list \o new
  OBVIOUS
<1>5. all \in Seq(Pieces) /\ Len(all) <= Preview
  <2>1. Len(list) + k <= Preview
    <3>1. CASE list = <<>>
      <4>1. Len(list) = 0
        BY <3>1
      <4> QED BY <1>2, <3>1, <4>1, Sizes
    <3>2. CASE list # <<>>
      BY <1>1, <1>2, <3>2, LenProperties
    <3> QED BY <3>1, <3>2
  <2> QED BY <1>1, <1>4, <2>1, JoinedIs
<1>6. CASE all = <<>>
  <2>1. /\ at' = spot /\ use' = IF cur = None THEN use ELSE "spent"
        /\ cur' = cur /\ rot' = rot /\ list' = list /\ over' = over
    BY <1>3, <1>4, <1>6
  <2>2. PieceFits'
    <3>1. ASSUME cur # None
          PROVE  /\ Covered(cur', rot', at') \subseteq Columns \X (0 .. Height - 1)
                 /\ use' = "spent"
      BY <2>1, <3>1 DEF Ground
    <3> QED BY <2>1, <3>1 DEF PieceFits
  <2> QED BY <2>1, <2>2 DEF PieceOK, Fits, Pieces
<1>7. CASE all # <<>>
  <2>1. Enter(Head(all), Tail(all), rows', before, [u EXCEPT !.add = new])
    BY <1>3, <1>4, <1>7
  <2>2. Head(all) \in Pieces /\ Tail(all) \in Seq(Pieces) /\ Len(Tail(all)) <= Preview
    <3>1. Tail(all) \in Seq(Pieces) /\ Len(Tail(all)) = Len(all) - 1
      BY <1>5, <1>7, HeadTailProperties
    <3>2. Len(all) \in Nat
      BY <1>5, LenProperties
    <3> QED BY <1>5, <1>7, <3>1, <3>2, HeadTailProperties, Sizes
  <2>3. PICK h, t, w : h = Head(all) /\ t = Tail(all) /\ w = [u EXCEPT !.add = new]
    OBVIOUS
  <2> QED BY <1>1, <2>1, <2>2, <2>3, EnterOK
<1> QED BY <1>6, <1>7

\* lock() of the current piece on free ground.
LEMMA LockOK ==
  ASSUME Fits, match' = match, cur # None, NEW spot \in Int \X Int,
         Covered(cur, rot, spot) \subseteq Ground, LockAt(spot)
  PROVE  Fits'
<1>1. rows \in Grid
  BY DEF Fits, RowsOK
<1>2. PICK full : full = Put(rows, Covered(cur, rot, spot))
  OBVIOUS
<1>3. full \in Grid
  BY <1>1, <1>2, PutIs
<1>4. /\ locks < match.locks /\ locks' = locks + 1
      /\ rows' = Cleared(full) /\ cleared' = cleared + Len(Removed(full))
      /\ exact' = (exact /\ use = "fresh") /\ credit' = TRUE
      /\ hold' = hold /\ inserted' = inserted
  BY <1>2 DEF LockAt
<1>5. \E before, u : NextPiece(rows', spot, before, u)
  BY DEF LockAt
<1>6. /\ rows' \in Grid /\ Sparse(rows') /\ Removed(full) \in Seq(0 .. Height - 1)
  BY <1>3, <1>4, ClearedSparse
<1>7. PieceOK'
  BY <1>5, <1>6, NextPieceOK
<1>8. RowsOK'
  <2>1. Len(Removed(full)) \in Nat
    BY <1>6, LenProperties
  <2>2. cleared' \in Nat
    BY <1>4, <2>1 DEF Fits, RowsOK
  <2>3. locks' \in 0 .. match.locks
    BY <1>4, MatchIs DEF Fits, RowsOK
  <2>4. exact' \in BOOLEAN /\ credit' \in BOOLEAN
    BY <1>4
  <2>5. Pieces' = Pieces
    BY DEF Pieces
  <2> QED BY <1>4, <1>6, <2>2, <2>3, <2>4, <2>5 DEF Fits, RowsOK, Sparse
<1> QED BY <1>7, <1>8 DEF Fits

\* A piece that has not been locked.
LEMMA ShownOK ==
  ASSUME Fits, match' = match, cur # None, ~over,
         NEW spot \in Int \X Int, NEW r \in 0 .. 3,
         Covered(cur, r, spot) \subseteq Ground,
         use = "fresh" => Free(rows, cur, r, spot),
         Shown(spot, r)
  PROVE  Fits'
<1>1. /\ at' = spot /\ rot' = r
      /\ UNCHANGED <<rows, cur, list, hold, credit, over, history>>
  BY DEF Shown
<1>2. PieceFits'
  <2>1. Covered(cur', rot', at') \subseteq Columns \X (0 .. Height - 1)
    BY <1>1 DEF Ground
  <2>2. use' = "fresh" => Free(rows', cur', rot', at')
    BY <1>1 DEF history
  <2> QED BY <2>1, <2>2 DEF PieceFits
<1>3. Pieces' = Pieces
  BY DEF Pieces
<1> QED BY <1>1, <1>2, <1>3 DEF Fits, PieceOK, RowsOK, history, Sparse

\* What is known of a piece that the player can act on.
LEMMA InPlay ==
  ASSUME Fits, Playing
  PROVE  /\ cur \in Terminoes /\ cur # None /\ cur \in Pieces /\ ~over
         /\ at \in Int \X Int /\ at[1] \in Int /\ at[2] \in Int
         /\ at = <<at[1], at[2]>> /\ rot \in 0 .. 3
         /\ Covered(cur, rot, at) \subseteq Ground
         /\ use = "fresh" => Free(rows, cur, rot, at)
BY MatchIs DEF Fits, PieceOK, RowsOK, Playing, PieceFits, Ground

LEMMA LeastOfTwo ==
  ASSUME NEW m \in Nat, NEW n \in Nat
  PROVE  Min({m, n}) \in 0 .. n
<1>1. \A x \in {m, n} : x \in Nat
  OBVIOUS
<1>2. Min({m, n}) \in {m, n} /\ \A x \in {m, n} : Min({m, n}) <= x
  <2>1. \E x \in {m, n} : \A y \in {m, n} : x <= y
    OBVIOUS
  <2> QED BY <2>1 DEF Min
<1>3. Min({m, n}) \in Nat /\ Min({m, n}) <= n
  BY <1>1, <1>2
<1> QED BY <1>3

\* The piece, turned to r, fits there as it did before.
Goes(spot, r) ==
  /\ spot \in Int \X Int /\ r \in 0 .. 3 /\ Covered(cur, r, spot) \subseteq Ground
  /\ use = "fresh" => Free(rows, cur, r, spot)
  /\ Shown(spot, r)

LEMMA MoveGoes ==
  ASSUME Fits, NEW d \in {-1, 1}, Move(d)
  PROVE  Playing /\ \E spot : Goes(spot, rot)
<1>1. Playing
  BY DEF Move
<1>2. PICK w \in Nat : w = Width
  BY Sizes
<1>3. PICK n : n = Steps(rows, cur, rot, at, <<d, 0>>, w)
  OBVIOUS
<1>4. n \in 0 .. w
  BY <1>2, <1>3, StepsAre
<1>5. PICK far \in 0 .. w : Shown(<<at[1] + d * Min({far, n}), at[2]>>, rot)
  BY <1>2, <1>3 DEF Move
<1>6. PICK k \in 0 .. n : k = Min({far, n})
  BY <1>4, LeastOfTwo
<1>7. PICK e \in {<<0, -1>>, <<-1, 0>>, <<1, 0>>} : e = <<d, 0>>
  OBVIOUS
<1>8. PICK spot : spot = <<at[1] + d * k, at[2]>>
  OBVIOUS
<1>9. spot = Onward(at, e, k)
  <2>1. e[1] = d /\ e[2] = 0
    BY <1>7
  <2>2. k * 0 = 0 /\ k \in Int
    BY <1>4
  <2>3. k * d = d * k
    <3>1. CASE d = 1
      BY <2>2, <3>1
    <3>2. CASE d = -1
      BY <2>2, <3>2
    <3> QED BY <3>1, <3>2
  <2>4. at[2] + 0 = at[2]
    BY <1>1, InPlay
  <2> QED BY <1>8, <2>1, <2>2, <2>3, <2>4 DEF Onward
<1>10. k \in 0 .. Steps(rows, cur, rot, at, e, w)
  BY <1>3, <1>7
<1>11. /\ spot \in Int \X Int /\ Covered(cur, rot, spot) \subseteq Ground
       /\ Free(rows, cur, rot, at) => Free(rows, cur, rot, spot)
  BY <1>1, <1>9, <1>10, OnTheWay, InPlay
<1>12. Shown(spot, rot)
  BY <1>5, <1>6, <1>8
<1>13. Goes(spot, rot)
  BY <1>1, <1>11, <1>12, InPlay DEF Goes
<1> QED BY <1>1, <1>13

LEMMA MoveOK ==
  ASSUME Fits, match' = match, NEW d \in {-1, 1}, Move(d)
  PROVE  Fits'
<1>1. PICK spot : Playing /\ Goes(spot, rot)
  BY MoveGoes
<1> QED BY <1>1, InPlay, ShownOK DEF Goes

\* The kicks are offsets.
LEMMA KickIn ==
  ASSUME NEW p, NEW r \in 0 .. 3, NEW count \in {-1, 1, 2}
  PROVE  Kicks(p, r, count) \in Seq(Int \X Int)
<1>a. /\ CommonLeft \in Seq(Seq(Int \X Int)) /\ Len(CommonLeft) = 4
      /\ CommonRight \in Seq(Seq(Int \X Int)) /\ Len(CommonRight) = 4
  BY DEF CommonLeft, CommonRight
<1>b. /\ LongLeft \in Seq(Seq(Int \X Int)) /\ Len(LongLeft) = 4
      /\ LongRight \in Seq(Seq(Int \X Int)) /\ Len(LongRight) = 4
  BY DEF LongLeft, LongRight
<1>c. ASSUME NEW t \in Seq(Seq(Int \X Int)), Len(t) = 4, NEW i \in 0 .. 3
      PROVE  t[i + 1] \in Seq(Int \X Int)
  <2>1. i + 1 \in 1 .. Len(t)
    BY <1>c
  <2> QED BY <2>1, ElementOfSeq
<1>1. \A i \in 0 .. 3 : KicksLeft(p, i) \in Seq(Int \X Int)
  BY <1>a, <1>b, <1>c DEF KicksLeft
<1>2. \A i \in 0 .. 3 : KicksRight(p, i) \in Seq(Int \X Int)
  BY <1>a, <1>b, <1>c DEF KicksRight
<1>3. CASE count = 1
  BY <1>2, <1>3 DEF Kicks
<1>4. CASE count = -1
  BY <1>1, <1>4 DEF Kicks
<1>5. CASE count = 2
  <2>1. (r + 3) % 4 \in 0 .. 3 /\ (r + 5) % 4 \in 0 .. 3
    OBVIOUS
  <2>2. KicksLeft(p, (r + 3) % 4) \o KicksRight(p, (r + 5) % 4) \in Seq(Int \X Int)
    BY <1>1, <1>2, <2>1, ConcatProperties
  <2> QED BY <1>5, <2>2 DEF Kicks
<1> QED BY <1>3, <1>4, <1>5

LEMMA RotateGoes ==
  ASSUME Fits, NEW count \in {-1, 1, 2}, Rotate(count)
  PROVE  Playing /\ \E spot, r : Goes(spot, r)
<1>1. Playing
  BY DEF Rotate
<1>2. PICK to : to = (rot + count + 4) % 4
  OBVIOUS
<1>3. PICK kicks : kicks = Kicks(cur, rot, count)
  OBVIOUS
<1>4. PICK fits : fits = {i \in DOMAIN kicks : Free(rows, cur, to, Plus(at, kicks[i]))}
  OBVIOUS
<1>5. fits # {} /\ Shown(Plus(at, kicks[Min(fits)]), to)
  BY <1>2, <1>3, <1>4 DEF Rotate
<1>6. to \in 0 .. 3
  BY <1>1, <1>2, InPlay
<1>7. kicks \in Seq(Int \X Int)
  BY <1>1, <1>3, InPlay, KickIn
<1>8. fits \subseteq Nat
  <2>1. DOMAIN kicks \subseteq Nat
    BY <1>7
  <2> QED BY <1>4, <2>1
<1>9. PICK i \in fits : i = Min(fits)
  <2>1. PICK t \in fits : TRUE
    BY <1>5
  <2>2. \E x \in fits : \A y \in fits : x <= y
    BY <1>8, <2>1, LeastOf
  <2>3. Min(fits) \in fits
    BY <2>2 DEF Min
  <2> QED BY <2>3
<1>10. PICK spot : spot = Plus(at, kicks[i])
  OBVIOUS
<1>11. spot \in Int \X Int
  <2>1. kicks[i] \in Int \X Int
    BY <1>4, <1>7
  <2> QED BY <1>1, <1>10, <2>1, InPlay DEF Plus
<1>12. Free(rows, cur, to, spot) /\ Shown(spot, to)
  BY <1>4, <1>5, <1>9, <1>10
<1>13. Covered(cur, to, spot) \subseteq Ground
  BY <1>12, FreeInside
<1>14. Goes(spot, to)
  BY <1>6, <1>11, <1>12, <1>13 DEF Goes
<1> QED BY <1>1, <1>14

LEMMA RotateOK ==
  ASSUME Fits, match' = match, NEW count \in {-1, 1, 2}, Rotate(count)
  PROVE  Fits'
<1>1. PICK spot, r : Playing /\ Goes(spot, r)
  BY RotateGoes
<1> QED BY <1>1, InPlay, ShownOK DEF Goes

LEMMA SoftDropOK ==
  ASSUME Fits, match' = match, SoftDrop
  PROVE  Fits'
<1>1. Playing
  BY DEF SoftDrop
<1>2. PICK y : y = Floor(rows, cur, rot, at)
  OBVIOUS
<1>3. y \in Int /\ y <= at[2]
  BY <1>1, <1>2, InPlay, FloorBelow
<1>4. CASE y = at[2]
  <2>1. LockAt(at)
    BY <1>2, <1>4 DEF SoftDrop
  <2> QED BY <1>1, <2>1, InPlay, LockOK
<1>5. CASE y # at[2]
  <2>1. Shown(SoftDropped, rot)
    BY <1>2, <1>5 DEF SoftDrop
  <2>2. SoftDropped = <<at[1], y + 1>>
    BY <1>1, <1>2, <1>3, InPlay DEF SoftDropped, Below
  <2>3. PICK z \in y .. at[2] : z = y + 1
    BY <1>1, <1>3, <1>5, InPlay
  <2>4. PICK spot : spot = <<at[1], z>>
    OBVIOUS
  <2>5. /\ spot \in Int \X Int /\ Covered(cur, rot, spot) \subseteq Ground
        /\ Free(rows, cur, rot, at) => Free(rows, cur, rot, spot)
    BY <1>1, <1>2, <2>4, InPlay, FloorIs
  <2> QED BY <1>1, <2>1, <2>2, <2>3, <2>4, <2>5, InPlay, ShownOK
<1> QED BY <1>4, <1>5

LEMMA DropOK ==
  ASSUME Fits, match' = match, Drop
  PROVE  Fits'
<1>1. Playing
  BY DEF Drop
<1>2. PICK y : y = Floor(rows, cur, rot, at)
  OBVIOUS
<1>3. y \in y .. at[2]
  BY <1>1, <1>2, InPlay, FloorBelow
<1>4. PICK spot : spot = <<at[1], y>>
  OBVIOUS
<1>5. spot \in Int \X Int /\ Covered(cur, rot, spot) \subseteq Ground
  BY <1>1, <1>2, <1>3, <1>4, InPlay, FloorIs
<1>6. LockAt(spot)
  BY <1>2, <1>4 DEF Drop
<1> QED BY <1>1, <1>5, <1>6, InPlay, LockOK

LEMMA LockStepOK ==
  ASSUME Fits, match' = match, Lock
  PROVE  Fits'
<1>1. Playing
  BY DEF Lock
<1>2. CASE Free(rows, cur, rot, Below(at, 1))
  <2>1. PICK spot : spot = Below(at, 1)
    OBVIOUS
  <2>2. spot \in Int \X Int
    BY <1>1, <2>1, InPlay DEF Below
  <2>3. Free(rows, cur, rot, spot) /\ Shown(spot, rot)
    BY <1>2, <2>1 DEF Lock
  <2>4. Covered(cur, rot, spot) \subseteq Ground
    BY <2>3, FreeInside
  <2> QED BY <1>1, <2>2, <2>3, <2>4, InPlay, ShownOK
<1>3. CASE ~Free(rows, cur, rot, Below(at, 1))
  <2>1. LockAt(at)
    BY <1>3 DEF Lock
  <2> QED BY <1>1, <2>1, InPlay, LockOK
<1> QED BY <1>2, <1>3

LEMMA HoldOK ==
  ASSUME Fits, match' = match, Hold
  PROVE  Fits'
<1>1. Playing
  BY DEF Hold
<1>2. /\ credit' = FALSE /\ hold' = cur
      /\ UNCHANGED <<rows, exact, locks, cleared, inserted>>
  BY DEF Hold
<1>3. rows' \in Grid /\ match \in Matches
  BY <1>2 DEF Fits, RowsOK
<1>4. PieceOK'
  <2>1. PICK u : u = [Blank EXCEPT !.hold = cur]
    OBVIOUS
  <2>2. CASE hold = None
    <3>1. NextPiece(rows', at, <<>>, u)
      BY <1>2, <2>1, <2>2 DEF Hold
    <3> QED BY <1>1, <1>3, <3>1, InPlay, NextPieceOK
  <2>3. CASE hold # None
    <3>1. Enter(hold, list, rows', <<>>, u)
      BY <1>2, <2>1, <2>3 DEF Hold
    <3>2. hold \in Pieces /\ list \in Seq(Pieces) /\ Len(list) <= Preview
      BY <2>3 DEF Fits, PieceOK, RowsOK
    <3> QED BY <1>3, <3>1, <3>2, EnterOK
  <2> QED BY <2>2, <2>3
<1>5. RowsOK'
  BY <1>1, <1>2, InPlay DEF Fits, RowsOK, Pieces, Sparse
<1> QED BY <1>4, <1>5 DEF Fits

LEMMA TerminoAvailableOK ==
  ASSUME Fits, match' = match, TerminoAvailable
  PROVE  Fits'
<1>1. UNCHANGED <<rows, hold, credit, exact, locks, cleared, inserted>>
  BY DEF TerminoAvailable
<1>2. RowsOK'
  BY <1>1 DEF Fits, RowsOK, Pieces, Sparse
<1>3. CASE cur = None
  <2>1. NextPiece(rows', at, <<>>, Blank)
    BY <1>1, <1>3 DEF TerminoAvailable
  <2>2. rows' \in Grid /\ at \in Int \X Int
    BY <1>1 DEF Fits, PieceOK, RowsOK
  <2> QED BY <1>2, <1>3, <2>1, <2>2, NextPieceOK DEF Fits
<1>4. CASE cur # None
  <2>1. PICK new \in Dealt(Preview - Len(list)) :
          /\ list' = list \o new
          /\ UNCHANGED <<cur, rot, at, over, use>>
    BY <1>4 DEF TerminoAvailable
  <2>2. list \in Seq(Pieces) /\ Len(list) <= Preview
    BY DEF Fits, PieceOK
  <2>3. PICK n \in Nat : n = Preview - Len(list) /\ Len(list) + n <= Preview
    <3>1. Len(list) \in Nat
      BY <2>2, LenProperties
    <3> QED BY SMTT(30), <2>2, <3>1, Sizes
  <2>4. list' \in Seq(Pieces) /\ Len(list') <= Preview
    BY <2>1, <2>2, <2>3, JoinedIs
  <2>5. PieceFits'
    BY <1>1, <2>1 DEF Fits, PieceOK, PieceFits
  <2>6. Pieces' = Pieces
    BY DEF Pieces
  <2>7. cur' # None
    BY <1>4, <2>1
  <2>8. PieceOK'
    BY <2>1, <2>4, <2>5, <2>6, <2>7 DEF Fits, PieceOK
  <2> QED BY <1>2, <2>8 DEF Fits
<1> QED BY <1>3, <1>4

LEMMA AttackOK ==
  ASSUME Fits, match' = match, NEW n \in 1 .. MaxInserts, Attack(n)
  PROVE  Fits'
<1>1. /\ inserted + n <= MaxInserts /\ inserted' = inserted + n
      /\ rows' = Raised(rows, n) /\ exact' = FALSE
      /\ use' = IF use = "fresh" THEN "pushed" ELSE use
      /\ UNCHANGED <<pieceVars, locks, cleared>>
  BY DEF Attack
<1>2. n \in Nat /\ MaxInserts \in Nat
  BY BoardAssumption
<1>3. rows' \in Grid /\ Sparse(rows')
  BY <1>1, <1>2, RaisedSparse DEF Fits, RowsOK
<1>4. inserted' \in 0 .. MaxInserts
  BY <1>1, <1>2 DEF Fits, RowsOK
<1>5. use' \in {"pushed", "spent"}
  BY <1>1 DEF Fits, PieceOK
<1>6. PieceFits'
  BY <1>1, <1>5 DEF pieceVars, Fits, PieceOK, PieceFits
<1>7. PieceOK'
  BY <1>1, <1>5, <1>6 DEF pieceVars, Fits, PieceOK, Pieces
<1>8. RowsOK'
  BY <1>1, <1>3, <1>4 DEF pieceVars, Fits, RowsOK, Pieces, Sparse
<1> QED BY <1>7, <1>8 DEF Fits

LEMMA InitOK == Init => Fits
<1> SUFFICES ASSUME Init PROVE Fits
  OBVIOUS
<1> USE DEF Init, BoardInit
<1>1. PieceOK
  <2>1. Len(list) = 0 /\ list \in Seq(Pieces)
    OBVIOUS
  <2>2. Len(list) <= Preview
    BY <2>1, Sizes
  <2>3. /\ cur = None /\ cur \in Pieces \cup {None}
        /\ over \in BOOLEAN /\ use \in {"fresh", "pushed", "spent"}
    OBVIOUS
  <2>7. list = <<>> /\ ~over
    OBVIOUS
  <2>5. rot \in 0..3
    OBVIOUS
  <2>6. at \in Int \X Int
    OBVIOUS
  <2>4. PieceFits
    BY <2>3 DEF PieceFits
  <2> HIDE DEF Init, BoardInit
  <2> QED BY <2>1, <2>2, <2>3, <2>4, <2>5, <2>6, <2>7 DEF PieceOK
<1>2. Sparse(rows) /\ rows \in Grid
  BY EmptyGrid, ColumnsAre DEF Sparse
<1>3. locks \in 0 .. match.locks /\ inserted \in 0 .. MaxInserts
  BY MatchIs, BoardAssumption
<1>4. RowsOK
  BY <1>2, <1>3 DEF RowsOK
<1> QED BY <1>1, <1>4 DEF Fits

LEMMA NextOK == Fits /\ [Next]_vars => Fits'
<1> SUFFICES ASSUME Fits, [Next]_vars PROVE Fits'
  OBVIOUS
<1>1. CASE BoardNext
  <2>1. match' = match
    BY <1>1 DEF BoardNext
  <2> QED BY <1>1, <2>1, MoveOK, RotateOK, SoftDropOK, DropOK, LockStepOK, HoldOK,
             TerminoAvailableOK, AttackOK DEF BoardNext
<1>2. CASE UNCHANGED <<match, rows, pieceVars, history>>
  BY <1>2 DEF pieceVars, history, Fits, PieceOK, RowsOK, PieceFits, Pieces, Sparse
<1> QED BY <1>1, <1>2 DEF Next, ClientReads, ClientJoins, vars, boardVars

THEOREM FitsInductive == Spec => []Fits
BY InitOK, NextOK, PTL DEF Spec

\* Whatever is dealt and whatever the player, the timers and the attacker do,
\* the board's state has its types.
THEOREM BoardTypes == Spec => []TypeOK
BY FitsInductive, FitsIs, PTL

\* Every cell of the current piece is on the board, and on free ground until
\* lines come in under it or it is locked with no other to follow.
THEOREM PieceStaysInside == Spec => []PieceFits
BY FitsInductive, FitsIs, PTL

\* No full line outlives the lock() that filled it, although its loop erases
\* rows of the deque it is going through.
THEOREM NoLineIsForgotten == Spec => []NoFullLine
BY FitsInductive, FitsIs, PTL
-----------------------------------------------------------------------------
(* How many cells are occupied. *)

\* A one-to-one image has as many elements.
LEMMA ImageSize ==
  ASSUME NEW S, IsFiniteSet(S), NEW f, f = [x \in S |-> f[x]],
         \A x, y \in S : f[x] = f[y] => x = y,
         NEW T, T = {f[x] : x \in S}
  PROVE  IsFiniteSet(T) /\ Cardinality(T) = Cardinality(S)
<1>1. f \in Bijection(S, T)
  BY DEF Bijection, Injection, Surjection, IsInjective
<1>2. ExistsBijection(S, T)
  BY <1>1 DEF ExistsBijection
<1> QED BY <1>2, FS_Bijection

LEMMA FourOf ==
  ASSUME NEW a, NEW b, NEW c, NEW d, a # b, a # c, a # d, b # c, b # d, c # d
  PROVE  IsFiniteSet({a, b, c, d}) /\ Cardinality({a, b, c, d}) = 4
<1>1. IsFiniteSet({a}) /\ Cardinality({a}) = 1
  BY FS_Singleton
<1>2. IsFiniteSet({a, b}) /\ Cardinality({a, b}) = 2
  <2>1. {a, b} = {a} \cup {b} /\ b \notin {a}
    OBVIOUS
  <2> QED BY <1>1, <2>1, FS_AddElement
<1>3. IsFiniteSet({a, b, c}) /\ Cardinality({a, b, c}) = 3
  <2>1. {a, b, c} = {a, b} \cup {c} /\ c \notin {a, b}
    OBVIOUS
  <2> QED BY <1>2, <2>1, FS_AddElement
<1>4. {a, b, c, d} = {a, b, c} \cup {d} /\ d \notin {a, b, c}
  OBVIOUS
<1> QED BY <1>3, <1>4, FS_AddElement

\* A piece has four cells, however it is turned.
LEMMA FourCells ==
  ASSUME NEW p \in Terminoes, NEW r \in 0 .. 3
  PROVE  IsFiniteSet(Shape[p][r]) /\ Cardinality(Shape[p][r]) = 4
<1>1. IsFiniteSet(Cells[p]) /\ Cardinality(Cells[p]) = 4
  <2>1. CASE p = "I"
    <3>1. PICK a, b, c, d : a = <<0, 2>> /\ b = <<1, 2>> /\ c = <<2, 2>> /\ d = <<3, 2>>
      OBVIOUS
    <3>2. a # b /\ a # c /\ a # d /\ b # c /\ b # d /\ c # d
      BY <3>1
    <3>3. Cells[p] = {a, b, c, d}
      BY <2>1, <3>1 DEF Cells
    <3>4. IsFiniteSet({a, b, c, d}) /\ Cardinality({a, b, c, d}) = 4
      BY <3>2, FourOf
    <3> QED BY <3>3, <3>4
  <2>2. CASE p = "L"
    <3>1. PICK a, b, c, d : a = <<0, 2>> /\ b = <<0, 1>> /\ c = <<1, 1>> /\ d = <<2, 1>>
      OBVIOUS
    <3>2. a # b /\ a # c /\ a # d /\ b # c /\ b # d /\ c # d
      BY <3>1
    <3>3. Cells[p] = {a, b, c, d}
      BY <2>2, <3>1 DEF Cells
    <3>4. IsFiniteSet({a, b, c, d}) /\ Cardinality({a, b, c, d}) = 4
      BY <3>2, FourOf
    <3> QED BY <3>3, <3>4
  <2>3. CASE p = "J"
    <3>1. PICK a, b, c, d : a = <<0, 1>> /\ b = <<1, 1>> /\ c = <<2, 1>> /\ d = <<2, 2>>
      OBVIOUS
    <3>2. a # b /\ a # c /\ a # d /\ b # c /\ b # d /\ c # d
      BY <3>1
    <3>3. Cells[p] = {a, b, c, d}
      BY <2>3, <3>1 DEF Cells
    <3>4. IsFiniteSet({a, b, c, d}) /\ Cardinality({a, b, c, d}) = 4
      BY <3>2, FourOf
    <3> QED BY <3>3, <3>4
  <2>4. CASE p = "O"
    <3>1. PICK a, b, c, d : a = <<1, 2>> /\ b = <<1, 1>> /\ c = <<2, 1>> /\ d = <<2, 2>>
      OBVIOUS
    <3>2. a # b /\ a # c /\ a # d /\ b # c /\ b # d /\ c # d
      BY <3>1
    <3>3. Cells[p] = {a, b, c, d}
      BY <2>4, <3>1 DEF Cells
    <3>4. IsFiniteSet({a, b, c, d}) /\ Cardinality({a, b, c, d}) = 4
      BY <3>2, FourOf
    <3> QED BY <3>3, <3>4
  <2>5. CASE p = "S"
    <3>1. PICK a, b, c, d : a = <<0, 1>> /\ b = <<1, 1>> /\ c = <<1, 2>> /\ d = <<2, 2>>
      OBVIOUS
    <3>2. a # b /\ a # c /\ a # d /\ b # c /\ b # d /\ c # d
      BY <3>1
    <3>3. Cells[p] = {a, b, c, d}
      BY <2>5, <3>1 DEF Cells
    <3>4. IsFiniteSet({a, b, c, d}) /\ Cardinality({a, b, c, d}) = 4
      BY <3>2, FourOf
    <3> QED BY <3>3, <3>4
  <2>6. CASE p = "Z"
    <3>1. PICK a, b, c, d : a = <<0, 2>> /\ b = <<1, 2>> /\ c = <<1, 1>> /\ d = <<2, 1>>
      OBVIOUS
    <3>2. a # b /\ a # c /\ a # d /\ b # c /\ b # d /\ c # d
      BY <3>1
    <3>3. Cells[p] = {a, b, c, d}
      BY <2>6, <3>1 DEF Cells
    <3>4. IsFiniteSet({a, b, c, d}) /\ Cardinality({a, b, c, d}) = 4
      BY <3>2, FourOf
    <3> QED BY <3>3, <3>4
  <2>7. CASE p = "T"
    <3>1. PICK a, b, c, d : a = <<0, 1>> /\ b = <<1, 2>> /\ c = <<1, 1>> /\ d = <<2, 1>>
      OBVIOUS
    <3>2. a # b /\ a # c /\ a # d /\ b # c /\ b # d /\ c # d
      BY <3>1
    <3>3. Cells[p] = {a, b, c, d}
      BY <2>7, <3>1 DEF Cells
    <3>4. IsFiniteSet({a, b, c, d}) /\ Cardinality({a, b, c, d}) = 4
      BY <3>2, FourOf
    <3> QED BY <3>3, <3>4
  <2> QED BY <2>1, <2>2, <2>3, <2>4, <2>5, <2>6, <2>7 DEF Terminoes
<1>2. PICK T : T = {k \in 0 .. 3 : IsFiniteSet(Shape[p][k]) /\ Cardinality(Shape[p][k]) = 4}
  OBVIOUS
<1>3. 0 \in T
  BY <1>1, <1>2, ShapeIs
<1>4. ASSUME NEW k \in 1 .. 3, k - 1 \in T  PROVE k \in T
  <2>1. PICK S : S = Shape[p][k - 1]
    OBVIOUS
  <2>2. IsFiniteSet(S) /\ Cardinality(S) = 4
    BY <1>2, <1>4, <2>1
  <2>3. S \subseteq Inside(p)
    <3>1. k - 1 \in 0 .. 3
      OBVIOUS
    <3> QED BY <2>1, <3>1, ShapeIn
  <2>4. PICK f : f = [c \in S |-> Turned(p, c)]
    OBVIOUS
  <2>5. ASSUME NEW x \in S, NEW y \in S, f[x] = f[y]  PROVE x = y
    <3>1. x \in Inside(p) /\ y \in Inside(p)
      BY <2>3
    <3>2. /\ x = <<x[1], x[2]>> /\ y = <<y[1], y[2]>> /\ Box(p) \in Int
          /\ x[1] \in Int /\ x[2] \in Int /\ y[1] \in Int /\ y[2] \in Int
      BY <3>1, Sizes DEF Inside
    <3>3. <<x[2], Box(p) - 1 - x[1]>> = <<y[2], Box(p) - 1 - y[1]>>
      BY <2>4, <2>5 DEF Turned
    <3>4. x[2] = y[2] /\ Box(p) - 1 - x[1] = Box(p) - 1 - y[1]
      BY <3>3
    <3>5. x[1] = y[1]
      BY <3>2, <3>4
    <3> QED BY <3>2, <3>4, <3>5
  <2>6. Shape[p][k] = {f[c] : c \in S}
    BY <2>1, <2>4, ShapeIs
  <2>7. f = [c \in S |-> f[c]]
    BY <2>4
  <2>8. IsFiniteSet(Shape[p][k]) /\ Cardinality(Shape[p][k]) = 4
    BY <2>2, <2>5, <2>6, <2>7, ImageSize
  <2> QED BY <1>2, <2>8
<1>5. \A k \in 0 .. 3 : k \in T
  BY <1>3, <1>4, Loop
<1> QED BY <1>2, <1>5

\* What is on a board can be counted.
LEMMA OccupiedFinite ==
  ASSUME NEW b
  PROVE  IsFiniteSet(Occupied(b)) /\ Cardinality(Occupied(b)) \in Nat
<1>1. IsFiniteSet(Columns) /\ IsFiniteSet(1 .. Height)
  BY Sizes, FS_Interval DEF Columns
<1>2. IsFiniteSet(Columns \X (1 .. Height))
  BY <1>1, FS_Product
<1>3. Occupied(b) \subseteq Columns \X (1 .. Height)
  BY DEF Occupied
<1>4. IsFiniteSet(Occupied(b))
  BY <1>2, <1>3, FS_Subset
<1> QED BY <1>4, FS_CardinalityType

LEMMA EmptyCells == Cardinality(Occupied(Empty)) = 0
<1>1. Occupied(Empty) = {}
  BY EmptyGrid DEF Occupied
<1> QED BY <1>1, FS_EmptySet

\* A piece put on free ground adds its four cells.
LEMMA PutCells ==
  ASSUME NEW b \in Grid, NEW p \in Terminoes, NEW r \in 0 .. 3,
         NEW spot \in Int \X Int, Free(b, p, r, spot),
         NEW full, full = Put(b, Covered(p, r, spot))
  PROVE  Cardinality(Occupied(full)) = Cardinality(Occupied(b)) + 4
<1>1. PICK S : S = Shape[p][r]
  OBVIOUS
<1>2. IsFiniteSet(S) /\ Cardinality(S) = 4 /\ S \subseteq Inside(p)
  BY <1>1, FourCells, ShapeIn
<1>3. PICK f : f = [c \in S |-> <<spot[1] + c[1], spot[2] + c[2] + 1>>]
  OBVIOUS
<1>4. \A c \in S : c[1] \in Int /\ c[2] \in Int /\ c = <<c[1], c[2]>>
  BY <1>2, Sizes DEF Inside
<1>5. ASSUME NEW x \in S, NEW y \in S, f[x] = f[y]  PROVE x = y
  <2>1. <<spot[1] + x[1], spot[2] + x[2] + 1>> = <<spot[1] + y[1], spot[2] + y[2] + 1>>
    BY <1>3, <1>5
  <2>2. spot[1] + x[1] = spot[1] + y[1] /\ spot[2] + x[2] + 1 = spot[2] + y[2] + 1
    BY <2>1
  <2>3. x[1] = y[1] /\ x[2] = y[2]
    BY <1>4, <2>2
  <2> QED BY <1>4, <2>3
<1>6. PICK N : N = {f[c] : c \in S}
  OBVIOUS
<1>7. f = [c \in S |-> f[c]]
  BY <1>3
<1>8. IsFiniteSet(N) /\ Cardinality(N) = 4
  BY <1>2, <1>5, <1>6, <1>7, ImageSize
<1>9. \A i \in 1 .. Height :
        full[i] = b[i] \cup {x \in Columns : <<x, i - 1>> \in Covered(p, r, spot)}
  BY PutIs
<1>10. \A x, y \in Int : <<x, y>> \in N <=> <<x, y - 1>> \in Covered(p, r, spot)
  <2>1. ASSUME NEW x \in Int, NEW y \in Int, <<x, y>> \in N
        PROVE  <<x, y - 1>> \in Covered(p, r, spot)
    <3>1. PICK c \in S : <<x, y>> = <<spot[1] + c[1], spot[2] + c[2] + 1>>
      BY <1>3, <1>6, <2>1
    <3>2. x = spot[1] + c[1] /\ y - 1 = spot[2] + c[2]
      BY <1>4, <3>1
    <3> QED BY <1>1, <3>2 DEF Covered, Plus
  <2>2. ASSUME NEW x \in Int, NEW y \in Int, <<x, y - 1>> \in Covered(p, r, spot)
        PROVE  <<x, y>> \in N
    <3>1. PICK c \in S : <<x, y - 1>> = <<spot[1] + c[1], spot[2] + c[2]>>
      BY <1>1, <2>2 DEF Covered, Plus
    <3>2. x = spot[1] + c[1] /\ y = spot[2] + c[2] + 1
      BY <1>4, <3>1
    <3>3. f[c] = <<x, y>>
      BY <1>3, <3>2
    <3> QED BY <1>6, <3>3
  <2> QED BY <2>1, <2>2
<1>11. ASSUME NEW n \in N
       PROVE  n \in Columns \X (1 .. Height) /\ n \notin Occupied(b)
  <2>1. PICK c \in S : n = <<spot[1] + c[1], spot[2] + c[2] + 1>>
    BY <1>3, <1>6
  <2>2. PICK d : d = Plus(spot, c)
    OBVIOUS
  <2>3. d = <<spot[1] + c[1], spot[2] + c[2]>> /\ ~Taken(b, d)
    BY <1>1, <2>2 DEF Free, Covered, Plus
  <2>4. d[1] \in Columns /\ d[2] \in 0 .. Height - 1 /\ d[1] \notin b[d[2] + 1]
    BY <2>3 DEF Taken
  <2>5. n[1] = d[1] /\ n[2] = d[2] + 1
    BY <1>4, <2>1, <2>3
  <2>6. n[2] \in 1 .. Height
    BY <2>4, <2>5, Sizes
  <2> QED BY <2>1, <2>4, <2>5, <2>6 DEF Occupied
<1>12. Occupied(full) = Occupied(b) \cup N
  <2>1. ASSUME NEW x \in Columns, NEW y \in 1 .. Height
        PROVE  <<x, y>> \in Occupied(full) <=> <<x, y>> \in Occupied(b) \cup N
    <3>1. x \in Int /\ y \in Int
      BY DEF Columns
    <3>2. x \in full[y] <=> x \in b[y] \/ <<x, y>> \in N
      BY <1>9, <1>10, <3>1
    <3> QED BY <3>2 DEF Occupied
  <2>2. Occupied(b) \cup N \subseteq Columns \X (1 .. Height)
    BY <1>11 DEF Occupied
  <2>3. Occupied(full) \subseteq Columns \X (1 .. Height)
    BY DEF Occupied
  <2> HIDE DEF Occupied
  <2>4. PICK A : A = Occupied(full)
    OBVIOUS
  <2>5. PICK B : B = Occupied(b) \cup N
    OBVIOUS
  <2>6. A = B
    BY <2>1, <2>2, <2>3, <2>4, <2>5
  <2> QED BY <2>4, <2>5, <2>6
<1>13. Occupied(b) \cap N = {}
  BY <1>11
<1>14. Cardinality(Occupied(full)) = Cardinality(Occupied(b)) + Cardinality(N) - Cardinality({})
  BY <1>8, <1>12, <1>13, OccupiedFinite, FS_Union
<1> QED BY <1>8, <1>14, FS_EmptySet, OccupiedFinite

LEMMA OccupiedIs ==
  ASSUME NEW b, NEW c
  PROVE  c \in Occupied(b) <=>
           c = <<c[1], c[2]>> /\ c[1] \in Columns /\ c[2] \in 1 .. Height /\ c[1] \in b[c[2]]
BY DEF Occupied

\* A full line that goes takes Width cells with it.
LEMMA ClearCells ==
  ASSUME NEW b \in Grid, NEW y \in 0 .. Height - 1, b[y + 1] = Columns
  PROVE  Cardinality(Occupied(b)) = Cardinality(Occupied(ClearLine(b, y))) + Width
<1>1. PICK z : z = ClearLine(b, y)
  OBVIOUS
<1>2. /\ z[Height] = {}
      /\ \A i \in 1 .. Height - 1 : z[i] = IF i <= y THEN b[i] ELSE b[i + 1]
  BY <1>1, ClearLineIs
<1>3. PICK R : R = Columns \X {y + 1}
  OBVIOUS
<1>4. IsFiniteSet(R) /\ Cardinality(R) = Width
  <2>1. IsFiniteSet(Columns) /\ Cardinality(Columns) = Width
    <3>1. 0 \in Int /\ Width - 1 \in Int /\ ~(0 > Width - 1) /\ (Width - 1) - 0 + 1 = Width
      BY Sizes
    <3> QED BY <3>1, FS_Interval DEF Columns
  <2>2. IsFiniteSet({y + 1}) /\ Cardinality({y + 1}) = 1
    BY FS_Singleton
  <2>3. IsFiniteSet(R) /\ Cardinality(R) = Width * 1
    BY <1>3, <2>1, <2>2, FS_Product
  <2> QED BY <2>3, Sizes
<1>5. PICK S : S = Occupied(b) \ R
  OBVIOUS
<1>6. R \subseteq Occupied(b)
  <2>1. y + 1 \in 1 .. Height
    BY Sizes
  <2>2. ASSUME NEW c \in R  PROVE c \in Occupied(b)
    <3>1. c = <<c[1], c[2]>> /\ c[1] \in Columns /\ c[2] = y + 1
      BY <1>3
    <3> QED BY <2>1, <3>1, OccupiedIs
  <2> QED BY <2>2
<1>7. IsFiniteSet(S) /\ Cardinality(S) = Cardinality(Occupied(b)) - Width
  <2>1. Occupied(b) \cap R = R
    BY <1>6
  <2>2. IsFiniteSet(S) /\ Cardinality(S) = Cardinality(Occupied(b)) - Cardinality(Occupied(b) \cap R)
    BY <1>5, OccupiedFinite, FS_Difference
  <2> QED BY <1>4, <2>1, <2>2
<1>8. \A c : c \in S <=> /\ c = <<c[1], c[2]>> /\ c[1] \in Columns /\ c[2] \in 1 .. Height
                         /\ c[1] \in b[c[2]] /\ c[2] # y + 1
  BY <1>3, <1>5, OccupiedIs
<1>9. PICK f : f = [c \in S |-> <<c[1], IF c[2] <= y THEN c[2] ELSE c[2] - 1>>]
  OBVIOUS
<1>10. ASSUME NEW c \in S, NEW d \in S, f[c] = f[d]  PROVE c = d
  <2>1. c[1] = d[1] /\ (IF c[2] <= y THEN c[2] ELSE c[2] - 1)
                       = (IF d[2] <= y THEN d[2] ELSE d[2] - 1)
    <3>1. <<c[1], IF c[2] <= y THEN c[2] ELSE c[2] - 1>>
          = <<d[1], IF d[2] <= y THEN d[2] ELSE d[2] - 1>>
      BY <1>9, <1>10
    <3> QED BY <3>1
  <2>2. c[2] \in Nat /\ d[2] \in Nat /\ c[2] # y + 1 /\ d[2] # y + 1 /\ y \in Nat
    BY <1>8, Sizes
  <2>3. c[2] = d[2]
    BY <2>1, <2>2
  <2> QED BY <1>8, <2>1, <2>3
<1>11. Occupied(z) = {f[c] : c \in S}
  <2>1. ASSUME NEW t \in Occupied(z)  PROVE \E c \in S : t = f[c]
    <3>1. t = <<t[1], t[2]>> /\ t[1] \in Columns /\ t[2] \in 1 .. Height /\ t[1] \in z[t[2]]
      BY OccupiedIs
    <3>2. t[2] \in 1 .. Height - 1
      BY <1>2, <3>1, Sizes
    <3>3. CASE t[2] <= y
      <4>1. t[1] \in b[t[2]] /\ t[2] # y + 1
        BY <1>2, <3>1, <3>2, <3>3
      <4>2. t \in S
        BY <1>8, <3>1, <4>1
      <4>3. f[t] = t
        BY <1>9, <3>1, <3>3, <4>2
      <4> QED BY <4>2, <4>3
    <3>4. CASE ~(t[2] <= y)
      <4>1. PICK c : c = <<t[1], t[2] + 1>>
        OBVIOUS
      <4>2. t[1] \in b[t[2] + 1] /\ t[2] + 1 \in 1 .. Height /\ t[2] + 1 # y + 1
            /\ ~(t[2] + 1 <= y) /\ t[2] + 1 - 1 = t[2]
        BY <1>2, <3>1, <3>2, <3>4, Sizes
      <4>3. c[1] = t[1] /\ c[2] = t[2] + 1 /\ c = <<c[1], c[2]>>
        BY <4>1
      <4>4. c \in S
        BY <1>8, <3>1, <4>2, <4>3
      <4>5. f[c] = t
        BY <1>9, <3>1, <4>2, <4>3, <4>4
      <4> QED BY <4>4, <4>5
    <3> QED BY <3>3, <3>4
  <2>2. ASSUME NEW c \in S  PROVE f[c] \in Occupied(z)
    <3>1. /\ c[1] \in Columns /\ c[2] \in 1 .. Height
          /\ c[1] \in b[c[2]] /\ c[2] # y + 1
      BY <1>8
    <3>2. PICK j : j = IF c[2] <= y THEN c[2] ELSE c[2] - 1
      OBVIOUS
    <3>3. j \in 1 .. Height - 1
      BY <3>1, <3>2, Sizes
    <3>4. c[1] \in z[j]
      <4>1. CASE c[2] <= y
        BY <1>2, <3>1, <3>2, <3>3, <4>1
      <4>2. CASE ~(c[2] <= y)
        <5>1. j = c[2] - 1 /\ ~(j <= y) /\ j + 1 = c[2]
          BY <3>1, <3>2, <4>2, Sizes
        <5> QED BY <1>2, <3>1, <3>3, <5>1
      <4> QED BY <4>1, <4>2
    <3>5. PICK t : t = <<c[1], j>>
      OBVIOUS
    <3>6. t[1] = c[1] /\ t[2] = j /\ j \in 1 .. Height
      BY <3>3, <3>5, Sizes
    <3>7. t \in Occupied(z)
      BY <3>1, <3>4, <3>5, <3>6, OccupiedIs
    <3>8. f[c] = t
      BY <1>9, <3>2, <3>5
    <3> QED BY <3>7, <3>8
  <2> QED BY <2>1, <2>2
<1>12. f = [c \in S |-> f[c]]
  BY <1>9
<1>13. Cardinality(Occupied(z)) = Cardinality(S)
  BY <1>7, <1>10, <1>11, <1>12, ImageSize
<1> QED BY <1>1, <1>7, <1>13, OccupiedFinite, Sizes

\* Every line that the loop removes accounts for Width cells.
LEMMA ClearedCells ==
  ASSUME NEW b \in Grid
  PROVE  Cardinality(Occupied(b)) =
           Cardinality(Occupied(Cleared(b))) + Width * Len(Removed(b))
<1>1. PICK f \in [0 .. Height -> Cleanup] :
        /\ f[0] = [rows |-> b, removed |-> <<>>] /\ f[Height] = ClearLoop(b)
        /\ \A k \in 1 .. Height : f[k] = ClearStep(k, f[k - 1])
  BY ClearLoopIs
<1> DEFINE Total(s) == Cardinality(Occupied(s.rows)) + Width * Len(s.removed)
<1>2. PICK T : T = {k \in 0 .. Height : Cardinality(Occupied(b)) = Total(f[k])}
  OBVIOUS
<1>3. 0 \in T
  <2>1. f[0].rows = b /\ Len(f[0].removed) = 0
    BY <1>1
  <2>2. Width * 0 = 0 /\ 0 \in 0 .. Height
    BY Sizes
  <2>3. Total(f[0]) = Cardinality(Occupied(b))
    BY <2>1, <2>2, OccupiedFinite
  <2> QED BY <1>2, <2>2, <2>3
<1>4. ASSUME NEW k \in 1 .. Height, k - 1 \in T  PROVE k \in T
  <2>1. PICK s \in Cleanup : s = f[k - 1]
    <3>1. k - 1 \in 0 .. Height
      BY Sizes
    <3> QED BY <1>1, <3>1
  <2>2. f[k] = ClearStep(k, s) /\ s.rows \in Grid /\ s.removed \in Seq(0 .. Height - 1)
    BY <1>1, <2>1 DEF Cleanup
  <2>3. Cardinality(Occupied(b)) = Total(s) /\ k \in 0 .. Height
    BY <1>2, <1>4, <2>1, Sizes
  <2>4. PICK y \in 0 .. Height - 1 : y = Height - k /\ Height - k + 1 = y + 1
    BY Sizes
  <2>5. CASE s.rows[y + 1] = Columns
    <3>1. /\ f[k].rows = ClearLine(s.rows, y)
          /\ f[k].removed = Append(s.removed, y)
      BY <2>2, <2>4, <2>5 DEF ClearStep
    <3>2. Cardinality(Occupied(s.rows)) = Cardinality(Occupied(f[k].rows)) + Width
      BY <2>2, <2>5, <3>1, ClearCells
    <3>3. Len(f[k].removed) = Len(s.removed) + 1 /\ Len(s.removed) \in Nat
      BY <2>2, <3>1, AppendProperties, LenProperties
    <3>4. \A w, n \in Nat : w * (n + 1) = w * n + w /\ w * n \in Nat
      OBVIOUS
    <3>5. Width * (Len(s.removed) + 1) = Width * Len(s.removed) + Width
          /\ Width * Len(s.removed) \in Nat
      BY <3>3, <3>4, Sizes
    <3>6. PICK a, c, m \in Nat :
            /\ a = Cardinality(Occupied(s.rows)) /\ c = Cardinality(Occupied(f[k].rows))
            /\ m = Width * Len(s.removed)
      <4>1. PICK a \in Nat : a = Cardinality(Occupied(s.rows))
        BY OccupiedFinite
      <4>2. PICK c \in Nat : c = Cardinality(Occupied(f[k].rows))
        BY OccupiedFinite
      <4>3. PICK m \in Nat : m = Width * Len(s.removed)
        BY <3>5
      <4> QED BY <4>1, <4>2, <4>3
    <3>7. Total(s) = a + m /\ Total(f[k]) = c + (m + Width) /\ a = c + Width
      BY <3>2, <3>3, <3>5, <3>6
    <3>8. Total(s) = Total(f[k])
      BY <3>6, <3>7, Sizes
    <3> QED BY <1>2, <2>3, <3>8
  <2>6. CASE s.rows[y + 1] # Columns
    <3>1. f[k] = s
      BY <2>2, <2>4, <2>6 DEF ClearStep
    <3> QED BY <1>2, <2>3, <3>1
  <2> QED BY <2>5, <2>6
<1>5. \A k \in 0 .. Height : k \in T
  BY <1>3, <1>4, Loop, Sizes
<1>6. Cardinality(Occupied(b)) = Total(f[Height])
  BY <1>2, <1>5, Sizes
<1> QED BY <1>1, <1>6 DEF Cleared, Removed

LEMMA LockCells ==
  ASSUME Fits, CellsAccounted, Playing, NEW spot \in Int \X Int,
         use = "fresh" => Free(rows, cur, rot, spot), LockAt(spot)
  PROVE  CellsAccounted'
<1>1. PICK full : full = Put(rows, Covered(cur, rot, spot))
  OBVIOUS
<1>2. /\ locks' = locks + 1 /\ rows' = Cleared(full)
      /\ cleared' = cleared + Len(Removed(full))
      /\ exact' = (exact /\ use = "fresh")
  BY <1>1 DEF LockAt
<1>3. SUFFICES ASSUME exact' = TRUE
               PROVE  Cardinality(Occupied(rows')) = 4 * locks' - Width * cleared'
  BY DEF CellsAccounted
<1>4. exact = TRUE /\ use = "fresh"
  BY <1>2, <1>3 DEF Fits, RowsOK
<1>5. Cardinality(Occupied(rows)) = 4 * locks - Width * cleared
  BY <1>4 DEF CellsAccounted
<1>6. rows \in Grid /\ locks \in Nat /\ cleared \in Nat
  BY MatchIs DEF Fits, RowsOK
<1>7. full \in Grid
  BY <1>1, <1>6, PutIs
<1>8. Cardinality(Occupied(full)) = Cardinality(Occupied(rows)) + 4
  BY <1>1, <1>4, <1>6, InPlay, PutCells
<1>9. Cardinality(Occupied(full)) =
        Cardinality(Occupied(rows')) + Width * Len(Removed(full))
  BY <1>2, <1>7, ClearedCells
<1>10. PICK w \in Nat, c \in Nat, n \in Nat :
         w = Width /\ c = cleared /\ n = Len(Removed(full))
  <2>1. Len(Removed(full)) \in Nat
    BY <1>7, ClearedSparse, LenProperties
  <2> QED BY <1>6, <2>1, Sizes
<1>11. w * (c + n) = w * c + w * n /\ w * c \in Nat /\ w * n \in Nat
  OBVIOUS
<1>12. PICK wc \in Nat, wn \in Nat : wc = w * c /\ wn = w * n
  BY <1>11
<1>13. Width * cleared' = wc + wn /\ Width * cleared = wc /\ Width * Len(Removed(full)) = wn
  BY <1>2, <1>10, <1>11, <1>12
<1>14. PICK a \in Nat : a = Cardinality(Occupied(rows'))
  BY OccupiedFinite
<1>15. a + wn = (4 * locks - wc) + 4
  BY <1>5, <1>8, <1>9, <1>13, <1>14
<1>16. a = 4 * (locks + 1) - (wc + wn)
  BY <1>6, <1>12, <1>15
<1> QED BY <1>2, <1>13, <1>14, <1>16

LEMMA NextCells == Fits /\ CellsAccounted /\ [Next]_vars => CellsAccounted'
<1> SUFFICES ASSUME Fits, CellsAccounted, [Next]_vars PROVE CellsAccounted'
  OBVIOUS
<1>1. CASE UNCHANGED <<rows, exact, locks, cleared>>
  BY <1>1 DEF CellsAccounted
<1>3. CASE \E d \in {-1, 1} : Move(d)
  BY <1>1, <1>3 DEF Move, Shown, history
<1>4. CASE \E count \in {-1, 1, 2} : Rotate(count)
  BY <1>1, <1>4 DEF Rotate, Shown, history
<1>5. CASE SoftDrop
  <2>1. Playing
    BY <1>5 DEF SoftDrop
  <2>2. CASE LockAt(at)
    BY <2>1, <2>2, InPlay, LockCells
  <2>3. CASE Shown(SoftDropped, rot)
    BY <1>1, <2>3 DEF Shown, history
  <2> QED BY <1>5, <2>2, <2>3 DEF SoftDrop
<1>6. CASE Drop
  <2>1. Playing
    BY <1>6 DEF Drop
  <2>2. PICK y : y = Floor(rows, cur, rot, at)
    OBVIOUS
  <2>3. y \in y .. at[2]
    BY <2>1, <2>2, InPlay, FloorBelow
  <2>4. PICK spot : spot = <<at[1], y>>
    OBVIOUS
  <2>5. spot \in Int \X Int /\ (Free(rows, cur, rot, at) => Free(rows, cur, rot, spot))
    BY <2>1, <2>2, <2>3, <2>4, InPlay, FloorIs
  <2>6. LockAt(spot)
    BY <1>6, <2>2, <2>4 DEF Drop
  <2> QED BY <2>1, <2>5, <2>6, InPlay, LockCells
<1>7. CASE Lock
  <2>1. Playing
    BY <1>7 DEF Lock
  <2>2. CASE LockAt(at)
    BY <2>1, <2>2, InPlay, LockCells
  <2>3. CASE Shown(Below(at, 1), rot)
    BY <1>1, <2>3 DEF Shown, history
  <2> QED BY <1>7, <2>2, <2>3 DEF Lock
<1>8. CASE Hold
  BY <1>1, <1>8 DEF Hold
<1>9. CASE TerminoAvailable
  BY <1>1, <1>9 DEF TerminoAvailable
<1>10. CASE \E n \in 1 .. MaxInserts : Attack(n)
  BY <1>10 DEF Attack, CellsAccounted
<1>11. CASE UNCHANGED <<match, rows, pieceVars, history>>
  BY <1>1, <1>11 DEF history
<1>12. [Next]_vars => \/ BoardNext \/ UNCHANGED <<match, rows, pieceVars, history>>
  BY DEF Next, ClientReads, ClientJoins, vars, boardVars
<1> QED BY <1>3, <1>4, <1>5, <1>6, <1>7, <1>8, <1>9, <1>10, <1>11, <1>12 DEF BoardNext

LEMMA InitCells == Init => CellsAccounted
<1> SUFFICES ASSUME Init PROVE Cardinality(Occupied(rows)) = 4 * locks - Width * cleared
  BY DEF CellsAccounted
<1>1. rows = Empty /\ locks = 0 /\ cleared = 0
  BY DEF Init, BoardInit
<1>2. Width * 0 = 0
  BY Sizes
<1> QED BY <1>1, <1>2, EmptyCells

\* Without attacks, and as long as every piece locked is followed by another,
\* the board holds four cells for every lock() but for the lines it cleared:
\* no cell is lost, and none is covered twice.
THEOREM EveryCellAccounted == Spec => []CellsAccounted
<1>1. Fits /\ CellsAccounted /\ [Next]_vars => (Fits /\ CellsAccounted)'
  BY NextOK, NextCells
<1> QED BY <1>1, InitOK, InitCells, PTL DEF Spec
-----------------------------------------------------------------------------
(* The lines of an update, drawn by a client. *)

Removes(f, b, lines, n) ==
  /\ f[0] = b /\ f[n] = Removing(b, lines)
  /\ \A k \in 1 .. n : f[k] = ClearLine(f[k - 1], lines[k])

LEMMA RemovingIs ==
  ASSUME NEW b \in Grid, NEW lines \in Seq(0 .. Height - 1), NEW n, n = Len(lines)
  PROVE  \E f : Removes(f, b, lines, n)
<1> DEFINE Def(f) == [k \in 0..Len(lines) |-> IF k = 0 THEN b
                                              ELSE ClearLine(f[k - 1], lines[k])]
<1>1. n = Len(lines) /\ n \in Nat
  BY LenProperties
<1>2. \A k \in 1 .. n : lines[k] \in 0 .. Height - 1
  BY <1>1, ElementOfSeq
<1>3. \A k \in 1 .. n : \A x \in Grid : ClearLine(x, lines[k]) \in Grid
  BY <1>2, ClearLineIs
<1>4. PICK F : F = [k \in 1 .. n |-> [x \in Grid |-> ClearLine(x, lines[k])]]
  OBVIOUS
<1>5. \A k \in 1 .. n : F[k] \in [Grid -> Grid]
  BY <1>3, <1>4
<1>6. PICK g : IsRun(g, F, n, b, Grid)
  BY <1>1, <1>5, Rounds
<1>7. g \in [0 .. n -> Grid] /\ g[0] = b /\ \A k \in 1 .. n : g[k] = F[k][g[k - 1]]
  BY <1>6 DEF IsRun
<1>8. \A k \in 1 .. n : k \in 0 .. n /\ k - 1 \in 0 .. n /\ k # 0
  OBVIOUS
<1>9. \A k \in 1 .. n : g[k] = ClearLine(g[k - 1], lines[k])
  BY <1>4, <1>7, <1>8
<1>10. \A h : Def(h) = [k \in 0 .. n |-> IF k = 0 THEN b ELSE ClearLine(h[k - 1], lines[k])]
  BY <1>1
<1> HIDE DEF Def
<1>11. g = Def(g)
  <2>1. \A k \in 0 .. n : k = 0 \/ k \in 1 .. n
    OBVIOUS
  <2>2. \A k \in 0 .. n : g[k] = IF k = 0 THEN b ELSE ClearLine(g[k - 1], lines[k])
    BY <1>7, <1>8, <1>9, <2>1
  <2> QED BY <1>7, <1>10, <2>2
<1>12. PICK f : f = CHOOSE h : h = Def(h)
  OBVIOUS
<1>13. f = Def(f)
  BY <1>11, <1>12
<1>14. Removing(b, lines) = f[n]
  BY <1>1, <1>12 DEF Removing, Def
<1>15. f[0] = b /\ \A k \in 1 .. n : f[k] = ClearLine(f[k - 1], lines[k])
  <2>1. 0 \in 0 .. n
    OBVIOUS
  <2> QED BY <1>8, <1>10, <1>13, <2>1
<1> QED BY <1>14, <1>15 DEF Removes

LEMMA RemovingNone ==
  ASSUME NEW b \in Grid
  PROVE  Removing(b, <<>>) = b
<1>1. PICK lines : lines = <<>>
  OBVIOUS
<1>2. lines \in Seq(0 .. Height - 1) /\ Len(lines) = 0
  BY <1>1, EmptySeq
<1>3. PICK f : Removes(f, b, lines, 0)
  BY <1>2, RemovingIs
<1>4. Removing(b, lines) = b
  BY <1>3 DEF Removes
<1> QED BY <1>1, <1>4

\* One more line that goes is the last one to go.
LEMMA RemovingMore ==
  ASSUME NEW b \in Grid, NEW lines \in Seq(0 .. Height - 1), NEW y \in 0 .. Height - 1
  PROVE  Removing(b, Append(lines, y)) = ClearLine(Removing(b, lines), y)
<1>1. PICK n \in Nat : n = Len(lines)
  BY LenProperties
<1>2. PICK more : more = Append(lines, y)
  OBVIOUS
<1>3. /\ more \in Seq(0 .. Height - 1) /\ Len(more) = n + 1
      /\ \A k \in 1 .. n : more[k] = lines[k]
      /\ more[n + 1] = y
  BY <1>1, <1>2, AppendProperties
<1>4. PICK f : /\ f[0] = b /\ f[n] = Removing(b, lines)
               /\ \A k \in 1 .. n : f[k] = ClearLine(f[k - 1], lines[k])
  <2>1. PICK f : Removes(f, b, lines, n)
    BY <1>1, RemovingIs
  <2> QED BY <2>1 DEF Removes
<1>5. PICK g : /\ g[0] = b /\ g[n + 1] = Removing(b, more)
               /\ \A k \in 1 .. n + 1 : g[k] = ClearLine(g[k - 1], more[k])
  <2>1. PICK g : Removes(g, b, more, n + 1)
    BY <1>3, RemovingIs
  <2> QED BY <2>1 DEF Removes
<1>6. PICK T : T = {k \in 0 .. n : f[k] = g[k]}
  OBVIOUS
<1>7. 0 \in T
  BY <1>4, <1>5, <1>6
<1>8. ASSUME NEW k \in 1 .. n, k - 1 \in T  PROVE k \in T
  <2>1. k \in 1 .. n + 1 /\ k \in 0 .. n
    OBVIOUS
  <2>2. f[k - 1] = g[k - 1]
    BY <1>6, <1>8
  <2>3. f[k] = g[k]
    BY <1>3, <1>4, <1>5, <2>1, <2>2
  <2> QED BY <1>6, <2>1, <2>3
<1>9. \A k \in 0 .. n : k \in T
  BY <1>7, <1>8, Loop
<1>10. f[n] = g[n]
  <2>1. n \in 0 .. n
    OBVIOUS
  <2> QED BY <1>6, <1>9, <2>1
<1>11. g[n + 1] = ClearLine(g[n], y)
  <2>1. n + 1 \in 1 .. n + 1 /\ n + 1 - 1 = n
    OBVIOUS
  <2> QED BY <1>3, <1>5, <2>1
<1> QED BY <1>2, <1>4, <1>5, <1>10, <1>11

\* A client that removes the lines lock() has removed, in this order, is left
\* with what the server has.
LEMMA RemovedCleared ==
  ASSUME NEW b \in Grid
  PROVE  Removing(b, Removed(b)) = Cleared(b)
<1>1. PICK f \in [0 .. Height -> Cleanup] :
        /\ f[0] = [rows |-> b, removed |-> <<>>] /\ f[Height] = ClearLoop(b)
        /\ \A k \in 1 .. Height : f[k] = ClearStep(k, f[k - 1])
  BY ClearLoopIs
<1>2. PICK T : T = {k \in 0 .. Height : Removing(b, f[k].removed) = f[k].rows}
  OBVIOUS
<1>3. 0 \in T
  <2>1. f[0].removed = <<>> /\ f[0].rows = b
    BY <1>1
  <2> QED BY <1>2, <2>1, RemovingNone, Sizes
<1>4. ASSUME NEW k \in 1 .. Height, k - 1 \in T  PROVE k \in T
  <2>1. PICK s \in Cleanup : s = f[k - 1]
    <3>1. k - 1 \in 0 .. Height
      BY Sizes
    <3> QED BY <1>1, <3>1
  <2>2. f[k] = ClearStep(k, s) /\ s.rows \in Grid /\ s.removed \in Seq(0 .. Height - 1)
    BY <1>1, <2>1 DEF Cleanup
  <2>3. Removing(b, s.removed) = s.rows /\ k \in 0 .. Height
    BY <1>2, <1>4, <2>1, Sizes
  <2>4. PICK y \in 0 .. Height - 1 : y = Height - k /\ Height - k + 1 = y + 1
    BY Sizes
  <2>5. CASE s.rows[y + 1] = Columns
    <3>1. /\ f[k].rows = ClearLine(s.rows, y)
          /\ f[k].removed = Append(s.removed, y)
      BY <2>2, <2>4, <2>5 DEF ClearStep
    <3>2. Removing(b, Append(s.removed, y)) = ClearLine(Removing(b, s.removed), y)
      BY <2>2, RemovingMore
    <3> QED BY <1>2, <2>3, <3>1, <3>2
  <2>6. CASE s.rows[y + 1] # Columns
    <3>1. f[k] = s
      BY <2>2, <2>4, <2>6 DEF ClearStep
    <3> QED BY <1>2, <2>3, <3>1
  <2> QED BY <2>5, <2>6
<1>5. \A k \in 0 .. Height : k \in T
  BY <1>3, <1>4, Loop, Sizes
<1>6. Removing(b, f[Height].removed) = f[Height].rows
  BY <1>2, <1>5, Sizes
<1> QED BY <1>1, <1>6 DEF Cleared, Removed

\* An update that replaces and removes no line only draws what comes in below.
LEMMA AttackRedrawn ==
  ASSUME NEW b \in Grid, NEW u, u.replace = <<>>, u.remove = <<>>
  PROVE  Redrawn(b, u) = Raised(b, u.insert)
<1>1. DOMAIN u.replace = {}
  OBVIOUS
<1>2. Replacing(b, u.replace) = b
  BY <1>1 DEF Replacing, Grid
<1> QED BY <1>2, RemovingNone DEF Redrawn

LEMMA RaisedNone ==
  ASSUME NEW b \in Grid
  PROVE  Raised(b, 0) = b
BY RaisedIs

\* What lock() reports, drawn over what was there before, is the board after it.
LEMMA LockRedrawn ==
  ASSUME NEW b \in Grid, NEW p \in Terminoes, NEW r \in 0 .. 3,
         NEW spot \in Int \X Int, Covered(p, r, spot) \subseteq Ground,
         NEW full, full = Put(b, Covered(p, r, spot)),
         NEW u, u.replace = Replaced(full, p, spot), u.remove = Removed(full), u.insert = 0
  PROVE  Redrawn(b, u) = Cleared(full) /\ DOMAIN u.replace # {}
<1>1. /\ full \in Grid
      /\ \A i \in 1 .. Height :
           full[i] = b[i] \cup {x \in Columns : <<x, i - 1>> \in Covered(p, r, spot)}
  BY PutIs
<1>2. PICK D : D = {y \in 0 .. Height - 1 : y - spot[2] \in 0 .. Box(p) - 1}
  OBVIOUS
<1>3. u.replace = [y \in D |-> full[y + 1]]
  BY <1>2 DEF Replaced
<1>4. spot[1] \in Int /\ spot[2] \in Int
  OBVIOUS
<1>5. ASSUME NEW c \in Covered(p, r, spot)
      PROVE  c = <<c[1], c[2]>> /\ c[2] \in 0 .. Height - 1 /\ c[2] \in D
  <2>1. PICK d \in Shape[p][r] : c = <<spot[1] + d[1], spot[2] + d[2]>>
    BY DEF Covered, Plus
  <2>2. d[1] \in Int /\ d[2] \in Int /\ d[2] \in 0 .. Box(p) - 1
    BY ShapeIn, Sizes DEF Inside
  <2>3. c[2] = spot[2] + d[2] /\ c[2] \in 0 .. Height - 1
    BY <2>1 DEF Ground
  <2>4. c[2] - spot[2] = d[2]
    BY <1>4, <2>2, <2>3
  <2> QED BY <1>2, <2>1, <2>2, <2>3, <2>4
<1>6. ASSUME NEW i \in 1 .. Height, i - 1 \notin D  PROVE full[i] = b[i]
  <2>1. \A x \in Columns : <<x, i - 1>> \notin Covered(p, r, spot)
    BY <1>5, <1>6
  <2> QED BY <1>1, <2>1
<1>7. Replacing(b, u.replace) = full
  <2>1. \A i \in 1 .. Height : (i - 1) + 1 = i
    OBVIOUS
  <2>2. DOMAIN u.replace = D /\ \A y \in D : u.replace[y] = full[y + 1]
    BY <1>3
  <2>3. \A i \in 1 .. Height :
          (IF i - 1 \in DOMAIN u.replace THEN u.replace[i - 1] ELSE b[i]) = full[i]
    BY <1>6, <2>1, <2>2
  <2>4. Replacing(b, u.replace) = [i \in 1 .. Height |-> full[i]]
    BY <2>3 DEF Replacing
  <2> QED BY <1>1, <2>4 DEF Grid
<1>8. Cleared(full) \in Grid /\ Removing(full, u.remove) = Cleared(full)
  BY <1>1, ClearedSparse, RemovedCleared
<1>9. Redrawn(b, u) = Cleared(full)
  BY <1>7, <1>8, RaisedNone DEF Redrawn
<1>10. D # {}
  <2>1. Shape[p][r] # {}
    BY FourCells, FS_EmptySet
  <2>2. Covered(p, r, spot) # {}
    BY <2>1 DEF Covered
  <2> QED BY <1>5, <2>2
<1>11. DOMAIN u.replace # {}
  BY <1>3, <1>10
<1> QED BY <1>9, <1>11
-----------------------------------------------------------------------------
(* What a client comes to once it has read every update under way. *)

Reads(v, u) == IF v.dead THEN v ELSE Applied(v, u)

IsView(v) ==
  v = [rows |-> v.rows, cur |-> v.cur, rot |-> v.rot, at |-> v.at, queue |-> v.queue,
       hold |-> v.hold, floor |-> v.floor, late |-> v.late, dead |-> v.dead]
ViewOK(v) ==
  IsView(v) /\ {v.late, v.dead} \subseteq BOOLEAN /\ (~v.late => v.rows \in Grid)

\* The client goes from v to w by reading s.
Reaches(v, s, w) ==
  \E g : /\ g[0] = v /\ g[Len(s)] = w
         /\ \A k \in 1 .. Len(s) : g[k] = Reads(g[k - 1], s[k])
         /\ \A k \in 0 .. Len(s) : ViewOK(g[k])

LEMMA ReachesNone ==
  ASSUME NEW v, NEW s, Len(s) = 0
  PROVE  /\ ViewOK(v) => Reaches(v, s, v)
         /\ \A w : Reaches(v, s, w) => w = v
<1>1. ASSUME ViewOK(v)  PROVE Reaches(v, s, v)
  <2>1. PICK g : g = [k \in 0 .. 0 |-> v]
    OBVIOUS
  <2>2. g[0] = v /\ 1 .. 0 = {} /\ \A k \in 0 .. 0 : k = 0
    BY <2>1
  <2> QED BY <1>1, <2>2 DEF Reaches
<1>2. \A w : Reaches(v, s, w) => w = v
  BY DEF Reaches
<1> QED BY <1>1, <1>2

LEMMA ReachesEnds ==
  ASSUME NEW v, NEW S, NEW s \in Seq(S), NEW w, Reaches(v, s, w)
  PROVE  ViewOK(v) /\ ViewOK(w)
<1>1. PICK g : g[0] = v /\ g[Len(s)] = w /\ \A k \in 0 .. Len(s) : ViewOK(g[k])
  BY DEF Reaches
<1>2. 0 \in 0 .. Len(s) /\ Len(s) \in 0 .. Len(s)
  BY LenProperties
<1> QED BY <1>1, <1>2

\* One update more.
LEMMA ReachesMore ==
  ASSUME NEW v, NEW S, NEW s \in Seq(S), NEW w, Reaches(v, s, w),
         NEW u \in S, NEW z, z = Reads(w, u), ViewOK(z),
         NEW t, t = Append(s, u)
  PROVE  t \in Seq(S) /\ t # <<>> /\ t[Len(t)] = u /\ Reaches(v, t, z)
<1>1. PICK n \in Nat : n = Len(s)
  BY LenProperties
<1>2. /\ t \in Seq(S) /\ t # <<>> /\ Len(t) = n + 1
      /\ \A i \in 1 .. n : t[i] = s[i]
      /\ t[n + 1] = u
  BY <1>1, AppendProperties
<1>3. PICK g : /\ g[0] = v /\ g[n] = w
               /\ \A k \in 1 .. n : g[k] = Reads(g[k - 1], s[k])
               /\ \A k \in 0 .. n : ViewOK(g[k])
  BY <1>1 DEF Reaches
<1>4. PICK h : h = [k \in 0 .. n + 1 |-> IF k = n + 1 THEN z ELSE g[k]]
  OBVIOUS
<1>5. h[n + 1] = z /\ \A k \in 0 .. n : h[k] = g[k]
  <2>1. \A k \in 0 .. n : k \in 0 .. n + 1 /\ k # n + 1
    OBVIOUS
  <2>2. n + 1 \in 0 .. n + 1
    OBVIOUS
  <2> QED BY <1>4, <2>1, <2>2
<1>6. h[0] = v /\ h[n] = w
  <2>1. 0 \in 0 .. n /\ n \in 0 .. n
    OBVIOUS
  <2> QED BY <1>3, <1>5, <2>1
<1>7. ASSUME NEW k \in 1 .. n + 1  PROVE h[k] = Reads(h[k - 1], t[k])
  <2>1. CASE k = n + 1
    <3>1. k - 1 = n
      BY <2>1
    <3> QED BY <1>2, <1>5, <1>6, <2>1, <3>1
  <2>2. CASE k # n + 1
    <3>1. k \in 1 .. n /\ k \in 0 .. n /\ k - 1 \in 0 .. n
      BY <2>2
    <3>2. h[k] = g[k] /\ h[k - 1] = g[k - 1] /\ t[k] = s[k]
      BY <1>2, <1>5, <3>1
    <3> QED BY <1>3, <3>1, <3>2
  <2> QED BY <2>1, <2>2
<1>8. ASSUME NEW k \in 0 .. n + 1  PROVE ViewOK(h[k])
  <2>1. k = n + 1 \/ k \in 0 .. n
    OBVIOUS
  <2> QED BY <1>3, <1>5, <2>1
<1>9. Reaches(v, t, z)
  BY <1>2, <1>5, <1>6, <1>7, <1>8 DEF Reaches
<1> QED BY <1>2, <1>9

\* The first update is read.
LEMMA ReachesHead ==
  ASSUME NEW v, NEW S, NEW s \in Seq(S), s # <<>>, NEW w, Reaches(v, s, w),
         NEW u, u = Head(s), NEW t, t = Tail(s)
  PROVE  t \in Seq(S) /\ Reaches(Reads(v, u), t, w)
<1>1. PICK n \in Nat : Len(s) = n + 1
  <2>1. Len(s) \in Nat \ {0}
    BY EmptySeq
  <2>2. Len(s) - 1 \in Nat /\ Len(s) = (Len(s) - 1) + 1
    BY <2>1
  <2> QED BY <2>2
<1>2. t \in Seq(S) /\ Len(t) = n /\ \A i \in 1 .. n : t[i] = s[i + 1]
  <2>1. Len(t) = Len(s) - 1
    BY HeadTailProperties
  <2>2. Len(t) = n
    BY <1>1, <2>1
  <2> QED BY <2>2, HeadTailProperties
<1>3. s[1] = u
  OBVIOUS
<1>4. PICK g : /\ g[0] = v /\ g[n + 1] = w
               /\ \A k \in 1 .. n + 1 : g[k] = Reads(g[k - 1], s[k])
               /\ \A k \in 0 .. n + 1 : ViewOK(g[k])
  BY <1>1 DEF Reaches
<1>5. PICK h : h = [k \in 0 .. n |-> g[k + 1]]
  OBVIOUS
<1>6. h[0] = Reads(v, u) /\ h[n] = w
  <2>1. 0 \in 0 .. n /\ n \in 0 .. n /\ 0 + 1 = 1 /\ 1 \in 1 .. n + 1 /\ 1 - 1 = 0
    OBVIOUS
  <2> QED BY <1>3, <1>4, <1>5, <2>1
<1>7. ASSUME NEW k \in 1 .. n  PROVE h[k] = Reads(h[k - 1], t[k])
  <2>1. k \in 0 .. n /\ k - 1 \in 0 .. n /\ (k - 1) + 1 = k
        /\ k + 1 \in 1 .. n + 1 /\ (k + 1) - 1 = k
    OBVIOUS
  <2>2. h[k] = g[k + 1] /\ h[k - 1] = g[k] /\ t[k] = s[k + 1]
    BY <1>2, <1>5, <2>1
  <2>3. g[k + 1] = Reads(g[k], s[k + 1])
    BY <1>4, <2>1
  <2> QED BY <2>2, <2>3
<1>8. ASSUME NEW k \in 0 .. n  PROVE ViewOK(h[k])
  <2>1. k + 1 \in 0 .. n + 1
    OBVIOUS
  <2> QED BY <1>4, <1>5, <2>1
<1>9. Reaches(Reads(v, u), t, w)
  BY <1>2, <1>6, <1>7, <1>8 DEF Reaches
<1> QED BY <1>2, <1>9

\* handle(BoardUpdateNotification), field by field.
LEMMA AppliedIs ==
  ASSUME NEW v, ViewOK(v), NEW u, NEW z, z = Applied(v, u),
         u.at = None \/ Or(u.place, v.cur) # None
  PROVE  /\ IsView(z) /\ z.late = v.late /\ z.dead = v.dead
         /\ z.rows = Redrawn(v.rows, u) /\ z.cur = Or(u.place, v.cur)
         /\ z.rot = Rotation(v, u) /\ z.at = Or(u.at, v.at)
         /\ z.queue = Queued(v.queue, u) /\ z.hold = Or(u.hold, v.hold)
         /\ z.floor = IF u.at = None THEN v.floor
                      ELSE FloorShown(v, z.cur, z.rot, u.at)
<1>1. PICK p, r : p = Or(u.place, v.cur) /\ r = Rotation(v, u)
  OBVIOUS
<1>2. PICK h, q, a, f, b :
        /\ h = Or(u.hold, v.hold) /\ q = Queued(v.queue, u) /\ a = Or(u.at, v.at)
        /\ f = IF u.at = None THEN v.floor ELSE FloorShown(v, p, r, u.at)
        /\ b = Redrawn(v.rows, u)
  OBVIOUS
<1>3. z = [v EXCEPT !.hold = h, !.queue = q, !.cur = p, !.rot = r, !.at = a,
                    !.floor = f, !.rows = b]
  BY <1>1, <1>2 DEF Applied
<1>4. z = [rows |-> b, cur |-> p, rot |-> r, at |-> a, queue |-> q,
           hold |-> h, floor |-> f, late |-> v.late, dead |-> v.dead]
  BY <1>3 DEF ViewOK, IsView
<1> QED BY <1>1, <1>2, <1>4 DEF IsView

Died(z, v) == IsView(z) /\ z.late = v.late /\ z.dead = TRUE /\ z.rows = v.rows

\* A place for a piece that it never had ends a client.
LEMMA DeadIs ==
  ASSUME NEW v, ViewOK(v), NEW u, NEW z, z = Applied(v, u),
         u.at # None, Or(u.place, v.cur) = None
  PROVE  Died(z, v)
<1>1. z = [v EXCEPT !.dead = TRUE]
  BY DEF Applied
<1> QED BY <1>1 DEF ViewOK, IsView, Died

IsUpdate(u) ==
  u = [add |-> u.add, place |-> u.place, rot |-> u.rot, at |-> u.at,
       hold |-> u.hold, replace |-> u.replace, remove |-> u.remove, insert |-> u.insert]

Kept(z, w, u) ==
  /\ ViewOK(z) /\ z.late = w.late /\ z.dead = FALSE
  /\ z.rows = Redrawn(w.rows, u)
  /\ z.cur = w.cur /\ z.rot = w.rot /\ z.at = w.at
  /\ z.queue = w.queue \o u.add /\ z.hold = Or(u.hold, w.hold)

\* An update that says nothing of the current piece.
LEMMA ReadKeeps ==
  ASSUME NEW w, ViewOK(w), w.dead = FALSE, NEW u, u.place = None, u.at = None, u.rot = None,
         NEW z, z = Reads(w, u), w.late = FALSE => Redrawn(w.rows, u) \in Grid
  PROVE  Kept(z, w, u)
<1>1. z = Applied(w, u)
  BY DEF Reads
<1>2. /\ IsView(z) /\ z.late = w.late /\ z.dead = w.dead
      /\ z.rows = Redrawn(w.rows, u) /\ z.cur = Or(u.place, w.cur)
      /\ z.rot = Rotation(w, u) /\ z.at = Or(u.at, w.at)
      /\ z.queue = Queued(w.queue, u) /\ z.hold = Or(u.hold, w.hold)
  BY <1>1, AppliedIs
<1>3. ViewOK(z)
  BY <1>2 DEF ViewOK
<1> QED BY <1>2, <1>3 DEF Or, Rotation, Queued, Kept

Showed(z, w, u) ==
  /\ ViewOK(z) /\ z.late = w.late /\ z.dead = FALSE
  /\ z.rows = Redrawn(w.rows, u)
  /\ z.cur = w.cur /\ z.rot = Or(u.rot, w.rot) /\ z.at = u.at
  /\ z.queue = w.queue \o u.add /\ z.hold = w.hold

\* An update that moves the current piece.
LEMMA ReadShows ==
  ASSUME NEW w, ViewOK(w), w.dead = FALSE, w.cur # None,
         NEW u, u.place = None, u.at # None, u.hold = None,
         NEW z, z = Reads(w, u), w.late = FALSE => Redrawn(w.rows, u) \in Grid
  PROVE  Showed(z, w, u)
<1>1. z = Applied(w, u)
  BY DEF Reads
<1>2. Or(u.place, w.cur) # None
  BY DEF Or
<1>3. /\ IsView(z) /\ z.late = w.late /\ z.dead = w.dead
      /\ z.rows = Redrawn(w.rows, u) /\ z.cur = Or(u.place, w.cur)
      /\ z.rot = Rotation(w, u) /\ z.at = Or(u.at, w.at)
      /\ z.queue = Queued(w.queue, u) /\ z.hold = Or(u.hold, w.hold)
  BY <1>1, <1>2, AppliedIs
<1>4. ViewOK(z)
  BY <1>3 DEF ViewOK
<1> QED BY <1>3, <1>4 DEF Or, Rotation, Queued, Showed

Placed(z, w, u) ==
  /\ ViewOK(z) /\ z.late = w.late /\ z.dead = FALSE
  /\ z.rows = Redrawn(w.rows, u)
  /\ z.cur = u.place /\ z.rot = 0 /\ z.at = u.at
  /\ z.queue = Queued(w.queue, u) /\ z.hold = Or(u.hold, w.hold)

\* An update with a new piece.
LEMMA ReadPlaces ==
  ASSUME NEW w, ViewOK(w), w.dead = FALSE,
         NEW u, u.place # None, u.at # None, u.rot = None,
         NEW z, z = Reads(w, u), w.late = FALSE => Redrawn(w.rows, u) \in Grid
  PROVE  Placed(z, w, u)
<1>1. z = Applied(w, u)
  BY DEF Reads
<1>2. Or(u.place, w.cur) # None
  BY DEF Or
<1>3. /\ IsView(z) /\ z.late = w.late /\ z.dead = w.dead
      /\ z.rows = Redrawn(w.rows, u) /\ z.cur = Or(u.place, w.cur)
      /\ z.rot = Rotation(w, u) /\ z.at = Or(u.at, w.at)
      /\ z.queue = Queued(w.queue, u) /\ z.hold = Or(u.hold, w.hold)
  BY <1>1, <1>2, AppliedIs
<1>4. ViewOK(z)
  BY <1>3 DEF ViewOK
<1> QED BY <1>3, <1>4 DEF Or, Rotation, Placed
-----------------------------------------------------------------------------
(* The invariant of client and board. *)

Coming(q, lst, h) ==
  \/ q = lst
  \/ h # None /\ q # <<>> /\ Tail(q) = lst

\* A client at w agrees with a board whose rows are b.
Agrees(w, b) ==
  /\ ViewOK(w)
  /\ w.late = FALSE => w.dead = FALSE /\ w.rows = b /\ w.queue \in Seq(Pieces)
  /\ w.dead = FALSE => w.hold \in {hold, None}
  /\ w.dead = FALSE /\ ~over /\ w.cur # None =>
       w.cur = cur /\ w.rot = rot /\ (use # "spent" => w.at = at)
  /\ w.late = FALSE /\ ~over => w.cur = cur /\ Coming(w.queue, list, hold)

\* What the newest update, u, says of the board, which a client at w shows.
Newest(u, w) ==
  u.at # None /\ w.dead = FALSE =>
    /\ cur # None /\ (~over => w.at = at)
    /\ u.replace = <<>> => u.remove = <<>> /\ u.insert = 0

\* Once it has read what is under way, a client agrees with the board.
Told ==
  \E S, w : /\ stream \in Seq(S) /\ Reaches(view, stream, w) /\ Agrees(w, rows)
            /\ stream # <<>> => Newest(stream[Len(stream)], w)

\* An update u is sent after the updates s, unless it is blank.
LEMMA SentOK ==
  ASSUME NEW S, NEW s \in Seq(S), view' = view, NEW w, Reaches(view, s, w),
         NEW u, stream' = s \o (IF u = Blank THEN <<>> ELSE <<u>>),
         NEW z, z = Reads(w, u), Agrees(z, rows)', Newest(u, z)',
         u = Blank => Agrees(w, rows)' /\ (s # <<>> => Newest(s[Len(s)], w)')
  PROVE  Told'
<1>1. CASE u = Blank
  <2>1. stream' = s
    BY <1>1, ConcatEmptySeq
  <2> QED BY <1>1, <2>1 DEF Told
<1>2. CASE u # Blank
  <2>1. PICK t : t = Append(s, u)
    OBVIOUS
  <2>2. stream' = t
    BY <1>2, <2>1, AppendIsConcat
  <2>3. ViewOK(z)
    BY DEF Agrees
  <2>4. PICK v : v = view
    OBVIOUS
  <2>5. Reaches(v, s, w)
    BY <2>4
  <2>6. PICK T : T = S \cup {u}
    OBVIOUS
  <2>7. s \in Seq(T) /\ u \in T
    BY <2>6, SeqMonotonic
  <2>8. Reaches(v, t, z)
    BY <2>1, <2>3, <2>5, <2>7, ReachesMore
  <2>9. t \in Seq(T) /\ t[Len(t)] = u
    BY <2>1, <2>7, AppendProperties
  <2> QED BY <2>2, <2>4, <2>8, <2>9 DEF Told
<1> QED BY <1>1, <1>2

\* A blank update would change nothing.
LEMMA BlankRead ==
  ASSUME NEW w, ViewOK(w), w.dead = FALSE, NEW z, z = Reads(w, Blank)
  PROVE  /\ ViewOK(z) /\ z.late = w.late /\ z.dead = FALSE
         /\ z.cur = w.cur /\ z.rot = w.rot /\ z.at = w.at /\ z.hold = w.hold
         /\ w.late = FALSE => z.rows = w.rows
         /\ z.queue = w.queue \o <<>>
<1>4. PICK u : u = Blank
  OBVIOUS
<1>1. /\ u.place = None /\ u.at = None /\ u.rot = None /\ u.hold = None
      /\ u.add = <<>> /\ u.replace = <<>> /\ u.remove = <<>> /\ u.insert = 0
  BY <1>4 DEF Blank
<1>2. ASSUME w.late = FALSE  PROVE Redrawn(w.rows, u) = w.rows /\ w.rows \in Grid
  <2>1. w.rows \in Grid
    BY <1>2 DEF ViewOK
  <2>2. Redrawn(w.rows, u) = Raised(w.rows, 0)
    BY <1>1, <2>1, AttackRedrawn
  <2> QED BY <2>1, <2>2, RaisedNone
<1>5. z = Reads(w, u) /\ (w.late = FALSE => Redrawn(w.rows, u) \in Grid)
  BY <1>2, <1>4
<1>3. Kept(z, w, u)
  BY <1>1, <1>5, ReadKeeps
<1> QED BY <1>1, <1>2, <1>3 DEF Kept, Or

Continues(all, q, new) == all # <<>> /\ Tail(all) = Tail(q) \o new

LEMMA TailJoined ==
  ASSUME NEW S, NEW q \in Seq(S), q # <<>>, NEW new \in Seq(S),
         NEW all, all = q \o new
  PROVE  Continues(all, q, new)
<1>1. PICK n \in Nat : Len(q) = n + 1
  <2>1. Len(q) \in Nat \ {0}
    BY EmptySeq
  <2>2. Len(q) - 1 \in Nat /\ Len(q) = (Len(q) - 1) + 1
    BY <2>1
  <2> QED BY <2>2
<1>2. PICK m \in Nat : Len(new) = m
  BY LenProperties
<1>3. /\ all \in Seq(S) /\ Len(all) = n + 1 + m
      /\ \A i \in 1 .. n + 1 + m : all[i] = IF i <= n + 1 THEN q[i] ELSE new[i - (n + 1)]
  <2>1. /\ q \o new \in Seq(S) /\ Len(q \o new) = Len(q) + Len(new)
        /\ \A i \in 1 .. Len(q) + Len(new) :
             (q \o new)[i] = IF i <= Len(q) THEN q[i] ELSE new[i - Len(q)]
    BY ConcatProperties
  <2> QED BY <1>1, <1>2, <2>1
<1>4. all # <<>>
  <2>1. Len(all) # 0
    BY <1>3
  <2> QED BY <2>1, EmptySeq
<1>5. PICK t \in Seq(S) : /\ t = Tail(q) /\ Len(t) = n
                          /\ \A i \in 1 .. n : t[i] = q[i + 1]
  <2>1. Tail(q) \in Seq(S) /\ Len(Tail(q)) = (n + 1) - 1
        /\ \A i \in 1 .. Len(Tail(q)) : Tail(q)[i] = q[i + 1]
    BY <1>1, HeadTailProperties
  <2>2. Len(Tail(q)) = n
    BY <2>1
  <2> QED BY <2>1, <2>2
<1>6. PICK l \in Seq(S) : /\ l = t \o new /\ Len(l) = n + m
                          /\ \A i \in 1 .. n + m : l[i] = IF i <= n THEN t[i] ELSE new[i - n]
  <2>1. /\ t \o new \in Seq(S) /\ Len(t \o new) = Len(t) + Len(new)
        /\ \A i \in 1 .. Len(t) + Len(new) :
             (t \o new)[i] = IF i <= Len(t) THEN t[i] ELSE new[i - Len(t)]
    BY ConcatProperties
  <2> QED BY <1>2, <1>5, <2>1
<1>7. PICK a \in Seq(S) : /\ a = Tail(all) /\ Len(a) = n + m
                          /\ \A i \in 1 .. n + m : a[i] = all[i + 1]
  <2>1. /\ Tail(all) \in Seq(S) /\ Len(Tail(all)) = Len(all) - 1
        /\ \A i \in 1 .. Len(Tail(all)) : Tail(all)[i] = all[i + 1]
    BY <1>3, <1>4, HeadTailProperties
  <2>2. Len(all) - 1 = n + m
    BY <1>3
  <2>3. Len(Tail(all)) = n + m
    BY <2>1, <2>2
  <2>4. PICK a \in Seq(S) : a = Tail(all)
    BY <2>1
  <2>5. Len(a) = n + m /\ \A i \in 1 .. n + m : a[i] = all[i + 1]
    BY <2>1, <2>3, <2>4
  <2> QED BY <2>4, <2>5
<1>8. ASSUME NEW i \in 1 .. n + m  PROVE a[i] = l[i]
  <2>1. i + 1 \in 1 .. n + 1 + m
    OBVIOUS
  <2>2. CASE i <= n
    <3>1. i \in 1 .. n /\ i + 1 <= n + 1
      BY <2>2
    <3> QED BY <1>3, <1>5, <1>6, <1>7, <2>1, <2>2, <3>1
  <2>3. CASE ~(i <= n)
    <3>1. ~(i + 1 <= n + 1) /\ (i + 1) - (n + 1) = i - n
      BY <2>3
    <3> QED BY <1>3, <1>6, <1>7, <2>1, <2>3, <3>1
  <2> QED BY <2>2, <2>3
<1>9. a = l
  BY <1>6, <1>7, <1>8, SeqEqual
<1> QED BY <1>4, <1>5, <1>6, <1>7, <1>9 DEF Continues

\* What comes after, comes after for both.
LEMMA ComingMore ==
  ASSUME NEW S, NEW q \in Seq(S), NEW lst \in Seq(S), NEW new \in Seq(S), NEW h,
         Coming(q, lst, h)
  PROVE  Coming(q \o new, lst \o new, h)
<1>1. CASE q = lst
  BY <1>1 DEF Coming
<1>2. CASE h # None /\ q # <<>> /\ Tail(q) = lst
  <2>1. PICK all : all = q \o new
    OBVIOUS
  <2>2. all # <<>> /\ Tail(all) = Tail(q) \o new
    <3>1. Continues(all, q, new)
      BY <1>2, <2>1, TailJoined
    <3> QED BY <3>1 DEF Continues
  <2> QED BY <1>2, <2>1, <2>2 DEF Coming
<1> QED BY <1>1, <1>2 DEF Coming
-----------------------------------------------------------------------------
(* Each step keeps the client told. *)

LEMMA DeadTells ==
  ASSUME NEW S, NEW s \in Seq(S), view' = view, NEW w, Reaches(view, s, w),
         ViewOK(w), w.dead = TRUE, w.late # FALSE,
         NEW u, stream' = s \o (IF u = Blank THEN <<>> ELSE <<u>>)
  PROVE  Told'
<1>1. w = Reads(w, u)
  BY DEF Reads
<1>2. Agrees(w, rows)'
  BY DEF Agrees
<1>3. Newest(u, w)' /\ \A x : Newest(x, w)'
  BY DEF Newest
<1> QED BY <1>1, <1>2, <1>3, SentOK

LEMMA ShownTells ==
  ASSUME Fits, Told, Playing, view' = view, match' = match,
         NEW spot \in Int \X Int, NEW r \in 0 .. 3, Shown(spot, r)
  PROVE  Told'
<1>1. PICK S, w :
        /\ stream \in Seq(S) /\ Reaches(view, stream, w) /\ Agrees(w, rows)
        /\ stream # <<>> => Newest(stream[Len(stream)], w)
  BY DEF Told
<1>2. PICK u : u = [Blank EXCEPT !.at = spot, !.rot = IF r = rot THEN None ELSE r]
  OBVIOUS
<1>3. /\ u.place = None /\ u.at = spot /\ u.hold = None
      /\ u.rot = (IF r = rot THEN None ELSE r)
      /\ u.add = <<>> /\ u.replace = <<>> /\ u.remove = <<>> /\ u.insert = 0
  BY <1>2 DEF Blank
<1>4. /\ stream' = (stream \o <<>>) \o (IF u = Blank THEN <<>> ELSE <<u>>)
      /\ at' = spot /\ rot' = r /\ rows' = rows /\ cur' = cur /\ list' = list
      /\ hold' = hold /\ over' = over /\ use' = use /\ Pieces' = Pieces
  BY <1>2 DEF Shown, Commit, history, Pieces
<1>5. stream' = stream \o (IF u = Blank THEN <<>> ELSE <<u>>)
  BY <1>1, <1>4, ConcatEmptySeq
<1>6. u.at # None /\ u # Blank /\ r # None
  <2>1. None \notin Int \X Int /\ None \notin 0 .. 3
    BY BoardAssumption
  <2> QED BY <1>3, <2>1 DEF Blank
<1>13. u.place = None /\ u.at # None /\ u.hold = None
  BY <1>3, <1>6
<1>7. cur # None /\ ~over
  BY DEF Playing
<1>8. ViewOK(w) /\ w.dead \in BOOLEAN /\ w.late \in BOOLEAN
  BY <1>1 DEF Agrees, ViewOK
<1>9. PICK z : z = Reads(w, u)
  OBVIOUS
<1>10. CASE w.dead = TRUE
  <2>1. w.late # FALSE
    BY <1>1, <1>10 DEF Agrees
  <2> QED BY <1>1, <1>5, <1>8, <1>10, <2>1, DeadTells
<1>11. CASE w.dead = FALSE /\ w.cur = None
  <2>1. w.late = TRUE
    BY <1>1, <1>7, <1>8, <1>11 DEF Agrees
  <2>2. z = Applied(w, u) /\ Or(u.place, w.cur) = None
    BY <1>3, <1>9, <1>11 DEF Reads, Or
  <2>3. Died(z, w)
    BY <1>6, <1>8, <2>2, DeadIs
  <2>4. Agrees(z, rows)' /\ Newest(u, z)'
    BY <1>8, <2>1, <2>3 DEF Agrees, Newest, ViewOK, Died
  <2> QED BY <1>1, <1>5, <1>6, <1>9, <2>4, SentOK
<1>12. CASE w.dead = FALSE /\ w.cur # None
  <2>1. w.late = FALSE =>
          Redrawn(w.rows, u) = w.rows /\ w.rows \in Grid /\ w.rows = rows
    <3>1. SUFFICES ASSUME w.late = FALSE
                   PROVE Redrawn(w.rows, u) = w.rows /\ w.rows \in Grid /\ w.rows = rows
      OBVIOUS
    <3>2. w.rows \in Grid /\ w.rows = rows
      BY <1>1, <3>1 DEF Agrees, ViewOK
    <3> QED BY <1>3, <3>2, AttackRedrawn, RaisedNone
  <2>2. w.late = FALSE => Redrawn(w.rows, u) \in Grid
    BY <2>1
  <2>9. Showed(z, w, u)
    BY <1>13, <1>8, <1>9, <1>12, <2>2, ReadShows
  <2>3. /\ ViewOK(z) /\ z.late = w.late /\ z.dead = FALSE
        /\ z.rows = Redrawn(w.rows, u)
        /\ z.cur = w.cur /\ z.rot = Or(u.rot, w.rot) /\ z.at = u.at
        /\ z.queue = w.queue \o u.add /\ z.hold = w.hold
    BY <2>9 DEF Showed
  <2>4. w.cur = cur /\ w.rot = rot /\ w.hold \in {hold, None}
    BY <1>1, <1>7, <1>12 DEF Agrees
  <2>5. z.cur = cur' /\ z.rot = rot' /\ z.at = at' /\ z.hold \in {hold', None}
    BY <1>3, <1>4, <1>6, <2>3, <2>4 DEF Or
  <2>6. z.late = FALSE =>
          /\ z.rows = rows' /\ z.queue \in Seq(Pieces') /\ Coming(z.queue, list', hold')
    <3>1. SUFFICES ASSUME w.late = FALSE
                   PROVE /\ z.rows = rows' /\ z.queue \in Seq(Pieces')
                         /\ Coming(z.queue, list', hold')
      BY <2>3
    <3>2. w.queue \in Seq(Pieces) /\ Coming(w.queue, list, hold)
      BY <1>1, <1>7, <3>1 DEF Agrees
    <3>3. z.queue = w.queue
      BY <1>3, <2>3, <3>2, ConcatEmptySeq
    <3>4. z.rows = rows'
      BY <1>4, <2>1, <2>3, <3>1
    <3> QED BY <1>4, <3>2, <3>3, <3>4
  <2>7. Agrees(z, rows)'
    BY <1>4, <2>3, <2>5, <2>6 DEF Agrees
  <2>8. Newest(u, z)'
    BY <1>3, <1>4, <1>7, <2>5 DEF Newest
  <2> QED BY <1>1, <1>5, <1>6, <1>9, <2>7, <2>8, SentOK
<1> QED BY <1>8, <1>10, <1>11, <1>12

\* An update of lines, pieces to come or a piece held, before the new piece
\* that it may come with.
Plain(u) ==
  /\ IsUpdate(u) /\ u.place = None /\ u.rot = None /\ u.at = None
  /\ u.replace = <<>> => u.remove = <<>> /\ u.insert = 0

\* If u is blank and not sent, the update before it stays the newest.
Silent(s, u, w) == s # <<>> /\ u = Blank => s[Len(s)].at = None \/ w.dead = TRUE

\* The queue of a client from which the piece to be placed is yet to go.
ComingNext(q, u, lst, h) ==
  IF u.hold = None THEN q # <<>> /\ Coming(Tail(q), lst, h) ELSE Coming(q, lst, h)

LEMMA PlainBlank ==
  ASSUME NEW w, ViewOK(w), w.late = FALSE, NEW u, u = Blank
  PROVE  Redrawn(w.rows, u) = w.rows
<1>1. w.rows \in Grid
  BY DEF ViewOK
<1>2. u.replace = <<>> /\ u.remove = <<>> /\ u.insert = 0
  BY DEF Blank
<1>3. Redrawn(w.rows, u) = Raised(w.rows, 0)
  BY <1>1, <1>2, AttackRedrawn
<1> QED BY <1>1, <1>3, RaisedNone

LEMMA EnterTells ==
  ASSUME match \in Matches, match' = match, view' = view, rows' \in Grid,
         NEW S, NEW s \in Seq(S), NEW before, s = stream \o before,
         NEW w, Reaches(view, s, w), ViewOK(w),
         NEW u, Plain(u), u.add \in Seq(Pieces), Silent(s, u, w),
         w.late = FALSE => w.dead = FALSE /\ Redrawn(w.rows, u) = rows',
         w.dead = FALSE => Or(u.hold, w.hold) \in {hold', None},
         NEW p \in Pieces, NEW lst \in Seq(Pieces), Len(lst) <= Preview,
         NEW q, w.late = FALSE => /\ w.queue \in Seq(Pieces) /\ q = w.queue \o u.add
                                  /\ ComingNext(q, u, lst, hold'),
         NEW b, Enter(p, lst, b, before, u)
  PROVE  Told'
<1>1. PICK spot : spot = <<(Width - Box(p)) \div 2, Height - Box(p)>>
  OBVIOUS
<1>2. p \in Terminoes /\ p # None /\ Pieces' = Pieces
  BY MatchIs DEF Pieces
<1>3. spot # None
  <2>1. spot \in Int \X Int
    BY <1>1, <1>2, EnterInside
  <2> QED BY <2>1, BoardAssumption
<1>4. /\ cur' = p /\ rot' = 0 /\ at' = spot /\ use' = "fresh" /\ over' \in BOOLEAN
      /\ over' => list' = lst /\ Commit(before, u)
      /\ ~over' => \E new \in Dealt(Preview - Len(lst)) :
                     /\ list' = lst \o new
                     /\ Commit(before, [u EXCEPT !.place = p, !.at = spot,
                                                 !.add = @ \o new])
  BY <1>1 DEF Enter
<1>5. \A x : Commit(before, x) => stream' = s \o (IF x = Blank THEN <<>> ELSE <<x>>)
  BY DEF Commit
<1>6. CASE w.dead = TRUE
  <2>1. PICK x : Commit(before, x)
    BY <1>4
  <2>2. stream' = s \o (IF x = Blank THEN <<>> ELSE <<x>>)
    BY <1>5, <2>1
  <2>3. w.late # FALSE
    BY <1>6
  <2> QED BY <1>6, <2>2, <2>3, DeadTells
<1>7. w.late = FALSE => Redrawn(w.rows, u) \in Grid
  OBVIOUS
<1>8. u.place = None /\ u.rot = None /\ u.at = None
  BY DEF Plain
<1>9. CASE w.dead = FALSE /\ over'
  <2>1. list' = lst /\ stream' = s \o (IF u = Blank THEN <<>> ELSE <<u>>)
    BY <1>4, <1>5, <1>9
  <2>2. PICK z : z = Reads(w, u)
    OBVIOUS
  <2>3. Kept(z, w, u)
    BY <1>7, <1>8, <1>9, <2>2, ReadKeeps
  <2>4. /\ ViewOK(z) /\ z.late = w.late /\ z.dead = FALSE
        /\ z.rows = Redrawn(w.rows, u)
        /\ z.queue = w.queue \o u.add /\ z.hold = Or(u.hold, w.hold)
    BY <2>3 DEF Kept
  <2>5. z.late = FALSE => z.rows = rows' /\ z.queue \in Seq(Pieces')
    <3>1. SUFFICES ASSUME w.late = FALSE  PROVE z.rows = rows' /\ z.queue \in Seq(Pieces')
      BY <2>4
    <3>2. w.queue \o u.add \in Seq(Pieces)
      BY <3>1, ConcatProperties
    <3> QED BY <1>2, <2>4, <3>1, <3>2
  <2>6. Agrees(z, rows)'
    BY <1>9, <2>4, <2>5 DEF Agrees
  <2>7. Newest(u, z)'
    BY <1>8 DEF Newest
  <2>8. ASSUME u = Blank  PROVE Agrees(w, rows)' /\ (s # <<>> => Newest(s[Len(s)], w)')
    <3>1. u.hold = None
      BY <2>8 DEF Blank
    <3>2. w.hold \in {hold', None}
      BY <1>9, <3>1 DEF Or
    <3>3. w.late = FALSE => w.rows = rows'
      BY <2>8, PlainBlank
    <3>4. w.late = FALSE => w.queue \in Seq(Pieces')
      BY <1>2
    <3>5. Agrees(w, rows)'
      BY <1>9, <3>2, <3>3, <3>4 DEF Agrees
    <3>6. s # <<>> => s[Len(s)].at = None
      BY <1>9, <2>8 DEF Silent
    <3> QED BY <3>5, <3>6 DEF Newest
  <2> QED BY <2>1, <2>2, <2>6, <2>7, <2>8, SentOK
<1>10. CASE w.dead = FALSE /\ ~over'
  <2>1. PICK new \in Dealt(Preview - Len(lst)) :
          /\ list' = lst \o new
          /\ Commit(before, [u EXCEPT !.place = p, !.at = spot, !.add = @ \o new])
    BY <1>4, <1>10
  <2>2. new \in Seq(Pieces)
    <3>1. Preview - Len(lst) \in Nat
      BY Sizes, LenProperties
    <3> QED BY <2>1, <3>1, DealtIs
  <2>3. PICK x : x = [u EXCEPT !.place = p, !.at = spot, !.add = @ \o new]
    OBVIOUS
  <2>4. /\ x.place = p /\ x.at = spot /\ x.add = u.add \o new /\ x.rot = None
        /\ x.hold = u.hold /\ x.replace = u.replace /\ x.remove = u.remove
        /\ x.insert = u.insert
    BY <2>3 DEF Plain, IsUpdate
  <2>5. x # Blank /\ stream' = s \o (IF x = Blank THEN <<>> ELSE <<x>>)
    <3>1. Blank.at = None
      BY DEF Blank
    <3>2. Commit(before, x)
      BY <2>1, <2>3
    <3> QED BY <1>3, <1>5, <2>4, <3>1, <3>2
  <2>6. PICK z : z = Reads(w, x)
    OBVIOUS
  <2>7. Redrawn(w.rows, x) = Redrawn(w.rows, u)
    BY <2>4 DEF Redrawn
  <2>8. w.late = FALSE => Redrawn(w.rows, x) \in Grid
    BY <1>7, <2>7
  <2>9. x.place # None /\ x.at # None /\ x.rot = None
    BY <1>2, <1>3, <2>4
  <2>10. Placed(z, w, x)
    BY <1>10, <2>6, <2>8, <2>9, ReadPlaces
  <2>11. /\ ViewOK(z) /\ z.late = w.late /\ z.dead = FALSE
         /\ z.rows = Redrawn(w.rows, x)
         /\ z.cur = x.place /\ z.rot = 0 /\ z.at = x.at
         /\ z.queue = Queued(w.queue, x) /\ z.hold = Or(x.hold, w.hold)
    BY <2>10 DEF Placed
  <2>12. z.cur = cur' /\ z.rot = rot' /\ z.at = at' /\ z.hold \in {hold', None}
    BY <1>4, <1>10, <2>4, <2>11
  <2>13. z.late = FALSE =>
           z.rows = rows' /\ z.queue \in Seq(Pieces') /\ Coming(z.queue, list', hold')
    <3>1. SUFFICES ASSUME w.late = FALSE
                   PROVE  /\ z.rows = rows' /\ z.queue \in Seq(Pieces')
                          /\ Coming(z.queue, list', hold')
      BY <2>11
    <3>2. /\ w.queue \in Seq(Pieces) /\ q = w.queue \o u.add /\ q \in Seq(Pieces)
          /\ ComingNext(q, u, lst, hold')
      <4>1. w.queue \in Seq(Pieces) /\ q = w.queue \o u.add
        BY <3>1
      <4>2. q \in Seq(Pieces)
        BY <4>1, ConcatProperties
      <4> QED BY <3>1, <4>1, <4>2
    <3>3. PICK all : all = w.queue \o x.add
      OBVIOUS
    <3>4. all = q \o new
      <4>1. PICK k \in Seq(Pieces), a \in Seq(Pieces) : k = w.queue /\ a = u.add
        BY <3>2
      <4>2. (k \o a) \o new = k \o (a \o new)
        BY <2>2, ConcatAssociative, SMTT(30)
      <4>3. q = k \o a
        BY <3>2, <4>1
      <4>4. all = k \o (a \o new)
        BY <2>4, <3>3, <4>1
      <4> QED BY <4>2, <4>3, <4>4
    <3>5. z.queue = IF x.place # None /\ all # <<>> /\ x.hold = None THEN Tail(all) ELSE all
      BY <2>11, <3>3 DEF Queued
    <3>6. CASE u.hold = None
      <4>1. q # <<>> /\ Coming(Tail(q), lst, hold') /\ Tail(q) \in Seq(Pieces)
        BY <3>2, <3>6, HeadTailProperties DEF ComingNext
      <4>6. q \in Seq(Pieces) /\ q # <<>>
        BY <3>2, <4>1
      <4>2. all # <<>> /\ Tail(all) = Tail(q) \o new
        <5>1. Continues(all, q, new)
          BY <2>2, <3>4, <4>6, TailJoined
        <5> QED BY <5>1 DEF Continues
      <4>3. z.queue = Tail(q) \o new
        BY <2>4, <2>9, <3>5, <3>6, <4>2
      <4>4. Coming(Tail(q) \o new, lst \o new, hold')
        BY <2>2, <4>1, ComingMore
      <4>5. Tail(q) \o new \in Seq(Pieces)
        BY <2>2, <4>1, ConcatProperties
      <4> QED BY <1>2, <2>1, <2>7, <2>11, <3>1, <4>3, <4>4, <4>5
    <3>7. CASE u.hold # None
      <4>1. Coming(q, lst, hold')
        BY <3>2, <3>7 DEF ComingNext
      <4>2. z.queue = q \o new
        BY <2>4, <3>4, <3>5, <3>7
      <4>3. Coming(q \o new, lst \o new, hold')
        BY <2>2, <3>2, <4>1, ComingMore
      <4>4. q \o new \in Seq(Pieces)
        BY <2>2, <3>2, ConcatProperties
      <4> QED BY <1>2, <2>1, <2>7, <2>11, <3>1, <4>2, <4>3, <4>4
    <3> QED BY <3>6, <3>7
  <2>14. Agrees(z, rows)'
    BY <2>11, <2>12, <2>13 DEF Agrees
  <2>15. Newest(x, z)'
    <3>1. x.replace = <<>> => x.remove = <<>> /\ x.insert = 0
      BY <2>4 DEF Plain
    <3> QED BY <1>2, <1>4, <2>12, <3>1 DEF Newest
  <2> QED BY <2>5, <2>6, <2>14, <2>15, SentOK
<1>11. w.dead \in BOOLEAN
  BY DEF ViewOK
<1> QED BY <1>6, <1>9, <1>10, <1>11

LEMMA NextPieceTells ==
  ASSUME Fits, match' = match, view' = view, rows' \in Grid, ~over,
         NEW S, NEW s \in Seq(S), NEW before, s = stream \o before,
         NEW w, Reaches(view, s, w), NEW b, Agrees(w, b),
         NEW u, Plain(u), u.add \in Seq(Pieces), Len(u.add) = 0, Silent(s, u, w),
         w.late = FALSE => Redrawn(w.rows, u) = rows',
         \/ u.hold = None /\ hold' = hold
         \/ hold = None /\ cur # None /\ u.hold = cur /\ hold' = cur,
         NEW c, NEW spot, NextPiece(c, spot, before, u)
  PROVE  Told'
<1>1. list \in Seq(Pieces) /\ Len(list) <= Preview /\ match \in Matches /\ Pieces' = Pieces
  BY DEF Fits, PieceOK, RowsOK, Pieces
<1>2. PICK k \in Nat : k = IF list = <<>> THEN Preview ELSE 0
  BY Sizes
<1>3. PICK new \in Dealt(k) :
        IF list \o new = <<>>
        THEN /\ Commit(before, u)
             /\ at' = spot /\ use' = IF cur = None THEN use ELSE "spent"
             /\ UNCHANGED <<cur, rot, list, over>>
        ELSE Enter(Head(list \o new), Tail(list \o new), c, before,
                   [u EXCEPT !.add = new])
  BY <1>2 DEF NextPiece
<1>4. PICK all : all = list \o new
  OBVIOUS
<1>5. all \in Seq(Pieces) /\ Len(all) <= Preview /\ new \in Seq(Pieces)
  <2>1. Len(list) + k <= Preview
    <3>1. CASE list = <<>>
      <4>1. Len(list) = 0
        BY <3>1
      <4> QED BY <1>2, <3>1, <4>1, Sizes
    <3>2. CASE list # <<>>
      BY <1>1, <1>2, <3>2, LenProperties
    <3> QED BY <3>1, <3>2
  <2>2. new \in Seq(Pieces)
    BY <1>2, DealtIs
  <2> QED BY <1>1, <1>4, <2>1, <2>2, JoinedIs
<1>6. /\ ViewOK(w) /\ w.dead \in BOOLEAN
      /\ w.late = FALSE => w.dead = FALSE /\ w.queue \in Seq(Pieces) /\ w.cur = cur
                           /\ Coming(w.queue, list, hold)
      /\ w.dead = FALSE /\ w.cur # None => w.cur = cur /\ w.rot = rot
      /\ w.dead = FALSE => Or(u.hold, w.hold) \in {hold', None}
  <2>1. w.dead = FALSE => w.hold \in {hold, None}
    BY DEF Agrees
  <2>2. w.dead = FALSE => Or(u.hold, w.hold) \in {hold', None}
    BY <2>1 DEF Or
  <2> QED BY <2>2 DEF Agrees, ViewOK
<1>7. u.place = None /\ u.rot = None /\ u.at = None
  BY DEF Plain
<1>8. CASE all = <<>>
  <2>1. /\ Commit(before, u)
        /\ at' = spot /\ use' = IF cur = None THEN use ELSE "spent"
        /\ cur' = cur /\ rot' = rot /\ list' = list /\ over' = over
    BY <1>3, <1>4, <1>8
  <2>2. stream' = s \o (IF u = Blank THEN <<>> ELSE <<u>>)
    BY <2>1 DEF Commit
  <2>3. CASE w.dead = TRUE
    <3>1. w.late # FALSE
      BY <1>6, <2>3
    <3> QED BY <1>6, <2>2, <2>3, <3>1, DeadTells
  <2>4. CASE w.dead = FALSE
    <3>1. ASSUME NEW x, ViewOK(x), x.late = w.late, x.dead = FALSE,
                 w.late = FALSE => x.rows = rows' /\ x.queue = w.queue,
                 x.cur = w.cur, x.rot = w.rot, x.hold \in {hold', None}
          PROVE  Agrees(x, rows)'
      <4>1. w.late = FALSE => Coming(w.queue, list', hold')
        BY <1>6, <2>1 DEF Coming
      <4>2. w.late = FALSE => w.queue \in Seq(Pieces')
        BY <1>1, <1>6
      <4>3. w.cur # None => w.cur = cur' /\ w.rot = rot' /\ use' = "spent"
        BY <1>6, <2>1, <2>4
      <4>4. w.late = FALSE => w.cur = cur'
        BY <1>6, <2>1
      <4> QED BY <3>1, <4>1, <4>2, <4>3, <4>4 DEF Agrees
    <3>2. PICK z : z = Reads(w, u)
      OBVIOUS
    <3>3. w.late = FALSE => Redrawn(w.rows, u) \in Grid
      OBVIOUS
    <3>4. Kept(z, w, u)
      BY <1>6, <1>7, <2>4, <3>2, <3>3, ReadKeeps
    <3>5. /\ ViewOK(z) /\ z.late = w.late /\ z.dead = FALSE
          /\ z.rows = Redrawn(w.rows, u) /\ z.cur = w.cur /\ z.rot = w.rot
          /\ z.queue = w.queue \o u.add /\ z.hold = Or(u.hold, w.hold)
      BY <3>4 DEF Kept
    <3>6. w.late = FALSE => z.queue = w.queue
      <4>1. u.add = <<>>
        BY EmptySeq
      <4> QED BY <1>6, <3>5, <4>1, ConcatEmptySeq
    <3>7. z.hold \in {hold', None}
      BY <1>6, <2>4, <3>5
    <3>8. w.late = FALSE => z.rows = rows' /\ z.queue = w.queue
      BY <3>5, <3>6
    <3>9. Agrees(z, rows)'
      BY <3>1, <3>5, <3>7, <3>8
    <3>10. Newest(u, z)'
      BY <1>7 DEF Newest
    <3>11. ASSUME u = Blank  PROVE Agrees(w, rows)' /\ (s # <<>> => Newest(s[Len(s)], w)')
      <4>1. u.hold = None
        BY <3>11 DEF Blank
      <4>2. w.hold \in {hold', None}
        BY <1>6, <2>4, <4>1 DEF Or
      <4>3. w.late = FALSE => w.rows = rows' /\ w.queue = w.queue
        BY <1>6, <3>11, PlainBlank
      <4>4. Agrees(w, rows)'
        BY <1>6, <2>4, <3>1, <4>2, <4>3
      <4>5. s # <<>> => s[Len(s)].at = None
        BY <2>4, <3>11 DEF Silent
      <4> QED BY <4>4, <4>5 DEF Newest
    <3> QED BY <2>2, <3>2, <3>9, <3>10, <3>11, SentOK
  <2> QED BY <1>6, <2>3, <2>4
<1>9. CASE all # <<>>
  <2>1. Enter(Head(all), Tail(all), c, before, [u EXCEPT !.add = new])
    BY <1>3, <1>4, <1>9
  <2>2. Head(all) \in Pieces /\ Tail(all) \in Seq(Pieces) /\ Len(Tail(all)) <= Preview
    <3>1. Tail(all) \in Seq(Pieces) /\ Len(Tail(all)) = Len(all) - 1
      BY <1>5, <1>9, HeadTailProperties
    <3>2. Len(all) \in Nat
      BY <1>5, LenProperties
    <3> QED BY <1>5, <1>9, <3>1, <3>2, HeadTailProperties, Sizes
  <2>3. PICK p, lst, x : p = Head(all) /\ lst = Tail(all) /\ x = [u EXCEPT !.add = new]
    OBVIOUS
  <2>4. /\ x.add = new /\ x.place = None /\ x.at = None /\ x.rot = None /\ x.hold = u.hold
        /\ x.replace = u.replace /\ x.remove = u.remove /\ x.insert = u.insert
        /\ IsUpdate(x)
    BY <2>3 DEF Plain, IsUpdate
  <2>5. Plain(x)
    BY <2>4 DEF Plain
  <2>6. Silent(s, x, w)
    <3>1. x = Blank => u = Blank
      <4>1. SUFFICES ASSUME x = Blank  PROVE u = Blank
        OBVIOUS
      <4>2. u.add = <<>>
        BY EmptySeq
      <4>3. new = <<>>
        BY <2>4, <4>1 DEF Blank
      <4>4. u = x
        BY <2>4, <4>2, <4>3 DEF Plain, IsUpdate
      <4> QED BY <4>1, <4>4
    <3> QED BY <3>1 DEF Silent
  <2>7. Redrawn(w.rows, x) = Redrawn(w.rows, u)
    BY <2>4 DEF Redrawn
  <2>8. w.late = FALSE => w.dead = FALSE /\ Redrawn(w.rows, x) = rows'
    BY <1>6, <2>7
  <2>9. w.dead = FALSE => Or(x.hold, w.hold) \in {hold', None}
    BY <1>6, <2>4
  <2>10. PICK q : q = w.queue \o x.add
    OBVIOUS
  <2>11. w.late = FALSE => ComingNext(q, x, lst, hold')
    <3>1. SUFFICES ASSUME w.late = FALSE  PROVE ComingNext(q, x, lst, hold')
      OBVIOUS
    <3>2. PICK v \in Seq(Pieces) : v = w.queue
      BY <1>6, <3>1
    <3>3. Coming(v, list, hold) /\ q = v \o new
      BY <1>6, <2>4, <2>10, <3>1, <3>2
    <3>4. CASE v = list
      <4>1. q = all
        BY <1>4, <3>3, <3>4
      <4> QED BY <1>9, <2>3, <2>4, <4>1 DEF ComingNext, Coming
    <3>5. CASE hold # None /\ v # <<>> /\ Tail(v) = list
      <4>1. u.hold = None /\ hold' = hold
        BY <3>5
      <4>2. v # <<>>
        BY <3>5
      <4>3. q # <<>> /\ Tail(q) = Tail(v) \o new
        <5>1. Continues(q, v, new)
          BY <1>5, <3>3, <4>2, TailJoined
        <5> QED BY <5>1 DEF Continues
      <4>4. Tail(q) = all
        BY <1>4, <3>5, <4>3
      <4> QED BY <1>9, <2>3, <2>4, <3>5, <4>1, <4>3, <4>4 DEF ComingNext, Coming
    <3> QED BY <3>3, <3>4, <3>5 DEF Coming
  <2>12. w.late = FALSE => /\ w.queue \in Seq(Pieces) /\ q = w.queue \o x.add
                           /\ ComingNext(q, x, lst, hold')
    BY <1>6, <2>10, <2>11
  <2>13. x.add \in Seq(Pieces) /\ p \in Pieces /\ lst \in Seq(Pieces) /\ Len(lst) <= Preview
    BY <1>5, <2>2, <2>3, <2>4
  <2>14. Enter(p, lst, c, before, x)
    BY <2>1, <2>3
  <2> QED BY <1>1, <1>6, <2>5, <2>6, <2>8, <2>9, <2>12, <2>13, <2>14, EnterTells
<1> QED BY <1>8, <1>9

\* What Told says, for a step of the server.
LEMMA ToldIs ==
  ASSUME Told
  PROVE  \E S, w :
           /\ stream \in Seq(S) /\ Reaches(view, stream, w) /\ Agrees(w, rows)
           /\ stream # <<>> => Newest(stream[Len(stream)], w)
           /\ ViewOK(w) /\ w.dead \in BOOLEAN /\ w.late \in BOOLEAN
BY DEF Told, Agrees, ViewOK

LEMMA HoldTells ==
  ASSUME Fits, Told, match' = match, view' = view, Hold
  PROVE  Told'
<1>1. PICK S, w :
        /\ stream \in Seq(S) /\ Reaches(view, stream, w) /\ Agrees(w, rows)
        /\ stream # <<>> => Newest(stream[Len(stream)], w)
        /\ ViewOK(w) /\ w.dead \in BOOLEAN /\ w.late \in BOOLEAN
  BY ToldIs
<1>2. PICK u : u = [Blank EXCEPT !.hold = cur]
  OBVIOUS
<1>3. /\ u.place = None /\ u.at = None /\ u.rot = None /\ u.hold = cur
      /\ u.add = <<>> /\ u.replace = <<>> /\ u.remove = <<>> /\ u.insert = 0
      /\ IsUpdate(u)
  BY <1>2 DEF Blank, IsUpdate
<1>4. /\ cur # None /\ ~over /\ hold' = cur /\ rows' = rows
      /\ IF hold = None THEN NextPiece(rows, at, <<>>, u)
                        ELSE Enter(hold, list, rows, <<>>, u)
  BY <1>2 DEF Hold, Playing
<1>5. Plain(u) /\ Silent(stream, u, w)
  <2>1. u # Blank
    <3>1. Blank.hold = None
      BY DEF Blank
    <3> QED BY <1>3, <1>4, <3>1
  <2> QED BY <1>3, <2>1 DEF Plain, Silent
<1>6. u.add \in Seq(Pieces) /\ Len(u.add) = 0
  BY <1>3
<1>7. w.late = FALSE => w.dead = FALSE /\ Redrawn(w.rows, u) = rows'
  <2>1. SUFFICES ASSUME w.late = FALSE
                 PROVE w.dead = FALSE /\ Redrawn(w.rows, u) = rows'
    OBVIOUS
  <2>2. w.dead = FALSE /\ w.rows = rows /\ w.rows \in Grid
    BY <1>1, <2>1 DEF Agrees, ViewOK
  <2>3. Redrawn(w.rows, u) = Raised(w.rows, 0)
    BY <1>3, <2>2, AttackRedrawn
  <2> QED BY <1>4, <2>2, <2>3, RaisedNone
<1>8. PICK before : before = <<>>
  OBVIOUS
<1>9. stream = stream \o before
  BY <1>1, <1>8, ConcatEmptySeq
<1>10. rows' \in Grid
  BY <1>4 DEF Fits, RowsOK
<1>11. CASE hold = None
  <2>1. NextPiece(rows, at, before, u)
    BY <1>4, <1>8, <1>11
  <2> QED BY <1>1, <1>3, <1>4, <1>5, <1>6, <1>7, <1>9, <1>10, <1>11, <2>1, NextPieceTells
<1>12. CASE hold # None
  <2>1. Enter(hold, list, rows, before, u)
    BY <1>4, <1>8, <1>12
  <2>2. hold \in Pieces /\ list \in Seq(Pieces) /\ Len(list) <= Preview /\ match \in Matches
    BY <1>12 DEF Fits, PieceOK, RowsOK
  <2>3. PICK q : q = w.queue \o u.add
    OBVIOUS
  <2>4. w.late = FALSE => /\ w.queue \in Seq(Pieces) /\ q = w.queue \o u.add
                          /\ ComingNext(q, u, list, hold')
    <3>1. SUFFICES ASSUME w.late = FALSE
                   PROVE  w.queue \in Seq(Pieces) /\ ComingNext(q, u, list, hold')
      BY <2>3
    <3>2. w.queue \in Seq(Pieces) /\ Coming(w.queue, list, hold)
      BY <1>1, <1>4, <3>1 DEF Agrees
    <3>3. q = w.queue
      BY <1>3, <2>3, <3>2, ConcatEmptySeq
    <3>4. Coming(q, list, hold')
      BY <1>4, <3>2, <3>3 DEF Coming
    <3> QED BY <1>3, <1>4, <3>2, <3>4 DEF ComingNext
  <2>5. w.dead = FALSE => Or(u.hold, w.hold) \in {hold', None}
    BY <1>3, <1>4 DEF Or
  <2> QED BY <1>1, <1>5, <1>6, <1>7, <1>9, <1>10, <2>1, <2>2, <2>4, <2>5, EnterTells
<1> QED BY <1>11, <1>12

LEMMA AttackTells ==
  ASSUME Fits, Told, match' = match, view' = view, NEW n \in 1 .. MaxInserts, Attack(n)
  PROVE  Told'
<1>1. PICK S, w :
        /\ stream \in Seq(S) /\ Reaches(view, stream, w) /\ Agrees(w, rows)
        /\ stream # <<>> => Newest(stream[Len(stream)], w)
        /\ ViewOK(w) /\ w.dead \in BOOLEAN /\ w.late \in BOOLEAN
  BY ToldIs
<1>2. PICK u : u = [Blank EXCEPT !.insert = n]
  OBVIOUS
<1>3. /\ u.place = None /\ u.at = None /\ u.rot = None /\ u.hold = None
      /\ u.add = <<>> /\ u.replace = <<>> /\ u.remove = <<>> /\ u.insert = n
  BY <1>2 DEF Blank
<1>4. /\ rows' = Raised(rows, n) /\ Commit(<<>>, u)
      /\ use' = IF use = "fresh" THEN "pushed" ELSE use
      /\ cur' = cur /\ rot' = rot /\ at' = at /\ list' = list /\ hold' = hold /\ over' = over
  BY <1>2 DEF Attack, pieceVars
<1>5. Pieces' = Pieces /\ rows \in Grid /\ (use' # "spent" => use # "spent")
  BY <1>4 DEF Fits, RowsOK, Pieces
<1>6. stream' = stream \o (IF u = Blank THEN <<>> ELSE <<u>>)
  BY <1>1, <1>4, ConcatEmptySeq DEF Commit
<1>7. u # Blank
  <2>1. Blank.insert = 0 /\ n # 0
    BY DEF Blank
  <2> QED BY <1>3, <2>1
<1>8. CASE w.dead = TRUE
  <2>1. w.late # FALSE
    BY <1>1, <1>8 DEF Agrees
  <2> QED BY <1>1, <1>6, <1>8, <2>1, DeadTells
<1>9. CASE w.dead = FALSE
  <2>1. w.late = FALSE => Redrawn(w.rows, u) = rows'
    <3>1. SUFFICES ASSUME w.late = FALSE  PROVE Redrawn(w.rows, u) = rows'
      OBVIOUS
    <3>2. w.rows = rows
      BY <1>1, <3>1 DEF Agrees
    <3> QED BY <1>3, <1>4, <1>5, <3>2, AttackRedrawn
  <2>2. rows' \in Grid
    <3>1. Sparse(rows) /\ n \in Nat
      BY DEF Fits, RowsOK
    <3> QED BY <1>4, <1>5, <3>1, RaisedSparse
  <2>3. w.late = FALSE => Redrawn(w.rows, u) \in Grid
    BY <2>1, <2>2
  <2>4. PICK z : z = Reads(w, u)
    OBVIOUS
  <2>5. Kept(z, w, u)
    BY <1>1, <1>3, <1>9, <2>3, <2>4, ReadKeeps
  <2>6. /\ ViewOK(z) /\ z.late = w.late /\ z.dead = FALSE
        /\ z.rows = Redrawn(w.rows, u) /\ z.cur = w.cur /\ z.rot = w.rot /\ z.at = w.at
        /\ z.queue = w.queue \o u.add /\ z.hold = Or(u.hold, w.hold)
    BY <2>5 DEF Kept
  <2>7. z.hold \in {hold', None}
    BY <1>1, <1>3, <1>4, <1>9, <2>6 DEF Agrees, Or
  <2>8. z.late = FALSE => /\ z.rows = rows' /\ z.queue \in Seq(Pieces')
                          /\ z.queue = w.queue
    <3>1. SUFFICES ASSUME w.late = FALSE
                   PROVE z.rows = rows' /\ z.queue \in Seq(Pieces') /\ z.queue = w.queue
      BY <2>6
    <3>2. w.queue \in Seq(Pieces)
      BY <1>1, <3>1 DEF Agrees
    <3>3. z.queue = w.queue
      BY <1>3, <2>6, <3>2, ConcatEmptySeq
    <3> QED BY <1>5, <2>1, <2>6, <3>1, <3>2, <3>3
  <2>9. Agrees(z, rows)'
    BY <1>1, <1>4, <1>5, <1>9, <2>6, <2>7, <2>8 DEF Agrees
  <2>10. Newest(u, z)'
    BY <1>3 DEF Newest
  <2> QED BY <1>1, <1>6, <1>7, <2>4, <2>9, <2>10, SentOK
<1> QED BY <1>1, <1>8, <1>9

LEMMA TerminoAvailableTells ==
  ASSUME Fits, Told, match' = match, view' = view, TerminoAvailable
  PROVE  Told'
<1>1. PICK S, w :
        /\ stream \in Seq(S) /\ Reaches(view, stream, w) /\ Agrees(w, rows)
        /\ stream # <<>> => Newest(stream[Len(stream)], w)
        /\ ViewOK(w) /\ w.dead \in BOOLEAN /\ w.late \in BOOLEAN
  BY ToldIs
<1>2. PICK before : before = <<>>
  OBVIOUS
<1>3. stream = stream \o before
  BY <1>1, <1>2, ConcatEmptySeq
<1>4. /\ rows' = rows /\ hold' = hold /\ rows \in Grid /\ rows' \in Grid
      /\ list \in Seq(Pieces) /\ Len(list) <= Preview /\ Pieces' = Pieces
  BY DEF TerminoAvailable, Fits, PieceOK, RowsOK, Pieces
<1>7. PICK s : s = stream
  OBVIOUS
<1>5. CASE cur = None
  <2>1. NextPiece(rows, at, before, Blank) /\ ~over
    BY <1>2, <1>5 DEF TerminoAvailable, Fits, PieceOK
  <2>2. PICK u : u = Blank
    OBVIOUS
  <2>3. /\ IsUpdate(u) /\ u.place = None /\ u.rot = None /\ u.at = None /\ u.hold = None
        /\ u.add = <<>> /\ u.remove = <<>> /\ u.insert = 0
    BY <2>2 DEF Blank, IsUpdate
  <2>4. Plain(u) /\ u.add \in Seq(Pieces) /\ Len(u.add) = 0
    BY <2>3 DEF Plain
  <2>5. Silent(stream, u, w)
    <3>1. stream # <<>> => stream[Len(stream)].at = None \/ w.dead = TRUE
      BY <1>1, <1>5 DEF Newest
    <3> QED BY <3>1 DEF Silent
  <2>6. w.late = FALSE => Redrawn(w.rows, u) = rows'
    BY <1>1, <1>4, <2>2, PlainBlank DEF Agrees
  <2>7. NextPiece(rows, at, before, u)
    BY <2>1, <2>2
  <2> QED BY <1>1, <1>3, <1>4, <2>1, <2>3, <2>4, <2>5, <2>6, <2>7, NextPieceTells
<1>6. CASE cur # None
  <2>1. PICK new \in Dealt(Preview - Len(list)) :
          /\ list' = list \o new
          /\ Commit(<<>>, [Blank EXCEPT !.add = new])
          /\ UNCHANGED <<cur, rot, at, over, use>>
    BY <1>6 DEF TerminoAvailable
  <2>2. new \in Seq(Pieces)
    <3>1. Preview - Len(list) \in Nat
      BY <1>4, Sizes, LenProperties
    <3> QED BY <3>1, DealtIs
  <2>3. PICK u : u = [Blank EXCEPT !.add = new]
    OBVIOUS
  <2>4. /\ u.place = None /\ u.at = None /\ u.rot = None /\ u.hold = None
        /\ u.add = new /\ u.replace = <<>> /\ u.remove = <<>> /\ u.insert = 0
    BY <2>3 DEF Blank
  <2>5. stream' = s \o (IF u = Blank THEN <<>> ELSE <<u>>)
    BY <1>2, <1>3, <1>7, <2>1, <2>3 DEF Commit
  <2>6. CASE w.dead = TRUE
    <3>1. w.late # FALSE
      BY <1>1, <2>6 DEF Agrees
    <3> QED BY <1>1, <1>7, <2>5, <2>6, <3>1, DeadTells
  <2>7. CASE w.dead = FALSE
    <3>1. w.late = FALSE => Redrawn(w.rows, u) = rows'
      <4>1. SUFFICES ASSUME w.late = FALSE  PROVE Redrawn(w.rows, u) = rows'
        OBVIOUS
      <4>2. w.rows = rows
        BY <1>1, <4>1 DEF Agrees
      <4>3. Redrawn(rows, u) = Raised(rows, 0)
        BY <1>4, <2>4, AttackRedrawn
      <4> QED BY <1>4, <4>2, <4>3, RaisedNone
    <3>2. w.late = FALSE => Redrawn(w.rows, u) \in Grid
      BY <1>4, <3>1
    <3>3. PICK z : z = Reads(w, u)
      OBVIOUS
    <3>4. Kept(z, w, u)
      BY <1>1, <2>4, <2>7, <3>2, <3>3, ReadKeeps
    <3>5. /\ ViewOK(z) /\ z.late = w.late /\ z.dead = FALSE
          /\ z.rows = Redrawn(w.rows, u) /\ z.cur = w.cur /\ z.rot = w.rot /\ z.at = w.at
          /\ z.queue = w.queue \o u.add /\ z.hold = Or(u.hold, w.hold)
      BY <3>4 DEF Kept
    <3>6. z.hold \in {hold', None}
      BY <1>1, <1>4, <2>4, <2>7, <3>5 DEF Agrees, Or
    <3>7. z.late = FALSE => /\ z.rows = rows' /\ z.queue \in Seq(Pieces')
                            /\ ~over => Coming(z.queue, list', hold')
      <4>1. SUFFICES ASSUME w.late = FALSE
                     PROVE  /\ z.rows = rows' /\ z.queue \in Seq(Pieces')
                            /\ ~over => Coming(z.queue, list', hold')
        BY <3>5
      <4>2. w.queue \in Seq(Pieces) /\ (~over => Coming(w.queue, list, hold))
        BY <1>1, <4>1 DEF Agrees
      <4>3. z.queue = w.queue \o new
        BY <2>4, <3>5
      <4>4. w.queue \o new \in Seq(Pieces)
        BY <2>2, <4>2, ConcatProperties
      <4>5. ~over => Coming(w.queue \o new, list \o new, hold)
        BY <1>4, <2>2, <4>2, ComingMore
      <4> QED BY <1>4, <2>1, <3>1, <3>5, <4>1, <4>3, <4>4, <4>5
    <3>8. Agrees(z, rows)'
      BY <1>1, <1>4, <2>1, <2>7, <3>5, <3>6, <3>7 DEF Agrees
    <3>9. Newest(u, z)'
      BY <2>4 DEF Newest
    <3>10. ASSUME u = Blank
           PROVE  Agrees(w, rows)' /\ (s # <<>> => Newest(s[Len(s)], w)')
      <4>1. new = <<>>
        BY <2>4, <3>10 DEF Blank
      <4>2. list' = list
        BY <1>4, <2>1, <4>1, ConcatEmptySeq
      <4>3. Agrees(w, rows)'
        BY <1>1, <1>4, <2>1, <4>2 DEF Agrees
      <4>4. s # <<>> => Newest(s[Len(s)], w)
        BY <1>1, <1>7
      <4> QED BY <2>1, <4>3, <4>4 DEF Newest
    <3> QED BY <1>1, <1>7, <2>5, <3>3, <3>8, <3>9, <3>10, SentOK
  <2> QED BY <1>1, <2>6, <2>7
<1> QED BY <1>5, <1>6

LEMMA LockTells ==
  ASSUME Fits, Told, Playing, match' = match, view' = view,
         NEW spot \in Int \X Int, Covered(cur, rot, spot) \subseteq Ground, LockAt(spot)
  PROVE  Told'
<1>1. PICK S, w :
        /\ stream \in Seq(S) /\ Reaches(view, stream, w) /\ Agrees(w, rows)
        /\ stream # <<>> => Newest(stream[Len(stream)], w)
        /\ ViewOK(w) /\ w.dead \in BOOLEAN /\ w.late \in BOOLEAN
  BY ToldIs
<1>2. PICK full, u :
        /\ full = Put(rows, Covered(cur, rot, spot))
        /\ u = [Blank EXCEPT !.replace = Replaced(full, cur, spot),
                             !.remove = Removed(full)]
  OBVIOUS
<1>3. /\ rows' = Cleared(full) /\ hold' = hold
      /\ \/ NextPiece(rows', spot, <<>>, u)
         \/ NextPiece(rows', spot, <<u>>, Blank)
  BY <1>2 DEF LockAt
<1>4. /\ u.place = None /\ u.at = None /\ u.rot = None /\ u.hold = None
      /\ u.add = <<>> /\ u.replace = Replaced(full, cur, spot)
      /\ u.remove = Removed(full) /\ u.insert = 0 /\ IsUpdate(u)
  BY <1>2 DEF Blank, IsUpdate
<1>5. cur \in Terminoes /\ rot \in 0 .. 3 /\ rows \in Grid /\ ~over
  BY InPlay DEF Fits, RowsOK
<1>6. full \in Grid
  BY <1>2, <1>5, PutIs
<1>7. rows' \in Grid
  BY <1>3, <1>6, ClearedSparse
<1>8. Redrawn(rows, u) = rows' /\ u.replace # <<>>
  <2>1. Redrawn(rows, u) = Cleared(full) /\ u.replace # <<>>
    <3>1. PICK b, p, r : b = rows /\ p = cur /\ r = rot
      OBVIOUS
    <3>2. /\ u.replace = Replaced(full, p, spot) /\ u.remove = Removed(full) /\ u.insert = 0
          /\ full = Put(b, Covered(p, r, spot))
      BY <1>2, <1>4, <3>1
    <3>3. /\ b \in Grid /\ p \in Terminoes /\ r \in 0 .. 3
          /\ Covered(p, r, spot) \subseteq Ground
      BY <1>5, <3>1
    <3>4. Redrawn(b, u) = Cleared(full) /\ DOMAIN u.replace # {}
      BY <3>2, <3>3, LockRedrawn
    <3> QED BY <3>1, <3>4
  <2> QED BY <1>3, <2>1
<1>9. Plain(u)
  BY <1>4, <1>8 DEF Plain
<1>10. w.late = FALSE => Redrawn(w.rows, u) = rows'
  BY <1>1, <1>8 DEF Agrees
<1>11. PICK c : c = rows'
  OBVIOUS
<1>12. CASE NextPiece(rows', spot, <<>>, u)
  <2>1. PICK before : before = <<>>
    OBVIOUS
  <2>2. stream = stream \o before
    BY <1>1, <2>1, ConcatEmptySeq
  <2>3. u # Blank
    <3>1. Blank.replace = <<>>
      BY DEF Blank
    <3> QED BY <1>8, <3>1
  <2>4. Silent(stream, u, w)
    BY <2>3 DEF Silent
  <2>5. u.add \in Seq(Pieces) /\ Len(u.add) = 0
    BY <1>4
  <2>6. NextPiece(c, spot, before, u)
    BY <1>11, <1>12, <2>1
  <2> QED BY <1>1, <1>3, <1>4, <1>5, <1>7, <1>9, <1>10, <2>2, <2>4, <2>5, <2>6, NextPieceTells
<1>13. CASE NextPiece(rows', spot, <<u>>, Blank)
  <2>1. PICK before, x : before = <<u>> /\ x = Blank
    OBVIOUS
  <2>2. PICK T : T = S \cup {u}
    OBVIOUS
  <2>3. stream \in Seq(T) /\ u \in T
    BY <1>1, <2>2, SeqMonotonic
  <2>4. PICK s : s = Append(stream, u)
    OBVIOUS
  <2>5. s = stream \o before
    BY <2>1, <2>3, <2>4, AppendIsConcat
  <2>6. s \in Seq(T) /\ s[Len(s)] = u
    BY <2>3, <2>4, AppendProperties
  <2>7. PICK z : z = Reads(w, u)
    OBVIOUS
  <2>8. Agrees(z, c)
    <3>1. CASE w.dead = TRUE
      <4>1. z = w
        BY <2>7, <3>1 DEF Reads
      <4> QED BY <1>1, <3>1, <4>1 DEF Agrees
    <3>2. CASE w.dead = FALSE
      <4>1. w.late = FALSE => Redrawn(w.rows, u) \in Grid
        BY <1>7, <1>10
      <4>2. Kept(z, w, u)
        BY <1>1, <1>4, <2>7, <3>2, <4>1, ReadKeeps
      <4>3. /\ ViewOK(z) /\ z.late = w.late /\ z.dead = FALSE
            /\ z.rows = Redrawn(w.rows, u) /\ z.cur = w.cur /\ z.rot = w.rot /\ z.at = w.at
            /\ z.queue = w.queue \o u.add /\ z.hold = Or(u.hold, w.hold)
        BY <4>2 DEF Kept
      <4>4. z.hold = w.hold
        BY <1>4, <4>3 DEF Or
      <4>5. w.late = FALSE => w.queue \in Seq(Pieces) /\ z.queue = w.queue
        <5>1. SUFFICES ASSUME w.late = FALSE
                       PROVE w.queue \in Seq(Pieces) /\ z.queue = w.queue
          OBVIOUS
        <5>2. w.queue \in Seq(Pieces)
          BY <1>1, <5>1 DEF Agrees
        <5> QED BY <1>4, <4>3, <5>2, ConcatEmptySeq
      <4> QED BY <1>1, <1>10, <1>11, <3>2, <4>3, <4>4, <4>5 DEF Agrees
    <3> QED BY <1>1, <3>1, <3>2
  <2>9. ViewOK(z)
    BY <2>8 DEF Agrees
  <2>10. PICK v : v = view
    OBVIOUS
  <2>11. Reaches(v, stream, w)
    BY <1>1, <2>10
  <2>12. Reaches(v, s, z)
    BY <2>3, <2>4, <2>7, <2>9, <2>11, ReachesMore
  <2>13. Reaches(view, s, z)
    BY <2>10, <2>12
  <2>14. /\ IsUpdate(x) /\ x.place = None /\ x.rot = None /\ x.at = None /\ x.hold = None
         /\ x.add = <<>> /\ x.remove = <<>> /\ x.insert = 0
    BY <2>1 DEF Blank, IsUpdate
  <2>15. Plain(x) /\ x.add \in Seq(Pieces) /\ Len(x.add) = 0
    BY <2>14 DEF Plain
  <2>16. Silent(s, x, z)
    BY <1>4, <2>6 DEF Silent
  <2>17. z.late = FALSE => Redrawn(z.rows, x) = rows'
    BY <1>11, <2>1, <2>8, <2>9, PlainBlank DEF Agrees
  <2>18. NextPiece(c, spot, before, x)
    BY <1>11, <1>13, <2>1
  <2> QED BY <1>3, <1>5, <1>7, <2>5, <2>6, <2>8, <2>13, <2>14, <2>15, <2>16, <2>17, <2>18,
             NextPieceTells
<1> QED BY <1>3, <1>12, <1>13

LEMMA ClientReadsTells ==
  ASSUME Told, ClientReads
  PROVE  Told'
<1>1. PICK S, w :
        /\ stream \in Seq(S) /\ Reaches(view, stream, w) /\ Agrees(w, rows)
        /\ stream # <<>> => Newest(stream[Len(stream)], w)
        /\ ViewOK(w) /\ w.dead \in BOOLEAN /\ w.late \in BOOLEAN
  BY ToldIs
<1>2. PICK v, s : v = view /\ s = stream
  OBVIOUS
<1>3. PICK u, t : u = Head(s) /\ t = Tail(s)
  OBVIOUS
<1>4. s # <<>> /\ view' = Reads(v, u) /\ stream' = t
  BY <1>2, <1>3 DEF ClientReads, Reads
<1>5. t \in Seq(S) /\ Reaches(Reads(v, u), t, w)
  BY <1>1, <1>2, <1>3, <1>4, ReachesHead
<1>6. /\ rows' = rows /\ cur' = cur /\ rot' = rot /\ at' = at /\ list' = list
      /\ hold' = hold /\ over' = over /\ use' = use /\ Pieces' = Pieces
  BY DEF ClientReads, pieceVars, history, Pieces
<1>7. Agrees(w, rows)'
  BY <1>1, <1>6 DEF Agrees
<1>8. t # <<>> => t[Len(t)] = s[Len(s)]
  <2>1. PICK n \in Nat : Len(s) = n + 1
    <3>1. s \in Seq(S) /\ Len(s) \in Nat \ {0}
      BY <1>1, <1>2, <1>4, EmptySeq
    <3>2. Len(s) - 1 \in Nat /\ Len(s) = (Len(s) - 1) + 1
      BY <3>1
    <3> QED BY <3>2
  <2>2. Len(t) = n /\ \A i \in 1 .. n : t[i] = s[i + 1]
    <3>1. Len(t) = Len(s) - 1 /\ \A i \in 1 .. Len(t) : t[i] = s[i + 1]
      BY <1>1, <1>2, <1>3, <1>4, HeadTailProperties
    <3>2. Len(t) = n
      BY <2>1, <3>1
    <3> QED BY <3>1, <3>2
  <2>3. t # <<>> => n # 0
    BY <1>5, <2>2, EmptySeq
  <2>4. n # 0 => n \in 1 .. n
    OBVIOUS
  <2> QED BY <2>1, <2>2, <2>3, <2>4
<1>9. t # <<>> => Newest(t[Len(t)], w)'
  <2>1. s # <<>> => Newest(s[Len(s)], w)
    BY <1>1, <1>2
  <2> QED BY <1>4, <1>6, <1>8, <2>1 DEF Newest
<1>10. PICK x : x = Reads(v, u)
  OBVIOUS
<1>11. view' = x /\ Reaches(x, t, w)
  BY <1>4, <1>5, <1>10
<1> QED BY <1>4, <1>5, <1>7, <1>9, <1>11 DEF Told

\* A client that has just come, and has nothing to read.
LEMMA NewlyIn ==
  ASSUME NEW late \in BOOLEAN, NEW w, w = NewView(late)
  PROVE  /\ ViewOK(w) /\ w.late = late /\ w.dead = FALSE /\ w.rows = Empty
         /\ w.cur = None /\ w.hold = None /\ Len(w.queue) = 0
BY EmptyGrid DEF ViewOK, IsView, NewView

LEMMA NewlyTold ==
  ASSUME Fits', NEW late \in BOOLEAN, view' = NewView(late), stream' = <<>>,
         late = FALSE => cur' = None /\ rows' = Empty
  PROVE  Told'
<1>1. PICK w, t : w = NewView(late) /\ t = <<>>
  OBVIOUS
<1>2. /\ ViewOK(w) /\ w.late = late /\ w.dead = FALSE /\ w.rows = Empty
      /\ w.cur = None /\ w.hold = None /\ w.queue = <<>>
  BY <1>1, NewlyIn DEF NewView
<1>3. Len(t) = 0 /\ t \in Seq({})
  BY <1>1
<1>4. Reaches(w, t, w)
  BY <1>2, <1>3, ReachesNone
<1>5. cur' = None => list' = <<>>
  BY DEF Fits, PieceOK
<1>6. late = FALSE => Coming(w.queue, list', hold')
  BY <1>2, <1>5 DEF Coming
<1>7. w.queue \in Seq(Pieces')
  BY <1>2
<1>8. Agrees(w, rows)'
  BY <1>2, <1>6, <1>7 DEF Agrees
<1>9. view' = w /\ stream' = t /\ (t # <<>> => FALSE)
  BY <1>1
<1> QED BY <1>3, <1>4, <1>8, <1>9 DEF Told

LEMMA ClientJoinsTells ==
  ASSUME Fits, Fits', ClientJoins
  PROVE  Told'
<1>1. PICK late : late = (cur # None \/ rows # Empty)
  OBVIOUS
<1>2. late \in BOOLEAN /\ (late = FALSE => cur = None /\ rows = Empty)
  BY <1>1
<1>3. view' = NewView(late) /\ stream' = <<>> /\ cur' = cur /\ rows' = rows
  BY <1>1 DEF ClientJoins, pieceVars
<1> QED BY <1>2, <1>3, NewlyTold

LEMMA InitTells == Init => Told
<1> SUFFICES ASSUME Init  PROVE Told
  OBVIOUS
<1>1. PICK w, t : w = NewView(FALSE) /\ t = <<>>
  OBVIOUS
<1>2. /\ ViewOK(w) /\ w.late = FALSE /\ w.dead = FALSE /\ w.rows = Empty
      /\ w.cur = None /\ w.hold = None /\ w.queue = <<>>
  BY <1>1, NewlyIn DEF NewView
<1>3. Len(t) = 0 /\ t \in Seq({})
  BY <1>1
<1>4. Reaches(w, t, w)
  BY <1>2, <1>3, ReachesNone
<1>5. /\ view = w /\ stream = t /\ rows = Empty /\ cur = None /\ list = <<>>
      /\ (t # <<>> => FALSE)
  BY <1>1 DEF Init, BoardInit
<1>6. Coming(w.queue, list, hold) /\ w.queue \in Seq(Pieces)
  BY <1>2, <1>5 DEF Coming
<1>7. Agrees(w, rows)
  BY <1>2, <1>5, <1>6 DEF Agrees
<1> QED BY <1>3, <1>4, <1>5, <1>7 DEF Told

LEMMA BoardTells ==
  ASSUME Fits, Told, BoardNext, view' = view
  PROVE  Told'
<1>1. match' = match
  BY DEF BoardNext
<1>2. CASE \E d \in {-1, 1} : Move(d)
  <2>1. PICK spot : Playing /\ Goes(spot, rot)
    BY <1>2, MoveGoes
  <2> QED BY <1>1, <2>1, ShownTells DEF Goes
<1>3. CASE \E count \in {-1, 1, 2} : Rotate(count)
  <2>1. PICK spot, r : Playing /\ Goes(spot, r)
    BY <1>3, RotateGoes
  <2> QED BY <1>1, <2>1, ShownTells DEF Goes
<1>4. CASE SoftDrop
  <2>1. Playing
    BY <1>4 DEF SoftDrop
  <2>2. CASE LockAt(at)
    BY <1>1, <2>1, <2>2, InPlay, LockTells
  <2>3. CASE Shown(SoftDropped, rot)
    <3>1. PICK y \in Int : y = Floor(rows, cur, rot, at)
      BY <2>1, InPlay, FloorBelow
    <3>2. PICK spot : spot = SoftDropped
      OBVIOUS
    <3>3. spot \in Int \X Int
      BY <2>1, <3>1, <3>2, InPlay DEF SoftDropped, Below
    <3> QED BY <1>1, <2>1, <2>3, <3>2, <3>3, InPlay, ShownTells
  <2> QED BY <1>4, <2>2, <2>3 DEF SoftDrop
<1>5. CASE Drop
  <2>1. Playing
    BY <1>5 DEF Drop
  <2>2. PICK y : y = Floor(rows, cur, rot, at)
    OBVIOUS
  <2>3. y \in y .. at[2]
    BY <2>1, <2>2, InPlay, FloorBelow
  <2>4. PICK spot : spot = <<at[1], y>>
    OBVIOUS
  <2>5. spot \in Int \X Int /\ Covered(cur, rot, spot) \subseteq Ground
    BY <2>1, <2>2, <2>3, <2>4, InPlay, FloorIs
  <2>6. LockAt(spot)
    BY <1>5, <2>2, <2>4 DEF Drop
  <2> QED BY <1>1, <2>1, <2>5, <2>6, LockTells
<1>6. CASE Lock
  <2>1. Playing
    BY <1>6 DEF Lock
  <2>2. CASE LockAt(at)
    BY <1>1, <2>1, <2>2, InPlay, LockTells
  <2>3. CASE Shown(Below(at, 1), rot)
    <3>1. PICK spot : spot = Below(at, 1)
      OBVIOUS
    <3>2. spot \in Int \X Int
      BY <2>1, <3>1, InPlay DEF Below
    <3> QED BY <1>1, <2>1, <2>3, <3>1, <3>2, InPlay, ShownTells
  <2> QED BY <1>6, <2>2, <2>3 DEF Lock
<1>7. CASE Hold
  BY <1>1, <1>7, HoldTells
<1>8. CASE TerminoAvailable
  BY <1>1, <1>8, TerminoAvailableTells
<1>9. CASE \E n \in 1 .. MaxInserts : Attack(n)
  BY <1>1, <1>9, AttackTells
<1> QED BY <1>2, <1>3, <1>4, <1>5, <1>6, <1>7, <1>8, <1>9 DEF BoardNext

LEMMA NextTells == Fits /\ Told /\ [Next]_vars => Told'
<1> SUFFICES ASSUME Fits, Told, [Next]_vars  PROVE Told'
  OBVIOUS
<1>1. CASE BoardNext /\ UNCHANGED view
  BY <1>1, BoardTells
<1>2. CASE ClientReads
  BY <1>2, ClientReadsTells
<1>3. CASE ClientJoins
  BY <1>3, NextOK, ClientJoinsTells
<1>4. CASE UNCHANGED vars
  BY <1>4 DEF vars, boardVars, pieceVars, history, Told, Agrees, Newest, Pieces
<1> QED BY <1>1, <1>2, <1>3, <1>4 DEF Next

\* Once it has read what is under way, a client of the match agrees with the
\* board, whenever it came.
THEOREM ClientsAgree == Spec => [](Fits /\ Told)
<1>1. Fits /\ Told /\ [Next]_vars => (Fits /\ Told)'
  BY NextOK, NextTells
<1> QED BY <1>1, InitOK, InitTells, PTL DEF Spec

\* A client that has read every update is where the updates lead to.
LEMMA ReadAll ==
  ASSUME Told, stream = <<>>
  PROVE  Agrees(view, rows) /\ view.late \in BOOLEAN /\ view.dead \in BOOLEAN
<1>1. PICK S, w :
        /\ stream \in Seq(S) /\ Reaches(view, stream, w) /\ Agrees(w, rows)
        /\ stream # <<>> => Newest(stream[Len(stream)], w)
        /\ ViewOK(w) /\ w.dead \in BOOLEAN /\ w.late \in BOOLEAN
  BY ToldIs
<1>2. PICK v, s : v = view /\ s = stream
  OBVIOUS
<1>3. Len(s) = 0 /\ Reaches(v, s, w)
  BY <1>1, <1>2
<1>4. w = v
  BY <1>3, ReachesNone
<1> QED BY <1>1, <1>2, <1>4

\* A client that was there from the start and has read every update has the
\* rows of the board: lines replaced, removed and inserted, in one update or
\* several, end up where the server has them.
THEOREM ClientsHaveTheRows == Spec => []MirrorsRows
<1>1. Told => MirrorsRows
  BY ReadAll DEF MirrorsRows, UpToDate, Agrees
<1> QED BY <1>1, ClientsAgree, PTL

\* A client that has read every update shows the current piece, where it is
\* and how it is turned, what is held, and, if it was there from the start, what
\* is to come, with at most one piece that has come ahead of it.
THEOREM ClientsHaveThePieces == Spec => []MirrorsPieces
<1>1. Told => MirrorsPieces
  <2> SUFFICES ASSUME Told, UpToDate, ~over
               PROVE  CurrentShown /\ (view.late \/ ComingShown)
    BY DEF MirrorsPieces
  <2>1. Agrees(view, rows) /\ view.late \in BOOLEAN /\ view.dead = FALSE
    BY ReadAll DEF UpToDate
  <2>2. CurrentShown
    BY <2>1 DEF Agrees, CurrentShown
  <2>3. view.late \/ ComingShown
    BY <2>1 DEF Agrees, Coming, ComingShown
  <2> QED BY <2>2, <2>3
<1> QED BY <1>1, ClientsAgree, PTL

\* A client that has been told where a piece is has one from then on, or has
\* died of it.
HasPiece(v) == v.dead = TRUE \/ v.cur # None

LEMMA ReadsPiece ==
  ASSUME NEW v, ViewOK(v), NEW u, NEW z, z = Reads(v, u)
  PROVE  z.late = v.late /\ (HasPiece(v) \/ u.at # None => HasPiece(z))
<1>1. v.dead \in BOOLEAN
  BY DEF ViewOK
<1>2. CASE v.dead = TRUE
  BY <1>2 DEF Reads, HasPiece
<1>3. CASE v.dead = FALSE /\ u.at # None /\ Or(u.place, v.cur) = None
  <2>1. z = Applied(v, u)
    BY <1>3 DEF Reads
  <2>3. u.at # None /\ Or(u.place, v.cur) = None
    BY <1>3
  <2>2. Died(z, v)
    BY <2>1, <2>3, DeadIs
  <2> QED BY <2>2 DEF Died, HasPiece
<1>4. CASE v.dead = FALSE /\ (u.at = None \/ Or(u.place, v.cur) # None)
  <2>1. z = Applied(v, u)
    BY <1>4 DEF Reads
  <2>2. z.late = v.late /\ z.cur = Or(u.place, v.cur)
    BY <1>4, <2>1, AppliedIs
  <2> QED BY <1>4, <2>2 DEF HasPiece, Or
<1> QED BY <1>1, <1>2, <1>3, <1>4

LEMMA ReachesPiece ==
  ASSUME NEW v, NEW S, NEW s \in Seq(S), NEW w, Reaches(v, s, w), HasPiece(v)
  PROVE  w.late = v.late /\ HasPiece(w)
<1>1. PICK n \in Nat : n = Len(s)
  BY LenProperties
<1>2. PICK g : /\ g[0] = v /\ g[n] = w
               /\ \A k \in 1 .. n : g[k] = Reads(g[k - 1], s[k])
               /\ \A k \in 0 .. n : ViewOK(g[k])
  BY <1>1 DEF Reaches
<1>3. PICK T : T = {k \in 0 .. n : g[k].late = v.late /\ HasPiece(g[k])}
  OBVIOUS
<1>4. 0 \in T
  BY <1>2, <1>3
<1>5. ASSUME NEW k \in 1 .. n, k - 1 \in T  PROVE k \in T
  <2>1. PICK x, z, u : x = g[k - 1] /\ z = g[k] /\ u = s[k]
    OBVIOUS
  <2>2. x.late = v.late /\ HasPiece(x)
    BY <1>3, <1>5, <2>1
  <2>3. ViewOK(x) /\ z = Reads(x, u)
    <3>1. k - 1 \in 0 .. n
      OBVIOUS
    <3> QED BY <1>2, <2>1, <3>1
  <2>4. z.late = x.late /\ HasPiece(z)
    BY <2>2, <2>3, ReadsPiece
  <2> QED BY <1>3, <2>1, <2>2, <2>4
<1>6. \A k \in 0 .. n : k \in T
  BY <1>4, <1>5, Loop
<1>7. n \in T
  <2>1. n \in 0 .. n
    OBVIOUS
  <2> QED BY <1>6, <2>1
<1> QED BY <1>2, <1>3, <1>7

\* Updates are only added by the server.
Commits == \E T, before, u : before \in Seq(T) /\ Commit(before, u)

LEMMA CommitsMore ==
  ASSUME NEW S, stream \in Seq(S), stream # <<>>, Commits
  PROVE  stream' # <<>>
<1>1. PICK T, before, u : before \in Seq(T) /\ Commit(before, u)
  BY DEF Commits
<1>2. PICK U, e : U = S \cup T \cup {u} /\ e = (IF u = Blank THEN <<>> ELSE <<u>>)
  OBVIOUS
<1>3. stream \in Seq(U) /\ before \in Seq(U)
  BY <1>1, <1>2, SeqMonotonic
<1>4. e \in Seq(U)
  <2>1. <<>> \in Seq(U) /\ <<u>> \in Seq(U)
    BY <1>2
  <2> QED BY <1>2, <2>1
<1>5. stream' = (stream \o before) \o e
  BY <1>1, <1>2 DEF Commit
<1>6. Len(stream) # 0
  BY EmptySeq
<1>7. stream \o before \in Seq(U) /\ Len(stream \o before) = Len(stream) + Len(before)
  BY <1>3, ConcatProperties
<1>8. PICK a \in Seq(U) : a = stream \o before
  BY <1>7
<1>9. a \o e \in Seq(U) /\ Len(a \o e) = Len(a) + Len(e)
  BY <1>4, ConcatProperties
<1>10. Len(stream) \in Nat /\ Len(before) \in Nat /\ Len(e) \in Nat
  BY <1>3, <1>4, LenProperties
<1>11. Len(stream') # 0
  BY <1>5, <1>6, <1>7, <1>8, <1>9, <1>10
<1> QED BY <1>11

LEMMA NextPieceCommits ==
  ASSUME NEW b, NEW spot, NEW T, NEW before, before \in Seq(T), NEW u,
         \/ NextPiece(b, spot, before, u)
         \/ \E p, lst : Enter(p, lst, b, before, u)
  PROVE  Commits
<1>1. ASSUME NEW p, NEW lst, NEW x, Enter(p, lst, b, before, x)  PROVE Commits
  BY <1>1 DEF Enter, Commits
<1>2. CASE NextPiece(b, spot, before, u)
  <2>1. PICK new :
          IF list \o new = <<>>
          THEN Commit(before, u)
          ELSE Enter(Head(list \o new), Tail(list \o new), b, before,
                     [u EXCEPT !.add = new])
    BY <1>2 DEF NextPiece
  <2> QED BY <1>1, <2>1 DEF Commits
<1> QED BY <1>1, <1>2

LEMMA BoardCommits == BoardNext => Commits
<1> SUFFICES ASSUME BoardNext  PROVE Commits
  OBVIOUS
<1>1. PICK none, T : none = <<>> /\ T = {}
  OBVIOUS
<1>2. none \in Seq(T)
  BY <1>1
<1>3. ASSUME NEW spot, NEW r, Shown(spot, r)  PROVE Commits
  BY <1>1, <1>2, <1>3 DEF Shown, Commits
<1>4. ASSUME NEW spot, LockAt(spot)  PROVE Commits
  <2>1. PICK lines : NextPiece(rows', spot, <<>>, lines)
                     \/ NextPiece(rows', spot, <<lines>>, Blank)
    BY <1>4 DEF LockAt
  <2>2. PICK b, L, one : b = rows' /\ L = {lines} /\ one = <<lines>>
    OBVIOUS
  <2>3. one \in Seq(L)
    BY <2>2
  <2>4. NextPiece(b, spot, none, lines) \/ NextPiece(b, spot, one, Blank)
    BY <1>1, <2>1, <2>2
  <2> QED BY <1>2, <2>3, <2>4, NextPieceCommits
<1>5. CASE \E d \in {-1, 1} : Move(d)
  BY <1>3, <1>5 DEF Move
<1>6. CASE \E count \in {-1, 1, 2} : Rotate(count)
  BY <1>3, <1>6 DEF Rotate
<1>7. CASE SoftDrop \/ Drop \/ Lock
  BY <1>3, <1>4, <1>7 DEF SoftDrop, Drop, Lock
<1>8. CASE Hold
  <2>1. PICK u : \/ NextPiece(rows, at, none, u)
                 \/ Enter(hold, list, rows, none, u)
    BY <1>1, <1>8 DEF Hold
  <2> QED BY <1>2, <2>1, NextPieceCommits
<1>9. CASE TerminoAvailable
  <2>1. CASE cur = None
    <3>1. NextPiece(rows, at, none, Blank)
      BY <1>1, <1>9, <2>1 DEF TerminoAvailable
    <3> QED BY <1>2, <3>1, NextPieceCommits
  <2>2. CASE cur # None
    BY <1>1, <1>2, <1>9, <2>2 DEF TerminoAvailable, Commits
  <2> QED BY <2>1, <2>2
<1>10. CASE \E n \in 1 .. MaxInserts : Attack(n)
  BY <1>1, <1>2, <1>10 DEF Attack, Commits
<1> QED BY <1>5, <1>6, <1>7, <1>8, <1>9, <1>10 DEF BoardNext

\* The ghost shows where a hard drop would lock the piece, whenever the update
\* just read has moved the piece and left the lines alone, although the client
\* looks for the floor on the lines before the update.
THEOREM GhostTellsWhereItLands == Spec => GhostTellsTheDrop
<1>1. Fits /\ Told /\ [Next]_vars =>
        [stream # <<>> /\ stream' = <<>> /\ ~view'.late /\ ~over
           /\ Head(stream).at # None /\ Head(stream).replace = <<>> =>
             view'.floor = Floor(rows, cur, rot, at)]_vars
  <2> SUFFICES ASSUME Fits, Told, Next, stream # <<>>, stream' = <<>>, ~view'.late, ~over,
                      Head(stream).at # None, Head(stream).replace = <<>>
               PROVE  view'.floor = Floor(rows, cur, rot, at)
    OBVIOUS
  <2>1. PICK S, w :
          /\ stream \in Seq(S) /\ Reaches(view, stream, w) /\ Agrees(w, rows)
          /\ stream # <<>> => Newest(stream[Len(stream)], w)
          /\ ViewOK(w) /\ w.dead \in BOOLEAN /\ w.late \in BOOLEAN
    BY ToldIs
  <2>2. PICK v, s : v = view /\ s = stream
    OBVIOUS
  <2>3. PICK u, t : u = Head(s) /\ t = Tail(s)
    OBVIOUS
  <2>4. s \in Seq(S) /\ s # <<>> /\ Reaches(v, s, w) /\ u.at # None
    BY <2>1, <2>2, <2>3
  <2>5. PICK z : z = Reads(v, u)
    OBVIOUS
  <2>6. t \in Seq(S) /\ Reaches(z, t, w)
    BY <2>3, <2>4, <2>5, ReachesHead
  <2>7. ViewOK(v) /\ v.dead \in BOOLEAN /\ v.late \in BOOLEAN
    <3>1. ViewOK(v)
      BY <2>4, ReachesEnds
    <3> QED BY <3>1 DEF ViewOK
  <2>8. z.late = v.late /\ HasPiece(z)
    BY <2>4, <2>5, <2>7, ReadsPiece
  <2>9. w.late = z.late /\ HasPiece(w)
    BY <2>6, <2>8, ReachesPiece
  <2>10. CASE BoardNext
    BY <2>1, <2>10, BoardCommits, CommitsMore
  <2>11. CASE ClientJoins
    <3>1. v.late = FALSE
      BY <2>2, <2>7, <2>11 DEF ClientJoins
    <3>2. w.dead = FALSE /\ w.cur = cur
      BY <2>1, <2>8, <2>9, <3>1 DEF Agrees
    <3>3. cur # None
      BY <2>9, <3>2 DEF HasPiece
    <3>4. view' = NewView(TRUE)
      <4>1. (cur # None \/ rows # Empty) = TRUE
        BY <3>3
      <4> QED BY <2>11, <4>1 DEF ClientJoins
    <3>5. view'.late = TRUE
      BY <3>4 DEF NewView
    <3> QED BY <3>5
  <2>12. CASE ClientReads
    <3>1. view' = z /\ t = <<>>
      BY <2>2, <2>3, <2>5, <2>12 DEF ClientReads, Reads
    <3>2. z = w
      <4>1. Len(t) = 0
        BY <3>1
      <4> QED BY <2>6, <4>1, ReachesNone
    <3>3. z.late = FALSE /\ z.dead = FALSE /\ z.rows = rows
      BY <2>1, <3>1, <3>2 DEF Agrees
    <3>4. s[Len(s)] = u
      <4>1. Len(s) = 1
        <5>1. Len(t) = Len(s) - 1 /\ Len(s) \in Nat
          BY <2>3, <2>4, HeadTailProperties, LenProperties
        <5> QED BY <3>1, <5>1
      <4> QED BY <2>3, <2>4, <4>1
    <3>5. Newest(u, w)
      BY <2>1, <2>2, <2>4, <3>4
    <3>6. /\ cur # None /\ z.at = at /\ u.remove = <<>> /\ u.insert = 0
          /\ z.cur = cur /\ z.rot = rot
      <4>1. u.replace = <<>>
        BY <2>2, <2>3
      <4>2. cur # None /\ z.at = at /\ u.remove = <<>> /\ u.insert = 0
        BY <2>4, <3>2, <3>3, <3>5, <4>1 DEF Newest
      <4>3. z.cur = cur /\ z.rot = rot
        BY <2>1, <3>2, <3>3, <4>2 DEF Agrees
      <4> QED BY <4>2, <4>3
    <3>7. v.dead = FALSE /\ z = Applied(v, u)
      BY <2>5, <2>7, <3>3 DEF Reads
    <3>8. Or(u.place, v.cur) # None
      <4>1. SUFFICES ASSUME Or(u.place, v.cur) = None  PROVE FALSE
        OBVIOUS
      <4>2. Died(z, v)
        BY <2>4, <2>7, <3>7, <4>1, DeadIs
      <4> QED BY <3>3, <4>2 DEF Died
    <3>9. /\ z.rows = Redrawn(v.rows, u) /\ z.at = Or(u.at, v.at)
          /\ z.floor = IF u.at = None THEN v.floor
                       ELSE FloorShown(v, z.cur, z.rot, u.at)
      BY <2>7, <3>7, <3>8, AppliedIs
    <3>10. z.at = u.at /\ z.floor = Floor(v.rows, z.cur, z.rot, u.at)
      BY <2>4, <3>9 DEF Or, FloorShown
    <3>11. v.rows = rows
      <4>1. v.rows \in Grid
        BY <2>7, <2>8, <3>3 DEF ViewOK
      <4>2. u.replace = <<>> /\ u.remove = <<>> /\ u.insert = 0
        BY <2>2, <2>3, <3>6
      <4>3. Redrawn(v.rows, u) = Raised(v.rows, 0)
        BY <4>1, <4>2, AttackRedrawn
      <4> QED BY <3>3, <3>9, <4>1, <4>3, RaisedNone
    <3> QED BY <3>1, <3>6, <3>10, <3>11
  <2> QED BY <2>10, <2>11, <2>12 DEF Next
<1> QED BY <1>1, ClientsAgree, PTL DEF Spec, GhostTellsTheDrop
=============================================================================
