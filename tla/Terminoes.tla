----------------------------- MODULE Terminoes -----------------------------
(***************************************************************************)
(* The seven pieces: their cells in every orientation, and the wall kicks  *)
(* that are tried when one is rotated.  A cell is a pair <<x, y>>, y going *)
(* up, relative to the lower left corner of the piece's box.               *)
(***************************************************************************)
EXTENDS Integers, Sequences

Terminoes == {"I", "L", "J", "O", "S", "Z", "T"}

\* The side of the square a piece is rotated in.
Box(p) == IF p \in {"I", "O"} THEN 4 ELSE 3

\* The cells a piece is created with.
Cells == [
  I |-> {<<0, 2>>, <<1, 2>>, <<2, 2>>, <<3, 2>>},
  L |-> {<<0, 2>>, <<0, 1>>, <<1, 1>>, <<2, 1>>}, \* the map has J's cells for L
  J |-> {<<0, 1>>, <<1, 1>>, <<2, 1>>, <<2, 2>>}, \* and L's for J
  O |-> {<<1, 2>>, <<1, 1>>, <<2, 1>>, <<2, 2>>},
  S |-> {<<0, 1>>, <<1, 1>>, <<1, 2>>, <<2, 2>>},
  Z |-> {<<0, 2>>, <<1, 2>>, <<1, 1>>, <<2, 1>>},
  T |-> {<<0, 1>>, <<1, 2>>, <<1, 1>>, <<2, 1>>}]

\* A quarter turn to the right within the box.
Turned(p, c) == <<c[2], Box(p) - 1 - c[1]>>

\* The cells of a piece after r quarter turns.
Shape == [p \in Terminoes |->
  LET turn[r \in 0..3] ==
        IF r = 0 THEN Cells[p] ELSE {Turned(p, c) : c \in turn[r - 1]}
  IN  turn]

Plus(c, d) == <<c[1] + d[1], c[2] + d[2]>>

\* The cells of the board under a piece with r quarter turns at spot.
Covered(p, r, spot) == {Plus(spot, c) : c \in Shape[p][r]}

\* The kicks out of each orientation, indexed from 1, to either side.
CommonLeft == <<
  <<<<0, 0>>, <<1, 0>>, <<1, 1>>, <<0, -2>>, <<1, -2>>>>,
  <<<<0, 0>>, <<1, 0>>, <<1, -1>>, <<0, 2>>, <<1, 2>>>>,
  <<<<0, 0>>, <<-1, 0>>, <<-1, 1>>, <<0, -2>>, <<-1, -2>>>>,
  <<<<0, 0>>, <<-1, 0>>, <<-1, -1>>, <<0, 2>>, <<-1, 2>>>>>>
CommonRight == <<
  <<<<0, 0>>, <<-1, 0>>, <<-1, 1>>, <<0, -2>>, <<-1, -2>>>>,
  <<<<0, 0>>, <<1, 0>>, <<1, -1>>, <<0, 2>>, <<1, 2>>>>,
  <<<<0, 0>>, <<1, 0>>, <<1, 1>>, <<0, -2>>, <<1, -2>>>>,
  <<<<0, 0>>, <<-1, 0>>, <<-1, -1>>, <<0, 2>>, <<-1, 2>>>>>>
LongLeft == <<
  <<<<0, 0>>, <<-1, 0>>, <<2, 0>>, <<-1, 2>>, <<2, -1>>>>,
  <<<<0, 0>>, <<2, 0>>, <<-1, 0>>, <<2, 1>>, <<-1, -2>>>>,
  <<<<0, 0>>, <<1, 0>>, <<-2, 0>>, <<1, -2>>, <<-2, 1>>>>,
  <<<<0, 0>>, <<-2, 0>>, <<1, 0>>, <<-2, -1>>, <<1, 2>>>>>>
LongRight == <<
  <<<<0, 0>>, <<-2, 0>>, <<1, 0>>, <<-2, -1>>, <<1, 2>>>>,
  <<<<0, 0>>, <<-1, 0>>, <<2, 0>>, <<-1, 2>>, <<2, -1>>>>,
  <<<<0, 0>>, <<2, 0>>, <<-1, 0>>, <<2, 1>>, <<-1, -2>>>>,
  <<<<0, 0>>, <<1, 0>>, <<-2, 0>>, <<1, -2>>, <<-2, 1>>>>>>

KicksLeft(p, r)  == IF p = "I" THEN LongLeft[r + 1] ELSE CommonLeft[r + 1]
KicksRight(p, r) == IF p = "I" THEN LongRight[r + 1] ELSE CommonRight[r + 1]

\* What onEvent(Rotate) tries, in order, for a count of 1, -1 or 2.
Kicks(p, r, count) ==
  CASE count = 1  -> KicksRight(p, r)
    [] count = -1 -> KicksLeft(p, r)
    [] count = 2  -> KicksLeft(p, (r + 3) % 4) \o KicksRight(p, (r + 5) % 4)
=============================================================================
