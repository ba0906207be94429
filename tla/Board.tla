------------------------------- MODULE Board -------------------------------
(***************************************************************************)
(* StandardTetrisBoard during one match, and the BoardUpdateNotifications  *)
(* it gives rise to: what is on the board, the current, held and coming    *)
(* pieces, and the events of the player, the timers and the attacker.      *)
(*                                                                         *)
(* A row is the set of its occupied columns, rows go from bottom to top.   *)
(* Where pieces come from is left to Supply: generate() yields any piece,  *)
(* or none.  Events that find no current piece are left to it as well, and *)
(* the indicator of an attack that is to come to Attack.                   *)
(* Whether lines an attack sends back to this very board are committed     *)
(* between a lock and the next piece is left open.                         *)
(***************************************************************************)
EXTENDS Terminoes, FiniteSets, SequencesExt

CONSTANTS
  Width, Height,
  Preview,    \* how many are kept ahead (5 in the code)
  None,       \* no piece, or an absent part of an update
  Matches,    \* bound: the matches followed, each with the pieces that are
              \* dealt, the number locked, and whether a client comes late
  MaxInserts, \* bound: lines inserted by attacks
  MaxStream   \* bound: updates on their way to a client

ASSUME BoardAssumption ==
  /\ Width \in 4..15   \* an I fits in; Bitmap refuses 16 columns or more
  /\ Height \in 4..128 \* an I fits in; rows are counted in an int8_t, and on a
                        \* board of more than 128 lock() clears no line at all
  /\ Matches \subseteq
       [pieces : SUBSET Terminoes, locks : Nat, late : BOOLEAN]
  /\ None \notin Terminoes /\ None \notin 0..3 /\ None \notin Int \X Int
  /\ Preview \in Nat \ {0} /\ {MaxInserts, MaxStream} \subseteq Nat

VARIABLES
  match,  \* which of Matches it is
  rows,   \* mData
  cur,    \* mCurrent
  rot,    \* mRot
  at,     \* mXY
  list,   \* mPieceList
  hold,   \* mHold
  credit, \* mHasHoldCredit
  over,   \* gameOver() has been called
  stream, \* updates sent to a client that watches
  use,    \* the current piece is "fresh"; "pushed": lines were inserted under
          \* it; "spent": it was locked or held and no other followed
  exact,  \* no line was inserted and no spent piece locked so far
  locks, cleared, inserted \* pieces locked, lines cleared, lines inserted

pieceVars == <<cur, rot, at, list, hold, credit, over>>
history   == <<use, exact, locks, cleared, inserted>>
boardVars == <<match, rows, pieceVars, stream, history>>

Columns == 0 .. Width - 1
Pieces  == match.pieces
Empty == [i \in 1..Height |-> {}]

TypeOK ==
  /\ match \in Matches
  /\ rows \in [1..Height -> SUBSET Columns]
  /\ cur \in Pieces \cup {None} /\ hold \in Pieces \cup {None}
  /\ rot \in 0..3 /\ at \in Int \X Int
  /\ list \in Seq(Pieces) /\ Len(list) <= Preview
  /\ {credit, over, exact} \subseteq BOOLEAN
  /\ use \in {"fresh", "pushed", "spent"}
  /\ locks \in 0 .. match.locks /\ inserted \in 0..MaxInserts /\ cleared \in Nat
-----------------------------------------------------------------------------
(* The bitmap. *)

\* Bitmap::get: outside, everything is taken.
TakenWithoutCeiling(b, c) ==                 \* a mutant of Taken
  IF c[1] \in Columns /\ c[2] \in 0 .. Height - 1
  THEN c[1] \in b[c[2] + 1] ELSE c[2] < Height
Taken(b, c) ==
  IF c[1] \in Columns /\ c[2] \in 0 .. Height - 1
  THEN c[1] \in b[c[2] + 1] ELSE TRUE

Free(b, p, r, spot) == \A c \in Covered(p, r, spot) : ~Taken(b, c)

\* How far, up to n steps in direction d, a piece can go.
Steps(b, p, r, spot, d, n) ==
  Max({k \in 0..n : \A j \in 1..k :
         Free(b, p, r, <<spot[1] + j * d[1], spot[2] + j * d[2]>>)})

\* The height it comes to rest at.
Floor(b, p, r, spot) == spot[2] - Steps(b, p, r, spot, <<0, -1>>, Height)

\* The setter; it would stop at a cell outside of the board (see PieceFits).
Put(b, cells) ==
  [i \in 1..Height |-> b[i] \cup {x \in Columns : <<x, i - 1>> \in cells}]

\* insertLine at the bottom: the top row is lost.
Inserted(b, line) == <<line>> \o SubSeq(b, 1, Height - 1)

\* The loop of Attack: n lines with a hole in the last column come in below.
Raised(b, n) ==
  LET after[k \in 0..n] ==
        IF k = 0 THEN b ELSE Inserted(after[k - 1], Columns \ {Width - 1})
  IN  after[n]

\* clearLine: the rows above come down.
ClearLine(b, y) == Append(RemoveAt(b, y + 1), {})

\* The loop of lock() over the rows, from the top down, and the lines that it
\* removes, in this order.
ClearedUpward(b) ==                          \* a mutant of Cleared
  LET after[k \in 0..Height] ==
        IF k = 0 THEN b
        ELSE IF after[k - 1][k] = Columns THEN ClearLine(after[k - 1], k - 1)
        ELSE after[k - 1]
  IN  after[Height]
ClearLoop(b) ==
  LET after[k \in 0..Height] == \* the k topmost rows have been looked at
        IF k = 0 THEN [rows |-> b, removed |-> <<>>]
        ELSE LET y == Height - k
                 before == after[k - 1]
             IN  IF before.rows[y + 1] = Columns
                 THEN [rows |-> ClearLine(before.rows, y),
                       removed |-> Append(before.removed, y)]
                 ELSE before
  IN  after[Height]
Cleared(b) == ClearLoop(b).rows
Removed(b) == ClearLoop(b).removed
-----------------------------------------------------------------------------
(* Updates. *)

\* A BoardUpdateNotification with nothing in it.
Blank == [add |-> <<>>, place |-> None, rot |-> None, at |-> None,
          hold |-> None, replace |-> <<>>, remove |-> <<>>, insert |-> 0]

\* commit(), after what it has sent before: an update with nothing in it is
\* not sent.
Commit(before, u) ==
  stream' = stream \o before \o (IF u = Blank THEN <<>> ELSE <<u>>)

\* The rows lock() reports: those of the piece's box.  What it reads above
\* the top of the board is spare memory, at the client too.
Replaced(b, p, spot) ==
  [y \in {y \in 0 .. Height - 1 : y - spot[2] \in 0 .. Box(p) - 1} |-> b[y + 1]]

\* What requestPiece() may be given when n pieces are missing.
DealtOneMore(n) == UNION {[1..k -> Pieces] : k \in 0 .. n + 1} \* a mutant of Dealt
Dealt(n) == UNION {[1..k -> Pieces] : k \in 0..n}

\* initializeCurrentTermino and the rest of nextPiece(), on the board b with
\* the pieces lst to come; before has been committed, u has not.
Enter(p, lst, b, before, u) ==
  LET spot == <<(Width - Box(p)) \div 2, Height - Box(p)>> IN
  /\ cur' = p /\ rot' = 0 /\ at' = spot
  /\ use' = "fresh"
  /\ over' = ~Free(b, p, 0, spot)
  /\ IF over'
     THEN list' = lst /\ Commit(before, u)
     ELSE \E new \in Dealt(Preview - Len(lst)) :
            /\ list' = lst \o new
            /\ Commit(before, [u EXCEPT !.place = p, !.at = spot,
                                        !.add = @ \o new])

\* nextPiece() without an argument, the last piece being at spot.
NextPiece(b, spot, before, u) ==
  \E new \in Dealt(IF list = <<>> THEN Preview ELSE 0) :
    IF list \o new = <<>>
    THEN /\ Commit(before, u)
         /\ at' = spot /\ use' = IF cur = None THEN use ELSE "spent"
         /\ UNCHANGED <<cur, rot, list, over>>
    ELSE Enter(Head(list \o new), Tail(list \o new), b, before,
               [u EXCEPT !.add = new])

\* lock() of the current piece at spot.
LockAt(spot) ==
  LET full  == Put(rows, Covered(cur, rot, spot))
      lines == [Blank EXCEPT !.replace = Replaced(full, cur, spot),
                             !.remove = Removed(full)]
  IN  /\ locks < match.locks /\ locks' = locks + 1
      /\ rows' = Cleared(full)
      /\ cleared' = cleared + Len(Removed(full))
      /\ exact' = (exact /\ use = "fresh")
      /\ credit' = TRUE
      /\ \/ NextPiece(rows', spot, <<>>, lines)
         \/ Removed(full) # <<>> /\ NextPiece(rows', spot, <<lines>>, Blank)
      /\ UNCHANGED <<hold, inserted>>

\* piecePosition and commit, for a piece that has not been locked.
Shown(spot, r) ==
  /\ at' = spot /\ rot' = r
  /\ Commit(<<>>, [Blank EXCEPT !.at = spot,
                                !.rot = IF r = rot THEN None ELSE r])
  /\ UNCHANGED <<rows, cur, list, hold, credit, over, history>>
-----------------------------------------------------------------------------
(* Events of a player who is in the match and has a piece. *)

Playing == cur # None /\ ~over /\ Len(stream) < MaxStream
Below(spot, n) == <<spot[1], spot[2] - n>>

Move(d) ==
  /\ Playing
  /\ LET n == Steps(rows, cur, rot, at, <<d, 0>>, Width)
     IN  \E far \in 0..Width : Shown(<<at[1] + d * Min({far, n}), at[2]>>, rot)

\* A rotation takes the first kick that fits, if any.
Rotate(count) ==
  /\ Playing
  /\ LET to == (rot + count + 4) % 4
         kicks == Kicks(cur, rot, count)
         fits == {i \in DOMAIN kicks : Free(rows, cur, to, Plus(at, kicks[i]))}
     IN  fits # {} /\ Shown(Plus(at, kicks[Min(fits)]), to)

\* Where a soft drop that does not lock leaves the piece.
SoftDropped == Below(at, at[2] - Floor(rows, cur, rot, at) - 1)

SoftDrop ==
  /\ Playing
  /\ IF Floor(rows, cur, rot, at) = at[2] THEN LockAt(at)
                                          ELSE Shown(SoftDropped, rot)

Drop == Playing /\ LockAt(<<at[1], Floor(rows, cur, rot, at)>>)

\* The lock timer: the piece sinks by one or is locked.
LockBelow ==                                 \* a mutant of Lock
  Playing /\ LockAt(Below(at, 1))
Lock ==
  /\ Playing
  /\ IF Free(rows, cur, rot, Below(at, 1)) THEN Shown(Below(at, 1), rot)
                                           ELSE LockAt(at)

Hold ==
  /\ Playing /\ credit
  /\ credit' = FALSE /\ hold' = cur
  /\ LET u == [Blank EXCEPT !.hold = cur] IN
       IF hold = None
       THEN NextPiece(rows, at, <<>>, u)
       ELSE Enter(hold, list, rows, <<>>, u)
  /\ UNCHANGED <<rows, exact, locks, cleared, inserted>>
-----------------------------------------------------------------------------
(* Events that reach a board whether its player is out or not. *)

TerminoAvailable ==
  /\ Len(stream) < MaxStream
  /\ IF cur = None
     THEN NextPiece(rows, at, <<>>, Blank)
     ELSE \E new \in Dealt(Preview - Len(list)) :
            /\ list' = list \o new
            /\ Commit(<<>>, [Blank EXCEPT !.add = new])
            /\ UNCHANGED <<cur, rot, at, over, use>>
  /\ UNCHANGED <<rows, hold, credit, exact, locks, cleared, inserted>>

\* Attack(n): lines come in from below.
Attack(n) ==
  /\ Len(stream) < MaxStream
  /\ inserted + n <= MaxInserts /\ inserted' = inserted + n
  /\ rows' = Raised(rows, n)
  /\ Commit(<<>>, [Blank EXCEPT !.insert = n])
  /\ use' = IF use = "fresh" THEN "pushed" ELSE use
  /\ exact' = FALSE
  /\ UNCHANGED <<pieceVars, locks, cleared>>

\* A board that has just been reset, before the first pieces are dealt: what
\* was held in an earlier match is held still.
BoardInit ==
  /\ match \in Matches
  /\ rows = Empty
  /\ cur = None /\ rot = 0 /\ at = <<0, 0>>
  /\ list = <<>> /\ hold \in Pieces \cup {None} /\ credit = TRUE /\ over = FALSE
  /\ stream = <<>>
  /\ use = "fresh" /\ exact = TRUE
  /\ locks = 0 /\ cleared = 0 /\ inserted = 0

BoardNext ==
  /\ \/ \E d \in {-1, 1} : Move(d)
     \/ \E count \in {-1, 1, 2} : Rotate(count)
     \/ SoftDrop \/ Drop \/ Lock \/ Hold
     \/ TerminoAvailable
     \/ \E n \in 1..MaxInserts : Attack(n)
  /\ UNCHANGED match
-----------------------------------------------------------------------------
(* Properties. *)

\* Whatever is moved, rotated with a kick, swapped or pushed, every cell of
\* the current piece stays inside the board; and until lines come in under
\* it, or it has been locked with no other to follow, on free ground.
PieceFits ==
  cur # None =>
    /\ Covered(cur, rot, at) \subseteq Columns \X (0 .. Height - 1)
    /\ use = "fresh" /\ ~over => Free(rows, cur, rot, at)

\* No full line outlives a lock: the loop of lock() erases rows of the deque
\* it is going through.
NoFullLine == \A i \in 1..Height : rows[i] # Columns

\* Without attacks, and as long as every piece locked is followed by another,
\* what lies on the board is four cells for every lock() but for the lines it
\* has cleared: no cell is lost or covered twice.
Occupied(b) == {c \in Columns \X (1..Height) : c[1] \in b[c[2]]}
CellsAccounted ==
  exact => Cardinality(Occupied(rows)) = 4 * locks - Width * cleared

\* As TetrisBoardTest.cpp has it (shouldSoftDrop), a soft drop puts the piece
\* down on what is below it.
SoftDropLands ==
  Playing /\ Floor(rows, cur, rot, at) # at[2] =>
    SoftDropped[2] = Floor(rows, cur, rot, at)
=============================================================================
