------------------------------- MODULE Mirror ------------------------------
(***************************************************************************)
(* A client's copy of one board (PlayerContext in Player.hpp), kept from   *)
(* the BoardUpdateNotifications of the server.  The client may have been   *)
(* there from the start of the match, or may come into it later: it then   *)
(* starts from an empty copy, for nothing tells it what was before.        *)
(***************************************************************************)
EXTENDS Board

VARIABLE view \* the client's copy

vars == <<boardVars, view>>

NewView(isLate) ==
  [rows |-> Empty, cur |-> None, rot |-> 0, at |-> <<0, 0>>, queue |-> <<>>,
   hold |-> None, floor |-> 0,
   late |-> isLate,  \* history: the board was in play before
   dead |-> FALSE]   \* it has called the checker of a piece it never had

\* The queue after the pieces of u have come in: the one placed leaves it,
\* unless the update is of a Hold.
Queued(queue, u) ==
  LET all == queue \o u.add
  IN  IF u.place # None /\ all # <<>> /\ u.hold = None THEN Tail(all) ELSE all

\* The lines of an update, in this order.
Replacing(b, lines) ==
  [i \in 1..Height |-> IF i - 1 \in DOMAIN lines THEN lines[i - 1] ELSE b[i]]
Removing(b, lines) ==
  LET after[k \in 0..Len(lines)] ==
        IF k = 0 THEN b ELSE ClearLine(after[k - 1], lines[k])
  IN  after[Len(lines)]

LinesReversed(b, u) ==                       \* a mutant of Redrawn
  Raised(Replacing(Removing(b, u.remove), u.replace), u.insert)
Redrawn(b, u) ==
  Raised(Removing(Replacing(b, u.replace), u.remove), u.insert)

Or(part, before) == IF part = None THEN before ELSE part

\* The orientation of the copy: a placement starts from none.
RotationKept(v, u) == Or(u.rot, v.rot)       \* a mutant of Rotation
Rotation(v, u) == Or(u.rot, IF u.place = None THEN v.rot ELSE 0)

\* The floor is looked for on the lines before this update.
FloorUnturned(v, p, r, spot) == Floor(v.rows, p, v.rot, spot)
FloorShown(v, p, r, spot) == Floor(v.rows, p, r, spot)

\* handle(BoardUpdateNotification) while a match is on.
Applied(v, u) ==
  LET p == Or(u.place, v.cur)
      r == Rotation(v, u)
  IN  IF u.at # None /\ p = None
      THEN [v EXCEPT !.dead = TRUE]
      ELSE [v EXCEPT !.hold = Or(u.hold, @), !.queue = Queued(@, u),
                     !.cur = p, !.rot = r, !.at = Or(u.at, @),
                     !.floor = IF u.at = None THEN @ ELSE FloorShown(v, p, r, u.at),
                     !.rows = Redrawn(@, u)]

Init == BoardInit /\ view = NewView(FALSE)

ClientReads ==
  /\ stream # <<>>
  /\ view' = IF view.dead THEN view ELSE Applied(view, Head(stream))
  /\ stream' = Tail(stream)
  /\ UNCHANGED <<match, rows, pieceVars, history>>

\* The client watched from here on has only now come into the match.
ClientJoins ==
  /\ match.late /\ ~view.late
  /\ view' = NewView(cur # None \/ rows # Empty)
  /\ stream' = <<>>
  /\ UNCHANGED <<match, rows, pieceVars, history>>

Next ==
  \/ BoardNext /\ UNCHANGED view
  \/ ClientReads
  \/ ClientJoins

Spec == Init /\ [][Next]_vars
-----------------------------------------------------------------------------
(* Properties.  A client is up to date when it has read every update. *)

UpToDate == stream = <<>> /\ ~view.dead

\* A client that was there from the start sees the board as it is: lines that
\* are replaced, removed and inserted, in one update or several, end up where
\* the server has them.
MirrorsRows == UpToDate /\ ~view.late => view.rows = rows

\* A client that has seen a piece placed since it came, late or not, has the
\* current piece and its orientation right, and its place unless the piece has
\* been spent: one that is dropped and not replaced is not shown down there.
\* What it shows as held is held, but a piece held before it came is not shown.
\* One that was there from the start shows as coming the pieces that come,
\* although updates only say what was added: once a Hold has taken its piece
\* from the list, which it does not follow, one piece that has come is shown
\* ahead of them, and never more than one.
CurrentShown ==
  view.cur # None =>
    /\ <<view.cur, view.rot>> = <<cur, rot>>
    /\ use # "spent" => view.at = at
    /\ view.hold \in {hold, None}
ComingShown ==
  \/ view.queue = list
  \/ hold # None /\ view.queue # <<>> /\ Tail(view.queue) = list
MirrorsPieces ==
  UpToDate /\ ~over => CurrentShown /\ (view.late \/ ComingShown)

\* The ghost shows where a hard drop would lock the piece, whenever the update
\* just read has moved the piece and left the lines alone.
GhostTellsTheDrop ==
  [][stream # <<>> /\ stream' = <<>> /\ ~view'.late /\ ~over
     /\ Head(stream).at # None /\ Head(stream).replace = <<>> =>
       view'.floor = Floor(rows, cur, rot, at)]_vars
=============================================================================
