------------------------------ MODULE Supply -------------------------------
(***************************************************************************)
(* How the pieces of a room get from its game master to the boards: the    *)
(* cache a Game fills from PieceResponses, the position and the preview of *)
(* every player, the one request that may be on its way, and the game      *)
(* master's own idea of whether a match is on.                             *)
(*                                                                         *)
(* A piece is its position in the cache, so the preview of a player is a   *)
(* number of pieces.  Whether a piece finds room to be placed is left open *)
(* from the first lock of a match on; before, a board is empty and has     *)
(* room (boards are at least four wide and three high).  A step of the     *)
(* server is one message or timer, as in Match; the two message queues are *)
(* TCP streams.  Every slot of the room has a session here: one without    *)
(* (Match's vacant) is left out, with the board that a start would not     *)
(* restart.                                                                *)
(***************************************************************************)
EXTENDS Naturals, Sequences, FiniteSets, FiniteSetsExt

CONSTANTS
  Slots,     \* players that may be in the room
  Preview,   \* pieces a board keeps ahead (5 in the code)
  Batch,     \* pieces in a full PieceResponse (20 in the code)
  MaxPieces, \* bound: pieces a player is dealt in one match
  MaxStarts, \* bound: matches the game master starts
  MaxLeaves  \* bound: players that leave

ASSUME SupplyAssumption ==
  /\ {Preview, Batch} \subseteq Nat \ {0}
  /\ {MaxPieces, MaxStarts, MaxLeaves} \subseteq Nat

VARIABLES
  started,   \* Game::mGameStarted
  cache,     \* the size of Game::mTerminoCache
  requested, \* Game::mTerminoRequested
  room,      \* the players of Game::mPlayers
  playing,   \* those whose internalMode is PLAYING
  board,     \* what StandardTetrisBoard and PlayerContext know of pieces
  dirty,     \* something has been locked since the match started
  gmStarted, \* GameMaster::mStarted
  toGm,      \* messages to the game master
  toServer,  \* messages from the game master
  crashed,   \* the server has called an empty function
  starts, leaves \* counters for the bounds

matchVars == <<started, room, playing, dirty, crashed>>
gmVars    == <<gmStarted, starts>>
vars == <<matchVars, cache, requested, board, gmVars, toGm, toServer, leaves>>

Board ==
  [index  : Nat,                       \* currentPieceIndex
   list   : 0..Preview,                \* mPieceList.size()
   cur    : {"none", "live", "spent"}, \* mCurrent; spent: was locked or held
   hold   : {"empty", "void", "piece"},\* mHold; void: holds the value NONE
   credit : BOOLEAN,                   \* mHasHoldCredit
   wired  : BOOLEAN]                   \* mCurrentCheckerFn is set

TypeOK ==
  /\ {started, requested, dirty, gmStarted, crashed} \subseteq BOOLEAN
  /\ cache \in Nat
  /\ room \subseteq Slots /\ playing \subseteq room
  /\ board \in [Slots -> Board]
  /\ toGm \in Seq({"request", "end"})
  /\ toServer \in Seq({"start", "pieces", "empty"})
  /\ starts \in 0..MaxStarts /\ leaves \in 0..MaxLeaves
-----------------------------------------------------------------------------
(* Boards.  An outcome is the board after an event, whether it ran into    *)
(* the end of the cache, and whether it topped out.                        *)

\* The constructor; reset() keeps hold and the functions of the last piece.
NewBoard == [index |-> 0, list |-> 0, cur |-> "none", hold |-> "empty",
             credit |-> FALSE, wired |-> FALSE]
Restarted(b) == [b EXCEPT !.index = 0, !.list = 0, !.cur = "none",
                          !.credit = TRUE]

\* requestPiece: as many pieces as the cache still has for this player.
RefilledWithAll(b, c) ==                     \* a mutant of Refilled
  [b EXCEPT !.list = @ + (c - b.index), !.index = c]
Refilled(b, c) ==
  LET n == Min({Preview - b.list, c - b.index})
  IN  [b EXCEPT !.list = @ + n, !.index = @ + n]

Outcome(b, asks, out) == [board |-> b, asks |-> asks, out |-> out]

\* The piece in mCurrent is new; asked: requestPiece has been called before;
\* used: the board may hold more than air.
Placed(b, c, asked, used) ==
  LET placed == [b EXCEPT !.cur = "live", !.wired = TRUE]
      ahead  == Refilled(placed, c)
  IN  {Outcome(ahead, ahead.list < Preview, FALSE)}
      \cup IF used THEN {Outcome(placed, asked, TRUE)} ELSE {}

\* nextPiece() without an argument.
NextPieceSkipsRefill(b, c, used) ==              \* a mutant of NextPiece
  IF b.list = 0 THEN {Outcome(b, FALSE, FALSE)}
  ELSE {Outcome([b EXCEPT !.list = @ - 1, !.cur = "live", !.wired = TRUE],
                FALSE, FALSE)}
NextPiece(b, c, used) ==
  LET first == IF b.list = 0 THEN Refilled(b, c) ELSE b
      asked == b.list = 0 /\ first.list < Preview
  IN  IF first.list = 0 THEN {Outcome(first, TRUE, FALSE)}
      ELSE Placed([first EXCEPT !.list = @ - 1], c, asked, used)

\* The current piece has been put down or away, but mCurrent still has it.
Used(b) == [b EXCEPT !.cur = IF @ = "none" THEN "none" ELSE "spent"]

\* onEvent(TerminoAvailable).
OnTerminoAvailable(b, c) ==
  IF b.cur = "none" THEN NextPiece(b, c, dirty)
  ELSE LET ahead == Refilled(b, c)
       IN  {Outcome(ahead, ahead.list < Preview, FALSE)}

\* lock(), reached from Lock, Drop or SoftDrop.
OnLock(b, c) == NextPiece([Used(b) EXCEPT !.credit = TRUE], c, TRUE)

\* onEvent(Hold) with credit left.
HoldTakesNoNext(b, c) ==                     \* a mutant of OnHold
  IF b.hold = "empty"
  THEN {Outcome([Used(b) EXCEPT !.hold = "piece", !.credit = FALSE],
                FALSE, FALSE)}
  ELSE Placed([b EXCEPT !.credit = FALSE], c, FALSE, dirty)
OnHold(b, c) ==
  LET stored == [b EXCEPT !.credit = FALSE,
                   !.hold = IF b.cur = "none" THEN "void" ELSE "piece"]
  IN  IF b.hold = "empty" THEN NextPiece(Used(stored), c, dirty)
                          ELSE Placed(stored, c, FALSE, dirty)
-----------------------------------------------------------------------------
(* The room. *)

\* onBcbGenerate at the end of the cache: one request at a time.
AskAlways(asks) == IF asks THEN <<"request">> ELSE <<>> \* a mutant of Ask
Ask(asks) == IF asks /\ ~requested THEN <<"request">> ELSE <<>>

Flagged(asks) == requested' = (requested \/ asks)

\* The players of out leave the match one by one: the GameEndNotifications
\* this sends, one for each player left out of at most two.
Ends(out) ==
  [i \in 1..Cardinality({n \in 1..Cardinality(out) :
                           Cardinality(playing) - n <= 1}) |-> "end"]

Out(out) ==
  /\ playing' = playing \ out
  /\ started' = (started /\ Ends(out) = <<>>)

\* A board event of one player in the match.
BoardEvent(p, outcomes) ==
  \E o \in outcomes :
    /\ board' = [board EXCEPT ![p] = o.board]
    /\ Flagged(o.asks)
    /\ LET out == IF o.out THEN {p} ELSE {}
       IN  Out(out) /\ toGm' = toGm \o Ask(o.asks) \o Ends(out)
    /\ UNCHANGED <<room, cache, gmVars, toServer, leaves>>

Crash ==
  /\ crashed' = TRUE
  /\ UNCHANGED <<started, room, playing, dirty, cache, requested, board, gmVars,
                 toGm, toServer, leaves>>

\* A room without players is told at once that the match is over.
EndUntold == <<>>                            \* a mutant of EndIfEmpty
EndIfEmpty == IF room = {} THEN <<"end">> ELSE <<>>

\* handle(GameStartIndication): every board is restarted and finds no piece.
StartMatch ==
  /\ started' = (room # {})
  /\ cache' = 0
  /\ playing' = room
  /\ board' = [p \in Slots |->
                IF p \in room THEN Restarted(board[p]) ELSE board[p]]
  /\ Flagged(room # {})
  /\ toGm' = toGm \o Ask(room # {}) \o EndIfEmpty
  /\ dirty' = FALSE
  /\ UNCHANGED <<room, crashed>>

\* handle(PieceResponse) while a match is on: every board in the room is
\* told, in any order; a request may go out before, between or after the
\* notifications that the match is over.
DealOut(n) ==
  LET c == cache + n IN
  \E o \in [room -> UNION {OnTerminoAvailable(board[p], c) : p \in room}] :
    /\ \A p \in room : o[p] \in OnTerminoAvailable(board[p], c)
    /\ LET asks == \E p \in room : o[p].asks
           ends == Ends({p \in playing : o[p].out})
       IN  /\ Out({p \in playing : o[p].out})
           /\ requested' = asks
           /\ \E k \in 0..Len(ends) :
                toGm' = toGm \o SubSeq(ends, 1, k)
                             \o (IF asks THEN <<"request">> ELSE <<>>)
                             \o SubSeq(ends, k + 1, Len(ends))
    /\ board' = [p \in Slots |-> IF p \in room THEN o[p].board ELSE board[p]]
    /\ cache' = c
    /\ UNCHANGED <<room, dirty, crashed>>
-----------------------------------------------------------------------------
Init ==
  /\ started = FALSE /\ cache = 0 /\ requested = FALSE
  /\ room = {} /\ playing = {}
  /\ board = [p \in Slots |-> NewBoard]
  /\ dirty = FALSE /\ crashed = FALSE
  /\ gmStarted = FALSE
  /\ toGm = <<>> /\ toServer = <<>>
  /\ starts = 0 /\ leaves = 0

\* A player joins; in a running match it is dealt its first pieces at once,
\* on an empty board.
Join(p) ==
  /\ ~crashed
  /\ p \in Slots \ room
  /\ room' = room \cup {p}
  /\ IF started
     THEN /\ playing' = playing \cup {p}
          /\ \E o \in NextPiece(Restarted(NewBoard), cache, FALSE) :
               /\ board' = [board EXCEPT ![p] = o.board]
               /\ Flagged(o.asks)
               /\ toGm' = toGm \o Ask(o.asks)
     ELSE /\ board' = [board EXCEPT ![p] = NewBoard]
          /\ UNCHANGED <<playing, requested, toGm>>
  /\ UNCHANGED <<started, dirty, crashed, cache, gmVars, toServer, leaves>>

\* A player leaves.  The winner of the last match still counts as playing.
Leave(p) ==
  /\ ~crashed
  /\ p \in room
  /\ leaves < MaxLeaves /\ leaves' = leaves + 1
  /\ room' = room \ {p}
  /\ Out(playing \cap {p})
  /\ toGm' = toGm \o Ends(playing \cap {p})
  /\ board' = [board EXCEPT ![p] = NewBoard]
  /\ UNCHANGED <<dirty, crashed, cache, requested, gmVars, toServer>>

\* Move, or a Lock that only sinks the piece: only the piece's functions are
\* called.  It changes nothing here unless there are none.
Sink(p) ==
  /\ ~crashed /\ started /\ p \in playing
  /\ ~board[p].wired
  /\ Crash

\* A Lock, Drop or SoftDrop that locks the current piece.
Lock(p) ==
  /\ ~crashed /\ started /\ p \in playing
  /\ board[p].index < MaxPieces
  /\ board[p].wired
  /\ dirty' = TRUE
  /\ UNCHANGED crashed
  /\ BoardEvent(p, OnLock(board[p], cache))

\* Hold; the functions of a held NONE are empty.
Hold(p) ==
  /\ ~crashed /\ started /\ p \in playing
  /\ board[p].index < MaxPieces
  /\ board[p].credit
  /\ IF board[p].hold = "void"
     THEN Crash
     ELSE /\ UNCHANGED <<dirty, crashed>>
          /\ BoardEvent(p, OnHold(board[p], cache))

\* The server reads the next message of the game master.
ServerReads ==
  /\ ~crashed
  /\ toServer # <<>>
  /\ toServer' = Tail(toServer)
  /\ \/ /\ Head(toServer) = "start"
        /\ IF started THEN UNCHANGED <<matchVars, cache, requested, board, toGm>>
                      ELSE StartMatch
     \/ /\ Head(toServer) # "start"
        /\ IF started
           THEN DealOut(IF Head(toServer) = "pieces" THEN Batch ELSE 0)
           ELSE requested' = FALSE /\ UNCHANGED <<matchVars, cache, board, toGm>>
  /\ UNCHANGED <<gmVars, leaves>>

\* GameMaster::start, the command of the user.
GmStarts ==
  /\ ~gmStarted
  /\ starts < MaxStarts /\ starts' = starts + 1
  /\ gmStarted' = TRUE
  /\ toServer' = Append(toServer, "start")
  /\ UNCHANGED <<matchVars, cache, requested, board, toGm, leaves>>

\* The game master reads a PieceRequest or a GameEndNotification.
GmReadsSilent ==                             \* a mutant of GmReads
  /\ toGm # <<>> /\ toGm' = Tail(toGm)
  /\ gmStarted' = (gmStarted /\ Head(toGm) # "end")
  /\ toServer' = IF Head(toGm) = "request" /\ gmStarted
                 THEN Append(toServer, "pieces") ELSE toServer
  /\ UNCHANGED <<matchVars, cache, requested, board, starts, leaves>>
GmReads ==
  /\ toGm # <<>>
  /\ toGm' = Tail(toGm)
  /\ \/ /\ Head(toGm) = "request"
        /\ toServer' = Append(toServer, IF gmStarted THEN "pieces" ELSE "empty")
        /\ UNCHANGED gmStarted
     \/ /\ Head(toGm) = "end"
        /\ gmStarted' = FALSE
        /\ UNCHANGED toServer
  /\ UNCHANGED <<matchVars, cache, requested, board, starts, leaves>>

Next ==
  \/ \E p \in Slots : Join(p) \/ Leave(p) \/ Sink(p) \/ Lock(p) \/ Hold(p)
  \/ ServerReads
  \/ GmStarts
  \/ GmReads

Spec == Init /\ [][Next]_vars

\* Both processes keep reading their sockets; players and the user need not
\* do anything.
FairSpec == Spec /\ WF_vars(ServerReads) /\ WF_vars(GmReads)
-----------------------------------------------------------------------------
(* Properties. *)

Waiting(p) == started /\ p \in playing /\ board[p].list < Preview

InFlight(seq, kinds) == Cardinality({i \in DOMAIN seq : seq[i] \in kinds})

\* mTerminoRequested says exactly whether one request or its answer is
\* under way, over both streams and across matches: a second request is
\* never sent before the answer to the first, and the flag is never left on
\* without an answer to come (onBcbGenerate, handle(PieceResponse)).
RequestedIffUnderWay ==
  InFlight(toGm, {"request"}) + InFlight(toServer, {"pieces", "empty"})
    = IF requested THEN 1 ELSE 0

\* A contender whose preview is short has the whole cache already and a
\* request is under way: generate() returns NONE without asking only when
\* somebody else has asked.
ShortIsAskedFor ==
  \A p \in Slots : Waiting(p) => requested /\ board[p].index = cache

\* A player keeps a piece it has just locked or put away only when it has
\* run through the preview and the cache: nextPiece leaves mCurrent alone
\* when nothing follows.
ReplaysOnlyWhenDry ==
  [][\A p \in playing :
       board[p].cur # "spent" /\ board'[p].cur = "spent" =>
         board'[p].list = 0 /\ board'[p].index = cache /\ requested']_vars

\* A game master that takes a match to be on is never left behind: the match
\* is on, its start is still to be read, or its end is on the way.  Otherwise
\* GameMaster::start would refuse every later start.
GmNotLeftBehind ==
  gmStarted => started \/ InFlight(toServer, {"start"}) > 0
                      \/ InFlight(toGm, {"end"}) > 0

\* A game master that takes a match to be on gets the first pieces to every
\* contender, unless it is told that the match is over.
Unserved(p) == started /\ p \in playing /\ board[p].cur = "none"
ServedWhileGmKnows ==
  \A p \in Slots :
    Unserved(p) /\ gmStarted ~> ~Unserved(p) \/ ~gmStarted \/ crashed

\* As the comment at GameMaster.hpp:36 has it, the answer of a game master,
\* even an empty one, unblocks the server: a contender without a piece gets
\* one or is out of the match.
AnswersUnblock == \A p \in Slots : Unserved(p) ~> ~Unserved(p) \/ crashed

\* As protocol.plantutml has it, the moves of the players come after the
\* initial block of each: no board is asked to move what it does not have.
BlocksBeforeMoves == ~crashed
=============================================================================
