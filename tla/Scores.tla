------------------------------- MODULE Scores -------------------------------
(***************************************************************************)
(* What the clients of a room show of its match: Match, with the copy that *)
(* each client's Player keeps of who is in the room and who is out.  A     *)
(* client handles what a step of the room sends it before the next step:   *)
(* its stream is in order (Channel), so it only ever lags behind.  A slot  *)
(* without a session has no client; the others show it like any other.     *)
(***************************************************************************)
EXTENDS Match

VARIABLES
  view,  \* Player of each client of the room
  missed \* history: who was out when the match began, or a client joined it

scoreVars == <<vars, view, missed>>

\* mPlayers, mGameStarted, the players marked dead, and the back of
\* mGameOverSequence (all that is ever read of it).
NewView == [roster |-> {}, on |-> FALSE, dead |-> {}, last |-> None]

ScoresInit ==
  Init /\ view = [c \in Ids |-> NewView] /\ missed = [c \in Ids |-> {}]
-----------------------------------------------------------------------------
(* The handlers of Player. *)

DeadStay(v) == [v EXCEPT !.on = TRUE, !.last = None]   \* a mutant of Started
Started(v) == [v EXCEPT !.on = TRUE, !.last = None, !.dead = {}]

\* A GameOverNotification for each of S, that for l the last.
Over(v, S, l) ==
  IF v.on THEN [v EXCEPT !.dead = @ \cup (S \cap v.roster), !.last = l] ELSE v

\* The last one called out is the winner, unless it is alone.
WinnerStaysDead(v) == [v EXCEPT !.on = FALSE, !.last = None] \* of Ended
Ended(v) ==
  [v EXCEPT !.on = FALSE, !.last = None,
            !.dead = IF Cardinality(v.roster) > 1 THEN @ \ {v.last} ELSE @]

Added(v, p)   == [v EXCEPT !.roster = @ \cup {p}]
Removed(v, p) == [v EXCEPT !.roster = @ \ {p}, !.dead = @ \ {p}]
-----------------------------------------------------------------------------
(* What a step of the room sends. *)

\* The newcomer is told of everybody, unless it is lost; everybody of it.
ShowJoin ==
  /\ view' = [c \in Ids |->
       IF c = nextId /\ c \in Live'
       THEN LET v == [NewView EXCEPT !.roster = players']
            IN  IF started THEN Started(v) ELSE v
       ELSE IF c \in Live THEN Added(view[c], nextId) ELSE view[c]]
  /\ missed' = [missed EXCEPT ![nextId] =
                  IF started THEN players \ Contenders ELSE {}]

ShowStart ==
  /\ view' = [c \in Ids |-> IF c \in Live THEN Started(view[c]) ELSE view[c]]
  /\ missed' = [c \in Ids |-> players \ Contenders']

\* v after concludeMatchIfOneOrNoPlayersLeft.
Concluded(v) ==
  IF ~Decided THEN v
  ELSE Ended(IF Winner = {} THEN v ELSE Over(v, Winner, lastOver'))

ShowOut ==
  LET out == Contenders \ Contenders' IN
    /\ view' = [c \in Ids |->
         IF c \notin Live \/ out = {} THEN view[c]
         ELSE Concluded(Over(view[c], out, lastOver'))]
    /\ UNCHANGED missed

ShowRemoved(p) ==
  /\ view' = [c \in Ids |->
       IF c = p THEN NewView
       ELSE IF c \notin Live THEN view[c]
       ELSE IF mode[p] = "PLAYING" THEN Concluded(Removed(view[c], p))
       ELSE Removed(view[c], p)]
  /\ missed' = [missed EXCEPT ![p] = {}]

ShowClosed ==
  /\ view' = [c \in Ids |-> IF c \in Live THEN Ended(view[c]) ELSE view[c]]
  /\ UNCHANGED missed

ScoresNext ==
  \/ Join /\ ShowJoin
  \/ GameStart /\ ShowStart
  \/ (GameStartEmpty \/ AttackTimeout) /\ UNCHANGED <<view, missed>>
  \/ \E p \in Ids : (PlayerActionTopsOut(p) \/ LockingTimeout(p)) /\ ShowOut
  \/ \E T \in SUBSET Ids : PieceResponse(T) /\ ShowOut
  \/ \E p \in Ids : RemovePlayer(p) /\ ShowRemoved(p)
  \/ GmGone /\ ShowClosed

ScoresSpec == ScoresInit /\ [][ScoresNext]_scoreVars
-----------------------------------------------------------------------------
(* Properties. *)

\* During a match every client shows the room as it is: who is in it, and as
\* dead exactly those who are out, but for what happened before it came and the
\* slots that the start passed over - in a rematch, too, and after a player
\* that was shown has left.  In a skewed room only who is in it.
ClientsShowWhoIsOut ==
  \A c \in Live :
    /\ view[c].roster = players /\ (view[c].on <=> started)
    /\ started /\ ~skewed =>
         view[c].dead = players \ (Contenders \cup missed[c])

\* When a match ends, the clients agree on its winner: each that is not left
\* alone shows alive the one that was called out last and nobody else it saw
\* play, also when the last contenders went out on one PieceResponse.
ClientsShowTheWinner ==
  [][ started /\ ~started' /\ open' /\ ~skewed /\ Cardinality(players') > 1
      => \A c \in Live' :
           view'[c].dead = players' \ ({lastOver'} \cup missed[c]) ]_scoreVars
=============================================================================
