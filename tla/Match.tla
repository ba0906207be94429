------------------------------- MODULE Match -------------------------------
(***************************************************************************)
(* One game room of the server: who is in it, who is still playing, which  *)
(* timers are pending, whether attacks are being dealt, and what the room  *)
(* last told its clients.                                                  *)
(*                                                                         *)
(* The server is one epoll reactor, so a handler runs to completion before *)
(* the next one starts: an action below is one message, one disconnection  *)
(* or one timer callback, in any order the reactor may dispatch them.      *)
(*                                                                         *)
(* What a board does with a piece is left open: any event that may lock a  *)
(* piece may top its player out.  A cancelled timer never fires (the       *)
(* contract of the timer library), and a send succeeds or is a no-op on an *)
(* expired session.  Attacks are in the SEQUENTIAL mode.                   *)
(*                                                                         *)
(* The join of a client that is gone by then leaves a slot without a       *)
(* session (Lobby's JoinLost).  A match that is on counts it as a player   *)
(* all the same, but the next start passes over it: it is neither counted  *)
(* nor restarted nor told.  If it is in PLAYING then, as it is after a     *)
(* match that it won, counter and players disagree from there on; the room *)
(* is skewed, and what the properties promise of a match is at an end.     *)
(***************************************************************************)
EXTENDS Integers, FiniteSets

CONSTANTS
  MaxJoins, \* bound: joins of this room that are followed
  CountMax  \* the largest value of mPlayingCount, an unsigned

\* mPlayersIdCtr is a uint8_t: up to 256 joins get distinct ids.
ASSUME MaxJoinsAssumption == MaxJoins \in 1..256
ASSUME CountMaxAssumption == CountMax \in Nat /\ CountMax >= MaxJoins

Ids == 0 .. MaxJoins - 1
None == -1

VARIABLES
  open,         \* the room is in TetrisSimulator::mGames and its GM is there
  started,      \* mGameStarted
  playingCount, \* mPlayingCount
  nextId,       \* mPlayersIdCtr
  players,      \* the keys of mPlayers
  vacant,       \* those of them whose connectionSession has expired
  mode,         \* PlayerContext::internalMode
  lockTimer,    \* lockTimerId: "none"; "armed"; "spent" once it has fired
  orphans,      \* players with a pending lock timer that no slot refers to
  running,      \* CommonAttacker::mRunning
  target,       \* CommonAttacker::mCurrentTarget, None when it is end()
  attackTimer,  \* CommonAttacker::mTimerId, with the same three values
  told,         \* the last phase notification sent to each player
  lastOver,     \* the last GameOverNotification of this match
  skewed        \* history: a start has passed over a slot in PLAYING

roomVars   == <<open, nextId, players, vacant>>
clockVars  == <<lockTimer, orphans>>
attackVars == <<running, target, attackTimer>>
vars == <<roomVars, started, playingCount, mode, clockVars, attackVars,
          told, lastOver, skewed>>

Slot == {"none", "armed", "spent"}

TypeOK ==
  /\ open \in BOOLEAN
  /\ started \in BOOLEAN
  /\ playingCount \in 0..CountMax
  /\ nextId \in 0..MaxJoins
  /\ players \subseteq 0..(nextId - 1) /\ vacant \subseteq players
  /\ mode \in [Ids -> {"PLAYING", "GAMEOVER"}]
  /\ lockTimer \in [Ids -> Slot]
  /\ orphans \subseteq Ids
  /\ running \in BOOLEAN
  /\ target \in Ids \cup {None}
  /\ attackTimer \in Slot
  /\ told \in [Ids -> {"lobby", "match"}]
  /\ lastOver \in Ids \cup {None}
  /\ skewed \in BOOLEAN

Contenders == {p \in players : mode[p] = "PLAYING"}
Live == players \ vacant
-----------------------------------------------------------------------------
(* Helpers of the actions. *)

\* mPlayingCount++ and n times mPlayingCount--, in unsigned arithmetic.
IncForgotten(c) == c                                  \* a mutant of Inc
Inc(c)     == IF c = CountMax THEN 0 ELSE c + 1
Less(c, n) == IF n <= c THEN c - n ELSE CountMax + 1 - (n - c)

StopAttacker ==
  /\ running' = FALSE
  /\ target' = None
  /\ attackTimer' = "none"

\* CommonAttacker::start in a room of the players ps.  The first target is
\* the second player of an unordered map: any of them, when there are two.
StartAttacker(ps) ==
  IF Cardinality(ps) < 2
  THEN StopAttacker
  ELSE /\ running' = TRUE
       /\ target' \in ps
       /\ attackTimer' = "armed"

\* start() does nothing while the attacker is running.
StartAttackerOnce(ps) ==
  IF running THEN UNCHANGED attackVars ELSE StartAttacker(ps)

\* cancelGameTimer on the slots of the players of T.
LockTimersKept(T) == lockTimer         \* a mutant of LockTimersCancelled
LockTimersCancelled(T) ==
  [p \in Ids |-> IF p \in T THEN "none" ELSE lockTimer[p]]

Begun(T) ==
  /\ mode' = [p \in Ids |-> IF p \in T THEN "PLAYING" ELSE mode[p]]
  \* restart() resets the slot without cancelling the timer behind it
  /\ orphans' = orphans \cup {p \in T : lockTimer[p] = "armed"}
  /\ lockTimer' = [p \in Ids |-> IF p \in T THEN "armed" ELSE lockTimer[p]]
  /\ told' = [p \in Ids |-> IF p \in T THEN "match" ELSE told[p]]

Standing == {p \in players' : mode'[p] = "PLAYING"}

OnlyNobodyDecides == playingCount' = 0 \* a mutant of Decided
Decided == playingCount' <= 1

\* The last player standing, who is announced and whose timer is cancelled.
Winner == IF playingCount' = 1 THEN Standing ELSE {}

\* GameEndNotification reaches every player of the room.
Told ==
  [p \in Ids |-> IF ~Decided /\ p \in players' THEN told[p] ELSE "lobby"]

\* concludeMatchIfOneOrNoPlayersLeft, after the players of out lost their
\* timers; over is the last player whose GameOverNotification was sent.
Conclude(out, over) ==
  /\ started' = (started /\ ~Decided)
  /\ told' = Told
  /\ \E w \in (IF Winner = {} THEN {None} ELSE Winner) :
       /\ lockTimer' = LockTimersCancelled(out \cup {w})
       /\ lastOver' = IF w = None THEN over ELSE w

\* The boards of the players of T top out, one onBcbGameover after another.
TopOut(T) ==
  /\ players' = players
  /\ mode' = [p \in Ids |-> IF p \in T THEN "GAMEOVER" ELSE mode[p]]
  /\ playingCount' = Less(playingCount, Cardinality(T))
  /\ \E last \in T : Conclude(T, last)
  /\ IF Decided THEN StopAttacker ELSE UNCHANGED attackVars
  /\ UNCHANGED <<open, nextId, vacant, skewed>>
-----------------------------------------------------------------------------
Init ==
  /\ open = TRUE
  /\ started = FALSE
  /\ playingCount \in 0..CountMax   \* the member has no initialiser
  /\ nextId = 0
  /\ players = {}
  /\ mode = [p \in Ids |-> "GAMEOVER"]
  /\ lockTimer = [p \in Ids |-> "none"]
  /\ orphans = {}
  /\ running = FALSE
  /\ target = None
  /\ attackTimer = "none"
  /\ told = [p \in Ids |-> "lobby"]
  /\ lastOver = None
  /\ vacant = {} /\ skewed = FALSE

\* The end of join while a match is on: the newcomer plays at once.
JoinMatchUncontested ==                \* a mutant of JoinMatch
  Begun({nextId}) /\ playingCount' = Inc(playingCount) /\ UNCHANGED attackVars
JoinMatch ==
  /\ Begun({nextId})
  /\ playingCount' = Inc(playingCount)
  /\ IF playingCount' > 1 THEN StartAttackerOnce(players')
                          ELSE UNCHANGED attackVars

\* A player joins the room, or its slot does: the session still exists while
\* it joins, but a send to it may fail and disconnect it before it has a game.
JoinCountsLate ==                      \* a mutant of Join
  /\ open /\ nextId < MaxJoins
  /\ players' = players \cup {nextId}
  /\ nextId' = IF started THEN nextId + 1 ELSE nextId
  /\ UNCHANGED <<open, vacant, started, playingCount, mode, clockVars,
                 attackVars, told, lastOver, skewed>>
Join ==
  /\ open
  /\ nextId < MaxJoins
  /\ players' = players \cup {nextId}
  /\ nextId' = nextId + 1
  /\ vacant' \in {vacant, vacant \cup {nextId}}
  /\ \/ started /\ JoinMatch
     \/ ~started /\ UNCHANGED <<playingCount, mode, clockVars, told, attackVars>>
  /\ UNCHANGED <<open, started, lastOver, skewed>>

PassedOver == skewed' = (skewed \/ vacant \cap Contenders # {})

\* The GM starts a match with everybody in the room that has a session.
GameStart ==
  /\ open
  /\ ~started
  /\ Live # {}
  /\ started' = TRUE
  /\ playingCount' = Cardinality(Live)
  /\ Begun(Live)
  /\ PassedOver
  /\ lastOver' = None
  /\ IF playingCount' = 1 THEN UNCHANGED attackVars
                          ELSE StartAttackerOnce(players)
  /\ UNCHANGED roomVars

\* The GM starts a match with nobody to play: it is over before it begins.
GameStartEmpty ==
  /\ open
  /\ ~started
  /\ Live = {}
  /\ playingCount' = 0
  /\ PassedOver
  /\ StopAttacker
  /\ UNCHANGED <<roomVars, started, mode, clockVars, told, lastOver>>

\* An action of player p locks its piece and leaves no room for the next.
PlayerActionTopsOut(p) ==
  /\ open
  /\ started
  /\ p \in Contenders \ vacant
  /\ TopOut({p}) /\ UNCHANGED orphans

\* New pieces reach every board; those of T cannot place theirs.  Bound: in a
\* skewed room, where the first of them may end the match, one at a time.
PieceResponse(T) ==
  /\ open
  /\ started
  /\ T # {} /\ T \subseteq Contenders
  /\ skewed => Cardinality(T) = 1
  /\ TopOut(T) /\ UNCHANGED orphans

\* The timer in p's slot fires, or one of the orphans of p.
Fires(p, own) ==
  IF own THEN lockTimer[p] = "armed" /\ UNCHANGED orphans
         ELSE p \in orphans /\ orphans' \in {orphans, orphans \ {p}}

\* onLockingTimeout.
LockingTimeout(p) ==
  \E own \in BOOLEAN :
    /\ open
    /\ p \in players
    /\ Fires(p, own)
    /\ IF lockTimer[p] = "none" \/ mode[p] = "GAMEOVER"
       THEN /\ lockTimer' = IF own THEN [lockTimer EXCEPT ![p] = "spent"]
                                   ELSE lockTimer
            /\ UNCHANGED <<roomVars, started, playingCount, mode, attackVars,
                           told, lastOver, skewed>>
       ELSE \/ TopOut({p})
            \/ /\ lockTimer' = [lockTimer EXCEPT ![p] = "armed"]
               /\ UNCHANGED <<roomVars, started, playingCount, mode,
                              attackVars, told, lastOver, skewed>>

\* CommonAttacker::onTimeout: the turn passes to the next player in the game.
AttackTimeout ==
  /\ open
  /\ attackTimer = "armed"
  /\ LET others == Contenders \ {target} IN
       IF others = {}
       THEN StopAttacker
       ELSE /\ target' \in others
            /\ attackTimer' = IF running THEN "armed" ELSE "spent"
            /\ UNCHANGED running
  /\ UNCHANGED <<roomVars, started, playingCount, mode, clockVars, told,
                 lastOver, skewed>>

\* Whoever leaves, the attacker is stopped, and started again if need be.
AttackerLeft ==                        \* a mutant of AttackerRestarted
  IF started' /\ playingCount' > 1 THEN UNCHANGED attackVars ELSE StopAttacker
AttackerRestarted ==
  IF started' /\ playingCount' > 1 THEN StartAttacker(players')
                                  ELSE StopAttacker

\* removePlayerAt, after onConnectionLost or onVoluntaryLeave of a player:
\* nobody is left to do this for a slot without a session.
RemovePlayer(p) ==
  /\ open
  /\ p \in Live
  /\ players' = players \ {p}
  /\ mode' = [mode EXCEPT ![p] = "GAMEOVER"]
  /\ \/ /\ mode[p] = "PLAYING"
        /\ playingCount' = Less(playingCount, 1)
        /\ Conclude({p}, lastOver)
     \/ /\ mode[p] # "PLAYING"
        /\ lockTimer' = LockTimersCancelled({p})
        /\ told' = [told EXCEPT ![p] = "lobby"]
        /\ UNCHANGED <<playingCount, started, lastOver>>
  /\ AttackerRestarted
  /\ UNCHANGED <<open, nextId, vacant, orphans, skewed>>

\* shutdownDueToGmDisconnect: the room closes around its players.
GmGone ==
  /\ open
  /\ open' = FALSE
  /\ started' = FALSE
  /\ playingCount' = 0
  /\ players' = {} /\ vacant' = {}
  /\ mode' = [p \in Ids |-> "GAMEOVER"]
  /\ lockTimer' = LockTimersCancelled(players)
  /\ StopAttacker
  /\ told' = [p \in Ids |-> "lobby"]
  /\ UNCHANGED <<nextId, orphans, lastOver, skewed>>

Next ==
  \/ Join
  \/ GameStart
  \/ GameStartEmpty
  \/ \E p \in Ids : PlayerActionTopsOut(p)
  \/ \E T \in SUBSET Ids : PieceResponse(T)
  \/ \E p \in Ids : LockingTimeout(p)
  \/ AttackTimeout
  \/ \E p \in Ids : RemovePlayer(p)
  \/ GmGone

Spec == Init /\ [][Next]_vars
-----------------------------------------------------------------------------
(* Properties. *)

\* mPlayingCount is the number of players in PLAYING from the first start on,
\* although it is kept by hand in five places and one player keeps PLAYING
\* after a match it won: the counter that decides when a match is over
\* (concludeMatchIfOneOrNoPlayersLeft) never disagrees with the players, be
\* they without a session, unless a start passed over one of these in PLAYING.
CountExact ==
  ~skewed /\ (started \/ Contenders # {}) =>
    playingCount = Cardinality(Contenders)

\* Whoever plays in a running match has its lock timer armed exactly once,
\* and nobody else has one pending: not after a top-out, a win, a leave or
\* a rematch (startPlayerTimer and its five cancellations).  In a skewed room
\* the timer of the last one standing may be left on.
LockTimersOnlyForContenders ==
  ~skewed =>
    /\ orphans = {}
    /\ \A p \in Ids : lockTimer[p] =
         IF started /\ p \in Contenders THEN "armed" ELSE "none"

\* Attacks are dealt exactly while a match has two players left to fight,
\* whoever joins, drops out, leaves or starts when (start and stop calls in
\* join, handle(GameStart), concludeMatch and removePlayerAt); those of a room
\* that is not skewed.
AttackerRunsIffContested ==
  ~skewed => (running <=> started /\ Cardinality(Contenders) > 1)

\* mCurrentTarget is an iterator into mPlayers: while attacks run it points
\* to a slot of the room, and afterwards no timer is left that uses it; also
\* in a skewed room.
AttackTargetInRoom ==
  IF running THEN target \in players /\ attackTimer = "armed"
             ELSE target = None /\ attackTimer = "none"

\* The phase every client was last told, by GameStart- or
\* GameEndNotification, is the phase the room is in.
ClientsKnowPhase ==
  \A p \in Live : told[p] = IF started THEN "match" ELSE "lobby"

\* Once a match is over, the player still in PLAYING is the one named by the
\* last GameOverNotification: clients take the back of their game-over
\* sequence as the winner (Player.hpp).  Not so in a skewed room, where the
\* one named may be the slot that has not played.
WinnerAnnouncedLast ==
  ~skewed /\ ~started => \A w \in Contenders : lastOver = w

\* The room keeps the promises of Contest until it closes or is skewed: only a
\* newcomer enters a running match, nobody who is out comes back, and the
\* match is over exactly when at most one contender is left.
Bound == open /\ ~skewed
Promise == INSTANCE Contest WITH
  Ids <- Ids,
  phase <- IF ~Bound THEN "closed" ELSE IF started THEN "match" ELSE "lobby",
  contenders <- IF Bound /\ started THEN Contenders ELSE {},
  seen <- IF Bound THEN 0..(nextId - 1) ELSE {}

KeepsPromise == Promise!ContestSpec
=============================================================================
