---------------------------- MODULE ScoresProofs ----------------------------
(***************************************************************************)
(* The room of Scores is the room of Match: what its clients keep takes    *)
(* nothing from its behaviours, so that what is proved of the one holds of *)
(* the other.  And what its clients show of a match is right, for any      *)
(* number of joins: an invariant of their copies, on top of the room's.    *)
(***************************************************************************)
EXTENDS Scores, MatchProofs

\* Every step of the room with its clients is a step of the room, or none of
\* its business.
LEMMA StepOfTheRoom ==
  ASSUME [ScoresNext]_scoreVars
  PROVE  [Next]_vars
<1>1. CASE Join /\ ShowJoin
  BY <1>1 DEF Next
<1>2. CASE GameStart /\ ShowStart
  BY <1>2 DEF Next
<1>3. CASE (GameStartEmpty \/ AttackTimeout) /\ UNCHANGED <<view, missed>>
  BY <1>3 DEF Next
<1>4. ASSUME NEW p \in Ids, PlayerActionTopsOut(p) \/ LockingTimeout(p)
      PROVE  Next
  BY <1>4 DEF Next
<1>5. ASSUME NEW T \in SUBSET Ids, PieceResponse(T)
      PROVE  Next
  BY <1>5 DEF Next
<1>6. ASSUME NEW p \in Ids, RemovePlayer(p)
      PROVE  Next
  BY <1>6 DEF Next
<1>7. CASE GmGone /\ ShowClosed
  BY <1>7 DEF Next
<1>8. CASE UNCHANGED scoreVars
  BY <1>8 DEF scoreVars
<1> QED
  BY <1>1, <1>2, <1>3, <1>4, <1>5, <1>6, <1>7, <1>8 DEF ScoresNext

\* A room whose clients are watched behaves as one whose clients are not.
THEOREM RoomOfMatch == ScoresSpec => Spec
<1>1. ScoresInit => Init
  BY DEF ScoresInit
<1>2. [ScoresNext]_scoreVars => [Next]_vars
  BY StepOfTheRoom
<1> QED BY <1>1, <1>2, PTL DEF ScoresSpec, Spec
-----------------------------------------------------------------------------
(* The clients' copies. *)

View == [roster : SUBSET Ids, on : BOOLEAN, dead : SUBSET Ids,
         last : Ids \cup {None}]

ScoresType == view \in [Ids -> View] /\ missed \in [Ids -> SUBSET Ids]

\* What every room shows its clients, skewed or not: who is in it, and whether
\* a match is on.
Rosters == \A c \in Live : view[c].roster = players /\ view[c].on = started

Shown == ScoresType /\ Rosters

\* What a client missed of a match was over when it came: it is about players
\* that were there, and none of them comes back.
MissedInv ==
  started => \A c \in Live : missed[c] \subseteq (0..(nextId - 1)) \ Contenders

\* A match with one contender has no other client in the room to show it to.
AloneInv == started => \A p \in Ids : Contenders \subseteq {p} => Live \subseteq {p}

\* Who is shown as dead is out.
DeadInv ==
  started => \A c \in Live : view[c].dead = players \ (Contenders \cup missed[c])

Exact == ~skewed => MissedInv /\ AloneInv /\ DeadInv

ScoresInv == Shown /\ Exact

\* The handlers of Player keep the record's type and its roster: a start
\* revives everybody
LEMMA StartedShows ==
  ASSUME NEW v \in View
  PROVE  /\ Started(v) \in View /\ Started(v).roster = v.roster
         /\ Started(v).on = TRUE /\ Started(v).dead = {}
BY DEF View, Started

\* and an end revives the last one that was over.
LEMMA EndedShows ==
  ASSUME NEW v \in View
  PROVE  /\ Ended(v) \in View /\ Ended(v).roster = v.roster
         /\ Ended(v).on = FALSE
         /\ Cardinality(v.roster) > 1 => Ended(v).dead = v.dead \ {v.last}
BY DEF View, Ended

\* Somebody comes into the roster, or goes.
LEMMA RosterType ==
  ASSUME NEW v \in View, NEW p \in Ids
  PROVE  /\ Added(v, p) \in View /\ Removed(v, p) \in View
         /\ Added(v, p).roster = v.roster \cup {p}
         /\ Added(v, p).on = v.on /\ Added(v, p).dead = v.dead
         /\ Removed(v, p).roster = v.roster \ {p}
         /\ Removed(v, p).on = v.on /\ Removed(v, p).dead = v.dead \ {p}
BY DEF View, Added, Removed

\* Players are called out where the match is on.
Called(S, l) == S \in SUBSET Ids /\ l \in Ids \cup {None}

LEMMA OverType ==
  ASSUME NEW v \in View, NEW S, NEW l, Called(S, l)
  PROVE  /\ Over(v, S, l) \in View /\ Over(v, S, l).roster = v.roster
         /\ Over(v, S, l).on = v.on
BY DEF View, Called, Over

\* A conclusion ends the match in every copy, the one called out last shown
\* alive where the match was on.
LEMMA ConcludedShows ==
  ASSUME NEW v \in View, lastOver' \in Ids \cup {None}, Standing \in SUBSET Ids,
         Decided
  PROVE  /\ Concluded(v) \in View /\ Concluded(v).roster = v.roster
         /\ Concluded(v).on = FALSE
         /\ v.on = TRUE /\ Cardinality(v.roster) > 1
              /\ (Winner = {} => v.last = lastOver')
            => Concluded(v).dead = (v.dead \cup (Winner \cap v.roster)) \ {lastOver'}
<1>1. Winner \in SUBSET Ids
  BY DEF Winner
<1>2. CASE Winner = {}
  BY <1>2, EndedShows DEF Concluded
<1>3. CASE Winner # {}
  <2>1. PICK W \in SUBSET Ids : W = Winner
    BY <1>1
  <2>2. PICK l \in Ids \cup {None} : l = lastOver'
    OBVIOUS
  <2>3. Concluded(v) = Ended(Over(v, W, l))
    BY <1>3, <2>1, <2>2 DEF Concluded
  <2>4. PICK o \in View :
          /\ o = Over(v, W, l) /\ o.roster = v.roster
          /\ v.on = TRUE => o.dead = v.dead \cup (W \cap v.roster) /\ o.last = l
    <3>1. Called(W, l)
      BY DEF Called
    <3>2. Over(v, W, l) \in View /\ Over(v, W, l).roster = v.roster
      BY <3>1, OverType
    <3>3. v.on = TRUE => /\ Over(v, W, l).dead = v.dead \cup (W \cap v.roster)
                         /\ Over(v, W, l).last = l
      BY <3>1 DEF Over, View, Called
    <3> QED BY <3>2, <3>3
  <2> QED BY ZenonT(60), <1>3, <2>1, <2>2, <2>3, <2>4, EndedShows
<1> QED BY <1>2, <1>3

\* A step that does not conclude leaves a copy alone.
LEMMA ConcludedKeeps ==
  ASSUME NEW v \in View, lastOver' \in Ids \cup {None}, Standing \in SUBSET Ids
  PROVE  /\ Concluded(v) \in View /\ Concluded(v).roster = v.roster
         /\ Concluded(v).on = (v.on /\ ~Decided)
<1>1. CASE Decided
  BY <1>1, ConcludedShows
<1>2. CASE ~Decided
  BY <1>2 DEF Concluded, View
<1> QED BY <1>1, <1>2
-----------------------------------------------------------------------------
(* The invariant holds initially and is kept by every step. *)

LEMMA ScoresInitInv == ScoresInit => ScoresInv
BY DEF ScoresInit, Init, NewView, View, ScoresInv, Shown, ScoresType, Rosters,
   Exact, MissedInv, AloneInv, DeadInv, Live

\* The ids of the state that a step leads to.
LEMMA NextIds ==
  ASSUME Sound'
  PROVE  /\ players' \in SUBSET Ids /\ Live' \in SUBSET players'
         /\ Contenders' \in SUBSET players' /\ Standing = Contenders'
         /\ lastOver' \in Ids \cup {None} /\ started' \in BOOLEAN
<1>1. players' \subseteq 0..(nextId' - 1) /\ nextId' \in 0..MaxJoins
  BY DEF Sound, TypeOK
<1>2. \A n \in 0..MaxJoins : 0..(n - 1) \subseteq Ids
  BY MaxJoinsAssumption DEF Ids
<1> QED
  BY <1>1, <1>2 DEF Sound, TypeOK, Contenders, Standing, Live

\* In every room, those who top out are shown, and the match is over where it
\* is on,
LEMMA OutRosters ==
  ASSUME Sound, Sound', Shown, NEW T \in SUBSET Contenders, T # {}, TopOut(T),
         ShowOut
  PROVE  Shown'
<1>1. /\ players' = players /\ Live' = Live /\ Contenders' = Contenders \ T
      /\ started' = (started /\ ~Decided) /\ T \in SUBSET Ids
      /\ Live \subseteq Ids
  BY RoomInIds DEF Sound, TopOut, Conclude, Live, Contenders
<1>2. /\ view' = [c \in Ids |->
           IF c \notin Live THEN view[c]
           ELSE Concluded(Over(view[c], T, lastOver'))]
      /\ missed' = missed
  <2>1. Contenders \ Contenders' = T
    BY <1>1
  <2> QED BY <2>1 DEF ShowOut
<1>3. ASSUME NEW c \in Live
      PROVE  /\ view'[c] \in View /\ view'[c].roster = players'
             /\ view'[c].on = started'
  <2>1. PICK v \in View : v = view[c] /\ v.roster = players /\ v.on = started
    BY <1>1 DEF Shown, ScoresType, Rosters
  <2>2. PICK l \in Ids \cup {None} : l = lastOver'
    BY NextIds
  <2>3. PICK o \in View : o = Over(v, T, l) /\ o.roster = v.roster /\ o.on = v.on
    <3>1. Called(T, l)
      BY <1>1 DEF Called
    <3>2. /\ Over(v, T, l) \in View /\ Over(v, T, l).roster = v.roster
          /\ Over(v, T, l).on = v.on
      BY <3>1, OverType
    <3> QED BY <3>2
  <2>4. /\ Concluded(o) \in View /\ Concluded(o).roster = o.roster
        /\ Concluded(o).on = (o.on /\ ~Decided)
    BY NextIds, ConcludedKeeps
  <2>5. view'[c] = Concluded(o)
    BY <1>1, <1>2, <2>1, <2>2, <2>3
  <2> QED BY <1>1, <2>1, <2>3, <2>4, <2>5
<1> QED BY <1>1, <1>2, <1>3 DEF Shown, ScoresType, Rosters

\* whoever leaves is taken off every roster,
LEMMA RemovedRosters ==
  ASSUME Sound, Sound', Shown, NEW p \in Ids, RemovePlayer(p), ShowRemoved(p)
  PROVE  Shown'
<1>1. /\ players' = players \ {p} /\ Live' = Live \ {p} /\ Live \subseteq Ids
      /\ mode[p] = "PLAYING" => started' = (started /\ ~Decided)
      /\ mode[p] # "PLAYING" => started' = started
  BY RoomInIds DEF Sound, RemovePlayer, Conclude, Live
<1>2. /\ view' = [c \in Ids |->
           IF c = p THEN NewView
           ELSE IF c \notin Live THEN view[c]
           ELSE IF mode[p] = "PLAYING" THEN Concluded(Removed(view[c], p))
           ELSE Removed(view[c], p)]
      /\ missed' = [missed EXCEPT ![p] = {}]
  BY DEF ShowRemoved
<1>3. ASSUME NEW c \in Live, c # p
      PROVE  /\ view'[c] \in View /\ view'[c].roster = players'
             /\ view'[c].on = started'
  <2>1. PICK v \in View : v = view[c] /\ v.roster = players /\ v.on = started
    BY <1>1 DEF Shown, ScoresType, Rosters
  <2>2. PICK o \in View :
          o = Removed(v, p) /\ o.roster = v.roster \ {p} /\ o.on = v.on
    BY RosterType
  <2>3. /\ Concluded(o) \in View /\ Concluded(o).roster = o.roster
        /\ Concluded(o).on = (o.on /\ ~Decided)
    BY NextIds, ConcludedKeeps
  <2>4. view'[c] = IF mode[p] = "PLAYING" THEN Concluded(o) ELSE o
    BY <1>1, <1>2, <1>3, <2>1, <2>2
  <2> QED BY <1>1, <2>1, <2>2, <2>3, <2>4
<1>4. NewView \in View
  BY DEF NewView, View
<1> QED BY <1>1, <1>2, <1>3, <1>4 DEF Shown, ScoresType, Rosters

\* a newcomer is put on every roster and is given one, unless it is lost,
LEMMA JoinRosters ==
  ASSUME Sound, Sound', Shown, Join, ShowJoin
  PROVE  Shown'
<1>1. /\ players' = players \cup {nextId} /\ nextId \in Ids /\ started' = started
      /\ Live' \subseteq Live \cup {nextId} /\ players \in SUBSET Ids
      /\ Live \subseteq Ids /\ Contenders \subseteq players /\ started \in BOOLEAN
      /\ nextId \notin Live
  BY RoomInIds, MaxJoinsAssumption DEF Sound, TypeOK, Join, Live, Ids
<1>2. PICK n \in View : n = [NewView EXCEPT !.roster = players']
  BY <1>1 DEF NewView, View
<1>3. n.roster = players' /\ n.on = FALSE
  BY <1>2 DEF NewView
<1>4. PICK m \in View :
        m = (IF started THEN Started(n) ELSE n)
        /\ m.roster = players' /\ m.on = started
  BY <1>1, <1>3, StartedShows
<1>5. view' = [c \in Ids |->
         IF c = nextId /\ c \in Live' THEN m
         ELSE IF c \in Live THEN Added(view[c], nextId) ELSE view[c]]
  BY <1>2, <1>4 DEF ShowJoin
<1>6. ASSUME NEW c \in Live
      PROVE  /\ view'[c] \in View /\ view'[c].roster = players'
             /\ view'[c].on = started'
  <2>1. PICK v \in View : v = view[c] /\ v.roster = players /\ v.on = started
    BY <1>1 DEF Shown, ScoresType, Rosters
  <2>2. /\ Added(v, nextId) \in View /\ Added(v, nextId).on = v.on
        /\ Added(v, nextId).roster = v.roster \cup {nextId}
    BY <1>1, RosterType
  <2>3. view'[c] = Added(v, nextId)
    BY <1>1, <1>5, <2>1
  <2> QED BY <1>1, <2>1, <2>2, <2>3
<1>7. missed' \in [Ids -> SUBSET Ids]
  BY <1>1 DEF ShowJoin, Shown, ScoresType
<1> QED BY <1>1, <1>4, <1>5, <1>6, <1>7 DEF Shown, ScoresType, Rosters

\* a start is shown to everybody,
LEMMA StartRosters ==
  ASSUME Sound, Sound', Shown, GameStart, ShowStart
  PROVE  Shown'
<1>1. /\ players' = players /\ Live' = Live /\ Live \subseteq Ids
      /\ started' = TRUE
  BY RoomInIds DEF Sound, GameStart, roomVars, Live
<1>2. ASSUME NEW c \in Live
      PROVE  /\ view'[c] \in View /\ view'[c].roster = players'
             /\ view'[c].on = started'
  <2>1. PICK v \in View : v = view[c] /\ v.roster = players
    BY <1>1 DEF Shown, ScoresType, Rosters
  <2>2. view'[c] = Started(v)
    BY <1>1, <2>1 DEF ShowStart
  <2> QED BY <1>1, <2>1, <2>2, StartedShows
<1>3. \A c \in Ids \ Live : view'[c] = view[c]
  BY DEF ShowStart
<1>4. missed' \in [Ids -> SUBSET Ids]
  <2>1. players \ Contenders' \in SUBSET Ids
    BY <1>1, NextIds
  <2> QED BY <2>1 DEF ShowStart
<1>5. view' \in [Ids -> View]
  BY <1>1, <1>2, <1>3 DEF ShowStart, Shown, ScoresType
<1> QED BY <1>1, <1>2, <1>4, <1>5 DEF Shown, ScoresType, Rosters

\* and so is the end of the room.
LEMMA ClosedRosters ==
  ASSUME Sound, Shown, GmGone, ShowClosed
  PROVE  Shown'
<1>1. Live' = {} /\ missed' = missed
  BY DEF GmGone, ShowClosed, Live
<1>2. \A c \in Ids : Ended(view[c]) \in View
  BY EndedShows DEF Shown, ScoresType
<1>3. ScoresType'
  BY <1>1, <1>2 DEF ShowClosed, Shown, ScoresType
<1> QED BY <1>1, <1>3 DEF Shown, Rosters

\* Any other step leaves the copies as they are, and what they are about.
LEMMA SameShown ==
  ASSUME ScoresInv,
         UNCHANGED <<nextId, players, vacant, started, mode, skewed, view, missed>>
  PROVE  ScoresInv'
BY DEF ScoresInv, Shown, ScoresType, Rosters, Exact, MissedInv, AloneInv,
   DeadInv, Live, Contenders
-----------------------------------------------------------------------------
(* Who is out, in a room that is not skewed. *)

\* When a match is decided, the last one called out is the last one in it,
\* if there is one.
LEMMA WinnerIsLast ==
  ASSUME IInv', ~skewed', ~started'
  PROVE  Winner = Contenders' /\ (Winner # {} => Winner = {lastOver'})
<1>1. Contenders' \in SUBSET Ids /\ Standing = Contenders'
  BY NextIds DEF IInv
<1>2. CASE Contenders' = {}
  BY <1>1, <1>2 DEF Winner
<1>3. CASE Contenders' # {}
  <2>1. /\ playingCount' = Cardinality(Contenders')
        /\ Cardinality(Contenders') <= 1
    BY <1>3 DEF IInv, Strict, CountExact, MatchInv
  <2>2. Cardinality(Contenders') \in Nat /\ Cardinality(Contenders') # 0
    BY <1>1, <1>3, IdsBound, SizeCases
  <2>3. playingCount' = 1 /\ Cardinality(Contenders') = 1
    BY <2>1, <2>2
  <2>4. \E x : Contenders' = {x}
    BY <1>1, <2>3, SizeCases
  <2>5. \A w \in Contenders' : lastOver' = w
    BY DEF IInv, Strict, WinnerAnnouncedLast
  <2> QED BY <1>1, <2>3, <2>4, <2>5 DEF Winner
<1> QED BY <1>2, <1>3

\* Whoever tops out leaves the match and stays in the room.
LEMMA OutOfMatch ==
  ASSUME IInv, IInv', ~skewed, started, NEW T \in SUBSET Contenders, T # {},
         TopOut(T)
  PROVE  /\ players' = players /\ Live' = Live /\ nextId' = nextId
         /\ skewed' = skewed /\ Contenders' = Contenders \ T
         /\ lastOver' \in Ids
         /\ started' = ~Decided
         /\ Decided => /\ Winner = Contenders'
                       /\ Winner # {} => Winner = {lastOver'}
<1>1. /\ players' = players /\ Live' = Live /\ nextId' = nextId
      /\ skewed' = skewed /\ Contenders' = Contenders \ T
  BY RoomInIds DEF IInv, Sound, TopOut, Contenders, Live
<1>2. started' = ~Decided
  BY DEF TopOut, Conclude
<1>3. Decided => Winner = Contenders' /\ (Winner # {} => Winner = {lastOver'})
  BY <1>1, <1>2, WinnerIsLast
<1>4. lastOver' \in Ids
  <2>1. Standing \in SUBSET Ids /\ T \in SUBSET Ids
    BY NextIds, RoomInIds DEF IInv, Sound
  <2> QED BY <2>1 DEF TopOut, Conclude, Winner
<1> QED BY <1>1, <1>2, <1>3, <1>4

\* So does whoever leaves the room in the middle of a match.
LEMMA OutOfRoom ==
  ASSUME IInv, IInv', ~skewed, NEW p \in Ids, RemovePlayer(p)
  PROVE  /\ players' = players \ {p} /\ Live' = Live \ {p} /\ nextId' = nextId
         /\ skewed' = skewed /\ Contenders' = Contenders \ {p}
         /\ mode[p] # "PLAYING" => started' = started
         /\ mode[p] = "PLAYING" =>
              /\ started' = (started /\ ~Decided)
              /\ Decided => /\ Winner = Contenders'
                            /\ Winner # {} => Winner = {lastOver'}
<1>1. /\ players' = players \ {p} /\ Live' = Live \ {p} /\ nextId' = nextId
      /\ mode' = [mode EXCEPT ![p] = "GAMEOVER"] /\ skewed' = skewed
  BY DEF RemovePlayer, Live
<1>2. Contenders' = Contenders \ {p}
  BY <1>1 DEF IInv, Sound, TypeOK, Contenders
<1>3. mode[p] # "PLAYING" => started' = started
  BY DEF RemovePlayer
<1>4. mode[p] = "PLAYING" => started' = (started /\ ~Decided)
  BY DEF RemovePlayer, Conclude
<1>5. mode[p] = "PLAYING" /\ Decided =>
        Winner = Contenders' /\ (Winner # {} => Winner = {lastOver'})
  BY <1>1, <1>4, WinnerIsLast
<1> QED BY <1>1, <1>2, <1>3, <1>4, <1>5

\* What a client shows once a match is over: alive, of those it saw play, the
\* one called out last and nobody else.
ShowsTheWinner(c) ==
  Cardinality(players') > 1
  => view'[c].dead = players' \ ({lastOver'} \cup missed[c])

\* What one client c of the room shows after a step out of a match, from the
\* copy u in which those who went out are dead already.
LEMMA ConclusionShown ==
  ASSUME NEW c \in Ids, NEW u \in View, missed[c] \cap Contenders' = {},
         u.on = TRUE, u.roster = players',
         u.dead = players' \ (Contenders' \cup missed[c]),
         Contenders' \subseteq players', started' = ~Decided,
         lastOver' \in Ids \cup {None}, Standing \in SUBSET Ids,
         Decided => /\ Winner = Contenders'
                    /\ Winner # {} => Winner = {lastOver'},
         Decided /\ Winner = {} => u.last = lastOver',
         view'[c] = Concluded(u)
  PROVE  /\ started' => view'[c].dead = players' \ (Contenders' \cup missed[c])
         /\ ~started' => ShowsTheWinner(c)
<1>1. CASE ~Decided
  BY <1>1 DEF Concluded
<1>2. CASE Decided
  <2>1. Cardinality(u.roster) > 1
        => Concluded(u).dead = (u.dead \cup (Winner \cap u.roster)) \ {lastOver'}
    BY <1>2, ConcludedShows
  <2>2. (u.dead \cup (Winner \cap u.roster)) \ {lastOver'}
          = players' \ ({lastOver'} \cup missed[c])
    BY <1>2
  <2>3. ShowsTheWinner(c)
    BY <2>1, <2>2 DEF ShowsTheWinner
  <2> QED BY <1>2, <2>3
<1> QED BY <1>1, <1>2

\* A match that goes on after somebody went out of it is contested.
LEMMA GoesOnContested ==
  ASSUME IInv', ~skewed', started' => ~Decided
  PROVE  AloneInv'
<1> SUFFICES ASSUME started', NEW p \in Ids, Contenders' \subseteq {p}
             PROVE  FALSE
  BY DEF AloneInv
<1>1. /\ playingCount' = Cardinality(Contenders')
      /\ playingCount' \in Nat /\ ~(playingCount' <= 1)
  BY CountMaxAssumption DEF IInv, Sound, Strict, CountExact, TypeOK, Decided
<1>2. Contenders' = {} \/ Contenders' = {p}
  OBVIOUS
<1>3. Contenders' \in SUBSET Ids
  BY NextIds DEF IInv
<1>4. Cardinality(Contenders') = 0 \/ Cardinality(Contenders') = 1
  BY <1>2, <1>3, SizeCases
<1> QED BY <1>1, <1>4

\* Players topping out are shown to everybody in the room.
LEMMA TopOutShown ==
  ASSUME IInv, IInv', ~skewed, ScoresInv, started,
         NEW T \in SUBSET Contenders, T # {}, TopOut(T), ShowOut
  PROVE  Exact' /\ (~started' => \A c \in Live' : ShowsTheWinner(c))
<1>1. /\ players' = players /\ Live' = Live /\ nextId' = nextId
      /\ skewed' = skewed /\ Contenders' = Contenders \ T
      /\ lastOver' \in Ids /\ started' = ~Decided
      /\ Decided => /\ Winner = Contenders'
                    /\ Winner # {} => Winner = {lastOver'}
  BY OutOfMatch
<1>2. /\ players \in SUBSET Ids /\ Contenders \in SUBSET players
      /\ Live \in SUBSET Ids /\ Standing \in SUBSET Ids
  BY RoomInIds, NextIds DEF IInv, Sound
<1>3. /\ view' = [c \in Ids |->
           IF c \notin Live THEN view[c]
           ELSE Concluded(Over(view[c], T, lastOver'))]
      /\ missed' = missed
  <2>1. Contenders \ Contenders' = T
    BY <1>1
  <2> QED BY <2>1 DEF ShowOut
<1>4. MissedInv /\ DeadInv
  BY DEF ScoresInv, Exact
<1>5. ASSUME NEW c \in Live
      PROVE  /\ started' => view'[c].dead = players' \ (Contenders' \cup missed[c])
             /\ ~started' => ShowsTheWinner(c)
  <2>1. PICK l \in Ids : l = lastOver'
    BY <1>1
  <2>2. /\ view[c] \in View /\ view[c].roster = players /\ view[c].on = TRUE
        /\ view[c].dead = players \ (Contenders \cup missed[c])
    BY <1>2, <1>4 DEF ScoresInv, Shown, ScoresType, Rosters, DeadInv
  <2>3. missed[c] \cap Contenders = {}
    BY <1>4 DEF MissedInv
  <2>4. PICK u \in View :
          /\ u = Over(view[c], T, l) /\ u.on = TRUE /\ u.roster = players
          /\ u.dead = view[c].dead \cup (T \cap players) /\ u.last = l
    <3>1. PICK v \in View : v = view[c]
      BY <2>2
    <3>2. Over(v, T, l) = [v EXCEPT !.dead = @ \cup (T \cap v.roster), !.last = l]
      BY <2>2, <3>1 DEF Over
    <3>3. T \in SUBSET Ids /\ l \in Ids \cup {None}
      BY <1>2
    <3>4. /\ Over(v, T, l) \in View /\ Over(v, T, l).on = v.on
          /\ Over(v, T, l).roster = v.roster /\ Over(v, T, l).last = l
          /\ Over(v, T, l).dead = v.dead \cup (T \cap v.roster)
      BY <3>2, <3>3 DEF View
    <3> QED BY <2>2, <3>1, <3>4
  <2>5. u.dead = players' \ (Contenders' \cup missed[c])
    BY <1>1, <1>2, <2>2, <2>3, <2>4
  <2>6. view'[c] = Concluded(u)
    BY <1>2, <1>3, <2>1, <2>4
  <2>7. c \in Ids /\ missed[c] \cap Contenders' = {} /\ Contenders' \subseteq players'
    BY <1>1, <1>2, <2>3
  <2> QED BY <1>1, <1>2, <2>1, <2>4, <2>5, <2>6, <2>7, ConclusionShown
<1>6. MissedInv'
  BY <1>1, <1>3, <1>4 DEF MissedInv
<1>7. AloneInv'
  BY <1>1, GoesOnContested
<1>8. DeadInv'
  BY <1>1, <1>3, <1>5 DEF DeadInv
<1> QED BY <1>1, <1>5, <1>6, <1>7, <1>8 DEF Exact

\* A player that leaves is taken off every roster, and its match is over in
\* every copy if it is over.
LEMMA RemovalShown ==
  ASSUME IInv, IInv', ~skewed, ScoresInv, NEW p \in Ids, RemovePlayer(p),
         ShowRemoved(p)
  PROVE  /\ Exact'
         /\ started /\ ~started' => \A c \in Live' : ShowsTheWinner(c)
<1>1. /\ players' = players \ {p} /\ Live' = Live \ {p} /\ nextId' = nextId
      /\ skewed' = skewed /\ Contenders' = Contenders \ {p}
      /\ mode[p] # "PLAYING" => started' = started
      /\ mode[p] = "PLAYING" =>
           /\ started' = (started /\ ~Decided)
           /\ Decided => /\ Winner = Contenders'
                         /\ Winner # {} => Winner = {lastOver'}
  BY OutOfRoom
<1>2. /\ p \in Live /\ (p \in Contenders <=> mode[p] = "PLAYING")
      /\ players \in SUBSET Ids /\ Contenders \in SUBSET players
      /\ Live \in SUBSET Ids /\ Standing \in SUBSET Ids
      /\ Contenders' \subseteq players' /\ lastOver' \in Ids \cup {None}
      /\ started \in BOOLEAN
  BY RoomInIds, NextIds DEF RemovePlayer, Contenders, Live, IInv, Sound, TypeOK
<1>3. /\ view' = [c \in Ids |->
           IF c = p THEN NewView
           ELSE IF c \notin Live THEN view[c]
           ELSE IF mode[p] = "PLAYING" THEN Concluded(Removed(view[c], p))
           ELSE Removed(view[c], p)]
      /\ missed' = [missed EXCEPT ![p] = {}]
  BY DEF ShowRemoved
<1>4. MissedInv /\ AloneInv /\ DeadInv
  BY DEF ScoresInv, Exact
<1>5. ASSUME NEW c \in Live, c # p
      PROVE  /\ started' => view'[c].dead = players' \ (Contenders' \cup missed[c])
             /\ started /\ ~started' => ShowsTheWinner(c)
  <2>1. c \in Ids
    BY <1>2
  <2>2. /\ view[c] \in View /\ view[c].roster = players /\ view[c].on = started
        /\ started => view[c].dead = players \ (Contenders \cup missed[c])
    BY <1>4, <2>1 DEF ScoresInv, Shown, ScoresType, Rosters, DeadInv
  <2>3. PICK u \in View :
          /\ u = Removed(view[c], p) /\ u.roster = players' /\ u.on = started
          /\ u.dead = view[c].dead \ {p}
    <3>1. PICK v \in View : v = view[c]
      BY <2>2
    <3>2. /\ Removed(v, p) \in View /\ Removed(v, p).roster = v.roster \ {p}
          /\ Removed(v, p).on = v.on /\ Removed(v, p).dead = v.dead \ {p}
      BY RosterType
    <3> QED BY <1>1, <2>2, <3>1, <3>2
  <2>4. started => u.dead = players' \ (Contenders' \cup missed[c])
    BY <1>1, <2>2, <2>3
  <2>5. CASE mode[p] # "PLAYING"
    BY <1>1, <1>3, <1>5, <2>1, <2>3, <2>4, <2>5
  <2>6. CASE mode[p] = "PLAYING" /\ ~started
    BY <1>1, <2>6
  <2>7. CASE mode[p] = "PLAYING" /\ started
    <3>1. view'[c] = Concluded(u) /\ started' = ~Decided
      BY <1>1, <1>3, <1>5, <2>1, <2>3, <2>7
    <3>2. missed[c] \cap Contenders' = {}
      BY <1>1, <1>4, <2>7 DEF MissedInv
    <3>3. ~(Decided /\ Winner = {})
      <4>1. SUFFICES ASSUME Contenders \subseteq {p} PROVE FALSE
        BY <1>1, <2>7
      <4>2. Live \subseteq {p}
        BY <1>4, <2>7, <4>1 DEF AloneInv
      <4> QED BY <1>5, <4>2
    <3> QED BY <1>1, <1>2, <2>1, <2>3, <2>4, <2>7, <3>1, <3>2, <3>3, ConclusionShown
  <2> QED BY <1>2, <2>5, <2>6, <2>7
<1>6. \A c \in Live' : c \in Live /\ c # p /\ missed'[c] = missed[c]
  BY <1>1, <1>2, <1>3 DEF ScoresInv, Shown, ScoresType
<1>7. MissedInv'
  <2>1. started' => started
    BY <1>1
  <2> QED BY <1>1, <1>4, <1>6, <2>1 DEF MissedInv
<1>8. AloneInv'
  <2>1. CASE mode[p] = "PLAYING"
    BY <1>1, <2>1, GoesOnContested
  <2>2. CASE mode[p] # "PLAYING"
    <3>1. Contenders' = Contenders /\ started' = started
      BY <1>1, <1>2, <2>2
    <3> QED BY <1>1, <1>4, <3>1 DEF AloneInv
  <2> QED BY <2>1, <2>2
<1>9. DeadInv'
  BY <1>5, <1>6 DEF DeadInv
<1> QED BY <1>5, <1>6, <1>7, <1>8, <1>9 DEF Exact

\* A newcomer is shown to everybody, and everybody to it, if it is not lost.
LEMMA JoinShown ==
  ASSUME IInv, ~skewed, ScoresInv, Join, ShowJoin
  PROVE  Exact'
<1>1. /\ players \in SUBSET Ids /\ Contenders \in SUBSET players
      /\ Live \in SUBSET players
  BY RoomInIds DEF IInv, Sound
<1>2. /\ nextId \in Ids /\ nextId \notin players /\ skewed' = skewed
      /\ players' = players \cup {nextId} /\ started' = started
      /\ Live' \subseteq Live \cup {nextId}
      /\ 0..(nextId' - 1) = (0..(nextId - 1)) \cup {nextId}
      /\ nextId \notin 0..(nextId - 1)
      /\ players \subseteq 0..(nextId - 1)
  BY MaxJoinsAssumption DEF Join, IInv, Sound, TypeOK, Ids, Live
<1> SUFFICES ASSUME started PROVE Exact'
  BY <1>2 DEF Exact, MissedInv, AloneInv, DeadInv
<1>3. Contenders' = Contenders \cup {nextId}
  <2>1. mode' = [q \in Ids |-> IF q = nextId THEN "PLAYING" ELSE mode[q]]
    BY DEF Join, JoinMatch, Begun
  <2> QED BY <1>1, <1>2, <2>1 DEF Contenders
<1>4. missed' = [missed EXCEPT ![nextId] = players \ Contenders]
  BY DEF ShowJoin
<1>5. PICK n \in View : n = [NewView EXCEPT !.roster = players']
  BY <1>1, <1>2 DEF NewView, View
<1>6. view' = [c \in Ids |->
         IF c = nextId /\ c \in Live' THEN Started(n)
         ELSE IF c \in Live THEN Added(view[c], nextId) ELSE view[c]]
  BY <1>5 DEF ShowJoin
<1>7. MissedInv /\ AloneInv /\ DeadInv
  BY DEF ScoresInv, Exact
<1>8. ASSUME NEW c \in Live'
      PROVE  /\ view'[c].dead = players' \ (Contenders' \cup missed'[c])
             /\ missed'[c] \subseteq (0..(nextId' - 1)) \ Contenders'
  <2>1. CASE c = nextId
    <3>1. missed'[c] = players \ Contenders
      BY <1>2, <1>4, <2>1 DEF ScoresInv, Shown, ScoresType
    <3>2. view'[c] = Started(n)
      BY <1>2, <1>6, <2>1
    <3> QED BY <1>1, <1>2, <1>3, <3>1, <3>2, StartedShows
  <2>2. CASE c # nextId
    <3>1. c \in Live /\ c \in Ids /\ missed'[c] = missed[c]
      BY <1>1, <1>2, <1>4, <2>2 DEF ScoresInv, Shown, ScoresType
    <3>2. PICK v \in View : v = view[c]
      BY <3>1 DEF ScoresInv, Shown, ScoresType
    <3>3. /\ v.dead = players \ (Contenders \cup missed[c])
          /\ missed[c] \subseteq (0..(nextId - 1)) \ Contenders
      BY <1>7, <3>1, <3>2 DEF MissedInv, DeadInv
    <3>4. view'[c] = Added(v, nextId) /\ Added(v, nextId).dead = v.dead
      BY <1>2, <1>6, <2>2, <3>1, <3>2, RosterType
    <3> QED BY <1>2, <1>3, <3>1, <3>3, <3>4
  <2> QED BY <2>1, <2>2
<1>9. AloneInv'
  <2>1. Contenders # {} /\ nextId \notin Contenders
    BY <1>1, <1>2, Unskewed
  <2> QED BY <1>2, <1>3, <2>1 DEF AloneInv
<1> QED BY <1>8, <1>9 DEF Exact, MissedInv, DeadInv

\* A start revives everybody in every copy, and passes over those who are not
\* in the match.
LEMMA StartShown ==
  ASSUME IInv, ScoresInv, GameStart, ShowStart
  PROVE  Exact'
<1> SUFFICES ASSUME ~skewed' PROVE MissedInv' /\ AloneInv' /\ DeadInv'
  BY DEF Exact
<1>1. /\ players \in SUBSET Ids /\ players' = players /\ Live' = Live
      /\ Live \in SUBSET players /\ nextId' = nextId
      /\ players \subseteq 0..(nextId - 1)
  BY RoomInIds DEF IInv, Sound, TypeOK, GameStart, roomVars, Live
<1>2. Contenders' = Live
  <2>1. vacant \cap Contenders = {}
    BY DEF GameStart, PassedOver
  <2> QED BY <1>1, <2>1 DEF GameStart, Begun, Contenders, Live
<1>3. /\ view' = [c \in Ids |-> IF c \in Live THEN Started(view[c]) ELSE view[c]]
      /\ missed' = [c \in Ids |-> players \ Live]
  BY <1>2 DEF ShowStart
<1>4. ASSUME NEW c \in Live
      PROVE  view'[c].dead = players \ (Live \cup missed'[c])
  <2>1. PICK v \in View : v = view[c]
    BY <1>1 DEF ScoresInv, Shown, ScoresType
  <2>2. view'[c] = Started(v) /\ missed'[c] = players \ Live
    BY <1>1, <1>3, <2>1
  <2> QED BY <2>2, StartedShows
<1> QED BY <1>1, <1>2, <1>3, <1>4 DEF MissedInv, AloneInv, DeadInv

\* A lock timer that fires shows something only if its player tops out.
LEMMA TimeoutShown ==
  ASSUME IInv, IInv', ~skewed, ScoresInv, NEW p \in Ids, LockingTimeout(p), ShowOut
  PROVE  Exact' /\ (~started' => \A c \in Live' : ShowsTheWinner(c))
<1>1. TimerFires(p)
  BY TimerDoes
<1>2. CASE TopOut({p})
  BY <1>1, <1>2, TopOutShown DEF TimerFires
<1>3. CASE ~TopOut({p})
  <2>1. UNCHANGED <<roomVars, started, mode, skewed>> /\ started
    BY <1>1, <1>3 DEF TimerFires
  <2>2. Contenders' = Contenders
    BY <2>1 DEF Contenders, roomVars
  <2>3. view' = view /\ missed' = missed
    BY <2>2 DEF ShowOut, ScoresInv, Shown, ScoresType
  <2> QED BY <2>1, <2>3, SameShown DEF roomVars, ScoresInv
<1> QED BY <1>2, <1>3

-----------------------------------------------------------------------------
(* Every step keeps the copies right. *)

\* What every room shows, one case for each action.
LEMMA StepRosters ==
  ASSUME Sound, Sound', Shown, ScoresNext
  PROVE  Shown'
<1>1. ASSUME UNCHANGED <<players, vacant, started, view, missed>>
      PROVE  Shown'
  BY <1>1 DEF Shown, ScoresType, Rosters, Live
<1>2. CASE Join /\ ShowJoin
  BY <1>2, JoinRosters
<1>3. CASE GameStart /\ ShowStart
  BY <1>3, StartRosters
<1>4. CASE (GameStartEmpty \/ AttackTimeout) /\ UNCHANGED <<view, missed>>
  BY <1>1, <1>4 DEF GameStartEmpty, AttackTimeout, roomVars
<1>5. ASSUME NEW p \in Ids, PlayerActionTopsOut(p), ShowOut
      PROVE  Shown'
  <2>1. {p} \in SUBSET Contenders /\ {p} # {} /\ TopOut({p})
    BY <1>5 DEF PlayerActionTopsOut
  <2> QED BY <1>5, <2>1, OutRosters
<1>6. ASSUME NEW p \in Ids, LockingTimeout(p), ShowOut
      PROVE  Shown'
  <2>1. \/ {p} \in SUBSET Contenders /\ {p} # {} /\ TopOut({p})
        \/ UNCHANGED <<roomVars, started, mode>>
    BY <1>6 DEF LockingTimeout, Contenders, Sound, TypeOK
  <2>2. CASE {p} \in SUBSET Contenders /\ {p} # {} /\ TopOut({p})
    BY <1>6, <2>2, OutRosters
  <2>3. CASE UNCHANGED <<roomVars, started, mode>>
    <3>1. Contenders' = Contenders
      BY <2>3 DEF Contenders, roomVars
    <3>2. view' = view /\ missed' = missed
      BY <1>6, <3>1 DEF ShowOut, Shown, ScoresType
    <3> QED BY <1>1, <2>3, <3>2 DEF roomVars
  <2> QED BY <2>1, <2>2, <2>3
<1>7. ASSUME NEW T \in SUBSET Ids, PieceResponse(T), ShowOut
      PROVE  Shown'
  <2>1. T \in SUBSET Contenders /\ T # {} /\ TopOut(T)
    BY <1>7 DEF PieceResponse
  <2> QED BY <1>7, <2>1, OutRosters
<1>8. ASSUME NEW p \in Ids, RemovePlayer(p), ShowRemoved(p)
      PROVE  Shown'
  BY <1>8, RemovedRosters
<1>9. CASE GmGone /\ ShowClosed
  BY <1>9, ClosedRosters
<1> QED
  BY <1>2, <1>3, <1>4, <1>5, <1>6, <1>7, <1>8, <1>9 DEF ScoresNext

\* A decided match has left the clients of the room with its winner.
Decisive ==
  started /\ ~started' /\ open' => \A c \in Live' : ShowsTheWinner(c)

\* What a room that is not skewed shows, one case for each action.
LEMMA StepExact ==
  ASSUME IInv, IInv', ~skewed, ScoresInv, ScoresNext
  PROVE  Exact' /\ Decisive
<1>1. CASE Join /\ ShowJoin
  BY <1>1, JoinShown DEF Join, Decisive
<1>2. CASE GameStart /\ ShowStart
  BY <1>2, StartShown DEF GameStart, Decisive
<1>3. CASE (GameStartEmpty \/ AttackTimeout) /\ UNCHANGED <<view, missed>>
  <2>1. UNCHANGED <<nextId, players, vacant, started, mode, view, missed>>
    BY <1>3 DEF GameStartEmpty, AttackTimeout, roomVars
  <2> QED
    BY <2>1 DEF Decisive, ScoresInv, Exact, MissedInv, AloneInv, DeadInv, Live,
       Contenders
<1>4. ASSUME NEW p \in Ids, PlayerActionTopsOut(p), ShowOut
      PROVE  Exact' /\ Decisive
  <2>1. started /\ {p} \in SUBSET Contenders /\ {p} # {} /\ TopOut({p})
    BY <1>4 DEF PlayerActionTopsOut
  <2> QED BY <1>4, <2>1, TopOutShown DEF Decisive
<1>5. ASSUME NEW p \in Ids, LockingTimeout(p), ShowOut
      PROVE  Exact' /\ Decisive
  BY <1>5, TimeoutShown DEF Decisive
<1>6. ASSUME NEW T \in SUBSET Ids, PieceResponse(T), ShowOut
      PROVE  Exact' /\ Decisive
  <2>1. started /\ T \in SUBSET Contenders /\ T # {} /\ TopOut(T)
    BY <1>6 DEF PieceResponse
  <2> QED BY <1>6, <2>1, TopOutShown DEF Decisive
<1>7. ASSUME NEW p \in Ids, RemovePlayer(p), ShowRemoved(p)
      PROVE  Exact' /\ Decisive
  BY <1>7, RemovalShown DEF Decisive
<1>8. CASE GmGone /\ ShowClosed
  BY <1>8 DEF GmGone, Decisive, Exact, MissedInv, AloneInv, DeadInv
<1> QED
  BY <1>1, <1>2, <1>3, <1>4, <1>5, <1>6, <1>7, <1>8 DEF ScoresNext

\* The invariant is kept, and a decided match shows its winner.
LEMMA StepShown ==
  ASSUME IInv, ScoresInv, [ScoresNext]_scoreVars
  PROVE  /\ IInv' /\ ScoresInv'
         /\ ~skewed => Decisive
<1>1. IInv'
  BY StepOfTheRoom, NextInv
<1>2. CASE UNCHANGED scoreVars
  <2>1. UNCHANGED <<nextId, players, vacant, started, mode, skewed, view, missed>>
    BY <1>2 DEF scoreVars, vars, roomVars
  <2> QED BY <1>1, <2>1, SameShown DEF Decisive
<1>3. CASE ScoresNext
  <2>1. Shown'
    BY <1>1, <1>3, StepRosters DEF IInv, ScoresInv
  <2>2. CASE skewed
    <3>1. skewed'
      BY <2>2, StepOfTheRoom, StaysSkewed
    <3> QED BY <1>1, <2>1, <2>2, <3>1 DEF ScoresInv, Exact
  <2>3. CASE ~skewed
    BY <1>1, <1>3, <2>1, <2>3, StepExact DEF ScoresInv
  <2> QED BY <2>2, <2>3
<1> QED BY <1>2, <1>3

\* The invariant of the room and that of its clients' copies, together.
THEOREM ScoresInductive == ScoresSpec => [](IInv /\ ScoresInv)
<1>1. ScoresInit => IInv /\ ScoresInv
  BY InitInv, ScoresInitInv DEF ScoresInit
<1>2. IInv /\ ScoresInv /\ [ScoresNext]_scoreVars => (IInv /\ ScoresInv)'
  BY StepShown
<1> QED BY <1>1, <1>2, PTL DEF ScoresSpec

\* Every client shows who is in the room and, until a start skews the room,
\* who of them is out, all through a match and in every rematch.
THEOREM ShownWhoIsOut == ScoresSpec => []ClientsShowWhoIsOut
<1>1. ScoresInv => ClientsShowWhoIsOut
  BY DEF ScoresInv, Shown, Rosters, Exact, DeadInv, ClientsShowWhoIsOut
<1> QED BY <1>1, ScoresInductive, PTL

\* When a match ends in a room that is not skewed, the clients show the winner
\* that was called out last.
THEOREM ShownTheWinner == ScoresSpec => ClientsShowTheWinner
<1>1. IInv /\ ScoresInv /\ [ScoresNext]_scoreVars
      => [started /\ ~started' /\ open' /\ ~skewed /\ Cardinality(players') > 1
          => \A c \in Live' :
               view'[c].dead = players' \ ({lastOver'} \cup missed[c])]_scoreVars
  BY StepShown DEF Decisive, ShowsTheWinner
<1> QED BY <1>1, ScoresInductive, PTL DEF ScoresSpec, ClientsShowTheWinner
=============================================================================
