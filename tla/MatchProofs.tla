---------------------------- MODULE MatchProofs ----------------------------
(***************************************************************************)
(* Proofs about Match, for every number of joins and every width of the    *)
(* counter.  The properties of Match are not inductive one by one: the     *)
(* counter is right only because whoever is not in the room is out, the    *)
(* attacker only because the counter is, and so on.  IInv is their         *)
(* conjunction with what ties them together.  Sound is the part of it that *)
(* holds in a skewed room too, and rests on nothing else; what is left is  *)
(* then shown for steps that start in a room that is not skewed.           *)
(***************************************************************************)
EXTENDS Match, FiniteSetTheorems, TLAPS

\* Players who are not in the room have nothing left in it, and a closed room
\* is empty and idle.
RoomFrame ==
  /\ \A p \in Ids \ players : mode[p] = "GAMEOVER" /\ told[p] = "lobby"
  /\ ~open => players = {} /\ ~started

Sound == TypeOK /\ AttackTargetInRoom /\ ClientsKnowPhase /\ RoomFrame

\* A match has somebody in it, and at most one player is left over from one.
MatchInv ==
  ~skewed =>
    /\ started => Contenders # {}
    /\ ~started => Cardinality(Contenders) <= 1

Strict ==
  /\ CountExact
  /\ LockTimersOnlyForContenders
  /\ AttackerRunsIffContested
  /\ WinnerAnnouncedLast
  /\ MatchInv

IInv == Sound /\ Strict

-----------------------------------------------------------------------------
(* Facts about the sets of players and the counter. *)

\* Any set of ids is finite and no larger than the room can get.
LEMMA IdsBound ==
  ASSUME NEW S \in SUBSET Ids
  PROVE  /\ IsFiniteSet(S)
         /\ Cardinality(S) \in Nat
         /\ Cardinality(S) <= MaxJoins
<1>1. MaxJoins \in Nat /\ MaxJoins >= 1
  BY MaxJoinsAssumption, SMT
<1>2. 0 \in Int /\ MaxJoins - 1 \in Int /\ ~(0 > MaxJoins - 1)
  BY <1>1, SMT
<1>3. IsFiniteSet(Ids) /\ Cardinality(Ids) = (MaxJoins - 1) - 0 + 1
  BY <1>2, FS_Interval DEF Ids
<1>4. IsFiniteSet(S) /\ Cardinality(S) <= Cardinality(Ids)
  BY <1>3, FS_Subset
<1>5. Cardinality(S) \in Nat
  BY <1>4, FS_CardinalityType
<1> QED BY <1>1, <1>3, <1>4, <1>5

\* Taking players of a set away one by one leaves what set difference leaves.
LEMMA WithoutCount ==
  ASSUME NEW S \in SUBSET Ids, NEW T \in SUBSET S
  PROVE  /\ Cardinality(T) \in Nat
         /\ Cardinality(T) <= Cardinality(S)
         /\ Cardinality(S \ T) = Cardinality(S) - Cardinality(T)
<1>1. IsFiniteSet(S) BY IdsBound
<1>2. S \cap T = T OBVIOUS
<1>3. Cardinality(S \ T) = Cardinality(S) - Cardinality(T)
  BY <1>1, <1>2, FS_Difference
<1>4. IsFiniteSet(T) /\ Cardinality(T) <= Cardinality(S)
  BY <1>1, FS_Subset
<1>5. Cardinality(T) \in Nat BY <1>4, FS_CardinalityType
<1> QED BY <1>3, <1>4, <1>5

\* The counter never wraps while it is at least the number of departures,
\* and stays an unsigned of its width in any case.
LEMMA LessType ==
  ASSUME NEW c \in 0..CountMax, NEW n \in Nat, n <= MaxJoins
  PROVE  /\ Less(c, n) \in 0..CountMax
         /\ n <= c => Less(c, n) = c - n
BY MaxJoinsAssumption, CountMaxAssumption DEF Less

\* A set of players has no member, one member, or more.
LEMMA SizeCases ==
  ASSUME NEW S \in SUBSET Ids
  PROVE  /\ Cardinality(S) = 0 <=> S = {}
         /\ Cardinality(S) = 1 <=> \E x : S = {x}
<1>1. IsFiniteSet(S) BY IdsBound
<1> QED BY <1>1, FS_EmptySet, FS_Singleton

\* At most one member means no two different ones.
LEMMA AtMostOne ==
  ASSUME NEW S \in SUBSET Ids
  PROVE  Cardinality(S) <= 1 <=> \A x, y \in S : x = y
<1>1. Cardinality(S) \in Nat
  BY IdsBound
<1>2. ASSUME Cardinality(S) <= 1 PROVE \A x, y \in S : x = y
  <2>1. Cardinality(S) = 0 \/ Cardinality(S) = 1
    BY <1>1, <1>2
  <2> QED BY <2>1, SizeCases
<1>3. ASSUME \A x, y \in S : x = y PROVE Cardinality(S) <= 1
  <2>1. S = {} \/ \E x : S = {x}
    BY <1>3
  <2>2. Cardinality(S) = 0 \/ Cardinality(S) = 1
    BY <2>1, SizeCases
  <2> QED BY <2>2
<1> QED BY <1>2, <1>3

\* Somebody more, somebody less.
LEMMA OneMore ==
  ASSUME NEW S \in SUBSET Ids, NEW p \in Ids, p \notin S
  PROVE  Cardinality(S \cup {p}) = Cardinality(S) + 1
<1>1. IsFiniteSet(S) BY IdsBound
<1> QED BY <1>1, FS_AddElement

\* Players and contenders are ids, never the placeholder for no target.
LEMMA RoomInIds ==
  ASSUME TypeOK
  PROVE  /\ players \subseteq Ids /\ players \in SUBSET Ids
         /\ Contenders \subseteq players /\ Contenders \in SUBSET Ids
         /\ Live \subseteq players /\ Live \in SUBSET Ids
         /\ None \notin Ids
<1>1. 0..(nextId - 1) \subseteq Ids
  BY MaxJoinsAssumption DEF TypeOK, Ids
<1>2. players \subseteq Ids /\ Contenders \subseteq players /\ Live \subseteq players
  BY <1>1 DEF TypeOK, Contenders, Live
<1>3. None \notin Ids
  BY MaxJoinsAssumption DEF Ids, None
<1> QED BY <1>2, <1>3

-----------------------------------------------------------------------------
(* What holds of every room, skewed or not. *)

\* The attacker has a target among the players of ps, or has been stopped.
Aimed(ps) ==
  /\ running' \in BOOLEAN
  /\ IF running' THEN target' \in ps /\ attackTimer' = "armed"
                 ELSE target' = None /\ attackTimer' = "none"

LEMMA StoppedIsAimed ==
  ASSUME NEW ps, StopAttacker
  PROVE  Aimed(ps)
BY DEF StopAttacker, Aimed

LEMMA StartIsAimed ==
  ASSUME NEW ps, StartAttacker(ps)
  PROVE  Aimed(ps)
BY DEF StartAttacker, StopAttacker, Aimed

LEMMA KeptIsAimed ==
  ASSUME Sound, NEW ps, players \subseteq ps, UNCHANGED attackVars
  PROVE  Aimed(ps)
BY DEF Sound, TypeOK, AttackTargetInRoom, attackVars, Aimed

LEMMA StartOnceIsAimed ==
  ASSUME Sound, NEW ps, players \subseteq ps, StartAttackerOnce(ps)
  PROVE  Aimed(ps)
BY KeptIsAimed, StartIsAimed DEF StartAttackerOnce

LEMMA AimedTypes ==
  ASSUME players' \subseteq Ids, Aimed(players')
  PROVE  /\ AttackTargetInRoom'
         /\ running' \in BOOLEAN /\ target' \in Ids \cup {None}
         /\ attackTimer' \in Slot
BY DEF Aimed, AttackTargetInRoom, Slot

\* Players topping out, in a match or after one.
LEMMA TopOutSound ==
  ASSUME Sound, NEW T \in SUBSET Contenders, T # {}, TopOut(T),
         orphans' \subseteq Ids
  PROVE  Sound'
<1>1. players \subseteq Ids /\ Contenders \subseteq Ids /\ None \notin Ids
      /\ players' = players
  BY RoomInIds DEF Sound, TopOut
<1>2. playingCount' \in 0..CountMax
  <2>1. /\ Cardinality(T) \in Nat /\ Cardinality(T) <= MaxJoins
    BY <1>1, IdsBound
  <2> QED BY <2>1, LessType DEF TopOut, Sound, TypeOK
<1>3. PICK last \in T : Conclude(T, last)
  BY DEF TopOut
<1>4. PICK w \in (IF Winner = {} THEN {None} ELSE Winner) :
        /\ lockTimer' = LockTimersCancelled(T \cup {w})
        /\ lastOver' = IF w = None THEN last ELSE w
  BY <1>3 DEF Conclude
<1>5. w \in Ids \cup {None}
  BY <1>1, <1>4 DEF Winner, Standing
<1>6. mode' \in [Ids -> {"PLAYING", "GAMEOVER"}]
  BY DEF TopOut, Sound, TypeOK
<1>7. lockTimer' \in [Ids -> Slot]
  BY <1>4 DEF LockTimersCancelled, Sound, TypeOK, Slot
<1>8. told' \in [Ids -> {"lobby", "match"}] /\ started' \in BOOLEAN
  BY <1>3 DEF Conclude, Told, Sound, TypeOK
<1>9. lastOver' \in Ids \cup {None}
  BY <1>1, <1>4, <1>5
<1>10. Aimed(players')
  BY <1>1, StoppedIsAimed, KeptIsAimed DEF TopOut
<1>11. TypeOK' /\ AttackTargetInRoom'
  BY <1>1, <1>2, <1>6, <1>7, <1>8, <1>9, <1>10, AimedTypes
     DEF TopOut, Sound, TypeOK
<1>12. ClientsKnowPhase'
  BY <1>1, <1>3 DEF TopOut, Conclude, Told, Sound, ClientsKnowPhase, Live
<1>13. RoomFrame'
  BY <1>1, <1>3 DEF TopOut, Conclude, Told, Sound, RoomFrame
<1> QED BY <1>11, <1>12, <1>13 DEF Sound

LEMMA JoinSound ==
  ASSUME Sound, Join
  PROVE  Sound'
<1>1. players \subseteq Ids /\ Contenders \subseteq Ids /\ None \notin Ids
  BY RoomInIds DEF Sound
<1>2. /\ nextId \in Ids /\ nextId \notin players
      /\ nextId' \in 0..MaxJoins /\ players' \subseteq 0..(nextId' - 1)
      /\ players' \subseteq Ids /\ players' = players \cup {nextId}
      /\ vacant' \subseteq players' /\ Live' \subseteq Live \cup {nextId}
  BY MaxJoinsAssumption, <1>1 DEF Join, Sound, TypeOK, Ids, Live
<1>3. CASE started
  <2>1. Begun({nextId}) /\ playingCount' = Inc(playingCount)
    BY <1>3 DEF Join, JoinMatch
  <2>2. playingCount' \in 0..CountMax
    BY <2>1, CountMaxAssumption DEF Sound, TypeOK, Inc
  <2>3. Aimed(players')
    BY <1>2, <1>3, KeptIsAimed, StartOnceIsAimed DEF Join, JoinMatch
  <2>4. TypeOK' /\ AttackTargetInRoom'
    BY <1>2, <2>1, <2>2, <2>3, AimedTypes DEF Join, Begun, Sound, TypeOK, Slot
  <2>5. ClientsKnowPhase' /\ RoomFrame'
    BY <1>1, <1>2, <1>3, <2>1
       DEF Join, Begun, Sound, ClientsKnowPhase, RoomFrame, Live
  <2> QED BY <2>4, <2>5 DEF Sound
<1>4. CASE ~started
  <2>1. /\ UNCHANGED <<playingCount, mode, clockVars, told, attackVars>>
        /\ UNCHANGED <<open, started, lastOver, skewed>>
    BY <1>4 DEF Join
  <2>2. TypeOK'
    BY <1>2, <2>1 DEF Sound, TypeOK, clockVars, attackVars
  <2>3. AttackTargetInRoom'
    BY <1>2, <2>1 DEF Sound, AttackTargetInRoom, attackVars
  <2>4. ClientsKnowPhase' /\ RoomFrame'
    BY <1>1, <1>2, <1>4, <2>1 DEF Join, Sound, ClientsKnowPhase, RoomFrame, Live
  <2> QED BY <2>2, <2>3, <2>4 DEF Sound
<1> QED BY <1>3, <1>4

LEMMA GameStartSound ==
  ASSUME Sound, GameStart
  PROVE  Sound'
<1>1. /\ players \subseteq Ids /\ players' = players /\ Live \in SUBSET Ids
      /\ Live \subseteq players
      /\ vacant' = vacant /\ Live' = Live /\ nextId' = nextId /\ open' = open
  BY RoomInIds DEF Sound, GameStart, roomVars, Live
<1>2. playingCount' \in 0..CountMax
  <2>1. /\ Cardinality(Live) \in Nat /\ Cardinality(Live) <= MaxJoins
    BY <1>1, IdsBound
  <2> QED BY <2>1, MaxJoinsAssumption, CountMaxAssumption DEF GameStart
<1>3. Aimed(players')
  BY <1>1, KeptIsAimed, StartOnceIsAimed DEF GameStart
<1>4. skewed' \in BOOLEAN
  BY DEF GameStart, PassedOver, Sound, TypeOK
<1>5. TypeOK' /\ AttackTargetInRoom'
  BY <1>1, <1>2, <1>3, <1>4, AimedTypes
     DEF GameStart, Begun, Sound, TypeOK, Slot
<1>6. ClientsKnowPhase' /\ RoomFrame'
  BY <1>1 DEF GameStart, Begun, Sound, ClientsKnowPhase, RoomFrame
<1> QED BY <1>5, <1>6 DEF Sound

LEMMA GameStartEmptySound ==
  ASSUME Sound, GameStartEmpty
  PROVE  Sound'
<1>1. UNCHANGED <<open, nextId, players, vacant, started, mode, lockTimer,
                  orphans, told, lastOver>>
  BY DEF GameStartEmpty, roomVars, clockVars
<1>2. playingCount' \in 0..CountMax /\ skewed' \in BOOLEAN
  BY CountMaxAssumption DEF GameStartEmpty, PassedOver, Sound, TypeOK
<1>3. Aimed(players') /\ players' \subseteq Ids
  BY <1>1, StoppedIsAimed, RoomInIds DEF GameStartEmpty, Sound
<1>4. TypeOK' /\ AttackTargetInRoom'
  BY <1>1, <1>2, <1>3, AimedTypes DEF Sound, TypeOK
<1>5. ClientsKnowPhase' /\ RoomFrame'
  BY <1>1 DEF Sound, ClientsKnowPhase, RoomFrame, Live
<1> QED BY <1>4, <1>5 DEF Sound

LEMMA LockingTimeoutSound ==
  ASSUME Sound, NEW p \in Ids, LockingTimeout(p)
  PROVE  Sound'
<1>1. PICK own \in BOOLEAN :
        /\ open
        /\ p \in players
        /\ Fires(p, own)
        /\ IF lockTimer[p] = "none" \/ mode[p] = "GAMEOVER"
           THEN /\ lockTimer' = IF own THEN [lockTimer EXCEPT ![p] = "spent"]
                                       ELSE lockTimer
                /\ UNCHANGED <<roomVars, started, playingCount, mode,
                               attackVars, told, lastOver, skewed>>
           ELSE \/ TopOut({p})
                \/ /\ lockTimer' = [lockTimer EXCEPT ![p] = "armed"]
                   /\ UNCHANGED <<roomVars, started, playingCount, mode,
                                  attackVars, told, lastOver, skewed>>
  BY DEF LockingTimeout
<1>2. orphans' \subseteq Ids
  BY <1>1 DEF Fires, Sound, TypeOK
<1>3. CASE TopOut({p})
  <2>1. CASE mode[p] = "PLAYING"
    <3>1. {p} \in SUBSET Contenders
      BY <1>1, <2>1 DEF Contenders
    <3> QED BY <1>2, <1>3, <3>1, TopOutSound
  <2>2. CASE mode[p] # "PLAYING"
    <3>1. mode[p] = "GAMEOVER"
      BY <2>2 DEF Sound, TypeOK
    <3>2. lockTimer' \in [Ids -> Slot]
      BY <1>1, <3>1 DEF Sound, TypeOK, Slot
    <3>3. UNCHANGED <<open, nextId, players, vacant, started, playingCount, mode,
                      running, target, attackTimer, told, lastOver, skewed>>
      BY <1>1, <3>1 DEF roomVars, attackVars
    <3> QED BY <1>2, <3>2, <3>3
        DEF Sound, TypeOK, AttackTargetInRoom, ClientsKnowPhase, RoomFrame, Live
  <2> QED BY <2>1, <2>2
<1>4. CASE ~TopOut({p})
  <2>1. lockTimer' \in [Ids -> Slot]
    BY <1>1, <1>4 DEF Sound, TypeOK, Slot
  <2>2. UNCHANGED <<open, nextId, players, vacant, started, playingCount, mode,
                    running, target, attackTimer, told, lastOver, skewed>>
    BY <1>1, <1>4 DEF roomVars, attackVars
  <2> QED BY <1>2, <2>1, <2>2
      DEF Sound, TypeOK, AttackTargetInRoom, ClientsKnowPhase, RoomFrame, Live
<1> QED BY <1>3, <1>4

LEMMA AttackTimeoutSound ==
  ASSUME Sound, AttackTimeout
  PROVE  Sound'
<1>1. UNCHANGED <<open, nextId, players, vacant, started, playingCount, mode,
                  lockTimer, orphans, told, lastOver, skewed>>
  BY DEF AttackTimeout, roomVars, clockVars
<1>2. players' \subseteq Ids /\ Contenders \subseteq players
  BY <1>1, RoomInIds DEF Sound
<1>3. Aimed(players')
  <2>1. running = TRUE
    BY DEF AttackTimeout, Sound, TypeOK, AttackTargetInRoom
  <2>2. CASE Contenders \ {target} = {}
    BY <2>2, StoppedIsAimed DEF AttackTimeout
  <2>3. CASE Contenders \ {target} # {}
    BY <1>1, <1>2, <2>1, <2>3 DEF AttackTimeout, Aimed
  <2> QED BY <2>2, <2>3
<1>4. TypeOK' /\ AttackTargetInRoom'
  BY <1>1, <1>2, <1>3, AimedTypes DEF Sound, TypeOK
<1>5. ClientsKnowPhase' /\ RoomFrame'
  BY <1>1 DEF Sound, ClientsKnowPhase, RoomFrame, Live
<1> QED BY <1>4, <1>5 DEF Sound

LEMMA RemovePlayerSound ==
  ASSUME Sound, NEW p \in Ids, RemovePlayer(p)
  PROVE  Sound'
<1>1. players \subseteq Ids /\ None \notin Ids
  BY RoomInIds DEF Sound
<1>2. /\ open /\ p \in players /\ p \notin vacant /\ players' = players \ {p}
      /\ mode' = [mode EXCEPT ![p] = "GAMEOVER"]
      /\ UNCHANGED <<open, nextId, vacant, orphans, skewed>>
  BY DEF RemovePlayer, Live
<1>3. /\ mode' \in [Ids -> {"PLAYING", "GAMEOVER"}]
      /\ players' \subseteq Ids /\ players' \subseteq 0..(nextId' - 1)
      /\ vacant' \subseteq players' /\ Live' = Live \ {p}
  BY <1>1, <1>2 DEF Sound, TypeOK, Live
<1>4. Aimed(players')
  BY StoppedIsAimed, StartIsAimed DEF RemovePlayer, AttackerRestarted
<1>5. /\ started' \in BOOLEAN /\ playingCount' \in 0..CountMax
      /\ told' \in [Ids -> {"lobby", "match"}]
      /\ lastOver' \in Ids \cup {None} /\ lockTimer' \in [Ids -> Slot]
      /\ ClientsKnowPhase' /\ RoomFrame'
  <2>1. CASE mode[p] = "PLAYING"
    <3>1. playingCount' = Less(playingCount, 1) /\ Conclude({p}, lastOver)
      BY <2>1 DEF RemovePlayer
    <3>2. playingCount' \in 0..CountMax
      <4>1. 1 \in Nat /\ 1 <= MaxJoins
        BY MaxJoinsAssumption
      <4> QED BY <3>1, <4>1, LessType DEF Sound, TypeOK
    <3>3. PICK w \in (IF Winner = {} THEN {None} ELSE Winner) :
            /\ lockTimer' = LockTimersCancelled({p} \cup {w})
            /\ lastOver' = IF w = None THEN lastOver ELSE w
      BY <3>1 DEF Conclude
    <3>4. w \in Ids \cup {None}
      BY <1>3, <3>3 DEF Winner, Standing
    <3>5. lockTimer' \in [Ids -> Slot] /\ lastOver' \in Ids \cup {None}
      BY <3>3, <3>4 DEF LockTimersCancelled, Sound, TypeOK, Slot
    <3>6. started' = (started /\ ~Decided) /\ told' = Told
      BY <3>1 DEF Conclude
    <3>7. told' \in [Ids -> {"lobby", "match"}] /\ started' \in BOOLEAN
      BY <3>6 DEF Told, Sound, TypeOK
    <3>8. ClientsKnowPhase'
      BY <1>1, <1>2, <1>3, <3>6 DEF Told, Sound, ClientsKnowPhase, Live
    <3>9. RoomFrame'
      BY <1>2, <3>6 DEF Told, Sound, TypeOK, RoomFrame
    <3> QED BY <3>2, <3>5, <3>7, <3>8, <3>9
  <2>2. CASE mode[p] # "PLAYING"
    <3>1. /\ lockTimer' = LockTimersCancelled({p})
          /\ told' = [told EXCEPT ![p] = "lobby"]
          /\ UNCHANGED <<playingCount, started, lastOver>>
      BY <2>2 DEF RemovePlayer
    <3>2. lockTimer' \in [Ids -> Slot] /\ told' \in [Ids -> {"lobby", "match"}]
      BY <3>1 DEF LockTimersCancelled, Sound, TypeOK, Slot
    <3>3. ClientsKnowPhase' /\ RoomFrame'
      BY <1>1, <1>2, <1>3, <3>1
         DEF Sound, TypeOK, ClientsKnowPhase, RoomFrame, Live
    <3> QED BY <3>1, <3>2, <3>3 DEF Sound, TypeOK
  <2> QED BY <2>1, <2>2
<1>6. TypeOK' /\ AttackTargetInRoom'
  BY <1>2, <1>3, <1>4, <1>5, AimedTypes DEF Sound, TypeOK
<1> QED BY <1>5, <1>6 DEF Sound

LEMMA GmGoneSound ==
  ASSUME Sound, GmGone
  PROVE  Sound'
<1>1. lockTimer' \in [Ids -> Slot] /\ 0 \in 0..CountMax
  BY CountMaxAssumption DEF GmGone, LockTimersCancelled, Sound, TypeOK, Slot
<1>2. Aimed(players') /\ players' \subseteq Ids
  BY StoppedIsAimed DEF GmGone
<1>3. TypeOK' /\ AttackTargetInRoom'
  BY <1>1, <1>2, AimedTypes DEF GmGone, Sound, TypeOK
<1> QED BY <1>3 DEF GmGone, Sound, ClientsKnowPhase, RoomFrame, Live

\* Every step keeps what holds of any room.
LEMMA SoundNext ==
  ASSUME Sound, [Next]_vars
  PROVE  Sound'
<1>1. ASSUME NEW T \in SUBSET Contenders, T # {}, TopOut(T), UNCHANGED orphans
      PROVE  Sound'
  <2>1. orphans' \subseteq Ids
    BY <1>1 DEF Sound, TypeOK
  <2> QED BY <1>1, <2>1, TopOutSound
<1>2. ASSUME NEW p \in Ids, PlayerActionTopsOut(p) PROVE Sound'
  <2>1. {p} \in SUBSET Contenders /\ {p} # {} /\ TopOut({p}) /\ UNCHANGED orphans
    BY <1>2 DEF PlayerActionTopsOut
  <2> QED BY <1>1, <2>1
<1>3. ASSUME NEW T \in SUBSET Ids, PieceResponse(T) PROVE Sound'
  BY <1>1, <1>3 DEF PieceResponse
<1>4. CASE UNCHANGED vars
  BY <1>4 DEF vars, roomVars, clockVars, attackVars, Sound, TypeOK, Contenders,
     AttackTargetInRoom, ClientsKnowPhase, RoomFrame, Live
<1> QED
  BY <1>2, <1>3, <1>4, JoinSound, GameStartSound, GameStartEmptySound,
     LockingTimeoutSound, AttackTimeoutSound, RemovePlayerSound, GmGoneSound
     DEF Next

-----------------------------------------------------------------------------
(* What holds of a room that is not skewed: it is kept by every step. *)

\* The invariant, said of a room that is not skewed.
LEMMA Unskewed ==
  ASSUME IInv, ~skewed
  PROVE  /\ started \/ Contenders # {} => playingCount = Cardinality(Contenders)
         /\ orphans = {}
         /\ \A p \in Ids : lockTimer[p] =
              IF started /\ p \in Contenders THEN "armed" ELSE "none"
         /\ running <=> started /\ Cardinality(Contenders) > 1
         /\ ~started => \A w \in Contenders : lastOver = w
         /\ started => Contenders # {}
         /\ ~started => Cardinality(Contenders) <= 1
         /\ players \subseteq Ids /\ Contenders \subseteq players
         /\ Contenders \in SUBSET Ids /\ None \notin Ids
BY RoomInIds DEF IInv, Sound, Strict, CountExact, LockTimersOnlyForContenders,
   AttackerRunsIffContested, WinnerAnnouncedLast, MatchInv

\* Nothing is claimed of a room that is.
LEMMA SkewedStrict ==
  ASSUME skewed'
  PROVE  Strict'
BY DEF Strict, CountExact, LockTimersOnlyForContenders,
   AttackerRunsIffContested, WinnerAnnouncedLast, MatchInv

LEMMA InitInv == Init => IInv
<1> SUFFICES ASSUME Init PROVE IInv
  OBVIOUS
<1>1. nextId \in 0..MaxJoins /\ players \subseteq 0..(nextId - 1)
  BY MaxJoinsAssumption DEF Init
<1>2. TypeOK
  BY <1>1 DEF Init, TypeOK, Slot, None
<1>3. Contenders = {} /\ Cardinality(Contenders) = 0
  BY FS_EmptySet DEF Init, Contenders
<1>4. Sound
  BY <1>2 DEF Init, Sound, AttackTargetInRoom, ClientsKnowPhase, RoomFrame, Live
<1>5. Strict
  BY <1>3 DEF Init, Strict, CountExact, LockTimersOnlyForContenders,
     AttackerRunsIffContested, WinnerAnnouncedLast, MatchInv
<1> QED BY <1>4, <1>5 DEF IInv

\* What the code does with its counter, once it is the number of contenders:
\* it ends the match when at most one of them, w, is left.
Ends(w) ==
  /\ playingCount' = Cardinality(Contenders')
  /\ Decided <=> Cardinality(Contenders') <= 1
  /\ Decided => Contenders' = {} \/ Contenders' = {w}
  /\ ~Decided => w = None

LEMMA CountDecides ==
  ASSUME Contenders' \in SUBSET Ids, None \notin Ids, Standing = Contenders',
         playingCount' = Cardinality(Contenders'),
         NEW w \in (IF Winner = {} THEN {None} ELSE Winner)
  PROVE  Ends(w)
<1>1. Decided => Contenders' = {} \/ Contenders' = {w}
  <2>1. SUFFICES ASSUME Decided, Contenders' # {} PROVE Contenders' = {w}
    OBVIOUS
  <2>2. PICK S \in SUBSET Ids : S = Contenders'
    OBVIOUS
  <2>3. Cardinality(S) <= 1 /\ S # {}
    BY <2>1, <2>2 DEF Decided
  <2>4. Cardinality(S) = 1 /\ \E x : S = {x}
    <3>1. Cardinality(S) \in Nat /\ Cardinality(S) # 0
      BY <2>3, IdsBound, SizeCases
    <3>2. Cardinality(S) = 1
      BY <2>3, <3>1
    <3> QED BY <3>2, SizeCases
  <2>5. Winner = S
    BY <2>2, <2>4 DEF Winner
  <2> QED BY <2>2, <2>4, <2>5
<1>2. ~Decided => w = None
  BY DEF Decided, Winner
<1> QED BY <1>1, <1>2 DEF Ends, Decided

\* Players topping out: the counter, the timers and the attacker follow.
LEMMA TopOutInv ==
  ASSUME IInv, ~skewed, started, UNCHANGED orphans,
         NEW T \in SUBSET Contenders, T # {}, TopOut(T)
  PROVE  Strict'
<1>1. /\ playingCount = Cardinality(Contenders) /\ playingCount \in 0..CountMax
      /\ orphans = {}
      /\ \A p \in Ids : lockTimer[p] =
           IF p \in Contenders THEN "armed" ELSE "none"
      /\ running <=> Cardinality(Contenders) > 1
      /\ players \subseteq Ids /\ Contenders \subseteq players
      /\ Contenders \in SUBSET Ids /\ None \notin Ids
  BY Unskewed DEF IInv, Sound, TypeOK
<1>2. /\ Contenders' = Contenders \ T /\ Standing = Contenders'
      /\ Contenders' \in SUBSET Ids
  BY <1>1 DEF TopOut, Contenders, Standing
<1>3. /\ Cardinality(T) \in Nat
      /\ Cardinality(T) <= Cardinality(Contenders)
      /\ Cardinality(T) <= MaxJoins
      /\ Cardinality(Contenders') = Cardinality(Contenders) - Cardinality(T)
      /\ Cardinality(Contenders') <= Cardinality(Contenders)
      /\ Cardinality(Contenders) \in Nat
  <2>1. T \in SUBSET Ids
    BY <1>1
  <2>2. Contenders \ T \in SUBSET Contenders
    OBVIOUS
  <2> QED BY <1>1, <1>2, <2>1, <2>2, WithoutCount, IdsBound
<1>4. playingCount' = Cardinality(Contenders')
  BY <1>1, <1>3, LessType DEF TopOut
<1>5. PICK last \in T : Conclude(T, last)
  BY DEF TopOut
<1>6. PICK w \in (IF Winner = {} THEN {None} ELSE Winner) :
        /\ lockTimer' = LockTimersCancelled(T \cup {w})
        /\ lastOver' = IF w = None THEN last ELSE w
  BY <1>5 DEF Conclude
<1>7. Ends(w)
  BY <1>1, <1>2, <1>4, <1>6, CountDecides
<1>8. /\ Decided => Contenders' = {} \/ Contenders' = {w}
      /\ ~Decided => w = None
      /\ Decided <=> Cardinality(Contenders') <= 1
      /\ Decided <=> ~started'
  BY <1>5, <1>7 DEF Conclude, Ends, Decided
<1>9. LockTimersOnlyForContenders'
  <2>1. ASSUME NEW p \in Ids
        PROVE  lockTimer'[p] =
                 IF started' /\ p \in Contenders' THEN "armed" ELSE "none"
    <3>1. lockTimer'[p] = IF p \in T \cup {w} THEN "none" ELSE lockTimer[p]
      BY <1>6 DEF LockTimersCancelled
    <3>2. CASE Decided
      BY <1>1, <1>2, <1>8, <3>1, <3>2
    <3>3. CASE ~Decided
      BY <1>1, <1>2, <1>8, <3>1, <3>3
    <3> QED BY <3>2, <3>3
  <2> QED BY <1>1, <2>1 DEF LockTimersOnlyForContenders
<1>10. AttackerRunsIffContested'
  <2>1. CASE Decided
    BY <1>8, <2>1 DEF TopOut, StopAttacker, AttackerRunsIffContested
  <2>2. CASE ~Decided
    <3>1. Cardinality(Contenders') > 1 /\ Cardinality(Contenders) > 1
      BY <1>1, <1>3, <1>4, <2>2 DEF Decided
    <3> QED BY <1>1, <1>8, <2>2, <3>1
        DEF TopOut, attackVars, AttackerRunsIffContested
  <2> QED BY <2>1, <2>2
<1>11. started' => Contenders' # {}
  BY <1>8, FS_EmptySet
<1>12. ~started' => \A x \in Contenders' : lastOver' = x
  BY <1>1, <1>2, <1>6, <1>8
<1>13. CountExact' /\ WinnerAnnouncedLast' /\ MatchInv'
  BY <1>4, <1>8, <1>11, <1>12 DEF CountExact, WinnerAnnouncedLast, MatchInv
<1> QED
  BY <1>9, <1>10, <1>13 DEF Strict

\* Starting the attacker in a room of two or more sets everything it needs.
LEMMA StartsAttacker ==
  ASSUME NEW ps \in SUBSET Ids, Cardinality(ps) > 1, StartAttacker(ps)
  PROVE  running' = TRUE
<1>1. ~(Cardinality(ps) < 2)
  BY IdsBound
<1> QED BY <1>1 DEF StartAttacker

\* A newcomer enters the running match or waits.
LEMMA JoinInv ==
  ASSUME IInv, ~skewed, Join
  PROVE  Strict'
<1>1. /\ orphans = {}
      /\ \A p \in Ids : lockTimer[p] =
           IF started /\ p \in Contenders THEN "armed" ELSE "none"
      /\ running \in BOOLEAN
      /\ started => playingCount = Cardinality(Contenders)
      /\ started => Contenders # {}
      /\ players \subseteq Ids /\ Contenders \subseteq players
      /\ Contenders \in SUBSET Ids
  BY Unskewed DEF IInv, Sound, TypeOK
<1>2. /\ nextId \in Ids /\ nextId \notin players /\ nextId \notin Contenders
      /\ players' \subseteq Ids /\ players' = players \cup {nextId}
  BY MaxJoinsAssumption, <1>1 DEF Join, IInv, Sound, TypeOK, Ids
<1>3. mode[nextId] = "GAMEOVER"
  BY <1>2 DEF IInv, Sound, RoomFrame
<1>4. CASE started
  <2>1. JoinMatch /\ Begun({nextId})
    BY <1>4 DEF Join, JoinMatch
  <2>2. Contenders' = Contenders \cup {nextId} /\ Contenders' \subseteq players'
    BY <1>1, <1>2, <2>1 DEF Begun, Contenders
  <2>3. /\ Cardinality(Contenders') = Cardinality(Contenders) + 1
        /\ Cardinality(Contenders) \in Nat /\ Cardinality(Contenders) > 0
        /\ Cardinality(Contenders') <= MaxJoins
    <3>1. Contenders' \in SUBSET Ids
      BY <1>1, <1>2, <2>2
    <3>2. Cardinality(Contenders') <= MaxJoins
      BY <3>1, IdsBound
    <3>3. Cardinality(Contenders) \in Nat /\ Cardinality(Contenders) # 0
      BY <1>1, <1>4, IdsBound, SizeCases
    <3> QED BY <1>1, <1>2, <2>2, <3>2, <3>3, OneMore
  <2>4. playingCount' = Cardinality(Contenders') /\ playingCount' > 1
    BY <1>1, <1>4, <2>1, <2>3, CountMaxAssumption, MaxJoinsAssumption
       DEF JoinMatch, Inc
  <2>5. Cardinality(players') > 1
    <3>1. PICK P \in SUBSET Ids : P = players'
      BY <1>2
    <3>2. PICK C \in SUBSET P : C = Contenders'
      BY <2>2, <3>1
    <3>3. Cardinality(C) <= Cardinality(P) /\ Cardinality(P) \in Nat
      BY WithoutCount, IdsBound
    <3> QED BY <2>3, <3>1, <3>2, <3>3
  <2>6. running' = TRUE
    <3>1. StartAttackerOnce(players')
      BY <2>1, <2>4 DEF JoinMatch
    <3>2. CASE running
      BY <1>1, <3>1, <3>2 DEF StartAttackerOnce, attackVars
    <3>3. CASE ~running
      BY <1>2, <2>5, <3>1, <3>3, StartsAttacker DEF StartAttackerOnce
    <3> QED BY <3>2, <3>3
  <2>7. LockTimersOnlyForContenders'
    BY <1>1, <1>2, <1>4, <2>1, <2>2
       DEF Join, Begun, LockTimersOnlyForContenders
  <2>8. started' /\ Contenders' # {} /\ Cardinality(Contenders') > 1
    BY <1>4, <2>2, <2>4 DEF Join
  <2> QED
    BY <2>4, <2>6, <2>7, <2>8 DEF Strict, CountExact, AttackerRunsIffContested,
       WinnerAnnouncedLast, MatchInv
<1>5. CASE ~started
  <2>1. UNCHANGED <<playingCount, mode, lockTimer, orphans, running, started,
                    lastOver, skewed>>
    BY <1>5 DEF Join, clockVars, attackVars
  <2>2. Contenders' = Contenders
    BY <1>2, <1>3, <2>1 DEF Contenders
  <2> QED
    BY <2>1, <2>2 DEF IInv, Strict, CountExact, LockTimersOnlyForContenders,
       AttackerRunsIffContested, WinnerAnnouncedLast, MatchInv
<1> QED BY <1>4, <1>5

\* A match starts with everybody in the room that has a session, and the slots
\* without one, unless it passes over one that is still in PLAYING.
LEMMA GameStartInv ==
  ASSUME IInv, ~skewed, GameStart
  PROVE  Strict'
<1>1. CASE skewed'
  BY <1>1, SkewedStrict
<1>2. CASE ~skewed'
  <2>1. /\ ~started /\ ~running /\ orphans = {}
        /\ \A p \in Ids : lockTimer[p] = "none"
        /\ players \in SUBSET Ids /\ Live \in SUBSET Ids /\ Live \subseteq players
        /\ players' = players
    BY Unskewed, RoomInIds DEF GameStart, roomVars, IInv, Sound
  <2>2. vacant \cap Contenders = {}
    BY <1>2 DEF GameStart, PassedOver
  <2>3. Contenders' = Live
    BY <2>1, <2>2 DEF GameStart, Begun, Contenders, Live
  <2>4. /\ playingCount' = Cardinality(Contenders')
        /\ playingCount' \in Nat /\ playingCount' # 0
        /\ Cardinality(Live) <= Cardinality(players)
        /\ Cardinality(players) \in Nat
    <3>1. Cardinality(Live) \in Nat /\ Cardinality(Live) # 0
      BY <2>1, IdsBound, SizeCases DEF GameStart
    <3>2. Cardinality(Live) <= Cardinality(players)
      BY <2>1, WithoutCount
    <3> QED BY <2>1, <2>3, <3>1, <3>2, IdsBound DEF GameStart
  <2>5. running' <=> Cardinality(Contenders') > 1
    <3>1. CASE playingCount' = 1
      BY <2>1, <2>4, <3>1 DEF GameStart, attackVars
    <3>2. CASE playingCount' # 1
      <4>1. Cardinality(players) > 1 /\ Cardinality(Contenders') > 1
        BY <2>3, <2>4, <3>2
      <4>2. StartAttacker(players)
        BY <2>1, <3>2 DEF GameStart, StartAttackerOnce
      <4>3. running' = TRUE
        BY <2>1, <4>1, <4>2, StartsAttacker
      <4> QED BY <4>1, <4>3
    <3> QED BY <3>1, <3>2
  <2>6. LockTimersOnlyForContenders'
    BY <2>1, <2>3 DEF GameStart, Begun, LockTimersOnlyForContenders
  <2>7. started' /\ Contenders' # {}
    BY <2>3 DEF GameStart
  <2> QED
    BY <2>4, <2>5, <2>6, <2>7 DEF Strict, CountExact, AttackerRunsIffContested,
       WinnerAnnouncedLast, MatchInv
<1> QED BY <1>1, <1>2

\* A match started with nobody to play changes only the counter.
LEMMA GameStartEmptyInv ==
  ASSUME IInv, ~skewed, GameStartEmpty
  PROVE  Strict'
<1>1. CASE skewed'
  BY <1>1, SkewedStrict
<1>2. CASE ~skewed'
  <2>1. UNCHANGED <<players, started, mode, lockTimer, orphans, lastOver>>
    BY DEF GameStartEmpty, roomVars, clockVars
  <2>2. Contenders = {} /\ Contenders' = {} /\ Cardinality({}) = 0
    <3>1. vacant \cap Contenders = {}
      BY <1>2 DEF GameStartEmpty, PassedOver
    <3>2. Contenders = {}
      BY <3>1 DEF GameStartEmpty, Live, Contenders
    <3> QED BY <2>1, <3>2, FS_EmptySet DEF Contenders
  <2>3. ~started /\ ~started' /\ running' = FALSE
    BY <2>1 DEF GameStartEmpty, StopAttacker
  <2>4. LockTimersOnlyForContenders'
    BY <2>1, <2>2, <2>3, Unskewed DEF LockTimersOnlyForContenders
  <2> QED
    BY <2>2, <2>3, <2>4 DEF Strict, CountExact, AttackerRunsIffContested,
       WinnerAnnouncedLast, MatchInv
<1> QED BY <1>1, <1>2

\* A lock timer only ever fires for a contender, and is armed again unless
\* the player topped out.
TimerFires(p) ==
  /\ started /\ {p} \in SUBSET Contenders /\ UNCHANGED orphans
  /\ \/ TopOut({p})
     \/ /\ lockTimer' = lockTimer
        /\ UNCHANGED <<roomVars, started, playingCount, mode, attackVars,
                       told, lastOver, skewed>>

LEMMA TimerDoes ==
  ASSUME IInv, ~skewed, NEW p \in Ids, LockingTimeout(p)
  PROVE  TimerFires(p)
<1>1. PICK own \in BOOLEAN :
        /\ p \in players
        /\ Fires(p, own)
        /\ IF lockTimer[p] = "none" \/ mode[p] = "GAMEOVER"
           THEN /\ lockTimer' = IF own THEN [lockTimer EXCEPT ![p] = "spent"]
                                       ELSE lockTimer
                /\ UNCHANGED <<roomVars, started, playingCount, mode,
                               attackVars, told, lastOver, skewed>>
           ELSE \/ TopOut({p})
                \/ /\ lockTimer' = [lockTimer EXCEPT ![p] = "armed"]
                   /\ UNCHANGED <<roomVars, started, playingCount, mode,
                                  attackVars, told, lastOver, skewed>>
  BY DEF LockingTimeout
<1>2. /\ orphans = {}
      /\ lockTimer[p] = IF started /\ p \in Contenders THEN "armed" ELSE "none"
  BY Unskewed
<1>3. own = TRUE /\ lockTimer[p] = "armed" /\ UNCHANGED orphans
  BY <1>1, <1>2 DEF Fires
<1>4. started /\ p \in Contenders
  BY <1>2, <1>3
<1>5. mode[p] = "PLAYING"
  BY <1>4 DEF Contenders
<1>6. [lockTimer EXCEPT ![p] = "armed"] = lockTimer
  BY <1>3 DEF IInv, Sound, TypeOK
<1> QED BY <1>1, <1>3, <1>4, <1>5, <1>6 DEF TimerFires

LEMMA LockingTimeoutInv ==
  ASSUME IInv, ~skewed, NEW p \in Ids, LockingTimeout(p)
  PROVE  Strict'
<1>1. TimerFires(p)
  BY TimerDoes
<1>2. CASE TopOut({p})
  BY <1>1, <1>2, TopOutInv DEF TimerFires
<1>3. CASE ~TopOut({p})
  <2>1. UNCHANGED <<players, started, playingCount, mode, lockTimer, orphans,
                    running, lastOver, skewed>>
    BY <1>1, <1>3 DEF TimerFires, roomVars, attackVars
  <2> QED
    BY <2>1 DEF IInv, Strict, CountExact, LockTimersOnlyForContenders,
       AttackerRunsIffContested, WinnerAnnouncedLast, MatchInv, Contenders
<1> QED BY <1>2, <1>3

\* The attacker passes its turn to another contender: it never has to stop.
LEMMA AttackTimeoutInv ==
  ASSUME IInv, ~skewed, AttackTimeout
  PROVE  Strict'
<1>1. running /\ started /\ Cardinality(Contenders) > 1 /\ Contenders \in SUBSET Ids
  BY Unskewed DEF AttackTimeout, IInv, Sound, AttackTargetInRoom
<1>2. Contenders \ {target} # {}
  <2>1. SUFFICES ASSUME Contenders \subseteq {target} PROVE FALSE
    OBVIOUS
  <2>2. Contenders = {} \/ Contenders = {target}
    BY <2>1
  <2>3. Cardinality(Contenders) = 0 \/ Cardinality(Contenders) = 1
    BY <1>1, <2>2, SizeCases
  <2> QED BY <1>1, <2>3
<1>3. UNCHANGED <<players, started, playingCount, mode, lockTimer, orphans,
                  running, lastOver, skewed>>
  BY <1>2 DEF AttackTimeout, roomVars, clockVars
<1> QED
  BY <1>3 DEF IInv, Strict, CountExact, LockTimersOnlyForContenders,
     AttackerRunsIffContested, WinnerAnnouncedLast, MatchInv, Contenders

\* The room closes: nothing is left running.
LEMMA GmGoneInv ==
  ASSUME IInv, ~skewed, GmGone
  PROVE  Strict'
<1>1. Contenders' = {} /\ Cardinality({}) = 0
  BY FS_EmptySet DEF GmGone, Contenders
<1>2. LockTimersOnlyForContenders'
  BY <1>1, Unskewed DEF GmGone, LockTimersCancelled, LockTimersOnlyForContenders
<1> QED
  BY <1>1, <1>2 DEF GmGone, StopAttacker, Strict, CountExact,
     AttackerRunsIffContested, WinnerAnnouncedLast, MatchInv

\* A player leaves: out of the match too, if it was in it.
LEMMA RemovePlayerInv ==
  ASSUME IInv, ~skewed, NEW p \in Ids, RemovePlayer(p)
  PROVE  Strict'
<1>1. /\ started \/ Contenders # {} => playingCount = Cardinality(Contenders)
      /\ orphans = {}
      /\ \A q \in Ids : lockTimer[q] =
           IF started /\ q \in Contenders THEN "armed" ELSE "none"
      /\ ~started => \A w \in Contenders : lastOver = w
      /\ started => Contenders # {}
      /\ ~started => Cardinality(Contenders) <= 1
      /\ players \subseteq Ids /\ Contenders \subseteq players
      /\ Contenders \in SUBSET Ids /\ None \notin Ids
      /\ playingCount \in 0..CountMax /\ started \in BOOLEAN
  BY Unskewed DEF IInv, Sound, TypeOK
<1>2. /\ p \in players /\ players' = players \ {p} /\ orphans' = orphans
      /\ mode' = [mode EXCEPT ![p] = "GAMEOVER"]
  BY DEF RemovePlayer, Live
<1>3. /\ Contenders' = Contenders \ {p} /\ Standing = Contenders'
      /\ Contenders' \in SUBSET Ids /\ Contenders' \subseteq players'
  BY <1>1, <1>2 DEF Contenders, Standing, IInv, Sound, TypeOK
<1>4. /\ CountExact' /\ LockTimersOnlyForContenders' /\ WinnerAnnouncedLast'
      /\ MatchInv' /\ started' \in BOOLEAN
      /\ started' => playingCount' = Cardinality(Contenders')
  <2>1. CASE mode[p] = "PLAYING"
    <3>1. playingCount' = Less(playingCount, 1) /\ Conclude({p}, lastOver)
      BY <2>1 DEF RemovePlayer
    <3>2. p \in Contenders
      BY <1>2, <2>1 DEF Contenders
    <3>3. /\ Cardinality(Contenders') = Cardinality(Contenders) - 1
          /\ Cardinality(Contenders') \in Nat /\ Cardinality(Contenders) \in Nat
      BY <1>1, <1>3, <3>2, IdsBound, FS_RemoveElement
    <3>4. playingCount' = Cardinality(Contenders')
      <4>1. playingCount = Cardinality(Contenders) /\ playingCount \in 0..CountMax
        BY <1>1, <3>2
      <4>2. 1 \in Nat /\ 1 <= MaxJoins /\ 1 <= playingCount
        BY <3>3, <4>1, MaxJoinsAssumption
      <4> QED BY <3>1, <3>3, <4>1, <4>2, LessType
    <3>5. PICK w \in (IF Winner = {} THEN {None} ELSE Winner) :
            /\ lockTimer' = LockTimersCancelled({p} \cup {w})
            /\ lastOver' = IF w = None THEN lastOver ELSE w
      BY <3>1 DEF Conclude
    <3>6. Ends(w)
      BY <1>1, <1>3, <3>4, <3>5, CountDecides
    <3>7. /\ Decided => Contenders' = {} \/ Contenders' = {w}
          /\ ~Decided => w = None
          /\ Decided <=> Cardinality(Contenders') <= 1
          /\ started' = (started /\ ~Decided)
          /\ ~started => Decided
      BY <1>1, <3>1, <3>3, <3>6 DEF Conclude, Ends
    <3>8. LockTimersOnlyForContenders'
      <4>1. ASSUME NEW q \in Ids
            PROVE  lockTimer'[q] =
                     IF started' /\ q \in Contenders' THEN "armed" ELSE "none"
        <5>1. lockTimer'[q] = IF q \in {p} \cup {w} THEN "none" ELSE lockTimer[q]
          BY <3>5 DEF LockTimersCancelled
        <5>2. CASE Decided
          BY <1>1, <1>3, <3>7, <5>1, <5>2
        <5>3. CASE ~Decided
          BY <1>1, <1>3, <3>7, <5>1, <5>3
        <5> QED BY <5>2, <5>3
      <4> QED BY <1>1, <1>2, <4>1 DEF LockTimersOnlyForContenders
    <3>9. ~started' => \A x \in Contenders' : lastOver' = x
      BY <1>1, <1>3, <3>5, <3>7
    <3>10. started' => Contenders' # {}
      <4>1. PICK C \in SUBSET Ids : C = Contenders'
        BY <1>3
      <4>2. started' => ~(Cardinality(C) <= 1)
        BY <3>7, <4>1
      <4>3. C = {} => Cardinality(C) = 0
        BY SizeCases
      <4> QED BY <4>1, <4>2, <4>3
    <3>11. ~started' => Cardinality(Contenders') <= 1
      BY <3>7
    <3> QED
      BY <3>4, <3>7, <3>8, <3>9, <3>10, <3>11
         DEF CountExact, WinnerAnnouncedLast, MatchInv
  <2>2. CASE mode[p] # "PLAYING"
    <3>1. /\ lockTimer' = LockTimersCancelled({p})
          /\ UNCHANGED <<playingCount, started, lastOver>>
      BY <2>2 DEF RemovePlayer
    <3>2. p \notin Contenders /\ Contenders' = Contenders
      BY <1>3, <2>2 DEF Contenders
    <3>3. LockTimersOnlyForContenders'
      BY <1>1, <1>2, <3>1, <3>2 DEF LockTimersCancelled, LockTimersOnlyForContenders
    <3> QED
      BY <1>1, <3>1, <3>2, <3>3 DEF CountExact, WinnerAnnouncedLast, MatchInv
  <2> QED BY <2>1, <2>2
<1>5. AttackerRunsIffContested'
  <2>1. CASE started' /\ playingCount' > 1
    <3>1. StartAttacker(players') /\ players' \in SUBSET Ids
      BY <1>1, <1>2, <2>1 DEF RemovePlayer, AttackerRestarted
    <3>2. Cardinality(Contenders') > 1
      BY <1>4, <2>1
    <3>3. Cardinality(players') > 1
      <4>1. PICK P \in SUBSET Ids : P = players'
        BY <3>1
      <4>2. PICK C \in SUBSET P : C = Contenders'
        BY <1>3, <4>1
      <4>3. /\ Cardinality(C) <= Cardinality(P) /\ Cardinality(P) \in Nat
            /\ Cardinality(C) \in Nat
        BY WithoutCount, IdsBound
      <4> QED BY <3>2, <4>1, <4>2, <4>3
    <3>4. running' = TRUE
      BY <3>1, <3>3, StartsAttacker
    <3> QED BY <2>1, <3>2, <3>4 DEF AttackerRunsIffContested
  <2>2. CASE ~(started' /\ playingCount' > 1)
    <3>1. running' = FALSE
      BY <2>2 DEF RemovePlayer, AttackerRestarted, StopAttacker
    <3>2. started' => ~(Cardinality(Contenders') > 1)
      BY <1>4, <2>2
    <3> QED BY <3>1, <3>2 DEF AttackerRunsIffContested
  <2> QED BY <2>1, <2>2
<1> QED BY <1>4, <1>5 DEF Strict

\* Once skewed, a room stays so.
LEMMA StaysSkewed ==
  ASSUME skewed, [Next]_vars
  PROVE  skewed'
BY DEF Next, vars, Join, GameStart, GameStartEmpty, PassedOver,
   PlayerActionTopsOut, PieceResponse, TopOut, LockingTimeout, AttackTimeout,
   RemovePlayer, GmGone

\* Every step keeps the invariant: one case for each action.
LEMMA NextInv ==
  ASSUME IInv, [Next]_vars
  PROVE  IInv'
<1>1. Sound'
  BY SoundNext DEF IInv
<1>2. CASE skewed
  <2>1. skewed'
    BY <1>2, StaysSkewed
  <2>2. Strict'
    BY <2>1 DEF Strict, CountExact, LockTimersOnlyForContenders,
       AttackerRunsIffContested, WinnerAnnouncedLast, MatchInv
  <2> QED BY <1>1, <2>2 DEF IInv
<1>3. CASE ~skewed
  <2> USE <1>3
  <2>1. ASSUME NEW p \in Ids, PlayerActionTopsOut(p) PROVE Strict'
    <3>1. /\ started /\ {p} \in SUBSET Contenders /\ {p} # {} /\ TopOut({p})
          /\ UNCHANGED orphans
      BY <2>1 DEF PlayerActionTopsOut
    <3>2. PICK T \in SUBSET Contenders : T = {p}
      BY <3>1
    <3> QED BY <3>1, <3>2, TopOutInv
  <2>2. ASSUME NEW T \in SUBSET Ids, PieceResponse(T) PROVE Strict'
    <3>1. /\ started /\ T \in SUBSET Contenders /\ T # {} /\ TopOut(T)
          /\ UNCHANGED orphans
      BY <2>2 DEF PieceResponse
    <3> QED BY <3>1, TopOutInv
  <2>3. ASSUME NEW p \in Ids, LockingTimeout(p) PROVE Strict'
    BY <2>3, LockingTimeoutInv
  <2>4. ASSUME NEW p \in Ids, RemovePlayer(p) PROVE Strict'
    BY <2>4, RemovePlayerInv
  <2>5. ASSUME UNCHANGED vars PROVE Strict'
    <3>1. UNCHANGED <<players, started, playingCount, mode, lockTimer, orphans,
                      running, lastOver, skewed>>
      BY <2>5 DEF vars, roomVars, clockVars, attackVars
    <3> QED
      BY <3>1 DEF IInv, Strict, CountExact, LockTimersOnlyForContenders,
         AttackerRunsIffContested, WinnerAnnouncedLast, MatchInv, Contenders
  <2>6. ASSUME Next PROVE Strict'
    <3>1. /\ Join => Strict'
          /\ GameStart => Strict'
          /\ GameStartEmpty => Strict'
          /\ AttackTimeout => Strict'
          /\ GmGone => Strict'
      BY JoinInv, GameStartInv, GameStartEmptyInv, AttackTimeoutInv, GmGoneInv
    <3> QED BY <2>1, <2>2, <2>3, <2>4, <2>6, <3>1 DEF Next
  <2>7. Strict'
    BY <2>5, <2>6
  <2> QED BY <1>1, <2>7 DEF IInv
<1> QED BY <1>2, <1>3

-----------------------------------------------------------------------------
(* The theorems. *)

\* The inductive invariant holds in every reachable state of a room, whatever
\* slots without a session it has.
THEOREM Inductive == Spec => []IInv
<1>1. Init => IInv
  BY InitInv
<1>2. IInv /\ [Next]_vars => IInv'
  BY NextInv
<1> QED BY <1>1, <1>2, PTL DEF Spec

\* Every variable keeps its type; the counter never leaves its width.
THEOREM TypeCorrect == Spec => []TypeOK
<1>1. IInv => TypeOK
  BY DEF IInv, Sound
<1> QED BY <1>1, Inductive, PTL

\* mPlayingCount counts the players in PLAYING, for any number of joins and
\* any garbage it starts from, until a start passes over one that has lost
\* its session while joining a match it then won.
THEOREM CounterCorrect == Spec => []CountExact
<1>1. IInv => CountExact
  BY DEF IInv, Strict
<1> QED BY <1>1, Inductive, PTL

\* Short of such a start, no lock timer outlives its player's part in the
\* match, and no contender is without one: no callback can reach an erased
\* PlayerContext.
THEOREM LockTimersCorrect == Spec => []LockTimersOnlyForContenders
<1>1. IInv => LockTimersOnlyForContenders
  BY DEF IInv, Strict
<1> QED BY <1>1, Inductive, PTL

\* Short of such a start, attacks are dealt exactly in contested matches.
THEOREM AttackerCorrect == Spec => []AttackerRunsIffContested
<1>1. IInv => AttackerRunsIffContested
  BY DEF IInv, Strict
<1> QED BY <1>1, Inductive, PTL

\* While they are, the iterator to the target points into the room, whatever
\* slots without a session it has and whatever a start passes over.
THEOREM TargetCorrect == Spec => []AttackTargetInRoom
<1>1. IInv => AttackTargetInRoom
  BY DEF IInv, Sound
<1> QED BY <1>1, Inductive, PTL

\* Every client in the room knows the phase of the room, and after a match
\* (short of such a start) the last player announced as over is its winner.
THEOREM ClientsInformed == Spec => [](ClientsKnowPhase /\ WinnerAnnouncedLast)
<1>1. IInv => ClientsKnowPhase /\ WinnerAnnouncedLast
  BY DEF IInv, Sound, Strict
<1> QED BY <1>1, Inductive, PTL
-----------------------------------------------------------------------------
(* Match implements Contest: under the refinement mapping Promise every    *)
(* step of a room is a step of an abstract contest, or none.  The mapping  *)
(* needs the invariant: the code ends a match by its counter, the contest  *)
(* by the number of its contenders.  A start that skews the room closes    *)
(* the contest, and nothing that happens afterwards is part of one.        *)

\* A room without players is a contest nobody has been seen in.
LEMMA InitRefines == Init => Promise!ContestInit
<1>1. 0..(0 - 1) = {}
  OBVIOUS
<1> QED BY <1>1 DEF Init, Bound, Promise!ContestInit

\* Joining is arriving in the lobby, or entering the match.
LEMMA JoinRefines ==
  ASSUME IInv, ~skewed, Join
  PROVE  Promise!Arrive(nextId) \/ Promise!Enter(nextId)
<1>1. /\ players \subseteq Ids /\ Contenders \subseteq players
      /\ nextId \in 0..MaxJoins
  BY RoomInIds DEF IInv, Sound, TypeOK
<1>2. /\ nextId \in Ids \ (0..(nextId - 1)) /\ nextId' = nextId + 1
      /\ 0..(nextId' - 1) = (0..(nextId - 1)) \cup {nextId}
      /\ Bound /\ Bound' /\ started' = started
  BY <1>1, MaxJoinsAssumption DEF Join, Ids, Bound
<1>3. CASE started
  <2>1. Contenders' = Contenders \cup {nextId}
    BY <1>1, <1>2, <1>3 DEF Join, JoinMatch, Begun, Contenders
  <2> QED BY <1>2, <1>3, <2>1 DEF Promise!Enter
<1>4. CASE ~started
  BY <1>2, <1>4 DEF Promise!Arrive
<1> QED BY <1>3, <1>4

\* Starting a match begins the contest of everybody in the room that has a
\* session, or closes it for good.
LEMMA GameStartRefines ==
  ASSUME IInv, ~skewed, GameStart
  PROVE  (Promise!Begin(Live) /\ Live \in SUBSET Ids) \/ Promise!Close
<1>1. /\ players \subseteq Ids /\ players \subseteq 0..(nextId - 1)
      /\ Live \subseteq players /\ Live \in SUBSET Ids
  BY RoomInIds DEF IInv, Sound, TypeOK
<1>2. Bound /\ ~started /\ started' = TRUE
  BY DEF GameStart, Bound
<1>3. CASE skewed'
  BY <1>2, <1>3 DEF Promise!Close, Bound
<1>4. CASE ~skewed'
  <2>1. Bound' /\ nextId' = nextId
    BY <1>2, <1>4 DEF GameStart, roomVars, Bound
  <2>2. vacant \cap Contenders = {}
    BY <1>4 DEF GameStart, PassedOver
  <2>3. Contenders' = Live
    BY <1>1, <2>2 DEF GameStart, Begun, roomVars, Contenders, Live
  <2>4. Live # {} /\ Live \subseteq 0..(nextId - 1)
    BY <1>1 DEF GameStart
  <2> QED BY <1>1, <1>2, <2>1, <2>3, <2>4 DEF Promise!Begin
<1> QED BY <1>3, <1>4

\* Starting one with nobody to play is nothing, or closes the contest.
LEMMA GameStartEmptyRefines ==
  ASSUME IInv, ~skewed, GameStartEmpty
  PROVE  UNCHANGED Promise!contestVars \/ Promise!Close
<1>1. UNCHANGED <<open, nextId, players, started, mode>> /\ Bound /\ ~started
  BY DEF GameStartEmpty, roomVars, Bound
<1>2. CASE skewed'
  BY <1>1, <1>2 DEF Promise!Close, Bound
<1>3. CASE ~skewed'
  BY <1>1, <1>3 DEF Promise!contestVars, Bound
<1> QED BY <1>2, <1>3

\* Topping out is dropping out, and the counter ends the match exactly when
\* the contest is decided.
LEMMA TopOutRefines ==
  ASSUME IInv, ~skewed, open, started,
         NEW T \in SUBSET Contenders, T # {}, TopOut(T)
  PROVE  Promise!Drop(T) /\ T \in SUBSET Ids
<1>1. players \subseteq Ids /\ Contenders \subseteq Ids
  BY RoomInIds DEF IInv, Sound
<1>2. Contenders' = Contenders \ T
  BY <1>1 DEF TopOut, Contenders
<1>3. playingCount' = Cardinality(Contenders \ T)
  <2>1. /\ Cardinality(T) \in Nat /\ Cardinality(T) <= MaxJoins
        /\ Cardinality(T) <= Cardinality(Contenders)
        /\ Cardinality(Contenders \ T) = Cardinality(Contenders) - Cardinality(T)
    <3>1. T \in SUBSET Ids
      BY <1>1
    <3> QED BY <1>1, <3>1, WithoutCount, IdsBound
  <2>2. playingCount = Cardinality(Contenders) /\ playingCount \in 0..CountMax
    BY Unskewed DEF IInv, Sound, TypeOK
  <2> QED BY <2>1, <2>2, LessType DEF TopOut
<1>4. /\ started' <=> ~(Cardinality(Contenders \ T) <= 1)
      /\ started' \in BOOLEAN
  BY <1>3 DEF TopOut, Conclude, Decided
<1>5. Bound /\ Bound' /\ nextId' = nextId
  BY DEF TopOut, Bound
<1>6. (IF started THEN Contenders ELSE {}) = Contenders
  OBVIOUS
<1>7. Promise!Decided(Contenders \ T) <=> ~started'
  <2>1. Contenders \ T \in SUBSET Ids
    BY <1>1
  <2> QED BY <1>4, <2>1, AtMostOne DEF Promise!Decided
<1>8. CASE started'
  BY <1>1, <1>2, <1>5, <1>6, <1>7, <1>8 DEF Promise!Drop
<1>9. CASE ~started'
  BY <1>1, <1>5, <1>6, <1>7, <1>9 DEF Promise!Drop
<1> QED BY <1>8, <1>9

\* Leaving a running match is dropping out of it; otherwise nothing the
\* contest can see happens.
LEMMA RemovePlayerRefines ==
  ASSUME IInv, ~skewed, NEW p \in Ids, RemovePlayer(p)
  PROVE  Promise!Drop({p}) \/ UNCHANGED Promise!contestVars
<1>1. players \subseteq Ids /\ Contenders \in SUBSET Ids
  BY RoomInIds DEF IInv, Sound
<1>2. /\ Bound /\ Bound' /\ nextId' = nextId /\ p \in players
      /\ Contenders' = Contenders \ {p}
  BY <1>1 DEF RemovePlayer, Contenders, Live, Bound, IInv, Sound, TypeOK
<1>3. CASE mode[p] = "PLAYING"
  <2>1. p \in Contenders /\ Conclude({p}, lastOver)
    BY <1>2, <1>3 DEF RemovePlayer, Contenders
  <2>2. playingCount' = Cardinality(Contenders \ {p})
    <3>1. Cardinality(Contenders \ {p}) = Cardinality(Contenders) - 1
      BY <1>1, <2>1, IdsBound, FS_RemoveElement
    <3>2. playingCount = Cardinality(Contenders) /\ playingCount \in 0..CountMax
      BY <2>1, Unskewed DEF IInv, Sound, TypeOK
    <3>3. Contenders \ {p} \in SUBSET Ids
      BY <1>1
    <3>4. Cardinality(Contenders \ {p}) \in Nat
      BY <3>3, IdsBound
    <3>5. 1 \in Nat /\ 1 <= MaxJoins /\ 1 <= playingCount
      BY <3>1, <3>2, <3>4, MaxJoinsAssumption
    <3> QED BY <1>3, <3>1, <3>2, <3>5, LessType DEF RemovePlayer
  <2>3. CASE started
    <3>1. started' <=> ~(Cardinality(Contenders \ {p}) <= 1)
      BY <2>1, <2>2, <2>3 DEF Conclude, Decided
    <3>2. (IF started THEN Contenders ELSE {}) = Contenders
      BY <2>3
    <3>3. Promise!Decided(Contenders \ {p}) <=> ~started'
      <4>1. Contenders \ {p} \in SUBSET Ids
        BY <1>1
      <4> QED BY <3>1, <4>1, AtMostOne DEF Promise!Decided
    <3>4. CASE started'
      BY <1>2, <2>1, <2>3, <3>2, <3>3, <3>4 DEF Promise!Drop
    <3>5. CASE ~started'
      BY <1>2, <2>1, <2>3, <3>2, <3>3, <3>5 DEF Promise!Drop
    <3> QED BY <3>4, <3>5
  <2>4. CASE ~started
    <3>1. ~started'
      BY <2>1, <2>4 DEF Conclude
    <3> QED BY <1>2, <2>4, <3>1 DEF Promise!contestVars
  <2> QED BY <2>3, <2>4
<1>4. CASE mode[p] # "PLAYING"
  <2>1. started' = started
    BY <1>4 DEF RemovePlayer
  <2>2. Contenders' = Contenders
    BY <1>2, <1>4 DEF Contenders
  <2> QED BY <1>2, <2>1, <2>2 DEF Promise!contestVars
<1> QED BY <1>3, <1>4

\* Every step of a room is a step of the contest or leaves it alone.
LEMMA StepRefines ==
  ASSUME IInv, [Next]_vars
  PROVE  [Promise!ContestNext]_Promise!contestVars
<1>1. CASE skewed
  <2>1. ~Bound /\ ~Bound'
    BY <1>1, StaysSkewed DEF Bound
  <2> QED BY <2>1 DEF Promise!contestVars
<1>2. CASE ~skewed
  <2> USE <1>2
  <2> DEFINE Refines == Promise!ContestNext \/ UNCHANGED Promise!contestVars
  <2>1. ASSUME Join PROVE Refines
    <3>1. nextId \in Ids
      BY <2>1, MaxJoinsAssumption DEF Join, IInv, Sound, TypeOK, Ids
    <3> QED BY <2>1, <3>1, JoinRefines DEF Promise!ContestNext
  <2>2. ASSUME GameStart PROVE Refines
    BY <2>2, GameStartRefines DEF Promise!ContestNext
  <2>3. ASSUME GameStartEmpty PROVE Refines
    BY <2>3, GameStartEmptyRefines DEF Promise!ContestNext
  <2>4. ASSUME NEW p \in Ids, PlayerActionTopsOut(p) PROVE Refines
    <3>1. open /\ started /\ {p} \in SUBSET Contenders /\ {p} # {} /\ TopOut({p})
      BY <2>4 DEF PlayerActionTopsOut
    <3> QED BY <3>1, TopOutRefines DEF Promise!ContestNext
  <2>5. ASSUME NEW T \in SUBSET Ids, PieceResponse(T) PROVE Refines
    <3>1. open /\ started /\ T \in SUBSET Contenders /\ T # {} /\ TopOut(T)
      BY <2>5 DEF PieceResponse
    <3> QED BY <3>1, TopOutRefines DEF Promise!ContestNext
  <2>6. ASSUME NEW p \in Ids, LockingTimeout(p) PROVE Refines
    <3>1. TimerFires(p)
      BY <2>6, TimerDoes
    <3>2. open /\ started /\ {p} \in SUBSET Contenders /\ {p} # {}
      BY <2>6, <3>1 DEF LockingTimeout, TimerFires
    <3>3. CASE TopOut({p})
      BY <3>2, <3>3, TopOutRefines DEF Promise!ContestNext
    <3>4. CASE ~TopOut({p})
      <4>1. UNCHANGED <<open, nextId, players, started, mode, skewed>>
        BY <3>1, <3>4 DEF TimerFires, roomVars
      <4> QED BY <4>1 DEF Contenders, Bound, Promise!contestVars
    <3> QED BY <3>3, <3>4
  <2>7. ASSUME AttackTimeout PROVE Refines
    BY <2>7 DEF AttackTimeout, roomVars, Contenders, Bound, Promise!contestVars
  <2>8. ASSUME NEW p \in Ids, RemovePlayer(p) PROVE Refines
    <3>1. {p} \in SUBSET Ids
      OBVIOUS
    <3> QED BY <2>8, <3>1, RemovePlayerRefines DEF Promise!ContestNext
  <2>9. ASSUME GmGone PROVE Refines
    BY <2>9 DEF GmGone, Bound, Promise!Close, Promise!ContestNext
  <2>10. ASSUME UNCHANGED vars PROVE Refines
    BY <2>10 DEF vars, roomVars, Contenders, Bound, Promise!contestVars
  <2> QED BY <2>1, <2>2, <2>3, <2>4, <2>5, <2>6, <2>7, <2>8, <2>9, <2>10 DEF Next
<1> QED BY <1>1, <1>2

\* The room keeps the promises of Contest, for any number of joins, until it
\* closes or a start passes over a slot in PLAYING.
THEOREM Implements == Spec => KeepsPromise
<1>1. Init => Promise!ContestInit
  BY InitRefines
<1>2. IInv /\ [Next]_vars => [Promise!ContestNext]_Promise!contestVars
  BY StepRefines
<1> QED
  BY <1>1, <1>2, Inductive, PTL DEF Spec, KeepsPromise, Promise!ContestSpec
=============================================================================
