------------------------------ MODULE Attack -------------------------------
(***************************************************************************)
(* CommonAttacker: whose turn it is to be attacked, the lines that wait    *)
(* for it, and what its client is shown of them.  The calls are those that *)
(* Game makes, in the orders Match allows; which player tops out when is   *)
(* left open.                                                              *)
(*                                                                         *)
(* mPlayers is an unordered map: its order of iteration is arbitrary, and  *)
(* may be another one after a player is added.                             *)
(*                                                                         *)
(* Every slot has a session here.  One without (Match's vacant) is left    *)
(* out: a start would pass over it, keep its account, and might make it    *)
(* the first target.                                                       *)
(***************************************************************************)
EXTENDS Integers, FiniteSets, Sequences, SequencesExt

CONSTANTS
  Players,     \* players that may be in the room
  None,        \* no player: mPlayers.end()
  Modes,       \* attack modes a game may be created with
  Half,        \* half the values of a counter of lines (2^7 in the code)
  LineCounts,  \* lines a lock may clear (0 to 4 in the code)
  MaxCleared   \* bound: lines cleared in one match

ASSUME AttackAssumption ==
  /\ None \notin Players
  /\ Half \in Nat \ {0}
  /\ LineCounts \subseteq Nat
  /\ MaxCleared \in Nat

VARIABLES
  mode,      \* mMode
  order,     \* mPlayers in the order of iteration
  on,        \* Game::mGameStarted
  alive,     \* players whose internalMode is PLAYING
  running,   \* mRunning
  cur,       \* mCurrentTarget
  timer,     \* mTimerId is set and its timer pending
  received,  \* receivedLines of every player
  shown,     \* the last incoming attack shown to each player's client
  sent,      \* lines others have cleared while a player was the target
  delivered, \* lines inserted into each player's board
  restarted, \* the attacker has been stopped and started within this match
  cleared,   \* lines cleared in this match
  crashed    \* end() or an erased player has been dereferenced

attackerVars == <<running, cur, timer>>
ledger == <<received, shown, sent, delivered>>
roomVars == <<mode, order, on, alive>>
history == <<restarted, cleared>>
vars == <<roomVars, attackerVars, ledger, history, crashed>>

\* Conversions to uint8_t and int8_t.
Unsigned(n) == n % (2 * Half)
Signed(n)   == ((n + Half) % (2 * Half)) - Half
Positive(n) == IF n > 0 THEN n ELSE 0

InRoom == ToSet(order)
At(p)  == CHOOSE i \in DOMAIN order : order[i] = p

TypeOK ==
  /\ mode \in Modes
  /\ InRoom \subseteq Players /\ alive \subseteq InRoom
  /\ {on, running, timer, restarted, crashed} \subseteq BOOLEAN
  /\ cur \in InRoom \cup {None}
  /\ received \in [Players -> Int]
  /\ shown \in [Players -> 0 .. 2 * Half - 1]
  /\ {sent, delivered} \subseteq [Players -> Nat]
  /\ cleared \in 0..MaxCleared
-----------------------------------------------------------------------------
(* CommonAttacker. *)

\* start() of a stopped attacker in a room that iterates as ord; rec and shw
\* are the accounts before it.
StartStopped(ord, rec, shw) ==
  IF mode = "SEQUENTIAL" /\ Len(ord) > 1
  THEN /\ running' = TRUE /\ timer' = TRUE /\ cur' = ord[2]
       /\ received' = [rec EXCEPT ![cur'] = 0]
       /\ shown' = [shw EXCEPT ![cur'] = 0]
  ELSE /\ running' = (mode # "SEQUENTIAL") /\ timer' = running' /\ cur' = None
       /\ received' = rec /\ shown' = shw

Start(ord, rec, shw) ==
  IF running THEN UNCHANGED attackerVars /\ received' = rec /\ shown' = shw
             ELSE StartStopped(ord, rec, shw)

Stop == running' = FALSE /\ timer' = FALSE /\ cur' = None

\* attack() by p, who has cleared n lines; FALSE when it would dereference
\* something that is not there.
AttackIsSafe == running => cur \in InRoom

OwnLinesHurt(p, n) ==                       \* a mutant of Owed
  IF ~running THEN received ELSE [received EXCEPT ![cur] = @ + n]
Owed(p, n) ==
  IF ~running THEN received
  ELSE [received EXCEPT ![cur] = IF p = cur THEN @ - n ELSE @ + n]

ShownUnclamped(rec) ==                      \* a mutant of ShownOwed
  [shown EXCEPT ![cur] = Unsigned(rec[cur])]
ShownOwed(rec) == [shown EXCEPT ![cur] = Positive(Signed(rec[cur]))]
Attacked(p, n) ==
  /\ received' = Owed(p, n)
  /\ shown' = IF running /\ n > 0 THEN ShownOwed(received') ELSE shown
  /\ sent' = IF running /\ p # cur THEN [sent EXCEPT ![cur] = @ + n] ELSE sent
  /\ UNCHANGED delivered

\* nextTarget from behind cur to the end, then from the beginning: None is
\* for the end, or for a search that comes back to cur.
AfterNobody == None                         \* a mutant of After
AfterAnybody ==                             \* another
  IF Len(order) = 1 THEN None ELSE order[(At(cur) % Len(order)) + 1]
After ==
  LET search == SubSeq(order, At(cur) + 1, Len(order)) \o SubSeq(order, 1, At(cur))
      found  == {search[i] : i \in {j \in DOMAIN search :
                   search[j] \in alive /\ \A k \in 1 .. j - 1 : search[k] \notin alive}}
  IN  IF found \subseteq {cur} THEN None ELSE CHOOSE p \in found : TRUE

\* onTimeout() in the SEQUENTIAL mode: the turn of cur is over.
KeepsDebt ==                                \* a mutant of Settled
  /\ delivered' = [delivered EXCEPT ![cur] = @ + Unsigned(Positive(received[cur]))]
  /\ received' = received
Settled ==
  /\ delivered' = [delivered EXCEPT ![cur] = @ + Unsigned(Positive(received[cur]))]
  /\ received' = [received EXCEPT ![cur] = 0]

OnTimeout ==
  /\ Settled
  /\ shown' = [p \in Players |->
       IF p = After \/ (p = cur /\ received[cur] > 0) THEN 0 ELSE shown[p]]
  /\ IF After = None THEN Stop
                     ELSE cur' = After /\ UNCHANGED <<running, timer>>
  /\ UNCHANGED sent
-----------------------------------------------------------------------------
(* The calls of Game. *)

Init ==
  /\ mode \in Modes
  /\ order = <<>> /\ on = FALSE /\ alive = {}
  /\ running = FALSE /\ cur = None /\ timer = FALSE
  /\ received = [p \in Players |-> 0] /\ shown = received
  /\ sent = received /\ delivered = received
  /\ restarted = FALSE /\ cleared = 0 /\ crashed = FALSE

\* handle(GameStartIndication) with at least one player: restart() clears
\* every account.
GameStart ==
  /\ ~crashed /\ ~on /\ order # <<>>
  /\ on' = TRUE /\ alive' = InRoom
  /\ LET zero == [p \in Players |-> 0] IN
       /\ sent' = zero /\ delivered' = zero
       /\ IF Len(order) = 1
          THEN received' = zero /\ shown' = zero /\ UNCHANGED attackerVars
          ELSE Start(order, zero, zero)
  /\ restarted' = FALSE /\ cleared' = 0
  /\ UNCHANGED <<mode, order, crashed>>

\* join(); the account of a newcomer is empty.
Join(p) ==
  /\ ~crashed /\ p \in Players \ InRoom
  /\ order' \in SetToSeqs(InRoom \cup {p})
  /\ IF on THEN alive' = alive \cup {p} /\ Start(order', received, shown)
           ELSE UNCHANGED <<alive, attackerVars, received, shown>>
  /\ UNCHANGED <<mode, on, sent, delivered, history, crashed>>

\* A lock by p that clears n lines and may leave no room for the next piece.
Lock(p, n) ==
  /\ ~crashed /\ on /\ p \in alive /\ AttackIsSafe
  /\ cleared + n <= MaxCleared /\ cleared' = cleared + n
  /\ Attacked(p, n)
  /\ \/ /\ alive' = alive \ {p}
        /\ IF Cardinality(alive') <= 1
           THEN Stop /\ on' = FALSE
           ELSE UNCHANGED <<attackerVars, on>>
     \/ UNCHANGED <<alive, attackerVars, on>>
  /\ UNCHANGED <<mode, order, restarted, crashed>>

\* removePlayerAt: stop, erase with the account, and start again when two are
\* left.
Erased(f, p) == [f EXCEPT ![p] = 0]
StartWithoutStop(p) ==                      \* a mutant of StartAgain
  /\ UNCHANGED attackerVars
  /\ received' = Erased(received, p) /\ shown' = Erased(shown, p)
StartAgain(p) == StartStopped(order', Erased(received, p), Erased(shown, p))

Leave(p) ==
  /\ ~crashed /\ p \in InRoom
  /\ order' = RemoveAt(order, At(p))
  /\ alive' = alive \ {p}
  /\ on' = (on /\ (p \notin alive \/ Cardinality(alive') > 1))
  /\ IF on /\ Cardinality(alive') > 1
     THEN StartAgain(p) /\ restarted' = TRUE
     ELSE /\ Stop
          /\ received' = Erased(received, p) /\ shown' = Erased(shown, p)
          /\ UNCHANGED restarted
  /\ sent' = Erased(sent, p) /\ delivered' = Erased(delivered, p)
  /\ UNCHANGED <<mode, cleared, crashed>>

\* The attack timer fires; in any other mode it is only armed again.
Timeout ==
  /\ ~crashed /\ timer
  /\ mode = "SEQUENTIAL" /\ AttackIsSafe
  /\ OnTimeout
  /\ UNCHANGED <<roomVars, restarted, cleared, crashed>>

\* attack() follows an iterator to nowhere, if only to log its target.
Crash ==
  /\ ~crashed
  /\ on /\ alive # {} /\ ~AttackIsSafe
  /\ crashed' = TRUE
  /\ UNCHANGED <<roomVars, attackerVars, ledger, history>>

Next ==
  \/ GameStart
  \/ \E p \in Players : Join(p) \/ Leave(p)
  \/ \E p \in Players, n \in LineCounts : Lock(p, n)
  \/ Timeout
  \/ Crash

Spec == Init /\ [][Next]_vars

\* A pending timer fires.
FairSpec == Spec /\ WF_vars(Timeout)
-----------------------------------------------------------------------------
(* Properties. *)

\* No line comes from nowhere or twice: the lines inserted into a board and
\* those still waiting for it were all cleared by somebody else during one of
\* the player's turns as a target (attack and onTimeout, with the conversions
\* of receivedLines to eight bits).
NothingFromNothing ==
  \A p \in InRoom : on => delivered[p] + Positive(received[p]) <= sent[p]

\* While nobody has left the match, nobody but the target owes or is owed
\* lines, for onTimeout settles the account at the end of the turn; and the
\* client of the target is shown exactly what it will be given, as long as
\* its account fits in an int8_t.
Fits(n) == n \in -Half .. Half - 1
AccountsHonest ==
  on /\ ~restarted => \A p \in InRoom :
    IF p = cur
    THEN running /\ Fits(received[p]) => shown[p] = Positive(received[p])
    ELSE received[p] = 0

\* Whoever the turn passes to is still in the match; so is whoever start()
\* makes the target while nobody has left.  After a leave start() may begin
\* with a player that is out, for that one turn.
TurnsGoToContenders ==
  [][cur' # cur /\ running' /\ (Timeout \/ ~restarted') => cur' \in alive']_vars

\* As long as nobody leaves, everybody in a contested match is attacked in
\* turn: the round trip through an unordered map skips no one, even when a
\* newcomer changes its order.
EveryContenderTargeted ==
  \A p \in Players :
    mode = "SEQUENTIAL" /\ running /\ p \in alive
      ~> cur = p \/ p \notin alive \/ ~on \/ restarted

\* The attack modes the help of the client offers can be played.
OfferedModesWork == ~crashed
=============================================================================
