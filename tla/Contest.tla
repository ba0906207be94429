------------------------------ MODULE Contest ------------------------------
(***************************************************************************)
(* What a game room promises its players about a match, without timers,    *)
(* attacks, counters or messages: a match starts from the lobby with       *)
(* somebody in it, newcomers may enter a match that is on, whoever is out  *)
(* stays out, and the match is over exactly when an elimination leaves at  *)
(* most one contender.  Module Match is shown to implement this one.       *)
(***************************************************************************)
CONSTANT Ids          \* every id a player of this room can be given

VARIABLES phase,      \* "lobby", "match" or "closed"
          contenders, \* who is still in the running match
          seen        \* ids that have already been given out

contestVars == <<phase, contenders, seen>>

ContestTypeOK ==
  /\ phase \in {"lobby", "match", "closed"}
  /\ contenders \subseteq seen
  /\ seen \subseteq Ids

ContestInit ==
  /\ phase = "lobby"
  /\ contenders = {}
  /\ seen = {}

\* A newcomer waits in the lobby.
Arrive(p) ==
  /\ phase = "lobby"
  /\ p \in Ids \ seen
  /\ seen' = seen \cup {p}
  /\ UNCHANGED <<phase, contenders>>

\* A newcomer enters the running match; nobody who was seen before can.
Enter(p) ==
  /\ phase = "match"
  /\ p \in Ids \ seen
  /\ seen' = seen \cup {p}
  /\ contenders' = contenders \cup {p}
  /\ UNCHANGED phase

Begin(S) ==
  /\ phase = "lobby"
  /\ S # {} /\ S \subseteq seen
  /\ phase' = "match"
  /\ contenders' = S
  /\ UNCHANGED seen

\* A match is decided when no two players are left in it.
Decided(S) == \A x, y \in S : x = y

\* The players of T are out, by topping out or by leaving.
Drop(T) ==
  /\ phase = "match"
  /\ T # {} /\ T \subseteq contenders
  /\ IF Decided(contenders \ T)
     THEN phase' = "lobby" /\ contenders' = {}
     ELSE contenders' = contenders \ T /\ UNCHANGED phase
  /\ UNCHANGED seen

\* The room goes, and with it what it knew, or is bound by this no longer.
Close ==
  /\ phase # "closed"
  /\ phase' = "closed"
  /\ contenders' = {} /\ seen' = {}

ContestNext ==
  \/ \E p \in Ids : Arrive(p) \/ Enter(p)
  \/ \E S \in SUBSET Ids : Begin(S) \/ Drop(S)
  \/ Close

ContestSpec == ContestInit /\ [][ContestNext]_contestVars
=============================================================================
