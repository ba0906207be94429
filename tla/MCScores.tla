------------------------------ MODULE MCScores ------------------------------
(***************************************************************************)
(* Bounds for Scores, and with it for Match: four joins in the life of a   *)
(* room, so that a match of three can lose a player, or one whose session  *)
(* goes while it joins, gain a late one and be followed by a rematch, and  *)
(* a counter that wraps one above the number of players.                   *)
(***************************************************************************)
EXTENDS Scores

MCMaxJoins == 4
MCCountMax == 5
=============================================================================
