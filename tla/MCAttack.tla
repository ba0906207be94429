------------------------------ MODULE MCAttack -----------------------------
(***************************************************************************)
(* Bounds for Attack: three players, so that a turn has somewhere to go    *)
(* and somebody can leave a match that goes on; counters of eight values,  *)
(* so that the lines of one match go beyond what either kind holds.        *)
(***************************************************************************)
EXTENDS Attack

CONSTANTS a, b, c

MCPlayers == {a, b, c}
MCModes == {"SEQUENTIAL", "NONE"}
MCLineCounts == {0, 3}
=============================================================================
