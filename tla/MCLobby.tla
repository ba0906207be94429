------------------------------ MODULE MCLobby ------------------------------
(***************************************************************************)
(* Bounds for Lobby: two connections, one of which may ask for the name of *)
(* the other or for one of its own, two rooms one after the other or at    *)
(* once, and streams of two or three messages, so that a client can leave, *)
(* or join, leave and join again, before it reads an answer.               *)
(***************************************************************************)
EXTENDS Lobby

CONSTANTS c1, c2, ann, bob

MCConns == {c1, c2}
MCNames == {ann, bob}
MCNamesFor == [c \in MCConns |-> IF c = c1 THEN {ann} ELSE MCNames]
=============================================================================
