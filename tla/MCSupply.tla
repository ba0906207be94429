------------------------------ MODULE MCSupply -----------------------------
(***************************************************************************)
(* Bounds for Supply: two slots, a preview of two and answers of two       *)
(* pieces, so that one answer is not enough for the first piece and a full *)
(* preview; up to three matches, so that an answer, an end or a board of   *)
(* one can reach into a later one.                                         *)
(***************************************************************************)
EXTENDS Supply

CONSTANTS p1, p2

MCSlots == {p1, p2}
=============================================================================
