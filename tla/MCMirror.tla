----------------------------- MODULE MCMirror ------------------------------
(***************************************************************************)
(* Bounds for Board and Mirror: a board just wide enough for the I, which  *)
(* then clears a line of its own, and as high as two Ls that interlock to  *)
(* fill two lines.  The matches followed are those of an I and an L, one   *)
(* for each table of kicks, one of which is locked; of two Ls; and of an L *)
(* with a client that comes late.  A client that is more than one update   *)
(* behind is left out: it gives nothing back, so that what it has when it  *)
(* has caught up is the same.                                              *)
(***************************************************************************)
EXTENDS Mirror

Match(ps, n, isLate) == [pieces |-> ps, locks |-> n, late |-> isLate]
MCMatches ==
  {Match({"I", "L"}, 1, FALSE), Match({"L"}, 2, FALSE), Match({"L"}, 1, TRUE)}
MCOneLock == {Match({"I", "L"}, 1, FALSE)}
=============================================================================
