----------------------------- MODULE MCKeyboard ----------------------------
(***************************************************************************)
(* Bounds for Keyboard: lines of three characters, so that one can be      *)
(* begun by a slash or not, go on with one, and be full.  Nothing else is  *)
(* unbounded.                                                              *)
(***************************************************************************)
EXTENDS Keyboard
=============================================================================
