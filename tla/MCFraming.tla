----------------------------- MODULE MCFraming -----------------------------
(***************************************************************************)
(* Bounds for Framing: bytes of three values and buffers of four, so that  *)
(* a header can say anything from nothing to twice the buffer; frames of   *)
(* three and four bytes over a kernel that keeps three, so that a send can *)
(* block before, in and after a header; payloads that make invalid headers *)
(* of either kind when they are taken for one.                             *)
(***************************************************************************)
EXTENDS Framing

MCPayloads == {<<2>>, <<0, 0>>}
MCMaxSent == [client |-> 3, server |-> 2]
=============================================================================
