------------------------------ MODULE Channel ------------------------------
(***************************************************************************)
(* What one direction of a connection promises to the code above it: the   *)
(* messages that were sent arrive whole, once each and in order, and the   *)
(* receiver never takes one for garbage - unless the sender has broken off *)
(* in the middle of one.                                                   *)
(***************************************************************************)
EXTENDS Naturals, Sequences

VARIABLES
  sent,      \* the messages sent
  delivered, \* the messages handed to the receiver's handlers
  whole,     \* no message was broken off before a later one was sent
  refused    \* the receiver has given up on an invalid frame

vars == <<sent, delivered, whole, refused>>

Init == sent = <<>> /\ delivered = <<>> /\ whole = TRUE /\ refused = FALSE

Extends(s, t) == Len(t) = Len(s) + 1 /\ SubSeq(t, 1, Len(s)) = s

Send ==
  /\ Extends(sent, sent')
  /\ UNCHANGED <<delivered, whole, refused>>

Deliver ==
  /\ Len(delivered) < Len(sent)
  /\ delivered' = Append(delivered, sent[Len(delivered) + 1])
  /\ UNCHANGED <<sent, whole, refused>>

BreakOff ==
  /\ whole' = FALSE
  /\ UNCHANGED <<sent, delivered, refused>>

\* Only after that may anything be delivered, or the stream be refused.
Garbage ==
  /\ ~whole
  /\ Extends(delivered, delivered') \/ delivered' = delivered
  /\ UNCHANGED <<sent, whole>>

Next == Send \/ Deliver \/ BreakOff \/ Garbage

Spec == Init /\ [][Next]_vars
=============================================================================
