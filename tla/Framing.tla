------------------------------ MODULE Framing ------------------------------
(***************************************************************************)
(* One connection as its two ends see it: a message is a frame of a size   *)
(* in two bytes and a payload, written with one blocking send and read in  *)
(* whatever pieces the kernel has (ConnectionSession::handleRead and its   *)
(* twin TetrisClient::onClientReadAvailable; before that, the client waits *)
(* for the answer to its login in readFdFully).                            *)
(*                                                                         *)
(* A payload is a sequence of bytes, so that payload read as a header is   *)
(* what it would be.  The kernel keeps Capacity bytes of each direction: a *)
(* send to an end that does not read blocks the whole process, which then  *)
(* does not read either.  What a message says is the matter of the other   *)
(* modules.                                                                *)
(***************************************************************************)
EXTENDS Naturals, Sequences

CONSTANTS
  Base,     \* values of a byte (256)
  Buffer,   \* size of mBuff and of the buffer a message is encoded in (512)
  Payloads, \* encoded messages
  Capacity, \* bytes the kernel keeps of each direction
  MaxSent   \* bound: messages sent by each end, the client's login included

Bytes == 0 .. Base - 1
Ends == {"client", "server"}

ASSUME FramingAssumption ==
  /\ {Base, Buffer, Capacity} \subseteq Nat /\ MaxSent \in [Ends -> Nat]
  /\ Base > 1 /\ Capacity > 0 /\ 2 < Buffer /\ Buffer < Base * Base
  /\ Payloads \subseteq Seq(Bytes)
  /\ \A m \in Payloads : Len(m) \in 1 .. Buffer - 2

Peer(e) == IF e = "client" THEN "server" ELSE "client"

VARIABLES
  status,    \* of each end: "up", "down", or "refused": it closed the
             \* connection on an invalid frame
  out,       \* the bytes its send still has to write
  wire,      \* the bytes it has written and its peer has not read
  buff,      \* mBuff up to mBuffIdx
  state,     \* mReadState: "header" or "remaining"
  expected,  \* mExpectedReadSize
  sent,      \* the messages it has sent
  delivered, \* the messages it has decoded
  cut        \* a send of it returned before its frame was written

vars == <<status, out, wire, buff, state, expected, sent, delivered, cut>>

TypeOK ==
  /\ status \in [Ends -> {"up", "down", "refused"}]
  /\ out \in [Ends -> Seq(Bytes)] /\ wire \in [Ends -> Seq(Bytes)]
  /\ buff \in [Ends -> Seq(Bytes)]
  /\ state \in [Ends -> {"header", "remaining"}]
  /\ expected \in [Ends -> 0 .. Base * Base - 1]
  /\ sent \in [Ends -> Seq(Payloads)]
  /\ delivered \in [Ends -> Seq(Seq(Bytes))]
  /\ cut \in [Ends -> BOOLEAN]

Init ==
  /\ status = [e \in Ends |-> "up"]
  /\ out = [e \in Ends |-> <<>>] /\ wire = out /\ buff = out
  /\ state = [e \in Ends |-> "header"] /\ expected = [e \in Ends |-> 0]
  /\ sent = out /\ delivered = out
  /\ cut = [e \in Ends |-> FALSE]
-----------------------------------------------------------------------------
(* Sending. *)

Frame(m) == <<Len(m) % Base, Len(m) \div Base>> \o m

\* performBlockingLogin: one request, then only its answer.
LoggingIn(e) == e = "client" /\ delivered[e] = <<>>

Up(e)   == status[e] = "up"
Idle(e) == Up(e) /\ out[e] = <<>>
Room(e) == Capacity - Len(wire[e])

\* An end sends a message: from a handler, a timer or, the client, a key.
Send(e) ==
  /\ Idle(e) /\ Len(sent[e]) < MaxSent[e]
  /\ LoggingIn(e) => sent[e] = <<>>
  /\ \E m \in Payloads :
       /\ sent' = [sent EXCEPT ![e] = Append(@, m)]
       /\ out' = [out EXCEPT ![e] = Frame(m)]
  /\ UNCHANGED <<status, wire, buff, state, expected, delivered, cut>>

\* The kernel takes as much of it as it has room for.
Write(e) ==
  /\ Up(e) /\ out[e] # <<>>
  /\ \E n \in 1 .. Len(out[e]) :
       /\ n <= Room(e)
       /\ wire' = [wire EXCEPT ![e] = @ \o SubSeq(out[e], 1, n)]
       /\ out' = [out EXCEPT ![e] = SubSeq(@, n + 1, Len(@))]
  /\ UNCHANGED <<status, buff, state, expected, sent, delivered, cut>>

\* The terminal is resized while the client's send blocks: SIGWINCH is
\* handled without SA_RESTART.  Nothing written is an error, and thrown; the
\* count of a frame written in part is not looked at.
Blocked(e) == Up(e) /\ out[e] # <<>> /\ Room(e) = 0

Interrupt ==
  /\ Blocked("client") /\ ~LoggingIn("client")
  /\ out' = [out EXCEPT !["client"] = <<>>]
  /\ IF out["client"] = Frame(sent["client"][Len(sent["client"])])
     THEN status' = [status EXCEPT !["client"] = "down"] /\ UNCHANGED cut
     ELSE cut' = [cut EXCEPT !["client"] = TRUE] /\ UNCHANGED status
  /\ UNCHANGED <<wire, buff, state, expected, sent, delivered>>
-----------------------------------------------------------------------------
(* Receiving. *)

GoalWithHeader(e) ==                         \* a mutant of Goal
  IF state[e] = "header" THEN 2 ELSE expected[e] + 2
Goal(e) == IF state[e] = "header" THEN 2 ELSE expected[e]

HeaderAnew(e) ==                             \* a mutant of ReadSize
  IF state[e] = "header" THEN 2 ELSE Goal(e) - Len(buff[e])
ReadSize(e) == Goal(e) - Len(buff[e])

ShiftedTwice(b) == b[1] + Base * Base * b[2] \* a mutant of HeaderValue
HeaderValue(b) == b[1] + Base * b[2]

\* The answer to a login goes without the first check: no sender fails it.
OnlyEmpty(size) == size = 0                  \* a mutant of Invalid
Invalid(size) == size = 0 \/ size > Buffer

Header(e, b) ==
  /\ buff' = [buff EXCEPT ![e] = <<>>]
  /\ expected' = [expected EXCEPT ![e] = HeaderValue(b)]
  /\ IF Invalid(HeaderValue(b))
     THEN status' = [status EXCEPT ![e] = "refused"] /\ UNCHANGED state
     ELSE state' = [state EXCEPT ![e] = "remaining"] /\ UNCHANGED status
  /\ UNCHANGED delivered

Payload(e, b) ==
  /\ delivered' = [delivered EXCEPT ![e] = Append(@, b)]
  /\ state' = [state EXCEPT ![e] = "header"]
  /\ buff' = [buff EXCEPT ![e] = <<>>]
  /\ UNCHANGED <<status, expected>>

\* One read of what is there, up to what is missing.
Read(e) ==
  /\ Idle(e)
  /\ LoggingIn(e) => sent[e] # <<>>
  /\ \E n \in 1 .. Len(wire[Peer(e)]) :
       /\ n <= ReadSize(e)
       /\ wire' = [wire EXCEPT ![Peer(e)] = SubSeq(@, n + 1, Len(@))]
       /\ LET b == buff[e] \o SubSeq(wire[Peer(e)], 1, n) IN
            IF Len(b) < Goal(e)
            THEN /\ buff' = [buff EXCEPT ![e] = b]
                 /\ UNCHANGED <<status, state, expected, delivered>>
            ELSE \/ state[e] = "header" /\ Header(e, b)
                 \/ state[e] = "remaining" /\ Payload(e, b)
  /\ UNCHANGED <<out, sent, cut>>

\* An end goes: it exits, dies, or is disconnected by a handler.  The other
\* sees the end of the stream, a reset ahead of what is left in it, or a
\* send that fails.
Close(e) ==
  /\ Up(e)
  /\ status' = [status EXCEPT ![e] = "down"]
  /\ out' = [out EXCEPT ![e] = <<>>]
  /\ UNCHANGED <<wire, buff, state, expected, sent, delivered, cut>>

Next == Interrupt \/ \E e \in Ends : Send(e) \/ Write(e) \/ Read(e) \/ Close(e)

Spec == Init /\ [][Next]_vars

\* The client sends its login, the kernel moves bytes, and each reactor reads
\* what is ready.
FairSpec ==
  /\ Spec /\ WF_vars(LoggingIn("client") /\ Send("client"))
  /\ \A e \in Ends : WF_vars(Write(e)) /\ WF_vars(Read(e))
-----------------------------------------------------------------------------
(* Properties. *)

\* A read always asks for something, and never for more than mBuff has room
\* for, whatever bytes are taken for a header: read(fd, buf, 0) would return
\* what the end of the stream returns (ConnectionSession.cpp:73-83).
ReadsInBounds ==
  \A e \in Ends : Up(e) => ReadSize(e) > 0 /\ Len(buff[e]) + ReadSize(e) <= Buffer

\* Each direction keeps the promise of a channel, however its frames are cut
\* into reads and however the ends' sends block: the server's until the
\* client breaks off a send, the client's always.
FromClient ==
  INSTANCE Channel WITH sent <- sent["client"], delivered <- delivered["server"],
                        whole <- ~cut["client"], refused <- status["server"] = "refused"
FromServer ==
  INSTANCE Channel WITH sent <- sent["server"], delivered <- delivered["client"],
                        whole <- ~cut["server"], refused <- status["client"] = "refused"
KeepsChannels == FromClient!Spec /\ FromServer!Spec

\* What was sent is decoded in the end, unless an end goes, a frame was
\* broken off, or both ends are stuck in a send to the other.
Gridlock == \A e \in Ends : Blocked(e)
Lost(e) == cut[Peer(e)] \/ \E d \in Ends : ~Up(d)
AllArrives ==
  \A e \in Ends : \A i \in 1..MaxSent[Peer(e)] :
    Len(sent[Peer(e)]) >= i ~> Len(delivered[e]) >= i \/ Lost(e) \/ Gridlock
=============================================================================
