--------------------------- MODULE KeyboardProofs ---------------------------
(***************************************************************************)
(* Theorems about Keyboard, for lines of any length: its type invariant,   *)
(* that keys never go to a player that is gone, and that Ctrl-C leaves.    *)
(***************************************************************************)
EXTENDS Keyboard, SequenceTheorems, TLAPS

States   == {"IDLE", "GM_INIT", "GM_ACTIVE", "PLAYER_INIT", "PLAYER_ACTIVE"}
Phases   == {"none", "waiting", "playing"}
Outcomes == {"nothing", "typed", "chat", "command", "played"}

\* Where the client is, and what it has there: applyLobbyExitIfPending clears
\* all of it at once, and only a player has another handler than the console.
PlaceInv ==
  /\ state \in States /\ player \in Phases /\ gm \in Phases
  /\ room \in BOOLEAN /\ ended \in BOOLEAN /\ compose \in BOOLEAN
  /\ exiting \in BOOLEAN /\ handler \in {"console", "game"}
  /\ player # "none" <=> state = "PLAYER_ACTIVE"
  /\ room <=> state \notin {"IDLE", "GM_INIT"}
  /\ ended => state \in {"GM_ACTIVE", "PLAYER_ACTIVE"}
  /\ KeysFollowTheScreen

LineInv ==
  /\ line \in Seq({"/", "text"}) /\ Len(line) <= LineSize
  /\ skip \in 0..2 /\ arrow \in 0..2 /\ did \in Outcomes

\* A Ctrl-C that counts is pending, and nothing is pending between batches.
PendingInv ==
  /\ batch \in BOOLEAN /\ asked \in BOOLEAN
  /\ asked => exiting /\ state # "IDLE"
  /\ exiting => batch

IInv == PlaceInv /\ LineInv /\ PendingInv

\* The invariant says all that the properties do.
LEMMA IInvImplies ==
  ASSUME IInv
  PROVE  TypeOK /\ KeysFollowTheScreen /\ LeavesOnCtrlC
<1>1. TypeOK
  BY DEF IInv, PlaceInv, LineInv, PendingInv, TypeOK, States, Phases, Outcomes
<1> QED
  BY <1>1 DEF IInv, PlaceInv, PendingInv, LeavesOnCtrlC

\* Initially, nothing is typed and nobody is in a room.
LEMMA InitInv == Init => IInv
<1> SUFFICES ASSUME Init PROVE IInv
  OBVIOUS
<1>1. PlaceInv
  BY DEF Init, PlaceInv, States, Phases, KeysFollowTheScreen
<1>2. line \in Seq({"/", "text"}) /\ Len(line) = 0
  BY EmptySeq DEF Init
<1>3. LineInv
  BY <1>2, LineAssumption DEF Init, LineInv, Outcomes
<1> QED
  BY <1>1, <1>3 DEF Init, IInv, PendingInv
-----------------------------------------------------------------------------
(* Steps of the room. *)

\* A command, or the end of the room, leaves the place in order, and takes
\* back a pending exit only by carrying it out.
LEMMA CommandPlace ==
  ASSUME PlaceInv, Create \/ JoinRoom \/ Start \/ Leave \/ Other \/ LobbyExit
  PROVE  /\ PlaceInv'
         /\ exiting' = exiting \/ state' = "IDLE"
         /\ exiting' => exiting
<1> USE DEF PlaceInv, States, Phases, KeysFollowTheScreen
<1>1. CASE Create
  BY <1>1 DEF Create
<1>2. CASE JoinRoom
  BY <1>2 DEF JoinRoom
<1>3. CASE Start
  BY <1>3 DEF Start
<1>4. CASE Leave \/ LobbyExit
  BY <1>4 DEF Leave, LobbyExit, Released
<1>5. CASE Other
  BY <1>5 DEF Other, roomVars
<1> QED
  BY <1>1, <1>2, <1>3, <1>4, <1>5

\* A message of the server leaves the place in order, too.
LEMMA MessagePlace ==
  ASSUME PlaceInv,
         Created \/ Joined \/ Rejected \/ MatchStarts \/ MatchEnds \/ RemovedFromRoom
  PROVE  /\ PlaceInv'
         /\ exiting' => exiting
<1> USE DEF PlaceInv, States, Phases, KeysFollowTheScreen
<1>1. CASE Created
  BY <1>1 DEF Created
<1>2. CASE Joined
  BY <1>2 DEF Joined
<1>3. CASE Rejected
  BY <1>3 DEF Rejected
<1>4. CASE MatchStarts
  BY <1>4 DEF MatchStarts
<1>5. CASE MatchEnds
  BY <1>5 DEF MatchEnds
<1>6. CASE RemovedFromRoom
  BY <1>6 DEF RemovedFromRoom, LobbyExit, Released
<1> QED
  BY <1>1, <1>2, <1>3, <1>4, <1>5, <1>6
-----------------------------------------------------------------------------
(* Keys. *)

\* What a key has to keep, wherever it goes: place and line in order, and a
\* pending exit pending while the room is there.
KeyKeeps ==
  /\ PlaceInv' /\ LineInv'
  /\ exiting => exiting' \/ state' = "IDLE"

\* A backspace shortens the line, or leaves it empty.
LEMMA Shortened ==
  ASSUME NEW S, NEW s \in Seq(S)
  PROVE  /\ SubSeq(s, 1, Len(s) - 1) \in Seq(S)
         /\ Len(SubSeq(s, 1, Len(s) - 1)) <= Len(s)
<1>1. Len(s) \in Nat /\ \A i \in 1 .. Len(s) : s[i] \in S
  BY LenProperties, ElementOfSeq
<1>2. \A i \in 1 .. Len(s) - 1 : s[i] \in S
  BY <1>1
<1>3. Len(s) - 1 \in Int
  BY <1>1
<1>4. /\ SubSeq(s, 1, Len(s) - 1) \in Seq(S)
      /\ Len(SubSeq(s, 1, Len(s) - 1)) = IF 1 <= Len(s) - 1 THEN Len(s) - 1 - 1 + 1 ELSE 0
  BY <1>2, <1>3, SubSeqProperties
<1> QED
  BY <1>1, <1>4

\* Enter: the line is empty afterwards, whatever it said.
LEMMA SubmitKeeps ==
  ASSUME PlaceInv, LineInv, Submit, UNCHANGED arrow, skip' \in 0..2
  PROVE  KeyKeeps
<1>1. line' \in Seq({"/", "text"}) /\ Len(line') = 0
  BY EmptySeq DEF Submit
<1>2. did' \in Outcomes
  BY DEF Submit, Outcomes
<1>3. LineInv'
  BY <1>1, <1>2, LineAssumption DEF LineInv
<1>4. Create \/ JoinRoom \/ Start \/ Leave \/ Other
  BY DEF Submit
<1>5. PlaceInv' /\ (exiting' = exiting \/ state' = "IDLE")
  BY <1>4, CommandPlace
<1> QED
  BY <1>3, <1>5 DEF KeyKeeps, PlaceInv

\* A character that goes into a line that is not full.
LEMMA TypedKeeps ==
  ASSUME PlaceInv, LineInv, NEW k, ~Full, line' = Append1(k), did' = "typed",
         Other, UNCHANGED arrow, skip' \in 0..2
  PROVE  KeyKeeps
<1> DEFINE c == IF k = "/" THEN "/" ELSE "text"
<1>1. c \in {"/", "text"} /\ line' = Append(line, c)
  BY DEF Append1
<1>2. line' \in Seq({"/", "text"}) /\ Len(line') = Len(line) + 1
  BY <1>1, AppendProperties DEF LineInv
<1>3. Len(line) \in Nat /\ Len(line) <= LineSize /\ Len(line) # LineSize
  BY LenProperties DEF LineInv, Full
<1>4. LineInv'
  BY <1>2, <1>3, LineAssumption DEF LineInv, Outcomes
<1>5. PlaceInv' /\ (exiting' = exiting \/ state' = "IDLE")
  BY CommandPlace
<1> QED
  BY <1>4, <1>5 DEF KeyKeeps, PlaceInv

\* A key that changes neither the line nor the place.
LEMMA NothingKeeps ==
  ASSUME PlaceInv, LineInv, UNCHANGED <<line, arrow>>, did' = "nothing",
         Other, skip' \in 0..2
  PROVE  KeyKeeps
<1>1. LineInv'
  BY DEF LineInv, Outcomes
<1>2. PlaceInv' /\ (exiting' = exiting \/ state' = "IDLE")
  BY CommandPlace
<1> QED
  BY <1>1, <1>2 DEF KeyKeeps, PlaceInv

\* Every key of the console; and a Ctrl-C of a client that is in a room which
\* is not being created is noted there.
LEMMA ConsoleKeeps ==
  ASSUME PlaceInv, LineInv, NEW k \in Keys, ConsoleIn(k)
  PROVE  /\ KeyKeeps
         /\ k = "ctrl-c" /\ skip = 0 /\ state' # "IDLE" /\ state # "GM_INIT" => exiting'
<1>1. CASE skip > 0
  <2>1. /\ skip' = skip - 1 /\ did' = "nothing" /\ Other
        /\ UNCHANGED <<line, arrow>>
    BY <1>1 DEF ConsoleIn
  <2>2. skip' \in 0..2
    BY <1>1, <2>1 DEF LineInv
  <2> QED
    BY <1>1, <2>1, <2>2, NothingKeeps
<1>2. CASE ~(skip > 0)
  <2>1. UNCHANGED arrow /\ skip' \in 0..2
    BY <1>2 DEF ConsoleIn
  <2>2. CASE k \in {"esc", "tab"}
    <3>1. did' = "nothing" /\ UNCHANGED line /\ Other
      BY <1>2, <2>2 DEF ConsoleIn, Printed
    <3> QED
      BY <2>1, <2>2, <3>1, NothingKeeps
  <2>3. CASE k = "ctrl-c"
    <3>1. /\ exiting' = (exiting \/ Asks) /\ did' = "nothing"
          /\ UNCHANGED <<roomVars, handler, compose, line>>
      BY <1>2, <2>3 DEF ConsoleIn, Printed
    <3>2. PlaceInv'
      BY <3>1 DEF PlaceInv, KeysFollowTheScreen, roomVars, Asks
    <3>3. LineInv'
      BY <2>1, <3>1 DEF LineInv, Outcomes
    <3>4. state' # "IDLE" /\ state # "GM_INIT" => exiting'
      BY <3>1 DEF PlaceInv, roomVars, Asks
    <3>5. exiting => exiting'
      BY <3>1
    <3> QED
      BY <3>2, <3>3, <3>4, <3>5 DEF KeyKeeps
  <2>4. CASE k = "backspace"
    <3>1. line' = SubSeq(line, 1, Len(line) - 1) /\ did' = "nothing" /\ Other
      BY <1>2, <2>4 DEF ConsoleIn, Printed
    <3>2. line' \in Seq({"/", "text"}) /\ Len(line') <= Len(line)
      BY <3>1, Shortened DEF LineInv
    <3>3. Len(line') \in Nat /\ Len(line) \in Nat
      BY <3>2, LenProperties DEF LineInv
    <3>4. LineInv'
      BY <2>1, <3>1, <3>2, <3>3, LineAssumption DEF LineInv, Outcomes
    <3>5. PlaceInv' /\ (exiting' = exiting \/ state' = "IDLE")
      BY <3>1, CommandPlace
    <3> QED
      BY <2>4, <3>4, <3>5 DEF KeyKeeps, PlaceInv
  <2>5. CASE k \in Printed \cup {"enter"}
    <3>1. k # "ctrl-c"
      BY <2>5 DEF Printed
    <3>2. CASE Full
      <4>1. did' = "nothing" /\ UNCHANGED line /\ Other
        BY <1>2, <2>5, <3>2 DEF ConsoleIn, Printed
      <4> QED
        BY <2>1, <3>1, <4>1, NothingKeeps
    <3>3. CASE ~Full
      <4>1. \/ Submit
            \/ line' = Append1(k) /\ did' = "typed" /\ Other
        BY <1>2, <2>5, <3>3 DEF ConsoleIn, Printed
      <4> QED
        BY <2>1, <3>1, <3>3, <4>1, SubmitKeeps, TypedKeeps
    <3> QED
      BY <3>2, <3>3
  <2> QED
    BY <2>2, <2>3, <2>4, <2>5 DEF Keys
<1> QED
  BY <1>1, <1>2 DEF LineInv

\* Every key of the game.
LEMMA PlayKeeps ==
  ASSUME PlaceInv, LineInv, NEW k \in Keys, Play(k)
  PROVE  /\ KeyKeeps
         /\ k = "ctrl-c" => exiting'
<1>1. CASE k = "ctrl-c"
  <2>1. /\ exiting' = TRUE /\ did' = "nothing"
        /\ UNCHANGED <<roomVars, inputVars>>
    BY <1>1 DEF Play
  <2>2. PlaceInv' /\ LineInv'
    BY <2>1 DEF PlaceInv, LineInv, KeysFollowTheScreen, roomVars, inputVars, Outcomes
  <2> QED
    BY <2>1, <2>2 DEF KeyKeeps
<1>2. CASE k # "ctrl-c"
  <2>1. /\ arrow' \in 0..2 /\ did' \in Outcomes
        /\ UNCHANGED <<roomVars, handler, compose, line, skip, exiting>>
    BY <1>2 DEF Play, Outcomes
  <2>2. PlaceInv' /\ LineInv'
    BY <2>1 DEF PlaceInv, LineInv, KeysFollowTheScreen, roomVars
  <2> QED
    BY <1>2, <2>1, <2>2 DEF KeyKeeps
<1> QED
  BY <1>1, <1>2

\* Every key, wherever it is routed.
LEMMA RoutedKeeps ==
  ASSUME PlaceInv, LineInv, NEW k \in Keys, ConsoleIn(k) \/ KeyIn(k)
  PROVE  /\ KeyKeeps
         /\ k = "ctrl-c" /\ skip = 0 /\ state' # "IDLE" /\ state # "GM_INIT" => exiting'
<1>1. CASE ConsoleIn(k)
  BY <1>1, ConsoleKeeps
<1>2. CASE Play(k)
  BY <1>2, PlayKeeps
<1>3. CASE /\ Opens(k)
           /\ compose' = ~compose /\ did' = "nothing"
           /\ UNCHANGED <<roomVars, handler, line, skip, arrow, exiting>>
  <2>1. PlaceInv' /\ LineInv'
    BY <1>3 DEF PlaceInv, LineInv, KeysFollowTheScreen, roomVars, Outcomes
  <2>2. k # "ctrl-c"
    BY <1>3 DEF Opens
  <2> QED
    BY <1>3, <2>1, <2>2 DEF KeyKeeps
<1> QED
  BY <1>1, <1>2, <1>3 DEF KeyIn
-----------------------------------------------------------------------------
(* The theorems. *)

\* Every step preserves the invariant.
LEMMA NextInv ==
  ASSUME IInv, [Next]_vars
  PROVE  IInv'
<1>1. ASSUME NEW k \in Keys, Key(k)
      PROVE  IInv'
  <2>1. /\ KeyKeeps
        /\ k = "ctrl-c" /\ skip = 0 /\ state' # "IDLE" /\ state # "GM_INIT" => exiting'
    BY <1>1, RoutedKeeps DEF Key, IInv
  <2>2. /\ batch' = TRUE
        /\ asked' = (/\ state' # "IDLE"
                     /\ asked \/ (k = "ctrl-c" /\ state # "GM_INIT" /\ skip = 0))
    BY <1>1 DEF Key
  <2>3. PendingInv'
    BY <2>1, <2>2 DEF PendingInv, IInv, KeyKeeps
  <2> QED
    BY <2>1, <2>3 DEF IInv, KeyKeeps
<1>2. ASSUME InputDone
      PROVE  IInv'
  <2>1. LobbyExit \/ (Other /\ ~exiting)
    BY <1>2 DEF InputDone
  <2>2. PlaceInv' /\ (exiting' => exiting)
    BY <2>1, CommandPlace DEF IInv
  <2>3. LineInv'
    BY <1>2 DEF InputDone, IInv, LineInv, Outcomes
  <2>4. ~exiting'
    BY <2>1, <2>2 DEF LobbyExit
  <2>5. asked' = (asked /\ state' # "IDLE") /\ batch' = FALSE
    BY <1>2 DEF InputDone
  <2>6. ~asked'
    <3>1. CASE LobbyExit
      BY <2>5, <3>1 DEF LobbyExit
    <3>2. CASE ~exiting
      BY <2>5, <3>2 DEF IInv, PendingInv
    <3> QED
      BY <2>1, <3>1, <3>2
  <2> QED
    BY <2>2, <2>3, <2>4, <2>5, <2>6 DEF IInv, PendingInv
<1>3. ASSUME Message
      PROVE  IInv'
  <2>1. /\ ~batch /\ did' = "nothing" /\ UNCHANGED <<batch, line, skip, asked>>
        /\ arrow' \in {0, arrow}
    BY <1>3 DEF Message, Joined
  <2>2. PlaceInv' /\ (exiting' => exiting)
    BY <1>3, MessagePlace DEF Message, IInv
  <2>3. LineInv'
    BY <2>1 DEF IInv, LineInv, Outcomes
  <2>4. PendingInv'
    BY <2>1, <2>2 DEF IInv, PendingInv
  <2> QED
    BY <2>2, <2>3, <2>4 DEF IInv
<1>4. CASE UNCHANGED vars
  <2>1. PlaceInv' /\ PendingInv'
    BY <1>4 DEF IInv, PlaceInv, PendingInv, KeysFollowTheScreen, vars, roomVars, inputVars
  <2>2. LineInv'
    BY <1>4 DEF IInv, LineInv, vars, inputVars
  <2> QED
    BY <2>1, <2>2 DEF IInv
<1> QED
  BY <1>1, <1>2, <1>3, <1>4 DEF Next

\* What holds of the client's place, its line and its batch holds always.
THEOREM Inductive == Spec => []IInv
<1>1. IInv /\ [Next]_vars => IInv'
  BY NextInv
<1> QED
  BY InitInv, <1>1, PTL DEF Spec

\* Every variable of the client keeps its type, and a line never outgrows its
\* buffer (consoleIn and its checks of mConsoleInputBufferIdx).
THEOREM LineFits == Spec => []TypeOK
<1>1. IInv => TypeOK
  BY IInvImplies
<1> QED
  BY Inductive, <1>1, PTL

\* The handler that captures the player is called exactly while there is one
\* whose match is on or awaited.
THEOREM HandlerCorrect == Spec => []KeysFollowTheScreen
<1>1. IInv => KeysFollowTheScreen
  BY IInvImplies
<1> QED
  BY Inductive, <1>1, PTL

\* A Ctrl-C that counts has left the room by the end of its batch.
THEOREM CtrlCCorrect == Spec => []LeavesOnCtrlC
<1>1. IInv => LeavesOnCtrlC
  BY IInvImplies
<1> QED
  BY Inductive, <1>1, PTL

\* What the console makes of a key while a command is on the line.
LEMMA CommandGoesOn ==
  ASSUME LineInv, NEW k \in Printed \cup {"enter"}, ConsoleIn(k),
         line # <<>>, Head(line) = "/", skip = 0, Len(line) < LineSize
  PROVE  IF k = "enter" THEN did' = "command" /\ line' = <<>>
         ELSE did' = "typed" /\ Len(line') = Len(line) + 1
<1>1. ~Full
  BY LenProperties, LineAssumption DEF Full, LineInv
<1>2. \/ k = "enter" /\ Submit
      \/ k \in Printed /\ line' = Append1(k) /\ did' = "typed"
  BY <1>1 DEF ConsoleIn, Printed
<1>3. CASE k = "enter" /\ Submit
  <2>1. 1 \in DOMAIN line /\ line[1] = "/"
    BY LenProperties, EmptySeq, HeadTailProperties DEF LineInv
  <2>2. \E i \in DOMAIN line : line[i] = "/"
    BY <2>1
  <2> QED
    BY <1>3, <2>2 DEF Submit
<1>4. CASE k \in Printed /\ line' = Append1(k) /\ did' = "typed"
  <2> DEFINE c == IF k = "/" THEN "/" ELSE "text"
  <2>1. c \in {"/", "text"} /\ line' = Append(line, c)
    BY <1>4 DEF Append1
  <2>2. Len(line') = Len(line) + 1
    BY <2>1, AppendProperties DEF LineInv
  <2>3. k # "enter"
    BY <1>4 DEF Printed
  <2> QED
    BY <1>4, <2>2, <2>3
<1> QED
  BY <1>2, <1>3, <1>4

\* A command that has been begun is typed to its end and carried out, whatever
\* becomes of the match in between.
THEOREM CommandsCorrect == Spec => CommandsAreTaken
<1> DEFINE Taken ==
      \A k \in Printed \cup {"enter"} :
        /\ Key(k) /\ line # <<>> /\ Head(line) = "/"
        /\ skip = 0 /\ Len(line) < LineSize
        => IF k = "enter" THEN did' = "command" /\ line' = <<>>
           ELSE did' = "typed" /\ Len(line') = Len(line) + 1
<1>1. IInv => Taken
  <2> SUFFICES ASSUME IInv, NEW k \in Printed \cup {"enter"}, Key(k),
                      line # <<>>, Head(line) = "/", skip = 0, Len(line) < LineSize
               PROVE  IF k = "enter" THEN did' = "command" /\ line' = <<>>
                      ELSE did' = "typed" /\ Len(line') = Len(line) + 1
    OBVIOUS
  <2>1. ConsoleIn(k)
    BY DEF Key, ToConsole
  <2> QED
    BY <2>1, CommandGoesOn DEF IInv
<1>2. IInv => [Taken]_vars
  BY <1>1
<1>3. CommandsAreTaken <=> [][Taken]_vars
  BY DEF CommandsAreTaken
<1> QED
  BY Inductive, <1>2, <1>3, PTL
=============================================================================
