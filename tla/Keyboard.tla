------------------------------ MODULE Keyboard ------------------------------
(***************************************************************************)
(* What becomes of a key in the client: pressed on the console it goes     *)
(* into a line, a chat or a command; in a match it plays, unless a command *)
(* has been begun or the chat is open.  Messages of the server change      *)
(* which it is between two keys (TetrisClient::consoleIn, the key handler  *)
(* of Player, and what they do to the state of the client).                *)
(*                                                                         *)
(* Keys come in batches, read until there is none left; a room that was    *)
(* left by Ctrl-C is given up after the batch.  What lines say is left     *)
(* open but for the first character, and so is what the server answers,    *)
(* and when: Lobby has that.  Answers that end the client are left out, as *)
(* is a refused /create, which no session of the server comes to send.     *)
(***************************************************************************)
EXTENDS Naturals, Sequences

CONSTANT LineSize \* characters a line may have (127 in the code)

ASSUME LineAssumption == LineSize \in Nat \ {0}

VARIABLES
  state,   \* mState
  room,    \* whether mLobbyGameId has a value
  player,  \* mPlayer and its mGameStarted: "none", "waiting", "playing"
  gm,      \* mGm and its mStarted, likewise
  ended,   \* mMatchEndedAwaitingLobby
  handler, \* mKeyHandler: consoleIn, or one that captures mPlayer
  compose, \* mGameplayChatCompose
  line,    \* mConsoleInputBuffer up to mConsoleInputBufferIdx
  skip,    \* mConsolseWaitChar
  arrow,   \* how much of ESC [ is at the front of mKeyPressHistory
  exiting, \* mPendingLobbyExit
  batch,   \* a batch of keys is being read
  did,     \* what the last step has come to
  asked    \* history: Ctrl-C was pressed in a room, which was not left since

roomVars  == <<state, room, player, gm, ended>>
inputVars == <<handler, compose, line, skip, arrow>>
vars == <<roomVars, inputVars, exiting, batch, did, asked>>

\* What there is to tell apart: "/" begins a command, "[" and "D" end an arrow key,
\* "w" holds the piece, and every other key that plays is like it.
Printed == {"/", "[", "D", "w"}
Keys == Printed \cup {"enter", "tab", "esc", "backspace", "ctrl-c"}

TypeOK ==
  /\ state \in {"IDLE", "GM_INIT", "GM_ACTIVE", "PLAYER_INIT", "PLAYER_ACTIVE"}
  /\ {player, gm} \subseteq {"none", "waiting", "playing"}
  /\ {room, ended, compose, exiting, batch, asked} \subseteq BOOLEAN
  /\ handler \in {"console", "game"}
  /\ line \in Seq({"/", "text"}) /\ Len(line) <= LineSize
  /\ skip \in 0..2 /\ arrow \in 0..2
  /\ did \in {"nothing", "typed", "chat", "command", "played"}

Init ==
  /\ state = "IDLE" /\ room = FALSE /\ player = "none" /\ gm = "none"
  /\ ended = FALSE /\ handler = "console" /\ compose = FALSE
  /\ line = <<>> /\ skip = 0 /\ arrow = 0
  /\ exiting = FALSE /\ batch = FALSE /\ did = "nothing" /\ asked = FALSE

InRoom == state # "IDLE"
-----------------------------------------------------------------------------
(* Commands. *)

\* applyLobbyExitIfPending, when it is.
HeldOn == handler                             \* a mutant of Released
Released == "console"
LobbyExit ==
  /\ state' = "IDLE" /\ room' = FALSE /\ player' = "none" /\ gm' = "none"
  /\ ended' = FALSE /\ handler' = Released /\ compose' = FALSE
  /\ exiting' = FALSE

Create ==
  /\ state = "IDLE"
  /\ state' = "GM_INIT" /\ gm' = "waiting"
  /\ UNCHANGED <<room, player, ended, handler, compose, exiting>>

JoinRoom ==
  /\ state = "IDLE"
  /\ state' = "PLAYER_INIT" /\ room' = TRUE
  /\ UNCHANGED <<player, gm, ended, handler, compose, exiting>>

Start ==
  /\ state = "GM_ACTIVE" /\ gm = "waiting"
  /\ gm' = "playing" /\ ended' = FALSE
  /\ UNCHANGED <<state, room, player, handler, compose, exiting>>

Leave == InRoom /\ LobbyExit

\* /help, and whatever is refused.
Other == UNCHANGED <<roomVars, handler, compose, exiting>>

\* What is not a slash may be blank, and a line is trimmed before it is looked
\* at: one without a slash may come to nothing, one with a slash further on
\* may turn out to be a command.
Submit ==
  /\ line' = <<>>
  /\ LET slash == \E i \in DOMAIN line : line[i] = "/" IN
       \/ slash /\ did' = "command" /\ (Create \/ JoinRoom \/ Start \/ Leave \/ Other)
       \/ line # <<>> /\ Head(line) = "text" /\ did' = "chat" /\ Other
       \/ ~slash /\ did' = "nothing" /\ Other
-----------------------------------------------------------------------------
(* Keys. *)

Append1(k) == Append(line, IF k = "/" THEN "/" ELSE "text")

\* Ctrl-C asks to leave, except while a room is being created.
AsksInside == room /\ state = "PLAYER_ACTIVE"  \* a mutant of Asks
Asks == room /\ state # "GM_INIT"

\* A full line takes no key that goes into it, nor even Enter.
FullLater == Len(line) > LineSize             \* a mutant of Full
Full == Len(line) = LineSize

\* consoleIn.
ConsoleIn(k) ==
  /\ IF skip > 0
     THEN /\ skip' = skip - 1
          /\ did' = "nothing" /\ UNCHANGED line /\ Other
     ELSE /\ skip' = IF k = "esc" THEN 2 ELSE 0
          /\ \/ /\ k \in {"esc", "tab"}
                /\ did' = "nothing" /\ UNCHANGED line /\ Other
             \/ /\ k = "ctrl-c"
                /\ exiting' = (exiting \/ Asks) /\ did' = "nothing"
                /\ UNCHANGED <<roomVars, handler, compose, line>>
             \/ /\ k = "backspace"
                /\ line' = SubSeq(line, 1, Len(line) - 1)
                /\ did' = "nothing" /\ Other
             \/ /\ k \in Printed \cup {"enter"}
                /\ IF Full
                   THEN did' = "nothing" /\ UNCHANGED line /\ Other
                   ELSE \/ k = "enter" /\ Submit
                        \/ /\ k \in Printed /\ line' = Append1(k)
                           /\ did' = "typed" /\ Other
  /\ UNCHANGED arrow

\* The rest of keyIn: the key is one of the game.
Plays(k) == IF arrow = 2 THEN k = "D" ELSE k = "w"
Play(k) ==
  IF k = "ctrl-c"
  THEN /\ exiting' = TRUE /\ did' = "nothing"
       /\ UNCHANGED <<roomVars, inputVars>>
  ELSE /\ arrow' = (IF k = "esc" THEN 1 ELSE IF k = "[" /\ arrow = 1 THEN 2 ELSE 0)
       /\ did' = (IF player = "playing" /\ Plays(k) THEN "played" ELSE "nothing")
       /\ UNCHANGED <<roomVars, handler, compose, line, skip, exiting>>

\* tryHandleGameplayChat: before a match all keys go into the line; in it the
\* chat is opened by Enter or Tab and closed by Tab.
Opens(k) == k = "tab" \/ (k = "enter" /\ ~compose)
KeyIn(k) ==
  IF ended THEN Play(k)
  ELSE IF player = "playing" /\ Opens(k)
  THEN /\ compose' = ~compose /\ did' = "nothing"
       /\ UNCHANGED <<roomVars, handler, line, skip, arrow, exiting>>
  ELSE IF player # "playing" \/ compose THEN ConsoleIn(k) ELSE Play(k)

\* gameplayKeyRoutesToConsole: a command that has been begun is finished.
SlashOnly(k) == k = "/"                       \* a mutant of ToConsole
ToConsole(k) == k = "/" \/ (line # <<>> /\ Head(line) = "/")

\* The handler is given a key.
Key(k) ==
  /\ batch' = TRUE
  /\ IF handler = "console" \/ ToConsole(k) THEN ConsoleIn(k) ELSE KeyIn(k)
  /\ asked' = /\ state' # "IDLE"
              /\ asked \/ (k = "ctrl-c" /\ state # "GM_INIT" /\ skip = 0)

\* There are no more keys (onInputAvailable).
InputDone ==
  /\ batch /\ batch' = FALSE
  /\ did' = "nothing"
  /\ IF exiting THEN LobbyExit ELSE Other
  /\ asked' = (asked /\ state' # "IDLE")
  /\ UNCHANGED <<line, skip, arrow>>
-----------------------------------------------------------------------------
(* Messages. *)

Created ==
  /\ state = "GM_INIT" /\ state' = "GM_ACTIVE" /\ room' = TRUE
  /\ UNCHANGED <<player, gm, ended, handler, compose, exiting>>

\* The Player that comes into being takes the keys, and has seen none.
Joined ==
  /\ state = "PLAYER_INIT" /\ state' = "PLAYER_ACTIVE"
  /\ player' = "waiting" /\ handler' = "game" /\ compose' = FALSE
  /\ arrow' = 0
  /\ UNCHANGED <<room, gm, ended, exiting>>

Rejected ==
  /\ state = "PLAYER_INIT" /\ state' = "IDLE" /\ room' = FALSE
  /\ UNCHANGED <<player, gm, ended, handler, compose, exiting>>

\* GameStartNotification, which only players get.
MatchStarts ==
  /\ state = "PLAYER_ACTIVE" /\ player = "waiting"
  /\ player' = "playing" /\ ended' = FALSE
  /\ handler' = "game" /\ compose' = FALSE
  /\ UNCHANGED <<state, room, gm, exiting>>

\* GameEndNotification, also for a match that never began.
MatchEnds ==
  /\ \/ state = "PLAYER_ACTIVE" /\ player' = "waiting" /\ UNCHANGED gm
     \/ state = "GM_ACTIVE" /\ gm' = "waiting" /\ UNCHANGED player
  /\ ended' = TRUE /\ handler' = "console" /\ compose' = FALSE
  /\ UNCHANGED <<state, room, exiting>>

\* The removal of this player from the room.
RemovedFromRoom == state = "PLAYER_ACTIVE" /\ LobbyExit

Message ==
  /\ ~batch
  /\ \/ Joined
     \/ /\ Created \/ Rejected \/ MatchStarts \/ MatchEnds \/ RemovedFromRoom
        /\ UNCHANGED arrow
  /\ did' = "nothing"
  /\ UNCHANGED <<batch, line, skip, asked>>

Next == InputDone \/ Message \/ \E k \in Keys : Key(k)

Spec == Init /\ [][Next]_vars
-----------------------------------------------------------------------------
(* Properties. *)

\* The handler that captures mPlayer is the one that is called exactly while
\* there is a player whose match is on or awaited: it never outlives the
\* player, whichever command, key or message has the room given up, and the
\* console has the keys whenever the room is over (mKeyHandler, mPlayer and
\* mMatchEndedAwaitingLobby change in six places).
KeysFollowTheScreen == handler = "game" <=> player # "none" /\ ~ended

\* A Ctrl-C that is not taken for the rest of an arrow key has left the room
\* by the end of its batch, wherever in it the client is and whatever else is
\* typed; only a room that is still being created cannot be left so.
LeavesOnCtrlC == ~batch => ~asked

\* A command that has been begun is typed to its end and then carried out,
\* though a match may begin, end or close in between: until then no key
\* plays.  A line that is full is not taken any more (see README).
CommandsAreTaken ==
  [][ \A k \in Printed \cup {"enter"} :
        /\ Key(k) /\ line # <<>> /\ Head(line) = "/"
        /\ skip = 0 /\ Len(line) < LineSize
        => IF k = "enter" THEN did' = "command" /\ line' = <<>>
           ELSE did' = "typed" /\ Len(line') = Len(line) + 1 ]_vars
=============================================================================
