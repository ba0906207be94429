# TetrisSimulator in TLA+

TLA+ modules for the multiplayer Tetris server and client of this repository: what the
programs do, TLC configurations that check it on small instances, and proofs for every
size of the constants where they are in reach. The repository's code is the reference;
line numbers in `PROJECT.json` point into it.

Run everything in this directory: `tlc -config MCScores.cfg MCScores.tla`, `tlapm
MatchProofs.tla`.

## The system

One server process coordinates game rooms. A client process logs in and is then either
the **game master** (GM) of a room, who starts matches and deals the pieces, or a
**player** of one. Client and server exchange length-prefixed messages
(`interface/protocol.cum`) over one TCP connection per client.

| component | state | operations |
| --- | --- | --- |
| `Game` (server): a room and its match | `mGameStarted`, `mPlayingCount`, `mPlayersIdCtr`, `mPlayers` with a `PlayerContext` each, `mTerminoCache`, `mTerminoRequested`, `mGmSession` | join, GameStartIndication, PlayerActionIndication, PieceResponse, lock timer, board callbacks (generate, piece placed, lines cleared, game over), leave or loss of a player, loss of the GM |
| `CommonAttacker` (server): who is attacked | `mRunning`, `mCurrentTarget` (an iterator into `mPlayers`), `mTimerId`; `receivedLines` of every player | start, stop, attack, nextTarget, timer |
| `StandardTetrisBoard` (both) | cells, current piece and its functions, preview, hold | events: TerminoAvailable, moves, rotations, Hold, Lock, Attack, reset |
| `TetrisSimulator` (server): registries | `mUsernameToConnection`, `mFdToConnection`, `mConnections`, `mGames`, `mGameIdCtr` | accept, claimUsername, createGame, findGame, destroyGame, onDisconnect, chat broadcast, game timers |
| `ConnectionSession` (server) | `mGame`, `mSessionMode`, `mClientDisplayName`, `mBuff`, `mReadState`, `mExpectedReadSize` | handleRead (framing), send, login, chat, create, join, leave; everything else goes to `mGame` |
| `TetrisClient` (client) | `mState`, `mLobbyGameId`, `mGm`, `mPlayer`; read buffer; `mKeyHandler`, input line, `mGameplayChatCompose`, `mPendingLobbyExit` | blocking login, reads and sends, console and commands, one handler per message of the server |
| `GameMaster` (client) | `mStarted`, generator | start, PieceRequest, GameEndNotification |
| `Player` (client) | a mirror of each board, who is dead, the sequence of game-overs, the last keys | BoardUpdateNotification, the phase notifications, keyIn |
| `NcursesUi` (client) | terminal | pumpStdinKeys (batches of keys), SIGWINCH; drawing |
| codec, logging, programs | generated code, presentation | — |

**How they interact.** The server is one epoll reactor on one thread: sockets becoming
readable and timers expiring are dispatched one after the other, and a handler runs to
completion. Within a handler, `Game`, the boards and the attacker call each other back
(a lock in a board calls `onBcbLineClear`, which attacks; `onBcbGameover`, which may
conclude the match, stop the attacker and cancel timers). Between processes there are
only the two streams of each connection, which lose nothing and keep the order, but
delay at will: the GM's idea of whether a match is on, and a client's idea of which room
it is in, lag behind the server's.

**What is hard.** No data races, but: any order of messages of different clients, timers
and disconnections; answers that name no request, crossing requests that are already
obsolete; counters and flags kept by hand over several handlers (`mPlayingCount`,
`mTerminoRequested`); iterators and captured references that outlive a handler
(`mCurrentTarget`, timer callbacks, the key handler); sends that block the one thread,
fail, or are broken off by a signal; frames cut anywhere; a line of input under which a
match begins; per-match state in slots that live on between matches (`internalMode`,
`lockTimerId`, `mHold`); narrow integers (`uint8_t` ids and line counts). `PROJECT.json`
lists each of these at its line, under `hazards`, with the properties that would catch
it going wrong.

## What makes each part correct

* **Room:** the counter that ends matches agrees with the players; every contender and
  nobody else has a lock timer; attacks run exactly while two are left; clients were
  told the phase the room is in, and the winner last; nobody who is out comes back.
* **Attacker:** lines come from somebody else and are delivered once; the target is
  shown what it will get; turns go round all contenders.
* **Piece supply:** at most one request is under way and none is lost; a short player is
  always served by it; neither side gets stuck in another match.
* **Registries and sessions:** names and rooms are held by exactly the sessions that
  hold them, whatever clients do or however they die; a client that waits for its
  answers gets them and knows where it is.
* **Board:** a piece is inside the board and, until lines come in under it, on free
  ground; no full line is left; no cell is lost or counted twice.
* **Client's copy:** what a client shows, rows, current piece, queue and ghost, is what
  the server has once every update is read; so is who is in the room, who is out, and
  who has won.
* **Connection:** messages arrive whole, once and in order, however they are cut, and do
  arrive unless both ends block; no read goes outside its buffer.
* **Keyboard:** a key goes where the screen says; a command once begun is carried out;
  Ctrl-C leaves.

## Modules

| module | models |
| --- | --- |
| `Match` | one `Game`: phase, players, counter, lock timers, the attacker's life cycle, what clients are told |
| `Contest` | abstract: what a room promises about a match, without timers, counters, attacks or messages |
| `MatchProofs` | the inductive invariant of `Match`, the theorems that follow, and the proof that `Match` implements `Contest` |
| `Scores` | `Match` with what the `Player` of every client keeps: who is in the room, who is out, the winner |
| `ScoresProofs` | the proof that the room of `Scores` is that of `Match`, and that what its clients show of a match is right |
| `Attack` | `CommonAttacker` with its accounts of lines, called by a `Game` |
| `AttackProofs` | its invariant and the theorems that follow |
| `Supply` | the piece cache of a `Game`, the boards' previews, hold and current piece, and the client's `GameMaster`, over two streams |
| `SupplyProofs` | its invariant and the theorems that follow |
| `Lobby` | `TetrisSimulator` and `ConnectionSession` against `TetrisClient::mState`, over two streams per connection |
| `LobbyProofs` | its invariant and the theorems that follow |
| `Framing` | one connection: frames, blocking sends, reads of any size (`handleRead`, `send` and their twins in the client) |
| `Channel` | abstract: what one direction of a connection promises |
| `FramingProofs` | the invariant of `Framing`, and the proof that both directions implement `Channel` |
| `Keyboard` | where keys go in the client: console, chat, commands, the match, Ctrl-C |
| `KeyboardProofs` | its invariant and the theorems that follow |
| `Terminoes` | the seven pieces, their rotations and wall kicks |
| `Board` | `StandardTetrisBoard` with its bitmap during one match, and the updates it gives rise to |
| `Mirror` | a client's copy of a board (`Player`), fed with these updates; extends `Board` |
| `MirrorProofs` | the invariants of `Board` and `Mirror` and the theorems that follow |
| `MC*` | the instances TLC checks |

`PROJECT.json` maps every definition to its lines. Variables are the members of the
classes, under short names explained where they are declared.

### Match

An action is one dispatch of the reactor: `Join`, `GameStart` (`GameStartEmpty` for a
room without players), `PlayerActionTopsOut`, `PieceResponse`, `LockingTimeout`,
`AttackTimeout`, `RemovePlayer`, `GmGone`. Each contains everything the handler calls:
`TopOut` is `onBcbGameover` for the boards of a set of players in one dispatch with the
conclusion of the match, `Conclude` is `concludeMatchIfOneOrNoPlayersLeft`. A
PlayerActionIndication that tops nobody out changes nothing the module has, so only the
other outcome is an action; whether a locked piece leaves room for the next is up to the
board and left open.

`vacant` are the slots of `mPlayers` whose session has gone while it joined (`JoinLost`
in `Lobby`): nobody is left to take them out, and they stay as long as the room. In a
match that is on, such a slot is a player like any other, with a lock timer, a turn as
the target, and a share in the counter, until its board fills up. The next start passes
over it (`Live`, from the guard of `beginPlaying`): it is not counted, not restarted and
not told, and a room with only such slots starts no match (`GameStartEmpty`). That does
no harm to a slot that is out. One that has **won** the match before is still in PLAYING,
and the match that starts has a contender that was not counted: from there on counter
and players disagree, a lock timer may be left pending after the end, and the last
GameOver may name the one that did not play. `skewed` is history and says that a start
has passed over such a slot. Nothing in the repository speaks of it but the comment at
`Player.hpp:250`, which takes the last GameOver for the winner's; so the properties of
`Match` and `Scores` hold up to such a start, except for `AttackTargetInRoom` and who is
in the room, which hold throughout.

Kept as in the code: `mPlayingCount` starts with any value (it has no initialiser) and
is an unsigned that wraps at `CountMax`; `restart()` resets a slot without cancelling
the timer behind it, so a timer that was still pending would become an orphan; the
winner of a match keeps `internalMode` PLAYING in the lobby; the first target of the
attacker is any player, as the second of an unordered map; ids are never given out
twice, which the `uint8_t` of the code ensures up to 256 joins (`MaxJoinsAssumption`).

### Scores

Composes `Match` with a `view` for each client of the room: `Started`, `Over`, `Ended`,
`Added` and `Removed` are the handlers of `Player`, and `ShowJoin`, `ShowOut`, ... what
a step of the room sends, in the order it is sent, so that a client has handled it
before the next step: streams keep the order (`Channel`), and a client that lags gets to
the same states later. `lastOver` in `Match` is the last GameOver sent, which decides
who is shown as the winner. `missed` is history: a client that joins a running match is
told nothing of those already out. A winner whose last opponent leaves it alone in the
room is shown dead to itself (`Player.hpp:263` wants more than one player, against the
comment at 250), and `ClientsShowTheWinner` excludes just that, and skewed rooms. A slot
without a session has no client; the others show it like any other player.

### Attack

Follows `receivedLines` of every player through `attack()`, `onTimeout()` and `start()`,
with its conversions to `int8_t` (what is shown) and `uint8_t` (what is delivered) for
counters of 2 * `Half` values (`Half` is 128 in the code). `order` is the order in which the unordered map iterates, and a join may
change it. `sent`, `delivered`, `restarted` and `cleared` are history: they record what
the properties compare. `restarted` says that somebody has left the running match, after
which `removePlayerAt` starts the attacker anew, with the second player of the map as
the target, and the code settles nothing: accounts survive unshown, and the target may
be somebody who is out for one turn. Nothing in the repository promises otherwise, so
`AccountsHonest` and `EveryContenderTargeted` say what holds up to there,
`TurnsGoToContenders` that every turn passed on after it goes to a contender again, and
`NothingFromNothing` holds throughout.

### Supply

A piece is its position in the cache, so a board is the number it has taken, the length
of its preview, whether its current piece is live, and what is held. `NextPiece`,
`Placed`, `Refilled` and `OnHold` are `nextPiece`, `requestPiece` and the handler of
Hold; an outcome says whether the board ran into the end of the cache, and whether it
topped out. The game master's `mStarted` follows the GameStart it sends and the GameEnds
it reads. A board whose functions were never set (`wired` is false), or whose held piece
is the value NONE, makes the server call an empty function: `crashed`.

### Lobby

A connection is a client process and the session that serves it. The client side has the
states of `mState` and the room in `mLobbyGameId`; a handler that throws ends it. The
server side has the two maps of names, `mGame` and `mSessionMode` of each session, and
GM and members of each room. A client may exit at any time, having sent its leave or
not; the server sees the end of the stream, or its reset ahead of what is left to read,
and a connection is used again once both ends are closed. Chat is broadcast to
connections that have not logged in yet; a client that waits for the answer to its login
takes the first message for it, and exits unless it is an OK (`Refused`).

A send that **fails** calls `onDisconnect` from inside the sending handler. Where the
send is the last thing the handler does, this comes to the end of the stream being seen
in the next step. In the loops over players and connections it erases the element the
loop stands on, which is undefined: where the build goes on, the same holds, and where
the server ends, all is lost together. Two failures of a join are neither, because
`mGame` is set only after it. In `JoinClosed` the PlayerUpdate to a game master that is
gone closes the room inside the join, which then sets `mGame` all the same. Such a
joiner is `caught`: it believes to be in a room that no longer exists, `/leave` has no
effect on the server, and its later requests are dropped without an answer until it
reconnects. In `JoinLost` the JoinAccept, or the GameStart behind it, cannot be sent to
the joiner itself: `onDisconnect` takes the session out of the registries but finds no
game to take it out of, and its slot stays in the room, which is then in `vacant`. What
becomes of the slot is in `Match`.

`hasty` and `caught` are history: clients that have left a room before they were
answered (see the findings), and those joiners. `KnowsItsRoom` and `AlwaysAnswered` are
about all others. `RoomsExact` has two exceptions: a caught joiner refers to a room that
is closed, and a vacant slot, which no session refers to, lasts as long as its room and
no longer.

### Framing

A payload is a sequence of bytes of `Base` values, so that one taken for a header is
what it would be. `Send` encodes a message, `Write` is the kernel taking a part of it,
`Read` one call of `handleRead` with whatever part of what is there; `Idle` says that an
end in a send does nothing else. Before its answer the client is in
`performBlockingLogin`, which reads the same frames in a loop. `Interrupt` is a resize
of the terminal during a send that blocks: `NcursesUi` installs SIGWINCH without
SA_RESTART, so `send` returns what was written so far, and `TetrisClient::send` looks
only for -1. Then the server takes the next frame for the rest of this one, and what it
decodes or refuses is open: `whole` in `Channel` is false. An end may close at any time.
A message that would not fit in the 510 bytes of the buffer is left out: what the codec
then does is not in this repository.

### Keyboard

A key is one of the few that can be told apart; the line holds slashes and other
characters, its length is `LineSize`. Keys come in batches (`pumpStdinKeys` reads until
there are none), a Ctrl-C is noted in `exiting` and carried out at the end of its batch
(`InputDone`), and messages come between batches. `did` is what the last step has come
to; `asked` is history: Ctrl-C was pressed in a room. Answers are as open as `Lobby`
makes them, without those that end the client, and without the refusal of a /create,
which the server has no way to send: a session with a game hands the request to it.

What the model shows of the code and no document speaks of: text left on the line when a
match begins, or when Tab closes the chat, makes a `/leave` typed in the match go to the
line only in part, while the rest plays (the help at `TetrisClient.hpp:700` says "at any
time"); a full line refuses Enter until a character is erased (`TetrisClient.hpp:997`
comes before 1003), which `CommandsAreTaken` excludes; ESC swallows the next two keys,
Ctrl-C included; and Ctrl-C does nothing while a room is being created.

### Board and Mirror

A row is the set of its occupied columns; a board is a sequence of rows, the lowest
first. Each event is an action that contains its whole handler: `LockAt` is `lock()`
with the clear and the next piece, `NextPiece` and `Enter` are `nextPiece()`, and every
commit appends an update to `stream`. `generate()` may yield any piece or none
(`Dealt`): which it is belongs to `Supply`, and so do events that find no current piece.
Held pieces survive a reset, so a board starts with any. An attack's lines that come
back to the board that cleared them commit what `lock()` has reported so far; whether
that happens is left open (the two disjuncts of `LockAt`).

`match` is chosen at the start among `Matches`: the pieces dealt, the number of locks
followed, and whether the client that is watched comes late. `use` is history: the
current piece is `"fresh"`; lines were `"pushed"` in under it; or it is `"spent"`,
locked or held with no other to follow. The code keeps a spent piece current and
playable, and the properties say what is still true of it. `exact` records that neither
has touched the cells so far.

A client applies an update in the order of `handle(BoardUpdateNotification)`: hold,
queue, placement, rotation, position and ghost, and only then the lines. One that comes
late starts empty; a position for a piece it never saw makes it call a null function,
which ends it (`dead`). The rows of a piece's box that stick out of the top after a kick
are left out of the updates: the code reads and writes them outside of the bitmap.

### Shared abstractions

* Timers: `bfc`'s timer service is external. A timer fires once, at any time after it
  was set; one that was cancelled does not fire. The reactor runs both on one thread, so
  a callback cannot be between expiry and its cancellation.
* What a failing send does is in `Lobby` (above). `Framing` shows that whole messages
  arrive in order, and the other modules take streams of messages from there; a send
  that blocks is in `Framing` only.
* Messages carry what the properties tell apart; texts are left out, and board contents
  outside of `Mirror`.
* `Match` has the attack mode SEQUENTIAL, the only one that works (`attack_modes`).

## What TLC checks

| run | question | states | bounds |
| --- | --- | --- | --- |
| `match` | safety of a room, what clients show; implements `Contest` | 32 388 | 4 joins, counter to 5 |
| `supply` | the piece supply, safety and progress | 47 946 | 2 players, preview 2, answers of 2, 4 pieces, 3 matches, 2 leaves |
| `attack` | accounts of lines, turns | 88 540 | 3 players, 3-bit counters, 9 lines |
| `lobby` | registries, sessions, clients | 438 546 | 2 clients, 2 names, 2 rooms, 2 messages under way |
| `mirror` | board and copy, every event | 566 470 | 4 x 4 board, preview 1, 1 inserted line, 1 update under way; I and L with 1 lock, L with 2, L with a late client |
| `framing` | a connection; both directions implement `Channel` | 141 404 | bytes of 3 values, buffers of 4, 3 bytes in the kernel, 3 and 2 messages |
| `keyboard` | where keys go | 4 703 | lines of 3 characters |
| `supply_empty_answers`, `supply_moves_before_blocks`, `attack_modes`, `lobby_late_messages`, `board_soft_drop` | one statement of the repository each, refuted (below) | | |

**Why the bounds are enough for what they show.** `match`: four joins make a match of
three in which one tops out, one leaves and a late one joins, followed by a rematch; any
of the four may be of a session that goes while it joins, so that a rematch passes over
one that is out and one that has won; the counter wraps one above four. `supply`: an answer of two is less than a first piece plus
a full preview, so players run dry and share a request; a third match is needed for an
end announced late in the first to meet the second start. `attack`: three players are
the fewest among whom a turn can pass over somebody; nine lines in threes carry an
account beyond the signed and the unsigned range of three bits.

`lobby`: two connections contend for one name and one room, one of them may be the
other's predecessor, and two messages let a request cross a leave; the refuting run uses
three, for a leave and a new request behind an unanswered one. One client asks only for
the name the other may have too; a chat is sent while somebody logs in, for anybody else
only shows it.

`mirror`: on four columns an I clears a line by itself, with a line of an attack below
it an upright I in the hole clears another, and L and I use the two tables of kicks; an
attack under a piece that stands on the floor makes them overlap. Four rows are so few
that kicks reach over the top, the case in which cells could be lost. Two of L lie one
upon the other, or interlock and fill two lines at once. One update under way (two when
a lock commits twice) is enough because clients give nothing back: one that lags has the
same copy once it has caught up. The code's preview is 5: longer lists change nothing in
how the two ends pop them. The number of locks ends the match that is followed, with
moves still enabled, so there is no deadlock.

`framing`: three values of a byte and a buffer of four let a header say nothing, more
than the buffer, or anything between; the payloads make both kinds of invalid header
when taken for one; frames of three and four bytes over a kernel that keeps three make a
send block before, in and after a header; three messages of the client are a login, one
broken off, and one behind it.

`keyboard`: a line of three can begin with a slash or not, go on with one, and be full;
nothing else is unbounded.

`CHECK_DEADLOCK FALSE` stands in the configurations whose model really ends: a closed
room (`match`), every allowed match played or the server gone (`supply`), a lonely
player or the bound on lines (`attack`), both ends closed (`framing`). A lobby, a board
and a keyboard never end.

### Properties

* `match`: `CountExact`, `LockTimersOnlyForContenders`, `AttackerRunsIffContested`,
  `AttackTargetInRoom` (the iterator never dangles), `ClientsShowWhoIsOut` (in every
  match and rematch, for every client, those who are dead and no others),
  `ClientsShowTheWinner` (an action property: as a match ends, exactly the winner comes
  alive again), and `KeepsPromise`, the refinement of `Contest`.
* `supply`: `RequestedIffUnderWay`, `ShortIsAskedFor` (generate() returns NONE without
  asking only if an answer will come), `GmNotLeftBehind` (the GM can always start
  again), `ReplaysOnlyWhenDry` (an action property: a piece just used stays current only
  when preview and cache are exhausted), `ServedWhileGmKnows` (liveness).
* `attack`: `NothingFromNothing`, `AccountsHonest` (what is owed is shown, and settled
  by the end of the turn), `TurnsGoToContenders` (action property),
  `EveryContenderTargeted` (liveness).
* `lobby`: `NamesExact`, `RoomsExact`, `KnowsItsRoom`, `InMeansIn` (a client that takes
  itself for logged in is), `AlwaysAnswered` (liveness).
* `mirror`: `PieceFits`, `NoFullLine`, `CellsAccounted` for the board; `MirrorsRows`,
  `MirrorsPieces` (after the first Hold the client shows one stale piece ahead, never
  more) and the action property `GhostTellsTheDrop` (where a hard drop would lock) for
  the copy.
* `framing`: `ReadsInBounds`, `KeepsChannels` (the refinement of `Channel` in both
  directions, up to a broken-off send), `AllArrives` (liveness).
* `keyboard`: `KeysFollowTheScreen` (the handler that captures the player lives exactly
  as long as its match is on or awaited), `LeavesOnCtrlC`, `CommandsAreTaken` (action
  property).

### Fairness

Only what the programs do on their own: a message that has arrived is eventually read
(`ServerReads`, `GmReads`, `ClientReads`, `Read` in `Framing`), because both programs
poll level-triggered sockets in a loop; the kernel moves bytes where it has room
(`Write`), and a client that has connected sends its login; and a pending timer fires
(`Timeout` in `Attack`). `Framing` has the one way in which a handler does not return, a
send that blocks: there `Read` is not enabled, and no fairness helps two ends that both
block (`Gridlock`). The other modules assume that this does not happen. Users, who press
keys, start matches, join, leave and exit, need never do anything, so no fairness is
assumed of their actions. `Match`, `Scores`, `Board`, `Mirror` and `Keyboard` state
safety only and assume none.

### Findings

Each is a statement of the repository which the model of the code refutes; the
counterexample is the run's.

1. **Empty answers do not unblock the server** (`supply_empty_answers`). The comment at
   `GameMaster.hpp:36` says they do. The server offers its unchanged cache to the
   boards, which ask again, and so on without end. It is reached because the winner of a
   match still counts as playing in the lobby: its leave announces the end of the match
   once more, which crosses the GM's next start and clears `mStarted`.
2. **Moves before the initial block** (`supply_moves_before_blocks`).
   `protocol.plantutml` has them after it; the server accepts actions and lets lock
   timers fire before a board has its first piece, and calls an empty function.
3. **Attack modes on offer that cannot be played** (`attack_modes`). For all but
   SEQUENTIAL the first lock follows an iterator at its end.
4. **Late answers end the client** (`lobby_late_messages`), which `TetrisClient.hpp:448`
   calls safe to ignore. A client that leaves before it is answered (`hasty`) may also
   take the answer to one request for that to another, since answers name none. A
   `/leave` before the answer to `/create` tells the server nothing at all
   (`TetrisClient.hpp:255`), which keeps the room.
5. **A soft drop stops one row short** (`board_soft_drop`), against the test
   `shouldSoftDrop`, which expects the piece on the floor. A second one leaves it there.

## What is proved

With TLAPS, for every `MaxJoins` in 1..256 and every `CountMax` of at least `MaxJoins`
(`MaxJoinsAssumption`, `CountMaxAssumption`; the code has 256 ids and an `unsigned`),
and for a line of any length in `KeyboardProofs` (`LineAssumption`); for any set of
connections and names, any number of rooms and any bound on messages under way
(`LobbyAssumption`); for any set of slots, and any positive preview and answer
(`SupplyAssumption`); for any set of players and counters of any positive range
(`AttackAssumption`); and for bytes of two values or more, any buffer that is larger
than a header and whose size fits in two bytes, any kernel that keeps a byte, and any
set of non-empty messages that fit in the buffer (`FramingAssumption`); and for boards of
any width of 4 to 15, `Bitmap` refusing 16, any height of 4 to 128, the default board of
10 x 24 among them, any preview that is not empty, and matches with any of the seven
pieces (`BoardAssumption`). On less than four columns or rows no upright I fits; a height
is not checked by anybody, but on a board of more than 128 rows the `int8_t` that counts
them in `lock()` begins below zero and no line is ever cleared. The other bounds
(`MaxStarts`, `MaxSent` and so on) are any numbers, or any functions to numbers:

| theorem | says |
| --- | --- |
| `MatchProofs!Inductive` | `Spec => []IInv` |
| `TypeCorrect`, `CounterCorrect`, `LockTimersCorrect`, `AttackerCorrect`, `TargetCorrect` | the invariants of `match` that are about the room, the last in skewed rooms too |
| `ClientsInformed` | clients were last told the phase the room is in, and the winner's GameOver is the last: what `Scores` shows them rests on both |
| `MatchProofs!Implements` | `Spec => KeepsPromise`: a room implements `Contest`, until it closes or is skewed |
| `ScoresProofs!RoomOfMatch` | `ScoresSpec => Spec`: what is proved of a room holds of the room the run `match` checks |
| `ScoresInductive` | `ScoresSpec => [](IInv /\ ScoresInv)` |
| `ShownWhoIsOut`, `ShownTheWinner` | clients show who is in the room, who is out, and who has won (`ClientsShowWhoIsOut`, `ClientsShowTheWinner`) |
| `LobbyProofs!LobbyInductive` | `Spec => []LobbyInv` |
| `LobbyTypes`, `NamesAreExact`, `RoomsAreExact`, `InIsIn`, `ClientKnowsItsRoom` | the five invariants of `lobby` |
| `SupplyProofs!SupplyInductive` | `Spec => []SupplyInv` |
| `SupplyTypes`, `OneRequest`, `NobodyWaitsUnasked`, `GmLearnsTheEnd`, `ReplaysAreDry` | the safety properties of `supply`, the last an action property |
| `AttackProofs!AttackInductive` | `Spec => []AttackInv` |
| `AttackTypes`, `LinesAreEarned`, `DebtsAreTheTargets`, `TurnsReachContenders` | the safety properties of `attack`, the last an action property |
| `FramingProofs!FramingInductive` | `Spec => []FramingInv` |
| `FramingTypes`, `ReadsStayInBuffer` | the invariants of `framing` |
| `ConnectionImplements` | `Spec => KeepsChannels`: each direction of a connection implements `Channel` |
| `MirrorProofs!FitsInductive` | `Spec => []Fits`: the state of a board |
| `BoardTypes`, `PieceStaysInside`, `NoLineIsForgotten`, `EveryCellAccounted` | the invariants of `mirror` that are about the board |
| `ClientsAgree` | `Spec => [](Fits /\ Told)`: what is under way makes a client agree with the board |
| `ClientsHaveTheRows`, `ClientsHaveThePieces`, `GhostTellsWhereItLands` | what `mirror` asks of a client's copy, the last an action property |
| `KeyboardProofs!Inductive` | `Spec => []IInv` of `Keyboard` |
| `LineFits`, `HandlerCorrect`, `CtrlCCorrect`, `CommandsCorrect` | the four properties of `keyboard` |

**The argument.** None of the invariants is inductive by itself. The attacker is right
only if the counter is (it is started when `mPlayingCount > 1`), the lock timers only if
the conclusion of a match finds the one player left, which again takes the counter, and
the counter only if a newcomer was not counted before: nobody outside the room may be in
PLAYING. `IInv` is therefore a conjunction of two parts. `Sound` holds in every room: the
types, the life of the attacker, what clients were told, and who is not in the room is
out. `Strict` holds unless the room is skewed: the counter, the lock timers, when attacks
run, the winner, and that a match has a contender, a lobby at most one. A slot without a
session does not disturb `Strict` as long as a start finds none of them in PLAYING, and
after one that does, `Strict` asks for nothing. `NextInv` has one case for each
action, and a lemma for each that does something; `TopOutInv` serves the two ways of
topping out and the lock timer. The lemmas on cardinalities (`IdsBound`, `WithoutCount`,
`OneMore`, `AtMostOne`) relate the code's counting to sets, and `LessType` shows that
the unsigned subtraction never wraps while the counter is exact.

The refinement maps `phase` to what `open` and `started` say and `contenders` to the
players in PLAYING of a running match. It needs `IInv` in every step: the code decides a
match by `mPlayingCount <= 1`, the contest by whether two contenders are left.

What clients show of a match needs the room's invariant in every step, which `StepShown`
has because a step of `ScoresSpec` is one of `Spec`, and facts about the copies.
`ScoresInv` is `Shown`, who is in the room and whether a match is on, in every room, and
`Exact`, the rest, in rooms that are not skewed. What a client missed is about players
that came before it, so a contender is never among it (`MissedInv`). And a match with
one contender has no other client in the room (`AloneInv`): without it, the last
contender could leave in front of an audience, which would then be shown a winner from
before.

In `Keyboard` the invariant ties what the client has (player, room, a match that ended)
to the state it is in, and a Ctrl-C that counts to the batch it came in; the type of the
line alone bounds it. Commands follow from one step of the console.

**Lobby.** The registries are right whatever is in the streams, with one exception: a
session that is new must have its login to read and nothing before it (`NewInv`), or it
could come to a room without a name. So the invariant has two layers: names and rooms
(`Registered`, `RoomsInv`, which adds that rooms to come are empty and referred to by
nobody), and what may be under way, in which order, in each state of a client
(`LoginInv`, `TalkInv`). `InMeansIn` needs the answer to a login to be the only one that
a client can still read before it takes itself for logged in; `KnowsItsRoom` that a
request is behind every leave of its client and an answer ahead of nothing but chat and
the ends of rooms (`Asks`, `IsTold`). Both say something of a stream as a whole, and
`Only` and `Pending` are kept by the lemmas on streams. The proof also found that
`Accepts` had been two overlapping arms of a CASE, of which TLC takes the first.

**Supply.** The flag, the request and the answer are tied by counting messages of a kind
(`InFlight`), and the lemmas say what reading and appending does to the counts. That
somebody short of pieces is waiting needs `NotAhead`: nobody's index is past the cache,
so that an answer helps whoever waits. For `ReplaysOnlyWhenDry` it was necessary that a
lock whose next piece is refused still counts as a use of the board, which the model had
wrong (the parameter `used` of `NextPiece`).

**Attack.** `AccountsHonest` is inductive only with the life of the attacker: who
rests has no target and no timer (`Rests`), a match goes on with two contenders or
nobody out (`Contested`), and rests unrestarted only alone (`Alone`). What a turn
passes to comes from `After`, a search through the order in which the map iterates,
which has no repetitions (`Ordered`). `NothingFromNothing` needs that the unsigned value
delivered is never more than what is owed, which holds for any width (`UnsignedShrinks`).

**Framing.** What a direction has sent is one string of bytes `W`, its messages' frames
laid one behind the other (`Laid`); an unbroken direction is intact if the receiver's
buffer, the wire and the sender's send stand in `W` one behind the other, beginning
where the delivered messages end (`Whole`). A send that begins makes `W` longer, a write
and a read move bytes between the three, and a read that completes a header or a payload
finds in the buffer what `W` has there. An end that goes loses the tail of `W`, so that
`Whole` asks for all of `W` only while the sender is up. Two bytes make a number below
`Base * Base`, and the size of a message comes back from its two bytes (`HeaderType`,
`FrameIs`). `ReadsInBounds` needs no more than `Partial`, and holds for broken
directions too, where anything can be taken for a header. A step maps to a step of
`Channel` for each direction (`Moves`): `Send` and the last read of a payload to `Send`
and `Deliver`, an interrupt to `BreakOff`, everything a broken direction reads to
`Garbage`, and all the rest to stuttering.

**Board.** `Fits` says what a piece (`PieceOK`) and the rows (`RowsOK`) are between two
handlers; one more fact than the properties ask for is that a board without a current
piece has none to come either. The loops of the code are recursive functions. A loop of
`n` rounds exists by `Rounds`, what each round keeps holds at the end by `Loop`, and both
come down to the least number of a set, so no induction scheme is needed. No full line
outlives a lock because after `k` rounds of `ClearLoop` the `k` topmost rows have a gap
(`ClearedSparse`): a line that is cleared brings down rows looked at before. Cells are
counted with bijections: a piece put on free ground adds four (`FourCells`, `PutCells`),
and a full line that goes takes `Width` (`ClearCells`, `ClearedCells`). The shapes of the
pieces in each rotation, and the kicks, are evaluated piece by piece.

**Client's copy.** Updates may be under way, so the copy is compared with the board at
the place where they lead it: `Reaches(view, stream, w)` says that a client goes from
`view` to `w` by reading `stream`, and `Told` that such a `w` agrees with the board as it
is now (`Agrees`). A step of the server appends an update and must change `w` as it
changes the board (`SentOK`); a read takes the first update away and leaves `w` where it
is (`ReachesHead`). `LockRedrawn` is the heart of it: the rows `lock()` reports, laid
over the rows before it, are the board with the piece in it, and removing the lines
reported, in their order, is what the loop did (`RemovedCleared`). The queue differs by
the piece that a Hold took (`Coming`), which is why `MirrorsPieces` allows one stale
piece, and `NextPieceTells` why it never gets to be two: to take a piece while nothing
was held is possible only once. The ghost needs what the newest update says (`Newest`):
an update that moves a piece and replaces no row removes and inserts none, so that the
rows before it, on which the client looks for the floor, are the rows after it. A client
that comes late is allowed what it cannot know, and may be dead once it is told to move
a piece that it never had.

**Only model-checked:** all liveness (`ServedWhileGmKnows`, `EveryContenderTargeted`,
`AlwaysAnswered`, `AllArrives`), which is out of the prover's reach together with
ENABLED, and what the refuting runs show. Every invariant and every action property of
the passing runs, and both refinements, are theorems.

## Plan

Done: every module named above, and a proof of every safety property the runs check.
What is left is beyond them: a statement of what `Rotate` promises (the first kick that
fits, in the order of the tables, and the ground it fits on) as an abstract
specification that `Board` implements, and the same for the registries of `Lobby`.

## Not modelled

* Drawing (`NcursesUi` beyond `pumpStdinKeys` and SIGWINCH), help texts and the wording
  of logs; `mCurrentTarget` and the latency of `Player`, which are only drawn:
  presentation without protocol state.
* Encoding: generated from `protocol.cum`, one straight line per field; messages are
  abstract values, in `Framing` sequences of bytes.
* What undefined behaviour does beyond going on or ending the server: the erased element
  under a loop (above), the rows outside of the bitmap, and the 257th join of a room,
  where a `uint8_t` id is given out twice (the theorems hold up to the 256th).
* Slots without a session in `Attack` and `Supply`: their boards, and their turns as a
  target, are those of any other player; what a start that passes over one leaves of it
  (its account of lines, its preview from before) is not followed.
* Logging, argument parsing, build scripts and the tests. The vendored gtest and gmock,
  with the generated codec, are nine tenths of the lines of the repository; of the
  program's own code nearly all that keeps state is mapped.
