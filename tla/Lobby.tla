------------------------------- MODULE Lobby -------------------------------
(***************************************************************************)
(* Who is connected, who owns which user name, which rooms there are and   *)
(* who is in them: the registries of TetrisSimulator and the state of each *)
(* ConnectionSession, together with the state machine of the client at the *)
(* other end and the two streams between them.                             *)
(*                                                                         *)
(* Matches are left to Match: here a room is only created, joined, left    *)
(* and closed.  A step of the server is one message or one end of file.    *)
(* A connection is one client process, and may be used again once both     *)
(* ends have closed it.                                                    *)
(*                                                                         *)
(* What is sent to a client that is gone is lost, or the send fails and is *)
(* answered, inside the handler, by onDisconnect.  Where the send is the   *)
(* last thing the handler does, that is the end of the stream seen in the  *)
(* next step.  Where it is one of a loop over the players or connections,  *)
(* onDisconnect erases what the loop stands on: the build may go on, which *)
(* comes to the same, or the server ends.  That, like its end on a signal, *)
(* ends every client and leaves nothing behind: it is Init again, and no   *)
(* step here.  Two failures of a join are steps of their own: its answer   *)
(* does not reach the joiner, who is not yet of the room, or the room is   *)
(* closed under it, because its game master is found to be gone.           *)
(***************************************************************************)
EXTENDS Naturals, Sequences, FiniteSets

CONSTANTS
  Conns,    \* connections: a client process and the session that serves it
  Names,    \* user names
  NamesFor, \* bound: the names the client of a connection may ask for
  None,     \* no connection, no room, no name
  MaxGames, \* bound: rooms created in the life of the server
  MaxQueue  \* bound: messages on their way between a client and its session

ASSUME LobbyAssumption ==
  /\ None \notin Conns /\ None \notin Names /\ None \notin Nat
  /\ {MaxGames, MaxQueue} \subseteq Nat
  /\ NamesFor \in [Conns -> SUBSET Names]

GameIds == 0 .. MaxGames - 1

VARIABLES
  sess,     \* session: "none"; "new" before login; "in" after it
  uname,    \* mClientDisplayName, or the --username of a client logging in
  attached, \* ConnectionSession::mGame
  isGm,     \* mSessionMode is GM; PLAYER is never assigned
  owner,    \* mUsernameToConnection
  claimed,  \* the keys of mFdToConnection
  games,    \* the keys of mGames
  gmOf,     \* Game::mGmSession of every room
  members,  \* the sessions of Game::mPlayers of every room
  vacant,   \* rooms with a slot in Game::mPlayers and no session behind it
  idCtr,    \* mGameIdCtr
  client,   \* TetrisClient::mState; "off" when there is no process,
            \* "threw" when it has ended in an exception
  lobby,    \* TetrisClient::mLobbyGameId
  toServer, toClient, \* the streams of each connection
  hasty,    \* connections whose client has left before it was answered
  caught    \* connections that joined a room as it was closed under them

sessionVars == <<sess, uname, attached, isGm, owner, claimed>>
roomVars    == <<games, gmOf, members, vacant, idCtr>>
clientVars  == <<client, lobby, hasty>>
vars == <<sessionVars, roomVars, clientVars, toServer, toClient, caught>>

Message(kind, g) == [kind |-> kind, game |-> g]
MessagesToServer ==
  {Message(k, None) : k \in {"login", "create", "chat"}}
    \cup {Message(k, g) : k \in {"join", "leave"}, g \in GameIds}
MessagesToClient ==
  {Message(k, None) : 
     k \in {"ok", "taken", "joined", "rejected", "removed", "chat"}}
    \cup {Message("created", g) : g \in GameIds}

TypeOK ==
  /\ sess \in [Conns -> {"none", "new", "in"}]
  /\ uname \in [Conns -> Names \cup {None}]
  /\ attached \in [Conns -> GameIds \cup {None}]
  /\ isGm \in [Conns -> BOOLEAN]
  /\ owner \in [Names -> Conns \cup {None}] /\ claimed \subseteq Conns
  /\ idCtr \in 0..MaxGames /\ games \subseteq 0 .. idCtr - 1
  /\ gmOf \in [GameIds -> Conns \cup {None}]
  /\ members \in [GameIds -> SUBSET Conns] /\ vacant \subseteq GameIds
  /\ client \in [Conns -> {"off", "threw", "login", "IDLE", "GM_INIT",
                         "GM_ACTIVE", "PLAYER_INIT", "PLAYER_ACTIVE"}]
  /\ lobby \in [Conns -> GameIds \cup {None}]
  /\ toServer \in [Conns -> Seq(MessagesToServer)]
  /\ toClient \in [Conns -> Seq(MessagesToClient)]
  /\ hasty \subseteq Conns /\ caught \subseteq Conns

Init ==
  /\ sess = [c \in Conns |-> "none"]
  /\ uname = [c \in Conns |-> None]
  /\ attached = [c \in Conns |-> None]
  /\ isGm = [c \in Conns |-> FALSE]
  /\ owner = [n \in Names |-> None] /\ claimed = {}
  /\ games = {} /\ vacant = {} /\ idCtr = 0
  /\ gmOf = [g \in GameIds |-> None] /\ members = [g \in GameIds |-> {}]
  /\ client = [c \in Conns |-> "off"] /\ lobby = [c \in Conns |-> None]
  /\ toServer = [c \in Conns |-> <<>>] /\ toClient = toServer
  /\ hasty = {} /\ caught = {}
-----------------------------------------------------------------------------
(* The client. *)

Set(f, c, v) == [f EXCEPT ![c] = v]
Running(c) == client[c] \notin {"off", "threw"}
Answered(c, kind, g) ==
  IF ~Running(c) THEN toClient
  ELSE [toClient EXCEPT ![c] = Append(@, Message(kind, g))]

Sent(c, kind, g) == [toServer EXCEPT ![c] = Append(@, Message(kind, g))]

RoomInQueue(c) == Len(toServer[c]) + Len(toClient[c]) < MaxQueue

\* A client starts, connects, and sends its login.
Connect(c, n) ==
  /\ ~Running(c) /\ sess[c] = "none"
  /\ client' = Set(client, c, "login")
  /\ uname' = Set(uname, c, n)
  /\ sess' = Set(sess, c, "new")
  /\ toServer' = [toServer EXCEPT ![c] = <<Message("login", None)>>]
  /\ UNCHANGED <<attached, isGm, owner, claimed, roomVars, lobby, hasty,
                 toClient, caught>>

\* The commands /create, /join and /leave, Ctrl-C, which leaves too, and a
\* line of chat.
CmdCreate(c) ==
  /\ client[c] = "IDLE"
  /\ client' = Set(client, c, "GM_INIT")
  /\ toServer' = Sent(c, "create", None)
  /\ UNCHANGED <<lobby, hasty>>

CmdJoin(c, g) ==
  /\ client[c] = "IDLE"
  /\ client' = Set(client, c, "PLAYER_INIT")
  /\ lobby' = Set(lobby, c, g)
  /\ toServer' = Sent(c, "join", g)
  /\ UNCHANGED hasty

Waiting(c) == client[c] \in {"GM_INIT", "PLAYER_INIT"}
InRoom(c)  == Waiting(c) \/ client[c] \in {"GM_ACTIVE", "PLAYER_ACTIVE"}

\* sendLeaveIndication says nothing while there is no game id.
NoLeaveSent(c) == toServer                   \* a mutant of LeaveSent
LeaveSent(c) ==
  IF lobby[c] = None THEN toServer ELSE Sent(c, "leave", lobby[c])

CmdLeave(c) ==
  /\ InRoom(c)
  /\ toServer' = LeaveSent(c)
  /\ lobby' = Set(lobby, c, None)
  /\ client' = Set(client, c, "IDLE")
  /\ hasty' = IF Waiting(c) THEN hasty \cup {c} ELSE hasty

\* Bound: a line of chat is sent on empty streams, while somebody logs in;
\* anybody else only shows it.
CmdChat(c) ==
  /\ Running(c) /\ client[c] # "login"
  /\ toServer[c] = <<>> /\ \A d \in Conns : toClient[d] = <<>>
  /\ \E d \in Conns : client[d] = "login"
  /\ toServer' = Sent(c, "chat", None)
  /\ UNCHANGED <<client, lobby, hasty>>

Command(c) ==
  /\ RoomInQueue(c)
  /\ \/ CmdCreate(c) \/ CmdLeave(c) \/ CmdChat(c)
     \/ \E g \in GameIds : CmdJoin(c, g)
  /\ UNCHANGED <<sessionVars, roomVars, toClient, caught>>

\* The process ends: on /exit, on a signal, which takes its leave, or dead.
Gone(c, how) ==
  /\ client' = Set(client, c, how)
  /\ lobby' = Set(lobby, c, None)
  /\ hasty' = hasty \ {c}
  /\ toClient' = Set(toClient, c, <<>>)

ClientExits(c) ==
  /\ Running(c)
  /\ Gone(c, "off")
  /\ toServer' \in {toServer, LeaveSent(c)}
  /\ UNCHANGED <<sessionVars, roomVars, caught>>

\* Before the login is through, the first message is taken for its answer.
RefusedOnlyWhenTaken(c, m) == m.kind = "taken" \* a mutant of Refused
Refused(c, m) == m.kind = "taken" \/ (m.kind = "chat" /\ client[c] = "login")

\* What the client is after a message, or that the handler throws.
Accepts(c, m) ==
  IF client[c] = "login" THEN [client |-> "IDLE", lobby |-> None]
  ELSE
  CASE m.kind = "chat"     -> [client |-> client[c], lobby |-> lobby[c]]
    [] m.kind = "created"  -> [client |-> "GM_ACTIVE", lobby |-> m.game]
    [] m.kind = "joined"   -> [client |-> "PLAYER_ACTIVE", lobby |-> lobby[c]]
    [] m.kind = "rejected" -> [client |-> "IDLE", lobby |-> None]
    [] m.kind = "removed"  -> IF client[c] = "PLAYER_ACTIVE"
                              THEN [client |-> "IDLE", lobby |-> None]
                              ELSE [client |-> client[c], lobby |-> lobby[c]]

Throws(c, m) ==
  \/ m.kind = "created" /\ client[c] # "GM_INIT"
  \/ m.kind \in {"joined", "rejected"} /\ client[c] # "PLAYER_INIT"

\* The client reads a message.  One whose login is refused exits.
ClientReads(c) ==
  /\ Running(c) /\ toClient[c] # <<>>
  /\ LET m == Head(toClient[c]) IN
       IF Refused(c, m) \/ Throws(c, m)
       THEN Gone(c, IF Throws(c, m) THEN "threw" ELSE "off")
       ELSE /\ client' = Set(client, c, Accepts(c, m).client)
            /\ lobby' = Set(lobby, c, Accepts(c, m).lobby)
            /\ toClient' = Set(toClient, c, Tail(toClient[c]))
            /\ UNCHANGED hasty
  /\ UNCHANGED <<sessionVars, roomVars, toServer, caught>>
-----------------------------------------------------------------------------
(* The server. *)

\* shutdownDueToGmDisconnect and disassociateGame, or removePlayerAt.
ClosedForGmOnly(g) == {gmOf[g]}              \* a mutant of ClosedFor
ClosedFor(g) == members[g] \cup {gmOf[g]}

Leaving(c) == IF isGm[c] THEN ClosedFor(attached[c]) ELSE {c}
Detached(c) == [d \in Conns |-> IF d \in Leaving(c) THEN None ELSE attached[d]]

LeaveRoom(c) ==
  LET g == attached[c]
  IN  /\ isGm' = [d \in Conns |-> isGm[d] /\ d \notin Leaving(c)]
      /\ IF isGm[c]
         THEN games' = games \ {g} /\ members' = Set(members, g, {})
              /\ gmOf' = Set(gmOf, g, None) /\ vacant' = vacant \ {g}
         ELSE members' = [members EXCEPT ![g] = @ \ {c}]
              /\ UNCHANGED <<games, gmOf, vacant>>
      /\ UNCHANGED idCtr

\* onDisconnect.  A session that was refused has claimed nothing.
NameFreedAnyway(c) == [owner EXCEPT ![uname[c]] = None] \* a mutant of NameFreed
NameFreed(c) ==
  IF c \in claimed THEN [owner EXCEPT ![uname[c]] = None] ELSE owner

Unregister(c) ==
  /\ sess' = Set(sess, c, "none") /\ uname' = Set(uname, c, None)
  /\ owner' = NameFreed(c) /\ claimed' = claimed \ {c}

Forget(c) ==
  /\ Unregister(c)
  /\ IF attached[c] = None THEN UNCHANGED <<isGm, roomVars>> ELSE LeaveRoom(c)

OnDisconnect(c) == Forget(c) /\ attached' = Detached(c)

\* handleLogin.
Login(c) ==
  IF owner[uname[c]] # None
  THEN OnDisconnect(c) /\ toClient' = Answered(c, "taken", None)
  ELSE /\ sess' = Set(sess, c, "in")
       /\ owner' = Set(owner, uname[c], c) /\ claimed' = claimed \cup {c}
       /\ toClient' = Answered(c, "ok", None)
       /\ UNCHANGED <<uname, attached, isGm, roomVars>>

\* onMsg(CreateGameRequest), for a session without a game.
NextIdKept == idCtr                          \* a mutant of NextId
NextId == idCtr + 1

CreateGame(c) ==
  /\ idCtr < MaxGames /\ idCtr' = NextId
  /\ isGm' = Set(isGm, c, TRUE)
  /\ attached' = Set(attached, c, idCtr)
  /\ games' = games \cup {idCtr} /\ gmOf' = Set(gmOf, idCtr, c)
  /\ toClient' = Answered(c, "created", idCtr)
  /\ UNCHANGED <<sess, uname, owner, claimed, members, vacant>>

\* onMsg(JoinRequest), for a session without a game.
UnknownIgnored(c) == toClient                \* a mutant of UnknownRejected
UnknownRejected(c) == Answered(c, "rejected", None)

JoinGame(c, g) ==
  /\ IF g \in games
     THEN /\ attached' = Set(attached, c, g)
          /\ members' = [members EXCEPT ![g] = @ \cup {c}]
          /\ toClient' = Answered(c, "joined", None)
     ELSE toClient' = UnknownRejected(c) /\ UNCHANGED <<attached, members>>
  /\ UNCHANGED <<sess, uname, owner, claimed, isGm, games, gmOf, vacant, idCtr, caught>>

\* The PlayerUpdate to a game master that is gone fails: its onDisconnect
\* closes the room inside the join, which then sets mGame all the same.
JoinClosed(c, g) ==
  /\ g \in games /\ ~Running(gmOf[g])
  /\ Forget(gmOf[g])
  /\ attached' = Set(Detached(gmOf[g]), c, g)
  /\ caught' = caught \cup {c}
  /\ toClient' = Answered(c, "joined", None)

\* onMsg(LeaveIndication): another room's, or nobody's, is ignored, and a
\* room that is closed finds nobody to remove.
LeaveGame(c, g) ==
  IF attached[c] # g \/ g \notin games
  THEN UNCHANGED <<sessionVars, roomVars, toClient>>
  ELSE /\ LeaveRoom(c) /\ attached' = Detached(c)
       /\ toClient' = IF isGm[c] THEN toClient ELSE Answered(c, "removed", None)
       /\ UNCHANGED <<sess, uname, owner, claimed>>

\* broadcastClientChat: to every other connection, logged in or not.
Chat(c) ==
  /\ toClient' = [d \in Conns |-> IF d # c /\ sess[d] # "none"
                                   THEN Answered(d, "chat", None)[d] ELSE toClient[d]]
  /\ UNCHANGED <<sessionVars, roomVars>>

\* A session with a game hands a request to it, which knows none of them.
ServerReads(c) ==
  /\ sess[c] # "none" /\ toServer[c] # <<>>
  /\ toServer' = Set(toServer, c, Tail(toServer[c]))
  /\ LET m == Head(toServer[c]) IN
       \/ m.kind = "login" /\ Login(c) /\ UNCHANGED caught
       \/ m.kind = "leave" /\ LeaveGame(c, m.game) /\ UNCHANGED caught
       \/ m.kind = "chat" /\ Chat(c) /\ UNCHANGED caught
       \/ /\ m.kind \in {"create", "join"}
          /\ IF attached[c] # None
             THEN UNCHANGED <<sessionVars, roomVars, toClient, caught>>
             ELSE \/ m.kind = "create" /\ CreateGame(c) /\ UNCHANGED caught
                  \/ m.kind = "join" /\ (JoinGame(c, m.game) \/ JoinClosed(c, m.game))
  /\ UNCHANGED clientVars

\* The end of a stream is read, or its reset is seen ahead of what is left.
ServerSeesEnd(c) ==
  /\ ~Running(c) /\ sess[c] # "none"
  /\ OnDisconnect(c)
  /\ toServer' = Set(toServer, c, <<>>) /\ caught' = caught \ {c}
  /\ UNCHANGED <<clientVars, toClient>>

\* The JoinAccept, or the GameStart behind it, cannot be sent to the joiner:
\* onDisconnect finds no game to take the session out of, and its slot stays.
JoinLost(c) ==
  /\ ~Running(c) /\ sess[c] = "in" /\ attached[c] = None
  /\ toServer[c] # <<>>
  /\ LET m == Head(toServer[c])
     IN  m.kind = "join" /\ m.game \in games /\ vacant' = vacant \cup {m.game}
  /\ Unregister(c)
  /\ toServer' = Set(toServer, c, <<>>)
  /\ UNCHANGED <<attached, isGm, games, gmOf, members, idCtr, clientVars,
                 toClient, caught>>

Next ==
  \E c \in Conns :
    \/ \E n \in NamesFor[c] : Connect(c, n)
    \/ Command(c) \/ ClientExits(c) \/ ClientReads(c)
    \/ ServerReads(c) \/ ServerSeesEnd(c) \/ JoinLost(c)

Spec == Init /\ [][Next]_vars

\* Both ends keep reading while they run; users need not do anything.
FairSpec ==
  Spec /\ \A c \in Conns : WF_vars(ClientReads(c)) /\ WF_vars(ServerReads(c))
-----------------------------------------------------------------------------
(* Properties. *)

\* A name is taken by exactly the connected session that has logged in with
\* it, over refused logins, lost clients and reconnections (claimUsername and
\* onDisconnect keep two maps for this).
NamesExact ==
  \A n \in Names, c \in Conns : owner[n] = c <=> sess[c] = "in" /\ uname[c] = n

\* A session refers to a room exactly when the room is open and has it as its
\* game master or a player, and only connected sessions are in rooms: what
\* one session does to a room leaves no session behind in it, nor a room that
\* nobody can reach.  Two joins are the exception: one caught by the end of its
\* room refers to a room that is closed, and one whose answer could not be sent
\* leaves an empty slot behind, which no session refers to and which lasts no
\* longer than its room.
RoomsExact ==
  /\ \A g \in games, c \in Conns :
       attached[c] = g <=> gmOf[g] = c \/ c \in members[g]
  /\ \A c \in Conns : attached[c] \in games \cup {None} <=> c \notin caught
  /\ \A c \in Conns : isGm[c] <=> \E g \in games : gmOf[g] = c
  /\ \A g \in games : gmOf[g] # None
  /\ \A c \in Conns : attached[c] # None => sess[c] = "in"
  /\ vacant \subseteq games

\* With nothing under way, a client that has waited for its answers and has
\* a session in a room knows so, as what, and in which room; unless the join
\* was caught, after which leaving the room has no effect on the server.
Quiet(c) == Running(c) /\ toServer[c] = <<>> /\ toClient[c] = <<>>
KnowsItsRoom ==
  \A c \in Conns \ (hasty \cup caught) :
    Quiet(c) /\ attached[c] # None =>
      /\ client[c] = IF isGm[c] THEN "GM_ACTIVE" ELSE "PLAYER_ACTIVE"
      /\ lobby[c] = attached[c]

\* A client that has waited for its answers so far does not wait forever for
\* the next one, although a session that has a room drops such requests: all
\* of them, for a session whose join was caught.
AlwaysAnswered ==
  \A c \in Conns :
    Waiting(c) ~> ~Waiting(c) \/ c \in hasty \cup caught \/ idCtr = MaxGames

\* A client that takes itself for logged in has, at the other end, a session
\* that is, under the name it gave, or none any more: no message that comes
\* ahead of the answer to its login, such as a chat, is taken for it.
InMeansIn ==
  \A c \in Conns :
    Running(c) /\ client[c] # "login" /\ sess[c] # "none" =>
      sess[c] = "in" /\ owner[uname[c]] = c

\* As the comment at TetrisClient.hpp:448 has it, late messages of the server
\* are safe to ignore, for instance after /leave.
LateMessagesIgnored == \A c \in Conns : client[c] # "threw"
=============================================================================
