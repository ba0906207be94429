---------------------------- MODULE LobbyProofs ----------------------------
(***************************************************************************)
(* The registries of the server agree with one another, and a client that  *)
(* waits for its answers knows what its session knows, for any number of   *)
(* connections, names and rooms, and streams of any length.  The registers *)
(* rest on an invariant of the server alone, once it is known that a login *)
(* is read by a session that is new; what the client knows rests on what   *)
(* may be under way, in which order, in each state it can be in.           *)
(***************************************************************************)
EXTENDS Lobby, TLAPS

-----------------------------------------------------------------------------
(* The inductive invariant. *)

\* Only messages of these kinds are in the stream.
Only(seq, kinds) == \A i \in DOMAIN seq : seq[i].kind \in kinds

\* The message is in the stream, with nothing but chat beside it and messages
\* of one kind ahead of it.
Pending(seq, m, ahead) ==
  \E i \in DOMAIN seq :
    /\ seq[i] = m
    /\ \A j \in DOMAIN seq \ {i} :
         seq[j].kind = "chat" \/ (j < i /\ seq[j].kind = ahead)

\* The two maps of names agree, and every session has a name to log in with.
Registered ==
  /\ NamesExact
  /\ \A c \in Conns : c \in claimed <=> sess[c] = "in"
  /\ \A c \in Conns : sess[c] # "none" => uname[c] \in Names

\* A room that is not open is empty, and nobody refers to one that is to come.
RoomsInv ==
  /\ RoomsExact
  /\ \A g \in GameIds \ games : members[g] = {} /\ gmOf[g] = None
  /\ \A c \in Conns : attached[c] # None => attached[c] < idCtr

\* A session that is new has its login to read and nothing else, and what is
\* under way to its client is chat; the answer to the login is the only other
\* thing a client can read before it takes itself for logged in, and it never
\* reads that answer later.  A client that is gone has nothing under way.
NewInv(c) ==
  sess[c] = "new" =>
    /\ toServer[c] = <<Message("login", None)>>
    /\ client[c] \in {"login", "off", "threw"}
    /\ Only(toClient[c], {"chat"})
OldInv(c) ==
  sess[c] # "new" => Only(toServer[c], {"create", "chat", "join", "leave"})
GoneInv(c) ==
  ~Running(c) => toClient[c] = <<>> /\ lobby[c] = None /\ c \notin hasty
LoggingInInv(c) ==
  client[c] = "login" =>
    /\ lobby[c] = None
    /\ sess[c] = "in" =>
         /\ toServer[c] = <<>> /\ attached[c] = None
         /\ Pending(toClient[c], Message("ok", None), "chat")
    /\ sess[c] = "none" => Only(toClient[c], {"chat", "taken"})
LoggedInInv(c) ==
  client[c] # "login" =>
    Only(toClient[c], {"joined", "rejected", "removed", "chat", "created"})

LoginPart(c) ==
  NewInv(c) /\ OldInv(c) /\ GoneInv(c) /\ LoggingInInv(c) /\ LoggedInInv(c)

LoginInv == \A c \in Conns : LoginPart(c)

\* A session that still has a room is about to be told that it leaves it.
LeavesRoom(c) ==
  \/ attached[c] = None
  \/ \E i \in DOMAIN toServer[c] :
       toServer[c][i] = Message("leave", attached[c])

\* The request m is still to be read, after any leave; or its answer m is.
Asks(c, m) ==
  /\ Pending(toServer[c], m, "leave")
  /\ Only(toClient[c], {"chat", "removed"})
  /\ LeavesRoom(c)

IsTold(c, m) ==
  /\ Only(toServer[c], {"chat"})
  /\ Pending(toClient[c], m, "removed")

IdleInv(c) ==
  client[c] = "IDLE" =>
    /\ Only(toServer[c], {"chat", "leave"})
    /\ Only(toClient[c], {"chat", "removed"})
    /\ LeavesRoom(c)
GmInitInv(c) ==
  client[c] = "GM_INIT" =>
    \/ Asks(c, Message("create", None))
    \/ /\ attached[c] # None /\ isGm[c]
       /\ IsTold(c, Message("created", attached[c]))
PlayerInitInv(c) ==
  client[c] = "PLAYER_INIT" =>
    \/ Asks(c, Message("join", lobby[c]))
    \/ attached[c] = None /\ IsTold(c, Message("rejected", None))
    \/ /\ attached[c] \in {lobby[c], None} /\ ~isGm[c]
       /\ IsTold(c, Message("joined", None))
ActiveInv(c) ==
  client[c] \in {"GM_ACTIVE", "PLAYER_ACTIVE"} =>
    /\ Only(toServer[c], {"chat"}) /\ Only(toClient[c], {"chat"})
    /\ attached[c] # None \/ client[c] = "PLAYER_ACTIVE"
    /\ attached[c] # None =>
         lobby[c] = attached[c] /\ isGm[c] = (client[c] = "GM_ACTIVE")

Told(c) == IdleInv(c) /\ GmInitInv(c) /\ PlayerInitInv(c) /\ ActiveInv(c)

TalkInv == \A c \in Conns \ (hasty \cup caught) : Told(c)

LobbyInv == TypeOK /\ Registered /\ RoomsInv /\ LoginInv /\ TalkInv
-----------------------------------------------------------------------------
(* Streams. *)

\* What is said of a stream of messages of some kinds is kept by the next one
\* of them, and by reading one.
LEMMA OnlyKept ==
  ASSUME NEW M, NEW s \in Seq(M), NEW m \in M, NEW K, Only(s, K)
  PROVE  /\ m.kind \in K => Only(Append(s, m), K)
         /\ s # <<>> => Only(Tail(s), K) /\ Head(s).kind \in K
BY DEF Only

LEMMA OnlyMore ==
  ASSUME NEW s, NEW K, NEW L, K \subseteq L, Only(s, K)
  PROVE  Only(s, L)
BY DEF Only

\* A message is pending once it has been sent behind messages it may follow,
LEMMA PendingSent ==
  ASSUME NEW M, NEW s \in Seq(M), NEW m \in M, NEW k, Only(s, {"chat", k})
  PROVE  Pending(Append(s, m), m, k)
<1>1. /\ Append(s, m) \in Seq(M) /\ Len(s) \in Nat
      /\ DOMAIN Append(s, m) = 1 .. Len(s) + 1 /\ DOMAIN s = 1 .. Len(s)
      /\ Append(s, m)[Len(s) + 1] = m
      /\ \A j \in 1 .. Len(s) : Append(s, m)[j] = s[j]
  OBVIOUS
<1> QED BY <1>1 DEF Only, Pending

\* still is when a chat follows it,
LEMMA PendingChat ==
  ASSUME NEW M, NEW s \in Seq(M), NEW c \in M, NEW m, NEW k,
         Pending(s, m, k), c.kind = "chat"
  PROVE  Pending(Append(s, c), m, k)
<1>1. /\ Append(s, c) \in Seq(M) /\ Len(s) \in Nat
      /\ DOMAIN Append(s, c) = 1 .. Len(s) + 1 /\ DOMAIN s = 1 .. Len(s)
      /\ Append(s, c)[Len(s) + 1] = c
      /\ \A j \in 1 .. Len(s) : Append(s, c)[j] = s[j]
  OBVIOUS
<1> QED BY <1>1 DEF Pending

\* and when one that is ahead of it is read; once it has been read itself, only
\* chat is left.
LEMMA PendingRead ==
  ASSUME NEW M, NEW s \in Seq(M), NEW m, NEW k, Pending(s, m, k)
  PROVE  /\ s # <<>>
         /\ \/ Head(s) = m /\ Only(Tail(s), {"chat"})
            \/ Head(s).kind \in {"chat", k} /\ Pending(Tail(s), m, k)
<1>1. PICK i \in DOMAIN s :
        /\ s[i] = m
        /\ \A j \in DOMAIN s \ {i} :
             s[j].kind = "chat" \/ (j < i /\ s[j].kind = k)
  BY DEF Pending
<1>2. /\ DOMAIN s = 1 .. Len(s) /\ Len(s) \in Nat /\ s # <<>>
      /\ Head(s) = s[1]
      /\ DOMAIN Tail(s) = 1 .. Len(s) - 1
      /\ \A j \in 1 .. Len(s) - 1 : Tail(s)[j] = s[j + 1]
  BY <1>1
<1>3. CASE i = 1
  BY <1>1, <1>2, <1>3 DEF Only
<1>4. CASE i # 1
  <2>1. Head(s).kind \in {"chat", k}
    BY <1>1, <1>2, <1>4
  <2>2. i - 1 \in DOMAIN Tail(s) /\ Tail(s)[i - 1] = m
    BY <1>1, <1>2, <1>4
  <2>3. \A j \in DOMAIN Tail(s) \ {i - 1} :
          \/ Tail(s)[j].kind = "chat"
          \/ j < i - 1 /\ Tail(s)[j].kind = k
    BY <1>1, <1>2, <1>4
  <2> QED BY <1>2, <2>1, <2>2, <2>3 DEF Pending
<1> QED BY <1>3, <1>4

LEMMA NothingPending ==
  ASSUME NEW m, NEW k
  PROVE  ~Pending(<<>>, m, k)
BY DEF Pending
-----------------------------------------------------------------------------
(* Messages, and the types of the streams. *)

LEMMA MessageFields ==
  ASSUME NEW k, NEW g
  PROVE  Message(k, g).kind = k /\ Message(k, g).game = g
BY DEF Message

LEMMA ToServerRead ==
  ASSUME NEW m \in MessagesToServer
  PROVE  /\ m.kind \in {"login", "create", "chat", "join", "leave"}
         /\ m.kind \in {"join", "leave"} => m.game \in GameIds
         /\ m = Message(m.kind, m.game)
BY DEF MessagesToServer, Message

LEMMA ToClientRead ==
  ASSUME NEW m \in MessagesToClient
  PROVE  /\ m.kind \in {"ok", "taken", "joined", "rejected", "removed", "chat",
                        "created"}
         /\ m.kind = "created" => m.game \in GameIds
BY DEF MessagesToClient, Message

\* What is sent to the server, and what is sent to a client if it is there.
LEMMA SentStream ==
  ASSUME TypeOK, NEW c \in Conns, NEW k, NEW g, Message(k, g) \in MessagesToServer
  PROVE  /\ Sent(c, k, g) \in [Conns -> Seq(MessagesToServer)]
         /\ Sent(c, k, g)[c] = Append(toServer[c], Message(k, g))
         /\ \A d \in Conns \ {c} : Sent(c, k, g)[d] = toServer[d]
BY DEF TypeOK, Sent

LEMMA AnsweredStream ==
  ASSUME TypeOK, NEW c \in Conns, NEW k, NEW g, Message(k, g) \in MessagesToClient
  PROVE  /\ Answered(c, k, g) \in [Conns -> Seq(MessagesToClient)]
         /\ Running(c) => Answered(c, k, g)[c] = Append(toClient[c], Message(k, g))
         /\ ~Running(c) => Answered(c, k, g)[c] = toClient[c]
         /\ \A d \in Conns \ {c} : Answered(c, k, g)[d] = toClient[d]
BY DEF TypeOK, Answered

\* Chat is added to some of the streams.
Chatted(d) ==
  \/ toClient'[d] = toClient[d]
  \/ Running(d) /\ toClient'[d] = Append(toClient[d], Message("chat", None))

LEMMA ChatStreams ==
  ASSUME TypeOK, NEW c \in Conns, Chat(c)
  PROVE  /\ toClient' \in [Conns -> Seq(MessagesToClient)]
         /\ \A d \in Conns : Chatted(d)
<1>1. Message("chat", None) \in MessagesToClient
  BY DEF MessagesToClient
<1>2. \A d \in Conns :
        /\ Answered(d, "chat", None)[d] \in Seq(MessagesToClient)
        /\ Running(d) =>
             Answered(d, "chat", None)[d] = Append(toClient[d], Message("chat", None))
        /\ ~Running(d) => Answered(d, "chat", None)[d] = toClient[d]
  BY <1>1, AnsweredStream
<1>3. /\ \A d \in Conns : toClient[d] \in Seq(MessagesToClient)
      /\ toClient' = [d \in Conns |-> IF d # c /\ sess[d] # "none"
                        THEN Answered(d, "chat", None)[d] ELSE toClient[d]]
  BY DEF TypeOK, Chat
<1> QED BY <1>2, <1>3 DEF Chatted
-----------------------------------------------------------------------------
(* The steps of the server, one by one. *)

ReadsLogin(c) ==
  /\ sess[c] # "none" /\ toServer[c] # <<>>
  /\ Head(toServer[c]).kind = "login"
  /\ toServer' = Set(toServer, c, Tail(toServer[c]))
  /\ Login(c) /\ UNCHANGED <<clientVars, caught>>
ReadsLeave(c) ==
  /\ sess[c] # "none" /\ toServer[c] # <<>>
  /\ Head(toServer[c]).kind = "leave"
  /\ toServer' = Set(toServer, c, Tail(toServer[c]))
  /\ LeaveGame(c, Head(toServer[c]).game) /\ UNCHANGED <<clientVars, caught>>
ReadsChat(c) ==
  /\ sess[c] # "none" /\ toServer[c] # <<>>
  /\ Head(toServer[c]).kind = "chat"
  /\ toServer' = Set(toServer, c, Tail(toServer[c]))
  /\ Chat(c) /\ UNCHANGED <<clientVars, caught>>
Drops(c) ==
  /\ sess[c] # "none" /\ toServer[c] # <<>>
  /\ Head(toServer[c]).kind \in {"create", "join"} /\ attached[c] # None
  /\ toServer' = Set(toServer, c, Tail(toServer[c]))
  /\ UNCHANGED <<sessionVars, roomVars, clientVars, toClient, caught>>
ReadsCreate(c) ==
  /\ sess[c] # "none" /\ toServer[c] # <<>>
  /\ Head(toServer[c]).kind = "create" /\ attached[c] = None
  /\ toServer' = Set(toServer, c, Tail(toServer[c]))
  /\ CreateGame(c) /\ UNCHANGED <<clientVars, caught>>
ReadsJoin(c) ==
  /\ sess[c] # "none" /\ toServer[c] # <<>>
  /\ Head(toServer[c]).kind = "join" /\ attached[c] = None
  /\ toServer' = Set(toServer, c, Tail(toServer[c]))
  /\ JoinGame(c, Head(toServer[c]).game) /\ UNCHANGED clientVars
ReadsJoinClosed(c) ==
  /\ sess[c] # "none" /\ toServer[c] # <<>>
  /\ Head(toServer[c]).kind = "join" /\ attached[c] = None
  /\ toServer' = Set(toServer, c, Tail(toServer[c]))
  /\ JoinClosed(c, Head(toServer[c]).game) /\ UNCHANGED clientVars

LEMMA ServerSteps ==
  ASSUME NEW c \in Conns, ServerReads(c)
  PROVE  \/ ReadsLogin(c) \/ ReadsLeave(c) \/ ReadsChat(c) \/ Drops(c)
         \/ ReadsCreate(c) \/ ReadsJoin(c) \/ ReadsJoinClosed(c)
BY DEF ServerReads, ReadsLogin, ReadsLeave, ReadsChat, Drops, ReadsCreate,
   ReadsJoin, ReadsJoinClosed

\* Any of them reads one message of one stream.
LEMMA HeadRead ==
  ASSUME TypeOK, NEW c \in Conns, toServer[c] # <<>>,
         toServer' = Set(toServer, c, Tail(toServer[c]))
  PROVE  /\ Head(toServer[c]) \in MessagesToServer
         /\ toServer' \in [Conns -> Seq(MessagesToServer)]
         /\ toServer'[c] = Tail(toServer[c])
         /\ \A d \in Conns \ {c} : toServer'[d] = toServer[d]
BY DEF TypeOK, Set
-----------------------------------------------------------------------------
(* Leaving a room. *)

LEMMA OpenRooms ==
  ASSUME TypeOK
  PROVE  games \subseteq GameIds /\ games \subseteq 0 .. idCtr - 1
BY LobbyAssumption DEF TypeOK, GameIds

\* The room of a game master is its own.
LEMMA GmHasIt ==
  ASSUME RoomsExact
  PROVE  \A c \in Conns : isGm[c] => gmOf[attached[c]] = c
<1>1. \A c \in Conns : isGm[c] => \E g \in games : gmOf[g] = c
  BY DEF RoomsExact
<1>2. \A g \in games, c \in Conns : gmOf[g] = c => attached[c] = g
  BY DEF RoomsExact
<1> QED BY <1>1, <1>2

\* Those who go with a session that leaves an open room: all that have it,
\* when it is the game master's, of whom nobody else is a game master.
LEMMA WhoLeaves ==
  ASSUME TypeOK, RoomsInv, NEW c \in Conns, attached[c] \in games
  PROVE  /\ isGm[c] => gmOf[attached[c]] = c
         /\ \A d \in Conns :
              d \in Leaving(c) <=> d = c \/ (isGm[c] /\ attached[d] = attached[c])
         /\ \A d \in Leaving(c) : isGm[d] => d = c
<1>1. isGm[c] => gmOf[attached[c]] = c
  BY GmHasIt DEF RoomsInv
<1>2. CASE isGm[c]
  <2>1. Leaving(c) = members[attached[c]] \cup {c}
    BY <1>1, <1>2 DEF Leaving, ClosedFor
  <2>2. \A d \in Conns : attached[d] = attached[c]
                            <=> gmOf[attached[c]] = d \/ d \in members[attached[c]]
    BY DEF RoomsInv, RoomsExact
  <2>3. \A d \in members[attached[c]] : isGm[d] => d = c
    <3>1. attached[c] \in GameIds
      BY OpenRooms
    <3>2. \A d \in members[attached[c]] : d \in Conns
      BY <3>1 DEF TypeOK
    <3> QED BY <1>1, <1>2, <2>2, <3>2, GmHasIt DEF RoomsInv
  <2> QED BY <1>1, <1>2, <2>1, <2>2, <2>3
<1>3. CASE ~isGm[c]
  BY <1>1, <1>3 DEF Leaving
<1> QED BY <1>2, <1>3

\* What a session leaves behind when it leaves an open room.
RoomLeft(c) ==
  /\ isGm' \in [Conns -> BOOLEAN]
  /\ gmOf' \in [GameIds -> Conns \cup {None}]
  /\ members' \in [GameIds -> SUBSET Conns]
  /\ vacant' \subseteq GameIds /\ vacant' \subseteq games'
  /\ games' = IF isGm[c] THEN games \ {attached[c]} ELSE games
  /\ idCtr' = idCtr
  /\ \A d \in Conns : isGm'[d] <=> isGm[d] /\ d # c
  /\ Detached(c) \in [Conns -> GameIds \cup {None}]
  /\ \A d \in Conns :
       Detached(c)[d] = IF d = c \/ (isGm[c] /\ attached[d] = attached[c])
                        THEN None ELSE attached[d]
  /\ \A g \in games' : gmOf'[g] = gmOf[g] /\ members'[g] = members[g] \ {c}
  /\ \A g \in GameIds \ games' : gmOf'[g] = None /\ members'[g] = {}

LEMMA LeaveRoomDoes ==
  ASSUME TypeOK, RoomsInv, NEW c \in Conns, attached[c] \in games, LeaveRoom(c)
  PROVE  RoomLeft(c)
<1>1. /\ isGm[c] => gmOf[attached[c]] = c
      /\ \A d \in Conns :
           d \in Leaving(c) <=> d = c \/ (isGm[c] /\ attached[d] = attached[c])
      /\ \A d \in Leaving(c) : isGm[d] => d = c
  BY WhoLeaves
<1>2. attached[c] \in GameIds /\ games \subseteq GameIds
  BY OpenRooms
<1>3. /\ isGm' \in [Conns -> BOOLEAN]
      /\ \A d \in Conns : isGm'[d] <=> isGm[d] /\ d # c
  <2>1. isGm' = [d \in Conns |-> isGm[d] /\ d \notin Leaving(c)]
    BY DEF LeaveRoom
  <2>2. \A d \in Conns : (isGm[d] /\ d \notin Leaving(c)) <=> (isGm[d] /\ d # c)
    BY <1>1
  <2> QED BY <2>1, <2>2
<1>4. /\ Detached(c) \in [Conns -> GameIds \cup {None}]
      /\ \A d \in Conns :
           Detached(c)[d] = IF d = c \/ (isGm[c] /\ attached[d] = attached[c])
                            THEN None ELSE attached[d]
  BY <1>1 DEF Detached, TypeOK
<1>5. CASE isGm[c]
  <2>1. /\ games' = games \ {attached[c]} /\ idCtr' = idCtr
        /\ vacant' = vacant \ {attached[c]}
        /\ members' = [members EXCEPT ![attached[c]] = {}]
        /\ gmOf' = [gmOf EXCEPT ![attached[c]] = None]
    BY <1>5 DEF LeaveRoom, Set
  <2>2. \A g \in games' : c \notin members[g]
    BY <1>2, <2>1 DEF RoomsInv, RoomsExact
  <2>3. /\ gmOf' \in [GameIds -> Conns \cup {None}]
        /\ members' \in [GameIds -> SUBSET Conns]
    BY <2>1 DEF TypeOK
  <2>4. \A g \in GameIds : 
          /\ g # attached[c] => gmOf'[g] = gmOf[g] /\ members'[g] = members[g]
          /\ g = attached[c] => gmOf'[g] = None /\ members'[g] = {}
    BY <2>1 DEF TypeOK
  <2>5. \A g \in games' : gmOf'[g] = gmOf[g] /\ members'[g] = members[g] \ {c}
    BY <1>2, <2>1, <2>2, <2>4
  <2>6. \A g \in GameIds \ games' : gmOf'[g] = None /\ members'[g] = {}
    BY <1>2, <2>1, <2>4 DEF RoomsInv
  <2>7. vacant' \subseteq GameIds /\ vacant' \subseteq games'
    BY <1>2, <2>1 DEF RoomsInv, RoomsExact
  <2> QED BY <1>3, <1>4, <1>5, <2>1, <2>3, <2>5, <2>6, <2>7 DEF RoomLeft
<1>6. CASE ~isGm[c]
  <2>1. /\ games' = games /\ idCtr' = idCtr /\ gmOf' = gmOf /\ vacant' = vacant
        /\ members' = [members EXCEPT ![attached[c]] = @ \ {c}]
    BY <1>6 DEF LeaveRoom
  <2>2. /\ gmOf' \in [GameIds -> Conns \cup {None}]
        /\ members' \in [GameIds -> SUBSET Conns]
    BY <2>1 DEF TypeOK
  <2>3. \A g \in games : g # attached[c] => c \notin members[g]
    BY DEF RoomsInv, RoomsExact
  <2>4. \A g \in games' : gmOf'[g] = gmOf[g] /\ members'[g] = members[g] \ {c}
    BY <1>2, <2>1, <2>3 DEF TypeOK
  <2>5. \A g \in GameIds \ games' : gmOf'[g] = None /\ members'[g] = {}
    BY <1>2, <2>1 DEF RoomsInv, TypeOK
  <2>6. vacant' \subseteq GameIds /\ vacant' \subseteq games'
    BY <1>2, <2>1 DEF RoomsInv, RoomsExact
  <2> QED BY <1>3, <1>4, <1>6, <2>1, <2>2, <2>4, <2>5, <2>6 DEF RoomLeft
<1> QED BY <1>5, <1>6

\* The session of a caught join leaves nothing.
LEMMA LeaveClosed ==
  ASSUME TypeOK, RoomsInv, NEW c \in Conns, attached[c] \notin games \cup {None},
         LeaveRoom(c)
  PROVE  /\ games' = games /\ gmOf' = gmOf /\ idCtr' = idCtr
         /\ members' = members /\ isGm' = isGm /\ vacant' = vacant
         /\ Detached(c) = [attached EXCEPT ![c] = None]
         /\ Leaving(c) = {c}
<1>1. ~isGm[c]
  BY DEF RoomsInv, RoomsExact
<1>2. Leaving(c) = {c}
  BY <1>1 DEF Leaving
<1>3. attached[c] \in GameIds \ games /\ members[attached[c]] = {}
  BY DEF TypeOK, RoomsInv
<1>4. members' = members
  <2>1. members' = [members EXCEPT ![attached[c]] = @ \ {c}]
    BY <1>1 DEF LeaveRoom
  <2> QED BY <1>3, <2>1 DEF TypeOK
<1>5. isGm' = isGm
  <2>1. isGm' = [d \in Conns |-> isGm[d] /\ d # c]
    BY <1>2 DEF LeaveRoom
  <2>2. \A d \in Conns : (isGm[d] /\ d # c) <=> isGm[d]
    BY <1>1
  <2>3. isGm = [d \in Conns |-> isGm[d]]
    BY DEF TypeOK
  <2> QED BY <2>1, <2>2, <2>3 DEF TypeOK
<1> QED BY <1>1, <1>2, <1>4, <1>5 DEF LeaveRoom, Detached, TypeOK
-----------------------------------------------------------------------------
(* The registers, whoever calls. *)

ServerType ==
  /\ sess \in [Conns -> {"none", "new", "in"}]
  /\ uname \in [Conns -> Names \cup {None}]
  /\ attached \in [Conns -> GameIds \cup {None}]
  /\ isGm \in [Conns -> BOOLEAN]
  /\ owner \in [Names -> Conns \cup {None}] /\ claimed \subseteq Conns
  /\ idCtr \in 0..MaxGames /\ games \subseteq 0 .. idCtr - 1
  /\ gmOf \in [GameIds -> Conns \cup {None}]
  /\ members \in [GameIds -> SUBSET Conns] /\ vacant \subseteq GameIds
  /\ caught \subseteq Conns

ClientType ==
  /\ client \in [Conns -> {"off", "threw", "login", "IDLE", "GM_INIT",
                           "GM_ACTIVE", "PLAYER_INIT", "PLAYER_ACTIVE"}]
  /\ lobby \in [Conns -> GameIds \cup {None}]
  /\ hasty \subseteq Conns

ServerInv == ServerType /\ Registered /\ RoomsInv

NamesType ==
  /\ sess \in [Conns -> {"none", "new", "in"}]
  /\ uname \in [Conns -> Names \cup {None}]
  /\ owner \in [Names -> Conns \cup {None}] /\ claimed \subseteq Conns

\* A session that is forgotten takes its name from both maps.
LEMMA ForgottenKeepsNames ==
  ASSUME ServerType, Registered, NEW c \in Conns, Unregister(c)
  PROVE  NamesType' /\ Registered'
<1> USE LobbyAssumption
<1>1. /\ sess' \in [Conns -> {"none", "new", "in"}]
      /\ sess'[c] = "none" /\ \A d \in Conns \ {c} : sess'[d] = sess[d]
  BY DEF ServerType, Unregister, Set
<1>2. /\ uname' \in [Conns -> Names \cup {None}]
      /\ uname'[c] = None /\ \A d \in Conns \ {c} : uname'[d] = uname[d]
  BY DEF ServerType, Unregister, Set
<1>3. claimed' = claimed \ {c} /\ claimed \subseteq Conns
  BY DEF ServerType, Unregister
<1>4. CASE c \in claimed
  <2>1. sess[c] = "in" /\ uname[c] \in Names
    BY <1>4 DEF Registered
  <2>2. owner' = [owner EXCEPT ![uname[c]] = None]
    BY <1>4 DEF Unregister, NameFreed
  <2>3. /\ owner' \in [Names -> Conns \cup {None}]
        /\ owner'[uname[c]] = None
        /\ \A n \in Names \ {uname[c]} : owner'[n] = owner[n]
    BY <2>1, <2>2 DEF ServerType
  <2>4. owner[uname[c]] = c
    BY <2>1 DEF Registered, NamesExact
  <2>5. NamesExact'
    BY <1>1, <1>2, <2>1, <2>3, <2>4 DEF Registered, NamesExact
  <2> QED BY <1>1, <1>2, <1>3, <2>3, <2>5 DEF Registered, NamesType
<1>5. CASE c \notin claimed
  <2>1. sess[c] # "in" /\ owner' = owner
    BY <1>5 DEF Registered, Unregister, NameFreed
  <2>2. NamesExact'
    BY <1>1, <1>2, <2>1 DEF Registered, NamesExact
  <2> QED BY <1>1, <1>2, <1>3, <2>1, <2>2 DEF Registered, ServerType, NamesType
<1> QED BY <1>4, <1>5

\* The rooms are in order when a session has left an open one.
LEMMA LeftKeepsRooms ==
  ASSUME TypeOK, RoomsInv, NEW c \in Conns, attached[c] \in games,
         RoomLeft(c), attached' = Detached(c),
         \A d \in Conns \ {c} : sess'[d] = sess[d],
         caught' \in {caught, caught \ {c}}
  PROVE  RoomsInv'
<1> USE LobbyAssumption
<1>1. games \subseteq GameIds /\ games' \subseteq games /\ None \notin games
  <2>1. games' = IF isGm[c] THEN games \ {attached[c]} ELSE games
    BY DEF RoomLeft
  <2>2. games \subseteq GameIds
    BY OpenRooms
  <2>3. None \notin GameIds
    BY DEF GameIds
  <2> QED BY <2>1, <2>2, <2>3
<1>2. c \notin caught /\ (isGm[c] <=> gmOf[attached[c]] = c)
  BY GmHasIt DEF RoomsInv, RoomsExact
<1>3. attached'[c] = None
  BY DEF RoomLeft
<1>4. \A d \in Conns \ {c} :
        attached'[d] = IF isGm[c] /\ attached[d] = attached[c]
                       THEN None ELSE attached[d]
  BY DEF RoomLeft
<1>5. \A g \in games' : g \in games /\ gmOf'[g] = gmOf[g] /\ gmOf[g] # c
                         /\ members'[g] = members[g] \ {c}
                         /\ (isGm[c] => g # attached[c])
  <2>1. \A g \in games' : g \in games /\ gmOf'[g] = gmOf[g]
                          /\ members'[g] = members[g] \ {c}
                          /\ (isGm[c] => g # attached[c])
    BY <1>1 DEF RoomLeft
  <2>2. \A g \in games' : gmOf[g] # c
    BY <1>2, <2>1 DEF RoomsInv, RoomsExact
  <2> QED BY <2>1, <2>2
<1>6. \A g \in games', d \in Conns :
        attached'[d] = g <=> gmOf'[g] = d \/ d \in members'[g]
  BY <1>1, <1>3, <1>4, <1>5 DEF RoomsInv, RoomsExact
<1>7. \A d \in Conns : attached'[d] \in games' \cup {None} <=> d \notin caught'
  <2>1. games' = IF isGm[c] THEN games \ {attached[c]} ELSE games
    BY DEF RoomLeft
  <2>2. \A d \in Conns : attached[d] \in games \cup {None} <=> d \notin caught
    BY DEF RoomsInv, RoomsExact
  <2> QED BY <1>2, <1>3, <1>4, <2>1, <2>2
<1>8. \A d \in Conns : isGm'[d] <=> \E g \in games' : gmOf'[g] = d
  <2>1. \A d \in Conns : isGm'[d] <=> isGm[d] /\ d # c
    BY DEF RoomLeft
  <2>2. \A d \in Conns : isGm[d] <=> \E g \in games : gmOf[g] = d
    BY DEF RoomsInv, RoomsExact
  <2>3. \A g \in games : gmOf[g] # c => g \in games'
    BY <1>2 DEF RoomLeft
  <2> QED BY <1>5, <2>1, <2>2, <2>3
<1>9. \A g \in games' : gmOf'[g] # None
  BY <1>5 DEF RoomsInv, RoomsExact
<1>10. \A d \in Conns : attached'[d] # None =>
          sess'[d] = "in" /\ attached'[d] < idCtr'
  BY <1>3, <1>4 DEF RoomLeft, RoomsInv, RoomsExact
<1>11. \A g \in GameIds \ games' : members'[g] = {} /\ gmOf'[g] = None
  BY DEF RoomLeft
<1>12. vacant' \subseteq games'
  BY DEF RoomLeft
<1> QED BY <1>6, <1>7, <1>8, <1>9, <1>10, <1>11, <1>12 DEF RoomsInv, RoomsExact

\* onDisconnect keeps the registers: the name goes with the session, and so
\* does its place in a room, or the room.
LEMMA DisconnectKeeps ==
  ASSUME ServerInv, TypeOK, NEW c \in Conns, OnDisconnect(c),
         caught' = caught \ {c}
  PROVE  ServerInv'
<1>1. NamesType' /\ Registered'
  BY ForgottenKeepsNames DEF ServerInv, OnDisconnect, Forget
<1>2. \A d \in Conns \ {c} : sess'[d] = sess[d]
  BY DEF ServerInv, ServerType, OnDisconnect, Forget, Unregister, Set
<1>3. CASE attached[c] = None
  <2>1. ~isGm[c] /\ c \notin caught
    BY <1>3, OpenRooms, LobbyAssumption
    DEF ServerInv, RoomsInv, RoomsExact, GameIds
  <2>2. UNCHANGED <<isGm, roomVars, caught>>
    BY <1>3, <2>1 DEF OnDisconnect, Forget
  <2>3. Leaving(c) = {c}
    BY <2>1 DEF Leaving
  <2>4. attached' = attached
    BY <1>3, <2>3 DEF OnDisconnect, Detached, ServerInv, ServerType
  <2>5. RoomsInv'
    BY <1>2, <1>3, <2>2, <2>4 DEF ServerInv, RoomsInv, RoomsExact, roomVars
  <2> QED BY <1>1, <2>2, <2>4, <2>5
      DEF ServerInv, ServerType, NamesType, roomVars
<1>4. CASE attached[c] \notin games \cup {None}
  <2>1. LeaveRoom(c)
    BY <1>4 DEF OnDisconnect, Forget
  <2>2. /\ UNCHANGED <<isGm, roomVars>>
        /\ attached' = [attached EXCEPT ![c] = None]
    BY <1>4, <2>1, LeaveClosed DEF OnDisconnect, ServerInv, roomVars
  <2>3. /\ attached' \in [Conns -> GameIds \cup {None}]
        /\ attached'[c] = None
        /\ \A d \in Conns \ {c} : attached'[d] = attached[d]
    BY <2>2 DEF ServerInv, ServerType
  <2>4. \A g \in games : gmOf[g] # c /\ c \notin members[g]
    BY <1>4 DEF ServerInv, RoomsInv, RoomsExact
  <2>5. RoomsInv'
    BY <1>2, <2>2, <2>3, <2>4, OpenRooms, LobbyAssumption
    DEF ServerInv, RoomsInv, RoomsExact, roomVars, GameIds
  <2> QED BY <1>1, <2>2, <2>3, <2>5 
      DEF ServerInv, ServerType, NamesType, roomVars
<1>5. CASE attached[c] \in games
  <2>1. LeaveRoom(c)
    BY <1>5, OpenRooms, LobbyAssumption DEF OnDisconnect, Forget, GameIds
  <2>2. RoomLeft(c)
    BY <1>5, <2>1, LeaveRoomDoes DEF ServerInv
  <2>3. RoomsInv'
    BY <1>2, <1>5, <2>2, LeftKeepsRooms DEF ServerInv, OnDisconnect
  <2> QED BY <1>1, <2>2, <2>3
      DEF ServerInv, ServerType, NamesType, RoomLeft, OnDisconnect
<1> QED BY <1>3, <1>4, <1>5
\* A login is read by a session that is new, anything else by one that is in.
LEMMA SessionOfHead ==
  ASSUME TypeOK, LoginInv, NEW c \in Conns, sess[c] # "none", toServer[c] # <<>>
  PROVE  /\ Head(toServer[c]).kind = "login" <=> sess[c] = "new"
         /\ Head(toServer[c]).kind # "login" <=> sess[c] = "in"
<1>1. sess[c] = "new" => Head(toServer[c]).kind = "login"
  BY DEF LoginInv, LoginPart, NewInv, Message
<1>2. sess[c] # "new" => Head(toServer[c]).kind # "login"
  <2>1. toServer[c] \in Seq(MessagesToServer)
    BY DEF TypeOK
  <2>2. 1 \in DOMAIN toServer[c] /\ Head(toServer[c]) = toServer[c][1]
    BY <2>1
  <2> QED BY <2>2 DEF LoginInv, LoginPart, OldInv, Only
<1> QED BY <1>1, <1>2 DEF TypeOK

LEMMA ConnectServer ==
  ASSUME ServerInv, NEW c \in Conns, NEW n \in Names, Connect(c, n)
  PROVE  ServerInv'
<1> USE LobbyAssumption
<1>1. /\ sess[c] = "none" /\ attached[c] = None
      /\ sess' \in [Conns -> {"none", "new", "in"}]
      /\ sess'[c] = "new" /\ \A d \in Conns \ {c} : sess'[d] = sess[d]
      /\ uname' \in [Conns -> Names \cup {None}]
      /\ uname'[c] = n /\ \A d \in Conns \ {c} : uname'[d] = uname[d]
  BY DEF Connect, Set, ServerInv, ServerType, RoomsInv, RoomsExact
<1>2. UNCHANGED <<attached, isGm, owner, claimed, games, gmOf, members, vacant, idCtr,
                caught>>
  BY DEF Connect, roomVars
<1>3. Registered'
  BY <1>1, <1>2 DEF ServerInv, Registered, NamesExact
<1>4. RoomsInv'
  BY <1>1, <1>2 DEF ServerInv, RoomsInv, RoomsExact
<1> QED BY <1>1, <1>2, <1>3, <1>4 DEF ServerInv, ServerType

LEMMA LoginServer ==
  ASSUME ServerInv, TypeOK, LoginInv, NEW c \in Conns, ReadsLogin(c)
  PROVE  ServerInv'
<1> USE LobbyAssumption
<1>1. sess[c] = "new" /\ attached[c] = None /\ uname[c] \in Names
  BY SessionOfHead
  DEF ReadsLogin, ServerInv, RoomsInv, RoomsExact, Registered
<1>2. caught' = caught /\ c \notin caught
  BY <1>1 DEF ReadsLogin, ServerInv, RoomsInv, RoomsExact
<1>3. CASE owner[uname[c]] # None
  BY <1>2, <1>3, DisconnectKeeps DEF ReadsLogin, Login
<1>4. CASE owner[uname[c]] = None
  <2>1. /\ sess' = Set(sess, c, "in")
        /\ owner' = Set(owner, uname[c], c) /\ claimed' = claimed \cup {c}
        /\ UNCHANGED <<uname, attached, isGm, games, gmOf, members, vacant, idCtr>>
    BY <1>4 DEF ReadsLogin, Login, roomVars
  <2>2. /\ sess' \in [Conns -> {"none", "new", "in"}]
        /\ sess'[c] = "in" /\ \A d \in Conns \ {c} : sess'[d] = sess[d]
        /\ owner' \in [Names -> Conns \cup {None}]
        /\ owner'[uname[c]] = c
        /\ \A n \in Names \ {uname[c]} : owner'[n] = owner[n]
    BY <1>1, <2>1 DEF Set, ServerInv, ServerType
  <2>3. Registered'
    BY <1>1, <1>4, <2>1, <2>2 DEF ServerInv, Registered, NamesExact
  <2>4. RoomsInv'
    BY <1>1, <1>2, <2>1, <2>2 DEF ServerInv, RoomsInv, RoomsExact
  <2> QED BY <1>1, <1>2, <2>1, <2>2, <2>3, <2>4 DEF ServerInv, ServerType
<1> QED BY <1>3, <1>4

\* What changes neither a session nor a name keeps the names; what changes no
\* room keeps the rooms.
LEMMA NamesUntouched ==
  ASSUME Registered, UNCHANGED <<sess, uname, owner, claimed>>
  PROVE  Registered'
BY DEF Registered, NamesExact

LEMMA ServerUntouched ==
  ASSUME ServerInv, UNCHANGED <<sessionVars, roomVars, caught>>
  PROVE  ServerInv'
BY DEF ServerInv, ServerType, Registered, NamesExact, RoomsInv, RoomsExact,
   sessionVars, roomVars

LEMMA LeaveServer ==
  ASSUME ServerInv, TypeOK, NEW c \in Conns, ReadsLeave(c)
  PROVE  ServerInv'
<1> DEFINE g == Head(toServer[c]).game
<1>1. LeaveGame(c, g) /\ caught' = caught
  BY DEF ReadsLeave
<1>2. CASE attached[c] # g \/ g \notin games
  BY <1>1, <1>2, ServerUntouched DEF LeaveGame
<1>3. CASE attached[c] = g /\ g \in games
  <2>1. LeaveRoom(c) /\ attached' = Detached(c) /\ UNCHANGED <<sess, uname, owner, claimed>>
    BY <1>1, <1>3 DEF LeaveGame
  <2>2. RoomLeft(c)
    BY <1>3, <2>1, LeaveRoomDoes DEF ServerInv
  <2>3. RoomsInv'
    BY <1>1, <1>3, <2>1, <2>2, LeftKeepsRooms DEF ServerInv
  <2>4. Registered'
    BY <2>1, NamesUntouched DEF ServerInv
  <2> QED BY <1>1, <2>1, <2>2, <2>3, <2>4 DEF ServerInv, ServerType, RoomLeft
<1> QED BY <1>2, <1>3

LEMMA CreateServer ==
  ASSUME ServerInv, TypeOK, LoginInv, NEW c \in Conns, ReadsCreate(c)
  PROVE  ServerInv'
<1> USE LobbyAssumption
<1>1. sess[c] = "in" /\ attached[c] = None
  BY SessionOfHead DEF ReadsCreate
<1>2. /\ idCtr \in GameIds /\ idCtr' = idCtr + 1 /\ idCtr' \in 0..MaxGames
      /\ isGm' = [isGm EXCEPT ![c] = TRUE]
      /\ attached' = [attached EXCEPT ![c] = idCtr]
      /\ games' = games \cup {idCtr} /\ gmOf' = [gmOf EXCEPT ![idCtr] = c]
      /\ UNCHANGED <<sess, uname, owner, claimed, members, vacant, caught>>
  BY DEF ReadsCreate, CreateGame, NextId, Set, ServerInv, ServerType, GameIds
<1>3. idCtr \in Nat /\ idCtr \notin games /\ games \subseteq GameIds
  BY <1>2, OpenRooms DEF GameIds
<1>4. /\ attached'[c] = idCtr /\ \A d \in Conns \ {c} : attached'[d] = attached[d]
      /\ isGm'[c] = TRUE /\ \A d \in Conns \ {c} : isGm'[d] = isGm[d]
      /\ gmOf'[idCtr] = c /\ \A g \in GameIds \ {idCtr} : gmOf'[g] = gmOf[g]
      /\ members[idCtr] = {}
  BY <1>2, <1>3 DEF ServerInv, ServerType, RoomsInv
<1>5. \A d \in Conns : attached[d] # idCtr
  BY <1>3 DEF ServerInv, RoomsInv
<1>6. \A g \in games : gmOf[g] # c /\ c \notin members[g] /\ g # idCtr
  BY <1>1, <1>3 DEF ServerInv, RoomsInv, RoomsExact, GameIds
<1>7. c \notin caught /\ ~isGm[c]
  BY <1>1, <1>6 DEF ServerInv, RoomsInv, RoomsExact
<1>8. \A g \in games', d \in Conns :
        attached'[d] = g <=> gmOf'[g] = d \/ d \in members'[g]
  <2>1. \A g \in games, d \in Conns :
          attached[d] = g <=> gmOf[g] = d \/ d \in members[g]
    BY DEF ServerInv, RoomsInv, RoomsExact
  <2>2. games' = games \cup {idCtr} /\ members' = members
    BY <1>2
  <2>3. \A d \in Conns : attached'[d] = idCtr <=> d = c
    BY <1>4, <1>5
  <2> QED BY <1>3, <1>4, <1>6, <2>1, <2>2, <2>3
<1>9. \A d \in Conns : attached'[d] \in games' \cup {None} <=> d \notin caught'
  BY <1>2, <1>4, <1>5, <1>7 DEF ServerInv, RoomsInv, RoomsExact
<1>10. \A d \in Conns : isGm'[d] <=> \E g \in games' : gmOf'[g] = d
  BY <1>2, <1>3, <1>4, <1>6 DEF ServerInv, RoomsInv, RoomsExact
<1>11. /\ \A g \in games' : gmOf'[g] # None
       /\ \A d \in Conns : attached'[d] # None => sess'[d] = "in"
       /\ \A g \in GameIds \ games' : members'[g] = {} /\ gmOf'[g] = None
       /\ vacant' \subseteq games'
  BY <1>1, <1>2, <1>3, <1>4 DEF ServerInv, RoomsInv, RoomsExact
<1>12. \A d \in Conns : attached'[d] # None => attached'[d] < idCtr'
  <2>1. \A d \in Conns : attached[d] # None => attached[d] \in Nat /\ attached[d] < idCtr
    BY DEF ServerInv, ServerType, RoomsInv, GameIds
  <2> QED BY <1>2, <1>3, <1>4, <2>1
<1>13. RoomsInv'
  BY <1>8, <1>9, <1>10, <1>11, <1>12 DEF RoomsInv, RoomsExact
<1>14. Registered'
  BY <1>2, NamesUntouched DEF ServerInv
<1>15. games' \subseteq 0 .. idCtr' - 1
  BY <1>2, <1>3, OpenRooms
<1> QED BY <1>2, <1>13, <1>14, <1>15 DEF ServerInv, ServerType
LEMMA JoinServer ==
  ASSUME ServerInv, TypeOK, LoginInv, NEW c \in Conns, ReadsJoin(c)
  PROVE  ServerInv'
<1> USE LobbyAssumption
<1> DEFINE g == Head(toServer[c]).game
<1>1. sess[c] = "in" /\ attached[c] = None
  BY SessionOfHead DEF ReadsJoin
<1>2. UNCHANGED <<sess, uname, owner, claimed, isGm, games, gmOf, vacant, idCtr, caught>>
  BY DEF ReadsJoin, JoinGame
<1>3. CASE g \notin games
  <2>1. UNCHANGED <<attached, members>>
    BY <1>3 DEF ReadsJoin, JoinGame
  <2> QED BY <1>2, <2>1, ServerUntouched DEF sessionVars, roomVars
<1>4. CASE g \in games
  <2>1. /\ attached' = [attached EXCEPT ![c] = g]
        /\ members' = [members EXCEPT ![g] = @ \cup {c}]
    BY <1>4 DEF ReadsJoin, JoinGame, Set
  <2>2. g \in GameIds /\ g \in 0 .. idCtr - 1 /\ games \subseteq GameIds
    BY <1>4, OpenRooms
  <2>3. /\ attached' \in [Conns -> GameIds \cup {None}]
        /\ members' \in [GameIds -> SUBSET Conns]
        /\ attached'[c] = g /\ \A d \in Conns \ {c} : attached'[d] = attached[d]
        /\ members'[g] = members[g] \cup {c}
        /\ \A h \in GameIds \ {g} : members'[h] = members[h]
    BY <2>1, <2>2 DEF ServerInv, ServerType
  <2>4. \A h \in games : gmOf[h] # c /\ c \notin members[h]
    BY <1>1, <2>2 DEF ServerInv, RoomsInv, RoomsExact, GameIds
  <2>5. \A h \in games', d \in Conns :
          attached'[d] = h <=> gmOf'[h] = d \/ d \in members'[h]
    BY <1>2, <1>4, <2>2, <2>3, <2>4 DEF ServerInv, RoomsInv, RoomsExact
  <2>6. c \notin caught
    BY <1>1 DEF ServerInv, RoomsInv, RoomsExact
  <2>7. /\ \A d \in Conns : attached'[d] \in games' \cup {None} <=> d \notin caught'
        /\ \A d \in Conns : isGm'[d] <=> \E h \in games' : gmOf'[h] = d
        /\ \A h \in games' : gmOf'[h] # None
        /\ \A d \in Conns : attached'[d] # None => sess'[d] = "in"
        /\ \A h \in GameIds \ games' : members'[h] = {} /\ gmOf'[h] = None
        /\ vacant' \subseteq games'
    BY <1>1, <1>2, <1>4, <2>3, <2>6 DEF ServerInv, RoomsInv, RoomsExact
  <2>8. \A d \in Conns : attached'[d] # None => attached'[d] < idCtr'
    BY <1>2, <2>2, <2>3 DEF ServerInv, ServerType, RoomsInv
  <2>9. RoomsInv'
    BY <2>5, <2>7, <2>8 DEF RoomsInv, RoomsExact
  <2>10. Registered'
    BY <1>2, NamesUntouched DEF ServerInv
  <2> QED BY <1>2, <2>3, <2>9, <2>10 DEF ServerInv, ServerType
<1> QED BY <1>3, <1>4

\* The room of a join is closed under it.  What is left is the room's
\* departure, and a session that refers to it nonetheless.
JoinClosedEffect(c, g, m) ==
  /\ g \in games /\ g \in GameIds /\ g < idCtr
  /\ m \in Conns /\ m = gmOf[g] /\ attached[m] = g /\ isGm[m] /\ m # c
  /\ ~Running(m) /\ Unregister(m) /\ RoomLeft(m)
  /\ attached' = [Detached(m) EXCEPT ![c] = g]
  /\ caught' = caught \cup {c}
  /\ toClient' = Answered(c, "joined", None)

LEMMA JoinClosedDoes ==
  ASSUME ServerInv, TypeOK, LoginInv, NEW c \in Conns, ReadsJoinClosed(c)
  PROVE  \E m \in Conns : JoinClosedEffect(c, Head(toServer[c]).game, m)
<1> DEFINE g == Head(toServer[c]).game
           m == gmOf[g]
<1> USE LobbyAssumption
<1>1. g \in games /\ g \in GameIds /\ g < idCtr
  <2>1. g \in games
    BY DEF ReadsJoinClosed, JoinClosed
  <2>2. idCtr \in Nat
    BY DEF TypeOK
  <2> QED BY <2>1, <2>2, OpenRooms
<1>2. m \in Conns
  <2>1. gmOf[g] \in Conns \cup {None}
    BY <1>1 DEF ServerInv, ServerType
  <2>2. gmOf[g] # None
    BY <1>1 DEF ServerInv, RoomsInv, RoomsExact
  <2> QED BY <2>1, <2>2
<1>3. attached[m] = g /\ isGm[m]
  BY <1>1, <1>2 DEF ServerInv, RoomsInv, RoomsExact
<1>4. m # c
  BY <1>1, <1>3 DEF ReadsJoinClosed, GameIds
<1>5. /\ ~Running(m) /\ Forget(m)
      /\ attached' = [Detached(m) EXCEPT ![c] = g]
      /\ caught' = caught \cup {c}
      /\ toClient' = Answered(c, "joined", None)
  BY DEF ReadsJoinClosed, JoinClosed, Set
<1>6. Unregister(m)
  BY <1>5 DEF Forget
<1>7. LeaveRoom(m)
  BY <1>1, <1>3, <1>5 DEF Forget, GameIds
<1>8. RoomLeft(m)
  BY <1>1, <1>2, <1>3, <1>7, LeaveRoomDoes DEF ServerInv
<1> QED BY <1>1, <1>2, <1>3, <1>4, <1>5, <1>6, <1>8 DEF JoinClosedEffect

LEMMA JoinClosedServer ==
  ASSUME ServerInv, TypeOK, LoginInv, NEW c \in Conns, ReadsJoinClosed(c)
  PROVE  ServerInv'
<1> USE LobbyAssumption
<1> DEFINE g == Head(toServer[c]).game
<1>1. sess[c] = "in" /\ attached[c] = None
  BY SessionOfHead DEF ReadsJoinClosed
<1>2. PICK m \in Conns : JoinClosedEffect(c, g, m)
  BY JoinClosedDoes
<1>3. /\ g \in games /\ g \in GameIds /\ g < idCtr
      /\ m = gmOf[g] /\ attached[m] = g /\ isGm[m] = TRUE /\ m # c
      /\ RoomLeft(m) /\ Unregister(m)
  BY <1>2 DEF JoinClosedEffect, ServerInv, ServerType
<1>4. /\ games' = games \ {g} /\ idCtr' = idCtr
      /\ \A h \in games' : gmOf'[h] = gmOf[h] /\ members'[h] = members[h] \ {m}
      /\ \A h \in GameIds \ games' : gmOf'[h] = None /\ members'[h] = {}
      /\ \A d \in Conns : isGm'[d] <=> isGm[d] /\ d # m
      /\ vacant' \subseteq games'
  BY <1>3 DEF RoomLeft
<1>5. /\ attached' \in [Conns -> GameIds \cup {None}]
      /\ attached'[c] = g
      /\ \A d \in Conns \ {c} :
           attached'[d] = IF attached[d] = g THEN None ELSE attached[d]
  <2>1. attached' = [Detached(m) EXCEPT ![c] = g]
    BY <1>2 DEF JoinClosedEffect
  <2>2. /\ Detached(m) \in [Conns -> GameIds \cup {None}]
        /\ \A d \in Conns :
             Detached(m)[d] = IF attached[d] = g THEN None ELSE attached[d]
    BY SMTT(30), <1>3 DEF RoomLeft
  <2> QED BY <1>3, <2>1, <2>2
<1>6. \A h \in games : h # g => gmOf[h] # m /\ m \notin members[h]
  BY <1>3 DEF ServerInv, RoomsInv, RoomsExact
<1>7. \A h \in games : gmOf[h] # c /\ c \notin members[h]
  BY <1>1, OpenRooms DEF ServerInv, RoomsInv, RoomsExact, GameIds
<1>8. \A h \in games', d \in Conns :
        attached'[d] = h <=> gmOf'[h] = d \/ d \in members'[h]
  <2>1. \A h \in games' : h \in games /\ h # g /\ h # None
    BY <1>4, OpenRooms DEF GameIds
  <2>2. \A h \in games', d \in Conns :
          attached[d] = h <=> gmOf[h] = d \/ d \in members[h]
    BY <2>1 DEF ServerInv, RoomsInv, RoomsExact
  <2>3. \A h \in games', d \in Conns : attached'[d] = h <=> attached[d] = h
    BY <1>1, <1>5, <2>1
  <2> QED BY <1>4, <1>6, <2>1, <2>2, <2>3
<1>9. \A d \in Conns : attached'[d] \in games' \cup {None} <=> d \notin caught'
  <2>1. caught' = caught \cup {c} /\ g # None
    BY SMTT(30), <1>2, <1>3 DEF JoinClosedEffect, GameIds
  <2>2. \A d \in Conns : attached[d] \in games \cup {None} <=> d \notin caught
    BY DEF ServerInv, RoomsInv, RoomsExact
  <2> QED BY <1>3, <1>4, <1>5, <2>1, <2>2
<1>10. \A d \in Conns : isGm'[d] <=> \E h \in games' : gmOf'[h] = d
  <2>1. \A d \in Conns : isGm[d] <=> \E h \in games : gmOf[h] = d
    BY DEF ServerInv, RoomsInv, RoomsExact
  <2> QED BY <1>3, <1>4, <1>6, <2>1
<1>11. \A h \in games' : gmOf'[h] # None
  BY <1>4 DEF ServerInv, RoomsInv, RoomsExact
<1>12. \A d \in Conns : attached'[d] # None =>
          sess'[d] = "in" /\ attached'[d] < idCtr'
  <2>1. \A d \in Conns \ {m} : sess'[d] = sess[d]
    BY <1>3 DEF Unregister, Set, ServerInv, ServerType
  <2> QED BY SMTT(30), <1>1, <1>3, <1>4, <1>5, <2>1 DEF ServerInv, RoomsInv, RoomsExact
<1>13. RoomsInv'
  BY <1>4, <1>8, <1>9, <1>10, <1>11, <1>12 DEF RoomsInv, RoomsExact
<1>14. NamesType' /\ Registered'
  BY <1>3, ForgottenKeepsNames DEF ServerInv
<1>15. caught' \subseteq Conns
  BY <1>2 DEF JoinClosedEffect, ServerInv, ServerType
<1>16. /\ isGm' \in [Conns -> BOOLEAN]
       /\ gmOf' \in [GameIds -> Conns \cup {None}]
       /\ members' \in [GameIds -> SUBSET Conns] /\ vacant' \subseteq GameIds
  BY <1>3 DEF RoomLeft
<1>17. idCtr' \in 0..MaxGames /\ games' \subseteq 0 .. idCtr' - 1
  BY <1>4 DEF ServerInv, ServerType
<1>18. ServerType'
  BY <1>5, <1>14, <1>15, <1>16, <1>17 DEF ServerType, NamesType
<1> QED BY <1>13, <1>14, <1>18 DEF ServerInv

\* A joiner who cannot be told leaves the registers as it would anywhere, and
\* an empty slot in a room that is open.
LEMMA JoinLostServer ==
  ASSUME ServerInv, TypeOK, NEW c \in Conns, JoinLost(c)
  PROVE  ServerInv'
<1> DEFINE g == Head(toServer[c]).game
<1>1. /\ attached[c] = None /\ g \in games /\ Unregister(c)
      /\ vacant' = vacant \cup {g}
      /\ UNCHANGED <<attached, isGm, games, gmOf, members, idCtr, caught>>
  BY DEF JoinLost
<1>2. NamesType' /\ Registered'
  BY <1>1, ForgottenKeepsNames DEF ServerInv
<1>3. \A d \in Conns \ {c} : sess'[d] = sess[d]
  BY <1>1 DEF ServerInv, ServerType, Unregister, Set
<1>4. vacant' \subseteq GameIds /\ vacant' \subseteq games'
  <2>1. vacant \subseteq games
    BY DEF ServerInv, RoomsInv, RoomsExact
  <2>2. games \subseteq GameIds
    BY OpenRooms
  <2> QED BY <1>1, <2>1, <2>2
<1>5. RoomsInv'
  BY <1>1, <1>3, <1>4 DEF ServerInv, RoomsInv, RoomsExact
<1> QED BY <1>1, <1>2, <1>4, <1>5 DEF ServerInv, ServerType, NamesType
-----------------------------------------------------------------------------
(* What a step of one connection does to the others: it may take their room *)
(* from them, or chat to them.                                              *)

Others(d) ==
  /\ sess'[d] = sess[d] /\ toServer'[d] = toServer[d]
  /\ client'[d] = client[d] /\ lobby'[d] = lobby[d]
  /\ d \in hasty' <=> d \in hasty
  /\ attached'[d] \in {attached[d], None}
  /\ isGm'[d] = isGm[d]
  /\ attached'[d] # attached[d] => ~isGm[d]
  /\ Chatted(d)

\* A game master that is gone, and that the server now knows to be gone.
GoneGm(d) ==
  /\ sess[d] = "in" /\ sess'[d] = "none" /\ ~Running(d)
  /\ toServer'[d] = toServer[d] /\ toClient'[d] = toClient[d]
  /\ client'[d] = client[d] /\ lobby'[d] = lobby[d]
  /\ d \in hasty' <=> d \in hasty

\* A stream that is chatted to.
LEMMA ChattedKeeps ==
  ASSUME TypeOK, NEW d \in Conns, Chatted(d)
  PROVE  /\ \A K : "chat" \in K /\ Only(toClient[d], K) => Only(toClient'[d], K)
         /\ \A m, k : Pending(toClient[d], m, k) => Pending(toClient'[d], m, k)
         /\ ~Running(d) => toClient'[d] = toClient[d]
<1>1. toClient[d] \in Seq(MessagesToClient)
  BY DEF TypeOK
<1>2. /\ Message("chat", None) \in MessagesToClient
      /\ Message("chat", None).kind = "chat"
  BY DEF MessagesToClient, Message
<1>3. ASSUME NEW K, "chat" \in K, Only(toClient[d], K)
      PROVE  Only(toClient'[d], K)
  BY <1>1, <1>2, <1>3, OnlyKept DEF Chatted
<1>4. ASSUME NEW m, NEW k, Pending(toClient[d], m, k)
      PROVE  Pending(toClient'[d], m, k)
  BY <1>1, <1>2, <1>4, PendingChat DEF Chatted
<1> QED BY <1>3, <1>4 DEF Chatted

LEMMA OthersLogin ==
  ASSUME TypeOK, LoginInv, NEW d \in Conns, Others(d)
  PROVE  LoginPart(d)'
<1>1. /\ \A K : "chat" \in K /\ Only(toClient[d], K) => Only(toClient'[d], K)
      /\ \A m, k : Pending(toClient[d], m, k) => Pending(toClient'[d], m, k)
      /\ ~Running(d) => toClient'[d] = toClient[d]
  BY ChattedKeeps DEF Others
<1>2. LoginPart(d)
  BY DEF LoginInv
<1>3. NewInv(d)'
  BY <1>1, <1>2 DEF LoginPart, NewInv, Others
<1>4. OldInv(d)'
  BY <1>2 DEF LoginPart, OldInv, Others
<1>5. GoneInv(d)'
  BY <1>1, <1>2 DEF LoginPart, GoneInv, Others, Running
<1>6. LoggingInInv(d)'
  BY <1>1, <1>2 DEF LoginPart, LoggingInInv, Others
<1>7. LoggedInInv(d)'
  BY <1>1, <1>2 DEF LoginPart, LoggedInInv, Others
<1> QED BY <1>3, <1>4, <1>5, <1>6, <1>7 DEF LoginPart

LEMMA OthersTold ==
  ASSUME TypeOK, NEW d \in Conns, Told(d), Others(d)
  PROVE  Told(d)'
<1>1. /\ \A K : "chat" \in K /\ Only(toClient[d], K) => Only(toClient'[d], K)
      /\ \A m, k : Pending(toClient[d], m, k) => Pending(toClient'[d], m, k)
  BY ChattedKeeps DEF Others
<1>2. LeavesRoom(d) => LeavesRoom(d)'
  BY DEF LeavesRoom, Others
<1>3. \A m : Asks(d, m) => Asks(d, m)'
  BY <1>1, <1>2 DEF Asks, Others
<1>4. \A m : IsTold(d, m) => IsTold(d, m)'
  BY <1>1 DEF IsTold, Others
<1>5. IdleInv(d)'
  BY <1>1, <1>2 DEF Told, IdleInv, Others
<1>6. GmInitInv(d)'
  BY <1>3, <1>4 DEF Told, GmInitInv, Others
<1>7. PlayerInitInv(d)'
  BY <1>3, <1>4 DEF Told, PlayerInitInv, Others
<1>8. ActiveInv(d)'
  BY <1>1 DEF Told, ActiveInv, Others
<1> QED BY <1>5, <1>6, <1>7, <1>8 DEF Told

LEMMA GoneGmKept ==
  ASSUME TypeOK, LoginInv, NEW d \in Conns, GoneGm(d)
  PROVE  LoginPart(d)' /\ Told(d)'
<1>1. LoginPart(d)
  BY DEF LoginInv
<1>2. client'[d] \in {"off", "threw"}
  BY DEF GoneGm, Running, TypeOK
<1>3. LoginPart(d)'
  BY <1>1, <1>2 DEF LoginPart, NewInv, OldInv, GoneInv, LoggingInInv, LoggedInInv,
                   GoneGm, Running
<1>4. Told(d)'
  BY <1>2 DEF Told, IdleInv, GmInitInv, PlayerInitInv, ActiveInv
<1> QED BY <1>3, <1>4

\* A step of a connection keeps what is said of the streams when it keeps it of
\* its own.
Kept(c) ==
  /\ ClientType'
  /\ toServer' \in [Conns -> Seq(MessagesToServer)]
  /\ toClient' \in [Conns -> Seq(MessagesToClient)]
  /\ \A d \in Conns \ {c} :
       (Others(d) \/ GoneGm(d)) /\ (d \in caught => d \in caught')
  /\ LoginPart(c)'
  /\ c \notin hasty' \cup caught' => Told(c)'

LEMMA KeptKeeps ==
  ASSUME LobbyInv, ServerInv', NEW c \in Conns, Kept(c)
  PROVE  LobbyInv'
<1>1. TypeOK'
  BY DEF Kept, ServerInv, TypeOK, ServerType, ClientType
<1>2. \A d \in Conns \ {c} : LoginPart(d)'
  BY OthersLogin, GoneGmKept DEF Kept, LobbyInv
<1>3. \A d \in Conns \ {c} : d \notin hasty' \cup caught' => Told(d)'
  <2> TAKE d \in Conns \ {c}
  <2> HAVE d \notin hasty' \cup caught'
  <2>1. d \notin hasty \cup caught
    BY DEF Kept, Others, GoneGm
  <2> QED BY <2>1, OthersTold, GoneGmKept DEF Kept, LobbyInv, TalkInv
<1>4. LoginInv'
  BY <1>2 DEF Kept, LoginInv
<1>5. TalkInv'
  BY <1>3 DEF Kept, TalkInv
<1> QED BY <1>1, <1>4, <1>5 DEF LobbyInv, ServerInv
-----------------------------------------------------------------------------
(* The steps of the client. *)

\* A client that is not one of the five that are logged in is told nothing.
LEMMA NothingTold ==
  ASSUME NEW c \in Conns, client'[c] \in {"off", "threw", "login"}
  PROVE  Told(c)'
BY DEF Told, IdleInv, GmInitInv, PlayerInitInv, ActiveInv

LEMMA ConnectKept ==
  ASSUME LobbyInv, NEW c \in Conns, NEW n \in Names, Connect(c, n)
  PROVE  Kept(c)
<1> USE DEF LobbyInv
<1>1. /\ ~Running(c) /\ sess[c] = "none"
      /\ toClient[c] = <<>> /\ lobby[c] = None /\ c \notin hasty
  BY DEF Connect, LoginInv, LoginPart, GoneInv
<1>2. /\ client' \in [Conns -> {"off", "threw", "login", "IDLE", "GM_INIT",
                               "GM_ACTIVE", "PLAYER_INIT", "PLAYER_ACTIVE"}]
      /\ client'[c] = "login" /\ \A d \in Conns \ {c} : client'[d] = client[d]
      /\ sess'[c] = "new" /\ \A d \in Conns \ {c} : sess'[d] = sess[d]
  BY DEF Connect, Set, TypeOK
<1>3. Message("login", None) \in MessagesToServer
  BY DEF MessagesToServer
<1>4. /\ toServer' \in [Conns -> Seq(MessagesToServer)]
      /\ toServer'[c] = <<Message("login", None)>>
      /\ \A d \in Conns \ {c} : toServer'[d] = toServer[d]
  BY <1>3 DEF Connect, TypeOK
<1>5. UNCHANGED <<attached, isGm, lobby, hasty, toClient, caught>>
  BY DEF Connect
<1>6. ClientType' /\ toClient' \in [Conns -> Seq(MessagesToClient)]
  BY <1>2, <1>5 DEF ClientType, TypeOK
<1>7. \A d \in Conns \ {c} : Others(d) /\ (d \in caught => d \in caught')
  BY <1>2, <1>4, <1>5 DEF Others, Chatted
<1>8. LoginPart(c)'
  BY <1>1, <1>2, <1>4, <1>5
  DEF LoginPart, NewInv, OldInv, GoneInv, LoggingInInv, LoggedInInv, Only, Running
<1>9. Told(c)'
  BY <1>2, NothingTold
<1> QED BY <1>4, <1>6, <1>7, <1>8, <1>9 DEF Kept

\* A command sends at most one message; the server keeps what it has.
CommandSends(c, st, lb, k, g) ==
  /\ client' = Set(client, c, st) /\ lobby' = Set(lobby, c, lb)
  /\ toServer' = Sent(c, k, g)
  /\ UNCHANGED <<sessionVars, roomVars, toClient, caught>>

LEMMA CommandFrame ==
  ASSUME LobbyInv, NEW c \in Conns,
         NEW st \in {"IDLE", "GM_INIT", "GM_ACTIVE", "PLAYER_INIT", "PLAYER_ACTIVE"},
         NEW lb \in GameIds \cup {None}, NEW k, NEW g,
         Message(k, g) \in MessagesToServer,
         k \in {"create", "chat", "join", "leave"},
         Running(c), client[c] # "login", hasty' \in {hasty, hasty \cup {c}},
         CommandSends(c, st, lb, k, g)
  PROVE  /\ client'[c] = st /\ lobby'[c] = lb
         /\ toServer'[c] = Append(toServer[c], Message(k, g))
         /\ UNCHANGED <<attached, isGm, toClient, sess>>
         /\ c \notin hasty' \cup caught' => Told(c)
         /\ (c \notin hasty' \cup caught' => Told(c)') => Kept(c)
<1> USE DEF LobbyInv
<1>1. /\ client' \in [Conns -> {"off", "threw", "login", "IDLE", "GM_INIT",
                               "GM_ACTIVE", "PLAYER_INIT", "PLAYER_ACTIVE"}]
      /\ client'[c] = st /\ \A d \in Conns \ {c} : client'[d] = client[d]
      /\ lobby' \in [Conns -> GameIds \cup {None}]
      /\ lobby'[c] = lb /\ \A d \in Conns \ {c} : lobby'[d] = lobby[d]
  BY DEF CommandSends, Set, TypeOK
<1>2. /\ toServer' \in [Conns -> Seq(MessagesToServer)]
      /\ toServer'[c] = Append(toServer[c], Message(k, g))
      /\ \A d \in Conns \ {c} : toServer'[d] = toServer[d]
  BY SentStream DEF CommandSends
<1>3. UNCHANGED <<sess, attached, isGm, toClient, caught>>
  BY DEF CommandSends, sessionVars
<1>4. ClientType' /\ toClient' \in [Conns -> Seq(MessagesToClient)]
  BY <1>1, <1>3 DEF ClientType, TypeOK
<1>5. \A d \in Conns \ {c} : Others(d) /\ (d \in caught => d \in caught')
  BY <1>1, <1>2, <1>3 DEF Others, Chatted
<1>6. LoginPart(c)
  BY DEF LoginInv
<1>7. sess[c] # "new"
  BY <1>6 DEF LoginPart, NewInv, Running
<1>8. Only(toServer'[c], {"create", "chat", "join", "leave"})
  <2>1. Only(toServer[c], {"create", "chat", "join", "leave"})
    BY <1>6, <1>7 DEF LoginPart, OldInv
  <2>2. toServer[c] \in Seq(MessagesToServer) /\ Message(k, g).kind = k
    BY DEF TypeOK, Message
  <2> QED BY <1>2, <2>1, <2>2, OnlyKept
<1>9. LoginPart(c)'
  BY <1>1, <1>3, <1>6, <1>7, <1>8
  DEF LoginPart, NewInv, OldInv, GoneInv, LoggingInInv, LoggedInInv, Running
<1>10. c \notin hasty' \cup caught' => Told(c)
  BY <1>3 DEF TalkInv
<1> QED BY <1>1, <1>2, <1>3, <1>4, <1>5, <1>9, <1>10 DEF Kept

LEMMA CreateKept ==
  ASSUME LobbyInv, NEW c \in Conns, CmdCreate(c),
         UNCHANGED <<sessionVars, roomVars, toClient, caught>>
  PROVE  Kept(c)
<1> USE DEF LobbyInv
<1>1. client[c] = "IDLE" /\ Running(c)
  BY DEF CmdCreate, Running
<1>2. CommandSends(c, "GM_INIT", lobby[c], "create", None)
  BY DEF CmdCreate, CommandSends, Set, TypeOK
<1>3. Message("create", None) \in MessagesToServer
  BY DEF MessagesToServer
<1>4. lobby[c] \in GameIds \cup {None} /\ toServer[c] \in Seq(MessagesToServer)
  BY DEF TypeOK
<1>5. /\ client'[c] = "GM_INIT"
      /\ toServer'[c] = Append(toServer[c], Message("create", None))
      /\ UNCHANGED <<attached, isGm, toClient, sess>>
      /\ c \notin hasty' \cup caught' => Told(c)
      /\ (c \notin hasty' \cup caught' => Told(c)') => Kept(c)
  BY ZenonT(60), <1>1, <1>2, <1>3, <1>4, CommandFrame DEF CmdCreate
<1>6. ASSUME Told(c)
      PROVE  Told(c)'
  <2>1. /\ Only(toServer[c], {"chat", "leave"})
        /\ Only(toClient[c], {"chat", "removed"})
        /\ LeavesRoom(c)
    BY <1>1, <1>6 DEF Told, IdleInv
  <2>2. Pending(toServer'[c], Message("create", None), "leave")
    BY <1>3, <1>4, <1>5, <2>1, PendingSent
  <2>3. LeavesRoom(c)'
    BY <1>3, <1>4, <1>5, <2>1 DEF LeavesRoom
  <2>4. Asks(c, Message("create", None))'
    BY <1>5, <2>1, <2>2, <2>3 DEF Asks
  <2> QED BY <1>5, <2>4 DEF Told, IdleInv, GmInitInv, PlayerInitInv, ActiveInv
<1> QED BY <1>5, <1>6
LEMMA JoinKept ==
  ASSUME LobbyInv, NEW c \in Conns, NEW g \in GameIds, CmdJoin(c, g),
         UNCHANGED <<sessionVars, roomVars, toClient, caught>>
  PROVE  Kept(c)
<1> USE DEF LobbyInv
<1>1. client[c] = "IDLE" /\ Running(c)
  BY DEF CmdJoin, Running
<1>2. CommandSends(c, "PLAYER_INIT", g, "join", g)
  BY DEF CmdJoin, CommandSends
<1>3. Message("join", g) \in MessagesToServer
  BY DEF MessagesToServer
<1>4. toServer[c] \in Seq(MessagesToServer)
  BY DEF TypeOK
<1>5. /\ client'[c] = "PLAYER_INIT" /\ lobby'[c] = g
      /\ toServer'[c] = Append(toServer[c], Message("join", g))
      /\ UNCHANGED <<attached, isGm, toClient, sess>>
      /\ c \notin hasty' \cup caught' => Told(c)
      /\ (c \notin hasty' \cup caught' => Told(c)') => Kept(c)
  BY <1>1, <1>2, <1>3, CommandFrame DEF CmdJoin
<1>6. ASSUME Told(c)
      PROVE  Told(c)'
  <2>1. /\ Only(toServer[c], {"chat", "leave"})
        /\ Only(toClient[c], {"chat", "removed"})
        /\ LeavesRoom(c)
    BY <1>1, <1>6 DEF Told, IdleInv
  <2>2. Pending(toServer'[c], Message("join", g), "leave")
    BY <1>3, <1>4, <1>5, <2>1, PendingSent
  <2>3. LeavesRoom(c)'
    BY <1>3, <1>4, <1>5, <2>1 DEF LeavesRoom
  <2>4. Asks(c, Message("join", lobby[c]))'
    BY <1>5, <2>1, <2>2, <2>3 DEF Asks
  <2> QED BY <1>5, <2>4 DEF Told, IdleInv, GmInitInv, PlayerInitInv, ActiveInv
<1> QED BY <1>5, <1>6

LEMMA ChatKept ==
  ASSUME LobbyInv, NEW c \in Conns, CmdChat(c),
         UNCHANGED <<sessionVars, roomVars, toClient, caught>>
  PROVE  Kept(c)
<1> USE DEF LobbyInv
<1>1. /\ client[c] \in {"IDLE", "GM_INIT", "GM_ACTIVE", "PLAYER_INIT",
                        "PLAYER_ACTIVE"}
      /\ Running(c)
  BY DEF CmdChat, Running, TypeOK
<1>2. CommandSends(c, client[c], lobby[c], "chat", None)
  BY DEF CmdChat, CommandSends, Set, TypeOK
<1>3. Message("chat", None) \in MessagesToServer
  BY DEF MessagesToServer
<1>4. lobby[c] \in GameIds \cup {None} /\ toServer[c] = <<>>
  BY DEF TypeOK, CmdChat
<1>5. /\ client'[c] = client[c] /\ lobby'[c] = lobby[c]
      /\ toServer'[c] = Append(toServer[c], Message("chat", None))
      /\ UNCHANGED <<attached, isGm, toClient, sess>>
      /\ c \notin hasty' \cup caught' => Told(c)
      /\ (c \notin hasty' \cup caught' => Told(c)') => Kept(c)
  BY <1>1, <1>2, <1>3, <1>4, CommandFrame DEF CmdChat
<1>6. toServer'[c] = <<Message("chat", None)>>
  BY <1>4, <1>5
<1>7. Only(toServer'[c], {"chat"}) /\ Only(toServer'[c], {"chat", "leave"})
  BY <1>6 DEF Only, Message
<1>8. ASSUME Told(c)
      PROVE  Told(c)'
  <2>1. \A m : ~Asks(c, m)
    BY <1>4, NothingPending DEF Asks
  <2>2. LeavesRoom(c) => attached[c] = None
    BY <1>4 DEF LeavesRoom
  <2>3. IdleInv(c)'
    BY <1>5, <1>7, <1>8, <2>2 DEF Told, IdleInv, LeavesRoom
  <2>4. GmInitInv(c)'
    BY <1>5, <1>7, <1>8, <2>1 DEF Told, GmInitInv, IsTold
  <2>5. PlayerInitInv(c)'
    BY <1>5, <1>7, <1>8, <2>1 DEF Told, PlayerInitInv, IsTold
  <2>6. ActiveInv(c)'
    BY <1>5, <1>7, <1>8 DEF Told, ActiveInv
  <2> QED BY <2>3, <2>4, <2>5, <2>6 DEF Told
<1> QED BY <1>5, <1>8

\* A leave goes out when the client knows its room.
LEMMA LeaveKept ==
  ASSUME LobbyInv, NEW c \in Conns, CmdLeave(c),
         UNCHANGED <<sessionVars, roomVars, toClient, caught>>
  PROVE  Kept(c)
<1> USE DEF LobbyInv
<1>1. /\ client[c] \in {"GM_INIT", "GM_ACTIVE", "PLAYER_INIT", "PLAYER_ACTIVE"}
      /\ Running(c) /\ client[c] # "login"
  BY DEF CmdLeave, Running, InRoom, Waiting
<1>2. hasty' = IF Waiting(c) THEN hasty \cup {c} ELSE hasty
  BY DEF CmdLeave
<1>3. lobby[c] \in GameIds \cup {None} /\ toServer[c] \in Seq(MessagesToServer)
  BY DEF TypeOK
<1>4. CASE lobby[c] # None
  <2>1. CommandSends(c, "IDLE", None, "leave", lobby[c])
    BY <1>4 DEF CmdLeave, CommandSends, LeaveSent
  <2>2. Message("leave", lobby[c]) \in MessagesToServer
    BY <1>3, <1>4 DEF MessagesToServer
  <2>3. hasty' \in {hasty, hasty \cup {c}}
    BY <1>2
  <2>4. /\ client'[c] = "IDLE"
        /\ toServer'[c] = Append(toServer[c], Message("leave", lobby[c]))
        /\ UNCHANGED <<attached, isGm, toClient, sess>>
        /\ c \notin hasty' \cup caught' => Told(c)
        /\ (c \notin hasty' \cup caught' => Told(c)') => Kept(c)
    BY <1>1, <2>1, <2>2, <2>3, CommandFrame
  <2>5. ASSUME Told(c), c \notin hasty'
        PROVE  Told(c)'
    <3>1. client[c] \in {"GM_ACTIVE", "PLAYER_ACTIVE"}
      BY <1>1, <1>2, <2>5 DEF Waiting
    <3>2. /\ Only(toServer[c], {"chat"}) /\ Only(toClient[c], {"chat"})
          /\ attached[c] # None => lobby[c] = attached[c]
      BY <2>5, <3>1 DEF Told, ActiveInv
    <3>3. Only(toServer[c], {"chat", "leave"}) /\ Only(toClient[c], {"chat", "removed"})
      BY <3>2 DEF Only
    <3>4. Message("leave", lobby[c]).kind = "leave"
      BY DEF Message
    <3>5. Only(toServer'[c], {"chat", "leave"})
      BY <1>3, <2>2, <2>4, <3>3, <3>4, OnlyKept
    <3>6. LeavesRoom(c)'
      <4>1. /\ Len(toServer[c]) + 1 \in DOMAIN toServer'[c]
            /\ toServer'[c][Len(toServer[c]) + 1] = Message("leave", lobby[c])
        BY <1>3, <2>2, <2>4
      <4> QED BY <2>4, <3>2, <4>1 DEF LeavesRoom
    <3> QED BY <2>4, <3>3, <3>5, <3>6
        DEF Told, IdleInv, GmInitInv, PlayerInitInv, ActiveInv
  <2> QED BY <2>4, <2>5
<1>5. CASE lobby[c] = None
  <2>1. toServer' = toServer /\ UNCHANGED <<attached, isGm, sess, caught>>
    BY <1>5 DEF CmdLeave, LeaveSent, sessionVars
  <2>2. /\ client' \in [Conns -> {"off", "threw", "login", "IDLE", "GM_INIT",
                                 "GM_ACTIVE", "PLAYER_INIT", "PLAYER_ACTIVE"}]
        /\ client'[c] = "IDLE" /\ \A d \in Conns \ {c} : client'[d] = client[d]
        /\ lobby' \in [Conns -> GameIds \cup {None}]
        /\ lobby'[c] = None /\ \A d \in Conns \ {c} : lobby'[d] = lobby[d]
    BY DEF CmdLeave, Set, TypeOK
  <2>3. \A d \in Conns \ {c} : Others(d) /\ (d \in caught => d \in caught')
    BY <1>2, <2>1, <2>2 DEF Others, Chatted
  <2>4. ClientType'
    BY <1>2, <2>2 DEF ClientType, TypeOK
  <2>5. LoginPart(c)
    BY DEF LoginInv
  <2>6. sess[c] # "new"
    BY <1>1, <2>5 DEF LoginPart, NewInv, Running
  <2>7. LoginPart(c)'
    BY <1>1, <2>1, <2>2, <2>5, <2>6
    DEF LoginPart, NewInv, OldInv, GoneInv, LoggingInInv, LoggedInInv, Running
  <2>8. ASSUME c \notin hasty' \cup caught'
        PROVE  Told(c)'
    <3>1. Told(c) /\ client[c] \in {"GM_ACTIVE", "PLAYER_ACTIVE"}
      BY <1>1, <1>2, <2>1, <2>8 DEF Waiting, TalkInv
    <3>2. /\ Only(toServer[c], {"chat"}) /\ Only(toClient[c], {"chat"})
          /\ attached[c] = None
      BY <1>5, <3>1 DEF Told, ActiveInv
    <3>3. Only(toServer[c], {"chat", "leave"}) /\ Only(toClient[c], {"chat", "removed"})
      BY <3>2 DEF Only
    <3> QED BY <2>1, <2>2, <3>2, <3>3
        DEF Told, IdleInv, GmInitInv, PlayerInitInv, ActiveInv, LeavesRoom
  <2> QED BY <2>1, <2>3, <2>4, <2>7, <2>8 DEF Kept, TypeOK
<1> QED BY <1>4, <1>5
\* A process that ends leaves its stream to the server as it is, or ends it
\* with a leave.
LEMMA GoneKept ==
  ASSUME LobbyInv, NEW c \in Conns, NEW how \in {"off", "threw"}, Gone(c, how),
         Running(c), toServer' \in {toServer, LeaveSent(c)},
         UNCHANGED <<sessionVars, roomVars, caught>>
  PROVE  Kept(c)
<1> USE DEF LobbyInv
<1>1. /\ client' \in [Conns -> {"off", "threw", "login", "IDLE", "GM_INIT",
                               "GM_ACTIVE", "PLAYER_INIT", "PLAYER_ACTIVE"}]
      /\ client'[c] = how /\ \A d \in Conns \ {c} : client'[d] = client[d]
      /\ lobby' \in [Conns -> GameIds \cup {None}]
      /\ lobby'[c] = None /\ \A d \in Conns \ {c} : lobby'[d] = lobby[d]
      /\ hasty' = hasty \ {c}
  BY DEF Gone, Set, TypeOK
<1>2. /\ toClient' \in [Conns -> Seq(MessagesToClient)]
      /\ toClient'[c] = <<>> /\ \A d \in Conns \ {c} : toClient'[d] = toClient[d]
  BY DEF Gone, Set, TypeOK
<1>3. LoginPart(c)
  BY DEF LoginInv
<1>4. /\ toServer' \in [Conns -> Seq(MessagesToServer)]
      /\ \A d \in Conns \ {c} : toServer'[d] = toServer[d]
      /\ \/ toServer'[c] = toServer[c]
         \/ /\ lobby[c] # None
            /\ toServer'[c] = Append(toServer[c], Message("leave", lobby[c]))
            /\ Message("leave", lobby[c]) \in MessagesToServer
  <2>1. CASE toServer' = toServer
    BY <2>1 DEF TypeOK
  <2>2. CASE toServer' # toServer
    <3>1. lobby[c] # None /\ toServer' = Sent(c, "leave", lobby[c])
      BY <2>2 DEF LeaveSent
    <3>2. Message("leave", lobby[c]) \in MessagesToServer
      BY <3>1 DEF MessagesToServer, TypeOK
    <3> QED BY <3>1, <3>2, SentStream
  <2> QED BY <2>1, <2>2
<1>5. UNCHANGED <<sess, attached, isGm, caught>>
  BY DEF sessionVars
<1>6. \A d \in Conns \ {c} : Others(d) /\ (d \in caught => d \in caught')
  BY <1>1, <1>2, <1>4, <1>5 DEF Others, Chatted
<1>7. ClientType'
  BY <1>1 DEF ClientType, TypeOK
<1>8. NewInv(c)'
  <2>1. sess[c] = "new" => lobby[c] = None
    BY <1>3 DEF LoginPart, NewInv, LoggingInInv, Running
  <2> QED BY <1>1, <1>2, <1>3, <1>4, <1>5, <2>1 DEF LoginPart, NewInv, Only
<1>9. OldInv(c)'
  <2>1. ASSUME Only(toServer[c], {"create", "chat", "join", "leave"})
        PROVE  Only(toServer'[c], {"create", "chat", "join", "leave"})
    <3>1. CASE toServer'[c] = toServer[c]
      BY <2>1, <3>1
    <3>2. CASE /\ toServer'[c] = Append(toServer[c], Message("leave", lobby[c]))
               /\ Message("leave", lobby[c]) \in MessagesToServer
      <4>1. toServer[c] \in Seq(MessagesToServer)
        BY DEF TypeOK
      <4>2. Message("leave", lobby[c]).kind = "leave"
        BY DEF Message
      <4> QED BY <2>1, <3>2, <4>1, <4>2, OnlyKept
    <3> QED BY <1>4, <3>1, <3>2
  <2> QED BY <1>3, <1>5, <2>1 DEF LoginPart, OldInv
<1>10. GoneInv(c)' /\ LoggingInInv(c)' /\ LoggedInInv(c)'
  BY <1>1, <1>2 DEF GoneInv, LoggingInInv, LoggedInInv, Only
<1>11. Told(c)'
  BY <1>1, NothingTold
<1> QED BY <1>2, <1>4, <1>6, <1>7, <1>8, <1>9, <1>10, <1>11 DEF Kept, LoginPart

\* What a client reads, and what is left to read of it.
ReadsOn(c, st, lb) ==
  /\ client' = Set(client, c, st) /\ lobby' = Set(lobby, c, lb)
  /\ toClient' = Set(toClient, c, Tail(toClient[c]))
  /\ UNCHANGED <<hasty, sessionVars, roomVars, toServer, caught>>

LEMMA ReadFrame ==
  ASSUME LobbyInv, NEW c \in Conns,
         NEW st \in {"IDLE", "GM_INIT", "GM_ACTIVE", "PLAYER_INIT", "PLAYER_ACTIVE"},
         NEW lb \in GameIds \cup {None},
         Running(c), toClient[c] # <<>>, ReadsOn(c, st, lb), sess[c] # "new",
         Only(toClient'[c], {"joined", "rejected", "removed", "chat", "created"})
  PROVE  /\ client'[c] = st /\ lobby'[c] = lb
         /\ toClient'[c] = Tail(toClient[c])
         /\ UNCHANGED <<attached, isGm, toServer>>
         /\ c \notin hasty' \cup caught' => Told(c)
         /\ (c \notin hasty' \cup caught' => Told(c)') => Kept(c)
<1> USE DEF LobbyInv
<1>1. /\ client' \in [Conns -> {"off", "threw", "login", "IDLE", "GM_INIT",
                               "GM_ACTIVE", "PLAYER_INIT", "PLAYER_ACTIVE"}]
      /\ client'[c] = st /\ \A d \in Conns \ {c} : client'[d] = client[d]
      /\ lobby' \in [Conns -> GameIds \cup {None}]
      /\ lobby'[c] = lb /\ \A d \in Conns \ {c} : lobby'[d] = lobby[d]
  BY DEF ReadsOn, Set, TypeOK
<1>2. /\ toClient' \in [Conns -> Seq(MessagesToClient)]
      /\ toClient'[c] = Tail(toClient[c])
      /\ \A d \in Conns \ {c} : toClient'[d] = toClient[d]
  BY DEF ReadsOn, Set, TypeOK
<1>3. UNCHANGED <<sess, attached, isGm, toServer, hasty, caught>>
  BY DEF ReadsOn, sessionVars
<1>4. ClientType' /\ toServer' \in [Conns -> Seq(MessagesToServer)]
  BY <1>1, <1>3 DEF ClientType, TypeOK
<1>5. \A d \in Conns \ {c} : Others(d) /\ (d \in caught => d \in caught')
  BY <1>1, <1>2, <1>3 DEF Others, Chatted
<1>6. LoginPart(c)
  BY DEF LoginInv
<1>7. LoginPart(c)'
  BY <1>1, <1>2, <1>3, <1>6
  DEF LoginPart, NewInv, OldInv, GoneInv, LoggingInInv, LoggedInInv, Running
<1>8. c \notin hasty' \cup caught' => Told(c)
  BY <1>3 DEF TalkInv
<1> QED BY <1>1, <1>2, <1>3, <1>4, <1>5, <1>7, <1>8 DEF Kept
LEMMA AcceptsDoes ==
  ASSUME NEW c \in Conns, NEW m
  PROVE  /\ client[c] = "login" =>
              Accepts(c, m) = [client |-> "IDLE", lobby |-> None]
         /\ client[c] # "login" =>
              /\ m.kind = "chat" =>
                   Accepts(c, m) = [client |-> client[c], lobby |-> lobby[c]]
              /\ m.kind = "created" =>
                   Accepts(c, m) = [client |-> "GM_ACTIVE", lobby |-> m.game]
              /\ m.kind = "joined" =>
                   Accepts(c, m) = [client |-> "PLAYER_ACTIVE", lobby |-> lobby[c]]
              /\ m.kind = "rejected" =>
                   Accepts(c, m) = [client |-> "IDLE", lobby |-> None]
              /\ m.kind = "removed" =>
                   Accepts(c, m) = IF client[c] = "PLAYER_ACTIVE"
                                   THEN [client |-> "IDLE", lobby |-> None]
                                   ELSE [client |-> client[c], lobby |-> lobby[c]]
<1>1. CASE client[c] = "login"
  BY <1>1 DEF Accepts
<1>2. ASSUME client[c] # "login", m.kind = "chat"
      PROVE  Accepts(c, m) = [client |-> client[c], lobby |-> lobby[c]]
  BY <1>2 DEF Accepts
<1>3. ASSUME client[c] # "login", m.kind = "created"
      PROVE  Accepts(c, m) = [client |-> "GM_ACTIVE", lobby |-> m.game]
  BY <1>3 DEF Accepts
<1>4. ASSUME client[c] # "login", m.kind = "joined"
      PROVE  Accepts(c, m) = [client |-> "PLAYER_ACTIVE", lobby |-> lobby[c]]
  BY <1>4 DEF Accepts
<1>5. ASSUME client[c] # "login", m.kind = "rejected"
      PROVE  Accepts(c, m) = [client |-> "IDLE", lobby |-> None]
  BY <1>5 DEF Accepts
<1>6. ASSUME client[c] # "login", m.kind = "removed"
      PROVE  Accepts(c, m) = IF client[c] = "PLAYER_ACTIVE"
                             THEN [client |-> "IDLE", lobby |-> None]
                             ELSE [client |-> client[c], lobby |-> lobby[c]]
  BY <1>6 DEF Accepts
<1> QED BY <1>1, <1>2, <1>3, <1>4, <1>5, <1>6

\* The answer to a login makes a client idle, with a session that has no room.
LEMMA LoginAnswered ==
  ASSUME LobbyInv, NEW c \in Conns, ClientReads(c), client[c] = "login",
         ~Refused(c, Head(toClient[c])), ~Throws(c, Head(toClient[c]))
  PROVE  Kept(c)
<1> DEFINE m == Head(toClient[c])
<1> USE DEF LobbyInv
<1>1. /\ toClient[c] # <<>> /\ toClient[c] \in Seq(MessagesToClient)
      /\ m.kind # "taken" /\ m.kind # "chat"
      /\ Running(c)
  BY DEF ClientReads, Refused, TypeOK
<1>2. LoginPart(c)
  BY DEF LoginInv
<1>3. sess[c] = "in"
  <2>1. sess[c] = "new" => Only(toClient[c], {"chat", "taken"})
    BY <1>2 DEF LoginPart, NewInv, Only
  <2>2. sess[c] # "in" => Only(toClient[c], {"chat", "taken"})
    BY <1>2, <2>1 DEF LoginPart, LoggingInInv, TypeOK
  <2>3. m \in MessagesToClient
    BY <1>1
  <2>4. ~Only(toClient[c], {"chat", "taken"})
    BY <1>1, <2>3, OnlyKept
  <2> QED BY <2>2, <2>4
<1>4. /\ toServer[c] = <<>> /\ attached[c] = None
      /\ Pending(toClient[c], Message("ok", None), "chat")
  BY <1>2, <1>3 DEF LoginPart, LoggingInInv
<1>5. Only(Tail(toClient[c]), {"chat"})
  BY <1>1, <1>4, PendingRead
<1>6. ReadsOn(c, "IDLE", None)
  BY AcceptsDoes DEF ClientReads, ReadsOn
<1>7. toClient'[c] = Tail(toClient[c])
  BY <1>6 DEF ReadsOn, Set, TypeOK
<1>8. Only(toClient'[c], {"joined", "rejected", "removed", "chat", "created"})
  BY <1>5, <1>7, OnlyMore
<1>9. /\ client'[c] = "IDLE"
      /\ UNCHANGED <<attached, toServer>>
      /\ (c \notin hasty' \cup caught' => Told(c)') => Kept(c)
  BY <1>1, <1>3, <1>6, <1>8, ReadFrame
<1>10. Told(c)'
  <2>1. Only(toServer'[c], {"chat", "leave"})
    BY <1>4, <1>9 DEF Only
  <2>2. Only(toClient'[c], {"chat", "removed"})
    BY <1>5, <1>7, OnlyMore
  <2> QED BY <1>4, <1>9, <2>1, <2>2
      DEF Told, IdleInv, GmInitInv, PlayerInitInv, ActiveInv, LeavesRoom
<1> QED BY <1>9, <1>10
\* What a client that is logged in reads keeps what it knows of its session.
LEMMA ReadTold ==
  ASSUME LobbyInv, NEW c \in Conns, Told(c), LoggedInInv(c),
         client[c] \notin {"off", "threw", "login"}, toClient[c] # <<>>,
         ~Throws(c, Head(toClient[c])),
         ReadsOn(c, Accepts(c, Head(toClient[c])).client,
                    Accepts(c, Head(toClient[c])).lobby),
         client'[c] = Accepts(c, Head(toClient[c])).client,
         lobby'[c] = Accepts(c, Head(toClient[c])).lobby,
         toClient'[c] = Tail(toClient[c])
  PROVE  Told(c)'
<1> DEFINE m == Head(toClient[c])
<1> USE DEF LobbyInv
<1>1. toClient[c] \in Seq(MessagesToClient) /\ m \in MessagesToClient
  BY DEF TypeOK
<1>2. UNCHANGED <<attached, isGm, toServer>>
  BY DEF ReadsOn, sessionVars
<1>3. \A K : Only(toClient[c], K) => m.kind \in K /\ Only(toClient'[c], K)
  BY <1>1, OnlyKept
<1>4. \A n, k : Pending(toClient[c], n, k) =>
        \/ m = n /\ Only(toClient'[c], {"chat"})
        \/ m.kind \in {"chat", k} /\ Pending(toClient'[c], n, k)
  BY <1>1, PendingRead
<1>5. /\ m.kind = "chat" => client'[c] = client[c] /\ lobby'[c] = lobby[c]
      /\ m.kind = "created" => client'[c] = "GM_ACTIVE" /\ lobby'[c] = m.game
      /\ m.kind = "joined" => client'[c] = "PLAYER_ACTIVE" /\ lobby'[c] = lobby[c]
      /\ m.kind = "rejected" => client'[c] = "IDLE" /\ lobby'[c] = None
      /\ m.kind = "removed" /\ client[c] # "PLAYER_ACTIVE" =>
           client'[c] = client[c] /\ lobby'[c] = lobby[c]
  BY AcceptsDoes
<1>6. LeavesRoom(c)' <=> LeavesRoom(c)
  BY <1>2 DEF LeavesRoom
<1>7. \A n : Asks(c, n) =>
        /\ \/ client'[c] = client[c] /\ lobby'[c] = lobby[c]
           \/ client[c] = "PLAYER_ACTIVE"
        /\ Asks(c, n)'
  BY <1>2, <1>3, <1>5, <1>6 DEF Asks
<1>8. \A n : IsTold(c, n) =>
        \/ m = n /\ Only(toServer'[c], {"chat"}) /\ Only(toClient'[c], {"chat"})
        \/ m.kind \in {"chat", "removed"} /\ IsTold(c, n)'
  BY <1>2, <1>4 DEF IsTold
<1>9. CASE client[c] = "IDLE"
  <2>1. /\ Only(toServer[c], {"chat", "leave"})
        /\ Only(toClient[c], {"chat", "removed"})
        /\ LeavesRoom(c)
    BY <1>9 DEF Told, IdleInv
  <2>2. client'[c] = "IDLE"
    BY <1>3, <1>5, <1>9, <2>1
  <2> QED BY <1>2, <1>3, <1>6, <2>1, <2>2
      DEF Told, IdleInv, GmInitInv, PlayerInitInv, ActiveInv
<1>10. CASE client[c] = "GM_INIT"
  <2>1. CASE Asks(c, Message("create", None))
    <3>1. client'[c] = "GM_INIT" /\ Asks(c, Message("create", None))'
      BY <1>7, <1>10, <2>1
    <3> QED BY <3>1 DEF Told, IdleInv, GmInitInv, PlayerInitInv, ActiveInv
  <2>2. CASE /\ attached[c] # None /\ isGm[c]
             /\ IsTold(c, Message("created", attached[c]))
    <3>1. CASE /\ m = Message("created", attached[c])
               /\ Only(toServer'[c], {"chat"}) /\ Only(toClient'[c], {"chat"})
      <4>1. client'[c] = "GM_ACTIVE" /\ lobby'[c] = attached[c]
        BY <1>5, <3>1, MessageFields
      <4>2. isGm[c] = TRUE
        BY <2>2 DEF TypeOK
      <4> QED BY <1>2, <2>2, <3>1, <4>1, <4>2
          DEF Told, IdleInv, GmInitInv, PlayerInitInv, ActiveInv
    <3>2. CASE /\ m.kind \in {"chat", "removed"}
               /\ IsTold(c, Message("created", attached[c]))'
      <4>1. client'[c] = "GM_INIT"
        BY <1>5, <1>10, <3>2
      <4> QED BY <1>2, <2>2, <3>2, <4>1
          DEF Told, IdleInv, GmInitInv, PlayerInitInv, ActiveInv
    <3> QED BY <1>2, <1>8, <2>2, <3>1, <3>2
  <2> QED BY <1>10, <2>1, <2>2 DEF Told, GmInitInv
<1>11. CASE client[c] = "PLAYER_INIT"
  <2>1. CASE Asks(c, Message("join", lobby[c]))
    <3>1. /\ client'[c] = "PLAYER_INIT" /\ lobby'[c] = lobby[c]
          /\ Asks(c, Message("join", lobby[c]))'
      BY <1>7, <1>11, <2>1
    <3> QED BY <3>1 DEF Told, IdleInv, GmInitInv, PlayerInitInv, ActiveInv
  <2>2. CASE attached[c] = None /\ IsTold(c, Message("rejected", None))
    <3>1. CASE /\ m = Message("rejected", None)
               /\ Only(toServer'[c], {"chat"}) /\ Only(toClient'[c], {"chat"})
      <4>1. client'[c] = "IDLE"
        BY <1>5, <3>1, MessageFields
      <4>2. /\ Only(toServer'[c], {"chat", "leave"})
            /\ Only(toClient'[c], {"chat", "removed"})
        BY <3>1 DEF Only
      <4> QED BY <1>2, <2>2, <4>1, <4>2
          DEF Told, IdleInv, GmInitInv, PlayerInitInv, ActiveInv, LeavesRoom
    <3>2. CASE /\ m.kind \in {"chat", "removed"}
               /\ IsTold(c, Message("rejected", None))'
      <4>1. client'[c] = "PLAYER_INIT" /\ lobby'[c] = lobby[c]
        BY <1>5, <1>11, <3>2
      <4> QED BY <1>2, <2>2, <3>2, <4>1
          DEF Told, IdleInv, GmInitInv, PlayerInitInv, ActiveInv
    <3> QED BY <1>8, <2>2, <3>1, <3>2
  <2>3. CASE /\ attached[c] \in {lobby[c], None} /\ ~isGm[c]
             /\ IsTold(c, Message("joined", None))
    <3>1. CASE /\ m = Message("joined", None)
               /\ Only(toServer'[c], {"chat"}) /\ Only(toClient'[c], {"chat"})
      <4>1. client'[c] = "PLAYER_ACTIVE" /\ lobby'[c] = lobby[c]
        BY <1>5, <3>1, MessageFields
      <4>2. isGm[c] = FALSE
        BY <2>3 DEF TypeOK
      <4> QED BY <1>2, <2>3, <3>1, <4>1, <4>2
          DEF Told, IdleInv, GmInitInv, PlayerInitInv, ActiveInv
    <3>2. CASE /\ m.kind \in {"chat", "removed"}
               /\ IsTold(c, Message("joined", None))'
      <4>1. client'[c] = "PLAYER_INIT" /\ lobby'[c] = lobby[c]
        BY <1>5, <1>11, <3>2
      <4> QED BY <1>2, <2>3, <3>2, <4>1
          DEF Told, IdleInv, GmInitInv, PlayerInitInv, ActiveInv
    <3> QED BY <1>8, <2>3, <3>1, <3>2
  <2> QED BY <1>11, <2>1, <2>2, <2>3 DEF Told, PlayerInitInv
<1>12. CASE client[c] \in {"GM_ACTIVE", "PLAYER_ACTIVE"}
  <2>1. /\ Only(toServer[c], {"chat"}) /\ Only(toClient[c], {"chat"})
        /\ attached[c] # None \/ client[c] = "PLAYER_ACTIVE"
        /\ attached[c] # None =>
             lobby[c] = attached[c] /\ isGm[c] = (client[c] = "GM_ACTIVE")
    BY <1>12 DEF Told, ActiveInv
  <2>2. client'[c] = client[c] /\ lobby'[c] = lobby[c]
    BY <1>3, <1>5, <2>1
  <2> QED BY <1>2, <1>3, <1>12, <2>1, <2>2
      DEF Told, IdleInv, GmInitInv, PlayerInitInv, ActiveInv
<1>13. client[c] \in {"IDLE", "GM_INIT", "GM_ACTIVE", "PLAYER_INIT", "PLAYER_ACTIVE"}
  BY DEF TypeOK
<1> QED BY <1>9, <1>10, <1>11, <1>12, <1>13
LEMMA ReadKept ==
  ASSUME LobbyInv, NEW c \in Conns, ClientReads(c)
  PROVE  Kept(c)
<1> DEFINE m == Head(toClient[c])
<1> USE DEF LobbyInv
<1>1. CASE Refused(c, m) \/ Throws(c, m)
  <2>1. \E how \in {"off", "threw"} : Gone(c, how)
    BY <1>1 DEF ClientReads
  <2> QED BY <2>1, GoneKept DEF ClientReads
<1>2. CASE ~Refused(c, m) /\ ~Throws(c, m) /\ client[c] = "login"
  BY <1>2, LoginAnswered
<1>3. CASE ~Refused(c, m) /\ ~Throws(c, m) /\ client[c] # "login"
  <2>1. /\ Running(c) /\ toClient[c] # <<>> /\ toClient[c] \in Seq(MessagesToClient)
        /\ client[c] \notin {"off", "threw", "login"}
    BY <1>3 DEF ClientReads, TypeOK, Running
  <2>2. LoginPart(c)
    BY DEF LoginInv
  <2>3. Only(toClient[c], {"joined", "rejected", "removed", "chat", "created"})
    BY <1>3, <2>2 DEF LoginPart, LoggedInInv
  <2>4. /\ m.kind \in {"joined", "rejected", "removed", "chat", "created"}
        /\ Only(Tail(toClient[c]),
                {"joined", "rejected", "removed", "chat", "created"})
        /\ m \in MessagesToClient
    BY <2>1, <2>3, OnlyKept
  <2>5. /\ Accepts(c, m).client \in {"IDLE", "GM_INIT", "GM_ACTIVE", "PLAYER_INIT",
                                     "PLAYER_ACTIVE"}
        /\ Accepts(c, m).lobby \in GameIds \cup {None}
    <3>1. /\ client[c] \in {"IDLE", "GM_INIT", "GM_ACTIVE", "PLAYER_INIT",
                            "PLAYER_ACTIVE"}
          /\ lobby[c] \in GameIds \cup {None}
      BY <2>1 DEF TypeOK
    <3>2. m.kind = "created" => m.game \in GameIds
      BY <2>4, ToClientRead
    <3> QED BY <1>3, <2>4, <3>1, <3>2, AcceptsDoes
  <2>6. ReadsOn(c, Accepts(c, m).client, Accepts(c, m).lobby)
    BY <1>3 DEF ClientReads, ReadsOn
  <2>7. toClient'[c] = Tail(toClient[c])
    BY <2>6 DEF ReadsOn, Set, TypeOK
  <2>8. sess[c] # "new"
    BY <2>1, <2>2 DEF LoginPart, NewInv
  <2>9. /\ client'[c] = Accepts(c, m).client /\ lobby'[c] = Accepts(c, m).lobby
        /\ c \notin hasty' \cup caught' => Told(c)
        /\ (c \notin hasty' \cup caught' => Told(c)') => Kept(c)
    BY <2>1, <2>4, <2>5, <2>6, <2>7, <2>8, ReadFrame
  <2> QED BY <1>3, <2>1, <2>2, <2>6, <2>7, <2>9, ReadTold DEF LoginPart
<1> QED BY <1>1, <1>2, <1>3
-----------------------------------------------------------------------------
(* The steps of the server. *)

\* A message of a session is read, and its client, if it is there, may get an
\* answer.
LEMMA ServerFrame ==
  ASSUME LobbyInv, NEW c \in Conns,
         toServer[c] # <<>>, toServer' = Set(toServer, c, Tail(toServer[c])),
         UNCHANGED clientVars
  PROVE  /\ ClientType'
         /\ toServer' \in [Conns -> Seq(MessagesToServer)]
         /\ toServer'[c] = Tail(toServer[c])
         /\ \A d \in Conns \ {c} : toServer'[d] = toServer[d]
         /\ UNCHANGED <<client, lobby, hasty>>
         /\ Head(toServer[c]) \in MessagesToServer
BY HeadRead DEF LobbyInv, clientVars, ClientType, TypeOK

\* What is said of the login is kept when a session that is in reads on, and
\* its client gets nothing, chat, or what it can get once it is logged in.
LEMMA InKept ==
  ASSUME LobbyInv, NEW c \in Conns, sess[c] = "in", sess'[c] = "in",
         toServer[c] # <<>>, toServer'[c] = Tail(toServer[c]),
         UNCHANGED <<client, lobby, hasty>>,
         NEW m \in MessagesToClient,
         m.kind \in {"joined", "rejected", "removed", "created"},
         \/ toClient'[c] = toClient[c]
         \/ Running(c) /\ toClient'[c] = Append(toClient[c], m)
  PROVE  LoginPart(c)'
<1> USE DEF LobbyInv
<1>1. LoginPart(c)
  BY DEF LoginInv
<1>2. toServer[c] \in Seq(MessagesToServer) /\ toClient[c] \in Seq(MessagesToClient)
  BY DEF TypeOK
<1>3. Only(toServer'[c], {"create", "chat", "join", "leave"})
  BY <1>1, <1>2, OnlyKept DEF LoginPart, OldInv
<1>4. client[c] # "login"
  BY <1>1 DEF LoginPart, LoggingInInv
<1>5. Only(toClient'[c], {"joined", "rejected", "removed", "chat", "created"})
  <2>1. Only(toClient[c], {"joined", "rejected", "removed", "chat", "created"})
    BY <1>1, <1>4 DEF LoginPart, LoggedInInv
  <2>2. Only(Append(toClient[c], m),
             {"joined", "rejected", "removed", "chat", "created"})
    BY <1>2, <2>1, OnlyKept
  <2> QED BY <2>1, <2>2
<1>6. ~Running(c) => toClient[c] = <<>> /\ lobby[c] = None /\ c \notin hasty
  BY <1>1 DEF LoginPart, GoneInv
<1> QED BY <1>3, <1>4, <1>5, <1>6
    DEF LoginPart, NewInv, OldInv, GoneInv, LoggingInInv, LoggedInInv, Running
LEMMA LoginKept ==
  ASSUME LobbyInv, NEW c \in Conns, ReadsLogin(c)
  PROVE  Kept(c)
<1> USE DEF LobbyInv
<1>1. /\ ClientType' /\ toServer' \in [Conns -> Seq(MessagesToServer)]
      /\ toServer'[c] = Tail(toServer[c])
      /\ \A d \in Conns \ {c} : toServer'[d] = toServer[d]
      /\ UNCHANGED <<client, lobby, hasty>>
  BY ServerFrame DEF ReadsLogin
<1>2. /\ sess[c] = "new" /\ attached[c] = None /\ LoginPart(c)
      /\ UNCHANGED caught
  BY SessionOfHead DEF ReadsLogin, RoomsInv, RoomsExact, LoginInv
<1>3. /\ toServer[c] = <<Message("login", None)>>
      /\ client[c] \in {"login", "off", "threw"}
      /\ Only(toClient[c], {"chat"})
  BY <1>2 DEF LoginPart, NewInv
<1>4. toServer'[c] = <<>>
  BY <1>1, <1>3
<1>5. Told(c)'
  BY <1>1, <1>3, NothingTold
<1>6. ~Running(c) => toClient[c] = <<>> /\ lobby[c] = None /\ c \notin hasty
  BY <1>2 DEF LoginPart, GoneInv
<1>7. toClient[c] \in Seq(MessagesToClient)
  BY DEF TypeOK
<1>8. CASE owner[uname[c]] # None
  <2>1. OnDisconnect(c) /\ toClient' = Answered(c, "taken", None)
    BY <1>8 DEF ReadsLogin, Login
  <2>2. ~isGm[c]
    BY <1>2, OpenRooms, LobbyAssumption DEF RoomsInv, RoomsExact, GameIds
  <2>3. Leaving(c) = {c}
    BY <2>2 DEF Leaving
  <2>4. UNCHANGED <<isGm, attached>>
    BY <1>2, <2>1, <2>3 DEF OnDisconnect, Forget, Detached, TypeOK
  <2>5. sess'[c] = "none" /\ \A d \in Conns \ {c} : sess'[d] = sess[d]
    BY <2>1 DEF OnDisconnect, Forget, Unregister, Set, TypeOK
  <2>6. /\ Message("taken", None) \in MessagesToClient
        /\ Message("taken", None).kind = "taken"
    BY DEF MessagesToClient, Message
  <2>7. /\ toClient' \in [Conns -> Seq(MessagesToClient)]
        /\ Running(c) => toClient'[c] = Append(toClient[c], Message("taken", None))
        /\ ~Running(c) => toClient'[c] = toClient[c]
        /\ \A d \in Conns \ {c} : toClient'[d] = toClient[d]
    BY <2>1, <2>6, AnsweredStream
  <2>8. \A d \in Conns \ {c} : Others(d) /\ (d \in caught => d \in caught')
    BY <1>1, <1>2, <2>4, <2>5, <2>7 DEF Others, Chatted
  <2>9. Only(toClient[c], {"chat", "taken"})
    BY <1>3, OnlyMore
  <2>10. Running(c) => Only(toClient'[c], {"chat", "taken"})
    <3>1. Only(Append(toClient[c], Message("taken", None)), {"chat", "taken"})
      BY <1>7, <2>6, <2>9, OnlyKept
    <3> QED BY <2>7, <3>1
  <2>11. NewInv(c)' /\ OldInv(c)'
    BY <1>4, <2>5 DEF NewInv, OldInv, Only
  <2>12. GoneInv(c)'
    BY <1>1, <1>6, <2>7 DEF GoneInv, Running
  <2>13. LoggingInInv(c)'
    BY <1>1, <1>2, <2>5, <2>10 DEF LoginPart, LoggingInInv, Running
  <2>14. LoggedInInv(c)'
    BY <1>1, <1>3, <1>6, <2>7 DEF LoggedInInv, Running, Only
  <2> QED BY <1>1, <1>5, <2>7, <2>8, <2>11, <2>12, <2>13, <2>14
      DEF Kept, LoginPart
<1>9. CASE owner[uname[c]] = None
  <2>1. /\ sess' = Set(sess, c, "in") /\ toClient' = Answered(c, "ok", None)
        /\ UNCHANGED <<isGm, attached>>
    BY <1>9 DEF ReadsLogin, Login
  <2>2. sess'[c] = "in" /\ \A d \in Conns \ {c} : sess'[d] = sess[d]
    BY <2>1 DEF Set, TypeOK
  <2>3. /\ Message("ok", None) \in MessagesToClient
        /\ Message("ok", None).kind = "ok"
    BY DEF MessagesToClient, Message
  <2>4. /\ toClient' \in [Conns -> Seq(MessagesToClient)]
        /\ Running(c) => toClient'[c] = Append(toClient[c], Message("ok", None))
        /\ ~Running(c) => toClient'[c] = toClient[c]
        /\ \A d \in Conns \ {c} : toClient'[d] = toClient[d]
    BY <2>1, <2>3, AnsweredStream
  <2>5. \A d \in Conns \ {c} : Others(d) /\ (d \in caught => d \in caught')
    BY <1>1, <1>2, <2>1, <2>2, <2>4 DEF Others, Chatted
  <2>6. Only(toClient[c], {"chat", "chat"})
    BY <1>3, OnlyMore
  <2>7. Running(c) => Pending(toClient'[c], Message("ok", None), "chat")
    BY <1>7, <2>3, <2>4, <2>6, PendingSent
  <2>8. LoginPart(c)'
    BY <1>1, <1>2, <1>3, <1>4, <1>6, <2>1, <2>2, <2>4, <2>7
    DEF LoginPart, NewInv, OldInv, GoneInv, LoggingInInv, LoggedInInv, Running, Only
  <2> QED BY <1>1, <1>5, <2>4, <2>5, <2>8 DEF Kept
<1> QED BY <1>8, <1>9
\* Who loses a room to another's departure is a player.
LEMMA LeftOthers ==
  ASSUME TypeOK, RoomsInv, NEW c \in Conns, attached[c] \in games, RoomLeft(c)
  PROVE  \A d \in Conns \ {c} :
           /\ isGm'[d] = isGm[d]
           /\ Detached(c)[d] \in {attached[d], None}
           /\ Detached(c)[d] # attached[d] => ~isGm[d]
<1>1. \A d \in Conns \ {c} : isGm'[d] = isGm[d]
  <2> TAKE d \in Conns \ {c}
  <2>1. isGm'[d] \in BOOLEAN /\ isGm[d] \in BOOLEAN
    BY DEF RoomLeft, TypeOK
  <2>2. isGm'[d] <=> isGm[d]
    BY DEF RoomLeft
  <2> QED BY <2>1, <2>2
<1>2. \A d \in Conns \ {c} :
        Detached(c)[d] = IF isGm[c] /\ attached[d] = attached[c]
                         THEN None ELSE attached[d]
  BY DEF RoomLeft
<1>3. \A d \in Conns \ {c} : isGm[c] /\ attached[d] = attached[c] => ~isGm[d]
  BY GmHasIt DEF RoomsInv
<1> QED BY <1>1, <1>2, <1>3

\* A leave takes the session out of the room it is in; the answer follows what
\* is under way.
LEMMA LeaveReadKept ==
  ASSUME LobbyInv, NEW c \in Conns, ReadsLeave(c)
  PROVE  Kept(c)
<1> DEFINE m == Head(toServer[c])
<1> USE DEF LobbyInv
<1>1. /\ ClientType' /\ toServer' \in [Conns -> Seq(MessagesToServer)]
      /\ toServer'[c] = Tail(toServer[c])
      /\ \A d \in Conns \ {c} : toServer'[d] = toServer[d]
      /\ UNCHANGED <<client, lobby, hasty>>
      /\ m \in MessagesToServer /\ toServer[c] # <<>>
      /\ toServer[c] \in Seq(MessagesToServer) /\ toClient[c] \in Seq(MessagesToClient)
  BY ServerFrame DEF ReadsLeave, TypeOK
<1>2. sess[c] = "in" /\ m.kind = "leave" /\ UNCHANGED caught
  BY SessionOfHead DEF ReadsLeave
<1>3. m = Message("leave", m.game)
  BY <1>1, <1>2, ToServerRead
<1>4. /\ Message("removed", None) \in MessagesToClient
      /\ Message("removed", None).kind = "removed"
  BY DEF MessagesToClient, Message
<1>5. /\ UNCHANGED sess
      /\ toClient' \in [Conns -> Seq(MessagesToClient)]
      /\ \A d \in Conns \ {c} : toClient'[d] = toClient[d]
      /\ \/ toClient'[c] = toClient[c]
         \/ Running(c) /\ toClient'[c] = Append(toClient[c], Message("removed", None))
      /\ \A d \in Conns \ {c} :
           /\ isGm'[d] = isGm[d] /\ attached'[d] \in {attached[d], None}
           /\ attached'[d] # attached[d] => ~isGm[d]
      /\ \/ attached[c] = m.game /\ m.game \in games /\ attached'[c] = None
         \/ attached[c] # m.game /\ UNCHANGED <<attached, isGm>>
         \/ attached[c] = m.game /\ m.game \notin games
  <2>1. CASE attached[c] # m.game \/ m.game \notin games
    <3>1. UNCHANGED <<sess, attached, isGm, toClient>>
      BY <2>1 DEF ReadsLeave, LeaveGame, sessionVars
    <3> QED BY <2>1, <3>1 DEF TypeOK
  <2>2. CASE attached[c] = m.game /\ m.game \in games
    <3>1. /\ LeaveRoom(c) /\ attached' = Detached(c) /\ UNCHANGED sess
          /\ toClient' = IF isGm[c] THEN toClient ELSE Answered(c, "removed", None)
      BY <2>2 DEF ReadsLeave, LeaveGame
    <3>2. RoomLeft(c)
      BY <2>2, <3>1, LeaveRoomDoes
    <3>3. \A d \in Conns \ {c} :
            /\ isGm'[d] = isGm[d] /\ attached'[d] \in {attached[d], None}
            /\ attached'[d] # attached[d] => ~isGm[d]
      BY <2>2, <3>1, <3>2, LeftOthers
    <3>4. attached'[c] = None
      BY <3>1, <3>2 DEF RoomLeft
    <3>5. /\ toClient' \in [Conns -> Seq(MessagesToClient)]
          /\ \A d \in Conns \ {c} : toClient'[d] = toClient[d]
          /\ \/ toClient'[c] = toClient[c]
             \/ Running(c)
                  /\ toClient'[c] = Append(toClient[c], Message("removed", None))
      <4>1. CASE isGm[c]
        BY <3>1, <4>1 DEF TypeOK
      <4>2. CASE ~isGm[c]
        BY <1>4, <3>1, <4>2, AnsweredStream
      <4> QED BY <4>1, <4>2
    <3> QED BY <2>2, <3>1, <3>3, <3>4, <3>5
  <2> QED BY <2>1, <2>2
<1>6. \A d \in Conns \ {c} : Others(d) /\ (d \in caught => d \in caught')
  BY <1>1, <1>2, <1>5 DEF Others, Chatted
<1>7. LoginPart(c)'
  BY <1>1, <1>2, <1>4, <1>5, InKept
<1>8. ASSUME c \notin hasty' \cup caught'
      PROVE  Told(c)'
  <2>1. Told(c) /\ attached[c] \in games \cup {None}
    BY <1>1, <1>2, <1>8 DEF TalkInv, RoomsInv, RoomsExact
  <2>2. \A K : Only(toServer[c], K) => "leave" \in K /\ Only(toServer'[c], K)
    BY <1>1, <1>2, OnlyKept
  <2>3. Only(toClient[c], {"chat", "removed"}) => Only(toClient'[c], {"chat", "removed"})
    <3>1. Only(toClient[c], {"chat", "removed"}) =>
            Only(Append(toClient[c], Message("removed", None)), {"chat", "removed"})
      BY <1>1, <1>4, OnlyKept
    <3> QED BY <1>5, <3>1
  <2>4. LeavesRoom(c) => LeavesRoom(c)'
    <3>1. ASSUME LeavesRoom(c), attached[c] # m.game, UNCHANGED attached
          PROVE  LeavesRoom(c)'
      <4>1. CASE attached[c] = None
        BY <3>1, <4>1 DEF LeavesRoom
      <4>2. ASSUME NEW i \in DOMAIN toServer[c],
                   toServer[c][i] = Message("leave", attached[c])
            PROVE  LeavesRoom(c)'
        <5>1. i # 1
          BY <1>1, <1>3, <3>1, <4>2 DEF Message
        <5>2. i - 1 \in DOMAIN toServer'[c] /\ toServer'[c][i - 1] = toServer[c][i]
          BY <1>1, <4>2, <5>1
        <5> QED BY <3>1, <4>2, <5>2 DEF LeavesRoom
      <4> QED BY <3>1, <4>1, <4>2 DEF LeavesRoom
    <3>2. m.game # None
      BY <1>1, <1>2, ToServerRead, LobbyAssumption DEF GameIds
    <3> QED BY <1>5, <2>1, <3>1, <3>2 DEF LeavesRoom
  <2>5. \A n, k : Pending(toServer[c], n, k) /\ n.kind # "leave" =>
          Pending(toServer'[c], n, k)
    BY <1>1, <1>2, PendingRead
  <2>6. \A n : Asks(c, n) /\ n.kind # "leave" => Asks(c, n)'
    BY <2>3, <2>4, <2>5 DEF Asks
  <2>7. \A n : ~IsTold(c, n)
    BY <2>2 DEF IsTold
  <2>8. client[c] \notin {"GM_ACTIVE", "PLAYER_ACTIVE"}
    BY <2>1, <2>2 DEF Told, ActiveInv
  <2>9. IdleInv(c)'
    BY <1>1, <2>1, <2>2, <2>3, <2>4 DEF Told, IdleInv
  <2>10. GmInitInv(c)'
    BY <1>1, <2>1, <2>6, <2>7, MessageFields DEF Told, GmInitInv
  <2>11. PlayerInitInv(c)'
    BY <1>1, <2>1, <2>6, <2>7, MessageFields DEF Told, PlayerInitInv
  <2> QED BY <1>1, <2>8, <2>9, <2>10, <2>11 DEF Told, ActiveInv
<1> QED BY <1>1, <1>5, <1>6, <1>7, <1>8 DEF Kept
\* Chat is read by a session that is in, and goes to the others.
LEMMA ChatReadKept ==
  ASSUME LobbyInv, NEW c \in Conns, ReadsChat(c)
  PROVE  Kept(c)
<1> DEFINE m == Head(toServer[c])
<1> USE DEF LobbyInv
<1>1. /\ ClientType' /\ toServer' \in [Conns -> Seq(MessagesToServer)]
      /\ toServer'[c] = Tail(toServer[c])
      /\ \A d \in Conns \ {c} : toServer'[d] = toServer[d]
      /\ UNCHANGED <<client, lobby, hasty>>
      /\ m \in MessagesToServer /\ toServer[c] # <<>>
      /\ toServer[c] \in Seq(MessagesToServer)
  BY ServerFrame DEF ReadsChat, TypeOK
<1>2. sess[c] = "in" /\ m.kind = "chat" /\ UNCHANGED caught
  BY SessionOfHead DEF ReadsChat
<1>3. /\ UNCHANGED <<sess, attached, isGm>>
      /\ toClient' \in [Conns -> Seq(MessagesToClient)]
      /\ \A d \in Conns : Chatted(d)
      /\ toClient'[c] = toClient[c]
  <2>1. Chat(c)
    BY DEF ReadsChat
  <2>2. toClient'[c] = toClient[c]
    BY <2>1 DEF Chat
  <2>3. UNCHANGED <<sess, attached, isGm>>
    BY <2>1 DEF Chat, sessionVars
  <2> QED BY <2>1, <2>2, <2>3, ChatStreams
<1>4. \A d \in Conns \ {c} : Others(d) /\ (d \in caught => d \in caught')
  BY <1>1, <1>2, <1>3 DEF Others
<1>5. /\ Message("removed", None) \in MessagesToClient
      /\ Message("removed", None).kind = "removed"
  BY DEF MessagesToClient, Message
<1>6. LoginPart(c)'
  BY <1>1, <1>2, <1>3, <1>5, InKept
<1>7. ASSUME c \notin hasty' \cup caught'
      PROVE  Told(c)'
  <2>1. Told(c)
    BY <1>1, <1>2, <1>7 DEF TalkInv
  <2>2. \A K : Only(toServer[c], K) => Only(toServer'[c], K)
    BY <1>1, OnlyKept
  <2>3. LeavesRoom(c) => LeavesRoom(c)'
    <3>1. ASSUME NEW i \in DOMAIN toServer[c],
                 toServer[c][i] = Message("leave", attached[c])
          PROVE  LeavesRoom(c)'
      <4>1. i # 1
        BY <1>1, <1>2, <3>1 DEF Message
      <4>2. i - 1 \in DOMAIN toServer'[c] /\ toServer'[c][i - 1] = toServer[c][i]
        BY <1>1, <3>1, <4>1
      <4> QED BY <1>3, <3>1, <4>2 DEF LeavesRoom
    <3> QED BY <1>3, <3>1 DEF LeavesRoom
  <2>4. \A n, k : Pending(toServer[c], n, k) /\ n.kind # "chat" =>
          Pending(toServer'[c], n, k)
    BY <1>1, <1>2, PendingRead
  <2>5. \A n : Asks(c, n) /\ n.kind # "chat" => Asks(c, n)'
    BY <1>3, <2>3, <2>4 DEF Asks
  <2>6. \A n : IsTold(c, n) => IsTold(c, n)'
    BY <1>3, <2>2 DEF IsTold
  <2>7. IdleInv(c)'
    BY <1>1, <1>3, <2>1, <2>2, <2>3 DEF Told, IdleInv
  <2>8. GmInitInv(c)'
    <3>1. Asks(c, Message("create", None)) => Asks(c, Message("create", None))'
      BY <2>5, MessageFields
    <3>2. IsTold(c, Message("created", attached[c]))
            => IsTold(c, Message("created", attached[c]))'
      BY <1>3, <2>6
    <3> QED BY <1>1, <1>3, <2>1, <3>1, <3>2 DEF Told, GmInitInv
  <2>9. PlayerInitInv(c)'
    BY <1>1, <1>3, <2>1, <2>5, <2>6, MessageFields DEF Told, PlayerInitInv
  <2>10. ActiveInv(c)'
    BY <1>1, <1>3, <2>1, <2>2 DEF Told, ActiveInv
  <2> QED BY <2>7, <2>8, <2>9, <2>10 DEF Told
<1> QED BY <1>1, <1>3, <1>4, <1>6, <1>7 DEF Kept

\* A request is all that is left to read of a client that waits for its
\* answer, and its session has no room.
LEMMA RequestRead ==
  ASSUME LobbyInv, NEW c \in Conns, Told(c), NEW k \in {"create", "join"},
         client[c] \notin {"off", "threw", "login"}, toServer[c] # <<>>,
         Head(toServer[c]).kind = k
  PROVE  /\ attached[c] = None
         /\ Only(Tail(toServer[c]), {"chat"})
         /\ Only(toClient[c], {"chat", "removed"})
         /\ k = "create" => client[c] = "GM_INIT"
         /\ k = "join" => client[c] = "PLAYER_INIT" /\ Head(toServer[c]).game = lobby[c]
<1> USE DEF LobbyInv
<1>1. toServer[c] \in Seq(MessagesToServer)
  BY DEF TypeOK
<1>2. \A K : Only(toServer[c], K) => k \in K
  BY <1>1, OnlyKept
<1>3. client[c] \in {"GM_INIT", "PLAYER_INIT"}
  BY <1>2 DEF Told, IdleInv, ActiveInv, TypeOK
<1>4. \A n : ~IsTold(c, n)
  BY <1>2 DEF IsTold
<1>5. \A n : Asks(c, n) => /\ Head(toServer[c]) = n
                           /\ Only(Tail(toServer[c]), {"chat"})
                           /\ Only(toClient[c], {"chat", "removed"})
                           /\ LeavesRoom(c)
  <2> TAKE n
  <2> HAVE Asks(c, n)
  <2> QED BY <1>1, PendingRead DEF Asks
<1>6. \E n : Asks(c, n) /\ (client[c] = "GM_INIT" => n = Message("create", None))
                        /\ (client[c] = "PLAYER_INIT" => n = Message("join", lobby[c]))
  BY <1>3, <1>4 DEF Told, GmInitInv, PlayerInitInv
<1>7. LeavesRoom(c) /\ Only(Tail(toServer[c]), {"chat"}) => attached[c] = None
  <2>1. ASSUME NEW i \in DOMAIN toServer[c], Only(Tail(toServer[c]), {"chat"}),
               toServer[c][i] = Message("leave", attached[c])
        PROVE  FALSE
    <3>1. i # 1
      BY <1>1, <2>1, MessageFields
    <3>2. i - 1 \in DOMAIN Tail(toServer[c]) /\ Tail(toServer[c])[i - 1] = toServer[c][i]
      BY <1>1, <2>1, <3>1
    <3> QED BY <2>1, <3>2, MessageFields DEF Only
  <2> QED BY <2>1 DEF LeavesRoom
<1> QED BY <1>3, <1>5, <1>6, <1>7, MessageFields

\* Where it has one, the request is dropped: its client has left in haste, or
\* its join was caught.
LEMMA DropKept ==
  ASSUME LobbyInv, NEW c \in Conns, Drops(c)
  PROVE  Kept(c)
<1> DEFINE m == Head(toServer[c])
<1> USE DEF LobbyInv
<1>1. /\ ClientType' /\ toServer' \in [Conns -> Seq(MessagesToServer)]
      /\ toServer'[c] = Tail(toServer[c])
      /\ \A d \in Conns \ {c} : toServer'[d] = toServer[d]
      /\ UNCHANGED <<client, lobby, hasty>>
      /\ toServer[c] # <<>>
  BY ServerFrame DEF Drops
<1>2. /\ sess[c] = "in" /\ m.kind \in {"create", "join"} /\ attached[c] # None
      /\ UNCHANGED <<sess, attached, isGm, toClient, caught>>
  BY SessionOfHead DEF Drops, sessionVars
<1>3. \A d \in Conns \ {c} : Others(d) /\ (d \in caught => d \in caught')
  BY <1>1, <1>2 DEF Others, Chatted
<1>4. /\ Message("removed", None) \in MessagesToClient
      /\ Message("removed", None).kind = "removed"
  BY DEF MessagesToClient, Message
<1>5. LoginPart(c)'
  BY <1>1, <1>2, <1>4, InKept
<1>6. ASSUME c \notin hasty' \cup caught'
      PROVE  Told(c)'
  <2>1. Told(c)
    BY <1>1, <1>2, <1>6 DEF TalkInv
  <2>2. client[c] \in {"off", "threw", "login"}
    BY <1>1, <1>2, <2>1, RequestRead
  <2> QED BY <1>1, <2>2, NothingTold
<1> QED BY <1>1, <1>2, <1>3, <1>5, <1>6 DEF Kept, TypeOK
\* A room is created, and its number is on its way.
LEMMA CreateReadKept ==
  ASSUME LobbyInv, NEW c \in Conns, ReadsCreate(c)
  PROVE  Kept(c)
<1> DEFINE m == Head(toServer[c])
<1> USE DEF LobbyInv
<1>1. /\ ClientType' /\ toServer' \in [Conns -> Seq(MessagesToServer)]
      /\ toServer'[c] = Tail(toServer[c])
      /\ \A d \in Conns \ {c} : toServer'[d] = toServer[d]
      /\ UNCHANGED <<client, lobby, hasty>>
      /\ toServer[c] # <<>> /\ toClient[c] \in Seq(MessagesToClient)
  BY ServerFrame DEF ReadsCreate, TypeOK
<1>2. /\ sess[c] = "in" /\ m.kind = "create" /\ attached[c] = None
      /\ UNCHANGED <<sess, caught>>
  BY SessionOfHead DEF ReadsCreate, CreateGame
<1>3. idCtr \in GameIds /\ idCtr # None
  BY LobbyAssumption DEF ReadsCreate, CreateGame, TypeOK, GameIds
<1>4. /\ isGm' = [isGm EXCEPT ![c] = TRUE]
      /\ attached' = [attached EXCEPT ![c] = idCtr]
      /\ toClient' = Answered(c, "created", idCtr)
  BY DEF ReadsCreate, CreateGame, Set
<1>5. /\ isGm'[c] = TRUE /\ attached'[c] = idCtr
      /\ \A d \in Conns \ {c} : isGm'[d] = isGm[d] /\ attached'[d] = attached[d]
  BY <1>4 DEF TypeOK
<1>6. /\ Message("created", idCtr) \in MessagesToClient
      /\ Message("created", idCtr).kind = "created"
  BY <1>3 DEF MessagesToClient, Message
<1>7. /\ toClient' \in [Conns -> Seq(MessagesToClient)]
      /\ Running(c) => toClient'[c] = Append(toClient[c], Message("created", idCtr))
      /\ ~Running(c) => toClient'[c] = toClient[c]
      /\ \A d \in Conns \ {c} : toClient'[d] = toClient[d]
  BY <1>4, <1>6, AnsweredStream
<1>8. \A d \in Conns \ {c} : Others(d) /\ (d \in caught => d \in caught')
  BY <1>1, <1>2, <1>5, <1>7 DEF Others, Chatted
<1>9. LoginPart(c)'
  BY <1>1, <1>2, <1>6, <1>7, InKept
<1>10. ASSUME c \notin hasty' \cup caught'
       PROVE  Told(c)'
  <2>1. Told(c)
    BY <1>1, <1>2, <1>10 DEF TalkInv
  <2>2. CASE client[c] \in {"off", "threw", "login"}
    BY <1>1, <2>2, NothingTold
  <2>3. CASE client[c] \notin {"off", "threw", "login"}
    <3>1. /\ Only(toServer'[c], {"chat"}) /\ Only(toClient[c], {"chat", "removed"})
          /\ client[c] = "GM_INIT"
      BY <1>1, <1>2, <2>1, <2>3, RequestRead
    <3>2. Running(c)
      BY <2>3 DEF Running
    <3>3. Pending(toClient'[c], Message("created", idCtr), "removed")
      BY <1>1, <1>6, <1>7, <3>1, <3>2, PendingSent
    <3>4. IsTold(c, Message("created", attached[c]))'
      BY <1>5, <3>1, <3>3 DEF IsTold
    <3> QED BY <1>1, <1>3, <1>5, <3>1, <3>4
        DEF Told, IdleInv, GmInitInv, PlayerInitInv, ActiveInv
  <2> QED BY <2>2, <2>3
<1> QED BY <1>1, <1>7, <1>8, <1>9, <1>10 DEF Kept

\* A player is in the room it asked for, or learns that there is none.
LEMMA JoinReadKept ==
  ASSUME LobbyInv, NEW c \in Conns, ReadsJoin(c)
  PROVE  Kept(c)
<1> DEFINE m == Head(toServer[c])
           k == IF m.game \in games THEN "joined" ELSE "rejected"
<1> USE DEF LobbyInv
<1>1. /\ ClientType' /\ toServer' \in [Conns -> Seq(MessagesToServer)]
      /\ toServer'[c] = Tail(toServer[c])
      /\ \A d \in Conns \ {c} : toServer'[d] = toServer[d]
      /\ UNCHANGED <<client, lobby, hasty>>
      /\ toServer[c] # <<>> /\ toClient[c] \in Seq(MessagesToClient)
      /\ m \in MessagesToServer
  BY ServerFrame DEF ReadsJoin, TypeOK
<1>2. /\ sess[c] = "in" /\ m.kind = "join" /\ attached[c] = None
      /\ UNCHANGED <<sess, isGm, caught>>
  BY SessionOfHead DEF ReadsJoin, JoinGame
<1>3. m.game \in GameIds /\ m.game # None
  BY <1>1, <1>2, ToServerRead, LobbyAssumption DEF GameIds
<1>4. /\ toClient' = Answered(c, k, None)
      /\ attached' = IF m.game \in games THEN [attached EXCEPT ![c] = m.game]
                                         ELSE attached
  BY DEF ReadsJoin, JoinGame, UnknownRejected, Set
<1>5. /\ attached'[c] = IF m.game \in games THEN m.game ELSE None
      /\ \A d \in Conns \ {c} : attached'[d] = attached[d]
  BY <1>2, <1>4 DEF TypeOK
<1>6. /\ Message(k, None) \in MessagesToClient
      /\ Message(k, None).kind = k /\ k \in {"joined", "rejected"}
  BY DEF MessagesToClient, Message
<1>7. /\ toClient' \in [Conns -> Seq(MessagesToClient)]
      /\ Running(c) => toClient'[c] = Append(toClient[c], Message(k, None))
      /\ ~Running(c) => toClient'[c] = toClient[c]
      /\ \A d \in Conns \ {c} : toClient'[d] = toClient[d]
  BY <1>4, <1>6, AnsweredStream
<1>8. \A d \in Conns \ {c} : Others(d) /\ (d \in caught => d \in caught')
  BY <1>1, <1>2, <1>5, <1>7 DEF Others, Chatted
<1>9. LoginPart(c)'
  BY <1>1, <1>2, <1>6, <1>7, InKept
<1>10. ASSUME c \notin hasty' \cup caught'
       PROVE  Told(c)'
  <2>1. Told(c)
    BY <1>1, <1>2, <1>10 DEF TalkInv
  <2>2. CASE client[c] \in {"off", "threw", "login"}
    BY <1>1, <2>2, NothingTold
  <2>3. CASE client[c] \notin {"off", "threw", "login"}
    <3>1. /\ Only(toServer'[c], {"chat"}) /\ Only(toClient[c], {"chat", "removed"})
          /\ client[c] = "PLAYER_INIT" /\ m.game = lobby[c]
      BY <1>1, <1>2, <2>1, <2>3, RequestRead
    <3>2. Running(c)
      BY <2>3 DEF Running
    <3>3. Pending(toClient'[c], Message(k, None), "removed")
      BY <1>1, <1>6, <1>7, <3>1, <3>2, PendingSent
    <3>4. ~isGm[c]
      BY <1>2, OpenRooms, LobbyAssumption DEF RoomsInv, RoomsExact, GameIds
    <3>5. PlayerInitInv(c)'
      <4>1. CASE m.game \in games
        <5>1. IsTold(c, Message("joined", None))'
          BY <3>1, <3>3, <4>1 DEF IsTold
        <5> QED BY <1>1, <1>2, <1>5, <3>1, <3>4, <4>1, <5>1 DEF PlayerInitInv
      <4>2. CASE m.game \notin games
        <5>1. IsTold(c, Message("rejected", None))'
          BY <3>1, <3>3, <4>2 DEF IsTold
        <5> QED BY <1>5, <4>2, <5>1 DEF PlayerInitInv
      <4> QED BY <4>1, <4>2
    <3> QED BY <1>1, <3>1, <3>5 DEF Told, IdleInv, GmInitInv, ActiveInv
  <2> QED BY <2>2, <2>3
<1> QED BY <1>1, <1>7, <1>8, <1>9, <1>10 DEF Kept
\* A join that is caught says nothing of its own session, and takes the room
\* from the others with its game master.
LEMMA JoinClosedKept ==
  ASSUME LobbyInv, ServerInv, NEW c \in Conns, ReadsJoinClosed(c)
  PROVE  Kept(c)
<1> DEFINE g == Head(toServer[c]).game
<1> USE DEF LobbyInv
<1>1. /\ ClientType' /\ toServer' \in [Conns -> Seq(MessagesToServer)]
      /\ toServer'[c] = Tail(toServer[c])
      /\ \A d \in Conns \ {c} : toServer'[d] = toServer[d]
      /\ UNCHANGED <<client, lobby, hasty>>
      /\ toServer[c] # <<>>
  BY ServerFrame DEF ReadsJoinClosed
<1>2. sess[c] = "in" /\ attached[c] = None
  BY SessionOfHead DEF ReadsJoinClosed
<1>3. PICK q \in Conns : JoinClosedEffect(c, g, q)
  BY JoinClosedDoes
<1>4. /\ attached[q] \in games /\ isGm[q] /\ q # c /\ ~Running(q)
      /\ RoomLeft(q) /\ attached' = [Detached(q) EXCEPT ![c] = g]
      /\ c \in caught' /\ caught \subseteq caught'
  BY <1>3 DEF JoinClosedEffect
<1>5. /\ sess[q] = "in" /\ sess'[q] = "none"
      /\ \A d \in Conns \ {q} : sess'[d] = sess[d]
  <2>1. sess[q] = "in"
    BY <1>4, OpenRooms, LobbyAssumption DEF RoomsInv, RoomsExact, GameIds
  <2>2. sess' = Set(sess, q, "none")
    BY <1>3 DEF JoinClosedEffect, Unregister
  <2> QED BY <2>1, <2>2 DEF Set, TypeOK
<1>6. /\ Message("joined", None) \in MessagesToClient
      /\ Message("joined", None).kind = "joined"
  BY DEF MessagesToClient, Message
<1>7. /\ toClient' \in [Conns -> Seq(MessagesToClient)]
      /\ Running(c) => toClient'[c] = Append(toClient[c], Message("joined", None))
      /\ ~Running(c) => toClient'[c] = toClient[c]
      /\ \A d \in Conns \ {c} : toClient'[d] = toClient[d]
  BY SMTT(30), <1>3, <1>6, AnsweredStream DEF JoinClosedEffect
<1>8. GoneGm(q)
  BY <1>1, <1>4, <1>5, <1>7 DEF GoneGm
<1>9. \A d \in Conns \ {c, q} : Others(d)
  <2> TAKE d \in Conns \ {c, q}
  <2>1. /\ isGm'[d] = isGm[d]
        /\ Detached(q)[d] \in {attached[d], None}
        /\ Detached(q)[d] # attached[d] => ~isGm[d]
    BY <1>4, LeftOthers
  <2>2. attached'[d] = Detached(q)[d]
    BY <1>4 DEF RoomLeft
  <2> QED BY <1>1, <1>5, <1>7, <2>1, <2>2 DEF Others, Chatted
<1>10. LoginPart(c)'
  BY <1>1, <1>2, <1>4, <1>5, <1>6, <1>7, InKept
<1> QED BY <1>1, <1>4, <1>7, <1>8, <1>9, <1>10 DEF Kept

\* The end of a stream is seen when its client is gone.
LEMMA EndKept ==
  ASSUME LobbyInv, NEW c \in Conns, ServerSeesEnd(c)
  PROVE  Kept(c)
<1> USE DEF LobbyInv
<1>1. /\ UNCHANGED <<client, lobby, hasty, toClient>> /\ ~Running(c)
      /\ caught' = caught \ {c} /\ OnDisconnect(c)
  BY DEF ServerSeesEnd, clientVars
<1>2. /\ toServer' \in [Conns -> Seq(MessagesToServer)] /\ toServer'[c] = <<>>
      /\ \A d \in Conns \ {c} : toServer'[d] = toServer[d]
  BY DEF ServerSeesEnd, Set, TypeOK
<1>3. /\ sess'[c] = "none" /\ \A d \in Conns \ {c} : sess'[d] = sess[d]
      /\ attached' = Detached(c)
  BY <1>1 DEF OnDisconnect, Forget, Unregister, Set, TypeOK
<1>4. \A d \in Conns \ {c} : /\ isGm'[d] = isGm[d]
                             /\ attached'[d] \in {attached[d], None}
                             /\ attached'[d] # attached[d] => ~isGm[d]
  <2>1. CASE attached[c] \in games
    <3>1. LeaveRoom(c)
      BY <1>1, <2>1, OpenRooms, LobbyAssumption DEF OnDisconnect, Forget, GameIds
    <3> QED BY <1>3, <2>1, <3>1, LeaveRoomDoes, LeftOthers
  <2>2. CASE attached[c] = None
    <3>1. ~isGm[c] /\ UNCHANGED isGm
      BY <1>1, <2>2, OpenRooms, LobbyAssumption
      DEF OnDisconnect, Forget, RoomsInv, RoomsExact, GameIds
    <3> QED BY <1>3, <3>1 DEF Detached, Leaving
  <2>3. CASE attached[c] \notin games \cup {None}
    <3>1. LeaveRoom(c)
      BY <1>1, <2>3 DEF OnDisconnect, Forget
    <3>2. isGm' = isGm /\ Detached(c) = [attached EXCEPT ![c] = None]
      BY <2>3, <3>1, LeaveClosed
    <3> QED BY <1>3, <3>2 DEF TypeOK
  <2> QED BY <2>1, <2>2, <2>3
<1>5. \A d \in Conns \ {c} : Others(d) /\ (d \in caught => d \in caught')
  BY <1>1, <1>2, <1>3, <1>4 DEF Others, Chatted
<1>6. LoginPart(c)
  BY DEF LoginInv
<1>7. client[c] \in {"off", "threw"}
  BY <1>1 DEF Running, TypeOK
<1>8. LoginPart(c)'
  BY <1>1, <1>2, <1>3, <1>6, <1>7
  DEF LoginPart, NewInv, OldInv, GoneInv, LoggingInInv, LoggedInInv, Running, Only
<1>9. Told(c)'
  BY <1>1, <1>7, NothingTold
<1>10. ClientType'
  BY <1>1 DEF ClientType, TypeOK
<1> QED BY <1>1, <1>2, <1>5, <1>8, <1>9, <1>10 DEF Kept, TypeOK

\* So is a joiner's who cannot be told.
LEMMA LostKept ==
  ASSUME LobbyInv, NEW c \in Conns, JoinLost(c)
  PROVE  Kept(c)
<1> USE DEF LobbyInv
<1>1. /\ UNCHANGED <<client, lobby, hasty, toClient, caught, attached, isGm>>
      /\ ~Running(c) /\ attached[c] = None /\ Unregister(c)
  BY DEF JoinLost, clientVars
<1>2. /\ toServer' \in [Conns -> Seq(MessagesToServer)] /\ toServer'[c] = <<>>
      /\ \A d \in Conns \ {c} : toServer'[d] = toServer[d]
  BY DEF JoinLost, Set, TypeOK
<1>3. sess'[c] = "none" /\ \A d \in Conns \ {c} : sess'[d] = sess[d]
  BY <1>1 DEF Unregister, Set, TypeOK
<1>4. \A d \in Conns \ {c} : Others(d) /\ (d \in caught => d \in caught')
  BY <1>1, <1>2, <1>3 DEF Others, Chatted
<1>5. LoginPart(c)
  BY DEF LoginInv
<1>6. client[c] \in {"off", "threw"}
  BY <1>1 DEF Running, TypeOK
<1>7. LoginPart(c)'
  BY <1>1, <1>2, <1>3, <1>5, <1>6
  DEF LoginPart, NewInv, OldInv, GoneInv, LoggingInInv, LoggedInInv, Running, Only
<1>8. Told(c)'
  BY <1>1, <1>6, NothingTold
<1>9. ClientType'
  BY <1>1 DEF ClientType, TypeOK
<1> QED BY <1>1, <1>2, <1>4, <1>7, <1>8, <1>9 DEF Kept, TypeOK
-----------------------------------------------------------------------------
(* The theorems. *)

LEMMA LobbyInit == Init => LobbyInv
<1> SUFFICES ASSUME Init PROVE LobbyInv
  OBVIOUS
<1> USE LobbyAssumption
<1>1. TypeOK
  BY DEF Init, TypeOK, GameIds
<1>2. Registered
  BY DEF Init, Registered, NamesExact
<1>3. RoomsInv
  BY DEF Init, RoomsInv, RoomsExact
<1>4. LoginInv
  BY DEF Init, LoginInv, LoginPart, NewInv, OldInv, GoneInv, LoggingInInv,
         LoggedInInv, Only
<1>5. TalkInv
  BY DEF Init, TalkInv, Told, IdleInv, GmInitInv, PlayerInitInv, ActiveInv
<1> QED BY <1>1, <1>2, <1>3, <1>4, <1>5 DEF LobbyInv

LEMMA LobbyNext ==
  ASSUME LobbyInv, [Next]_vars
  PROVE  LobbyInv'
<1>1. ServerInv
  BY DEF LobbyInv, ServerInv, ServerType, TypeOK
<1>2. ASSUME NEW c \in Conns, NEW n \in NamesFor[c], Connect(c, n)
      PROVE  LobbyInv'
  <2>1. n \in Names
    BY <1>2, LobbyAssumption
  <2>2. Kept(c)
    BY <1>2, <2>1, ConnectKept
  <2>3. ServerInv'
    BY <1>1, <1>2, <2>1, ConnectServer
  <2> QED BY <2>2, <2>3, KeptKeeps
<1>3. ASSUME NEW c \in Conns, Command(c)
      PROVE  LobbyInv'
  <2>1. UNCHANGED <<sessionVars, roomVars, toClient, caught>>
    BY <1>3 DEF Command
  <2>2. Kept(c)
    BY <1>3, <2>1, CreateKept, JoinKept, ChatKept, LeaveKept DEF Command
  <2>3. ServerInv'
    BY <1>1, <2>1, ServerUntouched
  <2> QED BY <2>2, <2>3, KeptKeeps
<1>4. ASSUME NEW c \in Conns, ClientExits(c)
      PROVE  LobbyInv'
  <2>1. Kept(c)
    BY <1>4, GoneKept DEF ClientExits
  <2>2. ServerInv'
    BY <1>1, <1>4, ServerUntouched DEF ClientExits
  <2> QED BY <2>1, <2>2, KeptKeeps
<1>5. ASSUME NEW c \in Conns, ClientReads(c)
      PROVE  LobbyInv'
  <2>1. ServerInv'
    BY <1>1, <1>5, ServerUntouched DEF ClientReads
  <2> QED BY <1>5, <2>1, ReadKept, KeptKeeps
<1>6. ASSUME NEW c \in Conns, ServerReads(c)
      PROVE  LobbyInv'
  <2>1. /\ TypeOK /\ LoginInv
        /\ \/ ReadsLogin(c) \/ ReadsLeave(c) \/ ReadsChat(c) \/ Drops(c)
           \/ ReadsCreate(c) \/ ReadsJoin(c) \/ ReadsJoinClosed(c)
    BY <1>6, ServerSteps DEF LobbyInv
  <2>2. CASE ReadsLogin(c)
    BY <1>1, <2>1, <2>2, LoginServer, LoginKept, KeptKeeps
  <2>3. CASE ReadsLeave(c)
    BY <1>1, <2>1, <2>3, LeaveServer, LeaveReadKept, KeptKeeps
  <2>4. CASE ReadsChat(c)
    <3>1. UNCHANGED <<sessionVars, roomVars, caught>>
      BY <2>4 DEF ReadsChat, Chat
    <3> QED BY <1>1, <2>4, <3>1, ServerUntouched, ChatReadKept, KeptKeeps
  <2>5. CASE Drops(c)
    <3>1. UNCHANGED <<sessionVars, roomVars, caught>>
      BY <2>5 DEF Drops
    <3> QED BY <1>1, <2>5, <3>1, ServerUntouched, DropKept, KeptKeeps
  <2>6. CASE ReadsCreate(c)
    BY <1>1, <2>1, <2>6, CreateServer, CreateReadKept, KeptKeeps
  <2>7. CASE ReadsJoin(c)
    BY <1>1, <2>1, <2>7, JoinServer, JoinReadKept, KeptKeeps
  <2>8. CASE ReadsJoinClosed(c)
    BY <1>1, <2>1, <2>8, JoinClosedServer, JoinClosedKept, KeptKeeps
  <2> QED BY <2>1, <2>2, <2>3, <2>4, <2>5, <2>6, <2>7, <2>8
<1>7. ASSUME NEW c \in Conns, ServerSeesEnd(c)
      PROVE  LobbyInv'
  <2>1. ServerInv'
    BY <1>1, <1>7, DisconnectKeeps DEF ServerSeesEnd, LobbyInv
  <2> QED BY <1>7, <2>1, EndKept, KeptKeeps
<1>8. ASSUME NEW c \in Conns, JoinLost(c)
      PROVE  LobbyInv'
  <2>1. ServerInv'
    BY <1>1, <1>8, JoinLostServer DEF LobbyInv
  <2> QED BY <1>8, <2>1, LostKept, KeptKeeps
<1>9. CASE UNCHANGED vars
  <2>1. ServerInv'
    BY <1>1, <1>9, ServerUntouched DEF vars
  <2>2. UNCHANGED <<sess, uname, attached, isGm, owner, claimed, games, gmOf,
                    members, vacant, idCtr, client, lobby, hasty, toServer, toClient, caught>>
    BY <1>9 DEF vars, sessionVars, roomVars, clientVars
  <2>3. TypeOK'
    BY <2>2 DEF LobbyInv, TypeOK
  <2>4. LoginInv'
    BY <2>2 DEF LobbyInv, LoginInv, LoginPart, NewInv, OldInv, GoneInv,
                LoggingInInv, LoggedInInv, Running
  <2>5. TalkInv'
    BY <2>2 DEF LobbyInv, TalkInv, Told, IdleInv, GmInitInv, PlayerInitInv,
                ActiveInv, Asks, IsTold, LeavesRoom
  <2> QED BY <2>1, <2>3, <2>4, <2>5 DEF LobbyInv, ServerInv
<1> QED BY <1>2, <1>3, <1>4, <1>5, <1>6, <1>7, <1>8, <1>9 DEF Next

\* The invariant of the registers and of the streams holds of every state the
\* server and its clients can reach (TetrisSimulator, ConnectionSession,
\* TetrisClient).
THEOREM LobbyInductive == Spec => []LobbyInv
<1>1. LobbyInv /\ [Next]_vars => LobbyInv'
  BY LobbyNext
<1> QED BY <1>1, LobbyInit, PTL DEF Spec

\* Every variable stays in its type; in particular nothing is read that the
\* state machine of the client has no handler for.
THEOREM LobbyTypes == Spec => []TypeOK
<1>1. LobbyInv => TypeOK
  BY DEF LobbyInv
<1> QED BY <1>1, LobbyInductive, PTL

\* A name is taken by exactly the connected session that has logged in with it
\* (claimUsername, onDisconnect).
THEOREM NamesAreExact == Spec => []NamesExact
<1>1. LobbyInv => NamesExact
  BY DEF LobbyInv, Registered
<1> QED BY <1>1, LobbyInductive, PTL

\* A session refers to a room exactly when the room is open and has it, but for
\* joins caught by the end of their room; and a slot that a joiner left empty,
\* because it could not be told of its join, is one of an open room (createGame,
\* destroyGame, associateGame, disassociateGame, onDisconnect).
THEOREM RoomsAreExact == Spec => []RoomsExact
<1>1. LobbyInv => RoomsExact
  BY DEF LobbyInv, RoomsInv
<1> QED BY <1>1, LobbyInductive, PTL

\* A client that takes itself for logged in has a session that is (handleLogin
\* and performBlockingLogin).
THEOREM InIsIn == Spec => []InMeansIn
<1>1. LobbyInv => InMeansIn
  <2> SUFFICES ASSUME LobbyInv, NEW c \in Conns,
                      Running(c), client[c] # "login", sess[c] # "none"
               PROVE  sess[c] = "in" /\ owner[uname[c]] = c
    BY DEF InMeansIn
  <2>1. sess[c] # "new"
    BY DEF LobbyInv, LoginInv, LoginPart, NewInv, Running
  <2>2. sess[c] = "in" /\ uname[c] \in Names
    BY <2>1 DEF LobbyInv, Registered, TypeOK
  <2> QED BY <2>2 DEF LobbyInv, Registered, NamesExact
<1> QED BY <1>1, LobbyInductive, PTL

\* With nothing under way, a client that has waited for its answers and has a
\* session in a room knows so, as what, and in which room (the onMsg handlers of
\* TetrisClient and of TetrisSimulator).
THEOREM ClientKnowsItsRoom == Spec => []KnowsItsRoom
<1>1. LobbyInv => KnowsItsRoom
  <2> SUFFICES ASSUME LobbyInv, NEW c \in Conns \ (hasty \cup caught),
                      Quiet(c), attached[c] # None
               PROVE  /\ client[c] = IF isGm[c] THEN "GM_ACTIVE" ELSE "PLAYER_ACTIVE"
                      /\ lobby[c] = attached[c]
    BY DEF KnowsItsRoom
  <2>1. Told(c) /\ LoginPart(c)
    BY DEF LobbyInv, TalkInv, LoginInv
  <2>2. Running(c) /\ toServer[c] = <<>> /\ toClient[c] = <<>>
    BY DEF Quiet
  <2>3. \A m : ~Asks(c, m) /\ ~IsTold(c, m)
    BY <2>2, NothingPending DEF Asks, IsTold
  <2>4. ~LeavesRoom(c)
    BY <2>2 DEF LeavesRoom
  <2>5. client[c] # "login"
    <3>1. sess[c] = "in"
      BY DEF LobbyInv, RoomsInv, RoomsExact
    <3> QED BY <2>1, <3>1 DEF LoginPart, LoggingInInv
  <2>6. client[c] \in {"GM_ACTIVE", "PLAYER_ACTIVE"}
    BY <2>1, <2>2, <2>3, <2>4, <2>5
    DEF Told, IdleInv, GmInitInv, PlayerInitInv, LobbyInv, TypeOK, Running
  <2>7. lobby[c] = attached[c] /\ isGm[c] = (client[c] = "GM_ACTIVE")
    BY <2>1, <2>6 DEF Told, ActiveInv
  <2> QED BY <2>6, <2>7
<1> QED BY <1>1, LobbyInductive, PTL
=============================================================================
