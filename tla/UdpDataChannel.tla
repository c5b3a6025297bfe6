--------------------------- MODULE UdpDataChannel ---------------------------
(***************************************************************************)
(* One UDP tunnel: the sessions the server keeps per public user address,  *)
(* the envelopes that carry them over the UDP data channel, and the        *)
(* backend sockets of the client.                                          *)
(*   server: handleUDPConnections, sendUDPToClient, handleUDPDataChannel,  *)
(*           getOrCreateSession, cleanupUDPSessions                        *)
(*           (src/cmd/server/main.go)                                      *)
(*   client: startUDPDataChannel, handleUDPDataChannel, readBackend        *)
(*           (src/cmd/client/main.go)                                      *)
(*                                                                         *)
(* A datagram may be lost, duplicated and reordered: both directions are   *)
(* sets that only grow, and receiving is reading an element.  A payload is *)
(* abstracted to its origin, the user whose traffic caused it.  An address *)
(* of the data channel is the client's or a stray sender's.                *)
(***************************************************************************)
EXTENDS Naturals, Sequences, FiniteSets

CONSTANTS
  Users,        \* public user addresses
  MaxSessions,  \* bound on sessions ever created (the code counts in uint64)
  PendingMax,   \* capacity of pendingOut (1024 in the code)
  NoUser,       \* no user
  NoAddr        \* clientDataAddr = nil

ASSUME NoUserAssumption == NoUser \notin Users
ASSUME NoAddrAssumption == NoAddr \notin {"client", "stray", "unread"}
ASSUME SessionBoundAssumption == MaxSessions \in Nat /\ PendingMax \in Nat

Sids  == 1 .. MaxSessions
Addrs == {"client", "stray"}

\* Envelopes: 0x01 registers a session, 0x02 carries data, 0x03 closes it.
Envelopes == [kind : {"reg", "bye"}, sid : Sids, origin : {NoUser}]
             \cup [kind : {"data"}, sid : Sids, origin : Users]

\* The user loop has not read clientDataAddr yet for the next envelope.
Unread == "unread"

VARIABLES
  sessions,       \* sessions: sid -> user, NoUser if absent
  addrIndex,      \* addrIndex: user -> sid, 0 if absent
  sessionSeq,     \* last sid given out
  fresh,          \* sids active since the last tick of the cleanup
  clientDataAddr, \* where envelopes for the client are sent
  pendingOut,     \* envelopes kept while that address is unknown
  todo,           \* user loop: envelopes still to send for the packet at hand
  seenAddr,       \* user loop: clientDataAddr as read for the next one
  toClient,       \* datagrams sent to the client
  toServer,       \* datagrams sent by the client
  hello,          \* whether the client has sent its hello
  backend,        \* client: sids with an open backend socket
  received,       \* client: <<sid, origin>> written to a backend socket
  closing,        \* client: sids whose reader is about to send 0x03
  delivered,      \* <<user, origin>>: replies written to a public user
  touch,          \* data channel loop: the sid whose reply it has written and
                  \* whose lastActive it has not set yet, 0 if none
  owner           \* history: the user each sid was given to

index    == <<sessions, addrIndex, sessionSeq, fresh, owner>>
outbound == <<clientDataAddr, pendingOut, todo, seenAddr>>
network  == <<toClient, toServer, hello>>
clients  == <<backend, received, closing>>
replies  == <<delivered, touch>>
vars     == <<index, outbound, network, clients, replies>>

Init ==
  /\ sessions = [s \in Sids |-> NoUser]
  /\ addrIndex = [u \in Users |-> 0]
  /\ sessionSeq = 0
  /\ fresh = {}
  /\ clientDataAddr = NoAddr
  /\ pendingOut = <<>>
  /\ todo = <<>>
  /\ seenAddr = Unread
  /\ toClient = {}
  /\ toServer = {}
  /\ hello = FALSE
  /\ backend = {}
  /\ received = {}
  /\ closing = {}
  /\ delivered = {}
  /\ touch = 0
  /\ owner = [s \in Sids |-> NoUser]

-----------------------------------------------------------------------------
(* Server, user loop: handleUDPConnections.                                *)

Env(kind, s, u) == [kind |-> kind, sid |-> s, origin |-> u]

\* getOrCreateSession finds the session; the packet becomes a data envelope.
KnownUser(u) ==
  /\ todo = <<>>
  /\ addrIndex[u] # 0
  /\ fresh' = fresh \cup ({addrIndex[u]} \cap {s \in Sids : sessions[s] # NoUser})
  /\ todo' = <<Env("data", addrIndex[u], u)>>
  /\ UNCHANGED <<sessions, addrIndex, sessionSeq, owner, clientDataAddr, pendingOut,
                 seenAddr, network, clients, replies>>

\* Mutant of NextSid: numbers of closed sessions are given out again.
NextSidReused == Cardinality({s \in Sids : sessions[s] # NoUser}) + 1

\* Mutant of NextSid: the counter before the increment.
NextSidFromZero == sessionSeq

\* atomic.AddUint64(&proxy.sessionSeq, 1)
NextSid == sessionSeq + 1

\* It creates one; the client is told before the data follows.
NewUser(u) ==
  /\ todo = <<>>
  /\ addrIndex[u] = 0
  /\ sessionSeq < MaxSessions
  /\ sessionSeq' = sessionSeq + 1
  /\ sessions' = [sessions EXCEPT ![NextSid] = u]
  /\ addrIndex' = [addrIndex EXCEPT ![u] = NextSid]
  /\ owner' = [owner EXCEPT ![NextSid] = u]
  /\ fresh' = fresh \cup {NextSid}
  /\ todo' = <<Env("reg", NextSid, NoUser), Env("data", NextSid, u)>>
  /\ UNCHANGED <<clientDataAddr, pendingOut, seenAddr, network, clients, replies>>

\* sendUDPToClient reads the address under RLock ...
ReadAddr ==
  /\ todo # <<>>
  /\ seenAddr = Unread
  /\ seenAddr' = clientDataAddr
  /\ UNCHANGED <<index, clientDataAddr, pendingOut, todo, network, clients, replies>>

\* ... and acts on it later: it sends the envelope ...
SendEnvelope ==
  /\ todo # <<>>
  /\ seenAddr \in Addrs
  /\ toClient' = IF seenAddr = "client" THEN toClient \cup {Head(todo)} ELSE toClient
  /\ todo' = Tail(todo)
  /\ seenAddr' = Unread
  /\ UNCHANGED <<index, clientDataAddr, pendingOut, toServer, hello, clients, replies>>

HasRoom == Len(pendingOut) < PendingMax

\* Mutant of KeepEnvelope: the address is read once for all the envelopes of
\* a packet.
KeepEnvelopesOfPacket ==
  /\ todo # <<>>
  /\ seenAddr = NoAddr
  /\ pendingOut' = IF HasRoom THEN Append(pendingOut, Head(todo)) ELSE pendingOut
  /\ todo' = Tail(todo)
  /\ seenAddr' = IF Len(todo) = 1 THEN Unread ELSE NoAddr
  /\ UNCHANGED <<index, clientDataAddr, network, clients, replies>>

\* ... or keeps it in pendingOut if there is room, under Lock.
KeepEnvelope ==
  /\ todo # <<>>
  /\ seenAddr = NoAddr
  /\ pendingOut' = IF HasRoom THEN Append(pendingOut, Head(todo)) ELSE pendingOut
  /\ todo' = Tail(todo)
  /\ seenAddr' = Unread
  /\ UNCHANGED <<index, clientDataAddr, network, clients, replies>>

-----------------------------------------------------------------------------
(* Server, data channel loop: handleUDPDataChannel.                        *)

\* The first datagram, from whatever sender, gives the address; what was
\* kept is sent to it.
LearnAddr(from) ==
  /\ clientDataAddr' = IF clientDataAddr = NoAddr THEN from ELSE clientDataAddr
  /\ pendingOut' = IF clientDataAddr = NoAddr THEN <<>> ELSE pendingOut
  /\ toClient' = IF clientDataAddr = NoAddr /\ from = "client"
                 THEN toClient \cup {pendingOut[i] : i \in 1 .. Len(pendingOut)}
                 ELSE toClient

\* A datagram that is not the client's: its signature is not valid.
ReceiveStray ==
  /\ touch = 0
  /\ clientDataAddr = NoAddr
  /\ LearnAddr("stray")
  /\ UNCHANGED <<index, todo, seenAddr, toServer, hello, clients, replies>>

ReceiveHello ==
  /\ touch = 0
  /\ hello
  /\ clientDataAddr = NoAddr
  /\ LearnAddr("client")
  /\ UNCHANGED <<index, todo, seenAddr, toServer, hello, clients, replies>>

\* 0x02: the payload goes to the user of the session, if there is one.
ReceiveReply(m) ==
  /\ touch = 0
  /\ m \in toServer
  /\ m.kind = "data"
  /\ LearnAddr("client")
  /\ IF sessions[m.sid] = NoUser
     THEN UNCHANGED replies
     ELSE /\ delivered' = delivered \cup {<<sessions[m.sid], m.origin>>}
          /\ touch' = m.sid
  /\ UNCHANGED <<index, todo, seenAddr, toServer, hello, clients>>

\* Then, in another critical section, the session counts as active if it is
\* still there.
TouchSession ==
  /\ touch # 0
  /\ touch' = 0
  /\ fresh' = IF sessions[touch] # NoUser THEN fresh \cup {touch} ELSE fresh
  /\ UNCHANGED <<sessions, addrIndex, sessionSeq, owner, outbound, network, clients,
                 delivered>>

\* Mutant of Forget: addrIndex keeps the entries of the sessions deleted.
ForgetSessionsOnly(ss) ==
  /\ sessions' = [s \in Sids |-> IF s \in ss THEN NoUser ELSE sessions[s]]
  /\ addrIndex' = addrIndex

\* Both maps lose the sessions ss.
Forget(ss) ==
  /\ sessions' = [s \in Sids |-> IF s \in ss THEN NoUser ELSE sessions[s]]
  /\ addrIndex' = [u \in Users |->
                     IF \E s \in ss : sessions[s] = u THEN 0 ELSE addrIndex[u]]

\* 0x03: the client has closed the backend socket of the session.
ReceiveBye(m) ==
  /\ touch = 0
  /\ m \in toServer
  /\ m.kind = "bye"
  /\ LearnAddr("client")
  /\ Forget({m.sid})
  /\ UNCHANGED <<sessionSeq, fresh, owner, todo, seenAddr, toServer, hello, clients,
                 replies>>

\* cleanupUDPSessions: every 5 minutes the sessions without activity in the
\* last 5 go.  The client is not told.
Tick ==
  /\ Forget({s \in Sids : sessions[s] # NoUser /\ s \notin fresh})
  /\ fresh' = {}
  /\ UNCHANGED <<sessionSeq, owner, outbound, network, clients, replies>>

-----------------------------------------------------------------------------
(* Client.                                                                 *)

\* startUDPDataChannel
SayHello ==
  /\ ~hello
  /\ hello' = TRUE
  /\ UNCHANGED <<index, outbound, toClient, toServer, clients, replies>>

\* 0x01 and 0x02: getOrCreateBackend, then the payload is written to it.
ClientReceives(m) ==
  /\ m \in toClient
  /\ backend' = backend \cup {m.sid}
  /\ received' = IF m.kind = "data" THEN received \cup {<<m.sid, m.origin>>} ELSE received
  /\ UNCHANGED <<index, outbound, network, closing, replies>>

\* readBackend: the local service answers on the socket of a session.
BackendReplies(s, u) ==
  /\ s \in backend
  /\ <<s, u>> \in received
  /\ toServer' = toServer \cup {Env("data", s, u)}
  /\ UNCHANGED <<index, outbound, toClient, hello, clients, replies>>

\* readBackend: the socket fails and closeBackendSession removes it ...
BackendFails(s) ==
  /\ s \in backend
  /\ backend' = backend \ {s}
  /\ closing' = closing \cup {s}
  /\ UNCHANGED <<index, outbound, network, received, replies>>

\* ... and the server is told afterwards.
SendBye(s) ==
  /\ s \in closing
  /\ closing' = closing \ {s}
  /\ toServer' = toServer \cup {Env("bye", s, NoUser)}
  /\ UNCHANGED <<index, outbound, toClient, hello, backend, received, replies>>

-----------------------------------------------------------------------------
UserLoop == ReadAddr \/ SendEnvelope \/ KeepEnvelope

Next ==
  \/ \E u \in Users : KnownUser(u) \/ NewUser(u)
  \/ UserLoop
  \/ ReceiveStray \/ ReceiveHello
  \/ \E m \in toServer : ReceiveReply(m) \/ ReceiveBye(m)
  \/ TouchSession
  \/ Tick
  \/ SayHello
  \/ \E m \in toClient : ClientReceives(m)
  \/ \E s \in Sids : BackendFails(s) \/ SendBye(s) \/ \E u \in Users : BackendReplies(s, u)

Spec == Init /\ [][Next]_vars

\* The loops of the two programs run, and the server's ticker ticks.
FairSpec ==
  /\ Spec
  /\ WF_vars(UserLoop)
  /\ WF_vars(Tick)
  /\ \A s \in Sids : WF_vars(SendBye(s))

-----------------------------------------------------------------------------
(* Properties.                                                             *)

\* The type of every variable.
TypeOK ==
  /\ sessions \in [Sids -> Users \cup {NoUser}]
  /\ addrIndex \in [Users -> Sids \cup {0}]
  /\ sessionSeq \in 0 .. MaxSessions
  /\ fresh \in SUBSET Sids
  /\ clientDataAddr \in Addrs \cup {NoAddr}
  /\ pendingOut \in Seq(Envelopes)
  /\ todo \in Seq(Envelopes)
  /\ seenAddr \in Addrs \cup {NoAddr, Unread}
  /\ toClient \in SUBSET Envelopes
  /\ toServer \in SUBSET Envelopes
  /\ hello \in BOOLEAN
  /\ backend \in SUBSET Sids
  /\ received \in SUBSET (Sids \X Users)
  /\ closing \in SUBSET Sids
  /\ delivered \in SUBSET (Users \X Users)
  /\ touch \in Sids \cup {0}
  /\ owner \in [Sids -> Users \cup {NoUser}]

\* The two maps of the server describe the same sessions: a user is indexed
\* to a session exactly when that session is his, after every order of
\* packets, closes and expiries.  Otherwise his replies would be dropped for
\* good, or he would have two sessions.
SessionIndexExact ==
  \A u \in Users, s \in Sids : addrIndex[u] = s <=> sessions[s] = u

\* A reply is written only to the user whose traffic caused it, even when it
\* is late, duplicated, or its session has expired and he has a new one.
RepliesReachOrigin ==
  \A d \in delivered : d[1] = d[2]

\* The race between sendUDPToClient, which finds no address and appends to
\* pendingOut later, and handleUDPDataChannel, which learns the address and
\* flushes in between, strands at most one envelope in the life of a tunnel:
\* when the registration of a session is stranded its data is still sent.
StrandedAtMostOne ==
  clientDataAddr # NoAddr => Len(pendingOut) <= 1

\* pendingOut never exceeds its capacity, although the check and the append
\* are in another critical section than the read of the address.
PendingBounded == Len(pendingOut) <= PendingMax

\* "kept until handleUDPDataChannel has the address, then flushed" (main.go
\* 905): once the client's address is known nothing stays in pendingOut.
NothingStranded ==
  clientDataAddr = "client" => pendingOut = <<>>

\* "stop the goroutine that cleans up the UDP sessions" (client main.go 549):
\* the client has such a goroutine, so that the backend socket of a session
\* that has ended on the server does not stay open for ever.
BackendEventuallyClosed ==
  \A s \in Sids :
    (s \in backend /\ sessions[s] = NoUser /\ todo = <<>>)
      ~> (s \notin backend \/ sessions[s] # NoUser)
=============================================================================
