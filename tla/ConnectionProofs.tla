-------------------------- MODULE ConnectionProofs --------------------------
(***************************************************************************)
(* Proofs about the two ends of a control connection: the client process   *)
(* (ClientSession), for every set of tunnels and connections, and the      *)
(* guard in front of the server (ConnGuard), for every set of addresses,   *)
(* every whitelist and every value of the limits, with any finite number   *)
(* of handlers.                                                            *)
(***************************************************************************)
EXTENDS ClientSession, ConnGuard, FiniteSetTheorems, TLAPS

(* The client.                                                             *)

\* registerProxy waits for a tunnel that is not in the map yet, and only
\* while connect runs.
WaitingInv == waiting # NoTunnel => waiting \notin proxies /\ pc = "register"

IInv == TypeOK /\ WaitingInv /\ ChannelsTracked

USE TunnelAssumption, LinkAssumption, QueueAssumption

LEMMA MessageTypes ==
  /\ \A t \in Tunnels, ok \in BOOLEAN : Resp(t, ok) \in ToClient
  /\ \A ts \in SUBSET Tunnels : SyncResp(ts) \in ToClient
  /\ \A k \in {"newconn", "close", "beat"}, t \in Tunnels \cup {NoTunnel} :
       Notice(k, t) \in ToClient
  /\ \A k \in {"new", "sync", "beat"}, t \in Tunnels \cup {NoTunnel} : Ask(k, t) \in ToServer
  BY DEF Resp, SyncResp, Notice, Ask, ToClient, ToServer

LEMMA InitIInv == Init => IInv
<1> SUFFICES ASSUME Init PROVE IInv
  OBVIOUS
<1>1. TypeOK
  <2>1. toClient \in Seq(ToClient) /\ toServer \in Seq(ToServer)
    BY DEF Init
  <2>2. up \in BOOLEAN /\ beating \in BOOLEAN
    BY DEF Init
  <2>3. plan \in [server : SUBSET Tunnels, local : SUBSET Tunnels]
    BY DEF Init
  <2> QED BY <2>1, <2>2, <2>3 DEF Init, TypeOK
<1>2. WaitingInv /\ ChannelsTracked
  BY DEF Init, WaitingInv, ChannelsTracked
<1> QED BY <1>1, <1>2 DEF IInv

\* A step that leaves what the client knows of its tunnels alone, and does
\* not lead back to the dial loop, keeps every channel tracked.
LEMMA ChannelsFrame ==
  ASSUME IInv, UNCHANGED <<proxies, channel, quit>>, pc' # "dial" \/ pc' = pc
  PROVE  ChannelsTracked'
  BY DEF IInv, ChannelsTracked, ToQuit

\* The messages left after one is read, or the one more that is sent, have
\* the type of a message.
LEMMA QueueTypes ==
  ASSUME NEW S, NEW q \in Seq(S)
  PROVE  /\ q # <<>> => Head(q) \in S /\ Tail(q) \in Seq(S)
         /\ \A m \in S : Append(q, m) \in Seq(S)
  OBVIOUS

LEMMA ConnectStep ==
  ASSUME IInv, NEW l \in Links, Connect(l)
  PROVE  IInv'
<1> USE DEF Connect
<1>1. TypeOK'
  BY MessageTypes DEF IInv, TypeOK
<1>2. WaitingInv'
  BY DEF IInv, WaitingInv
<1>3. ChannelsTracked'
  BY ChannelsFrame
<1> QED BY <1>1, <1>2, <1>3 DEF IInv

LEMMA SyncStep ==
  ASSUME IInv, ReadSync \/ SyncFails
  PROVE  IInv'
<1> USE DEF ReadSync, SyncFails
<1>1. toClient # <<>> => Head(toClient) \in ToClient /\ Tail(toClient) \in Seq(ToClient)
  BY QueueTypes DEF IInv, TypeOK
<1>2. TypeOK'
  <2>1. \A m \in ToClient : m.names \in SUBSET Tunnels
    BY DEF ToClient
  <2>2. plan' \in [server : SUBSET Tunnels, local : SUBSET Tunnels]
    BY <1>1, <2>1
  <2>3. toClient' \in Seq(ToClient)
    BY <1>1 DEF IInv, TypeOK, network
  <2> QED BY <2>2, <2>3 DEF IInv, TypeOK, server, network
<1>3. WaitingInv'
  BY DEF IInv, WaitingInv
<1>4. ChannelsTracked'
  BY ChannelsFrame
<1> QED BY <1>2, <1>3, <1>4 DEF IInv

LEMMA TunnelStep ==
  ASSUME IInv, NEW t \in Tunnels, SkipTunnel(t) \/ SendNewProxy(t)
  PROVE  IInv'
<1> USE DEF SkipTunnel, SendNewProxy
<1>1. PlanWithout(t) \in [server : SUBSET Tunnels, local : SUBSET Tunnels]
  BY DEF IInv, TypeOK, PlanWithout
<1>2. TypeOK'
  <2>1. Ask("new", t) \in ToServer
    BY MessageTypes
  <2>2. Append(toServer, Ask("new", t)) \in Seq(ToServer)
    BY <2>1, QueueTypes DEF IInv, TypeOK
  <2>3. toServer' \in Seq(ToServer)
    BY <2>2 DEF IInv, TypeOK, network
  <2> QED BY <1>1, <2>3 DEF IInv, TypeOK, server, network
<1>3. WaitingInv'
  BY DEF IInv, WaitingInv
<1>4. ChannelsTracked'
  BY ChannelsFrame
<1> QED BY <1>2, <1>3, <1>4 DEF IInv

LEMMA ReadRespStep ==
  ASSUME IInv, ReadResp
  PROVE  IInv'
<1> USE DEF ReadResp
<1>1. Head(toClient) \in ToClient /\ Tail(toClient) \in Seq(ToClient)
  BY QueueTypes DEF IInv, TypeOK
<1>2. waiting \in Tunnels
  BY DEF IInv, TypeOK
<1>3. DataPort(Head(toClient)) \in Udp \cup {NoTunnel}
  BY <1>1 DEF DataPort
<1>4. TypeOK'
  <2>1. proxies' \in SUBSET Tunnels /\ waiting' \in Tunnels \cup {NoTunnel}
    BY <1>2 DEF IInv, TypeOK
  <2>2. channel' \in [Tunnels -> Udp \cup {NoTunnel}]
    <3>1. PICK port \in Udp \cup {NoTunnel} :
            channel' = channel \/ channel' = [channel EXCEPT ![waiting] = port]
      BY <1>3
    <3> QED BY <3>1 DEF IInv, TypeOK
  <2>3. quit' \in [Tunnels -> {"none", "open", "closed"}]
    BY <1>2 DEF IInv, TypeOK
  <2> QED BY <1>1, <2>1, <2>2, <2>3 DEF IInv, TypeOK, server
<1>5. WaitingInv'
  BY DEF WaitingInv
<1>6. ChannelsTracked'
  BY <1>2, <1>3 DEF IInv, TypeOK, WaitingInv, ChannelsTracked, ToQuit
<1> QED BY <1>4, <1>5, <1>6 DEF IInv

LEMMA ConnectEnds ==
  ASSUME IInv, RespFails \/ Registered
  PROVE  IInv'
<1> USE DEF RespFails, Registered
<1>1. TypeOK'
  BY DEF IInv, TypeOK, server, network
<1>2. WaitingInv'
  BY DEF IInv, WaitingInv
<1>3. ChannelsTracked'
  BY ChannelsFrame
<1> QED BY <1>1, <1>2, <1>3 DEF IInv

LEMMA ReadMessageStep ==
  ASSUME IInv, ReadMessage
  PROVE  IInv'
<1> USE DEF ReadMessage
<1>1. Tail(toClient) \in Seq(ToClient)
  BY QueueTypes DEF IInv, TypeOK
<1>2. TypeOK'
  BY <1>1 DEF IInv, TypeOK, server, QuitClosed
<1>3. WaitingInv'
  BY DEF IInv, WaitingInv
<1>4. ChannelsTracked'
  BY DEF IInv, TypeOK, ChannelsTracked, ToQuit, QuitClosed
<1> QED BY <1>2, <1>3, <1>4 DEF IInv

LEMMA ShutdownStep ==
  ASSUME IInv, ReadFails \/ shutdownProxies \/ ShutdownPanics
  PROVE  IInv'
<1> USE DEF ReadFails, shutdownProxies, ShutdownPanics
<1>1. TypeOK'
  BY DEF IInv, TypeOK, server, network
<1>2. WaitingInv'
  BY DEF IInv, WaitingInv
<1>3. ChannelsTracked'
  <2>1. CASE shutdownProxies
    BY <2>1 DEF IInv, ChannelsTracked
  <2>2. CASE ReadFails \/ ShutdownPanics
    BY <2>2, ChannelsFrame
  <2> QED BY <2>1, <2>2
<1> QED BY <1>1, <1>2, <1>3 DEF IInv

\* Nothing the server or the environment does touches the client's state.
LEMMA ClientFrame ==
  ASSUME IInv, UNCHANGED client, TypeOK'
  PROVE  IInv'
<1>1. WaitingInv'
  BY DEF IInv, WaitingInv, client
<1>2. ChannelsTracked'
  BY ChannelsFrame DEF client
<1> QED BY <1>1, <1>2 DEF IInv

LEMMA RequestStep ==
  ASSUME IInv, HandleNewProxy \/ HandleOther
  PROVE  IInv'
<1> USE DEF HandleNewProxy, HandleOther
<1>1. Head(toServer) \in ToServer /\ Tail(toServer) \in Seq(ToServer)
  BY QueueTypes DEF IInv, TypeOK
<1>2. CASE HandleNewProxy
  <2> USE <1>2
  <2> DEFINE t == Head(toServer).tunnel
  <2>1. PICK ok \in BOOLEAN :
          /\ registered' = IF ok THEN [registered EXCEPT ![t] = conn] ELSE registered
          /\ Reply(Resp(t, ok))
    OBVIOUS
  <2>2. Resp(t, ok) \in ToClient
    BY <1>1 DEF ToServer, Resp, ToClient
  <2>3. TypeOK'
    BY <1>1, <2>1, <2>2, QueueTypes DEF IInv, TypeOK, Reply, client
  <2> QED BY <2>3, ClientFrame
<1>3. CASE HandleOther
  <2> USE <1>3
  <2>1. SyncResp(enabled) \in ToClient /\ Notice("beat", NoTunnel) \in ToClient
    BY MessageTypes DEF IInv, TypeOK
  <2>2. TypeOK'
    BY <1>1, <2>1, QueueTypes DEF IInv, TypeOK, Reply, client, server
  <2> QED BY <2>2, ClientFrame
<1> QED BY <1>2, <1>3

LEMMA OtherServerStep ==
  ASSUME IInv,
         \/ \E l \in Links : HandlerExits(l)
         \/ Heartbeat \/ Disconnect
         \/ \E t \in Tunnels : UserConnects(t) \/ NotifyClientSync(t)
         \/ \E t \in Tunnels, on \in BOOLEAN : SetProxyEnabled(t, on)
  PROVE  IInv'
<1> toServer \in Seq(ToServer) /\ toClient \in Seq(ToClient)
  BY DEF IInv, TypeOK
<1>1. ASSUME Heartbeat PROVE TypeOK' /\ UNCHANGED client
  <2>1. Ask("beat", NoTunnel) \in ToServer
    BY MessageTypes
  <2>2. toServer' \in Seq(ToServer)
    BY <1>1, <2>1, QueueTypes DEF Heartbeat
  <2> QED BY <1>1, <2>2 DEF Heartbeat, IInv, TypeOK, client, server
<1>2. ASSUME Lost PROVE up' \in BOOLEAN /\ toClient' \in Seq(ToClient) /\ toServer' \in Seq(ToServer)
  <2>1. toClient' \in {<<>>, toClient} /\ toServer' = <<>> /\ up' = FALSE
    BY <1>2 DEF Lost
  <2>2. <<>> \in Seq(ToClient) /\ <<>> \in Seq(ToServer)
    OBVIOUS
  <2> QED BY <2>1, <2>2
<1>7. ASSUME Disconnect PROVE TypeOK' /\ UNCHANGED client
  BY <1>7, <1>2 DEF Disconnect, IInv, TypeOK, client, server
<1>3. ASSUME NEW l \in Links, HandlerExits(l) PROVE TypeOK' /\ UNCHANGED client
  BY <1>3 DEF HandlerExits, IInv, TypeOK, client, network
<1>4. ASSUME NEW t \in Tunnels, UserConnects(t) PROVE TypeOK' /\ UNCHANGED client
  <2>1. Notice("newconn", t) \in ToClient
    BY MessageTypes
  <2>2. toClient' \in Seq(ToClient)
    BY <1>4, <2>1, QueueTypes DEF UserConnects, Reply
  <2> QED BY <1>4, <2>2 DEF UserConnects, IInv, TypeOK, client, server
<1>5. ASSUME NEW t \in Tunnels, NotifyClientSync(t) PROVE TypeOK' /\ UNCHANGED client
  <2>1. up' \in BOOLEAN /\ toClient' \in Seq(ToClient) /\ toServer' \in Seq(ToServer)
    <3>1. CASE Lost
      BY <3>1, <1>2
    <3>2. CASE UNCHANGED network
      BY <3>2 DEF network, IInv, TypeOK
    <3> QED BY <1>5, <3>1, <3>2 DEF NotifyClientSync
  <2> QED BY <1>5, <2>1 DEF NotifyClientSync, IInv, TypeOK, client
<1>6. ASSUME NEW t \in Tunnels, NEW on \in BOOLEAN, SetProxyEnabled(t, on)
      PROVE  TypeOK' /\ UNCHANGED client
  BY <1>6 DEF SetProxyEnabled, IInv, TypeOK, client, network
<1> QED BY <1>1, <1>7, <1>3, <1>4, <1>5, <1>6, ClientFrame

LEMMA CloseStep ==
  ASSUME IInv, NEW t \in Tunnels, PanelClose(t) \/ ApiClose(t)
  PROVE  IInv'
<1>1. CloseProxy(t) /\ api' \in [Tunnels -> {"idle", "close", "notify"}]
  BY DEF PanelClose, ApiClose, IInv, TypeOK
<1>2. TypeOK'
  <2>1. Notice("close", t) \in ToClient
    BY MessageTypes
  <2>2. Append(toClient, Notice("close", t)) \in Seq(ToClient)
    BY <2>1, QueueTypes DEF IInv, TypeOK
  <2>3. toClient' \in Seq(ToClient)
    BY <1>1, <2>2 DEF CloseProxy, Reply, IInv, TypeOK
  <2> QED BY <1>1, <2>3 DEF CloseProxy, IInv, TypeOK, client
<1>3. UNCHANGED client
  BY <1>1 DEF CloseProxy
<1> QED BY <1>2, <1>3, ClientFrame

LEMMA StutterStep ==
  ASSUME IInv, UNCHANGED vars
  PROVE  IInv'
<1>1. TypeOK'
  BY DEF IInv, TypeOK, vars, client, server, network
<1> QED BY <1>1, ClientFrame DEF vars

LEMMA NextIInv == IInv /\ [Next]_vars => IInv'
<1> SUFFICES ASSUME IInv, [Next]_vars PROVE IInv'
  OBVIOUS
<1>1. CASE ClientStep
  BY <1>1, ConnectStep, SyncStep, TunnelStep, ReadRespStep, ConnectEnds, ReadMessageStep,
     ShutdownStep DEF ClientStep
<1>2. CASE ServerStep
  BY <1>2, RequestStep, OtherServerStep DEF ServerStep
<1>3. CASE Environment
  BY <1>3, OtherServerStep, CloseStep DEF Environment
<1>4. CASE UNCHANGED vars
  BY <1>4, StutterStep
<1> QED BY <1>1, <1>2, <1>3, <1>4 DEF Next

\* IInv holds in every reachable state.
THEOREM Inductive == Spec => []IInv
  BY InitIInv, NextIInv, PTL DEF Spec

\* Every variable of the client and of its connection keeps its type.
THEOREM TypeCorrect == Spec => []TypeOK
<1>1. IInv => TypeOK
  BY DEF IInv
<1> QED BY <1>1, Inductive, PTL

\* However often connections are lost, tunnels closed and registrations
\* refused or answered late, shutdownProxies finds every open data channel.
THEOREM ChannelsAreTracked == Spec => []ChannelsTracked
<1>1. IInv => ChannelsTracked
  BY DEF IInv
<1> QED BY <1>1, Inductive, PTL

-----------------------------------------------------------------------------
(* The guard.                                                              *)

\* A handler has an address exactly while it handles a connection.
AddressInv ==
  \A h \in Handlers : at[h] = "free" <=> ip[h] = NoIP

\* The limit on what the guard has booked.
BookedInv ==
  \A i \in Guarded : connCount[i] <= maxConn

\* The blacklist remembers the last ban of an address until it is over.
BanInv ==
  \A i \in IPs :
    \/ lastBan[i] = Never /\ blacklist[i] = Never
    \/ /\ lastBan[i] \in Nat
       /\ lastBan[i] <= now
       /\ blacklist[i] = lastBan[i] \/ (blacklist[i] = Never /\ now - lastBan[i] >= banDuration)

GuardInv == GuardTypeOK /\ AddressInv /\ CountExact /\ BookedInv /\ BanInv

USE AddressAssumption, HandlerAssumption, LimitAssumption, TimeAssumption DEF Guarded, Times

\* The handlers of an address are a finite set.
LEMMA LiveFinite ==
  ASSUME NEW i
  PROVE  IsFiniteSet(Live(i)) /\ Cardinality(Live(i)) \in Nat
<1>1. Live(i) \subseteq Handlers
  BY DEF Live
<1>2. IsFiniteSet(Live(i))
  BY <1>1, FS_Subset
<1> QED BY <1>2, FS_CardinalityType

\* Check gives a free handler an address: one more for that address, none
\* for the others.
LEMMA LiveAdded ==
  ASSUME GuardInv, NEW h \in Handlers, NEW i \in IPs, ip[h] = NoIP,
         ip' = [ip EXCEPT ![h] = i]
  PROVE  /\ Cardinality(Live(i))' = Cardinality(Live(i)) + 1
         /\ \A j \in IPs \ {i} : Live(j)' = Live(j)
<1>1. ip \in [Handlers -> IPs \cup {NoIP}]
  BY DEF GuardInv, GuardTypeOK
<1>2. Live(i)' = Live(i) \cup {h} /\ h \notin Live(i)
  BY <1>1 DEF Live
<1>3. \A j \in IPs \ {i} : Live(j)' = Live(j)
  BY <1>1 DEF Live
<1>4. Cardinality(Live(i) \cup {h}) = Cardinality(Live(i)) + 1
  BY <1>2, LiveFinite, FS_AddElement
<1> QED BY <1>2, <1>3, <1>4

\* Release takes it away again.
LEMMA LiveRemoved ==
  ASSUME GuardInv, NEW h \in Handlers, NEW i \in IPs, ip[h] = i,
         ip' = [ip EXCEPT ![h] = NoIP]
  PROVE  /\ Cardinality(Live(i)) \in Nat \ {0}
         /\ Cardinality(Live(i))' = Cardinality(Live(i)) - 1
         /\ \A j \in IPs \ {i} : Live(j)' = Live(j)
<1>1. ip \in [Handlers -> IPs \cup {NoIP}]
  BY DEF GuardInv, GuardTypeOK
<1>2. Live(i)' = Live(i) \ {h} /\ h \in Live(i)
  BY <1>1 DEF Live
<1>3. \A j \in IPs \ {i} : Live(j)' = Live(j)
  BY <1>1 DEF Live
<1>4. Cardinality(Live(i) \ {h}) = Cardinality(Live(i)) - 1
  BY <1>2, LiveFinite, FS_RemoveElement
<1>5. Cardinality(Live(i)) # 0
  BY <1>2, LiveFinite, FS_EmptySet
<1> QED BY <1>2, <1>3, <1>4, <1>5, LiveFinite

\* A step that gives no handler another address counts nothing.
LEMMA CountFrame ==
  ASSUME CountExact, UNCHANGED <<ip, connCount>>
  PROVE  CountExact'
BY DEF CountExact, Live

\* An offence changes the ban of its address alone, to a ban that starts now,
\* and keeps the count below the threshold.
LEMMA OffenceFrame ==
  ASSUME GuardInv, NEW i \in IPs, NEW old \in [IPs -> Times], Offence(i, old), now' = now,
         \A j \in IPs : \/ old[j] = blacklist[j]
                        \/ old[j] = Never /\ (blacklist[j] # Never => BanExpired(j))
  PROVE  /\ blacklist' \in [IPs -> Times]
         /\ lastBan' \in [IPs -> Times]
         /\ misbehavior' \in [IPs -> 0 .. banThreshold - 1]
         /\ BanInv'
<1>0. now \in Nat /\ misbehavior \in [IPs -> 0 .. banThreshold - 1]
      /\ lastBan \in [IPs -> Times] /\ blacklist \in [IPs -> Times]
  BY DEF GuardInv, GuardTypeOK
<1>1. CASE misbehavior[i] + 1 >= banThreshold
  <2>1. /\ blacklist' = [old EXCEPT ![i] = now]
        /\ lastBan' = [lastBan EXCEPT ![i] = now]
        /\ misbehavior' = [misbehavior EXCEPT ![i] = 0]
    BY <1>1 DEF Offence, ban
  <2>2. BanInv'
    BY <1>0, <2>1 DEF GuardInv, BanInv, BanExpired, Since
  <2> QED BY <1>0, <2>1, <2>2
<1>2. CASE ~(misbehavior[i] + 1 >= banThreshold)
  <2>1. /\ blacklist' = old
        /\ lastBan' = lastBan
        /\ misbehavior' = [misbehavior EXCEPT ![i] = misbehavior[i] + 1]
    BY <1>2 DEF Offence
  <2>2. BanInv'
    BY <1>0, <2>1 DEF GuardInv, BanInv, BanExpired, Since
  <2>3. misbehavior[i] + 1 \in 0 .. banThreshold - 1
    BY <1>0, <1>2
  <2> QED BY <1>0, <2>1, <2>2, <2>3
<1> QED BY <1>1, <1>2

LEMMA GuardInitInv == GuardInit => GuardInv
<1> SUFFICES ASSUME GuardInit PROVE GuardInv
  OBVIOUS
<1> USE DEF GuardInit
<1>1. GuardTypeOK /\ AddressInv /\ BookedInv /\ BanInv
  BY DEF GuardTypeOK, AddressInv, BookedInv, BanInv
<1>2. ASSUME NEW i \in IPs PROVE connCount[i] = 0 /\ Cardinality(Live(i)) = 0
  <2>1. Live(i) = {}
    BY DEF Live
  <2> QED BY <2>1, FS_EmptySet
<1>3. CountExact
  BY <1>2 DEF CountExact
<1> QED BY <1>1, <1>3 DEF GuardInv

LEMMA GuardNextInv == GuardInv /\ [GuardNext]_guardVars => GuardInv'
<1> SUFFICES ASSUME GuardInv, [GuardNext]_guardVars PROVE GuardInv'
  OBVIOUS
<1> USE DEF guard, handlers
<1>1. ASSUME NEW h \in Handlers, NEW i \in IPs, CheckPasses(h, i) PROVE GuardInv'
  <2> USE <1>1 DEF CheckPasses, Counts
  <2>1. ip[h] = NoIP
    BY DEF GuardInv, AddressInv
  <2>2. GuardTypeOK'
    BY DEF GuardInv, GuardTypeOK
  <2>3. AddressInv'
    BY DEF GuardInv, GuardTypeOK, AddressInv
  <2>4. CountExact'
    BY <2>1, LiveAdded, LiveFinite DEF GuardInv, GuardTypeOK, CountExact
  <2>5. BookedInv'
    BY DEF GuardInv, GuardTypeOK, BookedInv, TooMany
  <2>6. BanInv'
    BY DEF GuardInv, GuardTypeOK, BanInv, IsBanned, BanExpired, Since
  <2> QED BY <2>2, <2>3, <2>4, <2>5, <2>6 DEF GuardInv
<1>2. ASSUME NEW h \in Handlers, NEW i \in IPs, CheckRefuses(h, i) PROVE GuardInv'
  <2> USE <1>2 DEF CheckRefuses
  <2>1. PICK old \in [IPs -> Times] : old = [blacklist EXCEPT ![i] = Never]
    BY DEF GuardInv, GuardTypeOK
  <2>2. \A j \in IPs : \/ old[j] = blacklist[j]
                       \/ old[j] = Never /\ (blacklist[j] # Never => BanExpired(j))
    BY <2>1 DEF GuardInv, GuardTypeOK, IsBanned
  <2>3. Offence(i, old)
    BY <2>1
  <2>4. /\ blacklist' \in [IPs -> Times]
        /\ lastBan' \in [IPs -> Times]
        /\ misbehavior' \in [IPs -> 0 .. banThreshold - 1]
        /\ BanInv'
    BY <2>2, <2>3, OffenceFrame
  <2>5. GuardTypeOK' /\ AddressInv' /\ BookedInv'
    BY <2>4 DEF GuardInv, GuardTypeOK, AddressInv, BookedInv
  <2>6. CountExact'
    BY CountFrame DEF GuardInv
  <2> QED BY <2>4, <2>5, <2>6 DEF GuardInv
<1>3. ASSUME NEW h \in Handlers, BadBehavior(h) PROVE GuardInv'
  <2> USE <1>3 DEF BadBehavior, Moves
  <2>1. PICK i \in IPs : i = ip[h]
    BY DEF GuardInv, GuardTypeOK, AddressInv
  <2>2. AddressInv' /\ BookedInv'
    BY DEF GuardInv, GuardTypeOK, AddressInv, BookedInv
  <2>3. CountExact'
    BY CountFrame DEF GuardInv
  <2>4. CASE i \in Whitelist
    <3>1. UNCHANGED <<blacklist, misbehavior, lastBan>>
      BY <2>1, <2>4
    <3>2. GuardTypeOK' /\ BanInv'
      BY <3>1 DEF GuardInv, GuardTypeOK, BanInv
    <3> QED BY <2>2, <2>3, <3>2 DEF GuardInv
  <2>5. CASE i \notin Whitelist
    <3>1. PICK old \in [IPs -> Times] : old = blacklist
      BY DEF GuardInv, GuardTypeOK
    <3>2. Offence(i, old)
      BY <2>1, <2>5, <3>1
    <3>3. /\ blacklist' \in [IPs -> Times]
          /\ lastBan' \in [IPs -> Times]
          /\ misbehavior' \in [IPs -> 0 .. banThreshold - 1]
          /\ BanInv'
      BY <3>1, <3>2, OffenceFrame
    <3>4. GuardTypeOK'
      BY <3>3 DEF GuardInv, GuardTypeOK
    <3> QED BY <2>2, <2>3, <3>3, <3>4 DEF GuardInv
  <2> QED BY <2>4, <2>5
<1>4. ASSUME NEW h \in Handlers, LeavesQuietly(h) \/ LoginSucceeds(h) \/ ConnectionEnds(h)
      PROVE  GuardInv'
  <2>1. PICK from \in {"login", "served"}, to \in {"served", "leaving"} : Moves(h, from, to)
    BY <1>4 DEF LeavesQuietly, LoginSucceeds, ConnectionEnds
  <2>2. UNCHANGED <<blacklist, lastBan>>
        /\ (misbehavior' = misbehavior \/ misbehavior' = [misbehavior EXCEPT ![ip[h]] = 0])
    BY <1>4 DEF LeavesQuietly, LoginSucceeds, ConnectionEnds
  <2>3. ip[h] \in IPs
    BY <2>1 DEF Moves, GuardInv, GuardTypeOK, AddressInv
  <2>4. GuardTypeOK' /\ AddressInv' /\ BookedInv' /\ BanInv'
    BY <2>1, <2>2, <2>3 DEF Moves, GuardInv, GuardTypeOK, AddressInv, BookedInv, BanInv
  <2>5. CountExact'
    BY <2>1, CountFrame DEF Moves, GuardInv
  <2> QED BY <2>4, <2>5 DEF GuardInv
<1>5. ASSUME NEW h \in Handlers, Release(h) PROVE GuardInv'
  <2> USE <1>5 DEF Release, Released
  <2>1. PICK i \in IPs : i = ip[h]
    BY DEF GuardInv, GuardTypeOK, AddressInv
  <2>2. GuardTypeOK' /\ AddressInv' /\ BanInv'
    BY <2>1 DEF GuardInv, GuardTypeOK, AddressInv, BanInv
  <2>3. BookedInv'
    BY <2>1 DEF GuardInv, GuardTypeOK, BookedInv
  <2>4. /\ Cardinality(Live(i)) \in Nat \ {0}
        /\ Cardinality(Live(i))' = Cardinality(Live(i)) - 1
        /\ \A j \in IPs \ {i} : Live(j)' = Live(j)
    BY <2>1, LiveRemoved
  <2>5. connCount' = IF i \in Whitelist THEN connCount
                     ELSE [connCount EXCEPT ![i] = connCount[i] - 1]
    BY <2>1, <2>4 DEF GuardInv, CountExact
  <2>6. CountExact'
    BY <2>4, <2>5 DEF GuardInv, GuardTypeOK, CountExact
  <2> QED BY <2>2, <2>3, <2>6 DEF GuardInv
<1>6. ASSUME NEW i \in IPs, BanIP(i) PROVE GuardInv'
  <2> USE <1>6 DEF BanIP, ban
  <2>1. GuardTypeOK' /\ AddressInv' /\ BookedInv' /\ BanInv'
    BY DEF GuardInv, GuardTypeOK, AddressInv, BookedInv, BanInv
  <2>2. CountExact'
    BY CountFrame DEF GuardInv
  <2> QED BY <2>1, <2>2 DEF GuardInv
<1>7. CASE GetStats
  <2> USE <1>7 DEF GetStats, BanExpired, Since
  <2>1. GuardTypeOK' /\ AddressInv' /\ BookedInv' /\ BanInv'
    BY DEF GuardInv, GuardTypeOK, AddressInv, BookedInv, BanInv
  <2>2. CountExact'
    BY CountFrame DEF GuardInv
  <2> QED BY <2>1, <2>2 DEF GuardInv
<1>8. CASE Tick
  <2> USE <1>8 DEF Tick
  <2>1. GuardTypeOK' /\ AddressInv' /\ BookedInv' /\ BanInv'
    BY DEF GuardInv, GuardTypeOK, AddressInv, BookedInv, BanInv
  <2>2. CountExact'
    BY CountFrame DEF GuardInv
  <2> QED BY <2>1, <2>2 DEF GuardInv
<1>9. CASE UNCHANGED guardVars
  BY <1>9, CountFrame DEF guardVars, GuardInv, GuardTypeOK, AddressInv, BookedInv, BanInv
<1> QED
  BY <1>1, <1>2, <1>3, <1>4, <1>5, <1>6, <1>7, <1>8, <1>9 DEF GuardNext, HandlerStep

-----------------------------------------------------------------------------
\* Every variable of the guard keeps its type: no count goes below zero,
\* although Release is also called for whitelisted connections.
THEOREM GuardTypeCorrect == GuardSpec => []GuardTypeOK
<1>1. GuardInv => GuardTypeOK
  BY DEF GuardInv
<1> QED BY <1>1, GuardInitInv, GuardNextInv, PTL DEF GuardSpec

\* connCount is the number of connections being handled: Check and the
\* deferred Release are paired on every path through handleClient.
THEOREM CountIsExact == GuardSpec => []CountExact
<1>1. GuardInv => CountExact
  BY DEF GuardInv
<1> QED BY <1>1, GuardInitInv, GuardNextInv, PTL DEF GuardSpec

\* No address has more than maxConn connections, for every value of maxConn.
THEOREM LimitIsKept == GuardSpec => []LimitHolds
<1>1. GuardInv => LimitHolds
  BY LiveFinite DEF GuardInv, GuardTypeOK, CountExact, BookedInv, LimitHolds
<1> QED BY <1>1, GuardInitInv, GuardNextInv, PTL DEF GuardSpec

\* Check never admits an address before its last ban is over, whatever
\* GetStats, BanIP and the other handlers do to the blacklist meanwhile.
THEOREM BansAreKept == GuardSpec => BansAreServed
<1>1. ASSUME GuardInv, [GuardNext]_guardVars PROVE [AdmissionAfterBan]_guardVars
  <2>1. CASE UNCHANGED guardVars
    BY <2>1
  <2>2. ASSUME GuardNext PROVE AdmissionAfterBan
    <3> SUFFICES ASSUME NEW g \in Handlers, at[g] = "free", at'[g] = "login", ip'[g] \in Guarded
                 PROVE  lastBan[ip'[g]] = Never \/ now - lastBan[ip'[g]] >= banDuration
      BY DEF AdmissionAfterBan
    <3>1. PICK h \in Handlers, i \in IPs : CheckPasses(h, i)
      BY <1>1, <2>2 DEF GuardNext, HandlerStep, CheckRefuses, BadBehavior, LeavesQuietly, LoginSucceeds,
                  ConnectionEnds, Release, Moves, BanIP, GetStats, Tick, handlers, GuardInv, GuardTypeOK
    <3>2. g = h /\ ip'[g] = i
      BY <1>1, <3>1 DEF CheckPasses, GuardInv, GuardTypeOK
    <3>3. ~IsBanned(i)
      BY <3>1, <3>2 DEF CheckPasses
    <3> QED BY <1>1, <3>2, <3>3 DEF GuardInv, GuardTypeOK, BanInv, IsBanned, BanExpired, Since
  <2> QED BY <1>1, <2>1, <2>2
<1> QED BY <1>1, GuardInitInv, GuardNextInv, PTL DEF GuardSpec, BansAreServed
=============================================================================
