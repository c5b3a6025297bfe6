--------------------------- MODULE ClientSession ---------------------------
(***************************************************************************)
(* One client process over many control connections: it connects, asks the *)
(* server for its tunnels, registers them and those of client.yaml, serves *)
(* until the connection is lost, shuts down and connects again.            *)
(*   client: main, connect, syncAndRegisterProxies, registerLocalProxies,  *)
(*           registerProxy, heartbeat, handleMessages, handleCloseProxy,   *)
(*           shutdownProxies (src/cmd/client/main.go)                      *)
(*   server: the handler of each connection, as far as the client sees it, *)
(*           CloseProxy and NotifyClientSync (src/cmd/server/main.go), and *)
(*           the API handler that calls them (src/pkg/web/server.go)       *)
(*                                                                         *)
(* A connection is ordered and reliable until it is lost; then whatever    *)
(* was in it is lost too.  Dial and login are one step (ControlPlane has   *)
(* the login).  A connection has a number of Links, free again when both   *)
(* sides have left it.  Deadlines may expire whenever they are set.        *)
(* Abstracted: ports, addresses, the data of a tunnel.                     *)
(***************************************************************************)
EXTENDS Naturals, Sequences, FiniteSets

CONSTANTS
  Tunnels,   \* names of the tunnels of this client
  Udp,       \* those of type udp; the others are tcp
  Local,     \* those in client.yaml
  Links,     \* control connections
  MaxQueue,  \* bound on the messages under way to the client
  NoLink, NoTunnel

ASSUME TunnelAssumption ==
  Udp \subseteq Tunnels /\ Local \subseteq Tunnels /\ NoTunnel \notin Tunnels
ASSUME LinkAssumption == NoLink \notin Links
ASSUME QueueAssumption == MaxQueue \in Nat

\* Messages to the client.  `ok' and `tunnel' are those of a NewProxyResp; a
\* message of another kind parses as one with Success = false.
Resp(t, ok)   == [kind |-> "resp", tunnel |-> t, ok |-> ok, names |-> {}]
SyncResp(ts)  == [kind |-> "sync", tunnel |-> NoTunnel, ok |-> FALSE, names |-> ts]
Notice(k, t)  == [kind |-> k, tunnel |-> t, ok |-> FALSE, names |-> {}]
ToClient == [kind : {"resp", "sync", "newconn", "close", "beat"},
             tunnel : Tunnels \cup {NoTunnel}, ok : BOOLEAN, names : SUBSET Tunnels]

\* Messages to the server: a NewProxy request, SyncProxies or a Heartbeat.
ToServer == [kind : {"new", "sync", "beat"}, tunnel : Tunnels \cup {NoTunnel}]
Ask(k, t) == [kind |-> k, tunnel |-> t]

VARIABLES
  pc,         \* client main loop: "dial", "sync", "register", "serve",
              \* "shutdown" or "crashed"
  conn,       \* c.conn, NoLink before the first connect
  proxies,    \* c.proxies: the names in the map
  channel,    \* udpDataConn: tunnel -> the tunnel whose data port it dialled,
              \* NoTunnel if it is nil (a closed socket is not nil)
  quit,       \* tunnel -> "none", "open" or "closed": its udpQuit
  plan,       \* what is left to register: the server's list, then client.yaml
  waiting,    \* the tunnel whose response registerProxy is reading
  beating,    \* whether a heartbeat goroutine runs; none ever ends
  enabled,    \* server: the rows of the proxies table with enabled = 1
  api,        \* tunnel -> what its API request does next: "close", "notify"
              \* or, if there is none, "idle"
  registered, \* server: s.proxies, tunnel -> owner, NoLink if absent
  serving,    \* server: connections with a handler
  up,         \* whether conn is open
  toClient, toServer   \* the messages in conn, in order

client  == <<pc, conn, proxies, channel, quit, plan, waiting, beating>>
server  == <<enabled, api, registered, serving>>
network == <<up, toClient, toServer>>
vars    == <<client, server, network>>

Init ==
  /\ pc = "dial"
  /\ conn = NoLink
  /\ proxies = {}
  /\ channel = [t \in Tunnels |-> NoTunnel]
  /\ quit = [t \in Tunnels |-> "none"]
  /\ plan = [server |-> {}, local |-> {}]
  /\ waiting = NoTunnel
  /\ beating = FALSE
  /\ enabled \in SUBSET Tunnels
  /\ api = [t \in Tunnels |-> "idle"]
  /\ registered = [t \in Tunnels |-> NoLink]
  /\ serving = {}
  /\ up = FALSE
  /\ toClient = <<>>
  /\ toServer = <<>>

-----------------------------------------------------------------------------
(* Client: connect.                                                        *)

\* A new connection is accepted and the login succeeds; SyncProxies is sent.
Connect(l) ==
  /\ pc = "dial"
  /\ l \notin serving
  /\ pc' = "sync"
  /\ conn' = l
  /\ serving' = serving \cup {l}
  /\ up' = TRUE
  /\ toClient' = <<>>
  /\ toServer' = <<Ask("sync", NoTunnel)>>
  /\ UNCHANGED <<proxies, channel, quit, plan, waiting, beating, enabled, api, registered>>

\* The next message, whatever it is, is read in place of the list.
ReadSync ==
  /\ pc = "sync"
  /\ toClient # <<>>
  /\ plan' = [server |-> Head(toClient).names, local |-> Local]
  /\ toClient' = Tail(toClient)
  /\ pc' = "register"
  /\ UNCHANGED <<conn, proxies, channel, quit, waiting, beating, server, up, toServer>>

\* 5 s are over or the connection is lost: client.yaml is what is left.
SyncFails ==
  /\ pc = "sync"
  /\ plan' = [server |-> {}, local |-> Local]
  /\ pc' = "register"
  /\ UNCHANGED <<conn, proxies, channel, quit, waiting, beating, server, network>>

\* The tunnels whose turn it may be.
Turn == IF plan.server # {} THEN plan.server ELSE plan.local
PlanWithout(t) ==
  IF plan.server # {} THEN [plan EXCEPT !.server = plan.server \ {t}]
                      ELSE [plan EXCEPT !.local = plan.local \ {t}]

\* The loops skip what is in c.proxies; registerProxy gives up when it
\* cannot write.
SkipTunnel(t) ==
  /\ pc = "register"
  /\ waiting = NoTunnel
  /\ t \in Turn
  /\ t \in proxies \/ ~up
  /\ plan' = PlanWithout(t)
  /\ UNCHANGED <<pc, conn, proxies, channel, quit, waiting, beating, server, network>>

\* What is written to a connection the server has closed goes nowhere, and
\* the write may still succeed.
SendNewProxy(t) ==
  /\ pc = "register"
  /\ waiting = NoTunnel
  /\ t \in Turn \ proxies
  /\ plan' = PlanWithout(t)
  /\ waiting' = t
  /\ toServer' = IF up THEN Append(toServer, Ask("new", t)) ELSE toServer
  /\ UNCHANGED <<pc, conn, proxies, channel, quit, beating, server, up, toClient>>

\* Mutant of DataPort: the type of the tunnel in the response is not looked at.
DataPortOfAny(m) == IF m.ok THEN m.tunnel ELSE NoTunnel

\* The data port in a response, as the tunnel it belongs to; only the
\* response for a udp tunnel has one.
DataPort(m) == IF m.ok /\ m.tunnel \in Udp THEN m.tunnel ELSE NoTunnel

\* registerProxy reads the next message as its NewProxyResp; for a udp tunnel
\* startUDPDataChannel dials the port it finds there.  A dial that fails
\* leaves udpDataConn and udpQuit nil.  A hello that cannot be written closes
\* the socket and leaves both set, so that it has the outcome of a success:
\* a later close or shutdown still finds and closes the quit channel.
ReadResp ==
  LET m == Head(toClient)
      t == waiting
  IN
  /\ waiting # NoTunnel
  /\ toClient # <<>>
  /\ proxies' = IF m.ok THEN proxies \cup {t} ELSE proxies
  /\ \E port \in {DataPort(m), NoTunnel} :
       IF m.ok /\ t \in Udp
         THEN /\ channel' = [channel EXCEPT ![t] = port]
              /\ quit' = [quit EXCEPT ![t] = IF port # NoTunnel THEN "open" ELSE "none"]
         ELSE UNCHANGED <<channel, quit>>
  /\ waiting' = NoTunnel
  /\ toClient' = Tail(toClient)
  /\ UNCHANGED <<pc, conn, plan, beating, server, up, toServer>>

\* Mutant of RespFails: the read has no deadline.
RespFailsNoDeadline ==
  /\ waiting # NoTunnel
  /\ ~up
  /\ waiting' = NoTunnel
  /\ UNCHANGED <<pc, conn, proxies, channel, quit, plan, beating, server, network>>

\* 10 s are over or the connection is lost.
RespFails ==
  /\ waiting # NoTunnel
  /\ waiting' = NoTunnel
  /\ UNCHANGED <<pc, conn, proxies, channel, quit, plan, beating, server, network>>

\* connect returns, whatever became of the tunnels, and starts a heartbeat.
Registered ==
  /\ pc = "register"
  /\ waiting = NoTunnel
  /\ plan.server = {} /\ plan.local = {}
  /\ pc' = "serve"
  /\ beating' = TRUE
  /\ UNCHANGED <<conn, proxies, channel, quit, plan, waiting, server, network>>

-----------------------------------------------------------------------------
(* Client: handleMessages, shutdownProxies, heartbeat.                     *)

\* Mutant of QuitClosed: neither is closed.
QuitKept(t) == quit

\* The tunnel's socket and quit channel are closed, once.
QuitClosed(t) == [quit EXCEPT ![t] = IF quit[t] = "open" THEN "closed" ELSE quit[t]]

\* CloseProxy removes the tunnel; a NewConn (modelled in TcpDataChannel) and
\* everything else change nothing here.
ReadMessage ==
  LET m == Head(toClient)
      closes == m.kind = "close" /\ m.tunnel \in proxies
  IN
  /\ pc = "serve"
  /\ toClient # <<>>
  /\ toClient' = Tail(toClient)
  /\ proxies' = IF closes THEN proxies \ {m.tunnel} ELSE proxies
  /\ quit' = IF closes THEN QuitClosed(m.tunnel) ELSE quit
  /\ UNCHANGED <<pc, conn, channel, plan, waiting, beating, server, up, toServer>>

\* The read fails, at the end of the stream or because of a lost connection.
ReadFails ==
  /\ pc = "serve"
  /\ ~up
  /\ pc' = "shutdown"
  /\ UNCHANGED <<conn, proxies, channel, quit, plan, waiting, beating, server, network>>

\* The tunnels whose quit channel shutdownProxies closes.
ToQuit == {t \in proxies \cap Udp : channel[t] # NoTunnel}

\* The data channels are closed.  The map of tunnels stays as it is.
shutdownProxies ==
  /\ pc = "shutdown"
  /\ \A t \in ToQuit : quit[t] = "open"
  /\ quit' = [t \in Tunnels |-> IF t \in ToQuit THEN "closed" ELSE quit[t]]
  /\ pc' = "dial"
  /\ UNCHANGED <<conn, proxies, channel, plan, waiting, beating, server, network>>

\* close of a closed channel panics.
ShutdownPanics ==
  /\ pc = "shutdown"
  /\ \E t \in ToQuit : quit[t] = "closed"
  /\ pc' = "crashed"
  /\ UNCHANGED <<conn, proxies, channel, quit, plan, waiting, beating, server, network>>

\* The heartbeat goroutines of this and of every earlier connection write to
\* the current one.
Heartbeat ==
  /\ beating
  /\ up
  /\ pc # "crashed"
  /\ \A i \in 1 .. Len(toServer) : toServer[i].kind # "beat"
  /\ toServer' = Append(toServer, Ask("beat", NoTunnel))
  /\ UNCHANGED <<client, server, up, toClient>>

-----------------------------------------------------------------------------
(* Server.                                                                 *)

Reply(m) ==
  /\ Len(toClient) < MaxQueue
  /\ toClient' = Append(toClient, m)

\* The handler of the current connection takes the next request.
HandleNewProxy ==
  LET t == Head(toServer).tunnel IN
  /\ up
  /\ toServer # <<>>
  /\ Head(toServer).kind = "new"
  /\ toServer' = Tail(toServer)
  /\ \E ok \in BOOLEAN :
       /\ ok => registered[t] = NoLink
       /\ registered' = IF ok THEN [registered EXCEPT ![t] = conn] ELSE registered
       /\ Reply(Resp(t, ok))
  /\ UNCHANGED <<client, enabled, api, serving, up>>

HandleOther ==
  LET m == Head(toServer) IN
  /\ up
  /\ toServer # <<>>
  /\ m.kind # "new"
  /\ toServer' = Tail(toServer)
  /\ Reply(IF m.kind = "sync" THEN SyncResp(enabled) ELSE Notice("beat", NoTunnel))
  /\ UNCHANGED <<client, server, up>>

\* A user connects to the public port of a tcp tunnel: NewConn is sent.
UserConnects(t) ==
  /\ up
  /\ t \notin Udp
  /\ registered[t] = conn
  /\ Reply(Notice("newconn", t))
  /\ UNCHANGED <<client, server, up, toServer>>

\* The handler of a connection that is gone cleans up its tunnels.
HandlerExits(l) ==
  /\ l \in serving
  /\ l # conn \/ ~up
  /\ registered' = [t \in Tunnels |-> IF registered[t] = l THEN NoLink ELSE registered[t]]
  /\ serving' = serving \ {l}
  /\ UNCHANGED <<client, enabled, api, network>>

\* The connection ends.  What was on its way to the client may still arrive.
Lost ==
  /\ up' = FALSE
  /\ toClient' \in {<<>>, toClient}
  /\ toServer' = <<>>

\* Network failure, or KickClient.
Disconnect ==
  /\ up
  /\ Lost
  /\ UNCHANGED <<client, server>>

\* CloseProxy: the client is told, the tunnel is gone.
CloseProxy(t) ==
  /\ registered' = [registered EXCEPT ![t] = NoLink]
  /\ IF registered[t] = conn /\ up THEN Reply(Notice("close", t)) ELSE toClient' = toClient
  /\ UNCHANGED <<client, enabled, serving, up, toServer>>

\* It is called from the panel, for a tunnel that is there, ...
PanelClose(t) ==
  /\ registered[t] # NoLink
  /\ CloseProxy(t)
  /\ UNCHANGED api

\* ... and by the API request that disables or deletes a tunnel.
ApiClose(t) ==
  /\ api[t] = "close"
  /\ api' = [api EXCEPT ![t] = "notify"]
  /\ CloseProxy(t)

\* The API request starts with the row of the tunnel.
SetProxyEnabled(t, on) ==
  /\ api[t] = "idle"
  /\ enabled' = IF on THEN enabled \cup {t} ELSE enabled \ {t}
  /\ api' = [api EXCEPT ![t] = IF on THEN "notify" ELSE "close"]
  /\ UNCHANGED <<client, registered, serving, network>>

\* It ends by closing a connection of the client, any one if an earlier one
\* has not been cleaned up yet.
NotifyClientSync(t) ==
  /\ api[t] = "notify"
  /\ api' = [api EXCEPT ![t] = "idle"]
  /\ \/ up /\ Lost
     \/ (~up \/ serving \ {conn} # {}) /\ UNCHANGED network
  /\ UNCHANGED <<client, enabled, registered, serving>>

-----------------------------------------------------------------------------
ClientStep ==
  \/ \E l \in Links : Connect(l)
  \/ ReadSync \/ SyncFails
  \/ \E t \in Tunnels : SkipTunnel(t) \/ SendNewProxy(t)
  \/ ReadResp \/ RespFails \/ Registered
  \/ ReadMessage \/ ReadFails \/ shutdownProxies \/ ShutdownPanics

ServerStep ==
  \/ HandleNewProxy \/ HandleOther
  \/ \E l \in Links : HandlerExits(l)

Environment ==
  \/ Heartbeat \/ Disconnect
  \/ \E t \in Tunnels : UserConnects(t) \/ PanelClose(t)
  \/ \E t \in Tunnels : ApiClose(t) \/ NotifyClientSync(t)
  \/ \E t \in Tunnels, on \in BOOLEAN : SetProxyEnabled(t, on)

Next == ClientStep \/ ServerStep \/ Environment

Spec == Init /\ [][Next]_vars

\* The client's loop runs and its deadlines expire; the server's handlers
\* notice that their connection is gone.  Nothing is assumed of answers.
FairSpec ==
  /\ Spec
  /\ WF_vars(ClientStep)
  /\ \A l \in Links : WF_vars(HandlerExits(l))

-----------------------------------------------------------------------------
(* Properties.                                                             *)

\* The type of every variable.
TypeOK ==
  /\ pc \in {"dial", "sync", "register", "serve", "shutdown", "crashed"}
  /\ conn \in Links \cup {NoLink}
  /\ proxies \in SUBSET Tunnels
  /\ channel \in [Tunnels -> Udp \cup {NoTunnel}]
  /\ quit \in [Tunnels -> {"none", "open", "closed"}]
  /\ plan \in [server : SUBSET Tunnels, local : SUBSET Tunnels]
  /\ waiting \in Tunnels \cup {NoTunnel}
  /\ beating \in BOOLEAN
  /\ enabled \in SUBSET Tunnels
  /\ api \in [Tunnels -> {"idle", "close", "notify"}]
  /\ registered \in [Tunnels -> Links \cup {NoLink}]
  /\ serving \in SUBSET Links
  /\ up \in BOOLEAN
  /\ toClient \in Seq(ToClient)
  /\ toServer \in Seq(ToServer)

\* Every open UDP data channel is one that shutdownProxies can find, and
\* none is open while the client is not connected: no sequence of closes,
\* lost connections and failed registrations leaks a socket.
ChannelsTracked ==
  \A t \in Tunnels : quit[t] = "open" => t \in ToQuit /\ pc # "dial"

\* connect always comes to an end, even if the server never answers or the
\* connection is lost between two registrations.
ConnectReturns == pc = "sync" ~> pc = "serve"

\* "an API change takes effect at once, by reconnecting the online client"
\* (README 377; main.go 1381): while the client is connected, a tunnel it
\* counts as registered comes to be registered, or is dropped.
ReconnectRestores ==
  \A t \in Tunnels :
    (pc = "serve" /\ up /\ t \in proxies)
      ~> (registered[t] = conn \/ ~up \/ t \notin proxies)

\* "Disconnected, reconnecting in 5s" (client main.go 247): losing the
\* connection does not end the client.
SurvivesDisconnect == pc # "crashed"

\* "reads the response of the server, with the UDP data port; it has the
\* connection to itself" (client main.go 457): the channel of a tunnel goes
\* to its own data port.
ChannelIsOwn == \A t \in Tunnels : channel[t] \in {t, NoTunnel}
=============================================================================
