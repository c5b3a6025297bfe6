------------------------- MODULE ControlPlaneProofs -------------------------
(***************************************************************************)
(* Proofs about ControlPlane for every set of connections, clients, tunnel *)
(* names, ports and every bound.                                           *)
(***************************************************************************)
EXTENDS ControlPlane, TLAPS

\* What the goroutines know at each of their program points.
HandlerInv ==
  \A c \in Conns :
    /\ pc[c] # "off" => token[c] \in Tokens
    /\ pc[c] = "fill" => name[c] \in Names
    /\ pc[c] = "register" => name[c] \in Identities
    /\ pc[c] = "newproxy" => request[c] \in Requests

\* s.clients holds exactly the connections being served, under the identity
\* they logged in with.
ClientsInv ==
  /\ clients = Serving
  /\ \A c \in clients : name[c] \in Identities /\ clientNames[c] = name[c]

\* What a management call under way works on.
ApiInv ==
  \A a \in ApiCalls :
    /\ api[a].op = "addDB" => api[a].name \in Names /\ api[a].token \in Tokens
    /\ api[a].op \in {"removeDB", "removeClose"} => api[a].name \in Names

IInv == TypeOK /\ HandlerInv /\ ClientsInv /\ ApiInv /\ TunnelsOwned /\ SocketsExact

USE IdentityAssumption, TokenAssumption, BoundAssumption, ProxyAssumption DEF Identities

\* The start-up index only maps tokens to names with a row.
LEMMA IndexType ==
  ASSUME NEW d \in [Names -> Tokens \cup {NoToken}]
  PROVE  /\ Seeded(d) \in [Names -> Tokens \cup {NoToken}]
         /\ IndexOf(d) \in [Tokens -> Names \cup {NoName}]
         /\ Pairs(d) \in SUBSET (Names \X Tokens)
<1>1. Seeded(d) \in [Names -> Tokens \cup {NoToken}]
  BY DEF Seeded
<1>2. IndexOf(d) \in [Tokens -> Names \cup {NoName}]
  <2>1. \A t \in Tokens : (\E n \in Names : d[n] = t)
                            => (CHOOSE n \in Names : d[n] = t) \in Names
    OBVIOUS
  <2> QED BY <2>1 DEF IndexOf
<1>3. Pairs(d) \in SUBSET (Names \X Tokens)
  BY DEF Pairs
<1> QED BY <1>1, <1>2, <1>3

LEMMA InitIInv == Init => IInv
<1> SUFFICES ASSUME Init PROVE IInv
  OBVIOUS
<1> USE DEF Init
<1>1. NoRows \in [Names -> Tokens \cup {NoToken}]
  BY DEF NoRows
<1>2. Seeded(NoRows) \in [Names -> Tokens \cup {NoToken}]
  BY <1>1, IndexType
<1>3. TypeOK
  BY <1>2, IndexType DEF TypeOK, Idle, ApiStates
<1>4. Registered = {} /\ Serving = {}
  BY DEF Registered, Serving
<1>5. HandlerInv /\ ClientsInv
  BY <1>4 DEF HandlerInv, ClientsInv
<1>6. ApiInv
  BY DEF ApiInv, Idle
<1>7. TunnelsOwned /\ SocketsExact
  BY <1>4 DEF TunnelsOwned, SocketsExact
<1> QED BY <1>3, <1>5, <1>6, <1>7 DEF IInv

\* A step that leaves the tunnels and their sockets alone, and every served
\* connection served under its name, keeps the two tunnel invariants.
LEMMA TunnelsFrame ==
  ASSUME IInv,
         UNCHANGED <<proxies, sockets, dataSockets>>,
         \A c \in clients : c \in clients' /\ c \in Serving' /\ name'[c] = name[c]
  PROVE  TunnelsOwned' /\ SocketsExact'
<1>1. Registered' = Registered
  BY DEF Registered
<1>2. TunnelsOwned'
  BY <1>1 DEF IInv, TunnelsOwned
<1>3. SocketsExact'
  BY <1>1 DEF IInv, SocketsExact, Endpoint
<1> QED BY <1>2, <1>3

\* Cleaning up a set of tunnels keeps their sockets exact: the endpoints of
\* the remaining ones differ from those that are closed.
LEMMA CleanupSockets ==
  ASSUME IInv, NEW ps \in SUBSET Registered, cleanupProxy(ps)
  PROVE  /\ Registered' = Registered \ ps
         /\ \A p \in Registered' : proxies'[p] = proxies[p]
         /\ proxies' \in [ProxyNames -> Proxy \cup {NoProxy}]
         /\ sockets' \in SUBSET (Types \X Ports)
         /\ dataSockets' \in SUBSET ProxyNames
         /\ SocketsExact'
<1> USE DEF cleanupProxy
<1>1. proxies' \in [ProxyNames -> Proxy \cup {NoProxy}]
  BY DEF IInv, TypeOK
<1>2. Registered' = Registered \ ps
  BY DEF Registered, IInv, TypeOK
<1>3. \A p \in Registered' : proxies'[p] = proxies[p]
  BY <1>2 DEF Registered
<1>4. sockets' = {Endpoint(proxies[p]) : p \in Registered \ ps}
  BY DEF IInv, SocketsExact
<1>5. sockets' = {Endpoint(proxies'[p]) : p \in Registered'}
  BY <1>2, <1>3, <1>4
<1>6. SocketsExact'
  <2>1. dataSockets' = Registered'
    BY <1>2 DEF IInv, SocketsExact
  <2>2. \A p, q \in Registered' :
          Endpoint(proxies'[p]) = Endpoint(proxies'[q]) => p = q
    BY <1>2, <1>3 DEF IInv, SocketsExact
  <2> QED BY <1>5, <2>1, <2>2 DEF SocketsExact, Endpoint
<1>7. sockets' \in SUBSET (Types \X Ports) /\ dataSockets' \in SUBSET ProxyNames
  BY DEF IInv, TypeOK
<1> QED BY <1>1, <1>2, <1>3, <1>6, <1>7

\* DeleteClient moves its own call on, and no other.
LEMMA RemoveDBCall ==
  ASSUME TypeOK, NEW a \in ApiCalls, RemoveDB(a)
  PROVE  /\ \A b \in ApiCalls \ {a} : api'[b] = api[b]
         /\ api'[a].op = "removeClose" /\ api'[a].name = api[a].name
         /\ api' \in [ApiCalls -> ApiStates]
<1>1. PICK ok \in BOOLEAN :
        api' = [api EXCEPT ![a] =
                  [api[a] EXCEPT !.op = "removeClose",
                     !.hit = api[a].hit \/ (ok /\ db[api[a].name] # NoToken)]]
  BY Zenon DEF RemoveDB
<1> DEFINE h == api[a].hit \/ (ok /\ db[api[a].name] # NoToken)
<1>2. h \in BOOLEAN
  OBVIOUS
<1>3. api' = [api EXCEPT ![a] = [api[a] EXCEPT !.op = "removeClose", !.hit = h]]
  BY <1>1 DEF h
<1> HIDE DEF h
<1>4. api[a] \in ApiStates
  BY DEF TypeOK
<1>5. [api[a] EXCEPT !.op = "removeClose", !.hit = h] \in ApiStates
  BY <1>2, <1>4 DEF ApiStates
<1> QED BY <1>3, <1>4, <1>5 DEF ApiStates, TypeOK

\* Every step preserves the inductive invariant: one step per action, and
\* under it the conjuncts the action can disturb.
LEMMA NextIInv == IInv /\ [Next]_vars => IInv'
<1> SUFFICES ASSUME IInv, [Next]_vars PROVE IInv'
  OBVIOUS
<1> USE DEF store, runtime, handlers, calls, history
<1> DEFINE Core == TypeOK /\ HandlerInv /\ ClientsInv /\ ApiInv
<1>a. Core /\ TunnelsOwned /\ SocketsExact
  BY DEF IInv
<1>1. ASSUME NEW c \in Conns, NEW t \in Tokens, Login(c, t) PROVE IInv'
  <2>1. Core'
    BY <1>1, <1>a DEF Login, TypeOK, HandlerInv, ClientsInv, ApiInv, Serving
  <2>2. \A d \in clients : d \in clients' /\ d \in Serving' /\ name'[d] = name[d]
    BY <1>1, <1>a DEF Login, ClientsInv, Serving, TypeOK
  <2>3. TunnelsOwned' /\ SocketsExact'
    BY <1>1, <2>2, TunnelsFrame DEF Login
  <2> QED BY <2>1, <2>3 DEF IInv
<1>2. ASSUME NEW c \in Conns, LookupCache(c) PROVE IInv'
  <2>1. Core'
    BY <1>2, <1>a DEF LookupCache, TypeOK, HandlerInv, ClientsInv, ApiInv, Serving
  <2>2. \A d \in clients : d \in clients' /\ d \in Serving' /\ name'[d] = name[d]
    BY <1>2, <1>a DEF LookupCache, ClientsInv, Serving, TypeOK
  <2>3. TunnelsOwned' /\ SocketsExact'
    BY <1>2, <2>2, TunnelsFrame DEF LookupCache
  <2> QED BY <2>1, <2>3 DEF IInv
<1>3. ASSUME NEW c \in Conns, NEW n \in Names, DbHit(c, n) PROVE IInv'
  <2>1. Core'
    BY <1>3, <1>a DEF DbHit, TypeOK, HandlerInv, ClientsInv, ApiInv, Serving
  <2>2. \A d \in clients : d \in clients' /\ d \in Serving' /\ name'[d] = name[d]
    BY <1>3, <1>a DEF DbHit, ClientsInv, Serving, TypeOK
  <2>3. TunnelsOwned' /\ SocketsExact'
    BY <1>3, <2>2, TunnelsFrame DEF DbHit
  <2> QED BY <2>1, <2>3 DEF IInv
<1>4. ASSUME NEW c \in Conns, DbMiss(c) PROVE IInv'
  <2>1. Core'
    BY <1>4, <1>a DEF DbMiss, TypeOK, HandlerInv, ClientsInv, ApiInv, Serving
  <2>2. \A d \in clients : d \in clients' /\ d \in Serving' /\ name'[d] = name[d]
    BY <1>4, <1>a DEF DbMiss, ClientsInv, Serving, TypeOK
  <2>3. TunnelsOwned' /\ SocketsExact'
    BY <1>4, <2>2, TunnelsFrame DEF DbMiss
  <2> QED BY <2>1, <2>3 DEF IInv
<1>5. ASSUME NEW c \in Conns, FillCache(c) PROVE IInv'
  <2>1. Core'
    BY <1>5, <1>a DEF FillCache, TypeOK, HandlerInv, ClientsInv, ApiInv, Serving
  <2>2. \A d \in clients : d \in clients' /\ d \in Serving' /\ name'[d] = name[d]
    BY <1>5, <1>a DEF FillCache, ClientsInv, Serving, TypeOK
  <2>3. TunnelsOwned' /\ SocketsExact'
    BY <1>5, <2>2, TunnelsFrame DEF FillCache
  <2> QED BY <2>1, <2>3 DEF IInv
<1>6. ASSUME NEW c \in Conns, Register(c) PROVE IInv'
  <2>1. Core'
    BY <1>6, <1>a DEF Register, TypeOK, HandlerInv, ClientsInv, ApiInv, Serving
  <2>2. \A d \in clients : d \in clients' /\ d \in Serving' /\ name'[d] = name[d]
    BY <1>6, <1>a DEF Register, ClientsInv, Serving, TypeOK
  <2>3. TunnelsOwned' /\ SocketsExact'
    BY <1>6, <2>2, TunnelsFrame DEF Register
  <2> QED BY <2>1, <2>3 DEF IInv
<1>7. ASSUME NEW c \in Conns, NEW r \in Requests, ReadNewProxy(c, r) PROVE IInv'
  <2>1. Core'
    BY <1>7, <1>a DEF ReadNewProxy, TypeOK, HandlerInv, ClientsInv, ApiInv, Serving
  <2>2. \A d \in clients : d \in clients' /\ d \in Serving' /\ name'[d] = name[d]
    BY <1>7, <1>a DEF ReadNewProxy, ClientsInv, Serving, TypeOK
  <2>3. TunnelsOwned' /\ SocketsExact'
    BY <1>7, <2>2, TunnelsFrame DEF ReadNewProxy
  <2> QED BY <2>1, <2>3 DEF IInv
<1>8. ASSUME NEW c \in Conns, NewProxyRefused(c) PROVE IInv'
  <2>1. Core'
    BY <1>8, <1>a DEF NewProxyRefused, Answered, TypeOK, HandlerInv, ClientsInv, ApiInv, Serving
  <2>2. \A d \in clients : d \in clients' /\ d \in Serving' /\ name'[d] = name[d]
    BY <1>8, <1>a DEF NewProxyRefused, Answered, ClientsInv, Serving, TypeOK
  <2>3. TunnelsOwned' /\ SocketsExact'
    BY <1>8, <2>2, TunnelsFrame DEF NewProxyRefused, Answered
  <2> QED BY <2>1, <2>3 DEF IInv
<1>9. ASSUME NEW c \in Conns, NewProxyNoDataPort(c) PROVE IInv'
  <2>0. sockets' = sockets
    BY <1>9 DEF NewProxyNoDataPort, SocketsAfterDataFailure, Creatable
  <2>1. Core'
    BY <1>9, <1>a, <2>0 DEF NewProxyNoDataPort, Answered, TypeOK, HandlerInv, ClientsInv, ApiInv, Serving
  <2>2. \A d \in clients : d \in clients' /\ d \in Serving' /\ name'[d] = name[d]
    BY <1>9, <1>a DEF NewProxyNoDataPort, Answered, ClientsInv, Serving, TypeOK
  <2>3. TunnelsOwned' /\ SocketsExact'
    BY <1>9, <2>0, <2>2, TunnelsFrame DEF NewProxyNoDataPort
  <2> QED BY <2>1, <2>3 DEF IInv
<1>10. ASSUME NEW c \in Conns, NewProxyCreated(c) PROVE IInv'
  <2> DEFINE r == request[c]
  <2> USE DEF NewProxyCreated, Answered
  <2>1. r \in Requests /\ r.name \in ProxyNames /\ r.type \in Types /\ r.port \in Ports
    BY <1>10, <1>a DEF HandlerInv, Requests
  <2>2. c \in clients /\ clientNames[c] = name[c] /\ name[c] \in Identities
        /\ ClientNameFor(c) = name[c]
    BY <1>10, <1>a DEF ClientsInv, Serving, ClientNameFor
  <2>3. PICK t \in AuthFor(ClientNameFor(c)) :
          proxies' = [proxies EXCEPT ![r.name] =
                        [owner |-> c, clientName |-> ClientNameFor(c),
                         type |-> r.type, port |-> r.port, auth |-> t]]
    BY <1>10
  <2> DEFINE new == [owner |-> c, clientName |-> ClientNameFor(c),
                     type |-> r.type, port |-> r.port, auth |-> t]
  <2>4. t \in Tokens
    BY <2>3 DEF AuthFor
  <2>5. new \in Proxy /\ new # NoProxy
    BY <2>1, <2>2, <2>4 DEF Proxy
  <2>6. /\ proxies' \in [ProxyNames -> Proxy \cup {NoProxy}]
        /\ proxies'[r.name] = new
        /\ \A p \in ProxyNames \ {r.name} : proxies'[p] = proxies[p]
    BY <2>1, <2>3, <2>5, <1>a DEF TypeOK
  <2>7. Registered' = Registered \cup {r.name} /\ r.name \notin Registered
    BY <1>10, <2>1, <2>5, <2>6 DEF Registered, Creatable
  <2>8. Core'
    <3>1. TypeOK'
      BY <1>10, <1>a, <2>1, <2>6 DEF TypeOK, Endpoint
    <3>2. HandlerInv' /\ ClientsInv' /\ ApiInv'
      BY <1>10, <1>a DEF TypeOK, HandlerInv, ClientsInv, ApiInv, Serving
    <3> QED BY <3>1, <3>2
  <2>9. TunnelsOwned'
    <3>1. clients' = clients /\ name' = name /\ Serving' = Serving
      BY <1>10, <1>a DEF Serving, TypeOK
    <3>2. new.owner \in clients \cap Serving /\ new.clientName = name[new.owner]
      BY <1>10, <1>a, <2>2 DEF ClientsInv
    <3> QED BY <1>a, <2>6, <2>7, <3>1, <3>2 DEF TunnelsOwned, Registered
  <2>10. SocketsExact'
    <3>1. Endpoint(new) = Endpoint(r) /\ Endpoint(r) \notin sockets
      BY <1>10 DEF Endpoint, Creatable
    <3>2. \A p \in Registered : proxies'[p] = proxies[p] /\ Endpoint(proxies[p]) \in sockets
      BY <1>a, <2>6, <2>7 DEF SocketsExact, Registered
    <3>3. sockets' = {Endpoint(proxies'[p]) : p \in Registered'}
      <4>1. {Endpoint(proxies'[p]) : p \in Registered'} =
              {Endpoint(proxies'[p]) : p \in Registered} \cup {Endpoint(proxies'[r.name])}
        BY <2>7
      <4>2. {Endpoint(proxies'[p]) : p \in Registered} = sockets
        BY <1>a, <3>2 DEF SocketsExact
      <4> QED BY <1>10, <2>6, <3>1, <4>1, <4>2
    <3>4. dataSockets' = Registered'
      BY <1>10, <1>a, <2>7 DEF SocketsExact
    <3>5. \A p, q \in Registered' : Endpoint(proxies'[p]) = Endpoint(proxies'[q]) => p = q
      BY <1>a, <2>6, <2>7, <3>1, <3>2 DEF SocketsExact
    <3> QED BY <3>3, <3>4, <3>5 DEF SocketsExact, Endpoint
  <2> QED BY <2>8, <2>9, <2>10 DEF IInv
<1>11. ASSUME NEW c \in Conns, PeerClose(c) PROVE IInv'
  <2>1. Core'
    BY <1>11, <1>a DEF PeerClose, TypeOK, HandlerInv, ClientsInv, ApiInv, Serving
  <2>2. \A d \in clients : d \in clients' /\ d \in Serving' /\ name'[d] = name[d]
    BY <1>11, <1>a DEF PeerClose, ClientsInv, Serving, TypeOK
  <2>3. TunnelsOwned' /\ SocketsExact'
    BY <1>11, <2>2, TunnelsFrame DEF PeerClose
  <2> QED BY <2>1, <2>3 DEF IInv
<1>12. ASSUME NEW c \in Conns, Disconnect(c) PROVE IInv'
  <2> USE DEF Disconnect
  <2>1. PICK ps \in SUBSET Registered : ps = OwnedBy(c)
    BY DEF OwnedBy
  <2>2. cleanupProxy(ps)
    BY <1>12, <2>1
  <2>3. Core'
    <3>1. TypeOK'
      BY <1>12, <1>a, <2>2, CleanupSockets DEF TypeOK
    <3>2. HandlerInv' /\ ClientsInv' /\ ApiInv'
      BY <1>12, <1>a DEF TypeOK, HandlerInv, ClientsInv, ApiInv, Serving
    <3> QED BY <3>1, <3>2
  <2>4. \A p \in Registered' : p \in Registered /\ proxies'[p] = proxies[p] /\ proxies[p].owner # c
    BY <2>1, <2>2, CleanupSockets DEF OwnedBy
  <2>5. \A d \in clients \ {c} : d \in clients' \cap Serving' /\ name'[d] = name[d]
    BY <1>12, <1>a DEF ClientsInv, Serving, TypeOK
  <2>6. TunnelsOwned'
    BY <1>12, <1>a, <2>4, <2>5 DEF TunnelsOwned
  <2>7. SocketsExact'
    BY <2>2, CleanupSockets
  <2> QED BY <2>3, <2>6, <2>7 DEF IInv
<1>13. ASSUME NEW c \in Conns, KickClient(c) PROVE IInv'
  <2>1. Core'
    BY <1>13, <1>a DEF KickClient, TypeOK, HandlerInv, ClientsInv, ApiInv, Serving
  <2>2. \A d \in clients : d \in clients' /\ d \in Serving' /\ name'[d] = name[d]
    BY <1>13, <1>a DEF KickClient, ClientsInv, Serving, TypeOK
  <2>3. TunnelsOwned' /\ SocketsExact'
    BY <1>13, <2>2, TunnelsFrame DEF KickClient
  <2> QED BY <2>1, <2>3 DEF IInv
<1>14. ASSUME NEW n \in Identities, NotifyClientSync(n) PROVE IInv'
  BY <1>13, <1>14, <1>a DEF NotifyClientSync, TypeOK
<1>15. ASSUME NEW q \in ProxyNames, CloseProxy(q) PROVE IInv'
  <2> USE DEF CloseProxy
  <2>1. {q} \in SUBSET Registered /\ cleanupProxy({q})
    BY <1>15
  <2>2. Core'
    <3>1. TypeOK'
      BY <1>15, <1>a, <2>1, CleanupSockets DEF TypeOK
    <3>2. HandlerInv' /\ ClientsInv' /\ ApiInv'
      BY <1>15, <1>a DEF TypeOK, HandlerInv, ClientsInv, ApiInv, Serving
    <3> QED BY <3>1, <3>2
  <2>3. \A p \in Registered' : p \in Registered /\ proxies'[p] = proxies[p]
    BY <2>1, CleanupSockets
  <2>4. TunnelsOwned'
    BY <1>15, <1>a, <2>3 DEF TunnelsOwned, Serving
  <2>5. SocketsExact'
    BY <2>1, CleanupSockets
  <2> QED BY <2>2, <2>4, <2>5 DEF IInv
<1>16. ASSUME NEW a \in ApiCalls, NEW n \in Names, NEW t \in Tokens, AddIndex(a, n, t) PROVE IInv'
  <2> DEFINE call == [Idle EXCEPT !.op = "addDB", !.name = n, !.token = t]
  <2>1. call \in ApiStates /\ call.name = n /\ call.token = t /\ call.op = "addDB"
    BY DEF Idle, ApiStates
  <2>2. api' \in [ApiCalls -> ApiStates] /\ api' = [api EXCEPT ![a] = call]
    BY <1>16, <1>a, <2>1 DEF AddIndex, Begins, TypeOK
  <2>3. ApiInv'
    BY <1>16, <1>a, <2>1, <2>2 DEF ApiInv, TypeOK
  <2>4. Core'
    <3>1. TypeOK'
      BY <1>16, <1>a, <2>1, <2>2 DEF AddIndex, Begins, TypeOK
    <3>2. HandlerInv' /\ ClientsInv'
      BY <1>16, <1>a DEF AddIndex, Begins, TypeOK, HandlerInv, ClientsInv, Serving
    <3> QED BY <2>3, <3>1, <3>2
  <2>5. \A d \in clients : d \in clients' /\ d \in Serving' /\ name'[d] = name[d]
    BY <1>16, <1>a DEF AddIndex, ClientsInv, Serving, TypeOK
  <2>6. TunnelsOwned' /\ SocketsExact'
    BY <1>16, <2>5, TunnelsFrame DEF AddIndex
  <2> QED BY <2>4, <2>6 DEF IInv
<1>17. ASSUME NEW a \in ApiCalls, AddFound(a) PROVE IInv'
  <2>1. Core'
    BY <1>17, <1>a DEF AddFound, Returns, Idle, ApiStates, TypeOK, HandlerInv, ClientsInv, ApiInv, Serving
  <2>2. \A d \in clients : d \in clients' /\ d \in Serving' /\ name'[d] = name[d]
    BY <1>17, <1>a DEF AddFound, Returns, Idle, ApiStates, ClientsInv, Serving, TypeOK
  <2>3. TunnelsOwned' /\ SocketsExact'
    BY <1>17, <2>2, TunnelsFrame DEF AddFound, Returns, Idle, ApiStates
  <2> QED BY <2>1, <2>3 DEF IInv
<1>18. ASSUME NEW a \in ApiCalls, AddInsert(a) PROVE IInv'
  <2>1. Core'
    BY <1>18, <1>a DEF AddInsert, Returns, Idle, ApiStates, TypeOK, HandlerInv, ClientsInv, ApiInv, Serving
  <2>2. \A d \in clients : d \in clients' /\ d \in Serving' /\ name'[d] = name[d]
    BY <1>18, <1>a DEF AddInsert, Returns, Idle, ApiStates, ClientsInv, Serving, TypeOK
  <2>3. TunnelsOwned' /\ SocketsExact'
    BY <1>18, <2>2, TunnelsFrame DEF AddInsert, Returns, Idle, ApiStates
  <2> QED BY <2>1, <2>3 DEF IInv
<1>19. ASSUME NEW a \in ApiCalls, AddFails(a) PROVE IInv'
  <2>1. Core'
    BY <1>19, <1>a DEF AddFails, AddFailure, Returns, Idle, ApiStates, TypeOK, HandlerInv, ClientsInv, ApiInv, Serving
  <2>2. \A d \in clients : d \in clients' /\ d \in Serving' /\ name'[d] = name[d]
    BY <1>19, <1>a DEF AddFails, AddFailure, Returns, Idle, ApiStates, ClientsInv, Serving, TypeOK
  <2>3. TunnelsOwned' /\ SocketsExact'
    BY <1>19, <2>2, TunnelsFrame DEF AddFails, AddFailure, Returns, Idle, ApiStates
  <2> QED BY <2>1, <2>3 DEF IInv
<1>20. ASSUME NEW a \in ApiCalls, NEW n \in Names, RemoveIndex(a, n) PROVE IInv'
  <2> DEFINE cs == {c \in clients : clientNames[c] = n}
             call == [Idle EXCEPT !.op = "removeDB", !.name = n, !.conns = cs,
                        !.hit = ({t \in Tokens : managedByToken[t] = n} # {} \/ cs # {})]
  <2>1. call \in ApiStates /\ call.name = n /\ call.op = "removeDB"
    BY <1>a DEF Idle, ApiStates, TypeOK
  <2>2. /\ api' \in [ApiCalls -> ApiStates] /\ api' = [api EXCEPT ![a] = call]
        /\ managedByToken' \in [Tokens -> Names \cup {NoName}]
        /\ verdict' \in [Names -> {"none", "added", "failed", "removed", "overlap"}]
    BY <1>20, <1>a, <2>1 DEF RemoveIndex, Begins, TypeOK
  <2>3. ApiInv'
    BY <1>20, <1>a, <2>1, <2>2 DEF ApiInv, TypeOK
  <2>4. Core'
    <3>1. TypeOK'
      BY <1>20, <1>a, <2>1, <2>2 DEF RemoveIndex, Begins, TypeOK
    <3>2. HandlerInv' /\ ClientsInv'
      BY <1>20, <1>a DEF RemoveIndex, Begins, TypeOK, HandlerInv, ClientsInv, Serving
    <3> QED BY <2>3, <3>1, <3>2
  <2>5. \A d \in clients : d \in clients' /\ d \in Serving' /\ name'[d] = name[d]
    BY <1>20, <1>a DEF RemoveIndex, ClientsInv, Serving, TypeOK
  <2>6. TunnelsOwned' /\ SocketsExact'
    BY <1>20, <2>5, TunnelsFrame DEF RemoveIndex
  <2> QED BY <2>4, <2>6 DEF IInv
<1>21. ASSUME NEW a \in ApiCalls, RemoveDB(a) PROVE IInv'
  <2>1. api[a] \in ApiStates /\ api[a].name \in Names
    BY <1>21, <1>a DEF RemoveDB, ApiInv, TypeOK
  <2>2. /\ api' \in [ApiCalls -> ApiStates]
        /\ \A b \in ApiCalls \ {a} : api'[b] = api[b]
        /\ api'[a].op = "removeClose" /\ api'[a].name = api[a].name
    BY <1>21, <1>a, RemoveDBCall
  <2>3. ApiInv'
    BY <1>a, <2>1, <2>2 DEF ApiInv
  <2>4. Core'
    <3>1. TypeOK'
      BY <1>21, <1>a, <2>1, <2>2 DEF RemoveDB, TypeOK
    <3>2. HandlerInv' /\ ClientsInv'
      BY <1>21, <1>a DEF RemoveDB, TypeOK, HandlerInv, ClientsInv, Serving
    <3> QED BY <2>3, <3>1, <3>2
  <2>5. \A d \in clients : d \in clients' /\ d \in Serving' /\ name'[d] = name[d]
    BY <1>21, <1>a DEF RemoveDB, ClientsInv, Serving, TypeOK
  <2>6. TunnelsOwned' /\ SocketsExact'
    BY <1>21, <2>5, TunnelsFrame DEF RemoveDB
  <2> QED BY <2>4, <2>6 DEF IInv
<1>22. ASSUME NEW a \in ApiCalls, RemoveClose(a) PROVE IInv'
  <2>1. Core'
    BY <1>22, <1>a DEF RemoveClose, Returns, Idle, ApiStates, TypeOK, HandlerInv, ClientsInv, ApiInv, Serving
  <2>2. \A d \in clients : d \in clients' /\ d \in Serving' /\ name'[d] = name[d]
    BY <1>22, <1>a DEF RemoveClose, Returns, Idle, ApiStates, ClientsInv, Serving, TypeOK
  <2>3. TunnelsOwned' /\ SocketsExact'
    BY <1>22, <2>2, TunnelsFrame DEF RemoveClose, Returns, Idle, ApiStates
  <2> QED BY <2>1, <2>3 DEF IInv
<1>23. ASSUME Restart PROVE IInv'
  <2> USE DEF Restart, Started
  <2>1. Seeded(db) \in [Names -> Tokens \cup {NoToken}]
    BY <1>a, IndexType DEF TypeOK
  <2>2. TypeOK'
    BY <1>23, <1>a, <2>1, IndexType DEF TypeOK, Idle, ApiStates
  <2>3. Registered' = {} /\ Serving' = {}
    BY <1>23 DEF Registered, Serving
  <2>4. HandlerInv' /\ ClientsInv' /\ ApiInv'
    BY <1>23, <1>a, <2>3 DEF TypeOK, HandlerInv, ClientsInv, ApiInv, Idle
  <2>5. TunnelsOwned' /\ SocketsExact'
    BY <1>23, <2>3 DEF TunnelsOwned, SocketsExact
  <2> QED BY <2>2, <2>4, <2>5 DEF IInv
<1>24. ASSUME UNCHANGED vars PROVE IInv'
  BY <1>24, <1>a DEF vars, IInv, TypeOK, HandlerInv, ClientsInv, ApiInv,
     TunnelsOwned, SocketsExact, Registered, Serving, Endpoint
<1> QED
  BY <1>1, <1>2, <1>3, <1>4, <1>5, <1>6, <1>7, <1>8, <1>9, <1>10, <1>11, <1>12,
     <1>13, <1>14, <1>15, <1>16, <1>17, <1>18, <1>19, <1>20, <1>21, <1>22,
     <1>23, <1>24 DEF Next, HandlerStep, ApiStep

\* The server's maps keep their types: Spec implies the type invariant.
THEOREM TypeCorrect == Spec => []TypeOK
<1>1. IInv => TypeOK
  BY DEF IInv
<1> QED BY <1>1, InitIInv, NextIInv, PTL DEF Spec

\* No tunnel outlives the connection that owns it, and each is booked on the
\* identity of its owner.
THEOREM TunnelsAreOwned == Spec => []TunnelsOwned
<1>1. IInv => TunnelsOwned
  BY DEF IInv
<1> QED BY <1>1, InitIInv, NextIInv, PTL DEF Spec

\* The server's open sockets are exactly those of its tunnels, and no two
\* tunnels share a public endpoint.
THEOREM SocketsAreExact == Spec => []SocketsExact
<1>1. IInv => SocketsExact
  BY DEF IInv
<1> QED BY <1>1, InitIInv, NextIInv, PTL DEF Spec

\* A tunnel is never taken over by another connection, and it goes only with
\* its owner or by a CloseProxy of it alone.
THEOREM TunnelsAreIsolated == Spec => TunnelIsolation
<1>1. IInv /\ [Next]_vars => [TunnelIsolationStep]_vars
  <2> SUFFICES ASSUME IInv, Next PROVE TunnelIsolationStep
    OBVIOUS
  <2> USE DEF store, runtime, handlers, calls, history
  <2>1. CASE UNCHANGED proxies
    BY <2>1 DEF TunnelIsolationStep
  <2>2. ASSUME NEW c \in Conns, NewProxyCreated(c) PROVE TunnelIsolationStep
    <3>1. request[c].name \notin Registered
      BY <2>2 DEF NewProxyCreated, Creatable
    <3>2. \A p \in Registered : proxies'[p] = proxies[p]
      BY <2>2, <3>1 DEF NewProxyCreated, Registered, IInv, TypeOK
    <3> QED BY <3>2 DEF TunnelIsolationStep
  <2>3. ASSUME NEW c \in Conns, Disconnect(c) PROVE TunnelIsolationStep
    BY <2>3 DEF Disconnect, cleanupProxy, OwnedBy, Registered, TunnelIsolationStep
  <2>4. ASSUME NEW q \in ProxyNames, CloseProxy(q) PROVE TunnelIsolationStep
    <3>1. \A p \in Registered : proxies'[p] = IF p = q THEN NoProxy ELSE proxies[p]
      BY <2>4 DEF CloseProxy, cleanupProxy, Registered
    <3>2. {p \in Registered : proxies'[p] # proxies[p]} = {q} /\ clients' = clients
      BY <2>4, <3>1 DEF CloseProxy, Registered
    <3> QED BY <3>1, <3>2 DEF TunnelIsolationStep
  <2>5. CASE Restart
    BY <2>5 DEF Restart, Started, Registered, TunnelIsolationStep
  <2>6. \/ UNCHANGED proxies
        \/ \E c \in Conns : NewProxyCreated(c) \/ Disconnect(c)
        \/ \E q \in ProxyNames : CloseProxy(q)
        \/ Restart
    <3>1. ASSUME NEW c \in Conns, HandlerStep(c)
          PROVE  UNCHANGED proxies \/ NewProxyCreated(c) \/ Disconnect(c)
      BY <3>1 DEF HandlerStep, LookupCache, DbHit, DbMiss, FillCache, Register,
           NewProxyRefused, NewProxyNoDataPort
    <3>2. ASSUME NEW a \in ApiCalls, ApiStep(a) PROVE UNCHANGED proxies
      BY <3>2 DEF ApiStep, AddIndex, AddFound, AddInsert, AddFails, RemoveIndex,
           RemoveDB, RemoveClose
    <3> QED BY <3>1, <3>2 DEF Next, Login, ReadNewProxy, PeerClose, KickClient,
           NotifyClientSync
  <2> QED BY <2>1, <2>2, <2>3, <2>4, <2>5, <2>6
<1> QED BY <1>1, InitIInv, NextIInv, PTL DEF Spec, TunnelIsolation

-----------------------------------------------------------------------------
(* Credentials: whatever is stale, it was issued once.                     *)

\* An entry of the index is a pair that was configured or added, also one
\* that a login has put back after the removal of its row.
IndexIssued ==
  \A t \in Tokens : managedByToken[t] # NoName => <<managedByToken[t], t>> \in issued

RowsIssued ==
  \A n \in Names : db[n] # NoToken => <<n, db[n]>> \in issued

\* So is the pair that a creation has still to write to the table.
CallsIssued ==
  \A a \in ApiCalls : api[a].op = "addDB" => <<api[a].name, api[a].token>> \in issued

\* From the lookup on, a goroutine holds an identity that its token proves.
HandlersIssued ==
  \A c \in Conns :
    /\ pc[c] = "fill" => <<name[c], token[c]>> \in issued
    /\ pc[c] \in {"register", "serve", "newproxy"} =>
         \/ name[c] = Default /\ token[c] = MainToken
         \/ <<name[c], token[c]>> \in issued

CredInv == IndexIssued /\ RowsIssued /\ CallsIssued /\ HandlersIssued /\ TenantAuthIsolation

\* The start-up table and index hold pairs that the start issues.
LEMMA StartIssued ==
  ASSUME NEW d \in [Names -> Tokens \cup {NoToken}]
  PROVE  /\ \A n \in Names : d[n] # NoToken => <<n, d[n]>> \in Pairs(d)
         /\ \A t \in Tokens : IndexOf(d)[t] # NoName => <<IndexOf(d)[t], t>> \in Pairs(d)
<1>1. \A n \in Names : d[n] # NoToken => <<n, d[n]>> \in Pairs(d)
  BY DEF Pairs
<1>2. ASSUME NEW t \in Tokens, IndexOf(d)[t] # NoName PROVE <<IndexOf(d)[t], t>> \in Pairs(d)
  <2>1. \E n \in Names : d[n] = t
    BY <1>2 DEF IndexOf
  <2>2. IndexOf(d)[t] = CHOOSE n \in Names : d[n] = t
    BY <2>1 DEF IndexOf
  <2>3. IndexOf(d)[t] \in Names /\ d[IndexOf(d)[t]] = t
    BY <2>1, <2>2
  <2> QED BY <1>1, <2>3
<1> QED BY <1>1, <1>2

LEMMA InitCred == Init => CredInv
<1> SUFFICES ASSUME Init PROVE CredInv
  OBVIOUS
<1> USE DEF Init
<1>1. NoRows \in [Names -> Tokens \cup {NoToken}]
  BY DEF NoRows
<1>2. Seeded(NoRows) \in [Names -> Tokens \cup {NoToken}]
  BY <1>1, IndexType
<1>3. IndexIssued /\ RowsIssued
  BY <1>2, StartIssued DEF IndexIssued, RowsIssued
<1>4. CallsIssued /\ HandlersIssued
  BY DEF CallsIssued, HandlersIssued, Idle
<1>5. TenantAuthIsolation
  BY DEF TenantAuthIsolation, Registered
<1> QED BY <1>3, <1>4, <1>5 DEF CredInv

\* Tunnels that are there before and after a step keep their key, and what
\* was issued stays issued.
LEMMA TunnelKeysFrame ==
  ASSUME IInv, CredInv, issued \subseteq issued',
         \A p \in ProxyNames : proxies'[p] # NoProxy => proxies'[p] = proxies[p]
  PROVE  TenantAuthIsolation'
BY DEF CredInv, TenantAuthIsolation, Registered

\* A new tunnel is keyed with the main token or a token of its client.
LEMMA NewProxyCred ==
  ASSUME IInv, CredInv, NEW c \in Conns, NewProxyCreated(c)
  PROVE  CredInv'
<1> USE DEF NewProxyCreated, Answered, store, calls, history
<1> DEFINE r == request[c]
<1>1. r.name \in ProxyNames /\ pc[c] = "newproxy" /\ c \in clients
  BY DEF IInv, HandlerInv, ClientsInv, Serving, Requests
<1>2. ClientNameFor(c) = name[c] /\ name[c] \in Identities
  BY <1>1 DEF IInv, ClientsInv, ClientNameFor
<1>3. PICK t \in AuthFor(ClientNameFor(c)) :
        proxies' = [proxies EXCEPT ![r.name] =
                      [owner |-> c, clientName |-> ClientNameFor(c),
                       type |-> r.type, port |-> r.port, auth |-> t]]
  OBVIOUS
<1>4. t = MainToken \/ <<name[c], t>> \in issued
  <2>1. CASE t = MainToken
    BY <2>1
  <2>2. CASE t # MainToken
    <3>1. t \in Tokens /\ managedByToken[t] = name[c] /\ name[c] # NoName
      BY <1>2, <1>3, <2>2 DEF AuthFor
    <3> QED BY <3>1 DEF CredInv, IndexIssued
  <2> QED BY <2>1, <2>2
<1>5. TenantAuthIsolation'
  <2> SUFFICES ASSUME NEW p \in ProxyNames, proxies'[p] # NoProxy
               PROVE  \/ proxies'[p].auth = MainToken
                      \/ <<proxies'[p].clientName, proxies'[p].auth>> \in issued'
    BY DEF TenantAuthIsolation, Registered
  <2>1. proxies \in [ProxyNames -> Proxy \cup {NoProxy}]
    BY DEF IInv, TypeOK
  <2>2. CASE p = r.name
    BY <1>2, <1>3, <1>4, <2>1, <2>2
  <2>3. CASE p # r.name
    BY <1>3, <2>1, <2>3 DEF CredInv, TenantAuthIsolation, Registered
  <2> QED BY <2>2, <2>3
<1>6. HandlersIssued'
  BY <1>1 DEF CredInv, HandlersIssued, IInv, TypeOK
<1>7. IndexIssued' /\ RowsIssued' /\ CallsIssued'
  BY DEF CredInv, IndexIssued, RowsIssued, CallsIssued
<1> QED BY <1>5, <1>6, <1>7 DEF CredInv

\* A management call that returns issues nothing and has nothing to write.
LEMMA ReturnCred ==
  ASSUME IInv, CredInv, NEW a \in ApiCalls, NEW result, Returns(a, result),
         UNCHANGED <<managedByToken, proxies, pc, token, name, issued>>, RowsIssued'
  PROVE  CredInv'
<1>1. CallsIssued'
  BY DEF Returns, Idle, CredInv, CallsIssued, IInv, TypeOK
<1>2. IndexIssued' /\ HandlersIssued'
  BY DEF CredInv, IndexIssued, HandlersIssued
<1>3. TenantAuthIsolation'
  BY TunnelKeysFrame
<1> QED BY <1>1, <1>2, <1>3 DEF CredInv

LEMMA NextCred == IInv /\ CredInv /\ [Next]_vars => CredInv'
<1> SUFFICES ASSUME IInv, CredInv, [Next]_vars PROVE CredInv'
  OBVIOUS
<1> USE DEF store, runtime, handlers, calls, history
<1>a. TypeOK /\ HandlerInv /\ ClientsInv /\ ApiInv
  BY DEF IInv
<1>b. IndexIssued /\ RowsIssued /\ CallsIssued /\ HandlersIssued
  BY DEF CredInv
<1>1. ASSUME UNCHANGED <<db, managedByToken, api, issued>>, HandlersIssued',
             \A p \in ProxyNames : proxies'[p] # NoProxy => proxies'[p] = proxies[p]
      PROVE  CredInv'
  <2>1. IndexIssued' /\ RowsIssued' /\ CallsIssued'
    BY <1>1, <1>b DEF IndexIssued, RowsIssued, CallsIssued
  <2>2. TenantAuthIsolation'
    BY <1>1, TunnelKeysFrame
  <2> QED BY <1>1, <2>1, <2>2 DEF CredInv
<1>2. ASSUME NEW c \in Conns, NEW t \in Tokens, Login(c, t) PROVE CredInv'
  <2>1. HandlersIssued'
    BY <1>2, <1>a, <1>b DEF Login, TypeOK, HandlersIssued
  <2> QED BY <1>1, <1>2, <2>1 DEF Login
<1>3. ASSUME NEW c \in Conns, LookupCache(c) PROVE CredInv'
  <2>1. token[c] \in Tokens
    BY <1>3, <1>a DEF LookupCache, HandlerInv
  <2>2. HandlersIssued'
    BY <1>3, <1>a, <1>b, <2>1 DEF LookupCache, TypeOK, HandlersIssued, IndexIssued
  <2> QED BY <1>1, <1>3, <2>2 DEF LookupCache
<1>4. ASSUME NEW c \in Conns, NEW n \in Names, DbHit(c, n) PROVE CredInv'
  <2>1. token[c] \in Tokens
    BY <1>4, <1>a DEF DbHit, HandlerInv
  <2>2. HandlersIssued'
    BY <1>4, <1>a, <1>b, <2>1 DEF DbHit, TypeOK, HandlersIssued, RowsIssued
  <2> QED BY <1>1, <1>4, <2>2 DEF DbHit
<1>5. ASSUME NEW c \in Conns, DbMiss(c) PROVE CredInv'
  <2>1. HandlersIssued'
    BY <1>5, <1>a, <1>b DEF DbMiss, IsMainToken, TypeOK, HandlersIssued
  <2> QED BY <1>1, <1>5, <2>1 DEF DbMiss
<1>6. ASSUME NEW c \in Conns, FillCache(c) PROVE CredInv'
  <2>1. token[c] \in Tokens /\ <<name[c], token[c]>> \in issued
    BY <1>6, <1>a, <1>b DEF FillCache, HandlerInv, HandlersIssued
  <2>2. HandlersIssued'
    BY <1>6, <1>a, <1>b, <2>1 DEF FillCache, TypeOK, HandlersIssued
  <2>3. IndexIssued'
    BY <1>6, <1>a, <1>b, <2>1 DEF FillCache, TypeOK, IndexIssued
  <2>4. RowsIssued' /\ CallsIssued'
    BY <1>6, <1>b DEF FillCache, RowsIssued, CallsIssued
  <2>5. TenantAuthIsolation'
    BY <1>6, TunnelKeysFrame DEF FillCache
  <2> QED BY <2>2, <2>3, <2>4, <2>5 DEF CredInv
<1>7. ASSUME NEW c \in Conns, Register(c) PROVE CredInv'
  <2>1. HandlersIssued'
    BY <1>7, <1>a, <1>b DEF Register, TypeOK, HandlersIssued
  <2> QED BY <1>1, <1>7, <2>1 DEF Register
<1>8. ASSUME NEW c \in Conns, NEW r \in Requests, ReadNewProxy(c, r) PROVE CredInv'
  <2>1. HandlersIssued'
    BY <1>8, <1>a, <1>b DEF ReadNewProxy, TypeOK, HandlersIssued
  <2> QED BY <1>1, <1>8, <2>1 DEF ReadNewProxy
<1>9. ASSUME NEW c \in Conns, NewProxyRefused(c) \/ NewProxyNoDataPort(c) PROVE CredInv'
  <2>1. HandlersIssued'
    BY <1>9, <1>a, <1>b DEF NewProxyRefused, NewProxyNoDataPort, Answered, TypeOK, HandlersIssued
  <2> QED BY <1>1, <1>9, <2>1 DEF NewProxyRefused, NewProxyNoDataPort, Answered
<1>10. ASSUME NEW c \in Conns, NewProxyCreated(c) PROVE CredInv'
  BY <1>10, NewProxyCred
<1>11. ASSUME NEW c \in Conns, PeerClose(c) \/ KickClient(c) PROVE CredInv'
  <2>1. HandlersIssued'
    BY <1>11, <1>b DEF PeerClose, KickClient, HandlersIssued
  <2> QED BY <1>1, <1>11, <2>1 DEF PeerClose, KickClient
<1>12. ASSUME NEW c \in Conns, Disconnect(c) PROVE CredInv'
  <2>1. HandlersIssued'
    BY <1>12, <1>a, <1>b DEF Disconnect, TypeOK, HandlersIssued
  <2> QED BY <1>1, <1>12, <2>1 DEF Disconnect, cleanupProxy
<1>13. ASSUME NEW n \in Identities, NotifyClientSync(n) PROVE CredInv'
  BY <1>11, <1>13, <1>a DEF NotifyClientSync, TypeOK
<1>14. ASSUME NEW q \in ProxyNames, CloseProxy(q) PROVE CredInv'
  <2>1. HandlersIssued'
    BY <1>14, <1>b DEF CloseProxy, HandlersIssued
  <2> QED BY <1>1, <1>14, <2>1 DEF CloseProxy, cleanupProxy
<1>15. ASSUME NEW a \in ApiCalls, NEW n \in Names, NEW t \in Tokens, AddIndex(a, n, t)
       PROVE  CredInv'
  <2> DEFINE call == [Idle EXCEPT !.op = "addDB", !.name = n, !.token = t]
  <2>1. call.name = n /\ call.token = t
    BY DEF Idle
  <2>2. /\ api' = [api EXCEPT ![a] = call]
        /\ managedByToken' = [managedByToken EXCEPT ![t] = n]
        /\ issued \subseteq issued' /\ <<n, t>> \in issued'
    BY <1>15 DEF AddIndex, Begins
  <2>3. CallsIssued'
    <3> HIDE DEF call
    <3> QED BY <1>a, <1>b, <2>1, <2>2 DEF CallsIssued, TypeOK
  <2>4. IndexIssued' /\ RowsIssued'
    BY <1>15, <1>a, <1>b, <2>2 DEF AddIndex, IndexIssued, RowsIssued, TypeOK
  <2>5. HandlersIssued'
    BY <1>15, <1>b, <2>2 DEF AddIndex, HandlersIssued
  <2>6. TenantAuthIsolation'
    BY <1>15, <2>2, TunnelKeysFrame DEF AddIndex
  <2> QED BY <2>3, <2>4, <2>5, <2>6 DEF CredInv
<1>16. ASSUME NEW a \in ApiCalls, AddFound(a) \/ AddFails(a) PROVE CredInv'
  <2>1. RowsIssued'
    BY <1>16, <1>b DEF AddFound, AddFails, RowsIssued
  <2> QED BY <1>16, <2>1, ReturnCred DEF AddFound, AddFails
<1>17. ASSUME NEW a \in ApiCalls, AddInsert(a) PROVE CredInv'
  <2>1. api[a].name \in Names /\ <<api[a].name, api[a].token>> \in issued
    BY <1>17, <1>a, <1>b DEF AddInsert, ApiInv, CallsIssued
  <2>2. RowsIssued'
    BY <1>17, <1>a, <1>b, <2>1 DEF AddInsert, RowsIssued, TypeOK
  <2> QED BY <1>17, <2>2, ReturnCred DEF AddInsert
<1>18. ASSUME NEW a \in ApiCalls, NEW n \in Names, RemoveIndex(a, n) PROVE CredInv'
  <2> DEFINE cs == {c \in clients : clientNames[c] = n}
             call == [Idle EXCEPT !.op = "removeDB", !.name = n, !.conns = cs,
                        !.hit = ({t \in Tokens : managedByToken[t] = n} # {} \/ cs # {})]
  <2>1. call.op = "removeDB"
    BY DEF Idle
  <2>2. api' = [api EXCEPT ![a] = call]
    BY <1>18 DEF RemoveIndex, Begins
  <2>3. CallsIssued'
    <3> HIDE DEF call
    <3> QED BY <1>18, <1>a, <1>b, <2>1, <2>2 DEF RemoveIndex, CallsIssued, TypeOK
  <2>4. IndexIssued' /\ RowsIssued'
    BY <1>18, <1>a, <1>b DEF RemoveIndex, IndexIssued, RowsIssued, TypeOK
  <2>5. HandlersIssued'
    BY <1>18, <1>b DEF RemoveIndex, HandlersIssued
  <2>6. TenantAuthIsolation'
    BY <1>18, TunnelKeysFrame DEF RemoveIndex
  <2> QED BY <2>3, <2>4, <2>5, <2>6 DEF CredInv
<1>19. ASSUME NEW a \in ApiCalls, RemoveDB(a) PROVE CredInv'
  <2>1. \A b \in ApiCalls : api'[b].op = "addDB" => api'[b] = api[b]
    BY <1>19, <1>a, RemoveDBCall
  <2>2. CallsIssued'
    BY <1>19, <1>b, <2>1 DEF RemoveDB, CallsIssued
  <2>3. IndexIssued' /\ RowsIssued'
    BY <1>19, <1>a, <1>b DEF RemoveDB, IndexIssued, RowsIssued, TypeOK
  <2>4. HandlersIssued'
    BY <1>19, <1>b DEF RemoveDB, HandlersIssued
  <2>5. TenantAuthIsolation'
    BY <1>19, TunnelKeysFrame DEF RemoveDB
  <2> QED BY <2>2, <2>3, <2>4, <2>5 DEF CredInv
<1>20. ASSUME NEW a \in ApiCalls, RemoveClose(a) PROVE CredInv'
  <2>1. RowsIssued'
    BY <1>20, <1>b DEF RemoveClose, RowsIssued
  <2> QED BY <1>20, <2>1, ReturnCred DEF RemoveClose
<1>21. CASE Restart
  <2> USE DEF Restart, Started
  <2>1. Seeded(db) \in [Names -> Tokens \cup {NoToken}]
    BY <1>a, IndexType DEF TypeOK
  <2>2. IndexIssued' /\ RowsIssued'
    BY <1>21, <2>1, StartIssued DEF IndexIssued, RowsIssued
  <2>3. CallsIssued' /\ HandlersIssued'
    BY <1>21, <1>a DEF CallsIssued, HandlersIssued, Idle
  <2>4. TenantAuthIsolation'
    BY <1>21 DEF TenantAuthIsolation, Registered
  <2> QED BY <2>2, <2>3, <2>4 DEF CredInv
<1>22. CASE UNCHANGED vars
  <2>1. HandlersIssued'
    BY <1>22, <1>b DEF vars, HandlersIssued
  <2> QED BY <1>1, <1>22, <2>1 DEF vars
<1> QED
  BY <1>2, <1>3, <1>4, <1>5, <1>6, <1>7, <1>8, <1>9, <1>10, <1>11, <1>12, <1>13, <1>14,
     <1>15, <1>16, <1>17, <1>18, <1>19, <1>20, <1>21, <1>22 DEF Next, HandlerStep, ApiStep

\* A registered connection has the identity of the credential it presented:
\* the main token, or a pair that was configured or added, however late the
\* index is.
THEOREM RegisteredIsAuthentic == Spec => []RegisteredAuthentic
<1>1. IInv /\ CredInv => RegisteredAuthentic
  BY DEF IInv, ClientsInv, Serving, CredInv, HandlersIssued, RegisteredAuthentic
<1> QED BY <1>1, InitIInv, NextIInv, InitCred, NextCred, PTL DEF Spec

\* No tunnel of a managed client is keyed with the token of another.
THEOREM TenantsAuthIsolated == Spec => []TenantAuthIsolation
<1>1. CredInv => TenantAuthIsolation
  BY DEF CredInv
<1> QED BY <1>1, InitIInv, NextIInv, InitCred, NextCred, PTL DEF Spec

-----------------------------------------------------------------------------
(* Verdicts: a call that is told "added" was alone on its name.            *)

\* While a call on a name is under way the last verdict is open, and two at
\* a time have been noticed.
VerdictInv ==
  /\ \A a \in ApiCalls : api[a].op = "idle" => api[a].name = NoName
  /\ \A n \in Names, a \in ApiCalls : api[a].name = n => verdict[n] \in {"none", "overlap"}
  /\ \A n \in Names, a, b \in ApiCalls :
       api[a].name = n /\ api[b].name = n /\ a # b => verdict[n] = "overlap"

LEMMA InitVerdict == Init => VerdictInv /\ DurableAdd
BY DEF Init, VerdictInv, DurableAdd, Idle

\* A call that begins leaves the verdict of its name open, and is seen by
\* the call it overlaps.
LEMMA BeginsVerdict ==
  ASSUME IInv, VerdictInv, DurableAdd, NEW a \in ApiCalls, NEW call, call.name \in Names,
         call.op # "idle", Begins(a, call), db' = db
  PROVE  VerdictInv' /\ DurableAdd'
<1>1. /\ api \in [ApiCalls -> ApiStates] /\ api[a].name = NoName
      /\ verdict \in [Names -> {"none", "added", "failed", "removed", "overlap"}]
  BY DEF IInv, TypeOK, Begins, Idle
<1>2. /\ api' = [api EXCEPT ![a] = call]
      /\ verdict' = [verdict EXCEPT ![call.name] = IF Busy(call.name) THEN "overlap" ELSE "none"]
  BY DEF Begins
<1>3. \A b \in ApiCalls : api'[b].op = "idle" => api'[b].name = NoName
  BY <1>1, <1>2 DEF VerdictInv
<1>4. \A n \in Names, b \in ApiCalls : api'[b].name = n => verdict'[n] \in {"none", "overlap"}
  BY <1>1, <1>2 DEF VerdictInv
<1>5. ASSUME NEW n \in Names, NEW b \in ApiCalls, NEW d \in ApiCalls,
             api'[b].name = n, api'[d].name = n, b # d
      PROVE  verdict'[n] = "overlap"
  <2>1. CASE n # call.name
    BY <1>1, <1>2, <1>5, <2>1 DEF VerdictInv
  <2>2. CASE n = call.name
    <3>1. Busy(n)
      BY <1>1, <1>2, <1>5, <2>2 DEF Busy
    <3> QED BY <1>1, <1>2, <2>2, <3>1
  <2> QED BY <2>1, <2>2
<1>6. DurableAdd'
  BY <1>1, <1>2 DEF DurableAdd
<1> QED BY <1>3, <1>4, <1>5, <1>6 DEF VerdictInv

\* A call that returns a verdict was alone on its name.
LEMMA ReturnsVerdict ==
  ASSUME IInv, VerdictInv, DurableAdd, NEW a \in ApiCalls, api[a].name \in Names,
         NEW result \in {"none", "added", "failed", "removed"}, Returns(a, result),
         \A n \in Names : db'[n] = NoToken => db[n] = NoToken,
         result = "added" => db'[api[a].name] # NoToken
  PROVE  VerdictInv' /\ DurableAdd'
<1> DEFINE n == api[a].name
<1>1. /\ api \in [ApiCalls -> ApiStates]
      /\ verdict \in [Names -> {"none", "added", "failed", "removed", "overlap"}]
  BY DEF IInv, TypeOK
<1>2. PICK v \in {"none", "added", "failed", "removed", "overlap"} :
        /\ verdict' = [verdict EXCEPT ![n] = v]
        /\ v = IF verdict[n] # "overlap" THEN result
               ELSE IF \E b \in ApiCalls \ {a} : api[b].name = n THEN "overlap" ELSE "none"
  BY <1>1 DEF Returns
<1>3. /\ api'[a] = Idle
      /\ \A b \in ApiCalls \ {a} : api'[b] = api[b]
      /\ Idle.name = NoName
  BY <1>1 DEF Returns, Idle
<1>4. \A b \in ApiCalls : api'[b].op = "idle" => api'[b].name = NoName
  BY <1>3 DEF VerdictInv
<1>5. \A b \in ApiCalls \ {a} : api[b].name = n => v = "overlap"
  BY <1>2 DEF VerdictInv
<1>6. \A m \in Names, b \in ApiCalls : api'[b].name = m => verdict'[m] \in {"none", "overlap"}
  BY <1>1, <1>2, <1>3, <1>5 DEF VerdictInv
<1>7. \A m \in Names, b, d \in ApiCalls :
        api'[b].name = m /\ api'[d].name = m /\ b # d => verdict'[m] = "overlap"
  BY <1>1, <1>2, <1>3, <1>5 DEF VerdictInv
<1>8. DurableAdd'
  BY <1>1, <1>2 DEF DurableAdd
<1> QED BY <1>4, <1>6, <1>7, <1>8 DEF VerdictInv

LEMMA NextVerdict ==
  IInv /\ VerdictInv /\ DurableAdd /\ [Next]_vars => VerdictInv' /\ DurableAdd'
<1> SUFFICES ASSUME IInv, VerdictInv, DurableAdd, [Next]_vars PROVE VerdictInv' /\ DurableAdd'
  OBVIOUS
<1> USE DEF store, runtime, handlers, calls, history
<1>a. TypeOK /\ ApiInv
  BY DEF IInv
<1>1. CASE UNCHANGED <<db, api, verdict>>
  BY <1>1 DEF VerdictInv, DurableAdd
<1>2. ASSUME NEW a \in ApiCalls, NEW n \in Names, NEW t \in Tokens, AddIndex(a, n, t)
      PROVE  VerdictInv' /\ DurableAdd'
  <2> DEFINE call == [Idle EXCEPT !.op = "addDB", !.name = n, !.token = t]
  <2>1. call.op # "idle" /\ call.name \in Names
    BY DEF Idle
  <2>2. Begins(a, call) /\ db' = db
    BY <1>2 DEF AddIndex
  <2> HIDE DEF call
  <2> QED BY <2>1, <2>2, BeginsVerdict
<1>3. ASSUME NEW a \in ApiCalls, AddFound(a) PROVE VerdictInv' /\ DurableAdd'
  <2>1. api[a].name \in Names
    BY <1>3, <1>a DEF AddFound, ApiInv
  <2> QED BY <1>3, <2>1, ReturnsVerdict DEF AddFound
<1>4. ASSUME NEW a \in ApiCalls, AddInsert(a) PROVE VerdictInv' /\ DurableAdd'
  <2>1. api[a].name \in Names /\ api[a].token \in Tokens
    BY <1>4, <1>a DEF AddInsert, ApiInv
  <2>2. /\ db'[api[a].name] # NoToken
        /\ \A n \in Names : db'[n] = NoToken => db[n] = NoToken
    BY <1>4, <1>a, <2>1 DEF AddInsert, TypeOK
  <2> QED BY <1>4, <2>1, <2>2, ReturnsVerdict DEF AddInsert
<1>5. ASSUME NEW a \in ApiCalls, AddFails(a) PROVE VerdictInv' /\ DurableAdd'
  <2>1. api[a].name \in Names
    BY <1>5, <1>a DEF AddFails, ApiInv
  <2> QED BY <1>5, <2>1, ReturnsVerdict DEF AddFails, AddFailure
<1>6. ASSUME NEW a \in ApiCalls, NEW n \in Names, RemoveIndex(a, n)
      PROVE  VerdictInv' /\ DurableAdd'
  <2> DEFINE cs == {c \in clients : clientNames[c] = n}
             call == [Idle EXCEPT !.op = "removeDB", !.name = n, !.conns = cs,
                        !.hit = ({t \in Tokens : managedByToken[t] = n} # {} \/ cs # {})]
  <2>1. call.op # "idle" /\ call.name \in Names
    BY DEF Idle
  <2>2. Begins(a, call) /\ db' = db
    BY <1>6 DEF RemoveIndex
  <2> HIDE DEF call
  <2> QED BY <2>1, <2>2, BeginsVerdict
<1>7. ASSUME NEW a \in ApiCalls, RemoveDB(a) PROVE VerdictInv' /\ DurableAdd'
  <2>1. api[a].name \in Names /\ verdict' = verdict
    BY <1>7, <1>a DEF RemoveDB, ApiInv
  <2>2. /\ \A b \in ApiCalls \ {a} : api'[b] = api[b]
        /\ api'[a].op = "removeClose" /\ api'[a].name = api[a].name
    BY <1>7, <1>a, RemoveDBCall
  <2>3. verdict[api[a].name] # "added"
    BY <2>1 DEF VerdictInv
  <2>4. VerdictInv'
    BY <2>1, <2>2 DEF VerdictInv
  <2>5. \A n \in Names \ {api[a].name} : db'[n] = db[n]
    BY <1>7, <1>a DEF RemoveDB, TypeOK
  <2>6. DurableAdd'
    BY <2>1, <2>3, <2>5 DEF DurableAdd
  <2> QED BY <2>4, <2>6
<1>8. ASSUME NEW a \in ApiCalls, RemoveClose(a) PROVE VerdictInv' /\ DurableAdd'
  <2>1. api[a].name \in Names
    BY <1>8, <1>a DEF RemoveClose, ApiInv
  <2> DEFINE result == IF api[a].hit THEN "removed" ELSE "none"
  <2>2. result \in {"none", "added", "failed", "removed"} /\ result # "added"
    OBVIOUS
  <2>3. Returns(a, result) /\ db' = db
    BY <1>8 DEF RemoveClose
  <2> HIDE DEF result
  <2> QED BY <2>1, <2>2, <2>3, ReturnsVerdict
<1>9. CASE Restart
  <2> USE <1>9 DEF Restart, Started
  <2>1. VerdictInv'
    BY DEF VerdictInv, Idle
  <2>2. \A n \in Names : db[n] # NoToken => db'[n] # NoToken
    BY DEF Seeded
  <2>3. \A n \in Names : verdict'[n] = "added" => verdict[n] = "added"
    OBVIOUS
  <2>4. DurableAdd'
    BY <2>2, <2>3 DEF DurableAdd
  <2> QED BY <2>1, <2>4
<1>10. \/ UNCHANGED <<db, api, verdict>>
       \/ \E a \in ApiCalls : ApiStep(a)
       \/ Restart
  <2>1. ASSUME NEW c \in Conns, HandlerStep(c) PROVE UNCHANGED <<db, api, verdict>>
    BY <2>1 DEF HandlerStep, LookupCache, DbHit, DbMiss, FillCache, Register, Answered,
         NewProxyRefused, NewProxyNoDataPort, NewProxyCreated, Disconnect
  <2> QED BY <2>1 DEF Next, Login, ReadNewProxy, PeerClose, KickClient, NotifyClientSync,
         CloseProxy, vars
<1> QED BY <1>1, <1>2, <1>3, <1>4, <1>5, <1>6, <1>7, <1>8, <1>9, <1>10 DEF ApiStep

\* A creation that was reported as successful, by a call no other call on the
\* name overlapped or followed, has its row: a crash of the server keeps it.
THEOREM AddsAreDurable == Spec => []DurableAdd
<1> QED BY InitIInv, NextIInv, InitVerdict, NextVerdict, PTL DEF Spec
=============================================================================
