---------------------------- MODULE ControlPlane ----------------------------
(***************************************************************************)
(* The control plane of the NexusLink server (src/cmd/server/main.go): the *)
(* goroutine of every control connection (handleClient and                 *)
(* handleControlMessages), the maps they share under s.mu (managedByToken, *)
(* clients, clientNames, proxies), the listening sockets of the tunnels,   *)
(* the `clients' table of the SQLite store, and the management calls of    *)
(* the Web panel and the open API.                                         *)
(*                                                                         *)
(* A step is one critical section of s.mu, one call of the store, or one   *)
(* unlocked access; what happens between two of them interleaves.          *)
(* Abstracted: addresses, log lines, webhooks, the bytes of a message (a   *)
(* login is its token, a NewProxy request is name, type and port), the     *)
(* quota and traffic fields of a client, TLS.                              *)
(***************************************************************************)
EXTENDS Naturals, FiniteSets

CONSTANTS
  Conns,          \* control connections; each gets a clientID of its own
  Names,          \* names of managed clients
  Default,        \* identity of a connection that logs in with the main token
  Tokens,         \* tokens a login may carry
  MainToken,      \* cfg.Token
  ConfigClients,  \* cfg.Clients as a function from Names, NoToken where absent
  ProxyNames,
  Types,          \* what a NewProxy message may name as its type
  Ports,
  AllowNames,     \* the proxy names matched by ProxyACL.AllowNames, {} if unset
  AllowPorts,     \* ProxyACL.AllowPorts, {} if unset
  ApiCalls,       \* goroutines serving management calls
  MaxApiCalls,    \* bound on Add/RemoveManagedClient calls of a behaviour
  MaxRestarts,    \* bound on crashes of the server process
  StoreMayFail,   \* whether a call of the store may return an error
  NoName, NoToken, NoProxy

Identities == Names \cup {Default}

ASSUME IdentityAssumption ==
  /\ Default \notin Names
  /\ NoName \notin Identities

ASSUME TokenAssumption ==
  /\ MainToken \in Tokens
  /\ NoToken \notin Tokens
  /\ ConfigClients \in [Names -> Tokens \cup {NoToken}]
  /\ \A m, n \in Names : ConfigClients[m] = ConfigClients[n]
                           => m = n \/ ConfigClients[m] = NoToken

ASSUME BoundAssumption ==
  MaxApiCalls \in Nat /\ MaxRestarts \in Nat /\ StoreMayFail \in BOOLEAN

\* The record behind s.proxies[name].
Proxy == [owner : Conns, clientName : Identities, type : Types,
          port : Ports, auth : Tokens]

\* A NewProxy message, as read from the control connection.
Requests == [name : ProxyNames, type : Types, port : Ports]

ASSUME ProxyAssumption == NoProxy \notin Proxy \cup Requests

VARIABLES
  db,             \* clients table: name -> token, NoToken if there is no row
  managedByToken, \* in-memory index: token -> name, NoName if absent
  clients,        \* s.clients: registered connections
  clientNames,    \* s.clientNames: connection -> identity, NoName if absent
  proxies,        \* s.proxies: name -> record, NoProxy if absent
  sockets,        \* open public listeners, as <<type, port>>
  dataSockets,    \* proxies whose data-channel socket is open
  pc,             \* where the goroutine of each connection is
  token,          \* the token of its Login message
  name,           \* its local variable clientName
  open,           \* FALSE once either side has closed the connection
  request,        \* the NewProxy message being handled
  api,            \* the management call of each API goroutine
  apiLeft,        \* calls still allowed
  restartsLeft,   \* crashes still allowed
  issued,         \* history: every <<name, token>> ever configured or added
  verdict         \* history: outcome of the last finished call on each name

store    == <<db, managedByToken>>
runtime  == <<clients, clientNames, proxies, sockets, dataSockets>>
handlers == <<pc, token, name, open, request>>
calls    == <<api, apiLeft>>
history  == <<issued, verdict>>
vars     == <<store, runtime, handlers, calls, restartsLeft, history>>

Idle == [op |-> "idle", name |-> NoName, token |-> NoToken, conns |-> {},
         hit |-> FALSE]
ApiStates == [op : {"idle", "addDB", "removeDB", "removeClose"},
              name : Names \cup {NoName}, token : Tokens \cup {NoToken},
              conns : SUBSET Conns, hit : BOOLEAN]

-----------------------------------------------------------------------------
(* Start of the process.  The configured clients are written to the table  *)
(* where their name has no row (an insert whose token is taken fails), and *)
(* the index is built from the table.                                      *)

Seeded(d) ==
  [n \in Names |->
     IF d[n] = NoToken /\ (\A m \in Names : d[m] # ConfigClients[n])
     THEN ConfigClients[n] ELSE d[n]]

IndexOf(d) ==
  [t \in Tokens |-> IF \E n \in Names : d[n] = t
                    THEN CHOOSE n \in Names : d[n] = t ELSE NoName]

Pairs(d) == {<<n, d[n]>> : n \in {m \in Names : d[m] # NoToken}}

\* The memory of a process that has just started, given the table.
Started(d) ==
  /\ db' = Seeded(d)
  /\ managedByToken' = IndexOf(Seeded(d))
  /\ clients' = {}
  /\ clientNames' = [c \in Conns |-> NoName]
  /\ proxies' = [p \in ProxyNames |-> NoProxy]
  /\ sockets' = {}
  /\ dataSockets' = {}
  /\ api' = [a \in ApiCalls |-> Idle]

NoRows == [n \in Names |-> NoToken]

Init ==
  /\ db = Seeded(NoRows)
  /\ managedByToken = IndexOf(Seeded(NoRows))
  /\ clients = {}
  /\ clientNames = [c \in Conns |-> NoName]
  /\ proxies = [p \in ProxyNames |-> NoProxy]
  /\ sockets = {}
  /\ dataSockets = {}
  /\ pc = [c \in Conns |-> "off"]
  /\ token = [c \in Conns |-> NoToken]
  /\ name = [c \in Conns |-> NoName]
  /\ open = [c \in Conns |-> FALSE]
  /\ request = [c \in Conns |-> NoProxy]
  /\ api = [a \in ApiCalls |-> Idle]
  /\ apiLeft = MaxApiCalls
  /\ restartsLeft = MaxRestarts
  /\ issued = Pairs(Seeded(NoRows))
  /\ verdict = [n \in Names |-> "none"]

-----------------------------------------------------------------------------
(* handleClient: authentication of one control connection.                 *)

\* A connection has passed ConnGuard and its first message is a Login.
Login(c, t) ==
  /\ pc[c] = "off"
  /\ pc' = [pc EXCEPT ![c] = "cache"]
  /\ token' = [token EXCEPT ![c] = t]
  /\ open' = [open EXCEPT ![c] = TRUE]
  /\ UNCHANGED <<store, runtime, name, request, calls, restartsLeft, history>>

\* The in-memory index is read without s.mu.
LookupCache(c) ==
  /\ pc[c] = "cache"
  /\ LET hit == managedByToken[token[c]] # NoName IN
       /\ pc' = [pc EXCEPT ![c] = IF hit THEN "register" ELSE "db"]
       /\ name' = [name EXCEPT ![c] = managedByToken[token[c]]]
  /\ UNCHANGED <<store, runtime, token, open, request, calls, restartsLeft, history>>

\* GetClientByToken; its error is dropped, so a failed query is a miss.
DbHit(c, n) ==
  /\ pc[c] = "db"
  /\ db[n] = token[c]
  /\ pc' = [pc EXCEPT ![c] = "fill"]
  /\ name' = [name EXCEPT ![c] = n]
  /\ UNCHANGED <<store, runtime, token, open, request, calls, restartsLeft, history>>

\* Mutant of IsMainToken: the fallback comparison is lost.
IsAnyToken(t) == t \in Tokens

\* The constant-time comparison with cfg.Token.
IsMainToken(t) == t = MainToken

\* No row: only the main token is accepted, any other closes the connection.
DbMiss(c) ==
  /\ pc[c] = "db"
  /\ StoreMayFail \/ \A n \in Names : db[n] # token[c]
  /\ LET main == IsMainToken(token[c]) IN
       /\ pc' = [pc EXCEPT ![c] = IF main THEN "register" ELSE "done"]
       /\ name' = [name EXCEPT ![c] = IF main THEN Default ELSE NoName]
       /\ open' = [open EXCEPT ![c] = main /\ @]
  /\ UNCHANGED <<store, runtime, token, request, calls, restartsLeft, history>>

\* The row is copied to the index, whatever happened to it since it was read.
FillCache(c) ==
  /\ pc[c] = "fill"
  /\ managedByToken' = [managedByToken EXCEPT ![token[c]] = name[c]]
  /\ pc' = [pc EXCEPT ![c] = "register"]
  /\ UNCHANGED <<db, runtime, token, name, open, request, calls, restartsLeft, history>>

\* LoginResp is sent (its error is ignored) and the connection registered.
Register(c) ==
  /\ pc[c] = "register"
  /\ clients' = clients \cup {c}
  /\ clientNames' = [clientNames EXCEPT ![c] = name[c]]
  /\ pc' = [pc EXCEPT ![c] = "serve"]
  /\ UNCHANGED <<store, proxies, sockets, dataSockets, token, name, open, request,
                 calls, restartsLeft, history>>

-----------------------------------------------------------------------------
(* handleControlMessages: the tunnels of one registered connection.        *)

\* Mutant of ClientNameFor: the early return of the nil map, always taken.
ClientNameForDefault(c) == IF c \in Conns THEN Default ELSE NoName

\* clientNameForLocked
ClientNameFor(c) == IF clientNames[c] = NoName THEN Default ELSE clientNames[c]

\* Mutant of AuthFor: the first managed token found, whoever it belongs to.
AuthForAnyone(n) ==
  LET managed == {t \in Tokens : managedByToken[t] # NoName} IN
  IF n # Default /\ managed # {} THEN managed ELSE {MainToken}

\* Mutant of AuthFor: no authenticator for a client that is not managed.
AuthForUnset(n) ==
  LET managed == {t \in Tokens : managedByToken[t] = n} IN
  IF n # Default /\ managed # {} THEN managed ELSE {NoToken}

\* authForClientLocked: the tokens whose HMAC a new tunnel of n may be given.
\* The index is searched in map order; a name that is not in it gets the
\* main token.
AuthFor(n) ==
  LET managed == {t \in Tokens : managedByToken[t] = n} IN
  IF n # Default /\ managed # {} THEN managed ELSE {MainToken}

\* proxyAllowed
Allowed(r) ==
  /\ AllowNames = {} \/ r.name \in AllowNames
  /\ AllowPorts = {} \/ r.port \in AllowPorts

Registered == {p \in ProxyNames : proxies[p] # NoProxy}
Endpoint(r) == <<r.type, r.port>>

\* Mutant of cleanupProxy: the public listener is left open.
cleanupProxyKeepListener(ps) ==
  /\ proxies' = [p \in ProxyNames |-> IF p \in ps THEN NoProxy ELSE proxies[p]]
  /\ sockets' = sockets
  /\ dataSockets' = dataSockets \ ps

\* cleanupProxy on every proxy of ps: close its sockets, forget it.
cleanupProxy(ps) ==
  /\ proxies' = [p \in ProxyNames |-> IF p \in ps THEN NoProxy ELSE proxies[p]]
  /\ sockets' = sockets \ {Endpoint(proxies[p]) : p \in ps}
  /\ dataSockets' = dataSockets \ ps

ReadNewProxy(c, r) ==
  /\ pc[c] = "serve"
  /\ open[c]
  /\ pc' = [pc EXCEPT ![c] = "newproxy"]
  /\ request' = [request EXCEPT ![c] = r]
  /\ UNCHANGED <<store, runtime, token, name, open, calls, restartsLeft, history>>

\* The handler answers the request and goes back to reading.
Answered(c) ==
  /\ pc[c] = "newproxy"
  /\ pc' = [pc EXCEPT ![c] = "serve"]
  /\ request' = [request EXCEPT ![c] = NoProxy]
  /\ UNCHANGED <<store, clients, clientNames, token, name, open, calls,
                 restartsLeft, history>>

\* The conditions under which the public listener is opened.
Creatable(r) ==
  /\ Allowed(r)
  /\ r.name \notin Registered
  /\ r.type \in {"tcp", "udp"}
  /\ Endpoint(r) \notin sockets

\* Refused by the ACL, by name or by type, or the public port cannot be
\* bound (which the operating system may also decide for its own reasons).
NewProxyRefused(c) ==
  /\ Answered(c)
  /\ UNCHANGED <<proxies, sockets, dataSockets>>

\* Mutant of SocketsAfterDataFailure: the early return forgets ln.Close().
SocketsKept(r) == sockets \cup {Endpoint(r)}

\* The public listener was opened; it is closed again when the data
\* listener cannot be.
SocketsAfterDataFailure(r) == (sockets \cup {Endpoint(r)}) \ {Endpoint(r)}

NewProxyNoDataPort(c) ==
  /\ Answered(c)
  /\ Creatable(request[c])
  /\ sockets' = SocketsAfterDataFailure(request[c])
  /\ UNCHANGED <<proxies, dataSockets>>

NewProxyCreated(c) ==
  LET r == request[c] IN
  /\ Answered(c)
  /\ Creatable(r)
  /\ \E t \in AuthFor(ClientNameFor(c)) :
       proxies' = [proxies EXCEPT ![r.name] =
                     [owner |-> c, clientName |-> ClientNameFor(c),
                      type |-> r.type, port |-> r.port, auth |-> t]]
  /\ sockets' = sockets \cup {Endpoint(r)}
  /\ dataSockets' = dataSockets \cup {r.name}

\* The peer, or the network, is gone and all that it sent has been read.
PeerClose(c) ==
  /\ open[c]
  /\ open' = [open EXCEPT ![c] = FALSE]
  /\ UNCHANGED <<store, runtime, pc, token, name, request, calls, restartsLeft, history>>

\* Mutant of OwnedBy: tunnels are matched by client name, not by connection.
OwnedByName(c) ==
  {p \in Registered : proxies[p].clientName = ClientNameFor(c)}

OwnedBy(c) == {p \in Registered : proxies[p].owner = c}

\* Mutant of Disconnect: the connection is forgotten, its proxies are not.
DisconnectKeepsProxies(c) ==
  /\ pc[c] = "serve"
  /\ ~open[c]
  /\ cleanupProxy({})
  /\ clients' = clients \ {c}
  /\ pc' = [pc EXCEPT ![c] = "done"]
  /\ UNCHANGED <<store, clientNames, token, name, open, request, calls, restartsLeft,
                 history>>

\* ReadMessage fails: the connection's own proxies are cleaned up and it is
\* removed from clients; clientNames keeps its entry.
Disconnect(c) ==
  /\ pc[c] = "serve"
  /\ ~open[c]
  /\ cleanupProxy(OwnedBy(c))
  /\ clients' = clients \ {c}
  /\ pc' = [pc EXCEPT ![c] = "done"]
  /\ UNCHANGED <<store, clientNames, token, name, open, request, calls, restartsLeft,
                 history>>

-----------------------------------------------------------------------------
(* Management calls of the Web panel and the open API.                     *)

\* KickClient: the connection is closed, its goroutine does the rest.
KickClient(c) ==
  /\ c \in clients
  /\ open[c]
  /\ open' = [open EXCEPT ![c] = FALSE]
  /\ UNCHANGED <<store, runtime, pc, token, name, request, calls, restartsLeft, history>>

\* NotifyClientSync: one connection of the client, the first in map order,
\* is closed so that it reconnects and synchronises its tunnels.
NotifyClientSync(n) ==
  \E c \in clients : clientNames[c] = n /\ KickClient(c)

\* CloseProxy: the client is told, the sockets are closed.
CloseProxy(p) ==
  /\ p \in Registered
  /\ cleanupProxy({p})
  /\ UNCHANGED <<store, clients, clientNames, handlers, calls, restartsLeft, history>>

Busy(n) == \E a \in ApiCalls : api[a].name = n

\* A call on n starts: what earlier calls returned is no longer the last word.
Begins(a, call) ==
  /\ api[a] = Idle
  /\ apiLeft > 0
  /\ apiLeft' = apiLeft - 1
  /\ api' = [api EXCEPT ![a] = call]
  /\ verdict' = [verdict EXCEPT ![call.name] =
                   IF Busy(call.name) THEN "overlap" ELSE "none"]

\* The call returns; its result counts only if no other call on n overlapped.
Returns(a, result) ==
  LET n == api[a].name IN
  /\ api' = [api EXCEPT ![a] = Idle]
  /\ apiLeft' = apiLeft
  /\ verdict' = [verdict EXCEPT ![n] =
                   IF @ # "overlap" THEN result
                   ELSE IF \E b \in ApiCalls \ {a} : api[b].name = n
                   THEN "overlap" ELSE "none"]

\* AddManagedClientWithOwner, under s.mu: name and token must be new to the
\* index, which gets the pair before the table does.
AddIndex(a, n, t) ==
  /\ \A u \in Tokens : managedByToken[u] # n
  /\ managedByToken[t] = NoName
  /\ managedByToken' = [managedByToken EXCEPT ![t] = n]
  /\ Begins(a, [Idle EXCEPT !.op = "addDB", !.name = n, !.token = t])
  /\ issued' = issued \cup {<<n, t>>}
  /\ UNCHANGED <<db, runtime, handlers, restartsLeft>>

\* Mutant of AddFailure: the error of the insert is dropped.
AddFailureDropped == "added"

\* What the caller is told when the row cannot be written.
AddFailure == "failed"

\* The row is there already: only its quota is updated, its token stays.
AddFound(a) ==
  /\ api[a].op = "addDB"
  /\ db[api[a].name] # NoToken
  /\ Returns(a, "added")
  /\ UNCHANGED <<store, runtime, handlers, restartsLeft, issued>>

AddInsert(a) ==
  /\ api[a].op = "addDB"
  /\ db[api[a].name] = NoToken
  /\ \A n \in Names : db[n] # api[a].token
  /\ db' = [db EXCEPT ![api[a].name] = api[a].token]
  /\ Returns(a, "added")
  /\ UNCHANGED <<managedByToken, runtime, handlers, restartsLeft, issued>>

\* The insert fails (a UNIQUE constraint, an error of the store): the caller
\* gets the error and the index keeps the pair.
AddFails(a) ==
  /\ api[a].op = "addDB"
  /\ \/ StoreMayFail
     \/ db[api[a].name] = NoToken /\ \E n \in Names : db[n] = api[a].token
  /\ Returns(a, AddFailure)
  /\ UNCHANGED <<store, runtime, handlers, restartsLeft, issued>>

\* RemoveManagedClient, under s.mu: one index entry of that name is deleted
\* and the connections registered under it are collected.
RemoveIndex(a, n) ==
  LET ts == {t \in Tokens : managedByToken[t] = n}
      cs == {c \in clients : clientNames[c] = n}
      call == [Idle EXCEPT !.op = "removeDB", !.name = n, !.conns = cs,
                           !.hit = (ts # {} \/ cs # {})]
  IN
  /\ \/ ts = {} /\ managedByToken' = managedByToken
     \/ \E t \in ts : managedByToken' = [managedByToken EXCEPT ![t] = NoName]
  /\ Begins(a, call)
  /\ UNCHANGED <<db, runtime, handlers, restartsLeft, issued>>

\* DeleteClient; its error is dropped.
RemoveDB(a) ==
  /\ api[a].op = "removeDB"
  /\ \E ok \in BOOLEAN :
       /\ ok \/ StoreMayFail
       /\ db' = IF ok THEN [db EXCEPT ![api[a].name] = NoToken] ELSE db
       /\ api' = [api EXCEPT ![a] =
                    [api[a] EXCEPT !.op = "removeClose",
                       !.hit = api[a].hit \/ (ok /\ db[api[a].name] # NoToken)]]
  /\ UNCHANGED <<managedByToken, runtime, handlers, apiLeft, restartsLeft, history>>

\* The collected connections are closed.
RemoveClose(a) ==
  /\ api[a].op = "removeClose"
  /\ open' = [c \in Conns |-> open[c] /\ c \notin api[a].conns]
  /\ Returns(a, IF api[a].hit THEN "removed" ELSE "none")
  /\ UNCHANGED <<store, runtime, pc, token, name, request, restartsLeft, issued>>

\* The process dies and is started again: memory and connections are gone.
Restart ==
  /\ restartsLeft > 0
  /\ restartsLeft' = restartsLeft - 1
  /\ Started(db)
  /\ pc' = [c \in Conns |-> IF pc[c] = "off" THEN "off" ELSE "done"]
  /\ open' = [c \in Conns |-> FALSE]
  /\ request' = [c \in Conns |-> NoProxy]
  /\ verdict' = [n \in Names |-> IF Busy(n) THEN "none" ELSE verdict[n]]
  /\ issued' = issued \cup Pairs(Seeded(db))
  /\ UNCHANGED <<token, name, apiLeft>>

-----------------------------------------------------------------------------
\* What the goroutine of connection c does by itself.
HandlerStep(c) ==
  \/ LookupCache(c) \/ (\E n \in Names : DbHit(c, n)) \/ DbMiss(c)
  \/ FillCache(c) \/ Register(c)
  \/ NewProxyRefused(c) \/ NewProxyNoDataPort(c) \/ NewProxyCreated(c)
  \/ Disconnect(c)

ApiStep(a) ==
  \/ \E n \in Names, t \in Tokens : AddIndex(a, n, t)
  \/ AddFound(a) \/ AddInsert(a) \/ AddFails(a)
  \/ \E n \in Names : RemoveIndex(a, n)
  \/ RemoveDB(a) \/ RemoveClose(a)

Next ==
  \/ \E c \in Conns :
       \/ HandlerStep(c)
       \/ \E t \in Tokens : Login(c, t)
       \/ \E r \in Requests : ReadNewProxy(c, r)
       \/ PeerClose(c)
       \/ KickClient(c)
  \/ \E n \in Identities : NotifyClientSync(n)
  \/ \E p \in ProxyNames : CloseProxy(p)
  \/ \E a \in ApiCalls : ApiStep(a)
  \/ Restart

Spec == Init /\ [][Next]_vars

\* The goroutine of a connection is scheduled and s.mu is starvation-free.
FairSpec == Spec /\ \A c \in Conns : WF_vars(HandlerStep(c))

-----------------------------------------------------------------------------
(* Properties.                                                             *)

\* The type of every variable.
TypeOK ==
  /\ db \in [Names -> Tokens \cup {NoToken}]
  /\ managedByToken \in [Tokens -> Names \cup {NoName}]
  /\ clients \in SUBSET Conns
  /\ clientNames \in [Conns -> Identities \cup {NoName}]
  /\ proxies \in [ProxyNames -> Proxy \cup {NoProxy}]
  /\ sockets \in SUBSET (Types \X Ports)
  /\ dataSockets \in SUBSET ProxyNames
  /\ pc \in [Conns -> {"off", "cache", "db", "fill", "register", "serve",
                       "newproxy", "done"}]
  /\ token \in [Conns -> Tokens \cup {NoToken}]
  /\ name \in [Conns -> Identities \cup {NoName}]
  /\ open \in [Conns -> BOOLEAN]
  /\ request \in [Conns -> Requests \cup {NoProxy}]
  /\ api \in [ApiCalls -> ApiStates]
  /\ apiLeft \in Nat
  /\ restartsLeft \in Nat
  /\ issued \in SUBSET (Names \X Tokens)
  /\ verdict \in [Names -> {"none", "added", "failed", "removed", "overlap"}]

\* The connections whose goroutine is in handleControlMessages.
Serving == {c \in Conns : pc[c] \in {"serve", "newproxy"}}

\* Every tunnel in s.proxies belongs to a connection that is registered and
\* still being served, and its traffic is booked on the identity that
\* connection logged in with: whatever the order in which kicks, closes and
\* pending NewProxy requests are handled, no tunnel outlives its owner.
TunnelsOwned ==
  \A p \in Registered :
    /\ proxies[p].owner \in clients \cap Serving
    /\ proxies[p].clientName = name[proxies[p].owner]

\* The sockets the server holds are exactly those of the tunnels in
\* s.proxies, and no two tunnels share a public endpoint: no path of
\* handleNewProxy or of a cleanup leaks a listener or closes another's.
SocketsExact ==
  /\ sockets = {Endpoint(proxies[p]) : p \in Registered}
  /\ dataSockets = Registered
  /\ \A p, q \in Registered :
       Endpoint(proxies[p]) = Endpoint(proxies[q]) => p = q

\* Isolation of the connections ("multi-client isolation", main.go 572): a
\* tunnel is never taken over, and it only goes when the connection that
\* owns it goes or when it alone is closed through CloseProxy.
TunnelIsolationStep ==
  LET gone == {p \in Registered : proxies'[p] # proxies[p]} IN
  \A p \in gone :
    /\ proxies'[p] = NoProxy
    /\ proxies[p].owner \notin clients' \/ (gone = {p} /\ clients' = clients)

TunnelIsolation == [][TunnelIsolationStep]_vars

\* A registered connection has the identity of the credential it presented:
\* the main token for Default, and for a managed client a pair that was
\* configured or added, however stale the index was when it was read.
RegisteredAuthentic ==
  \A c \in clients :
    \/ clientNames[c] = Default /\ token[c] = MainToken
    \/ <<clientNames[c], token[c]>> \in issued

\* The data channel of a managed client's tunnel is never keyed with the
\* token of another managed client (README 46: an HMAC per client token).
TenantAuthIsolation ==
  \A p \in Registered :
    \/ proxies[p].auth = MainToken
    \/ <<proxies[p].clientName, proxies[p].auth>> \in issued

\* A client whose creation was reported as successful, by a call that no
\* other call on the name overlapped and that no later call followed, has
\* its row, so that it survives a crash of the server.
DurableAdd ==
  \A n \in Names : verdict[n] = "added" => db[n] # NoToken

\* A connection that was closed (kick, removal, peer, network) while its
\* goroutine was at work leaves the registry with all of its tunnels.
ClosedIsCleanedUp ==
  \A c \in Conns :
    (pc[c] # "off" /\ ~open[c]) ~> (c \notin clients /\ OwnedBy(c) = {})

\* "RemoveManagedClient ... and kick it offline" (main.go 1330): after a
\* removal was reported and nothing else was done to the name, no open
\* connection is registered under it.
RemovedClientOffline ==
  \A n \in Names : verdict[n] = "removed" =>
    \A c \in clients : clientNames[c] = n => ~open[c]

\* "delete the row first, then clear the index" (main.go 1331): after a
\* reported removal the index no longer maps a token to the name.
RemovedTokenRevoked ==
  \A n \in Names : verdict[n] = "removed" =>
    \A t \in Tokens : managedByToken[t] # n

\* ListClientsTraffic: the set of names reported with Connected = true.
ConnectedSet == {clientNames[c] : c \in Conns} \ {NoName}

\* "online state ... computed dynamically" (main.go 1215): a client that is
\* reported as connected has a registered connection.
OnlineIsConnected ==
  \A n \in ConnectedSet : \E c \in clients : clientNames[c] = n

=============================================================================
