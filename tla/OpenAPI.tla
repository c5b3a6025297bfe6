------------------------------- MODULE OpenAPI -------------------------------
(***************************************************************************)
(* The open API /api/v1 (src/pkg/web/server.go) on the tables users,       *)
(* api_keys, clients and proxies (src/pkg/store/store.go), with the        *)
(* clients that take their tunnels from the table (handleSyncProxies,      *)
(* NotifyClientSync and CloseProxy in src/cmd/server/main.go).             *)
(*                                                                         *)
(* A request is a goroutine that takes one step per statement it sends to  *)
(* the database, per access to the map of keys and per call of the server. *)
(* Statements are atomic and may fail; nothing holds a lock from one to    *)
(* the next.  The map of keys has no lock either: two accesses at once may *)
(* end the process, which Restart covers.                                  *)
(* Abstracted: the fields of a tunnel but `enabled', passwords and roles   *)
(* of users (no decision reads a role), traffic quotas (Traffic), the      *)
(* steps inside the management of clients and of a registration            *)
(* (ControlPlane), requests that only read.                                *)
(***************************************************************************)
EXTENDS Naturals, FiniteSets

CONSTANTS
  Users, Clients, Names, Keys, Requests,
  Tunnels,       \* pairs <<client, name>> that requests may create
  Databases,     \* the sets of tunnels that the database may hold at first
  Inputs,        \* the operations that are asked for
  ConfigKeys,    \* api_keys of server.yaml
  Owner,         \* client -> the user it belongs to at first, or Nobody
  Limits,        \* max_tunnels a client may be created with; 0 is no limit
  Nobody,        \* no user: the owner of what an administrator creates
  None,          \* no row, no tunnel, no list
  MaxCalls, MaxFaults   \* bounds

ASSUME TunnelsAssumption == Tunnels \subseteq Clients \X Names
ASSUME DatabasesAssumption == Databases \subseteq SUBSET Tunnels
ASSUME ConfigAssumption == ConfigKeys \subseteq Keys
ASSUME OwnerAssumption == Owner \in [Clients -> Users \cup {Nobody}] /\ Nobody \notin Users
ASSUME LimitAssumption == Limits \subseteq Nat
ASSUME BoundAssumption == MaxCalls \in Nat /\ MaxFaults \in Nat
ASSUME FiniteAssumption == IsFiniteSet(Tunnels) /\ IsFiniteSet(Requests)

VARIABLES
  keyTable,   \* table api_keys
  apiKeys,    \* ws.apiKeys, the keys in memory
  users,      \* table users: user -> [active, token], or None
  clients,    \* table clients: client -> [owner, max], or None
  rows,       \* table proxies: <<client, name>> -> enabled, or None
  running,    \* s.proxies: name -> the connection that owns the tunnel, or None
  conn,       \* control connection -> "off", "on", "lost" (the client has gone and
              \* the server has not noticed), "closing"
  list,       \* connection -> the names told and not yet registered, or None
  req,        \* request -> where it is, who it is, what it was asked and has read
  tokens,     \* tokens issued so far
  calls,
  faults,     \* connections lost, restarts and errors of the store so far
  keyRaced,   \* history: keys that two requests were changing at once
  lifted,     \* history: clients with tunnels that were not counted: enabled again,
              \* older than the client, over its limit at first, or created while
              \* the limit or the count could not be read
  overlapped, \* history: clients two of whose tunnels were being created at once
  missed      \* history: clients not told of a change: the wrong one of two connections
              \* was closed, or another client was told, whose tunnel has the same name

keys     == <<keyTable, apiKeys, keyRaced>>
accounts == <<users, tokens>>
tunnels  == <<rows, lifted, overlapped>>
server   == <<running, conn, list, missed>>
vars     == <<keys, accounts, clients, tunnels, server, req, calls, faults>>

\* A client has one connection at a time; the server may still hold an
\* older one.
Conns == Clients \X {1, 2}

ASSUME NoneAssumption == None \notin Conns

Idle == [at |-> "idle"]
Admin == [admin |-> TRUE, user |-> Nobody]

\* ListProxiesByClient: the enabled ones.
Enabled(c) == {t \in Tunnels : t[1] = c /\ rows[t] = TRUE}

Init ==
  /\ keyTable = ConfigKeys
  /\ apiKeys = ConfigKeys
  /\ users = [u \in Users |-> [active |-> TRUE, token |-> 0]]
  /\ tokens = 0
  /\ clients \in {[c \in Clients |-> [owner |-> Owner[c], max |-> m]] : m \in Limits}
  /\ rows \in {[t \in Tunnels |-> IF t \in D THEN TRUE ELSE None] : D \in Databases}
  /\ running = [n \in Names |-> None]
  /\ conn = [k \in Conns |-> "off"]
  /\ list = [k \in Conns |-> None]
  /\ req = [r \in Requests |-> Idle]
  /\ calls = 0
  /\ faults = 0
  /\ keyRaced = {}
  /\ lifted = {c \in Clients : Cardinality(Enabled(c)) > clients[c].max}
  /\ overlapped = {}
  /\ missed = {}

-----------------------------------------------------------------------------
(* apiKeyMiddleware: who is calling?  A credential is a key or the token   *)
(* <<user, number>>.                                                       *)

Goes(r, from, to) ==
  /\ req[r].at = from
  /\ req' = [req EXCEPT ![r] = to]
  /\ UNCHANGED <<calls, faults>>

Admitted(op, id) == [at |-> op.op, id |-> id, arg |-> op]

\* Requests are alike: the first free one stands for any.
Free(r) == req[r] = Idle /\ r = CHOOSE q \in Requests : req[q] = Idle

\* The key is looked up in the table: an administrator.
KeyCall(r, k, op) ==
  /\ calls < MaxCalls
  /\ calls' = calls + 1
  /\ Free(r)
  /\ req' = [req EXCEPT ![r] = IF k \in keyTable THEN Admitted(op, Admin)
                               ELSE [at |-> "map", key |-> k, arg |-> op]]
  /\ UNCHANGED <<keys, accounts, clients, tunnels, server, faults>>

\* Not there: it is no token either, and the map in memory decides.
MapDecides(r) ==
  /\ Goes(r, "map", IF req[r].key \in apiKeys THEN Admitted(req[r].arg, Admin) ELSE Idle)
  /\ UNCHANGED <<keys, accounts, clients, tunnels, server>>

\* GetUserByToken, of active users only; a token that was replaced is no
\* longer anyone's.
TokenCall(r, u, n, op) ==
  /\ calls < MaxCalls
  /\ calls' = calls + 1
  /\ Free(r)
  /\ users[u] # None
  /\ users[u].active
  /\ users[u].token = n
  /\ req' = [req EXCEPT ![r] = Admitted(op, [admin |-> FALSE, user |-> u])]
  /\ UNCHANGED <<keys, accounts, clients, tunnels, server, faults>>

-----------------------------------------------------------------------------
(* v1HandleAPIKeys and v1HandleAPIKeyPath: the table, then the map.        *)

KeyWriters(k) == {r \in Requests : req[r].at \in {"mapKey", "unmapKey"} /\ req[r].key = k}

AddAPIKey(r) ==
  /\ req[r].at = "addKey"
  /\ LET k == req[r].arg.key IN
       IF k \in keyTable THEN Goes(r, "addKey", Idle) /\ UNCHANGED <<keyTable, keyRaced>>
       ELSE /\ Goes(r, "addKey", [at |-> "mapKey", key |-> k])
            /\ keyTable' = keyTable \cup {k}
            /\ keyRaced' = IF KeyWriters(k) = {} THEN keyRaced ELSE keyRaced \cup {k}
  /\ UNCHANGED <<apiKeys, accounts, clients, tunnels, server>>

MapKey(r) ==
  /\ Goes(r, "mapKey", Idle)
  /\ apiKeys' = apiKeys \cup {req[r].key}
  /\ UNCHANGED <<keyTable, keyRaced, accounts, clients, tunnels, server>>

DeleteAPIKey(r) ==
  /\ req[r].at = "deleteKey"
  /\ LET k == req[r].arg.key IN
       IF k \notin keyTable THEN Goes(r, "deleteKey", Idle) /\ UNCHANGED <<keyTable, keyRaced>>
       ELSE /\ Goes(r, "deleteKey", [at |-> "unmapKey", key |-> k])
            /\ keyTable' = keyTable \ {k}
            /\ keyRaced' = IF KeyWriters(k) = {} THEN keyRaced ELSE keyRaced \cup {k}
  /\ UNCHANGED <<apiKeys, accounts, clients, tunnels, server>>

\* Mutant of Unmapped: the key is only deleted from the table.
UnmappedNot(k) == apiKeys \cup ({k} \cap apiKeys)

Unmapped(k) == apiKeys \ {k}

UnmapKey(r) ==
  /\ Goes(r, "unmapKey", Idle)
  /\ apiKeys' = Unmapped(req[r].key)
  /\ UNCHANGED <<keyTable, keyRaced, accounts, clients, tunnels, server>>

-----------------------------------------------------------------------------
(* v1HandleUsers and v1HandleUserPath: one statement each.                 *)

UserStatement(r, op, allowed, new) ==
  /\ Goes(r, op, Idle)
  /\ users' = IF allowed THEN [users EXCEPT ![req[r].arg.user] = new] ELSE users
  /\ UNCHANGED <<keys, clients, tunnels, server>>

CreateUser(r) ==
  /\ req[r].at = "createUser"
  /\ tokens' = tokens + 1
  /\ UserStatement(r, "createUser", req[r].id.admin /\ users[req[r].arg.user] = None,
                   [active |-> TRUE, token |-> tokens'])

\* The clients of the user stay, with their owner's name.
DeleteUser(r) ==
  /\ req[r].at = "deleteUser"
  /\ UserStatement(r, "deleteUser", req[r].id.admin, None)
  /\ UNCHANGED tokens

SetUserStatus(r) ==
  /\ req[r].at = "setStatus"
  /\ LET u == req[r].arg.user IN
       UserStatement(r, "setStatus", req[r].id.admin /\ users[u] # None,
                     [active |-> req[r].arg.active, token |-> users[u].token])
  /\ UNCHANGED tokens

\* The administrator, or the user himself.
ResetUserToken(r) ==
  /\ req[r].at = "resetToken"
  /\ tokens' = tokens + 1
  /\ LET u == req[r].arg.user IN
       UserStatement(r, "resetToken",
                     (req[r].id.admin \/ req[r].id.user = u) /\ users[u] # None,
                     [active |-> users[u].active, token |-> tokens'])

-----------------------------------------------------------------------------
(* v1HandleClients and v1HandleClientPath.                                 *)

canAccessClient(r, c) ==
  \/ req[r].id.admin
  \/ clients[c] # None /\ clients[c].owner = req[r].id.user

\* Rows of the table proxies under that name are not looked at.
AddManagedClient(r) ==
  /\ req[r].at = "addClient"
  /\ Goes(r, "addClient", Idle)
  /\ LET c == req[r].arg.client IN
       IF clients[c] # None THEN UNCHANGED <<clients, lifted>>
       ELSE /\ clients' = [clients EXCEPT ![c] = [owner |-> req[r].id.user, max |-> req[r].arg.max]]
            /\ lifted' = lifted \cup {c}
  /\ UNCHANGED <<keys, accounts, rows, overlapped, server>>

RemoveAccess(r) ==
  /\ req[r].at = "removeClient"
  /\ Goes(r, "removeClient", IF canAccessClient(r, req[r].arg.client)
                             THEN [at |-> "remove", client |-> req[r].arg.client] ELSE Idle)
  /\ UNCHANGED <<keys, accounts, clients, tunnels, server>>

\* The connections of a client in the map s.clients.  One that is closing stays
\* there until the end of handleControlMessages.
Held(c) == {k \in Conns : k[1] = c /\ conn[k] # "off"}

CloseHeld(c) == conn' = [k \in Conns |-> IF k \in Held(c) THEN "closing" ELSE conn[k]]

\* RemoveManagedClient: all connections; its rows in the table proxies stay.
RemoveManagedClient(r) ==
  /\ req[r].at = "remove"
  /\ Goes(r, "remove", Idle)
  /\ clients' = [clients EXCEPT ![req[r].client] = None]
  /\ CloseHeld(req[r].client)
  /\ UNCHANGED <<keys, accounts, tunnels, running, list, missed>>

-----------------------------------------------------------------------------
(* v1HandleProxies, POST: access, limit, count, insert, notification.      *)

CreateAccess(r) ==
  /\ req[r].at = "create"
  /\ Goes(r, "create", IF canAccessClient(r, req[r].arg.tunnel[1])
                       THEN [at |-> "limit", tunnel |-> req[r].arg.tunnel] ELSE Idle)
  /\ UNCHANGED <<keys, accounts, clients, tunnels, server>>

\* An administrator may create a tunnel for a client that does not exist.
CreateLimit(r) ==
  /\ req[r].at = "limit"
  /\ LET t == req[r].tunnel
         limit == IF clients[t[1]] = None THEN 0 ELSE clients[t[1]].max
     IN Goes(r, "limit", IF limit = 0 THEN [at |-> "insert", tunnel |-> t]
                         ELSE [at |-> "count", tunnel |-> t, limit |-> limit])
  /\ UNCHANGED <<keys, accounts, clients, tunnels, server>>

\* Mutant of AtLimit: off by one.
AtLimitLate(c, limit) == Cardinality(Enabled(c)) > limit

AtLimit(c, limit) == Cardinality(Enabled(c)) >= limit

CreateCount(r) ==
  /\ req[r].at = "count"
  /\ Goes(r, "count", IF AtLimit(req[r].tunnel[1], req[r].limit) THEN Idle
                      ELSE [at |-> "insert", tunnel |-> req[r].tunnel])
  /\ UNCHANGED <<keys, accounts, clients, tunnels, server>>

Inserters(c) == {r \in Requests : req[r].at = "insert" /\ req[r].tunnel[1] = c}

\* UNIQUE(client_name, name)
CreateProxy(r) ==
  /\ req[r].at = "insert"
  /\ LET t == req[r].tunnel IN
       IF rows[t] # None THEN Goes(r, "insert", Idle) /\ UNCHANGED <<rows, overlapped>>
       ELSE /\ Goes(r, "insert", [at |-> "notify", client |-> t[1]])
            /\ rows' = [rows EXCEPT ![t] = TRUE]
            /\ overlapped' = overlapped \cup {c \in {t[1]} : Inserters(c) # {r}}
  /\ UNCHANGED <<keys, accounts, clients, lifted, server>>

\* NotifyClientSync closes one connection of the client, so that the client
\* comes again and asks for its list.  Which one is up to the order of the map:
\* it may be one that is closing already.
NotifyClientSync(r) ==
  /\ req[r].at = "notify"
  /\ Goes(r, "notify", Idle)
  /\ LET c == req[r].client IN
       \/ Held(c) = {} /\ UNCHANGED <<conn, missed>>
       \/ \E k \in Held(c) :
            /\ conn' = [conn EXCEPT ![k] = "closing"]
            /\ missed' = IF \A l \in Held(c) \ {k} : conn[l] = "closing" THEN missed
                         ELSE missed \cup {c}
  /\ UNCHANGED <<keys, accounts, clients, tunnels, running, list>>

-----------------------------------------------------------------------------
(* v1HandleProxyPath: enable, disable, PATCH, DELETE.  Everything goes by  *)
(* the name alone.                                                         *)

Named(n) == {t \in Tunnels : t[2] = n /\ rows[t] # None}

\* GetProxy finds one of the rows with the name, whichever comes first; a
\* user must own its client.
PathAccess(r) ==
  /\ req[r].at = "path"
  /\ LET n == req[r].arg.name
         q == [id |-> req[r].id, arg |-> req[r].arg]
     IN \/ req[r].id.admin /\ Goes(r, "path", [at |-> "get", id |-> q.id, arg |-> q.arg])
        \/ /\ ~req[r].id.admin
           /\ \E t \in Named(n) :
                Goes(r, "path", [at |-> "owner", client |-> t[1], id |-> q.id, arg |-> q.arg])
        \/ ~req[r].id.admin /\ Named(n) = {} /\ Goes(r, "path", Idle)
  /\ UNCHANGED <<keys, accounts, clients, tunnels, server>>

PathOwner(r) ==
  /\ req[r].at = "owner"
  /\ Goes(r, "owner", IF canAccessClient(r, req[r].client)
                      THEN [at |-> "get", id |-> req[r].id, arg |-> req[r].arg] ELSE Idle)
  /\ UNCHANGED <<keys, accounts, clients, tunnels, server>>

\* The row is read again, for its client and for what PATCH does not give.
PathGet(r) ==
  /\ req[r].at = "get"
  /\ LET a == req[r].arg IN
       \/ Named(a.name) = {} /\ Goes(r, "get", Idle)
       \/ \E t \in Named(a.name) :
            Goes(r, "get", [at |-> "write", id |-> req[r].id, arg |-> a, client |-> t[1],
                            row |-> CASE a.to = "enable" -> TRUE
                                      [] a.to = "disable" -> FALSE
                                      [] a.to = "patch" -> rows[t]
                                      [] a.to = "delete" -> None])
  /\ UNCHANGED <<keys, accounts, clients, tunnels, server>>

\* UPDATE or DELETE ... WHERE name = n.  That no row was there is an error
\* except to enable and disable.
PathWrite(r) ==
  /\ req[r].at = "write"
  /\ LET q == req[r]
         hit == Named(q.arg.name)
     IN /\ Goes(r, "write",
                IF hit = {} /\ q.arg.to \in {"patch", "delete"} THEN Idle
                ELSE [at |-> IF q.row = TRUE THEN "notify" ELSE "close",
                      client |-> q.client, name |-> q.arg.name])
        /\ rows' = [t \in Tunnels |-> IF t \in hit THEN q.row ELSE rows[t]]
        /\ lifted' = lifted \cup {t[1] : t \in {x \in hit : q.row = TRUE /\ rows[x] = FALSE}}
        /\ missed' = missed \cup ({t[1] : t \in hit} \ {q.client})
  /\ UNCHANGED <<keys, accounts, clients, overlapped, running, conn, list>>

\* CloseProxy, if the tunnel is no longer to run; the client is told too.
CloseProxy(r) ==
  /\ req[r].at = "close"
  /\ Goes(r, "close", [at |-> "notify", client |-> req[r].client])
  /\ running' = [running EXCEPT ![req[r].name] = None]
  /\ UNCHANGED <<keys, accounts, clients, tunnels, conn, list, missed>>

\* v1HandleCloseProxy: the row stays as it is.
CloseOnly(r) ==
  /\ req[r].at = "closeOnly"
  /\ Goes(r, "closeOnly", Idle)
  /\ running' = [running EXCEPT ![req[r].arg.name] = None]
  /\ UNCHANGED <<keys, accounts, clients, tunnels, conn, list, missed>>

-----------------------------------------------------------------------------
(* A statement returns an error.                                           *)

StoreError == faults < MaxFaults /\ faults' = faults + 1

\* The handler gives up; a user whose client or tunnel cannot be looked up is
\* refused, an administrator's access is not looked up.
StatementFails(r) ==
  /\ StoreError
  /\ \/ req[r].at \in {"addKey", "deleteKey", "createUser", "deleteUser", "setStatus",
                        "resetToken", "addClient", "insert", "owner", "get", "write"}
     \/ req[r].at \in {"removeClient", "create", "path"} /\ ~req[r].id.admin
  /\ req' = [req EXCEPT ![r] = Idle]
  /\ UNCHANGED <<keys, accounts, clients, tunnels, server, calls>>

\* The errors of the two reads for the quota are ignored: a client that is not
\* read has no limit, tunnels that are not listed are none.
QuotaReadFails(r) ==
  /\ StoreError
  /\ req[r].at \in {"limit", "count"}
  /\ req' = [req EXCEPT ![r] = [at |-> "insert", tunnel |-> req[r].tunnel]]
  /\ lifted' = lifted \cup {req[r].tunnel[1]}
  /\ UNCHANGED <<keys, accounts, clients, rows, overlapped, server, calls>>

\* So is that of RemoveManagedClient: the row stays, the connections are closed.
RemoveRowFails(r) ==
  /\ StoreError
  /\ req[r].at = "remove"
  /\ req' = [req EXCEPT ![r] = Idle]
  /\ CloseHeld(req[r].client)
  /\ UNCHANGED <<keys, accounts, clients, tunnels, running, list, missed, calls>>

StoreFails(r) == StatementFails(r) \/ QuotaReadFails(r) \/ RemoveRowFails(r)

\* A key that cannot be looked up is left to the map in memory.
KeyUnread(r, k, op) ==
  /\ StoreError
  /\ calls < MaxCalls
  /\ calls' = calls + 1
  /\ Free(r)
  /\ req' = [req EXCEPT ![r] = [at |-> "map", key |-> k, arg |-> op]]
  /\ UNCHANGED <<keys, accounts, clients, tunnels, server>>

-----------------------------------------------------------------------------
(* The clients, as far as their tunnels come from the table.               *)

Calm == UNCHANGED <<keys, accounts, clients, tunnels, missed, req, calls>>

\* The client connects when it has no connection of its own any more.
Connect(k) ==
  /\ conn[k] = "off"
  /\ clients[k[1]] # None
  /\ \A l \in Conns : l[1] = k[1] => conn[l] # "on" /\ (l[2] < k[2] => conn[l] # "off")
  /\ conn' = [conn EXCEPT ![k] = "on"]
  /\ UNCHANGED <<running, list, faults>> /\ Calm

\* handleSyncProxies
SyncProxies(k) ==
  /\ conn[k] = "on"
  /\ list[k] = None
  /\ list' = [list EXCEPT ![k] = {t[2] : t \in Enabled(k[1])}]
  /\ UNCHANGED <<running, conn, faults>> /\ Calm

\* The tunnels cannot be listed: the list is empty.
SyncFails(k) ==
  /\ StoreError
  /\ conn[k] = "on"
  /\ list[k] = None
  /\ list' = [list EXCEPT ![k] = {}]
  /\ UNCHANGED <<running, conn>> /\ Calm

\* Mutant of Registered: the owner is the client and not the connection.
RegisteredByName(k, n) == [running EXCEPT ![n] = k[1]]

Registered(k, n) == [running EXCEPT ![n] = k]

\* handleNewProxy; the table is not asked.  A message that is being handled
\* is finished although the connection is closed.
NewProxy(k, n) ==
  /\ conn[k] # "off"
  /\ list[k] # None
  /\ n \in list[k]
  /\ list' = [list EXCEPT ![k] = @ \ {n}]
  /\ running' = IF running[n] = None THEN Registered(k, n) ELSE running
  /\ UNCHANGED <<conn, faults>> /\ Calm

\* The network fails, and only the client notices at first.
ConnLost(k) ==
  /\ faults < MaxFaults
  /\ conn[k] = "on"
  /\ conn' = [conn EXCEPT ![k] = "lost"]
  /\ faults' = faults + 1
  /\ UNCHANGED <<running, list>> /\ Calm

LossNoticed(k) ==
  /\ conn[k] = "lost"
  /\ conn' = [conn EXCEPT ![k] = "closing"]
  /\ UNCHANGED <<running, list, faults>> /\ Calm

\* Mutant of Cleanup: the tunnels of the client stay.
CleanupForgets(k) ==
  /\ conn[k] = "closing"
  /\ conn' = [conn EXCEPT ![k] = "off"]
  /\ list' = [list EXCEPT ![k] = None]
  /\ UNCHANGED <<running, faults>> /\ Calm

\* The end of handleControlMessages
Cleanup(k) ==
  /\ conn[k] = "closing"
  /\ conn' = [conn EXCEPT ![k] = "off"]
  /\ list' = [list EXCEPT ![k] = None]
  /\ running' = [n \in Names |-> IF running[n] = k THEN None ELSE running[n]]
  /\ UNCHANGED faults /\ Calm

\* The process dies and starts again: the keys of server.yaml are imported,
\* and the map of keys is read from the table.
Restart ==
  /\ faults < MaxFaults
  /\ faults' = faults + 1
  /\ keyTable' = keyTable \cup ConfigKeys
  /\ apiKeys' = keyTable'
  /\ keyRaced' = {}
  /\ running' = [n \in Names |-> None]
  /\ conn' = [k \in Conns |-> "off"]
  /\ list' = [k \in Conns |-> None]
  /\ req' = [r \in Requests |-> Idle]
  /\ UNCHANGED <<accounts, clients, tunnels, calls, missed>>

-----------------------------------------------------------------------------
Ops ==
  [op : {"addKey", "deleteKey"}, key : Keys]
  \cup [op : {"createUser", "deleteUser", "resetToken"}, user : Users]
  \cup [op : {"setStatus"}, user : Users, active : BOOLEAN]
  \cup [op : {"addClient"}, client : Clients, max : Limits]
  \cup [op : {"removeClient"}, client : Clients]
  \cup [op : {"create"}, tunnel : Tunnels]
  \cup [op : {"path"}, name : Names, to : {"enable", "disable", "patch", "delete"}]
  \cup [op : {"closeOnly"}, name : Names]

ASSUME InputsAssumption == Inputs \subseteq Ops

RequestStep(r) ==
  \/ MapDecides(r)
  \/ AddAPIKey(r) \/ MapKey(r) \/ DeleteAPIKey(r) \/ UnmapKey(r)
  \/ CreateUser(r) \/ DeleteUser(r) \/ SetUserStatus(r) \/ ResetUserToken(r)
  \/ AddManagedClient(r) \/ RemoveAccess(r) \/ RemoveManagedClient(r)
  \/ CreateAccess(r) \/ CreateLimit(r) \/ CreateCount(r) \/ CreateProxy(r)
  \/ PathAccess(r) \/ PathOwner(r) \/ PathGet(r) \/ PathWrite(r)
  \/ CloseProxy(r) \/ NotifyClientSync(r)
  \/ CloseOnly(r)

Arrival(r) ==
  \E op \in Inputs :
    \/ \E k \in Keys : KeyCall(r, k, op) \/ KeyUnread(r, k, op)
    \/ \E u \in Users, n \in 0 .. tokens : TokenCall(r, u, n, op)

ClientStep(k) ==
  \/ Connect(k) \/ SyncProxies(k) \/ SyncFails(k) \/ ConnLost(k) \/ LossNoticed(k)
  \/ \E n \in Names : NewProxy(k, n)

Next ==
  \/ \E r \in Requests : Arrival(r) \/ RequestStep(r) \/ StoreFails(r)
  \/ \E k \in Conns : ClientStep(k) \/ Cleanup(k)
  \/ Restart

Spec == Init /\ [][Next]_vars

-----------------------------------------------------------------------------
(* Properties.                                                             *)

\* The type of the state.
TypeOK ==
  /\ keyTable \subseteq Keys
  /\ apiKeys \subseteq Keys
  /\ users \in [Users -> [active : BOOLEAN, token : 0 .. tokens] \cup {None}]
  /\ clients \in [Clients -> [owner : Users \cup {Nobody}, max : Limits] \cup {None}]
  /\ rows \in [Tunnels -> BOOLEAN \cup {None}]
  /\ running \in [Names -> Conns \cup {None}]
  /\ conn \in [Conns -> {"off", "on", "lost", "closing"}]
  /\ list \in [Conns -> (SUBSET Names) \cup {None}]
  /\ tokens \in 0 .. calls
  /\ calls \in 0 .. MaxCalls
  /\ faults \in 0 .. MaxFaults
  /\ keyRaced \subseteq Keys
  /\ lifted \cup overlapped \cup missed \subseteq Clients

\* The keys that are accepted from memory are those of the table, so that a
\* deleted key is not accepted and a new one survives a restart, unless two
\* requests have changed the same key at once.
KeysAgree ==
  \A k \in Keys : KeyWriters(k) = {} /\ k \notin keyRaced => (k \in keyTable <=> k \in apiKeys)

\* Counting and inserting are two statements: requests that overlap can pass
\* a client's limit together, by less than their number.  Otherwise the limit
\* is kept, unless an error of the store kept a request from reading the limit
\* or the tunnels (both errors are ignored, server.go 1131 and 1132), or
\* tunnels were enabled again, which counts nothing, or the client was created
\* over tunnels that were there before, or had too many at first.
QuotaKept ==
  \A c \in Clients \ lifted :
    clients[c] # None /\ clients[c].max > 0
      => Cardinality(Enabled(c))
           <= clients[c].max + (IF c \in overlapped THEN Cardinality(Requests) - 1 ELSE 0)

OffDuty(t) == rows[t] # TRUE /\ running[t[2]] # None /\ running[t[2]][1] = t[1]

\* The tunnel is being stopped: a request has still to close it or to tell the
\* client, or the connection that owns it is closing.
BeingStopped(t) ==
  \/ conn[running[t[2]]] = "closing"
  \/ \E r \in Requests : req[r].at \in {"close", "notify"} /\ req[r].client = t[1]

\* A tunnel that has been disabled or deleted runs only as long as it is being
\* stopped, also if the client registers it from an older list while the
\* request is under way; unless the server held two connections of the
\* client and NotifyClientSync left one of them that was not closing, or two
\* clients have a tunnel of that name, of which it tells one.
DisabledStops == \A t \in Tunnels : OffDuty(t) => BeingStopped(t) \/ t[1] \in missed

\* The comment on NotifyClientSync, the client's connection loads its tunnels
\* again (main.go 1381), and on disabling, the tunnel goes offline (server.go
\* 1224), make no exception for a client whose older connection is not closed.
AlwaysStops == \A t \in Tunnels : OffDuty(t) => BeingStopped(t)

\* "a user may only operate on the tunnels of his own clients" (server.go
\* 1185): no step of a user's request changes the row of someone else's
\* client.
OwnRowsOnly ==
  [][\A r \in Requests, t \in Tunnels :
       req[r].at = "write" /\ ~req[r].id.admin /\ rows[t] # None /\ req'[r] # req[r]
         /\ rows'[t] # rows[t]
         => clients[t[1]] # None /\ clients[t[1]].owner = req[r].id.user]_vars
=============================================================================
