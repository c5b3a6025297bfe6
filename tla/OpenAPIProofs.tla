--------------------------- MODULE OpenAPIProofs ---------------------------
(***************************************************************************)
(* Proofs about OpenAPI for every set of users, clients and keys, any      *)
(* finite number of tunnels and of requests at once, and any number of     *)
(* faults.                                                                 *)
(***************************************************************************)
EXTENDS OpenAPI, FiniteSetTheorems, TLAPS

Operations ==
  {"addKey", "deleteKey", "createUser", "deleteUser", "resetToken", "setStatus", "addClient",
   "removeClient", "create", "path", "closeOnly"}

Identities == [admin : BOOLEAN, user : Users \cup {Nobody}]

\* What a request holds at each of its steps.
ReqOK(v) ==
  /\ v.at \in Operations \cup {"idle", "map", "mapKey", "unmapKey", "remove", "limit", "count",
                               "insert", "notify", "owner", "get", "write", "close"}
  /\ v.at \in Operations => v.arg \in Inputs /\ v.arg.op = v.at
  /\ v.at \in Operations \cup {"owner", "get", "write"} => v.id \in Identities
  /\ v.at \in {"owner", "get", "write"} => v.arg \in Inputs /\ v.arg.op = "path"
  /\ v.at = "map" => v.arg \in Inputs
  /\ v.at \in {"map", "mapKey", "unmapKey"} => v.key \in Keys
  /\ v.at \in {"remove", "notify", "owner", "write", "close"} => v.client \in Clients
  /\ v.at \in {"limit", "count", "insert"} => v.tunnel \in Tunnels
  /\ v.at = "write" => v.row \in BOOLEAN \cup {None}
  /\ v.at = "close" => v.name \in Names

ReqInv == DOMAIN req = Requests /\ \A r \in Requests : ReqOK(req[r])

Busy == {r \in Requests : req[r].at # "idle"}

\* A request draws one token at most, and ends with that.
TokensInv == tokens + Cardinality(Busy) <= calls

\* The one request that changes a key has changed the table and not the map.
KeyInv ==
  \A k \in Keys \ keyRaced :
    /\ \A q, r \in KeyWriters(k) : q = r
    /\ \A r \in KeyWriters(k) : req[r].at = "mapKey" <=> k \in keyTable
    /\ KeyWriters(k) = {} => (k \in keyTable <=> k \in apiKeys)

\* A client with a limit whose tunnels were all counted.
Counted(c) == c \notin lifted /\ clients[c] # None /\ clients[c].max > 0

\* Whoever is about to insert has counted less than the limit.  As long as no
\* two did so at once, that is still true; afterwards each may add one.
QuotaAt(c) ==
  /\ \A r \in Requests :
       req[r].at = "count" /\ req[r].tunnel[1] = c => req[r].limit = clients[c].max
  /\ c \notin overlapped =>
       /\ Cardinality(Enabled(c)) <= clients[c].max
       /\ Inserters(c) # {} => Cardinality(Enabled(c)) < clients[c].max
  /\ c \in overlapped =>
       Cardinality(Enabled(c)) + Cardinality(Inserters(c))
         <= clients[c].max + Cardinality(Requests) - 1

QuotaInv == \A c \in Clients : Counted(c) => QuotaAt(c)

\* The connection k runs the tunnel t, or will register it.
Serves(k, t) == t[1] = k[1] /\ (running[t[2]] = k \/ (list[k] # None /\ t[2] \in list[k]))

\* Someone is about to tell the client of k, or its connection ends.
Told(k) ==
  \/ conn[k] = "closing"
  \/ \E r \in Requests : req[r].at \in {"close", "notify"} /\ req[r].client = k[1]
  \/ k[1] \in missed

\* A connection that is not there has no list and no tunnels.
OffInv == \A k \in Conns : conn[k] = "off" => list[k] = None /\ \A n \in Names : running[n] # k

\* Whoever serves a tunnel that is not enabled is told, also if it has not yet
\* registered what an older list says.
ServeInv == \A k \in Conns, t \in Tunnels : Serves(k, t) /\ rows[t] # TRUE => Told(k)

StopInv == OffInv /\ ServeInv

IInv == TypeOK /\ ReqInv /\ TokensInv /\ KeyInv /\ QuotaInv /\ StopInv

-----------------------------------------------------------------------------
(* A request that goes on.                                                 *)

LEMMA Moved ==
  ASSUME ReqInv, NEW r \in Requests, NEW to, req' = [req EXCEPT ![r] = to]
  PROVE  /\ DOMAIN req' = Requests
         /\ req'[r] = to
         /\ \A q \in Requests : q # r => req'[q] = req[q]
BY DEF ReqInv

LEMMA MovedOK ==
  ASSUME ReqInv, NEW r \in Requests, NEW to, req' = [req EXCEPT ![r] = to], ReqOK(to)
  PROVE  ReqInv'
BY Moved DEF ReqInv

LEMMA IdleOK == ReqOK(Idle) /\ Idle.at = "idle"
BY DEF ReqOK, Idle, Operations

\* The fields of an operation.
LEMMA InputTypes ==
  ASSUME NEW op \in Inputs
  PROVE  /\ op.op \in Operations
         /\ op.op \in {"addKey", "deleteKey"} => op.key \in Keys
         /\ op.op \in {"createUser", "deleteUser", "resetToken", "setStatus"} => op.user \in Users
         /\ op.op \in {"addClient", "removeClient"} => op.client \in Clients
         /\ op.op = "addClient" => op.max \in Limits
         /\ op.op = "create" => op.tunnel \in Tunnels
         /\ op.op \in {"path", "closeOnly"} => op.name \in Names
         /\ op.op = "path" => op.to \in {"enable", "disable", "patch", "delete"}
BY InputsAssumption DEF Ops, Operations

LEMMA StatusType ==
  ASSUME NEW op \in Inputs, op.op = "setStatus"
  PROVE  op.active \in BOOLEAN
BY InputsAssumption, Zenon DEF Ops

LEMMA TunnelTypes ==
  ASSUME NEW t \in Tunnels
  PROVE  t[1] \in Clients /\ t[2] \in Names /\ t = <<t[1], t[2]>>
BY TunnelsAssumption

LEMMA BusyFinite == IsFiniteSet(Busy) /\ Cardinality(Busy) \in Nat
<1>1. IsFiniteSet(Busy)
  BY FiniteAssumption, FS_Subset DEF Busy
<1> QED BY <1>1, FS_CardinalityType

\* Every step of a handler is one of a request that is under way.
LEMMA HandlerSteps ==
  ASSUME NEW r \in Requests, RequestStep(r)
  PROVE  /\ req[r].at # "idle"
         /\ UNCHANGED <<calls, faults>>
         /\ \E to : req' = [req EXCEPT ![r] = to]
BY DEF RequestStep, MapDecides, AddAPIKey, MapKey, DeleteAPIKey, UnmapKey, CreateUser, DeleteUser,
   SetUserStatus, ResetUserToken, UserStatement, AddManagedClient, RemoveAccess,
   RemoveManagedClient, CreateAccess, CreateLimit, CreateCount, CreateProxy, PathAccess,
   PathOwner, PathGet, PathWrite, CloseProxy, NotifyClientSync, CloseOnly, Goes

\* Only two of them draw a token, and end.
LEMMA HandlerTokens ==
  ASSUME NEW r \in Requests, RequestStep(r)
  PROVE  \/ tokens' = tokens
         \/ tokens' = tokens + 1 /\ req' = [req EXCEPT ![r] = Idle]
BY DEF RequestStep, MapDecides, AddAPIKey, MapKey, DeleteAPIKey, UnmapKey, CreateUser, DeleteUser,
   SetUserStatus, ResetUserToken, UserStatement, AddManagedClient, RemoveAccess,
   RemoveManagedClient, CreateAccess, CreateLimit, CreateCount, CreateProxy, PathAccess,
   PathOwner, PathGet, PathWrite, CloseProxy, NotifyClientSync, CloseOnly, Goes, accounts

\* An error of the store ends the request, or leads it on without the quota.
LEMMA FailsLead ==
  ASSUME ReqInv, NEW r \in Requests, StoreFails(r)
  PROVE  /\ req[r].at \notin {"idle", "mapKey", "unmapKey", "close", "notify"}
         /\ \A q \in Requests : q # r => req'[q] = req[q]
         /\ \E to : req' = [req EXCEPT ![r] = to]
         /\ req'[r].at \in {"idle", "insert"}
BY Moved, IdleOK DEF StoreFails, StatementFails, QuotaReadFails, RemoveRowFails

LEMMA FailsKeep ==
  ASSUME NEW r \in Requests, StoreFails(r)
  PROVE  /\ UNCHANGED <<keys, accounts, clients, rows, overlapped, running, list, missed, calls>>
         /\ faults < MaxFaults /\ faults' = faults + 1
BY DEF StoreFails, StatementFails, QuotaReadFails, RemoveRowFails, StoreError, tunnels, server

LEMMA FailsReq ==
  ASSUME ReqInv, NEW r \in Requests, StoreFails(r)
  PROVE  ReqInv'
<1>1. CASE StatementFails(r) \/ RemoveRowFails(r)
  BY <1>1, IdleOK, MovedOK DEF StatementFails, RemoveRowFails
<1>2. CASE QuotaReadFails(r)
  <2>1. req[r].at \in {"limit", "count"} /\ ReqOK(req[r])
    BY <1>2 DEF QuotaReadFails, ReqInv
  <2>2. ReqOK([at |-> "insert", tunnel |-> req[r].tunnel])
    BY <2>1 DEF ReqOK, Operations
  <2> QED BY <1>2, <2>2, MovedOK DEF QuotaReadFails
<1> QED BY <1>1, <1>2 DEF StoreFails

LEMMA NextTokens ==
  ASSUME TypeOK, ReqInv, TokensInv, [Next]_vars
  PROVE  TokensInv' /\ tokens' \in 0 .. calls'
<1>0. tokens \in Nat /\ calls \in Nat /\ IsFiniteSet(Busy) /\ Cardinality(Busy) \in Nat
  BY BusyFinite DEF TypeOK
<1>1. IsFiniteSet(Busy') /\ Cardinality(Busy') \in Nat
  <2>1. IsFiniteSet(Busy')
    BY FiniteAssumption, FS_Subset DEF Busy
  <2> QED BY <2>1, FS_CardinalityType
<1>2. ASSUME NEW r \in Requests, RequestStep(r) \/ StoreFails(r)
      PROVE  TokensInv' /\ tokens' \in Nat /\ calls' \in Nat
  <2>1. PICK to : req' = [req EXCEPT ![r] = to]
    BY <1>2, HandlerSteps, FailsLead
  <2>2. r \in Busy /\ calls' = calls
    BY <1>2, HandlerSteps, FailsLead, FailsKeep DEF Busy
  <2>3. CASE tokens' = tokens
    <3>1. Busy' \subseteq Busy
      BY <2>1, <2>2, Moved DEF Busy
    <3>2. Cardinality(Busy') <= Cardinality(Busy)
      BY <1>0, <3>1, FS_Subset
    <3> QED BY <1>0, <1>1, <2>2, <2>3, <3>2 DEF TokensInv
  <2>4. CASE tokens' = tokens + 1 /\ req' = [req EXCEPT ![r] = Idle]
    <3>1. Busy' = Busy \ {r}
      BY <2>4, Moved, IdleOK DEF Busy
    <3>2. Cardinality(Busy') = Cardinality(Busy) - 1
      BY <1>0, <2>2, <3>1, FS_RemoveElement
    <3> QED BY <1>0, <1>1, <2>2, <2>4, <3>2 DEF TokensInv
  <2> QED BY <1>2, <2>3, <2>4, HandlerTokens, FailsKeep DEF accounts
<1>3. ASSUME NEW r \in Requests, Arrival(r)
      PROVE  TokensInv' /\ tokens' \in Nat /\ calls' \in Nat
  <2>1. calls' = calls + 1 /\ tokens' = tokens /\ \E to : req' = [req EXCEPT ![r] = to]
    BY <1>3 DEF Arrival, KeyCall, KeyUnread, TokenCall, accounts
  <2>2. Busy' \subseteq Busy \cup {r}
    BY <2>1, Moved DEF Busy
  <2>3. /\ IsFiniteSet(Busy \cup {r})
        /\ Cardinality(Busy \cup {r})
             = IF r \in Busy THEN Cardinality(Busy) ELSE Cardinality(Busy) + 1
    BY <1>0, FS_AddElement
  <2>4. Cardinality(Busy') <= Cardinality(Busy \cup {r})
    BY <2>2, <2>3, FS_Subset
  <2> QED BY <1>0, <1>1, <2>1, <2>3, <2>4 DEF TokensInv
<1>4. CASE Restart
  <2>1. Busy' = {} /\ UNCHANGED <<tokens, calls>>
    BY <1>4 DEF Restart, Busy, Idle, accounts
  <2>2. Cardinality(Busy') = 0
    BY <2>1, FS_EmptySet
  <2> QED BY <1>0, <2>1, <2>2 DEF TokensInv
<1>5. CASE (\E k \in Conns : ClientStep(k) \/ Cleanup(k)) \/ UNCHANGED vars
  <2>1. UNCHANGED <<tokens, calls, req>>
    BY <1>5 DEF ClientStep, Connect, SyncProxies, SyncFails, ConnLost,
       LossNoticed, NewProxy, Cleanup, Calm,
       vars, accounts
  <2>2. TokensInv' /\ tokens' \in Nat /\ calls' \in Nat
    BY <1>0, <2>1 DEF TokensInv, Busy
  <2> QED BY <1>1, <2>2 DEF TokensInv
<1>6. CASE \E r \in Requests : Arrival(r) \/ RequestStep(r) \/ StoreFails(r)
  <2>1. TokensInv' /\ tokens' \in Nat /\ calls' \in Nat
    BY <1>2, <1>3, <1>6
  <2> QED BY <1>1, <2>1 DEF TokensInv
<1> QED BY <1>4, <1>5, <1>6 DEF Next

-----------------------------------------------------------------------------
(* What a request holds.                                                   *)

LEMMA ArrivalReq ==
  ASSUME ReqInv, NEW r \in Requests, Arrival(r)
  PROVE  ReqInv'
<1>1. ASSUME NEW op \in Inputs, NEW id \in Identities PROVE ReqOK(Admitted(op, id))
  <2>1. op.op \in Operations
    BY InputTypes
  <2> QED BY <2>1 DEF ReqOK, Admitted, Operations
<1>2. Admin \in Identities
  BY DEF Admin, Identities
<1>3. \A u \in Users : [admin |-> FALSE, user |-> u] \in Identities
  BY DEF Identities
<1>4. ASSUME NEW op \in Inputs, NEW k \in Keys, KeyCall(r, k, op) PROVE ReqInv'
  <2>1. ReqOK([at |-> "map", key |-> k, arg |-> op])
    BY DEF ReqOK, Operations
  <2>2. PICK to : /\ req' = [req EXCEPT ![r] = to]
                  /\ to \in {Admitted(op, Admin), [at |-> "map", key |-> k, arg |-> op]}
    BY <1>4 DEF KeyCall
  <2> QED BY <1>1, <1>2, <2>1, <2>2, MovedOK
<1>6. ASSUME NEW op \in Inputs, NEW k \in Keys, KeyUnread(r, k, op) PROVE ReqInv'
  <2>1. ReqOK([at |-> "map", key |-> k, arg |-> op])
    BY DEF ReqOK, Operations
  <2> QED BY <1>6, <2>1, MovedOK DEF KeyUnread
<1>5. ASSUME NEW op \in Inputs, NEW u \in Users, NEW n, TokenCall(r, u, n, op) PROVE ReqInv'
  BY <1>1, <1>3, <1>5, MovedOK DEF TokenCall
<1> QED BY <1>4, <1>5, <1>6 DEF Arrival

\* Keys, users and the management of clients.
LEMMA AccountsReq ==
  ASSUME ReqInv, NEW r \in Requests,
         \/ MapDecides(r) \/ AddAPIKey(r) \/ MapKey(r) \/ DeleteAPIKey(r) \/ UnmapKey(r)
         \/ CreateUser(r) \/ DeleteUser(r) \/ SetUserStatus(r) \/ ResetUserToken(r)
         \/ AddManagedClient(r) \/ RemoveAccess(r) \/ RemoveManagedClient(r) \/ CloseOnly(r)
  PROVE  ReqInv'
<1>0. ReqOK(req[r])
  BY DEF ReqInv
<1>1. CASE MapDecides(r)
  <2>1. req[r].at = "map" /\ req[r].arg \in Inputs
    BY <1>0, <1>1 DEF MapDecides, Goes, ReqOK
  <2>2. req[r].arg.op \in Operations /\ Admin \in Identities
    BY <2>1, InputTypes DEF Admin, Identities
  <2>3. ReqOK(Admitted(req[r].arg, Admin))
    BY <2>1, <2>2 DEF ReqOK, Admitted, Operations
  <2>4. PICK to : req' = [req EXCEPT ![r] = to] /\ to \in {Admitted(req[r].arg, Admin), Idle}
    BY <1>1 DEF MapDecides, Goes
  <2> QED BY <2>3, <2>4, IdleOK, MovedOK
<1>2. CASE AddAPIKey(r) \/ DeleteAPIKey(r)
  <2>1. req[r].at \in {"addKey", "deleteKey"}
    BY <1>2 DEF AddAPIKey, DeleteAPIKey
  <2>2. req[r].arg.key \in Keys
    BY <1>0, <2>1, InputTypes DEF ReqOK, Operations
  <2>3. /\ ReqOK([at |-> "mapKey", key |-> req[r].arg.key])
        /\ ReqOK([at |-> "unmapKey", key |-> req[r].arg.key])
    BY <2>2 DEF ReqOK, Operations
  <2>4. PICK to : /\ req' = [req EXCEPT ![r] = to]
                  /\ to \in {[at |-> "mapKey", key |-> req[r].arg.key],
                             [at |-> "unmapKey", key |-> req[r].arg.key], Idle}
    BY <1>2 DEF AddAPIKey, DeleteAPIKey, Goes
  <2> QED BY <2>3, <2>4, IdleOK, MovedOK
<1>3. CASE RemoveAccess(r)
  <2>1. req[r].at = "removeClient"
    BY <1>3 DEF RemoveAccess
  <2>2. req[r].arg.client \in Clients
    BY <1>0, <2>1, InputTypes DEF ReqOK, Operations
  <2>3. ReqOK([at |-> "remove", client |-> req[r].arg.client])
    BY <2>2 DEF ReqOK, Operations
  <2>4. PICK to : /\ req' = [req EXCEPT ![r] = to]
                  /\ to \in {[at |-> "remove", client |-> req[r].arg.client], Idle}
    BY <1>3 DEF RemoveAccess, Goes
  <2> QED BY <2>3, <2>4, IdleOK, MovedOK
<1>4. CASE \/ MapKey(r) \/ UnmapKey(r)
           \/ CreateUser(r) \/ DeleteUser(r) \/ SetUserStatus(r) \/ ResetUserToken(r)
           \/ AddManagedClient(r) \/ RemoveManagedClient(r) \/ CloseOnly(r)
  <2>1. req' = [req EXCEPT ![r] = Idle]
    BY <1>4 DEF MapKey, UnmapKey, CreateUser, DeleteUser, SetUserStatus, ResetUserToken,
       UserStatement, AddManagedClient, RemoveManagedClient, CloseOnly, Goes
  <2> QED BY <2>1, IdleOK, MovedOK
<1> QED BY <1>1, <1>2, <1>3, <1>4

\* The creation of a tunnel.
LEMMA CreateReq ==
  ASSUME ReqInv, NEW r \in Requests,
         \/ CreateAccess(r) \/ CreateLimit(r) \/ CreateCount(r) \/ CreateProxy(r)
         \/ NotifyClientSync(r)
  PROVE  ReqInv'
<1>0. ReqOK(req[r])
  BY DEF ReqInv
<1>1. CASE CreateAccess(r)
  <2>1. req[r].at = "create"
    BY <1>1 DEF CreateAccess
  <2>2. req[r].arg.tunnel \in Tunnels
    BY <1>0, <2>1, InputTypes DEF ReqOK, Operations
  <2>3. ReqOK([at |-> "limit", tunnel |-> req[r].arg.tunnel])
    BY <2>2 DEF ReqOK, Operations
  <2>4. PICK to : /\ req' = [req EXCEPT ![r] = to]
                  /\ to \in {[at |-> "limit", tunnel |-> req[r].arg.tunnel], Idle}
    BY <1>1 DEF CreateAccess, Goes
  <2> QED BY <2>3, <2>4, IdleOK, MovedOK
<1>2. CASE CreateLimit(r) \/ CreateCount(r) \/ CreateProxy(r)
  <2>1. req[r].at \in {"limit", "count", "insert"}
    BY <1>2 DEF CreateLimit, CreateCount, CreateProxy
  <2>2. req[r].tunnel \in Tunnels /\ req[r].tunnel[1] \in Clients
    BY <1>0, <2>1, TunnelTypes DEF ReqOK
  <2>3. /\ ReqOK([at |-> "insert", tunnel |-> req[r].tunnel])
        /\ ReqOK([at |-> "notify", client |-> req[r].tunnel[1]])
        /\ \A n : ReqOK([at |-> "count", tunnel |-> req[r].tunnel, limit |-> n])
    BY <2>2 DEF ReqOK, Operations
  <2>4. CASE CreateLimit(r)
    <3>1. \/ req' = [req EXCEPT ![r] = [at |-> "insert", tunnel |-> req[r].tunnel]]
          \/ \E n : req' = [req EXCEPT ![r] = [at |-> "count", tunnel |-> req[r].tunnel, limit |-> n]]
      BY <2>4 DEF CreateLimit, Goes
    <3> QED BY <2>3, <3>1, MovedOK
  <2>5. CASE CreateCount(r) \/ CreateProxy(r)
    <3>1. PICK to : /\ req' = [req EXCEPT ![r] = to]
                    /\ to \in {[at |-> "insert", tunnel |-> req[r].tunnel],
                               [at |-> "notify", client |-> req[r].tunnel[1]], Idle}
      BY <2>5 DEF CreateCount, CreateProxy, Goes
    <3> QED BY <2>3, <3>1, IdleOK, MovedOK
  <2> QED BY <1>2, <2>4, <2>5
<1>3. CASE NotifyClientSync(r)
  BY <1>3, IdleOK, MovedOK DEF NotifyClientSync, Goes
<1> QED BY <1>1, <1>2, <1>3

\* What a request on a tunnel writes into its row.
LEMMA RowType ==
  ASSUME TypeOK, NEW t \in Tunnels, NEW to \in {"enable", "disable", "patch", "delete"}
  PROVE  (CASE to = "enable" -> TRUE
            [] to = "disable" -> FALSE
            [] to = "patch" -> rows[t]
            [] to = "delete" -> None) \in BOOLEAN \cup {None}
<1>1. rows[t] \in BOOLEAN \cup {None}
  BY DEF TypeOK
<1>2. CASE to = "enable"
  BY <1>2
<1>3. CASE to = "disable"
  BY <1>3
<1>4. CASE to = "patch"
  BY <1>1, <1>4
<1>5. CASE to = "delete"
  BY <1>5
<1> QED BY <1>2, <1>3, <1>4, <1>5

\* A change of a tunnel.
LEMMA PathReq ==
  ASSUME TypeOK, ReqInv, NEW r \in Requests,
         PathAccess(r) \/ PathOwner(r) \/ PathGet(r) \/ PathWrite(r) \/ CloseProxy(r)
  PROVE  ReqInv'
<1>0. ReqOK(req[r])
  BY DEF ReqInv
<1>a. ASSUME req[r].at \in {"path", "owner", "get", "write"}
      PROVE  /\ req[r].arg \in Inputs /\ req[r].arg.op = "path" /\ req[r].id \in Identities
             /\ req[r].arg.name \in Names
             /\ req[r].arg.to \in {"enable", "disable", "patch", "delete"}
  <2>1. req[r].arg \in Inputs /\ req[r].arg.op = "path" /\ req[r].id \in Identities
    BY <1>0, <1>a DEF ReqOK, Operations
  <2> QED BY <2>1, InputTypes
<1>b. ASSUME NEW n PROVE \A t \in Named(n) : t \in Tunnels /\ t[1] \in Clients
  BY TunnelTypes DEF Named
<1>1. CASE PathAccess(r)
  <2>1. req[r].at = "path"
    BY <1>1 DEF PathAccess
  <2>2. ReqOK([at |-> "get", id |-> req[r].id, arg |-> req[r].arg])
    BY <1>a, <2>1 DEF ReqOK, Operations
  <2>3. ASSUME NEW c \in Clients
        PROVE  ReqOK([at |-> "owner", client |-> c, id |-> req[r].id, arg |-> req[r].arg])
    BY <1>a, <2>1 DEF ReqOK, Operations
  <2>4. \/ req' = [req EXCEPT ![r] = [at |-> "get", id |-> req[r].id, arg |-> req[r].arg]]
        \/ \E t \in Named(req[r].arg.name) :
             req' = [req EXCEPT ![r] = [at |-> "owner", client |-> t[1], id |-> req[r].id,
                                        arg |-> req[r].arg]]
        \/ req' = [req EXCEPT ![r] = Idle]
    BY <1>1 DEF PathAccess, Goes
  <2> QED BY <1>b, <2>2, <2>3, <2>4, IdleOK, MovedOK
<1>2. CASE PathOwner(r)
  <2>1. req[r].at = "owner"
    BY <1>2 DEF PathOwner
  <2>2. ReqOK([at |-> "get", id |-> req[r].id, arg |-> req[r].arg])
    BY <1>a, <2>1 DEF ReqOK, Operations
  <2>3. PICK to : /\ req' = [req EXCEPT ![r] = to]
                  /\ to \in {[at |-> "get", id |-> req[r].id, arg |-> req[r].arg], Idle}
    BY <1>2 DEF PathOwner, Goes
  <2> QED BY <2>2, <2>3, IdleOK, MovedOK
<1>3. CASE PathGet(r)
  <2>1. req[r].at = "get"
    BY <1>3 DEF PathGet
  <2>2. CASE req' = [req EXCEPT ![r] = Idle]
    BY <2>2, IdleOK, MovedOK
  <2>3. ASSUME NEW c \in Clients, NEW row \in BOOLEAN \cup {None}
        PROVE  ReqOK([at |-> "write", id |-> req[r].id, arg |-> req[r].arg, client |-> c, row |-> row])
    BY <1>a, <2>1 DEF ReqOK, Operations
  <2>4. CASE req' # [req EXCEPT ![r] = Idle]
    <3>1. PICK t \in Named(req[r].arg.name) :
            req' = [req EXCEPT ![r] =
                      [at |-> "write", id |-> req[r].id, arg |-> req[r].arg, client |-> t[1],
                       row |-> CASE req[r].arg.to = "enable" -> TRUE
                                 [] req[r].arg.to = "disable" -> FALSE
                                 [] req[r].arg.to = "patch" -> rows[t]
                                 [] req[r].arg.to = "delete" -> None]]
      BY <1>3, <2>4 DEF PathGet, Goes
    <3>2. PICK row \in BOOLEAN \cup {None} : row = CASE req[r].arg.to = "enable" -> TRUE
                                                  [] req[r].arg.to = "disable" -> FALSE
                                                  [] req[r].arg.to = "patch" -> rows[t]
                                                  [] req[r].arg.to = "delete" -> None
      BY <1>a, <1>b, <2>1, RowType
    <3>3. req' = [req EXCEPT ![r] = [at |-> "write", id |-> req[r].id, arg |-> req[r].arg,
                                     client |-> t[1], row |-> row]]
      BY <3>1, <3>2
    <3> QED BY <1>b, <2>3, <3>3, MovedOK
  <2> QED BY <2>2, <2>4
<1>4. CASE PathWrite(r)
  <2>1. req[r].at = "write"
    BY <1>4 DEF PathWrite
  <2>2. req[r].client \in Clients /\ req[r].arg.name \in Names
    BY <1>0, <1>a, <2>1 DEF ReqOK
  <2>3. PICK to : /\ req' = [req EXCEPT ![r] = to]
                  /\ to \in {[at |-> "notify", client |-> req[r].client, name |-> req[r].arg.name],
                             [at |-> "close", client |-> req[r].client, name |-> req[r].arg.name],
                             Idle}
    BY <1>4 DEF PathWrite, Goes
  <2>4. /\ ReqOK([at |-> "notify", client |-> req[r].client, name |-> req[r].arg.name])
        /\ ReqOK([at |-> "close", client |-> req[r].client, name |-> req[r].arg.name])
    BY <2>2 DEF ReqOK, Operations
  <2> QED BY <2>3, <2>4, IdleOK, MovedOK
<1>5. CASE CloseProxy(r)
  <2>1. req[r].at = "close"
    BY <1>5 DEF CloseProxy
  <2>2. ReqOK([at |-> "notify", client |-> req[r].client])
    BY <1>0, <2>1 DEF ReqOK, Operations
  <2> QED BY <1>5, <2>2, MovedOK DEF CloseProxy, Goes
<1> QED BY <1>1, <1>2, <1>3, <1>4, <1>5

LEMMA NextReq ==
  ASSUME TypeOK, ReqInv, [Next]_vars
  PROVE  ReqInv'
<1>1. ASSUME NEW r \in Requests, RequestStep(r) PROVE ReqInv'
  BY <1>1, AccountsReq, CreateReq, PathReq DEF RequestStep
<1>2. CASE Restart
  BY <1>2, IdleOK DEF Restart, ReqInv
<1>3. CASE (\E k \in Conns : ClientStep(k) \/ Cleanup(k)) \/ UNCHANGED vars
  <2>1. UNCHANGED req
    BY <1>3 DEF ClientStep, Connect, SyncProxies, SyncFails, ConnLost,
       LossNoticed, NewProxy, Cleanup, Calm, vars
  <2> QED BY <2>1 DEF ReqInv
<1> QED BY <1>1, <1>2, <1>3, ArrivalReq, FailsReq DEF Next

-----------------------------------------------------------------------------
(* Types.                                                                  *)

LEMMA TypeFrame ==
  ASSUME TypeOK, tokens' \in 0 .. calls', calls' \in 0 .. MaxCalls, faults' \in 0 .. MaxFaults,
         UNCHANGED <<keys, accounts, clients, tunnels, server>>
  PROVE  TypeOK'
BY DEF TypeOK, keys, accounts, tunnels, server

\* Steps that only read.
LEMMA ReadsType ==
  ASSUME TypeOK, NEW r \in Requests, tokens' \in 0 .. calls',
         \/ Arrival(r) \/ MapDecides(r) \/ RemoveAccess(r)
         \/ CreateAccess(r) \/ CreateLimit(r) \/ CreateCount(r)
         \/ PathAccess(r) \/ PathOwner(r) \/ PathGet(r)
  PROVE  TypeOK'
<1>1. UNCHANGED <<keys, accounts, clients, tunnels, server>>
  BY DEF Arrival, KeyCall, KeyUnread, TokenCall, MapDecides, RemoveAccess, CreateAccess,
     CreateLimit, CreateCount, PathAccess, PathOwner, PathGet
<1>2. calls' \in 0 .. MaxCalls /\ faults' \in 0 .. MaxFaults
  <2>1. \/ calls' = calls
        \/ calls < MaxCalls /\ calls' = calls + 1
    BY DEF Arrival, KeyCall, KeyUnread, TokenCall, MapDecides, RemoveAccess, CreateAccess,
       CreateLimit, CreateCount, PathAccess, PathOwner, PathGet, Goes
  <2>2. faults' = faults \/ (faults < MaxFaults /\ faults' = faults + 1)
    BY DEF Arrival, KeyCall, KeyUnread, TokenCall, MapDecides, RemoveAccess, CreateAccess,
       CreateLimit, CreateCount, PathAccess, PathOwner, PathGet, Goes, StoreError
  <2> QED BY <2>1, <2>2, BoundAssumption DEF TypeOK
<1> QED BY <1>1, <1>2, TypeFrame

LEMMA KeysType ==
  ASSUME TypeOK, ReqInv, NEW r \in Requests, tokens' \in 0 .. calls',
         AddAPIKey(r) \/ MapKey(r) \/ DeleteAPIKey(r) \/ UnmapKey(r)
  PROVE  TypeOK'
<1>0. ReqOK(req[r])
  BY DEF ReqInv
<1>1. req[r].at \in {"addKey", "deleteKey"} => req[r].arg.key \in Keys
  BY <1>0, InputTypes DEF ReqOK, Operations
<1>2. req[r].at \in {"mapKey", "unmapKey"} => req[r].key \in Keys
  BY <1>0 DEF ReqOK
<1>3. keyTable' \subseteq Keys /\ apiKeys' \subseteq Keys /\ keyRaced' \subseteq Keys
  BY <1>1, <1>2 DEF AddAPIKey, MapKey, DeleteAPIKey, UnmapKey, Unmapped, Goes, TypeOK
<1>4. UNCHANGED <<accounts, clients, tunnels, server, calls, faults>>
  BY DEF AddAPIKey, MapKey, DeleteAPIKey, UnmapKey, Goes
<1> QED BY <1>3, <1>4 DEF TypeOK, accounts, tunnels, server

LEMMA UsersType ==
  ASSUME TypeOK, ReqInv, NEW r \in Requests, tokens' \in 0 .. calls',
         CreateUser(r) \/ DeleteUser(r) \/ SetUserStatus(r) \/ ResetUserToken(r)
  PROVE  TypeOK'
<1>0. ReqOK(req[r]) /\ tokens \in Nat
  BY DEF ReqInv, TypeOK
<1>1. req[r].at \in {"createUser", "deleteUser", "setStatus", "resetToken"}
  BY DEF CreateUser, DeleteUser, SetUserStatus, ResetUserToken
<1>2. PICK u \in Users : u = req[r].arg.user
  BY <1>0, <1>1, InputTypes DEF ReqOK, Operations
<1>3. req[r].at = "setStatus" => req[r].arg.active \in BOOLEAN
  BY <1>0, StatusType DEF ReqOK, Operations
<1>4. tokens' = tokens \/ tokens' = tokens + 1
  BY DEF CreateUser, DeleteUser, SetUserStatus, ResetUserToken
<1> DEFINE Row == [active : BOOLEAN, token : 0 .. tokens]
<1>5. \A row \in Row : row \in Row'
  BY <1>0, <1>4
<1>6. users[u] # None => users[u] \in Row
  BY DEF TypeOK
<1>7. PICK new \in Row' \cup {None} :
        users' = users \/ users' = [users EXCEPT ![u] = new]
  <2>1. CASE CreateUser(r)
    <3>1. [active |-> TRUE, token |-> tokens'] \in Row'
      BY <1>0, <2>1 DEF CreateUser
    <3> QED BY <1>2, <2>1, <3>1 DEF CreateUser, UserStatement
  <2>2. CASE DeleteUser(r)
    BY <1>2, <2>2 DEF DeleteUser, UserStatement
  <2>3. CASE SetUserStatus(r)
    <3>1. CASE users[u] = None
      <4>1. users' = users
        BY <1>2, <2>3, <3>1 DEF SetUserStatus, UserStatement
      <4> QED BY <4>1
    <3>2. CASE users[u] # None
      <4>1. tokens' = tokens /\ req[r].at = "setStatus"
        BY <2>3 DEF SetUserStatus
      <4>2. [active |-> req[r].arg.active, token |-> users[u].token] \in Row'
        BY <1>3, <1>6, <3>2, <4>1
      <4> QED BY <1>2, <2>3, <4>2 DEF SetUserStatus, UserStatement
    <3> QED BY <3>1, <3>2
  <2>4. CASE ResetUserToken(r)
    <3>1. CASE users[u] = None
      <4>1. users' = users
        BY <1>2, <2>4, <3>1 DEF ResetUserToken, UserStatement
      <4> QED BY <4>1
    <3>2. CASE users[u] # None
      <4>1. [active |-> users[u].active, token |-> tokens'] \in Row'
        BY <1>0, <1>4, <1>6, <3>2
      <4> QED BY <1>2, <2>4, <4>1 DEF ResetUserToken, UserStatement
    <3> QED BY <3>1, <3>2
  <2> QED BY <2>1, <2>2, <2>3, <2>4
<1>8. users' \in [Users -> Row' \cup {None}]
  <2>1. users \in [Users -> Row' \cup {None}]
    BY <1>5 DEF TypeOK
  <2> QED BY <1>7, <2>1
<1>9. UNCHANGED <<keys, clients, tunnels, server, calls, faults>>
  BY DEF CreateUser, DeleteUser, SetUserStatus, ResetUserToken, UserStatement, Goes
<1> QED BY <1>8, <1>9 DEF TypeOK, keys, tunnels, server

LEMMA ManagedType ==
  ASSUME TypeOK, ReqInv, NEW r \in Requests, tokens' \in 0 .. calls',
         AddManagedClient(r) \/ RemoveManagedClient(r)
  PROVE  TypeOK'
<1>0. ReqOK(req[r])
  BY DEF ReqInv
<1>1. CASE AddManagedClient(r)
  <2>1. req[r].at = "addClient"
    BY <1>1 DEF AddManagedClient
  <2>2. /\ req[r].arg.client \in Clients /\ req[r].arg.max \in Limits
        /\ req[r].id \in Identities
    BY <1>0, <2>1, InputTypes DEF ReqOK, Operations
  <2>3. [owner |-> req[r].id.user, max |-> req[r].arg.max]
          \in [owner : Users \cup {Nobody}, max : Limits]
    BY <2>2 DEF Identities
  <2>4. /\ clients' \in [Clients -> [owner : Users \cup {Nobody}, max : Limits] \cup {None}]
        /\ lifted' \subseteq Clients
    BY <1>1, <2>2, <2>3 DEF AddManagedClient, TypeOK
  <2> QED BY <1>1, <2>4 DEF AddManagedClient, Goes, TypeOK, keys, accounts, server
<1>2. CASE RemoveManagedClient(r)
  <2>1. clients' \in [Clients -> [owner : Users \cup {Nobody}, max : Limits] \cup {None}]
    BY <1>2 DEF RemoveManagedClient, TypeOK
  <2>2. conn' \in [Conns -> {"off", "on", "lost", "closing"}]
    BY <1>2 DEF RemoveManagedClient, CloseHeld, TypeOK
  <2> QED BY <1>2, <2>1, <2>2 DEF RemoveManagedClient, Goes, TypeOK, keys, accounts, tunnels
<1> QED BY <1>1, <1>2

LEMMA TunnelsType ==
  ASSUME TypeOK, ReqInv, NEW r \in Requests, tokens' \in 0 .. calls',
         CreateProxy(r) \/ PathWrite(r)
  PROVE  TypeOK'
<1>0. ReqOK(req[r])
  BY DEF ReqInv
<1>1. CASE CreateProxy(r)
  <2>1. PICK t \in Tunnels : t = req[r].tunnel
    BY <1>0, <1>1 DEF CreateProxy, ReqOK
  <2>2. rows' \in [Tunnels -> BOOLEAN \cup {None}]
    <3>1. rows' = rows \/ rows' = [rows EXCEPT ![t] = TRUE]
      BY <1>1, <2>1 DEF CreateProxy
    <3> QED BY <3>1, Zenon DEF TypeOK
  <2>3. overlapped' \subseteq Clients
    <3>1. t[1] \in Clients
      BY TunnelTypes
    <3> QED BY <1>1, <2>1, <3>1 DEF CreateProxy, TypeOK
  <2> QED BY <1>1, <2>2, <2>3 DEF CreateProxy, Goes, TypeOK, keys, accounts, server
<1>2. CASE PathWrite(r)
  <2>1. req[r].row \in BOOLEAN \cup {None} /\ rows \in [Tunnels -> BOOLEAN \cup {None}]
    BY <1>0, <1>2 DEF PathWrite, ReqOK, TypeOK
  <2>2. rows' = [t \in Tunnels |-> IF t \in Named(req[r].arg.name) THEN req[r].row ELSE rows[t]]
    BY <1>2 DEF PathWrite
  <2>3. rows' \in [Tunnels -> BOOLEAN \cup {None}]
    BY <2>1, <2>2
  <2>4. \A t \in Named(req[r].arg.name) : t[1] \in Clients
    BY TunnelTypes DEF Named
  <2>5. lifted' \subseteq Clients /\ missed' \subseteq Clients
    BY <1>2, <2>4 DEF PathWrite, TypeOK
  <2> QED BY <1>2, <2>3, <2>5 DEF PathWrite, Goes, TypeOK, keys, accounts
<1> QED BY <1>1, <1>2

LEMMA StopsType ==
  ASSUME TypeOK, ReqInv, NEW r \in Requests, tokens' \in 0 .. calls',
         CloseProxy(r) \/ NotifyClientSync(r) \/ CloseOnly(r)
  PROVE  TypeOK'
<1>0. ReqOK(req[r])
  BY DEF ReqInv
<1>1. CASE CloseProxy(r) \/ CloseOnly(r)
  <2>1. running' \in [Names -> Conns \cup {None}]
    BY <1>1 DEF CloseProxy, CloseOnly, TypeOK
  <2> QED BY <1>1, <2>1 DEF CloseProxy, CloseOnly, Goes, TypeOK, keys, accounts, tunnels
<1>2. CASE NotifyClientSync(r)
  <2>1. req[r].client \in Clients
    BY <1>0, <1>2 DEF NotifyClientSync, ReqOK
  <2>2. conn' \in [Conns -> {"off", "on", "lost", "closing"}] /\ missed' \subseteq Clients
    BY <1>2, <2>1 DEF NotifyClientSync, Held, TypeOK
  <2> QED BY <1>2, <2>2 DEF NotifyClientSync, Goes, TypeOK, keys, accounts, tunnels
<1> QED BY <1>1, <1>2

LEMMA FailsType ==
  ASSUME TypeOK, ReqInv, NEW r \in Requests, tokens' \in 0 .. calls', StoreFails(r)
  PROVE  TypeOK'
<1>1. faults' \in 0 .. MaxFaults
  BY FailsKeep, BoundAssumption DEF TypeOK
<1>2. lifted' \subseteq Clients
  <2>1. CASE QuotaReadFails(r)
    <3>1. req[r].tunnel[1] \in Clients
      BY <2>1, TunnelTypes DEF QuotaReadFails, ReqInv, ReqOK
    <3> QED BY <2>1, <3>1 DEF QuotaReadFails, TypeOK
  <2>2. CASE StatementFails(r) \/ RemoveRowFails(r)
    BY <2>2 DEF StatementFails, RemoveRowFails, tunnels, TypeOK
  <2> QED BY <2>1, <2>2 DEF StoreFails
<1>3. conn' \in [Conns -> {"off", "on", "lost", "closing"}]
  BY DEF StoreFails, StatementFails, QuotaReadFails, RemoveRowFails, CloseHeld, server, TypeOK
<1> QED BY <1>1, <1>2, <1>3, FailsKeep DEF TypeOK, keys, accounts

\* The connections of the clients, and the process.
LEMMA ProcessType ==
  ASSUME TypeOK, tokens' \in 0 .. calls',
         (\E k \in Conns : ClientStep(k) \/ Cleanup(k)) \/ Restart
  PROVE  TypeOK'
<1>1. ASSUME NEW k \in Conns, ClientStep(k) \/ Cleanup(k) PROVE TypeOK'
  <2>1. UNCHANGED <<keys, accounts, clients, tunnels, missed, calls>>
    BY <1>1 DEF ClientStep, Connect, SyncProxies, SyncFails, ConnLost,
       LossNoticed, NewProxy, Cleanup, Calm
  <2>2. conn' \in [Conns -> {"off", "on", "lost", "closing"}]
    BY <1>1 DEF ClientStep, Connect, SyncProxies, SyncFails, ConnLost,
       LossNoticed, NewProxy, Cleanup, TypeOK
  <2>3. running' \in [Names -> Conns \cup {None}]
    BY <1>1 DEF ClientStep, Connect, SyncProxies, SyncFails, ConnLost,
       LossNoticed, NewProxy, Registered,
       Cleanup, TypeOK
  <2>4. list' \in [Conns -> (SUBSET Names) \cup {None}]
    <3>1. CASE SyncProxies(k)
      <4>1. {t[2] : t \in Enabled(k[1])} \in SUBSET Names
        BY TunnelTypes DEF Enabled
      <4> QED BY <3>1, <4>1 DEF SyncProxies, TypeOK
    <3>2. ASSUME NEW n \in Names, NewProxy(k, n) PROVE list' \in [Conns -> (SUBSET Names) \cup {None}]
      <4>1. list[k] \in SUBSET Names
        BY <3>2 DEF NewProxy, TypeOK
      <4>2. list[k] \ {n} \in SUBSET Names
        BY <4>1
      <4> QED BY <3>2, <4>2 DEF NewProxy, TypeOK
    <3>3. CASE SyncFails(k) \/ Connect(k) \/ ConnLost(k) \/ LossNoticed(k) \/ Cleanup(k)
      BY <3>3 DEF SyncFails, Connect, ConnLost, LossNoticed, Cleanup, TypeOK
    <3> QED BY <1>1, <3>1, <3>2, <3>3 DEF ClientStep
  <2>5. faults' \in 0 .. MaxFaults
    <3>1. faults' = faults \/ (faults < MaxFaults /\ faults' = faults + 1)
      BY <1>1 DEF ClientStep, Connect, SyncProxies, SyncFails, ConnLost, LossNoticed, NewProxy,
         Cleanup, StoreError
    <3> QED BY <3>1, BoundAssumption DEF TypeOK
  <2> QED BY <2>1, <2>2, <2>3, <2>4, <2>5 DEF TypeOK, keys, accounts, tunnels
<1>2. CASE Restart
  <2>1. keyTable' \subseteq Keys /\ apiKeys' \subseteq Keys /\ keyRaced' \subseteq Keys
    BY <1>2, ConfigAssumption DEF Restart, TypeOK
  <2>2. faults' \in 0 .. MaxFaults
    BY <1>2, BoundAssumption DEF Restart, TypeOK
  <2>3. /\ running' \in [Names -> Conns \cup {None}]
        /\ conn' \in [Conns -> {"off", "on", "lost", "closing"}]
        /\ list' \in [Conns -> (SUBSET Names) \cup {None}]
    BY <1>2 DEF Restart
  <2> QED BY <1>2, <2>1, <2>2, <2>3 DEF Restart, TypeOK, accounts, tunnels
<1> QED BY <1>1, <1>2

LEMMA NextType ==
  ASSUME TypeOK, ReqInv, TokensInv, [Next]_vars
  PROVE  TypeOK'
<1>0. tokens' \in 0 .. calls'
  BY NextTokens
<1>1. CASE UNCHANGED vars
  BY <1>1 DEF vars, TypeOK, keys, accounts, tunnels, server
<1>2. ASSUME NEW r \in Requests, RequestStep(r) PROVE TypeOK'
  BY <1>0, <1>2, ReadsType, KeysType, UsersType, ManagedType, TunnelsType, StopsType
     DEF RequestStep
<1> QED BY <1>0, <1>1, <1>2, ReadsType, FailsType, ProcessType DEF Next

LEMMA InitType ==
  Init => TypeOK /\ ReqInv /\ TokensInv
<1> SUFFICES ASSUME Init PROVE TypeOK /\ ReqInv /\ TokensInv
  OBVIOUS
<1>1. ReqInv
  BY IdleOK DEF Init, ReqInv
<1>2. TokensInv
  <2>1. Busy = {}
    BY DEF Init, Busy, Idle
  <2> QED BY <2>1, FS_EmptySet DEF Init, TokensInv
<1>3. users \in [Users -> [active : BOOLEAN, token : 0 .. tokens] \cup {None}]
  BY DEF Init
<1>4. clients \in [Clients -> [owner : Users \cup {Nobody}, max : Limits] \cup {None}]
  <2>1. PICK m \in Limits : clients = [c \in Clients |-> [owner |-> Owner[c], max |-> m]]
    BY DEF Init
  <2> QED BY <2>1, OwnerAssumption
<1>5. rows \in [Tunnels -> BOOLEAN \cup {None}]
  <2>1. PICK D \in Databases : rows = [t \in Tunnels |-> IF t \in D THEN TRUE ELSE None]
    BY DEF Init
  <2> QED BY <2>1
<1>6. /\ running \in [Names -> Conns \cup {None}]
      /\ conn \in [Conns -> {"off", "on", "lost", "closing"}]
      /\ list \in [Conns -> (SUBSET Names) \cup {None}]
  BY DEF Init
<1> QED BY <1>1, <1>2, <1>3, <1>4, <1>5, <1>6, ConfigAssumption, BoundAssumption DEF Init, TypeOK

-----------------------------------------------------------------------------
(* Which step leads where, and what the others leave alone.                *)

KeySteps == {"mapKey", "unmapKey"}
StopSteps == {"close", "notify"}

\* A call that arrives takes a free request and changes nothing else.
LEMMA ArrivalFrom ==
  ASSUME NEW r \in Requests, Arrival(r)
  PROVE  req[r].at = "idle" /\ UNCHANGED <<keys, accounts, clients, tunnels, server>>
<1>1. req[r] = Idle
  <2>1. Free(r)
    BY DEF Arrival, KeyCall, KeyUnread, TokenCall
  <2> QED BY <2>1 DEF Free
<1>2. UNCHANGED <<keys, accounts, clients, tunnels, server>>
  BY DEF Arrival, KeyCall, KeyUnread, TokenCall
<1> QED BY <1>1, <1>2 DEF Idle

\* Where a request comes to, by the step that it takes.
LeadsTo(r) ==
  /\ req'[r].at \in KeySteps => AddAPIKey(r) \/ DeleteAPIKey(r)
  /\ req'[r].at = "count" => CreateLimit(r)
  /\ req'[r].at = "insert" => CreateLimit(r) \/ CreateCount(r)

LEMMA HandlerLeads ==
  ASSUME ReqInv, NEW r \in Requests, Arrival(r) \/ RequestStep(r)
  PROVE  /\ \E to : req' = [req EXCEPT ![r] = to]
         /\ \A q \in Requests : q # r => req'[q] = req[q]
         /\ LeadsTo(r)
<1>0. ReqOK(req[r]) /\ Idle.at = "idle" /\ r \in DOMAIN req
  BY DEF ReqInv, Idle
<1>a. ASSUME NEW op \in Inputs, NEW id PROVE Admitted(op, id).at \notin KeySteps \cup {"count", "insert"}
  BY InputTypes DEF Admitted, Operations, KeySteps
<1>b. \E to : req' = [req EXCEPT ![r] = to]
  <2>1. CASE RequestStep(r)
    BY <2>1, HandlerSteps
  <2>2. CASE Arrival(r)
    BY <2>2 DEF Arrival, KeyCall, KeyUnread, TokenCall
  <2> QED BY <2>1, <2>2
<1>c. \A q \in Requests : q # r => req'[q] = req[q]
  BY <1>b, Moved
<1>1. CASE Arrival(r)
  <2>1. PICK op \in Inputs : (\E k \in Keys : KeyCall(r, k, op) \/ KeyUnread(r, k, op))
                             \/ \E u \in Users, n \in 0 .. tokens : TokenCall(r, u, n, op)
    BY <1>1 DEF Arrival
  <2>2. \/ \E id : req'[r] = Admitted(op, id)
        \/ req'[r].at = "map"
    <3>1. ASSUME NEW k \in Keys, KeyCall(r, k, op) \/ KeyUnread(r, k, op)
          PROVE  req'[r] = Admitted(op, Admin) \/ req'[r].at = "map"
      BY <1>0, <3>1 DEF KeyCall, KeyUnread
    <3>2. ASSUME NEW u \in Users, NEW n, TokenCall(r, u, n, op)
          PROVE  req'[r] = Admitted(op, [admin |-> FALSE, user |-> u])
      BY <1>0, <3>2 DEF TokenCall
    <3> QED BY <2>1, <3>1, <3>2
  <2> QED BY <1>a, <1>b, <1>c, <2>2 DEF LeadsTo, KeySteps
<1>2. CASE MapDecides(r)
  <2>1. req[r].arg \in Inputs
    BY <1>0, <1>2 DEF MapDecides, Goes, ReqOK
  <2>2. req'[r] \in {Admitted(req[r].arg, Admin), Idle}
    BY <1>0, <1>2 DEF MapDecides, Goes
  <2> QED BY <1>0, <1>a, <1>b, <1>c, <2>1, <2>2 DEF LeadsTo, KeySteps
<1>3. CASE AddAPIKey(r) \/ DeleteAPIKey(r)
  <2>1. req'[r].at \in KeySteps \cup {"idle"}
    BY <1>0, <1>3 DEF AddAPIKey, DeleteAPIKey, Goes, KeySteps
  <2> QED BY <1>3, <1>b, <1>c, <2>1 DEF LeadsTo, KeySteps
<1>4. CASE CreateLimit(r)
  <2>1. req'[r].at \in {"insert", "count"}
    BY <1>0, <1>4 DEF CreateLimit, Goes
  <2> QED BY <1>4, <1>b, <1>c, <2>1 DEF LeadsTo, KeySteps
<1>5. CASE CreateCount(r)
  <2>1. req'[r].at \in {"insert", "idle"}
    BY <1>0, <1>5 DEF CreateCount, Goes
  <2> QED BY <1>5, <1>b, <1>c, <2>1 DEF LeadsTo, KeySteps
<1>6. CASE \/ MapKey(r) \/ UnmapKey(r)
           \/ CreateUser(r) \/ DeleteUser(r) \/ SetUserStatus(r) \/ ResetUserToken(r)
           \/ AddManagedClient(r) \/ RemoveManagedClient(r) \/ CloseOnly(r) \/ NotifyClientSync(r)
  <2>1. req' = [req EXCEPT ![r] = Idle]
    BY <1>6 DEF MapKey, UnmapKey, CreateUser, DeleteUser, SetUserStatus, ResetUserToken,
       UserStatement, AddManagedClient, RemoveManagedClient, CloseOnly, NotifyClientSync, Goes
  <2>2. req'[r].at = "idle"
    BY <1>0, <2>1
  <2> QED BY <1>b, <1>c, <2>2 DEF LeadsTo, KeySteps
<1>7. CASE \/ RemoveAccess(r) \/ CreateAccess(r) \/ CreateProxy(r) \/ PathAccess(r)
           \/ PathOwner(r) \/ PathGet(r) \/ PathWrite(r) \/ CloseProxy(r)
  <2>1. req'[r].at \in {"idle", "remove", "limit", "notify", "get", "owner", "write", "close"}
    <3>1. CASE RemoveAccess(r)
      BY <1>0, <3>1 DEF RemoveAccess, Goes
    <3>2. CASE CreateAccess(r)
      BY <1>0, <3>2 DEF CreateAccess, Goes
    <3>3. CASE CreateProxy(r)
      BY <1>0, <3>3 DEF CreateProxy, Goes
    <3>4. CASE PathAccess(r)
      BY <1>0, <3>4 DEF PathAccess, Goes
    <3>5. CASE PathOwner(r)
      BY <1>0, <3>5 DEF PathOwner, Goes
    <3>6. CASE PathGet(r)
      <4>1. CASE req' = [req EXCEPT ![r] = Idle]
        BY <1>0, <4>1
      <4>2. CASE req' # [req EXCEPT ![r] = Idle]
        <5>1. PICK t \in Named(req[r].arg.name) :
                req' = [req EXCEPT ![r] =
                          [at |-> "write", id |-> req[r].id, arg |-> req[r].arg, client |-> t[1],
                           row |-> CASE req[r].arg.to = "enable" -> TRUE
                                     [] req[r].arg.to = "disable" -> FALSE
                                     [] req[r].arg.to = "patch" -> rows[t]
                                     [] req[r].arg.to = "delete" -> None]]
          BY <3>6, <4>2 DEF PathGet, Goes
        <5> QED BY <1>0, <5>1
      <4> QED BY <4>1, <4>2
    <3>7. CASE PathWrite(r)
      BY <1>0, <3>7 DEF PathWrite, Goes
    <3>8. CASE CloseProxy(r)
      BY <1>0, <3>8 DEF CloseProxy, Goes
    <3> QED BY <1>7, <3>1, <3>2, <3>3, <3>4, <3>5, <3>6, <3>7, <3>8
  <2> QED BY <1>b, <1>c, <2>1 DEF LeadsTo, KeySteps
<1> QED BY <1>1, <1>2, <1>3, <1>4, <1>5, <1>6, <1>7 DEF RequestStep

-----------------------------------------------------------------------------
(* Keys.                                                                   *)

LEMMA KeyFrame ==
  ASSUME KeyInv, NEW r \in Requests, \A q \in Requests : q # r => req'[q] = req[q],
         req[r].at \notin KeySteps, req'[r].at \notin KeySteps, UNCHANGED keys
  PROVE  KeyInv'
<1>1. \A k \in Keys : KeyWriters(k)' = KeyWriters(k)
  BY DEF KeyWriters, KeySteps
<1>2. \A k \in Keys : \A q \in KeyWriters(k) : req'[q] = req[q]
  BY DEF KeyWriters, KeySteps
<1> QED BY <1>1, <1>2 DEF KeyInv, keys

\* The table is changed: from now on r is the writer of the key.
LEMMA KeyBegins ==
  ASSUME ReqInv, KeyInv, NEW r \in Requests, AddAPIKey(r) \/ DeleteAPIKey(r)
  PROVE  KeyInv'
<1> PICK k0 : k0 = req[r].arg.key
  OBVIOUS
<1>0. /\ req[r].at \notin KeySteps /\ Idle.at \notin KeySteps
      /\ req[r].at \in {"addKey", "deleteKey"} /\ apiKeys' = apiKeys
  BY DEF AddAPIKey, DeleteAPIKey, KeySteps, Idle
<1>1. CASE req' = [req EXCEPT ![r] = Idle] /\ UNCHANGED <<keyTable, keyRaced>>
  <2>1. req'[r] = Idle /\ \A q \in Requests : q # r => req'[q] = req[q]
    BY <1>1, Moved
  <2> QED BY <1>0, <1>1, <2>1, KeyFrame DEF keys
<1>2. CASE ~(req' = [req EXCEPT ![r] = Idle] /\ UNCHANGED <<keyTable, keyRaced>>)
  <2>1. PICK at \in KeySteps :
          /\ req' = [req EXCEPT ![r] = [at |-> at, key |-> k0]]
          /\ keyTable' = IF at = "mapKey" THEN keyTable \cup {k0} ELSE keyTable \ {k0}
          /\ keyRaced' = IF KeyWriters(k0) = {} THEN keyRaced ELSE keyRaced \cup {k0}
    BY <1>2 DEF AddAPIKey, DeleteAPIKey, Goes, KeySteps
  <2>2. req'[r] = [at |-> at, key |-> k0] /\ \A q \in Requests : q # r => req'[q] = req[q]
    BY <2>1, Moved
  <2>3. req'[r].at = at /\ req'[r].key = k0
    BY <2>2
  <2>4. ASSUME NEW k \in Keys \ keyRaced', k # k0
        PROVE  /\ KeyWriters(k)' = KeyWriters(k)
               /\ k \notin keyRaced /\ (k \in keyTable' <=> k \in keyTable)
               /\ \A q \in KeyWriters(k) : req'[q] = req[q]
    BY <1>0, <2>1, <2>2, <2>3, <2>4 DEF KeyWriters, KeySteps
  <2>5. ASSUME k0 \notin keyRaced' PROVE KeyWriters(k0)' = {r}
    <3>1. KeyWriters(k0) = {}
      BY <2>1, <2>5
    <3> QED BY <2>2, <2>3, <3>1 DEF KeyWriters, KeySteps
  <2>6. k0 \in keyTable' <=> at = "mapKey"
    BY <2>1
  <2>7. ASSUME NEW k \in Keys \ keyRaced'
        PROVE  /\ \A p, q \in KeyWriters(k)' : p = q
               /\ \A q \in KeyWriters(k)' : req'[q].at = "mapKey" <=> k \in keyTable'
               /\ KeyWriters(k)' = {} => (k \in keyTable' <=> k \in apiKeys')
    <3>1. CASE k = k0
      BY <2>3, <2>5, <2>6, <2>7, <3>1
    <3>2. CASE k # k0
      <4>1. /\ \A p, q \in KeyWriters(k) : p = q
            /\ \A q \in KeyWriters(k) : req[q].at = "mapKey" <=> k \in keyTable
            /\ KeyWriters(k) = {} => (k \in keyTable <=> k \in apiKeys)
        BY <2>4, <2>7, <3>2 DEF KeyInv
      <4> QED BY <1>0, <2>4, <2>7, <3>2, <4>1
    <3> QED BY <3>1, <3>2
  <2> QED BY <2>7 DEF KeyInv
<1> QED BY <1>1, <1>2

\* The map follows, and nobody writes the key any more.
LEMMA KeyEnds ==
  ASSUME ReqInv, KeyInv, NEW r \in Requests, MapKey(r) \/ UnmapKey(r)
  PROVE  KeyInv'
<1> DEFINE k0 == req[r].key
<1>1. /\ req' = [req EXCEPT ![r] = Idle] /\ UNCHANGED <<keyTable, keyRaced>>
      /\ req[r].at \in KeySteps
      /\ apiKeys' = IF req[r].at = "mapKey" THEN apiKeys \cup {k0} ELSE apiKeys \ {k0}
  BY DEF MapKey, UnmapKey, Unmapped, Goes, KeySteps
<1>2. req'[r].at = "idle" /\ \A q \in Requests : q # r => req'[q] = req[q]
  BY <1>1, Moved, IdleOK
<1>3. \A k \in Keys : KeyWriters(k)' = KeyWriters(k) \ {r}
  BY <1>2 DEF KeyWriters
<1>4. r \in KeyWriters(k0) /\ \A k \in Keys : k # k0 => r \notin KeyWriters(k)
  BY <1>1 DEF KeyWriters, KeySteps
<1>5. ASSUME NEW k \in Keys \ keyRaced
      PROVE  /\ \A p, q \in KeyWriters(k)' : p = q
             /\ \A q \in KeyWriters(k)' : req'[q].at = "mapKey" <=> k \in keyTable'
             /\ KeyWriters(k)' = {} => (k \in keyTable' <=> k \in apiKeys')
  <2>1. /\ \A p, q \in KeyWriters(k) : p = q
        /\ \A q \in KeyWriters(k) : req[q].at = "mapKey" <=> k \in keyTable
        /\ KeyWriters(k) = {} => (k \in keyTable <=> k \in apiKeys)
    BY DEF KeyInv
  <2>2. \A q \in KeyWriters(k)' : q \in KeyWriters(k) /\ req'[q] = req[q]
    BY <1>2, <1>3 DEF KeyWriters
  <2>3. CASE k = k0
    BY <1>1, <1>4, <2>1, <2>2, <2>3 DEF KeySteps
  <2>4. CASE k # k0
    <3>1. KeyWriters(k)' = KeyWriters(k) /\ (k \in apiKeys' <=> k \in apiKeys)
      BY <1>1, <1>3, <1>4, <2>4
    <3> QED BY <1>1, <2>1, <2>2, <3>1
  <2> QED BY <2>3, <2>4
<1> QED BY <1>1, <1>5 DEF KeyInv

LEMMA NextKeys ==
  ASSUME ReqInv, KeyInv, [Next]_vars
  PROVE  KeyInv'
<1>1. ASSUME NEW r \in Requests, Arrival(r) \/ RequestStep(r),
             ~(AddAPIKey(r) \/ DeleteAPIKey(r) \/ MapKey(r) \/ UnmapKey(r))
      PROVE  KeyInv'
  <2>1. LeadsTo(r) /\ \A q \in Requests : q # r => req'[q] = req[q]
    BY <1>1, HandlerLeads
  <2>2. req[r].at \notin KeySteps
    <3>1. CASE Arrival(r)
      BY <3>1, ArrivalFrom DEF KeySteps
    <3>2. CASE RequestStep(r)
      BY <1>1, <3>2 DEF RequestStep, MapDecides, CreateUser, DeleteUser, SetUserStatus,
         ResetUserToken, AddManagedClient, RemoveAccess, RemoveManagedClient, CreateAccess,
         CreateLimit, CreateCount, CreateProxy, PathAccess, PathOwner, PathGet, PathWrite,
         CloseProxy, NotifyClientSync, CloseOnly, Goes, KeySteps
    <3> QED BY <1>1, <3>1, <3>2
  <2>3. UNCHANGED keys
    BY <1>1 DEF Arrival, KeyCall, KeyUnread, TokenCall, RequestStep, MapDecides, CreateUser,
       DeleteUser, SetUserStatus, ResetUserToken, UserStatement, AddManagedClient, RemoveAccess,
       RemoveManagedClient, CreateAccess, CreateLimit, CreateCount, CreateProxy, PathAccess,
       PathOwner, PathGet, PathWrite, CloseProxy, NotifyClientSync, CloseOnly
  <2> QED BY <1>1, <2>1, <2>2, <2>3, KeyFrame DEF LeadsTo
<1>2. CASE Restart
  <2>1. \A k \in Keys : KeyWriters(k)' = {}
    BY <1>2 DEF Restart, KeyWriters, Idle
  <2> QED BY <1>2, <2>1 DEF Restart, KeyInv
<1>3. CASE (\E k \in Conns : ClientStep(k) \/ Cleanup(k)) \/ UNCHANGED vars
  <2>1. UNCHANGED <<req, keys>>
    BY <1>3 DEF ClientStep, Connect, SyncProxies, SyncFails, ConnLost,
       LossNoticed, NewProxy, Cleanup, Calm, vars
  <2> QED BY <2>1 DEF KeyInv, KeyWriters, keys
<1>4. ASSUME NEW r \in Requests, StoreFails(r) PROVE KeyInv'
  BY <1>4, FailsLead, FailsKeep, KeyFrame DEF KeySteps
<1> QED BY <1>1, <1>2, <1>3, <1>4, KeyBegins, KeyEnds DEF Next

-----------------------------------------------------------------------------
(* The limit of a client.                                                  *)

LEMMA CountsFinite ==
  ASSUME NEW c
  PROVE  /\ IsFiniteSet(Enabled(c)) /\ Cardinality(Enabled(c)) \in Nat
         /\ IsFiniteSet(Inserters(c)) /\ Cardinality(Inserters(c)) \in Nat
         /\ IsFiniteSet(Enabled(c)') /\ Cardinality(Enabled(c)') \in Nat
         /\ IsFiniteSet(Inserters(c)') /\ Cardinality(Inserters(c)') \in Nat
         /\ Cardinality(Requests) \in Nat
<1>1. IsFiniteSet(Enabled(c)) /\ IsFiniteSet(Enabled(c)')
  BY FiniteAssumption, FS_Subset DEF Enabled
<1>2. IsFiniteSet(Inserters(c)) /\ IsFiniteSet(Inserters(c)')
  BY FiniteAssumption, FS_Subset DEF Inserters
<1> QED BY <1>1, <1>2, FiniteAssumption, FS_CardinalityType

LEMMA LimitType ==
  ASSUME TypeOK, NEW c \in Clients, Counted(c)
  PROVE  clients[c].max \in Nat
BY LimitAssumption DEF TypeOK, Counted

\* Fewer tunnels and fewer that are about to insert.
LEMMA QuotaFewer ==
  ASSUME TypeOK, NEW c \in Clients, Counted(c), QuotaAt(c), clients'[c] = clients[c],
         overlapped' = overlapped, Enabled(c)' \subseteq Enabled(c),
         Inserters(c)' \subseteq Inserters(c),
         \A q \in Requests : req'[q].at = "count" /\ req'[q].tunnel[1] = c
           => req'[q].limit = clients[c].max
  PROVE  QuotaAt(c)'
<1>1. clients[c].max \in Nat
  BY LimitType
<1>2. Cardinality(Enabled(c)') <= Cardinality(Enabled(c))
  BY CountsFinite, FS_Subset
<1>3. Cardinality(Inserters(c)') <= Cardinality(Inserters(c))
  BY CountsFinite, FS_Subset
<1> QED BY <1>1, <1>2, <1>3, CountsFinite DEF QuotaAt

\* A request that comes neither to the count nor to the insertion.
LEMMA QuotaFrame ==
  ASSUME TypeOK, QuotaInv, NEW r \in Requests, \A q \in Requests : q # r => req'[q] = req[q],
         req'[r].at \notin {"count", "insert"},
         NEW c \in Clients, Counted(c), clients'[c] = clients[c],
         overlapped' = overlapped, Enabled(c)' \subseteq Enabled(c)
  PROVE  QuotaAt(c)'
<1>1. QuotaAt(c)
  BY DEF QuotaInv
<1>2. Inserters(c)' \subseteq Inserters(c)
  BY DEF Inserters
<1>3. \A q \in Requests : req'[q].at = "count" /\ req'[q].tunnel[1] = c
        => req'[q].limit = clients[c].max
  BY <1>1 DEF QuotaAt
<1> QED BY <1>1, <1>2, <1>3, QuotaFewer

\* The limit that is read is the client's, and no limit lets nobody through
\* whose client has one.
LEMMA QuotaLimit ==
  ASSUME TypeOK, ReqInv, QuotaInv, NEW r \in Requests, CreateLimit(r)
  PROVE  QuotaInv'
<1>1. UNCHANGED <<clients, tunnels>>
  BY DEF CreateLimit
<1>2. PICK t \in Tunnels : t = req[r].tunnel
  BY DEF CreateLimit, ReqInv, ReqOK
<1>3. \A q \in Requests : q # r => req'[q] = req[q]
  BY Moved DEF CreateLimit, Goes
<1>4. ASSUME NEW c \in Clients, Counted(c) PROVE QuotaAt(c)'
  <2>1. QuotaAt(c)
    BY <1>4 DEF QuotaInv
  <2>2. CASE c # t[1]
    <3>1. req'[r].tunnel[1] # c
      BY <1>2, <2>2 DEF CreateLimit, Goes, ReqInv
    <3>2. Inserters(c)' \subseteq Inserters(c)
      BY <1>3, <3>1 DEF Inserters
    <3>3. Enabled(c)' = Enabled(c)
      BY <1>1 DEF Enabled, tunnels
    <3>4. \A q \in Requests : req'[q].at = "count" /\ req'[q].tunnel[1] = c
            => req'[q].limit = clients[c].max
      BY <1>3, <2>1, <3>1 DEF QuotaAt
    <3> QED BY <1>1, <1>4, <2>1, <3>2, <3>3, <3>4, QuotaFewer DEF tunnels
  <2>3. CASE c = t[1]
    <3>0. clients[t[1]] # None /\ clients[t[1]].max # 0
      BY <1>4, <2>3 DEF Counted
    <3>1. req'[r] = [at |-> "count", tunnel |-> t, limit |-> clients[c].max]
      BY <1>2, <2>3, <3>0 DEF CreateLimit, Goes, ReqInv
    <3>2. Inserters(c)' \subseteq Inserters(c)
      BY <1>3, <3>1 DEF Inserters
    <3>3. Enabled(c)' = Enabled(c)
      BY <1>1 DEF Enabled, tunnels
    <3>4. \A q \in Requests : req'[q].at = "count" /\ req'[q].tunnel[1] = c
            => req'[q].limit = clients[c].max
      BY <1>3, <2>1, <3>1 DEF QuotaAt
    <3> QED BY <1>1, <1>4, <2>1, <3>2, <3>3, <3>4, QuotaFewer DEF tunnels
  <2> QED BY <2>2, <2>3
<1> QED BY <1>1, <1>4 DEF QuotaInv, Counted, tunnels

\* Who has counted less than the limit may insert.
LEMMA QuotaCount ==
  ASSUME TypeOK, ReqInv, QuotaInv, NEW r \in Requests, CreateCount(r)
  PROVE  QuotaInv'
<1>1. UNCHANGED <<clients, tunnels>> /\ req[r].at = "count"
  BY DEF CreateCount
<1>2. PICK t \in Tunnels : t = req[r].tunnel
  BY <1>1 DEF ReqInv, ReqOK
<1>3. \A q \in Requests : q # r => req'[q] = req[q]
  BY Moved DEF CreateCount, Goes
<1>4. ASSUME NEW c \in Clients, Counted(c) PROVE QuotaAt(c)'
  <2>0. Enabled(c)' = Enabled(c)
    BY <1>1 DEF Enabled, tunnels
  <2>1. QuotaAt(c)
    BY <1>4 DEF QuotaInv
  <2>2. CASE req'[r].at # "insert"
    <3>1. req'[r].at = "idle"
      BY <2>2 DEF CreateCount, Goes, ReqInv, Idle
    <3> QED BY <1>1, <1>3, <1>4, <2>0, <3>1, QuotaFrame DEF tunnels
  <2>3. CASE req'[r].at = "insert"
    <3>1. ~AtLimit(t[1], req[r].limit) /\ req'[r] = [at |-> "insert", tunnel |-> t]
      BY <1>2, <2>3 DEF CreateCount, Goes, ReqInv, Idle
    <3>2. \A q \in Requests : req'[q].at = "count" /\ req'[q].tunnel[1] = c
            => req'[q].limit = clients[c].max
      BY <1>3, <2>1, <3>1 DEF QuotaAt
    <3>3. CASE c # t[1]
      <4>1. Inserters(c)' \subseteq Inserters(c)
        BY <1>3, <3>1, <3>3 DEF Inserters
      <4> QED BY <1>1, <1>4, <2>0, <2>1, <3>2, <4>1, QuotaFewer DEF tunnels
    <3>4. CASE c = t[1]
      <4>1. req[r].limit = clients[c].max
        BY <1>1, <1>2, <2>1, <3>4 DEF QuotaAt
      <4>2. clients[c].max \in Nat
        BY <1>4, LimitType
      <4>3. Cardinality(Enabled(c)) < clients[c].max
        BY <3>1, <3>4, <4>1, <4>2, CountsFinite DEF AtLimit
      <4>4. Inserters(c)' \subseteq Requests
        BY DEF Inserters
      <4>5. Cardinality(Inserters(c)') <= Cardinality(Requests)
        BY <4>4, FiniteAssumption, FS_Subset
      <4> QED BY <1>1, <2>0, <3>2, <4>2, <4>3, <4>5, CountsFinite DEF QuotaAt, tunnels
    <3> QED BY <3>3, <3>4
  <2> QED BY <2>2, <2>3
<1> QED BY <1>1, <1>4 DEF QuotaInv, Counted, tunnels

\* One row more, one less that is about to insert.
LEMMA QuotaInsert ==
  ASSUME TypeOK, ReqInv, QuotaInv, NEW r \in Requests, CreateProxy(r)
  PROVE  QuotaInv'
<1>1. UNCHANGED <<clients, lifted>> /\ req[r].at = "insert"
  BY DEF CreateProxy
<1>2. PICK t \in Tunnels : t = req[r].tunnel
  BY <1>1 DEF ReqInv, ReqOK
<1>3. (\A q \in Requests : q # r => req'[q] = req[q]) /\ req'[r].at \in {"idle", "notify"}
  BY Moved DEF CreateProxy, Goes, Idle
<1>4. ASSUME NEW c \in Clients, Counted(c) PROVE QuotaAt(c)'
  <2>1. QuotaAt(c)
    BY <1>4 DEF QuotaInv
  <2>2. CASE rows[t] # None
    <3>1. UNCHANGED <<rows, overlapped>>
      BY <1>2, <2>2 DEF CreateProxy
    <3>2. Enabled(c)' = Enabled(c)
      BY <3>1 DEF Enabled
    <3> QED BY <1>1, <1>3, <1>4, <3>1, <3>2, QuotaFrame
  <2>3. CASE rows[t] = None
    <3>1. /\ rows' = [rows EXCEPT ![t] = TRUE]
          /\ overlapped' = overlapped \cup {x \in {t[1]} : Inserters(x) # {r}}
      BY <1>2, <2>3 DEF CreateProxy
    <3>2. CASE c # t[1]
      <4>1. Enabled(c)' = Enabled(c)
        BY <3>1, <3>2 DEF Enabled, TypeOK
      <4>2. c \in overlapped' <=> c \in overlapped
        BY <3>1, <3>2
      <4>3. Inserters(c)' = Inserters(c)
        BY <1>1, <1>2, <1>3, <3>2 DEF Inserters
      <4>4. \A q \in Requests : req'[q].at = "count" /\ req'[q].tunnel[1] = c
              => req'[q].limit = clients[c].max
        BY <1>3, <2>1 DEF QuotaAt
      <4> QED BY <1>1, <2>1, <4>1, <4>2, <4>3, <4>4 DEF QuotaAt
    <3>3. CASE c = t[1]
      <4>1. clients[c].max \in Nat
        BY <1>4, LimitType
      <4>2. \A q \in Requests : req'[q].at = "count" /\ req'[q].tunnel[1] = c
              => req'[q].limit = clients[c].max
        BY <1>3, <2>1 DEF QuotaAt
      <4>3. Enabled(c)' = Enabled(c) \cup {t}
        BY <2>3, <3>1, <3>3 DEF Enabled, TypeOK
      <4>4. Cardinality(Enabled(c)') <= Cardinality(Enabled(c)) + 1
        <5>1. IsFiniteSet(Enabled(c)) /\ Cardinality(Enabled(c)) \in Nat
          BY CountsFinite
        <5>2. Cardinality(Enabled(c) \cup {t})
                = IF t \in Enabled(c) THEN Cardinality(Enabled(c)) ELSE Cardinality(Enabled(c)) + 1
          BY <5>1, FS_AddElement
        <5> QED BY <4>3, <5>1, <5>2
      <4>5. r \in Inserters(c) /\ Inserters(c)' = Inserters(c) \ {r}
        BY <1>1, <1>2, <1>3, <3>3 DEF Inserters
      <4>6. Cardinality(Inserters(c)') = Cardinality(Inserters(c)) - 1
        BY <4>5, CountsFinite, FS_RemoveElement
      <4>7. Cardinality(Inserters(c)) <= Cardinality(Requests)
        <5>1. Inserters(c) \subseteq Requests
          BY DEF Inserters
        <5> QED BY <5>1, FiniteAssumption, FS_Subset
      <4>8. CASE Inserters(c) = {r} /\ c \notin overlapped
        <5>1. c \notin overlapped' /\ Inserters(c)' = {}
          BY <3>1, <3>3, <4>5, <4>8
        <5> QED BY <1>1, <2>1, <4>1, <4>2, <4>4, <4>5, <4>8, <5>1, CountsFinite DEF QuotaAt
      <4>9. CASE Inserters(c) # {r} \/ c \in overlapped
        <5>1. c \in overlapped'
          BY <3>1, <3>3, <4>9
        <5>2. Cardinality(Enabled(c)') + Cardinality(Inserters(c)')
                <= clients[c].max + Cardinality(Requests) - 1
          BY <2>1, <4>1, <4>4, <4>5, <4>6, <4>7, CountsFinite DEF QuotaAt
        <5> QED BY <1>1, <4>2, <5>1, <5>2 DEF QuotaAt
      <4> QED BY <4>8, <4>9
    <3> QED BY <3>2, <3>3
  <2> QED BY <2>2, <2>3
<1> QED BY <1>1, <1>4 DEF QuotaInv, Counted

\* Rows that are written by name: a client that gets a tunnel back is lifted.
LEMMA QuotaWrite ==
  ASSUME TypeOK, ReqInv, QuotaInv, NEW r \in Requests, PathWrite(r)
  PROVE  QuotaInv'
<1>1. UNCHANGED <<clients, overlapped>> /\ lifted \subseteq lifted'
  BY DEF PathWrite
<1>2. (\A q \in Requests : q # r => req'[q] = req[q]) /\ req'[r].at \in {"idle", "notify", "close"}
  BY Moved DEF PathWrite, Goes, Idle
<1>3. ASSUME NEW c \in Clients, c \notin lifted' PROVE Enabled(c)' \subseteq Enabled(c)
  <2>1. ASSUME NEW t \in Tunnels, t[1] = c, rows'[t] = TRUE, rows[t] # TRUE PROVE FALSE
    <3>1. rows'[t] = IF t \in Named(req[r].arg.name) THEN req[r].row ELSE rows[t]
      BY DEF PathWrite
    <3>2. t \in Named(req[r].arg.name) /\ req[r].row = TRUE
      BY <2>1, <3>1
    <3>3. rows[t] = FALSE
      BY <2>1, <3>2 DEF Named, TypeOK
    <3>4. t[1] \in lifted'
      BY <3>2, <3>3 DEF PathWrite
    <3> QED BY <1>3, <2>1, <3>4
  <2> QED BY <2>1 DEF Enabled
<1>4. ASSUME NEW c \in Clients, Counted(c)' PROVE QuotaAt(c)'
  <2>1. Counted(c) /\ c \notin lifted'
    BY <1>1, <1>4 DEF Counted
  <2> QED BY <1>1, <1>2, <1>3, <2>1, QuotaFrame
<1> QED BY <1>4 DEF QuotaInv

\* A client that is created is lifted, one that is removed has no limit.
LEMMA QuotaManaged ==
  ASSUME TypeOK, ReqInv, QuotaInv, NEW r \in Requests, AddManagedClient(r) \/ RemoveManagedClient(r)
  PROVE  QuotaInv'
<1>1. UNCHANGED <<rows, overlapped>> /\ req' = [req EXCEPT ![r] = Idle]
  BY DEF AddManagedClient, RemoveManagedClient, Goes, tunnels
<1>2. (\A q \in Requests : q # r => req'[q] = req[q]) /\ req'[r].at = "idle"
  BY <1>1, Moved DEF Idle
<1>3. ASSUME NEW c \in Clients, Counted(c)' PROVE Counted(c) /\ clients'[c] = clients[c]
  <2>1. CASE AddManagedClient(r)
    BY <1>3, <2>1 DEF AddManagedClient, Counted, TypeOK
  <2>2. CASE RemoveManagedClient(r)
    BY <1>3, <2>2 DEF RemoveManagedClient, Counted, TypeOK, tunnels
  <2> QED BY <2>1, <2>2
<1>4. \A c \in Clients : Enabled(c)' = Enabled(c)
  BY <1>1 DEF Enabled
<1>5. ASSUME NEW c \in Clients, Counted(c)' PROVE QuotaAt(c)'
  BY <1>1, <1>2, <1>3, <1>4, <1>5, QuotaFrame
<1> QED BY <1>5 DEF QuotaInv

\* A client whose limit or tunnels a request could not read is lifted.
LEMMA QuotaFails ==
  ASSUME TypeOK, ReqInv, QuotaInv, NEW r \in Requests, StoreFails(r)
  PROVE  QuotaInv'
<1>1. UNCHANGED <<clients, rows, overlapped>> /\ lifted \subseteq lifted'
  BY DEF StoreFails, StatementFails, QuotaReadFails, RemoveRowFails, tunnels
<1>2. \A q \in Requests : q # r => req'[q] = req[q]
  BY FailsLead
<1>3. ASSUME NEW c \in Clients, Counted(c)' PROVE QuotaAt(c)'
  <2>1. Counted(c) /\ QuotaAt(c) /\ Enabled(c)' = Enabled(c)
    BY <1>1, <1>3 DEF Counted, Enabled, QuotaInv
  <2>2. CASE req'[r].at # "insert"
    <3>1. req'[r].at = "idle"
      BY <2>2, FailsLead
    <3> QED BY <1>1, <1>2, <2>1, <3>1, QuotaFrame
  <2>3. CASE req'[r].at = "insert"
    <3>1. QuotaReadFails(r)
      BY <2>3, Moved, IdleOK DEF StoreFails, StatementFails, RemoveRowFails
    <3>2. req'[r] = [at |-> "insert", tunnel |-> req[r].tunnel] /\ req[r].tunnel[1] # c
      BY <1>3, <3>1, Moved DEF QuotaReadFails, Counted
    <3>3. Inserters(c)' \subseteq Inserters(c)
      BY <1>2, <3>2 DEF Inserters
    <3>4. \A q \in Requests : req'[q].at = "count" /\ req'[q].tunnel[1] = c
            => req'[q].limit = clients[c].max
      BY <1>2, <2>1, <2>3 DEF QuotaAt
    <3> QED BY <1>1, <2>1, <3>3, <3>4, QuotaFewer
  <2> QED BY <2>2, <2>3
<1> QED BY <1>3 DEF QuotaInv

LEMMA NextQuota ==
  ASSUME TypeOK, ReqInv, QuotaInv, [Next]_vars
  PROVE  QuotaInv'
<1>1. ASSUME NEW r \in Requests, Arrival(r) \/ RequestStep(r),
             ~(CreateLimit(r) \/ CreateCount(r) \/ CreateProxy(r) \/ PathWrite(r)
               \/ AddManagedClient(r) \/ RemoveManagedClient(r))
      PROVE  QuotaInv'
  <2>1. LeadsTo(r) /\ \A q \in Requests : q # r => req'[q] = req[q]
    BY <1>1, HandlerLeads
  <2>2. UNCHANGED <<clients, tunnels>>
    <3>1. CASE Arrival(r)
      BY <3>1, ArrivalFrom
    <3>2. CASE RequestStep(r)
      BY <1>1, <3>2 DEF RequestStep, MapDecides, AddAPIKey, MapKey, DeleteAPIKey, UnmapKey,
         CreateUser, DeleteUser, SetUserStatus, ResetUserToken, UserStatement, RemoveAccess,
         CreateAccess, PathAccess, PathOwner, PathGet, CloseProxy, NotifyClientSync, CloseOnly
    <3> QED BY <1>1, <3>1, <3>2
  <2>3. req'[r].at \notin {"count", "insert"}
    BY <1>1, <2>1 DEF LeadsTo
  <2>4. ASSUME NEW c \in Clients, Counted(c)' PROVE QuotaAt(c)'
    <3>1. Counted(c) /\ Enabled(c)' = Enabled(c)
      BY <2>2, <2>4 DEF Counted, Enabled, tunnels
    <3> QED BY <2>1, <2>2, <2>3, <3>1, QuotaFrame DEF tunnels
  <2> QED BY <2>4 DEF QuotaInv
<1>2. CASE Restart
  <2>1. UNCHANGED <<clients, tunnels>> /\ \A q \in Requests : req'[q].at = "idle"
    BY <1>2 DEF Restart, Idle
  <2>2. ASSUME NEW c \in Clients, Counted(c)' PROVE QuotaAt(c)'
    <3>1. Counted(c) /\ Enabled(c)' = Enabled(c)
      BY <2>1, <2>2 DEF Counted, Enabled, tunnels
    <3>2. Inserters(c)' = {} /\ QuotaAt(c)
      BY <2>1, <3>1 DEF Inserters, QuotaInv
    <3> QED BY <2>1, <3>1, <3>2, QuotaFewer DEF tunnels
  <2> QED BY <2>2 DEF QuotaInv
<1>3. CASE (\E k \in Conns : ClientStep(k) \/ Cleanup(k)) \/ UNCHANGED vars
  <2>1. UNCHANGED <<req, clients, tunnels>>
    BY <1>3 DEF ClientStep, Connect, SyncProxies, SyncFails, ConnLost,
       LossNoticed, NewProxy, Cleanup, Calm, vars
  <2> QED BY <2>1 DEF QuotaInv, QuotaAt, Counted, Enabled, Inserters, tunnels
<1> QED BY <1>1, <1>2, <1>3, QuotaLimit, QuotaCount, QuotaInsert, QuotaWrite, QuotaManaged, QuotaFails
   DEF Next

LEMMA QuotaFollows ==
  ASSUME TypeOK, QuotaInv
  PROVE  QuotaKept
<1> SUFFICES ASSUME NEW c \in Clients \ lifted, clients[c] # None, clients[c].max > 0
             PROVE  Cardinality(Enabled(c))
                      <= clients[c].max + (IF c \in overlapped THEN Cardinality(Requests) - 1 ELSE 0)
  BY DEF QuotaKept
<1>1. Counted(c) /\ QuotaAt(c)
  BY DEF QuotaInv, Counted
<1>2. clients[c].max \in Nat
  BY <1>1, LimitType
<1> QED BY <1>1, <1>2, CountsFinite DEF QuotaAt

-----------------------------------------------------------------------------
(* Tunnels that are no longer enabled.                                     *)

\* Nobody serves more, no row is disabled, and who has been told stays so.
LEMMA StopKept ==
  ASSUME ServeInv, OffInv',
         \A k \in Conns, t \in Tunnels : Serves(k, t)' => Serves(k, t) /\ (Told(k) => Told(k)'),
         \A t \in Tunnels : rows'[t] # TRUE => rows[t] # TRUE
  PROVE  StopInv'
BY DEF StopInv, ServeInv

\* A request that was not about to tell anybody, and changes no connection.
LEMMA StopFrame ==
  ASSUME StopInv, NEW r \in Requests, \A q \in Requests : q # r => req'[q] = req[q],
         req[r].at \notin StopSteps, UNCHANGED server,
         \A t \in Tunnels : rows'[t] # TRUE => rows[t] # TRUE
  PROVE  StopInv'
<1>1. \A k \in Conns : Told(k) => Told(k)'
  BY DEF Told, StopSteps, server
<1>2. \A k \in Conns, t \in Tunnels : Serves(k, t)' <=> Serves(k, t)
  BY DEF Serves, server
<1>3. OffInv'
  BY DEF StopInv, OffInv, server
<1> QED BY <1>1, <1>2, <1>3, StopKept DEF StopInv

\* The requests that are about to tell a client, but one, are still so.
LEMMA OthersTell ==
  ASSUME NEW r \in Requests, \A q \in Requests : q # r => req'[q] = req[q],
         NEW k \in Conns, Told(k), conn[k] = "closing" => conn'[k] = "closing",
         missed \subseteq missed'
  PROVE  \/ Told(k)'
         \/ req[r].at \in StopSteps /\ req[r].client = k[1]
BY DEF Told, StopSteps

\* Rows are written by name: the client of the row that was read is told, the
\* others have missed it.
LEMMA StopWrite ==
  ASSUME TypeOK, ReqInv, StopInv, NEW r \in Requests, PathWrite(r)
  PROVE  StopInv'
<1>1. /\ \A q \in Requests : q # r => req'[q] = req[q]
      /\ req[r].at = "write" /\ missed \subseteq missed'
      /\ UNCHANGED <<running, conn, list>>
  BY Moved DEF PathWrite, Goes
<1>2. OffInv'
  BY <1>1 DEF StopInv, OffInv
<1>3. ASSUME NEW k \in Conns, NEW t \in Tunnels, Serves(k, t)', rows'[t] # TRUE PROVE Told(k)'
  <2>1. Serves(k, t) /\ t[1] = k[1]
    BY <1>1, <1>3 DEF Serves
  <2>2. CASE rows[t] # TRUE
    <3>1. Told(k)
      BY <2>1, <2>2 DEF StopInv, ServeInv
    <3> QED BY <1>1, <3>1, OthersTell DEF StopSteps
  <2>3. CASE rows[t] = TRUE
    <3>1. rows'[t] = IF t \in Named(req[r].arg.name) THEN req[r].row ELSE rows[t]
      BY DEF PathWrite
    <3>2. t \in Named(req[r].arg.name) /\ req[r].row # TRUE
      BY <1>3, <2>3, <3>1
    <3>3. CASE t[1] = req[r].client
      <4>1. req'[r].at = "close" /\ req'[r].client = req[r].client
        BY <3>2 DEF PathWrite, Goes, ReqInv
      <4> QED BY <2>1, <3>3, <4>1 DEF Told
    <3>4. CASE t[1] # req[r].client
      <4>1. t[1] \in missed'
        BY <3>2, <3>4 DEF PathWrite
      <4> QED BY <2>1, <4>1 DEF Told
    <3> QED BY <3>3, <3>4
  <2> QED BY <2>2, <2>3
<1> QED BY <1>2, <1>3 DEF StopInv, ServeInv

\* The tunnel is closed, and the client is still to be told.
LEMMA StopClose ==
  ASSUME TypeOK, ReqInv, StopInv, NEW r \in Requests, CloseProxy(r) \/ CloseOnly(r)
  PROVE  StopInv'
<1>1. /\ \A q \in Requests : q # r => req'[q] = req[q]
      /\ UNCHANGED <<conn, list, missed, rows>>
      /\ \E n : running' = [running EXCEPT ![n] = None]
  BY Moved DEF CloseProxy, CloseOnly, Goes, tunnels
<1>2. \A n \in Names, k \in Conns : running'[n] = k => running[n] = k
  BY <1>1, NoneAssumption DEF TypeOK
<1>3. OffInv'
  BY <1>1, <1>2 DEF StopInv, OffInv
<1>4. ASSUME NEW k \in Conns, NEW t \in Tunnels, Serves(k, t)' PROVE Serves(k, t)
  BY <1>1, <1>2, <1>4, TunnelTypes DEF Serves
<1>5. ASSUME NEW k \in Conns, Told(k) PROVE Told(k)'
  <2>1. CASE CloseProxy(r)
    <3>1. req'[r].at = "notify" /\ req'[r].client = req[r].client
      BY <2>1 DEF CloseProxy, Goes, ReqInv
    <3> QED BY <1>1, <1>5, <3>1, OthersTell DEF Told
  <2>2. CASE CloseOnly(r)
    <3>1. req[r].at = "closeOnly"
      BY <2>2 DEF CloseOnly
    <3> QED BY <1>1, <1>5, <3>1, OthersTell DEF StopSteps
  <2> QED BY <2>1, <2>2
<1> QED BY <1>1, <1>3, <1>4, <1>5, StopKept DEF StopInv

\* The client is told: the one connection that was not closing ends, or the
\* client has missed it.
LEMMA StopNotify ==
  ASSUME TypeOK, ReqInv, StopInv, NEW r \in Requests, NotifyClientSync(r)
  PROVE  StopInv'
<1>1. /\ \A q \in Requests : q # r => req'[q] = req[q]
      /\ UNCHANGED <<running, list, rows>> /\ missed \subseteq missed'
  BY Moved DEF NotifyClientSync, Goes, tunnels
<1>2. \A k \in Conns : conn'[k] = conn[k] \/ (conn[k] # "off" /\ conn'[k] = "closing")
  BY DEF NotifyClientSync, Held, TypeOK
<1>3. OffInv'
  BY <1>1, <1>2 DEF StopInv, OffInv
<1>4. ASSUME NEW k \in Conns, NEW t \in Tunnels, Serves(k, t)' PROVE Serves(k, t) /\ conn[k] # "off"
  <2>1. Serves(k, t) /\ t[2] \in Names
    BY <1>1, <1>4, TunnelTypes DEF Serves
  <2> QED BY <2>1 DEF Serves, StopInv, OffInv
<1>5. ASSUME NEW k \in Conns, Told(k), conn[k] # "off" PROVE Told(k)'
  <2>1. CASE req[r].client # k[1]
    BY <1>1, <1>2, <1>5, <2>1, OthersTell
  <2>2. CASE req[r].client = k[1]
    <3>1. k \in Held(req[r].client)
      BY <1>5, <2>2 DEF Held
    <3>2. CASE conn[k] = "closing"
      BY <1>2, <3>2 DEF Told
    <3>3. CASE conn[k] # "closing"
      <4>1. PICK l \in Held(req[r].client) :
              /\ conn' = [conn EXCEPT ![l] = "closing"]
              /\ missed' = IF \A x \in Held(req[r].client) \ {l} : conn[x] = "closing"
                           THEN missed ELSE missed \cup {req[r].client}
        BY <3>1 DEF NotifyClientSync
      <4>2. CASE k = l
        BY <4>1, <4>2 DEF Told, TypeOK
      <4>3. CASE k # l
        <5>1. k[1] \in missed'
          BY <2>2, <3>1, <3>3, <4>1, <4>3
        <5> QED BY <5>1 DEF Told
      <4> QED BY <4>2, <4>3
    <3> QED BY <3>2, <3>3
  <2> QED BY <2>1, <2>2
<1> QED BY <1>1, <1>3, <1>4, <1>5, StopKept DEF StopInv

\* A client is removed: its connections end, also if its row could not be deleted.
LEMMA StopRemove ==
  ASSUME TypeOK, ReqInv, StopInv, NEW r \in Requests, RemoveManagedClient(r) \/ RemoveRowFails(r)
  PROVE  StopInv'
<1>1. /\ \A q \in Requests : q # r => req'[q] = req[q]
      /\ req[r].at = "remove" /\ UNCHANGED <<running, list, rows, missed>>
  BY Moved DEF RemoveManagedClient, RemoveRowFails, Goes, tunnels
<1>2. \A k \in Conns : conn'[k] = conn[k] \/ (conn[k] # "off" /\ conn'[k] = "closing")
  BY DEF RemoveManagedClient, RemoveRowFails, CloseHeld, Held
<1>3. OffInv'
  BY <1>1, <1>2 DEF StopInv, OffInv
<1>4. \A k \in Conns, t \in Tunnels : Serves(k, t)' <=> Serves(k, t)
  BY <1>1 DEF Serves
<1>5. \A k \in Conns : Told(k) => Told(k)'
  BY <1>1, <1>2, OthersTell DEF StopSteps
<1> QED BY <1>1, <1>3, <1>4, <1>5, StopKept DEF StopInv

\* A connection comes, fails or is noticed to have failed.
LEMMA StopConn ==
  ASSUME TypeOK, StopInv, NEW k \in Conns, Connect(k) \/ ConnLost(k) \/ LossNoticed(k)
  PROVE  StopInv'
<1>1. /\ UNCHANGED <<running, list, rows, missed, req>>
      /\ \A l \in Conns : (conn'[l] = "off" => conn[l] = "off")
                          /\ (conn[l] = "closing" => conn'[l] = "closing")
  BY DEF Connect, ConnLost, LossNoticed, Calm, tunnels, TypeOK
<1>2. OffInv'
  BY <1>1 DEF StopInv, OffInv
<1>3. \A l \in Conns, t \in Tunnels : Serves(l, t)' <=> Serves(l, t)
  BY <1>1 DEF Serves
<1>4. \A l \in Conns : Told(l) => Told(l)'
  BY <1>1 DEF Told
<1> QED BY <1>1, <1>2, <1>3, <1>4, StopKept DEF StopInv

\* The list is that of the enabled tunnels.
LEMMA StopSync ==
  ASSUME TypeOK, StopInv, NEW k \in Conns, SyncProxies(k)
  PROVE  StopInv'
<1>1. /\ UNCHANGED <<running, conn, rows, missed, req>>
      /\ conn[k] = "on" /\ list' = [list EXCEPT ![k] = {t[2] : t \in Enabled(k[1])}]
  BY DEF SyncProxies, Calm, tunnels
<1>2. OffInv'
  BY <1>1 DEF StopInv, OffInv, TypeOK
<1>3. \A l \in Conns : Told(l)' <=> Told(l)
  BY <1>1 DEF Told
<1>4. ASSUME NEW l \in Conns, NEW t \in Tunnels, Serves(l, t)', rows'[t] # TRUE PROVE Told(l)'
  <2>1. CASE l # k
    <3>1. Serves(l, t)
      BY <1>1, <1>4, <2>1 DEF Serves, TypeOK
    <3> QED BY <1>1, <1>3, <1>4, <3>1 DEF StopInv, ServeInv
  <2>2. CASE l = k
    <3>1. CASE t[2] \in {x[2] : x \in Enabled(k[1])}
      <4>1. PICK x \in Tunnels : x[1] = k[1] /\ rows[x] = TRUE /\ x[2] = t[2]
        BY <3>1 DEF Enabled
      <4>2. x = t
        BY <1>4, <2>2, <4>1, TunnelTypes DEF Serves
      <4> QED BY <1>1, <1>4, <4>1, <4>2
    <3>2. CASE t[2] \notin {x[2] : x \in Enabled(k[1])}
      <4>1. Serves(l, t)
        BY <1>1, <1>4, <2>2, <3>2 DEF Serves, TypeOK
      <4> QED BY <1>1, <1>3, <1>4, <4>1 DEF StopInv, ServeInv
    <3> QED BY <3>1, <3>2
  <2> QED BY <2>1, <2>2
<1> QED BY <1>2, <1>4 DEF StopInv, ServeInv

\* An empty list.
LEMMA StopNoSync ==
  ASSUME TypeOK, StopInv, NEW k \in Conns, SyncFails(k)
  PROVE  StopInv'
<1>1. /\ UNCHANGED <<running, conn, rows, missed, req>>
      /\ conn[k] = "on" /\ list' = [list EXCEPT ![k] = {}]
  BY DEF SyncFails, Calm, tunnels
<1>2. OffInv'
  BY <1>1 DEF StopInv, OffInv, TypeOK
<1>3. \A l \in Conns : Told(l)' <=> Told(l)
  BY <1>1 DEF Told
<1>4. \A l \in Conns, t \in Tunnels : Serves(l, t)' => Serves(l, t)
  BY <1>1 DEF Serves, TypeOK
<1> QED BY <1>1, <1>2, <1>3, <1>4, StopKept DEF StopInv

\* What is registered was on the list.
LEMMA StopRegister ==
  ASSUME TypeOK, StopInv, NEW k \in Conns, NEW n \in Names, NewProxy(k, n)
  PROVE  StopInv'
<1>1. /\ UNCHANGED <<conn, rows, missed, req>>
      /\ conn[k] # "off" /\ list[k] # None /\ n \in list[k] /\ list' = [list EXCEPT ![k] = list[k] \ {n}]
      /\ running' = running \/ running' = [running EXCEPT ![n] = k]
  BY DEF NewProxy, Registered, Calm, tunnels
<1>2. ASSUME NEW m \in Names, NEW l \in Conns, running'[m] = l
      PROVE  running[m] = l \/ (l = k /\ m = n)
  BY <1>1, <1>2 DEF TypeOK
<1>3. OffInv'
  <2>1. ASSUME NEW l \in Conns, conn'[l] = "off"
        PROVE  list'[l] = None /\ \A m \in Names : running'[m] # l
    <3>1. l # k /\ conn[l] = "off"
      BY <1>1, <2>1
    <3>2. list[l] = None /\ \A m \in Names : running[m] # l
      BY <3>1 DEF StopInv, OffInv
    <3> QED BY <1>1, <1>2, <3>1, <3>2 DEF TypeOK
  <2> QED BY <2>1 DEF OffInv
<1>4. ASSUME NEW l \in Conns, NEW t \in Tunnels, Serves(l, t)' PROVE Serves(l, t)
  <2>1. t[2] \in Names
    BY TunnelTypes
  <2>2. CASE running'[t[2]] = l
    BY <1>1, <1>2, <1>4, <2>1, <2>2 DEF Serves
  <2>3. CASE list'[l] # None /\ t[2] \in list'[l]
    BY <1>1, <1>4, <2>3 DEF Serves, TypeOK
  <2> QED BY <1>4, <2>2, <2>3 DEF Serves
<1>5. \A l \in Conns : Told(l)' <=> Told(l)
  BY <1>1 DEF Told
<1> QED BY <1>1, <1>3, <1>4, <1>5, StopKept DEF StopInv

\* The connection ends with its list and its tunnels.
LEMMA StopCleanup ==
  ASSUME TypeOK, StopInv, NEW k \in Conns, Cleanup(k)
  PROVE  StopInv'
<1>1. /\ UNCHANGED <<rows, missed, req>>
      /\ conn' = [conn EXCEPT ![k] = "off"]
      /\ list' = [list EXCEPT ![k] = None]
      /\ running' = [n \in Names |-> IF running[n] = k THEN None ELSE running[n]]
  BY DEF Cleanup, Calm, tunnels
<1>2. \A n \in Names, l \in Conns : running'[n] = l => running[n] = l /\ l # k
  BY <1>1, NoneAssumption
<1>3. OffInv'
  BY <1>1, <1>2 DEF StopInv, OffInv, TypeOK
<1>4. ASSUME NEW l \in Conns, NEW t \in Tunnels, Serves(l, t)' PROVE l # k /\ Serves(l, t)
  <2>1. t[2] \in Names
    BY TunnelTypes
  <2> QED BY <1>1, <1>2, <1>4, <2>1 DEF Serves, TypeOK
<1>5. \A l \in Conns : l # k /\ Told(l) => Told(l)'
  BY <1>1 DEF Told, TypeOK
<1> QED BY <1>1, <1>3, <1>4, <1>5, StopKept DEF StopInv

LEMMA NextStops ==
  ASSUME TypeOK, ReqInv, StopInv, [Next]_vars
  PROVE  StopInv'
<1>1. ASSUME NEW r \in Requests, Arrival(r) \/ RequestStep(r),
             ~(CloseProxy(r) \/ CloseOnly(r) \/ NotifyClientSync(r) \/ PathWrite(r)
               \/ RemoveManagedClient(r))
      PROVE  StopInv'
  <2>1. \A q \in Requests : q # r => req'[q] = req[q]
    BY <1>1, HandlerLeads
  <2>2. CASE Arrival(r)
    <3>1. req[r].at \notin StopSteps /\ UNCHANGED <<server, rows>>
      BY <2>2, ArrivalFrom DEF StopSteps, tunnels
    <3> QED BY <2>1, <3>1, StopFrame
  <2>3. CASE CreateProxy(r)
    <3>1. req[r].at \notin StopSteps /\ UNCHANGED server
      BY <2>3 DEF CreateProxy, StopSteps
    <3>2. \A t \in Tunnels : rows'[t] # TRUE => rows[t] # TRUE
      BY <2>3 DEF CreateProxy, TypeOK
    <3> QED BY <2>1, <3>1, <3>2, StopFrame
  <2>4. CASE RequestStep(r) /\ ~CreateProxy(r)
    <3>1. req[r].at \notin StopSteps
      BY <1>1, <2>4 DEF RequestStep, MapDecides, AddAPIKey, MapKey, DeleteAPIKey, UnmapKey,
         CreateUser, DeleteUser, SetUserStatus, ResetUserToken, AddManagedClient, RemoveAccess,
         CreateAccess, CreateLimit, CreateCount, PathAccess, PathOwner, PathGet, Goes, StopSteps
    <3>2. UNCHANGED <<server, rows>>
      BY <1>1, <2>4 DEF RequestStep, MapDecides, AddAPIKey, MapKey, DeleteAPIKey, UnmapKey,
         CreateUser, DeleteUser, SetUserStatus, ResetUserToken, UserStatement, AddManagedClient,
         RemoveAccess, CreateAccess, CreateLimit, CreateCount, PathAccess, PathOwner, PathGet, tunnels
    <3> QED BY <2>1, <3>1, <3>2, StopFrame
  <2> QED BY <1>1, <2>2, <2>3, <2>4
<1>2. ASSUME NEW k \in Conns, ClientStep(k) \/ Cleanup(k) PROVE StopInv'
  BY <1>2, StopConn, StopSync, StopNoSync, StopRegister, StopCleanup DEF ClientStep
<1>3. CASE Restart
  <2>1. /\ running' = [n \in Names |-> None]
        /\ list' = [k \in Conns |-> None]
    BY <1>3 DEF Restart
  <2>2. OffInv'
    BY <2>1, NoneAssumption DEF OffInv
  <2>3. \A k \in Conns, t \in Tunnels : ~Serves(k, t)'
    BY <2>1, NoneAssumption, TunnelTypes DEF Serves
  <2> QED BY <2>2, <2>3 DEF StopInv, ServeInv
<1>4. CASE UNCHANGED vars
  BY <1>4 DEF vars, StopInv, OffInv, ServeInv, Serves, Told, tunnels, server
<1>5. ASSUME NEW r \in Requests, StatementFails(r) \/ QuotaReadFails(r) PROVE StopInv'
  <2>1. /\ req[r].at \notin StopSteps /\ UNCHANGED <<server, rows>>
        /\ \A q \in Requests : q # r => req'[q] = req[q]
    BY <1>5, FailsLead DEF StatementFails, QuotaReadFails, StoreFails, StopSteps, tunnels
  <2> QED BY <2>1, StopFrame
<1> QED BY <1>1, <1>2, <1>3, <1>4, <1>5, StopWrite, StopClose, StopNotify, StopRemove
   DEF Next, StoreFails

\* A tunnel that runs and is not enabled belongs to a connection that serves it.
LEMMA StopFollows ==
  ASSUME TypeOK, StopInv
  PROVE  DisabledStops
<1> SUFFICES ASSUME NEW t \in Tunnels, OffDuty(t)
             PROVE  BeingStopped(t) \/ t[1] \in missed
  BY DEF DisabledStops
<1>1. PICK k \in Conns : k = running[t[2]]
  BY TunnelTypes DEF OffDuty, TypeOK
<1>2. Serves(k, t) /\ rows[t] # TRUE /\ k[1] = t[1]
  BY <1>1 DEF OffDuty, Serves
<1>3. Told(k)
  BY <1>2 DEF StopInv, ServeInv
<1> QED BY <1>1, <1>2, <1>3 DEF Told, BeingStopped

-----------------------------------------------------------------------------
(* The theorems.                                                           *)

LEMMA InitIInv == Init => IInv
<1> SUFFICES ASSUME Init PROVE IInv
  OBVIOUS
<1>1. TypeOK /\ ReqInv /\ TokensInv
  BY InitType
<1>2. \A r \in Requests : req[r].at = "idle"
  BY DEF Init, Idle
<1>3. KeyInv
  BY <1>2 DEF Init, KeyInv, KeyWriters
<1>4. QuotaInv
  <2>1. ASSUME NEW c \in Clients, Counted(c) PROVE QuotaAt(c)
    <3>1. clients[c].max \in Nat /\ c \notin overlapped
      BY <1>1, <2>1, LimitType DEF Init
    <3>2. Cardinality(Enabled(c)) <= clients[c].max
      <4>1. ~(Cardinality(Enabled(c)) > clients[c].max)
        BY <2>1 DEF Init, Counted
      <4> QED BY <3>1, <4>1, CountsFinite
    <3>3. Inserters(c) = {}
      BY <1>2 DEF Inserters
    <3> QED BY <1>2, <3>1, <3>2, <3>3 DEF QuotaAt
  <2> QED BY <2>1 DEF QuotaInv
<1>5. StopInv
  <2>1. OffInv
    BY NoneAssumption DEF Init, OffInv
  <2>2. \A k \in Conns, t \in Tunnels : ~Serves(k, t)
    BY NoneAssumption, TunnelTypes DEF Init, Serves
  <2> QED BY <2>1, <2>2 DEF StopInv, ServeInv
<1> QED BY <1>1, <1>3, <1>4, <1>5 DEF IInv

LEMMA NextIInv == IInv /\ [Next]_vars => IInv'
<1> SUFFICES ASSUME IInv, [Next]_vars PROVE IInv'
  OBVIOUS
<1> USE DEF IInv
<1>1. TypeOK' /\ ReqInv' /\ TokensInv'
  BY NextType, NextReq, NextTokens
<1> QED BY <1>1, NextKeys, NextQuota, NextStops

THEOREM Invariant == Spec => []IInv
BY InitIInv, NextIInv, PTL DEF Spec

\* In every run of the API the state has its type; above all, no more tokens
\* are drawn than calls have come, since a request that draws one ends with it.
THEOREM TypeCorrect == Spec => []TypeOK
<1>1. IInv => TypeOK
  BY DEF IInv
<1> QED BY <1>1, Invariant, PTL

\* The keys in memory and those of the table agree for every key that no
\* request is changing and no two have changed at once (v1HandleAPIKeys,
\* v1HandleAPIKeyPath: first the table, then the map).
THEOREM KeysAreAgreed == Spec => []KeysAgree
<1>1. IInv => KeysAgree
  BY DEF IInv, KeyInv, KeysAgree
<1> QED BY <1>1, Invariant, PTL

\* However many requests create tunnels at once, a client whose tunnels were
\* all counted keeps its limit, and passes it by less than the number of
\* requests if they overlapped (v1HandleProxies: count, then insert).  A read
\* of the limit or of the tunnels that fails lets the request through, and
\* ends the promise.
THEOREM QuotaIsKept == Spec => []QuotaKept
<1>1. IInv => QuotaKept
  BY QuotaFollows DEF IInv
<1> QED BY <1>1, Invariant, PTL

\* A tunnel that is disabled or deleted runs only while a request or the end
\* of its connection is still to stop it, whatever the client registers from
\* an older list meanwhile, unless NotifyClientSync left another connection of
\* the client than the one it closed, perhaps one that was closing already, or
\* told another client (v1HandleProxyPath, NotifyClientSync).
THEOREM DisabledTunnelsStop == Spec => []DisabledStops
<1>1. IInv => DisabledStops
  BY StopFollows DEF IInv
<1> QED BY <1>1, Invariant, PTL
=============================================================================
