# NexusLink in TLA+

A model of the Go server and client of NexusLink (`src/cmd/server`,
`src/cmd/client`, `src/pkg/security`, `src/pkg/web`, `src/pkg/store` and the
framing of `src/pkg/auth`): what is modelled, what TLC checks on small instances,
what TLAPS proves for every instance, and what is left.

## 1. Inventory

NexusLink is a tunnel: a client behind NAT keeps one control connection to the
server; the server listens on public ports and hands every public connection
(TCP) or datagram (UDP) to the client over a separate data channel.

| Component | State | Operations | Talks to |
|---|---|---|---|
| Control plane (`cmd/server/main.go`) | `managedByToken`, `clients`, `clientNames`, `proxies` under `s.mu`; open sockets | login, register, NewProxy, disconnect, kick, CloseProxy, NotifyClientSync, Add/RemoveManagedClient | clients over the control connection, the store, the panel and API |
| TCP data channel (`handleTCPUserConnection`, `acceptDataConnections`, client `handleNewConn`) | `proxy.pending`, one channel per connID | announce, wait with a timeout, identify, match, deliver | control plane, client |
| UDP data channel (`handleUDP*`, `sendUDPToClient`, `cleanupUDPSessions`, client `readBackend`) | `sessions`, `addrIndex`, `clientDataAddr`, `pendingOut`; client `udpSessions` | create, reuse, expire and close sessions, buffer and flush envelopes | users, client, local service |
| Connection guard (`pkg/security/connguard.go`) | `connCount`, `lastConn`, `blacklist`, `misbehavior` under `g.mu` | Check, Release, BanForBadBehavior, ClearMisbehavior, BanIP, GetStats | every `handleClient` |
| Client process (`cmd/client/main.go`) | `conn`, `proxies`, UDP channel and quit channel of each tunnel | connect, synchronise, register, heartbeat, close, shut down, reconnect | server |
| Stream forwarding (`forwardWithAuth`, both sides), HMAC frames (`pkg/auth`) | two copy goroutines, byte counters | copy, verify, tear down | data channel |
| Traffic and quotas | `clientTraffic`, `notifiedLimit`, bytes and quota of the row | count, compare, announce, flush | store, webhook, API |
| Store (`pkg/store`) | SQLite tables clients, proxies, users, api_keys, settings | CRUD | control plane, API |
| Web panel (`pkg/web/server.go`, `security.go`) | `sessions`, `failedLogins`, `security`, password hash and salt, `web_settings.json` | login, renew, log out, lock out, unlock, change settings or password, clean up | settings file |
| Open API v1 (`pkg/web/server.go`) | `apiKeys`, identity of a request; tables | keys, users, clients, tunnels: create, enable, disable, edit, delete, close | store, control plane |
| Lock of the server (`s.mu`) | one `sync.RWMutex` | readers, writers, writers that also write to a connection | every goroutine of the server |
| Configuration, webhook, compression, C implementation, Node panel, SDKs | none that is shared | | |

What is hard to test: the goroutines of connections, of the two data channels
and of the API interleave at every critical section of `s.mu`; logins read the
index, the table and the registry at three different times; timers race with
deliveries; UDP loses, duplicates and reorders; connections are lost between
any two messages and the client carries state over reconnects. `PROJECT.json`
lists these hazards one by one, at the line where they bite.

What makes each component correct:

- control plane: a tunnel has a live owner, its own sockets, its owner's
  identity and a key that is not another tenant's; nobody else's step removes it;
- TCP: a user gets the data connection dialled for him, and is served or closed;
- UDP: the two session maps agree, replies reach the user they are for, no
  more than one envelope is stranded in the buffer;
- guard: Check and Release are paired, limits and bans hold;
- client: no channel leaks, `connect` ends, tunnels survive a reconnect;
- streams: in order, nothing lost while nothing ends them, everything released
  when something does, every chunk charged once;
- traffic: one announcement per limit that was read, a ledger that neither loses nor repeats;
- panel: a password change ends the old sessions, the saved password works after
  a restart, a lock is served;
- API: keys agree between table and memory, quotas hold but for overlaps and errors
  of the store, a disabled tunnel stops;
- lock: whoever asks for it gets it.

## 2. Modules

A step of a model is one critical section, one call of the store, one message
read or written, or one unlocked access; everything in between interleaves.

**`ControlPlane`** (instances: `MCControlPlane`). One goroutine per connection
(`pc`: off, cache, db, fill, register, serve, newproxy, done). `Login`,
`LookupCache` (unlocked read of the index), `DbHit`/`DbMiss`, `FillCache`,
`Register` are `handleClient`; `ReadNewProxy`, `NewProxy*` and `Disconnect` are
`handleControlMessages` and `handleNewProxy`. `AddIndex`/`AddFound`/`AddInsert`/
`AddFails` and `RemoveIndex`/`RemoveDB`/`RemoveClose` are the two management
calls, cut where the code releases `s.mu`. `Restart` kills the process at any
point and runs the start-up code (`Seeded`, `IndexOf`) on the table. History
variables: `issued` (pairs ever configured or added) and `verdict` (what the last
call on a name reported, void while another call on it overlaps).

**`TcpDataChannel`**. A public connection, its connID and the data connection
dialled for it are one element of `Users`. `waiter[u]` is the goroutine of the
user, `acceptor` the accept loop, `control` the ordered NewConn messages. The
timer is separate from the deletion of the entry (`Timeout`, `GiveUp`), as in
the code.

**`UdpDataChannel`**. Both directions of the network are sets that only grow, so
loss, duplication and reordering come for free. The user loop keeps `todo`, the
envelopes of the packet at hand, and `seenAddr`, the address it has read but not
yet used. `fresh` stands for `lastActive`: the sessions active since the last tick.

**`ConnGuard`**. Integer time; handlers of `handleClient` between Check and the
deferred Release. `lastBan` is history. Its specification is called `GuardSpec`.

**`ClientSession`**. The client's main loop against a server reduced to what the
client sees, over an ordered connection whose messages may still arrive after
the server has closed it. The API request that enables or disables a tunnel is
three steps (row, CloseProxy, NotifyClientSync).

**`TcpForward`** (instance: `MCTcpForward`). Both `forwardWithAuth` of one
connection after the rendezvous: two goroutines on each side (`sign`, `verify`, by
direction), bounded sockets that block their writer, frames that verify or do not,
the error channel of capacity 2, and the deferred closes in their order. User and
service send, read, half-close or go away; the network cuts the data connection or
damages a frame; what is in flight at a close arrives or is lost.

**`StreamPair`** is the abstract specification: two streams, each delivered in
order and without a gap, completely as long as nothing has ended the connection,
and the release of everything afterwards. `TcpForward` implements it under the
mapping `link` (open, ending once something outside has ended the connection,
released when all goroutines have returned and all ends are closed); `sent` and
`received` are the same variables.

**`Traffic`** (instances: `MCTraffic`). A copier goes through `addClientTraffic` and
`checkTrafficLimit` in the steps of their locks: count, limit from the row or from
memory, compare, test and set of `notifiedLimit`, spawn of the flush. The read of the
row may fail; the code ignores the error and takes the limit in memory. Flushes run
at any later time and may fail. API calls change memory and row in two steps, the
second of which may fail; a login that misses the index reads the row and fills the
index with what it read (`login`). `Restart` loses memory, copiers and flushes and
imports the configured clients that have no row. History: `ever`, `events`, `exact`
(nothing was lost so far), `recheck` (a chunk was counted since the quota was last
written, or misread by a failing store while memory had another one).

**`WebPanel`** (instances: `MCWebPanel`). A request is cut where the code takes or
releases `sessionMu`, `loginMu` and `secMu` and at each of the unlocked accesses to
the password's hash and salt. `saveSettings` is open, write and rename of the one
`.tmp`, with the inode a writer keeps when another renames it. The cleanup uses one
reading of the clock for both maps. History: `born` (the password a session was
opened with), `cleared`, `raced`, `lock` (the latest end a lock of the address was
given, whatever its entry says now), `eased` (addresses whose lock was running when
settings with a shorter one were posted), `promised`, `overlap`, `unsaved`.

**`OpenAPI`** (instances: `MCOpenAPI`). A request is admitted by `apiKeyMiddleware`
(table of keys, token of a user, map of keys) and then takes the steps of its
handler, one per statement of the store or call of the control plane. The client
side is reduced to its connections, of which the server may hold an old one (a
connection stays in `s.clients` until the end of `handleControlMessages`, also while
it is closing, and `NotifyClientSync` may choose it), the list it was last told and
the registrations from that list. A PATCH that gives
`enabled` is the same as enabling or disabling; one that does not writes back the
value it has read. Every statement may fail (`StoreFails`, `KeyUnread`, `SyncFails`):
most end the request; those of the two reads for the quota and of the deletion of a
client are ignored, an unread key is left to the map, an unread list is empty.
History: `keyRaced`, `overlapped`, `lifted` (clients with tunnels that nobody
counted, a failed read of the quota included), `missed` (a connection that was not
closing was passed over, or a tunnel of the same name of another client).

**`ServerLock`**. `sync.RWMutex` as documented (a waiting writer blocks new readers;
a leaving writer lets the waiting readers in), and its users: plain readers and
writers, `GetStatus` with its second read lock, `KickClient` and `NotifyClientSync`,
and the two writers that send on a control connection while they hold it.

`*Proofs` modules hold the theorems. Operators whose comment begins "Mutant of"
are the plausible bugs each property is tested against; no specification uses them.

Assumptions of the models, each also where it matters in the code:

- a managed client is not called `default` and configured tokens are distinct;
- the start-up queries of the store succeed, so that an index that is nil goes
  with an empty table (the nil branch of `FillCache` then never runs);
- connIDs (nanosecond clock) are unique;
- writes to a control connection do not block, except in `ServerLock`;
- session ids, salts and tokens are unique, and a hash identifies password and salt;
- in `Traffic` API calls on one client do not overlap (`ControlPlane` has that), and a
  client that is created again has the token it had;
- `recordFailedLogin` reads the limit and the lock time in two critical sections of
  `secMu`; `WebPanel` takes both at once;
- the hash and the salt, read and written without a lock, are strings of fixed
  lengths, so that a torn header is one of the two values; the map of API keys is
  not locked either, and what the Go runtime does when it notices (it ends the
  process) is `Restart`;
- the client of `OpenAPI` has no tunnels of its own in `client.yaml`
  (`ClientSession` has those);
- a deadline may expire at any time after it is set; a frame is read whole.

## 3. Runs

| Run | Checks | Instance and why it is enough |
|---|---|---|
| `tunnels` | TunnelsOwned, SocketsExact, TunnelIsolation, ClosedIsCleanedUp | 2 connections, 2 tunnel names, tcp/udp/unsupported on one port (two endpoints and a conflict), 1 restart |
| `identity` | RegisteredAuthentic, TenantAuthIsolation, DurableAdd | 2 connections, 2 clients (one configured), 3 tokens, 2 overlapping API calls, store errors, 1 restart; symmetric in connections and calls |
| `tcp_rendezvous` | PairedByConnID, NoStalePending, DataConnOwnedOnce, UserServedOrClosed, AcceptorReturns | 3 public connections and a close: one served, one timing out, one arriving late |
| `udp_sessions` | SessionIndexExact, RepliesReachOrigin, StrandedAtMostOne | 2 users; enough sessions that a user has an expired one and a new one; a buffer that fills; 960 000 states |
| `conn_guard` | CountExact, LimitHolds, BansAreServed | 3 handlers for a limit of 2; one guarded, one loopback and one whitelisted address; the clock passes a whole ban |
| `client_session` | ChannelsTracked, ConnectReturns | a TCP and a UDP tunnel, one in `client.yaml`, two messages under way, any number of reconnects and API calls |
| `tcp_forward` | NothingLost, CountedOnce, ImplementsStreams | two chunks up and one down, sockets of one chunk (every writer blocks), two outside events out of close, half-close, cut and damage; 450 000 states |
| `traffic` | NotifiedOnce, LedgerExact | 3 copiers of one client, quotas 0, 1 and 2, 3 chunks, removal and re-creation, logins that fill the index, failing reads and writes, 2 crashes; clients share nothing else; 820 000 states |
| `panel` | OldSessionsRaced, PasswordIntact, LocksServed | 2 requests at a time, 5 in all, 2 sessions, 2 passwords, 1 change of the password, 1 crash; a configured lock of 2 minutes after 2 failures, posted settings that lock for 1 minute after 1, so that counted failures meet a lower limit and a running lock a shorter one; the clock passes a lock and a session; 1.4 million states. That a failure under way really shortens the lock takes 6 requests: `MCPanelLocks.cfg` checks LocksServed there, with one session and no change of the password (610 000 states) |
| `open_api` | KeysAgree, QuotaKept, DisabledStops | 2 overlapping requests of every kind, one client with a limit of 1 and 3 tunnels (the 2 that an overlap may reach can be passed), 2 connections of it, 2 faults out of loss, restart and store error; symmetric in the tunnels that are only created; 1.6 million states |
| `server_lock` | LockServed | 3 goroutines (a holder, a writer that waits, one behind it), each doing anything any number of times, one message of room; 18 000 states |

Each passing run on a component also checks its `TypeOK` (of the guard `GuardTypeOK`;
`identity` leaves it to `tunnels`; `tcp_forward` and `server_lock` check none: their
properties read every variable). Deadlock is checked in `udp_sessions`, `conn_guard` and
`client_session`, whose systems never stop. In the other instances it is not: they
have a finite number of connections, users, requests or chunks, each of which comes
to its end; `traffic` never stops because its API calls go on.

Fairness. `tunnels`: the goroutine of a connection is scheduled and gets `s.mu`
(Go mutexes are starvation-free). `tcp_rendezvous`: the waiting goroutines and
the accept loop are scheduled and their timers fire; nothing is assumed of users,
client or streams. `client_session`: the main loop runs and its deadlines expire;
nothing is assumed of the server's answers. `tcp_forward`: the four goroutines and
the two `forwardWithAuth` are scheduled, and user and service read what reaches
them (the code sets no deadline, so a peer that does neither holds its connection);
nothing is assumed of the network. Each is weak fairness of whole processes, which
a scheduler and a timer give. `server_lock` adds strong fairness of two steps that
others can disable again and again: the turn of a writer (writers queue on a
`sync.Mutex`, which does not starve) and a write to a connection with room (others
write to it too, and the kernel serves all).

### Disagreements found

The run `client_reconnect` shows that tunnels stay down after a reconnect:
`c.proxies` survives the disconnect, both registration loops skip what is in it,
and the server has dropped it. The others have a configuration each, which TLC
refutes (`tlc -config X.cfg M`):

| Configuration | Module | What happens |
|---|---|---|
| `VRemovedRevoked` | MCControlPlane | `RemoveManagedClient` clears the index before the row; a login in between restores the removed token |
| `VRemovedOffline` | MCControlPlane | a login past its token check survives the removal of its client |
| `VReseeded` | MCControlPlane | a configured client removed through the API is back after a restart |
| `VOnline` | MCControlPlane | `clientNames` is never pruned: a disconnected client is listed as online |
| `VTunnelLimit` | MCControlPlane | `handleNewProxy` does not enforce `max_tunnels` |
| `VDataConnLeft` | TcpDataChannel | timer and delivery cross: the data connection stays open in a channel nobody reads |
| `VEarlyRejection` | TcpDataChannel | NewConn goes out before the connID is registered; a fast client is turned away and the user waits 30 s |
| `VStranded` | UdpDataChannel | the address is learnt between check and append: the envelope is never flushed |
| `VBackendOpen` | UdpDataChannel | backend sockets of expired sessions are never closed |
| `VPanic` | ClientSession | as in `client_reconnect`, and `udpQuit` is closed twice at the second disconnect: panic |
| `VUdpChannel` | ClientSession | a late answer is taken for the next registration and its data port dialled for the wrong tunnel |
| `VOverQuota` | MCTraffic | the limit is compared with the bytes since the start, not with the recorded ones: after a restart a client over its quota is not announced |
| `VSessionsCleared` | MCWebPanel | a request that has read its session writes it back after a password change has cleared all sessions |
| `VPasswordSurvives` | MCWebPanel | a settings request saves the hash it read before a password change: after a restart the old password is in force |
| `VLockShortened` | MCWebPanel | a failure under way when settings with a shorter lock are posted ends a running lock before its time |
| `VAlwaysStops` | MCOpenAPI | the server holds two connections of a client and `NotifyClientSync` closes the dead or the closing one: a disabled tunnel registered from the older list runs on |
| `VTenantRows` | MCOpenAPI | rows are changed by tunnel name alone: a user's request changes a tunnel of the same name of someone else's client |
| `VStatusReturns` | ServerLock | a writer asks for `s.mu` between the two read locks of `GetStatus`: neither proceeds |
| `VKickReturns` | ServerLock | a client that does not read blocks a write under `s.mu`; the kick that would end it waits for `s.mu` |

Facts the models rest on, which nothing in the repository denies: the handlers of
API keys and of closing a tunnel do not look at who is calling; deleting a user
leaves his clients; the tunnels of a removed client stay in the table and belong to
the next client of that name; an API key of `server.yaml` that was deleted is
imported again at the next start.

## 4. Proofs

Every theorem holds for all values of the constants, under the named assumptions
of the component's module: null values are distinct from what they stand beside,
bounds are numbers, and what is counted is finite (the handlers of `ConnGuard`, the
copiers of `Traffic`, the requests of `WebPanel` and of `OpenAPI`: each is a
goroutine; and the tunnels of `OpenAPI`, which are rows of a table). `ConnGuard`
has a positive threshold, `TcpForward` sockets with room for a chunk, `WebPanel`
default settings within their limits and the salt that the configured password has
drawn. Each module proves one inductive invariant, which TLC has checked first, and
reads the theorems off it.

- **`ControlPlaneProofs`**: TypeOK, TunnelsOwned, SocketsExact, TunnelIsolation,
  RegisteredAuthentic, TenantAuthIsolation, DurableAdd. TunnelsOwned is not
  inductive alone: it needs that a serving connection is in `clients` under the name
  it logged in with, which the invariant adds. TunnelIsolation is an action property
  that follows from it: only `Disconnect`, `CloseProxy` and `Restart` shrink
  `proxies`. RegisteredAuthentic and TenantAuthIsolation need that every place a
  credential is read from holds issued pairs only, however stale it is: the index,
  the table, an API call between its steps and a login between its lookup and its
  registration (`CredInv`). DurableAdd needs that the verdict on a name
  stays open while a call on it is under way and that two such calls at a time have
  been noticed (`VerdictInv`).
- **`TcpDataChannelProofs`**: TypeOK, PairedByConnID, NoStalePending,
  DataConnOwnedOnce. The strengthening says that an announcement exists once (it is
  in the queue, at the dialler or became a data connection) and that an entry taken
  out of `pending` is in the hands of the accept loop or in the channel: this is
  what keeps the send from blocking.
- **`UdpDataChannelProofs`**: TypeOK, SessionIndexExact, RepliesReachOrigin,
  StrandedAtMostOne, and that `pendingOut` keeps its capacity. The invariant follows a payload through every place it can be in
  (`todo`, `pendingOut`, both networks, the backend) and says it carries the sid
  of the user who caused it, a sid never being given out twice. StrandedAtMostOne
  needs that a sender who has seen no address finds the buffer empty once the
  address is known, since learning it has flushed the buffer.
- **`ConnectionProofs`**, about both ends of a control connection. The client:
  TypeOK, ChannelsTracked; needed: `registerProxy` waits for a tunnel that is not yet
  in the map, and only while `connect` runs. The guard: GuardTypeOK, CountExact,
  LimitHolds, BansAreServed; needed: a handler has an address exactly when it is not
  free, and the blacklist entry of an address whose ban is running is its last ban.
- **`TrafficProofs`**: TypeOK, LedgerExact, NotifiedOnce. The ledger counts what the
  flushes of a client still carry next to its row (`ChunkInv`), which needs that a
  client without a row has no bytes there. NotifiedOnce needs that a client over its
  limit and not yet announced has a copier that will still see both its total and
  its present limit (`PendingInv`), wherever between its reads that copier is, unless
  a failing read has shown one of them another limit.
- **`TcpForwardProofs`**: TypeOK, NothingLost, CountedOnce, and the safety of the
  refinement, Spec => Streams!Safety. NothingLost only speaks of a connection that
  nothing has ended; the invariant says for every state that each part of the
  pipeline (socket, buffer of a goroutine, frames, output) holds consecutive chunks,
  that the parts meet without a gap as long as both connections stand, and that
  nothing fails by itself. From it every step maps to a step or a stutter of
  `StreamPair`, whose `Spec` is `Safety` and its fairness.
- **`WebPanelProofs`**: TypeOK, LocksServed, OldSessionsRaced, PasswordIntact.
  LocksServed is an action property: it needs that a lock that is not over, of an
  address that is not in `eased`, is the one in `failedLogins`, that the lock time in
  force would not end it sooner, and that the cleanup's reading of the clock is not
  ahead of it. OldSessionsRaced needs the same of every request that is about to write a
  session as of the sessions that are there. PasswordIntact speaks of the moments
  without a writer; the invariant follows the one writer through hash, salt, `.tmp`
  and rename, and shows what a crash finds at each of them (`WriterInv`, `FileInv`).
  That there is one writer comes from a lemma on the cardinality of a set.

- **`OpenAPIProofs`**: TypeOK, KeysAgree, QuotaKept, DisabledStops.
  - TypeOK bounds the tokens by the calls; this needs that a request under way has not
    drawn one, which is a count of the busy requests (`TokensInv`), and what each
    request holds at each step of its handler (`ReqInv`).
  - KeysAgree speaks of keys that nobody changes. In between, the one writer of a key
    has changed the table and not yet the map (`KeyInv`), so that the map follows to
    the same value.
  - QuotaKept needs that a request on its way to the count holds the limit of its
    client, and that whoever is about to insert leaves the client below the limit as
    long as no two of them met; once two have met, tunnels and pending insertions
    together stay below the limit and the number of requests (`QuotaInv`). A client
    whose quota could not be read is exempt: the code lets the request through.
  - DisabledStops speaks of tunnels that run. The strengthening (`StopInv`) says the
    same of every connection that runs a tunnel or has it on a list it has not yet
    registered: a row that is not enabled is known to a request that will tell the
    client, or the connection is closing, or the client has missed it. A notification
    that chooses a closing connection is missed if another is not closing. It also
    needs that a connection that is off has no list and no tunnels.

Every invariant and every action property that a run checks is proved. Only
model-checked: liveness (ClosedIsCleanedUp, UserServedOrClosed, AcceptorReturns,
ConnectReturns, LockServed and the liveness in ImplementsStreams), which is out of
the prover's reach here.

## 5. Not modelled

The bytes of messages, TLS, digests and the encoding of frames; passwords and the
login of API users (they touch no other state) and the settings table (no code uses
it); `reportTraffic` of the client, an optional report to a platform outside the
repository; panel handlers that only read; the other mutexes, whose critical
sections are steps; configuration parsing, webhooks (sent
and forgotten), compression (used by nothing), the C implementation, the Node panel
and the SDKs.

## 6. Plan

1. An abstract rendezvous that `TcpDataChannel` refines.
2. Lemmas that the proof modules share, kept once: a step of one goroutine leaves
   the others alone.
3. `reportTraffic` of the client.
