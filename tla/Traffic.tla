------------------------------- MODULE Traffic -------------------------------
(***************************************************************************)
(* The traffic of the managed clients and their quota                      *)
(* (src/cmd/server/main.go: addClientTraffic and what it calls; table      *)
(* clients of src/pkg/store/store.go).                                     *)
(*                                                                         *)
(* Every chunk a copier forwards is counted in memory, compared with the   *)
(* quota, and added to the database by a goroutine of its own.  Each of    *)
(* these steps takes its own lock, so that copiers, API calls and flushes  *)
(* come between them; a crash loses the memory and the flushes that have   *)
(* not run.  A login that finds the client's token in the table only fills *)
(* the index in memory.  A chunk counts 1.  Abstracted: the two directions *)
(* (the quota is on their sum), owners and tokens (ControlPlane has them;  *)
(* here a client that is created again has the token it had), the text of  *)
(* the event.  The traffic of the client "default" is not counted.         *)
(***************************************************************************)
EXTENDS Naturals, FiniteSets

CONSTANTS
  Clients,      \* names of managed clients
  Copiers,      \* goroutines that forward a stream
  Quotas,       \* MaxTrafficBytes an API call may set; 0 is no limit
  Seed,         \* client -> its quota in server.yaml, or NoQuota
  NoQuota,      \* the client is not there
  MaxChunks,    \* bound on the chunks of a behaviour
  MaxCrashes    \* bound on its crashes

ASSUME QuotaAssumption ==
  /\ Quotas \subseteq Nat
  /\ NoQuota \notin Nat
  /\ Seed \in [Clients -> Quotas \cup {NoQuota}]
ASSUME BoundAssumption == MaxChunks \in Nat /\ MaxCrashes \in Nat
ASSUME CopiersAssumption == IsFiniteSet(Copiers)

VARIABLES
  rowQuota,      \* client -> max_traffic_bytes of its row, NoQuota without a row
  rowBytes,      \* client -> bytes_in + bytes_out of its row
  managed,       \* client -> MaxTrafficBytes in managedByToken, or NoQuota
  clientTraffic, \* client -> bytes counted in memory
  notifiedLimit, \* client -> the event was sent
  copier,        \* copier -> where it is, for which client, with which limit
  flushes,       \* client -> goroutines that have not called AddTraffic yet
  admin,         \* the API call in progress
  login,         \* client -> what a login with its token does next
  crashes,
  events,        \* history: client -> events sent since the start
  ever,          \* history: client -> chunks counted in all lives
  exact,         \* history: client -> no chunk was lost and no row deleted
  recheck        \* history: client -> a chunk was counted since the quota was last written
                 \* and since it was last misread

table   == <<rowQuota, rowBytes>>
memory  == <<managed, clientTraffic, notifiedLimit>>
history == <<events, ever, exact, recheck>>
vars    == <<table, memory, copier, flushes, admin, login, crashes, history>>

Idle == [at |-> "idle"]

\* The start imports a client of server.yaml that has no row.
Seeded(c) == Seed[c] # NoQuota /\ rowQuota[c] = NoQuota

Init ==
  /\ rowQuota = Seed
  /\ rowBytes = [c \in Clients |-> 0]
  /\ managed = rowQuota
  /\ clientTraffic = [c \in Clients |-> 0]
  /\ notifiedLimit = [c \in Clients |-> FALSE]
  /\ copier = [k \in Copiers |-> Idle]
  /\ flushes = [c \in Clients |-> 0]
  /\ admin = Idle
  /\ login = [c \in Clients |-> Idle]
  /\ crashes = 0
  /\ events = [c \in Clients |-> 0]
  /\ ever = [c \in Clients |-> 0]
  /\ exact = [c \in Clients |-> TRUE]
  /\ recheck = [c \in Clients |-> FALSE]

-----------------------------------------------------------------------------
(* addClientTraffic and checkTrafficLimit, called by a copier.             *)

Goes(k, pc) == copier' = [copier EXCEPT ![k].at = pc]

\* Under s.mu.  Also for a client that was removed: its streams go on.
addClientTraffic(k, c) ==
  /\ copier[k] = Idle
  /\ ever[c] < MaxChunks
  /\ clientTraffic' = [clientTraffic EXCEPT ![c] = @ + 1]
  /\ copier' = [copier EXCEPT ![k] = [at |-> "row", client |-> c, limit |-> 0]]
  /\ ever' = [ever EXCEPT ![c] = @ + 1]
  /\ recheck' = [recheck EXCEPT ![c] = TRUE]
  /\ UNCHANGED <<table, managed, notifiedLimit, flushes, admin, login, crashes, events, exact>>

MemoryLimit(c) == IF managed[c] = NoQuota THEN 0 ELSE managed[c]

\* The limit of a client: the row has precedence over the memory, and a
\* client that is in neither has none.
Limit(c) == IF rowQuota[c] # NoQuota THEN rowQuota[c] ELSE MemoryLimit(c)

\* clientMaxTraffic looks for the row first ...
LimitFromRow(k) ==
  /\ copier[k].at = "row"
  /\ LET q == rowQuota[copier[k].client] IN
       copier' = [copier EXCEPT ![k].limit = IF q = NoQuota THEN 0 ELSE q,
                                ![k].at = IF q = NoQuota THEN "memory"
                                          ELSE IF q = 0 THEN "flush" ELSE "total"]
  /\ UNCHANGED <<table, memory, flushes, admin, login, crashes, history>>

\* ... an error of the store is ignored and counts as no row: the quota is
\* misread if the memory has another one ...
LimitReadFails(k) ==
  /\ copier[k].at = "row"
  /\ Goes(k, "memory")
  /\ LET c == copier[k].client IN
       recheck' = [recheck EXCEPT ![c] = @ /\ MemoryLimit(c) = Limit(c)]
  /\ UNCHANGED <<table, memory, flushes, admin, login, crashes, events, ever, exact>>

\* Mutant of LimitFromMemory: a client that is not there is not noticed.
LimitFromMemoryUnchecked(k) ==
  /\ copier[k].at = "memory"
  /\ copier' = [copier EXCEPT ![k].limit = managed[copier[k].client], ![k].at = "total"]
  /\ UNCHANGED <<table, memory, flushes, admin, login, crashes, history>>

\* ... and then in the memory.
LimitFromMemory(k) ==
  /\ copier[k].at = "memory"
  /\ LET q == managed[copier[k].client] IN
       IF q \in {NoQuota, 0} THEN Goes(k, "flush")
       ELSE copier' = [copier EXCEPT ![k].limit = q, ![k].at = "total"]
  /\ UNCHANGED <<table, memory, flushes, admin, login, crashes, history>>

Over(k) == clientTraffic[copier[k].client] >= copier[k].limit

\* clientTotalTraffic, under a read lock of its own.
CompareTotal(k) ==
  /\ copier[k].at = "total"
  /\ Goes(k, IF Over(k) THEN "notify" ELSE "flush")
  /\ UNCHANGED <<table, memory, flushes, admin, login, crashes, history>>

\* Mutant of Notify: the flag is not looked at again under the lock.
NotifyBlindly(k) ==
  /\ copier[k].at = "notify"
  /\ notifiedLimit' = [notifiedLimit EXCEPT ![copier[k].client] = TRUE]
  /\ events' = [events EXCEPT ![copier[k].client] = @ + 1]
  /\ Goes(k, "flush")
  /\ UNCHANGED <<table, managed, clientTraffic, flushes, admin, login, crashes, ever, exact, recheck>>

\* Test and set of notifiedLimit under s.mu, then the event.
Notify(k) ==
  /\ copier[k].at = "notify"
  /\ LET c == copier[k].client IN
       IF notifiedLimit[c] THEN UNCHANGED <<notifiedLimit, events>>
       ELSE /\ notifiedLimit' = [notifiedLimit EXCEPT ![c] = TRUE]
            /\ events' = [events EXCEPT ![c] = @ + 1]
  /\ Goes(k, "flush")
  /\ UNCHANGED <<table, managed, clientTraffic, flushes, admin, login, crashes, ever, exact, recheck>>

SpawnFlush(k) ==
  /\ copier[k].at = "flush"
  /\ flushes' = [flushes EXCEPT ![copier[k].client] = @ + 1]
  /\ copier' = [copier EXCEPT ![k] = Idle]
  /\ UNCHANGED <<table, memory, admin, login, crashes, history>>

\* Mutant of AddTraffic: the sum is written that was read when it started.
AddTrafficLate(c) ==
  /\ flushes[c] > 0
  /\ flushes' = [flushes EXCEPT ![c] = @ - 1]
  /\ rowBytes' = IF rowQuota[c] = NoQuota THEN rowBytes
                 ELSE [rowBytes EXCEPT ![c] = clientTraffic[c]]
  /\ exact' = [exact EXCEPT ![c] = @ /\ rowQuota[c] # NoQuota]
  /\ UNCHANGED <<rowQuota, memory, copier, admin, login, crashes, events, ever, recheck>>

\* UPDATE ... SET bytes = bytes + n WHERE name = c: without a row, nothing.
AddTraffic(c) ==
  /\ flushes[c] > 0
  /\ flushes' = [flushes EXCEPT ![c] = @ - 1]
  /\ rowBytes' = IF rowQuota[c] = NoQuota THEN rowBytes
                 ELSE [rowBytes EXCEPT ![c] = @ + 1]
  /\ exact' = [exact EXCEPT ![c] = @ /\ rowQuota[c] # NoQuota]
  /\ UNCHANGED <<rowQuota, memory, copier, admin, login, crashes, events, ever, recheck>>

\* The database refuses; the error is logged and the chunk forgotten.
AddTrafficFails(c) ==
  /\ flushes[c] > 0
  /\ flushes' = [flushes EXCEPT ![c] = @ - 1]
  /\ exact' = [exact EXCEPT ![c] = FALSE]
  /\ UNCHANGED <<table, memory, copier, admin, login, crashes, events, ever, recheck>>

-----------------------------------------------------------------------------
(* The API: memory first, under s.mu, and then the row.                    *)

QuotaChanges(c) == recheck' = [recheck EXCEPT ![c] = FALSE]

AddManagedClient(c, q) ==
  /\ admin = Idle
  /\ managed[c] = NoQuota
  /\ managed' = [managed EXCEPT ![c] = q]
  /\ admin' = [at |-> "add", client |-> c, quota |-> q]
  /\ QuotaChanges(c)
  /\ UNCHANGED <<table, clientTraffic, notifiedLimit, copier, flushes, login, crashes, events, ever,
                 exact>>

\* INSERT, or UpdateClientQuota for a row that is there, which keeps its bytes.
AddRow ==
  /\ admin.at = "add"
  /\ rowQuota' = [rowQuota EXCEPT ![admin.client] = admin.quota]
  /\ admin' = Idle
  /\ QuotaChanges(admin.client)
  /\ UNCHANGED <<rowBytes, memory, copier, flushes, login, crashes, events, ever, exact>>

\* The counters and the flag of the client stay in memory.
RemoveManagedClient(c) ==
  /\ admin = Idle
  /\ managed[c] # NoQuota \/ rowQuota[c] # NoQuota
  /\ managed' = [managed EXCEPT ![c] = NoQuota]
  /\ admin' = [at |-> "remove", client |-> c]
  /\ QuotaChanges(c)
  /\ UNCHANGED <<table, clientTraffic, notifiedLimit, copier, flushes, login, crashes, events, ever,
                 exact>>

DeleteRow ==
  /\ admin.at = "remove"
  /\ rowQuota' = [rowQuota EXCEPT ![admin.client] = NoQuota]
  /\ rowBytes' = [rowBytes EXCEPT ![admin.client] = 0]
  /\ exact' = [exact EXCEPT ![admin.client] = @ /\ rowBytes[admin.client] = 0]
  /\ admin' = Idle
  /\ QuotaChanges(admin.client)
  /\ UNCHANGED <<memory, copier, flushes, login, crashes, events, ever>>

\* The database refuses: the memory stays as it is changed.
RowFails ==
  /\ admin # Idle
  /\ admin' = Idle
  /\ UNCHANGED <<table, memory, copier, flushes, login, crashes, history>>

-----------------------------------------------------------------------------
(* A login: the token is not in memory, the row is read, the index filled. *)

LoginMisses(c) ==
  /\ login[c] = Idle
  /\ managed[c] = NoQuota
  /\ login' = [login EXCEPT ![c] = [at |-> "row"]]
  /\ UNCHANGED <<table, memory, copier, flushes, admin, crashes, history>>

\* GetClientByToken; without a row, or with an error, nothing is filled.
LoginReadsRow(c) ==
  /\ login[c].at = "row"
  /\ \/ /\ rowQuota[c] # NoQuota
        /\ login' = [login EXCEPT ![c] = [at |-> "fill", quota |-> rowQuota[c]]]
     \/ login' = [login EXCEPT ![c] = Idle]
  /\ UNCHANGED <<table, memory, copier, flushes, admin, crashes, history>>

\* Under s.mu, with what was read before it.
FillCache(c) ==
  /\ login[c].at = "fill"
  /\ managed' = [managed EXCEPT ![c] = login[c].quota]
  /\ login' = [login EXCEPT ![c] = Idle]
  /\ QuotaChanges(c)
  /\ UNCHANGED <<table, clientTraffic, notifiedLimit, copier, flushes, admin, crashes, events,
                 ever, exact>>

-----------------------------------------------------------------------------
InFlight(c) ==
  flushes[c] + Cardinality({k \in Copiers : copier[k].at # "idle" /\ copier[k].client = c})

\* The process dies and starts again on the same database.
Restart ==
  /\ crashes < MaxCrashes
  /\ crashes' = crashes + 1
  /\ rowQuota' = [c \in Clients |-> IF Seeded(c) THEN Seed[c] ELSE rowQuota[c]]
  /\ rowBytes' = [c \in Clients |-> IF Seeded(c) THEN 0 ELSE rowBytes[c]]
  /\ managed' = rowQuota'
  /\ clientTraffic' = [c \in Clients |-> 0]
  /\ notifiedLimit' = [c \in Clients |-> FALSE]
  /\ copier' = [k \in Copiers |-> Idle]
  /\ flushes' = [c \in Clients |-> 0]
  /\ admin' = Idle
  /\ login' = [c \in Clients |-> Idle]
  /\ events' = [c \in Clients |-> 0]
  /\ exact' = [c \in Clients |-> exact[c] /\ InFlight(c) = 0]
  /\ recheck' = [c \in Clients |-> FALSE]
  /\ UNCHANGED ever

CopierStep(k) ==
  \/ \E c \in Clients : addClientTraffic(k, c)
  \/ LimitFromRow(k) \/ LimitReadFails(k) \/ LimitFromMemory(k)
  \/ CompareTotal(k) \/ Notify(k) \/ SpawnFlush(k)

AdminStep ==
  \/ \E c \in Clients, q \in Quotas : AddManagedClient(c, q)
  \/ \E c \in Clients : RemoveManagedClient(c)
  \/ AddRow \/ DeleteRow \/ RowFails

LoginStep ==
  \E c \in Clients : LoginMisses(c) \/ LoginReadsRow(c) \/ FillCache(c)

Next ==
  \/ \E k \in Copiers : CopierStep(k)
  \/ \E c \in Clients : AddTraffic(c) \/ AddTrafficFails(c)
  \/ AdminStep
  \/ LoginStep
  \/ Restart

Spec == Init /\ [][Next]_vars

-----------------------------------------------------------------------------
(* Properties.                                                             *)

\* The type of every variable.
TypeOK ==
  /\ rowQuota \in [Clients -> Quotas \cup {NoQuota}]
  /\ rowBytes \in [Clients -> Nat]
  /\ managed \in [Clients -> Quotas \cup {NoQuota}]
  /\ clientTraffic \in [Clients -> Nat]
  /\ notifiedLimit \in [Clients -> BOOLEAN]
  /\ copier \in [Copiers -> {Idle} \cup
                  [at : {"row", "memory", "total", "notify", "flush"}, client : Clients,
                   limit : Quotas \cup {0}]]
  /\ flushes \in [Clients -> Nat]
  /\ admin \in {Idle} \cup [at : {"add"}, client : Clients, quota : Quotas]
               \cup [at : {"remove"}, client : Clients]
  /\ login \in [Clients -> {Idle} \cup [at : {"row"}] \cup [at : {"fill"}, quota : Quotas]]
  /\ crashes \in 0 .. MaxCrashes
  /\ events \in [Clients -> Nat]
  /\ ever \in [Clients -> Nat]
  /\ exact \in [Clients -> BOOLEAN]
  /\ recheck \in [Clients -> BOOLEAN]

Settled(c) == recheck[c] /\ \A k \in Copiers : copier[k].at = "idle" \/ copier[k].client # c

\* checkTrafficLimit reads limit, total and flag under three locks.  Still
\* the event is sent at most once in the life of the process, and no client
\* that has used up its quota is missed: when its copiers are done, and a
\* chunk was counted since its quota was last written or misread, it has been
\* sent.  A quota is misread when the store fails (main.go 1190 ignores the
\* error) while the index in memory has another one: a store that fails
\* while the two agree hides nothing.
NotifiedOnce ==
  \A c \in Clients :
    /\ events[c] <= 1
    /\ Settled(c) /\ Limit(c) > 0 /\ clientTraffic[c] >= Limit(c) => events[c] = 1

\* The traffic the API reports (ListClientsTraffic: the bytes of the row).
Reported(c) == IF rowQuota[c] = NoQuota THEN 0 ELSE rowBytes[c]

\* No chunk is charged twice, whichever goroutines overlap; and as long as
\* no flush failed, no process died between counting and writing, and no row
\* was deleted, none is missing: the row and the flushes under way add up
\* to what was forwarded, over all lives of the process.
LedgerExact ==
  \A c \in Clients :
    /\ Reported(c) + InFlight(c) <= ever[c]
    /\ exact[c] => rowBytes[c] + InFlight(c) = ever[c]

\* "traffic is all read from and written to the DB, and survives a restart"
\* (README.md 270), of the quota: a client that is settled and whose recorded
\* traffic has reached its limit has been reported.
OverQuotaAfterRestart ==
  \A c \in Clients :
    Settled(c) /\ InFlight(c) = 0 /\ Limit(c) > 0 /\ Reported(c) >= Limit(c) => events[c] = 1
=============================================================================
