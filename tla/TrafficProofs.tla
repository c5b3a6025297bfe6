---------------------------- MODULE TrafficProofs ----------------------------
(***************************************************************************)
(* Proofs about Traffic for every set of clients and quotas, every         *)
(* server.yaml and any finite number of copiers.                           *)
(***************************************************************************)
EXTENDS Traffic, FiniteSetTheorems, TLAPS

\* The places of a copier between counting a chunk and handing it over.
Places == {"row", "memory", "total", "notify", "flush"}

BusyCopier == [at : Places, client : Clients, limit : Quotas \cup {0}]

\* The copiers that carry a chunk of a client.
Carriers(c) == {k \in Copiers : copier[k].at # "idle" /\ copier[k].client = c}

\* A row that is not there holds no bytes: the import of a client of
\* server.yaml at a restart sets none back.
RowInv ==
  \A c \in Clients : rowQuota[c] = NoQuota => rowBytes[c] = 0

\* The ledger, without the way the API reports it.
ChunkInv ==
  \A c \in Clients :
    /\ rowBytes[c] + InFlight(c) <= ever[c]
    /\ exact[c] => rowBytes[c] + InFlight(c) = ever[c]

\* The flag is the count of the events.
EventInv ==
  \A c \in Clients : events[c] = IF notifiedLimit[c] THEN 1 ELSE 0

\* A copier that will compare the client's total with its present limit.
WillSee(k, c) ==
  /\ copier[k].at # "idle"
  /\ copier[k].client = c
  /\ \/ copier[k].at = "row"
     \/ copier[k].at = "memory" /\ MemoryLimit(c) = Limit(c)
     \/ copier[k].at = "total" /\ copier[k].limit = Limit(c)
     \/ copier[k].at = "notify"

\* A client over its limit that has not been reported is about to be: the
\* copier of its last chunk has not compared yet, with the limit of now.
PendingInv ==
  \A c \in Clients :
    recheck[c] /\ Limit(c) > 0 /\ clientTraffic[c] >= Limit(c) =>
      notifiedLimit[c] \/ \E k \in Copiers : WillSee(k, c)

IInv == TypeOK /\ RowInv /\ ChunkInv /\ EventInv /\ PendingInv

USE QuotaAssumption, BoundAssumption, CopiersAssumption DEF Idle, Places, BusyCopier

\* A copier that is not idle carries a chunk of a client.
LEMMA BusyType ==
  ASSUME TypeOK, NEW k \in Copiers, copier[k].at # "idle"
  PROVE  copier[k] \in BusyCopier
BY DEF TypeOK

\* The carriers are counted by a natural number, and InFlight counts them.
LEMMA CarriersFinite ==
  ASSUME NEW c
  PROVE  /\ IsFiniteSet(Carriers(c))
         /\ Cardinality(Carriers(c)) \in Nat
         /\ InFlight(c) = flushes[c] + Cardinality(Carriers(c))
<1>1. Carriers(c) \subseteq Copiers
  BY DEF Carriers
<1>2. IsFiniteSet(Carriers(c))
  BY <1>1, FS_Subset
<1>3. InFlight(c) = flushes[c] + Cardinality(Carriers(c))
  BY DEF InFlight, Carriers
<1> QED BY <1>2, <1>3, FS_CardinalityType

\* An assignment to two fields of a busy copier, as one record.
LEMMA TwoFields ==
  ASSUME TypeOK, NEW k \in Copiers, copier[k].at # "idle",
         NEW p \in Places, NEW l \in Quotas \cup {0}
  PROVE  [copier EXCEPT ![k].limit = l, ![k].at = p] =
           [copier EXCEPT ![k] = [at |-> p, client |-> copier[k].client, limit |-> l]]
<1>1. PICK r \in BusyCopier : r = copier[k]
  BY BusyType
<1>2. PICK s \in BusyCopier : s = [r EXCEPT !.limit = l]
  OBVIOUS
<1>3. [s EXCEPT !.at = p] = [at |-> p, client |-> s.client, limit |-> s.limit]
  OBVIOUS
<1>4. s.client = r.client /\ s.limit = l
  BY <1>2
<1>5. copier \in [Copiers -> {Idle} \cup BusyCopier]
  BY DEF TypeOK
<1>6. [copier EXCEPT ![k].limit = l, ![k].at = p] =
        [copier EXCEPT ![k] = [[r EXCEPT !.limit = l] EXCEPT !.at = p]]
  BY <1>1, <1>5, Zenon
<1> QED BY <1>1, <1>2, <1>3, <1>4, <1>6, Zenon

\* The place of a busy copier and the limit it has read change: it keeps its
\* chunk.
Moves(k, p, l) ==
  copier' = [copier EXCEPT ![k] = [at |-> p, client |-> copier[k].client, limit |-> l]]

LEMMA Moved ==
  ASSUME TypeOK, NEW k \in Copiers, copier[k].at # "idle",
         NEW p \in Places, NEW l \in Quotas \cup {0}, Moves(k, p, l)
  PROVE  /\ copier' \in [Copiers -> {Idle} \cup BusyCopier]
         /\ \A c \in Clients : Carriers(c)' = Carriers(c)
<1>1. copier[k] \in BusyCopier /\ copier \in [Copiers -> {Idle} \cup BusyCopier]
  BY BusyType DEF TypeOK
<1>2. copier' \in [Copiers -> {Idle} \cup BusyCopier]
  BY <1>1 DEF Moves
<1>3. \A c \in Clients : Carriers(c)' = Carriers(c)
  BY <1>1 DEF Carriers, Moves
<1> QED BY <1>2, <1>3

\* The same for a step that sets the place alone.
LEMMA Gone ==
  ASSUME TypeOK, NEW k \in Copiers, copier[k].at # "idle", NEW p \in Places, Goes(k, p)
  PROVE  Moves(k, p, copier[k].limit)
<1>1. PICK r \in BusyCopier : r = copier[k]
  BY BusyType
<1>2. [r EXCEPT !.at = p] = [at |-> p, client |-> r.client, limit |-> r.limit]
  OBVIOUS
<1>3. copier \in [Copiers -> {Idle} \cup BusyCopier]
  BY DEF TypeOK
<1>4. [copier EXCEPT ![k].at = p] = [copier EXCEPT ![k] = [r EXCEPT !.at = p]]
  BY <1>1, <1>3, Zenon
<1> QED BY <1>1, <1>2, <1>4, Zenon DEF Goes, Moves

\* Counting a chunk makes an idle copier a carrier.
LEMMA CarrierAdded ==
  ASSUME TypeOK, NEW k \in Copiers, NEW c \in Clients, copier[k] = Idle,
         copier' = [copier EXCEPT ![k] = [at |-> "row", client |-> c, limit |-> 0]]
  PROVE  /\ copier' \in [Copiers -> {Idle} \cup BusyCopier]
         /\ Cardinality(Carriers(c))' = Cardinality(Carriers(c)) + 1
         /\ \A d \in Clients \ {c} : Carriers(d)' = Carriers(d)
<1>1. copier \in [Copiers -> {Idle} \cup BusyCopier]
  BY DEF TypeOK
<1>2. copier' \in [Copiers -> {Idle} \cup BusyCopier]
  BY <1>1
<1>3. Carriers(c)' = Carriers(c) \cup {k} /\ k \notin Carriers(c)
  BY <1>1 DEF Carriers
<1>4. \A d \in Clients \ {c} : Carriers(d)' = Carriers(d)
  BY <1>1 DEF Carriers
<1>5. Cardinality(Carriers(c) \cup {k}) = Cardinality(Carriers(c)) + 1
  BY <1>3, CarriersFinite, FS_AddElement
<1> QED BY <1>2, <1>3, <1>4, <1>5

\* Handing the chunk over to a flush makes it idle again.
LEMMA CarrierRemoved ==
  ASSUME TypeOK, NEW k \in Copiers, NEW c \in Clients, copier[k].at # "idle",
         copier[k].client = c, copier' = [copier EXCEPT ![k] = Idle]
  PROVE  /\ copier' \in [Copiers -> {Idle} \cup BusyCopier]
         /\ Cardinality(Carriers(c))' = Cardinality(Carriers(c)) - 1
         /\ \A d \in Clients \ {c} : Carriers(d)' = Carriers(d)
<1>1. copier \in [Copiers -> {Idle} \cup BusyCopier]
  BY DEF TypeOK
<1>2. copier' \in [Copiers -> {Idle} \cup BusyCopier]
  BY <1>1
<1>3. Carriers(c)' = Carriers(c) \ {k} /\ k \in Carriers(c)
  BY <1>1 DEF Carriers
<1>4. \A d \in Clients \ {c} : Carriers(d)' = Carriers(d)
  BY <1>1 DEF Carriers
<1>5. Cardinality(Carriers(c) \ {k}) = Cardinality(Carriers(c)) - 1
  BY <1>3, CarriersFinite, FS_RemoveElement
<1> QED BY <1>2, <1>3, <1>4, <1>5

\* The ledger of a step that leaves the carriers, the flushes and the row.
LEMMA ChunkFrame ==
  ASSUME ChunkInv, \A c \in Clients : Carriers(c)' = Carriers(c),
         UNCHANGED <<rowBytes, flushes, ever, exact>>
  PROVE  ChunkInv'
<1>1. \A c \in Clients : InFlight(c)' = InFlight(c)
  BY CarriersFinite DEF InFlight, Carriers
<1> QED BY <1>1 DEF ChunkInv

LEMMA InitIInv == Init => IInv
<1> SUFFICES ASSUME Init PROVE IInv
  OBVIOUS
<1> USE DEF Init
<1>1. TypeOK
  BY DEF TypeOK
<1>2. RowInv /\ EventInv /\ PendingInv
  BY DEF RowInv, EventInv, PendingInv
<1>3. ASSUME NEW c \in Clients PROVE InFlight(c) = 0
  <2>1. Carriers(c) = {}
    BY DEF Carriers
  <2> QED BY <2>1, CarriersFinite, FS_EmptySet
<1>4. ChunkInv
  BY <1>3 DEF ChunkInv
<1> QED BY <1>1, <1>2, <1>4 DEF IInv

\* A copier that moves leaves the ledger, and a client over its limit
\* pending: either another copier will see it, or this one still does, or
\* has notified.
LEMMA MoveIInv ==
  ASSUME IInv, NEW k \in Copiers, copier[k].at # "idle",
         NEW p \in Places, NEW l \in Quotas \cup {0}, Moves(k, p, l),
         UNCHANGED <<table, memory, flushes, admin, login, crashes, events, ever, exact>>,
         recheck' \in [Clients -> BOOLEAN],
         \A d \in Clients : recheck'[d] => recheck[d],
         LET c == copier[k].client IN
           recheck'[c] /\ WillSee(k, c) /\ Limit(c) > 0 /\ clientTraffic[c] >= Limit(c) =>
             \/ p = "memory" /\ MemoryLimit(c) = Limit(c)
             \/ p = "total" /\ l = Limit(c)
             \/ p = "notify"
  PROVE  IInv'
<1> USE DEF table, memory
<1>1. /\ copier' \in [Copiers -> {Idle} \cup BusyCopier]
      /\ \A c \in Clients : Carriers(c)' = Carriers(c)
  BY Moved DEF IInv
<1>2. TypeOK'
  BY <1>1 DEF IInv, TypeOK
<1>3. RowInv' /\ EventInv'
  BY DEF IInv, RowInv, EventInv
<1>4. ChunkInv'
  BY <1>1, ChunkFrame DEF IInv
<1>5. PendingInv'
  <2> SUFFICES ASSUME NEW c \in Clients, recheck'[c], recheck[c], Limit(c) > 0,
                      clientTraffic[c] >= Limit(c), ~notifiedLimit[c]
               PROVE  \E j \in Copiers : WillSee(j, c)'
    BY DEF PendingInv, Limit, MemoryLimit
  <2>1. PICK j \in Copiers : WillSee(j, c)
    BY DEF IInv, PendingInv
  <2>2. copier[k] \in BusyCopier /\ copier \in [Copiers -> {Idle} \cup BusyCopier]
    BY BusyType DEF IInv, TypeOK
  <2>3. CASE j # k
    BY <2>1, <2>2, <2>3 DEF WillSee, Moves, Limit, MemoryLimit
  <2>4. CASE j = k
    <3>1. copier[k].client = c
      BY <2>1, <2>4 DEF WillSee
    <3>2. copier'[k] = [at |-> p, client |-> c, limit |-> l]
      BY <2>2, <3>1 DEF Moves
    <3>3. \/ p = "memory" /\ MemoryLimit(c) = Limit(c)
          \/ p = "total" /\ l = Limit(c)
          \/ p = "notify"
      BY <2>1, <2>4, <3>1
    <3> QED BY <2>4, <3>2, <3>3 DEF WillSee, Limit, MemoryLimit
  <2> QED BY <2>3, <2>4
<1> QED BY <1>2, <1>3, <1>4, <1>5 DEF IInv

\* The same for a move that touches no history.
LEMMA PlainMoveIInv ==
  ASSUME IInv, NEW k \in Copiers, copier[k].at # "idle",
         NEW p \in Places, NEW l \in Quotas \cup {0}, Moves(k, p, l),
         UNCHANGED <<table, memory, flushes, admin, login, crashes, history>>,
         LET c == copier[k].client IN
           WillSee(k, c) /\ Limit(c) > 0 /\ clientTraffic[c] >= Limit(c) =>
             \/ p = "memory" /\ MemoryLimit(c) = Limit(c)
             \/ p = "total" /\ l = Limit(c)
             \/ p = "notify"
  PROVE  IInv'
<1>1. recheck' = recheck /\ recheck \in [Clients -> BOOLEAN]
  BY DEF history, IInv, TypeOK
<1>2. UNCHANGED <<table, memory, flushes, admin, login, crashes, events, ever, exact>>
  BY DEF history
<1> QED BY <1>1, <1>2, MoveIInv

\* The limit in force is a quota or none.
LEMMA LimitType ==
  ASSUME TypeOK, NEW c \in Clients
  PROVE  Limit(c) \in Quotas \cup {0} /\ Limit(c) \in Nat
BY DEF TypeOK, Limit, MemoryLimit

LEMMA AddClientTrafficIInv ==
  ASSUME IInv, NEW k \in Copiers, NEW c \in Clients, addClientTraffic(k, c)
  PROVE  IInv'
<1> USE DEF addClientTraffic, table
<1>1. /\ copier' \in [Copiers -> {Idle} \cup BusyCopier]
      /\ Cardinality(Carriers(c))' = Cardinality(Carriers(c)) + 1
      /\ \A d \in Clients \ {c} : Carriers(d)' = Carriers(d)
  BY CarrierAdded DEF IInv
<1>2. TypeOK'
  BY <1>1 DEF IInv, TypeOK
<1>3. RowInv' /\ EventInv'
  BY DEF IInv, RowInv, EventInv
<1>4. ChunkInv'
  <2>1. /\ rowBytes \in [Clients -> Nat] /\ flushes \in [Clients -> Nat]
        /\ ever \in [Clients -> Nat] /\ ever' = [ever EXCEPT ![c] = @ + 1]
    BY DEF IInv, TypeOK
  <2>2. InFlight(c) \in Nat /\ InFlight(c)' = InFlight(c) + 1
    <3>1. /\ InFlight(c) = flushes[c] + Cardinality(Carriers(c))
          /\ Cardinality(Carriers(c)) \in Nat
      BY CarriersFinite
    <3>2. InFlight(c)' = flushes'[c] + Cardinality(Carriers(c))'
      BY DEF InFlight, Carriers
    <3> QED BY <1>1, <2>1, <3>1, <3>2
  <2>3. ASSUME NEW d \in Clients, d # c PROVE InFlight(d)' = InFlight(d)
    BY <1>1, <2>3 DEF InFlight, Carriers
  <2>4. ASSUME NEW d \in Clients
        PROVE  /\ rowBytes'[d] + InFlight(d)' <= ever'[d]
               /\ exact'[d] => rowBytes'[d] + InFlight(d)' = ever'[d]
    <3>1. CASE d = c
      BY <2>1, <2>2, <3>1 DEF IInv, ChunkInv
    <3>2. CASE d # c
      BY <2>1, <2>3, <3>2 DEF IInv, ChunkInv
    <3> QED BY <3>1, <3>2
  <2> QED BY <2>4 DEF ChunkInv
<1>5. PendingInv'
  <2> SUFFICES ASSUME NEW d \in Clients, recheck'[d], Limit(d) > 0,
                      clientTraffic'[d] >= Limit(d), ~notifiedLimit[d]
               PROVE  \E j \in Copiers : WillSee(j, d)'
    BY DEF PendingInv, Limit, MemoryLimit
  <2>0. copier \in [Copiers -> {Idle} \cup BusyCopier] /\ recheck \in [Clients -> BOOLEAN]
        /\ clientTraffic \in [Clients -> Nat]
    BY DEF IInv, TypeOK
  <2>1. CASE d = c
    BY <2>0, <2>1 DEF WillSee
  <2>2. CASE d # c
    <3>1. PICK j \in Copiers : WillSee(j, d)
      BY <2>0, <2>2 DEF IInv, PendingInv
    <3>2. j # k
      BY <3>1 DEF WillSee
    <3> QED BY <2>0, <3>1, <3>2 DEF WillSee, Limit, MemoryLimit
  <2> QED BY <2>1, <2>2
<1> QED BY <1>2, <1>3, <1>4, <1>5 DEF IInv

LEMMA NotifyIInv ==
  ASSUME IInv, NEW k \in Copiers, Notify(k)
  PROVE  IInv'
<1> USE DEF Notify, table
<1> DEFINE c == copier[k].client
<1>0. copier[k] \in BusyCopier /\ c \in Clients /\ copier[k].limit \in Quotas \cup {0}
  BY BusyType DEF IInv
<1>1. Moves(k, "flush", copier[k].limit)
  BY Gone DEF IInv
<1>2. /\ copier' \in [Copiers -> {Idle} \cup BusyCopier]
      /\ \A d \in Clients : Carriers(d)' = Carriers(d)
  BY <1>0, <1>1, Moved DEF IInv
<1>3. /\ notifiedLimit \in [Clients -> BOOLEAN] /\ events \in [Clients -> Nat]
      /\ copier \in [Copiers -> {Idle} \cup BusyCopier]
  BY DEF IInv, TypeOK
<1>4. /\ notifiedLimit' = [notifiedLimit EXCEPT ![c] = TRUE]
      /\ events' = IF notifiedLimit[c] THEN events ELSE [events EXCEPT ![c] = events[c] + 1]
  BY <1>0, <1>3
<1>5. TypeOK'
  BY <1>0, <1>2, <1>3, <1>4 DEF IInv, TypeOK
<1>6. RowInv'
  BY DEF IInv, RowInv
<1>7. EventInv'
  BY <1>0, <1>3, <1>4 DEF IInv, EventInv
<1>8. ChunkInv'
  BY <1>2, ChunkFrame DEF IInv
<1>9. PendingInv'
  <2> SUFFICES ASSUME NEW d \in Clients, recheck[d], Limit(d) > 0,
                      clientTraffic[d] >= Limit(d), ~notifiedLimit'[d]
               PROVE  \E j \in Copiers : WillSee(j, d)'
    BY DEF PendingInv, Limit, MemoryLimit
  <2>1. d # c /\ ~notifiedLimit[d]
    BY <1>0, <1>3, <1>4
  <2>2. PICK j \in Copiers : WillSee(j, d)
    BY <2>1 DEF IInv, PendingInv
  <2>3. j # k
    BY <2>1, <2>2 DEF WillSee
  <2> QED BY <1>1, <1>3, <2>2, <2>3 DEF WillSee, Limit, MemoryLimit, Moves
<1> QED BY <1>5, <1>6, <1>7, <1>8, <1>9 DEF IInv

LEMMA SpawnFlushIInv ==
  ASSUME IInv, NEW k \in Copiers, SpawnFlush(k)
  PROVE  IInv'
<1> USE DEF SpawnFlush, table, memory, history
<1>0. PICK c \in Clients : c = copier[k].client
  BY BusyType DEF IInv
<1>1. /\ copier' \in [Copiers -> {Idle} \cup BusyCopier]
      /\ Cardinality(Carriers(c))' = Cardinality(Carriers(c)) - 1
      /\ \A d \in Clients \ {c} : Carriers(d)' = Carriers(d)
  BY <1>0, CarrierRemoved DEF IInv
<1>2. TypeOK'
  BY <1>0, <1>1 DEF IInv, TypeOK
<1>3. RowInv' /\ EventInv'
  BY DEF IInv, RowInv, EventInv
<1>4. ASSUME NEW d \in Clients PROVE InFlight(d)' = InFlight(d)
  <2>1. /\ InFlight(d) = flushes[d] + Cardinality(Carriers(d))
        /\ Cardinality(Carriers(d)) \in Nat
    BY CarriersFinite
  <2>2. InFlight(d)' = flushes'[d] + Cardinality(Carriers(d))'
    BY DEF InFlight, Carriers
  <2>3. flushes \in [Clients -> Nat] /\ flushes' = [flushes EXCEPT ![c] = flushes[c] + 1]
    BY <1>0 DEF IInv, TypeOK
  <2>4. CASE d = c
    BY <1>1, <2>1, <2>2, <2>3, <2>4
  <2>5. CASE d # c
    BY <1>1, <2>1, <2>2, <2>3, <2>5
  <2> QED BY <2>4, <2>5
<1>5. ChunkInv'
  BY <1>4 DEF IInv, ChunkInv
<1>6. PendingInv'
  <2> SUFFICES ASSUME NEW d \in Clients, recheck[d], Limit(d) > 0,
                      clientTraffic[d] >= Limit(d), ~notifiedLimit[d]
               PROVE  \E j \in Copiers : WillSee(j, d)'
    BY DEF PendingInv, Limit, MemoryLimit
  <2>1. PICK j \in Copiers : WillSee(j, d)
    BY DEF IInv, PendingInv
  <2>2. j # k
    BY <2>1 DEF WillSee
  <2>3. copier \in [Copiers -> {Idle} \cup BusyCopier]
    BY DEF IInv, TypeOK
  <2> QED BY <2>1, <2>2, <2>3 DEF WillSee, Limit, MemoryLimit
<1> QED BY <1>2, <1>3, <1>5, <1>6 DEF IInv

\* A flush ends, in the row, nowhere, or with an error: the carriers stay,
\* and no quota, limit, total or flag changes.
LEMMA FlushIInv ==
  ASSUME IInv, NEW c \in Clients, AddTraffic(c) \/ AddTrafficFails(c)
  PROVE  IInv'
<1> USE DEF AddTraffic, AddTrafficFails, table, memory
<1>0. /\ rowBytes \in [Clients -> Nat] /\ flushes \in [Clients -> Nat]
      /\ ever \in [Clients -> Nat] /\ exact \in [Clients -> BOOLEAN]
  BY DEF IInv, TypeOK
<1>1. /\ flushes[c] > 0
      /\ flushes' = [flushes EXCEPT ![c] = flushes[c] - 1]
      /\ UNCHANGED <<rowQuota, memory, copier, admin, login, crashes, events, ever, recheck>>
  OBVIOUS
<1>2. /\ rowBytes' \in [Clients -> Nat]
      /\ \A d \in Clients \ {c} : rowBytes'[d] = rowBytes[d]
      /\ rowBytes'[c] = rowBytes[c] \/ (rowQuota[c] # NoQuota /\ rowBytes'[c] = rowBytes[c] + 1)
  BY <1>0
<1>3. /\ exact' \in [Clients -> BOOLEAN]
      /\ \A d \in Clients \ {c} : exact'[d] = exact[d]
      /\ exact'[c] => exact[c] /\ rowQuota[c] # NoQuota /\ AddTraffic(c)
  <2>1. PICK b \in BOOLEAN : /\ exact' = [exact EXCEPT ![c] = b]
                             /\ b => exact[c] /\ rowQuota[c] # NoQuota /\ AddTraffic(c)
    <3>1. CASE AddTraffic(c)
      BY <1>0, <3>1, Zenon
    <3>2. CASE AddTrafficFails(c)
      BY <1>0, <3>2, Zenon
    <3> QED BY <3>1, <3>2
  <2> QED BY <1>0, <2>1
<1>4. TypeOK'
  BY <1>0, <1>1, <1>2, <1>3 DEF IInv, TypeOK
<1>5. RowInv' /\ EventInv'
  BY <1>0, <1>1, <1>2 DEF IInv, RowInv, EventInv
<1>6. /\ InFlight(c) \in Nat /\ InFlight(c) > 0
      /\ InFlight(c)' = InFlight(c) - 1
  <2>1. /\ InFlight(c) = flushes[c] + Cardinality(Carriers(c))
        /\ Cardinality(Carriers(c)) \in Nat
    BY CarriersFinite
  <2>2. InFlight(c)' = flushes'[c] + Cardinality(Carriers(c))
    BY <1>1 DEF InFlight, Carriers
  <2> QED BY <1>0, <1>1, <2>1, <2>2
<1>7. ASSUME NEW d \in Clients, d # c PROVE InFlight(d)' = InFlight(d)
  BY <1>0, <1>1, <1>7 DEF InFlight
<1>8. ChunkInv'
  <2>1. ASSUME NEW d \in Clients
        PROVE  /\ rowBytes'[d] + InFlight(d)' <= ever'[d]
               /\ exact'[d] => rowBytes'[d] + InFlight(d)' = ever'[d]
    <3>1. CASE d = c
      BY <1>0, <1>1, <1>6, <1>2, <1>3, <3>1 DEF IInv, ChunkInv
    <3>2. CASE d # c
      BY <1>0, <1>1, <1>7, <1>2, <1>3, <3>2 DEF IInv, ChunkInv
    <3> QED BY <3>1, <3>2
  <2> QED BY <2>1 DEF ChunkInv
<1>9. PendingInv'
  BY DEF IInv, PendingInv, WillSee, Limit, MemoryLimit
<1> QED BY <1>4, <1>5, <1>8, <1>9 DEF IInv

\* A call of the API, or a login, changes the quota of one client and asks for a new
\* chunk of it; the others are as pending as before.
LEMMA QuotaPending ==
  ASSUME IInv, NEW c \in Clients, QuotaChanges(c),
         \A d \in Clients \ {c} : rowQuota'[d] = rowQuota[d] /\ managed'[d] = managed[d],
         UNCHANGED <<clientTraffic, notifiedLimit, copier>>
  PROVE  PendingInv'
<1> SUFFICES ASSUME NEW d \in Clients, recheck'[d], Limit(d)' > 0,
                    clientTraffic[d] >= Limit(d)', ~notifiedLimit[d]
             PROVE  \E j \in Copiers : WillSee(j, d)'
  BY DEF PendingInv
<1>1. d # c /\ recheck[d]
  BY DEF IInv, TypeOK, QuotaChanges
<1>2. Limit(d)' = Limit(d)
  BY <1>1 DEF Limit, MemoryLimit
<1>3. PICK j \in Copiers : WillSee(j, d)
  BY <1>1, <1>2 DEF IInv, PendingInv
<1>4. MemoryLimit(d)' = MemoryLimit(d)
  BY <1>1 DEF MemoryLimit
<1> QED BY <1>1, <1>2, <1>3, <1>4 DEF WillSee

\* The first half of a call, which changes the memory.
LEMMA CallIInv ==
  ASSUME IInv, NEW c \in Clients, NEW m \in Quotas \cup {NoQuota},
         managed' = [managed EXCEPT ![c] = m], QuotaChanges(c),
         admin' \in [at : {"add"}, client : Clients, quota : Quotas]
                    \cup [at : {"remove"}, client : Clients],
         UNCHANGED <<table, clientTraffic, notifiedLimit, copier, flushes, crashes, events, ever,
                     exact>>,
         UNCHANGED login
  PROVE  IInv'
<1> USE DEF table
<1>1. TypeOK'
  BY DEF IInv, TypeOK, QuotaChanges
<1>2. RowInv' /\ EventInv'
  BY DEF IInv, RowInv, EventInv
<1>3. ChunkInv'
  BY ChunkFrame DEF IInv, Carriers
<1>4. PendingInv'
  BY QuotaPending DEF IInv, TypeOK
<1> QED BY <1>1, <1>2, <1>3, <1>4 DEF IInv

LEMMA AddRowIInv ==
  ASSUME IInv, AddRow
  PROVE  IInv'
<1> USE DEF AddRow, memory
<1>1. admin.client \in Clients /\ admin.quota \in Quotas
  BY DEF IInv, TypeOK
<1>2. TypeOK'
  BY <1>1 DEF IInv, TypeOK, QuotaChanges
<1>3. RowInv' /\ EventInv'
  BY <1>1 DEF IInv, TypeOK, RowInv, EventInv
<1>4. ChunkInv'
  BY ChunkFrame DEF IInv, Carriers
<1>5. PendingInv'
  BY <1>1, QuotaPending DEF IInv, TypeOK
<1> QED BY <1>2, <1>3, <1>4, <1>5 DEF IInv

\* The bytes of the row are lost with it: the ledger of a client that had
\* any is no longer exact.
LEMMA DeleteRowIInv ==
  ASSUME IInv, DeleteRow
  PROVE  IInv'
<1> USE DEF DeleteRow, memory
<1>0. PICK c \in Clients : c = admin.client
  BY DEF IInv, TypeOK
<1>1. /\ rowBytes \in [Clients -> Nat] /\ flushes \in [Clients -> Nat]
      /\ ever \in [Clients -> Nat] /\ exact \in [Clients -> BOOLEAN]
  BY DEF IInv, TypeOK
<1>2. TypeOK'
  BY <1>0, <1>1 DEF IInv, TypeOK, QuotaChanges
<1>3. RowInv' /\ EventInv'
  BY <1>0 DEF IInv, TypeOK, RowInv, EventInv
<1>4. ChunkInv'
  <2>1. ASSUME NEW d \in Clients
        PROVE  /\ rowBytes'[d] + InFlight(d)' <= ever'[d]
               /\ exact'[d] => rowBytes'[d] + InFlight(d)' = ever'[d]
    <3>1. InFlight(d)' = InFlight(d)
      BY DEF InFlight
    <3>2. InFlight(d) \in Nat
      BY <1>1, CarriersFinite
    <3>3. CASE d = c
      <4>1. rowBytes'[d] = 0 /\ ever'[d] = ever[d]
        BY <1>0, <1>1, <3>3
      <4>2. exact'[d] => exact[d] /\ rowBytes[d] = 0
        BY <1>0, <1>1, <3>3, Zenon
      <4> QED BY <1>1, <3>1, <3>2, <4>1, <4>2 DEF IInv, ChunkInv
    <3>4. CASE d # c
      BY <1>0, <1>1, <3>1, <3>2, <3>4 DEF IInv, ChunkInv
    <3> QED BY <3>3, <3>4
  <2> QED BY <2>1 DEF ChunkInv
<1>5. PendingInv'
  BY <1>0, QuotaPending DEF IInv, TypeOK
<1> QED BY <1>2, <1>3, <1>4, <1>5 DEF IInv

\* What the process had in memory is gone: a client of which it had
\* anything in flight is no longer exact.
LEMMA RestartIInv ==
  ASSUME IInv, Restart
  PROVE  IInv'
<1> USE DEF Restart
<1>1. /\ rowBytes \in [Clients -> Nat] /\ flushes \in [Clients -> Nat]
      /\ ever \in [Clients -> Nat] /\ exact \in [Clients -> BOOLEAN]
      /\ rowQuota \in [Clients -> Quotas \cup {NoQuota}]
      /\ rowQuota' \in [Clients -> Quotas \cup {NoQuota}]
      /\ crashes' \in 0 .. MaxCrashes
  BY DEF IInv, TypeOK, Seeded
<1>2. \A c \in Clients : rowBytes'[c] = rowBytes[c]
  BY <1>1 DEF IInv, RowInv, Seeded
<1>3. TypeOK'
  BY <1>1 DEF TypeOK
<1>4. RowInv'
  BY <1>1, <1>2 DEF IInv, RowInv
<1>5. EventInv' /\ PendingInv'
  BY DEF EventInv, PendingInv
<1>6. ChunkInv'
  <2>1. ASSUME NEW c \in Clients
        PROVE  /\ rowBytes'[c] + InFlight(c)' <= ever'[c]
               /\ exact'[c] => rowBytes'[c] + InFlight(c)' = ever'[c]
    <3>1. InFlight(c)' = 0
      <4>1. Carriers(c)' = {} /\ flushes'[c] = 0
        BY DEF Carriers
      <4>2. InFlight(c)' = flushes'[c] + Cardinality(Carriers(c)')
        BY DEF InFlight, Carriers
      <4> QED BY <4>1, <4>2, FS_EmptySet
    <3>2. InFlight(c) \in Nat
      BY <1>1, CarriersFinite
    <3>3. exact'[c] => exact[c] /\ InFlight(c) = 0
      OBVIOUS
    <3> QED BY <1>1, <1>2, <3>1, <3>2, <3>3 DEF IInv, ChunkInv
  <2> QED BY <2>1 DEF ChunkInv
<1> QED BY <1>3, <1>4, <1>5, <1>6 DEF IInv

LEMMA NextIInv == IInv /\ [Next]_vars => IInv'
<1> SUFFICES ASSUME IInv, [Next]_vars PROVE IInv'
  OBVIOUS
<1>1. ASSUME NEW k \in Copiers, NEW c \in Clients, addClientTraffic(k, c) PROVE IInv'
  BY <1>1, AddClientTrafficIInv
<1>2. ASSUME NEW k \in Copiers, LimitFromRow(k) PROVE IInv'
  <2> DEFINE q == rowQuota[copier[k].client]
             l == IF q = NoQuota THEN 0 ELSE q
             p == IF q = NoQuota THEN "memory" ELSE IF q = 0 THEN "flush" ELSE "total"
  <2>1. copier[k].at # "idle" /\ copier[k].at = "row" /\ copier[k].client \in Clients
    BY <1>2, BusyType DEF LimitFromRow, IInv
  <2>2. p \in Places /\ l \in Quotas \cup {0}
    BY <2>1 DEF IInv, TypeOK
  <2>3. Moves(k, p, l)
    <3>1. copier' = [copier EXCEPT ![k].limit = l, ![k].at = p]
      BY <1>2 DEF LimitFromRow
    <3> HIDE DEF p, l, Places
    <3>2. [copier EXCEPT ![k].limit = l, ![k].at = p] =
            [copier EXCEPT ![k] = [at |-> p, client |-> copier[k].client, limit |-> l]]
      BY <2>1, <2>2, TwoFields, Zenon DEF IInv
    <3> QED BY <3>1, <3>2, Zenon DEF Moves
  <2>4. LET c == copier[k].client IN
          Limit(c) > 0 => \/ p = "memory" /\ MemoryLimit(c) = Limit(c)
                          \/ p = "total" /\ l = Limit(c)
    BY <2>1, LimitType DEF IInv, Limit, MemoryLimit
  <2> HIDE DEF p, l
  <2> QED BY <1>2, <2>1, <2>2, <2>3, <2>4, PlainMoveIInv DEF LimitFromRow
<1>15. ASSUME NEW k \in Copiers, LimitReadFails(k) PROVE IInv'
  <2>1. copier[k].at # "idle" /\ copier[k].client \in Clients /\ copier[k].limit \in Quotas \cup {0}
    BY <1>15, BusyType DEF LimitReadFails, IInv
  <2>2. Moves(k, "memory", copier[k].limit)
    BY <1>15, <2>1, Gone DEF LimitReadFails, IInv
  <2>3. PICK c \in Clients : c = copier[k].client
    BY <2>1
  <2>4. recheck \in [Clients -> BOOLEAN]
    BY DEF IInv, TypeOK
  <2>5. PICK b \in BOOLEAN : /\ b => recheck[c] /\ MemoryLimit(c) = Limit(c)
                            /\ recheck' = [recheck EXCEPT ![c] = b]
    BY <1>15, <2>3, <2>4, Zenon DEF LimitReadFails
  <2>6. /\ recheck' \in [Clients -> BOOLEAN]
        /\ \A d \in Clients : recheck'[d] => recheck[d]
        /\ recheck'[c] => MemoryLimit(c) = Limit(c)
    BY <2>4, <2>5
  <2> QED BY <1>15, <2>1, <2>2, <2>3, <2>6, MoveIInv DEF LimitReadFails
<1>3. ASSUME NEW k \in Copiers, LimitFromMemory(k) PROVE IInv'
  <2> DEFINE q == managed[copier[k].client]
  <2>1. /\ copier[k].at # "idle" /\ copier[k].at = "memory" /\ copier[k].client \in Clients
        /\ copier[k].limit \in Quotas \cup {0} /\ q \in Quotas \cup {NoQuota}
    BY <1>3, BusyType DEF LimitFromMemory, IInv, TypeOK
  <2>2. CASE q \in {NoQuota, 0}
    <3>1. Goes(k, "flush")
      BY <1>3, <2>2 DEF LimitFromMemory
    <3>2. Moves(k, "flush", copier[k].limit)
      BY <2>1, <3>1, Gone DEF IInv
    <3>3. LET c == copier[k].client IN WillSee(k, c) => ~(Limit(c) > 0)
      BY <2>1, <2>2 DEF WillSee, Limit, MemoryLimit
    <3> QED BY <1>3, <2>1, <3>2, <3>3, PlainMoveIInv DEF LimitFromMemory
  <2>3. CASE q \notin {NoQuota, 0}
    <3>1. copier' = [copier EXCEPT ![k].limit = q, ![k].at = "total"] /\ q \in Quotas \cup {0}
      BY <1>3, <2>1, <2>3 DEF LimitFromMemory
    <3>2. Moves(k, "total", q)
      BY <2>1, <3>1, TwoFields DEF IInv, Moves
    <3>3. LET c == copier[k].client IN WillSee(k, c) => q = Limit(c)
      BY <2>1, <2>3 DEF WillSee, Limit, MemoryLimit
    <3> QED BY <1>3, <2>1, <3>1, <3>2, <3>3, PlainMoveIInv DEF LimitFromMemory
  <2> QED BY <2>2, <2>3
<1>4. ASSUME NEW k \in Copiers, CompareTotal(k) PROVE IInv'
  <2> DEFINE p == IF Over(k) THEN "notify" ELSE "flush"
  <2>1. /\ copier[k].at # "idle" /\ copier[k].at = "total" /\ copier[k].client \in Clients
        /\ copier[k].limit \in Quotas \cup {0} /\ p \in Places
    BY <1>4, BusyType DEF CompareTotal, IInv
  <2>2. Goes(k, p)
    BY <1>4 DEF CompareTotal
  <2>3. LET c == copier[k].client IN
          WillSee(k, c) /\ clientTraffic[c] >= Limit(c) => p = "notify"
    BY <2>1 DEF WillSee, Over
  <2> HIDE DEF p
  <2>4. Moves(k, p, copier[k].limit)
    BY <2>1, <2>2, Gone DEF IInv
  <2> QED BY <1>4, <2>1, <2>3, <2>4, PlainMoveIInv DEF CompareTotal
<1>5. ASSUME NEW k \in Copiers, Notify(k) PROVE IInv'
  BY <1>5, NotifyIInv
<1>6. ASSUME NEW k \in Copiers, SpawnFlush(k) PROVE IInv'
  BY <1>6, SpawnFlushIInv
<1>7. ASSUME NEW c \in Clients, AddTraffic(c) \/ AddTrafficFails(c) PROVE IInv'
  BY <1>7, FlushIInv
<1>8. ASSUME NEW c \in Clients, NEW q \in Quotas, AddManagedClient(c, q) PROVE IInv'
  BY <1>8, CallIInv DEF AddManagedClient
<1>9. ASSUME NEW c \in Clients, RemoveManagedClient(c) PROVE IInv'
  BY <1>9, CallIInv DEF RemoveManagedClient
<1>10. CASE AddRow
  BY <1>10, AddRowIInv
<1>11. CASE DeleteRow
  BY <1>11, DeleteRowIInv
<1>12. CASE RowFails
  <2> USE <1>12 DEF RowFails, table, memory, history
  <2>1. TypeOK' /\ RowInv' /\ EventInv'
    BY DEF IInv, TypeOK, RowInv, EventInv
  <2>2. ChunkInv'
    BY ChunkFrame DEF IInv, Carriers
  <2>3. PendingInv'
    BY DEF IInv, PendingInv, WillSee, Limit, MemoryLimit
  <2> QED BY <2>1, <2>2, <2>3 DEF IInv
<1>16. ASSUME NEW c \in Clients, LoginMisses(c) \/ LoginReadsRow(c) PROVE IInv'
  <2> USE <1>16 DEF LoginMisses, LoginReadsRow, table, memory, history
  <2>1. TypeOK'
    <3>1. PICK r \in {Idle} \cup [at : {"row"}] \cup [at : {"fill"}, quota : Quotas] :
            login' = [login EXCEPT ![c] = r]
      BY DEF IInv, TypeOK
    <3> QED BY <3>1 DEF IInv, TypeOK
  <2>2. RowInv' /\ EventInv'
    BY DEF IInv, RowInv, EventInv
  <2>3. ChunkInv'
    BY ChunkFrame DEF IInv, Carriers
  <2>4. PendingInv'
    BY DEF IInv, PendingInv, WillSee, Limit, MemoryLimit
  <2> QED BY <2>1, <2>2, <2>3, <2>4 DEF IInv
<1>17. ASSUME NEW c \in Clients, FillCache(c) PROVE IInv'
  <2> USE <1>17 DEF FillCache, table
  <2>1. login[c].quota \in Quotas
    BY DEF IInv, TypeOK
  <2>2. TypeOK'
    BY <2>1 DEF IInv, TypeOK, QuotaChanges
  <2>3. RowInv' /\ EventInv'
    BY DEF IInv, RowInv, EventInv
  <2>4. ChunkInv'
    BY ChunkFrame DEF IInv, Carriers
  <2>5. PendingInv'
    BY QuotaPending DEF IInv, TypeOK
  <2> QED BY <2>2, <2>3, <2>4, <2>5 DEF IInv
<1>13. CASE Restart
  BY <1>13, RestartIInv
<1>14. CASE UNCHANGED vars
  <2> USE <1>14 DEF vars, table, memory, history
  <2>1. TypeOK' /\ RowInv' /\ EventInv'
    BY DEF IInv, TypeOK, RowInv, EventInv
  <2>2. ChunkInv'
    BY ChunkFrame DEF IInv, Carriers
  <2>3. PendingInv'
    BY DEF IInv, PendingInv, WillSee, Limit, MemoryLimit
  <2> QED BY <2>1, <2>2, <2>3 DEF IInv
<1> QED
  BY <1>1, <1>2, <1>3, <1>4, <1>5, <1>6, <1>7, <1>8, <1>9, <1>10, <1>11, <1>12, <1>13, <1>14,
     <1>15, <1>16, <1>17 DEF Next, CopierStep, AdminStep, LoginStep

-----------------------------------------------------------------------------

\* Every variable has its type.
THEOREM TypeCorrect == Spec => []TypeOK
<1>1. IInv => TypeOK
  BY DEF IInv
<1> QED BY <1>1, InitIInv, NextIInv, PTL DEF Spec

\* For any number of clients, copiers, chunks and crashes: no chunk that
\* addClientTraffic counts is charged twice, and none is missing from the
\* row and the flushes while no flush failed, no crash came between counting
\* and writing and no row with bytes was deleted.
THEOREM LedgerIsExact == Spec => []LedgerExact
<1>1. ASSUME IInv PROVE LedgerExact
  <2> SUFFICES ASSUME NEW c \in Clients
               PROVE  /\ Reported(c) + InFlight(c) <= ever[c]
                      /\ exact[c] => rowBytes[c] + InFlight(c) = ever[c]
    BY DEF LedgerExact
  <2>1. Reported(c) = rowBytes[c]
    BY <1>1 DEF Reported, IInv, RowInv
  <2> QED BY <1>1, <2>1 DEF IInv, ChunkInv
<1> QED BY <1>1, InitIInv, NextIInv, PTL DEF Spec

\* checkTrafficLimit sends the event at most once in the life of the
\* process, and misses no client over its limit whose quota was not misread,
\* whichever copiers, logins and API calls come between its three reads.  The
\* invariant that carries the proof names the copier that will still compare
\* the total with the limit of now.
THEOREM NotifiedExactlyOnce == Spec => []NotifiedOnce
<1>1. ASSUME IInv PROVE NotifiedOnce
  <2> SUFFICES ASSUME NEW c \in Clients
               PROVE  /\ events[c] <= 1
                      /\ Settled(c) /\ Limit(c) > 0 /\ clientTraffic[c] >= Limit(c)
                           => events[c] = 1
    BY DEF NotifiedOnce
  <2>1. events[c] = IF notifiedLimit[c] THEN 1 ELSE 0
    BY <1>1 DEF IInv, EventInv
  <2>2. Settled(c) => \A k \in Copiers : ~WillSee(k, c)
    BY DEF Settled, WillSee
  <2>3. Settled(c) /\ Limit(c) > 0 /\ clientTraffic[c] >= Limit(c) => notifiedLimit[c]
    BY <1>1, <2>2 DEF Settled, IInv, PendingInv
  <2>4. notifiedLimit[c] \in BOOLEAN
    BY <1>1 DEF IInv, TypeOK
  <2> QED BY <2>1, <2>3, <2>4
<1> QED BY <1>1, InitIInv, NextIInv, PTL DEF Spec
=============================================================================
