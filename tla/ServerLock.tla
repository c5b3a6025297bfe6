----------------------------- MODULE ServerLock -----------------------------
(***************************************************************************)
(* The lock s.mu of the server (src/cmd/server/main.go), a sync.RWMutex,   *)
(* and what its holders do while they hold it.  A goroutine asks for the   *)
(* lock, uses it and gives it back, again and again:                       *)
(*   read    GetProxies, GetClients, clientNameFor, the traffic queries    *)
(*   status  GetStatus, which takes the read lock twice                    *)
(*   kick    KickClient and NotifyClientSync: find a control connection    *)
(*           under the read lock and close it afterwards                   *)
(*   write   the changes of the maps                                       *)
(*   send    CloseProxy and handleNewProxy, which write to a control       *)
(*           connection under the write lock                               *)
(* One control connection stands for all.  What the holders read and write *)
(* is the subject of ControlPlane.                                         *)
(***************************************************************************)
EXTENDS Naturals

CONSTANTS
  Threads,
  Cap,      \* messages that fit between the server and a client that does not read
  None

ASSUME CapAssumption == Cap \in Nat \ {0}

Readers == {"read", "status", "kick"}
Writers == {"write", "send"}

VARIABLES
  op,       \* thread -> what it does, or None
  at,       \* thread -> "out", "asks", "waits" (a blocked reader), "pending" (a writer
            \* that waits for the readers to leave), "in", "sending", "sent", "close"
  held,     \* thread -> read locks it holds
  turn,     \* the writer that is pending or in, or None
  room,     \* messages that can still be written to the connection
  stalled   \* its client does not read

vars == <<op, at, held, turn, room, stalled>>

Init ==
  /\ op = [t \in Threads |-> None]
  /\ at = [t \in Threads |-> "out"]
  /\ held = [t \in Threads |-> 0]
  /\ turn = None
  /\ room = Cap
  /\ stalled = FALSE

Moves(t, from, to) == at[t] = from /\ at' = [at EXCEPT ![t] = to]

Begin(t, o) ==
  /\ Moves(t, "out", "asks")
  /\ op' = [op EXCEPT ![t] = o]
  /\ UNCHANGED <<held, turn, room, stalled>>

Leaves(t) ==
  /\ at' = [at EXCEPT ![t] = "out"]
  /\ op' = [op EXCEPT ![t] = None]

-----------------------------------------------------------------------------
(* Readers.                                                                *)

\* RLock blocks behind a writer that is in or pending.
RLock(t) ==
  /\ op[t] \in Readers
  /\ Moves(t, "asks", IF turn = None THEN "in" ELSE "waits")
  /\ held' = IF turn = None THEN [held EXCEPT ![t] = @ + 1] ELSE held
  /\ UNCHANGED <<op, turn, room, stalled>>

\* GetStatus asks for the read lock again while it holds it.
StatusAgain(t) ==
  /\ op[t] = "status"
  /\ held[t] = 1
  /\ Moves(t, "in", "asks")
  /\ UNCHANGED <<op, held, turn, room, stalled>>

\* GetStatus gives both back.
RUnlock(t) ==
  /\ op[t] \in Readers
  /\ op[t] = "status" => held[t] = 2
  /\ at[t] = "in"
  /\ held' = [held EXCEPT ![t] = 0]
  /\ IF op[t] = "kick" THEN Moves(t, "in", "close") /\ UNCHANGED op ELSE Leaves(t)
  /\ UNCHANGED <<turn, room, stalled>>

\* The connection that was found is closed; the client's next one is new.
CloseConn(t) ==
  /\ at[t] = "close"
  /\ Leaves(t)
  /\ room' = Cap
  /\ stalled' = FALSE
  /\ UNCHANGED <<held, turn>>

-----------------------------------------------------------------------------
(* Writers.                                                                *)

\* Lock: first among the writers, then behind the readers that are in.
Lock(t) ==
  /\ op[t] \in Writers
  /\ turn = None
  /\ Moves(t, "asks", "pending")
  /\ turn' = t
  /\ UNCHANGED <<op, held, room, stalled>>

LockGranted(t) ==
  /\ \A u \in Threads : held[u] = 0
  /\ Moves(t, "pending", "in")
  /\ UNCHANGED <<op, held, turn, room, stalled>>

\* There is something to tell the client.
HasMessage(t) ==
  /\ op[t] = "send"
  /\ Moves(t, "in", "sending")
  /\ UNCHANGED <<op, held, turn, room, stalled>>

\* WriteMessage, under the lock
Send(t) ==
  /\ room > 0
  /\ Moves(t, "sending", "sent")
  /\ room' = room - 1
  /\ UNCHANGED <<op, held, turn, stalled>>

\* Mutant of LeavesEarly: a return without Unlock.
LeavesEarlyLocked(t) ==
  /\ op[t] = "send"
  /\ at[t] = "in"
  /\ Leaves(t)
  /\ UNCHANGED <<held, turn, room, stalled>>

\* There is no such tunnel: nothing is sent.
LeavesEarly(t) ==
  /\ op[t] = "send"
  /\ Moves(t, "in", "sent")
  /\ UNCHANGED <<op, held, turn, room, stalled>>

\* Every reader that has been waiting is let in.
Unlock(t) ==
  /\ at[t] = IF op[t] = "send" THEN "sent" ELSE "in"
  /\ op[t] \in Writers
  /\ turn' = None
  /\ at' = [u \in Threads |-> IF u = t THEN "out" ELSE IF at[u] = "waits" THEN "in" ELSE at[u]]
  /\ held' = [u \in Threads |-> IF at[u] = "waits" THEN held[u] + 1 ELSE held[u]]
  /\ op' = [op EXCEPT ![t] = None]
  /\ UNCHANGED <<room, stalled>>

-----------------------------------------------------------------------------
(* The connection.                                                         *)

\* Heartbeat answers and new connections are written without the lock.
OtherWrite ==
  /\ room > 0
  /\ room' = room - 1
  /\ UNCHANGED <<op, at, held, turn, stalled>>

PeerReads ==
  /\ ~stalled
  /\ room < Cap
  /\ room' = room + 1
  /\ UNCHANGED <<op, at, held, turn, stalled>>

PeerStalls ==
  /\ ~stalled
  /\ stalled' = TRUE
  /\ UNCHANGED <<op, at, held, turn, room>>

-----------------------------------------------------------------------------
Step(t) ==
  \/ RLock(t) \/ StatusAgain(t) \/ RUnlock(t) \/ CloseConn(t)
  \/ LockGranted(t) \/ HasMessage(t) \/ Send(t) \/ LeavesEarly(t) \/ Unlock(t)

Next ==
  \/ \E t \in Threads : Step(t) \/ Lock(t) \/ \E o \in Readers \cup Writers : Begin(t, o)
  \/ OtherWrite \/ PeerReads \/ PeerStalls

Spec == Init /\ [][Next]_vars

\* Goroutines are scheduled; sync.Mutex, by which writers take turns, does not
\* starve; a client that reads goes on reading.  What is written without the
\* lock leaves room again and again, so that a write is strongly fair.
Fairness ==
  /\ \A t \in Threads : WF_vars(Step(t)) /\ SF_vars(Lock(t)) /\ SF_vars(Send(t))
  /\ WF_vars(PeerReads)

FairSpec == Spec /\ Fairness

-----------------------------------------------------------------------------
(* Properties.                                                             *)

\* The type of the state.
TypeOK ==
  /\ op \in [Threads -> Readers \cup Writers \cup {None}]
  /\ at \in [Threads -> {"out", "asks", "waits", "pending", "in", "sending", "sent", "close"}]
  /\ held \in [Threads -> 0 .. 2]
  /\ turn \in Threads \cup {None}
  /\ room \in 0 .. Cap
  /\ stalled \in BOOLEAN

\* GetStatus holds the read lock, a writer waits for it to leave, and GetStatus
\* waits for the writer (main.go 143).
StatusJam == \E t \in Threads : held[t] = 1 /\ at[t] = "waits"

\* A client does not read, and the server waits for it under the lock (main.go
\* 228 and 766).
PeerJam == \E t \in Threads : at[t] = "sending" /\ room = 0 /\ stalled

\* Everyone who asks for s.mu gets it: no path keeps the lock, and no order of
\* its users waits in a circle but the two that are named.
LockServed ==
  \A t \in Threads : at[t] \in {"asks", "waits", "pending"} ~> (at[t] = "in" \/ StatusJam \/ PeerJam)

\* GetStatus comes back with the status it is asked for.  It does not in
\* StatusJam.
StatusReturns == \A t \in Threads : op[t] = "status" ~> (op[t] = None \/ PeerJam)

\* "forces the client offline: closes the control connection" (main.go 205).
\* A client that stalls is not forced offline while the lock is held for it.
KickReturns == \A t \in Threads : op[t] = "kick" ~> (op[t] = None \/ StatusJam)
=============================================================================
