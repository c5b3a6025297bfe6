--------------------------- MODULE TcpDataChannel ---------------------------
(***************************************************************************)
(* The rendezvous of one TCP tunnel.  For every public connection the      *)
(* server tells the client, over the control connection, to dial the data  *)
(* port; the accept loop of the data port hands the connection, by its     *)
(* connID, to the goroutine that waits for it.                             *)
(*   server: handleTCPUserConnection, acceptDataConnections                *)
(*           (src/cmd/server/main.go)                                      *)
(*   client: handleNewConn (src/cmd/client/main.go)                        *)
(*                                                                         *)
(* A public connection and its connID (UnixNano, taken to be unique) are   *)
(* one element u of Users; so is the data connection the client dials for  *)
(* it.  Time is abstracted: a deadline may expire whenever it is set.      *)
(* Abstracted: the frames of the forwarded stream, HMAC, TLS.              *)
(***************************************************************************)
EXTENDS Naturals, Sequences

CONSTANTS
  Users,     \* public connections, with their connIDs
  NoConn     \* no connection

ASSUME NoConnAssumption == NoConn \notin Users

VARIABLES
  waiter,    \* where the goroutine of each public connection is
  pending,   \* proxy.pending: the connIDs with a channel
  chan,      \* the channel (capacity 1) of each connID: a data connection or NoConn
  paired,    \* the data connection a public one is forwarded over, or NoConn
  control,   \* NewConn messages on their way to the client, in order
  dialer,    \* the NewConn the client is handling, or NoConn
  data,      \* the life of each data connection, seen from the server
  acceptor,  \* the accept loop: its program counter and its data connection
  listening  \* whether the tunnel's listeners are open

server == <<waiter, pending, chan, paired>>
client == <<control, dialer>>
vars   == <<server, client, data, acceptor, listening>>

Accepting == [at |-> "accept", conn |-> NoConn]

Init ==
  /\ waiter = [u \in Users |-> "none"]
  /\ pending = {}
  /\ chan = [u \in Users |-> NoConn]
  /\ paired = [u \in Users |-> NoConn]
  /\ control = <<>>
  /\ dialer = NoConn
  /\ data = [u \in Users |-> "none"]
  /\ acceptor = Accepting
  /\ listening = TRUE

-----------------------------------------------------------------------------
(* handleTCPUserConnection, one goroutine per public connection.           *)

Moves(u, from, to) ==
  /\ waiter[u] = from
  /\ waiter' = [waiter EXCEPT ![u] = to]

Accept(u) ==
  /\ listening
  /\ Moves(u, "none", "notify")
  /\ UNCHANGED <<pending, chan, paired, client, data, acceptor, listening>>

\* NewConn is written to the control connection before the channel exists.
Notify(u) ==
  /\ Moves(u, "notify", "register")
  /\ control' = Append(control, u)
  /\ UNCHANGED <<pending, chan, paired, dialer, data, acceptor, listening>>

\* The control connection is gone: the public one is closed.
NotifyFails(u) ==
  /\ Moves(u, "notify", "closed")
  /\ UNCHANGED <<pending, chan, paired, client, data, acceptor, listening>>

\* Under s.mu.  DataListener is never reset to nil, so the check before the
\* registration always succeeds for a TCP tunnel.
RegisterPending(u) ==
  /\ Moves(u, "register", "wait")
  /\ pending' = pending \cup {u}
  /\ UNCHANGED <<chan, paired, client, data, acceptor, listening>>

\* select: the channel delivers.
Receive(u) ==
  /\ Moves(u, "wait", "forward")
  /\ chan[u] # NoConn
  /\ paired' = [paired EXCEPT ![u] = chan[u]]
  /\ data' = [data EXCEPT ![chan[u]] = "forward"]
  /\ chan' = [chan EXCEPT ![u] = NoConn]
  /\ UNCHANGED <<pending, client, acceptor, listening>>

\* Mutant of Timeout: the wait has no limit.
TimeoutNever(u) ==
  /\ Moves(u, "wait", "wait")
  /\ UNCHANGED <<pending, chan, paired, client, data, acceptor, listening>>

\* select: 30 s are over.  When both are ready select takes either.
Timeout(u) ==
  /\ Moves(u, "wait", "expired")
  /\ UNCHANGED <<pending, chan, paired, client, data, acceptor, listening>>

\* Mutant of PendingAfterTimeout: the entry of the expired wait stays.
PendingKept(u) == pending \cup ({u} \cap pending)

PendingAfterTimeout(u) == pending \ {u}

\* Under s.mu the entry is deleted, then the public connection is closed.
GiveUp(u) ==
  /\ Moves(u, "expired", "closed")
  /\ pending' = PendingAfterTimeout(u)
  /\ UNCHANGED <<chan, paired, client, data, acceptor, listening>>

\* forwardWithAuth returns on the first error of either direction; the
\* deferred calls close both connections.
ForwardEnds(u) ==
  /\ Moves(u, "forward", "closed")
  /\ data' = [data EXCEPT ![paired[u]] = "closed"]
  /\ UNCHANGED <<pending, chan, paired, client, acceptor, listening>>

-----------------------------------------------------------------------------
(* The client: handleMessages handles one NewConn at a time.               *)

ReadNewConn ==
  /\ control # <<>>
  /\ dialer = NoConn
  /\ dialer' = Head(control)
  /\ control' = Tail(control)
  /\ UNCHANGED <<server, data, acceptor, listening>>

\* The local service and the data port answer; the connID is sent.
Dial ==
  /\ dialer # NoConn
  /\ listening
  /\ data' = [data EXCEPT ![dialer] = "backlog"]
  /\ dialer' = NoConn
  /\ UNCHANGED <<server, control, acceptor, listening>>

\* Unknown tunnel, local service down, data port closed or unreachable.
DialFails ==
  /\ dialer # NoConn
  /\ dialer' = NoConn
  /\ UNCHANGED <<server, control, data, acceptor, listening>>

-----------------------------------------------------------------------------
(* acceptDataConnections: one goroutine, one data connection at a time.    *)

AcceptData(d) ==
  /\ acceptor.at = "accept"
  /\ listening
  /\ data[d] = "backlog"
  /\ acceptor' = [at |-> "identify", conn |-> d]
  /\ data' = [data EXCEPT ![d] = "accepted"]
  /\ UNCHANGED <<server, client, listening>>

\* The first frame is a DataConn message.
Identify ==
  /\ acceptor.at = "identify"
  /\ acceptor' = [acceptor EXCEPT !.at = "match"]
  /\ UNCHANGED <<server, client, data, listening>>

\* Deadline of 10 s, broken connection, or another kind of frame.
IdentifyFails ==
  /\ acceptor.at = "identify"
  /\ data' = [data EXCEPT ![acceptor.conn] = "closed"]
  /\ acceptor' = Accepting
  /\ UNCHANGED <<server, client, listening>>

\* Mutant of Channel: the data connection goes to whoever is waiting.
ChannelOfAnyone(d) == pending

\* proxy.pending[connID], as the set of at most one channel.
Channel(d) == pending \cap {d}

\* Mutant of Match: the entry stays in the map.
MatchKeepsPending ==
  /\ acceptor.at = "match"
  /\ \E u \in Channel(acceptor.conn) :
       acceptor' = [at |-> "deliver", conn |-> acceptor.conn, to |-> u]
  /\ UNCHANGED <<server, client, data, listening>>

\* Under s.mu: the entry is taken out of the map.
Match ==
  /\ acceptor.at = "match"
  /\ \E u \in Channel(acceptor.conn) :
       /\ pending' = pending \ {u}
       /\ acceptor' = [at |-> "deliver", conn |-> acceptor.conn, to |-> u]
  /\ UNCHANGED <<waiter, chan, paired, client, data, listening>>

\* Mutant of MatchFails: the result of the lookup is used without its ok.
MatchFailsUnnoticed ==
  /\ acceptor.at = "match"
  /\ Channel(acceptor.conn) = {}
  /\ acceptor' = [at |-> "deliver", conn |-> acceptor.conn, to |-> NoConn]
  /\ UNCHANGED <<server, client, data, listening>>

\* Nobody waits for it: it is closed.
MatchFails ==
  /\ acceptor.at = "match"
  /\ Channel(acceptor.conn) = {}
  /\ data' = [data EXCEPT ![acceptor.conn] = "rejected"]
  /\ acceptor' = Accepting
  /\ UNCHANGED <<server, client, listening>>

\* Mutant of CanSend: the channel is created without a buffer.
CanSendUnbuffered(u) == waiter[u] = "wait" /\ chan[u] = NoConn

\* A send on a channel of capacity 1 blocks only while it is full.
CanSend(u) == chan[u] = NoConn

\* ch <- conn, outside s.mu.
Deliver ==
  /\ acceptor.at = "deliver"
  /\ CanSend(acceptor.to)
  /\ chan' = [chan EXCEPT ![acceptor.to] = acceptor.conn]
  /\ data' = [data EXCEPT ![acceptor.conn] = "sent"]
  /\ acceptor' = Accepting
  /\ UNCHANGED <<waiter, pending, paired, client, listening>>

\* cleanupProxy: the listeners are closed, and with the data listener the
\* connections in its backlog.  Waiting goroutines are not told.
CloseTunnel ==
  /\ listening
  /\ listening' = FALSE
  /\ data' = [d \in Users |-> IF data[d] = "backlog" THEN "closed" ELSE data[d]]
  /\ UNCHANGED <<server, client, acceptor>>

-----------------------------------------------------------------------------
WaiterStep(u) ==
  \/ Notify(u) \/ NotifyFails(u) \/ RegisterPending(u)
  \/ Receive(u) \/ Timeout(u) \/ GiveUp(u)

ClientStep == ReadNewConn \/ Dial \/ DialFails

AcceptorStep == Identify \/ IdentifyFails \/ Match \/ MatchFails \/ Deliver

Next ==
  \/ \E u \in Users : Accept(u) \/ WaiterStep(u) \/ ForwardEnds(u) \/ AcceptData(u)
  \/ ClientStep \/ AcceptorStep \/ CloseTunnel

Spec == Init /\ [][Next]_vars

\* The server's goroutines are scheduled and their timers fire.  Nothing is
\* assumed of the users, the client, or the end of a stream.
Fairness ==
  /\ \A u \in Users : WF_vars(WaiterStep(u))
  /\ WF_vars(AcceptorStep)

FairSpec == Spec /\ Fairness

-----------------------------------------------------------------------------
(* Properties.                                                             *)

\* The type of every variable.
TypeOK ==
  /\ waiter \in [Users -> {"none", "notify", "register", "wait", "expired",
                           "forward", "closed"}]
  /\ pending \in SUBSET Users
  /\ chan \in [Users -> Users \cup {NoConn}]
  /\ paired \in [Users -> Users \cup {NoConn}]
  /\ control \in Seq(Users)
  /\ dialer \in Users \cup {NoConn}
  /\ data \in [Users -> {"none", "backlog", "accepted", "sent", "forward",
                         "rejected", "closed"}]
  /\ acceptor \in [at : {"accept"}, conn : {NoConn}]
                  \cup [at : {"identify", "match"}, conn : Users]
                  \cup [at : {"deliver"}, conn : Users, to : Users]
  /\ listening \in BOOLEAN

\* A public connection is only ever forwarded over the data connection that
\* the client dialled for it, however many wait at the same time.
PairedByConnID ==
  \A u \in Users : paired[u] \in {u, NoConn}

\* proxy.pending holds no connID whose goroutine has left: entries do not
\* pile up over the life of a tunnel, whoever takes them out.
NoStalePending ==
  \A u \in pending : waiter[u] \in {"wait", "expired"}

\* One data connection has one owner: if it is in a channel or in the hands
\* of the accept loop then no public connection is forwarded over it, and
\* the channel it is going to is empty, so that the send never blocks.
DataConnOwnedOnce ==
  /\ \A u \in Users : chan[u] # NoConn => data[chan[u]] = "sent" /\ u \notin pending
  /\ acceptor.at = "deliver" =>
       chan[acceptor.to] = NoConn /\ data[acceptor.conn] = "accepted"

\* Every public connection that is accepted is in the end forwarded or
\* closed, even if the client never answers or the tunnel is closed.
UserServedOrClosed ==
  \A u \in Users : waiter[u] = "notify" ~> waiter[u] \in {"forward", "closed"}

\* The accept loop always gets back to accepting: a data connection whose
\* waiter has timed out cannot hold it up for all the others.
AcceptorReturns == acceptor.at # "accept" ~> acceptor.at = "accept"

\* "no matching waiter, close" (main.go 1063): a data connection is not left
\* open in the channel of a goroutine that has gone.
NoConnLeftInChannel ==
  \A u \in Users : waiter[u] = "closed" => chan[u] = NoConn

\* "wait for the client to connect over the data channel" (main.go 798): a
\* data connection is turned away only once its public connection is gone.
NoEarlyRejection ==
  \A u \in Users : data[u] = "rejected" => waiter[u] \notin {"register", "wait"}
=============================================================================
