------------------------ MODULE TcpDataChannelProofs ------------------------
(***************************************************************************)
(* Proofs about TcpDataChannel for every set of public connections.        *)
(***************************************************************************)
EXTENDS TcpDataChannel, TLAPS

Dialled(u) == \E i \in 1 .. Len(control) : control[i] = u

\* The client is told of a public connection once, so that it dials one data
\* connection for it.
OnceInv ==
  /\ \A i, j \in 1 .. Len(control) : control[i] = control[j] => i = j
  /\ \A u \in Users : waiter[u] \in {"none", "notify"} =>
       data[u] = "none" /\ dialer # u /\ ~Dialled(u)
  /\ \A u \in Users : Dialled(u) => data[u] = "none" /\ dialer # u
  /\ dialer # NoConn => data[dialer] = "none"

\* The data connection u is in the accept loop only while it is "accepted",
\* is handed to the goroutine of u, and only once that has registered.
HandOverInv ==
  /\ acceptor.at # "accept" => data[acceptor.conn] = "accepted"
  /\ acceptor.at = "deliver" =>
       /\ acceptor.to = acceptor.conn
       /\ acceptor.to \notin pending
       /\ waiter[acceptor.to] \in {"wait", "expired", "closed"}
  /\ \A u \in Users : chan[u] # NoConn =>
       /\ chan[u] = u
       /\ waiter[u] \in {"wait", "expired", "closed"}
  /\ \A u \in Users : waiter[u] = "forward" => paired[u] = u /\ data[u] = "forward"

IInv ==
  /\ TypeOK
  /\ OnceInv
  /\ HandOverInv
  /\ PairedByConnID
  /\ NoStalePending
  /\ DataConnOwnedOnce

USE NoConnAssumption

LEMMA InitIInv == Init => IInv
<1> SUFFICES ASSUME Init PROVE IInv
  OBVIOUS
<1> USE DEF Init, Accepting
<1>1. control \in Seq(Users) /\ Len(control) = 0
  OBVIOUS
<1>2. TypeOK
  <2>1. acceptor \in [at : {"accept"}, conn : {NoConn}]
    OBVIOUS
  <2>2. listening \in BOOLEAN
    OBVIOUS
  <2> QED BY <1>1, <2>1, <2>2 DEF TypeOK
<1>3. OnceInv /\ HandOverInv
  BY <1>1 DEF OnceInv, HandOverInv, Dialled
<1>4. PairedByConnID /\ NoStalePending /\ DataConnOwnedOnce
  BY DEF PairedByConnID, NoStalePending, DataConnOwnedOnce
<1> QED BY <1>2, <1>3, <1>4 DEF IInv

\* Steps that tell the client nothing and dial nothing.
LEMMA OnceFrame ==
  ASSUME OnceInv, TypeOK, UNCHANGED client,
         \A u \in Users : waiter'[u] \in {"none", "notify"} => waiter[u] \in {"none", "notify"},
         \A u \in Users : data[u] = "none" => data'[u] = "none"
  PROVE  OnceInv'
<1>1. UNCHANGED <<control, dialer>>
  BY DEF client
<1>2. \A u \in Users : Dialled(u)' <=> Dialled(u)
  BY <1>1 DEF Dialled
<1> QED BY <1>1, <1>2 DEF OnceInv, TypeOK

LEMMA NextIInv == IInv /\ [Next]_vars => IInv'
<1> SUFFICES ASSUME IInv, [Next]_vars PROVE IInv'
  OBVIOUS
<1> USE DEF server, client, Moves
<1>1. ASSUME NEW u \in Users, Accept(u) \/ NotifyFails(u) PROVE IInv'
  <2> USE <1>1 DEF Accept, NotifyFails
  <2>1. TypeOK'
    BY DEF IInv, TypeOK
  <2>2. OnceInv'
    BY DEF IInv, TypeOK, OnceInv, Dialled
  <2>3. HandOverInv'
    BY DEF IInv, TypeOK, HandOverInv
  <2>4. PairedByConnID' /\ NoStalePending' /\ DataConnOwnedOnce'
    BY DEF IInv, TypeOK, PairedByConnID, NoStalePending, DataConnOwnedOnce
  <2> QED BY <2>1, <2>2, <2>3, <2>4 DEF IInv
<1>2. ASSUME NEW u \in Users, Notify(u) PROVE IInv'
  <2> USE <1>2 DEF Notify
  <2>1. TypeOK'
    BY DEF IInv, TypeOK
  <2>2. OnceInv'
    BY DEF IInv, TypeOK, OnceInv, Dialled
  <2>3. HandOverInv'
    BY DEF IInv, TypeOK, HandOverInv
  <2>4. PairedByConnID' /\ NoStalePending' /\ DataConnOwnedOnce'
    BY DEF IInv, TypeOK, PairedByConnID, NoStalePending, DataConnOwnedOnce
  <2> QED BY <2>1, <2>2, <2>3, <2>4 DEF IInv
<1>3. ASSUME NEW u \in Users, RegisterPending(u) PROVE IInv'
  <2> USE <1>3 DEF RegisterPending
  <2>1. TypeOK'
    BY DEF IInv, TypeOK
  <2>2. OnceInv'
    BY DEF IInv, TypeOK, OnceInv, Dialled
  <2>3. HandOverInv'
    BY DEF IInv, TypeOK, HandOverInv
  <2>4. PairedByConnID' /\ NoStalePending' /\ DataConnOwnedOnce'
    BY DEF IInv, TypeOK, HandOverInv, PairedByConnID, NoStalePending, DataConnOwnedOnce
  <2> QED BY <2>1, <2>2, <2>3, <2>4 DEF IInv
<1>4. ASSUME NEW u \in Users, Receive(u) PROVE IInv'
  <2> USE <1>4 DEF Receive
  <2>0. chan[u] = u /\ data[u] = "sent" /\ u \notin pending
    BY DEF IInv, HandOverInv, DataConnOwnedOnce
  <2>1. TypeOK'
    BY <2>0 DEF IInv, TypeOK
  <2>2. OnceInv'
    BY <2>0 DEF IInv, TypeOK, OnceInv, Dialled
  <2>3. HandOverInv'
    BY <2>0 DEF IInv, TypeOK, HandOverInv, DataConnOwnedOnce
  <2>4. PairedByConnID' /\ NoStalePending' /\ DataConnOwnedOnce'
    BY <2>0 DEF IInv, TypeOK, HandOverInv, PairedByConnID, NoStalePending, DataConnOwnedOnce
  <2> QED BY <2>1, <2>2, <2>3, <2>4 DEF IInv
<1>5. ASSUME NEW u \in Users, Timeout(u) \/ GiveUp(u) PROVE IInv'
  <2> USE <1>5 DEF Timeout, GiveUp, PendingAfterTimeout
  <2>1. TypeOK'
    BY DEF IInv, TypeOK
  <2>2. OnceInv'
    BY OnceFrame DEF IInv, TypeOK
  <2>3. HandOverInv'
    BY DEF IInv, TypeOK, HandOverInv
  <2>4. PairedByConnID' /\ NoStalePending' /\ DataConnOwnedOnce'
    BY DEF IInv, TypeOK, HandOverInv, PairedByConnID, NoStalePending, DataConnOwnedOnce
  <2> QED BY <2>1, <2>2, <2>3, <2>4 DEF IInv
<1>6. ASSUME NEW u \in Users, ForwardEnds(u) PROVE IInv'
  <2> USE <1>6 DEF ForwardEnds
  <2>0. paired[u] = u /\ data[u] = "forward"
    BY DEF IInv, HandOverInv
  <2>1. TypeOK'
    BY <2>0 DEF IInv, TypeOK
  <2>2. OnceInv'
    BY <2>0 DEF IInv, TypeOK, OnceInv, Dialled
  <2>3. HandOverInv'
    BY <2>0 DEF IInv, TypeOK, OnceInv, HandOverInv, DataConnOwnedOnce
  <2>4. PairedByConnID' /\ NoStalePending' /\ DataConnOwnedOnce'
    BY <2>0 DEF IInv, TypeOK, OnceInv, HandOverInv, PairedByConnID, NoStalePending,
       DataConnOwnedOnce
  <2> QED BY <2>1, <2>2, <2>3, <2>4 DEF IInv
<1>7. CASE ReadNewConn
  <2> USE <1>7 DEF ReadNewConn
  <2>0. /\ control \in Seq(Users) /\ Len(control) > 0
        /\ dialer' = control[1]
        /\ control' \in Seq(Users) /\ Len(control') = Len(control) - 1
        /\ \A i \in 1 .. Len(control') : control'[i] = control[i + 1]
    BY DEF IInv, TypeOK
  <2>1. TypeOK'
    BY <2>0 DEF IInv, TypeOK
  <2>2. OnceInv'
    <3>1. \A u \in Users : Dialled(u)' => Dialled(u) /\ dialer' # u
      BY <2>0 DEF IInv, OnceInv, Dialled
    <3>2. Dialled(dialer')
      BY <2>0 DEF Dialled
    <3>3. \A i, j \in 1 .. Len(control') : control'[i] = control'[j] => i = j
      BY <2>0 DEF IInv, OnceInv
    <3>4. dialer' \in Users /\ data' = data /\ waiter' = waiter
      BY <2>0 DEF IInv, TypeOK
    <3> QED BY <3>1, <3>2, <3>3, <3>4 DEF IInv, OnceInv
  <2>3. HandOverInv'
    BY <2>0 DEF IInv, TypeOK, OnceInv, HandOverInv, DataConnOwnedOnce
  <2>4. PairedByConnID' /\ NoStalePending' /\ DataConnOwnedOnce'
    BY <2>0 DEF IInv, TypeOK, OnceInv, HandOverInv, PairedByConnID, NoStalePending,
       DataConnOwnedOnce
  <2> QED BY <2>1, <2>2, <2>3, <2>4 DEF IInv
<1>8. CASE Dial \/ DialFails
  <2> USE <1>8 DEF Dial, DialFails
  <2>1. TypeOK'
    BY DEF IInv, TypeOK
  <2>2. OnceInv'
    BY DEF IInv, TypeOK, OnceInv, Dialled
  <2>3. HandOverInv'
    BY DEF IInv, TypeOK, OnceInv, HandOverInv, DataConnOwnedOnce
  <2>4. PairedByConnID' /\ NoStalePending' /\ DataConnOwnedOnce'
    BY DEF IInv, TypeOK, OnceInv, HandOverInv, PairedByConnID, NoStalePending,
       DataConnOwnedOnce
  <2> QED BY <2>1, <2>2, <2>3, <2>4 DEF IInv
<1>9. ASSUME NEW d \in Users, AcceptData(d) PROVE IInv'
  <2> USE <1>9 DEF AcceptData
  <2>1. TypeOK'
    BY DEF IInv, TypeOK
  <2>2. OnceInv'
    BY DEF IInv, TypeOK, OnceInv, Dialled
  <2>3. HandOverInv'
    BY DEF IInv, TypeOK, OnceInv, HandOverInv, DataConnOwnedOnce
  <2>4. PairedByConnID' /\ NoStalePending' /\ DataConnOwnedOnce'
    BY DEF IInv, TypeOK, OnceInv, HandOverInv, PairedByConnID, NoStalePending,
       DataConnOwnedOnce
  <2> QED BY <2>1, <2>2, <2>3, <2>4 DEF IInv
<1>10. CASE Identify \/ IdentifyFails \/ MatchFails
  <2> USE <1>10 DEF Identify, IdentifyFails, MatchFails, Accepting
  <2>1. TypeOK'
    BY DEF IInv, TypeOK
  <2>2. OnceInv'
    BY OnceFrame DEF IInv, TypeOK, HandOverInv
  <2>3. HandOverInv'
    BY DEF IInv, TypeOK, OnceInv, HandOverInv, DataConnOwnedOnce
  <2>4. PairedByConnID' /\ NoStalePending' /\ DataConnOwnedOnce'
    BY DEF IInv, TypeOK, OnceInv, HandOverInv, PairedByConnID, NoStalePending,
       DataConnOwnedOnce
  <2> QED BY <2>1, <2>2, <2>3, <2>4 DEF IInv
<1>11. CASE Match
  <2> USE <1>11 DEF Match, Channel
  <2>0. /\ acceptor.conn \in Users /\ acceptor.conn \in pending
        /\ pending' = pending \ {acceptor.conn}
        /\ acceptor' = [at |-> "deliver", conn |-> acceptor.conn, to |-> acceptor.conn]
    BY DEF IInv, TypeOK
  <2>1. TypeOK'
    BY <2>0 DEF IInv, TypeOK
  <2>2. OnceInv'
    BY <2>0 DEF IInv, TypeOK, OnceInv, Dialled
  <2>3. HandOverInv'
    BY <2>0 DEF IInv, TypeOK, OnceInv, HandOverInv, NoStalePending, DataConnOwnedOnce
  <2>4. PairedByConnID' /\ NoStalePending' /\ DataConnOwnedOnce'
    BY <2>0 DEF IInv, TypeOK, OnceInv, HandOverInv, PairedByConnID, NoStalePending,
       DataConnOwnedOnce
  <2> QED BY <2>1, <2>2, <2>3, <2>4 DEF IInv
<1>12. CASE Deliver
  <2> USE <1>12 DEF Deliver, Accepting
  <2>0. acceptor.conn \in Users /\ acceptor.to = acceptor.conn
    BY DEF IInv, TypeOK, HandOverInv
  <2>1. TypeOK'
    BY <2>0 DEF IInv, TypeOK
  <2>2. OnceInv'
    BY <2>0, OnceFrame DEF IInv, TypeOK, HandOverInv
  <2>3. HandOverInv'
    BY <2>0 DEF IInv, TypeOK, OnceInv, HandOverInv, DataConnOwnedOnce
  <2>4. PairedByConnID' /\ NoStalePending' /\ DataConnOwnedOnce'
    BY <2>0 DEF IInv, TypeOK, OnceInv, HandOverInv, PairedByConnID, NoStalePending,
       DataConnOwnedOnce
  <2> QED BY <2>1, <2>2, <2>3, <2>4 DEF IInv
<1>13. CASE CloseTunnel
  <2> USE <1>13 DEF CloseTunnel
  <2>1. TypeOK'
    BY DEF IInv, TypeOK
  <2>2. OnceInv'
    BY DEF IInv, TypeOK, OnceInv, Dialled
  <2>3. HandOverInv'
    BY DEF IInv, TypeOK, OnceInv, HandOverInv, DataConnOwnedOnce
  <2>4. PairedByConnID' /\ NoStalePending' /\ DataConnOwnedOnce'
    BY DEF IInv, TypeOK, OnceInv, HandOverInv, PairedByConnID, NoStalePending,
       DataConnOwnedOnce
  <2> QED BY <2>1, <2>2, <2>3, <2>4 DEF IInv
<1>14. CASE UNCHANGED vars
  <2> USE <1>14 DEF vars
  <2>1. TypeOK'
    BY DEF IInv, TypeOK
  <2>2. OnceInv'
    BY DEF IInv, TypeOK, OnceInv, Dialled
  <2>3. HandOverInv'
    BY DEF IInv, TypeOK, OnceInv, HandOverInv, DataConnOwnedOnce
  <2>4. PairedByConnID' /\ NoStalePending' /\ DataConnOwnedOnce'
    BY DEF IInv, TypeOK, OnceInv, HandOverInv, PairedByConnID, NoStalePending,
       DataConnOwnedOnce
  <2> QED BY <2>1, <2>2, <2>3, <2>4 DEF IInv
<1> QED
  BY <1>1, <1>2, <1>3, <1>4, <1>5, <1>6, <1>7, <1>8, <1>9, <1>10, <1>11, <1>12, <1>13, <1>14
  DEF Next, WaiterStep, ClientStep, AcceptorStep

-----------------------------------------------------------------------------
\* Every variable of the rendezvous keeps its type.
THEOREM TypeCorrect == Spec => []TypeOK
<1>1. IInv => TypeOK
  BY DEF IInv
<1> QED BY <1>1, InitIInv, NextIInv, PTL DEF Spec

\* A public connection is never forwarded over the data connection of
\* another, for any number of them waiting at the same time.
THEOREM PairedIsByConnID == Spec => []PairedByConnID
<1>1. IInv => PairedByConnID
  BY DEF IInv
<1> QED BY <1>1, InitIInv, NextIInv, PTL DEF Spec

\* The entry of proxy.pending goes with the goroutine that made it, whether
\* the accept loop or the timeout takes it out.
THEOREM PendingIsNeverStale == Spec => []NoStalePending
<1>1. IInv => NoStalePending
  BY DEF IInv
<1> QED BY <1>1, InitIInv, NextIInv, PTL DEF Spec

\* acceptDataConnections always sends to an empty channel, so that the send
\* cannot block it, and never gives a data connection away twice.
THEOREM DataConnHasOneOwner == Spec => []DataConnOwnedOnce
<1>1. IInv => DataConnOwnedOnce
  BY DEF IInv
<1> QED BY <1>1, InitIInv, NextIInv, PTL DEF Spec
=============================================================================
