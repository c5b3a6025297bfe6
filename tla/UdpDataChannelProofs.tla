------------------------ MODULE UdpDataChannelProofs ------------------------
(***************************************************************************)
(* Proofs about UdpDataChannel for every set of users, every number of     *)
(* sessions and every capacity of pendingOut, over a network that loses,   *)
(* duplicates and reorders datagrams.                                      *)
(***************************************************************************)
EXTENDS UdpDataChannel, TLAPS

\* A session belongs to the user its sid was given to; sids not yet given
\* out belong to nobody.
OwnerInv ==
  /\ \A s \in Sids : sessions[s] # NoUser => owner[s] = sessions[s]
  /\ \A s \in Sids : s > sessionSeq => owner[s] = NoUser

\* The payload of an envelope comes from the user its sid was given to.
RightOrigin(m) == m.kind = "data" => owner[m.sid] = m.origin

SeqOrigin(q) == \A i \in 1 .. Len(q) : RightOrigin(q[i])

\* So it is wherever an envelope or a payload can be.
OriginInv ==
  /\ \A m \in toClient : RightOrigin(m)
  /\ \A m \in toServer : RightOrigin(m)
  /\ SeqOrigin(pendingOut)
  /\ SeqOrigin(todo)
  /\ \A r \in received : owner[r[1]] = r[2]

IInv == TypeOK /\ SessionIndexExact /\ OwnerInv /\ OriginInv /\ RepliesReachOrigin

USE NoUserAssumption, NoAddrAssumption, SessionBoundAssumption DEF Sids, Addrs, Unread

LEMMA InitIInv == Init => IInv
<1> SUFFICES ASSUME Init PROVE IInv
  OBVIOUS
<1> USE DEF Init
<1>1. TypeOK
  <2>1. pendingOut \in Seq(Envelopes) /\ todo \in Seq(Envelopes)
    OBVIOUS
  <2>2. hello \in BOOLEAN
    OBVIOUS
  <2>3. toClient \in SUBSET Envelopes /\ toServer \in SUBSET Envelopes
    OBVIOUS
  <2> QED BY <2>1, <2>2, <2>3 DEF TypeOK
<1>2. SessionIndexExact /\ OwnerInv
  BY DEF SessionIndexExact, OwnerInv
<1>3. OriginInv /\ RepliesReachOrigin
  BY DEF OriginInv, SeqOrigin, RepliesReachOrigin
<1> QED BY <1>1, <1>2, <1>3 DEF IInv

\* Learning the client's address moves envelopes from pendingOut to the
\* network and invents none.
LEMMA LearnAddrFrame ==
  ASSUME IInv, NEW from \in Addrs, LearnAddr(from), owner' = owner
  PROVE  /\ clientDataAddr' \in Addrs \cup {NoAddr}
         /\ pendingOut' \in Seq(Envelopes)
         /\ toClient' \in SUBSET Envelopes
         /\ \A m \in toClient' : RightOrigin(m)'
         /\ SeqOrigin(pendingOut)'
<1>1. \A i \in 1 .. Len(pendingOut) : pendingOut[i] \in Envelopes
  BY DEF IInv, TypeOK
<1>2. toClient' \in SUBSET Envelopes /\ clientDataAddr' \in Addrs \cup {NoAddr}
      /\ pendingOut' \in Seq(Envelopes)
  BY <1>1 DEF LearnAddr, IInv, TypeOK
<1>3. \A m \in toClient' : m \in toClient \/ \E i \in 1 .. Len(pendingOut) : m = pendingOut[i]
  BY DEF LearnAddr
<1>4. ASSUME NEW m \in toClient' PROVE RightOrigin(m)'
  <2>1. RightOrigin(m)
    <3>1. CASE m \in toClient
      BY <3>1 DEF IInv, OriginInv
    <3>2. CASE \E i \in 1 .. Len(pendingOut) : m = pendingOut[i]
      <4>1. PICK i \in 1 .. Len(pendingOut) : m = pendingOut[i]
        BY <3>2
      <4>2. RightOrigin(pendingOut[i])
        BY DEF IInv, OriginInv, SeqOrigin
      <4> QED BY <4>1, <4>2
    <3> QED BY <1>3, <3>1, <3>2
  <2> QED BY <2>1 DEF RightOrigin
<1>5. SeqOrigin(pendingOut)'
  BY DEF LearnAddr, IInv, OriginInv, SeqOrigin, RightOrigin
<1> QED BY <1>2, <1>4, <1>5

\* Deleting sessions from both maps keeps them describing the same sessions.
LEMMA ForgetKeepsIndex ==
  ASSUME IInv, NEW ss \in SUBSET Sids, Forget(ss), UNCHANGED <<sessionSeq, owner>>
  PROVE  /\ sessions' \in [Sids -> Users \cup {NoUser}]
         /\ addrIndex' \in [Users -> Sids \cup {0}]
         /\ SessionIndexExact'
         /\ OwnerInv'
<1>1. sessions' \in [Sids -> Users \cup {NoUser}] /\ addrIndex' \in [Users -> Sids \cup {0}]
  BY DEF Forget, IInv, TypeOK
<1>2. SessionIndexExact'
  BY DEF Forget, IInv, TypeOK, SessionIndexExact
<1>3. OwnerInv'
  BY DEF Forget, IInv, OwnerInv
<1> QED BY <1>1, <1>2, <1>3

\* The parts of the invariant that an action leaves alone.
LEMMA IndexFrame ==
  ASSUME IInv, UNCHANGED <<sessions, addrIndex, sessionSeq, owner>>
  PROVE  /\ sessions' \in [Sids -> Users \cup {NoUser}]
         /\ addrIndex' \in [Users -> Sids \cup {0}]
         /\ sessionSeq' \in 0 .. MaxSessions
         /\ owner' \in [Sids -> Users \cup {NoUser}]
         /\ SessionIndexExact'
         /\ OwnerInv'
BY DEF IInv, TypeOK, SessionIndexExact, OwnerInv

\* Taking the first envelope off the user loop's list.
LEMMA TodoTail ==
  ASSUME IInv, todo # <<>>, NEW e, e = Head(todo), todo' = Tail(todo), owner' = owner
  PROVE  /\ todo' \in Seq(Envelopes)
         /\ e \in Envelopes
         /\ RightOrigin(e)'
         /\ SeqOrigin(todo)'
<1>1. todo \in Seq(Envelopes) /\ Len(todo) > 0
  BY DEF IInv, TypeOK
<1>2. todo' \in Seq(Envelopes) /\ e \in Envelopes /\ e = todo[1]
  BY <1>1
<1>3. RightOrigin(e)'
  BY <1>1, <1>2 DEF IInv, OriginInv, SeqOrigin, RightOrigin
<1>4. ASSUME NEW i \in 1 .. Len(todo') PROVE RightOrigin(todo[i])'
  <2>1. i + 1 \in 1 .. Len(todo) /\ todo'[i] = todo[i + 1]
    BY <1>1
  <2> QED BY <2>1 DEF IInv, OriginInv, SeqOrigin, RightOrigin
<1> QED BY <1>2, <1>3, <1>4 DEF SeqOrigin

LEMMA NextIInv == IInv /\ [Next]_vars => IInv'
<1> SUFFICES ASSUME IInv, [Next]_vars PROVE IInv'
  OBVIOUS
<1> USE DEF index, outbound, network, clients, replies
<1>1. ASSUME NEW u \in Users, KnownUser(u) PROVE IInv'
  <2> USE <1>1 DEF KnownUser
  <2>1. addrIndex[u] \in Sids /\ owner[addrIndex[u]] = u
    BY DEF IInv, TypeOK, SessionIndexExact, OwnerInv
  <2>2. Env("data", addrIndex[u], u) \in Envelopes
    BY <2>1 DEF Env, Envelopes
  <2>3. SessionIndexExact' /\ OwnerInv'
    BY IndexFrame
  <2>4. TypeOK'
    <3>1. todo' \in Seq(Envelopes)
      BY <2>2
    <3>2. fresh' \in SUBSET Sids
      BY DEF IInv, TypeOK
    <3> QED BY <3>1, <3>2 DEF IInv, TypeOK
  <2>5. OriginInv'
    BY <2>1 DEF IInv, OriginInv, SeqOrigin, RightOrigin, Env
  <2> QED BY <2>3, <2>4, <2>5 DEF IInv, RepliesReachOrigin
<1>2. ASSUME NEW u \in Users, NewUser(u) PROVE IInv'
  <2> USE <1>2 DEF NewUser, NextSid
  <2>1. PICK n \in Sids : n = sessionSeq + 1
    BY DEF IInv, TypeOK
  <2>2. owner[n] = NoUser /\ sessions[n] = NoUser
    BY <2>1 DEF IInv, TypeOK, OwnerInv
  <2>3. Env("reg", n, NoUser) \in Envelopes /\ Env("data", n, u) \in Envelopes
    BY DEF Env, Envelopes
  <2>4. TypeOK'
    BY <2>1, <2>3 DEF IInv, TypeOK
  <2>5. SessionIndexExact'
    BY <2>1, <2>2 DEF IInv, TypeOK, SessionIndexExact
  <2>6. OwnerInv'
    BY <2>1, <2>2 DEF IInv, TypeOK, OwnerInv
  <2>7. \A m \in Envelopes : RightOrigin(m) => RightOrigin(m)'
    BY <2>1, <2>2 DEF IInv, TypeOK, RightOrigin, Envelopes
  <2>8. \A m \in toClient' : RightOrigin(m)'
    BY <2>7 DEF IInv, TypeOK, OriginInv
  <2>9. \A m \in toServer' : RightOrigin(m)'
    BY <2>7 DEF IInv, TypeOK, OriginInv
  <2>10. SeqOrigin(pendingOut)'
    <3>1. ASSUME NEW i \in 1 .. Len(pendingOut) PROVE RightOrigin(pendingOut[i])'
      <4>1. pendingOut[i] \in Envelopes /\ RightOrigin(pendingOut[i])
        BY DEF IInv, TypeOK, OriginInv, SeqOrigin
      <4> QED BY <4>1, <2>7 DEF RightOrigin
    <3> QED BY <3>1 DEF SeqOrigin
  <2>11. SeqOrigin(todo)'
    BY <2>1 DEF SeqOrigin, RightOrigin, Env, IInv, TypeOK
  <2>12. \A r \in received' : owner'[r[1]] = r[2]
    BY <2>1, <2>2 DEF IInv, TypeOK, OriginInv
  <2>13. OriginInv'
    BY <2>8, <2>9, <2>10, <2>11, <2>12 DEF OriginInv
  <2> QED BY <2>4, <2>5, <2>6, <2>13 DEF IInv, RepliesReachOrigin
<1>3. CASE ReadAddr
  <2> USE <1>3 DEF ReadAddr
  <2>1. SessionIndexExact' /\ OwnerInv'
    BY IndexFrame
  <2> QED BY <2>1 DEF IInv, TypeOK, OriginInv, SeqOrigin, RightOrigin, RepliesReachOrigin
<1>4. CASE SendEnvelope
  <2> USE <1>4 DEF SendEnvelope
  <2>0. PICK e : e = Head(todo)
    OBVIOUS
  <2>1. SessionIndexExact' /\ OwnerInv'
    BY IndexFrame
  <2>2. TypeOK'
    BY <2>0, TodoTail DEF IInv, TypeOK
  <2>3. \A m \in toClient' : RightOrigin(m)'
    BY <2>0, TodoTail DEF IInv, OriginInv, SeqOrigin, RightOrigin
  <2>4. OriginInv'
    BY <2>3, <2>0, TodoTail DEF IInv, OriginInv, SeqOrigin, RightOrigin
  <2> QED BY <2>1, <2>2, <2>4 DEF IInv, RepliesReachOrigin
<1>5. CASE KeepEnvelope
  <2> USE <1>5 DEF KeepEnvelope
  <2>0. PICK e : e = Head(todo)
    OBVIOUS
  <2>1. SessionIndexExact' /\ OwnerInv'
    BY IndexFrame
  <2>2. TypeOK'
    BY <2>0, TodoTail DEF IInv, TypeOK
  <2>3. ASSUME NEW i \in 1 .. Len(pendingOut') PROVE RightOrigin(pendingOut[i])'
    <3>1. CASE i \in 1 .. Len(pendingOut)
      BY <3>1 DEF IInv, TypeOK, OriginInv, SeqOrigin, RightOrigin
    <3>2. CASE i \notin 1 .. Len(pendingOut)
      BY <3>2, <2>0, TodoTail DEF IInv, TypeOK, RightOrigin
    <3> QED BY <3>1, <3>2
  <2>5. SeqOrigin(pendingOut)'
    BY <2>3 DEF SeqOrigin
  <2>4. OriginInv'
    BY <2>5, <2>0, TodoTail DEF IInv, OriginInv, RightOrigin
  <2> QED BY <2>1, <2>2, <2>4 DEF IInv, RepliesReachOrigin
<1>6. CASE ReceiveStray \/ ReceiveHello
  <2>1. PICK from \in Addrs : LearnAddr(from)
    BY <1>6 DEF ReceiveStray, ReceiveHello
  <2>2. UNCHANGED <<index, todo, seenAddr, toServer, hello, clients, replies>>
    BY <1>6 DEF ReceiveStray, ReceiveHello
  <2>3. SessionIndexExact' /\ OwnerInv'
    BY <2>2, IndexFrame
  <2>4. TypeOK'
    BY <2>1, <2>2, LearnAddrFrame DEF IInv, TypeOK
  <2>5. OriginInv'
    BY <2>1, <2>2, LearnAddrFrame DEF IInv, OriginInv, SeqOrigin, RightOrigin
  <2> QED BY <2>2, <2>3, <2>4, <2>5 DEF IInv, RepliesReachOrigin
<1>7. ASSUME NEW m \in toServer, ReceiveReply(m) PROVE IInv'
  <2> USE <1>7 DEF ReceiveReply
  <2>1. m \in Envelopes /\ m.kind = "data" /\ RightOrigin(m)
    BY DEF IInv, TypeOK, OriginInv
  <2>2. m.sid \in Sids /\ m.origin \in Users /\ owner[m.sid] = m.origin
    BY <2>1 DEF Envelopes, RightOrigin
  <2>3. SessionIndexExact' /\ OwnerInv'
    BY IndexFrame
  <2>4. sessions[m.sid] # NoUser => sessions[m.sid] = m.origin
    BY <2>2 DEF IInv, OwnerInv
  <2>5. RepliesReachOrigin'
    BY <2>4 DEF IInv, RepliesReachOrigin
  <2>6. delivered' \in SUBSET (Users \X Users) /\ touch' \in Sids \cup {0}
    <3>1. delivered' = delivered \/ delivered' = delivered \cup {<<m.origin, m.origin>>}
      BY <2>4
    <3>2. <<m.origin, m.origin>> \in Users \X Users
      BY <2>2
    <3> QED BY <2>2, <3>1, <3>2 DEF IInv, TypeOK
  <2>7. TypeOK'
    BY <2>6, LearnAddrFrame DEF IInv, TypeOK
  <2>8. OriginInv'
    BY LearnAddrFrame DEF IInv, OriginInv, SeqOrigin, RightOrigin
  <2> QED BY <2>3, <2>5, <2>7, <2>8 DEF IInv
<1>8. ASSUME NEW m \in toServer, ReceiveBye(m) PROVE IInv'
  <2> USE <1>8 DEF ReceiveBye
  <2>1. m.sid \in Sids
    BY DEF IInv, TypeOK, Envelopes
  <2>2. PICK ss \in SUBSET Sids : ss = {m.sid}
    BY <2>1
  <2>3. Forget(ss)
    BY <2>2
  <2>4. TypeOK'
    BY <2>3, ForgetKeepsIndex, LearnAddrFrame DEF IInv, TypeOK
  <2>5. OriginInv'
    BY LearnAddrFrame DEF IInv, OriginInv, SeqOrigin, RightOrigin
  <2> QED BY <2>3, <2>4, <2>5, ForgetKeepsIndex DEF IInv, RepliesReachOrigin
<1>9. CASE Tick
  <2> USE <1>9 DEF Tick
  <2>1. PICK ss \in SUBSET Sids : ss = {s \in Sids : sessions[s] # NoUser /\ s \notin fresh}
    OBVIOUS
  <2>2. Forget(ss)
    BY <2>1
  <2>3. TypeOK'
    BY <2>2, ForgetKeepsIndex DEF IInv, TypeOK
  <2>4. OriginInv'
    BY DEF IInv, OriginInv, SeqOrigin, RightOrigin
  <2> QED BY <2>2, <2>3, <2>4, ForgetKeepsIndex DEF IInv, RepliesReachOrigin
<1>10. CASE SayHello
  <2> USE <1>10 DEF SayHello
  <2>1. SessionIndexExact' /\ OwnerInv'
    BY IndexFrame
  <2>2. hello' \in BOOLEAN
    OBVIOUS
  <2> QED BY <2>1, <2>2 DEF IInv, TypeOK, OriginInv, SeqOrigin, RightOrigin, RepliesReachOrigin
<1>11. ASSUME NEW m \in toClient, ClientReceives(m) PROVE IInv'
  <2> USE <1>11 DEF ClientReceives
  <2>1. m \in Envelopes /\ RightOrigin(m)
    BY DEF IInv, TypeOK, OriginInv
  <2>2. m.sid \in Sids /\ (m.kind = "data" => m.origin \in Users /\ owner[m.sid] = m.origin)
    BY <2>1 DEF Envelopes, RightOrigin
  <2>3. SessionIndexExact' /\ OwnerInv'
    BY IndexFrame
  <2>4. TypeOK'
    <3>1. received' = received \/ received' = received \cup {<<m.sid, m.origin>>}
      OBVIOUS
    <3>2. received' \in SUBSET (Sids \X Users)
      BY <2>2, <3>1 DEF IInv, TypeOK
    <3>3. backend' \in SUBSET Sids
      BY <2>2 DEF IInv, TypeOK
    <3> QED BY <3>2, <3>3 DEF IInv, TypeOK
  <2>5. \A r \in received' : owner'[r[1]] = r[2]
    BY <2>2 DEF IInv, OriginInv
  <2>6. OriginInv'
    BY <2>5 DEF IInv, OriginInv, SeqOrigin, RightOrigin
  <2> QED BY <2>3, <2>4, <2>6 DEF IInv, RepliesReachOrigin
<1>12. ASSUME NEW s \in Sids, NEW u \in Users, BackendReplies(s, u) PROVE IInv'
  <2> USE <1>12 DEF BackendReplies
  <2>1. owner[s] = u
    BY DEF IInv, OriginInv
  <2>2. PICK m \in Envelopes : m = Env("data", s, u)
    BY DEF Env, Envelopes
  <2>3. RightOrigin(m)'
    BY <2>1, <2>2 DEF RightOrigin, Env
  <2>4. SessionIndexExact' /\ OwnerInv'
    BY IndexFrame
  <2>5. TypeOK'
    BY <2>2 DEF IInv, TypeOK
  <2>6. OriginInv'
    BY <2>2, <2>3 DEF IInv, OriginInv, SeqOrigin, RightOrigin
  <2> QED BY <2>4, <2>5, <2>6 DEF IInv, RepliesReachOrigin
<1>13. ASSUME NEW s \in Sids, BackendFails(s) PROVE IInv'
  <2> USE <1>13 DEF BackendFails
  <2>1. SessionIndexExact' /\ OwnerInv'
    BY IndexFrame
  <2> QED BY <2>1 DEF IInv, TypeOK, OriginInv, SeqOrigin, RightOrigin, RepliesReachOrigin
<1>14. ASSUME NEW s \in Sids, SendBye(s) PROVE IInv'
  <2> USE <1>14 DEF SendBye
  <2>1. PICK m \in Envelopes : m = Env("bye", s, NoUser)
    BY DEF Env, Envelopes
  <2>2. RightOrigin(m)'
    BY <2>1 DEF RightOrigin, Env
  <2>3. SessionIndexExact' /\ OwnerInv'
    BY IndexFrame
  <2>4. TypeOK'
    BY <2>1 DEF IInv, TypeOK
  <2>5. OriginInv'
    BY <2>1, <2>2 DEF IInv, OriginInv, SeqOrigin, RightOrigin
  <2> QED BY <2>3, <2>4, <2>5 DEF IInv, RepliesReachOrigin
<1>15. CASE TouchSession
  <2> USE <1>15 DEF TouchSession
  <2>1. SessionIndexExact' /\ OwnerInv'
    BY IndexFrame
  <2>2. TypeOK'
    BY DEF IInv, TypeOK
  <2> QED BY <2>1, <2>2 DEF IInv, OriginInv, SeqOrigin, RightOrigin, RepliesReachOrigin
<1>16. CASE UNCHANGED vars
  BY <1>16, IndexFrame
  DEF vars, IInv, TypeOK, OriginInv, SeqOrigin, RightOrigin, RepliesReachOrigin
<1> QED
  BY <1>1, <1>2, <1>3, <1>4, <1>5, <1>6, <1>7, <1>8, <1>9, <1>10, <1>11, <1>12, <1>13,
     <1>14, <1>15, <1>16 DEF Next, UserLoop

LEMMA NextPending == TypeOK /\ PendingBounded /\ [Next]_vars => PendingBounded'
<1> SUFFICES ASSUME TypeOK, PendingBounded, [Next]_vars PROVE PendingBounded'
  OBVIOUS
<1>1. pendingOut \in Seq(Envelopes) /\ Len(pendingOut) \in Nat
  BY DEF TypeOK
<1>2. CASE KeepEnvelope
  <2>1. CASE HasRoom
    BY <1>1, <1>2, <2>1 DEF KeepEnvelope, HasRoom, PendingBounded
  <2>2. CASE ~HasRoom
    BY <1>2, <2>2 DEF KeepEnvelope, PendingBounded
  <2> QED BY <2>1, <2>2
<1>3. ASSUME NEW from, LearnAddr(from) PROVE PendingBounded'
  BY <1>3 DEF LearnAddr, PendingBounded
<1>4. CASE UNCHANGED pendingOut
  BY <1>4 DEF PendingBounded
<1>5. KeepEnvelope \/ (\E from \in Addrs : LearnAddr(from)) \/ UNCHANGED pendingOut
  BY DEF Next, UserLoop, vars, index, outbound, network, clients, replies, KnownUser, NewUser,
         ReadAddr, SendEnvelope, ReceiveStray, ReceiveHello, ReceiveReply, ReceiveBye,
         TouchSession, Tick, SayHello, ClientReceives, BackendReplies, BackendFails, SendBye
<1> QED BY <1>2, <1>3, <1>4, <1>5

\* While the user loop holds a nil address that is out of date, nothing else
\* is stranded yet.
StrandedInv ==
  clientDataAddr # NoAddr =>
    IF seenAddr = NoAddr THEN pendingOut = <<>> ELSE Len(pendingOut) <= 1

LEMMA NextStranded == TypeOK /\ StrandedInv /\ [Next]_vars => StrandedInv'
<1> SUFFICES ASSUME TypeOK, StrandedInv, [Next]_vars PROVE StrandedInv'
  OBVIOUS
<1>1. pendingOut \in Seq(Envelopes) /\ NoAddr # Unread /\ NoAddr \notin Addrs
  BY NoAddrAssumption DEF TypeOK, Unread, Addrs
<1>2. CASE ReadAddr
  BY <1>1, <1>2 DEF ReadAddr, StrandedInv
<1>3. CASE SendEnvelope
  BY <1>1, <1>3 DEF SendEnvelope, StrandedInv
<1>4. CASE KeepEnvelope
  <2>1. clientDataAddr' # NoAddr => pendingOut = <<>>
    BY <1>4 DEF KeepEnvelope, StrandedInv
  <2>2. pendingOut = <<>> => Len(pendingOut') <= 1
    BY <1>1, <1>4 DEF KeepEnvelope
  <2>3. seenAddr' # NoAddr
    BY <1>1, <1>4 DEF KeepEnvelope
  <2> QED BY <2>1, <2>2, <2>3 DEF StrandedInv
<1>5. ASSUME NEW from \in Addrs, LearnAddr(from), seenAddr' = seenAddr PROVE StrandedInv'
  <2>1. CASE clientDataAddr = NoAddr
    BY <1>5, <2>1 DEF LearnAddr, StrandedInv
  <2>2. CASE clientDataAddr # NoAddr
    BY <1>5, <2>2 DEF LearnAddr, StrandedInv
  <2> QED BY <2>1, <2>2
<1>6. CASE UNCHANGED <<clientDataAddr, pendingOut, seenAddr>>
  BY <1>6 DEF StrandedInv
<1>7. UserLoop \/ (\E from \in Addrs : LearnAddr(from) /\ seenAddr' = seenAddr)
      \/ UNCHANGED <<clientDataAddr, pendingOut, seenAddr>>
  BY DEF Next, vars, index, outbound, network, clients, replies, KnownUser, NewUser, Addrs,
         ReceiveStray, ReceiveHello, ReceiveReply, ReceiveBye,
         TouchSession, Tick, SayHello, ClientReceives, BackendReplies, BackendFails, SendBye
<1> QED BY <1>2, <1>3, <1>4, <1>5, <1>6, <1>7 DEF UserLoop

-----------------------------------------------------------------------------
\* Every variable keeps its type, over every network and however often the
\* loops of the two programs interleave.
THEOREM TypeCorrect == Spec => []TypeOK
<1>1. IInv => TypeOK
  BY DEF IInv
<1> QED BY <1>1, InitIInv, NextIInv, PTL DEF Spec

\* getOrCreateSession, 0x03 and cleanupUDPSessions keep sessions and
\* addrIndex in step.
THEOREM SessionIndexIsExact == Spec => []SessionIndexExact
<1>1. IInv => SessionIndexExact
  BY DEF IInv
<1> QED BY <1>1, InitIInv, NextIInv, PTL DEF Spec

\* handleUDPDataChannel writes a reply only to the user whose traffic caused
\* it.  The invariant that carries the proof follows the payload through
\* pendingOut, the network and the client's sockets: it always travels under
\* a sid that was given to its user, and a sid is never given out twice.
THEOREM RepliesAreNotMixedUp == Spec => []RepliesReachOrigin
<1>1. IInv => RepliesReachOrigin
  BY DEF IInv
<1> QED BY <1>1, InitIInv, NextIInv, PTL DEF Spec

\* sendUDPToClient never lets pendingOut grow past its capacity, although it
\* decided to keep the envelope in an earlier critical section.
THEOREM PendingStaysBounded == Spec => []PendingBounded
<1>1. Init => PendingBounded
  BY DEF Init, PendingBounded
<1> QED BY <1>1, TypeCorrect, NextPending, PTL DEF Spec

\* sendUDPToClient and handleUDPDataChannel can strand one envelope of a
\* tunnel, never two.  The invariant that carries the proof counts the nil
\* address the user loop has read and not acted on yet as that one envelope.
THEOREM OneStrandedAtMost == Spec => []StrandedAtMostOne
<1>1. Init => StrandedInv
  BY DEF Init, StrandedInv
<1>2. StrandedInv => StrandedAtMostOne
  <2>1. Len(<<>>) = 0
    OBVIOUS
  <2> QED BY <2>1 DEF StrandedInv, StrandedAtMostOne
<1> QED BY <1>1, <1>2, TypeCorrect, NextStranded, PTL DEF Spec
=============================================================================
