-------------------------- MODULE TcpForwardProofs --------------------------
(***************************************************************************)
(* Proofs about TcpForward for every number of chunks, every capacity of   *)
(* the sockets and every number of outside events.                         *)
(***************************************************************************)
EXTENDS TcpForward, SequenceTheorems, TLAPS

\* What a chunk's way out of the data connection is waiting for: the socket
\* of the destination takes it, and the verifying goroutine is at work.
Outlet(d)  == ~OuterConnBroken(Verifier(d))
Flowing(d) == Outlet(d) /\ verify[d] \in {"read", "write"}

\* Consecutive chunks, from k + 1 on.
Run(q, k) == \A i \in 1 .. Len(q) : q[i] = k + i
FrameRun(q, k) == \A i \in 1 .. Len(q) : q[i].chunk = k + i

\* The chunks in each part of the pipeline of a direction.
Delivered(d) == Len(received[d])
Outgoing(d)  == Len(outbuf[d])
Verified(d)  == Len(verifyBuf[d])
Framed(d)    == Len(frames[d])
Signed(d)    == Len(signBuf[d])
Incoming(d)  == Len(inbuf[d])

\* The counters of the two sides.
Taken(d)  == counted[Signer(d)][d]
Passed(d) == counted[Verifier(d)][d]

\* The goroutines hold a chunk exactly while they are about to write it.
BufferInv(d) ==
  /\ signBuf[d] = IF sign[d] = "write" THEN <<Taken(d)>> ELSE <<>>
  /\ Signed(d) = IF sign[d] = "write" THEN 1 ELSE 0
  /\ Verified(d) = IF verify[d] = "write" THEN 1 ELSE 0

\* The chunks before the data connection are numbered from the source, those
\* behind it from the sink; a part that has an outlet no more may have gaps
\* before it, and nothing of it is ever delivered.
RunInv(d) ==
  /\ Run(inbuf[d], Taken(d))
  /\ Run(received[d], 0)
  /\ Run(outbuf[d], Delivered(d))
  /\ Outlet(d) => Run(verifyBuf[d], Delivered(d) + Outgoing(d))
  /\ Flowing(d) => FrameRun(frames[d], Delivered(d) + Outgoing(d) + Verified(d))

\* The counters, in the order a chunk passes them; there is no gap between
\* them while both connections stand.
CountInv(d) ==
  /\ Delivered(d) + Outgoing(d) + Verified(d) <= Passed(d)
  /\ Passed(d) + Framed(d) + Signed(d) <= Taken(d)
  /\ Taken(d) + Incoming(d) = sent[d]
  /\ Flowing(d) => Delivered(d) + Outgoing(d) + Verified(d) = Passed(d)
  /\ Flowing(d) /\ ~DataConnBroken => Passed(d) + Framed(d) + Signed(d) = Taken(d)

DirInv(d) == BufferInv(d) /\ RunInv(d) /\ CountInv(d)

\* Each side closes the data connection first, then the outer one.
CloseInv ==
  \A s \in Sides :
    /\ main[s] \in {"wait", "closeData"} => dataOpen[s]
    /\ main[s] # "returned" => outerOpen[s]

\* Nothing fails by itself: as long as nothing has ended the connection no
\* goroutine has seen an error and every frame verifies.
QuietInv ==
  ~Ended =>
    /\ \A s \in Sides : main[s] = "wait" /\ errChan[s] = 0
    /\ \A d \in Dirs : /\ sign[d] \in {"read", "write"}
                       /\ verify[d] \in {"read", "write"}
                       /\ \A i \in 1 .. Len(frames[d]) : frames[d][i].ok

IInv == TypeOK /\ (\A d \in Dirs : DirInv(d)) /\ CloseInv /\ QuietInv


USE ChunksAssumption, CapAssumption DEF Chunk

\* A step that leaves the chunks and the goroutines of a direction alone.
Same(d) ==
  /\ sent'[d] = sent[d]
  /\ inbuf'[d] = inbuf[d]
  /\ sign'[d] = sign[d]
  /\ signBuf'[d] = signBuf[d]
  /\ frames'[d] = frames[d]
  /\ verify'[d] = verify[d]
  /\ verifyBuf'[d] = verifyBuf[d]
  /\ outbuf'[d] = outbuf[d]
  /\ received'[d] = received[d]
  /\ \A s \in Sides : counted'[s][d] = counted[s][d]

\* What has ended stays ended.
Monotone ==
  /\ Ended => Ended'
  /\ DataConnBroken => DataConnBroken'
  /\ \A s \in Sides : OuterConnBroken(s) => OuterConnBroken(s)'

LEMMA SidesOf ==
  ASSUME NEW d \in Dirs
  PROVE  Signer(d) \in Sides /\ Verifier(d) \in Sides /\ Signer(d) # Verifier(d)
BY DEF Signer, Verifier, Dirs, Sides

LEMMA SameDir ==
  ASSUME NEW d \in Dirs, DirInv(d), Same(d), Monotone
  PROVE  DirInv(d)'
<1>0. Verifier(d) \in Sides /\ Signer(d) \in Sides
  BY SidesOf
<1>1. (Outlet(d)' => Outlet(d)) /\ (Flowing(d)' => Flowing(d))
  BY <1>0 DEF Monotone, Same, Outlet, Flowing
<1>2. /\ Delivered(d)' = Delivered(d) /\ Outgoing(d)' = Outgoing(d) /\ Verified(d)' = Verified(d)
      /\ Framed(d)' = Framed(d) /\ Signed(d)' = Signed(d) /\ Incoming(d)' = Incoming(d)
      /\ Taken(d)' = Taken(d) /\ Passed(d)' = Passed(d)
  BY <1>0 DEF Same, Delivered, Outgoing, Verified, Framed, Signed, Incoming, Taken, Passed
<1>3. BufferInv(d)'
  BY <1>2 DEF DirInv, Same, BufferInv
<1>4. RunInv(d)'
  BY <1>1, <1>2 DEF DirInv, Same, RunInv
<1>5. CountInv(d)'
  BY <1>1, <1>2 DEF DirInv, Same, CountInv, Monotone
<1> QED BY <1>3, <1>4, <1>5 DEF DirInv

\* The outside, and the deferred closes, only ever end things.
LEMMA FaultsMonotone ==
  ASSUME TypeOK, [Next]_vars
  PROVE  Monotone
<1> USE DEF source, sink, control, faults, vars
<1>1. ASSUME UNCHANGED <<dataOpen, outerOpen, peer, cut, tampered>> PROVE Monotone
  BY <1>1 DEF Monotone, Ended, DataConnBroken, OuterConnBroken
<1>2. ASSUME NEW s \in Sides, PeerEnds(s) PROVE Monotone
  <2>1. \A u \in Sides : peer[u] = "gone" => peer'[u] = "gone"
    BY <1>2 DEF PeerEnds, TypeOK
  <2>2. \A u \in Sides : peer[u] # "open" => peer'[u] # "open"
    BY <1>2 DEF PeerEnds, TypeOK
  <2> QED BY <1>2, <2>1, <2>2 DEF PeerEnds, Monotone, Ended, DataConnBroken, OuterConnBroken
<1>3. ASSUME Cut PROVE Monotone
  BY <1>3 DEF Cut, Monotone, Ended, DataConnBroken, OuterConnBroken
<1>4. ASSUME NEW d \in Dirs, Tamper(d) PROVE Monotone
  BY <1>4 DEF Tamper, Monotone, Ended, DataConnBroken, OuterConnBroken
<1>5. ASSUME NEW s \in Sides, CloseData(s) PROVE Monotone
  <2>1. \A u \in Sides : ~dataOpen[u] => ~dataOpen'[u]
    BY <1>5 DEF CloseData, TypeOK
  <2> QED BY <1>5, <2>1 DEF CloseData, Monotone, Ended, DataConnBroken, OuterConnBroken
<1>6. ASSUME NEW s \in Sides, CloseOuter(s) PROVE Monotone
  <2>1. \A u \in Sides : ~outerOpen[u] => ~outerOpen'[u]
    BY <1>6 DEF CloseOuter, TypeOK
  <2> QED BY <1>6, <2>1 DEF CloseOuter, Monotone, Ended, DataConnBroken, OuterConnBroken
<1>7. ASSUME NEW d \in Dirs, SignStep(d) \/ VerifyStep(d) \/ PeerReads(d) PROVE Monotone
  BY <1>1, <1>7 DEF SignStep, SignRead, SignReadFails, SignWrite, SignWriteFails, SignReports,
     VerifyStep, VerifyRead, VerifyReadRejects, VerifyReadFails, VerifyWrite, VerifyWriteFails,
     VerifyReports, PeerReads
<1>8. ASSUME NEW d \in Dirs, PeerSends(d) \/ LoseFrames(d) \/ LoseOutput(d) PROVE Monotone
  BY <1>1, <1>8 DEF PeerSends, LoseFrames, LoseOutput
<1>9. ASSUME NEW s \in Sides, FirstError(s) PROVE Monotone
  BY <1>1, <1>9 DEF FirstError
<1>10. CASE UNCHANGED vars
  BY <1>1, <1>10
<1> QED BY <1>2, <1>3, <1>4, <1>5, <1>6, <1>7, <1>8, <1>9, <1>10 DEF Next, MainStep, Environment

-----------------------------------------------------------------------------
(* Queues.                                                                 *)

Frame == [chunk : Chunk, ok : BOOLEAN]

LEMMA AppendFacts ==
  ASSUME NEW S, NEW q \in Seq(S), NEW x \in S
  PROVE  /\ Append(q, x) \in Seq(S)
         /\ Len(Append(q, x)) = Len(q) + 1
         /\ \A i \in 1 .. Len(q) : Append(q, x)[i] = q[i]
         /\ Append(q, x)[Len(q) + 1] = x
OBVIOUS

LEMMA HeadTailFacts ==
  ASSUME NEW S, NEW q \in Seq(S), q # <<>>
  PROVE  /\ Len(q) \in Nat \ {0}
         /\ Head(q) \in S /\ Head(q) = q[1]
         /\ Tail(q) \in Seq(S)
         /\ Len(Tail(q)) = Len(q) - 1
         /\ \A i \in 1 .. Len(q) - 1 : Tail(q)[i] = q[i + 1]
OBVIOUS

LEMMA SingleFacts ==
  ASSUME NEW S, NEW x \in S
  PROVE  <<x>> \in Seq(S) /\ Len(<<x>>) = 1 /\ <<x>>[1] = x
OBVIOUS

LEMMA EmptyFacts ==
  ASSUME NEW S
  PROVE  <<>> \in Seq(S) /\ Len(<<>>) = 0
OBVIOUS

\* What the steps do to a run of chunks.
LEMMA RunAppend ==
  ASSUME NEW q \in Seq(Chunk), NEW k \in Nat, NEW x \in Chunk, Run(q, k),
         x = k + (Len(q) + 1)
  PROVE  Run(Append(q, x), k)
<1> SUFFICES ASSUME NEW i \in 1 .. Len(Append(q, x)) PROVE Append(q, x)[i] = k + i
  BY DEF Run
<1>1. i \in 1 .. Len(q) \/ i = Len(q) + 1
  BY AppendFacts
<1>2. CASE i \in 1 .. Len(q)
  BY <1>2, AppendFacts DEF Run
<1>3. CASE i = Len(q) + 1
  BY <1>3, AppendFacts
<1> QED BY <1>1, <1>2, <1>3

LEMMA RunTail ==
  ASSUME NEW q \in Seq(Chunk), NEW k \in Nat, q # <<>>, Run(q, k)
  PROVE  Head(q) = k + 1 /\ Run(Tail(q), k + 1)
BY DEF Run

LEMMA RunSingle ==
  ASSUME NEW k \in Nat
  PROVE  Run(<<k + 1>>, k)
BY DEF Run

LEMMA RunEmpty ==
  ASSUME NEW k
  PROVE  Run(<<>>, k) /\ FrameRun(<<>>, k)
BY DEF Run, FrameRun

LEMMA FrameRunAppend ==
  ASSUME NEW q \in Seq(Frame), NEW k \in Nat, NEW f \in Frame, FrameRun(q, k),
         f.chunk = k + (Len(q) + 1)
  PROVE  FrameRun(Append(q, f), k)
<1> SUFFICES ASSUME NEW i \in 1 .. Len(Append(q, f)) PROVE Append(q, f)[i].chunk = k + i
  BY DEF FrameRun
<1>1. i \in 1 .. Len(q) \/ i = Len(q) + 1
  BY AppendFacts
<1>2. CASE i \in 1 .. Len(q)
  <2>1. Append(q, f)[i] = q[i]
    BY <1>2, AppendFacts
  <2> QED BY <1>2, <2>1 DEF FrameRun
<1>3. CASE i = Len(q) + 1
  <2>1. Append(q, f)[i] = f
    BY <1>3, AppendFacts
  <2> QED BY <1>3, <2>1
<1> QED BY <1>1, <1>2, <1>3

LEMMA FrameRunTail ==
  ASSUME NEW q \in Seq(Frame), NEW k \in Nat, q # <<>>, FrameRun(q, k)
  PROVE  Head(q).chunk = k + 1 /\ FrameRun(Tail(q), k + 1)
BY DEF FrameRun

-----------------------------------------------------------------------------
(* The steps.                                                              *)

\* The part of the type invariant that is about queues and counters.
QueueType ==
  /\ sent \in [Dirs -> Nat]
  /\ inbuf \in [Dirs -> Seq(Chunk)]
  /\ signBuf \in [Dirs -> Seq(Chunk)]
  /\ frames \in [Dirs -> Seq(Frame)]
  /\ verifyBuf \in [Dirs -> Seq(Chunk)]
  /\ outbuf \in [Dirs -> Seq(Chunk)]
  /\ received \in [Dirs -> Seq(Chunk)]
  /\ counted \in [Sides -> [Dirs -> Nat]]

LEMMA TypeQueue ==
  TypeOK => QueueType
BY DEF TypeOK, QueueType, Frame

LEMMA CountType ==
  ASSUME QueueType, NEW d \in Dirs
  PROVE  /\ Delivered(d) \in Nat /\ Outgoing(d) \in Nat /\ Verified(d) \in Nat
         /\ Framed(d) \in Nat /\ Signed(d) \in Nat /\ Incoming(d) \in Nat
         /\ Taken(d) \in Nat /\ Passed(d) \in Nat /\ sent[d] \in Nat
BY SidesOf DEF QueueType, Delivered, Outgoing, Verified, Framed, Signed, Incoming, Taken, Passed

\* A step of a goroutine, or of a peer that sends or reads, ends nothing.
LEMMA FaultFrame ==
  ASSUME UNCHANGED <<dataOpen, outerOpen, peer, cut, tampered>>
  PROVE  /\ Ended' <=> Ended
         /\ DataConnBroken' <=> DataConnBroken
         /\ \A s : OuterConnBroken(s)' <=> OuterConnBroken(s)
         /\ \A d : Outlet(d)' <=> Outlet(d)
BY DEF Ended, DataConnBroken, OuterConnBroken, Outlet

\* As long as nothing has ended, nothing is closed.
LEMMA QuietFacts ==
  ASSUME IInv, ~Ended
  PROVE  /\ ~DataConnBroken
         /\ \A s \in Sides : peer[s] = "open" /\ dataOpen[s] /\ outerOpen[s]
         /\ \A s \in Sides : ~OuterConnBroken(s)
<1>1. \A s \in Sides : dataOpen[s] /\ outerOpen[s]
  BY DEF IInv, QuietInv, CloseInv
<1>2. ~cut /\ \A s \in Sides : peer[s] = "open"
  BY DEF Ended
<1> QED BY <1>1, <1>2 DEF DataConnBroken, OuterConnBroken

\* A step on one direction, from what it does there.
LEMMA DirStep ==
  ASSUME IInv, [Next]_vars, NEW d \in Dirs, TypeOK', DirInv(d)',
         \A e \in Dirs \ {d} : Same(e), CloseInv', QuietInv'
  PROVE  IInv'
<1>1. Monotone
  BY FaultsMonotone DEF IInv
<1>2. \A e \in Dirs \ {d} : DirInv(e)'
  BY <1>1, SameDir DEF IInv
<1> QED BY <1>2 DEF IInv

\* Such a step of a goroutine that has not failed, or with the connection
\* ended.
LEMMA QuietStep ==
  ASSUME IInv, NEW d \in Dirs, \A e \in Dirs \ {d} : Same(e), Ended => Ended',
         UNCHANGED <<main, dataOpen, outerOpen>>,
         \/ Ended
         \/ /\ UNCHANGED errChan
            /\ sign'[d] \in {"read", "write"} /\ verify'[d] \in {"read", "write"}
            /\ \A i \in 1 .. Len(frames'[d]) : frames'[d][i].ok
  PROVE  CloseInv' /\ QuietInv'
<1>1. CloseInv'
  BY DEF IInv, CloseInv
<1>2. CASE Ended
  BY <1>1, <1>2 DEF QuietInv
<1>3. CASE ~Ended
  BY <1>1, <1>3 DEF IInv, QuietInv, Same
<1> QED BY <1>2, <1>3

LEMMA PeerSendsIInv ==
  ASSUME IInv, NEW d \in Dirs, PeerSends(d)
  PROVE  IInv'
<1>0. TypeOK /\ QueueType /\ DirInv(d)
  BY TypeQueue DEF IInv
<1>1. [Next]_vars
  BY DEF Next, Environment
<1>a. sent'[d] = sent[d] + 1
  BY <1>0 DEF PeerSends, TypeOK
<1>2. inbuf'[d] = Append(inbuf[d], sent[d] + 1)
  BY <1>0 DEF PeerSends, TypeOK
<1>3. UNCHANGED <<sign, signBuf, frames, sink, control, faults, counted>>
  BY DEF PeerSends
<1>4. \A e \in Dirs \ {d} : Same(e)
  BY <1>0 DEF PeerSends, TypeOK, Same, sink
<1>5. inbuf'[d] \in Seq(Chunk) /\ Incoming(d)' = Incoming(d) + 1
  BY <1>0, <1>2, AppendFacts DEF QueueType, Incoming
<1>6. TypeOK'
  <2>1. sent' \in [Dirs -> Nat]
    BY <1>0 DEF PeerSends, TypeOK
  <2>2. inbuf' \in [Dirs -> Seq(Chunk)]
    BY <1>0, <1>2, <1>5 DEF PeerSends, TypeOK
  <2> QED BY <1>0, <1>3, <2>1, <2>2 DEF TypeOK, sink, control, faults
<1>7. DirInv(d)'
  <2>1. /\ Delivered(d)' = Delivered(d) /\ Outgoing(d)' = Outgoing(d)
        /\ Verified(d)' = Verified(d) /\ Framed(d)' = Framed(d) /\ Signed(d)' = Signed(d)
        /\ Taken(d)' = Taken(d) /\ Passed(d)' = Passed(d)
    BY <1>3 DEF sink, Delivered, Outgoing, Verified, Framed, Signed, Taken, Passed
  <2>2. /\ Outlet(d)' <=> Outlet(d)
        /\ Flowing(d)' <=> Flowing(d)
        /\ DataConnBroken' <=> DataConnBroken
    BY <1>3, FaultFrame DEF sink, control, faults, Flowing
  <2>3. BufferInv(d)'
    BY <1>0, <1>3, <2>1 DEF DirInv, BufferInv, sink
  <2>4. /\ Run(inbuf[d], Taken(d)) /\ inbuf[d] \in Seq(Chunk) /\ Taken(d) \in Nat
        /\ sent[d] + 1 = Taken(d) + (Len(inbuf[d]) + 1) /\ sent[d] + 1 \in Chunk
    <3>1. Taken(d) + Incoming(d) = sent[d] /\ Run(inbuf[d], Taken(d))
      BY <1>0 DEF DirInv, RunInv, CountInv
    <3>2. inbuf[d] \in Seq(Chunk) /\ Incoming(d) = Len(inbuf[d])
      BY <1>0 DEF QueueType, Incoming
    <3>3. Taken(d) \in Nat /\ Incoming(d) \in Nat
      BY <1>0, CountType
    <3>4. sent[d] + 1 = Taken(d) + (Incoming(d) + 1) /\ sent[d] + 1 \in Chunk
      BY <3>1, <3>3
    <3> QED BY <3>1, <3>2, <3>3, <3>4
  <2>5. Run(inbuf'[d], Taken(d))
    BY <1>2, <2>4, RunAppend
  <2>6. RunInv(d)'
    BY <1>0, <1>3, <2>1, <2>2, <2>5 DEF DirInv, RunInv, sink
  <2>7. CountInv(d)'
    <3>1. /\ Taken(d) \in Nat /\ Incoming(d) \in Nat /\ sent'[d] = sent[d] + 1
          /\ Incoming(d)' = Incoming(d) + 1
      BY <1>0, <1>a, <1>5, CountType
    <3> QED BY <1>0, <2>1, <2>2, <3>1 DEF DirInv, CountInv
  <2> QED BY <2>3, <2>6, <2>7 DEF DirInv
<1>8. CloseInv' /\ QuietInv'
  BY <1>3, <1>4, QuietStep DEF IInv, QuietInv, Ended, sink, control, faults
<1> QED BY <1>1, <1>4, <1>6, <1>7, <1>8, DirStep

LEMMA PeerReadsIInv ==
  ASSUME IInv, NEW d \in Dirs, PeerReads(d)
  PROVE  IInv'
<1>0. TypeOK /\ QueueType /\ DirInv(d)
  BY TypeQueue DEF IInv
<1>1. [Next]_vars
  BY DEF Next
<1>2. /\ outbuf[d] # <<>>
      /\ received'[d] = Append(received[d], Head(outbuf[d]))
      /\ outbuf'[d] = Tail(outbuf[d])
  BY <1>0 DEF PeerReads, TypeOK
<1>3. UNCHANGED <<source, frames, verify, verifyBuf, control, faults, counted>>
  BY DEF PeerReads
<1>4. \A e \in Dirs \ {d} : Same(e)
  BY <1>0 DEF PeerReads, TypeOK, Same, source
<1>5. /\ Head(outbuf[d]) \in Chunk
      /\ outbuf'[d] \in Seq(Chunk) /\ Outgoing(d) > 0 /\ Outgoing(d)' = Outgoing(d) - 1
  BY <1>0, <1>2, HeadTailFacts DEF QueueType, Outgoing
<1>6. received'[d] \in Seq(Chunk) /\ Delivered(d)' = Delivered(d) + 1
  BY <1>0, <1>2, <1>5, AppendFacts DEF QueueType, Delivered
<1>7. TypeOK'
  <2>1. received' \in [Dirs -> Seq(Chunk)] /\ outbuf' \in [Dirs -> Seq(Chunk)]
    BY <1>0, <1>2, <1>5, <1>6 DEF PeerReads, TypeOK
  <2> QED BY <1>0, <1>3, <2>1 DEF TypeOK, source, control, faults
<1>8. DirInv(d)'
  <2>1. /\ Verified(d)' = Verified(d) /\ Framed(d)' = Framed(d) /\ Signed(d)' = Signed(d)
        /\ Incoming(d)' = Incoming(d) /\ Taken(d)' = Taken(d) /\ Passed(d)' = Passed(d)
        /\ Delivered(d)' + Outgoing(d)' = Delivered(d) + Outgoing(d)
    BY <1>0, <1>3, <1>5, <1>6, CountType DEF source, Verified, Framed, Signed, Incoming, Taken, Passed
  <2>2. /\ Outlet(d)' <=> Outlet(d)
        /\ Flowing(d)' <=> Flowing(d)
        /\ DataConnBroken' <=> DataConnBroken
    BY <1>3, FaultFrame DEF control, faults, Flowing
  <2>3. BufferInv(d)'
    BY <1>0, <1>3, <2>1 DEF DirInv, BufferInv, source
  <2>4. Head(outbuf[d]) = Delivered(d) + 1 /\ Run(outbuf'[d], Delivered(d) + 1)
    <3>1. Run(outbuf[d], Delivered(d)) /\ outbuf[d] \in Seq(Chunk) /\ Delivered(d) \in Nat
      BY <1>0, CountType DEF DirInv, RunInv, QueueType
    <3> QED BY <1>2, <3>1, RunTail
  <2>5. Run(received'[d], 0)
    <3>1. /\ Run(received[d], 0) /\ received[d] \in Seq(Chunk)
          /\ Delivered(d) + 1 = 0 + (Len(received[d]) + 1)
      BY <1>0, CountType DEF DirInv, RunInv, QueueType, Delivered
    <3> QED BY <1>2, <1>5, <2>4, <3>1, RunAppend
  <2>6. RunInv(d)'
    BY <1>0, <1>3, <1>6, <2>1, <2>2, <2>4, <2>5 DEF DirInv, RunInv, source
  <2>7. CountInv(d)'
    BY <1>0, <1>3, <2>1, <2>2, CountType DEF DirInv, CountInv, source
  <2> QED BY <2>3, <2>6, <2>7 DEF DirInv
<1>9. CloseInv' /\ QuietInv'
  BY <1>3, <1>4, QuietStep DEF IInv, QuietInv, Ended, source, control, faults
<1> QED BY <1>1, <1>4, <1>7, <1>8, <1>9, DirStep

\* Counting one more chunk of a direction on a side.
LEMMA CountedFacts ==
  ASSUME QueueType, NEW d \in Dirs, NEW s \in Sides,
         counted' = [counted EXCEPT ![s][d] = @ + 1]
  PROVE  /\ counted' \in [Sides -> [Dirs -> Nat]]
         /\ counted'[s][d] = counted[s][d] + 1
         /\ \A u \in Sides, e \in Dirs : u # s \/ e # d => counted'[u][e] = counted[u][e]
BY DEF QueueType

LEMMA SignReadIInv ==
  ASSUME IInv, NEW d \in Dirs, SignRead(d)
  PROVE  IInv'
<1>0. TypeOK /\ QueueType /\ DirInv(d)
  BY TypeQueue DEF IInv
<1>1. [Next]_vars
  BY DEF Next, SignStep
<1>2. inbuf[d] # <<>> /\ signBuf'[d] = <<Head(inbuf[d])>> /\ inbuf'[d] = Tail(inbuf[d])
  BY <1>0 DEF SignRead, TypeOK
<1>3. sign[d] = "read" /\ sign'[d] = "write"
  BY <1>0 DEF SignRead, TypeOK
<1>4. UNCHANGED <<sent, frames, sink, control, faults>>
  BY DEF SignRead
<1>5. /\ counted' \in [Sides -> [Dirs -> Nat]]
      /\ Taken(d)' = Taken(d) + 1 /\ Passed(d)' = Passed(d)
      /\ \A s \in Sides, e \in Dirs \ {d} : counted'[s][e] = counted[s][e]
  <2>1. counted' = [counted EXCEPT ![Signer(d)][d] = @ + 1]
    BY DEF SignRead
  <2>2. Signer(d) \in Sides /\ Verifier(d) \in Sides /\ Signer(d) # Verifier(d)
    BY SidesOf
  <2>3. /\ counted' \in [Sides -> [Dirs -> Nat]]
        /\ counted'[Signer(d)][d] = counted[Signer(d)][d] + 1
        /\ \A u \in Sides, e \in Dirs : u # Signer(d) \/ e # d => counted'[u][e] = counted[u][e]
    BY <1>0, <2>1, <2>2, CountedFacts
  <2> QED BY <2>2, <2>3 DEF Taken, Passed
<1>6. \A e \in Dirs \ {d} : Same(e)
  BY <1>0, <1>4, <1>5 DEF SignRead, TypeOK, Same, sink
<1>7. Head(inbuf[d]) = Taken(d) + 1 /\ Run(inbuf'[d], Taken(d) + 1)
  <2>1. Run(inbuf[d], Taken(d)) /\ inbuf[d] \in Seq(Chunk) /\ Taken(d) \in Nat
    BY <1>0, CountType DEF DirInv, RunInv, QueueType
  <2> QED BY <1>2, <2>1, RunTail
<1>8. /\ inbuf'[d] \in Seq(Chunk) /\ Head(inbuf[d]) \in Chunk
      /\ Incoming(d) > 0 /\ Incoming(d)' = Incoming(d) - 1
  BY <1>0, <1>2, HeadTailFacts DEF QueueType, Incoming
<1>9. signBuf'[d] \in Seq(Chunk) /\ Signed(d)' = 1
  BY <1>2, <1>8, SingleFacts DEF Signed
<1>10. TypeOK'
  <2>1. signBuf' \in [Dirs -> Seq(Chunk)] /\ inbuf' \in [Dirs -> Seq(Chunk)]
    BY <1>0, <1>2, <1>8, <1>9 DEF SignRead, TypeOK
  <2>2. sign' \in [Dirs -> {"read", "write", "failed", "done"}]
    BY <1>0 DEF SignRead, TypeOK
  <2> QED BY <1>0, <1>4, <1>5, <2>1, <2>2 DEF TypeOK, sink, control, faults
<1>11. DirInv(d)'
  <2>1. /\ Delivered(d)' = Delivered(d) /\ Outgoing(d)' = Outgoing(d)
        /\ Verified(d)' = Verified(d) /\ Framed(d)' = Framed(d) /\ sent'[d] = sent[d]
    BY <1>4 DEF sink, Delivered, Outgoing, Verified, Framed
  <2>2. /\ Outlet(d)' <=> Outlet(d)
        /\ Flowing(d)' <=> Flowing(d)
        /\ DataConnBroken' <=> DataConnBroken
    BY <1>4, FaultFrame DEF sink, control, faults, Flowing
  <2>3. BufferInv(d)' /\ Signed(d) = 0
    <3>1. signBuf'[d] = <<Taken(d)'>>
      BY <1>2, <1>5, <1>7
    <3>2. verify' = verify
      BY <1>4 DEF sink
    <3> QED BY <1>0, <1>3, <1>9, <2>1, <3>1, <3>2 DEF DirInv, BufferInv
  <2>4. RunInv(d)'
    BY <1>0, <1>4, <1>5, <1>7, <2>1, <2>2 DEF DirInv, RunInv, sink
  <2>5. CountInv(d)'
    <3>1. /\ Taken(d)' = Taken(d) + 1 /\ Passed(d)' = Passed(d) /\ Signed(d)' = 1
          /\ Incoming(d)' = Incoming(d) - 1
          /\ Taken(d) \in Nat /\ Passed(d) \in Nat /\ Incoming(d) \in Nat /\ Framed(d) \in Nat
      BY <1>0, <1>5, <1>8, <1>9, CountType
    <3> QED BY <1>0, <2>1, <2>2, <2>3, <3>1 DEF DirInv, CountInv
  <2> QED BY <2>3, <2>4, <2>5 DEF DirInv
<1>12. CloseInv' /\ QuietInv'
  BY <1>3, <1>4, <1>6, QuietStep DEF IInv, QuietInv, Ended, sink, control, faults
<1> QED BY <1>1, <1>6, <1>10, <1>11, <1>12, DirStep

LEMMA SignWriteIInv ==
  ASSUME IInv, NEW d \in Dirs, SignWrite(d)
  PROVE  IInv'
<1>0. TypeOK /\ QueueType /\ DirInv(d)
  BY TypeQueue DEF IInv
<1>1. [Next]_vars
  BY DEF Next, SignStep
<1> DEFINE f == [chunk |-> Taken(d), ok |-> TRUE]
<1>2. /\ sign[d] = "write" /\ sign'[d] = "read" /\ signBuf'[d] = <<>>
      /\ signBuf[d] = <<Taken(d)>>
  BY <1>0 DEF SignWrite, TypeOK, DirInv, BufferInv
<1>3. UNCHANGED <<sent, inbuf, sink, control, faults, counted>>
  BY DEF SignWrite
<1>4. \A e \in Dirs \ {d} : Same(e)
  BY <1>0, <1>3 DEF SignWrite, TypeOK, Same, sink
<1>5. \/ DataConnBroken /\ frames'[d] = frames[d]
      \/ ~DataConnBroken /\ frames'[d] = Append(frames[d], f)
  <2>1. signBuf[d][1] = Taken(d)
    BY <1>2
  <2> QED BY <1>0, <2>1 DEF SignWrite, SignFramed, TypeOK
<1>6. f \in Frame /\ f.ok /\ f.chunk = Taken(d)
  <2>1. Signed(d) = 1 /\ Taken(d) \in Nat /\ Passed(d) \in Nat /\ Framed(d) \in Nat
    BY <1>0, <1>2, CountType DEF DirInv, BufferInv
  <2>2. Taken(d) \in Chunk
    BY <1>0, <2>1 DEF DirInv, CountInv
  <2> QED BY <2>2 DEF Frame
<1> HIDE DEF f
<1>7. frames'[d] \in Seq(Frame)
      /\ Framed(d)' = IF DataConnBroken THEN Framed(d) ELSE Framed(d) + 1
  <2>1. frames[d] \in Seq(Frame)
    BY <1>0 DEF QueueType
  <2>2. CASE DataConnBroken
    BY <1>5, <2>1, <2>2 DEF Framed
  <2>3. CASE ~DataConnBroken
    <3>1. frames'[d] = Append(frames[d], f)
      BY <1>5, <2>3
    <3>2. Append(frames[d], f) \in Seq(Frame) /\ Len(Append(frames[d], f)) = Len(frames[d]) + 1
      BY <1>6, <2>1, AppendFacts
    <3>3. frames'[d] \in Seq(Frame) /\ Len(frames'[d]) = Len(frames[d]) + 1
      BY <3>1, <3>2
    <3> QED BY <2>3, <3>3 DEF Framed
  <2> QED BY <2>2, <2>3
<1>8. TypeOK'
  <2>1. signBuf' \in [Dirs -> Seq(Chunk)] /\ sign' \in [Dirs -> {"read", "write", "failed", "done"}]
    BY <1>0, EmptyFacts DEF SignWrite, TypeOK
  <2>2. frames' \in [Dirs -> Seq(Frame)]
    <3>1. frames' = frames \/ frames' = [frames EXCEPT ![d] = frames'[d]]
      BY <1>0 DEF SignWrite, QueueType
    <3> QED BY <1>0, <1>7, <3>1 DEF QueueType
  <2> QED BY <1>0, <1>3, <2>1, <2>2 DEF TypeOK, Frame, sink, control, faults
<1>9. DirInv(d)'
  <2>1. /\ Delivered(d)' = Delivered(d) /\ Outgoing(d)' = Outgoing(d) /\ Verified(d)' = Verified(d)
        /\ Incoming(d)' = Incoming(d) /\ Taken(d)' = Taken(d) /\ Passed(d)' = Passed(d)
        /\ sent'[d] = sent[d] /\ Signed(d)' = 0
    BY <1>2, <1>3, EmptyFacts
       DEF sink, Delivered, Outgoing, Verified, Incoming, Taken, Passed, Signed
  <2>2. /\ Outlet(d)' <=> Outlet(d)
        /\ Flowing(d)' <=> Flowing(d)
        /\ DataConnBroken' <=> DataConnBroken
    BY <1>3, FaultFrame DEF sink, control, faults, Flowing
  <2>3. BufferInv(d)' /\ Signed(d) = 1
    <3>1. verify' = verify
      BY <1>3 DEF sink
    <3> QED BY <1>0, <1>2, <2>1, <3>1 DEF DirInv, BufferInv
  <2>4. CountInv(d)'
    <3>1. Taken(d) \in Nat /\ Passed(d) \in Nat /\ Framed(d) \in Nat
      BY <1>0, CountType
    <3> QED BY <1>0, <1>7, <2>1, <2>2, <2>3, <3>1 DEF DirInv, CountInv
  <2>5. Flowing(d) => FrameRun(frames'[d], Delivered(d) + Outgoing(d) + Verified(d))
    <3>1. CASE DataConnBroken
      BY <1>0, <1>5, <3>1 DEF DirInv, RunInv
    <3>2. CASE ~DataConnBroken /\ Flowing(d)
      <4> DEFINE k == Delivered(d) + Outgoing(d) + Verified(d)
      <4>1. /\ FrameRun(frames[d], k)
            /\ k = Passed(d) /\ Passed(d) + Framed(d) + 1 = Taken(d)
        BY <1>0, <2>3, <3>2 DEF DirInv, RunInv, CountInv
      <4>2. k \in Nat /\ Framed(d) \in Nat /\ frames[d] \in Seq(Frame) /\ Framed(d) = Len(frames[d])
        BY <1>0, <4>1, CountType DEF QueueType, Framed
      <4> HIDE DEF k
      <4>3. Taken(d) = k + (Framed(d) + 1)
        BY <4>1, <4>2
      <4>4. FrameRun(Append(frames[d], f), k)
        BY <1>6, <4>1, <4>2, <4>3, FrameRunAppend
      <4> QED BY <1>5, <3>2, <4>4 DEF k
    <3> QED BY <3>1, <3>2
  <2>6. RunInv(d)'
    BY <1>0, <1>3, <2>1, <2>2, <2>5 DEF DirInv, RunInv, sink
  <2> QED BY <2>3, <2>4, <2>6 DEF DirInv
<1>10. CloseInv' /\ QuietInv'
  <2>1. CASE Ended
    BY <1>3, <1>4, <2>1, QuietStep DEF Ended, control, faults
  <2>2. CASE ~Ended
    <3>1. verify'[d] \in {"read", "write"} /\ \A i \in 1 .. Len(frames[d]) : frames[d][i].ok
      BY <1>3, <2>2 DEF IInv, QuietInv, sink
    <3>2. frames'[d] = Append(frames[d], f)
      BY <1>5, <2>2, QuietFacts
    <3>3. ASSUME NEW i \in 1 .. Len(frames'[d]) PROVE frames'[d][i].ok
      <4>0. frames[d] \in Seq(Frame)
        BY <1>0 DEF QueueType
      <4>1. i \in 1 .. Len(frames[d]) \/ i = Len(frames[d]) + 1
        BY <1>6, <3>2, <4>0, AppendFacts
      <4>2. CASE i \in 1 .. Len(frames[d])
        <5>1. frames'[d][i] = frames[d][i]
          BY <1>6, <3>2, <4>0, <4>2, AppendFacts
        <5> QED BY <3>1, <4>2, <5>1
      <4>3. CASE i = Len(frames[d]) + 1
        <5>1. frames'[d][i] = f
          BY <1>6, <3>2, <4>0, <4>3, AppendFacts
        <5> QED BY <1>6, <5>1
      <4> QED BY <4>1, <4>2, <4>3
    <3> QED BY <1>2, <1>3, <1>4, <3>1, <3>3, QuietStep DEF Ended, control, faults
  <2> QED BY <2>1, <2>2
<1> QED BY <1>1, <1>4, <1>8, <1>9, <1>10, DirStep

\* A step that reads nothing and delivers nothing: a goroutine stops, drops
\* its chunk because its connection is broken, or has its report taken; or a
\* socket loses what is in flight, or a frame is damaged.
Loses(d) ==
  /\ sent'[d] = sent[d] /\ inbuf'[d] = inbuf[d] /\ received'[d] = received[d]
  /\ \A s \in Sides : counted'[s][d] = counted[s][d]
  /\ \/ sign'[d] = sign[d] /\ signBuf'[d] = signBuf[d]
     \/ /\ sign'[d] # "write" /\ signBuf'[d] = <<>>
        /\ sign[d] # "write" \/ DataConnBroken
  /\ \/ frames'[d] = frames[d]
     \/ Framed(d)' = Framed(d) /\ \A k : FrameRun(frames[d], k) => FrameRun(frames'[d], k)
     \/ Framed(d)' \in 0 .. Framed(d) /\ ~Flowing(d)'
     \/ frames'[d] = <<>> /\ DataConnBroken
  /\ \/ verify'[d] = verify[d] /\ verifyBuf'[d] = verifyBuf[d]
     \/ verify'[d] # "write" /\ verifyBuf'[d] = <<>> /\ ~Flowing(d)'
  /\ \/ outbuf'[d] = outbuf[d]
     \/ outbuf'[d] = <<>> /\ ~Outlet(d)

LEMMA LosesDir ==
  ASSUME QueueType, NEW d \in Dirs, DirInv(d), Monotone, Loses(d)
  PROVE  DirInv(d)'
<1>0. Verifier(d) \in Sides /\ Signer(d) \in Sides
  BY SidesOf
<1>1. Outlet(d)' => Outlet(d)
  BY <1>0 DEF Monotone, Outlet
<1>2. Flowing(d)' => Flowing(d) /\ verify'[d] = verify[d] /\ verifyBuf'[d] = verifyBuf[d]
  BY <1>1 DEF Flowing, Loses
<1>3. /\ Delivered(d)' = Delivered(d) /\ Incoming(d)' = Incoming(d)
      /\ Taken(d)' = Taken(d) /\ Passed(d)' = Passed(d) /\ sent'[d] = sent[d]
  BY <1>0 DEF Loses, Delivered, Incoming, Taken, Passed
<1>4. Len(<<>>) = 0
  BY EmptyFacts
<1>5. /\ \/ Signed(d)' = Signed(d)
         \/ Signed(d)' = 0 /\ (Signed(d) = 0 \/ DataConnBroken)
      /\ \/ Verified(d)' = Verified(d)
         \/ Verified(d)' = 0 /\ ~Flowing(d)'
      /\ \/ Outgoing(d)' = Outgoing(d)
         \/ Outgoing(d)' = 0 /\ ~Outlet(d)
      /\ \/ Framed(d)' = Framed(d)
         \/ Framed(d)' \in 0 .. Framed(d) /\ (~Flowing(d)' \/ DataConnBroken)
  <2>1. \/ Signed(d)' = Signed(d)
        \/ Signed(d)' = 0 /\ (Signed(d) = 0 \/ DataConnBroken)
    <3>1. sign[d] # "write" => Signed(d) = 0
      BY DEF DirInv, BufferInv
    <3>2. signBuf'[d] = signBuf[d] => Signed(d)' = Signed(d)
      BY DEF Signed
    <3>3. signBuf'[d] = <<>> => Signed(d)' = 0
      BY <1>4 DEF Signed
    <3> QED BY <3>1, <3>2, <3>3 DEF Loses
  <2>2. Verified(d)' = Verified(d) \/ (Verified(d)' = 0 /\ ~Flowing(d)')
    <3>1. verifyBuf'[d] = verifyBuf[d] => Verified(d)' = Verified(d)
      BY DEF Verified
    <3>2. verifyBuf'[d] = <<>> => Verified(d)' = 0
      BY <1>4 DEF Verified
    <3>3. verifyBuf'[d] = verifyBuf[d] \/ (verifyBuf'[d] = <<>> /\ ~Flowing(d)')
      BY DEF Loses
    <3> QED BY <3>1, <3>2, <3>3
  <2>3. Outgoing(d)' = Outgoing(d) \/ (Outgoing(d)' = 0 /\ ~Outlet(d))
    <3>1. outbuf'[d] = outbuf[d] => Outgoing(d)' = Outgoing(d)
      BY DEF Outgoing
    <3>2. outbuf'[d] = <<>> => Outgoing(d)' = 0
      BY <1>4 DEF Outgoing
    <3>3. outbuf'[d] = outbuf[d] \/ (outbuf'[d] = <<>> /\ ~Outlet(d))
      BY DEF Loses
    <3> QED BY <3>1, <3>2, <3>3
  <2>4. \/ Framed(d)' = Framed(d)
        \/ Framed(d)' \in 0 .. Framed(d) /\ (~Flowing(d)' \/ DataConnBroken)
    <3>0. Framed(d) \in Nat
      BY CountType
    <3>1. frames'[d] = frames[d] => Framed(d)' = Framed(d)
      BY DEF Framed
    <3>2. frames'[d] = <<>> => Framed(d)' = 0
      BY <1>4 DEF Framed
    <3>3. \/ frames'[d] = frames[d] \/ Framed(d)' = Framed(d)
          \/ Framed(d)' \in 0 .. Framed(d) /\ ~Flowing(d)'
          \/ frames'[d] = <<>> /\ DataConnBroken
      BY DEF Loses
    <3>4. 0 \in 0 .. Framed(d)
      BY <3>0
    <3> QED BY <3>1, <3>2, <3>3, <3>4
  <2> QED BY <2>1, <2>2, <2>3, <2>4
<1>6. BufferInv(d)'
  <2>1. /\ signBuf'[d] = IF sign'[d] = "write" THEN <<Taken(d)>> ELSE <<>>
        /\ Signed(d)' = IF sign'[d] = "write" THEN 1 ELSE 0
    <3>1. CASE sign'[d] = sign[d] /\ signBuf'[d] = signBuf[d]
      BY <3>1 DEF DirInv, BufferInv, Signed
    <3>2. CASE sign'[d] # "write" /\ signBuf'[d] = <<>>
      BY <1>4, <3>2 DEF Signed
    <3> QED BY <3>1, <3>2 DEF Loses
  <2>2. Verified(d)' = IF verify'[d] = "write" THEN 1 ELSE 0
    <3>1. CASE verify'[d] = verify[d] /\ verifyBuf'[d] = verifyBuf[d]
      BY <3>1 DEF DirInv, BufferInv, Verified
    <3>2. CASE verify'[d] # "write" /\ verifyBuf'[d] = <<>>
      BY <1>4, <3>2 DEF Verified
    <3> QED BY <3>1, <3>2 DEF Loses
  <2> QED BY <1>3, <2>1, <2>2 DEF BufferInv
<1>7. RunInv(d)'
  <2>1. Run(inbuf'[d], Taken(d)') /\ Run(received'[d], 0)
    BY <1>3 DEF Loses, DirInv, RunInv
  <2>2. Run(outbuf'[d], Delivered(d)')
    BY <1>3, RunEmpty DEF Loses, DirInv, RunInv
  <2>3. Outlet(d)' => Run(verifyBuf'[d], Delivered(d)' + Outgoing(d)')
    BY <1>1, <1>3, <1>5, RunEmpty DEF Loses, DirInv, RunInv, Outgoing
  <2>4. Flowing(d)' => FrameRun(frames'[d], Delivered(d)' + Outgoing(d)' + Verified(d)')
    <3>1. SUFFICES ASSUME Flowing(d)'
                   PROVE FrameRun(frames'[d], Delivered(d) + Outgoing(d) + Verified(d))
      BY <1>1, <1>2, <1>3, <1>5 DEF Flowing
    <3>2. FrameRun(frames[d], Delivered(d) + Outgoing(d) + Verified(d))
      BY <1>2, <3>1 DEF DirInv, RunInv
    <3> QED BY <3>1, <3>2, RunEmpty DEF Loses
  <2> QED BY <2>1, <2>2, <2>3, <2>4 DEF RunInv
<1>8. CountInv(d)'
  <2>1. /\ Delivered(d) \in Nat /\ Outgoing(d) \in Nat /\ Verified(d) \in Nat
        /\ Framed(d) \in Nat /\ Signed(d) \in Nat /\ Incoming(d) \in Nat
        /\ Taken(d) \in Nat /\ Passed(d) \in Nat /\ sent[d] \in Nat
    BY CountType
  <2>2. /\ Delivered(d) + Outgoing(d) + Verified(d) <= Passed(d)
        /\ Passed(d) + Framed(d) + Signed(d) <= Taken(d)
        /\ Taken(d) + Incoming(d) = sent[d]
    BY DEF DirInv, CountInv
  <2>3. /\ Outgoing(d)' \in 0 .. Outgoing(d) /\ Verified(d)' \in 0 .. Verified(d)
        /\ Framed(d)' \in 0 .. Framed(d) /\ Signed(d)' \in 0 .. Signed(d)
    BY <1>5, <2>1
  <2>4. /\ Delivered(d)' + Outgoing(d)' + Verified(d)' <= Passed(d)'
        /\ Passed(d)' + Framed(d)' + Signed(d)' <= Taken(d)'
        /\ Taken(d)' + Incoming(d)' = sent'[d]
    BY <1>3, <2>1, <2>2, <2>3
  <2>5. Flowing(d)' => Delivered(d)' + Outgoing(d)' + Verified(d)' = Passed(d)'
    BY <1>1, <1>2, <1>3, <1>5 DEF DirInv, CountInv, Flowing
  <2>6. Flowing(d)' /\ ~DataConnBroken' => Passed(d)' + Framed(d)' + Signed(d)' = Taken(d)'
    BY <1>1, <1>2, <1>3, <1>5 DEF DirInv, CountInv, Monotone
  <2> QED BY <2>4, <2>5, <2>6 DEF CountInv
<1> QED BY <1>6, <1>7, <1>8 DEF DirInv

\* All of it that is left to show for such a step.
LEMMA LosesIInv ==
  ASSUME IInv, [Next]_vars, NEW d \in Dirs, TypeOK', Loses(d),
         \A e \in Dirs \ {d} : Same(e), UNCHANGED <<main, dataOpen, outerOpen>>,
         \/ Ended
         \/ /\ UNCHANGED errChan
            /\ sign'[d] \in {"read", "write"} /\ verify'[d] \in {"read", "write"}
            /\ \A i \in 1 .. Len(frames'[d]) : frames'[d][i].ok
  PROVE  IInv'
<1>1. Monotone
  BY FaultsMonotone DEF IInv
<1>2. DirInv(d)'
  BY <1>1, LosesDir, TypeQueue DEF IInv
<1>3. CloseInv' /\ QuietInv'
  BY <1>1, QuietStep DEF Monotone
<1> QED BY <1>2, <1>3, DirStep

LEMMA SignReadFailsIInv ==
  ASSUME IInv, NEW d \in Dirs, SignReadFails(d)
  PROVE  IInv'
<1>0. TypeOK /\ DirInv(d) /\ [Next]_vars
  BY DEF IInv, Next, SignStep
<1>1. Ended
  BY SidesOf, QuietFacts DEF SignReadFails
<1>2. TypeOK' /\ sign'[d] = "failed"
  BY <1>0 DEF SignReadFails, TypeOK, sink, control, faults
<1>3. \A e \in Dirs \ {d} : Same(e)
  BY <1>0 DEF SignReadFails, TypeOK, Same, sink
<1>4. Loses(d)
  BY <1>0, <1>2 DEF SignReadFails, Loses, DirInv, BufferInv, sink
<1> QED BY <1>0, <1>1, <1>2, <1>3, <1>4, LosesIInv DEF SignReadFails, control

LEMMA SignWriteFailsIInv ==
  ASSUME IInv, NEW d \in Dirs, SignWriteFails(d)
  PROVE  IInv'
<1>0. TypeOK /\ DirInv(d) /\ [Next]_vars
  BY DEF IInv, Next, SignStep
<1>1. Ended
  BY QuietFacts DEF SignWriteFails
<1>2. TypeOK' /\ sign'[d] = "failed" /\ signBuf'[d] = <<>>
  BY <1>0, EmptyFacts DEF SignWriteFails, TypeOK, sink, control, faults
<1>3. \A e \in Dirs \ {d} : Same(e)
  BY <1>0 DEF SignWriteFails, TypeOK, Same, sink
<1>4. Loses(d)
  BY <1>0, <1>2 DEF SignWriteFails, Loses, sink
<1> QED BY <1>0, <1>1, <1>2, <1>3, <1>4, LosesIInv DEF SignWriteFails, control

LEMMA SignReportsIInv ==
  ASSUME IInv, NEW d \in Dirs, SignReports(d)
  PROVE  IInv'
<1>0. TypeOK /\ DirInv(d) /\ [Next]_vars
  BY DEF IInv, Next, SignStep
<1>1. Ended
  BY DEF IInv, QuietInv, SignReports
<1>2. TypeOK' /\ sign'[d] = "done"
  <2>1. errChan' \in [Sides -> 0 .. 2]
    <3>1. errChan[Signer(d)] + 1 \in 0 .. 2
      <4>1. errChan[Signer(d)] \in 0 .. 2
        BY <1>0, SidesOf DEF TypeOK
      <4>2. errChan[Signer(d)] < 2
        BY DEF SignReports, CanReport
      <4> QED BY <4>1, <4>2
    <3> QED BY <1>0, <3>1 DEF SignReports, TypeOK
  <2> QED BY <1>0, <2>1 DEF SignReports, TypeOK, sink, control, faults
<1>3. \A e \in Dirs \ {d} : Same(e)
  BY <1>0 DEF SignReports, TypeOK, Same, sink
<1>4. Loses(d)
  BY <1>0, <1>2 DEF SignReports, Loses, DirInv, BufferInv, sink
<1> QED BY <1>0, <1>1, <1>2, <1>3, <1>4, LosesIInv DEF SignReports

LEMMA VerifyReadRejectsIInv ==
  ASSUME IInv, NEW d \in Dirs, VerifyReadRejects(d)
  PROVE  IInv'
<1>0. TypeOK /\ QueueType /\ DirInv(d) /\ [Next]_vars
  BY TypeQueue DEF IInv, Next, VerifyStep
<1>1. frames[d] # <<>> /\ frames'[d] = Tail(frames[d]) /\ verify'[d] = "failed"
  BY <1>0 DEF VerifyReadRejects, TypeOK
<1>2. Framed(d) \in Nat /\ frames[d] \in Seq(Frame) /\ frames'[d] \in Seq(Frame)
      /\ Framed(d)' = Framed(d) - 1 /\ Framed(d) > 0
  <2>1. frames[d] \in Seq(Frame) /\ Framed(d) \in Nat
    BY <1>0, CountType DEF QueueType
  <2>2. /\ Tail(frames[d]) \in Seq(Frame) /\ Len(Tail(frames[d])) = Len(frames[d]) - 1
        /\ Len(frames[d]) > 0
    BY <1>1, <2>1, HeadTailFacts
  <2> QED BY <1>1, <2>1, <2>2 DEF Framed
<1>3. Ended
  <2>1. Head(frames[d]) = frames[d][1] /\ 1 \in 1 .. Len(frames[d])
    BY <1>1, <1>2, HeadTailFacts
  <2> QED BY <2>1 DEF VerifyReadRejects, VerifyFramed, IInv, QuietInv
<1>4. TypeOK'
  <2>1. frames' \in [Dirs -> Seq(Frame)]
    BY <1>0, <1>1, <1>2 DEF VerifyReadRejects, QueueType
  <2> QED BY <1>0, <2>1 DEF VerifyReadRejects, TypeOK, Frame, source, control, faults
<1>5. \A e \in Dirs \ {d} : Same(e)
  BY <1>0 DEF VerifyReadRejects, TypeOK, Same, source
<1>6. Loses(d)
  <2>1. Framed(d)' \in 0 .. Framed(d) /\ ~Flowing(d)'
    BY <1>1, <1>2 DEF Flowing
  <2>2. verifyBuf'[d] = <<>>
    <3>1. Verified(d) = 0
      BY <1>0 DEF VerifyReadRejects, DirInv, BufferInv
    <3> QED BY <1>0, <3>1 DEF VerifyReadRejects, QueueType, Verified
  <2> QED BY <1>1, <2>1, <2>2 DEF VerifyReadRejects, Loses, source
<1> QED BY <1>0, <1>3, <1>4, <1>5, <1>6, LosesIInv DEF VerifyReadRejects, control

LEMMA VerifyReadFailsIInv ==
  ASSUME IInv, NEW d \in Dirs, VerifyReadFails(d)
  PROVE  IInv'
<1>0. TypeOK /\ QueueType /\ DirInv(d) /\ [Next]_vars
  BY TypeQueue DEF IInv, Next, VerifyStep
<1>1. Ended
  BY SidesOf, QuietFacts DEF VerifyReadFails, DataConnBroken
<1>2. TypeOK' /\ verify'[d] = "failed"
  BY <1>0 DEF VerifyReadFails, TypeOK, source, control, faults
<1>3. \A e \in Dirs \ {d} : Same(e)
  BY <1>0 DEF VerifyReadFails, TypeOK, Same, source
<1>4. Loses(d)
  <2>1. ~Flowing(d)'
    BY <1>2 DEF Flowing
  <2>2. verifyBuf'[d] = <<>>
    <3>1. Verified(d) = 0
      BY <1>0 DEF VerifyReadFails, DirInv, BufferInv
    <3> QED BY <1>0, <3>1 DEF VerifyReadFails, QueueType, Verified
  <2> QED BY <1>2, <2>1, <2>2 DEF VerifyReadFails, Loses, source
<1> QED BY <1>0, <1>1, <1>2, <1>3, <1>4, LosesIInv DEF VerifyReadFails, control

LEMMA VerifyWriteFailsIInv ==
  ASSUME IInv, NEW d \in Dirs, VerifyWriteFails(d)
  PROVE  IInv'
<1>0. TypeOK /\ DirInv(d) /\ [Next]_vars
  BY DEF IInv, Next, VerifyStep
<1>1. Ended
  BY SidesOf, QuietFacts DEF VerifyWriteFails
<1>2. TypeOK' /\ verify'[d] = "failed" /\ verifyBuf'[d] = <<>>
  BY <1>0, EmptyFacts DEF VerifyWriteFails, TypeOK, source, control, faults
<1>3. \A e \in Dirs \ {d} : Same(e)
  BY <1>0 DEF VerifyWriteFails, TypeOK, Same, source
<1>4. Loses(d)
  <2>1. ~Flowing(d)'
    BY <1>2 DEF Flowing
  <2> QED BY <1>2, <2>1 DEF VerifyWriteFails, Loses, source
<1> QED BY <1>0, <1>1, <1>2, <1>3, <1>4, LosesIInv DEF VerifyWriteFails, control

LEMMA VerifyReportsIInv ==
  ASSUME IInv, NEW d \in Dirs, VerifyReports(d)
  PROVE  IInv'
<1>0. TypeOK /\ QueueType /\ DirInv(d) /\ [Next]_vars
  BY TypeQueue DEF IInv, Next, VerifyStep
<1>1. Ended
  BY DEF IInv, QuietInv, VerifyReports
<1>2. TypeOK' /\ verify'[d] = "done"
  <2>1. errChan' \in [Sides -> 0 .. 2]
    <3>1. errChan[Verifier(d)] + 1 \in 0 .. 2
      <4>1. errChan[Verifier(d)] \in 0 .. 2
        BY <1>0, SidesOf DEF TypeOK
      <4>2. errChan[Verifier(d)] < 2
        BY DEF VerifyReports, CanReport
      <4> QED BY <4>1, <4>2
    <3> QED BY <1>0, <3>1 DEF VerifyReports, TypeOK
  <2> QED BY <1>0, <2>1 DEF VerifyReports, TypeOK, source, control, faults
<1>3. \A e \in Dirs \ {d} : Same(e)
  BY <1>0 DEF VerifyReports, TypeOK, Same, source
<1>4. Loses(d)
  <2>1. ~Flowing(d)'
    BY <1>2 DEF Flowing
  <2>2. verifyBuf'[d] = <<>>
    <3>1. Verified(d) = 0
      BY <1>0 DEF VerifyReports, DirInv, BufferInv
    <3> QED BY <1>0, <3>1 DEF VerifyReports, QueueType, Verified
  <2> QED BY <1>2, <2>1, <2>2 DEF VerifyReports, Loses, source
<1> QED BY <1>0, <1>1, <1>2, <1>3, <1>4, LosesIInv DEF VerifyReports

LEMMA LoseFramesIInv ==
  ASSUME IInv, NEW d \in Dirs, LoseFrames(d)
  PROVE  IInv'
<1>0. TypeOK /\ DirInv(d) /\ [Next]_vars
  BY DEF IInv, Next, Environment
<1>1. Ended
  BY QuietFacts DEF LoseFrames
<1>2. TypeOK' /\ frames'[d] = <<>>
  BY <1>0, EmptyFacts DEF LoseFrames, TypeOK, source, sink, control, faults
<1>3. \A e \in Dirs \ {d} : Same(e)
  BY <1>0 DEF LoseFrames, TypeOK, Same, source, sink
<1>4. Loses(d)
  BY <1>0, <1>2 DEF LoseFrames, Loses, source, sink
<1> QED BY <1>0, <1>1, <1>2, <1>3, <1>4, LosesIInv DEF LoseFrames, control

LEMMA LoseOutputIInv ==
  ASSUME IInv, NEW d \in Dirs, LoseOutput(d)
  PROVE  IInv'
<1>0. TypeOK /\ DirInv(d) /\ [Next]_vars
  BY DEF IInv, Next, Environment
<1>1. Ended
  BY SidesOf, QuietFacts DEF LoseOutput
<1>2. TypeOK' /\ outbuf'[d] = <<>>
  BY <1>0, EmptyFacts DEF LoseOutput, TypeOK, source, control, faults
<1>3. \A e \in Dirs \ {d} : Same(e)
  BY <1>0 DEF LoseOutput, TypeOK, Same, source
<1>4. Loses(d)
  BY <1>0, <1>2 DEF LoseOutput, Loses, Outlet, source
<1> QED BY <1>0, <1>1, <1>2, <1>3, <1>4, LosesIInv DEF LoseOutput, control

\* One frame's `ok' is cleared; the chunks are left.
LEMMA TamperIInv ==
  ASSUME IInv, NEW d \in Dirs, Tamper(d)
  PROVE  IInv'
<1>0. TypeOK /\ QueueType /\ DirInv(d) /\ [Next]_vars
  BY TypeQueue DEF IInv, Next, Environment
<1>1. PICK n \in 1 .. Len(frames[d]) : frames' = [frames EXCEPT ![d][n].ok = FALSE]
  BY DEF Tamper
<1>2. PICK q \in Seq(Frame) : q = frames[d]
  BY <1>0 DEF QueueType
<1>3. PICK f \in Frame : f = q[n]
  BY <1>1, <1>2
<1> DEFINE g == [f EXCEPT !.ok = FALSE]
           r == [q EXCEPT ![n] = g]
<1>4. g \in Frame /\ g.chunk = f.chunk
  BY DEF Frame
<1>5. frames' = [frames EXCEPT ![d] = r]
  BY <1>1, <1>2, <1>3
<1> HIDE DEF g
<1>6. r \in Seq(Frame) /\ Len(r) = Len(q) /\ r[n] = g /\ \A i \in 1 .. Len(q) : i # n => r[i] = q[i]
  BY <1>1, <1>2, <1>4
<1> HIDE DEF r
<1>7. frames' \in [Dirs -> Seq(Frame)] /\ frames'[d] = r
  BY <1>0, <1>5, <1>6 DEF QueueType
<1>8. Framed(d)' = Framed(d)
  BY <1>2, <1>6, <1>7 DEF Framed
<1>9. \A k : FrameRun(frames[d], k) => FrameRun(frames'[d], k)
  <2>1. \A i \in 1 .. Len(q) : r[i].chunk = q[i].chunk
    BY <1>3, <1>4, <1>6
  <2> QED BY <1>2, <1>6, <1>7, <2>1 DEF FrameRun
<1>10. TypeOK'
  BY <1>0, <1>7 DEF Tamper, TypeOK, Frame, source, sink, control
<1>11. \A e \in Dirs \ {d} : Same(e)
  BY <1>0, <1>5 DEF Tamper, QueueType, Same, source, sink
<1>12. Loses(d)
  BY <1>8, <1>9 DEF Tamper, Loses, source, sink
<1>13. Monotone /\ Ended'
  BY <1>0, FaultsMonotone DEF Tamper, Ended
<1>14. DirInv(d)'
  BY <1>0, <1>12, <1>13, LosesDir
<1>15. CloseInv' /\ QuietInv'
  BY <1>13 DEF IInv, CloseInv, QuietInv, Tamper, control
<1> QED BY <1>0, <1>10, <1>11, <1>14, <1>15, DirStep

\* ReadFramed hands on the oldest frame, and counts it.
LEMMA VerifyReadIInv ==
  ASSUME IInv, NEW d \in Dirs, VerifyRead(d)
  PROVE  IInv'
<1>0. TypeOK /\ QueueType /\ DirInv(d)
  BY TypeQueue DEF IInv
<1>1. [Next]_vars
  BY DEF Next, VerifyStep
<1>2. PICK f : f = Head(frames[d])
  OBVIOUS
<1>3. frames[d] # <<>> /\ verifyBuf'[d] = <<f.chunk>> /\ frames'[d] = Tail(frames[d])
  BY <1>0, <1>2 DEF VerifyRead, TypeOK
<1>4. verify[d] = "read" /\ verify'[d] = "write"
  BY <1>0 DEF VerifyRead, TypeOK
<1>5. UNCHANGED <<source, outbuf, received, control, faults>>
  BY DEF VerifyRead
<1>6. /\ counted' \in [Sides -> [Dirs -> Nat]]
      /\ Passed(d)' = Passed(d) + 1 /\ Taken(d)' = Taken(d)
      /\ \A s \in Sides, e \in Dirs \ {d} : counted'[s][e] = counted[s][e]
  <2>1. counted' = [counted EXCEPT ![Verifier(d)][d] = @ + 1]
    BY DEF VerifyRead
  <2>2. Signer(d) \in Sides /\ Verifier(d) \in Sides /\ Signer(d) # Verifier(d)
    BY SidesOf
  <2>3. /\ counted' \in [Sides -> [Dirs -> Nat]]
        /\ counted'[Verifier(d)][d] = counted[Verifier(d)][d] + 1
        /\ \A u \in Sides, e \in Dirs : u # Verifier(d) \/ e # d => counted'[u][e] = counted[u][e]
    BY <1>0, <2>1, <2>2, CountedFacts
  <2> QED BY <2>2, <2>3 DEF Taken, Passed
<1>7. \A e \in Dirs \ {d} : Same(e)
  BY <1>0, <1>5, <1>6 DEF VerifyRead, TypeOK, Same, source
<1>8. /\ f \in Frame /\ frames[d] \in Seq(Frame) /\ frames'[d] \in Seq(Frame)
      /\ Framed(d)' = Framed(d) - 1
  <2>1. frames[d] \in Seq(Frame)
    BY <1>0 DEF QueueType
  <2>2. /\ f \in Frame /\ Tail(frames[d]) \in Seq(Frame)
        /\ Len(Tail(frames[d])) = Len(frames[d]) - 1
    BY <1>2, <1>3, <2>1, HeadTailFacts
  <2> QED BY <1>3, <2>1, <2>2 DEF Framed
<1>9. f.chunk \in Chunk /\ verifyBuf'[d] \in Seq(Chunk) /\ Verified(d)' = 1
  <2>1. f.chunk \in Chunk
    BY <1>8 DEF Frame
  <2> QED BY <1>3, <2>1, SingleFacts DEF Verified
<1>10. TypeOK'
  <2>1. verifyBuf' \in [Dirs -> Seq(Chunk)] /\ frames' \in [Dirs -> Seq(Frame)]
    BY <1>0, <1>3, <1>8, <1>9 DEF VerifyRead, QueueType
  <2>2. verify' \in [Dirs -> {"read", "write", "failed", "done"}]
    BY <1>0 DEF VerifyRead, TypeOK
  <2> QED BY <1>0, <1>5, <1>6, <2>1, <2>2 DEF TypeOK, Frame, source, control, faults
<1>11. DirInv(d)'
  <2>1. /\ Delivered(d)' = Delivered(d) /\ Outgoing(d)' = Outgoing(d)
        /\ Signed(d)' = Signed(d) /\ Incoming(d)' = Incoming(d) /\ sent'[d] = sent[d]
    BY <1>5 DEF source, Delivered, Outgoing, Signed, Incoming
  <2>2. /\ Outlet(d)' <=> Outlet(d)
        /\ Flowing(d)' <=> Outlet(d)
        /\ Flowing(d) <=> Outlet(d)
        /\ DataConnBroken' <=> DataConnBroken
    BY <1>4, <1>5, FaultFrame DEF control, faults, Flowing
  <2>3. BufferInv(d)' /\ Verified(d) = 0
    BY <1>0, <1>4, <1>5, <1>6, <1>9, <2>1 DEF DirInv, BufferInv, source
  <2>4. /\ Delivered(d) \in Nat /\ Outgoing(d) \in Nat /\ Framed(d) \in Nat /\ Signed(d) \in Nat
        /\ Taken(d) \in Nat /\ Passed(d) \in Nat
    BY <1>0, CountType
  <2>5. Outlet(d) => /\ Run(verifyBuf'[d], Delivered(d) + Outgoing(d))
                     /\ FrameRun(frames'[d], Delivered(d) + Outgoing(d) + 1)
    <3> SUFFICES ASSUME Outlet(d)
                 PROVE  /\ Run(verifyBuf'[d], Delivered(d) + Outgoing(d))
                        /\ FrameRun(frames'[d], Delivered(d) + Outgoing(d) + 1)
      OBVIOUS
    <3>1. PICK k \in Nat : k = Delivered(d) + Outgoing(d)
      BY <2>4
    <3>2. FrameRun(frames[d], k)
      BY <1>0, <2>2, <2>3, <2>4, <3>1 DEF DirInv, RunInv
    <3>3. f.chunk = k + 1 /\ FrameRun(Tail(frames[d]), k + 1)
      BY <1>2, <1>3, <1>8, <3>2, FrameRunTail
    <3>4. Run(<<k + 1>>, k)
      BY RunSingle
    <3> QED BY <1>3, <3>1, <3>3, <3>4
  <2>6. RunInv(d)'
    BY <1>0, <1>5, <1>6, <1>9, <2>1, <2>2, <2>5 DEF DirInv, RunInv, source
  <2>7. CountInv(d)'
    BY <1>0, <1>6, <1>8, <1>9, <2>1, <2>2, <2>3, <2>4 DEF DirInv, CountInv
  <2> QED BY <2>3, <2>6, <2>7 DEF DirInv
<1>12. CloseInv' /\ QuietInv'
  <2>1. CASE Ended
    BY <1>5, <1>7, <2>1, QuietStep DEF Ended, control, faults
  <2>2. CASE ~Ended
    <3>1. sign'[d] \in {"read", "write"} /\ \A i \in 1 .. Len(frames[d]) : frames[d][i].ok
      BY <1>5, <2>2 DEF IInv, QuietInv, source
    <3>2. \A i \in 1 .. Len(frames'[d]) : frames'[d][i].ok
      <4>1. /\ Len(Tail(frames[d])) = Len(frames[d]) - 1 /\ Len(frames[d]) \in Nat
            /\ \A i \in 1 .. Len(frames[d]) - 1 : Tail(frames[d])[i] = frames[d][i + 1]
        BY <1>3, <1>8, HeadTailFacts
      <4>2. \A i \in 1 .. Len(frames[d]) - 1 : i + 1 \in 1 .. Len(frames[d])
        BY <4>1
      <4> QED BY <1>3, <3>1, <4>1, <4>2
    <3> QED BY <1>4, <1>5, <1>7, <3>1, <3>2, QuietStep DEF Ended, control, faults
  <2> QED BY <2>1, <2>2
<1> QED BY <1>1, <1>7, <1>10, <1>11, <1>12, DirStep

\* The verified chunk goes to the destination's socket, or to nobody.
LEMMA VerifyWriteIInv ==
  ASSUME IInv, NEW d \in Dirs, VerifyWrite(d)
  PROVE  IInv'
<1>0. TypeOK /\ QueueType /\ DirInv(d)
  BY TypeQueue DEF IInv
<1>1. [Next]_vars
  BY DEF Next, VerifyStep
<1>2. verify[d] = "write" /\ verify'[d] = "read" /\ verifyBuf'[d] = <<>>
  BY <1>0 DEF VerifyWrite, TypeOK
<1>3. UNCHANGED <<source, frames, received, control, faults, counted>>
  BY DEF VerifyWrite
<1>4. \A e \in Dirs \ {d} : Same(e)
  BY <1>0 DEF VerifyWrite, TypeOK, Same, source
<1>5. PICK x \in Chunk : verifyBuf[d] = <<x>>
  <2>1. PICK q \in Seq(Chunk) : q = verifyBuf[d]
    BY <1>0 DEF QueueType
  <2>2. Len(q) = 1
    BY <1>0, <1>2, <2>1 DEF DirInv, BufferInv, Verified
  <2>3. q[1] \in Chunk
    <3>1. 1 \in 1 .. Len(q)
      BY <2>2
    <3> QED BY <3>1, ElementOfSeq
  <2>4. q = <<q[1]>>
    BY <2>2, <2>3, SeqEqual, SingleFacts
  <2> QED BY <2>1, <2>3, <2>4
<1>6. \/ ~Outlet(d) /\ outbuf' = outbuf
      \/ Outlet(d) /\ outbuf' = [outbuf EXCEPT ![d] = Append(outbuf[d], x)]
  <2>1. outbuf[d] \o verifyBuf[d] = Append(outbuf[d], x)
    <3>1. PICK q \in Seq(Chunk) : q = outbuf[d]
      BY <1>0 DEF QueueType
    <3>2. q \o <<x>> = Append(q, x)
      OBVIOUS
    <3> QED BY <1>5, <3>1, <3>2
  <2> QED BY <2>1 DEF VerifyWrite, Outlet, OuterConnBroken
<1>7. /\ outbuf'[d] \in Seq(Chunk)
      /\ Outgoing(d)' = IF Outlet(d) THEN Outgoing(d) + 1 ELSE Outgoing(d)
      /\ Outlet(d) => outbuf'[d] = Append(outbuf[d], x)
      /\ ~Outlet(d) => outbuf'[d] = outbuf[d]
  <2>1. outbuf[d] \in Seq(Chunk)
    BY <1>0 DEF QueueType
  <2>2. Append(outbuf[d], x) \in Seq(Chunk) /\ Len(Append(outbuf[d], x)) = Len(outbuf[d]) + 1
    BY <2>1, AppendFacts
  <2>3. /\ Outlet(d) => outbuf'[d] = Append(outbuf[d], x)
        /\ ~Outlet(d) => outbuf'[d] = outbuf[d]
    BY <1>0, <1>6 DEF QueueType
  <2> QED BY <2>1, <2>2, <2>3 DEF Outgoing
<1>8. TypeOK'
  <2>1. outbuf' \in [Dirs -> Seq(Chunk)]
    <3>1. outbuf' = outbuf \/ outbuf' = [outbuf EXCEPT ![d] = outbuf'[d]]
      BY <1>0, <1>6 DEF QueueType
    <3> QED BY <1>0, <1>7, <3>1 DEF QueueType
  <2>2. /\ verifyBuf' \in [Dirs -> Seq(Chunk)]
        /\ verify' \in [Dirs -> {"read", "write", "failed", "done"}]
    BY <1>0, EmptyFacts DEF VerifyWrite, TypeOK
  <2> QED BY <1>0, <1>3, <2>1, <2>2 DEF TypeOK, source, control, faults
<1>9. DirInv(d)'
  <2>1. /\ Delivered(d)' = Delivered(d) /\ Framed(d)' = Framed(d) /\ Signed(d)' = Signed(d)
        /\ Incoming(d)' = Incoming(d) /\ Taken(d)' = Taken(d) /\ Passed(d)' = Passed(d)
        /\ sent'[d] = sent[d] /\ Verified(d)' = 0
    BY <1>2, <1>3, EmptyFacts
       DEF source, Delivered, Framed, Signed, Incoming, Taken, Passed, Verified
  <2>2. /\ Outlet(d)' <=> Outlet(d)
        /\ Flowing(d)' <=> Outlet(d)
        /\ Flowing(d) <=> Outlet(d)
        /\ DataConnBroken' <=> DataConnBroken
    BY <1>2, <1>3, FaultFrame DEF control, faults, Flowing
  <2>3. BufferInv(d)' /\ Verified(d) = 1
    BY <1>0, <1>2, <1>3, <2>1 DEF DirInv, BufferInv, source
  <2>4. Delivered(d) \in Nat /\ Outgoing(d) \in Nat
    BY <1>0, CountType
  <2>5. Run(outbuf'[d], Delivered(d))
    <3>1. CASE Outlet(d)
      <4>1. /\ Run(<<x>>, Delivered(d) + Outgoing(d)) /\ Run(outbuf[d], Delivered(d))
            /\ outbuf[d] \in Seq(Chunk) /\ Outgoing(d) = Len(outbuf[d])
        BY <1>0, <1>5, <3>1 DEF DirInv, RunInv, QueueType, Outgoing
      <4>2. x = Delivered(d) + Outgoing(d) + 1
        BY <2>4, <4>1 DEF Run
      <4>3. x = Delivered(d) + (Outgoing(d) + 1)
        BY <2>4, <4>2
      <4>4. Run(Append(outbuf[d], x), Delivered(d))
        BY <2>4, <4>1, <4>3, RunAppend
      <4> QED BY <1>7, <3>1, <4>4
    <3>2. CASE ~Outlet(d)
      BY <1>0, <1>7, <3>2 DEF DirInv, RunInv
    <3> QED BY <3>1, <3>2
  <2>6. RunInv(d)'
    BY <1>0, <1>2, <1>3, <1>7, <2>1, <2>2, <2>3, <2>4, <2>5, RunEmpty DEF DirInv, RunInv, source
  <2>7. CountInv(d)'
    <3>1. Passed(d) \in Nat
      BY <1>0, CountType
    <3> QED BY <1>0, <1>7, <2>1, <2>2, <2>3, <2>4, <3>1 DEF DirInv, CountInv
  <2> QED BY <2>3, <2>6, <2>7 DEF DirInv
<1>10. CloseInv' /\ QuietInv'
  BY <1>2, <1>3, <1>4, QuietStep DEF IInv, QuietInv, Ended, source, control, faults
<1> QED BY <1>1, <1>4, <1>8, <1>9, <1>10, DirStep

-----------------------------------------------------------------------------
(* The steps that leave every chunk where it is.                           *)

queues == <<source, frames, sink, counted>>

LEMMA SameStep ==
  ASSUME IInv, [Next]_vars, UNCHANGED queues, TypeOK', CloseInv', QuietInv'
  PROVE  IInv'
<1>1. Monotone
  BY FaultsMonotone DEF IInv
<1>2. \A d \in Dirs : Same(d)
  BY DEF queues, source, sink, Same
<1>3. \A d \in Dirs : DirInv(d)'
  BY <1>1, <1>2, SameDir DEF IInv
<1> QED BY <1>3 DEF IInv

LEMMA MainStepIInv ==
  ASSUME IInv, NEW s \in Sides, MainStep(s)
  PROVE  IInv'
<1>0. TypeOK /\ [Next]_vars
  BY DEF IInv, Next
<1>1. Ended /\ Ended'
  BY DEF MainStep, FirstError, CloseData, CloseOuter, IInv, QuietInv, Ended, faults
<1>2. TypeOK'
  <2>1. CASE FirstError(s)
    <3>1. errChan[s] - 1 \in 0 .. 2
      BY <1>0, <2>1 DEF FirstError, TypeOK
    <3> QED BY <1>0, <2>1, <3>1 DEF FirstError, TypeOK, source, sink, faults
  <2>2. CASE CloseData(s)
    BY <1>0, <2>2 DEF CloseData, TypeOK, source, sink, faults
  <2>3. CASE CloseOuter(s)
    BY <1>0, <2>3 DEF CloseOuter, TypeOK, source, sink, faults
  <2> QED BY <2>1, <2>2, <2>3 DEF MainStep
<1>3. CloseInv'
  BY <1>0 DEF MainStep, FirstError, CloseData, CloseOuter, IInv, CloseInv, TypeOK
<1>4. UNCHANGED queues
  BY DEF MainStep, FirstError, CloseData, CloseOuter, queues
<1> QED BY <1>0, <1>1, <1>2, <1>3, <1>4, SameStep DEF QuietInv

LEMMA OutsideIInv ==
  ASSUME IInv, Cut \/ (\E s \in Sides : PeerEnds(s))
  PROVE  IInv'
<1>0. TypeOK /\ [Next]_vars
  BY DEF IInv, Next, Environment
<1>1. Ended'
  <2>1. CASE Cut
    BY <2>1 DEF Cut, Ended
  <2>2. ASSUME NEW s \in Sides, PeerEnds(s) PROVE Ended'
    <3>1. peer'[s] # "open"
      BY <1>0, <2>2 DEF PeerEnds, TypeOK
    <3> QED BY <3>1 DEF Ended
  <2> QED BY <2>1, <2>2
<1>2. TypeOK'
  <2>1. CASE Cut
    BY <1>0, <2>1 DEF Cut, TypeOK, source, sink, control
  <2>2. ASSUME NEW s \in Sides, PeerEnds(s) PROVE TypeOK'
    <3>1. PICK p \in {"half", "gone"} : peer' = [peer EXCEPT ![s] = p]
      BY <2>2 DEF PeerEnds
    <3>2. peer' \in [Sides -> {"open", "half", "gone"}]
      BY <1>0, <3>1 DEF TypeOK
    <3> QED BY <1>0, <2>2, <3>2 DEF PeerEnds, TypeOK, source, sink, control
  <2> QED BY <2>1, <2>2
<1>3. UNCHANGED queues /\ UNCHANGED control
  BY DEF Cut, PeerEnds, queues
<1> QED BY <1>0, <1>1, <1>2, <1>3, SameStep DEF QuietInv, IInv, CloseInv, control

LEMMA InitIInv ==
  Init => IInv
<1> SUFFICES ASSUME Init PROVE IInv
  OBVIOUS
<1>1. TypeOK
  <2>1. /\ <<>> \in Seq(Chunk) /\ <<>> \in Seq([chunk : Chunk, ok : BOOLEAN])
        /\ 0 \in Nat /\ 0 \in 0 .. 2
    BY EmptyFacts
  <2>2. counted \in [Sides -> [Dirs -> Nat]]
    BY DEF Init
  <2> QED BY <2>1, <2>2 DEF Init, TypeOK
<1>2. ASSUME NEW d \in Dirs PROVE DirInv(d)
  <2>1. /\ Delivered(d) = 0 /\ Outgoing(d) = 0 /\ Verified(d) = 0
        /\ Framed(d) = 0 /\ Signed(d) = 0 /\ Incoming(d) = 0
    BY EmptyFacts DEF Init, Delivered, Outgoing, Verified, Framed, Signed, Incoming
  <2>2. Taken(d) = 0 /\ Passed(d) = 0
    BY SidesOf DEF Init, Taken, Passed
  <2>3. BufferInv(d)
    BY <2>1 DEF Init, BufferInv
  <2>4. RunInv(d)
    BY RunEmpty DEF Init, RunInv
  <2>5. CountInv(d)
    BY <2>1, <2>2 DEF Init, CountInv
  <2> QED BY <2>3, <2>4, <2>5 DEF DirInv
<1>3. CloseInv /\ QuietInv
  BY EmptyFacts DEF Init, CloseInv, QuietInv
<1> QED BY <1>1, <1>2, <1>3 DEF IInv

LEMMA NextIInv ==
  ASSUME IInv, [Next]_vars
  PROVE  IInv'
<1>1. CASE UNCHANGED vars
  BY <1>1, SameStep DEF vars, queues, IInv, TypeOK, CloseInv, QuietInv, Ended,
     source, sink, control, faults
<1>2. CASE Next
  BY <1>2, PeerSendsIInv, PeerReadsIInv, SignReadIInv, SignReadFailsIInv, SignWriteIInv,
     SignWriteFailsIInv, SignReportsIInv, VerifyReadIInv, VerifyReadRejectsIInv,
     VerifyReadFailsIInv, VerifyWriteIInv, VerifyWriteFailsIInv, VerifyReportsIInv,
     LoseFramesIInv, LoseOutputIInv, TamperIInv, MainStepIInv, OutsideIInv
     DEF Next, SignStep, VerifyStep, Environment
<1> QED BY <1>1, <1>2

-----------------------------------------------------------------------------
(* The theorems.                                                           *)

\* Whatever the peers and the network do, every variable keeps its type; in
\* particular errChan never holds more than the two errors it has room for.
THEOREM TypeCorrect == Spec => []TypeOK
<1>1. Init => IInv
  BY InitIInv
<1>2. IInv /\ [Next]_vars => IInv'
  BY NextIInv
<1>3. IInv => TypeOK
  BY DEF IInv
<1> QED BY <1>1, <1>2, <1>3, PTL DEF Spec

\* Two runs, one after the other.
LEMMA RunConcat ==
  ASSUME NEW p \in Seq(Chunk), NEW q \in Seq(Chunk), NEW k \in Nat, NEW m \in Nat,
         m = k + Len(p), Run(p, k), Run(q, m)
  PROVE  p \o q \in Seq(Chunk) /\ Len(p \o q) = Len(p) + Len(q) /\ Run(p \o q, k)
<1>1. p \o q \in Seq(Chunk) /\ Len(p \o q) = Len(p) + Len(q)
  BY ConcatProperties
<1>2. ASSUME NEW i \in 1 .. Len(p \o q) PROVE (p \o q)[i] = k + i
  <2>0. Len(p) \in Nat /\ Len(q) \in Nat /\ i \in 1 .. Len(p) + Len(q)
    BY <1>1, LenProperties
  <2>1. (p \o q)[i] = IF i <= Len(p) THEN p[i] ELSE q[i - Len(p)]
    BY <2>0, ConcatProperties
  <2>2. CASE i <= Len(p)
    <3>1. i \in 1 .. Len(p)
      BY <2>0, <2>2
    <3> QED BY <2>1, <2>2, <3>1 DEF Run
  <2>3. CASE ~(i <= Len(p))
    <3>0. i - Len(p) \in 1 .. Len(q)
      BY <2>0, <2>3
    <3>1. PICK j \in 1 .. Len(q) : j = i - Len(p)
      BY <3>0
    <3>2. q[j] = m + j
      BY DEF Run
    <3>3. m + j = k + i
      BY <2>0, <3>1
    <3> QED BY <2>1, <2>3, <3>1, <3>2, <3>3
  <2> QED BY <2>2, <2>3
<1> QED BY <1>1, <1>2 DEF Run

LEMMA ChunksRun ==
  ASSUME NEW q \in Seq(Frame), NEW k \in Nat, FrameRun(q, k)
  PROVE  Chunks(q) \in Seq(Chunk) /\ Len(Chunks(q)) = Len(q) /\ Run(Chunks(q), k)
<1>1. Len(q) \in Nat
  BY LenProperties
<1>2. \A i \in 1 .. Len(q) : q[i] \in Frame
  BY ElementOfSeq
<1>3. \A i \in 1 .. Len(q) : q[i].chunk \in Chunk
  BY <1>2 DEF Frame
<1>4. Chunks(q) \in Seq(Chunk) /\ Len(Chunks(q)) = Len(q)
  BY <1>1, <1>3 DEF Chunks
<1>5. \A i \in 1 .. Len(q) : Chunks(q)[i] = q[i].chunk
  BY DEF Chunks
<1> QED BY <1>4, <1>5 DEF Run, FrameRun

\* What stands in the pipeline of a direction that nothing has ended.
LEMMA PipelineRun ==
  ASSUME IInv, NEW d \in Dirs, ~Ended
  PROVE  /\ Len(Onward(d)) = Passed(d)
         /\ Pipeline(d) \in Seq(Chunk)
         /\ Len(Pipeline(d)) = sent[d]
         /\ Run(Pipeline(d), 0)
<1>0. QueueType /\ DirInv(d)
  BY TypeQueue DEF IInv
<1>1. Outlet(d) /\ Flowing(d) /\ ~DataConnBroken
  BY SidesOf, QuietFacts DEF Outlet, Flowing, IInv, QuietInv
<1>2. /\ received[d] \in Seq(Chunk) /\ outbuf[d] \in Seq(Chunk) /\ verifyBuf[d] \in Seq(Chunk)
      /\ frames[d] \in Seq(Frame) /\ signBuf[d] \in Seq(Chunk) /\ inbuf[d] \in Seq(Chunk)
  BY <1>0 DEF QueueType
<1>3. /\ Delivered(d) \in Nat /\ Outgoing(d) \in Nat /\ Verified(d) \in Nat
      /\ Framed(d) \in Nat /\ Signed(d) \in Nat /\ Incoming(d) \in Nat
      /\ Taken(d) \in Nat /\ Passed(d) \in Nat /\ sent[d] \in Nat
  BY <1>0, CountType
<1>4. /\ Delivered(d) + Outgoing(d) + Verified(d) = Passed(d)
      /\ Passed(d) + Framed(d) + Signed(d) = Taken(d)
      /\ Taken(d) + Incoming(d) = sent[d]
  BY <1>0, <1>1 DEF DirInv, CountInv
<1>5. /\ Run(received[d], 0) /\ Run(outbuf[d], Delivered(d))
      /\ Run(verifyBuf[d], Delivered(d) + Outgoing(d))
      /\ FrameRun(frames[d], Passed(d)) /\ Run(inbuf[d], Taken(d))
  BY <1>0, <1>1, <1>4 DEF DirInv, RunInv
<1>6. Run(signBuf[d], Passed(d) + Framed(d))
  <2>1. CASE sign[d] = "write"
    <3>1. signBuf[d] = <<Taken(d)>> /\ Signed(d) = 1
      BY <1>0, <2>1 DEF DirInv, BufferInv
    <3>2. PICK k \in Nat : k = Passed(d) + Framed(d)
      BY <1>3
    <3>3. Taken(d) = k + 1
      BY <1>3, <1>4, <3>1, <3>2
    <3> QED BY <3>1, <3>2, <3>3, RunSingle
  <2>2. CASE sign[d] # "write"
    BY <1>0, <2>2, RunEmpty DEF DirInv, BufferInv
  <2> QED BY <2>1, <2>2
<1> DEFINE a == received[d] \o outbuf[d]
           b == a \o verifyBuf[d]
           c == b \o Chunks(frames[d])
           e == c \o signBuf[d]
<1>7. a \in Seq(Chunk) /\ Len(a) = Delivered(d) + Outgoing(d) /\ Run(a, 0)
  <2>1. Delivered(d) = 0 + Len(received[d]) /\ Outgoing(d) = Len(outbuf[d])
    BY <1>3 DEF Delivered, Outgoing
  <2> QED BY <1>2, <1>3, <1>5, <2>1, RunConcat
<1> HIDE DEF a
<1>8. b \in Seq(Chunk) /\ Len(b) = Passed(d) /\ Run(b, 0)
  <2>1. PICK m \in Nat : m = Delivered(d) + Outgoing(d)
    BY <1>3
  <2>2. m = 0 + Len(a) /\ Verified(d) = Len(verifyBuf[d])
    BY <1>3, <1>7, <2>1 DEF Verified
  <2>3. b \in Seq(Chunk) /\ Len(b) = Len(a) + Len(verifyBuf[d]) /\ Run(b, 0)
    BY <1>2, <1>5, <1>7, <2>1, <2>2, RunConcat
  <2> QED BY <1>4, <1>7, <2>2, <2>3
<1> HIDE DEF b
<1>9. c \in Seq(Chunk) /\ Len(c) = Passed(d) + Framed(d) /\ Run(c, 0)
  <2>1. /\ Chunks(frames[d]) \in Seq(Chunk) /\ Len(Chunks(frames[d])) = Len(frames[d])
        /\ Run(Chunks(frames[d]), Passed(d))
    BY <1>2, <1>3, <1>5, ChunksRun
  <2>2. Passed(d) = 0 + Len(b) /\ Framed(d) = Len(frames[d])
    BY <1>3, <1>8 DEF Framed
  <2> QED BY <1>3, <1>8, <2>1, <2>2, RunConcat
<1> HIDE DEF c
<1>10. e \in Seq(Chunk) /\ Len(e) = Taken(d) /\ Run(e, 0)
  <2>1. PICK m \in Nat : m = Passed(d) + Framed(d)
    BY <1>3
  <2>2. m = 0 + Len(c) /\ Signed(d) = Len(signBuf[d])
    BY <1>3, <1>9, <2>1 DEF Signed
  <2>3. e \in Seq(Chunk) /\ Len(e) = Len(c) + Len(signBuf[d]) /\ Run(e, 0)
    BY <1>2, <1>6, <1>9, <2>1, <2>2, RunConcat
  <2> QED BY <1>4, <1>9, <2>2, <2>3
<1> HIDE DEF e
<1>11. /\ e \o inbuf[d] \in Seq(Chunk) /\ Len(e \o inbuf[d]) = Len(e) + Len(inbuf[d])
       /\ Run(e \o inbuf[d], 0)
  <2>1. Taken(d) = 0 + Len(e)
    BY <1>3, <1>10
  <2> QED BY <1>2, <1>3, <1>5, <1>10, <2>1, RunConcat
<1>12. Incoming(d) = Len(inbuf[d])
  BY DEF Incoming
<1>13. Pipeline(d) = e \o inbuf[d] /\ Onward(d) = b
  BY DEF Pipeline, Onward, a, b, c, e
<1> QED BY <1>4, <1>8, <1>10, <1>11, <1>12, <1>13

LEMMA RunFromZero ==
  ASSUME NEW q \in Seq(Chunk), NEW n \in Nat, Len(q) = n, Run(q, 0)
  PROVE  q = [i \in 1 .. n |-> i]
<1>1. \A i \in 1 .. n : q[i] = i
  BY DEF Run
<1>2. q \in [1 .. n -> Chunk]
  BY LenProperties
<1> QED BY <1>1, <1>2

\* NothingLost: as long as nothing outside has ended the connection, what a
\* peer has sent is, in order and without a gap, delivered or on its way, and
\* neither forwardWithAuth has seen an error.
THEOREM NothingIsLost == Spec => []NothingLost
<1>1. Init => IInv
  BY InitIInv
<1>2. IInv /\ [Next]_vars => IInv'
  BY NextIInv
<1>3. IInv => NothingLost
  <2>1. ASSUME IInv, ~Ended, NEW d \in Dirs PROVE Pipeline(d) = [i \in 1 .. sent[d] |-> i]
    <3>1. sent[d] \in Nat
      BY <2>1 DEF IInv, TypeOK
    <3> QED BY <2>1, <3>1, PipelineRun, RunFromZero
  <2> QED BY <2>1 DEF NothingLost, IInv, QuietInv
<1> QED BY <1>1, <1>2, <1>3, PTL DEF Spec

\* CountedOnce: however the goroutines interleave and at whatever point the
\* connection is torn down, BytesIn and BytesOut of the two sides agree with
\* what is between them, and nothing is delivered that was not counted.
THEOREM EveryChunkCountedOnce == Spec => []CountedOnce
<1>1. Init => IInv
  BY InitIInv
<1>2. IInv /\ [Next]_vars => IInv'
  BY NextIInv
<1>3. IInv => CountedOnce
  <2> SUFFICES ASSUME IInv, NEW d \in Dirs
               PROVE  /\ Delivered(d) <= Passed(d)
                      /\ Passed(d) + Framed(d) + Signed(d) <= Taken(d)
                      /\ Taken(d) + Incoming(d) <= sent[d]
                      /\ ~Ended => /\ Passed(d) = Len(Onward(d))
                                   /\ Taken(d) + Incoming(d) = sent[d]
    BY DEF CountedOnce, Delivered, Passed, Framed, Signed, Taken, Incoming
  <2>1. /\ Delivered(d) \in Nat /\ Outgoing(d) \in Nat /\ Verified(d) \in Nat
        /\ Passed(d) \in Nat /\ sent[d] \in Nat
    BY TypeQueue, CountType DEF IInv
  <2>2. CountInv(d)
    BY DEF IInv, DirInv
  <2>3. ~Ended => Passed(d) = Len(Onward(d))
    BY PipelineRun
  <2> QED BY <2>1, <2>2, <2>3 DEF CountInv
<1> QED BY <1>1, <1>2, <1>3, PTL DEF Spec

-----------------------------------------------------------------------------
(* The two programs implement the pair of streams: the safety part of      *)
(* ImplementsStreams.                                                      *)

\* Nothing is released before something has ended the connection, nor by the
\* step that ends it; and what is released stays so.
LEMMA ReleaseFacts ==
  ASSUME IInv, [Next]_vars
  PROVE  /\ Ended => Ended'
         /\ Released => Ended
         /\ Released => Released'
         /\ ~Ended => ~Released'
<1>0. TypeOK /\ Monotone /\ "server" \in Sides
  BY FaultsMonotone DEF IInv, Sides
<1>1. Ended => Ended'
  BY <1>0 DEF Monotone
<1>2. Released => Ended
  BY <1>0 DEF Released, IInv, QuietInv
<1>3. ASSUME ~Ended PROVE ~Released'
  <2>1. \A s \in Sides : main[s] = "wait" /\ errChan[s] = 0
    BY <1>3 DEF IInv, QuietInv
  <2>2. \A s \in Sides : ~MainStep(s)
    BY <2>1 DEF MainStep, FirstError, CloseData, CloseOuter
  <2>3. UNCHANGED main
    BY <2>2 DEF Next, Environment, SignStep, SignRead, SignReadFails, SignWrite, SignWriteFails,
       SignReports, VerifyStep, VerifyRead, VerifyReadRejects, VerifyReadFails, VerifyWrite,
       VerifyWriteFails, VerifyReports, PeerSends, PeerReads, PeerEnds, Cut, Tamper, LoseFrames,
       LoseOutput, vars, control
  <2> QED BY <1>0, <2>1, <2>3 DEF Released
<1>4. ASSUME Released PROVE Released'
  <2>1. \A d \in Dirs : ~SignStep(d) /\ ~VerifyStep(d)
    BY <1>4 DEF Released, SignStep, SignRead, SignReadFails, SignWrite, SignWriteFails, SignReports,
       VerifyStep, VerifyRead, VerifyReadRejects, VerifyReadFails, VerifyWrite, VerifyWriteFails,
       VerifyReports
  <2>2. \A s \in Sides : ~MainStep(s)
    BY <1>4 DEF Released, MainStep, FirstError, CloseData, CloseOuter
  <2>3. UNCHANGED <<sign, verify, control>>
    BY <2>1, <2>2 DEF Next, Environment, PeerSends, PeerReads, PeerEnds, Cut, Tamper, LoseFrames,
       LoseOutput, vars, source, sink
  <2> QED BY <1>4, <2>3 DEF Released, control
<1> QED BY <1>1, <1>2, <1>3, <1>4

\* So the link goes from "open" to "ending" to "released", one at a time.
LEMMA LinkStep ==
  ASSUME IInv, [Next]_vars
  PROVE  \/ link' = link
         \/ link = "open" /\ link' = "ending"
         \/ link = "ending" /\ link' = "released"
BY ReleaseFacts DEF link

LEMMA SendStep ==
  ASSUME IInv, NEW d \in Dirs, PeerSends(d)
  PROVE  Streams!Send(d)
<1>0. TypeOK /\ Signer(d) \in Sides
  BY SidesOf DEF IInv
<1>1. ~Released /\ ~Released'
  BY <1>0 DEF PeerSends, Released, control
<1>2. Ended' <=> Ended
  BY FaultFrame DEF PeerSends, control, faults
<1>3. link' = link /\ link # "released"
  BY <1>1, <1>2 DEF link
<1> QED BY <1>3 DEF PeerSends, Streams!Send, sink

LEMMA DeliverStep ==
  ASSUME IInv, NEW d \in Dirs, PeerReads(d)
  PROVE  Streams!Deliver(d)
<1>0. QueueType /\ DirInv(d)
  BY TypeQueue DEF IInv
<1>1. outbuf[d] # <<>> /\ outbuf[d] \in Seq(Chunk)
  BY <1>0 DEF PeerReads, QueueType
<1>2. Head(outbuf[d]) = Len(received[d]) + 1
  <2>1. Run(outbuf[d], Delivered(d)) /\ Delivered(d) \in Nat
    BY <1>0, CountType DEF DirInv, RunInv
  <2>2. Head(outbuf[d]) = Delivered(d) + 1
    BY <1>1, <2>1, RunTail
  <2> QED BY <2>2 DEF Delivered
<1>3. Len(received[d]) < sent[d]
  <2>1. Outgoing(d) > 0
    BY <1>1, HeadTailFacts DEF Outgoing
  <2>2. /\ Delivered(d) \in Nat /\ Outgoing(d) \in Nat /\ Verified(d) \in Nat
        /\ Framed(d) \in Nat /\ Signed(d) \in Nat /\ Incoming(d) \in Nat
        /\ Taken(d) \in Nat /\ Passed(d) \in Nat /\ sent[d] \in Nat
    BY <1>0, CountType
  <2>3. Delivered(d) < sent[d]
    BY <1>0, <2>1, <2>2 DEF DirInv, CountInv
  <2> QED BY <2>3 DEF Delivered
<1>4. link' = link
  <2>1. Ended' <=> Ended
    BY FaultFrame DEF PeerReads, control, faults
  <2>2. Released' <=> Released
    BY DEF PeerReads, Released, source, control
  <2> QED BY <2>1, <2>2 DEF link
<1>5. received' = [received EXCEPT ![d] = Append(@, Len(@) + 1)]
  BY <1>2 DEF PeerReads
<1> QED BY <1>3, <1>4, <1>5 DEF PeerReads, Streams!Deliver, source

\* The other steps neither send nor deliver.
LEMMA InternalStep ==
  ASSUME IInv, [Next]_vars, UNCHANGED <<sent, received>>
  PROVE  [Streams!Next]_(Streams!vars)
BY LinkStep DEF Streams!Next, Streams!vars, Streams!End, Streams!Released

LEMMA StreamsStep ==
  ASSUME IInv, [Next]_vars
  PROVE  [Streams!Next]_(Streams!vars)
<1>1. ASSUME NEW d \in Dirs, PeerSends(d) PROVE Streams!Next
  BY <1>1, SendStep DEF Streams!Next
<1>2. ASSUME NEW d \in Dirs, PeerReads(d) PROVE Streams!Next
  BY <1>2, DeliverStep DEF Streams!Next
<1>3. \/ \E d \in Dirs : PeerSends(d) \/ PeerReads(d)
      \/ UNCHANGED <<sent, received>>
  BY DEF Next, Environment, SignStep, SignRead, SignReadFails, SignWrite, SignWriteFails,
     SignReports, VerifyStep, VerifyRead, VerifyReadRejects, VerifyReadFails, VerifyWrite,
     VerifyWriteFails, VerifyReports, MainStep, FirstError, CloseData, CloseOuter,
     PeerEnds, Cut, Tamper, LoseFrames, LoseOutput, vars, source, sink
<1> QED BY <1>1, <1>2, <1>3, InternalStep

\* Safety of ImplementsStreams: whatever the goroutines, the peers and the
\* network do, the user and the service only ever receive the next chunk of
\* what the other has sent, and no connection is released before something
\* outside has ended it.
THEOREM ForwardingIsAPairOfStreams == Spec => Streams!Safety
<1>1. Init => IInv
  BY InitIInv
<1>2. IInv /\ [Next]_vars => IInv'
  BY NextIInv
<1>3. Init => Streams!Init
  <2>1. ASSUME Init PROVE link = "open"
    BY <2>1 DEF Init, link, Ended, Released, Sides
  <2> QED BY <2>1 DEF Init, Streams!Init
<1>4. IInv /\ [Next]_vars => [Streams!Next]_(Streams!vars)
  BY StreamsStep
<1> QED BY <1>1, <1>2, <1>3, <1>4, PTL DEF Spec, Streams!Safety
=============================================================================
