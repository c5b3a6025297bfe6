----------------------------- MODULE TcpForward -----------------------------
(***************************************************************************)
(* One forwarded TCP connection, after the rendezvous: forwardWithAuth of  *)
(* the server (src/cmd/server/main.go) and of the client                   *)
(* (src/cmd/client/main.go), two goroutines each, over one data connection *)
(* whose frames are signed and verified by src/pkg/auth/auth.go.           *)
(*                                                                         *)
(*   user -> server: sign -> data connection -> client: verify -> service  *)
(*   user <- server: verify <- data connection <- client: sign <- service  *)
(*                                                                         *)
(* A chunk is what one Read of a source returns; the i-th chunk is i.  A   *)
(* frame carries one chunk; the frame of a chunk is whole, and `ok' says   *)
(* whether VerifyFramed accepts it (signature, and a clock that differs by *)
(* at most 300 s).  A socket buffers Cap chunks per direction and then     *)
(* blocks its writer.  What is still in flight when an end is closed       *)
(* arrives or is lost, as TCP decides.  Abstracted: TLS, log lines, sizes. *)
(***************************************************************************)
EXTENDS Naturals, Sequences, FiniteSets

CONSTANTS
  MaxChunks,   \* direction -> chunks its source sends (bound)
  Cap,         \* chunks a socket buffers in one direction
  MaxEnds      \* bound on the outside events that end the connection

Dirs  == {"up", "down"}           \* user to service, service to user
Sides == {"server", "client"}

ASSUME ChunksAssumption == MaxChunks \in [Dirs -> Nat]
ASSUME CapAssumption == Cap \in Nat \ {0} /\ MaxEnds \in Nat

\* The side that signs, and the side that verifies, a direction.
Signer(d)   == IF d = "up" THEN "server" ELSE "client"
Verifier(d) == IF d = "up" THEN "client" ELSE "server"

VARIABLES
  sent,        \* direction -> chunks the source has sent
  inbuf,       \* direction -> chunks in the socket of the source
  sign,        \* direction -> where the signing goroutine is
  signBuf,     \* direction -> the chunk it has read and not yet written
  frames,      \* direction -> frames in the data connection
  verify,      \* direction -> where the verifying goroutine is
  verifyBuf,   \* direction -> the chunk it has verified and not yet written
  outbuf,      \* direction -> chunks in the socket of the destination
  received,    \* direction -> chunks the destination has read
  errChan,     \* side -> errors in the channel of its forwardWithAuth
  main,        \* side -> where forwardWithAuth (with its defers) is
  dataOpen,    \* side -> its end of the data connection is open
  outerOpen,   \* side -> its connection to user or service is open
  peer,        \* side -> the user or service: "open", "half" closed, "gone"
  cut,         \* the network has broken the data connection
  tampered,    \* a frame was damaged, or the clocks differ too much
  counted      \* side -> direction -> chunks in its BytesIn and BytesOut

source  == <<sent, inbuf, sign, signBuf>>
sink    == <<verify, verifyBuf, outbuf, received>>
control == <<errChan, main, dataOpen, outerOpen>>
faults  == <<peer, cut, tampered>>
vars    == <<source, frames, sink, control, faults, counted>>

Init ==
  /\ sent = [d \in Dirs |-> 0]
  /\ inbuf = [d \in Dirs |-> <<>>]
  /\ sign = [d \in Dirs |-> "read"]
  /\ signBuf = [d \in Dirs |-> <<>>]
  /\ frames = [d \in Dirs |-> <<>>]
  /\ verify = [d \in Dirs |-> "read"]
  /\ verifyBuf = [d \in Dirs |-> <<>>]
  /\ outbuf = [d \in Dirs |-> <<>>]
  /\ received = [d \in Dirs |-> <<>>]
  /\ errChan = [s \in Sides |-> 0]
  /\ main = [s \in Sides |-> "wait"]
  /\ dataOpen = [s \in Sides |-> TRUE]
  /\ outerOpen = [s \in Sides |-> TRUE]
  /\ peer = [s \in Sides |-> "open"]
  /\ cut = FALSE
  /\ tampered = FALSE
  /\ counted = [s \in Sides |-> [d \in Dirs |-> 0]]

-----------------------------------------------------------------------------
(* The user and the local service.                                         *)

Ends == Cardinality({s \in Sides : peer[s] # "open"} \cup {e \in {"cut"} : cut}
                    \cup {e \in {"tampered"} : tampered})

PeerSends(d) ==
  /\ peer[Signer(d)] = "open"
  /\ outerOpen[Signer(d)]
  /\ sent[d] < MaxChunks[d]
  /\ Len(inbuf[d]) < Cap
  /\ sent' = [sent EXCEPT ![d] = @ + 1]
  /\ inbuf' = [inbuf EXCEPT ![d] = Append(@, sent[d] + 1)]
  /\ UNCHANGED <<sign, signBuf, frames, sink, control, faults, counted>>

PeerReads(d) ==
  /\ peer[Verifier(d)] # "gone"
  /\ outbuf[d] # <<>>
  /\ received' = [received EXCEPT ![d] = Append(@, Head(outbuf[d]))]
  /\ outbuf' = [outbuf EXCEPT ![d] = Tail(@)]
  /\ UNCHANGED <<source, frames, verify, verifyBuf, control, faults, counted>>

\* It has sent all it wanted and still reads, or it goes away.
PeerEnds(s) ==
  /\ \/ /\ peer[s] = "open"
        /\ Ends < MaxEnds
        /\ peer' \in {[peer EXCEPT ![s] = p] : p \in {"half", "gone"}}
     \/ peer[s] = "half" /\ peer' = [peer EXCEPT ![s] = "gone"]
  /\ UNCHANGED <<source, frames, sink, control, cut, tampered, counted>>

-----------------------------------------------------------------------------
(* The network.                                                            *)

Cut ==
  /\ ~cut
  /\ Ends < MaxEnds
  /\ cut' = TRUE
  /\ UNCHANGED <<source, frames, sink, control, peer, tampered, counted>>

Tamper(d) ==
  /\ ~tampered
  /\ Ends < MaxEnds
  /\ \E i \in 1 .. Len(frames[d]) : frames' = [frames EXCEPT ![d][i].ok = FALSE]
  /\ tampered' = TRUE
  /\ UNCHANGED <<source, sink, control, peer, cut, counted>>

\* What was in flight on a connection is lost once an end of it is closed.
DataConnBroken == cut \/ \E s \in Sides : ~dataOpen[s]

LoseFrames(d) ==
  /\ DataConnBroken
  /\ frames[d] # <<>>
  /\ frames' = [frames EXCEPT ![d] = <<>>]
  /\ UNCHANGED <<source, sink, control, faults, counted>>

OuterConnBroken(s) == ~outerOpen[s] \/ peer[s] = "gone"

LoseOutput(d) ==
  /\ OuterConnBroken(Verifier(d))
  /\ outbuf[d] # <<>>
  /\ outbuf' = [outbuf EXCEPT ![d] = <<>>]
  /\ UNCHANGED <<source, frames, verify, verifyBuf, received, control, faults, counted>>

-----------------------------------------------------------------------------
(* The signing goroutine of a direction.                                   *)

\* Mutant of SignRead: the outgoing bytes are not counted.
SignReadUncounted(d) ==
  /\ sign[d] = "read"
  /\ outerOpen[Signer(d)]
  /\ inbuf[d] # <<>>
  /\ signBuf' = [signBuf EXCEPT ![d] = <<Head(inbuf[d])>>]
  /\ inbuf' = [inbuf EXCEPT ![d] = Tail(@)]
  /\ sign' = [sign EXCEPT ![d] = "write"]
  /\ UNCHANGED <<sent, frames, sink, control, faults, counted>>

\* n > 0: the chunk is counted and signed, before it is written.
SignRead(d) ==
  /\ sign[d] = "read"
  /\ outerOpen[Signer(d)]
  /\ inbuf[d] # <<>>
  /\ signBuf' = [signBuf EXCEPT ![d] = <<Head(inbuf[d])>>]
  /\ inbuf' = [inbuf EXCEPT ![d] = Tail(@)]
  /\ counted' = [counted EXCEPT ![Signer(d)][d] = @ + 1]
  /\ sign' = [sign EXCEPT ![d] = "write"]
  /\ UNCHANGED <<sent, frames, sink, control, faults>>

\* EOF once everything is read; a reset, or the close by its own side, at
\* any time.
SignReadFails(d) ==
  /\ sign[d] = "read"
  /\ \/ OuterConnBroken(Signer(d))
     \/ peer[Signer(d)] = "half" /\ inbuf[d] = <<>>
  /\ sign' = [sign EXCEPT ![d] = "failed"]
  /\ UNCHANGED <<sent, inbuf, signBuf, frames, sink, control, faults, counted>>

\* The frame of a chunk, behind those already in the data connection.
SignFramed(d, queue) == Append(queue, [chunk |-> signBuf[d][1], ok |-> TRUE])

\* Blocks while the buffer is full.  On a connection that the network or the
\* other side has ended the first writes may still succeed, into nothing.
SignWrite(d) ==
  /\ sign[d] = "write"
  /\ dataOpen[Signer(d)]
  /\ Len(frames[d]) < Cap
  /\ frames' = IF DataConnBroken THEN frames ELSE [frames EXCEPT ![d] = SignFramed(d, @)]
  /\ signBuf' = [signBuf EXCEPT ![d] = <<>>]
  /\ sign' = [sign EXCEPT ![d] = "read"]
  /\ UNCHANGED <<sent, inbuf, sink, control, faults, counted>>

SignWriteFails(d) ==
  /\ sign[d] = "write"
  /\ DataConnBroken
  /\ signBuf' = [signBuf EXCEPT ![d] = <<>>]
  /\ sign' = [sign EXCEPT ![d] = "failed"]
  /\ UNCHANGED <<sent, inbuf, frames, sink, control, faults, counted>>

-----------------------------------------------------------------------------
(* The verifying goroutine of a direction.                                 *)

VerifyFramed(frame) == frame.ok

\* ReadFramed returns the chunk of a frame that verifies.
VerifyRead(d) ==
  /\ verify[d] = "read"
  /\ dataOpen[Verifier(d)]
  /\ frames[d] # <<>>
  /\ VerifyFramed(Head(frames[d]))
  /\ verifyBuf' = [verifyBuf EXCEPT ![d] = <<Head(frames[d]).chunk>>]
  /\ frames' = [frames EXCEPT ![d] = Tail(@)]
  /\ counted' = [counted EXCEPT ![Verifier(d)][d] = @ + 1]
  /\ verify' = [verify EXCEPT ![d] = "write"]
  /\ UNCHANGED <<source, outbuf, received, control, faults>>

\* A frame that does not verify ends the direction: nothing after it is
\* delivered.
VerifyReadRejects(d) ==
  /\ verify[d] = "read"
  /\ dataOpen[Verifier(d)]
  /\ frames[d] # <<>>
  /\ ~VerifyFramed(Head(frames[d]))
  /\ frames' = [frames EXCEPT ![d] = Tail(@)]
  /\ verify' = [verify EXCEPT ![d] = "failed"]
  /\ UNCHANGED <<source, verifyBuf, outbuf, received, control, faults, counted>>

\* EOF after the last frame, a reset, or the close by its own side.
VerifyReadFails(d) ==
  /\ verify[d] = "read"
  /\ \/ cut \/ ~dataOpen[Verifier(d)]
     \/ ~dataOpen[Signer(d)] /\ frames[d] = <<>>
  /\ verify' = [verify EXCEPT ![d] = "failed"]
  /\ UNCHANGED <<source, frames, verifyBuf, outbuf, received, control, faults, counted>>

\* Mutant of VerifyWrite: a short write is taken for a whole one.
VerifyWriteShort(d) ==
  /\ verify[d] = "write"
  /\ outerOpen[Verifier(d)]
  /\ outbuf' = IF Len(outbuf[d]) < Cap /\ peer[Verifier(d)] # "gone"
               THEN [outbuf EXCEPT ![d] = @ \o verifyBuf[d]] ELSE outbuf
  /\ verifyBuf' = [verifyBuf EXCEPT ![d] = <<>>]
  /\ verify' = [verify EXCEPT ![d] = "read"]
  /\ UNCHANGED <<source, frames, received, control, faults, counted>>

\* Likewise: what is written to a peer that is gone is lost.
VerifyWrite(d) ==
  /\ verify[d] = "write"
  /\ outerOpen[Verifier(d)]
  /\ Len(outbuf[d]) < Cap
  /\ outbuf' = IF peer[Verifier(d)] = "gone" THEN outbuf
               ELSE [outbuf EXCEPT ![d] = @ \o verifyBuf[d]]
  /\ verifyBuf' = [verifyBuf EXCEPT ![d] = <<>>]
  /\ verify' = [verify EXCEPT ![d] = "read"]
  /\ UNCHANGED <<source, frames, received, control, faults, counted>>

VerifyWriteFails(d) ==
  /\ verify[d] = "write"
  /\ OuterConnBroken(Verifier(d))
  /\ verifyBuf' = [verifyBuf EXCEPT ![d] = <<>>]
  /\ verify' = [verify EXCEPT ![d] = "failed"]
  /\ UNCHANGED <<source, frames, outbuf, received, control, faults, counted>>

-----------------------------------------------------------------------------
(* The end of forwardWithAuth.                                             *)

\* Mutant of CanReport: the channel is made without a buffer.
CanReportUnbuffered(s) == main[s] = "wait" /\ errChan[s] = 0

\* errChan has room for the errors of both goroutines.
CanReport(s) == errChan[s] < 2

SignReports(d) ==
  /\ sign[d] = "failed"
  /\ CanReport(Signer(d))
  /\ errChan' = [errChan EXCEPT ![Signer(d)] = @ + 1]
  /\ sign' = [sign EXCEPT ![d] = "done"]
  /\ UNCHANGED <<sent, inbuf, signBuf, frames, sink, main, dataOpen, outerOpen, faults, counted>>

VerifyReports(d) ==
  /\ verify[d] = "failed"
  /\ CanReport(Verifier(d))
  /\ errChan' = [errChan EXCEPT ![Verifier(d)] = @ + 1]
  /\ verify' = [verify EXCEPT ![d] = "done"]
  /\ UNCHANGED <<source, frames, verifyBuf, outbuf, received, main, dataOpen, outerOpen,
                 faults, counted>>

\* <-errChan: the first error of either goroutine.
FirstError(s) ==
  /\ main[s] = "wait"
  /\ errChan[s] > 0
  /\ errChan' = [errChan EXCEPT ![s] = @ - 1]
  /\ main' = [main EXCEPT ![s] = "closeData"]
  /\ UNCHANGED <<source, frames, sink, dataOpen, outerOpen, faults, counted>>

\* The deferred closes, last registered first: the data connection ...
CloseData(s) ==
  /\ main[s] = "closeData"
  /\ dataOpen' = [dataOpen EXCEPT ![s] = FALSE]
  /\ main' = [main EXCEPT ![s] = "closeOuter"]
  /\ UNCHANGED <<source, frames, sink, errChan, outerOpen, faults, counted>>

\* ... and then the connection to the user or the service.
CloseOuter(s) ==
  /\ main[s] = "closeOuter"
  /\ outerOpen' = [outerOpen EXCEPT ![s] = FALSE]
  /\ main' = [main EXCEPT ![s] = "returned"]
  /\ UNCHANGED <<source, frames, sink, errChan, dataOpen, faults, counted>>

-----------------------------------------------------------------------------
SignStep(d) ==
  \/ SignRead(d) \/ SignReadFails(d) \/ SignWrite(d) \/ SignWriteFails(d) \/ SignReports(d)

VerifyStep(d) ==
  \/ VerifyRead(d) \/ VerifyReadRejects(d) \/ VerifyReadFails(d)
  \/ VerifyWrite(d) \/ VerifyWriteFails(d) \/ VerifyReports(d)

MainStep(s) == FirstError(s) \/ CloseData(s) \/ CloseOuter(s)

Environment ==
  \/ \E d \in Dirs : PeerSends(d) \/ Tamper(d) \/ LoseFrames(d) \/ LoseOutput(d)
  \/ \E s \in Sides : PeerEnds(s)
  \/ Cut

Next ==
  \/ \E d \in Dirs : SignStep(d) \/ VerifyStep(d) \/ PeerReads(d)
  \/ \E s \in Sides : MainStep(s)
  \/ Environment

Spec == Init /\ [][Next]_vars

\* Goroutines are scheduled, and user and service read what reaches them (no
\* Read or Write of forwardWithAuth has a deadline: a peer that neither reads
\* nor closes holds its connection for ever).
Fairness ==
  /\ \A d \in Dirs : WF_vars(SignStep(d)) /\ WF_vars(VerifyStep(d)) /\ WF_vars(PeerReads(d))
  /\ \A s \in Sides : WF_vars(MainStep(s))

FairSpec == Spec /\ Fairness

-----------------------------------------------------------------------------
(* Properties.                                                             *)

Chunk == Nat \ {0}

\* The type of every variable.
TypeOK ==
  /\ sent \in [Dirs -> Nat]
  /\ inbuf \in [Dirs -> Seq(Chunk)]
  /\ sign \in [Dirs -> {"read", "write", "failed", "done"}]
  /\ signBuf \in [Dirs -> Seq(Chunk)]
  /\ frames \in [Dirs -> Seq([chunk : Chunk, ok : BOOLEAN])]
  /\ verify \in [Dirs -> {"read", "write", "failed", "done"}]
  /\ verifyBuf \in [Dirs -> Seq(Chunk)]
  /\ outbuf \in [Dirs -> Seq(Chunk)]
  /\ received \in [Dirs -> Seq(Chunk)]
  /\ errChan \in [Sides -> 0 .. 2]
  /\ main \in [Sides -> {"wait", "closeData", "closeOuter", "returned"}]
  /\ dataOpen \in [Sides -> BOOLEAN]
  /\ outerOpen \in [Sides -> BOOLEAN]
  /\ peer \in [Sides -> {"open", "half", "gone"}]
  /\ cut \in BOOLEAN
  /\ tampered \in BOOLEAN
  /\ counted \in [Sides -> [Dirs -> Nat]]

\* Something outside the program has ended, or damaged, the connection.
Ended == cut \/ tampered \/ \E s \in Sides : peer[s] # "open"

\* Every goroutine has returned and every connection is closed.
Released ==
  /\ \A d \in Dirs : sign[d] = "done" /\ verify[d] = "done"
  /\ \A s \in Sides : main[s] = "returned" /\ ~dataOpen[s] /\ ~outerOpen[s]

Chunks(queue) == [i \in 1 .. Len(queue) |-> queue[i].chunk]

\* The chunks between the server's counter of a direction and its sink.
Onward(d) == received[d] \o outbuf[d] \o verifyBuf[d]
Pipeline(d) == Onward(d) \o Chunks(frames[d]) \o signBuf[d] \o inbuf[d]

\* Until something ends it the two programs never drop, duplicate, reorder
\* or give up on a chunk, however their goroutines interleave and whichever
\* buffer is full: what was sent is, in order, delivered or on its way.
NothingLost ==
  ~Ended => /\ \A d \in Dirs : Pipeline(d) = [i \in 1 .. sent[d] |-> i]
            /\ \A s \in Sides : main[s] = "wait" /\ errChan[s] = 0

\* The traffic counters: a chunk is counted once on each side; the signing
\* side counts ahead of the verifying side by what is between them, also
\* while the connection is being torn down; and no chunk is delivered that
\* the server has not charged.
CountedOnce ==
  \A d \in Dirs :
    /\ Len(received[d]) <= counted[Verifier(d)][d]
    /\ counted[Verifier(d)][d] + Len(frames[d]) + Len(signBuf[d]) <= counted[Signer(d)][d]
    /\ counted[Signer(d)][d] + Len(inbuf[d]) <= sent[d]
    /\ ~Ended => /\ counted[Verifier(d)][d] = Len(Onward(d))
                 /\ counted[Signer(d)][d] + Len(inbuf[d]) = sent[d]

\* The two programs implement a pair of streams: whatever happens the user
\* and the service receive a prefix of what the other has sent; everything
\* is delivered as long as nothing ends the connection; and after a close, a
\* half-close, a broken data connection or a damaged frame all four
\* goroutines return and all four ends are closed.
link == IF Released THEN "released" ELSE IF Ended THEN "ending" ELSE "open"

Streams == INSTANCE StreamPair WITH link <- link

ImplementsStreams == Streams!Spec
=============================================================================
