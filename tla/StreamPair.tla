----------------------------- MODULE StreamPair -----------------------------
(***************************************************************************)
(* What a forwarded TCP connection promises its two ends: two independent  *)
(* streams, each delivered in order and without a gap; complete delivery   *)
(* for as long as nothing has ended the connection; and, once something    *)
(* has, the release of everything that served it.                          *)
(* forwardWithAuth of server and client (TcpForward) implement it.         *)
(*                                                                         *)
(* The i-th chunk of a stream is the number i.                             *)
(***************************************************************************)
EXTENDS Naturals, Sequences

CONSTANTS
  Dirs,       \* the directions
  MaxChunks   \* direction -> chunks its source may send

VARIABLES
  sent,       \* direction -> number of chunks sent
  received,   \* direction -> chunks delivered
  link        \* "open", "ending", "released"

vars == <<sent, received, link>>

Init ==
  /\ sent = [d \in Dirs |-> 0]
  /\ received = [d \in Dirs |-> <<>>]
  /\ link = "open"

Send(d) ==
  /\ link # "released"
  /\ sent[d] < MaxChunks[d]
  /\ sent' = [sent EXCEPT ![d] = @ + 1]
  /\ UNCHANGED <<received, link>>

\* The next chunk, and no other; also from buffers that outlive the link.
Deliver(d) ==
  /\ Len(received[d]) < sent[d]
  /\ received' = [received EXCEPT ![d] = Append(@, Len(@) + 1)]
  /\ UNCHANGED <<sent, link>>

End ==
  /\ link = "open"
  /\ link' = "ending"
  /\ UNCHANGED <<sent, received>>

Released ==
  /\ link = "ending"
  /\ link' = "released"
  /\ UNCHANGED <<sent, received>>

Next == (\E d \in Dirs : Send(d) \/ Deliver(d)) \/ End \/ Released

Safety == Init /\ [][Next]_vars

\* Delivery is promised only while the link is open.
Fairness ==
  /\ \A d \in Dirs : WF_vars(link = "open" /\ Deliver(d))
  /\ WF_vars(Released)

Spec == Safety /\ Fairness
=============================================================================
