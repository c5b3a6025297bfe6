---------------------------- MODULE MCOpenAPI ----------------------------
(* Instances of OpenAPI for TLC.                                          *)
EXTENDS OpenAPI, TLC

CONSTANTS alice, bob, ca, cb, t1

MCOwner == [c \in Clients |-> IF c = ca THEN alice ELSE bob]

\* Every name belongs to one client.
OneClient == {ca} \X Names

\* A new database, or one with a tunnel.
EmptyOrOne == {{}, {<<ca, t1>>}}

\* Two clients use the same name.
SharedName == {ca, cb} \X Names

BothClients == {SharedName}

\* Every operation; the ones on a tunnel that exists go to one of them.
OneTarget == {op \in Ops : op.op \in {"path", "closeOnly"} => op.name = t1}

\* The tunnels that are only created are alike.
SpareTunnels == Permutations(Names \ {t1})

\* Disabling, enabling, deleting and editing only.
PathOnly == {op \in Ops : op.op \in {"create", "path"}}
==========================================================================
