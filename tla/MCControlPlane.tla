-------------------------- MODULE MCControlPlane ---------------------------
(* Instances of ControlPlane for TLC.                                      *)
EXTENDS ControlPlane, TLC

\* cfg.Clients of the instances: nobody, or the client "alice".
NoConfig == [n \in Names |-> NoToken]
CONSTANT Alice, AliceToken
AliceConfigured == [n \in Names |-> IF n = Alice THEN AliceToken ELSE NoToken]

Symmetry == Permutations(Conns) \cup Permutations(ApiCalls) \cup Permutations(ProxyNames)

\* max_tunnels of every managed client in the quota instance.
MaxTunnels == 1

\* "upper bound on the number of tunnels, 0 = unlimited" (README 283): no
\* managed client has more tunnels than its max_tunnels.
TunnelLimit ==
  \A n \in Names : Cardinality({p \in Registered : proxies[p].clientName = n}) <= MaxTunnels
=============================================================================
