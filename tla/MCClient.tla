------------------------------- MODULE MCClient -------------------------------
(* Instances of Client for TLC. *)
EXTENDS Client, TLC

CONSTANTS s1, s2

TwoServices == {s1, s2}

Asks(s, reg, bal) == [service |-> s, registry |-> reg, direct |-> FALSE, balancer |-> bal,
                      experimental |-> bal \in Experimental]

\* Clients of two services with balancers that share a name, a classic one, one
\* whose address names no scheme, a direct one, and four that are refused.
SomeConfigs ==
  {Asks(s1, "zookeeper", "WRandomExperimental"), Asks(s2, "zookeeper", "RandomExperimental"),
   Asks(s1, "zookeeper", "WRoundRobin"), Asks(s1, "plain", "RoundRobinExperimental"),
   Asks(s2, "none", "WRoundRobinExperimental"),
   [Asks(s2, "plain", "WRandom") EXCEPT !.experimental = TRUE],
   [Asks(NoService, "none", "RoundRobinExperimental") EXCEPT !.direct = TRUE],
   [Asks(NoService, "none", "Random") EXCEPT !.direct = TRUE],
   Asks(NoService, "none", "RandomExperimental")}
=============================================================================
