---------------------------- MODULE MCDeployment -----------------------------
EXTENDS Deployment

CONSTANTS p1, p2, e1

MCPods == {p1, p2}

MCEvents == {e1}

Production ==
  [parses |-> TRUE, database |-> TRUE, snsTopic |-> TRUE, cascadeQueue |-> TRUE,
   pgBouncer |-> TRUE, migrationDatabase |-> TRUE, systemDatabase |-> TRUE,
   appEnv |-> "production", environment |-> "production", docsEnabled |-> FALSE,
   docsToken |-> FALSE, baseURLs |-> TRUE, registry |-> TRUE]

\* One environment per check that refuses one.
MCConfigs == {Production} \cup
  {[Production EXCEPT !.migrationDatabase = FALSE], [Production EXCEPT !.baseURLs = FALSE],
   [Production EXCEPT !.systemDatabase = FALSE]}

\* One build or two, and every pair of environments.  Pods, and builds, are alike:
\* the other assignments only rename them.
MCDeployments ==
  {d \in [MCPods -> [ver : {1, 2}, cfg : MCConfigs]] :
     /\ d[p1].ver = 1
     /\ d[p1].cfg = Production \/ d[p2].cfg # Production}
=============================================================================
