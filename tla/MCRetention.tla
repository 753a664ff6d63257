---------------------------- MODULE MCRetention ------------------------------
EXTENDS Retention

\* The environment left at its defaults, one that sets every number, one that
\* development may have, and two that the job refuses.
MCSettings ==
  LET default == [parses |-> TRUE, devLike |-> FALSE, systemDatabase |-> TRUE,
                  limit |-> 0, retentionDays |-> 0, ttlDays |-> 0]
  IN  {default,
       [default EXCEPT !.limit = 2, !.retentionDays = 1, !.ttlDays = 1],
       [default EXCEPT !.devLike = TRUE, !.systemDatabase = FALSE],
       [default EXCEPT !.systemDatabase = FALSE],
       [default EXCEPT !.parses = FALSE]}
=============================================================================
