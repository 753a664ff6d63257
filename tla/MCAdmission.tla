---------------------------- MODULE MCAdmission ----------------------------
(* Instances of Admission for TLC. *)
EXTENDS Admission, TLC

Body(start, end, scope) ==
  [self |-> FALSE, longReason |-> FALSE, scope |-> scope, scopeId |-> scope # "all",
   start |-> start, end |-> end]

\* With a day of two ticks, a policy of 1..3 days, a tick of skew and three ticks
\* of future: open and fixed, now, skewed, scheduled, at and past each limit.
MCInputs ==
  { Body(Omitted, Omitted, "all"), Body(Omitted, 4, "department"), Body(-1, 6, "all"),
    Body(3, Omitted, "tender"), Body(1, 7, "all"), Body(Omitted, 7, "all"),
    Body(-2, 1, "all"), Body(4, 5, "all"), Body(1, 1, "all"),
    [Body(Omitted, Omitted, "all") EXCEPT !.self = TRUE],
    [Body(Omitted, Omitted, "all") EXCEPT !.scopeId = TRUE],
    [Body(Omitted, Omitted, "department") EXCEPT !.scopeId = FALSE],
    [Body(Omitted, Omitted, "all") EXCEPT !.longReason = TRUE] }

MCPolicyInputs == { [max |-> 0, review |-> 1], [max |-> 1, review |-> 3],
                    [max |-> 3, review |-> 2], [max |-> 3, review |-> 4] }

Symmetry == Permutations(Requests) \cup Permutations(Ids)
=============================================================================
