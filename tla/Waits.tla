------------------------------- MODULE Waits -------------------------------
(* Circles of waits between transactions, which the database breaks by *)
(* rolling one of their members back.                                   *)
EXTENDS Naturals, FiniteSets

\* p waits, over any number of others among `procs`, for itself.
OnCircle(p, procs, WaitsFor(_)) ==
  LET behind[n \in 0..Cardinality(procs)] ==
        IF n = 0 THEN WaitsFor(p) \cap procs
        ELSE LET near == behind[n - 1]
             IN near \cup UNION {WaitsFor(q) \cap procs : q \in near}
  IN p \in behind[Cardinality(procs)]
=============================================================================
