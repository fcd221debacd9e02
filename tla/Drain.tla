------------------------------- MODULE Drain -------------------------------
(* What a graceful shutdown promises: from the moment the gate closes only work  *)
(* that was let in before goes on, with what it starts itself, and a clean end   *)
(* means that none of it is left.                                                *)

CONSTANT Work            \* pieces of work

VARIABLES
  gate,      \* OPEN or CLOSED
  active,    \* work going on
  outcome    \* RUNNING, CLEAN or FORCED

dvars == <<gate, active, outcome>>

DInit == gate = "OPEN" /\ active = {} /\ outcome = "RUNNING"

Admit(x) == gate = "OPEN" /\ x \notin active /\ active' = active \cup {x} /\ UNCHANGED <<gate, outcome>>

\* Work ends, or starts some more.
Proceed(x) ==
  /\ x \in active /\ outcome # "CLEAN"
  /\ \E y \in Work : active' \in {active \ {x}, active \cup {y}}
  /\ UNCHANGED <<gate, outcome>>

CloseGate == gate' = "CLOSED" /\ UNCHANGED <<active, outcome>>

EndCleanly == gate = "CLOSED" /\ active = {} /\ outcome' = "CLEAN" /\ UNCHANGED <<gate, active>>

\* The time is up: the process is killed whatever is left.
GiveUp == gate = "CLOSED" /\ active # {} /\ outcome' = "FORCED" /\ UNCHANGED <<gate, active>>

Die == outcome = "FORCED" /\ active' = {} /\ UNCHANGED <<gate, outcome>>

DNext ==
  \/ \E x \in Work : Admit(x) \/ Proceed(x)
  \/ CloseGate \/ EndCleanly \/ GiveUp \/ Die

DSpec == DInit /\ [][DNext]_dvars

=============================================================================
