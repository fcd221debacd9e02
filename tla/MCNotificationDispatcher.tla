---------------------- MODULE MCNotificationDispatcher ----------------------
(* NotificationDispatcher for TLC: two processes, of which none, one or both may   *)
(* be paused anywhere, between renewal, call and outcome too; or two processes     *)
(* that write about guests.                                                        *)

EXTENDS NotificationDispatcher, GuestLocks, TLC

CONSTANTS d1, w1, w2

VARIABLE part

\* Two contacts borrow one copy, one after another or one of them twice.
OneCopy == <<1, 1>>
TablesFirst == [r \in (1..5) \X (1..2) |-> 2 * r[1] + r[2]]

ASSUME LocksAssumption

DpInit ==
  /\ Init /\ LInit
  /\ part \in {"DELIVERIES", "GUESTS"} /\ (part = "GUESTS" => punctual = Workers)

\* One of the two reminds or removes contacts, and one loan has no confirmation.
TakesPart ==
  /\ 2 \notin confirmations
  /\ \E w \in Workers : tx[w].kind \in {"none", "delete", "cleanup", "digest"}

DpNext ==
  /\ UNCHANGED part
  /\ \/ part = "DELIVERIES" /\ Next /\ UNCHANGED lvars
     \/ part = "GUESTS" /\ LNext /\ TakesPart' /\ UNCHANGED vars

DpSpec == DpInit /\ [][DpNext]_<<vars, part, lvars>>

\* For liveness: the first part alone, under the dispatcher's fairness.  The queue never looks
\* at what reached the recipient, so here an abandoned call never does, and any other call
\* does if its answer says so.
DpFairInit == Init /\ LInit /\ part = "DELIVERIES" /\ punctual = Workers

DpFairNext ==
  /\ DpNext
  /\ \A d \in Deliveries : late'[d] >= late[d]
  /\ delivered' # delivered =>
       \E w \in Workers : outcome[w] # "success" /\ outcome'[w] = "success"

DpFairSpec == DpFairInit /\ [][DpFairNext]_<<vars, part, lvars>> /\ Fairness

\* The processes are interchangeable: either may be the one that is paused.
WorkerSymmetry == Permutations(Workers)

=============================================================================
