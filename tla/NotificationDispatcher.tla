----------------------- MODULE NotificationDispatcher -----------------------
(* The delivery queue: rows of NotificationDelivery and the processes that send  *)
(* them (apps/api/src/notifications/notification-dispatcher.service.ts).         *)
(*                                                                               *)
(* Several processes share the table.  A worker claims one row at a time under a *)
(* lease, loads what it needs, renews the lease, calls the provider and writes   *)
(* the outcome if the lease is still its own.  Each of these is one statement on *)
(* the database or one call, so each is one action; a process may crash, or any  *)
(* statement may fail, between two of them.  Dispatching within a process is     *)
(* sequential (running), so the uuid of a lease is represented by the worker     *)
(* that holds it.                                                                *)
(*                                                                               *)
(* A definition named Faulty_X is X with a mistake in it; no specification uses  *)
(* it.  Each one stands for X once, to see that the properties notice it.        *)
(*                                                                               *)
(* Time is a countdown per row and per call; the unit is the attempt timeout.    *)

EXTENDS Integers, FiniteSets

CONSTANTS
  Deliveries,     \* ids of NotificationDelivery rows
  Workers,        \* API processes
  MaxAttempts,    \* MAX_DELIVERY_ATTEMPTS
  Lease,          \* DELIVERY_LEASE_MS
  Timeout,        \* DELIVERY_ATTEMPT_TIMEOUT_MS
  BackoffBase,    \* DELIVERY_BACKOFF_BASE_MS
  BackoffMax,     \* DELIVERY_BACKOFF_MAX_MS
  Batch,          \* DISPATCH_BATCH_SIZE
  MaxFaults,      \* bound: crashes, restarts and failed statements in a behaviour
  NoWorker

ASSUME WorkersAssumption == NoWorker \notin Workers
ASSUME AttemptsAssumption == MaxAttempts \in Nat \ {0} /\ Batch \in Nat \ {0}
ASSUME TimesAssumption ==
  /\ Timeout \in Nat \ {0} /\ Lease \in Nat /\ Timeout < Lease
  /\ BackoffBase \in Nat \ {0} /\ BackoffMax \in Nat \ {0}
ASSUME FaultsAssumption == MaxFaults \in Nat

VARIABLES
  row,         \* the table: [status, attempts, token, lease, wait] per delivery
  pc,          \* where each process is in its dispatch loop
  job,         \* the claimed delivery of a process: [id, attempts]
  left,        \* time left before the call in flight times out
  outcome,     \* what the attempt of a process came to, before it is written
  taken,       \* rows taken in this tick
  pending,     \* a wake-up came during the pass
  expired,     \* the deliveries whose lease was over when the pass of a process began
  stopping,    \* the process is shutting down
  delivered,   \* how many times the provider delivered the message of a row
  late,        \* calls for a row nobody waits for any more, still able to deliver it
  unknown,     \* attempts whose true result the dispatcher never recorded
  faults,      \* faults so far
  punctual     \* the processes that are never paused between renewal, call and outcome

vars ==
  <<row, pc, job, left, outcome, taken, pending, stopping, delivered, late, unknown, faults, punctual,
    expired>>
world == <<delivered, late, unknown>>
table == <<row, world>>
process == <<pc, job, left, outcome, taken, pending, stopping, punctual, expired>>

Settled == {"SENT", "FAILED"}

\* "NEW": the transaction that creates the row has not committed.
NewRow == [status |-> "NEW", attempts |-> 0, token |-> NoWorker, lease |-> 0, wait |-> 0]

NoJob == [id |-> "none", attempts |-> 0]

LeaseLive(d) == row[d].token # NoWorker /\ row[d].lease > 0
LeaseOver(d) == row[d].token # NoWorker /\ row[d].lease = 0

Doubled[n \in Nat] == IF n = 0 THEN BackoffBase ELSE 2 * Doubled[n - 1]

\* backoffDelayMs: 30 s, 1, 2, 4 min, never above the ceiling.
BackoffDelay(attempts) ==
  LET delay == Doubled[IF attempts > 1 THEN attempts - 1 ELSE 0]
  IN  IF delay < BackoffMax THEN delay ELSE BackoffMax

Init ==
  /\ row = [d \in Deliveries |-> NewRow]
  /\ pc = [w \in Workers |-> "idle"]
  /\ job = [w \in Workers |-> NoJob]
  /\ left = [w \in Workers |-> 0]
  /\ outcome = [w \in Workers |-> "none"]
  /\ taken = [w \in Workers |-> 0]
  /\ pending = [w \in Workers |-> FALSE]
  /\ expired = [w \in Workers |-> {}]
  /\ stopping = [w \in Workers |-> FALSE]
  /\ delivered = [d \in Deliveries |-> 0]
  /\ late = [d \in Deliveries |-> 0]
  /\ unknown = [d \in Deliveries |-> 0]
  /\ faults = 0
  /\ punctual \in SUBSET Workers

-----------------------------------------------------------------------------
(* Starting and ending a pass *)

\* A transaction that created a notification commits its delivery row.
Enqueue(d) ==
  /\ row[d].status = "NEW"
  /\ row' = [row EXCEPT ![d].status = "PENDING"]
  /\ UNCHANGED <<world, process, faults>>

\* trigger(): the interval or the push after a commit.  run() reads the clock once, for all
\* the ticks of its pass.
Trigger(w) ==
  /\ ~stopping[w] /\ pc[w] # "down"
  /\ IF pc[w] = "idle"
     THEN /\ pc' = [pc EXCEPT ![w] = "reap"] /\ pending' = [pending EXCEPT ![w] = FALSE]
          /\ expired' = [expired EXCEPT ![w] = {d \in Deliveries : LeaseOver(d)}]
     ELSE pending' = [pending EXCEPT ![w] = TRUE] /\ UNCHANGED <<pc, expired>>
  /\ UNCHANGED <<table, job, left, outcome, taken, stopping, faults, punctual>>

\* isTerminalFailure
IsTerminal(attempts) == attempts >= MaxAttempts

Faulty_Reapable(w, d) ==   \* takes an expired lease for a live one
  row[d].status = "PENDING" /\ row[d].attempts >= MaxAttempts /\ row[d].token = NoWorker

Reapable(w, d) ==
  /\ row[d].status = "PENDING" /\ row[d].attempts >= MaxAttempts
  /\ row[d].token = NoWorker \/ d \in expired[w]

\* reap(): one UPDATE fails the rows whose last attempt never reported back before the pass
\* began; those whose lease ends during a pass are left for another one.
Reap(w) ==
  /\ pc[w] = "reap"
  /\ row' = [d \in Deliveries |->
       IF Reapable(w, d)
       THEN [row[d] EXCEPT !.status = "FAILED", !.token = NoWorker, !.lease = 0] ELSE row[d]]
  /\ pc' = [pc EXCEPT ![w] = "claim"]
  /\ taken' = [taken EXCEPT ![w] = 0]
  /\ UNCHANGED <<world, job, left, outcome, pending, stopping, faults, punctual, expired>>

Faulty_Claimable(d) == row[d].status = "PENDING" /\ row[d].wait = 0

Claimable(d) ==
  row[d].status = "PENDING" /\ row[d].wait = 0 /\ row[d].attempts < MaxAttempts

\* A new lease ends after every pass that has begun.
Leased(d) == [w \in Workers |-> expired[w] \ {d}]

\* claim(): the attempt is counted before it is made.
Claim(w, d) ==
  /\ pc[w] = "claim" /\ ~stopping[w] /\ taken[w] < Batch
  /\ Claimable(d)
  /\ row' = [row EXCEPT ![d].attempts = @ + 1, ![d].token = w, ![d].lease = Lease,
                        ![d].wait = Lease]
  /\ job' = [job EXCEPT ![w] = [id |-> d, attempts |-> row[d].attempts + 1]]
  /\ expired' = Leased(d)
  /\ taken' = [taken EXCEPT ![w] = @ + 1]
  /\ pc' = [pc EXCEPT ![w] = "load"]
  /\ UNCHANGED <<world, left, outcome, pending, stopping, faults, punctual>>

\* The tick is over: a push that came meanwhile starts another one.
EndTick(w) ==
  /\ pc[w] = "claim"
  /\ stopping[w] \/ taken[w] = Batch \/ \A d \in Deliveries : ~Claimable(d)
  /\ IF pending[w] /\ ~stopping[w]
     THEN /\ pc' = [pc EXCEPT ![w] = "reap"] /\ pending' = [pending EXCEPT ![w] = FALSE]
          /\ UNCHANGED expired
     ELSE /\ pc' = [pc EXCEPT ![w] = "idle"] /\ expired' = [expired EXCEPT ![w] = {}]
          /\ UNCHANGED pending
  /\ UNCHANGED <<table, job, left, outcome, taken, stopping, faults, punctual>>

-----------------------------------------------------------------------------
(* One delivery *)

\* load() succeeds, or fails (or the channel has no sender): a failed attempt.
Load(w, ok) ==
  /\ pc[w] = "load"
  /\ pc' = [pc EXCEPT ![w] = IF ok THEN "renew" ELSE "finish"]
  /\ outcome' = [outcome EXCEPT ![w] = IF ok THEN "none" ELSE "failure"]
  /\ UNCHANGED <<table, job, left, taken, pending, stopping, faults, punctual, expired>>

Faulty_OwnsAttempt(w) == row[job[w].id].status = "PENDING"   \* whoever holds the lease now

FaultyStatus_OwnsAttempt(w) == row[job[w].id].attempts = job[w].attempts

\* This very attempt is still ours: same token, same attempt, lease not expired.
OwnsAttempt(w) ==
  LET d == job[w].id
  IN  row[d].status = "PENDING" /\ row[d].token = w /\ row[d].attempts = job[w].attempts
        /\ row[d].lease > 0

\* renewBeforeSend(): the last check before the world outside.
RenewBeforeSend(w) ==
  /\ pc[w] = "renew"
  /\ LET d == job[w].id
     IN  IF OwnsAttempt(w)
         THEN /\ row' = [row EXCEPT ![d].lease = Lease, ![d].wait = Lease]
              /\ expired' = Leased(d)
              /\ pc' = [pc EXCEPT ![w] = "call"]
         ELSE /\ pc' = [pc EXCEPT ![w] = "claim"]
              /\ UNCHANGED <<row, expired>>
  /\ UNCHANGED <<world, job, left, outcome, taken, pending, stopping, faults, punctual>>

\* sender.send() under withTimeout().
Send(w) ==
  /\ pc[w] = "call"
  /\ left' = [left EXCEPT ![w] = Timeout]
  /\ pc' = [pc EXCEPT ![w] = "sending"]
  /\ UNCHANGED <<table, job, outcome, taken, pending, stopping, faults, punctual, expired>>

\* One more of f for the delivery w is working on, if p.
Bump(f, w, p) == IF p THEN [f EXCEPT ![job[w].id] = @ + 1] ELSE f

\* The provider answers; an error may follow a message that did go out.
Answer(w, ok, didDeliver) ==
  /\ pc[w] = "sending"
  /\ ok => didDeliver
  /\ delivered' = Bump(delivered, w, didDeliver)
  /\ unknown' = Bump(unknown, w, didDeliver /\ ~ok)
  /\ outcome' = [outcome EXCEPT ![w] = IF ok THEN "success" ELSE "failure"]
  /\ pc' = [pc EXCEPT ![w] = "finish"]
  /\ UNCHANGED <<row, late, job, left, taken, pending, stopping, faults, punctual, expired>>

\* The race is lost to the timer: the dispatcher stops waiting, the call goes on.
TimedOut(w) ==
  /\ pc[w] = "sending" /\ left[w] = 0
  /\ late' = Bump(late, w, TRUE)
  /\ unknown' = Bump(unknown, w, TRUE)
  /\ outcome' = [outcome EXCEPT ![w] = "failure"]
  /\ pc' = [pc EXCEPT ![w] = "finish"]
  /\ UNCHANGED <<row, delivered, job, left, taken, pending, stopping, faults, punctual, expired>>

\* An abandoned call delivers, or dies, in its own time.
LateAnswer(d, didDeliver) ==
  /\ late[d] > 0
  /\ late' = [late EXCEPT ![d] = @ - 1]
  /\ delivered' = [delivered EXCEPT ![d] = IF didDeliver THEN @ + 1 ELSE @]
  /\ UNCHANGED <<row, unknown, process, faults>>

\* The row as finish() writes it.
Written(d, w) ==
  LET done == [row[d] EXCEPT !.token = NoWorker, !.lease = 0]
  IN  IF outcome[w] = "success" THEN [done EXCEPT !.status = "SENT"]
      ELSE IF IsTerminal(job[w].attempts) THEN [done EXCEPT !.status = "FAILED"]
      ELSE [done EXCEPT !.wait = BackoffDelay(job[w].attempts)]

Faulty_HoldsToken(w) == TRUE

HoldsToken(w) == row[job[w].id].token = w

\* finish(): the outcome is written only under one's own token.
Finish(w) ==
  /\ pc[w] = "finish"
  /\ LET d == job[w].id
     IN  row' = IF HoldsToken(w) THEN [row EXCEPT ![d] = Written(d, w)] ELSE row
  /\ outcome' = [outcome EXCEPT ![w] = "none"]
  /\ pc' = [pc EXCEPT ![w] = "claim"]
  /\ UNCHANGED <<world, job, left, taken, pending, stopping, faults, punctual, expired>>

-----------------------------------------------------------------------------
(* Faults, shutdown, time *)

\* A statement fails: run() logs it and the pass is over; a claimed row stays leased.
StatementFails(w) ==
  /\ pc[w] \in {"reap", "claim", "renew", "finish"}
  /\ faults < MaxFaults
  /\ faults' = faults + 1
  /\ pc' = [pc EXCEPT ![w] = "idle"]
  /\ expired' = [expired EXCEPT ![w] = {}]
  /\ outcome' = [outcome EXCEPT ![w] = "none"]
  /\ unknown' = Bump(unknown, w, outcome[w] = "success")
  /\ UNCHANGED <<row, delivered, late, job, left, taken, pending, stopping, punctual>>

\* The process dies; a call it had in flight may still reach the provider.
Crash(w) ==
  /\ pc[w] # "down"
  /\ faults < MaxFaults
  /\ faults' = faults + 1
  /\ late' = Bump(late, w, pc[w] = "sending")
  /\ unknown' = Bump(unknown, w, pc[w] = "sending" \/ outcome[w] = "success")
  /\ pc' = [pc EXCEPT ![w] = "down"]
  /\ stopping' = [stopping EXCEPT ![w] = TRUE]
  /\ expired' = [expired EXCEPT ![w] = {}]
  /\ outcome' = [outcome EXCEPT ![w] = "none"]
  /\ UNCHANGED <<row, delivered, job, left, taken, pending, punctual>>

\* onModuleDestroy(): no new rounds; Down waits for the pass in flight.
Stop(w) ==
  /\ ~stopping[w]
  /\ faults < MaxFaults
  /\ faults' = faults + 1
  /\ stopping' = [stopping EXCEPT ![w] = TRUE]
  /\ UNCHANGED <<table, pc, job, left, outcome, taken, pending, punctual, expired>>

Down(w) ==
  /\ stopping[w] /\ pc[w] = "idle"
  /\ pc' = [pc EXCEPT ![w] = "down"]
  /\ UNCHANGED <<table, job, left, outcome, taken, pending, stopping, faults, punctual, expired>>

\* The process is started again, with nothing in memory.
Restart(w) ==
  /\ pc[w] = "down"
  /\ pc' = [pc EXCEPT ![w] = "idle"]
  /\ job' = [job EXCEPT ![w] = NoJob]
  /\ left' = [left EXCEPT ![w] = 0]
  /\ taken' = [taken EXCEPT ![w] = 0]
  /\ pending' = [pending EXCEPT ![w] = FALSE]
  /\ stopping' = [stopping EXCEPT ![w] = FALSE]
  /\ UNCHANGED <<table, outcome, faults, punctual, expired>>

Less(n) == IF n > 0 THEN n - 1 ELSE 0

\* Time passes.  It waits for nobody but a punctual worker that is between renewal and
\* call, between call and outcome, or at the end of its timeout.
Tick ==
  /\ \A w \in punctual :
       pc[w] \notin {"call", "finish"} /\ ~(pc[w] = "sending" /\ left[w] = 0)
  /\ row' = [d \in Deliveries |-> [row[d] EXCEPT !.lease = Less(@), !.wait = Less(@)]]
  /\ left' = [w \in Workers |-> Less(left[w])]
  /\ UNCHANGED <<world, pc, job, outcome, taken, pending, stopping, faults, punctual, expired>>

-----------------------------------------------------------------------------

\* What a running process does by itself.
Work(w) ==
  \/ Reap(w)
  \/ \E d \in Deliveries : Claim(w, d)
  \/ EndTick(w)
  \/ \E ok \in BOOLEAN : Load(w, ok)
  \/ RenewBeforeSend(w)
  \/ Send(w)
  \/ TimedOut(w)
  \/ Finish(w)

Next ==
  \/ \E w \in Workers :
       \/ Trigger(w) \/ Work(w)
       \/ \E ok, didDeliver \in BOOLEAN : Answer(w, ok, didDeliver)
       \/ StatementFails(w) \/ Crash(w) \/ Stop(w) \/ Down(w) \/ Restart(w)
  \/ \E d \in Deliveries :
       Enqueue(d) \/ \E didDeliver \in BOOLEAN : LateAnswer(d, didDeliver)
  \/ Tick

\* The interval keeps firing, a pass that started goes on and time passes.  Nothing forces
\* a provider to answer (the timeout is what ends a call), nor anyone to restart a process.
Fairness ==
  /\ WF_vars(Tick)
  /\ \A w \in Workers :
       /\ WF_vars(pc[w] = "idle" /\ Trigger(w))
       /\ WF_vars(Work(w))
       /\ WF_vars(Down(w))

Spec == Init /\ [][Next]_vars

FairSpec == Spec /\ Fairness

-----------------------------------------------------------------------------
(* Properties *)

TypeOK ==
  /\ row \in [Deliveries -> [status : {"NEW", "PENDING"} \cup Settled, attempts : 0..MaxAttempts,
                             token : Workers \cup {NoWorker}, lease : Nat, wait : Nat]]
  /\ pc \in [Workers -> {"idle", "reap", "claim", "load", "renew", "call", "sending",
                         "finish", "down"}]
  /\ job \in [Workers -> [id : Deliveries, attempts : 1..MaxAttempts] \cup {NoJob}]
  /\ left \in [Workers -> 0..Timeout]
  /\ outcome \in [Workers -> {"none", "success", "failure"}]
  /\ taken \in [Workers -> 0..Batch]
  /\ pending \in [Workers -> BOOLEAN]
  /\ expired \in [Workers -> SUBSET Deliveries]
  /\ stopping \in [Workers -> BOOLEAN]
  /\ delivered \in [Deliveries -> Nat]
  /\ late \in [Deliveries -> Nat]
  /\ unknown \in [Deliveries -> Nat]
  /\ faults \in 0..MaxFaults
  /\ punctual \in SUBSET Workers

\* FAILED is written only when the attempts are used up, by finish or by reap.
FailedAfterLast ==
  \A d \in Deliveries : row[d].status = "FAILED" => row[d].attempts = MaxAttempts

\* Two healthy workers never have the same message at the provider at once: the lease,
\* renewed before the call, outlives the timeout of the call.
NoOverlap ==
  \A v, w \in punctual :
    pc[v] \in {"call", "sending"} /\ pc[w] \in {"call", "sending"} /\ job[v].id = job[w].id => v = w

\* The boundary with the provider is at-least-once and no worse: with healthy workers a
\* message goes out again only after an attempt whose result nobody recorded (a timeout, a
\* crash, an error after delivery); each such attempt explains one duplicate.
DuplicatesAreExplained ==
  punctual = Workers => \A d \in Deliveries : delivered[d] <= 1 + unknown[d]

\* A row fails by its last attempt only, whichever process writes it; with healthy processes
\* no message is at the provider twice at once, and none goes out a second time but after an
\* attempt that left no trace of its result.
AttemptsAreCounted == FailedAfterLast /\ NoOverlap /\ DuplicatesAreExplained

\* A healthy worker never calls the provider for a delivery that is already settled, by
\* another worker that took the row over or by the reaper (renewBeforeSend).
NeverResends(w) == pc[w] = "call" /\ pc'[w] = "sending" => row[job[w].id].status = "PENDING"
HealthyNeverResend == [][\A w \in punctual : NeverResends(w)]_vars

\* A settled row is final: a late worker, a reap racing it or a second claim never turns
\* SENT into FAILED or back into PENDING.  And while a lease is live only its holder's own
\* steps end it: nobody claims, reaps or finishes a row someone else is working on.
SettledStays(d) ==
  row[d].status \in Settled => row'[d].status = row[d].status /\ row'[d].attempts = row[d].attempts
LeaseIsExclusive(d) ==
  LeaseLive(d) /\ row'[d].token # row[d].token =>
    LET w == row[d].token IN pc[w] = "finish" /\ job[w].id = d /\ pc'[w] = "claim"
RowsStay == [][\A d \in Deliveries : SettledStays(d) /\ LeaseIsExclusive(d)]_vars

-----------------------------------------------------------------------------
(* The inductive invariant behind AttemptsAreCounted, HealthyNeverResend and RowsStay *)

\* A leased row waits for its outcome exactly as long as the lease lasts, so that no one
\* claims it while the lease is live.
LeaseAgrees(d) ==
  row[d].token # NoWorker => row[d].status = "PENDING" /\ row[d].wait = row[d].lease

\* A worker with a job that still holds the token of the row made the row's last attempt.
AttemptAgrees(w) ==
  /\ pc[w] \in {"load", "renew", "call", "sending", "finish"} =>
       /\ job[w] # NoJob
       /\ row[job[w].id].token = w => row[job[w].id].attempts = job[w].attempts
  /\ outcome[w] # "none" => pc[w] = "finish"

\* What a pass counts as expired has no live lease now either.
ExpiredAgrees(w) == \A d \in expired[w] : row[d].lease = 0

\* A healthy worker owns its attempt from the renewal to the recorded success, and its lease
\* has longer to go than its call.
Covered(w) ==
  /\ pc[w] \in {"call", "sending"} \/ outcome[w] = "success" => OwnsAttempt(w)
  /\ pc[w] = "call" => row[job[w].id].lease > Timeout
  /\ pc[w] = "sending" => row[job[w].id].lease > left[w]

\* The success of an attempt for d is written down, or about to be.
Recorded(d) ==
  row[d].status = "SENT" \/ \E w \in Workers : outcome[w] = "success" /\ job[w].id = d

\* What the provider delivered or still may deliver, against what the dispatcher knows.
Accounted(d) ==
  /\ delivered[d] + late[d] <= 1 + unknown[d]
  /\ ~Recorded(d) => delivered[d] + late[d] <= unknown[d]

DispatcherInv ==
  /\ TypeOK
  /\ FailedAfterLast
  /\ \A d \in Deliveries : LeaseAgrees(d)
  /\ \A w \in Workers : AttemptAgrees(w) /\ ExpiredAgrees(w)
  /\ \A w \in punctual : Covered(w)
  /\ punctual = Workers => \A d \in Deliveries : Accounted(d)

-----------------------------------------------------------------------------

\* As long as some process is up again and again, no committed delivery waits for a claim for
\* ever: in the end it is settled or its last attempt is made, despite crashes between claim
\* and outcome and however many pushes prolong a pass.
AttemptsEnd ==
  ([]<>(\E w \in Workers : pc[w] # "down")) =>
    \A d \in Deliveries :
      row[d].status = "PENDING" ~> row[d].status \in Settled \/ row[d].attempts = MaxAttempts

\* Every committed delivery is settled in the end, sent or failed after its attempts, if some
\* process is idle again and again.  To be up is not enough: a pass that a push prolongs in
\* each of its ticks never ends, and reaps nothing that expired after it began.
PassesSettle ==
  ([]<>(\E w \in Workers : pc[w] = "idle")) =>
    \A d \in Deliveries : row[d].status = "PENDING" ~> row[d].status \in Settled

EventuallySettled == AttemptsEnd /\ PassesSettle

=============================================================================
