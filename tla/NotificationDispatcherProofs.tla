-------------------- MODULE NotificationDispatcherProofs --------------------
(* Proofs about what NotificationDispatcher and GuestLocks say of the processes   *)
(* that share the database's rows.                                                *)
(*                                                                                *)
(* The delivery queue, for any number of rows and processes, any set of them that *)
(* is never paused, and any lease longer than a call may take.                    *)
(*                                                                                *)
(* The locks of whatever writes about guests, for any contacts, copies, loans and *)
(* transactions and any order of ids.  InOrder says why nobody waits in a circle: *)
(* what a transaction waits for comes after all that it holds, and so the last of *)
(* the rows that a circle waits for would be held by somebody who waits for a     *)
(* later one.                                                                     *)
EXTENDS NotificationDispatcher, GuestLocks, WellFoundedInduction, TLAPS

(* The backoff: a recursive function, so its existence comes first *)

\* The first n + 1 values of the sequence.
IsPrefix(f, n) ==
  /\ f \in [0..n -> Nat \ {0}]
  /\ f[0] = BackoffBase
  /\ \A i \in 1..n : f[i] = 2 * f[i - 1]

\* A set of numbers has a least element, or is empty.
LEMMA LeastNumber ==
  ASSUME NEW T, T \subseteq Nat, T # {}
  PROVE  \E n \in T : \A m \in T : n <= m
<1> DEFINE R == OpToRel(<, Nat)
<1>1. \A n, m \in Nat : n < m => <<n, m>> \in R
  BY DEF OpToRel
<1>2. IsWellFoundedOn(R, Nat)
  BY NatLessThanWellFounded
<1> HIDE DEF R
<1>3. PICK n \in T : \A m \in T : ~(<<m, n>> \in R)
  BY <1>2, WFMin
<1>4. ASSUME NEW m \in T PROVE n <= m
  <2>1. m \in Nat /\ n \in Nat /\ ~(m < n)
    BY <1>1, <1>3
  <2> QED
    BY <2>1
<1> QED
  BY <1>4

LEMMA PrefixExists == \A n \in Nat : \E f : IsPrefix(f, n)
<1> DEFINE T == {n \in Nat : ~ \E f : IsPrefix(f, n)}
<1> SUFFICES ASSUME T # {} PROVE FALSE
  OBVIOUS
<1>1. PICK n \in T : \A m \in T : n <= m
  BY LeastNumber
<1>2. CASE n = 0
  <2>1. IsPrefix([i \in 0..0 |-> BackoffBase], 0)
    BY TimesAssumption DEF IsPrefix
  <2> QED
    BY <1>2, <2>1
<1>3. CASE n # 0
  <2>1. PICK g : IsPrefix(g, n - 1)
    BY <1>1, <1>3
  <2> DEFINE f == [i \in 0..n |-> IF i = n THEN 2 * g[n - 1] ELSE g[i]]
  <2>2. IsPrefix(f, n)
    BY <1>3, <2>1 DEF IsPrefix
  <2> QED
    BY <2>2
<1> QED
  BY <1>2, <1>3

LEMMA PrefixesAgree ==
  ASSUME NEW m \in Nat, NEW n \in Nat, NEW f, NEW g, IsPrefix(f, m), IsPrefix(g, n)
  PROVE  \A i \in Nat : i <= m /\ i <= n => f[i] = g[i]
<1> DEFINE T == {i \in Nat : i <= m /\ i <= n /\ f[i] # g[i]}
<1> SUFFICES ASSUME T # {} PROVE FALSE
  OBVIOUS
<1>1. PICK i \in T : \A j \in T : i <= j
  BY LeastNumber
<1>2. i # 0
  BY <1>1 DEF IsPrefix
<1>3. f[i - 1] = g[i - 1]
  BY <1>1, <1>2
<1> QED
  BY <1>1, <1>2, <1>3 DEF IsPrefix

\* Doubled is the sequence it is meant to be: it starts at the base and doubles.
LEMMA DoubledIsDefined ==
  Doubled = [n \in Nat |-> IF n = 0 THEN BackoffBase ELSE 2 * Doubled[n - 1]]
<1> DEFINE P(n) == CHOOSE f : IsPrefix(f, n)
           F == [n \in Nat |-> P(n)[n]]
           G(f) == f = [n \in Nat |-> IF n = 0 THEN BackoffBase ELSE 2 * f[n - 1]]
<1>1. \A n \in Nat : IsPrefix(P(n), n)
  BY PrefixExists
<1> HIDE DEF P
<1>2. F[0] = BackoffBase
  BY <1>1 DEF IsPrefix
<1>3. ASSUME NEW n \in Nat, n # 0 PROVE F[n] = 2 * F[n - 1]
  <2>1. P(n)[n] = 2 * P(n)[n - 1]
    BY <1>1, <1>3 DEF IsPrefix
  <2>2. P(n)[n - 1] = P(n - 1)[n - 1]
    BY <1>1, <1>3, PrefixesAgree, n - 1 \in Nat
  <2> QED
    BY <1>3, <2>1, <2>2
<1>4. G(F)
  BY <1>2, <1>3
<1>5. Doubled = CHOOSE f : G(f)
  BY DEF Doubled
<1> HIDE DEF F, G
<1>6. G(Doubled)
  BY <1>4, <1>5
<1> QED
  BY <1>6 DEF G

LEMMA DoubledType == \A n \in Nat : Doubled[n] \in Nat \ {0}
<1> DEFINE T == {n \in Nat : Doubled[n] \notin Nat \ {0}}
<1> SUFFICES ASSUME T # {} PROVE FALSE
  OBVIOUS
<1>1. PICK n \in T : \A m \in T : n <= m
  BY LeastNumber
<1>2. CASE n = 0
  BY <1>1, <1>2, DoubledIsDefined, TimesAssumption
<1>3. CASE n # 0
  <2>1. Doubled[n] = 2 * Doubled[n - 1]
    BY <1>1, <1>3, DoubledIsDefined
  <2>2. Doubled[n - 1] \in Nat \ {0}
    BY <1>1, <1>3
  <2> QED
    BY <1>1, <2>1, <2>2
<1> QED
  BY <1>2, <1>3

\* backoffDelayMs: the next attempt is never in the past and never further away than the
\* ceiling, for no number of attempts (zero and the first one included), and it never comes
\* sooner after more attempts than after fewer.
THEOREM BackoffIsBounded ==
  \A n \in Nat : BackoffDelay(n) \in 1..BackoffMax /\ BackoffDelay(n) <= BackoffDelay(n + 1)
<1> SUFFICES ASSUME NEW n \in Nat
             PROVE  /\ BackoffDelay(n) \in 1..BackoffMax
                    /\ BackoffDelay(n) <= BackoffDelay(n + 1)
  OBVIOUS
<1> DEFINE Exp(k) == IF k > 1 THEN k - 1 ELSE 0
<1>1. Exp(n) \in Nat /\ Exp(n + 1) \in Nat
  OBVIOUS
<1>2. Exp(n + 1) = Exp(n) \/ Exp(n + 1) = Exp(n) + 1
  OBVIOUS
<1>3. Doubled[Exp(n)] \in Nat \ {0} /\ Doubled[Exp(n + 1)] \in Nat \ {0}
  BY <1>1, DoubledType
<1>4. Doubled[Exp(n)] <= Doubled[Exp(n + 1)]
  <2> HIDE DEF Exp
  <2>1. CASE Exp(n + 1) = Exp(n)
    BY <2>1, <1>3
  <2>2. CASE Exp(n + 1) = Exp(n) + 1
    <3>1. Doubled[Exp(n) + 1] = 2 * Doubled[Exp(n)]
      BY <1>1, DoubledIsDefined
    <3> QED
      BY <1>3, <2>2, <3>1
  <2> QED
    BY <1>2, <2>1, <2>2
<1> QED
  BY <1>3, <1>4, TimesAssumption DEF BackoffDelay

-----------------------------------------------------------------------------
(* Types *)

LEMMA InitType == Init => TypeOK
BY AttemptsAssumption, TimesAssumption, FaultsAssumption DEF Init, TypeOK, NewRow, NoJob

\* A row of the table.
DeliveryRow ==
  [status : {"NEW", "PENDING"} \cup Settled, attempts : 0..MaxAttempts,
   token : Workers \cup {NoWorker}, lease : Nat, wait : Nat]

LEMMA RowEdits ==
  ASSUME NEW r \in DeliveryRow
  PROVE  /\ [r EXCEPT !.status = "PENDING"] \in DeliveryRow
         /\ [r EXCEPT !.status = "FAILED", !.token = NoWorker, !.lease = 0] \in DeliveryRow
         /\ \A n, m \in Nat : [r EXCEPT !.lease = n, !.wait = m] \in DeliveryRow
BY DEF DeliveryRow, Settled

LEMMA RowType == TypeOK => row \in [Deliveries -> DeliveryRow]
BY DEF TypeOK, DeliveryRow

LEMMA BumpType ==
  ASSUME NEW f \in [Deliveries -> Nat], NEW w, NEW p
  PROVE  Bump(f, w, p) \in [Deliveries -> Nat]
<1>1. [f EXCEPT ![job[w].id] = @ + 1] \in [Deliveries -> Nat]
  <2>1. CASE job[w].id \in Deliveries
    BY <2>1
  <2>2. CASE job[w].id \notin Deliveries
    BY <2>2
  <2> QED
    BY <2>1, <2>2
<1> QED
  BY <1>1, Zenon DEF Bump

\* finish() writes a row.
LEMMA WrittenType ==
  ASSUME TypeOK, NEW w \in Workers, NEW d \in Deliveries
  PROVE  Written(d, w) \in DeliveryRow
<1> DEFINE done == [row[d] EXCEPT !.token = NoWorker, !.lease = 0]
<1>1. row[d] \in DeliveryRow
  BY DEF TypeOK, DeliveryRow
<1>2. done \in DeliveryRow
  BY <1>1 DEF DeliveryRow
<1>3. job[w].attempts \in Nat
  BY AttemptsAssumption DEF TypeOK, NoJob
<1>4. BackoffDelay(job[w].attempts) \in Nat
  BY <1>3, BackoffIsBounded, TimesAssumption
<1>5. /\ [done EXCEPT !.status = "SENT"] \in DeliveryRow
      /\ [done EXCEPT !.status = "FAILED"] \in DeliveryRow
      /\ [done EXCEPT !.wait = BackoffDelay(job[w].attempts)] \in DeliveryRow
  <2> HIDE DEF done
  <2> QED
    BY <1>2, <1>4 DEF DeliveryRow, Settled
<1> QED
  BY <1>5 DEF Written

LEMMA TypeStep == TypeOK /\ [Next]_vars => TypeOK'
<1> SUFFICES ASSUME TypeOK, [Next]_vars PROVE TypeOK'
  OBVIOUS
<1> USE WorkersAssumption, AttemptsAssumption, TimesAssumption, FaultsAssumption
<1>0. CASE UNCHANGED vars
  BY <1>0 DEF TypeOK, vars
<1>1. ASSUME NEW w \in Workers, Trigger(w) PROVE TypeOK'
  <2>1. expired' \in [Workers -> SUBSET Deliveries]
    <3>1. {d \in Deliveries : LeaseOver(d)} \in SUBSET Deliveries
      OBVIOUS
    <3> QED
      BY <1>1, <3>1 DEF TypeOK, Trigger
  <2> QED
    BY <1>1, <2>1 DEF TypeOK, Trigger, table, world
<1>2. ASSUME NEW w \in Workers, Reap(w) PROVE TypeOK'
  <2>1. ASSUME NEW d \in Deliveries, Reapable(w, d)
        PROVE  [row[d] EXCEPT !.status = "FAILED", !.token = NoWorker, !.lease = 0] \in DeliveryRow
    BY RowEdits, RowType
  <2>2. row' \in [Deliveries -> DeliveryRow]
    BY <1>2, <2>1, RowType DEF Reap
  <2>3. /\ pc' = [pc EXCEPT ![w] = "claim"] /\ taken' = [taken EXCEPT ![w] = 0]
        /\ UNCHANGED <<delivered, late, unknown, job, left, outcome, pending, stopping, faults,
                       punctual, expired>>
    BY <1>2 DEF Reap, world
  <2> QED
    BY <2>2, <2>3 DEF TypeOK, DeliveryRow
<1>3. ASSUME NEW w \in Workers, EndTick(w) PROVE TypeOK'
  BY <1>3 DEF TypeOK, EndTick, table, world
<1>4. ASSUME NEW w \in Workers, RenewBeforeSend(w) PROVE TypeOK'
  <2>1. row' \in [Deliveries -> DeliveryRow]
    <3>1. CASE row' = row
      BY <3>1, RowType
    <3>2. CASE row' # row
      <4>1. job[w].id \in Deliveries
        BY <1>4, <3>2 DEF RenewBeforeSend, TypeOK
      <4>2. row' = [row EXCEPT ![job[w].id] =
                      [row[job[w].id] EXCEPT !.lease = Lease, !.wait = Lease]]
        BY <1>4, <3>2, <4>1 DEF RenewBeforeSend
      <4> QED
        BY <4>1, <4>2, RowType, RowEdits
    <3> QED
      BY <3>1, <3>2
  <2>2. expired' \in [Workers -> SUBSET Deliveries]
    BY <1>4 DEF TypeOK, RenewBeforeSend, Leased
  <2>3. pc' \in [Workers -> {"idle", "reap", "claim", "load", "renew", "call", "sending",
                            "finish", "down"}]
    <3>1. pc' = [pc EXCEPT ![w] = "call"] \/ pc' = [pc EXCEPT ![w] = "claim"]
      BY <1>4 DEF RenewBeforeSend
    <3> QED
      BY <3>1 DEF TypeOK
  <2>4. UNCHANGED <<world, job, left, outcome, taken, pending, stopping, faults, punctual>>
    BY <1>4 DEF RenewBeforeSend
  <2> QED
    BY <2>1, <2>2, <2>3, <2>4 DEF TypeOK, world, DeliveryRow
<1>5. ASSUME NEW w \in Workers, Send(w) PROVE TypeOK'
  BY <1>5 DEF TypeOK, Send, table, world
<1>6. ASSUME NEW w \in Workers, TimedOut(w) PROVE TypeOK'
  <2>1. late' \in [Deliveries -> Nat] /\ unknown' \in [Deliveries -> Nat]
    BY <1>6, BumpType DEF TimedOut, TypeOK
  <2> QED
    BY <1>6, <2>1 DEF TypeOK, TimedOut
<1>7. ASSUME NEW w \in Workers, Finish(w) PROVE TypeOK'
  <2>1. row' \in [Deliveries -> DeliveryRow]
    BY <1>7, WrittenType DEF Finish, TypeOK, DeliveryRow
  <2> QED
    BY <1>7, <2>1 DEF TypeOK, Finish, world, DeliveryRow
<1>8. ASSUME NEW w \in Workers, StatementFails(w) PROVE TypeOK'
  <2>1. unknown' \in [Deliveries -> Nat]
    BY <1>8, BumpType DEF StatementFails, TypeOK
  <2> QED
    BY <1>8, <2>1 DEF TypeOK, StatementFails
<1>9. ASSUME NEW w \in Workers, Crash(w) PROVE TypeOK'
  <2>1. late' \in [Deliveries -> Nat] /\ unknown' \in [Deliveries -> Nat]
    BY <1>9, BumpType DEF Crash, TypeOK
  <2> QED
    BY <1>9, <2>1 DEF TypeOK, Crash
<1>10. ASSUME NEW w \in Workers, Stop(w) PROVE TypeOK'
  BY <1>10 DEF TypeOK, Stop, table, world
<1>11. ASSUME NEW w \in Workers, Down(w) PROVE TypeOK'
  BY <1>11 DEF TypeOK, Down, table, world
<1>12. ASSUME NEW w \in Workers, Restart(w) PROVE TypeOK'
  BY <1>12 DEF TypeOK, Restart, table, world
<1>13. ASSUME NEW w \in Workers, NEW d \in Deliveries, Claim(w, d) PROVE TypeOK'
  BY <1>13 DEF TypeOK, Claim, Claimable, table, world, Settled
<1>14. ASSUME NEW w \in Workers, NEW ok \in BOOLEAN, Load(w, ok) PROVE TypeOK'
  BY <1>14 DEF TypeOK, Load, table, world
<1>15. ASSUME NEW w \in Workers, NEW ok \in BOOLEAN, NEW didDeliver \in BOOLEAN, Answer(w, ok, didDeliver) PROVE TypeOK'
  <2>1. delivered' \in [Deliveries -> Nat] /\ unknown' \in [Deliveries -> Nat]
    BY <1>15, BumpType DEF Answer, TypeOK
  <2> QED
    BY <1>15, <2>1 DEF TypeOK, Answer
<1>16. ASSUME NEW d \in Deliveries, Enqueue(d) PROVE TypeOK'
  <2>1. row' \in [Deliveries -> DeliveryRow]
    <3>1. row' = [row EXCEPT ![d] = [row[d] EXCEPT !.status = "PENDING"]]
      BY <1>16 DEF Enqueue
    <3> QED
      BY <3>1, RowType, RowEdits
  <2> QED
    BY <1>16, <2>1 DEF TypeOK, Enqueue, world, process, DeliveryRow
<1>17. ASSUME NEW d \in Deliveries, NEW didDeliver \in BOOLEAN, LateAnswer(d, didDeliver) PROVE TypeOK'
  BY <1>17 DEF TypeOK, LateAnswer, process, table, world, Settled
<1>18. ASSUME Tick PROVE TypeOK'
  <2>1. \A n \in Nat : Less(n) \in Nat /\ Less(n) <= n
    BY DEF Less
  <2>2. ASSUME NEW d \in Deliveries
        PROVE  [row[d] EXCEPT !.lease = Less(@), !.wait = Less(@)] \in DeliveryRow
    <3>1. row[d] \in DeliveryRow /\ Less(row[d].lease) \in Nat /\ Less(row[d].wait) \in Nat
      BY <2>1, RowType DEF DeliveryRow
    <3> QED
      BY <3>1, RowEdits
  <2>3. row' \in [Deliveries -> DeliveryRow]
    BY <1>18, <2>2 DEF Tick
  <2>4. left' \in [Workers -> 0..Timeout]
    <3>1. \A n \in 0..Timeout : Less(n) \in 0..Timeout
      BY <2>1
    <3> QED
      BY <1>18, <3>1 DEF Tick, TypeOK
  <2> QED
    BY <1>18, <2>3, <2>4 DEF TypeOK, Tick, world, DeliveryRow
<1> QED
  BY <1>0, <1>1, <1>2, <1>3, <1>4, <1>5, <1>6, <1>7, <1>8, <1>9, <1>10, <1>11, <1>12, <1>13, <1>14, <1>15, <1>16, <1>17, <1>18 DEF Next, Work

-----------------------------------------------------------------------------
(* What a step may do to one row, field by field *)

RowKept(d) == row'[d] = row[d]

Enqueued(d) ==
  /\ row[d].status = "NEW" /\ row'[d].status = "PENDING"
  /\ row'[d].attempts = row[d].attempts /\ row'[d].token = row[d].token
  /\ row'[d].lease = row[d].lease /\ row'[d].wait = row[d].wait

Reaped(d) ==
  /\ (\E w \in Workers : Reapable(w, d)) /\ row'[d].status = "FAILED"
  /\ row'[d].attempts = row[d].attempts /\ row'[d].token = NoWorker /\ row'[d].lease = 0

Claimed(w, d) ==
  /\ Claim(w, d) /\ row'[d].status = "PENDING"
  /\ row'[d].attempts = row[d].attempts + 1 /\ row'[d].token = w
  /\ row'[d].lease = Lease /\ row'[d].wait = Lease

Renewed(w, d) ==
  /\ RenewBeforeSend(w) /\ pc'[w] = "call" /\ job[w].id = d /\ OwnsAttempt(w)
  /\ row'[d].status = row[d].status
  /\ row'[d].attempts = row[d].attempts /\ row'[d].token = row[d].token
  /\ row'[d].lease = Lease /\ row'[d].wait = Lease

Reported(w, d) ==
  /\ Finish(w) /\ job[w].id = d /\ HoldsToken(w)
  /\ row'[d].status = IF outcome[w] = "success" THEN "SENT"
                      ELSE IF IsTerminal(job[w].attempts) THEN "FAILED" ELSE row[d].status
  /\ row'[d].attempts = row[d].attempts /\ row'[d].token = NoWorker /\ row'[d].lease = 0

Aged(d) ==
  /\ Tick /\ row'[d].status = row[d].status
  /\ row'[d].attempts = row[d].attempts /\ row'[d].token = row[d].token
  /\ row'[d].lease = Less(row[d].lease) /\ row'[d].wait = Less(row[d].wait)

LEMMA RowChange ==
  ASSUME TypeOK, [Next]_vars, NEW d \in Deliveries
  PROVE  \/ RowKept(d) \/ Enqueued(d) \/ Reaped(d) \/ Aged(d)
         \/ \E w \in Workers : Claimed(w, d) \/ Renewed(w, d) \/ Reported(w, d)
<1> USE RowType DEF DeliveryRow
<1>1. CASE UNCHANGED row
  BY <1>1 DEF RowKept
<1>2. ASSUME NEW w \in Workers, Reap(w) PROVE RowKept(d) \/ Reaped(d)
  <2>1. row'[d] = IF Reapable(w, d)
          THEN [row[d] EXCEPT !.status = "FAILED", !.token = NoWorker, !.lease = 0] ELSE row[d]
    BY <1>2 DEF Reap
  <2> QED
    BY <1>2, <2>1 DEF RowKept, Reaped
<1>3. ASSUME NEW w \in Workers, NEW e \in Deliveries, Claim(w, e)
      PROVE  RowKept(d) \/ Claimed(w, d)
  <2>1. row' = [row EXCEPT ![e] = [row[e] EXCEPT
                  !.attempts = @ + 1, !.token = w, !.lease = Lease, !.wait = Lease]]
    BY <1>3 DEF Claim
  <2>2. CASE e # d
    BY <2>1, <2>2 DEF RowKept
  <2>3. CASE e = d
    <3>1. row[d].status = "PENDING"
      BY <1>3, <2>3 DEF Claim, Claimable
    <3>2. row'[d] = [row[d] EXCEPT
                  !.attempts = @ + 1, !.token = w, !.lease = Lease, !.wait = Lease]
      BY <2>1, <2>3
    <3>3. /\ row'[d].status = row[d].status /\ row'[d].attempts = row[d].attempts + 1
          /\ row'[d].token = w /\ row'[d].lease = Lease /\ row'[d].wait = Lease
      BY <3>2
    <3> QED
      BY <1>3, <2>3, <3>1, <3>3 DEF Claimed
  <2> QED
    BY <2>1, <2>2, <2>3
<1>4. ASSUME NEW w \in Workers, RenewBeforeSend(w) PROVE RowKept(d) \/ Renewed(w, d)
  <2>1. CASE ~OwnsAttempt(w)
    BY <1>4, <2>1 DEF RenewBeforeSend, RowKept
  <2>2. CASE OwnsAttempt(w)
    <3>1. row' = [row EXCEPT ![job[w].id].lease = Lease, ![job[w].id].wait = Lease]
      BY <1>4, <2>2 DEF RenewBeforeSend
    <3>2. pc'[w] = "call"
      BY <1>4, <2>2 DEF RenewBeforeSend, TypeOK
    <3>3. CASE job[w].id = d
      BY <1>4, <2>2, <3>1, <3>2, <3>3 DEF Renewed
    <3>4. CASE job[w].id # d
      BY <3>1, <3>4 DEF RowKept
    <3> QED
      BY <3>3, <3>4
  <2> QED
    BY <2>1, <2>2
<1>5. ASSUME NEW w \in Workers, Finish(w) PROVE RowKept(d) \/ Reported(w, d)
  <2>1. CASE ~HoldsToken(w)
    BY <1>5, <2>1 DEF Finish, RowKept
  <2>2. CASE HoldsToken(w) /\ job[w].id # d
    BY <1>5, <2>2 DEF Finish, RowKept
  <2>3. CASE HoldsToken(w) /\ job[w].id = d
    <3>1. row'[d] = Written(d, w)
      BY <1>5, <2>3 DEF Finish
    <3>2. /\ Written(d, w).status = IF outcome[w] = "success" THEN "SENT"
                      ELSE IF IsTerminal(job[w].attempts) THEN "FAILED" ELSE row[d].status
          /\ Written(d, w).attempts = row[d].attempts /\ Written(d, w).token = NoWorker
          /\ Written(d, w).lease = 0
      BY DEF Written
    <3> QED
      BY <1>5, <2>3, <3>1, <3>2 DEF Reported
  <2> QED
    BY <2>1, <2>2, <2>3
<1>6. ASSUME Tick PROVE Aged(d)
  <2>1. row'[d] = [row[d] EXCEPT !.lease = Less(@), !.wait = Less(@)]
    BY <1>6 DEF Tick
  <2> QED
    BY <1>6, <2>1 DEF Aged
<1>7. ASSUME NEW e \in Deliveries, Enqueue(e) PROVE RowKept(d) \/ Enqueued(d)
  <2>1. row' = [row EXCEPT ![e] = [row[e] EXCEPT !.status = "PENDING"]]
    BY <1>7 DEF Enqueue
  <2> QED
    BY <1>7, <2>1 DEF RowKept, Enqueued, Enqueue
<1>8. ASSUME NEW w \in Workers, Trigger(w) \/ EndTick(w) \/ Send(w) \/ TimedOut(w)
                \/ StatementFails(w) \/ Crash(w) \/ Stop(w) \/ Down(w) \/ Restart(w)
      PROVE  UNCHANGED row
  BY <1>8 DEF Trigger, EndTick, Send, TimedOut, StatementFails, Crash, Stop, Down, Restart, table
<1>9. ASSUME NEW w \in Workers, NEW ok \in BOOLEAN, NEW didDeliver \in BOOLEAN,
             Load(w, ok) \/ Answer(w, ok, didDeliver)
      PROVE  UNCHANGED row
  BY <1>9 DEF Load, Answer, table
<1>10. ASSUME NEW e \in Deliveries, NEW didDeliver \in BOOLEAN, LateAnswer(e, didDeliver)
       PROVE  UNCHANGED row
  BY <1>10 DEF LateAnswer
<1>11. CASE UNCHANGED vars
  BY <1>11, <1>1 DEF vars
<1> QED
  BY <1>1, <1>2, <1>3, <1>4, <1>5, <1>6, <1>7, <1>8, <1>9, <1>10, <1>11 DEF Next, Work

-----------------------------------------------------------------------------
(* The parts of the invariant that are about rows *)

\* The last attempt of a job is the last attempt of the row it may report on.
LEMMA FailedStep ==
  ASSUME TypeOK, FailedAfterLast, \A w \in Workers : AttemptAgrees(w), [Next]_vars
  PROVE  FailedAfterLast'
<1> SUFFICES ASSUME NEW d \in Deliveries, row'[d].status = "FAILED"
             PROVE  row'[d].attempts = MaxAttempts
  BY DEF FailedAfterLast
<1> USE AttemptsAssumption
<1>1. /\ row[d].attempts \in 0..MaxAttempts
      /\ row[d].status = "FAILED" => row[d].attempts = MaxAttempts
  BY DEF TypeOK, FailedAfterLast
<1>2. CASE RowKept(d) \/ Enqueued(d) \/ Aged(d)
  BY <1>1, <1>2 DEF RowKept, Enqueued, Aged
<1>3. CASE Reaped(d)
  BY <1>1, <1>3 DEF Reaped, Reapable
<1>4. ASSUME NEW w \in Workers, Claimed(w, d) \/ Renewed(w, d) \/ Reported(w, d)
      PROVE  row'[d].attempts = MaxAttempts
  <2>1. CASE Claimed(w, d)
    BY <2>1 DEF Claimed
  <2>2. CASE Renewed(w, d)
    BY <1>1, <2>2 DEF Renewed
  <2>3. CASE Reported(w, d)
    <3>1. job[w] # NoJob /\ row[d].attempts = job[w].attempts
      BY <2>3 DEF Reported, Finish, HoldsToken, AttemptAgrees
    <3>2. IsTerminal(job[w].attempts) => row[d].attempts = MaxAttempts
      BY <1>1, <3>1 DEF IsTerminal
    <3> QED
      BY <1>1, <2>3, <3>2 DEF Reported
  <2> QED
    BY <1>4, <2>1, <2>2, <2>3
<1> QED
  BY <1>2, <1>3, <1>4, RowChange

LEMMA LeaseStep ==
  ASSUME TypeOK, [Next]_vars, NEW d \in Deliveries, LeaseAgrees(d)
  PROVE  LeaseAgrees(d)'
<1>1. CASE RowKept(d) \/ Enqueued(d) \/ Aged(d)
  BY <1>1 DEF RowKept, Enqueued, Aged, LeaseAgrees
<1>2. CASE Reaped(d)
  BY <1>2 DEF Reaped, LeaseAgrees
<1>3. ASSUME NEW w \in Workers, Claimed(w, d) \/ Renewed(w, d) \/ Reported(w, d)
      PROVE  LeaseAgrees(d)'
  BY <1>3 DEF Claimed, Renewed, Reported, LeaseAgrees, OwnsAttempt
<1> QED
  BY <1>1, <1>2, <1>3, RowChange

\* Nobody claims, reaps or reports on a row while another worker's lease on it is live.
LEMMA LiveLeaseStays ==
  ASSUME TypeOK, [Next]_vars, NEW d \in Deliveries, LeaseAgrees(d), LeaseLive(d),
         \A w \in Workers : ExpiredAgrees(w)
  PROVE  \/ RowKept(d) \/ Aged(d)
         \/ Renewed(row[d].token, d) \/ Reported(row[d].token, d)
<1>1. ~Enqueued(d) /\ ~Reaped(d)
  BY DEF Enqueued, Reaped, Reapable, ExpiredAgrees, LeaseAgrees, LeaseLive
<1>2. ASSUME NEW w \in Workers, Claimed(w, d) PROVE FALSE
  <2>1. row[d].wait > 0
    BY DEF LeaseAgrees, LeaseLive
  <2> QED
    BY <1>2, <2>1 DEF Claimed, Claim, Claimable
<1>3. ASSUME NEW w \in Workers, Renewed(w, d) \/ Reported(w, d) PROVE w = row[d].token
  BY <1>3 DEF Renewed, Reported, OwnsAttempt, HoldsToken
<1> QED
  BY <1>1, <1>2, <1>3, RowChange

\* A pass never counts a lease as expired that was given after the pass began.
LEMMA ExpiredStep ==
  ASSUME TypeOK, [Next]_vars, NEW w \in Workers, ExpiredAgrees(w)
  PROVE  ExpiredAgrees(w)'
<1> SUFFICES ASSUME NEW d, d \in expired'[w] PROVE row'[d].lease = 0
  BY DEF ExpiredAgrees
<1> USE RowType DEF DeliveryRow
<1>1. \/ d \in expired[w]
      \/ d \in Deliveries /\ row[d].lease = 0 /\ row' = row
  <2>1. CASE expired' = expired
    BY <2>1
  <2>2. ASSUME NEW v \in Workers, Trigger(v)
        PROVE  d \in expired[w] \/ (d \in Deliveries /\ row[d].lease = 0 /\ row' = row)
    <3>1. row' = row
      BY <2>2 DEF Trigger, table
    <3>2. expired' = expired \/ expired' = [expired EXCEPT ![v] = {e \in Deliveries : LeaseOver(e)}]
      BY <2>2 DEF Trigger
    <3>3. expired'[w] = expired[w] \/ expired'[w] = {e \in Deliveries : LeaseOver(e)}
      BY <3>2 DEF TypeOK
    <3>4. CASE expired'[w] = expired[w]
      BY <3>4
    <3>5. CASE expired'[w] = {e \in Deliveries : LeaseOver(e)}
      <4>1. d \in Deliveries /\ LeaseOver(d)
        BY <3>5
      <4> QED
        BY <3>1, <4>1 DEF LeaseOver
    <3> QED
      BY <3>3, <3>4, <3>5
  <2>3. ASSUME NEW v \in Workers, NEW e \in Deliveries, Claim(v, e) PROVE d \in expired[w]
    BY <2>3 DEF Claim, Leased
  <2>4. ASSUME NEW v \in Workers, RenewBeforeSend(v) PROVE d \in expired[w]
    BY <2>4 DEF RenewBeforeSend, Leased
  <2>5. ASSUME NEW v \in Workers, EndTick(v) \/ StatementFails(v) \/ Crash(v)
        PROVE  d \in expired[w]
    BY <2>5 DEF EndTick, StatementFails, Crash, TypeOK
  <2>6. ASSUME NEW v \in Workers, Reap(v) \/ Send(v) \/ TimedOut(v) \/ Finish(v) \/ Stop(v)
                 \/ Down(v) \/ Restart(v)
        PROVE  expired' = expired
    BY <2>6 DEF Reap, Send, TimedOut, Finish, Stop, Down, Restart
  <2>7. ASSUME NEW v \in Workers, NEW ok \in BOOLEAN, NEW didDeliver \in BOOLEAN,
               Load(v, ok) \/ Answer(v, ok, didDeliver)
        PROVE  expired' = expired
    BY <2>7 DEF Load, Answer
  <2>8. ASSUME NEW e \in Deliveries, NEW didDeliver \in BOOLEAN,
               Enqueue(e) \/ LateAnswer(e, didDeliver)
        PROVE  expired' = expired
    BY <2>8 DEF Enqueue, LateAnswer, process
  <2>9. CASE Tick \/ UNCHANGED vars
    BY <2>9 DEF Tick, vars
  <2> QED
    BY <2>1, <2>2, <2>3, <2>4, <2>5, <2>6, <2>7, <2>8, <2>9 DEF Next, Work
<1>2. CASE d \in Deliveries /\ row[d].lease = 0 /\ row' = row
  BY <1>2
<1>3. CASE d \in expired[w]
  <2>1. d \in Deliveries /\ row[d].lease = 0
    BY <1>3 DEF ExpiredAgrees, TypeOK
  <2>2. CASE RowKept(d) \/ Enqueued(d) \/ Aged(d)
    BY <2>1, <2>2 DEF RowKept, Enqueued, Aged, Less
  <2>3. CASE Reaped(d)
    BY <2>3 DEF Reaped
  <2>4. ASSUME NEW v \in Workers, Reported(v, d) PROVE row'[d].lease = 0
    BY <2>4 DEF Reported
  <2>5. ASSUME NEW v \in Workers, Claimed(v, d) \/ Renewed(v, d) PROVE FALSE
    <3>1. expired'[w] = expired[w] \ {d}
      BY <2>5 DEF Claimed, Renewed, Claim, RenewBeforeSend, Leased
    <3> QED
      BY <3>1
  <2> QED
    BY <2>1, <2>2, <2>3, <2>4, <2>5, RowChange
<1> QED
  BY <1>1, <1>2, <1>3

-----------------------------------------------------------------------------
(* What a step may do to the memory of one process *)

\* Everything of w that the invariant speaks of.
Untouched(w) ==
  pc'[w] = pc[w] /\ job'[w] = job[w] /\ outcome'[w] = outcome[w] /\ left'[w] = left[w]

Ticked(w) ==
  Tick /\ pc'[w] = pc[w] /\ job'[w] = job[w] /\ outcome'[w] = outcome[w] /\ left'[w] = Less(left[w])

\* A step of w itself.
Acts(w) ==
  \/ Trigger(w) \/ Work(w)
  \/ \E ok, didDeliver \in BOOLEAN : Answer(w, ok, didDeliver)
  \/ StatementFails(w) \/ Crash(w) \/ Stop(w) \/ Down(w) \/ Restart(w)

LEMMA ActsAlone ==
  ASSUME TypeOK, NEW v \in Workers, Acts(v), NEW w \in Workers, w # v
  PROVE  Untouched(w)
<1> USE DEF TypeOK, Untouched
<1>1. CASE Trigger(v) \/ EndTick(v) \/ Send(v) \/ TimedOut(v)
  BY <1>1 DEF Trigger, EndTick, Send, TimedOut
<1>2. CASE StatementFails(v) \/ Crash(v) \/ Stop(v) \/ Down(v) \/ Restart(v)
  BY <1>2 DEF StatementFails, Crash, Stop, Down, Restart
<1>3. CASE Reap(v) \/ RenewBeforeSend(v) \/ Finish(v)
  BY <1>3 DEF Reap, RenewBeforeSend, Finish
<1>4. ASSUME NEW d \in Deliveries, Claim(v, d) PROVE Untouched(w)
  BY <1>4 DEF Claim
<1>5. ASSUME NEW ok \in BOOLEAN, NEW didDeliver \in BOOLEAN, Load(v, ok) \/ Answer(v, ok, didDeliver)
      PROVE  Untouched(w)
  BY <1>5 DEF Load, Answer
<1> QED
  BY <1>1, <1>2, <1>3, <1>4, <1>5 DEF Acts, Work

LEMMA MemoryChange ==
  ASSUME TypeOK, [Next]_vars, NEW w \in Workers
  PROVE  Acts(w) \/ Untouched(w) \/ Ticked(w)
<1>1. CASE UNCHANGED vars
  BY <1>1 DEF vars, Untouched
<1>2. ASSUME NEW v \in Workers, Acts(v) PROVE Acts(w) \/ Untouched(w)
  BY <1>2, ActsAlone
<1>3. ASSUME NEW d \in Deliveries, NEW didDeliver \in BOOLEAN,
             Enqueue(d) \/ LateAnswer(d, didDeliver)
      PROVE  Untouched(w)
  BY <1>3 DEF Enqueue, LateAnswer, process, Untouched
<1>4. CASE Tick
  BY <1>4 DEF Tick, Ticked
<1> QED
  BY <1>1, <1>2, <1>3, <1>4 DEF Next, Acts

-----------------------------------------------------------------------------
(* The parts of the invariant that are about processes *)

LEMMA JobType ==
  ASSUME TypeOK, NEW w \in Workers, AttemptAgrees(w),
         pc[w] \in {"load", "renew", "call", "sending", "finish"}
  PROVE  job[w].id \in Deliveries /\ job[w].attempts \in 1..MaxAttempts
BY DEF TypeOK, AttemptAgrees

LEMMA AgreesStep ==
  ASSUME TypeOK, [Next]_vars, NEW w \in Workers, AttemptAgrees(w)
  PROVE  AttemptAgrees(w)'
<1> DEFINE Has(p) == p \in {"load", "renew", "call", "sending", "finish"}
<1>1. CASE Untouched(w) \/ Ticked(w)
  <2>1. pc'[w] = pc[w] /\ job'[w] = job[w] /\ outcome'[w] = outcome[w]
    BY <1>1 DEF Untouched, Ticked
  <2>2. CASE ~Has(pc[w])
    BY <2>1, <2>2 DEF AttemptAgrees
  <2>3. CASE Has(pc[w])
    <3> DEFINE d == job[w].id
    <3>1. d \in Deliveries
      BY <2>3, JobType
    <3>2. row'[d].token = w => row[d].token = w /\ row'[d].attempts = row[d].attempts
      <4>1. CASE RowKept(d) \/ Enqueued(d) \/ Aged(d)
        BY <4>1 DEF RowKept, Enqueued, Aged
      <4>2. CASE Reaped(d)
        BY <4>2, WorkersAssumption DEF Reaped
      <4>3. ASSUME NEW v \in Workers, Claimed(v, d) PROVE v # w
        BY <2>3, <4>3 DEF Claimed, Claim
      <4>4. ASSUME NEW v \in Workers, Claimed(v, d) \/ Renewed(v, d) \/ Reported(v, d)
            PROVE  <3>2!2 \/ row'[d].token # w
        BY <4>3, <4>4, WorkersAssumption DEF Claimed, Renewed, Reported
      <4> QED
        BY <3>1, <4>1, <4>2, <4>4, RowChange
    <3> QED
      BY <2>1, <3>2 DEF AttemptAgrees
  <2> QED
    BY <2>2, <2>3
<1>2. CASE Acts(w)
  <2> USE DEF TypeOK, AttemptAgrees
  <2>1. CASE Trigger(w) \/ EndTick(w) \/ Send(w) \/ TimedOut(w)
    BY <1>2, <2>1 DEF Trigger, EndTick, Send, TimedOut, table
  <2>2. CASE StatementFails(w) \/ Crash(w) \/ Stop(w) \/ Down(w) \/ Restart(w)
    BY <1>2, <2>2 DEF StatementFails, Crash, Stop, Down, Restart, table
  <2>3. CASE Reap(w) \/ Finish(w)
    BY <1>2, <2>3 DEF Reap, Finish
  <2>4. CASE RenewBeforeSend(w)
    <3>1. CASE ~OwnsAttempt(w)
      BY <2>4, <3>1 DEF RenewBeforeSend
    <3>2. CASE OwnsAttempt(w)
      <4>1. pc'[w] = "call" /\ job' = job /\ outcome' = outcome
        BY <2>4, <3>2 DEF RenewBeforeSend
      <4>2. row'[job[w].id].attempts = row[job[w].id].attempts
        BY <2>4, <3>2, JobType DEF RenewBeforeSend
      <4> QED
        BY <2>4, <3>2, <4>1, <4>2 DEF RenewBeforeSend, OwnsAttempt
    <3> QED
      BY <3>1, <3>2
  <2>5. ASSUME NEW d \in Deliveries, Claim(w, d) PROVE AttemptAgrees(w)'
    <3>1. job'[w] = [id |-> d, attempts |-> row[d].attempts + 1]
      BY <2>5 DEF Claim
    <3>2. row'[d].attempts = row[d].attempts + 1
      BY <2>5 DEF Claim
    <3>3. job'[w] # NoJob
      <4>1. row[d].attempts + 1 # 0
        OBVIOUS
      <4> QED
        BY <3>1, <4>1 DEF NoJob
    <3>4. outcome'[w] = outcome[w] /\ pc[w] = "claim"
      BY <2>5 DEF Claim
    <3> QED
      BY <3>1, <3>2, <3>3, <3>4
  <2>6. ASSUME NEW ok \in BOOLEAN, NEW didDeliver \in BOOLEAN,
               Load(w, ok) \/ Answer(w, ok, didDeliver)
        PROVE  AttemptAgrees(w)'
    BY <2>6 DEF Load, Answer, table
  <2> QED
    BY <1>2, <2>1, <2>2, <2>3, <2>4, <2>5, <2>6 DEF Acts, Work
<1> QED
  BY <1>1, <1>2, MemoryChange

\* While others work and time passes a healthy worker keeps its lease until the result of
\* its call is recorded.
LEMMA CoveredByOthers ==
  ASSUME TypeOK, [Next]_vars, NEW w \in punctual, AttemptAgrees(w), Covered(w),
         \A d \in Deliveries : LeaseAgrees(d), \A v \in Workers : ExpiredAgrees(v),
         Untouched(w) \/ Ticked(w), ~Acts(w)
  PROVE  Covered(w)'
<1> DEFINE d == job[w].id
<1>1. pc'[w] = pc[w] /\ job'[w] = job[w] /\ outcome'[w] = outcome[w] /\ w \in Workers
  BY DEF Untouched, Ticked, TypeOK
<1>2. CASE ~(pc[w] \in {"call", "sending"} \/ outcome[w] = "success")
  BY <1>1, <1>2 DEF Covered
<1>3. CASE pc[w] \in {"call", "sending"} \/ outcome[w] = "success"
  <2>1. OwnsAttempt(w) /\ pc[w] \in {"call", "sending", "finish"}
    BY <1>1, <1>3 DEF Covered, AttemptAgrees, TypeOK
  <2>2. d \in Deliveries
    BY <1>1, <2>1, JobType
  <2>3. RowKept(d) \/ Aged(d)
    <3>1. LeaseLive(d) /\ row[d].token = w
      BY <1>1, <2>1, WorkersAssumption DEF LeaseLive, OwnsAttempt
    <3>2. ~Renewed(w, d) /\ ~Reported(w, d)
      BY DEF Renewed, Reported, Acts, Work
    <3> QED
      BY <2>2, <3>1, <3>2, LiveLeaseStays
  <2>4. CASE RowKept(d)
    <3>1. left'[w] \in Nat /\ left[w] \in Nat /\ left'[w] <= left[w]
      BY <1>1 DEF Untouched, Ticked, Less, TypeOK
    <3>2. row[d].lease \in Nat /\ row'[d] = row[d]
      BY <2>2, <2>4, RowType DEF RowKept, DeliveryRow
    <3>3. OwnsAttempt(w)'
      BY <1>1, <2>1, <3>2 DEF OwnsAttempt
    <3>4. /\ pc'[w] = "call" => row'[d].lease > Timeout
          /\ pc'[w] = "sending" => row'[d].lease > left'[w]
      BY <1>1, <3>1, <3>2 DEF Covered
    <3> QED
      BY <1>1, <3>3, <3>4 DEF Covered
  <2>5. CASE Aged(d)
    <3>1. Tick /\ pc[w] = "sending" /\ left[w] # 0
      BY <2>1, <2>5 DEF Aged, Tick
    <3>2. left'[w] = left[w] - 1
      <4>1. left' = [v \in Workers |-> Less(left[v])]
        BY <3>1 DEF Tick
      <4>2. left[w] \in Nat /\ left'[w] = Less(left[w])
        BY <1>1, <4>1 DEF TypeOK
      <4> QED
        BY <3>1, <4>2 DEF Less
    <3>3. row[d].lease > left[w] /\ row[d].lease \in Nat /\ left[w] \in Nat
      BY <1>1, <2>2, <3>1 DEF Covered, TypeOK
    <3>4. row'[d].lease = row[d].lease - 1
      BY <2>5, <3>3 DEF Aged, Less
    <3> QED
      BY <1>1, <2>1, <2>5, <3>1, <3>2, <3>3, <3>4 DEF Covered, OwnsAttempt, Aged
  <2> QED
    BY <2>3, <2>4, <2>5
<1> QED
  BY <1>2, <1>3

\* Its own steps: the lease is renewed for longer than the call may take.
LEMMA CoveredByItself ==
  ASSUME TypeOK, [Next]_vars, NEW w \in punctual, AttemptAgrees(w), Covered(w), Acts(w)
  PROVE  Covered(w)'
<1>1. w \in Workers
  BY DEF TypeOK
<1> USE DEF TypeOK, AttemptAgrees, Covered
<1>2. CASE Trigger(w) \/ EndTick(w) \/ TimedOut(w) \/ Stop(w) \/ Down(w) \/ Restart(w)
  BY <1>1, <1>2 DEF Trigger, EndTick, TimedOut, Stop, Down, Restart, table, OwnsAttempt
<1>3. CASE StatementFails(w) \/ Crash(w) \/ Reap(w) \/ Finish(w)
  BY <1>1, <1>3 DEF StatementFails, Crash, Reap, Finish
<1>4. CASE RenewBeforeSend(w)
  <2>1. CASE ~OwnsAttempt(w)
    BY <1>1, <1>4, <2>1 DEF RenewBeforeSend
  <2>2. CASE OwnsAttempt(w)
    <3> DEFINE d == job[w].id
    <3>1. d \in Deliveries
      BY <1>1, <1>4, JobType DEF RenewBeforeSend
    <3>2. pc'[w] = "call" /\ job' = job /\ outcome' = outcome
      BY <1>1, <1>4, <2>2 DEF RenewBeforeSend
    <3>3. /\ row'[d].lease = Lease /\ row'[d].status = row[d].status
          /\ row'[d].token = row[d].token /\ row'[d].attempts = row[d].attempts
      BY <1>4, <2>2, <3>1 DEF RenewBeforeSend
    <3> QED
      BY <2>2, <3>2, <3>3, TimesAssumption DEF OwnsAttempt
  <2> QED
    BY <2>1, <2>2
<1>5. CASE Send(w)
  <2>1. pc[w] = "call" /\ pc'[w] = "sending" /\ left'[w] = Timeout
    BY <1>1, <1>5 DEF Send
  <2>2. job' = job /\ row' = row /\ outcome' = outcome
    BY <1>5 DEF Send, table
  <2> QED
    BY <2>1, <2>2 DEF OwnsAttempt
<1>6. ASSUME NEW d \in Deliveries, Claim(w, d) PROVE Covered(w)'
  BY <1>1, <1>6 DEF Claim
<1>7. ASSUME NEW ok \in BOOLEAN, NEW didDeliver \in BOOLEAN,
             Load(w, ok) \/ Answer(w, ok, didDeliver)
      PROVE  Covered(w)'
  BY <1>1, <1>7 DEF Load, Answer, table, OwnsAttempt
<1> QED
  BY <1>2, <1>3, <1>4, <1>5, <1>6, <1>7 DEF Acts, Work

-----------------------------------------------------------------------------
(* What was delivered, against what the dispatcher knows *)

LEMMA CountersType ==
  ASSUME TypeOK, NEW d \in Deliveries
  PROVE  delivered[d] \in Nat /\ late[d] \in Nat /\ unknown[d] \in Nat
BY DEF TypeOK

\* A healthy worker that got its answer still owns the row: nobody else has a success for it,
\* and the row is not settled.
LEMMA OneSuccess ==
  ASSUME TypeOK, NEW w \in punctual, AttemptAgrees(w), Covered(w), pc[w] = "sending",
         punctual = Workers, \A v \in punctual : Covered(v)
  PROVE  ~Recorded(job[w].id)
<1>1. OwnsAttempt(w) /\ outcome[w] # "success"
  BY DEF Covered, AttemptAgrees
<1>2. ASSUME NEW v \in Workers, outcome[v] = "success", job[v].id = job[w].id PROVE FALSE
  BY <1>1, <1>2 DEF Covered, OwnsAttempt
<1> QED
  BY <1>1, <1>2 DEF Recorded, OwnsAttempt

\* A recorded success stays recorded until it is reported, or is lost and counted as unknown.
LEMMA RecordedStays ==
  ASSUME TypeOK, [Next]_vars, NEW d \in Deliveries, Recorded(d), punctual = Workers,
         \A w \in Workers : AttemptAgrees(w) /\ Covered(w), \A e \in Deliveries : LeaseAgrees(e)
  PROVE  \/ Recorded(d)'
         \/ \E w \in Workers : /\ StatementFails(w) \/ Crash(w)
                               /\ outcome[w] = "success" /\ job[w].id = d
<1>1. CASE row[d].status = "SENT"
  <2>1. row'[d].status = "SENT"
    <3>1. ~Enqueued(d) /\ ~Reaped(d)
      BY <1>1 DEF Enqueued, Reaped, Reapable
    <3>2. ASSUME NEW w \in Workers, Claimed(w, d) \/ Renewed(w, d) \/ Reported(w, d) PROVE FALSE
      BY <1>1, <3>2, WorkersAssumption
      DEF Claimed, Claim, Claimable, Renewed, OwnsAttempt, Reported, HoldsToken, LeaseAgrees
    <3> QED
      BY <1>1, <3>1, <3>2, RowChange DEF RowKept, Aged
  <2> QED
    BY <2>1 DEF Recorded
<1>2. ASSUME NEW w \in Workers, outcome[w] = "success", job[w].id = d
      PROVE  Recorded(d)' \/ StatementFails(w) \/ Crash(w)
  <2>1. CASE Untouched(w) \/ Ticked(w)
    BY <1>2, <2>1 DEF Recorded, Untouched, Ticked
  <2>2. CASE Acts(w)
    <3>1. pc[w] = "finish" /\ OwnsAttempt(w)
      BY <1>2 DEF AttemptAgrees, Covered
    <3>2. CASE Finish(w)
      <4>1. row' = [row EXCEPT ![d] = Written(d, w)] /\ d \in DOMAIN row
        BY <1>2, <3>1, <3>2 DEF Finish, HoldsToken, OwnsAttempt, TypeOK
      <4>2. Written(d, w).status = "SENT"
        BY <1>2, RowType DEF Written, DeliveryRow
      <4> QED
        BY <4>1, <4>2 DEF Recorded
    <3>3. CASE Trigger(w) \/ Stop(w)
      BY <1>2, <3>3 DEF Trigger, Stop, Recorded
    <3> QED
      BY <2>2, <3>1, <3>2, <3>3
      DEF Acts, Work, Reap, Claim, EndTick, Load, RenewBeforeSend, Send, TimedOut, Answer, Down,
          Restart
  <2> QED
    BY <2>1, <2>2, MemoryChange
<1> QED
  BY <1>1, <1>2 DEF Recorded

\* Whatever may reach the recipient without a recorded success is counted as unknown.
Balanced(d) == delivered'[d] + late'[d] + unknown[d] <= delivered[d] + late[d] + unknown'[d]

Succeeds(w, d) ==
  /\ Answer(w, TRUE, TRUE) /\ job[w].id = d
  /\ delivered'[d] = delivered[d] + 1 /\ late'[d] = late[d] /\ unknown'[d] = unknown[d]

LEMMA CountersChange ==
  ASSUME TypeOK, [Next]_vars, NEW d \in Deliveries
  PROVE  Balanced(d) \/ \E w \in Workers : Succeeds(w, d)
<1> USE CountersType
<1>0. /\ delivered \in [Deliveries -> Nat] /\ late \in [Deliveries -> Nat]
      /\ unknown \in [Deliveries -> Nat]
  BY DEF TypeOK
<1>1. CASE UNCHANGED world
  BY <1>1 DEF world, Balanced
<1>2. ASSUME NEW w \in Workers, StatementFails(w) PROVE Balanced(d)
  <2>1. delivered' = delivered /\ late' = late /\ unknown' = Bump(unknown, w, outcome[w] = "success")
    BY <1>2 DEF StatementFails
  <2>2. unknown'[d] = unknown[d] \/ unknown'[d] = unknown[d] + 1
    BY <1>0, <2>1 DEF Bump
  <2> QED
    BY <2>1, <2>2 DEF Balanced
<1>3. ASSUME NEW w \in Workers, Crash(w) PROVE Balanced(d)
  <2>1. /\ delivered' = delivered
        /\ late'[d] = IF pc[w] = "sending" /\ job[w].id = d THEN late[d] + 1 ELSE late[d]
        /\ unknown'[d] = IF (pc[w] = "sending" \/ outcome[w] = "success") /\ job[w].id = d
                         THEN unknown[d] + 1 ELSE unknown[d]
    <3>1. /\ delivered' = delivered /\ late' = Bump(late, w, pc[w] = "sending")
          /\ unknown' = Bump(unknown, w, pc[w] = "sending" \/ outcome[w] = "success")
      BY <1>3 DEF Crash
    <3> QED
      BY <1>0, <3>1 DEF Bump
  <2> QED
    BY <2>1 DEF Balanced
<1>4. ASSUME NEW w \in Workers, TimedOut(w) PROVE Balanced(d)
  <2>1. /\ delivered' = delivered
        /\ late'[d] = IF job[w].id = d THEN late[d] + 1 ELSE late[d]
        /\ unknown'[d] = IF job[w].id = d THEN unknown[d] + 1 ELSE unknown[d]
    <3>1. /\ delivered' = delivered
          /\ late' = Bump(late, w, TRUE) /\ unknown' = Bump(unknown, w, TRUE)
      BY <1>4 DEF TimedOut
    <3> QED
      BY <1>0, <3>1 DEF Bump
  <2> QED
    BY <2>1 DEF Balanced
<1>5. ASSUME NEW w \in Workers, NEW ok \in BOOLEAN, NEW didDeliver \in BOOLEAN,
             Answer(w, ok, didDeliver)
      PROVE  Balanced(d) \/ Succeeds(w, d)
  <2>1. /\ late' = late
        /\ delivered'[d] = IF didDeliver /\ job[w].id = d THEN delivered[d] + 1 ELSE delivered[d]
        /\ unknown'[d] = IF didDeliver /\ ~ok /\ job[w].id = d THEN unknown[d] + 1 ELSE unknown[d]
    <3>1. /\ late' = late /\ delivered' = Bump(delivered, w, didDeliver)
          /\ unknown' = Bump(unknown, w, didDeliver /\ ~ok)
      BY <1>5 DEF Answer
    <3> QED
      BY <1>0, <3>1 DEF Bump
  <2>2. CASE ok /\ job[w].id = d
    <3>1. ok = TRUE /\ didDeliver = TRUE
      BY <1>5, <2>2 DEF Answer
    <3> QED
      BY <1>5, <2>1, <2>2, <3>1 DEF Succeeds
  <2>3. CASE ~(ok /\ job[w].id = d)
    BY <2>1, <2>3 DEF Balanced
  <2> QED
    BY <2>2, <2>3
<1>6. ASSUME NEW e \in Deliveries, NEW didDeliver \in BOOLEAN, LateAnswer(e, didDeliver)
      PROVE  Balanced(d)
  <2>1. /\ late[e] > 0 /\ late' = [late EXCEPT ![e] = @ - 1] /\ unknown' = unknown
        /\ delivered' = [delivered EXCEPT ![e] = IF didDeliver THEN @ + 1 ELSE @]
    BY <1>6 DEF LateAnswer
  <2>2. CASE e # d
    BY <1>0, <2>1, <2>2 DEF Balanced
  <2>3. CASE e = d
    <3>1. late'[d] = late[d] - 1 /\ delivered'[d] <= delivered[d] + 1 /\ delivered'[d] \in Nat
      BY <1>0, <2>1, <2>3
    <3> QED
      BY <2>1, <3>1 DEF Balanced
  <2> QED
    BY <2>2, <2>3
<1>7. ASSUME NEW w \in Workers, Trigger(w) \/ Reap(w) \/ EndTick(w) \/ RenewBeforeSend(w) \/ Send(w)
               \/ Finish(w) \/ Stop(w) \/ Down(w) \/ Restart(w) \/ Tick
      PROVE  UNCHANGED world
  BY <1>7
  DEF Trigger, Reap, EndTick, RenewBeforeSend, Send, Finish, Stop, Down, Restart, Tick, table, world
<1>8. ASSUME NEW w \in Workers, NEW e \in Deliveries, NEW ok \in BOOLEAN,
             Claim(w, e) \/ Load(w, ok) \/ Enqueue(e)
      PROVE  UNCHANGED world
  BY <1>8 DEF Claim, Load, Enqueue, table, world
<1>9. CASE UNCHANGED vars
  BY <1>1, <1>9 DEF vars, world
<1>10. CASE Tick
  BY <1>1, <1>10 DEF Tick, world
<1>11. ASSUME NEW e \in Deliveries, Enqueue(e) PROVE UNCHANGED world
  BY <1>11 DEF Enqueue, world
<1> QED
  BY <1>1, <1>2, <1>3, <1>4, <1>5, <1>6, <1>7, <1>8, <1>9, <1>10, <1>11 DEF Next, Work

LEMMA AccountedStep ==
  ASSUME TypeOK, TypeOK', [Next]_vars, NEW d \in Deliveries, Accounted(d), punctual = Workers,
         \A w \in Workers : AttemptAgrees(w) /\ Covered(w), \A e \in Deliveries : LeaseAgrees(e)
  PROVE  Accounted(d)'
<1>1. /\ delivered[d] \in Nat /\ late[d] \in Nat /\ unknown[d] \in Nat
      /\ delivered'[d] \in Nat /\ late'[d] \in Nat /\ unknown'[d] \in Nat
  BY DEF TypeOK
<1>2. ASSUME NEW w \in Workers, Succeeds(w, d) PROVE Accounted(d)'
  <2>1. pc[w] = "sending"
    BY <1>2 DEF Succeeds, Answer
  <2>2. ~Recorded(d)
    BY <1>2, <2>1, OneSuccess DEF Succeeds
  <2>3. Recorded(d)'
    <3>1. outcome'[w] = "success" /\ job' = job
      BY <1>2 DEF Succeeds, Answer, TypeOK
    <3> QED
      BY <1>2, <3>1 DEF Recorded, Succeeds
  <2> QED
    BY <1>1, <1>2, <2>2, <2>3 DEF Accounted, Succeeds
<1>3. CASE Balanced(d)
  <2>1. CASE Recorded(d)' \/ ~Recorded(d)
    BY <1>1, <1>3, <2>1 DEF Accounted, Balanced
  <2>2. CASE Recorded(d) /\ ~Recorded(d)'
    <3>1. PICK w \in Workers : /\ StatementFails(w) \/ Crash(w)
                               /\ outcome[w] = "success" /\ job[w].id = d
      BY <2>2, RecordedStays
    <3>2. pc[w] = "finish"
      BY <3>1 DEF AttemptAgrees
    <3>3. /\ delivered'[d] = delivered[d] /\ late'[d] = late[d] /\ unknown'[d] = unknown[d] + 1
      <4>1. unknown \in [Deliveries -> Nat]
        BY DEF TypeOK
      <4>2. CASE StatementFails(w)
        <5>1. /\ delivered' = delivered /\ late' = late
              /\ unknown' = Bump(unknown, w, outcome[w] = "success")
          BY <4>2 DEF StatementFails
        <5> QED
          BY <3>1, <4>1, <5>1 DEF Bump
      <4>3. CASE Crash(w)
        <5>1. /\ delivered' = delivered /\ late' = Bump(late, w, pc[w] = "sending")
              /\ unknown' = Bump(unknown, w, pc[w] = "sending" \/ outcome[w] = "success")
          BY <4>3 DEF Crash
        <5> QED
          BY <3>1, <3>2, <4>1, <5>1 DEF Bump
      <4> QED
        BY <3>1, <4>2, <4>3
    <3> QED
      BY <1>1, <3>3 DEF Accounted
  <2> QED
    BY <2>1, <2>2
<1> QED
  BY <1>2, <1>3, CountersChange

-----------------------------------------------------------------------------
(* The theorems *)

LEMMA DispatcherInit == Init => DispatcherInv
<1> SUFFICES ASSUME Init PROVE DispatcherInv
  OBVIOUS
<1>1. TypeOK
  BY InitType
<1>2. FailedAfterLast /\ \A d \in Deliveries : LeaseAgrees(d)
  BY DEF Init, FailedAfterLast, LeaseAgrees, NewRow
<1>3. \A w \in Workers : AttemptAgrees(w) /\ Covered(w) /\ ExpiredAgrees(w)
  BY DEF Init, AttemptAgrees, Covered, ExpiredAgrees
<1>4. \A d \in Deliveries : Accounted(d)
  BY DEF Init, Accounted
<1> QED
  BY <1>1, <1>2, <1>3, <1>4 DEF DispatcherInv, TypeOK

LEMMA DispatcherStep == DispatcherInv /\ [Next]_vars => DispatcherInv'
<1> SUFFICES ASSUME DispatcherInv, [Next]_vars PROVE DispatcherInv'
  OBVIOUS
<1> USE DEF DispatcherInv
<1>1. TypeOK'
  BY TypeStep
<1>2. FailedAfterLast'
  BY FailedStep
<1>3. \A d \in Deliveries : LeaseAgrees(d)'
  BY LeaseStep
<1>4. \A w \in Workers : AttemptAgrees(w)' /\ ExpiredAgrees(w)'
  BY AgreesStep, ExpiredStep
<1>5. punctual' = punctual
  BY DEF Next, Work, Trigger, Reap, Claim, EndTick, Load, RenewBeforeSend, Send, Answer, TimedOut,
         Finish, StatementFails, Crash, Stop, Down, Restart, Enqueue, LateAnswer, Tick, process, vars
<1>6. ASSUME NEW w \in punctual PROVE Covered(w)'
  BY <1>6, CoveredByItself, CoveredByOthers, MemoryChange DEF TypeOK
<1>7. ASSUME punctual = Workers, NEW d \in Deliveries PROVE Accounted(d)'
  BY <1>1, <1>7, AccountedStep
<1> QED
  BY <1>1, <1>2, <1>3, <1>4, <1>5, <1>6, <1>7

\* The inductive invariant holds for any set of healthy workers.
THEOREM DispatcherInvHolds == Spec => []DispatcherInv
<1>1. Init => DispatcherInv
  BY DispatcherInit
<1>2. DispatcherInv /\ [Next]_vars => DispatcherInv'
  BY DispatcherStep
<1> QED
  BY <1>1, <1>2, PTL DEF Spec

\* Every row, process and counter keeps its type; the wait of a row is a delay, whatever
\* backoffDelayMs computes for the attempt.
THEOREM Typing == Spec => []TypeOK
<1>1. DispatcherInv => TypeOK
  BY DEF DispatcherInv
<1> QED
  BY <1>1, DispatcherInvHolds, PTL

\* A row fails only after its last attempt, whoever writes it; two healthy workers are never
\* at the provider with one message; and if all are healthy, each duplicate the recipient got
\* goes with an attempt whose result was lost.
THEOREM AttemptsCounted == Spec => []AttemptsAreCounted
<1>1. DispatcherInv => AttemptsAreCounted
  <2> SUFFICES ASSUME DispatcherInv PROVE AttemptsAreCounted
    OBVIOUS
  <2> USE DEF DispatcherInv
  <2>1. NoOverlap
    BY DEF NoOverlap, Covered, OwnsAttempt
  <2>2. DuplicatesAreExplained
    <3> SUFFICES ASSUME punctual = Workers, NEW d \in Deliveries
                 PROVE  delivered[d] <= 1 + unknown[d]
      BY DEF DuplicatesAreExplained
    <3> QED
      BY CountersType DEF Accounted
  <2> QED
    BY <2>1, <2>2 DEF AttemptsAreCounted
<1> QED
  BY <1>1, DispatcherInvHolds, PTL

\* A healthy worker calls the provider only for a row that is still waiting for an outcome:
\* renewBeforeSend leaves no gap through which another worker could settle it.
THEOREM NeverSentAgain == Spec => HealthyNeverResend
<1>1. DispatcherInv => \A w \in punctual : NeverResends(w)
  BY DEF DispatcherInv, Covered, OwnsAttempt, NeverResends
<1> QED
  BY <1>1, DispatcherInvHolds, PTL DEF HealthyNeverResend

\* SENT and FAILED are final, and a live lease ends by its holder's own report only: for any
\* workers, those that may be paused anywhere included.
THEOREM SettledRowsStay == Spec => RowsStay
<1>1. ASSUME DispatcherInv, [Next]_vars, NEW d \in Deliveries
      PROVE  SettledStays(d) /\ LeaseIsExclusive(d)
  <2> USE <1>1 DEF DispatcherInv
  <2>1. SettledStays(d)
    <3> SUFFICES ASSUME row[d].status \in Settled
                 PROVE  row'[d].status = row[d].status /\ row'[d].attempts = row[d].attempts
      BY DEF SettledStays
    <3>1. ~Enqueued(d) /\ ~Reaped(d)
      BY DEF Enqueued, Reaped, Reapable, Settled
    <3>2. ASSUME NEW w \in Workers, Claimed(w, d) \/ Renewed(w, d) \/ Reported(w, d) PROVE FALSE
      BY <3>2, WorkersAssumption
      DEF Settled, Claimed, Claim, Claimable, Renewed, OwnsAttempt, Reported, HoldsToken, LeaseAgrees
    <3> QED
      BY <3>1, <3>2, RowChange DEF RowKept, Aged
  <2>2. LeaseIsExclusive(d)
    <3> SUFFICES ASSUME LeaseLive(d), row'[d].token # row[d].token
                 PROVE  LET w == row[d].token
                        IN  pc[w] = "finish" /\ job[w].id = d /\ pc'[w] = "claim"
      BY DEF LeaseIsExclusive
    <3>1. Reported(row[d].token, d)
      BY LiveLeaseStays DEF RowKept, Aged, Renewed
    <3>2. row[d].token \in Workers
      BY RowType DEF LeaseLive, DeliveryRow
    <3> QED
      BY <3>1, <3>2 DEF Reported, Finish, TypeOK
  <2> QED
    BY <2>1, <2>2
<1>2. DispatcherInv /\ [Next]_vars
        => [\A d \in Deliveries : SettledStays(d) /\ LeaseIsExclusive(d)]_vars
  BY <1>1
<1> QED
  BY <1>2, DispatcherInvHolds, PTL DEF RowsStay, Spec

-----------------------------------------------------------------------------
(* The locks of guests' rows *)

(* The statements of each kind, in ascending order of tables. *)
LEMMA PlanOrder ==
  ASSUME NEW kind \in Kinds
  PROVE  /\ Len(Plan(kind)) \in 1..5
         /\ \A i \in 1..Len(Plan(kind)) : Plan(kind)[i] \in 1..5
         /\ \A i, j \in 1..Len(Plan(kind)) : i < j => Plan(kind)[i] < Plan(kind)[j]
BY DEF Plan, Kinds, CONTACT, COPY, LOAN, CONFIRMATION, MEMBERS

LEMMA PlanOfContact ==
  ASSUME NEW kind \in {"lend", "patch", "confirm", "delete", "cleanup"}
  PROVE  /\ Plan(kind)[1] = CONTACT
         /\ \A i \in 2..Len(Plan(kind)) : Plan(kind)[i] # CONTACT
         /\ Len(Plan(kind)) >= 3
         /\ kind \in {"delete", "cleanup"} =>
              Len(Plan(kind)) = 4 /\ \A i \in 1..4 : Plan(kind)[i] = i
BY DEF Plan, CONTACT, COPY, LOAN, CONFIRMATION, MEMBERS

LEMMA PlanRows ==
  ASSUME NEW kind \in Kinds, NEW i \in 1..Len(Plan(kind))
  PROVE  /\ Plan(kind)[i] \in {COPY, MEMBERS} => kind \in {"lend", "patch", "confirm", "member", "delete", "cleanup", "none"}
         /\ Plan(kind)[i] \in {LOAN, CONFIRMATION} =>
              kind \in {"patch", "confirm", "code", "digest", "delete", "cleanup", "none"}
         /\ Plan(kind)[i] = MEMBERS => kind \in {"lend", "confirm", "member"}
BY DEF Plan, Kinds, CONTACT, COPY, LOAN, CONFIRMATION, MEMBERS

(* A statement finds rows of its table. *)
LEMMA FindsRows ==
  ASSUME LTypeOK, NEW p \in Txs, tx[p].kind # "none", NEW i \in 1..Len(Plan(tx[p].kind)),
         NEW rows \in Finds(p, Plan(tx[p].kind)[i])
  PROVE  rows \subseteq Rows /\ (Ordered(p) => \A r \in rows : r[1] = Plan(tx[p].kind)[i])
<1> DEFINE level == Plan(tx[p].kind)[i]
<1>1. tx[p].kind \in Kinds /\ tx[p].contacts \subseteq Contacts
  BY DEF LTypeOK, Transactions
<1>2. level \in 1..5
  BY <1>1, PlanOrder
<1>3. CASE Forgets(p) /\ level # CONTACT
  BY <1>2, <1>3 DEF Finds, Cascade, Rows, LTypeOK, CONTACT, COPY, LOAN, CONFIRMATION, MEMBERS
<1>4. CASE tx[p].kind = "digest"
  BY <1>4 DEF Finds, Forgets, Ordered, Rows, LTypeOK
<1>5. CASE ~(Forgets(p) /\ level # CONTACT) /\ tx[p].kind # "digest"
  <2>1. rows = CASE level = CONTACT -> {CONTACT} \X tx[p].contacts
                 [] level = COPY -> {<<COPY, tx[p].copy>>}
                 [] level = MEMBERS -> {<<MEMBERS, tx[p].copy>>}
                 [] OTHER -> {<<level, tx[p].loan>>}
    BY <1>5 DEF Finds
  <2>2. CASE level = CONTACT
    <3>1. rows = {CONTACT} \X tx[p].contacts
      BY <2>1, <2>2 DEF CONTACT, COPY, MEMBERS
    <3> QED BY <1>1, <2>2, <3>1 DEF Rows
  <2>3. CASE level \in {COPY, MEMBERS}
    <3>1. tx[p].copy \in Copies
      BY <1>1, <1>5, <2>3, PlanRows DEF LTypeOK, Transactions, Typed, Forgets, CONTACT, COPY, MEMBERS
    <3> QED BY <2>1, <2>3, <3>1 DEF Rows, CONTACT, COPY, MEMBERS
  <2>4. CASE level \in {LOAN, CONFIRMATION}
    <3>1. tx[p].loan \in Loans
      BY <1>1, <1>5, <2>4, PlanRows DEF LTypeOK, Transactions, Typed, Forgets, CONTACT, LOAN, CONFIRMATION
    <3> QED BY <2>1, <2>4, <3>1 DEF Rows, CONTACT, COPY, MEMBERS, LOAN, CONFIRMATION
  <2> QED BY <1>2, <2>2, <2>3, <2>4 DEF CONTACT, COPY, LOAN, CONFIRMATION, MEMBERS
<1> QED BY <1>3, <1>4, <1>5

(* The last of the rows that some transactions wait for. *)
LEMMA LastRow ==
  ASSUME LocksAssumption, NEW S, S # {}, NEW f \in [S -> Rows]
  PROVE  \E p \in S : \A q \in S : Rank[f[q]] <= Rank[f[p]]
<1> DEFINE T == {MaxRank - Rank[f[p]] : p \in S}
           R == OpToRel(<, Nat)
<1>1. \A p \in S : Rank[f[p]] \in 0..MaxRank /\ MaxRank \in Nat
  BY DEF LocksAssumption
<1>2. T \subseteq Nat /\ T # {}
  BY <1>1
<1>3. \A n, m \in Nat : n < m => <<n, m>> \in R
  BY DEF OpToRel
<1>4. IsWellFoundedOn(R, Nat)
  BY NatLessThanWellFounded
<1> HIDE DEF R
<1>5. \E m \in T : \A n \in T : ~(<<n, m>> \in R)
  <2> HIDE DEF T
  <2> QED BY <1>2, <1>4, WFMin
<1>6. PICK p \in S : \A n \in T : ~(<<n, MaxRank - Rank[f[p]]>> \in R)
  BY <1>5
<1>7. ASSUME NEW q \in S PROVE Rank[f[q]] <= Rank[f[p]]
  <2>1. MaxRank - Rank[f[q]] \in T /\ MaxRank - Rank[f[p]] \in T
    OBVIOUS
  <2>2. ~(MaxRank - Rank[f[q]] < MaxRank - Rank[f[p]])
    BY <1>2, <1>3, <1>6, <2>1
  <2> QED BY <1>1, <2>2
<1> QED BY <1>7

(* In that order nobody waits in a circle, but for the reminders. *)
THEOREM NoCircle ==
  ASSUME LocksAssumption, LTypeOK, InOrder
  PROVE  OnlyRemindersDeadlock
<1> SUFFICES ASSUME NEW S \in SUBSET Txs, Stuck(S), \A p \in S : Ordered(p)
             PROVE  FALSE
  BY DEF OnlyRemindersDeadlock
<1> DEFINE f == [p \in S |-> next[p]]
<1>1. \A p \in S : next[p] \in Rows /\ next[p] \in todo[p]
  BY DEF Stuck, WaitsFor, LTypeOK, InOrder, Orderly
<1>2. f \in [S -> Rows]
  BY <1>1
<1>3. PICK p \in S : \A q \in S : Rank[f[q]] <= Rank[f[p]]
  BY <1>2, LastRow DEF Stuck
<1>4. PICK q \in S : next[p] \in held[q]
  BY DEF Stuck, WaitsFor
<1>5. Rank[next[p]] < Rank[next[q]]
  BY <1>1, <1>4 DEF InOrder, Orderly
<1>6. Rank[next[p]] \in Int /\ Rank[next[q]] \in Int
  BY <1>1 DEF LocksAssumption
<1> QED BY <1>3, <1>5, <1>6

-----------------------------------------------------------------------------
(* The invariant: every action of it, conjunct by conjunct *)

(* What a transaction may begin with: nothing, or contacts it has locked already. *)
Opening(t, n, rows) ==
  /\ t \in Transactions /\ t.kind # "none" /\ Typed(t)
  /\ \/ n = 0 /\ rows = {}
     \/ /\ n = 1 /\ t.kind = "cleanup" /\ rows = {CONTACT} \X t.contacts
        /\ \A x \in t.contacts : x \in present /\ Free(<<CONTACT, x>>)
  /\ t.kind \in {"patch", "confirm"} => state[t.loan] # "NONE" /\ of[t.loan] \in t.contacts \cup {NULL}

LEMMA BeginStarts ==
  ASSUME LocksAssumption, LTypeOK, NEW p \in Txs, Begin(p)
  PROVE  \E t, n, rows : Start(p, t, n, rows) /\ Opening(t, n, rows)
<1>1. CASE BeginLend(p)
  <2>1. PICK x \in Contacts, c \in Copies :
           Start(p, [Idle EXCEPT !.kind = "lend", !.contacts = {x}, !.copy = c], 0, {})
    BY <1>1 DEF BeginLend
  <2>2. Opening([Idle EXCEPT !.kind = "lend", !.contacts = {x}, !.copy = c], 0, {})
    BY DEF Opening, Transactions, Kinds, Typed, Idle
  <2> QED BY <2>1, <2>2
<1>2. CASE BeginPatch(p)
  <2>1. PICK l \in Loans, kind \in {"patch", "confirm", "code"} :
           /\ state[l] # "NONE"
           /\ Start(p, [kind |-> kind, contacts |-> {of[l]} \ {NULL}, copy |-> CopyOf[l], loan |-> l], 0, {})
    BY <1>2 DEF BeginPatch
  <2>2. CopyOf[l] \in Copies /\ of[l] \in Contacts \cup {NULL}
    BY DEF LocksAssumption, LTypeOK
  <2>3. Opening([kind |-> kind, contacts |-> {of[l]} \ {NULL}, copy |-> CopyOf[l], loan |-> l], 0, {})
    BY <2>1, <2>2 DEF Opening, Transactions, Kinds, Typed
  <2> QED BY <2>1, <2>3
<1>3. CASE BeginMember(p)
  <2>1. PICK c \in Copies : Start(p, [Idle EXCEPT !.kind = "member", !.copy = c], 0, {})
    BY <1>3 DEF BeginMember
  <2>2. Opening([Idle EXCEPT !.kind = "member", !.copy = c], 0, {})
    BY DEF Opening, Transactions, Kinds, Typed, Idle
  <2> QED BY <2>1, <2>2
<1>4. CASE BeginDigest(p)
  <2>1. Opening([Idle EXCEPT !.kind = "digest"], 0, {})
    BY DEF Opening, Transactions, Kinds, Typed, Idle
  <2> QED BY <1>4, <2>1 DEF BeginDigest
<1>5. CASE BeginDelete(p)
  <2>1. PICK x \in Contacts : Start(p, [Idle EXCEPT !.kind = "delete", !.contacts = {x}], 0, {})
    BY <1>5 DEF BeginDelete
  <2>2. Opening([Idle EXCEPT !.kind = "delete", !.contacts = {x}], 0, {})
    BY DEF Opening, Transactions, Kinds, Typed, Idle
  <2> QED BY <2>1, <2>2
<1>6. CASE BeginCleanup(p)
  <2>1. PICK xs \in SUBSET {x \in present : Free(<<CONTACT, x>>) /\ OpenOf(x) = {}} :
           Start(p, [Idle EXCEPT !.kind = "cleanup", !.contacts = xs], 1, {CONTACT} \X xs)
    BY <1>6 DEF BeginCleanup
  <2>2. xs \subseteq Contacts /\ \A x \in xs : x \in present /\ Free(<<CONTACT, x>>)
    BY DEF LTypeOK
  <2>3. Opening([Idle EXCEPT !.kind = "cleanup", !.contacts = xs], 1, {CONTACT} \X xs)
    BY <2>2 DEF Opening, Transactions, Kinds, Typed, Idle
  <2> QED BY <2>1, <2>3
<1> QED BY <1>1, <1>2, <1>3, <1>4, <1>5, <1>6 DEF Begin

(* A statement adds the rows of its table to what is to lock, and waits for one of them. *)
LEMMA StatementFinds ==
  ASSUME LocksAssumption, LTypeOK, NEW p \in Txs, Statement(p)
  PROVE  LET level == Plan(tx[p].kind)[at[p] + 1]
         IN /\ tx[p].kind # "none" /\ todo[p] = {} /\ at'[p] = at[p] + 1
            /\ at[p] + 1 \in 1..Len(Plan(tx[p].kind)) /\ at[p] + 1 \in 1..5 /\ level \in 1..5
            /\ todo'[p] \in Finds(p, level) /\ next'[p] \in First(p, todo'[p])
            /\ todo'[p] \subseteq Rows /\ (Ordered(p) => \A r \in todo'[p] : r[1] = level)
            /\ todo' = [todo EXCEPT ![p] = todo'[p]] /\ next' = [next EXCEPT ![p] = next'[p]]
            /\ at' = [at EXCEPT ![p] = at[p] + 1]
<1> DEFINE level == Plan(tx[p].kind)[at[p] + 1]
<1>1. tx[p].kind # "none" /\ tx[p].kind \in Kinds /\ todo[p] = {} /\ at[p] \in 0..5
  BY DEF Statement, Ready, LTypeOK, Typed, Transactions
<1>2. at[p] + 1 \in 1..Len(Plan(tx[p].kind)) /\ at[p] + 1 \in 1..5
  <2>1. Len(Plan(tx[p].kind)) \in 1..5
    BY <1>1, PlanOrder
  <2> QED BY <1>1, <2>1 DEF Statement
<1>3. level \in 1..5
  BY <1>1, <1>2, PlanOrder
<1>4. PICK rows \in Finds(p, level) : \E r \in First(p, rows) :
         todo' = [todo EXCEPT ![p] = rows] /\ next' = [next EXCEPT ![p] = r]
  BY Zenon DEF Statement
<1> PICK r \in First(p, rows) :
         todo' = [todo EXCEPT ![p] = rows] /\ next' = [next EXCEPT ![p] = r]
  BY <1>4
<1>5. todo'[p] = rows /\ next'[p] = r
  BY DEF LTypeOK
<1>6. rows \subseteq Rows /\ (Ordered(p) => \A s \in rows : s[1] = level)
  BY <1>1, <1>2, FindsRows
<1>7. at' = [at EXCEPT ![p] = at[p] + 1] /\ at'[p] = at[p] + 1
  BY DEF Statement, LTypeOK
<1> QED BY <1>1, <1>2, <1>3, <1>4, <1>5, <1>6, <1>7

LEMMA LockMoves ==
  ASSUME LTypeOK, NEW p \in Txs, Lock(p)
  PROVE  /\ next[p] \in Rows /\ Free(next[p]) /\ next'[p] \in First(p, todo[p] \ {next[p]})
         /\ next' = [next EXCEPT ![p] = next'[p]]
         /\ todo' = [todo EXCEPT ![p] = todo[p] \ {next[p]}]
         /\ \/ Gone(next[p]) /\ tx[p].kind \in {"patch", "confirm"} /\ held' = held
            \/ ~Gone(next[p]) /\ held' = [held EXCEPT ![p] = held[p] \cup {next[p]}]
BY DEF Lock, LTypeOK

(* Whatever ends, ends without a trace among the locks. *)
LEMMA OtherEnds ==
  ASSUME NEW p \in Txs, Commit(p) \/ Rollback(p)
  PROVE  End(p)
BY DEF Commit, CommitLend, CommitPatch, CommitOther, CommitForget, Rollback

LEMMA TypeKept ==
  ASSUME LocksAssumption, LTypeOK, InOrder, [LNext]_lvars
  PROVE  LTypeOK'
<1>1. CASE UNCHANGED lvars
  BY <1>1 DEF LTypeOK, lvars, data
<1>2. ASSUME NEW p \in Txs, Begin(p) PROVE LTypeOK'
  <2>1. PICK t, n, rows : Start(p, t, n, rows) /\ Opening(t, n, rows)
    BY <1>2, BeginStarts
  <2>2. t \in Transactions /\ Typed(t) /\ n \in 0..5 /\ rows \subseteq Rows
    BY <2>1 DEF Opening, Transactions, Rows
  <2> QED BY <2>1, <2>2 DEF Start, LTypeOK, data
<1>3. ASSUME NEW p \in Txs, Statement(p) PROVE LTypeOK'
  <2>1. next'[p] \in Rows \cup {NULL}
    BY <1>3, StatementFinds DEF First
  <2>2. /\ at[p] + 1 \in 0..5 /\ at' = [at EXCEPT ![p] = at[p] + 1]
        /\ todo'[p] \in SUBSET Rows /\ todo' = [todo EXCEPT ![p] = todo'[p]]
        /\ next' = [next EXCEPT ![p] = next'[p]]
    BY <1>3, StatementFinds
  <2>3. at' \in [Txs -> 0..5]
    BY <2>2 DEF LTypeOK
  <2>4. todo' \in [Txs -> SUBSET Rows]
    BY <2>2 DEF LTypeOK
  <2>5. next' \in [Txs -> Rows \cup {NULL}]
    BY <2>1, <2>2 DEF LTypeOK
  <2> QED BY <1>3, <2>3, <2>4, <2>5 DEF Statement, LTypeOK, data
<1>4. ASSUME NEW p \in Txs, Lock(p) PROVE LTypeOK'
  <2>1. next'[p] \in Rows \cup {NULL}
    BY <1>4, LockMoves DEF First, LTypeOK
  <2> QED BY <1>4, <2>1, LockMoves DEF Lock, LTypeOK, data
<1>5. ASSUME NEW p \in Txs, Commit(p) \/ Rollback(p) PROVE LTypeOK'
  <2>1. /\ present' \subseteq Contacts /\ confirmations' \subseteq Loans
        /\ state' \in [Loans -> {"NONE", "OPEN", "CLOSED"}] /\ of' \in [Loans -> Contacts \cup {NULL}]
        /\ heldBy' \in [Copies -> Contacts \cup {NULL}]
    <3>1. CASE CommitLend(p)
      <4>1. PICK l \in Loans, x \in tx[p].contacts :
              /\ state' = [state EXCEPT ![l] = "OPEN"] /\ of' = [of EXCEPT ![l] = x]
              /\ confirmations' \in {confirmations, confirmations \cup {l}}
              /\ heldBy' = [heldBy EXCEPT ![tx[p].copy] = x]
        BY <3>1 DEF CommitLend
      <4>2. x \in Contacts
        BY DEF LTypeOK, Transactions
      <4> QED BY <3>1, <4>1, <4>2 DEF CommitLend, LTypeOK
    <3>2. CASE CommitPatch(p)
      BY <3>2 DEF CommitPatch, LTypeOK
    <3>3. CASE CommitOther(p) \/ Rollback(p)
      BY <3>3 DEF CommitOther, Rollback, LTypeOK, data
    <3>4. CASE CommitForget(p)
      BY <3>4 DEF CommitForget, LTypeOK
    <3> QED BY <1>5, <3>1, <3>2, <3>3, <3>4 DEF Commit
  <2>2. Idle \in Transactions /\ Typed(Idle)
    BY DEF Idle, Transactions, Typed, Kinds
  <2> QED BY <1>5, <2>1, <2>2, OtherEnds DEF End, LTypeOK
<1> QED BY <1>1, <1>2, <1>3, <1>4, <1>5 DEF LNext

LEMMA OthersKeep ==
  ASSUME LTypeOK, NEW p \in Txs, NEW q \in Txs, p # q,
         Begin(p) \/ Statement(p) \/ Lock(p) \/ Commit(p) \/ Rollback(p)
  PROVE  /\ tx'[q] = tx[q] /\ at'[q] = at[q] /\ todo'[q] = todo[q]
         /\ next'[q] = next[q] /\ held'[q] = held[q]
<1>1. ASSUME NEW t, NEW n, NEW rows, Start(p, t, n, rows)
      PROVE  /\ tx'[q] = tx[q] /\ at'[q] = at[q] /\ todo'[q] = todo[q]
             /\ next'[q] = next[q] /\ held'[q] = held[q]
  BY <1>1 DEF Start, LTypeOK
<1>2. CASE Begin(p)
  BY <1>1, <1>2 DEF Begin, BeginLend, BeginPatch, BeginMember, BeginDigest, BeginDelete, BeginCleanup
<1>3. CASE Statement(p)
  BY <1>3 DEF Statement, LTypeOK
<1>4. CASE Lock(p)
  BY <1>4 DEF Lock, LTypeOK
<1>5. CASE Commit(p) \/ Rollback(p)
  BY <1>5, OtherEnds DEF End, LTypeOK
<1> QED BY <1>2, <1>3, <1>4, <1>5

LEMMA OrderKept ==
  ASSUME LocksAssumption, LTypeOK, InOrder, [LNext]_lvars
  PROVE  InOrder'
<1>1. CASE UNCHANGED lvars
  BY <1>1 DEF InOrder, Orderly, Ordered, lvars, data
<1>2. ASSUME NEW p \in Txs, NEW q \in Txs, p # q,
             Begin(p) \/ Statement(p) \/ Lock(p) \/ Commit(p) \/ Rollback(p)
      PROVE  Orderly(q)'
  BY <1>2, OthersKeep DEF InOrder, Orderly, Ordered
<1>3. ASSUME NEW p \in Txs, Begin(p) PROVE Orderly(p)'
  <2>1. PICK t, n, rows : Start(p, t, n, rows) /\ Opening(t, n, rows)
    BY <1>3, BeginStarts
  <2>2. todo'[p] = {} /\ next'[p] = NULL
    BY <2>1 DEF Start, InOrder, Orderly
  <2>3. tx'[p] = t /\ at'[p] = n /\ held'[p] = rows
    BY <2>1 DEF Start, LTypeOK
  <2>4. t.kind \in Kinds /\ t # Idle /\ Len(Plan(t.kind)) \in 1..5
    BY <2>1, PlanOrder DEF Opening, Transactions, Idle
  <2>5. CASE n = 0 /\ rows = {}
    BY <2>2, <2>3, <2>4, <2>5 DEF Orderly, Ordered
  <2>6. CASE n = 1 /\ t.kind = "cleanup" /\ rows = {CONTACT} \X t.contacts
    <3>1. Plan(t.kind)[1] = CONTACT
      BY <2>6, PlanOfContact
    <3>2. \A h \in rows : h[1] = CONTACT /\ CONTACT <= CONTACT
      BY <2>6 DEF CONTACT
    <3> QED BY <2>2, <2>3, <2>4, <2>6, <3>1, <3>2 DEF Orderly, Ordered
  <2> QED BY <2>1, <2>5, <2>6 DEF Opening
<1>4. ASSUME NEW p \in Txs, Statement(p) PROVE Orderly(p)'
  <2> DEFINE level == Plan(tx[p].kind)[at[p] + 1]
  <2>1. /\ tx[p].kind # "none" /\ at'[p] = at[p] + 1 /\ at[p] + 1 \in 1..5 /\ level \in 1..5
        /\ at[p] + 1 <= Len(Plan(tx[p].kind)) /\ next'[p] \in First(p, todo'[p])
        /\ todo'[p] \subseteq Rows /\ (Ordered(p) => \A r \in todo'[p] : r[1] = level)
    BY <1>4, StatementFinds
  <2>2. tx'[p] = tx[p] /\ held'[p] = held[p] /\ tx[p].kind \in Kinds /\ held[p] \subseteq Rows /\ tx[p] # Idle
    BY <1>4 DEF Statement, Ready, LTypeOK, Transactions
  <2>3. next'[p] \in todo'[p] \cup {NULL} /\ (todo'[p] # {} => next'[p] # NULL)
    BY <2>1 DEF First, LocksAssumption
  <2>4. Ordered(p) => \A r \in todo'[p] : next'[p] # NULL => Rank[next'[p]] <= Rank[r]
    BY <2>1 DEF First
  <2>5. Ordered(p) => \A h \in held[p] : h[1] <= level /\ \A r \in todo'[p] : Rank[h] < Rank[r]
    <3> SUFFICES ASSUME Ordered(p), NEW h \in held[p]
                 PROVE  h[1] <= level /\ \A r \in todo'[p] : Rank[h] < Rank[r]
      OBVIOUS
    <3>1. at[p] # 0 /\ h[1] <= Plan(tx[p].kind)[at[p]] /\ h \in Rows /\ h[1] \in 1..5
      BY <2>2 DEF InOrder, Orderly, Rows, CONTACT, COPY, LOAN, CONFIRMATION, MEMBERS
    <3>2. Plan(tx[p].kind)[at[p]] < level /\ Plan(tx[p].kind)[at[p]] \in 1..5
      <4>1. at[p] \in 1..Len(Plan(tx[p].kind)) /\ at[p] + 1 \in 1..Len(Plan(tx[p].kind)) /\ at[p] < at[p] + 1
        <5>1. Len(Plan(tx[p].kind)) \in 1..5 /\ at[p] \in 0..5
          BY <2>2, PlanOrder DEF LTypeOK
        <5> QED BY <2>1, <3>1, <5>1
      <4> QED BY <2>2, <4>1, PlanOrder
    <3>3. h[1] < level
      BY <2>1, <3>1, <3>2
    <3> QED BY <2>1, <3>1, <3>3 DEF LocksAssumption
  <2>6. Ordered(p)' <=> Ordered(p)
    BY <2>2 DEF Ordered
  <2> QED BY <2>1, <2>2, <2>3, <2>4, <2>5, <2>6 DEF Orderly
<1>5. ASSUME NEW p \in Txs, Lock(p) PROVE Orderly(p)'
  <2>1. /\ next[p] \in Rows /\ todo'[p] = todo[p] \ {next[p]} /\ tx'[p] = tx[p] /\ at'[p] = at[p]
        /\ next'[p] \in First(p, todo'[p]) /\ held'[p] \subseteq held[p] \cup {next[p]}
    <3>1. todo'[p] = todo[p] \ {next[p]} /\ tx'[p] = tx[p] /\ at'[p] = at[p]
      BY <1>5 DEF Lock, LTypeOK
    <3>2. held'[p] \subseteq held[p] \cup {next[p]}
      BY <1>5, LockMoves DEF LTypeOK
    <3> QED BY <1>5, <3>1, <3>2, LockMoves
  <2>2. Orderly(p) /\ next[p] \in todo[p] /\ todo[p] \subseteq Rows /\ held[p] \subseteq Rows /\ next[p] # NULL
    BY <1>5 DEF InOrder, Orderly, Lock, LTypeOK
  <2>3. next'[p] \in todo'[p] \cup {NULL} /\ (todo'[p] # {} => next'[p] # NULL)
    BY <2>1, <2>2 DEF First, LocksAssumption
  <2>4. Ordered(p) => \A r \in todo'[p] : next'[p] # NULL => Rank[next'[p]] <= Rank[r]
    BY <2>1 DEF First
  <2>5. Ordered(p) => \A r \in todo'[p] : Rank[next[p]] < Rank[r]
    <3> SUFFICES ASSUME Ordered(p), NEW r \in todo'[p] PROVE Rank[next[p]] < Rank[r]
      OBVIOUS
    <3>1. r \in todo[p] /\ r # next[p] /\ Rank[next[p]] <= Rank[r]
      BY <2>1, <2>2 DEF Orderly
    <3>2. Rank[next[p]] \in Int /\ Rank[r] \in Int /\ Rank[next[p]] # Rank[r]
      BY <2>1, <2>2, <3>1 DEF LocksAssumption
    <3> QED BY <3>1, <3>2
  <2>6. Ordered(p) => next[p][1] <= Plan(tx[p].kind)[at[p]]
    BY <2>1, <2>2 DEF Orderly, Rows, CONTACT, COPY, LOAN, CONFIRMATION, MEMBERS
  <2>7. Ordered(p)' <=> Ordered(p)
    BY <2>1 DEF Ordered
  <2> QED BY <2>1, <2>2, <2>3, <2>4, <2>5, <2>6, <2>7 DEF Orderly
<1>6. ASSUME NEW p \in Txs, Commit(p) \/ Rollback(p) PROVE Orderly(p)'
  <2>1. tx'[p] = Idle /\ at'[p] = 0 /\ todo'[p] = {} /\ next'[p] = NULL /\ held'[p] = {}
    BY <1>6, OtherEnds DEF End, LTypeOK
  <2>2. Len(Plan(Idle.kind)) \in 1..5
    BY PlanOrder DEF Idle, Kinds
  <2> QED BY <2>1, <2>2 DEF Orderly
<1> QED BY <1>1, <1>2, <1>3, <1>4, <1>5, <1>6 DEF LNext, InOrder

LEMMA HeldOnceKept ==
  ASSUME LocksAssumption, LTypeOK, InOrder, HeldOnce, [LNext]_lvars
  PROVE  HeldOnce'
<1>1. CASE UNCHANGED lvars
  BY <1>1 DEF HeldOnce, lvars, data
<1>2. ASSUME NEW p \in Txs, Begin(p) \/ Statement(p) \/ Lock(p) \/ Commit(p) \/ Rollback(p),
             \A q \in Txs \ {p} : held'[p] \cap held[q] = {}
      PROVE  HeldOnce'
  BY <1>2, OthersKeep DEF HeldOnce
<1>3. ASSUME NEW p \in Txs, Begin(p) PROVE HeldOnce'
  <2>1. PICK t, n, rows : Start(p, t, n, rows) /\ Opening(t, n, rows)
    BY <1>3, BeginStarts
  <2>2. held'[p] = rows
    BY <2>1 DEF Start, LTypeOK
  <2>3. \A q \in Txs \ {p} : rows \cap held[q] = {}
    BY <2>1 DEF Opening, Free
  <2> QED BY <1>2, <1>3, <2>2, <2>3
<1>4. ASSUME NEW p \in Txs, Statement(p) PROVE HeldOnce'
  BY <1>2, <1>4 DEF Statement, HeldOnce
<1>5. ASSUME NEW p \in Txs, Lock(p) PROVE HeldOnce'
  <2>1. /\ Free(next[p])
        /\ held' = held \/ held' = [held EXCEPT ![p] = held[p] \cup {next[p]}]
    BY <1>5, LockMoves
  <2>2. held'[p] \subseteq held[p] \cup {next[p]}
    BY <2>1 DEF LTypeOK
  <2>3. \A q \in Txs \ {p} : held'[p] \cap held[q] = {}
    BY <2>1, <2>2 DEF HeldOnce, Free
  <2> QED BY <1>2, <1>5, <2>3
<1>6. ASSUME NEW p \in Txs, Commit(p) \/ Rollback(p) PROVE HeldOnce'
  <2>1. held'[p] = {}
    BY <1>6, OtherEnds DEF End, LTypeOK
  <2> QED BY <1>2, <1>6, <2>1
<1> QED BY <1>1, <1>3, <1>4, <1>5, <1>6 DEF LNext

-----------------------------------------------------------------------------
(* What is written while a transaction waits *)

(* A transaction past its first statement has locked its contacts, as far as they exist. *)
LEMMA ContactsHeld ==
  ASSUME LTypeOK, InOrder, ContactsFirst, NEW p \in Txs, NEW x \in tx[p].contacts,
         tx[p].kind \in {"lend", "patch", "confirm", "delete", "cleanup"},
         at[p] >= 2 \/ (at[p] >= 1 /\ todo[p] = {})
  PROVE  \/ <<CONTACT, x>> \in held[p]
         \/ tx[p].kind \in {"patch", "confirm"} /\ x \notin present
<1>1. CASE at[p] >= 1 /\ todo[p] = {}
  BY <1>1 DEF ContactsFirst, ContactsLocked
<1>2. CASE at[p] >= 2
  <2>1. at[p] \in 2..Len(Plan(tx[p].kind))
    <3>1. Len(Plan(tx[p].kind)) \in 1..5 /\ at[p] \in 0..5
      BY PlanOrder DEF LTypeOK, Transactions
    <3> QED BY <1>2, <3>1 DEF InOrder, Orderly
  <2>2. Plan(tx[p].kind)[at[p]] # CONTACT
    BY <2>1, PlanOfContact
  <2>3. <<CONTACT, x>> \notin todo[p]
    BY <2>2 DEF InOrder, Orderly, Ordered
  <2>4. at[p] >= 1
    BY <1>2 DEF LTypeOK
  <2> QED BY <2>3, <2>4 DEF ContactsFirst, ContactsLocked
<1> QED BY <1>1, <1>2

(* A loan and the place of a copy are only ever set to a contact that the lender holds. *)
LEMMA LenderHolds ==
  ASSUME LTypeOK, InOrder, ContactsFirst, NEW p \in Txs, CommitLend(p)
  PROVE  \E l \in Loans, x \in present :
           /\ <<CONTACT, x>> \in held[p] /\ state[l] = "NONE"
           /\ state' = [state EXCEPT ![l] = "OPEN"] /\ of' = [of EXCEPT ![l] = x]
           /\ confirmations' \in {confirmations, confirmations \cup {l}}
           /\ heldBy' = [heldBy EXCEPT ![tx[p].copy] = x] /\ tx[p].copy \in Copies
           /\ present' = present
<1>1. PICK l \in Loans, x \in tx[p].contacts :
        /\ state[l] = "NONE"
        /\ state' = [state EXCEPT ![l] = "OPEN"] /\ of' = [of EXCEPT ![l] = x]
        /\ confirmations' \in {confirmations, confirmations \cup {l}}
        /\ heldBy' = [heldBy EXCEPT ![tx[p].copy] = x]
  BY DEF CommitLend
<1>2. tx[p].kind = "lend" /\ todo[p] = {} /\ at[p] = 3 /\ tx[p].copy \in Copies /\ present' = present
  BY DEF CommitLend, Complete, Ready, Plan, LTypeOK, Typed
<1>3. <<CONTACT, x>> \in held[p]
  BY <1>2, ContactsHeld
<1>4. x \in present
  BY <1>3 DEF ContactsFirst, Gone
<1> QED BY <1>1, <1>2, <1>3, <1>4

(* Who deletes contacts holds them. *)
LEMMA ForgetterHolds ==
  ASSUME LTypeOK, InOrder, ContactsFirst, NEW p \in Txs, CommitForget(p)
  PROVE  \E xs \in SUBSET tx[p].contacts :
           /\ \A x \in xs : <<CONTACT, x>> \in held[p]
           /\ present' = present \ xs
           /\ of' = [l \in Loans |-> IF of[l] \in xs THEN NULL ELSE of[l]]
           /\ heldBy' = [c \in Copies |-> IF heldBy[c] \in xs THEN NULL ELSE heldBy[c]]
           /\ state' = state /\ confirmations' = confirmations
<1>1. tx[p].kind \in {"delete", "cleanup"} /\ todo[p] = {} /\ at[p] = Len(Plan(tx[p].kind))
  BY DEF CommitForget, Complete, Ready, Forgets
<1>2. at[p] >= 1
  BY <1>1, PlanOfContact
<1>3. \A x \in tx[p].contacts : <<CONTACT, x>> \in held[p]
  BY <1>1, <1>2, ContactsHeld
<1> QED BY <1>3 DEF CommitForget

LEMMA DataKept ==
  ASSUME NEW p \in Txs, Begin(p) \/ Statement(p) \/ Lock(p) \/ CommitOther(p) \/ Rollback(p)
  PROVE  UNCHANGED data
<1>1. ASSUME NEW t, NEW n, NEW rows, Start(p, t, n, rows) PROVE UNCHANGED data
  BY <1>1 DEF Start
<1>2. CASE Begin(p)
  BY <1>1, <1>2 DEF Begin, BeginLend, BeginPatch, BeginMember, BeginDigest, BeginDelete, BeginCleanup
<1> QED BY <1>2 DEF Statement, Lock, CommitOther, Rollback

LEMMA PatchWrites ==
  ASSUME NEW p \in Txs, CommitPatch(p)
  PROVE  /\ present' = present /\ of' = of /\ confirmations' = confirmations
         /\ heldBy' \in {heldBy, [heldBy EXCEPT ![tx[p].copy] = NULL]}
         /\ state' \in {state, [state EXCEPT ![tx[p].loan] = "CLOSED"]}
BY DEF CommitPatch

LEMMA ContactsFirstKept ==
  ASSUME LocksAssumption, LTypeOK, InOrder, HeldOnce, ContactsFirst, [LNext]_lvars
  PROVE  ContactsFirst'
<1>1. CASE UNCHANGED lvars
  BY <1>1 DEF ContactsFirst, ContactsLocked, Gone, lvars, data
<1>2. \A p \in Txs : ContactsLocked(p) /\ \A h \in held[p] : ~Gone(h)
  BY DEF ContactsFirst
(* What the others hold stays, and so do the contacts they hold. *)
<1>3. ASSUME NEW p \in Txs, Begin(p) \/ Statement(p) \/ Lock(p) \/ Commit(p) \/ Rollback(p),
             present' \subseteq present,
             \A q \in Txs \ {p} : \A h \in held[q] : ~Gone(h)',
             ContactsLocked(p)', \A h \in held'[p] : ~Gone(h)',
             \A l \in Loans : of'[l] \in present' \cup {NULL},
             \A c \in Copies : heldBy'[c] \in present' \cup {NULL}
      PROVE  ContactsFirst'
  <2>1. ASSUME NEW q \in Txs, q # p PROVE ContactsLocked(q)' /\ \A h \in held'[q] : ~Gone(h)'
    <3>1. tx'[q] = tx[q] /\ at'[q] = at[q] /\ todo'[q] = todo[q] /\ held'[q] = held[q]
      BY <1>3, <2>1, OthersKeep
    <3> QED BY <1>2, <1>3, <2>1, <3>1 DEF ContactsLocked
  <2> QED BY <1>3, <2>1 DEF ContactsFirst
<1>4. ASSUME NEW p \in Txs, Begin(p) \/ Statement(p) \/ Lock(p) \/ CommitOther(p) \/ Rollback(p),
             ContactsLocked(p)', \A h \in held'[p] : ~Gone(h)
      PROVE  ContactsFirst'
  <2>1. UNCHANGED data
    BY <1>4, DataKept
  <2> QED BY <1>2, <1>3, <1>4, <2>1 DEF data, ContactsFirst, Gone, Commit
<1>5. ASSUME NEW p \in Txs, Begin(p) PROVE ContactsFirst'
  <2>1. PICK t, n, rows : Start(p, t, n, rows) /\ Opening(t, n, rows)
    BY <1>5, BeginStarts
  <2>2. tx'[p] = t /\ at'[p] = n /\ held'[p] = rows /\ todo' = todo
    BY <2>1 DEF Start, LTypeOK
  <2>3. ContactsLocked(p)'
    BY <2>1, <2>2 DEF Opening, ContactsLocked
  <2>4. \A h \in held'[p] : ~Gone(h)
    BY <2>1, <2>2 DEF Opening, Gone
  <2> QED BY <1>4, <1>5, <2>3, <2>4
<1>6. ASSUME NEW p \in Txs, Statement(p) PROVE ContactsFirst'
  <2>1. tx' = tx /\ held' = held /\ present' = present
    BY <1>6 DEF Statement, data
  <2>2. /\ tx[p].kind # "none" /\ todo[p] = {} /\ at'[p] = at[p] + 1 /\ at[p] + 1 \in 1..5
        /\ todo'[p] \in Finds(p, Plan(tx[p].kind)[at[p] + 1])
    BY <1>6, StatementFinds
  <2>3. ContactsLocked(p)'
    <3> SUFFICES ASSUME tx[p].kind \in {"lend", "patch", "confirm", "delete", "cleanup"},
                        NEW x \in tx[p].contacts
                 PROVE  \/ <<CONTACT, x>> \in held[p] \cup todo'[p]
                        \/ tx[p].kind \in {"patch", "confirm"} /\ x \notin present
      BY <2>1 DEF ContactsLocked
    <3>1. CASE at[p] = 0
      <4>1. Plan(tx[p].kind)[1] = CONTACT
        BY PlanOfContact
      <4>2. todo'[p] \in Finds(p, CONTACT)
        BY <2>2, <3>1, <4>1
      <4>3. todo'[p] = {CONTACT} \X tx[p].contacts
        BY <4>2 DEF Finds, CONTACT, COPY, MEMBERS
      <4> QED BY <4>3
    <3>2. CASE at[p] >= 1
      BY <2>2, <3>2, ContactsHeld
    <3> QED BY <2>2, <3>1, <3>2 DEF LTypeOK
  <2> QED BY <1>2, <1>4, <1>6, <2>1, <2>3
<1>7. ASSUME NEW p \in Txs, Lock(p) PROVE ContactsFirst'
  <2>1. tx' = tx /\ at' = at /\ present' = present
    BY <1>7 DEF Lock, data
  <2>2. todo'[p] = todo[p] \ {next[p]}
    BY <1>7, LockMoves DEF LTypeOK
  <2>3. \/ Gone(next[p]) /\ tx[p].kind \in {"patch", "confirm"} /\ held'[p] = held[p]
        \/ ~Gone(next[p]) /\ held'[p] = held[p] \cup {next[p]}
    BY <1>7, LockMoves DEF LTypeOK
  <2>4. ContactsLocked(p)'
    <3> SUFFICES ASSUME tx[p].kind \in {"lend", "patch", "confirm", "delete", "cleanup"}, at[p] >= 1,
                        NEW x \in tx[p].contacts
                 PROVE  \/ <<CONTACT, x>> \in held'[p] \cup todo'[p]
                        \/ tx[p].kind \in {"patch", "confirm"} /\ x \notin present
      BY <2>1 DEF ContactsLocked
    <3>1. \/ <<CONTACT, x>> \in held[p] \cup todo[p]
          \/ tx[p].kind \in {"patch", "confirm"} /\ x \notin present
      BY <1>2 DEF ContactsLocked
    <3>2. CASE next[p] = <<CONTACT, x>>
      BY <2>3, <3>2 DEF Gone
    <3>3. CASE next[p] # <<CONTACT, x>>
      BY <2>2, <2>3, <3>1, <3>3
    <3> QED BY <3>2, <3>3
  <2> QED BY <1>2, <1>4, <1>7, <2>3, <2>4
<1>8. ASSUME NEW p \in Txs, End(p)
      PROVE  ContactsLocked(p)' /\ held'[p] = {}
  <2>1. held'[p] = {} /\ at'[p] = 0
    BY <1>8 DEF End, LTypeOK
  <2> QED BY <2>1 DEF ContactsLocked
<1>9. ASSUME NEW p \in Txs, CommitOther(p) \/ Rollback(p) PROVE ContactsFirst'
  <2>1. End(p)
    BY <1>9, OtherEnds DEF Commit
  <2> QED BY <1>4, <1>8, <1>9, <2>1
<1>10. ASSUME NEW p \in Txs, CommitLend(p) PROVE ContactsFirst'
  <2>1. End(p)
    BY <1>10, OtherEnds DEF Commit
  <2>2. PICK l \in Loans, x \in present :
          /\ <<CONTACT, x>> \in held[p] /\ state[l] = "NONE"
          /\ state' = [state EXCEPT ![l] = "OPEN"] /\ of' = [of EXCEPT ![l] = x]
          /\ confirmations' \in {confirmations, confirmations \cup {l}}
          /\ heldBy' = [heldBy EXCEPT ![tx[p].copy] = x] /\ tx[p].copy \in Copies
          /\ present' = present
    BY <1>10, LenderHolds
  <2>3. \A k \in Loans : of'[k] \in present' \cup {NULL}
    BY <2>2 DEF ContactsFirst, LTypeOK
  <2>4. \A c \in Copies : heldBy'[c] \in present' \cup {NULL}
    BY <2>2 DEF ContactsFirst, LTypeOK
  <2> QED BY <1>2, <1>3, <1>8, <1>10, <2>1, <2>2, <2>3, <2>4 DEF Commit, Gone
<1>11. ASSUME NEW p \in Txs, CommitPatch(p) PROVE ContactsFirst'
  <2>1. End(p)
    BY <1>11, OtherEnds DEF Commit
  <2>2. /\ present' = present /\ of' = of
        /\ heldBy' \in {heldBy, [heldBy EXCEPT ![tx[p].copy] = NULL]}
    BY <1>11, PatchWrites
  <2>3. \A c \in Copies : heldBy'[c] \in present' \cup {NULL}
    BY <2>2 DEF ContactsFirst, LTypeOK
  <2>4. \A l \in Loans : of'[l] \in present' \cup {NULL}
    BY <2>2 DEF ContactsFirst
  <2> QED BY <1>2, <1>3, <1>8, <1>11, <2>1, <2>2, <2>3, <2>4 DEF Commit, Gone
<1>12. ASSUME NEW p \in Txs, CommitForget(p) PROVE ContactsFirst'
  <2>1. End(p)
    BY <1>12, OtherEnds DEF Commit
  <2>2. PICK xs \in SUBSET tx[p].contacts :
          /\ \A x \in xs : <<CONTACT, x>> \in held[p]
          /\ present' = present \ xs
          /\ of' = [l \in Loans |-> IF of[l] \in xs THEN NULL ELSE of[l]]
          /\ heldBy' = [c \in Copies |-> IF heldBy[c] \in xs THEN NULL ELSE heldBy[c]]
    BY <1>12, ForgetterHolds
  <2>3. \A q \in Txs \ {p} : \A h \in held[q] : ~Gone(h)'
    <3> SUFFICES ASSUME NEW q \in Txs \ {p}, NEW h \in held[q], h[1] = CONTACT
                 PROVE  h[2] \in present'
      BY DEF Gone
    <3>1. h \in Rows /\ h[2] \in present
      BY <1>2 DEF LTypeOK, Gone
    <3>2. h = <<CONTACT, h[2]>>
      BY <3>1 DEF Rows, CONTACT, COPY, LOAN, CONFIRMATION, MEMBERS
    <3>3. h \notin held[p]
      BY DEF HeldOnce
    <3> QED BY <2>2, <3>1, <3>2, <3>3
  <2>4. \A l \in Loans : of'[l] \in present' \cup {NULL}
    BY <2>2 DEF ContactsFirst
  <2>5. \A c \in Copies : heldBy'[c] \in present' \cup {NULL}
    BY <2>2 DEF ContactsFirst
  <2> QED BY <1>3, <1>8, <1>12, <2>1, <2>2, <2>3, <2>4, <2>5 DEF Commit
<1> QED BY <1>1, <1>5, <1>6, <1>7, <1>9, <1>10, <1>11, <1>12 DEF LNext, Commit

LEMMA CascadeKept ==
  ASSUME LocksAssumption, LTypeOK, InOrder, HeldOnce, ContactsFirst, CascadeKnown, [LNext]_lvars
  PROVE  CascadeKnown'
<1>1. CASE UNCHANGED lvars
  BY <1>1 DEF CascadeKnown, Forgets, Cascade, lvars, data
(* A cascade gets no smaller cover when it does not grow. *)
<1>2. ASSUME NEW p \in Txs, Begin(p) \/ Statement(p) \/ Lock(p) \/ Commit(p) \/ Rollback(p),
             NEW q \in Txs, q # p, Forgets(q),
             NEW level \in {COPY, LOAN, CONFIRMATION}, at[q] >= level,
             Cascade(level, tx[q].contacts)' \subseteq Cascade(level, tx[q].contacts)
      PROVE  Cascade(level, tx[q].contacts)' \subseteq (held[q] \cup todo[q])'
  <2>1. tx'[q] = tx[q] /\ held'[q] = held[q] /\ todo'[q] = todo[q]
    BY <1>2, OthersKeep
  <2>2. Cascade(level, tx[q].contacts) \subseteq held[q] \cup todo[q]
    BY <1>2 DEF CascadeKnown
  <2> QED BY <1>2, <2>1, <2>2
(* Of those who are not about to delete a contact nothing is asked. *)
<1>3. ASSUME NEW p \in Txs, Begin(p) \/ Statement(p) \/ Lock(p) \/ Commit(p) \/ Rollback(p),
             \A q \in Txs \ {p} : Forgets(q) => \A level \in {COPY, LOAN, CONFIRMATION} :
               at[q] >= level => Cascade(level, tx[q].contacts)' \subseteq Cascade(level, tx[q].contacts),
             Forgets(p)' => \A level \in {COPY, LOAN, CONFIRMATION} :
               at'[p] >= level => Cascade(level, tx[p].contacts)' \subseteq (held[p] \cup todo[p])'
      PROVE  CascadeKnown'
  <2>1. ASSUME NEW q \in Txs, q # p PROVE tx'[q] = tx[q] /\ at'[q] = at[q]
    BY <1>3, <2>1, OthersKeep
  <2>2. ASSUME NEW q \in Txs, q # p, Forgets(q)', NEW level \in {COPY, LOAN, CONFIRMATION}, at'[q] >= level
        PROVE  Cascade(level, tx[q].contacts)' \subseteq (held[q] \cup todo[q])'
    <3>1. Forgets(q) /\ at[q] >= level
      BY <2>1, <2>2 DEF Forgets
    <3> QED BY <1>2, <1>3, <2>2, <3>1
  <2> QED BY <1>3, <2>2 DEF CascadeKnown
<1>4. ASSUME NEW p \in Txs, Begin(p) PROVE CascadeKnown'
  <2>1. PICK t, n, rows : Start(p, t, n, rows) /\ Opening(t, n, rows)
    BY <1>4, BeginStarts
  <2>2. at'[p] \in {0, 1} /\ UNCHANGED data
    BY <2>1 DEF Start, Opening, LTypeOK
  <2>3. \A level \in {COPY, LOAN, CONFIRMATION} : ~(at'[p] >= level)
    BY <2>2 DEF COPY, LOAN, CONFIRMATION
  <2>4. \A q \in Txs \ {p} : \A level : Cascade(level, tx[q].contacts)' \subseteq Cascade(level, tx[q].contacts)
    <3>1. \A q \in Txs \ {p} : tx'[q] = tx[q]
      BY <1>4, OthersKeep
    <3> QED BY <2>2, <3>1 DEF Cascade, data
  <2> QED BY <1>3, <1>4, <2>3, <2>4
<1>5. ASSUME NEW p \in Txs, Statement(p) PROVE CascadeKnown'
  <2>1. tx' = tx /\ held' = held /\ UNCHANGED data
    BY <1>5 DEF Statement
  <2>2. /\ todo[p] = {} /\ at'[p] = at[p] + 1 /\ at[p] + 1 \in 1..Len(Plan(tx[p].kind))
        /\ at[p] + 1 \in 1..5 /\ at[p] \in 0..5
        /\ todo'[p] \in Finds(p, Plan(tx[p].kind)[at[p] + 1])
    BY <1>5, StatementFinds DEF LTypeOK
  <2>3. \A xs, level : Cascade(level, xs)' = Cascade(level, xs)
    BY <2>1 DEF Cascade, data
  <2>4. ASSUME Forgets(p), NEW level \in {COPY, LOAN, CONFIRMATION}, at'[p] >= level
        PROVE  Cascade(level, tx[p].contacts) \subseteq held[p] \cup todo'[p]
    <3>1. CASE at[p] >= level
      BY <2>2, <2>4, <3>1 DEF CascadeKnown
    <3>2. CASE at[p] + 1 = level
      <4>1. tx[p].kind \in {"delete", "cleanup"} /\ Plan(tx[p].kind)[level] = level /\ level # CONTACT
        BY <2>2, <2>4, <3>2, PlanOfContact DEF Forgets, CONTACT, COPY, LOAN, CONFIRMATION
      <4> QED BY <2>2, <2>4, <3>2, <4>1 DEF Finds
    <3> QED BY <2>2, <2>4, <3>1, <3>2 DEF COPY, LOAN, CONFIRMATION
  <2>5. Forgets(p)' => \A level \in {COPY, LOAN, CONFIRMATION} :
               at'[p] >= level => Cascade(level, tx[p].contacts)' \subseteq (held[p] \cup todo[p])'
    BY <2>1, <2>3, <2>4 DEF Forgets
  <2>6. \A q \in Txs \ {p} : \A level : Cascade(level, tx[q].contacts)' \subseteq Cascade(level, tx[q].contacts)
    BY <2>1, <2>3
  <2> QED BY <1>3, <1>5, <2>5, <2>6
<1>6. ASSUME NEW p \in Txs, Lock(p) PROVE CascadeKnown'
  <2>1. tx' = tx /\ at' = at /\ UNCHANGED data
    BY <1>6 DEF Lock
  <2>2. \A xs, level : Cascade(level, xs)' = Cascade(level, xs)
    BY <2>1 DEF Cascade, data
  <2>3. todo'[p] = todo[p] \ {next[p]}
    BY <1>6, LockMoves DEF LTypeOK
  <2>4. \/ Gone(next[p]) /\ held'[p] = held[p]
        \/ ~Gone(next[p]) /\ held'[p] = held[p] \cup {next[p]}
    BY <1>6, LockMoves DEF LTypeOK
  <2>5. ASSUME Forgets(p), NEW level \in {COPY, LOAN, CONFIRMATION}, at[p] >= level
        PROVE  Cascade(level, tx[p].contacts) \subseteq held'[p] \cup todo'[p]
    <3>1. Cascade(level, tx[p].contacts) \subseteq held[p] \cup todo[p]
      BY <2>5 DEF CascadeKnown
    <3>2. \A r \in Cascade(level, tx[p].contacts) : ~Gone(r)
      BY DEF Cascade, Gone, CONTACT, COPY, LOAN, CONFIRMATION
    <3> QED BY <2>3, <2>4, <3>1, <3>2
  <2>6. Forgets(p)' => \A level \in {COPY, LOAN, CONFIRMATION} :
               at'[p] >= level => Cascade(level, tx[p].contacts)' \subseteq (held[p] \cup todo[p])'
    BY <2>1, <2>2, <2>5 DEF Forgets
  <2>7. \A q \in Txs \ {p} : \A level : Cascade(level, tx[q].contacts)' \subseteq Cascade(level, tx[q].contacts)
    BY <2>1, <2>2
  <2> QED BY <1>3, <1>6, <2>6, <2>7
(* What ends is about nothing any more. *)
<1>7. ASSUME NEW p \in Txs, Commit(p) \/ Rollback(p),
             \A q \in Txs \ {p} : Forgets(q) => \A level \in {COPY, LOAN, CONFIRMATION} :
               at[q] >= level => Cascade(level, tx[q].contacts)' \subseteq Cascade(level, tx[q].contacts)
      PROVE  CascadeKnown'
  <2>1. tx'[p] = Idle
    BY <1>7, OtherEnds DEF End, LTypeOK
  <2>2. ~Forgets(p)'
    BY <2>1 DEF Forgets, Idle
  <2> QED BY <1>3, <1>7, <2>2
<1>8. ASSUME NEW p \in Txs, CommitOther(p) \/ Rollback(p) PROVE CascadeKnown'
  <2>1. UNCHANGED data /\ \A q \in Txs \ {p} : tx'[q] = tx[q]
    BY <1>8, DataKept, OthersKeep DEF Commit
  <2>2. \A q \in Txs \ {p} : \A level : Cascade(level, tx[q].contacts)' \subseteq Cascade(level, tx[q].contacts)
    BY <2>1 DEF Cascade, data
  <2> QED BY <1>7, <1>8, <2>2 DEF Commit
(* A new loan is of a contact that its lender holds, and so of none that another deletes. *)
<1>9. ASSUME NEW p \in Txs, CommitLend(p) PROVE CascadeKnown'
  <2>1. PICK l \in Loans, x \in present :
          /\ <<CONTACT, x>> \in held[p] /\ state[l] = "NONE"
          /\ state' = [state EXCEPT ![l] = "OPEN"] /\ of' = [of EXCEPT ![l] = x]
          /\ confirmations' \in {confirmations, confirmations \cup {l}}
          /\ heldBy' = [heldBy EXCEPT ![tx[p].copy] = x] /\ tx[p].copy \in Copies
          /\ present' = present
    BY <1>9, LenderHolds
  <2>2. ASSUME NEW q \in Txs \ {p}, Forgets(q), NEW level \in {COPY, LOAN, CONFIRMATION}, at[q] >= level
        PROVE  Cascade(level, tx[q].contacts)' \subseteq Cascade(level, tx[q].contacts)
    <3>1. tx'[q] = tx[q]
      BY <1>9, OthersKeep DEF Commit
    <3>2. at[q] >= 2
      BY <2>2 DEF LTypeOK, COPY, LOAN, CONFIRMATION
    <3>3. x \notin tx[q].contacts
      BY <2>1, <2>2, <3>2, ContactsHeld DEF Forgets, HeldOnce
    <3>4. {c \in Copies : heldBy'[c] \in tx[q].contacts} \subseteq {c \in Copies : heldBy[c] \in tx[q].contacts}
      BY <2>1, <3>3 DEF LTypeOK
    <3>5. {k \in Loans : of'[k] \in tx[q].contacts} \subseteq {k \in Loans : of[k] \in tx[q].contacts}
      BY <2>1, <3>3 DEF LTypeOK
    <3>6. {k \in confirmations' : of'[k] \in tx[q].contacts} \subseteq {k \in confirmations : of[k] \in tx[q].contacts}
      BY <2>1, <3>3 DEF LTypeOK
    <3> QED BY <2>2, <3>1, <3>4, <3>5, <3>6 DEF Cascade, COPY, LOAN, CONFIRMATION
  <2> QED BY <1>7, <1>9, <2>2 DEF Commit
<1>10. ASSUME NEW p \in Txs, CommitPatch(p) PROVE CascadeKnown'
  <2>1. /\ of' = of /\ confirmations' = confirmations
        /\ heldBy' \in {heldBy, [heldBy EXCEPT ![tx[p].copy] = NULL]}
    BY <1>10, PatchWrites
  <2>2. ASSUME NEW q \in Txs \ {p}, NEW level \in {COPY, LOAN, CONFIRMATION}
        PROVE  Cascade(level, tx[q].contacts)' \subseteq Cascade(level, tx[q].contacts)
    <3>1. tx'[q] = tx[q] /\ NULL \notin tx[q].contacts
      BY <1>10, OthersKeep DEF Commit, LTypeOK, Transactions, LocksAssumption
    <3>2. {c \in Copies : heldBy'[c] \in tx[q].contacts} \subseteq {c \in Copies : heldBy[c] \in tx[q].contacts}
      BY <2>1, <3>1 DEF LTypeOK
    <3> QED BY <2>1, <2>2, <3>1, <3>2 DEF Cascade, COPY, LOAN, CONFIRMATION
  <2> QED BY <1>7, <1>10, <2>2 DEF Commit
<1>11. ASSUME NEW p \in Txs, CommitForget(p) PROVE CascadeKnown'
  <2>1. PICK xs \in SUBSET tx[p].contacts :
          /\ \A x \in xs : <<CONTACT, x>> \in held[p]
          /\ present' = present \ xs
          /\ of' = [l \in Loans |-> IF of[l] \in xs THEN NULL ELSE of[l]]
          /\ heldBy' = [c \in Copies |-> IF heldBy[c] \in xs THEN NULL ELSE heldBy[c]]
          /\ state' = state /\ confirmations' = confirmations
    BY <1>11, ForgetterHolds
  <2>2. ASSUME NEW q \in Txs \ {p}, NEW level \in {COPY, LOAN, CONFIRMATION}
        PROVE  Cascade(level, tx[q].contacts)' \subseteq Cascade(level, tx[q].contacts)
    <3>1. tx'[q] = tx[q] /\ NULL \notin tx[q].contacts
      BY <1>11, OthersKeep DEF Commit, LTypeOK, Transactions, LocksAssumption
    <3>2. {c \in Copies : heldBy'[c] \in tx[q].contacts} \subseteq {c \in Copies : heldBy[c] \in tx[q].contacts}
      BY <2>1, <3>1
    <3>3. {k \in Loans : of'[k] \in tx[q].contacts} \subseteq {k \in Loans : of[k] \in tx[q].contacts}
      BY <2>1, <3>1
    <3>4. {k \in confirmations : of'[k] \in tx[q].contacts} \subseteq {k \in confirmations : of[k] \in tx[q].contacts}
      BY <2>1, <3>1 DEF LTypeOK
    <3> QED BY <2>1, <2>2, <3>1, <3>2, <3>3, <3>4 DEF Cascade, COPY, LOAN, CONFIRMATION
  <2> QED BY <1>7, <1>11, <2>2 DEF Commit
<1> QED BY <1>1, <1>4, <1>5, <1>6, <1>8, <1>9, <1>10, <1>11 DEF LNext, Commit

LEMMA ContactKeptKept ==
  ASSUME LocksAssumption, LTypeOK, InOrder, HeldOnce, ContactsFirst, ContactKept, [LNext]_lvars
  PROVE  ContactKept'
<1> DEFINE Keeps(p) == tx[p].kind \in {"patch", "confirm"} =>
             state[tx[p].loan] # "NONE" /\ of[tx[p].loan] \in tx[p].contacts \cup {NULL}
           Meant(p) == tx[p].kind \in {"patch", "confirm"}
<1>1. CASE UNCHANGED lvars
  BY <1>1 DEF ContactKept, lvars, data
<1>2. ASSUME NEW p \in Txs, Begin(p) PROVE ContactKept'
  <2>1. PICK t, n, rows : Start(p, t, n, rows) /\ Opening(t, n, rows)
    BY <1>2, BeginStarts
  <2>2. tx'[p] = t /\ UNCHANGED data /\ \A q \in Txs \ {p} : tx'[q] = tx[q]
    BY <2>1 DEF Start, LTypeOK
  <2> QED BY <2>1, <2>2 DEF ContactKept, Opening, data
<1>3. ASSUME NEW p \in Txs, Statement(p) \/ Lock(p) PROVE ContactKept'
  BY <1>3 DEF ContactKept, Statement, Lock, data
<1>4. ASSUME NEW p \in Txs, Commit(p) \/ Rollback(p),
             \A q \in Txs \ {p} : Meant(q) =>
               /\ state[tx[q].loan] # "NONE" => state'[tx[q].loan] # "NONE"
               /\ of'[tx[q].loan] \in {of[tx[q].loan], NULL}
      PROVE  ContactKept'
  <2>1. tx'[p] = Idle /\ Idle.kind = "none"
    BY <1>4, OtherEnds DEF End, LTypeOK, Idle
  <2>2. \A q \in Txs \ {p} : tx'[q] = tx[q]
    BY <1>4, OthersKeep
  <2> QED BY <1>4, <2>1, <2>2 DEF ContactKept
<1>5. ASSUME NEW q \in Txs, Meant(q) PROVE tx[q].loan \in Loans /\ state[tx[q].loan] # "NONE"
  BY <1>5 DEF LTypeOK, Typed, ContactKept
<1>6. ASSUME NEW p \in Txs, CommitOther(p) \/ Rollback(p) PROVE ContactKept'
  <2>1. UNCHANGED data
    BY <1>6, DataKept
  <2> QED BY <1>4, <1>6, <2>1 DEF Commit, data
<1>7. ASSUME NEW p \in Txs, CommitLend(p) PROVE ContactKept'
  <2>1. PICK l \in Loans, x \in present :
          /\ <<CONTACT, x>> \in held[p] /\ state[l] = "NONE"
          /\ state' = [state EXCEPT ![l] = "OPEN"] /\ of' = [of EXCEPT ![l] = x]
          /\ confirmations' \in {confirmations, confirmations \cup {l}}
          /\ heldBy' = [heldBy EXCEPT ![tx[p].copy] = x] /\ tx[p].copy \in Copies
          /\ present' = present
    BY <1>7, LenderHolds
  <2>2. ASSUME NEW q \in Txs, Meant(q) PROVE state'[tx[q].loan] = state[tx[q].loan] /\ of'[tx[q].loan] = of[tx[q].loan]
    BY <1>5, <2>1, <2>2 DEF LTypeOK
  <2> QED BY <1>4, <1>7, <2>2 DEF Commit
<1>8. ASSUME NEW p \in Txs, CommitPatch(p) PROVE ContactKept'
  <2>1. of' = of /\ state' \in {state, [state EXCEPT ![tx[p].loan] = "CLOSED"]}
    BY <1>8, PatchWrites
  <2>2. ASSUME NEW q \in Txs, Meant(q) PROVE state'[tx[q].loan] # "NONE" /\ of'[tx[q].loan] = of[tx[q].loan]
    BY <1>5, <2>1, <2>2 DEF LTypeOK
  <2> QED BY <1>4, <1>8, <2>2 DEF Commit
<1>9. ASSUME NEW p \in Txs, CommitForget(p) PROVE ContactKept'
  <2>1. PICK xs \in SUBSET tx[p].contacts :
          /\ \A x \in xs : <<CONTACT, x>> \in held[p]
          /\ present' = present \ xs
          /\ of' = [l \in Loans |-> IF of[l] \in xs THEN NULL ELSE of[l]]
          /\ heldBy' = [c \in Copies |-> IF heldBy[c] \in xs THEN NULL ELSE heldBy[c]]
          /\ state' = state /\ confirmations' = confirmations
    BY <1>9, ForgetterHolds
  <2>2. ASSUME NEW q \in Txs, Meant(q) PROVE of'[tx[q].loan] \in {of[tx[q].loan], NULL}
    BY <1>5, <2>1, <2>2
  <2> QED BY <1>4, <1>9, <2>1, <2>2 DEF Commit
<1> QED BY <1>1, <1>2, <1>3, <1>6, <1>7, <1>8, <1>9 DEF LNext, Commit

LEMMA LockInit ==
  ASSUME LInit
  PROVE  LockInv
<1>1. Idle \in Transactions /\ Typed(Idle) /\ Idle.kind = "none" /\ Idle.contacts = {} /\ Len(Plan(Idle.kind)) \in 1..5
  BY PlanOrder DEF Idle, Transactions, Typed, Kinds
<1>2. LTypeOK
  BY <1>1 DEF LInit, LTypeOK
<1>3. InOrder
  BY <1>1 DEF LInit, InOrder, Orderly
<1>4. HeldOnce /\ ContactsFirst /\ CascadeKnown /\ ContactKept
  BY <1>1 DEF LInit, HeldOnce, ContactsFirst, ContactsLocked, CascadeKnown, ContactKept, Forgets
<1> QED BY <1>2, <1>3, <1>4 DEF LockInv

(* The lock order of everything that writes about guests is an invariant. *)
THEOREM LockInvariant ==
  ASSUME LocksAssumption
  PROVE  LSpec => []LockInv
<1>1. LInit => LockInv
  BY LockInit
<1>2. LockInv /\ [LNext]_lvars => LockInv'
  BY TypeKept, OrderKept, HeldOnceKept, ContactsFirstKept, CascadeKept, ContactKeptKept DEF LockInv
<1> QED BY <1>1, <1>2, PTL DEF LSpec

(* Hand-overs, confirmations, answers, deletions and the clean-up never wait for each other *)
(* in a circle (guest-loan.service.ts and retention.ts, the order of locks): a deadlock     *)
(* takes a pass of the daily reminders.                                                     *)
THEOREM NobodyWaitsInACircle ==
  ASSUME LocksAssumption
  PROVE  LSpec => []OnlyRemindersDeadlock
<1>1. LockInv => OnlyRemindersDeadlock
  BY NoCircle DEF LockInv
<1> QED BY <1>1, LockInvariant, PTL

(* What the deletion of a contact writes to by ON DELETE SET NULL it has locked before      *)
(* (ExternalBorrowersService.delete, the clean-up of contacts).                             *)
THEOREM DeletionsWaitForNobody ==
  ASSUME LocksAssumption
  PROVE  LSpec => []CascadeIsLocked
<1>1. LockInv => CascadeIsLocked
  <2> SUFFICES ASSUME LockInv, NEW p \in Txs, Complete(p), Forgets(p), NEW level \in {COPY, LOAN, CONFIRMATION}
               PROVE  Cascade(level, tx[p].contacts) \subseteq held[p]
    BY DEF CascadeIsLocked
  <2>1. todo[p] = {} /\ at[p] = 4
    BY PlanOfContact DEF Complete, Ready, Forgets
  <2> QED BY <2>1 DEF LockInv, CascadeKnown, COPY, LOAN, CONFIRMATION
<1> QED BY <1>1, LockInvariant, PTL

(* The time until which a contact is kept is computed under the lock of that contact        *)
(* (recalculateRetainUntil after the transitions of a guest's loan).                        *)
THEOREM RetentionIsLocked ==
  ASSUME LocksAssumption
  PROVE  LSpec => []RetentionUnderLock
<1>1. LockInv => RetentionUnderLock
  <2> SUFFICES ASSUME LockInv, NEW p \in Txs, Complete(p), tx[p].kind \in {"patch", "confirm"},
                      of[tx[p].loan] # NULL
               PROVE  <<CONTACT, of[tx[p].loan]>> \in held[p]
    BY DEF RetentionUnderLock
  <2>1. tx[p].loan \in Loans /\ of[tx[p].loan] \in tx[p].contacts
    BY DEF LockInv, LTypeOK, Typed, ContactKept
  <2>2. of[tx[p].loan] \in present
    BY <2>1 DEF LockInv, ContactsFirst
  <2>3. todo[p] = {} /\ at[p] >= 1
    BY PlanOfContact DEF Complete, Ready
  <2> QED BY <2>1, <2>2, <2>3, ContactsHeld DEF LockInv
<1> QED BY <1>1, LockInvariant, PTL

(* What a run checks of all three: whoever writes about guests follows one order of locks, *)
(* and has them in time (guest-loan.service.ts, retention.ts).                            *)
THEOREM GuestsAlwaysLocked ==
  ASSUME LocksAssumption
  PROVE  LSpec => []GuestsAreLocked
<1>1. OnlyRemindersDeadlock /\ CascadeIsLocked /\ RetentionUnderLock => GuestsAreLocked
  BY DEF GuestsAreLocked
<1> QED
  BY <1>1, NobodyWaitsInACircle, DeletionsWaitForNobody, RetentionIsLocked, PTL
=============================================================================
