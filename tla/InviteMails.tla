---------------------------- MODULE InviteMails ----------------------------
(* The limits on invitations by mail (invitations.service.ts): so many a day for *)
(* a user and so many a week for a recipient, counted over rows that keep only a *)
(* hash of the recipient, which a clean-up erases once the row is a week old     *)
(* (invite-email-hash-cleanup.service.ts).  A request reads the clock before its *)
(* transaction; the transaction takes an advisory lock for the user, then one    *)
(* for the recipient, counts and inserts.                                        *)
EXTENDS Naturals, FiniteSets

CONSTANTS
  Users, Recipients,
  Calls,                        \* requests under way at once
  PerUser, PerRecipient,        \* EMAIL_INVITES_PER_USER_PER_DAY, _PER_RECIPIENT_PER_WEEK
  Day, Week,
  MaxRows, EndOfTime,           \* bounds of this instance
  NULL

MailAssumption ==
  /\ {PerUser, PerRecipient, Day, Week, MaxRows, EndOfTime} \subseteq Nat
  /\ NULL \notin Users \cup Recipients

VARIABLES
  clock,
  mails,       \* the invitations: by whom, to whom, when, and whether the hash is there
  request      \* requests between two statements

vars == <<clock, mails, request>>

Idle == [step |-> "IDLE", user |-> NULL, to |-> NULL, now |-> 0]
Go(k, step) == request' = [request EXCEPT ![k].step = step] /\ UNCHANGED <<clock, mails>>

Since(t, w) == {m \in mails : m.at + w > t}       \* createdAt > t - w

-----------------------------------------------------------------------------

Tick == clock < EndOfTime /\ clock' = clock + 1 /\ UNCHANGED <<mails, request>>

\* createEmail and createGuestEmail alike: now = new Date().
Start(k, u, r) ==
  /\ request[k] = Idle /\ Cardinality(mails) + Cardinality({j \in Calls : request[j] # Idle}) < MaxRows
  /\ request' = [request EXCEPT ![k] = [step |-> "STARTED", user |-> u, to |-> r, now |-> clock]]
  /\ UNCHANGED <<clock, mails>>

Faulty_UserLocked(u) == FALSE

UserLocked(u) == \E k \in Calls : request[k].step \in {"USER", "BOTH", "COUNTED"} /\ request[k].user = u

LockUser(k) == request[k].step = "STARTED" /\ ~UserLocked(request[k].user) /\ Go(k, "USER")

Faulty_RecipientLocked(r) == \E m \in mails : m.to = r     \* a lock of the connection

RecipientLocked(r) == \E k \in Calls : request[k].step \in {"BOTH", "COUNTED"} /\ request[k].to = r

LockRecipient(k) == request[k].step = "USER" /\ ~RecipientLocked(request[k].to) /\ Go(k, "BOTH")

WithinLimits(c) ==
  /\ Cardinality({m \in Since(c.now, Day) : m.user = c.user}) < PerUser
  /\ Cardinality({m \in Since(c.now, Week) : m.hash /\ m.to = c.to}) < PerRecipient

Count(k) == request[k].step = "BOTH" /\ WithinLimits(request[k]) /\ Go(k, "COUNTED")

\* With the time of the insert; the commit releases both locks.
Insert(k) ==
  LET c == request[k] IN
  /\ c.step = "COUNTED"
  /\ mails' = mails \cup {[id |-> Cardinality(mails) + 1, user |-> c.user, to |-> c.to,
                           at |-> clock, hash |-> TRUE]}
  /\ request' = [request EXCEPT ![k] = Idle]
  /\ UNCHANGED clock

\* INVITE_RATE_LIMITED.
Refuse(k) ==
  /\ request[k].step = "BOTH" /\ ~WithinLimits(request[k])
  /\ request' = [request EXCEPT ![k] = Idle]
  /\ UNCHANGED <<clock, mails>>

Outdated(m) == m.at + Week <= clock
Erased(m) == [m EXCEPT !.hash = m.hash /\ ~Outdated(m)]

\* InviteEmailHashCleanupService.run.  Its clock was read before its statement.
EraseHashes ==
  /\ \E m \in mails : m.hash /\ Outdated(m)
  /\ mails' = {Erased(m) : m \in mails}
  /\ UNCHANGED <<clock, request>>

-----------------------------------------------------------------------------

Init == clock = 0 /\ mails = {} /\ request = [k \in Calls |-> Idle]

Work(k) == LockUser(k) \/ LockRecipient(k) \/ Count(k) \/ Insert(k) \/ Refuse(k)

Next ==
  \/ Tick \/ EraseHashes
  \/ \E k \in Calls : Work(k) \/ \E u \in Users, r \in Recipients : Start(k, u, r)

Spec == Init /\ [][Next]_vars

\* Statements are answered, and advisory locks are granted in the order of the queue.
FairSpec == Spec /\ \A k \in Calls : SF_vars(Work(k))

-----------------------------------------------------------------------------

\* In no day does a user send more mails than allowed, and in no week does a recipient get
\* more from all users together, however long requests wait for their locks after reading
\* the clock and whenever the clean-up erases what is counted.
LimitsHold ==
  \A m \in mails :
     /\ Cardinality({n \in Since(m.at, Day) : n.user = m.user /\ n.at <= m.at}) <= PerUser
     /\ Cardinality({n \in Since(m.at, Week) : n.to = m.to /\ n.at <= m.at}) <= PerRecipient

\* Every request is answered: two lock orders would let two requests wait for each other.
RequestsEnd == \A k \in Calls : request[k].step = "STARTED" ~> request[k] = Idle

=============================================================================
