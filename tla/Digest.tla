------------------------------- MODULE Digest -------------------------------
(* The daily reminders of books that are due (notification-digest.service.ts).   *)
(* Every process makes a pass each hour.  A pass reads its clock once; for each   *)
(* kind of reminder it reads the loans without a lock, and then, for each person, *)
(* in a transaction of its own, locks the rows, looks at them again and writes    *)
(* one event under a unique key of person, kind and day.                          *)
(*                                                                                *)
(* dueAt is the last moment of a day and is kept as that day; it does not change  *)
(* once the book is out.  All books belong to one owner.                          *)
EXTENDS Integers, Sequences

CONSTANTS
  Loans,
  BorrowerOf,       \* Loans -> people, or Nobody for a guest
  Owner,
  Processes,
  Window,           \* DUE_SOON_WINDOW_DAYS
  DayLength,        \* in ticks of the clock
  EndOfTime,        \* bound of this instance
  Nobody

DigestAssumption ==
  /\ {Window, DayLength} \subseteq Nat \ {0} /\ EndOfTime \in Nat
  /\ Owner # Nobody /\ \A l \in Loans : BorrowerOf[l] # Owner

VARIABLES
  clock,
  lent, dueOn,      \* Loan.status as far as it matters here, and the day of Loan.dueAt
  remind,           \* User.ownerDueReminders
  pass,             \* the pass of each process; knew: the borrowed books that were out when it began
  sent              \* the events, with the moment they were written

dvars == <<clock, lent, dueOn, remind, pass, sent>>
loans == <<lent, dueOn, remind>>

Kinds == <<"LOAN_DUE_SOON", "LOAN_OVERDUE", "LOAN_DUE_SOON_OWNER">>
ToOwner(kind) == kind = "LOAN_DUE_SOON_OWNER"
Idle == [step |-> "IDLE", kind |-> 1, now |-> 0, buckets |-> {}, to |-> Nobody, due |-> {}, knew |-> {}]
KindOf(c) == Kinds[c.kind]

calendarDay(t) == t \div DayLength
LastDay == calendarDay(EndOfTime) + Window

-----------------------------------------------------------------------------
(* The rest of the system *)

HandOver(l) ==
  /\ lent[l] = "NO" /\ lent' = [lent EXCEPT ![l] = "OUT"]
  /\ \E d \in 0..LastDay : dueOn' = [dueOn EXCEPT ![l] = d]
  /\ UNCHANGED <<clock, remind, pass, sent>>

LockedLoan(l) == \E p \in Processes : l \in pass[p].due

\* Returned, lost: LoanService's UPDATE waits for the row.
Return(l) ==
  /\ lent[l] = "OUT" /\ ~LockedLoan(l)
  /\ lent' = [lent EXCEPT ![l] = "BACK"]
  /\ UNCHANGED <<clock, dueOn, remind, pass, sent>>

SwitchReminders == remind' = ~remind /\ UNCHANGED <<clock, lent, dueOn, pass, sent>>

Tick == clock < EndOfTime /\ clock' = clock + 1 /\ UNCHANGED <<loans, pass, sent>>

-----------------------------------------------------------------------------
(* A pass *)

Matches(kind, l, t) ==
  IF kind = "LOAN_OVERDUE" THEN calendarDay(t) > dueOn[l] ELSE calendarDay(t) = dueOn[l] - Window

recipientOf(kind, l) == IF ToOwner(kind) THEN Owner ELSE BorrowerOf[l]
StillDue(c, ls) == {l \in ls : lent[l] = "OUT" /\ Matches(KindOf(c), l, c.now)}

Trigger(p) ==
  /\ pass[p] = Idle
  /\ pass' = [pass EXCEPT ![p] = [Idle EXCEPT !.step = "SCAN", !.now = clock,
                                    !.knew = {l \in Loans : lent[l] = "OUT" /\ BorrowerOf[l] # Nobody}]]
  /\ UNCHANGED <<clock, loans, sent>>

\* The candidates, by person.
Scan(p) ==
  LET kind == KindOf(pass[p])
      matching == {l \in StillDue(pass[p], Loans) : recipientOf(kind, l) # Nobody /\ (ToOwner(kind) => remind)}
      people == {recipientOf(kind, l) : l \in matching}
  IN /\ pass[p].step = "SCAN"
     /\ pass' = [pass EXCEPT ![p] = [pass[p] EXCEPT !.step = "EMIT",
          !.buckets = {[to |-> u, loans |-> {l \in matching : recipientOf(kind, l) = u}] : u \in people}]]
     /\ UNCHANGED <<clock, loans, sent>>

\* The owner's switch is read again in the transaction, before the rows are locked.
ReadSwitch(p) ==
  /\ pass[p].step = "EMIT" /\ ToOwner(KindOf(pass[p])) /\ pass[p].buckets # {}
  /\ pass' = [pass EXCEPT ![p] = IF remind THEN [pass[p] EXCEPT !.step = "LOCK"]
                                          ELSE [pass[p] EXCEPT !.buckets = {}]]
  /\ UNCHANGED <<clock, loans, sent>>

Faulty_LockAgain(c, b) == IF \E l \in b.loans : lent[l] = "OUT" THEN b.loans ELSE {}

\* What FOR UPDATE returns is the rows as they are now; the conditions are tried again.
LockAgain(c, b) == StillDue(c, b.loans)

\* A deadlock of two passes over several rows is an error like any other, see Fail.
LockLoans(p) ==
  /\ pass[p].step = IF ToOwner(KindOf(pass[p])) THEN "LOCK" ELSE "EMIT"
  /\ \E b \in pass[p].buckets :
       LET due == LockAgain(pass[p], b) IN
       /\ \A l \in b.loans : ~LockedLoan(l)
       /\ pass' = [pass EXCEPT ![p] =
            [pass[p] EXCEPT !.buckets = pass[p].buckets \ {b}, !.due = due,
                            !.step = IF due = {} THEN "EMIT" ELSE "HOLD",
                            !.to = IF due = {} THEN Nobody ELSE b.to]]
  /\ UNCHANGED <<clock, loans, sent>>

Faulty_dayOf(c) == calendarDay(clock)

dayOf(c) == calendarDay(c.now)

\* Another process's event of the same key is no error.
Create(p) ==
  LET c == pass[p]
      key == [to |-> c.to, kind |-> KindOf(c), day |-> dayOf(c)]
  IN /\ c.step = "HOLD"
     /\ sent' = sent \cup (IF \E e \in sent : e.key = key THEN {} ELSE {[key |-> key, loans |-> c.due]})
     /\ pass' = [pass EXCEPT ![p] = [c EXCEPT !.step = "EMIT", !.due = {}, !.to = Nobody]]
     /\ UNCHANGED <<clock, loans>>

Emitted(c) == c.step = "EMIT" /\ c.buckets = {}

NextKind(p) ==
  LET c == pass[p] IN
  /\ Emitted(c)
  /\ pass' = [pass EXCEPT ![p] =
       IF c.kind = Len(Kinds) THEN Idle
       ELSE [c EXCEPT !.kind = c.kind + 1, !.step = "SCAN",
                      !.knew = IF ToOwner(Kinds[c.kind + 1]) THEN {} ELSE c.knew]]
  /\ UNCHANGED <<clock, loans, sent>>

\* An error, or the end of the process: the pass is given up, its transaction undone.
Fail(p) == /\ pass[p] # Idle /\ pass' = [pass EXCEPT ![p] = Idle]
           /\ UNCHANGED <<clock, loans, sent>>

-----------------------------------------------------------------------------

DInit ==
  /\ clock = 0 /\ sent = {} /\ remind \in BOOLEAN
  /\ lent = [l \in Loans |-> "NO"] /\ dueOn = [l \in Loans |-> 0]
  /\ pass = [p \in Processes |-> Idle]

DNext ==
  \/ Tick \/ SwitchReminders
  \/ \E l \in Loans : HandOver(l) \/ Return(l)
  \/ \E p \in Processes :
       Trigger(p) \/ Scan(p) \/ ReadSwitch(p) \/ LockLoans(p) \/ Create(p) \/ NextKind(p) \/ Fail(p)

DSpec == DInit /\ [][DNext]_dvars

-----------------------------------------------------------------------------
(* Properties *)

\* However many processes make passes at once, and across midnight, a person gets one event
\* of a kind a day, and a loan is announced as due soon once in its life to either side.
RemindedOnce ==
  \A e, f \in sent : e.key.to = f.key.to /\ e.key.kind = f.key.kind /\ e # f =>
     e.key.day # f.key.day /\ (e.key.kind # "LOAN_OVERDUE" => e.loans \cap f.loans = {})

\* No event names a book that is back when the event is written, or a wrong day.
RemindersAreTrue ==
  [][\A e \in sent' \ sent : \A l \in e.loans :
        /\ lent[l] = "OUT" /\ e.key.to = recipientOf(e.key.kind, l)
        /\ IF e.key.kind = "LOAN_OVERDUE" THEN dueOn[l] < e.key.day ELSE dueOn[l] - Window = e.key.day]_dvars

\* A pass that gets through a kind has left nobody out whose book was out when it began and
\* still is: they have their event of the day, from this pass or another.
NobodyForgotten ==
  [][\A p \in Processes :
       LET c == pass[p] IN
       Emitted(c) /\ pass'[p].step # "EMIT" =>
         \A l \in StillDue(c, c.knew) :
            [to |-> BorrowerOf[l], kind |-> KindOf(c), day |-> calendarDay(c.now)] \in {e.key : e \in sent}]_dvars

\* Reminders: none twice, none that is false, and nobody who is to have one goes without.
RemindersAreDue == []RemindedOnce /\ RemindersAreTrue /\ NobodyForgotten
=============================================================================
