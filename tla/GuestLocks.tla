------------------------------ MODULE GuestLocks ------------------------------
(* The row locks of everything that writes about guests: hand-overs, loans,      *)
(* confirmations, the deletion of contacts by hand and by the clean-up, against  *)
(* the loans of members of the same copies and the daily reminders.  All but the *)
(* last follow ExternalBorrower, Copy, Loan, GuestLoanConfirmation.              *)
(*                                                                               *)
(* A transaction is a list of locking statements.  A statement picks its rows on *)
(* the snapshot it starts with and locks them one by one, in the order of their  *)
(* ids (Rank) or, where it has no ORDER BY, in any order.  What the transaction  *)
(* writes appears with its commit.  A loan is open or closed here; GuestLending  *)
(* has what happens between.                                                     *)
EXTENDS Integers, Sequences

CONSTANTS
  Contacts, Copies,
  Loans, CopyOf,     \* guest loans, and the copy of each
  Txs,               \* transactions
  Rank, MaxRank,     \* the order of tables, and of ids within a table
  NULL

\* The five kinds of rows; a confirmation has the id of its loan.  The loans of members on
\* a copy are one row: but for the reminders, who locks one of them has the copy.
CONTACT == 1
COPY == 2
LOAN == 3
CONFIRMATION == 4
MEMBERS == 5

Rows == ({CONTACT} \X Contacts) \cup ({COPY, MEMBERS} \X Copies) \cup ({LOAN, CONFIRMATION} \X Loans)

LocksAssumption ==
  /\ CopyOf \in [Loans -> Copies]
  /\ NULL \notin Contacts \cup Rows
  /\ MaxRank \in Nat /\ \A r \in Rows : Rank[r] \in 0..MaxRank
  /\ \A r, s \in Rows : (Rank[r] = Rank[s] => r = s) /\ (r[1] < s[1] => Rank[r] < Rank[s])

VARIABLES
  present,          \* the contacts there are
  state, of,        \* Loan.status: "NONE", "OPEN" or "CLOSED"; Loan.borrowerContactId
  confirmations,            \* the loans that have a confirmation, whose contact is the loan's
  heldBy,           \* Copy.heldByContactId
  tx, at,           \* what a transaction is about, and the statement it is at
  todo, next, held  \* rows the statement has yet to lock, the one it waits for, rows locked

data == <<present, state, of, confirmations, heldBy>>
lvars == <<data, tx, at, todo, next, held>>

Idle == [kind |-> "none", contacts |-> {}, copy |-> NULL, loan |-> NULL]

Faulty_Plan(kind) ==
  CASE kind = "lend" -> <<CONTACT, COPY, MEMBERS>>
    [] kind = "patch" -> <<COPY, LOAN, CONTACT>>
    [] kind = "confirm" -> <<CONTACT, COPY, LOAN, CONFIRMATION, MEMBERS>>
    [] kind = "code" -> <<CONFIRMATION>>
    [] kind = "member" -> <<COPY, MEMBERS>>
    [] kind = "digest" -> <<LOAN>>
    [] OTHER -> <<CONTACT, COPY, LOAN, CONFIRMATION>>

\* "confirm" is a decision of the owner, a new link or an answer of the guest; "code" asks
\* for a code or enters it; "delete" and "cleanup" remove contacts.
Plan(kind) ==
  CASE kind = "lend" -> <<CONTACT, COPY, MEMBERS>>
    [] kind = "patch" -> <<CONTACT, COPY, LOAN>>
    [] kind = "confirm" -> <<CONTACT, COPY, LOAN, CONFIRMATION, MEMBERS>>
    [] kind = "code" -> <<CONFIRMATION>>
    [] kind = "member" -> <<COPY, MEMBERS>>
    [] kind = "digest" -> <<LOAN>>
    [] OTHER -> <<CONTACT, COPY, LOAN, CONFIRMATION>>

Forgets(p) == tx[p].kind \in {"delete", "cleanup"}
Ordered(p) == tx[p].kind # "digest"
Free(r) == \A q \in Txs : r \notin held[q]
OpenOf(x) == {l \in Loans : state[l] = "OPEN" /\ of[l] = x}

\* The rows that DELETE of the contacts writes to, by ON DELETE SET NULL.
Cascade(level, xs) ==
  CASE level = COPY -> {COPY} \X {c \in Copies : heldBy[c] \in xs}
    [] level = LOAN -> {LOAN} \X {l \in Loans : of[l] \in xs}
    [] level = CONFIRMATION -> {CONFIRMATION} \X {l \in confirmations : of[l] \in xs}
    [] OTHER -> {}

-----------------------------------------------------------------------------

Start(p, t, n, rows) ==
  /\ tx[p] = Idle /\ tx' = [tx EXCEPT ![p] = t]
  /\ at' = [at EXCEPT ![p] = n] /\ held' = [held EXCEPT ![p] = rows]
  /\ UNCHANGED <<data, todo, next>>

BeginLend(p) ==
  \E x \in Contacts, c \in Copies :
     Start(p, [Idle EXCEPT !.kind = "lend", !.contacts = {x}, !.copy = c], 0, {})

\* The contact is looked up without a lock.
BeginPatch(p) ==
  \E l \in Loans, kind \in {"patch", "confirm", "code"} :
     /\ state[l] # "NONE" /\ (kind # "patch" => l \in confirmations)
     /\ Start(p, [kind |-> kind, contacts |-> {of[l]} \ {NULL}, copy |-> CopyOf[l], loan |-> l], 0, {})

BeginMember(p) == \E c \in Copies : Start(p, [Idle EXCEPT !.kind = "member", !.copy = c], 0, {})

BeginDigest(p) == Start(p, [Idle EXCEPT !.kind = "digest"], 0, {})

BeginDelete(p) ==
  \E x \in Contacts : Start(p, [Idle EXCEPT !.kind = "delete", !.contacts = {x}], 0, {})

\* SKIP LOCKED: contacts that are locked are left for another time.
BeginCleanup(p) ==
  \E xs \in SUBSET {x \in present : Free(<<CONTACT, x>>) /\ OpenOf(x) = {}} :
     Start(p, [Idle EXCEPT !.kind = "cleanup", !.contacts = xs], 1, {CONTACT} \X xs)

-----------------------------------------------------------------------------

\* The rows a statement finds.
Finds(p, level) ==
  IF Forgets(p) /\ level # CONTACT THEN {Cascade(level, tx[p].contacts)}
  ELSE IF tx[p].kind = "digest"
       THEN SUBSET (({LOAN} \X {l \in Loans : state[l] = "OPEN"}) \cup ({MEMBERS} \X Copies))
  ELSE {CASE level = CONTACT -> {CONTACT} \X tx[p].contacts
          [] level = COPY -> {<<COPY, tx[p].copy>>}
          [] level = MEMBERS -> {<<MEMBERS, tx[p].copy>>}
          [] OTHER -> {<<level, tx[p].loan>>}}

\* The row to lock next, in the order of ids or any.
First(p, rows) ==
  {r \in rows : Ordered(p) => \A s \in rows : Rank[r] <= Rank[s]} \cup (IF rows = {} THEN {NULL} ELSE {})

Ready(p) == tx[p] # Idle /\ todo[p] = {}

Statement(p) ==
  /\ Ready(p) /\ at[p] < Len(Plan(tx[p].kind))
  /\ at' = [at EXCEPT ![p] = @ + 1]
  /\ \E rows \in Finds(p, Plan(tx[p].kind)[at[p] + 1]) : \E r \in First(p, rows) :
       todo' = [todo EXCEPT ![p] = rows] /\ next' = [next EXCEPT ![p] = r]
  /\ UNCHANGED <<data, tx, held>>

\* A contact may be gone when its row is free at last; the loan goes on without it.
Gone(r) == r[1] = CONTACT /\ r[2] \notin present

Lock(p) ==
  /\ next[p] # NULL /\ Free(next[p])
  /\ Gone(next[p]) => tx[p].kind \in {"patch", "confirm"}
  /\ held' = [held EXCEPT ![p] = IF Gone(next[p]) THEN @ ELSE @ \cup {next[p]}]
  /\ todo' = [todo EXCEPT ![p] = @ \ {next[p]}]
  /\ \E r \in First(p, todo[p] \ {next[p]}) : next' = [next EXCEPT ![p] = r]
  /\ UNCHANGED <<data, tx, at>>

-----------------------------------------------------------------------------

End(p) ==
  /\ tx' = [tx EXCEPT ![p] = Idle] /\ at' = [at EXCEPT ![p] = 0]
  /\ todo' = [todo EXCEPT ![p] = {}] /\ next' = [next EXCEPT ![p] = NULL]
  /\ held' = [held EXCEPT ![p] = {}]

Complete(p) == Ready(p) /\ at[p] = Len(Plan(tx[p].kind))

\* A new loan of a copy that is at home, with or without a confirmation.
CommitLend(p) ==
  /\ Complete(p) /\ tx[p].kind = "lend" /\ heldBy[tx[p].copy] = NULL
  /\ \E l \in Loans, x \in tx[p].contacts, asks \in BOOLEAN :
       /\ state[l] = "NONE" /\ CopyOf[l] = tx[p].copy
       /\ state' = [state EXCEPT ![l] = "OPEN"] /\ of' = [of EXCEPT ![l] = x]
       /\ confirmations' = IF asks THEN confirmations \cup {l} ELSE confirmations
       /\ heldBy' = [heldBy EXCEPT ![tx[p].copy] = x]
  /\ UNCHANGED present /\ End(p)

\* The loan goes on, or is closed; a loss that is closed leaves the copy where it was.
CommitPatch(p) ==
  LET l == tx[p].loan
      c == tx[p].copy
  IN /\ Complete(p) /\ tx[p].kind \in {"patch", "confirm"}
     /\ \E home \in BOOLEAN :
          /\ home => heldBy[c] = of[l]
          /\ heldBy' = IF home THEN [heldBy EXCEPT ![c] = NULL] ELSE heldBy
     /\ \/ state' = state /\ heldBy' = heldBy
        \/ state' = [state EXCEPT ![l] = "CLOSED"]
     /\ UNCHANGED <<present, of, confirmations>> /\ End(p)

\* What else is written has no part in this.
CommitOther(p) ==
  /\ Complete(p) /\ tx[p].kind \in {"code", "member", "digest"}
  /\ UNCHANGED data /\ End(p)

\* A deletion by hand is refused as long as there is an open loan; the clean-up passes over.
CommitForget(p) ==
  LET xs == {x \in tx[p].contacts : OpenOf(x) = {}}
  IN /\ Complete(p) /\ Forgets(p) /\ (tx[p].kind = "delete" => xs = tx[p].contacts)
     /\ present' = present \ xs
     /\ of' = [l \in Loans |-> IF of[l] \in xs THEN NULL ELSE of[l]]
     /\ heldBy' = [c \in Copies |-> IF heldBy[c] \in xs THEN NULL ELSE heldBy[c]]
     /\ UNCHANGED <<state, confirmations>> /\ End(p)

\* A refusal, an error, or the end that the database makes of a circle of waits.
Rollback(p) == tx[p] # Idle /\ End(p) /\ UNCHANGED data

-----------------------------------------------------------------------------

LInit ==
  /\ present = Contacts
  /\ state = [l \in Loans |-> "NONE"] /\ of = [l \in Loans |-> NULL] /\ confirmations = {}
  /\ heldBy = [c \in Copies |-> NULL]
  /\ tx = [p \in Txs |-> Idle] /\ at = [p \in Txs |-> 0]
  /\ todo = [p \in Txs |-> {}] /\ next = [p \in Txs |-> NULL] /\ held = [p \in Txs |-> {}]

Begin(p) ==
  \/ BeginLend(p) \/ BeginPatch(p) \/ BeginMember(p)
  \/ BeginDigest(p) \/ BeginDelete(p) \/ BeginCleanup(p)

Commit(p) == CommitLend(p) \/ CommitPatch(p) \/ CommitOther(p) \/ CommitForget(p)

LNext == \E p \in Txs : Begin(p) \/ Statement(p) \/ Lock(p) \/ Commit(p) \/ Rollback(p)

LSpec == LInit /\ [][LNext]_lvars

-----------------------------------------------------------------------------
(* Properties *)

WaitsFor(p) == {q \in Txs \ {p} : next[p] # NULL /\ next[p] \in held[q]}

\* Deadlock: transactions that all wait for one another.
Stuck(S) == S # {} /\ \A p \in S : WaitsFor(p) \cap S # {}

\* The order of locks keeps what owners, guests and the clean-up do from waiting in a
\* circle; only the reminders, which lock many loans without an order, can close one.
OnlyRemindersDeadlock == \A S \in SUBSET Txs : Stuck(S) => \E p \in S : ~Ordered(p)

\* When contacts are deleted, every row that ON DELETE SET NULL writes to has been locked
\* before: the deletion itself waits for nobody.
CascadeIsLocked ==
  \A p \in Txs : Complete(p) /\ Forgets(p) =>
     \A level \in {COPY, LOAN, CONFIRMATION} : Cascade(level, tx[p].contacts) \subseteq held[p]

\* The time until which a contact is kept is only computed under the lock of the contact.
RetentionUnderLock ==
  \A p \in Txs : Complete(p) /\ tx[p].kind \in {"patch", "confirm"} /\ of[tx[p].loan] # NULL =>
     <<CONTACT, of[tx[p].loan]>> \in held[p]

\* Whoever writes about guests follows one order of locks, and has them in time.
GuestsAreLocked == OnlyRemindersDeadlock /\ CascadeIsLocked /\ RetentionUnderLock

-----------------------------------------------------------------------------
(* The inductive invariant of the proofs about GuestLocks *)

Kinds == {"none", "lend", "patch", "confirm", "code", "member", "digest", "delete", "cleanup"}

Transactions ==
  [kind : Kinds, contacts : SUBSET Contacts, copy : Copies \cup {NULL}, loan : Loans \cup {NULL}]

\* What each kind of transaction is about.
Typed(t) ==
  /\ t.kind \in {"lend", "patch", "confirm", "member"} => t.copy \in Copies
  /\ t.kind \in {"patch", "confirm", "code"} => t.loan \in Loans
  /\ t.kind = "none" => t = Idle

LTypeOK ==
  /\ present \subseteq Contacts /\ confirmations \subseteq Loans
  /\ state \in [Loans -> {"NONE", "OPEN", "CLOSED"}] /\ of \in [Loans -> Contacts \cup {NULL}]
  /\ heldBy \in [Copies -> Contacts \cup {NULL}]
  /\ tx \in [Txs -> Transactions] /\ \A p \in Txs : Typed(tx[p])
  /\ at \in [Txs -> 0..5] /\ todo \in [Txs -> SUBSET Rows] /\ held \in [Txs -> SUBSET Rows]
  /\ next \in [Txs -> Rows \cup {NULL}]

\* What a transaction holds comes before what it is still to lock.
Orderly(p) ==
  /\ at[p] <= Len(Plan(tx[p].kind)) /\ (tx[p] = Idle => at[p] = 0)
  /\ at[p] = 0 => held[p] = {} /\ todo[p] = {}
  /\ next[p] \in todo[p] \cup {NULL} /\ (todo[p] # {} => next[p] # NULL)
  /\ Ordered(p) =>
       /\ \A r \in todo[p] : r[1] = Plan(tx[p].kind)[at[p]] /\ (next[p] # NULL => Rank[next[p]] <= Rank[r])
       /\ \A h \in held[p] : h[1] <= Plan(tx[p].kind)[at[p]] /\ \A r \in todo[p] : Rank[h] < Rank[r]

InOrder == \A p \in Txs : Orderly(p)

HeldOnce == \A p, q \in Txs : p # q => held[p] \cap held[q] = {}

\* Who is about a contact locks it with the first statement, if it is still there.
ContactsLocked(p) ==
  tx[p].kind \in {"lend", "patch", "confirm", "delete", "cleanup"} /\ at[p] >= 1 =>
    \A x \in tx[p].contacts :
       \/ <<CONTACT, x>> \in held[p] \cup todo[p]
       \/ tx[p].kind \in {"patch", "confirm"} /\ x \notin present

ContactsFirst ==
  /\ \A p \in Txs : ContactsLocked(p) /\ \A h \in held[p] : ~Gone(h)
  /\ \A l \in Loans : of[l] \in present \cup {NULL}
  /\ \A c \in Copies : heldBy[c] \in present \cup {NULL}

\* No row is added to a cascade once its statement has looked for them.
CascadeKnown ==
  \A p \in Txs : Forgets(p) =>
    \A level \in {COPY, LOAN, CONFIRMATION} :
      at[p] >= level => Cascade(level, tx[p].contacts) \subseteq held[p] \cup todo[p]

\* A loan keeps its contact, or loses it for good.
ContactKept ==
  \A p \in Txs : tx[p].kind \in {"patch", "confirm"} =>
    state[tx[p].loan] # "NONE" /\ of[tx[p].loan] \in tx[p].contacts \cup {NULL}

LockInv == LTypeOK /\ InOrder /\ HeldOnce /\ ContactsFirst /\ CascadeKnown /\ ContactKept
=============================================================================
