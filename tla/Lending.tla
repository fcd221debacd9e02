------------------------------- MODULE Lending -------------------------------
(* Copies, the loans on them between registered users, and the owner's library   *)
(* operations (apps/api/src/loans/loan.service.ts, library/library.service.ts).  *)
(*                                                                               *)
(* Every loan operation is one transaction that first takes FOR UPDATE on the    *)
(* Copy row and decides on what it reads under that lock, so it is one action.   *)
(* The exception is the owner's status edit (PATCH /me/library/:id): a single    *)
(* updateMany with no lock before it.  Under READ COMMITTED its WHERE clause is  *)
(* evaluated on the statement's snapshot; when the Copy row was changed since,   *)
(* only the conditions on the Copy row itself are evaluated again.  It is two    *)
(* actions here, and any transaction may commit between them.                    *)
(*                                                                               *)
(* A definition named Faulty_X is X with a mistake in it; no specification uses  *)
(* it.  Each one stands for X once, to see that the properties notice it.        *)
(*                                                                               *)
(* Access (friendship, visibility, paused requests) only ever refuses: a refused *)
(* request changes nothing, so Request and RecordExisting stand for those that   *)
(* access lets through.  Dates do not decide anything here and are left out.     *)

EXTENDS LoanTransitions

CONSTANTS
  Users,         \* registered users
  Contacts,      \* external borrowers (guests): people without an account
  Copies,        \* ids of physical copies
  LoanIds,       \* ids of loans; bounds how many loans are ever created
  OwnerOf,       \* the owner of each copy
  StatusEdits,   \* the statuses the owner's edit form may send
  NULL

ASSUME OwnerAssumption == OwnerOf \in [Copies -> Users]
ASSUME NullAssumption == NULL \notin Users \cup Contacts \cup Copies
ASSUME PartiesAssumption == Users \cap Contacts = {}
\* UpdateCopyDto: RESERVED and LENT_OUT are refused by validation.
ASSUME EditsAssumption == StatusEdits \subseteq {"AVAILABLE", "UNAVAILABLE"}

VARIABLES
  copy,       \* the Copy rows
  loan,       \* the Loan rows; status "NONE": not created yet
  events,     \* the audit trail: <<loan, event type>>
  notified,   \* the Notification rows: <<user, type, loan>>
  edits       \* status edits past their snapshot, not yet written: <<copy, status>>

vars == <<copy, loan, events, notified, edits>>

CopyRow == [listed : BOOLEAN, status : CopyStatus, holder : Users \cup {NULL},
            contact : Contacts \cup {NULL}, archived : BOOLEAN]

LoanRow == [status : LoanStatus \cup {"NONE"}, origin : Origin, copy : Copies \cup {NULL},
            borrower : Users \cup {NULL}, contact : Contacts \cup {NULL}]

NoLoan == [status |-> "NONE", origin |-> "REQUESTED", copy |-> NULL,
           borrower |-> NULL, contact |-> NULL]

FreshCopy(c) == [listed |-> TRUE, status |-> "AVAILABLE", holder |-> OwnerOf[c],
                 contact |-> NULL, archived |-> FALSE]

LoansOn(c) == {l \in LoanIds : loan[l].status # "NONE" /\ loan[l].copy = c}

ExclusiveOn(c) == {l \in LoansOn(c) : loan[l].status \in EXCLUSIVE_LOAN_STATUS}

Faulty_RequestsOn(c) == {l \in LoansOn(c) : loan[l].origin = "REQUESTED"}   \* no status filter

\* Open requests of the request flow (REQUEST_FLOW_REQUESTED).
RequestsOn(c) == {l \in LoansOn(c) : loan[l].status = "REQUESTED" /\ loan[l].origin = "REQUESTED"}

AtHome(c) == copy[c].holder = OwnerOf[c] /\ copy[c].contact = NULL

\* Free and at home, on the shelf: what every new loan demands of its copy.
Lendable(c) == copy[c].listed /\ ~copy[c].archived /\ copy[c].status = "AVAILABLE" /\ AtHome(c)

Faulty_Requestable(c) == copy[c].listed /\ ~copy[c].archived /\ copy[c].holder = OwnerOf[c]

\* What a request demands of it: request() reads the holder, not the contact.
Requestable(c) ==
  copy[c].listed /\ ~copy[c].archived /\ copy[c].status = "AVAILABLE" /\ copy[c].holder = OwnerOf[c]

\* Nobody borrows their own book.
NotOwn(c, b) == b # OwnerOf[c]

Faulty_IndexAccepts(l, c) == TRUE

\* The one_active_loan_per_copy index accepts an exclusive status for loan l on c.
IndexAccepts(l, c) == ExclusiveOn(c) \subseteq {l}

Init ==
  /\ copy = [c \in Copies |-> [FreshCopy(c) EXCEPT !.listed = FALSE]]
  /\ loan = [l \in LoanIds |-> NoLoan]
  /\ events = {}
  /\ notified = {}
  /\ edits = {}

-----------------------------------------------------------------------------
(* The library *)

\* The id of a new copy is fresh: no edit of an earlier row can reach it.
AddCopy(c) ==
  /\ ~copy[c].listed
  /\ LoansOn(c) = {}
  /\ \A s \in StatusEdits : <<c, s>> \notin edits
  /\ copy' = [copy EXCEPT ![c] = FreshCopy(c)]
  /\ UNCHANGED <<loan, events, notified, edits>>

\* First half of the updateMany: the snapshot shows the copy in the owner's hands and
\* no loan of it in an exclusive status.
StartStatusEdit(c, s) ==
  /\ copy[c].listed
  /\ copy[c].holder = OwnerOf[c]
  /\ ExclusiveOn(c) = {}
  /\ edits' = edits \cup {<<c, s>>}
  /\ UNCHANGED <<copy, loan, events, notified>>

\* Second half: the row is written if it is still there and still held by the owner.
FinishStatusEdit(c, s) ==
  /\ <<c, s>> \in edits
  /\ edits' = edits \ {<<c, s>>}
  /\ copy' = IF copy[c].listed /\ copy[c].holder = OwnerOf[c]
             THEN [copy EXCEPT ![c].status = s] ELSE copy
  /\ UNCHANGED <<loan, events, notified>>

RemoveCopy(c) ==
  /\ copy[c].listed
  /\ LoansOn(c) = {}
  /\ copy' = [copy EXCEPT ![c] = [FreshCopy(c) EXCEPT !.listed = FALSE]]
  /\ UNCHANGED <<loan, events, notified, edits>>

Reject(rivals) ==
  [l \in LoanIds |-> IF l \in rivals THEN [loan[l] EXCEPT !.status = "REJECTED"] ELSE loan[l]]

ToldRejected(rivals) == {<<loan[l].borrower, "LOAN_REJECTED", l>> : l \in rivals}

ArchiveCopy(c) ==
  /\ copy[c].listed
  /\ ~copy[c].archived
  /\ ExclusiveOn(c) = {}
  /\ loan' = Reject(RequestsOn(c))
  /\ notified' = notified \cup ToldRejected(RequestsOn(c))
  /\ copy' = [copy EXCEPT ![c].archived = TRUE]
  /\ UNCHANGED <<events, edits>>

Faulty_RestoreCopy(c) ==   \* the whole row starts afresh
  /\ copy[c].listed
  /\ copy' = [copy EXCEPT ![c] = FreshCopy(c)]
  /\ UNCHANGED <<loan, events, notified, edits>>

RestoreCopy(c) ==
  /\ copy[c].listed
  /\ copy' = [copy EXCEPT ![c].archived = FALSE]
  /\ UNCHANGED <<loan, events, notified, edits>>

-----------------------------------------------------------------------------
(* Loans between registered users *)

Request(l, c, b) ==
  /\ loan[l].status = "NONE"
  /\ NotOwn(c, b)
  /\ Requestable(c)
  /\ \A k \in LoansOn(c) : ~(loan[k].borrower = b /\ loan[k].status = "REQUESTED")
  /\ loan' = [loan EXCEPT ![l] = [NoLoan EXCEPT !.status = "REQUESTED", !.copy = c, !.borrower = b]]
  /\ notified' = notified \cup {<<OwnerOf[c], "LOAN_REQUESTED", l>>}
  /\ UNCHANGED <<copy, events, edits>>

\* The owner writes down a loan that happened; the borrower has yet to confirm it.
\* Other people's requests stay open.
RecordExisting(l, c, b) ==
  /\ loan[l].status = "NONE"
  /\ NotOwn(c, b)
  /\ Lendable(c)
  /\ IndexAccepts(l, c)
  /\ loan' = [loan EXCEPT ![l] = [NoLoan EXCEPT !.status = "PENDING_CONFIRMATION",
                                   !.origin = "RECORDED_EXISTING", !.copy = c, !.borrower = b]]
  /\ copy' = [copy EXCEPT ![c].status = "RESERVED"]
  /\ events' = events \cup {<<l, "RECORD_PROPOSED">>}
  /\ notified' = notified \cup {<<b, "LOAN_RECORD_PROPOSED", l>>}
  /\ UNCHANGED edits

SideOf(l, side) == IF side = "OWNER" THEN OwnerOf[loan[l].copy] ELSE loan[l].borrower

Counterpart(actor) == IF actor = "OWNER" THEN "BORROWER" ELSE "OWNER"

\* assertCopyReady
CopyReady(l, row) ==
  row.requires # <<>> =>
    /\ copy[loan[l].copy].status = row.requires[1]
    /\ copy[loan[l].copy].holder = SideOf(l, row.requires[2])

\* assertRecoverable
Recoverable(l) ==
  /\ <<l, "RECOVERED">> \notin events
  /\ ~copy[loan[l].copy].archived
  /\ ExclusiveOn(loan[l].copy) \subseteq {l}

FaultyHolder_CopyAfter(l, row) ==   \* a returned book keeps its holder
  LET before == copy[loan[l].copy]
  IN  [before EXCEPT
         !.status = IF row.copyStatus = "KEEP" THEN @ ELSE row.copyStatus,
         !.holder = IF row.holder = "BORROWER" THEN SideOf(l, row.holder) ELSE @]

\* The copy after a transition.
CopyAfter(l, row) ==
  LET before == copy[loan[l].copy]
  IN  [before EXCEPT
         !.status = IF row.copyStatus = "KEEP" THEN @ ELSE row.copyStatus,
         !.holder = IF row.holder = "KEEP" THEN @ ELSE SideOf(l, row.holder),
         !.contact = IF row.holder = "OWNER" THEN NULL ELSE @]

Told(l, row, actor) ==
  IF row.notify = <<>> THEN {}
  ELSE LET side == IF row.notify[1] = "COUNTERPARTY" THEN Counterpart(actor) ELSE row.notify[1]
       IN  {<<SideOf(l, side), row.notify[2], l>>}

RivalsOf(l, row) == IF row.rejectRivals THEN RequestsOn(loan[l].copy) \ {l} ELSE {}

\* PATCH /loans/:id: runTransition.
RunTransition(l, row, actor) ==
  /\ row.event = "RECOVERED" => Recoverable(l)
  /\ CopyReady(l, row)
  /\ row.to \in EXCLUSIVE_LOAN_STATUS => IndexAccepts(l, loan[l].copy)
  /\ loan' = [Reject(RivalsOf(l, row)) EXCEPT ![l].status = row.to]
  /\ copy' = [copy EXCEPT ![loan[l].copy] = CopyAfter(l, row)]
  /\ events' = events \cup (IF row.event = "NONE" THEN {} ELSE {<<l, row.event>>})
  /\ notified' = notified \cup Told(l, row, actor) \cup ToldRejected(RivalsOf(l, row))
  /\ UNCHANGED edits

PatchLoan(l) ==
  \E row \in RegisteredRows(loan[l].origin, loan[l].status) :
    \E actor \in row.actors : RunTransition(l, row, actor)

-----------------------------------------------------------------------------

LibraryStep ==
  \E c \in Copies :
    \/ AddCopy(c)
    \/ RemoveCopy(c)
    \/ ArchiveCopy(c)
    \/ RestoreCopy(c)
    \/ \E s \in StatusEdits : StartStatusEdit(c, s) \/ FinishStatusEdit(c, s)

LoanStep ==
  \E l \in LoanIds :
    \/ \E c \in Copies, b \in Users : Request(l, c, b) \/ RecordExisting(l, c, b)
    \/ PatchLoan(l)

Next == LibraryStep \/ LoanStep

Spec == Init /\ [][Next]_vars

-----------------------------------------------------------------------------
(* Properties *)

\* Every row has its type, and the two ends of a loan are people it can have.
TypeOK ==
  /\ copy \in [Copies -> CopyRow]
  /\ loan \in [LoanIds -> LoanRow]
  /\ \A l \in LoanIds : loan[l].status # "NONE" =>
       /\ loan[l].copy \in Copies
       /\ loan[l].borrower # OwnerOf[loan[l].copy]
       /\ (loan[l].origin = "RECORDED_GUEST") <=> (loan[l].borrower = NULL)
       /\ loan[l].origin # "RECORDED_GUEST" => loan[l].contact = NULL
  /\ edits \subseteq Copies \X StatusEdits

\* A loss nobody has recovered from yet: the copy is still out there.
OpenLoss(l) == loan[l].status = "LOST" /\ <<l, "RECOVERED">> \notin events

\* A loan has a claim on its copy while it is exclusive, and a lost one until recovered.
Claims(l) == loan[l].status \in EXCLUSIVE_LOAN_STATUS \/ OpenLoss(l)

IsGuest(l) == loan[l].origin = "RECORDED_GUEST"

\* The copy is in the hands of the loan's other side.
WithBorrower(l) ==
  /\ copy[loan[l].copy].holder = loan[l].borrower
  /\ copy[loan[l].copy].contact = loan[l].contact

\* Claims(l) that put the copy outside the home.
Away(l) ==
  \/ loan[l].status = "HANDED_OVER"
  \/ loan[l].status = "PENDING_CONFIRMATION" /\ IsGuest(l)
  \/ OpenLoss(l)

\* specification.md 5.3.1, extended to losses: whatever the order of approvals, records,
\* hand-overs, losses and recoveries, one copy is promised, lent or lost to one person.
OneClaim ==
  \A k, l \in LoanIds : Claims(k) /\ Claims(l) /\ loan[k].copy = loan[l].copy => k = l

\* A loan and its copy agree about where the book is: promised books are at home, handed
\* over and lost ones are with that very borrower or contact (5.1, custody columns).
Custody ==
  \A l \in LoanIds :
    /\ loan[l].status # "NONE" => copy[loan[l].copy].listed
    /\ Away(l) => WithBorrower(l)
    /\ Claims(l) /\ ~Away(l) => AtHome(loan[l].copy)
    /\ loan[l].status = "HANDED_OVER" => copy[loan[l].copy].status = "LENT_OUT"
    /\ OpenLoss(l) => copy[loan[l].copy].status = "UNAVAILABLE"
    /\ loan[l].status = "PENDING_CONFIRMATION" /\ IsGuest(l) =>
         copy[loan[l].copy].status = "RESERVED"

\* specification.md 5.3.2 and 5.3.3, from the copy's side: a book that is not at home
\* is out on a loan that accounts for it, and LENT_OUT means a handed over one.
AwayIsAccounted ==
  \A c \in Copies :
    /\ copy[c].status = "LENT_OUT" => \E l \in LoansOn(c) : loan[l].status = "HANDED_OVER"
    /\ ~AtHome(c) => \E l \in LoansOn(c) : Away(l)

\* Nobody is left waiting for a book that has gone: once a copy is handed over, lost or
\* archived no REQUESTED loan of it remains (rejectRivals, archiveCopy; test C10 of
\* loans-recorded-concurrency.e2e-spec.ts).
NoRequestLeftBehind ==
  \A c \in Copies : RequestsOn(c) # {} =>
    /\ copy[c].listed /\ ~copy[c].archived
    /\ \A l \in LoansOn(c) : loan[l].status # "HANDED_OVER" /\ ~OpenLoss(l)

\* A loss is recovered from at most after it was declared: the RECOVERED event stands only
\* beside a LOST loan, so a second loss of the same loan can never pass for recovered.
RecoveredIsLost ==
  \A l \in LoanIds : <<l, "RECOVERED">> \in events => loan[l].status = "LOST"

\* While a book is kept for the approved borrower nobody else waits for it: approve turned
\* the rivals down, and the copy takes no new request until it is free again.
ApprovedHasNoRivals ==
  \A l \in LoanIds :
    loan[l].status = "APPROVED" /\ copy[loan[l].copy].status = "RESERVED" =>
      RequestsOn(loan[l].copy) = {}

\* The inductive invariant of LendingProofs.
LendingInv ==
  /\ TypeOK
  /\ OneClaim
  /\ Custody
  /\ AwayIsAccounted
  /\ NoRequestLeftBehind
  /\ RecoveredIsLost
  /\ ApprovedHasNoRivals

\* A loan that occupies its copy can always be ended by someone: some row of the table
\* leads out of its status and accepts the state its copy is in.  A copy that stopped
\* matching its loan would lock out both sides for good, since edits, archiving and
\* removal are refused too.
NeverStuck ==
  \A l \in LoanIds : loan[l].status \in EXCLUSIVE_LOAN_STATUS /\ ~IsGuest(l) =>
    \E row \in RegisteredRows(loan[l].origin, loan[l].status) :
      row.to # loan[l].status /\ CopyReady(l, row)

\* A free copy on the shelf has no exclusive loan: the unique index is the second line of
\* defence and is never what refuses (the comment above recordExisting's catch).
AvailableIsFree ==
  \A c \in Copies : copy[c].status = "AVAILABLE" => ExclusiveOn(c) = {}

\* Whoever asked and was turned down has the LOAN_REJECTED notification for that very loan,
\* whichever operation rejected it.
RejectedAreTold ==
  \A l \in LoanIds : loan[l].status = "REJECTED" =>
    <<loan[l].borrower, "LOAN_REJECTED", l>> \in notified

\* What the race of an edit with an approval would break: nobody is locked out, and a copy
\* offered as available can be lent.
NobodyIsLockedOut == NeverStuck /\ AvailableIsFree

\* Without edits this follows from: a promised copy says so, and every loan is in the table
\* of its origin.
PromisedIsReserved ==
  \A l \in LoanIds :
    /\ loan[l].status \in {"APPROVED", "PENDING_CONFIRMATION"} =>
         copy[loan[l].copy].status = "RESERVED"
    /\ loan[l].status \in {"REQUESTED", "APPROVED"} => loan[l].origin = "REQUESTED"
    /\ loan[l].status = "PENDING_CONFIRMATION" => loan[l].origin # "REQUESTED"

Closed == {"RETURNED", "REJECTED", "CANCELLED", "LOST", "DECLINED"}

\* A loan never changes hands, copy or origin, and a closed one never changes its status.
LoanStands(l) ==
  /\ loan'[l].copy = loan[l].copy
  /\ loan'[l].borrower = loan[l].borrower
  /\ loan'[l].origin = loan[l].origin
  /\ loan[l].status \in Closed => loan'[l].status = loan[l].status

\* History stands: what was agreed between whom about which book is never rewritten, and no
\* audit event or notification is withdrawn.
HistoryStands ==
  [][/\ \A l \in LoanIds : loan[l].status # "NONE" => LoanStands(l)
     /\ events \subseteq events'
     /\ notified \subseteq notified']_vars

ComesHome(c) == copy[c].listed /\ ~AtHome(c) /\ AtHome(c)'

\* The loan that had the book ends, or the loss of it does.
BringsHome(l, c) ==
  /\ loan[l].copy = c /\ Away(l) /\ WithBorrower(l)
  /\ \/ loan[l].status = "HANDED_OVER" /\ loan'[l].status = "RETURNED"
     \/ loan[l].status = "PENDING_CONFIRMATION" /\ loan'[l].status = "CANCELLED"
     \/ OpenLoss(l) /\ <<l, "RECOVERED">> \in events'

\* A book comes home only through the loan that took it away, and each loss brings it
\* home at most once: by a return, by the first RECOVERED event of that loss, or because
\* the guest hand-over it was waiting on is cancelled.
HomecomingIsAccounted ==
  [][\A c \in Copies : ComesHome(c) => \E l \in LoanIds : BringsHome(l, c)]_vars

\* "The status cannot be changed while the book is not at home or is on an active loan"
\* (COPY_STATUS_LOCKED): an edit that changes the status finds no exclusive loan.
StatusLockedOnLoan ==
  [][\A c \in Copies, s \in StatusEdits :
       FinishStatusEdit(c, s) /\ copy'[c].status # copy[c].status => ExclusiveOn(c) = {}]_vars

=============================================================================
