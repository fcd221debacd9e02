---------------------------- MODULE GuestLending ----------------------------
(* Loans to people without an account, on top of Lending: guest-loan.service.ts, *)
(* guest-loan-confirmation.service.ts, guest-loan-response.service.ts (the       *)
(* answer), external-borrowers.service.ts and the clean-up of contacts.          *)
(*                                                                               *)
(* Every operation locks ExternalBorrower, Copy, Loan, GuestLoanConfirmation in  *)
(* that order and decides on what it reads under the locks: one action each.     *)
(*                                                                               *)
(* Links, codes and proofs (who may give a guest's answer) are not decided here: *)
(* GuestAnswer stands for an answer whose proof was accepted.  Dates are reduced *)
(* to whether a contact has one (retainUntil) or is kept without limit (NULL).   *)

EXTENDS Lending

CONSTANT ContactOwner     \* whose address book a contact is in

ASSUME ContactOwnerAssumption == ContactOwner \in [Contacts -> Users]

VARIABLES
  known,          \* the ExternalBorrower rows that exist
  retainUntil,    \* per contact: "NULL" (kept without limit) or "DATED"
  confirmation    \* per loan: status of its GuestLoanConfirmation, "NONE" if it has none

gvars == <<copy, loan, events, notified, edits, known, retainUntil, confirmation>>

ConfirmationStatus == {"OPEN", "RECEIVED", "DENIED", "CANCELLED", "OWNER_RECORDED"}

GInit ==
  /\ Init
  /\ known = {}
  /\ retainUntil = [k \in Contacts |-> "NULL"]
  /\ confirmation = [l \in LoanIds |-> "NONE"]

LoansOf(k) == {l \in LoanIds : loan[l].contact = k}

ActiveLoansOf(k) == {l \in LoansOf(k) : loan[l].status \in EXCLUSIVE_LOAN_STATUS}

Faulty_RecomputeRetainUntil(k) ==   \* a loan waiting for confirmation does not count
  retainUntil' = [retainUntil EXCEPT ![k] =
    IF \E l \in LoansOf(k)' : loan'[l].status = "HANDED_OVER" THEN "NULL" ELSE "DATED"]

\* recomputeRetainUntil, at the end of a transaction: NULL while the contact has an
\* exclusive loan, otherwise some date.
RecomputeRetainUntil(k) ==
  retainUntil' = [retainUntil EXCEPT ![k] =
    IF \E l \in LoansOf(k)' : loan'[l].status \in EXCLUSIVE_LOAN_STATUS THEN "NULL" ELSE "DATED"]

GuestLoan(c, k, status) ==
  [status |-> status, origin |-> "RECORDED_GUEST", copy |-> c, borrower |-> NULL, contact |-> k]

-----------------------------------------------------------------------------
(* Contacts *)

CreateContact(k) ==
  /\ k \notin known
  /\ known' = known \cup {k}
  /\ retainUntil' = [retainUntil EXCEPT ![k] = "DATED"]
  /\ UNCHANGED <<vars, confirmation>>

FaultyHome_Forget(ks) ==   \* the copy falls back to its owner
  /\ known' = known \ ks
  /\ copy' = [c \in Copies |->
       IF copy[c].contact \in ks THEN [copy[c] EXCEPT !.contact = NULL, !.holder = OwnerOf[c]]
                                  ELSE copy[c]]
  /\ loan' = [l \in LoanIds |-> IF loan[l].contact \in ks THEN [loan[l] EXCEPT !.contact = NULL]
                                                           ELSE loan[l]]
  /\ UNCHANGED <<events, notified, edits, retainUntil, confirmation>>

\* DELETE of the contact row and its ON DELETE SET NULL on copies and loans.
Forget(ks) ==
  /\ known' = known \ ks
  /\ copy' = [c \in Copies |-> IF copy[c].contact \in ks THEN [copy[c] EXCEPT !.contact = NULL]
                                                          ELSE copy[c]]
  /\ loan' = [l \in LoanIds |-> IF loan[l].contact \in ks THEN [loan[l] EXCEPT !.contact = NULL]
                                                           ELSE loan[l]]
  /\ UNCHANGED <<events, notified, edits, retainUntil, confirmation>>

\* The owner deletes a contact: refused with an active loan or an unresolved loss.
DeleteContact(k) ==
  /\ k \in known
  /\ ActiveLoansOf(k) = {}
  /\ \A l \in LoansOf(k) : loan[l].status = "LOST" =>
       \E type \in {"RECOVERED", "LOSS_CLOSED"} : <<l, type>> \in events
  /\ Forget({k})

\* One batch of the clean-up: of the contacts whose date has come it deletes those that
\* have no active loan.  Which dates have come is left open.
CleanupContacts(due) ==
  /\ due # {}
  /\ due \subseteq {k \in known : retainUntil[k] = "DATED"}
  /\ Forget({k \in due : ActiveLoansOf(k) = {}})

-----------------------------------------------------------------------------
(* Guest loans *)

CreateGuestLoan(l, c, k) ==
  /\ loan[l].status = "NONE"
  /\ k \in known /\ ContactOwner[k] = OwnerOf[c]
  /\ Lendable(c)
  /\ IndexAccepts(l, c)
  /\ loan' = [Reject(RequestsOn(c)) EXCEPT ![l] = GuestLoan(c, k, "HANDED_OVER")]
  /\ copy' = [copy EXCEPT ![c].status = "LENT_OUT", ![c].holder = NULL, ![c].contact = k]
  /\ notified' = notified \cup ToldRejected(RequestsOn(c))
  /\ events' = events \cup {<<l, "GUEST_LOAN_RECORDED">>}
  /\ RecomputeRetainUntil(k)
  /\ UNCHANGED <<edits, known, confirmation>>

\* The copy is in the state the row demands, with the contact of this very loan; after
\* the contact was deleted both references are NULL and still match.
GuestCopyReady(l, row) ==
  row.requiresCopyStatus # "NONE" =>
    LET c == copy[loan[l].copy]
    IN  c.status = row.requiresCopyStatus /\ c.holder = NULL /\ c.contact = loan[l].contact

Faulty_EventAllowed(l, event) == event = "LOSS_CLOSED" => <<l, "LOSS_CLOSED">> \notin events

\* `recover` is refused after a RECOVERED, `close_loss` after either event.
EventAllowed(l, event) ==
  /\ event \in {"RECOVERED", "LOSS_CLOSED"} => <<l, "RECOVERED">> \notin events
  /\ event = "LOSS_CLOSED" => <<l, "LOSS_CLOSED">> \notin events

GuestTransition(l, row) ==
  LET c == loan[l].copy
      back == row.copyHolder = "OWNER"
  IN
  /\ EventAllowed(l, row.event)
  /\ row.event = "RECOVERED" => ~copy[c].archived /\ ExclusiveOn(c) \subseteq {l}
  /\ GuestCopyReady(l, row)
  /\ loan' = [loan EXCEPT ![l].status = row.to]
  /\ copy' = [copy EXCEPT ![c].status = IF row.copyStatus = "KEEP" THEN @ ELSE row.copyStatus,
                          ![c].holder = IF back THEN OwnerOf[c] ELSE @,
                          ![c].contact = IF back THEN NULL ELSE @]
  /\ events' = events \cup {<<l, row.event>>}
  /\ IF loan[l].contact = NULL THEN UNCHANGED retainUntil
                               ELSE RecomputeRetainUntil(loan[l].contact)
  /\ UNCHANGED <<notified, edits, known, confirmation>>

PatchGuestLoan(l) ==
  /\ IsGuest(l)
  /\ \E row \in GuestRows(loan[l].status) : GuestTransition(l, row)

-----------------------------------------------------------------------------
(* Hand-overs waiting for the guest's word *)

\* The book is with the contact, but nobody has confirmed it yet; requests stay open.
RequestConfirmation(l, c, k) ==
  /\ loan[l].status = "NONE"
  /\ k \in known /\ ContactOwner[k] = OwnerOf[c]
  /\ Lendable(c)
  /\ IndexAccepts(l, c)
  /\ loan' = [loan EXCEPT ![l] = GuestLoan(c, k, "PENDING_CONFIRMATION")]
  /\ copy' = [copy EXCEPT ![c].status = "RESERVED", ![c].holder = NULL, ![c].contact = k]
  /\ confirmation' = [confirmation EXCEPT ![l] = "OPEN"]
  /\ events' = events \cup {<<l, "GUEST_CONFIRMATION_REQUESTED">>}
  /\ RecomputeRetainUntil(k)
  /\ UNCHANGED <<notified, edits, known>>

\* readPendingChain: the loan and the copy still wait with the contact.
PendingChain(l) ==
  LET c == copy[loan[l].copy]
  IN  /\ loan[l].status = "PENDING_CONFIRMATION" /\ loan[l].contact # NULL
      /\ c.status = "RESERVED" /\ c.holder = NULL /\ c.contact = loan[l].contact

\* The owner's decision: cancel_handover or record_owner_statement.
ResolveConfirmation(l, row) ==
  LET c == loan[l].copy
      rivals == IF row.rejectsRequestedRivals THEN RequestsOn(c) ELSE {}
  IN
  /\ PendingChain(l)
  /\ loan' = [Reject(rivals) EXCEPT ![l].status = row.loanTo]
  /\ copy' = [copy EXCEPT ![c] = IF row.copyTo = "AVAILABLE"
                                 THEN [@ EXCEPT !.status = "AVAILABLE", !.holder = OwnerOf[c],
                                                !.contact = NULL]
                                 ELSE [@ EXCEPT !.status = "LENT_OUT"]]
  /\ confirmation' = [confirmation EXCEPT ![l] = row.confirmationTo]
  /\ notified' = notified \cup ToldRejected(rivals)
  /\ events' = events \cup {<<l, row.event>>}
  /\ RecomputeRetainUntil(loan[l].contact)
  /\ UNCHANGED <<edits, known>>

Faulty_AwaitsAnswer(l) == confirmation[l] \in {"OPEN", "DENIED"}

\* A guest answers an open request only.
AwaitsAnswer(l) == confirmation[l] = "OPEN"

\* The guest's proven answer.  RECEIVED makes the loan a handed over one; DENIED leaves
\* loan and copy as they are, for the owner to resolve.
GuestAnswer(l, answer) ==
  LET c == loan[l].copy
      rivals == IF answer = "RECEIVED" THEN RequestsOn(c) ELSE {}
  IN
  /\ AwaitsAnswer(l)
  /\ PendingChain(l)
  /\ IF answer = "RECEIVED"
     THEN /\ loan' = [Reject(rivals) EXCEPT ![l].status = "HANDED_OVER"]
          /\ copy' = [copy EXCEPT ![c].status = "LENT_OUT"]
     ELSE UNCHANGED <<loan, copy>>
  /\ confirmation' = [confirmation EXCEPT ![l] = answer]
  /\ events' = events \cup {<<l, IF answer = "RECEIVED" THEN "GUEST_LOAN_RECEIVED"
                                                        ELSE "GUEST_LOAN_DENIED">>}
  /\ notified' = notified \cup ToldRejected(rivals)
       \cup {<<OwnerOf[c], IF answer = "RECEIVED" THEN "GUEST_LOAN_RECEIVED"
                                                  ELSE "GUEST_LOAN_DENIED", l>>}
  /\ RecomputeRetainUntil(loan[l].contact)
  /\ UNCHANGED <<edits, known>>

-----------------------------------------------------------------------------

ContactStep ==
  \/ \E k \in Contacts : CreateContact(k) \/ DeleteContact(k)
  \/ \E due \in SUBSET Contacts : CleanupContacts(due)

GuestLoanStep ==
  \E l \in LoanIds :
    \/ \E c \in Copies, k \in Contacts : CreateGuestLoan(l, c, k) \/ RequestConfirmation(l, c, k)
    \/ PatchGuestLoan(l)
    \/ \E row \in ConfirmationRows(confirmation[l]) : ResolveConfirmation(l, row)
    \/ \E answer \in {"RECEIVED", "DENIED"} : GuestAnswer(l, answer)

RegisteredStep == Next /\ UNCHANGED <<known, retainUntil, confirmation>>

GNext == RegisteredStep \/ ContactStep \/ GuestLoanStep

GSpec == GInit /\ [][GNext]_gvars

-----------------------------------------------------------------------------
(* Properties, besides those of Lending *)

GTypeOK ==
  /\ TypeOK
  /\ known \subseteq Contacts
  /\ retainUntil \in [Contacts -> {"NULL", "DATED"}]
  /\ confirmation \in [LoanIds -> ConfirmationStatus \cup {"NONE"}]

\* The retention clock of a contact runs exactly while no book is out with them: every
\* operation that starts, ends or cancels a guest loan recomputes it, and nothing else
\* (no transition of other loans) leaves it out of date.
ClockFollowsLoans ==
  \A k \in known : (retainUntil[k] = "NULL") <=> (ActiveLoansOf(k) # {})

\* A contact who has a book is never erased, by hand or by the clean-up: references from
\* exclusive loans and from the copies they hold always lead to an existing contact.
HolderIsKnown ==
  /\ \A l \in LoanIds : IsGuest(l) /\ loan[l].status \in EXCLUSIVE_LOAN_STATUS =>
       loan[l].contact \in known
  /\ \A l \in LoanIds : loan[l].contact # NULL => loan[l].contact \in known
  /\ \A c \in Copies : copy[c].contact # NULL => copy[c].contact \in known

\* The request sent to the guest and the loan it is about say the same: only a guest is
\* asked, the request is unresolved exactly while the loan waits, and its end is the loan's.
RequestAgrees(l) ==
  /\ confirmation[l] # "NONE" => loan[l].status # "NONE" /\ IsGuest(l)
  /\ (loan[l].status = "PENDING_CONFIRMATION" /\ IsGuest(l)) <=>
       confirmation[l] \in {"OPEN", "DENIED"}
  /\ confirmation[l] = "CANCELLED" => loan[l].status = "CANCELLED"
  /\ confirmation[l] \in {"RECEIVED", "OWNER_RECORDED"} =>
       loan[l].status \in {"HANDED_OVER", "RETURNED", "LOST"}

ConfirmationAgrees == \A l \in LoanIds : RequestAgrees(l)

\* A guest's book can always be brought home: whatever happened to the contact, some row
\* of the guest tables still accepts a guest loan that is out or lost (archived copies
\* have to be restored first).
GuestNeverStuck ==
  \A l \in LoanIds : IsGuest(l) =>
    /\ loan[l].status = "HANDED_OVER" \/ OpenLoss(l) =>
         \E row \in GuestRows(loan[l].status) : row.copyHolder = "OWNER" /\ GuestCopyReady(l, row)
    /\ loan[l].status = "PENDING_CONFIRMATION" =>
         PendingChain(l) /\ ConfirmationRows(confirmation[l]) # {}

\* Confirmations: what is asked of a guest fits the loan, and no hand-over is stuck.
HandOverGoesOn == ConfirmationAgrees /\ GuestNeverStuck

\* Contacts: the clock of an address runs from the last loan, and a holder is never forgotten.
ContactsAreKept == ClockFollowsLoans /\ HolderIsKnown

\* The inductive invariant of GuestLendingProofs.
GuestInv ==
  /\ LendingInv
  /\ GTypeOK
  /\ ConfirmationAgrees
  /\ HolderIsKnown
  /\ ClockFollowsLoans

\* The loan's request keeps its end, and a denied one can only be overruled by the owner.
AnswerStands(l) ==
  /\ confirmation[l] \in {"RECEIVED", "CANCELLED", "OWNER_RECORDED"} =>
       confirmation'[l] = confirmation[l]
  /\ confirmation[l] = "DENIED" => confirmation'[l] \notin {"OPEN", "RECEIVED"}

\* A resolved request stays resolved, and a guest's answer is given once.
AnswersStand == [][\A l \in LoanIds : AnswerStands(l)]_gvars

=============================================================================
