--------------------------- MODULE LoanTransitions ---------------------------
(* The loan state machine: which action takes a loan from which status to which, *)
(* on whose word, what it demands of the copy and what it does to it.            *)
(*                                                                               *)
(* apps/api/src/loans/loan.transitions.ts writes this as nested switches that    *)
(* return one record or a refusal.  Here every function is the set of records it *)
(* can return; an action that no record of the set answers is refused.           *)
(*                                                                               *)
(* Fields of a row:                                                              *)
(*   from, action    the status the loan is in, and the action                   *)
(*   actors          the sides of the loan that may perform it                   *)
(*   to              the status of the loan afterwards                           *)
(*   requires        <<copy status, side holding it>> before, <<>> if irrelevant *)
(*   copyStatus      the new copy status, "KEEP" to leave it alone               *)
(*   holder          the side holding the copy afterwards, or "KEEP"             *)
(*   notify          <<side, notification type>>, <<>> for none                  *)
(*   rejectRivals    are the other REQUESTED loans of the copy rejected?         *)
(*   event           the audit event, "NONE" for none                            *)

LoanStatus == {"REQUESTED", "APPROVED", "HANDED_OVER", "RETURNED", "REJECTED",
               "CANCELLED", "LOST", "PENDING_CONFIRMATION", "DECLINED"}

Origin == {"REQUESTED", "RECORDED_EXISTING", "RECORDED_GUEST"}

CopyStatus == {"AVAILABLE", "RESERVED", "LENT_OUT", "UNAVAILABLE"}

\* The statuses of the partial unique index one_active_loan_per_copy.
EXCLUSIVE_LOAN_STATUS == {"APPROVED", "HANDED_OVER", "PENDING_CONFIRMATION"}

OnlyOwner == {"OWNER"}
OnlyBorrower == {"BORROWER"}

-----------------------------------------------------------------------------
(* Loans between registered users. *)

FromRequested ==
  { [from |-> "REQUESTED", action |-> "approve", actors |-> OnlyOwner,
     to |-> "APPROVED", requires |-> <<"AVAILABLE", "OWNER">>,
     copyStatus |-> "RESERVED", holder |-> "KEEP", notify |-> <<"BORROWER", "LOAN_APPROVED">>,
     rejectRivals |-> TRUE, event |-> "NONE"],
    [from |-> "REQUESTED", action |-> "reject", actors |-> OnlyOwner,
     to |-> "REJECTED", requires |-> <<>>,
     copyStatus |-> "KEEP", holder |-> "KEEP", notify |-> <<"BORROWER", "LOAN_REJECTED">>,
     rejectRivals |-> FALSE, event |-> "NONE"],
    [from |-> "REQUESTED", action |-> "cancel", actors |-> OnlyBorrower,
     to |-> "CANCELLED", requires |-> <<>>,
     copyStatus |-> "KEEP", holder |-> "KEEP", notify |-> <<>>,
     rejectRivals |-> FALSE, event |-> "NONE"] }

FromApproved ==
  { [from |-> "APPROVED", action |-> "cancel", actors |-> OnlyOwner \cup OnlyBorrower,
     to |-> "CANCELLED", requires |-> <<"RESERVED", "OWNER">>,
     copyStatus |-> "AVAILABLE", holder |-> "KEEP", notify |-> <<"COUNTERPARTY", "LOAN_CANCELLED">>,
     rejectRivals |-> FALSE, event |-> "NONE"],
    [from |-> "APPROVED", action |-> "hand_over", actors |-> OnlyBorrower,
     to |-> "HANDED_OVER", requires |-> <<"RESERVED", "OWNER">>,
     copyStatus |-> "LENT_OUT", holder |-> "BORROWER", notify |-> <<"OWNER", "LOAN_HANDED_OVER">>,
     rejectRivals |-> FALSE, event |-> "NONE"] }

FromHandedOver(origin) ==
  { [from |-> "HANDED_OVER", action |-> "return", actors |-> OnlyOwner,
     to |-> "RETURNED", requires |-> <<"LENT_OUT", "BORROWER">>,
     copyStatus |-> "AVAILABLE", holder |-> "OWNER", notify |-> <<"BORROWER", "LOAN_RETURNED">>,
     rejectRivals |-> FALSE,
     event |-> IF origin = "REQUESTED" THEN "NONE" ELSE "LOAN_RETURNED"],
    [from |-> "HANDED_OVER", action |-> "mark_lost", actors |-> OnlyOwner,
     to |-> "LOST", requires |-> <<"LENT_OUT", "BORROWER">>,
     copyStatus |-> "UNAVAILABLE", holder |-> "KEEP", notify |-> <<>>,
     rejectRivals |-> FALSE, event |-> "LOAN_LOST"] }

\* LOST -> LOST: only the copy comes home; the loan keeps its past.
FromLost ==
  { [from |-> "LOST", action |-> "recover", actors |-> OnlyOwner,
     to |-> "LOST", requires |-> <<"UNAVAILABLE", "BORROWER">>,
     copyStatus |-> "AVAILABLE", holder |-> "OWNER", notify |-> <<>>,
     rejectRivals |-> FALSE, event |-> "RECOVERED"] }

RECORD_HELD == <<"RESERVED", "OWNER">>

FromPendingConfirmation ==
  { [from |-> "PENDING_CONFIRMATION", action |-> "confirm_record", actors |-> OnlyBorrower,
     to |-> "HANDED_OVER", requires |-> RECORD_HELD,
     copyStatus |-> "LENT_OUT", holder |-> "BORROWER", notify |-> <<"OWNER", "LOAN_RECORD_CONFIRMED">>,
     rejectRivals |-> TRUE, event |-> "RECORD_CONFIRMED"],
    [from |-> "PENDING_CONFIRMATION", action |-> "decline_record", actors |-> OnlyBorrower,
     to |-> "DECLINED", requires |-> RECORD_HELD,
     copyStatus |-> "AVAILABLE", holder |-> "KEEP", notify |-> <<"OWNER", "LOAN_RECORD_DECLINED">>,
     rejectRivals |-> FALSE, event |-> "RECORD_DECLINED"],
    [from |-> "PENDING_CONFIRMATION", action |-> "withdraw_record", actors |-> OnlyOwner,
     to |-> "CANCELLED", requires |-> RECORD_HELD,
     copyStatus |-> "AVAILABLE", holder |-> "KEEP", notify |-> <<"BORROWER", "LOAN_RECORD_WITHDRAWN">>,
     rejectRivals |-> FALSE, event |-> "RECORD_WITHDRAWN"],
    [from |-> "PENDING_CONFIRMATION", action |-> "amend_record", actors |-> OnlyOwner,
     to |-> "PENDING_CONFIRMATION", requires |-> RECORD_HELD,
     copyStatus |-> "KEEP", holder |-> "KEEP", notify |-> <<"BORROWER", "LOAN_RECORD_AMENDED">>,
     rejectRivals |-> FALSE, event |-> "RECORD_AMENDED"] }

\* resolveRecorded: a loan the owner wrote down has its own table.
RecordedTable == FromPendingConfirmation \cup FromHandedOver("RECORDED_EXISTING") \cup FromLost

RequestTable == FromRequested \cup FromApproved \cup FromHandedOver("REQUESTED") \cup FromLost

\* resolveTransition: every row open to a registered loan of this origin and status.
\* A guest loan has none here.
RegisteredRows(origin, from) ==
  { row \in IF origin = "RECORDED_EXISTING" THEN RecordedTable ELSE RequestTable :
      origin # "RECORDED_GUEST" /\ row.from = from }

-----------------------------------------------------------------------------
(* Guest loans: one actor, the owner; the holder is always a contact, so a row *)
(* only says whether the copy goes back to the owner.                          *)

GuestTable ==
  { [from |-> "HANDED_OVER", action |-> "return", to |-> "RETURNED",
     requiresCopyStatus |-> "LENT_OUT", copyStatus |-> "AVAILABLE", copyHolder |-> "OWNER",
     event |-> "LOAN_RETURNED"],
    [from |-> "HANDED_OVER", action |-> "mark_lost", to |-> "LOST",
     requiresCopyStatus |-> "LENT_OUT", copyStatus |-> "UNAVAILABLE", copyHolder |-> "KEEP",
     event |-> "LOAN_LOST"],
    [from |-> "LOST", action |-> "recover", to |-> "LOST",
     requiresCopyStatus |-> "UNAVAILABLE", copyStatus |-> "AVAILABLE", copyHolder |-> "OWNER",
     event |-> "RECOVERED"],
    [from |-> "LOST", action |-> "close_loss", to |-> "LOST",
     requiresCopyStatus |-> "NONE", copyStatus |-> "KEEP", copyHolder |-> "KEEP",
     event |-> "LOSS_CLOSED"] }

GuestRows(from) == {row \in GuestTable : row.from = from}

\* The owner's two ways out of an unanswered or denied hand-over
\* (guest-loan-confirmation.transitions.ts).
\* Faulty_: a mistake the model checker has to notice when it stands for the next definition.
Faulty_CANCEL_HANDOVER ==   \* the request is closed, its loan is forgotten
  [confirmationTo |-> "CANCELLED", loanTo |-> "PENDING_CONFIRMATION", copyTo |-> "AVAILABLE",
   event |-> "GUEST_HANDOVER_CANCELLED", rejectsRequestedRivals |-> FALSE]

CANCEL_HANDOVER ==
  [confirmationTo |-> "CANCELLED", loanTo |-> "CANCELLED", copyTo |-> "AVAILABLE",
   event |-> "GUEST_HANDOVER_CANCELLED", rejectsRequestedRivals |-> FALSE]

Faulty_RECORD_OWNER_STATEMENT ==   \* the book has gone, the requests for it stay
  [confirmationTo |-> "OWNER_RECORDED", loanTo |-> "HANDED_OVER", copyTo |-> "LENT_OUT",
   event |-> "GUEST_LOAN_OWNER_RECORDED", rejectsRequestedRivals |-> FALSE]

RECORD_OWNER_STATEMENT ==
  [confirmationTo |-> "OWNER_RECORDED", loanTo |-> "HANDED_OVER", copyTo |-> "LENT_OUT",
   event |-> "GUEST_LOAN_OWNER_RECORDED", rejectsRequestedRivals |-> TRUE]

ConfirmationRows(from) ==
  IF from \in {"OPEN", "DENIED"} THEN {CANCEL_HANDOVER, RECORD_OWNER_STATEMENT} ELSE {}

=============================================================================
