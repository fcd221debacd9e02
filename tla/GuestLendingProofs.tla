------------------------- MODULE GuestLendingProofs -------------------------
(* Theorems about GuestLending for any sets of users, contacts, copies and loans.  *)
(*                                                                                 *)
(* A step on a guest loan is described by the row it leaves (GuestMove) and what   *)
(* it leaves of the copy (CopyBecomes); LendingProofs' OthersDoNotNotice then      *)
(* keeps LendingInv.  The three invariants of the guests' side (ConfirmationAgrees, *)
(* HolderIsKnown, ClockFollowsLoans) need of every other loan only that no guest   *)
(* is behind it (Beside).                                                          *)

EXTENDS GuestLending, LendingProofs

USE OwnerAssumption, NullAssumption, ContactOwnerAssumption

-----------------------------------------------------------------------------
(* What a guest's step does to the rows *)

\* Loan l becomes a guest loan of copy c with contact k; other loans are turned down at most.
GuestMove(l, c, k, to) ==
  /\ loan' \in [LoanIds -> LoanRow]
  /\ loan'[l] = GuestLoan(c, k, to)
  /\ \A j \in LoanIds \ {l} :
       \/ loan'[j] = loan[j]
       \/ j \in RequestsOn(c) /\ loan'[j] = [loan[j] EXCEPT !.status = "REJECTED"]

CopyBecomes(c, status, holder, contact) ==
  /\ copy' \in [Copies -> CopyRow]
  /\ \A d \in Copies : d # c => copy'[d] = copy[d]
  /\ copy'[c].listed = copy[c].listed /\ copy'[c].archived = copy[c].archived
  /\ copy'[c].status = status /\ copy'[c].holder = holder /\ copy'[c].contact = contact

\* A copy whose status and whereabouts are overwritten.
LEMMA CopyIsPlaced ==
  ASSUME TypeOK, NEW c \in Copies, NEW status \in CopyStatus, NEW holder \in Users \cup {NULL},
         NEW contact \in Contacts \cup {NULL},
         copy' = [copy EXCEPT ![c] = [copy[c] EXCEPT !.status = status, !.holder = holder,
                                                     !.contact = contact]]
  PROVE  CopyBecomes(c, status, holder, contact)
<1> DEFINE r == [copy[c] EXCEPT !.status = status, !.holder = holder, !.contact = contact]
<1>1. copy \in [Copies -> CopyRow] /\ copy[c] \in CopyRow
  BY DEF TypeOK
<1>2. /\ r \in CopyRow /\ r.listed = copy[c].listed /\ r.archived = copy[c].archived
      /\ r.status = status /\ r.holder = holder /\ r.contact = contact
  BY <1>1 DEF CopyRow
<1>3. copy'[c] = r /\ copy' \in [Copies -> CopyRow] /\ \A d \in Copies : d # c => copy'[d] = copy[d]
  BY <1>1, <1>2
<1> QED
  BY <1>2, <1>3 DEF CopyBecomes

LEMMA GuestLoanRow ==
  ASSUME NEW c \in Copies, NEW k \in Contacts \cup {NULL}, NEW to \in LoanStatus
  PROVE  GuestLoan(c, k, to) \in LoanRow
BY DEF GuestLoan, LoanRow, Origin

\* What turning requests down leaves of a loan.
LEMMA TurnedDown ==
  ASSUME TypeOK, NEW j \in LoanIds, NEW c \in Copies,
         \/ loan'[j] = loan[j]
         \/ j \in RequestsOn(c) /\ loan'[j] = [loan[j] EXCEPT !.status = "REJECTED"]
  PROVE  /\ loan'[j].copy = loan[j].copy /\ loan'[j].borrower = loan[j].borrower
         /\ loan'[j].origin = loan[j].origin /\ loan'[j].contact = loan[j].contact
         /\ \/ loan'[j].status = loan[j].status
            \/ /\ loan[j].status = "REQUESTED" /\ loan'[j].status = "REJECTED"
               /\ ~IsGuest(j) /\ loan[j].contact = NULL
<1>1. loan[j] \in LoanRow
  BY DEF TypeOK
<1>2. j \in RequestsOn(c) =>
        loan[j].status = "REQUESTED" /\ ~IsGuest(j) /\ loan[j].contact = NULL
  BY DEF RequestsOn, LoansOn, IsGuest, TypeOK
<1> QED
  BY <1>1, <1>2 DEF LoanRow

LEMMA GuestMoveType ==
  ASSUME TypeOK, NEW l \in LoanIds, NEW c \in Copies, NEW k, NEW to,
         GuestMove(l, c, k, to), copy' \in [Copies -> CopyRow], edits' = edits
  PROVE  TypeOK'
<1> SUFFICES ASSUME NEW j \in LoanIds, loan'[j].status # "NONE"
             PROVE  /\ loan'[j].copy \in Copies
                    /\ loan'[j].borrower # OwnerOf[loan'[j].copy]
                    /\ (loan'[j].origin = "RECORDED_GUEST") <=> (loan'[j].borrower = NULL)
                    /\ loan'[j].origin # "RECORDED_GUEST" => loan'[j].contact = NULL
  BY DEF TypeOK, GuestMove
<1>1. CASE j = l
  <2>1. OwnerOf[c] # NULL
    OBVIOUS
  <2> QED
    BY <1>1, <2>1 DEF GuestMove, GuestLoan
<1>2. CASE j # l
  <2>1. /\ loan'[j].copy = loan[j].copy /\ loan'[j].borrower = loan[j].borrower
        /\ loan'[j].origin = loan[j].origin /\ loan'[j].contact = loan[j].contact
        /\ loan[j].status # "NONE"
    BY <1>2, TurnedDown DEF GuestMove
  <2> QED
    BY <2>1 DEF TypeOK
<1> QED
  BY <1>1, <1>2

\* A guest loan that has its copy away: the copy is with its contact, and nobody else claims it.
LEMMA GuestHolds ==
  ASSUME LendingInv, NEW l \in LoanIds, IsGuest(l), Away(l)
  PROVE  LET c == loan[l].copy IN
         /\ c \in Copies /\ copy[c].listed
         /\ copy[c].holder = NULL /\ copy[c].contact = loan[l].contact
         /\ loan[l] = GuestLoan(c, loan[l].contact, loan[l].status)
         /\ loan[l].contact \in Contacts \cup {NULL} /\ loan[l].status \in LoanStatus
         /\ \A k \in LoansOn(c) : Claims(k) => k = l
<1>1. loan[l].status # "NONE" /\ Claims(l)
  BY DEF Away, Claims, OpenLoss, EXCLUSIVE_LOAN_STATUS
<1>2. /\ loan[l] \in LoanRow /\ loan[l].copy \in Copies /\ loan[l].borrower = NULL
      /\ loan[l].origin = "RECORDED_GUEST"
  BY <1>1 DEF LendingInv, TypeOK, IsGuest
<1>3. copy[loan[l].copy].listed /\ WithBorrower(l)
  BY <1>1 DEF LendingInv, Custody
<1>4. \A k \in LoansOn(loan[l].copy) : Claims(k) => k = l
  BY <1>1 DEF LendingInv, OneClaim, LoansOn
<1>5. loan[l] = GuestLoan(loan[l].copy, loan[l].contact, loan[l].status)
  BY <1>2 DEF LoanRow, GuestLoan
<1> QED
  BY <1>1, <1>2, <1>3, <1>4, <1>5 DEF WithBorrower, LoanRow

\* Nobody claims a copy that is free and at home, if the index accepts a loan on it.
LEMMA LendableIsUnclaimed ==
  ASSUME LendingInv, NEW l \in LoanIds, NEW c \in Copies,
         loan[l].status = "NONE", Lendable(c), IndexAccepts(l, c)
  PROVE  \A k \in LoansOn(c) : ~Claims(k)
<1> SUFFICES ASSUME NEW k \in LoansOn(c), Claims(k) PROVE FALSE
  OBVIOUS
<1>1. k \in LoanIds /\ k # l /\ loan[k].copy = c
  BY DEF LoansOn
<1>2. loan[k].status \notin EXCLUSIVE_LOAN_STATUS
  BY <1>1 DEF IndexAccepts, ExclusiveOn
<1>3. ~OpenLoss(k)
  BY <1>1 DEF LendingInv, Custody, Lendable
<1> QED
  BY <1>2, <1>3 DEF Claims

-----------------------------------------------------------------------------
(* LendingInv: the five ways a guest's book moves *)

Leaves(c, k, to, status, holder, contact) ==
  \/ to = "HANDED_OVER" /\ status = "LENT_OUT" /\ holder = NULL /\ contact = k
  \/ to = "PENDING_CONFIRMATION" /\ status = "RESERVED" /\ holder = NULL /\ contact = k
  \/ to = "LOST" /\ status = "UNAVAILABLE" /\ holder = NULL /\ contact = k

Returned(c, to, status, holder, contact) ==
  /\ to \in {"RETURNED", "CANCELLED", "LOST"}
  /\ status = "AVAILABLE" /\ holder = OwnerOf[c] /\ contact = NULL

LEMMA GuestMoveKeeps ==
  ASSUME LendingInv, TypeOK', NEW l \in LoanIds, NEW c \in Copies, NEW k, NEW to,
         NEW status, NEW holder, NEW contact,
         loan[l].status = "NONE" \/ loan[l].copy = c, copy[c].listed,
         \A j \in LoansOn(c) : Claims(j) => j = l,
         GuestMove(l, c, k, to), CopyBecomes(c, status, holder, contact),
         \/ Leaves(c, k, to, status, holder, contact)
         \/ Returned(c, to, status, holder, contact),
         \A j \in LoanIds \ {l} : <<j, "RECOVERED">> \in events' <=> <<j, "RECOVERED">> \in events,
         <<l, "RECOVERED">> \in events' <=> (to = "LOST" /\ status = "AVAILABLE"),
         RequestsOn(c)' = {} \/ (to \notin {"HANDED_OVER", "LOST"} /\ ~copy[c].archived)
  PROVE  LendingInv'
<1>1. OneLoanMoves(l, c)
  <2>1. loan'[l].copy = c
    BY DEF GuestMove, GuestLoan
  <2> QED
    BY <2>1 DEF OneLoanMoves, GuestMove, CopyBecomes
<1>2. /\ loan'[l].copy = c /\ loan'[l].contact = k /\ loan'[l].borrower = NULL
      /\ loan'[l].status = to /\ IsGuest(l)'
  BY DEF GuestMove, GuestLoan, IsGuest
<1>4. RequestsOn(c)' # {} => copy'[c].listed /\ ~copy'[c].archived
  BY DEF CopyBecomes
<1>5. OwnInv(l)'
  <2>1. CASE Leaves(c, k, to, status, holder, contact)
    <3>1. WithBorrower(l)'
      BY <1>2, <2>1 DEF CopyBecomes, Leaves, WithBorrower
    <3>2. <<l, "RECOVERED">> \notin events'
      BY <2>1 DEF Leaves
    <3>3. Away(l)'
      BY <1>2, <2>1, <3>2 DEF Away, OpenLoss, Leaves
    <3> QED
      BY <1>2, <1>4, <2>1, <3>1, <3>2, <3>3 DEF OwnInv, OpenLoss, CopyBecomes, Leaves
  <2>2. CASE Returned(c, to, status, holder, contact)
    <3>1. AtHome(c)'
      BY <2>2 DEF Returned, CopyBecomes, AtHome
    <3>2. <<l, "RECOVERED">> \in events' <=> to = "LOST"
      BY <2>2 DEF Returned
    <3>3. ~Away(l)' /\ ~Claims(l)' /\ ~OpenLoss(l)'
      BY <1>2, <2>2, <3>2 DEF Away, Claims, OpenLoss, Returned, EXCLUSIVE_LOAN_STATUS
    <3> QED
      BY <1>2, <1>4, <2>2, <3>1, <3>2, <3>3 DEF OwnInv, Returned, CopyBecomes
  <2> QED
    BY <2>1, <2>2
<1>6. to = "PENDING_CONFIRMATION" => copy'[c].status = "RESERVED"
  BY DEF Leaves, Returned, CopyBecomes
<1> QED
  BY <1>1, <1>2, <1>5, <1>6, OthersDoNotNotice

-----------------------------------------------------------------------------
(* The operations as such moves *)

\* What a new guest loan finds, and what it leaves of the requests for its copy.
LEMMA OpensGuestLoan ==
  ASSUME LendingInv, NEW l \in LoanIds, NEW c \in Copies, NEW k \in Contacts,
         CreateGuestLoan(l, c, k) \/ RequestConfirmation(l, c, k)
  PROVE  \E to, status :
           /\ GuestMove(l, c, k, to) /\ CopyBecomes(c, status, NULL, k)
           /\ Leaves(c, k, to, status, NULL, k) /\ to # "LOST"
           /\ to = "HANDED_OVER" => RequestsOn(c)' = {}
           /\ (to = "HANDED_OVER") <=> CreateGuestLoan(l, c, k)
<1>1. TypeOK /\ loan[l].status = "NONE" /\ l \notin RequestsOn(c)
  BY DEF LendingInv, CreateGuestLoan, RequestConfirmation, RequestsOn, LoansOn
<1>2. CASE CreateGuestLoan(l, c, k)
  <2>1. loan' = [Reject(RequestsOn(c)) EXCEPT ![l] = GuestLoan(c, k, "HANDED_OVER")]
    BY <1>2 DEF CreateGuestLoan
  <2>2. GuestLoan(c, k, "HANDED_OVER") \in LoanRow
    BY GuestLoanRow DEF LoanStatus
  <2>3. Reject(RequestsOn(c)) \in [LoanIds -> LoanRow]
    BY <1>1, RejectType DEF RequestsOn, LoansOn
  <2>4. /\ loan' \in [LoanIds -> LoanRow] /\ loan'[l] = GuestLoan(c, k, "HANDED_OVER")
        /\ \A j \in LoanIds \ {l} : loan'[j] = Reject(RequestsOn(c))[j]
    BY <2>1, <2>2, <2>3
  <2>5. \A j \in LoanIds \ {l} :
          loan'[j] = IF j \in RequestsOn(c) THEN [loan[j] EXCEPT !.status = "REJECTED"] ELSE loan[j]
    BY <2>4 DEF Reject
  <2>6. GuestMove(l, c, k, "HANDED_OVER")
    BY <2>4, <2>5 DEF GuestMove
  <2>7. CopyBecomes(c, "LENT_OUT", NULL, k)
    <3>1. copy' = [copy EXCEPT ![c] = [copy[c] EXCEPT !.status = "LENT_OUT", !.holder = NULL,
                                                      !.contact = k]]
      BY <1>1, <1>2 DEF CreateGuestLoan, TypeOK
    <3> QED
      BY <1>1, <3>1, CopyIsPlaced DEF CopyStatus
  <2>8. RequestsOn(c)' = {}
    <3> SUFFICES ASSUME NEW j \in RequestsOn(c)' PROVE FALSE
      OBVIOUS
    <3>1. j \in LoanIds /\ loan'[j].status = "REQUESTED" /\ loan'[j].origin = "REQUESTED" /\ loan'[j].copy = c
      BY DEF RequestsOn, LoansOn
    <3>2. j # l
      BY <2>4, <3>1 DEF GuestLoan
    <3>3. j \in RequestsOn(c)
      BY <2>5, <3>1, <3>2 DEF RequestsOn, LoansOn
    <3>4. loan[j] \in LoanRow
      BY <1>1, <3>1 DEF TypeOK
    <3> QED
      BY <2>5, <3>1, <3>2, <3>3, <3>4 DEF LoanRow
  <2> QED
    BY <1>2, <2>6, <2>7, <2>8 DEF Leaves
<1>3. CASE RequestConfirmation(l, c, k)
  <2>1. GuestLoan(c, k, "PENDING_CONFIRMATION") \in LoanRow
    BY GuestLoanRow DEF LoanStatus
  <2>2. GuestMove(l, c, k, "PENDING_CONFIRMATION")
    BY <1>1, <1>3, <2>1 DEF RequestConfirmation, GuestMove, TypeOK
  <2>3. CopyBecomes(c, "RESERVED", NULL, k)
    <3>1. copy' = [copy EXCEPT ![c] = [copy[c] EXCEPT !.status = "RESERVED", !.holder = NULL,
                                                      !.contact = k]]
      BY <1>1, <1>3 DEF RequestConfirmation, TypeOK
    <3> QED
      BY <1>1, <3>1, CopyIsPlaced DEF CopyStatus
  <2>4. ~CreateGuestLoan(l, c, k)
    <3>1. SUFFICES ASSUME CreateGuestLoan(l, c, k) PROVE FALSE
      OBVIOUS
    <3>2. loan'[l].status = "PENDING_CONFIRMATION"
      BY <2>2 DEF GuestMove, GuestLoan
    <3>3. loan'[l].status = "HANDED_OVER"
      <4>1. loan' = [Reject(RequestsOn(c)) EXCEPT ![l] = GuestLoan(c, k, "HANDED_OVER")]
        BY <3>1 DEF CreateGuestLoan
      <4> QED
        BY <4>1 DEF Reject, GuestLoan
    <3> QED
      BY <3>2, <3>3
  <2> QED
    BY <2>2, <2>3, <2>4 DEF Leaves
<1> QED
  BY <1>2, <1>3

LEMMA OpenGuestStep ==
  ASSUME LendingInv, NEW l \in LoanIds, NEW c \in Copies, NEW k \in Contacts,
         CreateGuestLoan(l, c, k) \/ RequestConfirmation(l, c, k)
  PROVE  LendingInv'
<1>1. /\ loan[l].status = "NONE" /\ Lendable(c) /\ IndexAccepts(l, c) /\ edits' = edits
      /\ \A j \in LoanIds : <<j, "RECOVERED">> \in events' <=> <<j, "RECOVERED">> \in events
  BY DEF CreateGuestLoan, RequestConfirmation
<1>2. PICK to, status :
        /\ GuestMove(l, c, k, to) /\ CopyBecomes(c, status, NULL, k)
        /\ Leaves(c, k, to, status, NULL, k) /\ to # "LOST"
        /\ to = "HANDED_OVER" => RequestsOn(c)' = {}
  BY OpensGuestLoan
<1>3. TypeOK'
  BY <1>1, <1>2, GuestMoveType DEF CopyBecomes, LendingInv
<1>4. \A j \in LoansOn(c) : ~Claims(j)
  BY <1>1, LendableIsUnclaimed
<1>5. copy[c].listed /\ ~copy[c].archived
  BY <1>1 DEF Lendable
<1>6. <<l, "RECOVERED">> \notin events'
  BY <1>1 DEF LendingInv, RecoveredIsLost
<1>7. to \notin {"HANDED_OVER", "LOST"} \/ RequestsOn(c)' = {}
  BY <1>2
<1>8. ~(to = "LOST" /\ status = "AVAILABLE")
  BY <1>2
<1> QED
  BY <1>1, <1>2, <1>3, <1>4, <1>5, <1>6, <1>7, <1>8, GuestMoveKeeps

\* The rows of the guest table, by what they do.
LEMMA GuestRowKinds ==
  ASSUME NEW from, NEW row \in GuestRows(from)
  PROVE  \/ /\ from = "HANDED_OVER" /\ row.to = "RETURNED" /\ row.requiresCopyStatus = "LENT_OUT"
            /\ row.copyStatus = "AVAILABLE" /\ row.copyHolder = "OWNER" /\ row.event = "LOAN_RETURNED"
         \/ /\ from = "HANDED_OVER" /\ row.to = "LOST" /\ row.requiresCopyStatus = "LENT_OUT"
            /\ row.copyStatus = "UNAVAILABLE" /\ row.copyHolder = "KEEP" /\ row.event = "LOAN_LOST"
         \/ /\ from = "LOST" /\ row.to = "LOST" /\ row.requiresCopyStatus = "UNAVAILABLE"
            /\ row.copyStatus = "AVAILABLE" /\ row.copyHolder = "OWNER" /\ row.event = "RECOVERED"
         \/ /\ from = "LOST" /\ row.to = "LOST" /\ row.requiresCopyStatus = "NONE"
            /\ row.copyStatus = "KEEP" /\ row.copyHolder = "KEEP" /\ row.event = "LOSS_CLOSED"
BY DEF GuestRows, GuestTable

\* Field by field, what a row of the guest table leaves of the loan and the copy.
LEMMA GuestTransitionEffect ==
  ASSUME LendingInv, NEW l \in LoanIds, IsGuest(l), NEW row \in GuestRows(loan[l].status),
         GuestTransition(l, row)
  PROVE  LET c == loan[l].copy IN
         /\ c \in Copies /\ edits' = edits
         /\ loan[l] = GuestLoan(c, loan[l].contact, loan[l].status)
         /\ loan[l].contact \in Contacts \cup {NULL} /\ loan[l].status \in {"HANDED_OVER", "LOST"}
         /\ GuestMove(l, c, loan[l].contact, row.to)
         /\ \A j \in LoanIds \ {l} : loan'[j] = loan[j]
         /\ CopyBecomes(c, IF row.copyStatus = "KEEP" THEN copy[c].status ELSE row.copyStatus,
                           IF row.copyHolder = "OWNER" THEN OwnerOf[c] ELSE copy[c].holder,
                           IF row.copyHolder = "OWNER" THEN NULL ELSE copy[c].contact)
         /\ \A j \in LoanIds : <<j, "RECOVERED">> \in events' <=>
              <<j, "RECOVERED">> \in events \/ (j = l /\ row.event = "RECOVERED")
<1> DEFINE c == loan[l].copy
<1>1. /\ loan[l].status \in {"HANDED_OVER", "LOST"} /\ row.to \in {"RETURNED", "LOST"}
      /\ row.copyStatus \in {"AVAILABLE", "UNAVAILABLE", "KEEP"}
  BY GuestRowKinds
<1>2. /\ loan[l] \in LoanRow /\ c \in Copies /\ loan[l].borrower = NULL
      /\ loan[l].origin = "RECORDED_GUEST" /\ copy[c] \in CopyRow /\ OwnerOf[c] \in Users
  BY <1>1 DEF LendingInv, TypeOK, IsGuest
<1>3. /\ loan[l].contact \in Contacts \cup {NULL}
      /\ loan[l] = GuestLoan(c, loan[l].contact, loan[l].status)
  BY <1>2 DEF LoanRow, GuestLoan
<1>4. loan' = [loan EXCEPT ![l].status = row.to] /\ edits' = edits
  BY DEF GuestTransition
<1>5. loan'[l] = GuestLoan(c, loan[l].contact, row.to) /\ \A j \in LoanIds \ {l} : loan'[j] = loan[j]
  BY <1>3, <1>4 DEF GuestLoan, LendingInv, TypeOK
<1>6. loan' \in [LoanIds -> LoanRow]
  BY <1>1, <1>4 DEF LendingInv, TypeOK, LoanRow, LoanStatus
<1>7. GuestMove(l, c, loan[l].contact, row.to)
  BY <1>5, <1>6 DEF GuestMove
<1>8. CopyBecomes(c, IF row.copyStatus = "KEEP" THEN copy[c].status ELSE row.copyStatus,
                     IF row.copyHolder = "OWNER" THEN OwnerOf[c] ELSE copy[c].holder,
                     IF row.copyHolder = "OWNER" THEN NULL ELSE copy[c].contact)
  <2> DEFINE r == [copy[c] EXCEPT
                     !.status = IF row.copyStatus = "KEEP" THEN @ ELSE row.copyStatus,
                     !.holder = IF row.copyHolder = "OWNER" THEN OwnerOf[c] ELSE @,
                     !.contact = IF row.copyHolder = "OWNER" THEN NULL ELSE @]
  <2>1. copy' = [copy EXCEPT ![c] = r]
    BY <1>2 DEF GuestTransition, LendingInv, TypeOK
  <2>2. /\ r \in CopyRow /\ r.listed = copy[c].listed /\ r.archived = copy[c].archived
        /\ r.status = IF row.copyStatus = "KEEP" THEN copy[c].status ELSE row.copyStatus
        /\ r.holder = IF row.copyHolder = "OWNER" THEN OwnerOf[c] ELSE copy[c].holder
        /\ r.contact = IF row.copyHolder = "OWNER" THEN NULL ELSE copy[c].contact
    BY <1>1, <1>2 DEF CopyRow, CopyStatus
  <2>3. copy'[c] = r /\ copy' \in [Copies -> CopyRow] /\ \A d \in Copies : d # c => copy'[d] = copy[d]
    BY <1>2, <2>1, <2>2 DEF LendingInv, TypeOK
  <2> QED
    BY <2>2, <2>3 DEF CopyBecomes
<1>9. \A j \in LoanIds : <<j, "RECOVERED">> \in events' <=>
        <<j, "RECOVERED">> \in events \/ (j = l /\ row.event = "RECOVERED")
  BY DEF GuestTransition
<1> QED
  BY <1>1, <1>2, <1>3, <1>4, <1>5, <1>7, <1>8, <1>9

\* Returning a guest's book, declaring it lost, bringing it back, closing a loss.
LEMMA PatchGuestStep ==
  ASSUME LendingInv, NEW l \in LoanIds, PatchGuestLoan(l)
  PROVE  LendingInv'
<1> PICK c, k : c = loan[l].copy /\ k = loan[l].contact
  OBVIOUS
<1>1. IsGuest(l)
  BY DEF PatchGuestLoan
<1>2. PICK row \in GuestRows(loan[l].status) : GuestTransition(l, row)
  BY DEF PatchGuestLoan
<1>3. /\ c \in Copies /\ edits' = edits
      /\ loan[l] = GuestLoan(c, k, loan[l].status)
      /\ GuestMove(l, c, k, row.to)
      /\ \A j \in LoanIds \ {l} : loan'[j] = loan[j]
      /\ CopyBecomes(c, IF row.copyStatus = "KEEP" THEN copy[c].status ELSE row.copyStatus,
                        IF row.copyHolder = "OWNER" THEN OwnerOf[c] ELSE copy[c].holder,
                        IF row.copyHolder = "OWNER" THEN NULL ELSE copy[c].contact)
      /\ \A j \in LoanIds : <<j, "RECOVERED">> \in events' <=>
           <<j, "RECOVERED">> \in events \/ (j = l /\ row.event = "RECOVERED")
  BY <1>1, <1>2, GuestTransitionEffect
<1>4. TypeOK'
  BY <1>3, GuestMoveType DEF CopyBecomes, LendingInv
<1>5. loan[l].status # "NONE" /\ copy[c].listed /\ l \in LoansOn(c)
  <2>1. loan[l].status # "NONE"
    BY <1>2, GuestRowKinds
  <2> QED
    BY <2>1 DEF LendingInv, Custody, LoansOn
<1>6. CASE row.event = "LOSS_CLOSED"
  <2>1. /\ loan[l].status = "LOST" /\ row.to = "LOST"
        /\ row.copyStatus = "KEEP" /\ row.copyHolder = "KEEP"
    BY <1>2, <1>6, GuestRowKinds
  <2>2. \A j \in LoanIds : loan'[j] = loan[j]
    BY <1>3, <2>1 DEF GuestMove
  <2>3. \A d \in Copies : /\ copy'[d].listed = copy[d].listed /\ copy'[d].archived = copy[d].archived
                          /\ copy'[d].status = copy[d].status /\ copy'[d].holder = copy[d].holder
                          /\ copy'[d].contact = copy[d].contact
    BY <1>3, <2>1 DEF CopyBecomes
  <2>4. Quiet
    BY <1>3, <1>6, <2>2, <2>3 DEF Quiet, QuietLoan, QuietCopy
  <2> QED
    BY <1>4, <2>4, QuietStep
<1>7. CASE row.event # "LOSS_CLOSED"
  <2>1. Away(l)
    BY <1>2, <1>7, GuestRowKinds DEF Away, OpenLoss, GuestTransition, EventAllowed
  <2>2. /\ copy[c].holder = NULL /\ copy[c].contact = k
        /\ \A j \in LoansOn(c) : Claims(j) => j = l
    BY <1>1, <2>1, GuestHolds
  <2>3. RequestsOn(c)' = RequestsOn(c) /\ RequestsOn(c) = {}
    <3>1. loan[l].status = "HANDED_OVER" \/ OpenLoss(l)
      BY <1>2, <1>7, GuestRowKinds DEF OpenLoss, GuestTransition, EventAllowed
    <3>2. RequestsOn(c) = {}
      BY <1>3, <1>5, <3>1 DEF LendingInv, NoRequestLeftBehind
    <3>3. loan'[l].status # "REQUESTED" /\ loan[l].status # "REQUESTED"
      BY <1>2, <1>3, GuestRowKinds DEF GuestMove, GuestLoan
    <3>4. RequestsOn(c)' = RequestsOn(c)
      BY <1>3, <3>3 DEF RequestsOn, LoansOn
    <3> QED
      BY <3>2, <3>4
  <2>4. <<l, "RECOVERED">> \notin events
    BY <1>2, <1>7, GuestRowKinds DEF GuestTransition, EventAllowed, LendingInv, RecoveredIsLost
  <2>5. /\ \A j \in LoanIds \ {l} : <<j, "RECOVERED">> \in events' <=> <<j, "RECOVERED">> \in events
        /\ <<l, "RECOVERED">> \in events' <=> row.event = "RECOVERED"
    BY <1>3, <2>4
  <2>6. CASE loan[l].status = "HANDED_OVER" /\ row.to = "LOST"
    <3>1. row.copyStatus = "UNAVAILABLE" /\ row.copyHolder = "KEEP" /\ row.event # "RECOVERED"
      BY <1>2, <2>6, GuestRowKinds
    <3>2. CopyBecomes(c, "UNAVAILABLE", NULL, k) /\ Leaves(c, k, "LOST", "UNAVAILABLE", NULL, k)
      BY <1>3, <2>2, <3>1 DEF Leaves
    <3> QED
      BY <1>3, <1>4, <1>5, <2>2, <2>3, <2>5, <2>6, <3>1, <3>2, GuestMoveKeeps
  <2>7. CASE loan[l].status = "HANDED_OVER" /\ row.to = "RETURNED"
    <3>1. row.copyStatus = "AVAILABLE" /\ row.copyHolder = "OWNER" /\ row.event # "RECOVERED"
      BY <1>2, <2>7, GuestRowKinds
    <3>2. /\ CopyBecomes(c, "AVAILABLE", OwnerOf[c], NULL)
          /\ Returned(c, "RETURNED", "AVAILABLE", OwnerOf[c], NULL)
      BY <1>3, <3>1 DEF Returned
    <3>3. /\ GuestMove(l, c, k, "RETURNED")
          /\ \A j \in LoanIds \ {l} : <<j, "RECOVERED">> \in events' <=> <<j, "RECOVERED">> \in events
          /\ <<l, "RECOVERED">> \in events' <=> ("RETURNED" = "LOST" /\ "AVAILABLE" = "AVAILABLE")
      BY <1>3, <2>5, <2>7, <3>1
    <3> QED
      BY <1>3, <1>4, <1>5, <2>2, <2>3, <3>2, <3>3, GuestMoveKeeps
  <2>8. CASE loan[l].status = "LOST"
    <3>1. /\ row.to = "LOST" /\ row.copyStatus = "AVAILABLE" /\ row.copyHolder = "OWNER"
          /\ row.event = "RECOVERED"
      BY <1>2, <1>7, <2>8, GuestRowKinds
    <3>2. /\ CopyBecomes(c, "AVAILABLE", OwnerOf[c], NULL)
          /\ Returned(c, "LOST", "AVAILABLE", OwnerOf[c], NULL)
      BY <1>3, <3>1 DEF Returned
    <3> QED
      BY <1>3, <1>4, <1>5, <2>2, <2>3, <2>5, <2>8, <3>1, <3>2, GuestMoveKeeps
  <2> QED
    BY <1>2, <2>6, <2>7, <2>8, GuestRowKinds
<1> QED
  BY <1>6, <1>7

\* What ends a hand-over that waits: RECEIVED and the owner's statement hand the book over,
\* cancelling takes it home.
Ends(l, to) ==
  LET c == loan[l].copy
      rivals == IF to = "HANDED_OVER" THEN RequestsOn(c) ELSE {}
  IN
  /\ PendingChain(l)
  /\ loan' = [Reject(rivals) EXCEPT ![l].status = to]
  /\ \/ to = "HANDED_OVER" /\ copy' = [copy EXCEPT ![c] = [@ EXCEPT !.status = "LENT_OUT"]]
     \/ /\ to = "CANCELLED"
        /\ copy' = [copy EXCEPT ![c] = [@ EXCEPT !.status = "AVAILABLE", !.holder = OwnerOf[c],
                                                 !.contact = NULL]]
  /\ \A j \in LoanIds : <<j, "RECOVERED">> \in events' <=> <<j, "RECOVERED">> \in events
  /\ edits' = edits

LEMMA ResolveEnds ==
  ASSUME NEW l \in LoanIds, NEW row \in ConfirmationRows(confirmation[l]), ResolveConfirmation(l, row)
  PROVE  /\ confirmation[l] \in {"OPEN", "DENIED"}
         /\ row.loanTo \in {"HANDED_OVER", "CANCELLED"}
         /\ row.confirmationTo = IF row.loanTo = "CANCELLED" THEN "CANCELLED" ELSE "OWNER_RECORDED"
         /\ Ends(l, row.loanTo)
<1>1. confirmation[l] \in {"OPEN", "DENIED"} /\ row \in {CANCEL_HANDOVER, RECORD_OWNER_STATEMENT}
  BY DEF ConfirmationRows
<1>2. CASE row = CANCEL_HANDOVER
  <2>1. /\ row.loanTo = "CANCELLED" /\ row.confirmationTo = "CANCELLED" /\ row.copyTo = "AVAILABLE"
        /\ ~row.rejectsRequestedRivals /\ row.event # "RECOVERED"
    BY <1>2 DEF CANCEL_HANDOVER
  <2> QED
    BY <1>1, <2>1 DEF Ends, ResolveConfirmation
<1>3. CASE row = RECORD_OWNER_STATEMENT
  <2>1. /\ row.loanTo = "HANDED_OVER" /\ row.confirmationTo = "OWNER_RECORDED"
        /\ row.copyTo = "LENT_OUT" /\ row.rejectsRequestedRivals /\ row.event # "RECOVERED"
    BY <1>3 DEF RECORD_OWNER_STATEMENT
  <2> QED
    BY <1>1, <2>1 DEF Ends, ResolveConfirmation
<1> QED
  BY <1>1, <1>2, <1>3

LEMMA AnswerEnds ==
  ASSUME NEW l \in LoanIds, GuestAnswer(l, "RECEIVED")
  PROVE  Ends(l, "HANDED_OVER")
<1>1. \A j \in LoanIds : <<j, "RECOVERED">> \in events' <=> <<j, "RECOVERED">> \in events
  BY DEF GuestAnswer
<1>2. copy' = [copy EXCEPT ![loan[l].copy] = [@ EXCEPT !.status = "LENT_OUT"]]
  BY DEF GuestAnswer
<1> QED
  BY <1>1, <1>2 DEF GuestAnswer, Ends

LEMMA EndEffect ==
  ASSUME LendingInv, NEW l \in LoanIds, NEW to, Ends(l, to),
         NEW c, NEW k, c = loan[l].copy, k = loan[l].contact
  PROVE  /\ to \in {"HANDED_OVER", "CANCELLED"} /\ IsGuest(l) /\ Away(l)
         /\ loan[l].status = "PENDING_CONFIRMATION" /\ k \in Contacts
         /\ GuestMove(l, c, k, to)
         /\ to = "HANDED_OVER" => RequestsOn(c)' = {} /\ CopyBecomes(c, "LENT_OUT", NULL, k)
         /\ to = "CANCELLED" =>
              /\ RequestsOn(c)' \subseteq RequestsOn(c)
              /\ CopyBecomes(c, "AVAILABLE", OwnerOf[c], NULL)
<1> DEFINE rivals == IF to = "HANDED_OVER" THEN RequestsOn(c) ELSE {}
<1>1. /\ loan[l].status = "PENDING_CONFIRMATION" /\ k # NULL /\ to \in {"HANDED_OVER", "CANCELLED"}
      /\ copy[c].status = "RESERVED" /\ copy[c].holder = NULL /\ copy[c].contact = k
      /\ loan' = [Reject(rivals) EXCEPT ![l].status = to]
  BY DEF Ends, PendingChain
<1>2. TypeOK /\ IsGuest(l) /\ Away(l)
  BY <1>1 DEF LendingInv, TypeOK, IsGuest, Away
<1>3. /\ c \in Copies /\ loan[l] = GuestLoan(c, k, loan[l].status) /\ k \in Contacts
  BY <1>1, <1>2, GuestHolds
<1>4. rivals \subseteq RequestsOn(c) /\ l \notin rivals /\ rivals \in SUBSET LoanIds
  BY <1>1 DEF RequestsOn, LoansOn
<1>5. Reject(rivals) \in [LoanIds -> LoanRow] /\ Reject(rivals)[l] = loan[l]
  BY <1>2, <1>4, RejectType DEF Reject
<1>6. loan'[l] = GuestLoan(c, k, to) /\ GuestLoan(c, k, to) \in LoanRow
  <2>1. loan'[l] = [loan[l] EXCEPT !.status = to]
    BY <1>1, <1>5
  <2>2. loan'[l] = GuestLoan(c, k, to)
    BY <1>3, <2>1 DEF GuestLoan
  <2> QED
    BY <1>1, <1>3, <2>2, GuestLoanRow DEF LoanStatus
<1>7. \A j \in LoanIds \ {l} : loan'[j] = Reject(rivals)[j]
  BY <1>1, <1>5
<1>8. \A j \in LoanIds \ {l} :
        loan'[j] = IF j \in rivals THEN [loan[j] EXCEPT !.status = "REJECTED"] ELSE loan[j]
  BY <1>7 DEF Reject
<1>9. loan' \in [LoanIds -> LoanRow]
  <2>1. loan' = [Reject(rivals) EXCEPT ![l] = loan'[l]]
    BY <1>1, <1>5
  <2> QED
    BY <1>5, <1>6, <2>1
<1>10. GuestMove(l, c, k, to)
  BY <1>4, <1>6, <1>8, <1>9 DEF GuestMove
<1>11. RequestsOn(c)' \subseteq RequestsOn(c) \ rivals
  <2> SUFFICES ASSUME NEW j \in RequestsOn(c)' PROVE j \in RequestsOn(c) \ rivals
    OBVIOUS
  <2>1. j \in LoanIds /\ loan'[j].status = "REQUESTED" /\ loan'[j].origin = "REQUESTED" /\ loan'[j].copy = c
    BY DEF RequestsOn, LoansOn
  <2>2. j # l
    BY <1>6, <2>1 DEF GuestLoan
  <2>3. loan[j] \in LoanRow
    BY <1>2, <2>1 DEF TypeOK
  <2>4. j \notin rivals
    BY <1>8, <2>1, <2>2, <2>3 DEF LoanRow
  <2>5. loan'[j] = loan[j]
    BY <1>8, <2>1, <2>2, <2>4
  <2> QED
    BY <2>1, <2>4, <2>5 DEF RequestsOn, LoansOn
<1>12. CASE to = "HANDED_OVER"
  <2>1. copy' = [copy EXCEPT ![c] = [copy[c] EXCEPT !.status = "LENT_OUT", !.holder = NULL,
                                                   !.contact = k]]
    <3>1. copy[c] \in CopyRow
      BY <1>2, <1>3 DEF TypeOK
    <3>2. [copy[c] EXCEPT !.status = "LENT_OUT"] =
            [copy[c] EXCEPT !.status = "LENT_OUT", !.holder = NULL, !.contact = k]
      BY <1>1, <3>1 DEF CopyRow
    <3>3. copy' = [copy EXCEPT ![c] = [copy[c] EXCEPT !.status = "LENT_OUT"]]
      BY <1>2, <1>3, <1>12 DEF Ends, TypeOK
    <3> QED
      BY <3>2, <3>3
  <2>2. CopyBecomes(c, "LENT_OUT", NULL, k)
    BY <1>2, <1>3, <2>1, CopyIsPlaced DEF CopyStatus
  <2> QED
    BY <1>1, <1>2, <1>3, <1>10, <1>11, <1>12, <2>2
<1>13. CASE to = "CANCELLED"
  <2>1. copy' = [copy EXCEPT ![c] = [copy[c] EXCEPT !.status = "AVAILABLE", !.holder = OwnerOf[c],
                                                    !.contact = NULL]]
    BY <1>2, <1>3, <1>13 DEF Ends, TypeOK
  <2>2. OwnerOf[c] \in Users
    BY <1>3
  <2>3. CopyBecomes(c, "AVAILABLE", OwnerOf[c], NULL)
    BY <1>2, <1>3, <2>1, <2>2, CopyIsPlaced DEF CopyStatus
  <2> QED
    BY <1>1, <1>2, <1>3, <1>10, <1>11, <1>13, <2>3
<1> QED
  BY <1>1, <1>12, <1>13

LEMMA EndStep ==
  ASSUME LendingInv, NEW l \in LoanIds, NEW to, Ends(l, to)
  PROVE  LendingInv'
<1> PICK c, k : c = loan[l].copy /\ k = loan[l].contact
  OBVIOUS
<1>1. /\ to \in {"HANDED_OVER", "CANCELLED"} /\ IsGuest(l) /\ Away(l)
      /\ loan[l].status = "PENDING_CONFIRMATION" /\ k \in Contacts
      /\ GuestMove(l, c, k, to)
      /\ to = "HANDED_OVER" => RequestsOn(c)' = {} /\ CopyBecomes(c, "LENT_OUT", NULL, k)
      /\ to = "CANCELLED" =>
           /\ RequestsOn(c)' \subseteq RequestsOn(c)
           /\ CopyBecomes(c, "AVAILABLE", OwnerOf[c], NULL)
  BY EndEffect
<1>2. /\ c \in Copies /\ copy[c].listed
      /\ \A j \in LoansOn(c) : Claims(j) => j = l
  BY <1>1, GuestHolds
<1>3. /\ \A j \in LoanIds : <<j, "RECOVERED">> \in events' <=> <<j, "RECOVERED">> \in events
      /\ edits' = edits
  BY DEF Ends
<1>4. TypeOK'
  BY <1>1, <1>2, <1>3, GuestMoveType DEF CopyBecomes, LendingInv
<1>5. <<l, "RECOVERED">> \notin events'
  BY <1>1, <1>3 DEF LendingInv, RecoveredIsLost
<1>6. CASE to = "HANDED_OVER"
  <2>1. Leaves(c, k, to, "LENT_OUT", NULL, k)
    BY <1>6 DEF Leaves
  <2> QED
    BY <1>1, <1>2, <1>3, <1>4, <1>5, <1>6, <2>1, GuestMoveKeeps
<1>7. CASE to = "CANCELLED"
  <2>1. RequestsOn(c)' # {} => ~copy[c].archived
    BY <1>1, <1>2, <1>7 DEF LendingInv, NoRequestLeftBehind
  <2>2. Returned(c, to, "AVAILABLE", OwnerOf[c], NULL)
    BY <1>7 DEF Returned
  <2> QED
    BY <1>1, <1>2, <1>3, <1>4, <1>5, <1>7, <2>1, <2>2, GuestMoveKeeps
<1> QED
  BY <1>1, <1>6, <1>7

\* A denial, and a new contact, leave every loan and copy alone.
LEMMA UnmovedStep ==
  ASSUME LendingInv, UNCHANGED <<copy, loan, edits>>,
         \A j \in LoanIds : <<j, "RECOVERED">> \in events' <=> <<j, "RECOVERED">> \in events
  PROVE  LendingInv'
<1>1. TypeOK'
  BY DEF LendingInv, TypeOK
<1>2. Quiet
  BY DEF Quiet, QuietLoan, QuietCopy
<1> QED
  BY <1>1, <1>2, QuietStep

\* Deleting a contact's row clears both references to it at once: the loan and the copy still
\* agree, on NULL.
LEMMA ForgetStep ==
  ASSUME LendingInv, NEW ks \in SUBSET Contacts, Forget(ks)
  PROVE  LendingInv'
<1>1. /\ TypeOK /\ events' = events /\ edits' = edits
      /\ loan' = [l \in LoanIds |-> IF loan[l].contact \in ks THEN [loan[l] EXCEPT !.contact = NULL]
                                                               ELSE loan[l]]
      /\ copy' = [c \in Copies |-> IF copy[c].contact \in ks THEN [copy[c] EXCEPT !.contact = NULL]
                                                             ELSE copy[c]]
  BY DEF Forget, LendingInv
<1>2. ASSUME NEW l \in LoanIds
      PROVE  /\ loan'[l] \in LoanRow
             /\ loan'[l].status = loan[l].status /\ loan'[l].copy = loan[l].copy
             /\ loan'[l].origin = loan[l].origin /\ loan'[l].borrower = loan[l].borrower
             /\ loan'[l].contact = IF loan[l].contact \in ks THEN NULL ELSE loan[l].contact
  BY <1>1 DEF TypeOK, LoanRow
<1>3. ASSUME NEW c \in Copies
      PROVE  /\ copy'[c] \in CopyRow
             /\ copy'[c].listed = copy[c].listed /\ copy'[c].status = copy[c].status
             /\ copy'[c].holder = copy[c].holder /\ copy'[c].archived = copy[c].archived
             /\ copy'[c].contact = IF copy[c].contact \in ks THEN NULL ELSE copy[c].contact
  BY <1>1 DEF TypeOK, CopyRow
<1>4. TypeOK'
  <2>1. loan' \in [LoanIds -> LoanRow] /\ copy' \in [Copies -> CopyRow]
    BY <1>1, <1>2, <1>3
  <2>2. NULL \notin ks
    OBVIOUS
  <2> QED
    BY <1>1, <1>2, <2>1, <2>2 DEF TypeOK
<1>5. \A l \in LoanIds : /\ OpenLoss(l)' <=> OpenLoss(l)
                         /\ Claims(l)' <=> Claims(l)
                         /\ Away(l)' <=> Away(l)
                         /\ IsGuest(l)' <=> IsGuest(l)
  BY <1>1, <1>2 DEF Claims, Away, OpenLoss, IsGuest
<1>6. \A c \in Copies : /\ AtHome(c)' <=> AtHome(c)
                        /\ LoansOn(c)' = LoansOn(c)
                        /\ RequestsOn(c)' = RequestsOn(c)
  <2> TAKE c \in Copies
  <2>1. AtHome(c)' <=> AtHome(c)
    BY <1>3, HeldByOwner DEF AtHome
  <2>2. LoansOn(c)' = LoansOn(c)
    BY <1>2 DEF LoansOn
  <2> QED
    BY <1>2, <2>1, <2>2 DEF RequestsOn, LoansOn
<1>7. \A l \in LoanIds : loan[l].status # "NONE" => loan[l].copy \in Copies
  BY <1>1 DEF TypeOK
<1>8. OneClaim'
  <2> SUFFICES ASSUME NEW k \in LoanIds, NEW l \in LoanIds,
                      Claims(k)', Claims(l)', loan'[k].copy = loan'[l].copy
               PROVE  k = l
    BY DEF OneClaim
  <2> QED
    BY <1>2, <1>5 DEF LendingInv, OneClaim
<1>9. Custody'
  <2> SUFFICES ASSUME NEW l \in LoanIds, loan[l].status # "NONE"
               PROVE  /\ copy'[loan'[l].copy].listed
                      /\ Away(l)' => WithBorrower(l)'
                      /\ Claims(l)' /\ ~Away(l)' => AtHome(loan[l].copy)'
                      /\ loan'[l].status = "HANDED_OVER" => copy'[loan'[l].copy].status = "LENT_OUT"
                      /\ OpenLoss(l)' => copy'[loan'[l].copy].status = "UNAVAILABLE"
                      /\ loan'[l].status = "PENDING_CONFIRMATION" /\ IsGuest(l)' =>
                           copy'[loan'[l].copy].status = "RESERVED"
    BY <1>2 DEF Custody, Away, Claims, OpenLoss, EXCLUSIVE_LOAN_STATUS
  <2>1. loan[l].copy \in Copies /\ loan'[l].copy = loan[l].copy /\ loan'[l].status = loan[l].status
    BY <1>2, <1>7
  <2>2. /\ copy[loan[l].copy].listed
        /\ Away(l) => WithBorrower(l)
        /\ Claims(l) /\ ~Away(l) => AtHome(loan[l].copy)
        /\ loan[l].status = "HANDED_OVER" => copy[loan[l].copy].status = "LENT_OUT"
        /\ OpenLoss(l) => copy[loan[l].copy].status = "UNAVAILABLE"
        /\ loan[l].status = "PENDING_CONFIRMATION" /\ IsGuest(l) =>
             copy[loan[l].copy].status = "RESERVED"
    BY DEF LendingInv, Custody
  <2>3. Away(l) => WithBorrower(l)'
    BY <1>2, <1>3, <2>1, <2>2 DEF WithBorrower
  <2>4. Claims(l) /\ ~Away(l) => AtHome(loan[l].copy)'
    BY <1>6, <2>1, <2>2
  <2> QED
    BY <1>3, <1>5, <2>1, <2>2, <2>3, <2>4
<1>10. AwayIsAccounted' /\ NoRequestLeftBehind'
  <2>1. AwayIsAccounted'
    BY <1>2, <1>3, <1>5, <1>6 DEF LendingInv, AwayIsAccounted, LoansOn
  <2>2. NoRequestLeftBehind'
    BY <1>2, <1>3, <1>5, <1>6 DEF LendingInv, NoRequestLeftBehind, LoansOn
  <2> QED
    BY <2>1, <2>2
<1>11. RecoveredIsLost'
  BY <1>1, <1>2 DEF LendingInv, RecoveredIsLost
<1>12. ApprovedHasNoRivals'
  <2> SUFFICES ASSUME NEW l \in LoanIds, loan'[l].status = "APPROVED",
                      copy'[loan'[l].copy].status = "RESERVED"
               PROVE  RequestsOn(loan[l].copy)' = {}
    BY DEF ApprovedHasNoRivals
  <2>1. loan[l].status = "APPROVED" /\ loan'[l].copy = loan[l].copy /\ loan[l].copy \in Copies
    BY <1>2, <1>7
  <2> QED
    BY <1>3, <1>6, <2>1 DEF LendingInv, ApprovedHasNoRivals
<1> QED
  BY <1>4, <1>8, <1>9, <1>10, <1>11, <1>12 DEF LendingInv

-----------------------------------------------------------------------------
(* The guests' side: loans no guest is behind do not matter to it *)

\* Loan j stays as it is, or has no guest behind it, neither before the step nor after it.
Beside(j) ==
  \/ loan'[j] = loan[j]
  \/ /\ loan[j].status = "NONE" \/ (~IsGuest(j) /\ loan[j].contact = NULL)
     /\ ~IsGuest(j)' /\ loan'[j].contact = NULL

\* Turning a request down concerns registered borrowers only.
LEMMA RivalsAreBeside ==
  ASSUME TypeOK, NEW j \in LoanIds, NEW c \in Copies,
         \/ loan'[j] = loan[j]
         \/ j \in RequestsOn(c) /\ loan'[j] = [loan[j] EXCEPT !.status = "REJECTED"]
  PROVE  Beside(j)
<1>1. CASE loan'[j] = loan[j]
  BY <1>1 DEF Beside
<1>2. CASE loan'[j] # loan[j]
  <2>1. /\ loan'[j].origin = loan[j].origin /\ loan'[j].contact = loan[j].contact
        /\ ~IsGuest(j) /\ loan[j].contact = NULL
    <3>1. ~IsGuest(j) /\ loan[j].contact = NULL
      BY <1>2 DEF RequestsOn, LoansOn, IsGuest, TypeOK
    <3> QED
      BY <3>1, TurnedDown
  <2> QED
    BY <2>1 DEF Beside, IsGuest
<1> QED
  BY <1>1, <1>2

\* No operation of the library or of registered loans touches a guest loan, and none puts a
\* contact on a copy.
LEMMA RegisteredEffect ==
  ASSUME LendingInv, [Next]_vars
  PROVE  /\ \A j \in LoanIds : Beside(j)
         /\ \A c \in Copies : copy'[c].contact \in {copy[c].contact, NULL}
<1>1. TypeOK
  BY DEF LendingInv
<1>2. CASE UNCHANGED vars
  BY <1>2 DEF vars, Beside
<1>3. ASSUME NEW c \in Copies,
             \/ AddCopy(c) \/ RemoveCopy(c) \/ RestoreCopy(c)
             \/ \E s \in StatusEdits : StartStatusEdit(c, s) \/ FinishStatusEdit(c, s)
      PROVE  /\ \A j \in LoanIds : Beside(j)
             /\ \A d \in Copies : copy'[d].contact \in {copy[d].contact, NULL}
  <2>1. loan' = loan
    BY <1>3 DEF AddCopy, RemoveCopy, RestoreCopy, StartStatusEdit, FinishStatusEdit
  <2>2. FreshCopy(c).contact = NULL /\ [FreshCopy(c) EXCEPT !.listed = FALSE].contact = NULL
    BY DEF FreshCopy
  <2>3. \A d \in Copies : copy'[d].contact \in {copy[d].contact, NULL}
    <3>1. CASE AddCopy(c) \/ RemoveCopy(c)
      BY <1>1, <2>2, <3>1 DEF AddCopy, RemoveCopy, TypeOK
    <3>2. CASE RestoreCopy(c)
      BY <1>1, <3>2 DEF RestoreCopy, TypeOK, CopyRow
    <3>3. ASSUME NEW s \in StatusEdits, StartStatusEdit(c, s) \/ FinishStatusEdit(c, s)
          PROVE  \A d \in Copies : copy'[d].contact = copy[d].contact
      BY <1>1, <3>3 DEF StartStatusEdit, FinishStatusEdit, TypeOK, CopyRow
    <3> QED
      BY <1>3, <3>1, <3>2, <3>3
  <2> QED
    BY <2>1, <2>3 DEF Beside
<1>4. ASSUME NEW c \in Copies, ArchiveCopy(c)
      PROVE  /\ \A j \in LoanIds : Beside(j)
             /\ \A d \in Copies : copy'[d].contact \in {copy[d].contact, NULL}
  <2>1. \A j \in LoanIds :
          loan'[j] = IF j \in RequestsOn(c) THEN [loan[j] EXCEPT !.status = "REJECTED"] ELSE loan[j]
    BY <1>4 DEF ArchiveCopy, Reject
  <2>2. \A j \in LoanIds : Beside(j)
    BY <1>1, <2>1, RivalsAreBeside
  <2>3. \A d \in Copies : copy'[d].contact = copy[d].contact
    BY <1>1, <1>4 DEF ArchiveCopy, TypeOK, CopyRow
  <2> QED
    BY <2>2, <2>3
<1>5. ASSUME NEW l \in LoanIds, NEW c \in Copies, NEW b \in Users,
             Request(l, c, b) \/ RecordExisting(l, c, b)
      PROVE  /\ \A j \in LoanIds : Beside(j)
             /\ \A d \in Copies : copy'[d].contact \in {copy[d].contact, NULL}
  <2>1. PICK r : loan' = [loan EXCEPT ![l] = r] /\ r.contact = NULL /\ r.origin # "RECORDED_GUEST"
    BY <1>5, NewLoanRow DEF WritesRow
  <2>2. loan[l].status = "NONE"
    BY <1>5 DEF Request, RecordExisting
  <2>3. loan'[l] = r /\ \A j \in LoanIds \ {l} : loan'[j] = loan[j]
    BY <1>1, <2>1 DEF TypeOK
  <2>4. \A j \in LoanIds : Beside(j)
    BY <2>1, <2>2, <2>3 DEF Beside, IsGuest
  <2>5. \A d \in Copies : copy'[d].contact = copy[d].contact
    BY <1>1, <1>5 DEF Request, RecordExisting, TypeOK, CopyRow
  <2> QED
    BY <2>4, <2>5
<1>6. ASSUME NEW l \in LoanIds, PatchLoan(l)
      PROVE  /\ \A j \in LoanIds : Beside(j)
             /\ \A d \in Copies : copy'[d].contact \in {copy[d].contact, NULL}
  <2>1. PICK row \in RegisteredRows(loan[l].origin, loan[l].status) :
          \E actor \in row.actors : RunTransition(l, row, actor)
    BY <1>6 DEF PatchLoan
  <2>2. PICK actor \in row.actors : RunTransition(l, row, actor)
    BY <2>1
  <2>3. /\ loan[l].copy \in Copies /\ ~IsGuest(l) /\ loan[l].contact = NULL
        /\ \A k \in LoanIds :
             loan'[k] = IF k = l THEN [loan[l] EXCEPT !.status = row.to]
                        ELSE IF row.rejectRivals /\ k \in RequestsOn(loan[l].copy)
                        THEN [loan[k] EXCEPT !.status = "REJECTED"] ELSE loan[k]
    BY <1>1, <2>2, TransitionEffect
  <2>4. Beside(l)
    <3>1. loan[l] \in LoanRow
      BY <1>1 DEF TypeOK
    <3>2. loan'[l] = [loan[l] EXCEPT !.status = row.to]
      BY <2>3
    <3>3. loan'[l].contact = NULL /\ loan'[l].origin = loan[l].origin
      BY <2>3, <3>1, <3>2 DEF LoanRow
    <3> QED
      BY <2>3, <3>3 DEF Beside, IsGuest
  <2>5. \A j \in LoanIds \ {l} : Beside(j)
    BY <1>1, <2>3, RivalsAreBeside
  <2>6. copy'[loan[l].copy].contact \in {copy[loan[l].copy].contact, NULL}
    BY <1>1, <2>2, CopyEffect
  <2>7. \A d \in Copies : d # loan[l].copy => copy'[d] = copy[d]
    BY <1>1, <2>2 DEF RunTransition, TypeOK
  <2> QED
    BY <2>4, <2>5, <2>6, <2>7
<1> QED
  BY <1>2, <1>3, <1>4, <1>5, <1>6 DEF Next, LibraryStep, LoanStep

-----------------------------------------------------------------------------
(* The three invariants of the guests' side, one loan or contact at a time *)

\* A loan beside the step keeps its agreement with its confirmation.
LEMMA BesideAgrees ==
  ASSUME NEW j \in LoanIds, RequestAgrees(j), Beside(j), confirmation'[j] = confirmation[j],
         confirmation[j] \in ConfirmationStatus \cup {"NONE"}
  PROVE  RequestAgrees(j)'
<1>1. CASE loan'[j] = loan[j]
  BY <1>1 DEF RequestAgrees, IsGuest
<1>2. CASE loan'[j] # loan[j]
  <2>1. confirmation[j] = "NONE"
    BY <1>2 DEF RequestAgrees, Beside
  <2> QED
    BY <1>2, <2>1 DEF RequestAgrees, Beside
<1> QED
  BY <1>1, <1>2

\* A contact the step is not about keeps its active loans.
LEMMA ActiveUnmoved ==
  ASSUME NEW k \in Contacts,
         \A j \in LoanIds :
           \/ Beside(j)
           \/ loan'[j].contact # k /\ (loan[j].contact # k \/ loan[j].status = "NONE")
  PROVE  ActiveLoansOf(k)' = ActiveLoansOf(k)
<1>1. NULL # k
  OBVIOUS
<1>2. \A j \in LoanIds : j \in ActiveLoansOf(k)' <=> j \in ActiveLoansOf(k)
  BY <1>1 DEF ActiveLoansOf, LoansOf, Beside, EXCLUSIVE_LOAN_STATUS
<1> QED
  BY <1>2 DEF ActiveLoansOf, LoansOf

\* Recomputing the date of the contact a step is about sets every clock right.
LEMMA ClockKept ==
  ASSUME GTypeOK, ClockFollowsLoans, NEW l \in LoanIds, NEW k \in Contacts,
         RecomputeRetainUntil(k), known' = known,
         loan'[l].contact = k, loan[l].contact = k \/ loan[l].status = "NONE",
         \A j \in LoanIds \ {l} : Beside(j)
  PROVE  ClockFollowsLoans'
<1> SUFFICES ASSUME NEW m \in known PROVE (retainUntil'[m] = "NULL") <=> (ActiveLoansOf(m)' # {})
  BY DEF ClockFollowsLoans
<1>1. m \in Contacts /\ retainUntil \in [Contacts -> {"NULL", "DATED"}]
  BY DEF GTypeOK
<1>2. CASE m = k
  <2>1. retainUntil'[k] = IF \E j \in LoansOf(k)' : loan'[j].status \in EXCLUSIVE_LOAN_STATUS
                          THEN "NULL" ELSE "DATED"
    BY <1>1 DEF RecomputeRetainUntil
  <2>2. ActiveLoansOf(k)' # {} <=> \E j \in LoansOf(k)' : loan'[j].status \in EXCLUSIVE_LOAN_STATUS
    BY DEF ActiveLoansOf
  <2> QED
    BY <1>2, <2>1, <2>2
<1>3. CASE m # k
  <2>1. retainUntil'[m] = retainUntil[m]
    BY <1>1, <1>3 DEF RecomputeRetainUntil
  <2>2. ActiveLoansOf(m)' = ActiveLoansOf(m)
    BY <1>1, <1>3, ActiveUnmoved
  <2> QED
    BY <2>1, <2>2 DEF ClockFollowsLoans
<1> QED
  BY <1>2, <1>3

\* A loan with a known contact, and a copy with that contact or none, leave nobody unknown.
LEMMA HoldersKept ==
  ASSUME HolderIsKnown, NEW l \in LoanIds, NEW c \in Copies, known' = known,
         \A j \in LoanIds \ {l} : Beside(j),
         \A d \in Copies \ {c} : copy'[d].contact \in {copy[d].contact, NULL},
         copy'[c].contact \in known \cup {NULL},
         loan'[l].contact \in known \cup {NULL},
         loan'[l].status \in EXCLUSIVE_LOAN_STATUS => loan'[l].contact \in known
  PROVE  HolderIsKnown'
<1>1. \A j \in LoanIds : loan'[j].contact # NULL => loan'[j].contact \in known'
  BY DEF HolderIsKnown, Beside
<1>2. \A j \in LoanIds : IsGuest(j)' /\ loan'[j].status \in EXCLUSIVE_LOAN_STATUS =>
        loan'[j].contact \in known'
  BY DEF HolderIsKnown, Beside, IsGuest
<1>3. \A d \in Copies : copy'[d].contact # NULL => copy'[d].contact \in known'
  BY DEF HolderIsKnown
<1> QED
  BY <1>1, <1>2, <1>3 DEF HolderIsKnown

\* A step that moves guest loan l with contact k, and recomputes k's date, keeps the guests'
\* side if the confirmation of l agrees afterwards.
LEMMA GuestSideKept ==
  ASSUME GuestInv, TypeOK', NEW l \in LoanIds, NEW c \in Copies, NEW k \in Contacts, NEW to,
         k \in known, known' = known, RecomputeRetainUntil(k),
         GuestMove(l, c, k, to), loan[l].contact = k \/ loan[l].status = "NONE",
         \A d \in Copies \ {c} : copy'[d] = copy[d], copy'[c].contact \in {k, NULL},
         confirmation' \in [LoanIds -> ConfirmationStatus \cup {"NONE"}],
         \A j \in LoanIds \ {l} : confirmation'[j] = confirmation[j],
         RequestAgrees(l)'
  PROVE  GTypeOK' /\ ConfirmationAgrees' /\ HolderIsKnown' /\ ClockFollowsLoans'
<1>1. TypeOK /\ GTypeOK /\ HolderIsKnown /\ ClockFollowsLoans /\ ConfirmationAgrees
  BY DEF GuestInv, GTypeOK
<1>2. \A j \in LoanIds \ {l} : Beside(j)
  BY <1>1, RivalsAreBeside DEF GuestMove
<1>3. loan'[l].contact = k
  BY DEF GuestMove, GuestLoan
<1>4. GTypeOK'
  BY <1>1 DEF GTypeOK, RecomputeRetainUntil
<1>5. ConfirmationAgrees'
  BY <1>1, <1>2, BesideAgrees DEF ConfirmationAgrees, GTypeOK
<1>6. HolderIsKnown'
  BY <1>1, <1>2, <1>3, HoldersKept
<1>7. ClockFollowsLoans'
  BY <1>1, <1>2, <1>3, ClockKept
<1> QED
  BY <1>4, <1>5, <1>6, <1>7

\* GuestInv with LendingInv set apart: what each step has to keep besides it.
GuestSide == GTypeOK /\ ConfirmationAgrees /\ HolderIsKnown /\ ClockFollowsLoans

LEMMA OpenGuestSide ==
  ASSUME GuestInv, TypeOK', NEW l \in LoanIds, NEW c \in Copies, NEW k \in Contacts,
         CreateGuestLoan(l, c, k) \/ RequestConfirmation(l, c, k)
  PROVE  GuestSide'
<1>1. /\ loan[l].status = "NONE" /\ k \in known /\ known' = known /\ RecomputeRetainUntil(k)
      /\ confirmation' = confirmation
           \/ (~CreateGuestLoan(l, c, k) /\ confirmation' = [confirmation EXCEPT ![l] = "OPEN"])
  BY DEF CreateGuestLoan, RequestConfirmation
<1>2. PICK to, status :
        /\ GuestMove(l, c, k, to) /\ CopyBecomes(c, status, NULL, k)
        /\ Leaves(c, k, to, status, NULL, k) /\ to # "LOST"
        /\ (to = "HANDED_OVER") <=> CreateGuestLoan(l, c, k)
  BY OpensGuestLoan DEF GuestInv
<1>3. /\ loan'[l].status = to /\ IsGuest(l)' /\ confirmation[l] = "NONE"
      /\ confirmation \in [LoanIds -> ConfirmationStatus \cup {"NONE"}]
  BY <1>1, <1>2 DEF GuestMove, GuestLoan, IsGuest, GuestInv, GTypeOK, ConfirmationAgrees, RequestAgrees
<1>4. to = "HANDED_OVER" => confirmation' = confirmation
  BY <1>1, <1>2
<1>5. to # "HANDED_OVER" => to = "PENDING_CONFIRMATION" /\ RequestConfirmation(l, c, k)
  BY <1>2 DEF Leaves
<1>6. to # "HANDED_OVER" => confirmation' = [confirmation EXCEPT ![l] = "OPEN"]
  BY <1>5 DEF RequestConfirmation
<1>7. RequestAgrees(l)'
  BY <1>3, <1>4, <1>5, <1>6 DEF RequestAgrees
<1>8. /\ confirmation' \in [LoanIds -> ConfirmationStatus \cup {"NONE"}]
      /\ \A j \in LoanIds \ {l} : confirmation'[j] = confirmation[j]
  BY <1>3, <1>4, <1>6 DEF ConfirmationStatus
<1>9. (\A d \in Copies \ {c} : copy'[d] = copy[d]) /\ copy'[c].contact \in {k, NULL}
  BY <1>2 DEF CopyBecomes
<1> QED
  BY <1>1, <1>2, <1>7, <1>8, <1>9, GuestSideKept DEF GuestSide

LEMMA EndSide ==
  ASSUME GuestInv, TypeOK', NEW l \in LoanIds, NEW to, Ends(l, to), NEW answer,
         confirmation' = [confirmation EXCEPT ![l] = answer],
         answer \in {"RECEIVED", "OWNER_RECORDED", "CANCELLED"},
         to = (IF answer = "CANCELLED" THEN "CANCELLED" ELSE "HANDED_OVER"),
         RecomputeRetainUntil(loan[l].contact), known' = known
  PROVE  GuestSide'
<1> PICK c, k : c = loan[l].copy /\ k = loan[l].contact
  OBVIOUS
<1>1. /\ IsGuest(l) /\ Away(l) /\ loan[l].status = "PENDING_CONFIRMATION" /\ k \in Contacts
      /\ GuestMove(l, c, k, to)
      /\ CopyBecomes(c, "LENT_OUT", NULL, k) \/ CopyBecomes(c, "AVAILABLE", OwnerOf[c], NULL)
  BY EndEffect DEF GuestInv
<1>2. c \in Copies /\ k \in known
  BY <1>1, GuestHolds DEF GuestInv, HolderIsKnown, EXCLUSIVE_LOAN_STATUS
<1>3. loan'[l].status = to /\ IsGuest(l)'
  BY <1>1 DEF GuestMove, GuestLoan, IsGuest
<1>4. /\ confirmation' \in [LoanIds -> ConfirmationStatus \cup {"NONE"}]
      /\ \A j \in LoanIds \ {l} : confirmation'[j] = confirmation[j]
      /\ confirmation'[l] = answer
  BY DEF GuestInv, GTypeOK, ConfirmationStatus
<1>5. RequestAgrees(l)'
  BY <1>3, <1>4 DEF RequestAgrees
<1>6. (\A d \in Copies \ {c} : copy'[d] = copy[d]) /\ copy'[c].contact \in {k, NULL}
  BY <1>1 DEF CopyBecomes
<1>7. RecomputeRetainUntil(k)
  OBVIOUS
<1> QED
  BY <1>1, <1>2, <1>4, <1>5, <1>6, <1>7, GuestSideKept DEF GuestSide

LEMMA DeniedSide ==
  ASSUME GuestInv, TypeOK', NEW l \in LoanIds, GuestAnswer(l, "DENIED")
  PROVE  GuestSide'
<1>1. /\ loan' = loan /\ copy' = copy /\ known' = known /\ loan[l].status = "PENDING_CONFIRMATION"
      /\ confirmation' = [confirmation EXCEPT ![l] = "DENIED"] /\ confirmation[l] = "OPEN"
      /\ RecomputeRetainUntil(loan[l].contact) /\ loan[l].contact # NULL
  BY DEF GuestAnswer, PendingChain, AwaitsAnswer
<1>2. GTypeOK /\ ConfirmationAgrees /\ HolderIsKnown /\ ClockFollowsLoans
  BY DEF GuestInv
<1>3. loan[l].contact \in known /\ loan[l].contact \in Contacts
  BY <1>1, <1>2 DEF HolderIsKnown, GTypeOK
<1>4. GTypeOK'
  BY <1>1, <1>2 DEF GTypeOK, RecomputeRetainUntil, ConfirmationStatus
<1>5. ConfirmationAgrees'
  BY <1>1, <1>2 DEF ConfirmationAgrees, RequestAgrees, IsGuest, GTypeOK
<1>6. HolderIsKnown'
  BY <1>1, <1>2 DEF HolderIsKnown, IsGuest
<1>7. ClockFollowsLoans'
  BY <1>1, <1>2, <1>3, ClockKept DEF Beside
<1> QED
  BY <1>4, <1>5, <1>6, <1>7 DEF GuestSide

LEMMA PatchGuestSide ==
  ASSUME GuestInv, TypeOK', NEW l \in LoanIds, PatchGuestLoan(l)
  PROVE  GuestSide'
<1> PICK c, k : c = loan[l].copy /\ k = loan[l].contact
  OBVIOUS
<1>1. IsGuest(l)
  BY DEF PatchGuestLoan
<1>2. PICK row \in GuestRows(loan[l].status) : GuestTransition(l, row)
  BY DEF PatchGuestLoan
<1>3. /\ c \in Copies /\ k \in Contacts \cup {NULL} /\ loan[l].status \in {"HANDED_OVER", "LOST"}
      /\ GuestMove(l, c, k, row.to)
      /\ \A j \in LoanIds \ {l} : loan'[j] = loan[j]
      /\ \E status, holder, contact :
           CopyBecomes(c, status, holder, contact) /\ contact \in {copy[c].contact, NULL}
  BY <1>1, <1>2, GuestTransitionEffect DEF GuestInv
<1>4. /\ loan'[l].status = row.to /\ IsGuest(l)' /\ loan'[l].contact = k /\ row.to \in {"RETURNED", "LOST"}
      /\ row.to = "RETURNED" => loan[l].status = "HANDED_OVER"
  BY <1>2, <1>3, GuestRowKinds DEF GuestMove, GuestLoan, IsGuest
<1>5. /\ known' = known /\ confirmation' = confirmation
      /\ IF k = NULL THEN UNCHANGED retainUntil ELSE RecomputeRetainUntil(k)
  BY <1>2 DEF GuestTransition
<1>6. TypeOK /\ GTypeOK /\ ConfirmationAgrees /\ HolderIsKnown /\ ClockFollowsLoans
  BY DEF GuestInv, GTypeOK
<1>7. \A j \in LoanIds \ {l} : Beside(j)
  BY <1>3 DEF Beside
<1>8. GTypeOK'
  BY <1>5, <1>6 DEF GTypeOK, RecomputeRetainUntil
<1>9. ConfirmationAgrees'
  <2>1. RequestAgrees(l)'
    BY <1>1, <1>3, <1>4, <1>5, <1>6 DEF ConfirmationAgrees, RequestAgrees, GTypeOK, ConfirmationStatus
  <2> QED
    BY <1>5, <1>6, <1>7, <2>1, BesideAgrees DEF ConfirmationAgrees, GTypeOK
<1>10. HolderIsKnown'
  <2>1. k # NULL => k \in known
    BY <1>6 DEF HolderIsKnown
  <2>2. copy'[c].contact \in {copy[c].contact, NULL}
    BY <1>3 DEF CopyBecomes
  <2>3. copy'[c].contact \in known \cup {NULL} /\ \A d \in Copies \ {c} : copy'[d] = copy[d]
    BY <1>3, <1>6, <2>2 DEF HolderIsKnown, CopyBecomes
  <2>4. loan'[l].status \notin EXCLUSIVE_LOAN_STATUS
    BY <1>4 DEF EXCLUSIVE_LOAN_STATUS
  <2> QED
    BY <1>3, <1>4, <1>5, <1>6, <1>7, <2>1, <2>3, <2>4, HoldersKept
<1>11. ClockFollowsLoans'
  <2>1. CASE k # NULL
    BY <1>3, <1>4, <1>5, <1>6, <1>7, <2>1, ClockKept
  <2>2. CASE k = NULL
    <3>1. \A m \in Contacts : ActiveLoansOf(m)' = ActiveLoansOf(m)
      <4> TAKE m \in Contacts
      <4>1. loan'[l].contact # m /\ loan[l].contact # m
        BY <1>4, <2>2
      <4> QED
        BY <1>7, <4>1, ActiveUnmoved
    <3> QED
      BY <1>5, <1>6, <2>2, <3>1 DEF ClockFollowsLoans, GTypeOK
  <2> QED
    BY <2>1, <2>2
<1> QED
  BY <1>8, <1>9, <1>10, <1>11 DEF GuestSide

\* A new contact has no book: whoever a loan names is known already.
LEMMA CreateContactSide ==
  ASSUME GuestInv, TypeOK', NEW k \in Contacts, CreateContact(k)
  PROVE  GuestSide'
<1>1. /\ k \notin known /\ known' = known \cup {k} /\ loan' = loan /\ copy' = copy
      /\ retainUntil' = [retainUntil EXCEPT ![k] = "DATED"] /\ confirmation' = confirmation
  BY DEF CreateContact, vars
<1>2. GTypeOK /\ ConfirmationAgrees /\ HolderIsKnown /\ ClockFollowsLoans
  BY DEF GuestInv
<1>3. \A m \in Contacts : ActiveLoansOf(m)' = ActiveLoansOf(m)
  BY <1>1 DEF ActiveLoansOf, LoansOf
<1>4. ActiveLoansOf(k) = {} /\ k # NULL
  BY <1>1, <1>2 DEF ActiveLoansOf, LoansOf, HolderIsKnown
<1>5. GTypeOK'
  BY <1>1, <1>2 DEF GTypeOK
<1>6. ConfirmationAgrees' /\ HolderIsKnown'
  BY <1>1, <1>2 DEF ConfirmationAgrees, RequestAgrees, HolderIsKnown, IsGuest
<1>7. ClockFollowsLoans'
  BY <1>1, <1>2, <1>3, <1>4 DEF ClockFollowsLoans, GTypeOK
<1> QED
  BY <1>5, <1>6, <1>7 DEF GuestSide

\* The clean-up and the delete button take only contacts without an active loan.
LEMMA ForgetSide ==
  ASSUME GuestInv, TypeOK', NEW ks \in SUBSET Contacts, Forget(ks),
         \A k \in ks : ActiveLoansOf(k) = {}
  PROVE  GuestSide'
<1>1. /\ known' = known \ ks /\ retainUntil' = retainUntil /\ confirmation' = confirmation
      /\ loan' = [l \in LoanIds |-> IF loan[l].contact \in ks THEN [loan[l] EXCEPT !.contact = NULL]
                                                               ELSE loan[l]]
      /\ copy' = [c \in Copies |-> IF copy[c].contact \in ks THEN [copy[c] EXCEPT !.contact = NULL]
                                                             ELSE copy[c]]
  BY DEF Forget
<1>2. TypeOK /\ GTypeOK /\ ConfirmationAgrees /\ HolderIsKnown /\ ClockFollowsLoans
  BY DEF GuestInv, GTypeOK
<1>3. \A l \in LoanIds :
        /\ loan'[l].status = loan[l].status /\ loan'[l].origin = loan[l].origin
        /\ loan'[l].contact = IF loan[l].contact \in ks THEN NULL ELSE loan[l].contact
  BY <1>1, <1>2 DEF TypeOK, LoanRow
<1>4. \A c \in Copies : copy'[c].contact = IF copy[c].contact \in ks THEN NULL ELSE copy[c].contact
  BY <1>1, <1>2 DEF TypeOK, CopyRow
<1>5. \A l \in LoanIds : loan[l].status \in EXCLUSIVE_LOAN_STATUS => loan[l].contact \notin ks
  BY DEF ActiveLoansOf, LoansOf
<1>6. GTypeOK'
  BY <1>1, <1>2 DEF GTypeOK
<1>7. ConfirmationAgrees'
  BY <1>1, <1>2, <1>3 DEF ConfirmationAgrees, RequestAgrees, IsGuest
<1>8. HolderIsKnown'
  <2>1. \A l \in LoanIds : IsGuest(l)' /\ loan'[l].status \in EXCLUSIVE_LOAN_STATUS =>
          loan'[l].contact \in known'
    BY <1>1, <1>2, <1>3, <1>5 DEF HolderIsKnown, IsGuest
  <2>2. \A l \in LoanIds : loan'[l].contact # NULL => loan'[l].contact \in known'
    BY <1>1, <1>2, <1>3 DEF HolderIsKnown
  <2>3. \A c \in Copies : copy'[c].contact # NULL => copy'[c].contact \in known'
    BY <1>1, <1>2, <1>4 DEF HolderIsKnown
  <2> QED
    BY <2>1, <2>2, <2>3 DEF HolderIsKnown
<1>9. ClockFollowsLoans'
  <2>1. ASSUME NEW k \in known \ ks PROVE ActiveLoansOf(k)' = ActiveLoansOf(k)
    <3>1. k # NULL
      BY <1>2 DEF GTypeOK
    <3> QED
      BY <1>3, <3>1 DEF ActiveLoansOf, LoansOf
  <2> QED
    BY <1>1, <1>2, <2>1 DEF ClockFollowsLoans
<1> QED
  BY <1>6, <1>7, <1>8, <1>9 DEF GuestSide

\* The operations of Lending do not touch a guest loan, a contact or a confirmation.
LEMMA RegisteredSide ==
  ASSUME GuestInv, TypeOK', [Next]_vars, UNCHANGED <<known, retainUntil, confirmation>>
  PROVE  GuestSide'
<1>1. GTypeOK /\ ConfirmationAgrees /\ HolderIsKnown /\ ClockFollowsLoans
  BY DEF GuestInv
<1>2. /\ \A j \in LoanIds : Beside(j)
      /\ \A c \in Copies : copy'[c].contact \in {copy[c].contact, NULL}
  BY RegisteredEffect DEF GuestInv
<1>3. GTypeOK'
  BY <1>1 DEF GTypeOK
<1>4. ConfirmationAgrees'
  BY <1>1, <1>2, BesideAgrees DEF ConfirmationAgrees, GTypeOK
<1>5. HolderIsKnown'
  BY <1>1, <1>2 DEF HolderIsKnown, Beside, IsGuest
<1>6. ClockFollowsLoans'
  <2>1. \A k \in Contacts : ActiveLoansOf(k)' = ActiveLoansOf(k)
    BY <1>2, ActiveUnmoved
  <2> QED
    BY <1>1, <2>1 DEF ClockFollowsLoans, GTypeOK
<1> QED
  BY <1>3, <1>4, <1>5, <1>6 DEF GuestSide

-----------------------------------------------------------------------------
(* The invariant *)

LEMMA GuestInitInv == GInit => GuestInv
<1> SUFFICES ASSUME GInit PROVE GuestInv
  OBVIOUS
<1>1. LendingInv
  BY InitInv DEF GInit
<1>2. /\ \A l \in LoanIds : loan[l].status = "NONE" /\ loan[l].contact = NULL /\ confirmation[l] = "NONE"
      /\ \A c \in Copies : copy[c].contact = NULL
      /\ known = {}
  BY DEF GInit, Init, NoLoan, FreshCopy
<1>3. GTypeOK
  BY <1>1 DEF GInit, GTypeOK, LendingInv
<1> QED
  BY <1>1, <1>2, <1>3 DEF GuestInv, ConfirmationAgrees, RequestAgrees, HolderIsKnown,
     ClockFollowsLoans, EXCLUSIVE_LOAN_STATUS

LEMMA GuestInvStep == GuestInv /\ [GNext]_gvars => GuestInv'
<1> SUFFICES ASSUME GuestInv, [GNext]_gvars PROVE GuestInv'
  OBVIOUS
<1>1. SUFFICES LendingInv' /\ GuestSide'
  BY DEF GuestInv, GuestSide
<1>2. LendingInv
  BY DEF GuestInv
<1>3. LendingInv' => TypeOK'
  BY DEF LendingInv
<1>4. CASE RegisteredStep \/ UNCHANGED gvars
  <2>1. [Next]_vars /\ UNCHANGED <<known, retainUntil, confirmation>>
    BY <1>4 DEF RegisteredStep, gvars, vars
  <2> QED
    BY <1>2, <1>3, <2>1, InvStep, RegisteredSide
<1>5. ASSUME NEW k \in Contacts, CreateContact(k) PROVE LendingInv' /\ GuestSide'
  <2>1. LendingInv'
    BY <1>2, <1>5, UnmovedStep DEF CreateContact, vars
  <2> QED
    BY <1>3, <1>5, <2>1, CreateContactSide
<1>6. ASSUME NEW ks \in SUBSET Contacts, Forget(ks), \A k \in ks : ActiveLoansOf(k) = {}
      PROVE  LendingInv' /\ GuestSide'
  BY <1>2, <1>3, <1>6, ForgetStep, ForgetSide
<1>7. ASSUME NEW k \in Contacts, DeleteContact(k) PROVE LendingInv' /\ GuestSide'
  BY <1>6, <1>7 DEF DeleteContact
<1>8. ASSUME NEW due \in SUBSET Contacts, CleanupContacts(due) PROVE LendingInv' /\ GuestSide'
  <2>1. {k \in due : ActiveLoansOf(k) = {}} \in SUBSET Contacts
    OBVIOUS
  <2> QED
    BY <1>6, <1>8, <2>1 DEF CleanupContacts
<1>9. ASSUME NEW l \in LoanIds, NEW c \in Copies, NEW k \in Contacts,
             CreateGuestLoan(l, c, k) \/ RequestConfirmation(l, c, k)
      PROVE  LendingInv' /\ GuestSide'
  BY <1>2, <1>3, <1>9, OpenGuestStep, OpenGuestSide
<1>10. ASSUME NEW l \in LoanIds, PatchGuestLoan(l) PROVE LendingInv' /\ GuestSide'
  BY <1>2, <1>3, <1>10, PatchGuestStep, PatchGuestSide
<1>11. ASSUME NEW l \in LoanIds, NEW row \in ConfirmationRows(confirmation[l]),
              ResolveConfirmation(l, row)
       PROVE  LendingInv' /\ GuestSide'
  <2>1. /\ row.loanTo \in {"HANDED_OVER", "CANCELLED"} /\ Ends(l, row.loanTo)
        /\ row.confirmationTo = IF row.loanTo = "CANCELLED" THEN "CANCELLED" ELSE "OWNER_RECORDED"
    BY <1>11, ResolveEnds
  <2>2. LendingInv'
    BY <1>2, <2>1, EndStep
  <2>3. /\ confirmation' = [confirmation EXCEPT ![l] = row.confirmationTo] /\ known' = known
        /\ RecomputeRetainUntil(loan[l].contact)
    BY <1>11 DEF ResolveConfirmation
  <2>4. /\ row.confirmationTo \in {"RECEIVED", "OWNER_RECORDED", "CANCELLED"}
        /\ row.loanTo = (IF row.confirmationTo = "CANCELLED" THEN "CANCELLED" ELSE "HANDED_OVER")
    BY <2>1
  <2> QED
    BY <1>3, <2>1, <2>2, <2>3, <2>4, EndSide
<1>12. ASSUME NEW l \in LoanIds, GuestAnswer(l, "RECEIVED") PROVE LendingInv' /\ GuestSide'
  <2>1. Ends(l, "HANDED_OVER")
    BY <1>12, AnswerEnds
  <2>2. LendingInv'
    BY <1>2, <2>1, EndStep
  <2>3. /\ confirmation' = [confirmation EXCEPT ![l] = "RECEIVED"] /\ known' = known
        /\ RecomputeRetainUntil(loan[l].contact)
    BY <1>12 DEF GuestAnswer
  <2>4. "HANDED_OVER" = (IF "RECEIVED" = "CANCELLED" THEN "CANCELLED" ELSE "HANDED_OVER")
    OBVIOUS
  <2> QED
    BY <1>3, <2>1, <2>2, <2>3, <2>4, EndSide
<1>13. ASSUME NEW l \in LoanIds, GuestAnswer(l, "DENIED") PROVE LendingInv' /\ GuestSide'
  <2>1. LendingInv'
    BY <1>2, <1>13, UnmovedStep DEF GuestAnswer
  <2> QED
    BY <1>3, <1>13, <2>1, DeniedSide
<1> QED
  BY <1>4, <1>5, <1>7, <1>8, <1>9, <1>10, <1>11, <1>12, <1>13 DEF GNext, ContactStep, GuestLoanStep

\* The owner can always end a guest loan that has a book away: the row for it accepts the
\* state its copy is in.
LEMMA NobodyIsStuck == GuestInv => GuestNeverStuck
<1> SUFFICES ASSUME GuestInv, NEW l \in LoanIds, IsGuest(l)
             PROVE  /\ loan[l].status = "HANDED_OVER" \/ OpenLoss(l) =>
                         \E row \in GuestRows(loan[l].status) :
                           row.copyHolder = "OWNER" /\ GuestCopyReady(l, row)
                    /\ loan[l].status = "PENDING_CONFIRMATION" =>
                         PendingChain(l) /\ ConfirmationRows(confirmation[l]) # {}
  BY DEF GuestNeverStuck
<1>1. LendingInv /\ ConfirmationAgrees /\ HolderIsKnown /\ GTypeOK
  BY DEF GuestInv
<1>2. Away(l) => copy[loan[l].copy].holder = NULL /\ copy[loan[l].copy].contact = loan[l].contact
  BY <1>1, GuestHolds
<1>3. CASE loan[l].status = "HANDED_OVER"
  <2>1. copy[loan[l].copy].status = "LENT_OUT" /\ Away(l)
    BY <1>1, <1>3 DEF LendingInv, Custody, Away
  <2>2. PICK row \in GuestTable : row.from = "HANDED_OVER" /\ row.action = "return"
    BY DEF GuestTable
  <2>3. row \in GuestRows("HANDED_OVER") /\ row.copyHolder = "OWNER" /\ row.requiresCopyStatus = "LENT_OUT"
    BY <2>2 DEF GuestRows, GuestTable
  <2> QED
    BY <1>2, <1>3, <2>1, <2>3 DEF GuestCopyReady
<1>4. CASE OpenLoss(l)
  <2>1. copy[loan[l].copy].status = "UNAVAILABLE" /\ Away(l)
    BY <1>1, <1>4 DEF LendingInv, Custody, Away
  <2>2. PICK row \in GuestTable : row.from = "LOST" /\ row.action = "recover"
    BY DEF GuestTable
  <2>3. row \in GuestRows("LOST") /\ row.copyHolder = "OWNER" /\ row.requiresCopyStatus = "UNAVAILABLE"
    BY <2>2 DEF GuestRows, GuestTable
  <2>4. loan[l].status = "LOST"
    BY <1>4 DEF OpenLoss
  <2> QED
    BY <1>2, <2>1, <2>3, <2>4 DEF GuestCopyReady
<1>5. CASE loan[l].status = "PENDING_CONFIRMATION"
  <2>1. copy[loan[l].copy].status = "RESERVED" /\ Away(l)
    BY <1>1, <1>5 DEF LendingInv, Custody, Away
  <2>2. loan[l].contact # NULL
    BY <1>1, <1>5 DEF HolderIsKnown, GTypeOK, EXCLUSIVE_LOAN_STATUS
  <2>3. ConfirmationRows(confirmation[l]) # {}
    BY <1>1, <1>5 DEF ConfirmationAgrees, RequestAgrees, ConfirmationRows
  <2> QED
    BY <1>2, <1>5, <2>1, <2>2, <2>3 DEF PendingChain, OpenLoss
<1> QED
  BY <1>3, <1>4, <1>5

-----------------------------------------------------------------------------
(* Theorems: with guests, contacts and confirmations about, *)

\* all of GuestInv holds in every reachable state,
THEOREM GuestInvariance == GSpec => []GuestInv
BY GuestInitInv, GuestInvStep, PTL DEF GSpec

\* no copy is promised, lent or lost to two people, registered or not,
THEOREM OneClaimWithGuests == GSpec => []OneClaim
<1>1. GuestInv => OneClaim
  BY DEF GuestInv, LendingInv
<1> QED
  BY GuestInvariance, <1>1, PTL

\* a loan and its copy agree about where the book is, contacts forgotten meanwhile included,
THEOREM CustodyWithGuests == GSpec => []Custody
<1>1. GuestInv => Custody
  BY DEF GuestInv, LendingInv
<1> QED
  BY GuestInvariance, <1>1, PTL

\* nobody waits for a book that has gone to a guest,
THEOREM NobodyWaitsForGuests == GSpec => []NoRequestLeftBehind
<1>1. GuestInv => NoRequestLeftBehind
  BY DEF GuestInv, LendingInv
<1> QED
  BY GuestInvariance, <1>1, PTL

\* a hand-over and the request sent about it say the same, and the owner can end every one,
THEOREM HandOversGoOn == GSpec => []HandOverGoesOn
<1>1. GuestInv => HandOverGoesOn
  BY NobodyIsStuck DEF GuestInv, HandOverGoesOn
<1> QED
  BY GuestInvariance, <1>1, PTL

\* the retention clock runs exactly while a contact has no book, and no holder is forgotten.
THEOREM ContactsKept == GSpec => []ContactsAreKept
<1>1. GuestInv => ContactsAreKept
  BY DEF GuestInv, ContactsAreKept
<1> QED
  BY GuestInvariance, <1>1, PTL

\* A resolved request stays resolved, and a denial is overruled by the owner only.
THEOREM AnswersAreFinal == GSpec => AnswersStand
<1>1. ASSUME GuestInv, [GNext]_gvars PROVE \A l \in LoanIds : AnswerStands(l)
  <2> SUFFICES ASSUME NEW l \in LoanIds PROVE AnswerStands(l)
    OBVIOUS
  <2>1. /\ confirmation \in [LoanIds -> ConfirmationStatus \cup {"NONE"}]
        /\ RequestAgrees(l)
    BY <1>1 DEF GuestInv, GTypeOK, ConfirmationAgrees
  <2>2. CASE confirmation' = confirmation
    BY <2>2 DEF AnswerStands
  <2>3. ASSUME NEW m \in LoanIds, NEW c \in Copies, NEW k \in Contacts, RequestConfirmation(m, c, k)
        PROVE  AnswerStands(l)
    <3>1. loan[m].status = "NONE" /\ confirmation' = [confirmation EXCEPT ![m] = "OPEN"]
      BY <2>3 DEF RequestConfirmation
    <3> QED
      BY <2>1, <3>1 DEF AnswerStands, RequestAgrees
  <2>4. ASSUME NEW m \in LoanIds, NEW row \in ConfirmationRows(confirmation[m]),
               ResolveConfirmation(m, row)
        PROVE  AnswerStands(l)
    <3>1. /\ confirmation[m] \in {"OPEN", "DENIED"}
          /\ row.confirmationTo \in {"CANCELLED", "OWNER_RECORDED"}
          /\ confirmation' = [confirmation EXCEPT ![m] = row.confirmationTo]
      BY <2>4, ResolveEnds DEF ResolveConfirmation
    <3> QED
      BY <2>1, <3>1 DEF AnswerStands
  <2>5. ASSUME NEW m \in LoanIds, NEW answer \in {"RECEIVED", "DENIED"}, GuestAnswer(m, answer)
        PROVE  AnswerStands(l)
    <3>1. confirmation[m] = "OPEN" /\ confirmation' = [confirmation EXCEPT ![m] = answer]
      BY <2>5 DEF GuestAnswer, AwaitsAnswer
    <3> QED
      BY <2>1, <3>1 DEF AnswerStands
  <2>6. ASSUME NEW m \in LoanIds, NEW c \in Copies, NEW k \in Contacts, CreateGuestLoan(m, c, k)
        PROVE  confirmation' = confirmation
    BY <2>6 DEF CreateGuestLoan
  <2>7. ASSUME NEW m \in LoanIds, PatchGuestLoan(m) PROVE confirmation' = confirmation
    BY <2>7 DEF PatchGuestLoan, GuestTransition
  <2>8. ContactStep \/ RegisteredStep \/ UNCHANGED gvars => confirmation' = confirmation
    BY DEF ContactStep, CreateContact, DeleteContact, CleanupContacts, Forget, RegisteredStep, gvars
  <2> QED
    BY <1>1, <2>2, <2>3, <2>4, <2>5, <2>6, <2>7, <2>8 DEF GNext, GuestLoanStep
<1> QED
  BY GuestInvariance, <1>1, PTL DEF GSpec, AnswersStand

\* A guest's book comes home with its loan too, and forgetting a contact brings no book home.
THEOREM HomecomingsAccounted == GSpec => HomecomingIsAccounted
<1>1. ASSUME GuestInv, [GNext]_gvars
      PROVE  [\A c \in Copies : ComesHome(c) => \E l \in LoanIds : BringsHome(l, c)]_vars
  <2> SUFFICES ASSUME NEW c \in Copies, ComesHome(c) PROVE \E l \in LoanIds : BringsHome(l, c)
    OBVIOUS
  <2>1. LendingInv /\ TypeOK /\ ~AtHome(c) /\ AtHome(c)' /\ OwnerOf[c] # NULL
    BY <1>1 DEF GuestInv, LendingInv, ComesHome
  <2>2. CASE RegisteredStep \/ UNCHANGED gvars
    <3>1. [Next]_vars
      BY <2>2 DEF RegisteredStep, gvars, vars
    <3> QED
      BY <2>1, <3>1, HomecomingStep
  <2>3. copy' # copy
    BY <2>1 DEF AtHome
  <2>4. ASSUME NEW ks \in SUBSET Contacts, Forget(ks) PROVE FALSE
    <3>1. copy'[c].holder = copy[c].holder
      BY <2>1, <2>4 DEF Forget, TypeOK, CopyRow
    <3> QED
      BY <2>1, <3>1, HeldByOwner DEF AtHome
  <2>5. ~ContactStep
    BY <2>3, <2>4 DEF ContactStep, CreateContact, DeleteContact, CleanupContacts, vars
  <2>6. ASSUME NEW l \in LoanIds, NEW d \in Copies, NEW k \in Contacts,
               CreateGuestLoan(l, d, k) \/ RequestConfirmation(l, d, k)
        PROVE  FALSE
    <3>1. PICK status : CopyBecomes(d, status, NULL, k)
      BY <2>1, <2>6, OpensGuestLoan
    <3> QED
      BY <2>1, <3>1 DEF CopyBecomes, AtHome
  <2>7. ASSUME NEW l \in LoanIds, PatchGuestLoan(l) PROVE BringsHome(l, c)
    <3>1. IsGuest(l)
      BY <2>7 DEF PatchGuestLoan
    <3>2. PICK row \in GuestRows(loan[l].status) : GuestTransition(l, row)
      BY <2>7 DEF PatchGuestLoan
    <3> PICK d : d = loan[l].copy
      OBVIOUS
    <3>3. /\ GuestMove(l, d, loan[l].contact, row.to)
          /\ \A e \in Copies : e # d => copy'[e] = copy[e]
          /\ copy'[d].contact = IF row.copyHolder = "OWNER" THEN NULL ELSE copy[d].contact
          /\ copy'[d].holder = IF row.copyHolder = "OWNER" THEN OwnerOf[d] ELSE copy[d].holder
          /\ \A j \in LoanIds : <<j, "RECOVERED">> \in events' <=>
               <<j, "RECOVERED">> \in events \/ (j = l /\ row.event = "RECOVERED")
      BY <2>1, <3>1, <3>2, GuestTransitionEffect DEF CopyBecomes
    <3>4. c = d /\ row.copyHolder = "OWNER"
      BY <2>1, <3>3 DEF AtHome
    <3>5. loan'[l].status = row.to
      BY <3>3 DEF GuestMove, GuestLoan
    <3>6. \/ loan[l].status = "HANDED_OVER" /\ loan'[l].status = "RETURNED"
          \/ OpenLoss(l) /\ <<l, "RECOVERED">> \in events'
      BY <3>2, <3>3, <3>4, <3>5, GuestRowKinds DEF GuestTransition, EventAllowed, OpenLoss
    <3>7. Away(l) /\ WithBorrower(l)
      BY <2>1, <3>6 DEF Away, LendingInv, Custody
    <3> QED
      BY <3>4, <3>6, <3>7 DEF BringsHome
  <2>8. ASSUME NEW l \in LoanIds, NEW to, Ends(l, to) PROVE BringsHome(l, c)
    <3> PICK d, k : d = loan[l].copy /\ k = loan[l].contact
      OBVIOUS
    <3>1. /\ Away(l) /\ loan[l].status = "PENDING_CONFIRMATION" /\ GuestMove(l, d, k, to)
          /\ to \in {"HANDED_OVER", "CANCELLED"}
          /\ to = "HANDED_OVER" => CopyBecomes(d, "LENT_OUT", NULL, k)
          /\ to = "CANCELLED" => CopyBecomes(d, "AVAILABLE", OwnerOf[d], NULL)
      BY <2>1, <2>8, EndEffect
    <3>2. c = d /\ to = "CANCELLED"
      BY <2>1, <3>1 DEF CopyBecomes, AtHome
    <3>3. loan'[l].status = "CANCELLED"
      BY <3>1, <3>2 DEF GuestMove, GuestLoan
    <3>4. WithBorrower(l)
      BY <2>1, <3>1 DEF LendingInv, Custody
    <3> QED
      BY <3>1, <3>2, <3>3, <3>4 DEF BringsHome
  <2>9. ASSUME NEW l \in LoanIds, NEW row \in ConfirmationRows(confirmation[l]),
               ResolveConfirmation(l, row)
        PROVE  BringsHome(l, c)
    BY <2>8, <2>9, ResolveEnds
  <2>10. ASSUME NEW l \in LoanIds, NEW answer \in {"RECEIVED", "DENIED"}, GuestAnswer(l, answer)
         PROVE  BringsHome(l, c)
    <3>1. answer # "DENIED"
      BY <2>3, <2>10 DEF GuestAnswer
    <3> QED
      BY <2>8, <2>10, <3>1, AnswerEnds
  <2> QED
    BY <1>1, <2>2, <2>5, <2>6, <2>7, <2>9, <2>10 DEF GNext, GuestLoanStep
<1> QED
  BY GuestInvariance, <1>1, PTL DEF GSpec, HomecomingIsAccounted

=============================================================================
