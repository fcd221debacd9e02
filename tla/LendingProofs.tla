--------------------------- MODULE LendingProofs ---------------------------
(* Theorems about Lending and LendingHistory for any sets of users, contacts,    *)
(* copies and loans, and about Digest for any loans, people and processes.       *)
(*                                                                               *)
(* The rows of the transition table are first sorted into the eight kinds of     *)
(* change they make (RowKinds); a step of PATCH /loans/:id is then described by  *)
(* what it does to every row of the tables (TransitionEffect), and each          *)
(* invariant is shown kind by kind.                                              *)
(*                                                                               *)
(* Of the reminders DigestInv says what a pass may rely on between two of its    *)
(* steps (PassOk), whatever happens to the loans meanwhile (LoansGoOn).          *)

EXTENDS LendingHistory, Digest, TLAPS

USE OwnerAssumption, NullAssumption, PartiesAssumption, EditsAssumption

-----------------------------------------------------------------------------
(* The transition table *)

\* What a row of the table does to its loan and copy, leaving out whom it notifies.
Changes(row, to, requires, copyStatus, holder) ==
  /\ row.to = to
  /\ row.requires = requires
  /\ row.copyStatus = copyStatus
  /\ row.holder = holder

Promises(from, row) ==
  /\ from = "REQUESTED" /\ row.rejectRivals /\ row.event # "RECOVERED"
  /\ Changes(row, "APPROVED", <<"AVAILABLE", "OWNER">>, "RESERVED", "KEEP")

Refuses(from, row) ==
  /\ from = "REQUESTED" /\ ~row.rejectRivals /\ row.event # "RECOVERED"
  /\ \E to \in {"REJECTED", "CANCELLED"} : Changes(row, to, <<>>, "KEEP", "KEEP")

CallsOff(from, row) ==
  /\ from \in {"APPROVED", "PENDING_CONFIRMATION"} /\ ~row.rejectRivals /\ row.event # "RECOVERED"
  /\ \E to \in {"CANCELLED", "DECLINED"} :
       Changes(row, to, <<"RESERVED", "OWNER">>, "AVAILABLE", "KEEP")

HandsOver(from, row) ==
  /\ from \in {"APPROVED", "PENDING_CONFIRMATION"} /\ row.event # "RECOVERED"
  /\ from = "PENDING_CONFIRMATION" => row.rejectRivals
  /\ Changes(row, "HANDED_OVER", <<"RESERVED", "OWNER">>, "LENT_OUT", "BORROWER")

Returns(from, row) ==
  /\ from = "HANDED_OVER" /\ ~row.rejectRivals /\ row.event # "RECOVERED"
  /\ Changes(row, "RETURNED", <<"LENT_OUT", "BORROWER">>, "AVAILABLE", "OWNER")

MarksLost(from, row) ==
  /\ from = "HANDED_OVER" /\ ~row.rejectRivals /\ row.event # "RECOVERED"
  /\ Changes(row, "LOST", <<"LENT_OUT", "BORROWER">>, "UNAVAILABLE", "KEEP")

Recovers(from, row) ==
  /\ from = "LOST" /\ ~row.rejectRivals /\ row.event = "RECOVERED"
  /\ Changes(row, "LOST", <<"UNAVAILABLE", "BORROWER">>, "AVAILABLE", "OWNER")

Amends(from, row) ==
  /\ from = "PENDING_CONFIRMATION" /\ ~row.rejectRivals /\ row.event # "RECOVERED"
  /\ Changes(row, "PENDING_CONFIRMATION", <<"RESERVED", "OWNER">>, "KEEP", "KEEP")

ChangeKinds(from, row) ==
  \/ Promises(from, row) \/ Refuses(from, row) \/ CallsOff(from, row) \/ HandsOver(from, row)
  \/ Returns(from, row) \/ MarksLost(from, row) \/ Recovers(from, row) \/ Amends(from, row)

\* Every row of resolveTransition makes one of the eight changes, and none is open to a
\* guest loan or to a loan that does not exist.
LEMMA RowKinds ==
  ASSUME NEW origin, NEW from, NEW row \in RegisteredRows(origin, from)
  PROVE  origin # "RECORDED_GUEST" /\ ChangeKinds(from, row)
<1>1. /\ origin # "RECORDED_GUEST" /\ row.from = from
      /\ \E o \in Origin :
           row \in FromRequested \cup FromApproved \cup FromHandedOver(o)
                     \cup FromLost \cup FromPendingConfirmation
  <2>1. origin # "RECORDED_GUEST" /\ row.from = from /\ row \in RequestTable \cup RecordedTable
    BY DEF RegisteredRows
  <2> QED
    BY <2>1 DEF RequestTable, RecordedTable, Origin
<1>2. CASE row \in FromRequested
  BY <1>1, <1>2 DEF FromRequested, ChangeKinds, Changes, Promises, Refuses
<1>3. CASE row \in FromApproved
  BY <1>1, <1>3 DEF FromApproved, ChangeKinds, Changes, CallsOff, HandsOver
<1>4. CASE \E o \in Origin : row \in FromHandedOver(o)
  <2>1. row.event # "RECOVERED"
    BY <1>4 DEF FromHandedOver, Origin
  <2> QED
    BY <1>1, <1>4, <2>1 DEF FromHandedOver, ChangeKinds, Changes, Returns, MarksLost
<1>5. CASE row \in FromLost
  BY <1>1, <1>5 DEF FromLost, ChangeKinds, Changes, Recovers
<1>6. CASE row \in FromPendingConfirmation
  BY <1>1, <1>6 DEF FromPendingConfirmation, RECORD_HELD, ChangeKinds, Changes, HandsOver, CallsOff, Amends
<1> QED
  BY <1>1, <1>2, <1>3, <1>4, <1>5, <1>6
-----------------------------------------------------------------------------
(* PATCH /loans/:id, described by what it does to the rows *)

\* A transition reads and writes its own loan, the rivals it turns down and one copy.
LEMMA TransitionEffect ==
  ASSUME TypeOK,
         NEW l \in LoanIds, NEW row \in RegisteredRows(loan[l].origin, loan[l].status),
         NEW actor, RunTransition(l, row, actor)
  PROVE  /\ ChangeKinds(loan[l].status, row)
         /\ loan[l].status \in LoanStatus /\ ~IsGuest(l)
         /\ loan[l].copy \in Copies /\ loan[l].borrower \in Users /\ loan[l].contact = NULL
         /\ \A k \in LoanIds :
              loan'[k] = IF k = l THEN [loan[l] EXCEPT !.status = row.to]
                         ELSE IF row.rejectRivals /\ k \in RequestsOn(loan[l].copy)
                         THEN [loan[k] EXCEPT !.status = "REJECTED"] ELSE loan[k]
         /\ \A c \in Copies : copy'[c] = IF c = loan[l].copy THEN CopyAfter(l, row) ELSE copy[c]
         /\ \A k \in LoanIds : <<k, "RECOVERED">> \in events' <=>
              <<k, "RECOVERED">> \in events \/ (k = l /\ row.event = "RECOVERED")
<1>1. loan[l].origin # "RECORDED_GUEST" /\ ChangeKinds(loan[l].status, row)
  BY RowKinds
<1>2. loan[l] \in LoanRow /\ loan[l].status # "NONE"
  BY <1>1 DEF TypeOK, ChangeKinds, Promises, Refuses, CallsOff, HandsOver, Returns, MarksLost,
              Recovers, Amends
<1>3. /\ loan[l].status \in LoanStatus
      /\ loan[l].copy \in Copies /\ loan[l].borrower \in Users /\ loan[l].contact = NULL
  BY <1>1, <1>2 DEF TypeOK, LoanRow
<1>4. \A k \in LoanIds :
        loan'[k] = IF k = l THEN [loan[l] EXCEPT !.status = row.to]
                   ELSE IF row.rejectRivals /\ k \in RequestsOn(loan[l].copy)
                   THEN [loan[k] EXCEPT !.status = "REJECTED"] ELSE loan[k]
  <2>1. loan' = [Reject(RivalsOf(l, row)) EXCEPT ![l].status = row.to]
    BY DEF RunTransition
  <2>2. l \notin RivalsOf(l, row)
    BY DEF RivalsOf
  <2> QED
    BY <2>1, <2>2 DEF Reject, RivalsOf
<1>5. \A c \in Copies : copy'[c] = IF c = loan[l].copy THEN CopyAfter(l, row) ELSE copy[c]
  BY <1>3 DEF RunTransition, TypeOK
<1>6. \A k \in LoanIds : <<k, "RECOVERED">> \in events' <=>
        <<k, "RECOVERED">> \in events \/ (k = l /\ row.event = "RECOVERED")
  BY DEF RunTransition
<1> QED
  BY <1>1, <1>3, <1>4, <1>5, <1>6 DEF IsGuest

-----------------------------------------------------------------------------
(* Types *)

LEMMA InitType == Init => TypeOK
<1> SUFFICES ASSUME Init PROVE TypeOK
  OBVIOUS
<1>1. copy \in [Copies -> CopyRow]
  BY DEF Init, FreshCopy, CopyRow, CopyStatus
<1>2. NoLoan \in LoanRow /\ NoLoan.status = "NONE"
  BY DEF NoLoan, LoanRow, Origin
<1> QED
  BY <1>1, <1>2 DEF Init, TypeOK

\* The record a transition writes back to its copy is a copy row.
LEMMA CopyAfterType ==
  ASSUME TypeOK, NEW l \in LoanIds, NEW row \in RegisteredRows(loan[l].origin, loan[l].status),
         NEW actor, RunTransition(l, row, actor)
  PROVE  CopyAfter(l, row) \in CopyRow
<1>1. /\ ChangeKinds(loan[l].status, row)
      /\ loan[l].copy \in Copies /\ loan[l].borrower \in Users
  BY TransitionEffect
<1>2. row.copyStatus \in CopyStatus \cup {"KEEP"} /\ row.holder \in {"KEEP", "OWNER", "BORROWER"}
  BY <1>1 DEF ChangeKinds, Changes, Promises, Refuses, CallsOff, HandsOver, Returns, MarksLost,
              Recovers, Amends, CopyStatus
<1>3. copy[loan[l].copy] \in CopyRow /\ OwnerOf[loan[l].copy] \in Users
  BY <1>1 DEF TypeOK
<1> QED
  BY <1>1, <1>2, <1>3 DEF CopyAfter, CopyRow, SideOf

LEMMA RejectType ==
  ASSUME TypeOK, NEW rivals \in SUBSET LoanIds
  PROVE  Reject(rivals) \in [LoanIds -> LoanRow]
<1>1. \A l \in LoanIds : loan[l] \in LoanRow /\ "REJECTED" \in LoanStatus
  BY DEF TypeOK, LoanStatus
<1> QED
  BY <1>1 DEF Reject, LoanRow

\* Both ways to open a loan write one complete row.
WritesRow(r, l, c, b, status, origin) ==
  /\ loan' = [loan EXCEPT ![l] = r]
  /\ r \in LoanRow /\ r.status = status /\ r.origin = origin
  /\ r.copy = c /\ r.borrower = b /\ r.contact = NULL

LEMMA NewLoanRow ==
  ASSUME NEW l \in LoanIds, NEW c \in Copies, NEW b \in Users
  PROVE  /\ Request(l, c, b) => \E r : WritesRow(r, l, c, b, "REQUESTED", "REQUESTED")
         /\ RecordExisting(l, c, b) =>
              \E r : WritesRow(r, l, c, b, "PENDING_CONFIRMATION", "RECORDED_EXISTING")
<1>1. ASSUME Request(l, c, b) PROVE \E r : WritesRow(r, l, c, b, "REQUESTED", "REQUESTED")
  <2> DEFINE r == [NoLoan EXCEPT !.status = "REQUESTED", !.copy = c, !.borrower = b]
  <2>1. /\ r \in LoanRow /\ r.status = "REQUESTED" /\ r.origin = "REQUESTED"
        /\ r.copy = c /\ r.borrower = b /\ r.contact = NULL
    BY DEF NoLoan, LoanRow, LoanStatus, Origin
  <2>2. loan' = [loan EXCEPT ![l] = r]
    BY <1>1 DEF Request
  <2> QED
    BY <2>1, <2>2 DEF WritesRow
<1>2. ASSUME RecordExisting(l, c, b)
      PROVE  \E r : WritesRow(r, l, c, b, "PENDING_CONFIRMATION", "RECORDED_EXISTING")
  <2> DEFINE r == [NoLoan EXCEPT !.status = "PENDING_CONFIRMATION",
                                 !.origin = "RECORDED_EXISTING", !.copy = c, !.borrower = b]
  <2>1. /\ r \in LoanRow /\ r.status = "PENDING_CONFIRMATION" /\ r.origin = "RECORDED_EXISTING"
        /\ r.copy = c /\ r.borrower = b /\ r.contact = NULL
    BY DEF NoLoan, LoanRow, LoanStatus, Origin
  <2>2. loan' = [loan EXCEPT ![l] = r]
    BY <1>2 DEF RecordExisting
  <2> QED
    BY <2>1, <2>2 DEF WritesRow
<1> QED
  BY <1>1, <1>2

LEMMA TypeStep == TypeOK /\ [Next]_vars => TypeOK'
<1> SUFFICES ASSUME TypeOK, [Next]_vars PROVE TypeOK'
  OBVIOUS
<1>1. CASE UNCHANGED vars
  BY <1>1 DEF TypeOK, vars
<1>2. ASSUME NEW c \in Copies, AddCopy(c) \/ RemoveCopy(c) PROVE TypeOK'
  <2>1. /\ FreshCopy(c) \in CopyRow
        /\ [FreshCopy(c) EXCEPT !.listed = FALSE] \in CopyRow
    BY DEF FreshCopy, CopyRow, CopyStatus
  <2> QED
    BY <1>2, <2>1 DEF AddCopy, RemoveCopy, TypeOK
<1>3. ASSUME NEW c \in Copies, ArchiveCopy(c) PROVE TypeOK'
  <2>1. copy' \in [Copies -> CopyRow] /\ edits' = edits
    BY <1>3 DEF ArchiveCopy, TypeOK, CopyRow
  <2>2. \A l \in LoanIds :
          loan'[l] = IF l \in RequestsOn(c) THEN [loan[l] EXCEPT !.status = "REJECTED"] ELSE loan[l]
    BY <1>3 DEF ArchiveCopy, Reject
  <2>3. loan' \in [LoanIds -> LoanRow]
    BY <1>3, RejectType DEF ArchiveCopy, RequestsOn, LoansOn
  <2> QED
    BY <2>1, <2>2, <2>3 DEF TypeOK, LoanRow, RequestsOn, LoansOn
<1>4. ASSUME NEW c \in Copies, RestoreCopy(c) PROVE TypeOK'
  BY <1>4 DEF RestoreCopy, TypeOK, CopyRow
<1>5. ASSUME NEW c \in Copies, NEW s \in StatusEdits, StartStatusEdit(c, s) PROVE TypeOK'
  BY <1>5 DEF StartStatusEdit, TypeOK
<1>6. ASSUME NEW c \in Copies, NEW s \in StatusEdits, FinishStatusEdit(c, s) PROVE TypeOK'
  <2>1. s \in CopyStatus
    BY DEF CopyStatus
  <2> QED
    BY <1>6, <2>1 DEF FinishStatusEdit, TypeOK, CopyRow
<1>7. ASSUME NEW l \in LoanIds, NEW c \in Copies, NEW b \in Users,
             Request(l, c, b) \/ RecordExisting(l, c, b)
      PROVE  TypeOK'
  <2>1. b # NULL
    OBVIOUS
  <2>2. copy' \in [Copies -> CopyRow] /\ edits' = edits
    BY <1>7 DEF Request, RecordExisting, TypeOK, CopyRow, CopyStatus
  <2>3. PICK r : /\ loan' = [loan EXCEPT ![l] = r]
                 /\ r \in LoanRow /\ r.status # "NONE" /\ r.origin # "RECORDED_GUEST"
                 /\ r.copy = c /\ r.borrower = b /\ r.contact = NULL
    BY <1>7, NewLoanRow DEF WritesRow
  <2>4. loan' \in [LoanIds -> LoanRow]
    BY <2>3 DEF TypeOK
  <2>5. b # OwnerOf[c]
    BY <1>7 DEF Request, RecordExisting, NotOwn
  <2> QED
    BY <2>1, <2>2, <2>3, <2>4, <2>5 DEF TypeOK
<1>8. ASSUME NEW l \in LoanIds, PatchLoan(l) PROVE TypeOK'
  <2>1. PICK row \in RegisteredRows(loan[l].origin, loan[l].status) :
          \E actor \in row.actors : RunTransition(l, row, actor)
    BY <1>8 DEF PatchLoan
  <2>2. PICK actor \in row.actors : RunTransition(l, row, actor)
    BY <2>1
  <2>3. row.to \in LoanStatus
    <3>1. ChangeKinds(loan[l].status, row)
      BY RowKinds
    <3> QED
      BY <3>1 DEF ChangeKinds, Changes, Promises, Refuses, CallsOff, HandsOver,
         Returns, MarksLost, Recovers, Amends, LoanStatus
  <2>4. copy' \in [Copies -> CopyRow] /\ edits' = edits
    BY <2>2, CopyAfterType DEF RunTransition, TypeOK
  <2>5. loan' \in [LoanIds -> LoanRow]
    <3>1. Reject(RivalsOf(l, row)) \in [LoanIds -> LoanRow]
      BY RejectType DEF RivalsOf, RequestsOn, LoansOn
    <3> QED
      BY <2>2, <2>3, <3>1 DEF RunTransition, LoanRow
  <2>6. \A k \in LoanIds :
          /\ loan'[k].status = "NONE" <=> loan[k].status = "NONE"
          /\ loan'[k].copy = loan[k].copy /\ loan'[k].borrower = loan[k].borrower
          /\ loan'[k].origin = loan[k].origin /\ loan'[k].contact = loan[k].contact
    <3>1. /\ loan[l].status # "NONE"
          /\ \A k \in LoanIds :
               loan'[k] = IF k = l THEN [loan[l] EXCEPT !.status = row.to]
                          ELSE IF row.rejectRivals /\ k \in RequestsOn(loan[l].copy)
                          THEN [loan[k] EXCEPT !.status = "REJECTED"] ELSE loan[k]
      BY <2>2, TransitionEffect DEF LoanStatus
    <3> QED
      <4> TAKE k \in LoanIds
      <4>1. row.to # "NONE" /\ "REJECTED" # "NONE"
        BY <2>3 DEF LoanStatus
      <4>2. /\ loan[k] \in LoanRow /\ loan[l] \in LoanRow
            /\ k \in RequestsOn(loan[l].copy) => loan[k].status # "NONE"
        BY DEF TypeOK, RequestsOn, LoansOn
      <4>3. CASE loan'[k] = loan[k]
        BY <4>3
      <4>4. CASE k = l
        BY <3>1, <4>1, <4>2, <4>4 DEF LoanRow
      <4>5. CASE k \in RequestsOn(loan[l].copy) /\ loan'[k] = [loan[k] EXCEPT !.status = "REJECTED"]
        BY <4>1, <4>2, <4>5 DEF LoanRow
      <4> QED
        BY <3>1, <4>3, <4>4, <4>5
  <2> QED
    BY <2>4, <2>5, <2>6 DEF TypeOK
<1> QED
  BY <1>1, <1>2, <1>3, <1>4, <1>5, <1>6, <1>7, <1>8 DEF Next, LibraryStep, LoanStep

\* The tables hold only well-formed rows, and the two ends of a loan are never one person,
\* whatever operations of the library and the loans run and in whatever order.
THEOREM TypeCorrect == Spec => []TypeOK
<1>1. Init => TypeOK
  BY InitType
<1>2. TypeOK /\ [Next]_vars => TypeOK'
  BY TypeStep
<1> QED
  BY <1>1, <1>2, PTL DEF Spec

-----------------------------------------------------------------------------
(* The inductive invariant: what holds of every reachable state *)

\* A copy in its owner's hands is at home, and no loan has it away.
LEMMA HeldByOwner ==
  ASSUME LendingInv, NEW c \in Copies, copy[c].holder = OwnerOf[c]
  PROVE  AtHome(c) /\ \A l \in LoansOn(c) : ~Away(l)
<1>1. \A l \in LoansOn(c) : ~Away(l)
  <2> SUFFICES ASSUME NEW l \in LoansOn(c), Away(l) PROVE FALSE
    OBVIOUS
  <2>1. loan[l].borrower # OwnerOf[c] /\ loan[l].copy = c /\ l \in LoanIds
    BY DEF LoansOn, LendingInv, TypeOK
  <2>2. WithBorrower(l)
    BY <2>1 DEF LendingInv, Custody
  <2> QED
    BY <2>1, <2>2 DEF WithBorrower
<1> QED
  BY <1>1 DEF LendingInv, AwayIsAccounted

LEMMA InitInv == Init => LendingInv
<1> SUFFICES ASSUME Init PROVE LendingInv
  OBVIOUS
<1>1. TypeOK
  BY InitType
<1>2. \A l \in LoanIds : loan[l].status = "NONE" /\ events = {}
  BY DEF Init, NoLoan
<1>3. \A c \in Copies : AtHome(c) /\ copy[c].status = "AVAILABLE" /\ RequestsOn(c) = {}
  BY <1>2 DEF Init, FreshCopy, AtHome, RequestsOn, LoansOn
<1> QED
  BY <1>1, <1>2, <1>3 DEF LendingInv, OneClaim, Claims, OpenLoss, Custody, Away,
     AwayIsAccounted, NoRequestLeftBehind, RecoveredIsLost, ApprovedHasNoRivals,
     EXCLUSIVE_LOAN_STATUS

\* A copy no loan mentions may come and go.
LEMMA ShelfStep ==
  ASSUME LendingInv, NEW c \in Copies, AddCopy(c) \/ RemoveCopy(c), TypeOK'
  PROVE  LendingInv'
<1>1. /\ LoansOn(c) = {} /\ loan' = loan /\ events' = events
      /\ \A d \in Copies : d # c => copy'[d] = copy[d]
  BY DEF AddCopy, RemoveCopy, LendingInv, TypeOK
<1>2. copy'[c].status = "AVAILABLE" /\ AtHome(c)'
  BY DEF AddCopy, RemoveCopy, FreshCopy, AtHome, LendingInv, TypeOK
<1>3. \A l \in LoanIds : loan[l].status # "NONE" =>
        loan[l].copy \in Copies /\ loan[l].copy # c /\ copy'[loan[l].copy] = copy[loan[l].copy]
  BY <1>1 DEF LoansOn, LendingInv, TypeOK
<1>4. \A l \in LoanIds : Claims(l) \/ Away(l) => loan[l].status # "NONE"
  BY DEF Claims, Away, OpenLoss, EXCLUSIVE_LOAN_STATUS
<1>5. OneClaim' /\ RecoveredIsLost'
  BY <1>1 DEF LendingInv, OneClaim, Claims, OpenLoss, RecoveredIsLost
<1>6. Custody'
  <2>1. \A l \in LoanIds : loan[l].status # "NONE" =>
          /\ Away(l)' <=> Away(l)
          /\ Claims(l)' <=> Claims(l)
          /\ OpenLoss(l)' <=> OpenLoss(l)
          /\ WithBorrower(l)' <=> WithBorrower(l)
          /\ AtHome(loan[l].copy)' <=> AtHome(loan[l].copy)
    BY <1>1, <1>3 DEF Away, Claims, OpenLoss, IsGuest, WithBorrower, AtHome
  <2>2. \A l \in LoanIds : Claims(l)' \/ Away(l)' \/ OpenLoss(l)' => loan[l].status # "NONE"
    BY <1>1 DEF Claims, Away, OpenLoss, EXCLUSIVE_LOAN_STATUS
  <2>3. Custody
    BY DEF LendingInv
  <2> QED
    BY <1>1, <1>3, <2>1, <2>2, <2>3 DEF Custody, IsGuest
<1>7. AwayIsAccounted'
  BY <1>1, <1>2 DEF LendingInv, AwayIsAccounted, Away, OpenLoss, IsGuest, AtHome, LoansOn
<1>8. NoRequestLeftBehind' /\ ApprovedHasNoRivals'
  BY <1>1, <1>3 DEF LendingInv, NoRequestLeftBehind, ApprovedHasNoRivals, RequestsOn, LoansOn, OpenLoss
<1> QED
  BY <1>5, <1>6, <1>7, <1>8 DEF LendingInv

\* A step that moves no book and opens or advances no loan: at most it turns requests down
\* and edits the status of copies their owner holds.
QuietLoan(l) ==
  /\ loan'[l].copy = loan[l].copy /\ loan'[l].borrower = loan[l].borrower
  /\ loan'[l].origin = loan[l].origin /\ loan'[l].contact = loan[l].contact
  /\ loan'[l].status # loan[l].status =>
       loan[l].status = "REQUESTED" /\ loan'[l].status \in {"REJECTED", "CANCELLED"}
  /\ <<l, "RECOVERED">> \in events' <=> <<l, "RECOVERED">> \in events

QuietCopy(c) ==
  /\ copy'[c].listed = copy[c].listed
  /\ copy'[c].holder = copy[c].holder /\ copy'[c].contact = copy[c].contact
  /\ copy'[c].status # copy[c].status =>
       copy[c].holder = OwnerOf[c] /\ copy'[c].status \in {"AVAILABLE", "UNAVAILABLE"}
  /\ copy'[c].archived => copy[c].archived \/ RequestsOn(c)' = {}

Quiet == (\A l \in LoanIds : QuietLoan(l)) /\ (\A c \in Copies : QuietCopy(c))

LEMMA QuietStep == LendingInv /\ TypeOK' /\ Quiet => LendingInv'
<1> SUFFICES ASSUME LendingInv, TypeOK', Quiet PROVE LendingInv'
  OBVIOUS
<1>1. \A l \in LoanIds : /\ OpenLoss(l)' <=> OpenLoss(l)
                         /\ Claims(l)' <=> Claims(l)
                         /\ Away(l)' <=> Away(l)
                         /\ loan'[l].status = "HANDED_OVER" <=> loan[l].status = "HANDED_OVER"
                         /\ loan'[l].status = "NONE" <=> loan[l].status = "NONE"
  BY DEF Quiet, QuietLoan, Claims, Away, OpenLoss, IsGuest, EXCLUSIVE_LOAN_STATUS
<1>2. \A l \in LoanIds : loan[l].status # "NONE" => loan[l].copy \in Copies
  BY DEF LendingInv, TypeOK
<1>3. \A c \in Copies : /\ AtHome(c)' <=> AtHome(c)
                        /\ LoansOn(c)' = LoansOn(c)
                        /\ RequestsOn(c)' \subseteq RequestsOn(c)
  <2> TAKE c \in Copies
  <2>1. AtHome(c)' <=> AtHome(c)
    BY DEF Quiet, QuietCopy, AtHome
  <2>2. LoansOn(c)' = LoansOn(c)
    <3>1. \A l \in LoanIds : loan'[l].copy = loan[l].copy
      BY DEF Quiet, QuietLoan
    <3> QED
      BY <1>1, <3>1 DEF LoansOn
  <2>3. RequestsOn(c)' \subseteq RequestsOn(c)
    <3>1. \A l \in LoanIds : loan'[l].origin = loan[l].origin
                              /\ (loan'[l].status = "REQUESTED" => loan[l].status = "REQUESTED")
      BY DEF Quiet, QuietLoan
    <3> QED
      BY <2>2, <3>1 DEF RequestsOn, LoansOn
  <2> QED
    BY <2>1, <2>2, <2>3
<1>4. OneClaim' /\ RecoveredIsLost'
  <2>1. OneClaim'
    <3> SUFFICES ASSUME NEW k \in LoanIds, NEW l \in LoanIds,
                        Claims(k)', Claims(l)', loan'[k].copy = loan'[l].copy
                 PROVE  k = l
      BY DEF OneClaim
    <3> QED
      <4>1. loan'[k].copy = loan[k].copy /\ loan'[l].copy = loan[l].copy
        BY DEF Quiet, QuietLoan
      <4> QED
        BY <1>1, <4>1 DEF LendingInv, OneClaim
  <2>2. RecoveredIsLost'
    BY DEF Quiet, QuietLoan, LendingInv, RecoveredIsLost
  <2> QED
    BY <2>1, <2>2
<1>5. Custody'
  <2> SUFFICES ASSUME NEW l \in LoanIds, loan[l].status # "NONE"
               PROVE  /\ copy'[loan'[l].copy].listed
                      /\ Away(l)' => WithBorrower(l)'
                      /\ Claims(l)' /\ ~Away(l)' => AtHome(loan[l].copy)'
                      /\ loan'[l].status = "HANDED_OVER" => copy'[loan'[l].copy].status = "LENT_OUT"
                      /\ OpenLoss(l)' => copy'[loan'[l].copy].status = "UNAVAILABLE"
                      /\ loan'[l].status = "PENDING_CONFIRMATION" /\ IsGuest(l)' =>
                           copy'[loan'[l].copy].status = "RESERVED"
    BY <1>1 DEF Custody, Away, Claims, OpenLoss, EXCLUSIVE_LOAN_STATUS
  <2>1. loan[l].copy \in Copies /\ loan'[l].copy = loan[l].copy
    BY <1>2 DEF Quiet, QuietLoan
  <2>2. QuietLoan(l) /\ QuietCopy(loan[l].copy)
    BY <2>1 DEF Quiet
  <2>3. Away(l) => copy'[loan[l].copy].status = copy[loan[l].copy].status
    BY <2>1, <2>2, HeldByOwner DEF QuietCopy, LoansOn
  <2>4. Away(l) => WithBorrower(l)'
    <3>1. Away(l) => WithBorrower(l)
      BY DEF LendingInv, Custody
    <3> QED
      BY <2>1, <2>2, <3>1 DEF WithBorrower, QuietLoan, QuietCopy
  <2>5. Claims(l) /\ ~Away(l) => AtHome(loan[l].copy)'
    BY <2>1, <1>3 DEF LendingInv, Custody
  <2>6. /\ copy'[loan[l].copy].listed
        /\ loan[l].status = "HANDED_OVER" => copy'[loan[l].copy].status = "LENT_OUT"
        /\ OpenLoss(l) => copy'[loan[l].copy].status = "UNAVAILABLE"
        /\ loan[l].status = "PENDING_CONFIRMATION" /\ IsGuest(l) =>
             copy'[loan[l].copy].status = "RESERVED"
    BY <2>1, <2>3, <2>2 DEF LendingInv, Custody, QuietCopy, Away
  <2>7. loan'[l].status = "PENDING_CONFIRMATION" /\ IsGuest(l)' =>
          loan[l].status = "PENDING_CONFIRMATION" /\ IsGuest(l)
    BY <2>2 DEF QuietLoan, IsGuest
  <2> QED
    BY <1>1, <2>1, <2>4, <2>5, <2>6, <2>7
<1>6. AwayIsAccounted'
  BY <1>1, <1>3 DEF LendingInv, AwayIsAccounted, Quiet, QuietCopy, LoansOn
<1>7. NoRequestLeftBehind'
  BY <1>1, <1>3 DEF LendingInv, NoRequestLeftBehind, Quiet, QuietCopy, LoansOn
<1>8. ApprovedHasNoRivals'
  <2> SUFFICES ASSUME NEW l \in LoanIds, loan'[l].status = "APPROVED",
                      copy'[loan'[l].copy].status = "RESERVED"
               PROVE  RequestsOn(loan[l].copy)' = {}
    BY DEF ApprovedHasNoRivals
  <2>1. loan[l].status = "APPROVED" /\ loan'[l].copy = loan[l].copy /\ loan[l].copy \in Copies
    BY <1>2 DEF Quiet, QuietLoan
  <2>2. copy[loan[l].copy].status = "RESERVED"
    BY <2>1 DEF Quiet, QuietCopy
  <2> QED
    BY <1>3, <2>1, <2>2 DEF LendingInv, ApprovedHasNoRivals
<1> QED
  BY <1>4, <1>5, <1>6, <1>7, <1>8 DEF LendingInv

\* Archiving turns down the requests of a copy; edits, restoring and stuttering do less.
LEMMA ArchiveQuiet ==
  ASSUME LendingInv, NEW c \in Copies, ArchiveCopy(c) \/ RestoreCopy(c)
  PROVE  Quiet
<1>1. CASE ArchiveCopy(c)
  <2>1. /\ events' = events
        /\ \A d \in Copies : copy'[d] = IF d = c THEN [copy[c] EXCEPT !.archived = TRUE] ELSE copy[d]
        /\ \A l \in LoanIds :
             loan'[l] = IF l \in RequestsOn(c) THEN [loan[l] EXCEPT !.status = "REJECTED"] ELSE loan[l]
    BY <1>1 DEF ArchiveCopy, Reject, LendingInv, TypeOK
  <2>2. \A l \in LoanIds :
          /\ loan'[l].copy = loan[l].copy /\ loan'[l].borrower = loan[l].borrower
          /\ loan'[l].origin = loan[l].origin /\ loan'[l].contact = loan[l].contact
          /\ loan'[l].status = IF l \in RequestsOn(c) THEN "REJECTED" ELSE loan[l].status
    <3> TAKE l \in LoanIds
    <3>1. loan[l] \in LoanRow
      BY DEF LendingInv, TypeOK
    <3>2. CASE l \in RequestsOn(c)
      BY <2>1, <3>1, <3>2 DEF LoanRow
    <3>3. CASE l \notin RequestsOn(c)
      BY <2>1, <3>3
    <3> QED
      BY <3>2, <3>3
  <2>3. \A d \in Copies :
          /\ copy'[d].listed = copy[d].listed /\ copy'[d].status = copy[d].status
          /\ copy'[d].holder = copy[d].holder /\ copy'[d].contact = copy[d].contact
          /\ d # c => copy'[d].archived = copy[d].archived
    BY <2>1 DEF LendingInv, TypeOK, CopyRow
  <2>4. RequestsOn(c)' = {}
    BY <2>2 DEF RequestsOn, LoansOn
  <2> QED
    BY <2>1, <2>2, <2>3, <2>4 DEF Quiet, QuietLoan, QuietCopy, RequestsOn, LoansOn
<1>2. CASE RestoreCopy(c)
  BY <1>2 DEF RestoreCopy, Quiet, QuietLoan, QuietCopy, LendingInv, TypeOK, CopyRow
<1> QED
  BY <1>1, <1>2

LEMMA EditQuiet ==
  ASSUME LendingInv, NEW c \in Copies, NEW s \in StatusEdits,
         StartStatusEdit(c, s) \/ FinishStatusEdit(c, s)
  PROVE  Quiet
<1>1. CASE StartStatusEdit(c, s)
  BY <1>1 DEF StartStatusEdit, Quiet, QuietLoan, QuietCopy
<1>2. CASE FinishStatusEdit(c, s)
  BY <1>2 DEF FinishStatusEdit, Quiet, QuietLoan, QuietCopy, LendingInv, TypeOK, CopyRow
<1> QED
  BY <1>1, <1>2

\* What a transition leaves of its copy, field by field.
LEMMA CopyEffect ==
  ASSUME TypeOK, NEW l \in LoanIds, NEW row \in RegisteredRows(loan[l].origin, loan[l].status),
         NEW actor, RunTransition(l, row, actor)
  PROVE  LET c == loan[l].copy IN
         /\ copy'[c].listed = copy[c].listed /\ copy'[c].archived = copy[c].archived
         /\ copy'[c].status = IF row.copyStatus = "KEEP" THEN copy[c].status ELSE row.copyStatus
         /\ copy'[c].holder = IF row.holder = "KEEP" THEN copy[c].holder ELSE SideOf(l, row.holder)
         /\ copy'[c].contact = IF row.holder = "OWNER" THEN NULL ELSE copy[c].contact
<1>1. loan[l].copy \in Copies /\ copy'[loan[l].copy] = CopyAfter(l, row)
  <2>1. loan[l].copy \in Copies
    BY TransitionEffect
  <2> QED
    BY <2>1 DEF RunTransition, TypeOK
<1>2. copy[loan[l].copy] \in CopyRow
  BY <1>1 DEF TypeOK
<1> QED
  BY <1>1, <1>2 DEF CopyAfter, CopyRow

\* LendingInv, as far as it is about loan l and its copy, when no other loan claims the copy.
OwnInv(l) ==
  LET c == loan[l].copy IN
  /\ Away(l) => WithBorrower(l)
  /\ Claims(l) /\ ~Away(l) => AtHome(c)
  /\ loan[l].status = "HANDED_OVER" <=> copy[c].status = "LENT_OUT"
  /\ OpenLoss(l) => copy[c].status = "UNAVAILABLE"
  /\ ~AtHome(c) => Away(l)
  /\ RequestsOn(c) # {} =>
       /\ copy[c].listed /\ ~copy[c].archived
       /\ loan[l].status \notin {"HANDED_OVER", "APPROVED"} /\ ~OpenLoss(l)
  /\ <<l, "RECOVERED">> \in events => loan[l].status = "LOST"

\* A step that starts, moves or ends the only claim on copy c, for loan l, keeps the invariant
\* if it keeps it for l: no other loan notices, but the requests it turns down.
OneLoanMoves(l, c) ==
  /\ loan[l].status = "NONE" \/ loan[l].copy = c
  /\ copy[c].listed /\ copy'[c].listed = copy[c].listed
  /\ \A d \in Copies : d # c => copy'[d] = copy[d]
  /\ loan'[l].copy = c
  /\ \A k \in LoanIds \ {l} :
       /\ \/ loan'[k] = loan[k]
          \/ k \in RequestsOn(c) /\ loan'[k] = [loan[k] EXCEPT !.status = "REJECTED"]
       /\ <<k, "RECOVERED">> \in events' <=> <<k, "RECOVERED">> \in events

LEMMA OthersDoNotNotice ==
  ASSUME LendingInv, TypeOK', NEW l \in LoanIds, NEW c \in Copies, OneLoanMoves(l, c),
         \A k \in LoansOn(c) : Claims(k) => k = l,
         OwnInv(l)',
         loan'[l].status = "PENDING_CONFIRMATION" /\ IsGuest(l)' => copy'[c].status = "RESERVED"
  PROVE  LendingInv'
<1>1. TypeOK
  BY DEF LendingInv
<1>2. /\ c \in Copies /\ (loan[l].status = "NONE" \/ loan[l].copy = c)
      /\ \A d \in Copies : d # c => copy'[d] = copy[d]
      /\ copy'[c].listed = copy[c].listed
  BY DEF OneLoanMoves
<1>3. /\ loan'[l].copy = c
      /\ \A k \in LoanIds \ {l} :
           \/ loan'[k] = loan[k]
           \/ k \in RequestsOn(c) /\ loan'[k] = [loan[k] EXCEPT !.status = "REJECTED"]
  BY DEF OneLoanMoves
<1>4. \A k \in LoanIds \ {l} :
        /\ loan'[k].copy = loan[k].copy /\ loan'[k].borrower = loan[k].borrower
        /\ loan'[k].origin = loan[k].origin /\ loan'[k].contact = loan[k].contact
        /\ loan'[k].status # loan[k].status => loan[k].status = "REQUESTED" /\ loan'[k].status = "REJECTED"
        /\ <<k, "RECOVERED">> \in events' <=> <<k, "RECOVERED">> \in events
  <2> TAKE k \in LoanIds \ {l}
  <2>1. <<k, "RECOVERED">> \in events' <=> <<k, "RECOVERED">> \in events
    BY DEF OneLoanMoves
  <2>2. CASE loan'[k] = loan[k]
    BY <2>1, <2>2
  <2>3. CASE k \in RequestsOn(c) /\ loan'[k] = [loan[k] EXCEPT !.status = "REJECTED"]
    <3>1. loan[k] \in LoanRow /\ loan[k].status = "REQUESTED"
      BY <1>1, <2>3 DEF TypeOK, RequestsOn
    <3> QED
      BY <2>1, <2>3, <3>1 DEF LoanRow
  <2> QED
    BY <1>3, <2>2, <2>3
<1>5. \A k \in LoanIds \ {l} :
        /\ Claims(k)' <=> Claims(k)
        /\ Away(k)' <=> Away(k)
        /\ OpenLoss(k)' <=> OpenLoss(k)
        /\ loan'[k].status = "HANDED_OVER" <=> loan[k].status = "HANDED_OVER"
        /\ loan'[k].status = "NONE" <=> loan[k].status = "NONE"
  BY <1>4 DEF Claims, Away, OpenLoss, IsGuest, EXCLUSIVE_LOAN_STATUS
<1>6. \A k \in LoanIds \ {l} : Claims(k) \/ Away(k) =>
        /\ loan[k].copy \in Copies /\ loan[k].copy # c
        /\ loan[k].status # "NONE" /\ copy'[loan[k].copy] = copy[loan[k].copy]
  <2> TAKE k \in LoanIds \ {l}
  <2>1. Away(k) => Claims(k)
    BY DEF Claims, Away, EXCLUSIVE_LOAN_STATUS
  <2>2. Claims(k) => loan[k].status # "NONE"
    BY DEF Claims, OpenLoss, EXCLUSIVE_LOAN_STATUS
  <2>3. Claims(k) => loan[k].copy # c
    BY <2>2 DEF LoansOn
  <2> QED
    BY <1>1, <1>2, <2>1, <2>2, <2>3 DEF TypeOK
<1>7. OneClaim'
  <2> SUFFICES ASSUME NEW j \in LoanIds, NEW k \in LoanIds,
                      Claims(j)', Claims(k)', loan'[j].copy = loan'[k].copy
               PROVE  j = k
    BY DEF OneClaim
  <2>1. j # l => Claims(j) /\ loan[j].copy # c /\ loan'[j].copy = loan[j].copy
    BY <1>4, <1>5, <1>6
  <2>2. k # l => Claims(k) /\ loan[k].copy # c /\ loan'[k].copy = loan[k].copy
    BY <1>4, <1>5, <1>6
  <2> QED
    BY <1>3, <2>1, <2>2 DEF LendingInv, OneClaim
<1>8. RecoveredIsLost'
  BY <1>4 DEF OwnInv, LendingInv, RecoveredIsLost
<1>9. \A d \in Copies : RequestsOn(d)' \subseteq RequestsOn(d) \cup {l}
  BY <1>4, <1>5 DEF RequestsOn, LoansOn
<1>10. \A d \in Copies \ {c} : RequestsOn(d)' \subseteq RequestsOn(d)
  BY <1>3, <1>9 DEF RequestsOn, LoansOn
<1>11. Custody'
  <2> SUFFICES ASSUME NEW k \in LoanIds
               PROVE  /\ loan'[k].status # "NONE" => copy'[loan'[k].copy].listed
                      /\ Away(k)' => WithBorrower(k)'
                      /\ Claims(k)' /\ ~Away(k)' => AtHome(loan[k].copy)'
                      /\ loan'[k].status = "HANDED_OVER" => copy'[loan'[k].copy].status = "LENT_OUT"
                      /\ OpenLoss(k)' => copy'[loan'[k].copy].status = "UNAVAILABLE"
                      /\ loan'[k].status = "PENDING_CONFIRMATION" /\ IsGuest(k)' =>
                           copy'[loan'[k].copy].status = "RESERVED"
    BY DEF Custody
  <2>1. CASE k = l
    <3>1. copy[c].listed
      BY DEF OneLoanMoves
    <3> QED
      BY <1>2, <1>3, <2>1, <3>1 DEF OwnInv
  <2>2. CASE k # l
    <3>1. loan[k].status # "NONE" => loan[k].copy \in Copies /\ copy[loan[k].copy].listed
      BY DEF LendingInv, Custody, TypeOK
    <3>2. loan'[k].status # "NONE" => copy'[loan'[k].copy].listed
      <4>1. loan'[k].copy = loan[k].copy /\ (loan'[k].status # "NONE" => loan[k].status # "NONE")
        BY <1>4, <1>5, <2>2
      <4>2. \A d \in Copies : copy'[d].listed = copy[d].listed
        BY <1>2
      <4> QED
        BY <3>1, <4>1, <4>2
    <3>3. loan'[k].copy = loan[k].copy /\ loan'[k].borrower = loan[k].borrower
          /\ loan'[k].contact = loan[k].contact
      BY <1>4, <2>2
    <3>4. Claims(k) \/ Away(k) => copy'[loan[k].copy] = copy[loan[k].copy]
      BY <1>6, <2>2
    <3>5. Away(k)' => WithBorrower(k)'
      <4>1. Away(k) => WithBorrower(k)
        BY DEF LendingInv, Custody
      <4> QED
        BY <1>5, <2>2, <3>3, <3>4, <4>1 DEF WithBorrower
    <3>6. Claims(k)' /\ ~Away(k)' => AtHome(loan[k].copy)'
      <4>1. Claims(k) /\ ~Away(k) => AtHome(loan[k].copy)
        BY DEF LendingInv, Custody
      <4> QED
        BY <1>5, <2>2, <3>3, <3>4, <4>1 DEF AtHome
    <3>7. /\ loan[k].status = "HANDED_OVER" => copy[loan[k].copy].status = "LENT_OUT"
          /\ OpenLoss(k) => copy[loan[k].copy].status = "UNAVAILABLE"
          /\ loan[k].status = "PENDING_CONFIRMATION" /\ IsGuest(k) =>
               copy[loan[k].copy].status = "RESERVED"
      BY DEF LendingInv, Custody
    <3>8. /\ loan'[k].status = "HANDED_OVER" => Away(k)
          /\ OpenLoss(k)' => Away(k)
          /\ loan'[k].status = "PENDING_CONFIRMATION" /\ IsGuest(k)' =>
               loan[k].status = "PENDING_CONFIRMATION" /\ IsGuest(k) /\ Away(k)
      BY <1>4, <1>5, <2>2 DEF Away, IsGuest
    <3>9. /\ loan'[k].status = "HANDED_OVER" => copy'[loan'[k].copy].status = "LENT_OUT"
          /\ OpenLoss(k)' => copy'[loan'[k].copy].status = "UNAVAILABLE"
          /\ loan'[k].status = "PENDING_CONFIRMATION" /\ IsGuest(k)' =>
               copy'[loan'[k].copy].status = "RESERVED"
      BY <1>5, <2>2, <3>3, <3>4, <3>7, <3>8
    <3> QED
      BY <3>2, <3>5, <3>6, <3>9
  <2> QED
    BY <2>1, <2>2
<1>12. AwayIsAccounted'
  <2> SUFFICES ASSUME NEW d \in Copies
               PROVE  /\ copy'[d].status = "LENT_OUT" =>
                           \E k \in LoansOn(d)' : loan'[k].status = "HANDED_OVER"
                      /\ ~AtHome(d)' => \E k \in LoansOn(d)' : Away(k)'
    BY DEF AwayIsAccounted
  <2>1. CASE d = c
    <3>1. /\ copy'[d].status = "LENT_OUT" => loan'[l].status = "HANDED_OVER"
          /\ ~AtHome(d)' => Away(l)'
      BY <1>3, <2>1 DEF OwnInv
    <3>2. loan'[l].status = "HANDED_OVER" \/ Away(l)' => l \in LoansOn(d)'
      BY <1>3, <2>1 DEF LoansOn, Away, OpenLoss
    <3> QED
      BY <3>1, <3>2
  <2>2. CASE d # c
    <3>1. \A k \in LoansOn(d) : k \in LoanIds \ {l}
      BY <1>2, <2>2 DEF LoansOn
    <3>2. \A k \in LoansOn(d) : /\ k \in LoansOn(d)'
                                /\ Away(k)' <=> Away(k)
                                /\ loan'[k].status = "HANDED_OVER" <=> loan[k].status = "HANDED_OVER"
      BY <1>4, <1>5, <3>1 DEF LoansOn
    <3>3. copy'[d] = copy[d] /\ (AtHome(d)' <=> AtHome(d))
      BY <1>2, <2>2 DEF AtHome
    <3> QED
      BY <3>2, <3>3 DEF LendingInv, AwayIsAccounted
  <2> QED
    BY <2>1, <2>2
<1>13. NoRequestLeftBehind'
  <2> SUFFICES ASSUME NEW d \in Copies, RequestsOn(d)' # {}
               PROVE  /\ copy'[d].listed /\ ~copy'[d].archived
                      /\ \A k \in LoansOn(d)' : loan'[k].status # "HANDED_OVER" /\ ~OpenLoss(k)'
    BY DEF NoRequestLeftBehind
  <2>1. CASE d = c
    <3>1. /\ copy'[d].listed /\ ~copy'[d].archived
          /\ loan'[l].status # "HANDED_OVER" /\ ~OpenLoss(l)'
      BY <1>3, <2>1 DEF OwnInv
    <3>2. ASSUME NEW k \in LoansOn(d)', k # l
          PROVE  loan'[k].status # "HANDED_OVER" /\ ~OpenLoss(k)'
      <4>1. k \in LoanIds \ {l} /\ loan[k].copy = c
        BY <1>4, <2>1, <3>2 DEF LoansOn
      <4>2. loan[k].status # "HANDED_OVER" /\ ~OpenLoss(k)
        BY <1>6, <4>1 DEF Claims, EXCLUSIVE_LOAN_STATUS
      <4> QED
        BY <1>5, <4>1, <4>2
    <3> QED
      BY <3>1, <3>2
  <2>2. CASE d # c
    <3>1. RequestsOn(d) # {} /\ copy'[d] = copy[d]
      BY <1>2, <1>10, <2>2
    <3>2. /\ copy[d].listed /\ ~copy[d].archived
          /\ \A k \in LoansOn(d) : loan[k].status # "HANDED_OVER" /\ ~OpenLoss(k)
      BY <3>1 DEF LendingInv, NoRequestLeftBehind
    <3>3. \A k \in LoansOn(d)' : k \in LoansOn(d) /\ k \in LoanIds \ {l}
      BY <1>3, <1>4, <1>5, <2>2 DEF LoansOn
    <3> QED
      BY <1>5, <3>1, <3>2, <3>3
  <2> QED
    BY <2>1, <2>2
<1>14. ApprovedHasNoRivals'
  <2> SUFFICES ASSUME NEW k \in LoanIds, loan'[k].status = "APPROVED",
                      copy'[loan'[k].copy].status = "RESERVED"
               PROVE  RequestsOn(loan[k].copy)' = {}
    BY DEF ApprovedHasNoRivals
  <2>1. CASE k = l
    BY <2>1 DEF OwnInv
  <2>2. CASE k # l
    <3>1. loan[k].status = "APPROVED" /\ loan'[k].copy = loan[k].copy
      BY <1>4, <2>2
    <3>2. /\ loan[k].copy \in Copies /\ loan[k].copy # c
          /\ copy'[loan[k].copy] = copy[loan[k].copy]
      BY <1>6, <2>2, <3>1 DEF Claims, EXCLUSIVE_LOAN_STATUS
    <3>3. RequestsOn(loan[k].copy) = {}
      BY <3>1, <3>2 DEF LendingInv, ApprovedHasNoRivals
    <3> QED
      BY <1>10, <3>1, <3>2, <3>3
  <2> QED
    BY <2>1, <2>2
<1> QED
  BY <1>7, <1>8, <1>11, <1>12, <1>13, <1>14 DEF LendingInv

\* A transition of the table is such a step.
LEMMA MoveStep ==
  ASSUME LendingInv, TypeOK', NEW l \in LoanIds,
         NEW row \in RegisteredRows(loan[l].origin, loan[l].status),
         NEW actor, RunTransition(l, row, actor),
         \A k \in LoansOn(loan[l].copy) : Claims(k) => k = l,
         OwnInv(l)'
  PROVE  LendingInv'
<1> DEFINE c == loan[l].copy
<1>1. TypeOK
  BY DEF LendingInv
<1>2. /\ c \in Copies /\ loan[l].status \in LoanStatus /\ ~IsGuest(l)
      /\ \A d \in Copies : d # c => copy'[d] = copy[d]
      /\ copy'[c].listed = copy[c].listed
  <2>1. c \in Copies /\ loan[l].status \in LoanStatus /\ ~IsGuest(l)
    BY <1>1, TransitionEffect
  <2>2. \A d \in Copies : d # c => copy'[d] = copy[d]
    BY <1>1 DEF RunTransition, TypeOK
  <2>3. copy'[c].listed = copy[c].listed
    BY <1>1, CopyEffect
  <2> QED
    BY <2>1, <2>2, <2>3
<1>3. /\ loan'[l].copy = c /\ loan'[l].origin = loan[l].origin
      /\ \A k \in LoanIds \ {l} :
           \/ loan'[k] = loan[k]
           \/ k \in RequestsOn(c) /\ loan'[k] = [loan[k] EXCEPT !.status = "REJECTED"]
  <2>1. loan[l] \in LoanRow /\ loan'[l] = [loan[l] EXCEPT !.status = row.to]
    BY <1>1, TransitionEffect DEF TypeOK
  <2> QED
    BY <1>1, <2>1, TransitionEffect DEF LoanRow
<1>4. \A k \in LoanIds \ {l} : <<k, "RECOVERED">> \in events' <=> <<k, "RECOVERED">> \in events
  BY <1>1, TransitionEffect
<1>5. copy[c].listed
  BY <1>2 DEF LendingInv, Custody, LoanStatus
<1>6. OneLoanMoves(l, c)
  BY <1>2, <1>3, <1>4, <1>5 DEF OneLoanMoves
<1>7. ~IsGuest(l)'
  BY <1>2, <1>3 DEF IsGuest
<1> QED
  BY <1>2, <1>6, <1>7, OthersDoNotNotice

\* The six kinds of transition that take, move or end a claim on the copy.
Moves(from, row) ==
  \/ Promises(from, row) \/ CallsOff(from, row) \/ HandsOver(from, row)
  \/ Returns(from, row) \/ MarksLost(from, row) \/ Recovers(from, row)

\* Nobody else claims the copy such a transition is about.
LEMMA MoverIsAlone ==
  ASSUME LendingInv, NEW l \in LoanIds,
         NEW row \in RegisteredRows(loan[l].origin, loan[l].status),
         NEW actor, RunTransition(l, row, actor), Moves(loan[l].status, row)
  PROVE  \A k \in LoansOn(loan[l].copy) : Claims(k) => k = l
<1> SUFFICES ASSUME NEW k \in LoansOn(loan[l].copy), Claims(k) PROVE k = l
  OBVIOUS
<1>1. k \in LoanIds /\ loan[k].copy = loan[l].copy
  BY DEF LoansOn
<1>2. CASE Promises(loan[l].status, row)
  <2>1. copy[loan[l].copy].status = "AVAILABLE" /\ IndexAccepts(l, loan[l].copy)
    BY <1>2 DEF Promises, Changes, RunTransition, CopyReady, EXCLUSIVE_LOAN_STATUS
  <2>2. ~OpenLoss(k)
    BY <1>1, <2>1 DEF LendingInv, Custody
  <2> QED
    BY <2>1, <2>2 DEF Claims, IndexAccepts, ExclusiveOn
<1>3. CASE ~Promises(loan[l].status, row)
  <2>1. Claims(l)
    BY <1>3 DEF Moves, CallsOff, HandsOver, Returns, MarksLost, Recovers, RunTransition,
               Recoverable, Claims, OpenLoss, EXCLUSIVE_LOAN_STATUS
  <2> QED
    BY <1>1, <2>1 DEF LendingInv, OneClaim
<1> QED
  BY <1>2, <1>3

\* ... and it leaves its own loan and copy in agreement.
LEMMA MoverAgrees ==
  ASSUME LendingInv, TypeOK', NEW l \in LoanIds,
         NEW row \in RegisteredRows(loan[l].origin, loan[l].status),
         NEW actor, RunTransition(l, row, actor), Moves(loan[l].status, row)
  PROVE  OwnInv(l)'
<1> DEFINE c == loan[l].copy
<1>1. TypeOK
  BY DEF LendingInv
<1>2. /\ c \in Copies /\ ~IsGuest(l)
      /\ loan[l].borrower \in Users /\ loan[l].borrower # OwnerOf[c] /\ loan[l].contact = NULL
      /\ loan[l].status # "NONE"
  BY <1>1, TransitionEffect DEF TypeOK, LoanStatus
<1>3. /\ loan'[l].copy = c /\ loan'[l].status = row.to /\ loan'[l].origin = loan[l].origin
      /\ loan'[l].borrower = loan[l].borrower /\ loan'[l].contact = NULL
  <2>1. loan[l] \in LoanRow /\ loan'[l] = [loan[l] EXCEPT !.status = row.to]
    BY <1>1, TransitionEffect DEF TypeOK
  <2> QED
    BY <1>2, <2>1 DEF LoanRow
<1>4. /\ copy'[c].listed = copy[c].listed /\ copy'[c].archived = copy[c].archived
      /\ copy'[c].status = IF row.copyStatus = "KEEP" THEN copy[c].status ELSE row.copyStatus
      /\ copy'[c].holder = IF row.holder = "KEEP" THEN copy[c].holder ELSE SideOf(l, row.holder)
      /\ copy'[c].contact = IF row.holder = "OWNER" THEN NULL ELSE copy[c].contact
  BY <1>1, CopyEffect
<1>5. <<l, "RECOVERED">> \in events' <=> <<l, "RECOVERED">> \in events \/ row.event = "RECOVERED"
  BY <1>1, TransitionEffect
<1>6. ~IsGuest(l)' /\ (<<l, "RECOVERED">> \in events => loan[l].status = "LOST")
  BY <1>2, <1>3 DEF IsGuest, LendingInv, RecoveredIsLost
<1>7. row.to # "REQUESTED" => RequestsOn(c)' \subseteq IF row.rejectRivals THEN {} ELSE RequestsOn(c)
  <2> SUFFICES ASSUME row.to # "REQUESTED", NEW k \in RequestsOn(c)'
               PROVE  ~row.rejectRivals /\ k \in RequestsOn(c)
    OBVIOUS
  <2>1. k \in LoanIds /\ loan'[k].status = "REQUESTED" /\ loan'[k].origin = "REQUESTED" /\ loan'[k].copy = c
    BY <1>3 DEF RequestsOn, LoansOn
  <2>2. k # l
    BY <1>3, <2>1
  <2>3. loan'[k] = IF row.rejectRivals /\ k \in RequestsOn(c)
                   THEN [loan[k] EXCEPT !.status = "REJECTED"] ELSE loan[k]
    BY <1>1, <2>1, <2>2, TransitionEffect
  <2>4. loan[k] \in LoanRow
    BY <1>1, <2>1 DEF TypeOK
  <2>5. ~(row.rejectRivals /\ k \in RequestsOn(c))
    BY <2>1, <2>3, <2>4 DEF LoanRow
  <2>6. loan'[k] = loan[k]
    BY <2>3, <2>5
  <2> QED
    BY <2>1, <2>5, <2>6 DEF RequestsOn, LoansOn
<1>8. RequestsOn(c) # {} => copy[c].listed /\ ~copy[c].archived
  BY <1>2 DEF LendingInv, NoRequestLeftBehind
<1>9. l \in LoansOn(c) /\ l \in LoanIds
  BY <1>2 DEF LoansOn
<1>11. CASE Promises(loan[l].status, row)
  <2>1. row.to = "APPROVED" /\ row.copyStatus = "RESERVED" /\ row.holder = "KEEP" /\ row.rejectRivals
        /\ row.event # "RECOVERED" /\ loan[l].status = "REQUESTED"
    BY <1>11 DEF Promises, Changes
  <2>2. copy[c].holder = OwnerOf[c]
    BY <1>11 DEF Promises, Changes, RunTransition, CopyReady, SideOf
  <2>3. copy'[c].status = "RESERVED" /\ copy'[c].holder = OwnerOf[c] /\ copy'[c].contact = NULL
    BY <1>2, <1>4, <2>1, <2>2, HeldByOwner DEF AtHome
  <2> QED
    BY <1>3, <1>5, <1>6, <1>7, <2>1, <2>3
       DEF OwnInv, Away, Claims, OpenLoss, AtHome
<1>12. CASE CallsOff(loan[l].status, row)
  <2>1. /\ row.to \in {"CANCELLED", "DECLINED"} /\ row.copyStatus = "AVAILABLE"
        /\ row.holder = "KEEP" /\ row.event # "RECOVERED"
        /\ loan[l].status \in {"APPROVED", "PENDING_CONFIRMATION"}
    BY <1>12 DEF CallsOff, Changes
  <2>2. AtHome(c)
    BY <1>2, <2>1 DEF LendingInv, Custody, Claims, Away, OpenLoss, EXCLUSIVE_LOAN_STATUS
  <2>3. copy'[c].status = "AVAILABLE" /\ AtHome(c)'
    BY <1>4, <1>3, <2>1, <2>2 DEF AtHome
  <2> QED
    BY <1>3, <1>4, <1>5, <1>6, <1>7, <1>8, <2>1, <2>3
       DEF OwnInv, Away, Claims, OpenLoss, EXCLUSIVE_LOAN_STATUS
<1>13. CASE HandsOver(loan[l].status, row)
  <2>1. /\ row.to = "HANDED_OVER" /\ row.copyStatus = "LENT_OUT" /\ row.holder = "BORROWER"
        /\ row.event # "RECOVERED" /\ loan[l].status \in {"APPROVED", "PENDING_CONFIRMATION"}
        /\ loan[l].status = "PENDING_CONFIRMATION" => row.rejectRivals
    BY <1>13 DEF HandsOver, Changes
  <2>2. AtHome(c)
    BY <1>2, <2>1 DEF LendingInv, Custody, Claims, Away, OpenLoss, EXCLUSIVE_LOAN_STATUS
  <2>3. copy'[c].status = "LENT_OUT" /\ WithBorrower(l)'
    BY <1>3, <1>4, <2>1, <2>2 DEF AtHome, WithBorrower, SideOf
  <2>4. RequestsOn(c)' = {}
    <3>1. copy[c].status = "RESERVED"
      BY <1>13 DEF HandsOver, Changes, RunTransition, CopyReady
    <3>2. loan[l].status = "APPROVED" => RequestsOn(c) = {}
      BY <3>1 DEF LendingInv, ApprovedHasNoRivals
    <3> QED
      BY <1>7, <2>1, <3>2
  <2> QED
    BY <1>3, <1>5, <1>6, <2>1, <2>3, <2>4
       DEF OwnInv, Away, Claims, OpenLoss
<1>14. CASE Returns(loan[l].status, row)
  <2>1. /\ row.to = "RETURNED" /\ row.copyStatus = "AVAILABLE" /\ row.holder = "OWNER"
        /\ row.event # "RECOVERED" /\ loan[l].status = "HANDED_OVER"
    BY <1>14 DEF Returns, Changes
  <2>2. copy'[c].status = "AVAILABLE" /\ AtHome(c)'
    BY <1>3, <1>4, <2>1 DEF AtHome, SideOf
  <2> QED
    BY <1>3, <1>4, <1>5, <1>6, <1>7, <1>8, <2>1, <2>2
       DEF OwnInv, Away, Claims, OpenLoss, EXCLUSIVE_LOAN_STATUS
<1>15. CASE MarksLost(loan[l].status, row)
  <2>1. /\ row.to = "LOST" /\ row.copyStatus = "UNAVAILABLE" /\ row.holder = "KEEP"
        /\ row.event # "RECOVERED" /\ loan[l].status = "HANDED_OVER" /\ ~row.rejectRivals
    BY <1>15 DEF MarksLost, Changes
  <2>2. WithBorrower(l)
    BY <2>1 DEF LendingInv, Custody, Away
  <2>3. copy'[c].status = "UNAVAILABLE" /\ WithBorrower(l)'
    BY <1>2, <1>3, <1>4, <2>1, <2>2 DEF WithBorrower
  <2>4. RequestsOn(c)' = {}
    <3>1. RequestsOn(c) = {}
      BY <1>2, <1>9, <2>1 DEF LendingInv, NoRequestLeftBehind
    <3> QED
      BY <1>7, <2>1, <3>1
  <2> QED
    BY <1>3, <1>5, <1>6, <2>1, <2>3, <2>4
       DEF OwnInv, Away, Claims, OpenLoss
<1>16. CASE Recovers(loan[l].status, row)
  <2>1. /\ row.to = "LOST" /\ row.copyStatus = "AVAILABLE" /\ row.holder = "OWNER"
        /\ row.event = "RECOVERED"
    BY <1>16 DEF Recovers, Changes
  <2>2. copy'[c].status = "AVAILABLE" /\ AtHome(c)'
    BY <1>3, <1>4, <2>1 DEF AtHome, SideOf
  <2> QED
    BY <1>3, <1>4, <1>5, <1>6, <1>7, <1>8, <2>1, <2>2
       DEF OwnInv, Away, Claims, OpenLoss, EXCLUSIVE_LOAN_STATUS
<1> QED
  BY <1>11, <1>12, <1>13, <1>14, <1>15, <1>16 DEF Moves

\* PATCH /loans/:id as a whole: two kinds of row move nothing, the others move alone.
LEMMA PatchStep ==
  ASSUME LendingInv, TypeOK', NEW l \in LoanIds, PatchLoan(l)
  PROVE  LendingInv'
<1>1. PICK row \in RegisteredRows(loan[l].origin, loan[l].status) :
        \E actor \in row.actors : RunTransition(l, row, actor)
  BY DEF PatchLoan
<1>2. PICK actor \in row.actors : RunTransition(l, row, actor)
  BY <1>1
<1>3. TypeOK
  BY DEF LendingInv
<1>4. CASE Moves(loan[l].status, row)
  BY <1>2, <1>4, MoverIsAlone, MoverAgrees, MoveStep
<1>5. CASE Refuses(loan[l].status, row) \/ Amends(loan[l].status, row)
  <2>1. /\ row.copyStatus = "KEEP" /\ row.holder = "KEEP" /\ ~row.rejectRivals
        /\ row.event # "RECOVERED"
        /\ \/ loan[l].status = "REQUESTED" /\ row.to \in {"REJECTED", "CANCELLED"}
           \/ row.to = loan[l].status
    BY <1>5 DEF Refuses, Amends, Changes
  <2>2. ASSUME NEW k \in LoanIds PROVE QuietLoan(k)
    <3>1. loan'[k] = IF k = l THEN [loan[l] EXCEPT !.status = row.to] ELSE loan[k]
      <4>1. loan'[k] = IF k = l THEN [loan[l] EXCEPT !.status = row.to]
                       ELSE IF row.rejectRivals /\ k \in RequestsOn(loan[l].copy)
                       THEN [loan[k] EXCEPT !.status = "REJECTED"] ELSE loan[k]
        BY <1>2, <1>3, TransitionEffect
      <4> QED
        BY <2>1, <4>1
    <3>2. <<k, "RECOVERED">> \in events' <=> <<k, "RECOVERED">> \in events
      BY <1>2, <1>3, <2>1, TransitionEffect
    <3>3. loan[k] \in LoanRow
      BY <1>3 DEF TypeOK
    <3>4. CASE k = l
      BY <2>1, <3>1, <3>2, <3>3, <3>4 DEF QuietLoan, LoanRow
    <3>5. CASE k # l
      BY <3>1, <3>2, <3>5 DEF QuietLoan
    <3> QED
      BY <3>4, <3>5
  <2>3. ASSUME NEW c \in Copies PROVE QuietCopy(c)
    <3>1. CASE c = loan[l].copy
      <4>1. /\ copy'[c].listed = copy[c].listed /\ copy'[c].archived = copy[c].archived
            /\ copy'[c].status = copy[c].status
            /\ copy'[c].holder = copy[c].holder /\ copy'[c].contact = copy[c].contact
        BY <1>2, <1>3, <2>1, <3>1, CopyEffect
      <4> QED
        BY <4>1 DEF QuietCopy
    <3>2. CASE c # loan[l].copy
      <4>1. copy'[c] = copy[c]
        BY <1>2, <1>3, <3>2 DEF RunTransition, TypeOK
      <4> QED
        BY <4>1 DEF QuietCopy
    <3> QED
      BY <3>1, <3>2
  <2> QED
    BY <2>2, <2>3, QuietStep DEF Quiet
<1> QED
  BY <1>2, <1>4, <1>5, RowKinds DEF ChangeKinds, Moves

\* A new loan: a request claims nothing, a record takes a copy that nobody claims.
LEMMA OpenStep ==
  ASSUME LendingInv, TypeOK', NEW l \in LoanIds, NEW c \in Copies, NEW b \in Users,
         Request(l, c, b) \/ RecordExisting(l, c, b)
  PROVE  LendingInv'
<1>1. TypeOK
  BY DEF LendingInv
<1>2. /\ loan[l].status = "NONE" /\ copy[c].listed /\ ~copy[c].archived
      /\ copy[c].status = "AVAILABLE" /\ copy[c].holder = OwnerOf[c]
  BY DEF Request, RecordExisting, Requestable, Lendable, AtHome
<1>3. AtHome(c) /\ \A k \in LoansOn(c) : ~Away(k)
  BY <1>2, HeldByOwner
<1>4. PICK r : /\ loan' = [loan EXCEPT ![l] = r]
               /\ r.copy = c /\ r.origin # "RECORDED_GUEST"
               /\ r.status \in {"REQUESTED", "PENDING_CONFIRMATION"}
               /\ RecordExisting(l, c, b) \/ r.status = "REQUESTED"
  BY NewLoanRow DEF WritesRow
<1>5. loan'[l] = r /\ \A k \in LoanIds : k # l => loan'[k] = loan[k]
  BY <1>1, <1>4 DEF TypeOK
<1>6. \A k \in LoanIds : <<k, "RECOVERED">> \in events' <=> <<k, "RECOVERED">> \in events
  BY DEF Request, RecordExisting
<1>7. \A d \in Copies :
        /\ copy'[d].listed = copy[d].listed /\ copy'[d].archived = copy[d].archived
        /\ copy'[d].holder = copy[d].holder /\ copy'[d].contact = copy[d].contact
        /\ copy'[d].status = IF d = c /\ copy' # copy THEN "RESERVED" ELSE copy[d].status
  BY <1>1 DEF Request, RecordExisting, TypeOK, CopyRow
<1>8. \A k \in LoanIds : k # l =>
        /\ Claims(k)' <=> Claims(k)
        /\ Away(k)' <=> Away(k)
        /\ OpenLoss(k)' <=> OpenLoss(k)
  BY <1>5, <1>6 DEF Claims, Away, OpenLoss, IsGuest
<1>9. /\ ~Away(l)' /\ ~OpenLoss(l)' /\ ~IsGuest(l)' /\ loan'[l].copy = c
      /\ <<l, "RECOVERED">> \notin events
  BY <1>2, <1>4, <1>5 DEF Away, OpenLoss, IsGuest, LendingInv, RecoveredIsLost
<1>10. RecordExisting(l, c, b) => \A k \in LoansOn(c) : ~Claims(k)
  <2> SUFFICES ASSUME RecordExisting(l, c, b), NEW k \in LoansOn(c), Claims(k) PROVE FALSE
    OBVIOUS
  <2>1. k # l /\ k \in LoanIds /\ loan[k].copy = c
    BY <1>2 DEF LoansOn
  <2>2. loan[k].status \notin EXCLUSIVE_LOAN_STATUS
    BY <2>1 DEF RecordExisting, IndexAccepts, ExclusiveOn
  <2>3. ~OpenLoss(k)
    BY <1>2, <2>1 DEF LendingInv, Custody
  <2> QED
    BY <2>2, <2>3 DEF Claims
<1>11. Claims(l)' => RecordExisting(l, c, b)
  BY <1>4, <1>5, <1>9 DEF Claims, EXCLUSIVE_LOAN_STATUS
<1>12. \A k \in LoanIds : k # l /\ Claims(k) /\ loan[k].copy = c => k \in LoansOn(c)
  BY DEF LoansOn, Claims, OpenLoss, EXCLUSIVE_LOAN_STATUS
<1>13. OneClaim'
  <2> SUFFICES ASSUME NEW j \in LoanIds, NEW k \in LoanIds,
                      Claims(j)', Claims(k)', loan'[j].copy = loan'[k].copy
               PROVE  j = k
    BY DEF OneClaim
  <2>1. CASE j # l /\ k # l
    BY <1>5, <1>8, <2>1 DEF LendingInv, OneClaim
  <2>2. ASSUME NEW i \in {j, k}, i # l, Claims(l)', loan'[i].copy = c PROVE FALSE
    BY <1>5, <1>8, <1>10, <1>11, <1>12, <2>2
  <2> QED
    BY <1>9, <2>1, <2>2
<1>14. Custody'
  <2> SUFFICES ASSUME NEW k \in LoanIds
               PROVE  /\ loan'[k].status # "NONE" => copy'[loan'[k].copy].listed
                      /\ Away(k)' => WithBorrower(k)'
                      /\ Claims(k)' /\ ~Away(k)' => AtHome(loan[k].copy)'
                      /\ loan'[k].status = "HANDED_OVER" => copy'[loan'[k].copy].status = "LENT_OUT"
                      /\ OpenLoss(k)' => copy'[loan'[k].copy].status = "UNAVAILABLE"
                      /\ loan'[k].status = "PENDING_CONFIRMATION" /\ IsGuest(k)' =>
                           copy'[loan'[k].copy].status = "RESERVED"
    BY DEF Custody
  <2>1. CASE k = l
    <3>1. copy'[c].listed /\ AtHome(c)'
      BY <1>2, <1>3, <1>7 DEF AtHome
    <3> QED
      BY <1>4, <1>5, <1>9, <2>1, <3>1 DEF AtHome
  <2>2. CASE k # l
    <3>1. loan'[k] = loan[k] /\ (loan[k].status # "NONE" => loan[k].copy \in Copies)
      BY <1>1, <1>5, <2>2 DEF TypeOK
    <3>2. Claims(k) \/ Away(k) => loan[k].status # "NONE"
      BY DEF Claims, Away, OpenLoss, EXCLUSIVE_LOAN_STATUS
    <3>3. Away(k) => WithBorrower(k) /\ copy'[loan[k].copy].status = copy[loan[k].copy].status
      <4>1. Away(k) => loan[k].copy # c
        BY <1>3, <3>2 DEF LoansOn
      <4> QED
        BY <1>7, <3>1, <3>2, <4>1 DEF LendingInv, Custody
    <3>4. Away(k) => WithBorrower(k)'
      BY <1>7, <3>1, <3>2, <3>3 DEF WithBorrower
    <3>5. Claims(k) /\ ~Away(k) => AtHome(loan[k].copy)'
      <4>1. Claims(k) /\ ~Away(k) => AtHome(loan[k].copy)
        BY DEF LendingInv, Custody
      <4> QED
        BY <1>7, <3>1, <3>2, <4>1 DEF AtHome
    <3>6. loan[k].status # "NONE" => copy'[loan[k].copy].listed
      BY <1>7, <3>1 DEF LendingInv, Custody
    <3>7. /\ loan[k].status = "HANDED_OVER" => copy'[loan[k].copy].status = "LENT_OUT"
          /\ OpenLoss(k) => copy'[loan[k].copy].status = "UNAVAILABLE"
          /\ loan[k].status = "PENDING_CONFIRMATION" /\ IsGuest(k) =>
               copy'[loan[k].copy].status = "RESERVED"
      BY <3>3 DEF LendingInv, Custody, Away
    <3>8. IsGuest(k)' <=> IsGuest(k)
      BY <3>1 DEF IsGuest
    <3> QED
      BY <1>8, <2>2, <3>1, <3>4, <3>5, <3>6, <3>7, <3>8
  <2> QED
    BY <2>1, <2>2
<1>15. \A d \in Copies : \A k \in LoansOn(d) : k # l /\ k \in LoansOn(d)' /\ loan'[k] = loan[k]
  BY <1>2, <1>5 DEF LoansOn
<1>16. \A d \in Copies : \A k \in LoansOn(d)' : (k = l /\ d = c) \/ (k \in LoansOn(d) /\ k # l)
  <2> TAKE d \in Copies
  <2> TAKE k \in LoansOn(d)'
  <2>1. k \in LoanIds /\ loan'[k].status # "NONE" /\ loan'[k].copy = d
    BY DEF LoansOn
  <2>2. CASE k = l
    BY <1>9, <2>1, <2>2
  <2>3. CASE k # l
    <3>1. loan'[k] = loan[k]
      BY <1>5, <2>1, <2>3
    <3> QED
      BY <2>1, <2>3, <3>1 DEF LoansOn
  <2> QED
    BY <2>2, <2>3
<1>17. AwayIsAccounted'
  <2> SUFFICES ASSUME NEW d \in Copies
               PROVE  /\ copy'[d].status = "LENT_OUT" =>
                           \E k \in LoansOn(d)' : loan'[k].status = "HANDED_OVER"
                      /\ ~AtHome(d)' => \E k \in LoansOn(d)' : Away(k)'
    BY DEF AwayIsAccounted
  <2>1. copy'[d].status = "LENT_OUT" => copy[d].status = "LENT_OUT"
    BY <1>7
  <2>2. AtHome(d)' <=> AtHome(d)
    BY <1>7 DEF AtHome
  <2>3. \A k \in LoansOn(d) : k \in LoanIds
    BY DEF LoansOn
  <2> QED
    BY <1>8, <1>15, <2>1, <2>2, <2>3 DEF LendingInv, AwayIsAccounted
<1>18. NoRequestLeftBehind'
  <2> SUFFICES ASSUME NEW d \in Copies, RequestsOn(d)' # {}
               PROVE  /\ copy'[d].listed /\ ~copy'[d].archived
                      /\ \A k \in LoansOn(d)' : loan'[k].status # "HANDED_OVER" /\ ~OpenLoss(k)'
    BY DEF NoRequestLeftBehind
  <2>1. \A k \in LoansOn(d) : k \in LoanIds
    BY DEF LoansOn
  <2>2. CASE d = c
    <3>1. \A k \in LoansOn(c) : loan[k].status # "HANDED_OVER" /\ ~OpenLoss(k)
      BY <1>3 DEF Away
    <3>2. loan'[l].status # "HANDED_OVER"
      BY <1>4, <1>5
    <3> QED
      BY <1>2, <1>7, <1>8, <1>9, <1>15, <1>16, <2>1, <2>2, <3>1, <3>2
  <2>3. CASE d # c
    <3>1. RequestsOn(d) # {}
      BY <1>15, <1>16, <2>3 DEF RequestsOn
    <3>2. /\ copy[d].listed /\ ~copy[d].archived
          /\ \A k \in LoansOn(d) : loan[k].status # "HANDED_OVER" /\ ~OpenLoss(k)
      BY <3>1 DEF LendingInv, NoRequestLeftBehind
    <3> QED
      BY <1>7, <1>8, <1>15, <1>16, <2>1, <2>3, <3>2
  <2> QED
    BY <2>2, <2>3
<1>19. ApprovedHasNoRivals'
  <2> SUFFICES ASSUME NEW k \in LoanIds, loan'[k].status = "APPROVED",
                      copy'[loan'[k].copy].status = "RESERVED"
               PROVE  RequestsOn(loan[k].copy)' = {}
    BY DEF ApprovedHasNoRivals
  <2>1. k # l /\ loan'[k] = loan[k] /\ loan[k].copy \in Copies
    BY <1>1, <1>4, <1>5 DEF TypeOK
  <2>2. k \in LoansOn(loan[k].copy) /\ Claims(k)
    BY <2>1 DEF LoansOn, Claims, EXCLUSIVE_LOAN_STATUS
  <2>3. loan[k].copy # c
    <3>1. CASE RecordExisting(l, c, b)
      BY <1>10, <2>2, <3>1
    <3>2. CASE Request(l, c, b)
      <4>1. copy' = copy
        BY <3>2 DEF Request
      <4> QED
        BY <1>2, <2>1, <4>1
    <3> QED
      BY <3>1, <3>2
  <2>4. RequestsOn(loan[k].copy) = {}
    <3>1. copy[loan[k].copy].status = "RESERVED" /\ loan[k].status = "APPROVED"
      BY <1>7, <2>1, <2>3
    <3> QED
      BY <3>1 DEF LendingInv, ApprovedHasNoRivals
  <2> QED
    BY <1>15, <1>16, <2>1, <2>3, <2>4 DEF RequestsOn
<1>20. RecoveredIsLost'
  BY <1>5, <1>6, <1>9 DEF LendingInv, RecoveredIsLost
<1> QED
  BY <1>13, <1>14, <1>17, <1>18, <1>19, <1>20 DEF LendingInv

LEMMA InvStep == LendingInv /\ [Next]_vars => LendingInv'
<1> SUFFICES ASSUME LendingInv, [Next]_vars PROVE LendingInv'
  OBVIOUS
<1>1. TypeOK'
  BY TypeStep DEF LendingInv
<1>2. CASE UNCHANGED vars
  <2>1. Quiet
    BY <1>2 DEF vars, Quiet, QuietLoan, QuietCopy
  <2> QED
    BY <1>1, <2>1, QuietStep
<1>3. ASSUME NEW c \in Copies, AddCopy(c) \/ RemoveCopy(c) PROVE LendingInv'
  BY <1>1, <1>3, ShelfStep
<1>4. ASSUME NEW c \in Copies, ArchiveCopy(c) \/ RestoreCopy(c) PROVE LendingInv'
  BY <1>1, <1>4, ArchiveQuiet, QuietStep
<1>5. ASSUME NEW c \in Copies, NEW s \in StatusEdits, StartStatusEdit(c, s) \/ FinishStatusEdit(c, s)
      PROVE  LendingInv'
  BY <1>1, <1>5, EditQuiet, QuietStep
<1>6. ASSUME NEW l \in LoanIds, NEW c \in Copies, NEW b \in Users,
             Request(l, c, b) \/ RecordExisting(l, c, b)
      PROVE  LendingInv'
  BY <1>1, <1>6, OpenStep
<1>7. ASSUME NEW l \in LoanIds, PatchLoan(l) PROVE LendingInv'
  BY <1>1, <1>7, PatchStep
<1> QED
  BY <1>2, <1>3, <1>4, <1>5, <1>6, <1>7 DEF Next, LibraryStep, LoanStep

-----------------------------------------------------------------------------
(* Theorems *)

\* LendingInv holds in every reachable state.
THEOREM Invariance == Spec => []LendingInv
<1>1. LendingInv /\ [Next]_vars => LendingInv'
  BY InvStep
<1> QED
  BY InitInv, <1>1, PTL DEF Spec

\* However approvals, records, hand-overs, losses, recoveries and status edits interleave, no
\* copy is promised, lent or lost to two people at once.
THEOREM OneClaimPerCopy == Spec => []OneClaim
<1>1. LendingInv => OneClaim
  BY DEF LendingInv
<1> QED
  BY Invariance, <1>1, PTL

\* A loan that takes its copy away, and the holder columns of that copy, always agree.
THEOREM CustodyAgrees == Spec => []Custody
<1>1. LendingInv => Custody
  BY DEF LendingInv
<1> QED
  BY Invariance, <1>1, PTL

\* A copy that is not at home is out on a loan that accounts for it.
THEOREM EveryAbsenceAccounted == Spec => []AwayIsAccounted
<1>1. LendingInv => AwayIsAccounted
  BY DEF LendingInv
<1> QED
  BY Invariance, <1>1, PTL

\* No request is left open for a copy that has been handed over, lost or archived.
THEOREM NobodyLeftWaiting == Spec => []NoRequestLeftBehind
<1>1. LendingInv => NoRequestLeftBehind
  BY DEF LendingInv
<1> QED
  BY Invariance, <1>1, PTL

-----------------------------------------------------------------------------
(* What a step may never do *)

\* A step of the table leaves the parties of every loan alone, and never reopens one.
LEMMA HistoryStep ==
  ASSUME LendingInv, [Next]_vars
  PROVE  /\ \A l \in LoanIds : loan[l].status # "NONE" => LoanStands(l)
         /\ events \subseteq events' /\ notified \subseteq notified'
<1>1. TypeOK
  BY DEF LendingInv
<1>2. CASE UNCHANGED vars \/ LibraryStep
  <2>1. CASE \E c \in Copies : ArchiveCopy(c)
    <3>1. PICK c \in Copies : ArchiveCopy(c)
      BY <2>1
    <3>2. ASSUME NEW l \in LoanIds PROVE LoanStands(l)
      <4>1. loan'[l] = IF l \in RequestsOn(c) THEN [loan[l] EXCEPT !.status = "REJECTED"] ELSE loan[l]
        BY <3>1 DEF ArchiveCopy, Reject
      <4>2. loan[l] \in LoanRow /\ (l \in RequestsOn(c) => loan[l].status = "REQUESTED")
        BY <1>1 DEF TypeOK, RequestsOn
      <4> QED
        BY <4>1, <4>2 DEF LoanStands, LoanRow, Closed
    <3> QED
      BY <3>1, <3>2 DEF ArchiveCopy
  <2>2. CASE ~\E c \in Copies : ArchiveCopy(c)
    <3>1. loan' = loan /\ events' = events /\ notified' = notified
      BY <1>2, <2>2 DEF vars, LibraryStep, AddCopy, RemoveCopy, RestoreCopy, StartStatusEdit,
                        FinishStatusEdit
    <3> QED
      BY <3>1 DEF LoanStands
  <2> QED
    BY <2>1, <2>2
<1>3. ASSUME NEW l \in LoanIds, NEW c \in Copies, NEW b \in Users,
             Request(l, c, b) \/ RecordExisting(l, c, b)
      PROVE  /\ \A j \in LoanIds : loan[j].status # "NONE" => LoanStands(j)
             /\ events \subseteq events' /\ notified \subseteq notified'
  <2>1. loan[l].status = "NONE" /\ \E r : loan' = [loan EXCEPT ![l] = r]
    BY <1>3, NewLoanRow DEF Request, RecordExisting, WritesRow
  <2>2. \A j \in LoanIds : j # l => loan'[j] = loan[j]
    BY <1>1, <2>1 DEF TypeOK
  <2> QED
    BY <1>3, <2>1, <2>2 DEF Request, RecordExisting, LoanStands
<1>4. ASSUME NEW l \in LoanIds, PatchLoan(l)
      PROVE  /\ \A j \in LoanIds : loan[j].status # "NONE" => LoanStands(j)
             /\ events \subseteq events' /\ notified \subseteq notified'
  <2>1. PICK row \in RegisteredRows(loan[l].origin, loan[l].status) :
          \E actor \in row.actors : RunTransition(l, row, actor)
    BY <1>4 DEF PatchLoan
  <2>2. PICK actor \in row.actors : RunTransition(l, row, actor)
    BY <2>1
  <2>3. /\ ChangeKinds(loan[l].status, row)
        /\ \A k \in LoanIds :
             loan'[k] = IF k = l THEN [loan[l] EXCEPT !.status = row.to]
                        ELSE IF row.rejectRivals /\ k \in RequestsOn(loan[l].copy)
                        THEN [loan[k] EXCEPT !.status = "REJECTED"] ELSE loan[k]
    BY <1>1, <2>2, TransitionEffect
  <2>4. loan[l].status \in Closed => row.to = loan[l].status
    BY <2>3 DEF ChangeKinds, Closed, Changes, Promises, Refuses, CallsOff, HandsOver, Returns, MarksLost,
                Recovers, Amends
  <2>5. ASSUME NEW j \in LoanIds PROVE LoanStands(j)
    <3>1. loan[j] \in LoanRow /\ (j \in RequestsOn(loan[l].copy) => loan[j].status = "REQUESTED")
      BY <1>1 DEF TypeOK, RequestsOn
    <3>2. CASE j = l
      BY <2>3, <2>4, <3>1, <3>2 DEF LoanStands, LoanRow
    <3>3. CASE j # l
      <4>1. CASE loan'[j] = loan[j]
        BY <4>1 DEF LoanStands
      <4>2. CASE j \in RequestsOn(loan[l].copy) /\ loan'[j] = [loan[j] EXCEPT !.status = "REJECTED"]
        BY <3>1, <4>2 DEF LoanStands, LoanRow, Closed
      <4> QED
        BY <2>3, <3>3, <4>1, <4>2
    <3> QED
      BY <3>2, <3>3
  <2> QED
    BY <2>2, <2>5 DEF RunTransition
<1> QED
  BY <1>2, <1>3, <1>4 DEF Next, LoanStep

\* In a step of the library or of a registered loan a book comes home on the return of its
\* loan, or on the first recovery of its loss.
LEMMA HomecomingStep ==
  ASSUME LendingInv, [Next]_vars, NEW c \in Copies, ComesHome(c)
  PROVE  \E l \in LoanIds : BringsHome(l, c)
<1>1. TypeOK /\ copy[c].listed /\ ~AtHome(c) /\ AtHome(c)'
  BY DEF LendingInv, ComesHome
<1>2. copy'[c].holder # copy[c].holder \/ copy'[c].contact # copy[c].contact
  BY <1>1 DEF AtHome
<1>3. LoansOn(c) # {}
  BY <1>1 DEF LendingInv, AwayIsAccounted
<1>4. ASSUME LibraryStep \/ UNCHANGED vars PROVE FALSE
  <2>1. ASSUME NEW d \in Copies, AddCopy(d) \/ RemoveCopy(d) PROVE copy'[c] = copy[c]
    BY <1>1, <1>3, <2>1 DEF AddCopy, RemoveCopy, TypeOK
  <2>2. ASSUME NEW d \in Copies, ArchiveCopy(d) \/ RestoreCopy(d)
        PROVE  copy'[c].holder = copy[c].holder /\ copy'[c].contact = copy[c].contact
    BY <1>1, <2>2 DEF ArchiveCopy, RestoreCopy, TypeOK, CopyRow
  <2>3. ASSUME NEW d \in Copies, NEW s \in StatusEdits, StartStatusEdit(d, s) \/ FinishStatusEdit(d, s)
        PROVE  copy'[c].holder = copy[c].holder /\ copy'[c].contact = copy[c].contact
    BY <1>1, <2>3 DEF StartStatusEdit, FinishStatusEdit, TypeOK, CopyRow
  <2> QED
    BY <1>2, <1>4, <2>1, <2>2, <2>3 DEF LibraryStep, vars
<1>5. ASSUME NEW l \in LoanIds, NEW d \in Copies, NEW b \in Users,
             Request(l, d, b) \/ RecordExisting(l, d, b)
      PROVE  FALSE
  <2>1. copy'[c].holder = copy[c].holder /\ copy'[c].contact = copy[c].contact
    BY <1>1, <1>5 DEF Request, RecordExisting, TypeOK, CopyRow
  <2> QED
    BY <1>2, <2>1
<1>6. PICK l \in LoanIds : PatchLoan(l)
  BY <1>4, <1>5 DEF Next, LoanStep
<1>7. PICK row \in RegisteredRows(loan[l].origin, loan[l].status) :
        \E actor \in row.actors : RunTransition(l, row, actor)
  BY <1>6 DEF PatchLoan
<1>8. PICK actor \in row.actors : RunTransition(l, row, actor)
  BY <1>7
<1>9. c = loan[l].copy
  <2>1. c # loan[l].copy => copy'[c] = copy[c]
    BY <1>1, <1>8 DEF RunTransition, TypeOK
  <2> QED
    BY <1>2, <2>1
<1>10. /\ ChangeKinds(loan[l].status, row) /\ loan[l] \in LoanRow
       /\ loan'[l] = [loan[l] EXCEPT !.status = row.to]
       /\ loan[l].borrower # OwnerOf[c] /\ row.holder # "KEEP"
  <2>1. row.holder # "KEEP"
    BY <1>1, <1>2, <1>8, <1>9, CopyEffect
  <2>2. /\ ChangeKinds(loan[l].status, row) /\ loan[l].status \in LoanStatus
        /\ loan'[l] = [loan[l] EXCEPT !.status = row.to]
    BY <1>1, <1>8, TransitionEffect
  <2>3. loan[l] \in LoanRow /\ loan[l].borrower # OwnerOf[c]
    BY <1>1, <1>9, <2>2 DEF TypeOK, LoanStatus
  <2> QED
    BY <2>1, <2>2, <2>3
<1>11. ~HandsOver(loan[l].status, row)
  <2> SUFFICES ASSUME HandsOver(loan[l].status, row) PROVE FALSE
    OBVIOUS
  <2>1. row.holder = "BORROWER"
    BY DEF HandsOver, Changes
  <2>2. copy'[c].holder = loan[l].borrower
    BY <1>1, <1>8, <1>9, <2>1, CopyEffect DEF SideOf
  <2> QED
    BY <1>1, <1>10, <2>2 DEF AtHome
<1>12. CASE Returns(loan[l].status, row)
  <2>1. loan[l].status = "HANDED_OVER" /\ loan'[l].status = "RETURNED"
    BY <1>10, <1>12 DEF Returns, Changes, LoanRow
  <2>2. Away(l) /\ WithBorrower(l)
    BY <2>1 DEF Away, LendingInv, Custody
  <2> QED
    BY <1>9, <2>1, <2>2 DEF BringsHome
<1>13. CASE Recovers(loan[l].status, row)
  <2>1. OpenLoss(l) /\ <<l, "RECOVERED">> \in events'
    BY <1>8, <1>13 DEF Recovers, RunTransition, Recoverable, OpenLoss
  <2>2. Away(l) /\ WithBorrower(l)
    BY <2>1 DEF Away, LendingInv, Custody
  <2> QED
    BY <1>9, <2>1, <2>2 DEF BringsHome
<1> QED
  BY <1>10, <1>11, <1>12, <1>13
     DEF ChangeKinds, Changes, Promises, Refuses, CallsOff, MarksLost, Amends

\* What was agreed between whom about which book is never rewritten.
THEOREM HistoryIsNotRewritten == Spec => HistoryStands
<1>1. ASSUME LendingInv, [Next]_vars
      PROVE  /\ \A l \in LoanIds : loan[l].status # "NONE" => LoanStands(l)
             /\ events \subseteq events' /\ notified \subseteq notified'
  BY <1>1, HistoryStep
<1> QED
  BY Invariance, <1>1, PTL DEF Spec, HistoryStands

-----------------------------------------------------------------------------
(* Without status edits nobody is locked out *)

\* The one row that rejects its own loan tells the borrower.
LEMMA RejectingRowTells ==
  ASSUME NEW origin, NEW from, NEW row \in RegisteredRows(origin, from), row.to = "REJECTED"
  PROVE  row.notify = <<"BORROWER", "LOAN_REJECTED">>
<1>1. \E o \in Origin : row \in FromRequested \cup FromApproved \cup FromHandedOver(o)
                                  \cup FromLost \cup FromPendingConfirmation
  BY DEF RegisteredRows, RequestTable, RecordedTable, Origin
<1> QED
  BY <1>1 DEF FromRequested, FromApproved, FromHandedOver, FromLost, FromPendingConfirmation

\* Each loan moves within the table of its origin.
LEMMA RowsFitOrigin ==
  ASSUME NEW origin \in Origin, NEW from, NEW row \in RegisteredRows(origin, from)
  PROVE  /\ row.to # "REQUESTED" /\ (row.to = "APPROVED" => from = "REQUESTED")
         /\ row.to = "PENDING_CONFIRMATION" => from = "PENDING_CONFIRMATION"
<1>1. ChangeKinds(from, row)
  BY RowKinds
<1> QED
  BY <1>1 DEF ChangeKinds, Changes, Promises, Refuses, CallsOff, HandsOver, Returns, MarksLost, Recovers, Amends

LEMMA ToldStep ==
  ASSUME LendingInv, RejectedAreTold, [Next]_vars
  PROVE  RejectedAreTold'
<1>1. TypeOK
  BY DEF LendingInv
<1> SUFFICES ASSUME NEW l \in LoanIds, loan'[l].status = "REJECTED"
             PROVE  <<loan'[l].borrower, "LOAN_REJECTED", l>> \in notified'
  BY DEF RejectedAreTold
<1>2. notified \subseteq notified' /\ (loan[l].status # "NONE" => loan'[l].borrower = loan[l].borrower)
  BY HistoryStep DEF LoanStands
<1>3. CASE loan[l].status = "REJECTED"
  BY <1>2, <1>3 DEF RejectedAreTold
<1>4. CASE loan[l].status # "REJECTED"
  <2>1. ASSUME NEW c \in Copies, ArchiveCopy(c)
        PROVE  <<loan'[l].borrower, "LOAN_REJECTED", l>> \in notified'
    <3>1. l \in RequestsOn(c)
      BY <1>4, <2>1 DEF ArchiveCopy, Reject
    <3>2. <<loan[l].borrower, "LOAN_REJECTED", l>> \in notified'
      BY <2>1, <3>1 DEF ArchiveCopy, ToldRejected
    <3>3. loan[l].status # "NONE"
      BY <3>1 DEF RequestsOn
    <3> QED
      BY <1>2, <3>2, <3>3
  <2>2. ASSUME NEW c \in Copies,
               \/ AddCopy(c) \/ RemoveCopy(c) \/ RestoreCopy(c)
               \/ \E s \in StatusEdits : StartStatusEdit(c, s) \/ FinishStatusEdit(c, s)
        PROVE  FALSE
    BY <1>4, <2>2 DEF AddCopy, RemoveCopy, RestoreCopy, StartStatusEdit, FinishStatusEdit
  <2>3. ASSUME NEW k \in LoanIds, NEW c \in Copies, NEW b \in Users,
               Request(k, c, b) \/ RecordExisting(k, c, b)
        PROVE  FALSE
    <3>1. PICK r : loan' = [loan EXCEPT ![k] = r] /\ r.status \in {"REQUESTED", "PENDING_CONFIRMATION"}
      BY <2>3, NewLoanRow DEF WritesRow
    <3>2. loan'[k] = r /\ \A j \in LoanIds : j # k => loan'[j] = loan[j]
      BY <1>1, <3>1 DEF TypeOK
    <3> QED
      BY <1>4, <3>1, <3>2
  <2>4. ASSUME NEW k \in LoanIds, PatchLoan(k)
        PROVE  <<loan'[l].borrower, "LOAN_REJECTED", l>> \in notified'
    <3>1. PICK row \in RegisteredRows(loan[k].origin, loan[k].status) :
            \E actor \in row.actors : RunTransition(k, row, actor)
      BY <2>4 DEF PatchLoan
    <3>2. PICK actor \in row.actors : RunTransition(k, row, actor)
      BY <3>1
    <3>3. \A j \in LoanIds :
            loan'[j] = IF j = k THEN [loan[k] EXCEPT !.status = row.to]
                       ELSE IF row.rejectRivals /\ j \in RequestsOn(loan[k].copy)
                       THEN [loan[j] EXCEPT !.status = "REJECTED"] ELSE loan[j]
      BY <1>1, <3>2, TransitionEffect
    <3>4. notified' = notified \cup Told(k, row, actor) \cup ToldRejected(RivalsOf(k, row))
      BY <3>2 DEF RunTransition
    <3>5. CASE l = k
      <4>1. loan[k].status \in LoanStatus /\ loan[k] \in LoanRow
        BY <1>1, <3>2, TransitionEffect DEF TypeOK
      <4>2. row.to = "REJECTED"
        BY <3>3, <3>5, <4>1 DEF LoanRow
      <4>3. row.notify = <<"BORROWER", "LOAN_REJECTED">>
        BY <4>2, RejectingRowTells
      <4>4. Told(k, row, actor) = {<<loan[k].borrower, "LOAN_REJECTED", k>>}
        <5>1. row.notify # <<>> /\ row.notify[1] = "BORROWER" /\ row.notify[2] = "LOAN_REJECTED"
          BY <4>3
        <5> QED
          BY <5>1 DEF Told, SideOf
      <4> QED
        BY <1>2, <3>4, <3>5, <4>1, <4>4 DEF LoanStatus
    <3>6. CASE l # k
      <4>1. row.rejectRivals /\ l \in RequestsOn(loan[k].copy)
        BY <1>4, <3>3, <3>6
      <4>2. l \in RivalsOf(k, row) /\ loan[l].status # "NONE"
        BY <3>6, <4>1 DEF RivalsOf, RequestsOn
      <4> QED
        BY <1>2, <3>4, <4>2 DEF ToldRejected
    <3> QED
      BY <3>5, <3>6
  <2>5. ~UNCHANGED vars
    BY <1>4 DEF vars
  <2> QED
    BY <2>1, <2>2, <2>3, <2>4, <2>5 DEF Next, LibraryStep, LoanStep
<1> QED
  BY <1>3, <1>4

\* Whoever asked and was turned down has been told, whichever operation rejected it, and
\* with status edits under way as well.
THEOREM RejectedTold == Spec => []RejectedAreTold
<1>1. Init => RejectedAreTold
  BY DEF Init, NoLoan, RejectedAreTold
<1>2. LendingInv /\ RejectedAreTold /\ [Next]_vars => RejectedAreTold'
  BY ToldStep
<1> QED
  BY Invariance, <1>1, <1>2, PTL DEF Spec

LEMMA PromisedStep ==
  ASSUME edits = {}, edits' = {}, LendingInv, PromisedIsReserved, [Next]_vars
  PROVE  PromisedIsReserved'
<1>1. TypeOK
  BY DEF LendingInv
<1>2. CASE \/ UNCHANGED vars
           \/ \E c \in Copies : AddCopy(c) \/ RemoveCopy(c)
  <2>1. loan' = loan /\ \A l \in LoanIds : loan[l].status # "NONE" =>
          copy'[loan[l].copy] = copy[loan[l].copy]
    <3>1. ASSUME NEW c \in Copies, AddCopy(c) \/ RemoveCopy(c), NEW l \in LoanIds, loan[l].status # "NONE"
          PROVE  copy'[loan[l].copy] = copy[loan[l].copy]
      <4>1. loan[l].copy # c /\ loan[l].copy \in Copies
        BY <1>1, <3>1 DEF AddCopy, RemoveCopy, LoansOn, TypeOK
      <4> QED
        BY <1>1, <3>1, <4>1 DEF AddCopy, RemoveCopy, TypeOK
    <3> QED
      BY <1>2, <3>1 DEF vars, AddCopy, RemoveCopy
  <2> QED
    BY <2>1 DEF PromisedIsReserved
<1>3. ASSUME NEW c \in Copies, ArchiveCopy(c) \/ RestoreCopy(c) PROVE PromisedIsReserved'
  <2>1. Quiet
    BY <1>3, ArchiveQuiet
  <2>2. \A d \in Copies : copy'[d].status = copy[d].status
    BY <1>1, <1>3 DEF ArchiveCopy, RestoreCopy, TypeOK, CopyRow
  <2>3. \A l \in LoanIds : loan'[l].copy = loan[l].copy /\ loan'[l].origin = loan[l].origin
          /\ (loan'[l].status = loan[l].status \/ loan'[l].status \in {"REJECTED", "CANCELLED"})
    BY <2>1 DEF Quiet, QuietLoan
  <2>4. \A l \in LoanIds : loan[l].status # "NONE" => loan[l].copy \in Copies
    BY <1>1 DEF TypeOK
  <2> QED
    BY <2>2, <2>3, <2>4 DEF PromisedIsReserved
<1>4. ASSUME NEW l \in LoanIds, NEW c \in Copies, NEW b \in Users,
             Request(l, c, b) \/ RecordExisting(l, c, b)
      PROVE  PromisedIsReserved'
  <2>1. PICK r : /\ loan' = [loan EXCEPT ![l] = r] /\ r.copy = c
                 /\ \/ r.status = "REQUESTED" /\ r.origin = "REQUESTED"
                    \/ r.status = "PENDING_CONFIRMATION" /\ r.origin = "RECORDED_EXISTING"
                         /\ RecordExisting(l, c, b)
    BY <1>4, NewLoanRow DEF WritesRow
  <2>2. loan'[l] = r /\ \A j \in LoanIds : j # l => loan'[j] = loan[j]
    BY <1>1, <2>1 DEF TypeOK
  <2>3. \A d \in Copies : copy'[d].status = copy[d].status \/ copy'[d].status = "RESERVED"
    BY <1>1, <1>4 DEF Request, RecordExisting, TypeOK, CopyRow
  <2>4. RecordExisting(l, c, b) => copy'[c].status = "RESERVED"
    BY <1>1 DEF RecordExisting, TypeOK, CopyRow
  <2>5. \A j \in LoanIds : loan[j].status # "NONE" => loan[j].copy \in Copies
    BY <1>1 DEF TypeOK
  <2> QED
    BY <2>1, <2>2, <2>3, <2>4, <2>5 DEF PromisedIsReserved
<1>5. ASSUME NEW l \in LoanIds, PatchLoan(l) PROVE PromisedIsReserved'
  <2>1. PICK row \in RegisteredRows(loan[l].origin, loan[l].status) :
          \E actor \in row.actors : RunTransition(l, row, actor)
    BY <1>5 DEF PatchLoan
  <2>2. PICK actor \in row.actors : RunTransition(l, row, actor)
    BY <2>1
  <2> PICK c : c = loan[l].copy
    OBVIOUS
  <2>3. /\ ChangeKinds(loan[l].status, row) /\ c \in Copies
        /\ \A k \in LoanIds :
             loan'[k] = IF k = l THEN [loan[l] EXCEPT !.status = row.to]
                        ELSE IF row.rejectRivals /\ k \in RequestsOn(c)
                        THEN [loan[k] EXCEPT !.status = "REJECTED"] ELSE loan[k]
    BY <1>1, <2>2, TransitionEffect
  <2>4. /\ loan[l] \in LoanRow /\ loan[l].origin \in Origin
        /\ \A d \in Copies : d # c => copy'[d] = copy[d]
    BY <1>1, <2>2 DEF TypeOK, LoanRow, RunTransition
  <2>5. copy'[c].status = IF row.copyStatus = "KEEP" THEN copy[c].status ELSE row.copyStatus
    BY <1>1, <2>2, CopyEffect
  <2>6. /\ row.to # "REQUESTED" /\ (row.to = "APPROVED" => loan[l].status = "REQUESTED")
        /\ row.to = "PENDING_CONFIRMATION" => loan[l].status = "PENDING_CONFIRMATION"
    BY <2>4, RowsFitOrigin
  <2>7. row.to \in {"APPROVED", "PENDING_CONFIRMATION"} => copy'[c].status = "RESERVED"
    <3>1. CASE Promises(loan[l].status, row)
      BY <2>5, <3>1 DEF Promises, Changes
    <3>2. CASE Amends(loan[l].status, row)
      BY <2>5, <3>2 DEF Amends, Changes, PromisedIsReserved
    <3> QED
      BY <2>3, <3>1, <3>2
         DEF ChangeKinds, Changes, Refuses, CallsOff, HandsOver, Returns, MarksLost, Recovers
  <2> SUFFICES ASSUME NEW k \in LoanIds
               PROVE  /\ loan'[k].status \in {"APPROVED", "PENDING_CONFIRMATION"} =>
                           copy'[loan'[k].copy].status = "RESERVED"
                      /\ loan'[k].status \in {"REQUESTED", "APPROVED"} => loan'[k].origin = "REQUESTED"
                      /\ loan'[k].status = "PENDING_CONFIRMATION" => loan'[k].origin # "REQUESTED"
    BY DEF PromisedIsReserved
  <2>8. CASE k = l
    <3>1. loan'[l].copy = c /\ loan'[l].origin = loan[l].origin /\ loan'[l].status = row.to
      BY <2>3, <2>4 DEF LoanRow
    <3> QED
      BY <2>6, <2>7, <2>8, <3>1 DEF PromisedIsReserved
  <2>9. CASE k # l
    <3>1. loan[k] \in LoanRow /\ (loan[k].status # "NONE" => loan[k].copy \in Copies)
      BY <1>1 DEF TypeOK
    <3>2. CASE loan'[k] = loan[k]
      <4>1. SUFFICES ASSUME loan[k].status \in {"APPROVED", "PENDING_CONFIRMATION"}, loan[k].copy = c
                     PROVE  copy'[c].status = copy[c].status
        BY <2>4, <3>1, <3>2 DEF PromisedIsReserved
      <4>2. k \in LoansOn(c) /\ Claims(k)
        BY <4>1 DEF LoansOn, Claims, EXCLUSIVE_LOAN_STATUS
      <4>3. ~Moves(loan[l].status, row)
        BY <2>2, <2>9, <4>2, MoverIsAlone
      <4>4. row.copyStatus = "KEEP"
        BY <2>3, <4>3 DEF ChangeKinds, Moves, Refuses, Amends, Changes
      <4> QED
        BY <2>5, <4>4
    <3>3. CASE loan'[k] = [loan[k] EXCEPT !.status = "REJECTED"]
      BY <3>1, <3>3 DEF LoanRow
    <3> QED
      BY <2>3, <2>9, <3>2, <3>3
  <2> QED
    BY <2>8, <2>9
<1>6. ASSUME NEW c \in Copies, NEW s \in StatusEdits, StartStatusEdit(c, s) \/ FinishStatusEdit(c, s)
      PROVE  FALSE
  BY <1>6 DEF StartStatusEdit, FinishStatusEdit
<1> QED
  BY <1>2, <1>3, <1>4, <1>5, <1>6 DEF Next, LibraryStep, LoanStep

\* Whoever has a book promised or lent finds a row that accepts the state its copy is in.
LEMMA SomeRowAccepts ==
  ASSUME LendingInv, PromisedIsReserved
  PROVE  NobodyIsLockedOut
<1>1. TypeOK
  BY DEF LendingInv
<1>2. AvailableIsFree
  <2> SUFFICES ASSUME NEW c \in Copies, copy[c].status = "AVAILABLE", NEW l \in ExclusiveOn(c)
               PROVE  FALSE
    BY DEF AvailableIsFree
  <2>1. l \in LoanIds /\ loan[l].copy = c /\ loan[l].status \in EXCLUSIVE_LOAN_STATUS
    BY DEF ExclusiveOn, LoansOn
  <2> QED
    BY <2>1 DEF EXCLUSIVE_LOAN_STATUS, PromisedIsReserved, LendingInv, Custody
<1>3. NeverStuck
  <2> SUFFICES ASSUME NEW l \in LoanIds, loan[l].status \in EXCLUSIVE_LOAN_STATUS, ~IsGuest(l)
               PROVE  \E row \in RegisteredRows(loan[l].origin, loan[l].status) :
                        row.to # loan[l].status /\ CopyReady(l, row)
    BY DEF NeverStuck
  <2>1. loan[l] \in LoanRow /\ loan[l].origin \in {"REQUESTED", "RECORDED_EXISTING"}
    <3>1. loan[l] \in LoanRow
      BY <1>1 DEF TypeOK
    <3> QED
      BY <3>1 DEF LoanRow, Origin, IsGuest
  <2>2. CASE loan[l].status = "HANDED_OVER"
    <3>1. /\ copy[loan[l].copy].status = "LENT_OUT"
          /\ copy[loan[l].copy].holder = loan[l].borrower
      BY <2>2 DEF LendingInv, Custody, Away, WithBorrower
    <3>2. PICK row \in FromHandedOver(loan[l].origin) : row.action = "return"
      BY DEF FromHandedOver
    <3>3. row.from = "HANDED_OVER" /\ row.to = "RETURNED" /\ row.requires = <<"LENT_OUT", "BORROWER">>
      BY <3>2 DEF FromHandedOver
    <3>4. row \in RegisteredRows(loan[l].origin, "HANDED_OVER")
      BY <2>1, <3>2, <3>3 DEF RegisteredRows, RecordedTable, RequestTable
    <3>5. CopyReady(l, row)
      <4>1. row.requires[1] = "LENT_OUT" /\ row.requires[2] = "BORROWER"
        BY <3>3
      <4> QED
        BY <3>1, <4>1 DEF CopyReady, SideOf
    <3> QED
      BY <2>2, <3>3, <3>4, <3>5
  <2>3. CASE loan[l].status \in {"APPROVED", "PENDING_CONFIRMATION"}
    <3>1. copy[loan[l].copy].status = "RESERVED" /\ copy[loan[l].copy].holder = OwnerOf[loan[l].copy]
      BY <2>3 DEF PromisedIsReserved, LendingInv, Custody, Claims, Away, OpenLoss, AtHome,
                  EXCLUSIVE_LOAN_STATUS
    <3>2. PICK row \in FromApproved \cup FromPendingConfirmation :
            row.from = loan[l].status /\ row.to = "CANCELLED" /\ row.requires = <<"RESERVED", "OWNER">>
      BY <2>3 DEF FromApproved, FromPendingConfirmation, RECORD_HELD
    <3>3. row \in RegisteredRows(loan[l].origin, loan[l].status)
      <4>1. CASE loan[l].status = "APPROVED"
        <5>1. row \in FromApproved
          BY <3>2, <4>1 DEF FromPendingConfirmation
        <5> QED
          BY <3>2, <4>1, <5>1 DEF PromisedIsReserved, RegisteredRows, RequestTable
      <4>2. CASE loan[l].status = "PENDING_CONFIRMATION"
        <5>1. row \in FromPendingConfirmation
          BY <3>2, <4>2 DEF FromApproved
        <5> QED
          BY <2>1, <3>2, <4>2, <5>1 DEF PromisedIsReserved, RegisteredRows, RecordedTable
      <4> QED
        BY <2>3, <4>1, <4>2
    <3>4. CopyReady(l, row)
      <4>1. row.requires[1] = "RESERVED" /\ row.requires[2] = "OWNER"
        BY <3>2
      <4> QED
        BY <3>1, <4>1 DEF CopyReady, SideOf
    <3> QED
      BY <2>3, <3>2, <3>3, <3>4
  <2> QED
    BY <2>2, <2>3 DEF EXCLUSIVE_LOAN_STATUS
<1> QED
  BY <1>2, <1>3 DEF NobodyIsLockedOut

\* What is promised stays reserved as long as no status edit is under way, or ever was.
LEMMA EditedStep ==
  ASSUME LendingInv, ~edited => edits = {} /\ PromisedIsReserved, [HNext]_hvars, ~edited'
  PROVE  edits' = {} /\ PromisedIsReserved'
<1>1. CASE HNext
  <2>1. ~edited /\ edits' = {}
    BY <1>1 DEF HNext
  <2>2. [Next]_vars
    BY <1>1 DEF HNext
  <2> QED
    BY <2>1, <2>2, PromisedStep
<1>2. CASE UNCHANGED hvars
  <2>1. ~edited /\ edits' = edits /\ [Next]_vars
    BY <1>2 DEF hvars, vars
  <2> QED
    BY <2>1, PromisedStep
<1> QED
  BY <1>1, <1>2

\* Lending by itself goes on as if nobody remembered.
LEMMA HistoryIsLending == HSpec => Spec
<1>1. HInit => Init
  BY DEF HInit
<1>2. [HNext]_hvars => [Next]_vars
  BY DEF HNext, hvars
<1> QED
  BY <1>1, <1>2, PTL DEF HSpec, Spec

\* loan.service.ts and library.service.ts: whoever asked and was turned down has been told;
\* and until the owner edits a status, every loan that occupies its copy can be ended, and a
\* copy offered as available is free to be lent.
THEOREM UndisturbedWithoutEdits == HSpec => []Undisturbed
<1> DEFINE Kept == ~edited => edits = {} /\ PromisedIsReserved
<1>1. HInit => Kept
  BY DEF HInit, Init, NoLoan, PromisedIsReserved
<1>2. LendingInv /\ Kept /\ [HNext]_hvars => Kept'
  BY EditedStep
<1>3. LendingInv /\ Kept /\ RejectedAreTold => Undisturbed
  BY SomeRowAccepts DEF Undisturbed
<1> QED
  BY HistoryIsLending, Invariance, RejectedTold, <1>1, <1>2, <1>3, PTL DEF HSpec

\* The race of the status edit is the only thing that locks anybody out: where no status is
\* edited, every loan that occupies its copy can be ended, and a copy offered as available
\* has no exclusive loan.
THEOREM LockedOutByEditsOnly == StatusEdits = {} => (Spec => []NobodyIsLockedOut)
<1> SUFFICES ASSUME StatusEdits = {} PROVE Spec => []NobodyIsLockedOut
  OBVIOUS
<1>1. Init => PromisedIsReserved
  BY DEF Init, NoLoan, PromisedIsReserved
<1>2. LendingInv => edits = {}
  BY DEF LendingInv, TypeOK
<1>3. LendingInv /\ LendingInv' /\ PromisedIsReserved /\ [Next]_vars => PromisedIsReserved'
  <2>1. LendingInv' => edits' = {}
    BY DEF LendingInv, TypeOK
  <2> QED
    BY <1>2, <2>1, PromisedStep
<1>4. LendingInv /\ PromisedIsReserved => NobodyIsLockedOut
  BY SomeRowAccepts
<1> QED
  BY Invariance, <1>1, <1>3, <1>4, PTL DEF Spec

-----------------------------------------------------------------------------
(* The daily reminders: what is true of a pass at any moment *)

To == {Owner, Nobody} \cup {BorrowerOf[l] : l \in Loans}
Bucket == [to : To, loans : SUBSET Loans]
Pass == [step : {"IDLE", "SCAN", "EMIT", "LOCK", "HOLD"}, kind : 1..3, now : Nat,
         buckets : SUBSET Bucket, to : To, due : SUBSET Loans, knew : SUBSET Loans]

KeyOf(u, c) == [to |-> u, kind |-> KindOf(c), day |-> calendarDay(c.now)]
Announced(u, c) == \E e \in sent : e.key = KeyOf(u, c)

\* Whoever is to hear of the loan has the event, or is yet to get it from this pass.
Covered(c, l) ==
  \/ Announced(BorrowerOf[l], c)
  \/ \E b \in c.buckets : b.to = BorrowerOf[l] /\ l \in b.loans
  \/ l \in c.due /\ c.to = BorrowerOf[l]

\* What a pass has locked is as it saw it, what it has grouped is by person, and it leaves
\* out nobody who had a book when it began.
PassOk(c) ==
  /\ c \in Pass /\ (c.step # "HOLD" => c.due = {})
  /\ \A l \in c.due : /\ lent[l] = "OUT" /\ Matches(KindOf(c), l, c.now)
                      /\ recipientOf(KindOf(c), l) = c.to
  /\ \A b \in c.buckets : \A l \in b.loans : recipientOf(KindOf(c), l) = b.to
  /\ \A l \in c.knew : lent[l] # "NO" /\ BorrowerOf[l] # Nobody
  /\ c.knew # {} => ~ToOwner(KindOf(c))
  /\ c.step \in {"EMIT", "LOCK", "HOLD"} => \A l \in StillDue(c, c.knew) : Covered(c, l)

\* One event of a key; a loan announced as due soon has the day of the event.
EventsOk ==
  /\ \A e, f \in sent : e.key = f.key => e = f
  /\ \A e \in sent :
       /\ e.key = [to |-> e.key.to, kind |-> e.key.kind, day |-> e.key.day]
       /\ e.loans \subseteq Loans
       /\ \A l \in e.loans : /\ lent[l] # "NO"
                             /\ e.key.kind # "LOAN_OVERDUE" => dueOn[l] - Window = e.key.day

DigestInv ==
  /\ clock \in Nat
  /\ lent \in [Loans -> {"NO", "OUT", "BACK"}] /\ dueOn \in [Loans -> Int]
  /\ pass \in [Processes -> Pass]
  /\ \A p \in Processes : PassOk(pass[p])
  /\ EventsOk

-----------------------------------------------------------------------------
(* The daily reminders: the steps of a pass and of the loans under it *)

LEMMA KindFacts ==
  /\ Len(Kinds) = 3
  /\ Kinds[1] = "LOAN_DUE_SOON" /\ Kinds[2] = "LOAN_OVERDUE" /\ Kinds[3] = "LOAN_DUE_SOON_OWNER"
BY DEF Kinds

LEMMA DayFacts ==
  ASSUME DigestAssumption, NEW t \in Nat
  PROVE  calendarDay(t) \in Int
BY DEF calendarDay, DigestAssumption

LEMMA IdleFacts == PassOk(Idle)
<1>1. /\ Idle \in Pass /\ Idle.step = "IDLE" /\ Idle.due = {} /\ Idle.buckets = {} /\ Idle.knew = {}
  BY DEF Idle, Pass, To
<1> QED
  BY <1>1 DEF PassOk

\* What happens to loans between two steps of a pass: books come back, but not the locked
\* ones, and no book that is out gets another date.
LoansGoOn(locked) ==
  /\ \A l \in Loans : lent[l] # "NO" => lent'[l] # "NO" /\ dueOn'[l] = dueOn[l]
  /\ \A l \in Loans : lent[l] # "NO" /\ lent'[l] = "OUT" => lent[l] = "OUT"
  /\ \A l \in locked : lent[l] = "OUT" => lent'[l] = "OUT"

LEMMA PassKept ==
  ASSUME NEW c, PassOk(c), LoansGoOn(c.due), sent \subseteq sent'
  PROVE  PassOk(c)'
<1>1. /\ c \in Pass /\ (c.step # "HOLD" => c.due = {}) /\ c.due \subseteq Loans /\ c.knew \subseteq Loans
      /\ \A l \in c.due : /\ lent[l] = "OUT" /\ Matches(KindOf(c), l, c.now)
                          /\ recipientOf(KindOf(c), l) = c.to
      /\ \A b \in c.buckets : \A l \in b.loans : recipientOf(KindOf(c), l) = b.to
      /\ \A l \in c.knew : lent[l] # "NO" /\ BorrowerOf[l] # Nobody
      /\ c.knew # {} => ~ToOwner(KindOf(c))
      /\ c.step \in {"EMIT", "LOCK", "HOLD"} => \A l \in StillDue(c, c.knew) : Covered(c, l)
  BY DEF PassOk, Pass
<1>2. \A l \in c.due : lent'[l] = "OUT" /\ Matches(KindOf(c), l, c.now)'
  BY <1>1 DEF LoansGoOn, Matches
<1>3. \A l \in c.knew : lent'[l] # "NO"
  BY <1>1 DEF LoansGoOn
<1>4. ASSUME NEW l \in StillDue(c, c.knew)'
      PROVE  l \in StillDue(c, c.knew)
  BY <1>1, <1>4 DEF LoansGoOn, StillDue, Matches
<1>5. ASSUME NEW l, Covered(c, l)
      PROVE  Covered(c, l)'
  BY <1>5 DEF Covered, Announced
<1> QED
  BY <1>1, <1>2, <1>3, <1>4, <1>5 DEF PassOk

\* A step of one pass.
LEMMA PassMoves ==
  ASSUME DigestInv, NEW p \in Processes, NEW d, PassOk(d)', pass' = [pass EXCEPT ![p] = d],
         UNCHANGED <<clock, lent, dueOn>>, sent \subseteq sent', EventsOk'
  PROVE  DigestInv'
<1>1. d \in Pass
  BY DEF PassOk
<1>2. ASSUME NEW q \in Processes
      PROVE  PassOk(pass[q])'
  <2>1. CASE q = p
    BY <2>1 DEF DigestInv
  <2>2. CASE q # p
    <3>1. PICK c : c = pass[q]
      OBVIOUS
    <3>2. PassOk(c) /\ LoansGoOn(c.due)
      BY <3>1 DEF DigestInv, LoansGoOn
    <3>3. PassOk(c)'
      BY <3>2, PassKept
    <3>4. pass'[q] = c
      BY <2>2, <3>1 DEF DigestInv
    <3> QED
      BY <3>3, <3>4
  <2> QED
    BY <2>1, <2>2
<1> QED
  BY <1>1, <1>2 DEF DigestInv

LEMMA EventsStay ==
  ASSUME EventsOk, UNCHANGED <<lent, dueOn, sent>>
  PROVE  EventsOk'
BY DEF EventsOk

-----------------------------------------------------------------------------

LEMMA LendingKeeps ==
  ASSUME DigestInv, NEW l \in Loans, HandOver(l) \/ Return(l)
  PROVE  DigestInv'
<1>1. /\ lent' \in [Loans -> {"NO", "OUT", "BACK"}] /\ dueOn' \in [Loans -> Int]
      /\ UNCHANGED <<clock, pass, sent>>
  <2>1. CASE HandOver(l)
    <3>1. PICK x \in 0..LastDay : dueOn' = [dueOn EXCEPT ![l] = x]
      BY <2>1 DEF HandOver
    <3> QED
      BY <2>1, <3>1 DEF HandOver, DigestInv
  <2>2. CASE Return(l)
    BY <2>2 DEF Return, DigestInv
  <2> QED
    BY <2>1, <2>2
<1>2. ASSUME NEW p \in Processes
      PROVE  LoansGoOn(pass[p].due)
  <2>1. CASE HandOver(l)
    <3>1. /\ lent[l] = "NO"
          /\ \A m \in Loans : m # l => lent'[m] = lent[m] /\ dueOn'[m] = dueOn[m]
      BY <2>1 DEF HandOver, DigestInv
    <3>2. /\ pass[p].due \subseteq Loans
          /\ \A m \in pass[p].due : lent[m] = "OUT"
      BY DEF DigestInv, PassOk, Pass
    <3> QED
      BY <3>1, <3>2 DEF LoansGoOn
  <2>2. CASE Return(l)
    <3>1. /\ lent[l] = "OUT" /\ lent'[l] = "BACK" /\ dueOn' = dueOn /\ l \notin pass[p].due
          /\ \A m \in Loans : m # l => lent'[m] = lent[m]
      BY <2>2 DEF Return, DigestInv, LockedLoan
    <3>2. pass[p].due \subseteq Loans
      BY DEF DigestInv, PassOk, Pass
    <3> QED
      BY <3>1, <3>2 DEF LoansGoOn
  <2> QED
    BY <2>1, <2>2
<1>3. ASSUME NEW p \in Processes
      PROVE  PassOk(pass[p])'
  <2>1. PICK c : c = pass[p]
    OBVIOUS
  <2>2. PassOk(c)'
    BY <1>1, <1>2, <2>1, PassKept DEF DigestInv
  <2> QED
    BY <1>1, <2>1, <2>2
<1>4. EventsOk'
  <2>1. \A m \in Loans : lent[m] # "NO" => lent'[m] # "NO" /\ dueOn'[m] = dueOn[m]
    BY DEF HandOver, Return, DigestInv
  <2> QED
    BY <1>1, <2>1 DEF EventsOk, DigestInv
<1> QED
  BY <1>1, <1>3, <1>4 DEF DigestInv

LEMMA ClockKeeps ==
  ASSUME DigestInv, Tick \/ SwitchReminders \/ UNCHANGED dvars
  PROVE  DigestInv'
<1>1. clock' \in Nat /\ UNCHANGED <<lent, dueOn, pass, sent>>
  BY DEF DigestInv, Tick, SwitchReminders, dvars, loans
<1>2. ASSUME NEW p \in Processes
      PROVE  PassOk(pass[p])'
  <2>1. PICK c : c = pass[p]
    OBVIOUS
  <2>2. PassOk(c) /\ LoansGoOn(c.due) /\ sent \subseteq sent'
    BY <1>1, <2>1 DEF DigestInv, LoansGoOn
  <2>3. PassOk(c)'
    BY <2>2, PassKept
  <2> QED
    BY <1>1, <2>1, <2>3
<1> QED
  BY <1>1, <1>2, EventsStay DEF DigestInv

LEMMA TriggerKeeps ==
  ASSUME DigestInv, NEW p \in Processes, Trigger(p)
  PROVE  DigestInv'
<1>0. PICK K : K = {l \in Loans : lent[l] = "OUT" /\ BorrowerOf[l] # Nobody}
  OBVIOUS
<1>1. PICK d : d = [Idle EXCEPT !.step = "SCAN", !.now = clock, !.knew = K]
  OBVIOUS
<1>2. /\ d \in Pass /\ d.step = "SCAN" /\ d.knew = K /\ d.kind = 1 /\ d.buckets = {} /\ d.due = {}
  <2>1. d = [step |-> "SCAN", kind |-> 1, now |-> clock, buckets |-> {}, to |-> Nobody, due |-> {},
             knew |-> K]
    BY <1>1 DEF Idle
  <2>2. K \in SUBSET Loans /\ clock \in Nat /\ Nobody \in To /\ 1 \in 1..3
    BY <1>0 DEF DigestInv, To
  <2> QED
    BY <2>1, <2>2 DEF Pass
<1>3. pass' = [pass EXCEPT ![p] = d] /\ UNCHANGED <<clock, lent, dueOn, sent>>
  BY <1>0, <1>1 DEF Trigger, loans
<1>4. ~ToOwner(KindOf(d))
  BY <1>2, KindFacts DEF ToOwner, KindOf
<1>5. PassOk(d)'
  BY <1>0, <1>2, <1>3, <1>4 DEF PassOk
<1> QED
  BY <1>3, <1>5, PassMoves, EventsStay DEF DigestInv

LEMMA ScanKeeps ==
  ASSUME DigestInv, NEW p \in Processes, Scan(p)
  PROVE  DigestInv'
<1>1. PICK c : c = pass[p]
  OBVIOUS
<1> DEFINE kind == KindOf(c)
           matching == {l \in StillDue(c, Loans) : recipientOf(kind, l) # Nobody /\ (ToOwner(kind) => remind)}
           people == {recipientOf(kind, l) : l \in matching}
           B == {[to |-> u, loans |-> {l \in matching : recipientOf(kind, l) = u}] : u \in people}
<1>2. PICK d : d = [c EXCEPT !.step = "EMIT", !.buckets = B]
  OBVIOUS
<1>3. PassOk(c) /\ c.step = "SCAN"
  BY <1>1 DEF Scan, DigestInv
<1>4. matching \subseteq Loans /\ \A l \in Loans : recipientOf(kind, l) \in To
  BY DEF StillDue, recipientOf, To
<1>5. B \subseteq Bucket
  BY <1>4 DEF Bucket
<1>6. /\ d \in Pass /\ d.step = "EMIT" /\ d.kind = c.kind /\ d.now = c.now /\ d.buckets = B
      /\ d.to = c.to /\ d.due = {} /\ d.knew = c.knew
  <2> HIDE DEF B
  <2> QED
    BY <1>2, <1>3, <1>5 DEF PassOk, Pass
<1>7. pass' = [pass EXCEPT ![p] = d] /\ UNCHANGED <<clock, lent, dueOn, sent>>
  BY <1>1, <1>2 DEF Scan, loans
<1>8. KindOf(d) = kind
  BY <1>6 DEF KindOf
<1>9. \A b \in B : \A l \in b.loans : recipientOf(kind, l) = b.to
  OBVIOUS
<1>10. ASSUME NEW l \in StillDue(d, d.knew)
       PROVE  Covered(d, l)
  <2>1. /\ l \in c.knew /\ l \in Loans /\ lent[l] = "OUT" /\ Matches(kind, l, c.now)
        /\ BorrowerOf[l] # Nobody /\ ~ToOwner(kind)
    BY <1>3, <1>6, <1>8, <1>10 DEF StillDue, PassOk, Pass
  <2>2. recipientOf(kind, l) = BorrowerOf[l]
    BY <2>1 DEF recipientOf
  <2>3. l \in matching
    BY <2>1, <2>2 DEF StillDue
  <2>4. PICK b : b = [to |-> BorrowerOf[l], loans |-> {m \in matching : recipientOf(kind, m) = BorrowerOf[l]}]
    OBVIOUS
  <2>5. b \in B
    BY <2>2, <2>3, <2>4
  <2>6. b.to = BorrowerOf[l] /\ l \in b.loans
    BY <2>2, <2>3, <2>4
  <2> QED
    BY <1>6, <2>5, <2>6 DEF Covered
<1>11. PassOk(d)
  <2> HIDE DEF B
  <2> QED
    BY <1>3, <1>6, <1>8, <1>9, <1>10 DEF PassOk
<1>12. PassOk(d)'
  <2>1. LoansGoOn(d.due)
    BY <1>7 DEF LoansGoOn
  <2> QED
    BY <1>7, <1>11, <2>1, PassKept
<1> QED
  BY <1>7, <1>12, PassMoves, EventsStay DEF DigestInv

LEMMA ReadSwitchKeeps ==
  ASSUME DigestInv, NEW p \in Processes, ReadSwitch(p)
  PROVE  DigestInv'
<1>1. PICK c : c = pass[p]
  OBVIOUS
<1>2. PICK d : d = IF remind THEN [c EXCEPT !.step = "LOCK"] ELSE [c EXCEPT !.buckets = {}]
  OBVIOUS
<1>3. PassOk(c) /\ c.step = "EMIT" /\ ToOwner(KindOf(c))
  BY <1>1 DEF ReadSwitch, DigestInv
<1>4. /\ d \in Pass /\ d.step \in {"EMIT", "LOCK"} /\ d.kind = c.kind /\ d.now = c.now /\ d.buckets \subseteq c.buckets
      /\ d.due = {} /\ d.knew = {}
  BY <1>2, <1>3 DEF PassOk, Pass
<1>5. pass' = [pass EXCEPT ![p] = d] /\ UNCHANGED <<clock, lent, dueOn, sent>>
  BY <1>1, <1>2 DEF ReadSwitch, loans
<1>6. KindOf(d) = KindOf(c)
  BY <1>4 DEF KindOf
<1>7. PassOk(d)'
  BY <1>3, <1>4, <1>6 DEF PassOk, StillDue
<1> QED
  BY <1>5, <1>7, PassMoves, EventsStay DEF DigestInv

LEMMA LockKeeps ==
  ASSUME DigestInv, NEW p \in Processes, LockLoans(p)
  PROVE  DigestInv'
<1>1. PICK c : c = pass[p]
  OBVIOUS
<1>2. PICK b \in c.buckets :
        pass' = [pass EXCEPT ![p] =
          [c EXCEPT !.buckets = c.buckets \ {b}, !.due = LockAgain(c, b),
                    !.step = IF LockAgain(c, b) = {} THEN "EMIT" ELSE "HOLD",
                    !.to = IF LockAgain(c, b) = {} THEN Nobody ELSE b.to]]
  BY <1>1 DEF LockLoans
<1>3. PICK L : L = LockAgain(c, b)
  OBVIOUS
<1>4. PICK d : d = [c EXCEPT !.buckets = c.buckets \ {b}, !.due = L,
                             !.step = IF L = {} THEN "EMIT" ELSE "HOLD",
                             !.to = IF L = {} THEN Nobody ELSE b.to]
  OBVIOUS
<1>5. PassOk(c) /\ c.step \in {"EMIT", "LOCK"} /\ c.due = {} /\ c.buckets \subseteq Bucket /\ b \in Bucket
  BY <1>1 DEF LockLoans, DigestInv, PassOk, Pass
<1>6. L \subseteq b.loans /\ L \subseteq Loans /\ b.to \in To
  BY <1>3, <1>5 DEF LockAgain, StillDue, Bucket
<1>7. /\ d \in Pass /\ d.step \in {"EMIT", "HOLD"} /\ d.kind = c.kind /\ d.now = c.now
      /\ d.buckets = c.buckets \ {b} /\ d.due = L /\ d.knew = c.knew
      /\ (L # {} => d.step = "HOLD" /\ d.to = b.to) /\ (L = {} => d.step = "EMIT")
  BY <1>4, <1>5, <1>6 DEF PassOk, Pass, To
<1>8. pass' = [pass EXCEPT ![p] = d] /\ UNCHANGED <<clock, lent, dueOn, sent>>
  BY <1>2, <1>3, <1>4 DEF LockLoans, loans
<1>9. KindOf(d) = KindOf(c)
  BY <1>7 DEF KindOf
<1>10. \A l \in L : lent[l] = "OUT" /\ Matches(KindOf(c), l, c.now) /\ recipientOf(KindOf(c), l) = b.to
  BY <1>3, <1>5 DEF LockAgain, StillDue, PassOk
<1>11. ASSUME NEW l \in StillDue(d, d.knew)
       PROVE  Covered(d, l)
  <2>1. l \in StillDue(c, c.knew) /\ Covered(c, l)
    BY <1>5, <1>7, <1>9, <1>11 DEF StillDue, PassOk
  <2>2. CASE Announced(BorrowerOf[l], c)
    BY <1>7, <1>9, <2>2 DEF Covered, Announced, KeyOf
  <2>3. CASE b.to = BorrowerOf[l] /\ l \in b.loans
    <3>1. l \in L
      BY <1>3, <2>1, <2>3 DEF LockAgain, StillDue
    <3> QED
      BY <1>7, <2>3, <3>1 DEF Covered
  <2>4. CASE \E x \in c.buckets \ {b} : x.to = BorrowerOf[l] /\ l \in x.loans
    BY <1>7, <2>4 DEF Covered
  <2> QED
    BY <1>5, <2>1, <2>2, <2>3, <2>4 DEF Covered
<1>12. PassOk(d)
  BY <1>5, <1>7, <1>9, <1>10, <1>11 DEF PassOk
<1>13. PassOk(d)'
  <2>1. LoansGoOn(d.due)
    BY <1>8 DEF LoansGoOn
  <2> QED
    BY <1>8, <1>12, <2>1, PassKept
<1> QED
  BY <1>8, <1>13, PassMoves, EventsStay DEF DigestInv

\* What a pass writes is what it holds locked.
LEMMA CreateFacts ==
  ASSUME DigestAssumption, DigestInv, NEW p \in Processes, Create(p), NEW c, c = pass[p]
  PROVE  /\ PassOk(c) /\ c.step = "HOLD" /\ sent \subseteq sent'
         /\ \E e \in sent' : e.key = KeyOf(c.to, c)
         /\ \A e \in sent' \ sent :
              /\ e.key = KeyOf(c.to, c) /\ e.loans = c.due
              /\ \A f \in sent : f.key # e.key
              /\ \A l \in e.loans :
                   /\ lent[l] = "OUT" /\ e.key.to = recipientOf(e.key.kind, l)
                   /\ IF e.key.kind = "LOAN_OVERDUE" THEN dueOn[l] < e.key.day
                      ELSE dueOn[l] - Window = e.key.day
<1> DEFINE key == KeyOf(c.to, c)
<1>1. PassOk(c) /\ c.step = "HOLD" /\ c.due \subseteq Loans /\ c.now \in Nat
  BY DEF DigestInv, PassOk, Pass, Create
<1>2. sent' = sent \cup (IF \E e \in sent : e.key = key THEN {} ELSE {[key |-> key, loans |-> c.due]})
  BY DEF Create, KeyOf, dayOf
<1>3. \E e \in sent' : e.key = key
  <2>1. CASE \E e \in sent : e.key = key
    BY <1>2, <2>1
  <2>2. CASE ~\E e \in sent : e.key = key
    <3>1. PICK e : e = [key |-> key, loans |-> c.due]
      OBVIOUS
    <3>2. e.key = key /\ e \in sent'
      BY <1>2, <2>2, <3>1
    <3> QED
      BY <3>2
  <2> QED
    BY <2>1, <2>2
<1>4. ASSUME NEW e \in sent' \ sent
      PROVE  /\ e.key = key /\ e.loans = c.due
             /\ \A f \in sent : f.key # e.key
             /\ \A l \in e.loans :
                  /\ lent[l] = "OUT" /\ e.key.to = recipientOf(e.key.kind, l)
                  /\ IF e.key.kind = "LOAN_OVERDUE" THEN dueOn[l] < e.key.day
                     ELSE dueOn[l] - Window = e.key.day
  <2>1. e = [key |-> key, loans |-> c.due] /\ \A f \in sent : f.key # key
    BY <1>2
  <2>2. e.key = key /\ e.loans = c.due
    BY <2>1
  <2>3. key.to = c.to /\ key.kind = KindOf(c) /\ key.day = calendarDay(c.now)
    BY DEF KeyOf
  <2>4. ASSUME NEW l \in c.due
        PROVE  /\ lent[l] = "OUT" /\ c.to = recipientOf(KindOf(c), l)
               /\ IF KindOf(c) = "LOAN_OVERDUE" THEN dueOn[l] < calendarDay(c.now)
                  ELSE dueOn[l] - Window = calendarDay(c.now)
    <3>1. dueOn[l] \in Int /\ calendarDay(c.now) \in Int
      BY <1>1, <2>4, DayFacts DEF DigestInv
    <3>2. lent[l] = "OUT" /\ Matches(KindOf(c), l, c.now) /\ recipientOf(KindOf(c), l) = c.to
      BY <1>1, <2>4 DEF PassOk
    <3> QED
      BY <3>1, <3>2 DEF Matches
  <2> HIDE DEF key
  <2> QED
    BY <2>1, <2>2, <2>3, <2>4
<1> QED
  BY <1>1, <1>2, <1>3, <1>4

LEMMA CreateKeeps ==
  ASSUME DigestAssumption, DigestInv, NEW p \in Processes, Create(p)
  PROVE  DigestInv'
<1>1. PICK c : c = pass[p]
  OBVIOUS
<1>2. PICK d : d = [c EXCEPT !.step = "EMIT", !.due = {}, !.to = Nobody]
  OBVIOUS
<1>3. /\ PassOk(c) /\ c.step = "HOLD" /\ sent \subseteq sent'
      /\ \E e \in sent' : e.key = KeyOf(c.to, c)
      /\ \A e \in sent' \ sent :
           /\ e.key = KeyOf(c.to, c) /\ e.loans = c.due
           /\ \A f \in sent : f.key # e.key
           /\ \A l \in e.loans :
                /\ lent[l] = "OUT" /\ e.key.to = recipientOf(e.key.kind, l)
                /\ IF e.key.kind = "LOAN_OVERDUE" THEN dueOn[l] < e.key.day
                   ELSE dueOn[l] - Window = e.key.day
  BY <1>1, CreateFacts
<1>4. /\ d \in Pass /\ d.step = "EMIT" /\ d.kind = c.kind /\ d.now = c.now /\ d.buckets = c.buckets
      /\ d.due = {} /\ d.knew = c.knew
  BY <1>2, <1>3 DEF PassOk, Pass, To
<1>5. pass' = [pass EXCEPT ![p] = d] /\ UNCHANGED <<clock, lent, dueOn>>
  BY <1>1, <1>2 DEF Create, loans
<1>6. KindOf(d) = KindOf(c)
  BY <1>4 DEF KindOf
<1>7. ASSUME NEW l \in StillDue(d, d.knew)'
      PROVE  Covered(d, l)'
  <2>1. l \in StillDue(c, c.knew)
    BY <1>4, <1>5, <1>6, <1>7 DEF StillDue, Matches
  <2>2. Covered(c, l)
    BY <1>3, <2>1 DEF PassOk
  <2>3. \A u : KeyOf(u, d) = KeyOf(u, c)
    BY <1>4, <1>6 DEF KeyOf
  <2> QED
    BY <1>3, <1>4, <2>2, <2>3 DEF Covered, Announced
<1>8. PassOk(d)'
  BY <1>3, <1>4, <1>5, <1>6, <1>7 DEF PassOk
<1>9. EventsOk'
  <2>1. \A e, f \in sent' : e.key = f.key => e = f
    <3>1. \A e, f \in sent' \ sent : e = f
      BY DEF Create
    <3> QED
      BY <1>3, <3>1 DEF EventsOk, DigestInv
  <2>2. ASSUME NEW e \in sent'
        PROVE  /\ e.key = [to |-> e.key.to, kind |-> e.key.kind, day |-> e.key.day]
               /\ e.loans \subseteq Loans
               /\ \A l \in e.loans : /\ lent'[l] # "NO"
                                     /\ e.key.kind # "LOAN_OVERDUE" => dueOn'[l] - Window = e.key.day
    <3>1. CASE e \in sent
      BY <1>5, <3>1 DEF EventsOk, DigestInv
    <3>2. CASE e \notin sent
      <4>1. KeyOf(c.to, c) = [to |-> KeyOf(c.to, c).to, kind |-> KeyOf(c.to, c).kind, day |-> KeyOf(c.to, c).day]
        BY DEF KeyOf
      <4>2. c.due \subseteq Loans
        BY <1>3 DEF PassOk, Pass
      <4> QED
        BY <1>3, <1>5, <3>2, <4>1, <4>2
    <3> QED
      BY <3>1, <3>2
  <2> QED
    BY <2>1, <2>2 DEF EventsOk
<1> QED
  BY <1>3, <1>5, <1>8, <1>9, PassMoves

LEMMA NextKindKeeps ==
  ASSUME DigestInv, NEW p \in Processes, NextKind(p)
  PROVE  DigestInv'
<1>1. PICK c : c = pass[p]
  OBVIOUS
<1>2. PassOk(c) /\ c.step = "EMIT" /\ c.buckets = {} /\ c.due = {} /\ c.kind \in 1..3 /\ c \in Pass
  BY <1>1 DEF NextKind, Emitted, DigestInv, PassOk, Pass
<1>3. UNCHANGED <<clock, lent, dueOn, sent>> /\ EventsOk'
  BY EventsStay DEF NextKind, loans, DigestInv
<1>4. CASE c.kind = 3
  <2>1. pass' = [pass EXCEPT ![p] = Idle]
    BY <1>1, <1>4, KindFacts DEF NextKind
  <2>2. PassOk(Idle)'
    <3>1. PICK i : i = Idle
      OBVIOUS
    <3>2. PassOk(i) /\ LoansGoOn(i.due)
      BY <1>3, <3>1, IdleFacts DEF LoansGoOn
    <3>3. PassOk(i)'
      BY <1>3, <3>2, PassKept
    <3> QED
      BY <3>1, <3>3
  <2> QED
    BY <1>3, <2>1, <2>2, PassMoves
<1>5. CASE c.kind # 3
  <2>1. PICK K : K = IF ToOwner(Kinds[c.kind + 1]) THEN {} ELSE c.knew
    OBVIOUS
  <2>2. PICK d : d = [c EXCEPT !.kind = c.kind + 1, !.step = "SCAN", !.knew = K]
    OBVIOUS
  <2>3. pass' = [pass EXCEPT ![p] = d]
    BY <1>1, <1>5, <2>1, <2>2, KindFacts DEF NextKind
  <2>4. K \subseteq c.knew /\ K \subseteq Loans
    BY <1>2, <2>1 DEF Pass
  <2>5. /\ d \in Pass /\ d.step = "SCAN" /\ d.kind = c.kind + 1 /\ d.buckets = {} /\ d.due = {} /\ d.knew = K
    <3>1. c.kind + 1 \in 1..3
      BY <1>2, <1>5
    <3>2. d = [step |-> "SCAN", kind |-> c.kind + 1, now |-> c.now, buckets |-> c.buckets,
               to |-> c.to, due |-> c.due, knew |-> K]
      BY <1>2, <2>2 DEF Pass
    <3>3. /\ c.now \in Nat /\ c.buckets \in SUBSET Bucket /\ c.to \in To
          /\ c.due \in SUBSET Loans /\ K \in SUBSET Loans
      BY <1>2, <2>4 DEF Pass
    <3> QED
      BY <1>2, <3>1, <3>2, <3>3 DEF Pass
  <2>6. K # {} => ~ToOwner(KindOf(d))
    BY <2>1, <2>5 DEF KindOf
  <2>7. PassOk(d)'
    BY <1>2, <1>3, <2>4, <2>5, <2>6 DEF PassOk
  <2> QED
    BY <1>3, <2>3, <2>7, PassMoves
<1> QED
  BY <1>4, <1>5

LEMMA FailKeeps ==
  ASSUME DigestInv, NEW p \in Processes, Fail(p)
  PROVE  DigestInv'
<1>1. pass' = [pass EXCEPT ![p] = Idle] /\ UNCHANGED <<clock, lent, dueOn, sent>> /\ EventsOk'
  BY EventsStay DEF Fail, loans, DigestInv
<1>2. PICK i : i = Idle
  OBVIOUS
<1>3. PassOk(i) /\ LoansGoOn(i.due)
  BY <1>1, <1>2, IdleFacts DEF LoansGoOn
<1>4. PassOk(i)'
  BY <1>1, <1>3, PassKept
<1> QED
  BY <1>1, <1>2, <1>4, PassMoves

LEMMA DigestStep ==
  ASSUME DigestAssumption, DigestInv, [DNext]_dvars
  PROVE  DigestInv'
<1>1. CASE Tick \/ SwitchReminders \/ UNCHANGED dvars
  BY <1>1, ClockKeeps
<1>2. CASE \E l \in Loans : HandOver(l) \/ Return(l)
  BY <1>2, LendingKeeps
<1>3. ASSUME NEW p \in Processes,
             Trigger(p) \/ Scan(p) \/ ReadSwitch(p) \/ LockLoans(p) \/ Create(p) \/ NextKind(p) \/ Fail(p)
      PROVE  DigestInv'
  BY <1>3, TriggerKeeps, ScanKeeps, ReadSwitchKeeps, LockKeeps, CreateKeeps, NextKindKeeps, FailKeeps
<1> QED
  BY <1>1, <1>2, <1>3 DEF DNext

LEMMA DigestInit ==
  ASSUME DInit
  PROVE  DigestInv
<1>1. PassOk(Idle) /\ Idle \in Pass
  BY IdleFacts DEF PassOk
<1> QED
  BY <1>1 DEF DInit, DigestInv, EventsOk

\* notification-digest.service.ts: what a pass has grouped and locked is as it saw it, and
\* events and passes between them leave nobody out.
THEOREM DigestInvariance ==
  ASSUME DigestAssumption
  PROVE  DSpec => []DigestInv
<1>1. DInit => DigestInv
  BY DigestInit
<1>2. DigestInv /\ [DNext]_dvars => DigestInv'
  BY DigestStep
<1> QED
  BY <1>1, <1>2, PTL DEF DSpec

-----------------------------------------------------------------------------
(* What the events are true of *)

LEMMA OnceOnly ==
  ASSUME DigestInv
  PROVE  RemindedOnce
<1> SUFFICES ASSUME NEW e \in sent, NEW f \in sent, e.key.to = f.key.to, e.key.kind = f.key.kind, e # f
             PROVE  /\ e.key.day # f.key.day
                    /\ e.key.kind # "LOAN_OVERDUE" => e.loans \cap f.loans = {}
  BY DEF RemindedOnce
<1>1. /\ e.key = [to |-> e.key.to, kind |-> e.key.kind, day |-> e.key.day]
      /\ f.key = [to |-> f.key.to, kind |-> f.key.kind, day |-> f.key.day]
      /\ e.key # f.key
  BY DEF DigestInv, EventsOk
<1>2. e.key.day # f.key.day
  BY <1>1
<1>3. ASSUME e.key.kind # "LOAN_OVERDUE", NEW l \in e.loans \cap f.loans
      PROVE  FALSE
  BY <1>2, <1>3 DEF DigestInv, EventsOk
<1> QED
  BY <1>2, <1>3

LEMMA OnlyTrue ==
  ASSUME DigestAssumption, DigestInv, [DNext]_dvars, NEW e \in sent' \ sent, NEW l \in e.loans
  PROVE  /\ lent[l] = "OUT" /\ e.key.to = recipientOf(e.key.kind, l)
         /\ IF e.key.kind = "LOAN_OVERDUE" THEN dueOn[l] < e.key.day ELSE dueOn[l] - Window = e.key.day
<1>1. sent' # sent
  OBVIOUS
<1>2. PICK p \in Processes : Create(p)
  BY <1>1 DEF DNext, dvars, Tick, SwitchReminders, HandOver, Return, Trigger, Scan, ReadSwitch,
              LockLoans, NextKind, Fail
<1>3. PICK c : c = pass[p]
  OBVIOUS
<1> QED
  BY <1>2, <1>3, CreateFacts

LEMMA NobodyLeftOut ==
  ASSUME DigestInv, NEW p \in Processes, Emitted(pass[p]), NEW l \in StillDue(pass[p], pass[p].knew)
  PROVE  [to |-> BorrowerOf[l], kind |-> KindOf(pass[p]), day |-> calendarDay(pass[p].now)]
           \in {e.key : e \in sent}
<1>1. PICK c : c = pass[p]
  OBVIOUS
<1>2. PassOk(c) /\ c.step = "EMIT" /\ c.buckets = {} /\ l \in StillDue(c, c.knew)
  BY <1>1 DEF DigestInv, Emitted
<1>3. c.due = {} /\ Covered(c, l)
  BY <1>2 DEF PassOk
<1>4. PICK e \in sent : e.key = KeyOf(BorrowerOf[l], c)
  BY <1>2, <1>3 DEF Covered, Announced
<1> QED
  BY <1>1, <1>4 DEF KeyOf

\* notification-digest.service.ts: however many processes make passes at once, and across
\* midnight, nobody is reminded twice, of a book that is back or of a wrong day, and whoever
\* is to be reminded of a book has the event once a pass has got through.
THEOREM RemindersAreDueHolds ==
  ASSUME DigestAssumption
  PROVE  DSpec => RemindersAreDue
<1>1. DigestInv => RemindedOnce
  BY OnceOnly
<1>2. DigestInv /\ [DNext]_dvars =>
        [\A e \in sent' \ sent : \A l \in e.loans :
           /\ lent[l] = "OUT" /\ e.key.to = recipientOf(e.key.kind, l)
           /\ IF e.key.kind = "LOAN_OVERDUE" THEN dueOn[l] < e.key.day ELSE dueOn[l] - Window = e.key.day]_dvars
  BY OnlyTrue
<1>3. DigestInv /\ [DNext]_dvars =>
        [\A p \in Processes :
           LET c == pass[p] IN
           Emitted(c) /\ pass'[p].step # "EMIT" =>
             \A l \in StillDue(c, c.knew) :
                [to |-> BorrowerOf[l], kind |-> KindOf(c), day |-> calendarDay(c.now)] \in {e.key : e \in sent}]_dvars
  BY NobodyLeftOut
<1> QED
  BY <1>1, <1>2, <1>3, DigestInvariance, PTL DEF DSpec, RemindersAreDue, RemindersAreTrue, NobodyForgotten

=============================================================================
