--------------------------- MODULE LibraryImport ---------------------------
(***************************************************************************)
(* One owner imports one file (library/import/): previews, row patches and *)
(* commits of the same draft from several tabs, against a catalog that     *)
(* other users change meanwhile.                                           *)
(*                                                                         *)
(* All rows of the file carry one ISBN, which the catalog does not know at *)
(* first; the work "w" resembles the book, and a merge may replace it by   *)
(* "t".  Cells, errors and provider answers are data and left out: a row is*)
(* its version and what it resolved to.  A transaction that locks the      *)
(* import row writes in the step that commits it.                          *)
(***************************************************************************)
EXTENDS Naturals, FiniteSets

CONSTANTS Tabs,        \* the owner's clients; each sends one request at a time
          RowNos,      \* the data rows of the file
          TTL,         \* DRAFT_TTL_MS
          MaxTime,     \* bound on the clock
          MaxVersion   \* bound on the row versions minted

Free == "free"

\* A file without data rows is refused when it is parsed.
ASSUME ImportAssumption ==
  /\ TTL \in Nat \ {0} /\ MaxTime \in Nat /\ MaxVersion \in Nat
  /\ RowNos \subseteq Nat /\ RowNos # {} /\ IsFiniteSet(RowNos)
  /\ Free \notin Tabs

VARIABLES clock,
          imp,       \* the LibraryImport row and its LibraryImportRow rows
          copies,    \* copies created by commits of this import
          edition,   \* the work the ISBN's edition hangs on, or "none"
          merged,    \* w was merged into t
          fresh,     \* the next row version
          pc, req, found, seen,
          rowLock, workLock
ivars == <<clock, imp, copies, edition, merged, fresh, pc, req, found, seen, rowLock, workLock>>

NoRows == <<>>
Choices == {"unset", "new", "w", "t"}
Kinds == {"EXISTING", "CHAIN", "REVIEW", "SKIPPED"}
NoRequest == [op |-> "GET", row |-> 0, work |-> "unset", now |-> 0]
NoDoc == [status |-> "NONE", rows |-> NoRows]
Requests(now) ==
  [op : {"GET", "PREVIEW", "COMMIT"}, row : {0}, work : {"unset"}, now : {now}]
  \cup [op : {"SKIP", "RETRY", "EDIT"}, row : RowNos, work : {"unset"}, now : {now}]
  \cup [op : {"CHOOSE"}, row : RowNos, work : {"new", "w", "t"}, now : {now}]
Patches == {"SKIP", "RETRY", "EDIT", "CHOOSE"}

-----------------------------------------------------------------------------
(* Resolution of a row against the catalog as it is now. *)

Candidates == IF merged THEN {"t"} ELSE {"w"}

Resolved(ver, chosen) ==
  IF edition # "none" THEN [ver |-> ver, kind |-> "EXISTING", work |-> "unset"]
  ELSE IF chosen \in Candidates \cup {"new"}
       THEN [ver |-> ver, kind |-> "CHAIN", work |-> chosen]
       ELSE [ver |-> ver, kind |-> "REVIEW", work |-> "unset"]

Skipped(ver) == [ver |-> ver, kind |-> "SKIPPED", work |-> "unset"]

\* A fresh draft: every row new, nothing chosen.
Parsed == [r \in RowNos |-> Resolved(fresh + Cardinality({q \in RowNos : q < r}), "unset")]

ChoiceOf(row) == IF row.kind = "CHAIN" THEN row.work ELSE "unset"

NewRowVersion(row) == fresh

\* The patched row gets a new version; the others are resolved again and keep theirs.
Rebuilt(rows, q) ==
  [r \in RowNos |->
     IF r # q.row
     THEN IF rows[r].kind = "SKIPPED" THEN rows[r]
          ELSE Resolved(rows[r].ver, ChoiceOf(rows[r]))
     ELSE CASE q.op = "SKIP"   -> Skipped(NewRowVersion(rows[r]))
            [] q.op = "RETRY"  -> Resolved(NewRowVersion(rows[r]), ChoiceOf(rows[r]))
            [] q.op = "EDIT"   -> Resolved(NewRowVersion(rows[r]), "unset")
            [] q.op = "CHOOSE" -> Resolved(NewRowVersion(rows[r]), q.work)]

\* requireOfferedChoice
Offered(q) == q.op = "CHOOSE" => q.work = "new" \/ (edition = "none" /\ q.work \in Candidates)

\* assessLibraryImportCommit: no blockers, and the chains the plan would create.
Committable(rows) == {r \in RowNos : rows[r].kind \in {"EXISTING", "CHAIN"}}
Coherent(rows) == \A r, s \in Committable(rows) : rows[r].kind = rows[s].kind /\ rows[r].work = rows[s].work
Importable(rows) == /\ \A r \in RowNos : rows[r].kind # "REVIEW"
                    /\ Committable(rows) # {}
                    /\ Coherent(rows)
ChainWorks(rows) == {rows[r].work : r \in {s \in RowNos : rows[s].kind = "CHAIN"}}

DraftVersion(rows) == IF rows = NoRows THEN NoRows ELSE [r \in RowNos |-> rows[r].ver]

-----------------------------------------------------------------------------
(* Requests. *)

IInit == /\ clock = 0
         /\ imp = [status |-> "NONE", rows |-> NoRows, exp |-> 0]
         /\ copies = 0 /\ edition = "none" /\ merged = FALSE /\ fresh = 1
         /\ pc = [t \in Tabs |-> "idle"]
         /\ req = [t \in Tabs |-> NoRequest]
         /\ found = [t \in Tabs |-> "NONE"]
         /\ seen = [t \in Tabs |-> NoDoc]
         /\ rowLock = Free /\ workLock = Free

DB == <<imp, copies, edition, merged, fresh>>
Locks == <<rowLock, workLock>>
Overdue(now) == imp.status = "DRAFT" /\ imp.exp <= now
To(t, where) == pc' = [pc EXCEPT ![t] = where]
Unlock(t) == /\ rowLock' = (IF rowLock = t THEN Free ELSE rowLock)
             /\ workLock' = (IF workLock = t THEN Free ELSE workLock)
Done(t) == /\ To(t, "idle") /\ Unlock(t)
           /\ req' = [req EXCEPT ![t] = NoRequest] /\ found' = [found EXCEPT ![t] = "NONE"]

\* The answer reaches the tab, or is lost on the way.
Answer(t, document) == Done(t) /\ seen' \in {seen, [seen EXCEPT ![t] = document]}
Refuse(t) == Done(t) /\ UNCHANGED seen
Working(t, where) == To(t, where) /\ UNCHANGED <<req, found, seen, rowLock, workLock>>

\* The request goes on in a new transaction.
Restart(t, where, q) == /\ To(t, where) /\ Unlock(t) /\ UNCHANGED seen
                        /\ req' = [req EXCEPT ![t] = q]
                        /\ found' = [found EXCEPT ![t] = "NONE"]

Send(t) ==
  /\ pc[t] = "idle"
  /\ \E q \in Requests(clock) :
       /\ q.op \notin {"GET", "PREVIEW"} => seen[t].status = "DRAFT" /\ seen[t].rows # NoRows
       /\ q.op = "GET" => imp.status # "NONE"
       /\ q.op = "COMMIT" => Importable(seen[t].rows)
       /\ req' = [req EXCEPT ![t] = q]
       /\ To(t, IF q.op = "COMMIT" THEN "lock" ELSE "find")
  /\ UNCHANGED <<clock, DB, found, seen, Locks>>

RequireCurrentRow(rows, t) == rows[req[t].row].ver = seen[t].rows[req[t].row].ver

\* What the request does with the draft it has read: getDraft answers it, preview answers
\* a live draft or a finished import and saves the file otherwise, and patchRow checks the
\* row's version before it asks the provider.
React(t, document) ==
  LET op == req[t].op  live == document.status \in {"DRAFT", "COMMITTED"} IN
  \/ op \in {"GET", "PREVIEW"} /\ live /\ Answer(t, document)
  \/ op = "GET" /\ ~live /\ Refuse(t)
  \/ op = "PREVIEW" /\ ~live /\ Restart(t, "lock", req[t])
  \/ /\ op \in Patches
     /\ IF document.status = "DRAFT" /\ document.rows # NoRows /\ RequireCurrentRow(document.rows, t)
        THEN Restart(t, "lock", [req[t] EXCEPT !.now = clock])
        ELSE Refuse(t)

(* findOwned, findOwnedByHash: expire what is overdue, then read without a lock. *)
Find(t) ==
  /\ pc[t] = "find"
  /\ To(t, IF Overdue(req[t].now) THEN "expire" ELSE "rows")
  /\ found' = [found EXCEPT ![t] = imp.status]
  /\ UNCHANGED <<clock, DB, req, seen, Locks>>

Faulty_StillOverdue(t) == imp.status = "DRAFT"

StillOverdue(t) == Overdue(req[t].now)

Expired(import) == [import EXCEPT !.status = "EXPIRED", !.rows = NoRows]

\* expireOwnerDrafts: the candidate is locked, read again, and expired if it still is one.
Expire(t) ==
  /\ pc[t] = "expire" /\ rowLock = Free
  /\ imp' = IF StillOverdue(t) THEN Expired(imp) ELSE imp
  /\ React(t, [status |-> imp'.status, rows |-> imp'.rows])
  /\ UNCHANGED <<clock, copies, edition, merged, fresh>>

\* The import and its rows are two SELECTs of one READ COMMITTED transaction.
ReadRows(t) == /\ pc[t] = "rows"
               /\ React(t, [status |-> found[t], rows |-> imp.rows])
               /\ UNCHANGED <<clock, DB>>

-----------------------------------------------------------------------------
(* Transactions on the import row. *)

\* SELECT ... FOR UPDATE; a row that does not exist yet cannot be locked.
Lock(t) == /\ pc[t] = "lock" /\ req[t].op \in {"PREVIEW", "COMMIT"} /\ rowLock = Free
           /\ rowLock' = (IF imp.status = "NONE" THEN rowLock ELSE t)
           /\ To(t, "locked")
           /\ UNCHANGED <<clock, DB, req, found, seen, workLock>>

\* The status after the transaction's own expiry, which a refusal rolls back.
View(t) == IF Overdue(req[t].now) THEN "EXPIRED" ELSE imp.status

\* A committed import is never reset.
Revivable(status) == status = "EXPIRED"
Draft(now) == [status |-> "DRAFT", rows |-> Parsed, exp |-> now + TTL]

SaveDraft(t) ==
  /\ pc[t] = "locked" /\ req[t].op = "PREVIEW"
  /\ \/ \* CREATED, REVIVED
        /\ IF rowLock = t THEN Revivable(View(t)) ELSE imp.status = "NONE"
        /\ fresh + Cardinality(RowNos) <= MaxVersion
        /\ imp' = Draft(req[t].now) /\ fresh' = fresh + Cardinality(RowNos)
        /\ Answer(t, [status |-> "DRAFT", rows |-> Parsed])
     \/ \* EXISTING_DRAFT, COMMITTED: the other preview's draft is read instead
        /\ rowLock = t /\ ~Revivable(View(t))
        /\ Restart(t, "find", [NoRequest EXCEPT !.now = clock]) /\ UNCHANGED <<imp, fresh>>
     \/ \* the unique violation of two first saves: once more in a new transaction
        /\ rowLock # t /\ imp.status # "NONE"
        /\ Restart(t, "lock", req[t]) /\ UNCHANGED <<imp, fresh>>
  /\ UNCHANGED <<clock, copies, edition, merged>>

UpdateRows(t) ==
  /\ pc[t] = "lock" /\ req[t].op \in Patches /\ rowLock = Free
  /\ IF View(t) = "DRAFT" /\ RequireCurrentRow(imp.rows, t) /\ Offered(req[t])
     THEN /\ fresh < MaxVersion
          /\ imp' = [imp EXCEPT !.rows = Rebuilt(imp.rows, req[t])]
          /\ fresh' = fresh + 1
          /\ Answer(t, [status |-> "DRAFT", rows |-> imp'.rows])
     ELSE Refuse(t) /\ UNCHANGED <<imp, fresh>>
  /\ UNCHANGED <<clock, copies, edition, merged>>

Faulty_RequireCurrentDraft(t) == TRUE

RequireCurrentDraft(t) == DraftVersion(imp.rows) = DraftVersion(seen[t].rows)

\* commit: a finished import answers first; then expiry, version and blockers.
Assess(t) ==
  /\ pc[t] = "locked" /\ req[t].op = "COMMIT"
  /\ CASE View(t) = "COMMITTED" -> Answer(t, [status |-> "COMMITTED", rows |-> NoRows])
       [] View(t) = "DRAFT" /\ RequireCurrentDraft(t) /\ Importable(imp.rows) ->
            Working(t, IF ChainWorks(imp.rows) \ {"new"} # {} THEN "work" ELSE "catalog")
       [] OTHER -> Refuse(t)
  /\ UNCHANGED <<clock, DB>>

Faulty_LockChosenWorks(t) == pc[t] = "work" /\ Working(t, "catalog") /\ UNCHANGED <<clock, DB>>

LockChosenWorks(t) ==
  /\ pc[t] = "work" /\ workLock = Free
  /\ workLock' = t /\ To(t, "catalog")
  /\ UNCHANGED <<clock, DB, req, found, seen, rowLock>>

\* assertCatalogUnchanged
CheckCatalog(t) ==
  /\ pc[t] = "catalog"
  /\ IF ChainWorks(imp.rows) # {} /\ (edition # "none" \/ (merged /\ "w" \in ChainWorks(imp.rows)))
     THEN Refuse(t) ELSE Working(t, "write")
  /\ UNCHANGED <<clock, DB>>

\* write: an edition inserted since the check breaks the ISBN index and everything rolls back.
Write(t) ==
  /\ pc[t] = "write"
  /\ IF ChainWorks(imp.rows) # {} /\ edition # "none"
     THEN Refuse(t) /\ UNCHANGED <<imp, copies, edition>>
     ELSE /\ imp' = [imp EXCEPT !.status = "COMMITTED", !.rows = NoRows]
          /\ copies' = copies + Cardinality(Committable(imp.rows))
          /\ edition' = (IF ChainWorks(imp.rows) = {} THEN edition
                         ELSE CHOOSE w \in ChainWorks(imp.rows) : TRUE)
          /\ Answer(t, [status |-> "COMMITTED", rows |-> NoRows])
  /\ UNCHANGED <<clock, merged, fresh>>

-----------------------------------------------------------------------------
(* The rest of the system. *)

\* Another user adds the ISBN on a work of their own.
EditionAppears == /\ edition = "none" /\ edition' = "theirs"
                  /\ UNCHANGED <<clock, imp, copies, merged, fresh, pc, req, found, seen, rowLock, workLock>>

\* MergeService.merge(w, t) waits for the lock of w and moves its editions.
MergeWork == /\ ~merged /\ workLock = Free /\ merged' = TRUE
             /\ edition' = (IF edition = "w" THEN "t" ELSE edition)
             /\ UNCHANGED <<clock, imp, copies, fresh, pc, req, found, seen, rowLock, workLock>>

Tick == clock < MaxTime /\ clock' = clock + 1
        /\ UNCHANGED <<DB, pc, req, found, seen, rowLock, workLock>>

INext == \/ \E t \in Tabs : \/ Send(t) \/ Find(t) \/ Expire(t) \/ ReadRows(t)
                            \/ Lock(t) \/ SaveDraft(t) \/ UpdateRows(t)
                            \/ Assess(t) \/ LockChosenWorks(t) \/ CheckCatalog(t) \/ Write(t)
         \/ EditionAppears \/ MergeWork \/ Tick

ISpec == IInit /\ [][INext]_ivars

-----------------------------------------------------------------------------
(* Rows -- private notes included -- exist exactly while the import is a draft: *)
(* expiry and commit delete them in the transaction that changes the status.   *)
RowsLiveWithTheDraft == imp.rows # NoRows <=> imp.status = "DRAFT"

(* Whatever retries, tabs and lost answers do, copies are created once, and *)
(* a committed import never changes again.                                   *)
CommittedOnce == [][/\ imp.status = "COMMITTED" => imp' = imp
                    /\ copies' # copies => imp.status = "DRAFT" /\ imp'.status = "COMMITTED" /\ copies = 0]_ivars

(* What is imported is what the committing tab had on its screen: every row's *)
(* decision, not only its version, is the one it reviewed.                    *)
ImportedAsReviewed ==
  [][copies' # copies => \E t \in Tabs : pc[t] = "write" /\ imp.rows = seen[t].rows]_ivars

(* A skipped row comes back only by a patch whose tab saw it skipped: a slow *)
(* RETRY does not undo the SKIP made while it waited for the provider.  (A   *)
(* file sent again after the draft expired is a draft of its own, expiring   *)
(* later.)                                                                   *)
PatchesWhatWasSeen ==
  [][\A r \in DOMAIN imp.rows :
       imp.status = "DRAFT" /\ imp'.status = "DRAFT" /\ imp'.exp = imp.exp /\ imp.rows[r].kind = "SKIPPED" /\ imp'.rows[r].kind # "SKIPPED"
       => \E t \in Tabs : pc[t] = "lock" /\ req[t].op \in Patches /\ seen[t].rows[r] = imp.rows[r]]_ivars

(* A draft revived while an expiry waited for its lock is left alone. *)
OnlyOverdueExpire == [][imp.status = "DRAFT" /\ imp'.status = "EXPIRED" => imp.exp <= clock]_ivars

(* An imported edition never hangs on a work that was merged away. *)
EditionOnCanonicalWork == edition = "w" => ~merged

(* Copies are made once, from what the tab that commits has seen; no patch   *)
(* brings back a row whose tab has not seen it skipped.                      *)
ImportsWhatWasReviewed == CommittedOnce /\ ImportedAsReviewed /\ PatchesWhatWasSeen

(* Notes live with the draft, and a draft that is not overdue is left alone. *)
DraftsEndWithTheirRows == []RowsLiveWithTheDraft /\ OnlyOverdueExpire


=============================================================================
