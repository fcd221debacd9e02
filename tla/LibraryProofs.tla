---------------------------- MODULE LibraryProofs ----------------------------
(* Proofs about the two ways of filling a library: LibraryImport, for any tabs,   *)
(* rows and bounds, and QuickAdd, for any users, operations and records.          *)
(*                                                                                *)
(* An import decides in a transaction that has locked the draft, its rows and the *)
(* canonical works; what it has found there stands until it commits, because the  *)
(* others wait for those locks (ImportInv).                                       *)
(*                                                                                *)
(* A quick add holds the advisory lock of its operation, so nobody else writes    *)
(* that operation, and two that both insert an ISBN or a reference wait for each  *)
(* other (AddInv); an attempt is repeated only against an edition that is there.  *)
EXTENDS LibraryImport, QuickAdd, FiniteSetTheorems, TLAPS

(* Imports *)

Statuses == {"NONE", "DRAFT", "COMMITTED", "EXPIRED"}
ImportRow == [ver : Nat, kind : Kinds \ {"SKIPPED"}, work : Choices]
       \cup [ver : Nat, kind : {"SKIPPED"}, work : {"unset"}]
Rows == [RowNos -> ImportRow]
Request == [op : {"GET", "PREVIEW", "COMMIT"} \cup Patches, row : RowNos \cup {0},
            work : Choices, now : Nat]
Document == [status : Statuses, rows : Rows \cup {NoRows}]
Places == {"idle", "find", "expire", "rows", "lock", "locked", "work", "catalog", "write"}

TabsTyped ==
  /\ pc \in [Tabs -> Places] /\ req \in [Tabs -> Request]
  /\ found \in [Tabs -> Statuses] /\ seen \in [Tabs -> Document]
  /\ rowLock \in Tabs \cup {Free} /\ workLock \in Tabs \cup {Free}

ImportTyped ==
  /\ clock \in Nat /\ copies \in Nat /\ merged \in BOOLEAN /\ fresh \in Nat
  /\ imp \in [status : Statuses, rows : Rows \cup {NoRows}, exp : Nat]
  /\ TabsTyped

\* A version belongs to one state of a row, up to what the catalog makes of it; all the
\* versions of a draft, to one state of the draft.
Dated(rows) == \A r \in RowNos : rows[r].ver < fresh
Agree(rows, old) ==
  /\ DraftVersion(rows) = DraftVersion(old) => rows = old
  /\ \A r \in RowNos : rows[r].ver = old[r].ver => (rows[r].kind = "SKIPPED" <=> old[r].kind = "SKIPPED")
VersionsTell ==
  /\ imp.rows # NoRows => Dated(imp.rows)
  /\ \A t \in Tabs : seen[t].rows # NoRows =>
       Dated(seen[t].rows) /\ (imp.rows # NoRows => Agree(imp.rows, seen[t].rows))

\* A request is about an import that is there, and about a draft its tab has seen.
Asked(t) ==
  /\ req[t].now <= clock
  /\ seen[t].status # "NONE" \/ found[t] # "NONE" => imp.status # "NONE"
  /\ req[t].op \notin {"GET", "PREVIEW"} => seen[t].status = "DRAFT" /\ seen[t].rows # NoRows
  /\ req[t].op \in Patches => req[t].row \in RowNos

\* A commit under way keeps the import, and the works it chose, as they are.
Holds(t) ==
  /\ pc[t] = "locked" /\ req[t].op = "COMMIT" => rowLock = t
  /\ pc[t] \in {"work", "catalog", "write"} =>
       rowLock = t /\ imp.status = "DRAFT" /\ imp.rows = seen[t].rows
  /\ pc[t] \in {"catalog", "write"} /\ ChainWorks(imp.rows) \ {"new"} # {} => workLock = t
  /\ pc[t] = "write" => ~(merged /\ "w" \in ChainWorks(imp.rows))

ImportInv ==
  /\ ImportTyped /\ RowsLiveWithTheDraft /\ EditionOnCanonicalWork /\ VersionsTell
  /\ copies # 0 => imp.status = "COMMITTED"
  /\ \A t \in Tabs : Asked(t) /\ Holds(t)

-----------------------------------------------------------------------------

LEMMA RowsAreRows ==
  /\ \A rows \in Rows : rows # NoRows
  /\ \A rows \in Rows : DraftVersion(rows) = [r \in RowNos |-> rows[r].ver]
  /\ \A rows \in Rows : DraftVersion(rows) # DraftVersion(NoRows)
<1>1. RowNos # {} /\ DOMAIN NoRows = {}
  <2>1. DOMAIN <<>> = {}
    OBVIOUS
  <2> QED
    BY <2>1, ImportAssumption DEF NoRows
<1>2. \A rows \in Rows : rows # NoRows
  BY <1>1 DEF Rows
<1>3. \A rows \in Rows : DraftVersion(rows) = [r \in RowNos |-> rows[r].ver]
  BY <1>2 DEF DraftVersion
<1>4. \A rows \in Rows : [r \in RowNos |-> rows[r].ver] # NoRows
  BY <1>1
<1>5. DraftVersion(NoRows) = NoRows
  BY DEF DraftVersion
<1> QED
  BY <1>2, <1>3, <1>4, <1>5

LEMMA AgreesWithItself ==
  ASSUME NEW rows \in Rows
  PROVE  Agree(rows, rows)
BY DEF Agree

LEMMA ResolvedIsRow ==
  ASSUME NEW v \in Nat, NEW w \in Choices
  PROVE  /\ Resolved(v, w) \in ImportRow /\ Resolved(v, w).ver = v /\ Resolved(v, w).kind # "SKIPPED"
         /\ Skipped(v) \in ImportRow /\ Skipped(v).ver = v /\ Skipped(v).kind = "SKIPPED"
BY DEF Resolved, Skipped, ImportRow, Kinds, Choices, Candidates

LEMMA ParsedIsNew ==
  ASSUME ImportTyped
  PROVE  /\ Parsed \in Rows /\ fresh + Cardinality(RowNos) \in Nat
         /\ fresh <= fresh + Cardinality(RowNos)
         /\ \A r \in RowNos : /\ fresh <= Parsed[r].ver /\ Parsed[r].ver < fresh + Cardinality(RowNos)
                              /\ Parsed[r].kind # "SKIPPED"
<1> DEFINE before(r) == {q \in RowNos : q < r}
<1>1. Cardinality(RowNos) \in Nat /\ fresh \in Nat /\ IsFiniteSet(RowNos) /\ RowNos \subseteq Nat
  BY ImportAssumption, FS_CardinalityType DEF ImportTyped
<1>2. ASSUME NEW r \in RowNos
      PROVE  Cardinality(before(r)) \in Nat /\ Cardinality(before(r)) < Cardinality(RowNos)
  <2>1. before(r) \subseteq RowNos \ {r} /\ IsFiniteSet(RowNos \ {r})
    BY <1>1, FS_RemoveElement
  <2>2. Cardinality(RowNos \ {r}) = Cardinality(RowNos) - 1
    BY <1>1, FS_RemoveElement
  <2>3. IsFiniteSet(before(r)) /\ Cardinality(before(r)) <= Cardinality(RowNos \ {r})
    BY <2>1, FS_Subset
  <2>4. Cardinality(before(r)) \in Nat
    BY <2>3, FS_CardinalityType
  <2> HIDE DEF before
  <2> QED
    BY <1>1, <2>2, <2>3, <2>4
<1>3. \A r \in RowNos : Parsed[r] = Resolved(fresh + Cardinality(before(r)), "unset")
  BY DEF Parsed
<1>4. ASSUME NEW r \in RowNos
      PROVE  /\ Parsed[r] \in ImportRow /\ Parsed[r].ver = fresh + Cardinality(before(r))
             /\ Parsed[r].kind # "SKIPPED"
  <2> HIDE DEF before
  <2>1. fresh + Cardinality(before(r)) \in Nat /\ "unset" \in Choices
    BY <1>1, <1>2 DEF Choices
  <2> QED
    BY <1>3, <2>1, ResolvedIsRow
<1>5. Parsed \in Rows
  <2>1. Parsed = [r \in RowNos |-> Parsed[r]]
    BY DEF Parsed
  <2> QED
    BY <1>4, <2>1 DEF Rows
<1> HIDE DEF before
<1> QED
  BY <1>1, <1>2, <1>4, <1>5

LEMMA RebuiltIsNew ==
  ASSUME NEW rows \in Rows, NEW q \in Request, q.op \in Patches, q.row \in RowNos, fresh \in Nat
  PROVE  /\ Rebuilt(rows, q) \in Rows
         /\ Rebuilt(rows, q)[q.row].ver = fresh
         /\ \A r \in RowNos \ {q.row} : /\ Rebuilt(rows, q)[r].ver = rows[r].ver
                                        /\ Rebuilt(rows, q)[r].kind = "SKIPPED" <=> rows[r].kind = "SKIPPED"
<1>1. \A r \in RowNos : rows[r] \in ImportRow /\ rows[r].ver \in Nat /\ ChoiceOf(rows[r]) \in Choices
  BY DEF Rows, ImportRow, ChoiceOf, Choices
<1>2. ASSUME NEW r \in RowNos \ {q.row}
      PROVE  /\ Rebuilt(rows, q)[r] \in ImportRow /\ Rebuilt(rows, q)[r].ver = rows[r].ver
             /\ Rebuilt(rows, q)[r].kind = "SKIPPED" <=> rows[r].kind = "SKIPPED"
  <2>1. Rebuilt(rows, q)[r] = IF rows[r].kind = "SKIPPED" THEN rows[r]
                              ELSE Resolved(rows[r].ver, ChoiceOf(rows[r]))
    BY DEF Rebuilt
  <2> QED
    BY <1>1, <2>1, ResolvedIsRow
<1>3. Rebuilt(rows, q)[q.row] \in ImportRow /\ Rebuilt(rows, q)[q.row].ver = fresh
  <2>1. q.work \in Choices /\ "unset" \in Choices /\ q.op \in {"SKIP", "RETRY", "EDIT", "CHOOSE"}
    BY DEF Request, Choices, Patches
  <2>2. Rebuilt(rows, q)[q.row] \in {Skipped(fresh), Resolved(fresh, ChoiceOf(rows[q.row])),
                                     Resolved(fresh, "unset"), Resolved(fresh, q.work)}
    BY <2>1 DEF Rebuilt, NewRowVersion
  <2> QED
    BY <1>1, <2>1, <2>2, ResolvedIsRow
<1>4. Rebuilt(rows, q) = [r \in RowNos |-> Rebuilt(rows, q)[r]]
  <2> DEFINE new(r) ==
        IF r # q.row
        THEN IF rows[r].kind = "SKIPPED" THEN rows[r] ELSE Resolved(rows[r].ver, ChoiceOf(rows[r]))
        ELSE CASE q.op = "SKIP"   -> Skipped(NewRowVersion(rows[r]))
               [] q.op = "RETRY"  -> Resolved(NewRowVersion(rows[r]), ChoiceOf(rows[r]))
               [] q.op = "EDIT"   -> Resolved(NewRowVersion(rows[r]), "unset")
               [] q.op = "CHOOSE" -> Resolved(NewRowVersion(rows[r]), q.work)
  <2>1. Rebuilt(rows, q) = [r \in RowNos |-> new(r)]
    BY Zenon DEF Rebuilt
  <2> HIDE DEF new
  <2> QED
    BY <2>1
<1> QED
  BY <1>2, <1>3, <1>4 DEF Rows

-----------------------------------------------------------------------------
(* One step of one tab *)

\* What the step leaves to the others.
Frame(t) ==
  \A j \in Tabs \ {t} : /\ pc'[j] = pc[j] /\ req'[j] = req[j] /\ found'[j] = found[j] /\ seen'[j] = seen[j]
                        /\ rowLock = j => rowLock' = j
                        /\ workLock = j => workLock' = j

\* What becomes of the import: who has its row to themselves keeps it as it is.
ImportMoves(t) ==
  /\ imp' \in [status : Statuses, rows : Rows \cup {NoRows}, exp : Nat]
  /\ copies' \in Nat /\ fresh' \in Nat /\ fresh <= fresh' /\ clock' = clock /\ merged' = merged
  /\ RowsLiveWithTheDraft' /\ EditionOnCanonicalWork'
  /\ copies' # 0 => imp'.status = "COMMITTED"
  /\ imp.status # "NONE" => imp'.status # "NONE"
  /\ imp.status # "NONE" => \A j \in Tabs \ {t} : rowLock = j => imp' = imp
  /\ imp'.rows # NoRows => \A r \in RowNos : imp'.rows[r].ver < fresh'
  /\ \A old \in Rows : Dated(old) /\ (imp.rows # NoRows => Agree(imp.rows, old)) /\ imp'.rows # NoRows
                       => Agree(imp'.rows, old)

\* ... and of what the tab sees: nothing new, or what is there now.
SeesImport(t) == seen' = seen \/ \E s \in Statuses, rows \in {NoRows, imp'.rows} :
                   /\ seen' = [seen EXCEPT ![t] = [status |-> s, rows |-> rows]]
                   /\ s # "NONE" => imp'.status # "NONE"

LEMMA TabStep ==
  ASSUME ImportInv, NEW t \in Tabs, Frame(t), ImportMoves(t), SeesImport(t), TabsTyped',
         Asked(t)', Holds(t)'
  PROVE  ImportInv'
<1>1. ImportTyped'
  BY DEF ImportInv, ImportTyped, ImportMoves
<1>2. \A j \in Tabs : seen'[j] = seen[j] \/ seen'[j].rows \in {NoRows, imp'.rows}
  BY DEF SeesImport, ImportInv, ImportTyped, TabsTyped
<1>3. VersionsTell'
  <2>1. imp'.rows # NoRows => imp'.rows \in Rows /\ Agree(imp'.rows, imp'.rows)
    BY AgreesWithItself DEF ImportMoves
  <2>2. ASSUME NEW j \in Tabs, seen'[j].rows # NoRows
        PROVE  /\ \A r \in RowNos : seen'[j].rows[r].ver < fresh'
               /\ imp'.rows # NoRows => Agree(imp'.rows, seen'[j].rows)
    <3>1. CASE seen'[j] = seen[j]
      <4>1. seen[j].rows \in Rows /\ Dated(seen[j].rows) /\ (imp.rows # NoRows => Agree(imp.rows, seen[j].rows))
        BY <2>2, <3>1 DEF ImportInv, ImportTyped, TabsTyped, Document, VersionsTell
      <4>2. \A r \in RowNos : seen[j].rows[r].ver \in Nat /\ seen[j].rows[r].ver < fresh
        BY <4>1 DEF Dated, Rows, ImportRow
      <4>3. fresh \in Nat /\ fresh' \in Nat /\ fresh <= fresh'
        BY DEF ImportMoves, ImportInv, ImportTyped
      <4> QED
        BY <3>1, <4>1, <4>2, <4>3 DEF ImportMoves
    <3>2. CASE seen'[j].rows = imp'.rows
      BY <2>1, <2>2, <3>2 DEF ImportMoves
    <3> QED
      BY <1>2, <2>2, <3>1, <3>2
  <2> QED
    BY <2>2 DEF VersionsTell, Dated, Agree, ImportMoves
<1>4. ASSUME NEW j \in Tabs
      PROVE  Asked(j)' /\ Holds(j)'
  <2>1. CASE j = t
    BY <2>1
  <2>2. CASE j # t
    <3>1. /\ Asked(j) /\ Holds(j) /\ pc'[j] = pc[j] /\ req'[j] = req[j] /\ found'[j] = found[j]
          /\ seen'[j] = seen[j] /\ (rowLock = j => rowLock' = j) /\ (workLock = j => workLock' = j)
          /\ clock' = clock /\ merged' = merged /\ (imp.status # "NONE" => imp'.status # "NONE")
          /\ imp.status # "NONE" /\ rowLock = j => imp' = imp
      BY <2>2 DEF ImportInv, Frame, ImportMoves
    <3>2. Asked(j)'
      BY <3>1 DEF Asked
    <3>3. Holds(j)'
      BY <3>1 DEF Holds, ChainWorks
    <3> QED
      BY <3>2, <3>3
  <2> QED
    BY <2>1, <2>2
<1> QED
  BY <1>1, <1>3, <1>4 DEF ImportInv, ImportMoves

LEMMA ImportRests ==
  ASSUME ImportInv, NEW t \in Tabs, UNCHANGED <<clock, DB>>
  PROVE  ImportMoves(t)
<1>1. /\ imp' = imp /\ copies' = copies /\ edition' = edition /\ merged' = merged /\ fresh' = fresh /\ clock' = clock
      /\ imp.rows # NoRows => Dated(imp.rows)
      /\ fresh \in Nat
  BY DEF DB, ImportInv, VersionsTell, ImportTyped
<1> QED
  BY <1>1 DEF ImportInv, ImportTyped, ImportMoves, Dated, RowsLiveWithTheDraft, EditionOnCanonicalWork

\* A request that ends.
LEMMA Ends ==
  ASSUME ImportInv, NEW t \in Tabs, Done(t), ImportMoves(t), SeesImport(t), seen' \in [Tabs -> Document]
  PROVE  ImportInv'
<1>1. /\ pc' = [pc EXCEPT ![t] = "idle"] /\ req' = [req EXCEPT ![t] = NoRequest]
      /\ found' = [found EXCEPT ![t] = "NONE"]
      /\ rowLock' = (IF rowLock = t THEN Free ELSE rowLock)
      /\ workLock' = (IF workLock = t THEN Free ELSE workLock)
  BY DEF Done, To, Unlock
<1>2. TabsTyped /\ TabsTyped'
  <2>1. NoRequest \in Request
    BY DEF NoRequest, Request, Choices
  <2> QED
    BY <1>1, <2>1 DEF ImportInv, ImportTyped, TabsTyped, Places, Statuses
<1>3. Frame(t)
  BY <1>1, <1>2 DEF Frame, SeesImport, TabsTyped
<1>4. pc'[t] = "idle" /\ req'[t] = NoRequest /\ found'[t] = "NONE"
  BY <1>1, <1>2 DEF TabsTyped
<1>5. seen'[t].status # "NONE" => imp'.status # "NONE"
  BY <1>2 DEF SeesImport, ImportInv, Asked, ImportMoves, TabsTyped
<1>6. Asked(t)' /\ Holds(t)'
  <2>1. clock' \in Nat
    BY DEF ImportInv, ImportTyped, ImportMoves
  <2> QED
    BY <1>4, <1>5, <2>1 DEF Asked, Holds, NoRequest, Patches
<1> QED
  BY <1>2, <1>3, <1>6, TabStep

\* A request that goes on in a new transaction.
LEMMA Restarts ==
  ASSUME ImportInv, NEW t \in Tabs, NEW where \in {"lock", "find"}, NEW q \in Request, Restart(t, where, q),
         q.now <= clock, q.op \in {"GET", "PREVIEW"} \/ (q.op = req[t].op /\ q.row = req[t].row),
         ImportMoves(t)
  PROVE  ImportInv'
<1>1. /\ pc' = [pc EXCEPT ![t] = where] /\ req' = [req EXCEPT ![t] = q]
      /\ found' = [found EXCEPT ![t] = "NONE"] /\ seen' = seen
      /\ rowLock' = (IF rowLock = t THEN Free ELSE rowLock)
      /\ workLock' = (IF workLock = t THEN Free ELSE workLock)
  BY DEF Restart, To, Unlock
<1>2. TabsTyped /\ TabsTyped'
  BY <1>1 DEF ImportInv, ImportTyped, TabsTyped, Places, Statuses
<1>3. Frame(t) /\ SeesImport(t)
  BY <1>1, <1>2 DEF Frame, SeesImport, TabsTyped
<1>4. pc'[t] = where /\ req'[t] = q /\ found'[t] = "NONE"
  BY <1>1, <1>2 DEF TabsTyped
<1>5. clock' = clock /\ (imp.status # "NONE" => imp'.status # "NONE") /\ Asked(t)
  BY DEF ImportMoves, ImportInv
<1>6. Asked(t)' /\ Holds(t)'
  BY <1>1, <1>4, <1>5 DEF Asked, Holds, Patches
<1> QED
  BY <1>2, <1>3, <1>6, TabStep

\* What a request does with the draft it has read.
LEMMA Reacts ==
  ASSUME ImportInv, NEW t \in Tabs, NEW s \in Statuses, NEW rows \in {NoRows, imp'.rows},
         ImportMoves(t), s # "NONE" => imp'.status # "NONE",
         React(t, [status |-> s, rows |-> rows])
  PROVE  ImportInv'
<1> DEFINE document == [status |-> s, rows |-> rows]
<1>1. TabsTyped /\ document \in Document /\ req[t] \in Request /\ req[t].now <= clock /\ clock \in Nat
  BY DEF ImportInv, ImportTyped, TabsTyped, ImportMoves, Document, Asked
<1>2. CASE Answer(t, document)
  <2>1. seen' \in {seen, [seen EXCEPT ![t] = document]} /\ Done(t)
    BY <1>2 DEF Answer
  <2>2. SeesImport(t) /\ seen' \in [Tabs -> Document]
    BY <1>1, <2>1 DEF SeesImport, TabsTyped
  <2> QED
    BY <2>1, <2>2, Ends
<1>3. CASE Refuse(t)
  BY <1>1, <1>3, Ends DEF Refuse, SeesImport, TabsTyped
<1>4. CASE req[t].op = "PREVIEW" /\ Restart(t, "lock", req[t])
  BY <1>1, <1>4, Restarts
<1>5. CASE Restart(t, "lock", [req[t] EXCEPT !.now = clock])
  <2> DEFINE q == [req[t] EXCEPT !.now = clock]
  <2>1. q \in Request /\ q.now = clock /\ q.op = req[t].op /\ q.row = req[t].row
    BY <1>1 DEF Request
  <2> HIDE DEF q
  <2>2. Restart(t, "lock", q)
    BY <1>5 DEF q
  <2> QED
    BY <1>1, <2>1, <2>2, Restarts
<1> QED
  BY <1>2, <1>3, <1>4, <1>5 DEF React

-----------------------------------------------------------------------------
(* Requests *)

LEMMA SendKeeps ==
  ASSUME ImportInv, NEW t \in Tabs, Send(t)
  PROVE  ImportInv'
<1>1. /\ pc[t] = "idle" /\ UNCHANGED <<clock, DB, found, seen, Locks>> /\ TabsTyped /\ Asked(t) /\ clock \in Nat
  BY DEF Send, ImportInv, ImportTyped
<1>2. PICK q \in Requests(clock) :
        /\ q.op \notin {"GET", "PREVIEW"} => seen[t].status = "DRAFT" /\ seen[t].rows # NoRows
        /\ req' = [req EXCEPT ![t] = q]
        /\ pc' = [pc EXCEPT ![t] = IF q.op = "COMMIT" THEN "lock" ELSE "find"]
  BY DEF Send, To
<1>3. q \in Request /\ q.now = clock /\ (q.op \in Patches => q.row \in RowNos)
  BY <1>1, <1>2 DEF Requests, Request, Choices, Patches
<1>4. TabsTyped'
  BY <1>1, <1>2, <1>3 DEF TabsTyped, Places, Locks
<1>5. Frame(t) /\ SeesImport(t)
  BY <1>1, <1>2 DEF Frame, SeesImport, TabsTyped, Locks
<1>6. pc'[t] \in {"lock", "find"} /\ req'[t] = q /\ imp' = imp
  BY <1>1, <1>2 DEF TabsTyped, DB
<1>7. Asked(t)' /\ Holds(t)'
  BY <1>1, <1>2, <1>3, <1>6 DEF Asked, Holds
<1> QED
  BY <1>1, <1>4, <1>5, <1>7, TabStep, ImportRests

LEMMA FindKeeps ==
  ASSUME ImportInv, NEW t \in Tabs, Find(t)
  PROVE  ImportInv'
<1>1. /\ UNCHANGED <<clock, DB, req, seen, Locks>> /\ TabsTyped /\ Asked(t)
      /\ pc' = [pc EXCEPT ![t] = IF Overdue(req[t].now) THEN "expire" ELSE "rows"]
      /\ found' = [found EXCEPT ![t] = imp.status]
      /\ imp.status \in Statuses
  BY DEF Find, To, ImportInv, ImportTyped
<1>2. TabsTyped'
  BY <1>1 DEF TabsTyped, Places, Locks
<1>3. Frame(t) /\ SeesImport(t)
  BY <1>1 DEF Frame, SeesImport, TabsTyped, Locks
<1>4. pc'[t] \in {"expire", "rows"} /\ found'[t] = imp.status /\ imp' = imp
  BY <1>1 DEF TabsTyped, DB
<1>5. Asked(t)' /\ Holds(t)'
  BY <1>1, <1>4 DEF Asked, Holds
<1> QED
  BY <1>1, <1>2, <1>3, <1>5, TabStep, ImportRests

\* What expires has no rows left to tell.
LEMMA RowsGo ==
  ASSUME ImportInv, NEW t \in Tabs, NEW s \in {"EXPIRED", "COMMITTED"}, imp.status = "DRAFT",
         imp' = [imp EXCEPT !.status = s, !.rows = NoRows], EditionOnCanonicalWork',
         copies' \in Nat, copies' # 0 => s = "COMMITTED",
         UNCHANGED <<clock, fresh, merged>>, rowLock \in {t, Free}
  PROVE  ImportMoves(t) /\ imp'.status = s /\ imp'.rows = NoRows
<1>1. imp'.status = s /\ imp'.rows = NoRows /\ imp' \in [status : Statuses, rows : Rows \cup {NoRows}, exp : Nat]
  BY DEF ImportInv, ImportTyped, Statuses
<1>2. RowsLiveWithTheDraft'
  BY <1>1 DEF RowsLiveWithTheDraft
<1>3. fresh \in Nat /\ \A j \in Tabs \ {t} : rowLock # j
  BY ImportAssumption DEF ImportInv, ImportTyped
<1> QED
  BY <1>1, <1>2, <1>3 DEF ImportMoves

LEMMA ExpireKeeps ==
  ASSUME ImportInv, NEW t \in Tabs, Expire(t)
  PROVE  ImportInv'
<1>1. /\ rowLock = Free /\ UNCHANGED <<clock, copies, edition, merged, fresh>>
      /\ imp' = IF StillOverdue(t) THEN Expired(imp) ELSE imp
      /\ React(t, [status |-> imp'.status, rows |-> imp'.rows])
  BY DEF Expire
<1>2. ImportMoves(t)
  <2>1. CASE StillOverdue(t)
    <3>1. imp.status = "DRAFT" /\ imp' = [imp EXCEPT !.status = "EXPIRED", !.rows = NoRows]
      BY <1>1, <2>1 DEF StillOverdue, Overdue, Expired
    <3>2. copies' = 0 /\ EditionOnCanonicalWork'
      BY <1>1, <3>1 DEF ImportInv, EditionOnCanonicalWork
    <3> QED
      BY <1>1, <3>1, <3>2, RowsGo
  <2>2. CASE ~StillOverdue(t)
    BY <1>1, <2>2, ImportRests DEF DB
  <2> QED
    BY <2>1, <2>2
<1>3. imp'.status \in Statuses
  BY <1>2 DEF ImportMoves
<1> QED
  BY <1>1, <1>2, <1>3, Reacts

LEMMA ReadRowsKeeps ==
  ASSUME ImportInv, NEW t \in Tabs, ReadRows(t)
  PROVE  ImportInv'
<1>1. UNCHANGED <<clock, DB>> /\ React(t, [status |-> found[t], rows |-> imp.rows])
  BY DEF ReadRows
<1>2. found[t] \in Statuses /\ (found[t] # "NONE" => imp.status # "NONE") /\ imp' = imp
  BY <1>1 DEF DB, ImportInv, ImportTyped, TabsTyped, Asked
<1> QED
  BY <1>1, <1>2, ImportRests, Reacts

-----------------------------------------------------------------------------
(* Transactions on the import row *)

LEMMA LockKeeps ==
  ASSUME ImportInv, NEW t \in Tabs, Lock(t)
  PROVE  ImportInv'
<1>1. /\ UNCHANGED <<clock, DB, req, found, seen, workLock>> /\ TabsTyped /\ Asked(t) /\ rowLock = Free
      /\ pc' = [pc EXCEPT ![t] = "locked"] /\ req[t].op \in {"PREVIEW", "COMMIT"}
      /\ rowLock' = (IF imp.status = "NONE" THEN rowLock ELSE t)
  BY DEF Lock, To, ImportInv, ImportTyped
<1>2. TabsTyped'
  BY <1>1 DEF TabsTyped, Places
<1>3. Frame(t) /\ SeesImport(t)
  BY <1>1, ImportAssumption DEF Frame, SeesImport, TabsTyped
<1>4. pc'[t] = "locked" /\ imp' = imp
  BY <1>1 DEF TabsTyped, DB
<1>5. Asked(t)' /\ Holds(t)'
  BY <1>1, <1>4 DEF Asked, Holds
<1> QED
  BY <1>1, <1>2, <1>3, <1>5, TabStep, ImportRests

\* A draft that begins.
LEMMA DraftBegins ==
  ASSUME ImportInv, NEW t \in Tabs, NEW now \in Nat, imp' = Draft(now), fresh' = fresh + Cardinality(RowNos),
         UNCHANGED <<clock, copies, edition, merged>>,
         imp.status # "COMMITTED", imp.status = "NONE" \/ rowLock = t
  PROVE  ImportMoves(t) /\ imp'.status = "DRAFT" /\ imp'.rows = Parsed
<1>1. /\ Parsed \in Rows /\ Parsed # NoRows /\ fresh \in Nat /\ fresh' \in Nat /\ fresh <= fresh'
      /\ \A r \in RowNos : fresh <= Parsed[r].ver /\ Parsed[r].ver < fresh' /\ Parsed[r].kind # "SKIPPED"
  BY ParsedIsNew, RowsAreRows DEF ImportInv, ImportTyped
<1>2. /\ imp' \in [status : Statuses, rows : Rows \cup {NoRows}, exp : Nat]
      /\ imp'.status = "DRAFT" /\ imp'.rows = Parsed
  <2>1. now + TTL \in Nat
    BY ImportAssumption
  <2> QED
    BY <1>1, <2>1 DEF Draft, Statuses
<1>3. RowsLiveWithTheDraft' /\ EditionOnCanonicalWork' /\ copies' = 0 /\ copies' \in Nat
  BY <1>1, <1>2 DEF RowsLiveWithTheDraft, EditionOnCanonicalWork, ImportInv
<1>4. ASSUME NEW j \in Tabs \ {t}
      PROVE  rowLock # j \/ imp.status = "NONE"
  BY <1>4
<1>5. ASSUME NEW old \in Rows, Dated(old)
      PROVE  Agree(imp'.rows, old)
  <2>1. \A r \in RowNos : old[r].ver \in Nat /\ Parsed[r].ver \in Nat
    BY <1>1 DEF Rows, ImportRow
  <2>2. \A r \in RowNos : Parsed[r].ver # old[r].ver
    BY <1>1, <1>5, <2>1 DEF Dated
  <2>3. DraftVersion(Parsed) # DraftVersion(old)
    <3>1. /\ DraftVersion(Parsed) = [r \in RowNos |-> Parsed[r].ver]
          /\ DraftVersion(old) = [r \in RowNos |-> old[r].ver]
      BY <1>1, <1>5, RowsAreRows
    <3>2. PICK r \in RowNos : TRUE
      BY ImportAssumption
    <3>3. DraftVersion(Parsed)[r] # DraftVersion(old)[r]
      BY <2>2, <3>1
    <3> QED
      BY <3>3
  <2> QED
    BY <1>2, <2>2, <2>3 DEF Agree
<1> QED
  BY <1>1, <1>2, <1>3, <1>4, <1>5 DEF ImportMoves

LEMMA SaveDraftKeeps ==
  ASSUME ImportInv, NEW t \in Tabs, SaveDraft(t)
  PROVE  ImportInv'
<1>1. /\ UNCHANGED <<clock, copies, edition, merged>> /\ TabsTyped /\ Asked(t) /\ clock \in Nat
      /\ req[t] \in Request /\ req[t].now \in Nat /\ req[t].op = "PREVIEW"
  BY DEF SaveDraft, ImportInv, ImportTyped, TabsTyped, Request
<1>2. CASE /\ IF rowLock = t THEN Revivable(View(t)) ELSE imp.status = "NONE"
           /\ imp' = Draft(req[t].now) /\ fresh' = fresh + Cardinality(RowNos)
           /\ Answer(t, [status |-> "DRAFT", rows |-> Parsed])
  <2>1. imp.status # "COMMITTED" /\ (imp.status = "NONE" \/ rowLock = t)
    BY <1>2 DEF Revivable, View, Overdue
  <2>2. ImportMoves(t) /\ imp'.status = "DRAFT" /\ imp'.rows = Parsed
    BY <1>1, <1>2, <2>1, DraftBegins
  <2>3. Done(t) /\ seen' \in {seen, [seen EXCEPT ![t] = [status |-> "DRAFT", rows |-> Parsed]]}
    BY <1>2 DEF Answer
  <2>4. Parsed \in Rows
    BY ParsedIsNew DEF ImportInv
  <2>5. SeesImport(t) /\ seen' \in [Tabs -> Document]
    BY <1>1, <2>2, <2>3, <2>4 DEF SeesImport, TabsTyped, Document, Statuses
  <2> QED
    BY <2>2, <2>3, <2>5, Ends
<1>3. CASE Restart(t, "find", [NoRequest EXCEPT !.now = clock]) /\ UNCHANGED <<imp, fresh>>
  <2> DEFINE q == [NoRequest EXCEPT !.now = clock]
  <2>1. q \in Request /\ q.now = clock /\ q.op = "GET"
    BY <1>1 DEF NoRequest, Request, Choices
  <2> HIDE DEF q
  <2>2. Restart(t, "find", q)
    BY <1>3 DEF q
  <2>3. ImportMoves(t)
    BY <1>1, <1>3, ImportRests DEF DB
  <2> QED
    BY <1>1, <2>1, <2>2, <2>3, Restarts
<1>4. CASE Restart(t, "lock", req[t]) /\ UNCHANGED <<imp, fresh>>
  <2>1. ImportMoves(t)
    BY <1>1, <1>4, ImportRests DEF DB
  <2> QED
    BY <1>1, <1>4, <2>1, Restarts DEF Asked
<1> QED
  BY <1>2, <1>3, <1>4 DEF SaveDraft

LEMMA UpdateRowsKeeps ==
  ASSUME ImportInv, NEW t \in Tabs, UpdateRows(t)
  PROVE  ImportInv'
<1>1. /\ UNCHANGED <<clock, copies, edition, merged>> /\ TabsTyped /\ Asked(t) /\ rowLock = Free
      /\ req[t] \in Request /\ req[t].op \in Patches /\ req[t].row \in RowNos
  BY DEF UpdateRows, ImportInv, ImportTyped, TabsTyped, Asked
<1>2. CASE Refuse(t) /\ UNCHANGED <<imp, fresh>>
  BY <1>1, <1>2, Ends, ImportRests DEF DB, Refuse, SeesImport, TabsTyped
<1>3. CASE /\ View(t) = "DRAFT" /\ imp' = [imp EXCEPT !.rows = Rebuilt(imp.rows, req[t])]
           /\ fresh' = fresh + 1 /\ Answer(t, [status |-> "DRAFT", rows |-> imp'.rows])
  <2>1. imp.status = "DRAFT" /\ imp.rows \in Rows /\ fresh \in Nat /\ Dated(imp.rows) /\ copies = 0
    BY <1>3 DEF View, ImportInv, ImportTyped, RowsLiveWithTheDraft, VersionsTell
  <2> DEFINE new == Rebuilt(imp.rows, req[t])
             r0 == req[t].row
  <2>2. /\ new \in Rows /\ new # NoRows /\ new[r0].ver = fresh /\ r0 \in RowNos
        /\ \A r \in RowNos \ {r0} : /\ new[r].ver = imp.rows[r].ver
                                    /\ new[r].kind = "SKIPPED" <=> imp.rows[r].kind = "SKIPPED"
    BY <1>1, <2>1, RebuiltIsNew, RowsAreRows
  <2>3. /\ imp' \in [status : Statuses, rows : Rows \cup {NoRows}, exp : Nat]
        /\ imp'.status = "DRAFT" /\ imp'.rows = new
    BY <1>3, <2>1, <2>2 DEF ImportInv, ImportTyped, Statuses
  <2> HIDE DEF new, r0
  <2>4. RowsLiveWithTheDraft' /\ EditionOnCanonicalWork'
    BY <1>1, <2>2, <2>3 DEF RowsLiveWithTheDraft, EditionOnCanonicalWork, ImportInv
  <2>a. \A r \in RowNos : r # r0 => new[r].ver = imp.rows[r].ver
    BY <2>2
  <2>b. \A r \in RowNos : r # r0 => (new[r].kind = "SKIPPED" <=> imp.rows[r].kind = "SKIPPED")
    BY <2>2
  <2>5. \A r \in RowNos : new[r].ver < fresh'
    <3>1. \A r \in RowNos : imp.rows[r].ver \in Nat /\ imp.rows[r].ver < fresh
      BY <2>1 DEF Dated, Rows, ImportRow
    <3>2. fresh' = fresh + 1 /\ fresh < fresh + 1 /\ \A v \in Nat : v < fresh => v < fresh + 1
      BY <1>3, <2>1
    <3>3. ASSUME NEW r \in RowNos PROVE new[r].ver < fresh'
      <4>1. CASE r = r0
        BY <2>2, <3>2, <4>1
      <4>2. CASE r # r0
        BY <2>a, <3>1, <3>2, <4>2
      <4> QED
        BY <4>1, <4>2
    <3> QED
      BY <3>3
  <2>6. ASSUME NEW old \in Rows, Dated(old), Agree(imp.rows, old)
        PROVE  Agree(new, old)
    <3>1. old[r0].ver \in Nat /\ old[r0].ver # fresh
      BY <2>1, <2>2, <2>6 DEF Dated, Rows, ImportRow
    <3>2. DraftVersion(new) # DraftVersion(old)
      BY <2>2, <3>1, RowsAreRows
    <3>3. \A r \in RowNos : imp.rows[r].ver = old[r].ver =>
            (imp.rows[r].kind = "SKIPPED" <=> old[r].kind = "SKIPPED")
      BY <2>6 DEF Agree
    <3>4. ASSUME NEW r \in RowNos, new[r].ver = old[r].ver
          PROVE  new[r].kind = "SKIPPED" <=> old[r].kind = "SKIPPED"
      <4>1. r # r0
        BY <2>2, <3>1, <3>4
      <4> QED
        BY <2>a, <2>b, <3>3, <3>4, <4>1
    <3> QED
      BY <3>2, <3>4 DEF Agree
  <2>7. ImportMoves(t)
    <3>1. \A j \in Tabs \ {t} : rowLock # j
      BY <1>1, ImportAssumption
    <3>2. imp.rows # NoRows /\ fresh' \in Nat /\ fresh <= fresh' /\ copies' = 0
      BY <1>1, <1>3, <2>1, RowsAreRows
    <3> QED
      BY <1>1, <2>3, <2>4, <2>5, <2>6, <3>1, <3>2 DEF ImportMoves
  <2>8. Done(t) /\ seen' \in {seen, [seen EXCEPT ![t] = [status |-> "DRAFT", rows |-> imp'.rows]]}
    BY <1>3 DEF Answer
  <2>9. SeesImport(t) /\ seen' \in [Tabs -> Document]
    BY <1>1, <2>2, <2>3, <2>8 DEF SeesImport, TabsTyped, Document, Statuses
  <2> QED
    BY <2>7, <2>8, <2>9, Ends
<1> QED
  BY <1>2, <1>3 DEF UpdateRows

LEMMA AssessKeeps ==
  ASSUME ImportInv, NEW t \in Tabs, Assess(t)
  PROVE  ImportInv'
<1>1. /\ UNCHANGED <<clock, DB>> /\ TabsTyped /\ pc[t] = "locked" /\ req[t].op = "COMMIT"
      /\ ImportMoves(t) /\ imp' = imp
  BY ImportRests DEF Assess, ImportInv, ImportTyped, DB
<1>2. CASE Answer(t, [status |-> "COMMITTED", rows |-> NoRows]) /\ View(t) = "COMMITTED"
  <2>1. SeesImport(t) /\ seen' \in [Tabs -> Document] /\ Done(t)
    BY <1>1, <1>2 DEF Answer, View, SeesImport, TabsTyped, Document, Statuses
  <2> QED
    BY <1>1, <2>1, Ends
<1>3. CASE Refuse(t)
  BY <1>1, <1>3, Ends DEF Refuse, SeesImport, TabsTyped
<1>4. CASE /\ View(t) = "DRAFT" /\ RequireCurrentDraft(t)
           /\ Working(t, IF ChainWorks(imp.rows) \ {"new"} # {} THEN "work" ELSE "catalog")
  <2>1. /\ pc' = [pc EXCEPT ![t] = IF ChainWorks(imp.rows) \ {"new"} # {} THEN "work" ELSE "catalog"]
        /\ UNCHANGED <<req, found, seen, rowLock, workLock>>
    BY <1>4 DEF Working, To
  <2>2. TabsTyped' /\ Frame(t) /\ SeesImport(t)
    BY <1>1, <2>1 DEF TabsTyped, Places, Frame, SeesImport
  <2>3. imp.status = "DRAFT" /\ rowLock = t /\ Asked(t)
    BY <1>1, <1>4 DEF View, ImportInv, Holds
  <2>4. imp.rows = seen[t].rows
    <3>1. imp.rows # NoRows /\ seen[t].rows # NoRows
      BY <1>1, <2>3 DEF ImportInv, RowsLiveWithTheDraft, Asked
    <3>2. Agree(imp.rows, seen[t].rows)
      BY <3>1 DEF ImportInv, VersionsTell
    <3> QED
      BY <1>4, <3>2 DEF RequireCurrentDraft, Agree
  <2>5. /\ pc'[t] \in {"work", "catalog"}
        /\ pc'[t] = "catalog" => ChainWorks(imp.rows) \ {"new"} = {}
    BY <1>1, <2>1 DEF TabsTyped
  <2>6. Asked(t)' /\ Holds(t)'
    BY <1>1, <2>1, <2>3, <2>4, <2>5 DEF Asked, Holds, ChainWorks, DB
  <2> QED
    BY <1>1, <2>2, <2>6, TabStep
<1> QED
  BY <1>2, <1>3, <1>4 DEF Assess

LEMMA LockChosenWorksKeeps ==
  ASSUME ImportInv, NEW t \in Tabs, LockChosenWorks(t)
  PROVE  ImportInv'
<1>1. /\ UNCHANGED <<clock, DB, req, found, seen, rowLock>> /\ TabsTyped /\ pc[t] = "work" /\ workLock = Free
      /\ workLock' = t /\ pc' = [pc EXCEPT ![t] = "catalog"]
      /\ ImportMoves(t) /\ imp' = imp /\ Asked(t) /\ Holds(t)
  BY ImportRests DEF LockChosenWorks, To, ImportInv, ImportTyped, DB
<1>2. TabsTyped' /\ Frame(t) /\ SeesImport(t) /\ pc'[t] = "catalog"
  BY <1>1, ImportAssumption DEF TabsTyped, Places, Frame, SeesImport
<1>3. Asked(t)' /\ Holds(t)'
  BY <1>1, <1>2 DEF Asked, Holds, DB
<1> QED
  BY <1>1, <1>2, <1>3, TabStep

LEMMA CheckCatalogKeeps ==
  ASSUME ImportInv, NEW t \in Tabs, CheckCatalog(t)
  PROVE  ImportInv'
<1>1. /\ UNCHANGED <<clock, DB>> /\ TabsTyped /\ pc[t] = "catalog" /\ ImportMoves(t) /\ imp' = imp
      /\ merged' = merged /\ Asked(t) /\ Holds(t)
  BY ImportRests DEF CheckCatalog, ImportInv, ImportTyped, DB
<1>2. CASE Refuse(t)
  BY <1>1, <1>2, Ends DEF Refuse, SeesImport, TabsTyped
<1>3. CASE Working(t, "write") /\ ~(merged /\ "w" \in ChainWorks(imp.rows))
  <2>1. pc' = [pc EXCEPT ![t] = "write"] /\ UNCHANGED <<req, found, seen, rowLock, workLock>>
    BY <1>3 DEF Working, To
  <2>2. TabsTyped' /\ Frame(t) /\ SeesImport(t) /\ pc'[t] = "write"
    BY <1>1, <2>1 DEF TabsTyped, Places, Frame, SeesImport
  <2>3. Asked(t)' /\ Holds(t)'
    BY <1>1, <1>3, <2>1, <2>2 DEF Asked, Holds, ChainWorks
  <2> QED
    BY <1>1, <2>2, <2>3, TabStep
<1> QED
  BY <1>2, <1>3 DEF CheckCatalog

LEMMA WriteKeeps ==
  ASSUME ImportInv, NEW t \in Tabs, Write(t)
  PROVE  ImportInv'
<1>1. /\ UNCHANGED <<clock, merged, fresh>> /\ TabsTyped /\ Holds(t) /\ pc[t] = "write"
      /\ rowLock = t /\ imp.status = "DRAFT" /\ ~(merged /\ "w" \in ChainWorks(imp.rows))
      /\ imp.rows \in Rows /\ copies = 0
  BY DEF Write, ImportInv, ImportTyped, Holds, RowsLiveWithTheDraft
<1>2. CASE Refuse(t) /\ UNCHANGED <<imp, copies, edition>>
  BY <1>1, <1>2, Ends, ImportRests DEF DB, Refuse, SeesImport, TabsTyped
<1>3. CASE /\ imp' = [imp EXCEPT !.status = "COMMITTED", !.rows = NoRows]
           /\ copies' = copies + Cardinality(Committable(imp.rows))
           /\ edition' = (IF ChainWorks(imp.rows) = {} THEN edition ELSE CHOOSE w \in ChainWorks(imp.rows) : TRUE)
           /\ Answer(t, [status |-> "COMMITTED", rows |-> NoRows])
  <2>1. edition' = edition \/ edition' \in ChainWorks(imp.rows)
    BY <1>3
  <2>2. EditionOnCanonicalWork'
    BY <1>1, <2>1 DEF ImportInv, EditionOnCanonicalWork
  <2>3. copies' \in Nat
    <3>1. IsFiniteSet(Committable(imp.rows))
      BY ImportAssumption, FS_Subset DEF Committable
    <3> QED
      BY <1>1, <1>3, <3>1, FS_CardinalityType
  <2>4. ImportMoves(t) /\ imp'.status = "COMMITTED" /\ imp'.rows = NoRows
    BY <1>1, <1>3, <2>2, <2>3, RowsGo
  <2>5. Done(t) /\ seen' \in {seen, [seen EXCEPT ![t] = [status |-> "COMMITTED", rows |-> NoRows]]}
    BY <1>3 DEF Answer
  <2>6. SeesImport(t) /\ seen' \in [Tabs -> Document]
    BY <1>1, <2>4, <2>5 DEF SeesImport, TabsTyped, Document, Statuses
  <2> QED
    BY <2>4, <2>5, <2>6, Ends
<1> QED
  BY <1>2, <1>3 DEF Write

-----------------------------------------------------------------------------
(* The rest of the system *)

LEMMA EditionAppearsKeeps ==
  ASSUME ImportInv, EditionAppears
  PROVE  ImportInv'
<1>1. UNCHANGED <<clock, imp, copies, merged, fresh, pc, req, found, seen, rowLock, workLock>> /\ edition' = "theirs"
  BY DEF EditionAppears
<1>2. ImportTyped' /\ RowsLiveWithTheDraft' /\ EditionOnCanonicalWork' /\ VersionsTell'
  BY <1>1 DEF ImportInv, ImportTyped, TabsTyped, RowsLiveWithTheDraft, EditionOnCanonicalWork, VersionsTell,
              Dated, Agree
<1>3. \A t \in Tabs : (Asked(t) /\ Holds(t))'
  BY <1>1 DEF ImportInv, Asked, Holds
<1> QED
  BY <1>1, <1>2, <1>3 DEF ImportInv

LEMMA MergeWorkKeeps ==
  ASSUME ImportInv, MergeWork
  PROVE  ImportInv'
<1>1. /\ UNCHANGED <<clock, imp, copies, fresh, pc, req, found, seen, rowLock, workLock>>
      /\ merged' = TRUE /\ edition' # "w" /\ workLock = Free
  BY DEF MergeWork
<1>2. ImportTyped' /\ RowsLiveWithTheDraft' /\ EditionOnCanonicalWork' /\ VersionsTell'
  BY <1>1 DEF ImportInv, ImportTyped, TabsTyped, RowsLiveWithTheDraft, EditionOnCanonicalWork, VersionsTell,
              Dated, Agree
<1>3. ASSUME NEW t \in Tabs
      PROVE  (Asked(t) /\ Holds(t))'
  <2>1. Asked(t) /\ Holds(t) /\ workLock # t
    BY <1>1, ImportAssumption DEF ImportInv
  <2>2. pc[t] = "write" => "w" \notin ChainWorks(imp.rows)
    BY <2>1 DEF Holds
  <2> QED
    BY <1>1, <2>1, <2>2 DEF Asked, Holds, ChainWorks
<1> QED
  BY <1>1, <1>2, <1>3 DEF ImportInv

LEMMA TickKeeps ==
  ASSUME ImportInv, Tick
  PROVE  ImportInv'
<1>1. UNCHANGED <<DB, pc, req, found, seen, rowLock, workLock>> /\ clock' = clock + 1 /\ clock \in Nat
  BY DEF Tick, ImportInv, ImportTyped
<1>2. ImportTyped' /\ RowsLiveWithTheDraft' /\ EditionOnCanonicalWork' /\ VersionsTell'
  BY <1>1 DEF ImportInv, ImportTyped, TabsTyped, RowsLiveWithTheDraft, EditionOnCanonicalWork, VersionsTell,
              Dated, Agree, DB
<1>3. ASSUME NEW t \in Tabs
      PROVE  (Asked(t) /\ Holds(t))'
  <2>1. Asked(t) /\ Holds(t) /\ req[t].now \in Nat
    BY DEF ImportInv, ImportTyped, TabsTyped, Request
  <2> QED
    BY <1>1, <2>1 DEF Asked, Holds, DB
<1> QED
  BY <1>1, <1>2, <1>3 DEF ImportInv, DB

LEMMA RestKeeps ==
  ASSUME ImportInv, UNCHANGED ivars
  PROVE  ImportInv'
<1>1. ImportTyped' /\ RowsLiveWithTheDraft' /\ EditionOnCanonicalWork' /\ VersionsTell'
  BY DEF ivars, ImportInv, ImportTyped, TabsTyped, RowsLiveWithTheDraft, EditionOnCanonicalWork, VersionsTell,
         Dated, Agree
<1>2. \A t \in Tabs : (Asked(t) /\ Holds(t))'
  BY DEF ivars, ImportInv, Asked, Holds
<1> QED
  BY <1>1, <1>2 DEF ImportInv, ivars

LEMMA ImportInvInit ==
  ASSUME IInit
  PROVE  ImportInv
<1>1. NoRequest \in Request /\ NoDoc \in Document
  BY DEF NoRequest, NoDoc, Request, Choices, Document, Statuses
<1>2. ImportTyped
  BY <1>1 DEF IInit, ImportTyped, TabsTyped, Places, Statuses
<1>3. RowsLiveWithTheDraft /\ EditionOnCanonicalWork
  BY DEF IInit, RowsLiveWithTheDraft, EditionOnCanonicalWork
<1>4. VersionsTell
  BY DEF IInit, VersionsTell, NoDoc
<1>5. ASSUME NEW t \in Tabs PROVE Asked(t) /\ Holds(t)
  BY DEF IInit, Asked, Holds, NoRequest, NoDoc, Patches
<1> QED
  BY <1>2, <1>3, <1>4, <1>5 DEF ImportInv, IInit

LEMMA ImportStep ==
  ImportInv /\ [INext]_ivars => ImportInv'
BY SendKeeps, FindKeeps, ExpireKeeps, ReadRowsKeeps, LockKeeps, SaveDraftKeeps, UpdateRowsKeeps,
   AssessKeeps, LockChosenWorksKeeps, CheckCatalogKeeps, WriteKeeps,
   EditionAppearsKeeps, MergeWorkKeeps, TickKeeps, RestKeeps DEF INext

\* The lock on the import row, the row versions and the locks on the chosen works keep
\* what a commit has checked true until it has written (library-import.commit.ts).
THEOREM ImportInvariance == ISpec => []ImportInv
BY ImportInvInit, ImportStep, PTL DEF ISpec

\* No import hangs its edition on a work that a merge has replaced in the meantime.
THEOREM EditionsStayOnCanonicalWorks == ISpec => []EditionOnCanonicalWork
<1>1. ImportInv => EditionOnCanonicalWork
  BY DEF ImportInv
<1> QED
  BY <1>1, ImportInvariance, PTL

-----------------------------------------------------------------------------
(* What a step does to the import *)

\* The steps that write the import or the copies.
Changes(t) ==
  \/ Expire(t) /\ StillOverdue(t) /\ imp' = Expired(imp) /\ copies' = copies
  \/ SaveDraft(t) /\ imp' = Draft(req[t].now) /\ copies' = copies
  \/ /\ UpdateRows(t) /\ View(t) = "DRAFT" /\ RequireCurrentRow(imp.rows, t)
     /\ imp' = [imp EXCEPT !.rows = Rebuilt(imp.rows, req[t])] /\ copies' = copies
  \/ /\ Write(t) /\ imp' = [imp EXCEPT !.status = "COMMITTED", !.rows = NoRows]
     /\ copies' = copies + Cardinality(Committable(imp.rows))

LEMMA StepsOnTheImport ==
  ASSUME INext
  PROVE  UNCHANGED <<imp, copies>> \/ \E t \in Tabs : Changes(t)
<1>1. ASSUME NEW t \in Tabs, Send(t) \/ Find(t) \/ ReadRows(t) \/ Lock(t) \/ Assess(t) \/ LockChosenWorks(t)
                              \/ CheckCatalog(t)
      PROVE  UNCHANGED <<imp, copies>>
  BY <1>1 DEF Send, Find, ReadRows, Lock, Assess, LockChosenWorks, CheckCatalog, DB
<1>2. EditionAppears \/ MergeWork \/ Tick => UNCHANGED <<imp, copies>>
  BY DEF EditionAppears, MergeWork, Tick, DB
<1>3. ASSUME NEW t \in Tabs, Expire(t) \/ SaveDraft(t) \/ UpdateRows(t) \/ Write(t)
      PROVE  UNCHANGED <<imp, copies>> \/ Changes(t)
  <2>1. Expire(t) => UNCHANGED <<imp, copies>> \/ Changes(t)
    BY DEF Expire, Changes
  <2>2. SaveDraft(t) => UNCHANGED <<imp, copies>> \/ Changes(t)
    BY DEF SaveDraft, Changes
  <2>3. UpdateRows(t) => UNCHANGED <<imp, copies>> \/ Changes(t)
    BY DEF UpdateRows, Changes
  <2>4. Write(t) => UNCHANGED <<imp, copies>> \/ Changes(t)
    BY DEF Write, Changes
  <2> QED
    BY <1>3, <2>1, <2>2, <2>3, <2>4
<1> QED
  BY <1>1, <1>2, <1>3 DEF INext

\* While the draft is the same one, only a patch that has seen the skipped row revives it.
LEMMA PatchStep ==
  ASSUME ImportInv, NEW t \in Tabs, UpdateRows(t), View(t) = "DRAFT", RequireCurrentRow(imp.rows, t),
         imp' = [imp EXCEPT !.rows = Rebuilt(imp.rows, req[t])],
         NEW r \in DOMAIN imp.rows, imp.rows[r].kind = "SKIPPED", imp'.rows[r].kind # "SKIPPED"
  PROVE  pc[t] = "lock" /\ req[t].op \in Patches /\ seen[t].rows[r] = imp.rows[r]
<1>1. /\ pc[t] = "lock" /\ req[t].op \in Patches /\ Asked(t) /\ req[t] \in Request /\ req[t].row \in RowNos
      /\ imp.status = "DRAFT" /\ imp.rows \in Rows /\ imp.rows # NoRows /\ fresh \in Nat
  BY DEF UpdateRows, ImportInv, ImportTyped, TabsTyped, Asked, View, RowsLiveWithTheDraft
<1>2. seen[t].rows \in Rows /\ Agree(imp.rows, seen[t].rows)
  BY <1>1 DEF ImportInv, ImportTyped, TabsTyped, Document, Asked, VersionsTell, Patches
<1>3. r \in RowNos /\ imp'.rows[r] = Rebuilt(imp.rows, req[t])[r]
  BY <1>1 DEF Rows, ImportInv, ImportTyped
<1>4. r = req[t].row
  <2>1. \A q \in RowNos : q # req[t].row =>
          (Rebuilt(imp.rows, req[t])[q].kind = "SKIPPED" <=> imp.rows[q].kind = "SKIPPED")
    BY <1>1, RebuiltIsNew
  <2> QED
    BY <1>3, <2>1
<1>5. imp.rows[r].ver = seen[t].rows[r].ver
  BY <1>4 DEF RequireCurrentRow
<1>6. seen[t].rows[r].kind = "SKIPPED"
  BY <1>2, <1>3, <1>5 DEF Agree
<1>7. \A x, y \in ImportRow : x.kind = "SKIPPED" /\ y.kind = "SKIPPED" /\ x.ver = y.ver => x = y
  BY DEF ImportRow
<1>8. imp.rows[r] \in ImportRow /\ seen[t].rows[r] \in ImportRow
  BY <1>1, <1>2, <1>3 DEF Rows
<1> QED
  BY <1>1, <1>5, <1>6, <1>7, <1>8

\* A draft saved over a draft is another one: what it replaces was overdue.
LEMMA SavedAnew ==
  ASSUME ImportInv, NEW t \in Tabs, SaveDraft(t), imp' = Draft(req[t].now), imp.status = "DRAFT",
         imp'.status = "DRAFT"
  PROVE  imp' = imp \/ imp'.exp # imp.exp
<1>1. imp.exp \in Nat /\ req[t].now \in Nat /\ TTL \in Nat \ {0} /\ imp'.exp = req[t].now + TTL
  BY ImportAssumption DEF ImportInv, ImportTyped, TabsTyped, Request, Draft
<1>2. Overdue(req[t].now) \/ imp' = imp
  BY DEF SaveDraft, Revivable, View
<1> QED
  BY <1>1, <1>2 DEF Overdue

LEMMA Copied ==
  ASSUME ImportInv, NEW t \in Tabs, Write(t)
  PROVE  pc[t] = "write" /\ imp.status = "DRAFT" /\ imp.rows = seen[t].rows /\ copies = 0
BY DEF ImportInv, Holds, Write

\* However often a commit is repeated, by whichever tab, the copies are made once, from the
\* rows that tab has on its screen, and no patch brings back a row that its tab has not seen
\* skipped: the versions of the rows and the lock on the import decide it.
THEOREM ImportsWhatWasReviewedHolds == ISpec => ImportsWhatWasReviewed
<1> DEFINE Once == /\ imp.status = "COMMITTED" => imp' = imp
                   /\ copies' # copies => imp.status = "DRAFT" /\ imp'.status = "COMMITTED" /\ copies = 0
           Reviewed == copies' # copies => \E t \in Tabs : pc[t] = "write" /\ imp.rows = seen[t].rows
           Seen == \A r \in DOMAIN imp.rows :
             imp.status = "DRAFT" /\ imp'.status = "DRAFT" /\ imp'.exp = imp.exp
               /\ imp.rows[r].kind = "SKIPPED" /\ imp'.rows[r].kind # "SKIPPED"
             => \E t \in Tabs : pc[t] = "lock" /\ req[t].op \in Patches /\ seen[t].rows[r] = imp.rows[r]
<1>1. ASSUME ImportInv, [INext]_ivars
      PROVE  Once /\ Reviewed /\ Seen
  <2>0. imp \in [status : Statuses, rows : Rows \cup {NoRows}, exp : Nat]
    BY <1>1 DEF ImportInv, ImportTyped
  <2>1. CASE UNCHANGED <<imp, copies>>
    BY <2>1
  <2>2. ASSUME NEW t \in Tabs, Expire(t), StillOverdue(t), imp' = Expired(imp), copies' = copies
        PROVE  Once /\ Reviewed /\ Seen
    <3>1. imp.status = "DRAFT" /\ imp'.status = "EXPIRED"
      BY <2>0, <2>2 DEF StillOverdue, Overdue, Expired
    <3> QED
      BY <2>2, <3>1
  <2>3. ASSUME NEW t \in Tabs, SaveDraft(t), imp' = Draft(req[t].now), copies' = copies
        PROVE  Once /\ Reviewed /\ Seen
    <3>1. imp.status = "COMMITTED" => imp' = imp
      BY <2>3 DEF SaveDraft, Revivable, View, Overdue
    <3>2. Seen
      BY <1>1, <2>3, SavedAnew
    <3> QED
      BY <2>3, <3>1, <3>2
  <2>4. ASSUME NEW t \in Tabs, UpdateRows(t), View(t) = "DRAFT", RequireCurrentRow(imp.rows, t),
               imp' = [imp EXCEPT !.rows = Rebuilt(imp.rows, req[t])], copies' = copies
        PROVE  Once /\ Reviewed /\ Seen
    <3>1. imp.status = "DRAFT"
      BY <2>4 DEF View
    <3>2. Seen
      BY <1>1, <2>4, PatchStep
    <3> QED
      BY <2>4, <3>1, <3>2
  <2>5. ASSUME NEW t \in Tabs, Write(t), imp' = [imp EXCEPT !.status = "COMMITTED", !.rows = NoRows]
        PROVE  Once /\ Reviewed /\ Seen
    <3>1. imp'.status = "COMMITTED"
      BY <2>0, <2>5
    <3> QED
      BY <1>1, <2>5, <3>1, Copied
  <2>6. CASE INext
    BY <2>1, <2>2, <2>3, <2>4, <2>5, <2>6, StepsOnTheImport DEF Changes
  <2>7. CASE UNCHANGED ivars
    BY <2>1, <2>7 DEF ivars
  <2> QED
    BY <1>1, <2>6, <2>7
<1>2. ISpec => [][Once /\ Reviewed /\ Seen]_ivars
  BY <1>1, ImportInvariance, PTL DEF ISpec
<1> QED
  BY <1>2, PTL DEF ImportsWhatWasReviewed, CommittedOnce, ImportedAsReviewed, PatchesWhatWasSeen

\* The rows of a file, private notes included, are there exactly while it is a draft, and only
\* a draft whose time is over expires, also when it was saved anew while the expiry waited.
THEOREM DraftsEndWithTheirRowsHolds == ISpec => DraftsEndWithTheirRows
<1>1. ImportInv => RowsLiveWithTheDraft
  BY DEF ImportInv
<1>2. ASSUME ImportInv, [INext]_ivars
      PROVE  imp.status = "DRAFT" /\ imp'.status = "EXPIRED" => imp.exp <= clock
  <2> SUFFICES ASSUME imp.status = "DRAFT", imp'.status = "EXPIRED"
               PROVE  imp.exp <= clock
    OBVIOUS
  <2>0. imp \in [status : Statuses, rows : Rows \cup {NoRows}, exp : Nat] /\ clock \in Nat
    BY <1>2 DEF ImportInv, ImportTyped
  <2>1. imp' # imp
    OBVIOUS
  <2>2. PICK t \in Tabs : StillOverdue(t)
    <3>1. INext
      BY <1>2, <2>1 DEF ivars
    <3>2. \A t \in Tabs : imp' # Draft(req[t].now)
      BY DEF Draft
    <3>3. imp' # [imp EXCEPT !.status = "COMMITTED", !.rows = NoRows]
      BY <2>0
    <3>4. \A rows : imp' # [imp EXCEPT !.rows = rows]
      BY <2>0
    <3> QED
      BY <2>1, <3>1, <3>2, <3>3, <3>4, StepsOnTheImport DEF Changes
  <2>3. imp.exp <= req[t].now /\ req[t].now <= clock /\ req[t].now \in Nat
    BY <1>2, <2>2 DEF StillOverdue, Overdue, ImportInv, ImportTyped, TabsTyped, Request, Asked
  <2> QED
    BY <2>0, <2>3
<1> QED
  BY <1>1, <1>2, ImportInvariance, PTL DEF ISpec, DraftsEndWithTheirRows, OnlyOverdueExpire

-----------------------------------------------------------------------------
(* Quick adds *)

Ops == Users \X Operations

Call == [step : {"IDLE", "SENT", "PREPARED"} \cup Inside, user : Users \cup {NULL},
         op : Operations \cup {NULL}, record : Records \cup {NULL}, fetched : BOOLEAN,
         edition : Nat, new : BOOLEAN, refers : BOOLEAN, attempt : Nat \ {0}]

AddTyped ==
  /\ editions \subseteq [id : Nat \ {0}, record : Records]
  /\ reference \in [Records -> Nat]
  /\ operation \in [Ops -> [record : Records \cup {NULL}, copy : Nat]]
  /\ call \in [Calls -> Call]
  /\ answers \subseteq [by : Ops, record : Records, copy : Nat]
  /\ made \subseteq [id : Nat \ {0}, by : Ops] /\ IsFiniteSet(made)

\* What has been made for an operation, and told about it, is what its row says until the
\* copy is removed, and a row is never forgotten.
Remembered ==
  /\ \A x \in Ops : operation[x].record = NULL => operation[x].copy = 0
  /\ \A x \in Ops : operation[x].copy # 0 => [id |-> operation[x].copy, by |-> x] \in made
  /\ \A m \in made : operation[m.by].record # NULL
  /\ \A m, n \in made : m.by = n.by => m = n
  /\ \A a \in answers : /\ [id |-> a.copy, by |-> a.by] \in made
                        /\ operation[a.by].record = a.record

\* Every edition is the one its record refers to.
Referred ==
  /\ \A e \in editions : reference[e.record] = e.id
  /\ \A r \in Records : reference[r] # 0 => [id |-> reference[r], record |-> r] \in editions

Early == {"IDLE", "SENT", "PREPARED", "LOCKED"}
Plain(r) == KindOf[r] # "VOLUME"

\* What a request knows is still so.
Knows(c) ==
  /\ c.step # "IDLE" => c.user \in Users /\ c.op \in Operations /\ c.record \in Records
  /\ c.step \in Early => ~c.new /\ ~c.refers
  /\ c.step \notin Early => Row(c).record = NULL
  /\ c.step = "NEW" => ~c.new /\ ~c.refers /\ c.fetched
  /\ c.step = "MADE" => c.new /\ ~c.refers /\ c.edition # 0
  /\ c.step = "READY" => \/ c.new /\ c.refers /\ c.edition # 0
                         \/ ~c.new /\ ~c.refers /\ reference[c.record] = c.edition /\ c.edition # 0
  /\ c.refers => reference[c.record] \in {0, c.edition}

\* ... and a record that has been looked for and has no edition is one's own to make, unless
\* another request is first: then its edition is there for the next attempt.
Races(c) ==
  /\ c.step \in {"PREPARED", "LOCKED"} /\ ~c.fetched => Row(c).record # NULL \/ reference[c.record] # 0
  /\ c.attempt > 1 => c.record \in Records /\ reference[c.record] # 0
  /\ c.step = "NEW" => c.attempt = 1
  /\ c.step \in {"NEW", "MADE"} /\ KindOf[c.record] = "WORK" => reference[c.record] = 0
  /\ c.new /\ KindOf[c.record] = "ISBN" => reference[c.record] = 0

\* Two requests in their transactions.
Apart(c, d) ==
  /\ c.step \in Inside /\ d.step \in Inside => <<c.user, c.op>> # <<d.user, d.op>>
  /\ c.refers /\ d.refers => c.record # d.record
  /\ c.step \in Inside \ {"LOCKED"} /\ d.step \in Inside \ {"LOCKED"} /\ c.record = d.record =>
       KindOf[c.record] # "WORK"
  /\ c.new /\ d.new /\ c.record = d.record => KindOf[c.record] # "ISBN"

AddInv ==
  /\ AddTyped /\ Remembered /\ Referred /\ RacesAreSettled
  /\ \A k \in Calls : Knows(call[k]) /\ Races(call[k])
  /\ \A k, j \in Calls : k # j => Apart(call[k], call[j])

-----------------------------------------------------------------------------

LEMMA IdleIsTyped == Idle \in Call
BY DEF Idle, Outside, Call

LEMMA LocalIsReferred ==
  ASSUME AddInv, NEW r \in Records
  PROVE  EditionIds(r) = {reference[r]} \ {0} /\ Local(r) = {reference[r]} \ {0}
<1>1. reference[r] \in Nat /\ \A e \in editions : e.id \in Nat
  BY DEF AddInv, AddTyped
<1>2. \A e \in editions : e.record = r => e.id = reference[r]
  BY DEF AddInv, Referred
<1>3. reference[r] # 0 => \E e \in editions : e.record = r /\ e.id = reference[r]
  BY DEF AddInv, Referred
<1>4. \A e \in editions : e.id # 0
  BY DEF AddInv, AddTyped
<1> QED
  BY <1>1, <1>2, <1>3, <1>4 DEF EditionIds, Local

LEMMA RowIs ==
  ASSUME QuickAddAssumption, AddInv, NEW k \in Calls, call[k].step # "IDLE"
  PROVE  /\ call[k].user \in Users /\ call[k].op \in Operations /\ call[k].record \in Records
         /\ <<call[k].user, call[k].op>> \in Ops /\ call[k].record # NULL
         /\ Row(call[k]) = NoOperation <=> Row(call[k]).record = NULL
<1>1. call[k].user \in Users /\ call[k].op \in Operations /\ call[k].record \in Records
  BY DEF AddInv, Knows
<1>2. <<call[k].user, call[k].op>> \in Ops /\ call[k].record # NULL
  BY <1>1 DEF Ops, QuickAddAssumption
<1>3. \A x \in Ops : operation[x] = NoOperation <=> operation[x].record = NULL
  BY DEF AddInv, AddTyped, Remembered, NoOperation
<1> QED
  BY <1>1, <1>2, <1>3 DEF Row

\* A step that changes nothing but what one request knows.
LEMMA CallKeeps ==
  ASSUME QuickAddAssumption, AddInv, NEW k \in Calls, NEW c \in Call, call' = [call EXCEPT ![k] = c],
         UNCHANGED <<tables, made>>, RacesAreSettled', Remembered', answers' \subseteq [by : Ops, record : Records, copy : Nat],
         Knows(c), Races(c), \A j \in Calls \ {k} : Apart(c, call[j])
  PROVE  AddInv'
<1>1. AddTyped' /\ Referred'
  BY DEF AddInv, AddTyped, Referred, tables
<1>2. call'[k] = c /\ \A j \in Calls \ {k} : call'[j] = call[j]
  BY DEF AddInv, AddTyped
<1>3. \A j \in Calls : (Knows(call[j]) /\ Races(call[j]))'
  <2>1. \A j \in Calls : Knows(call'[j]) /\ Races(call'[j])
    BY <1>2 DEF AddInv
  <2> QED
    BY <2>1 DEF Knows, Races, Row, tables
<1>4. \A i, j \in Calls : i # j => Apart(call[i], call[j])'
  <2>1. \A i, j \in Calls : i # j => Apart(call'[i], call'[j])
    BY <1>2 DEF AddInv, Apart
  <2> QED
    BY <2>1 DEF Apart
<1> QED
  BY <1>1, <1>3, <1>4 DEF AddInv

LEMMA IdleKeeps ==
  ASSUME QuickAddAssumption, AddInv, NEW k \in Calls, call' = [call EXCEPT ![k] = Idle],
         UNCHANGED <<tables, made>>, RacesAreSettled', Remembered', answers' \subseteq [by : Ops, record : Records, copy : Nat]
  PROVE  AddInv'
<1>1. Knows(Idle) /\ Races(Idle)
  BY DEF Knows, Races, Idle, Outside, Early
<1>2. \A j \in Calls : Apart(Idle, call[j])
  BY DEF Apart, Idle, Outside, Inside
<1> QED
  BY <1>1, <1>2, IdleIsTyped, CallKeeps

LEMMA GhostsKept ==
  ASSUME AddInv, UNCHANGED <<tables, ghosts>>
  PROVE  RacesAreSettled' /\ Remembered' /\ answers' \subseteq [by : Ops, record : Records, copy : Nat]
BY DEF AddInv, AddTyped, Remembered, RacesAreSettled, tables, ghosts

-----------------------------------------------------------------------------
(* Before the transaction *)

LEMMA SendAddKeeps ==
  ASSUME QuickAddAssumption, AddInv, NEW k \in Calls,
         NEW u \in Users, NEW o \in Operations, NEW r \in Records, SendAdd(k, u, o, r)
  PROVE  AddInv'
<1> DEFINE c == Outside("SENT", u, o, r, FALSE, 1)
<1>1. /\ c \in Call /\ c.step = "SENT" /\ c.user = u /\ c.op = o /\ c.record = r
      /\ ~c.new /\ ~c.refers /\ c.attempt = 1
  BY DEF Outside, Call
<1>2. call' = [call EXCEPT ![k] = c] /\ UNCHANGED <<tables, ghosts>>
  BY DEF SendAdd
<1> HIDE DEF c
<1>3. Knows(c) /\ Races(c)
  BY <1>1 DEF Knows, Races, Early
<1>4. \A j \in Calls : Apart(c, call[j])
  BY <1>1 DEF Apart, Inside
<1> QED
  BY <1>1, <1>2, <1>3, <1>4, CallKeeps, GhostsKept DEF ghosts

LEMMA PrepareKeeps ==
  ASSUME QuickAddAssumption, AddInv, NEW k \in Calls, Prepare(k)
  PROVE  AddInv'
<1> DEFINE needed == Row(call[k]) = NoOperation /\ Local(call[k].record) = {}
           c == [call[k] EXCEPT !.step = "PREPARED", !.fetched = needed]
<1>0. call[k] \in Call /\ call[k].step = "SENT" /\ needed \in BOOLEAN
  BY DEF AddInv, AddTyped, Prepare
<1>1. CASE call' = [call EXCEPT ![k] = Idle]
  BY <1>1, IdleKeeps, GhostsKept DEF Prepare, ghosts
<1>2. CASE call' = [call EXCEPT ![k] = c]
  <2>1. /\ c \in Call /\ c.step = "PREPARED" /\ c.fetched = needed /\ c.attempt = call[k].attempt
        /\ c.user = call[k].user /\ c.op = call[k].op /\ c.record = call[k].record
        /\ c.new = call[k].new /\ c.refers = call[k].refers
    BY <1>0 DEF Call
  <2>2. c.record \in Records /\ c.user \in Users /\ c.op \in Operations /\ ~c.new /\ ~c.refers
    BY <1>0, <2>1 DEF AddInv, Knows, Early
  <2>3. ~needed => Row(call[k]).record # NULL \/ reference[call[k].record] # 0
    BY <1>0, RowIs, LocalIsReferred
  <2> HIDE DEF c, needed
  <2>4. Knows(c)
    BY <2>1, <2>2 DEF Knows, Early
  <2>5. Races(c)
    <3>1. c.attempt > 1 => reference[c.record] # 0
      BY <2>1 DEF AddInv, Races
    <3>2. ~c.fetched => Row(c).record # NULL \/ reference[c.record] # 0
      BY <2>1, <2>3 DEF Row
    <3> QED
      BY <2>1, <2>2, <3>1, <3>2 DEF Races
  <2>6. \A j \in Calls : Apart(c, call[j])
    BY <2>1, <2>2 DEF Apart, Inside
  <2>7. UNCHANGED <<tables, ghosts>>
    BY DEF Prepare
  <2> QED
    BY <1>2, <2>1, <2>4, <2>5, <2>6, <2>7, CallKeeps, GhostsKept DEF ghosts
<1> QED
  BY <1>1, <1>2 DEF Prepare

-----------------------------------------------------------------------------
(* In the transaction *)

LEMMA LockAddKeeps ==
  ASSUME QuickAddAssumption, AddInv, NEW k \in Calls, LockOperation(k)
  PROVE  AddInv'
<1> DEFINE c == [call[k] EXCEPT !.step = "LOCKED"]
<1>1. /\ call[k] \in Call /\ call[k].step = "PREPARED" /\ Knows(call[k]) /\ Races(call[k])
      /\ UNCHANGED <<tables, ghosts>>
      /\ \A j \in Calls \ {k} : call[j].step \in Inside =>
            <<call[j].user, call[j].op>> # <<call[k].user, call[k].op>>
  <2>1. call[k].step = "PREPARED" /\ UNCHANGED <<tables, ghosts>>
    BY DEF LockOperation
  <2>2. \A j \in Calls \ {k} : call[j].step \in Inside =>
            <<call[j].user, call[j].op>> # <<call[k].user, call[k].op>>
    BY DEF LockOperation, Others
  <2> QED
    BY <2>1, <2>2 DEF AddInv, AddTyped
<1>2. call' = [call EXCEPT ![k] = c]
  BY DEF LockOperation
<1>3. /\ c \in Call /\ c.step = "LOCKED" /\ c.fetched = call[k].fetched /\ c.attempt = call[k].attempt
      /\ c.user = call[k].user /\ c.op = call[k].op /\ c.record = call[k].record
      /\ c.new = call[k].new /\ c.refers = call[k].refers
  BY <1>1 DEF Call, Inside
<1> HIDE DEF c
<1>4. Knows(c) /\ Races(c)
  BY <1>1, <1>3 DEF Knows, Races, Early, Row
<1>5. \A j \in Calls \ {k} : Apart(c, call[j])
  BY <1>1, <1>3 DEF Apart, Inside, Knows, Early
<1> QED
  BY <1>1, <1>2, <1>3, <1>4, <1>5, CallKeeps, GhostsKept DEF ghosts

LEMMA ReplayKeeps ==
  ASSUME QuickAddAssumption, AddInv, NEW k \in Calls, Replay(k)
  PROVE  AddInv'
<1> DEFINE x == <<call[k].user, call[k].op>>
           told == [by |-> x, record |-> call[k].record, copy |-> Row(call[k]).copy]
<1>1. /\ x \in Ops /\ call[k].record \in Records /\ Row(call[k]) = operation[x]
      /\ operation[x].copy \in Nat /\ UNCHANGED <<tables, made, refused>>
      /\ call' = [call EXCEPT ![k] = Idle]
  BY RowIs DEF Replay, Row, AddInv, AddTyped
<1>2. \/ answers' = answers
      \/ /\ answers' = answers \cup {told}
         /\ operation[x].record = call[k].record /\ operation[x].copy # 0
  BY <1>1 DEF Replay, SameRequest
<1>a. /\ told \in [by : Ops, record : Records, copy : Nat]
      /\ told.by = x /\ told.record = call[k].record /\ told.copy = operation[x].copy
  BY <1>1
<1> HIDE DEF told, x
<1>3. answers' \subseteq [by : Ops, record : Records, copy : Nat]
  BY <1>2, <1>a DEF AddInv, AddTyped
<1>4. Remembered'
  <2>1. \A a \in answers' : [id |-> a.copy, by |-> a.by] \in made /\ operation[a.by].record = a.record
    BY <1>1, <1>2, <1>a DEF AddInv, Remembered
  <2> QED
    BY <1>1, <2>1 DEF AddInv, Remembered, tables
<1>5. RacesAreSettled'
  BY <1>1 DEF AddInv, RacesAreSettled
<1> QED
  BY <1>1, <1>3, <1>4, <1>5, IdleKeeps

LEMMA UseKeeps ==
  ASSUME QuickAddAssumption, AddInv, NEW k \in Calls, UseEdition(k)
  PROVE  AddInv'
<1> DEFINE r == call[k].record
           c == [call[k] EXCEPT !.edition = reference[r], !.step = "READY"]
<1>1. /\ call[k] \in Call /\ call[k].step = "LOCKED" /\ Knows(call[k]) /\ Races(call[k])
      /\ r \in Records /\ reference[r] \in Nat /\ Row(call[k]).record = NULL
      /\ UNCHANGED <<tables, ghosts>> /\ RecordFree(k)
  BY RowIs DEF AddInv, AddTyped, UseEdition
<1>2. reference[r] # 0 /\ call' = [call EXCEPT ![k] = c]
  <2>1. PICK e \in Local(r) : call' = [call EXCEPT ![k] = [call[k] EXCEPT
          !.edition = e, !.step = IF call[k].fetched /\ reference[r] = 0 THEN "MADE" ELSE "READY"]]
    BY DEF UseEdition
  <2>2. e = reference[r] /\ reference[r] # 0
    BY <1>1, <2>1, LocalIsReferred
  <2> QED
    BY <2>1, <2>2
<1>3. /\ c \in Call /\ c.step = "READY" /\ c.edition = reference[r] /\ c.attempt = call[k].attempt
      /\ c.user = call[k].user /\ c.op = call[k].op /\ c.record = r
      /\ c.new = call[k].new /\ c.refers = call[k].refers
  BY <1>1 DEF Call, Inside
<1> HIDE DEF c
<1>4. Knows(c) /\ Races(c)
  BY <1>1, <1>2, <1>3 DEF Knows, Races, Early, Row
<1>5. \A j \in Calls \ {k} : Apart(c, call[j])
  BY <1>1, <1>3 DEF AddInv, Apart, Inside, Knows, Early, RecordFree, Others
<1> QED
  BY <1>1, <1>2, <1>3, <1>4, <1>5, CallKeeps, GhostsKept DEF ghosts

LEMMA NeedKeeps ==
  ASSUME QuickAddAssumption, AddInv, NEW k \in Calls, NeedEdition(k)
  PROVE  AddInv'
<1> DEFINE r == call[k].record
           c == [call[k] EXCEPT !.step = "NEW"]
<1>1. /\ call[k] \in Call /\ call[k].step = "LOCKED" /\ Knows(call[k]) /\ Races(call[k])
      /\ r \in Records /\ reference[r] = 0 /\ Row(call[k]).record = NULL
      /\ UNCHANGED <<tables, answers, made>> /\ RecordFree(k)
  <2>1. call[k].step = "LOCKED" /\ Row(call[k]) = NoOperation /\ Local(r) = {}
        /\ UNCHANGED <<tables, answers, made>> /\ RecordFree(k)
    BY DEF NeedEdition
  <2>2. call[k] \in Call /\ Knows(call[k]) /\ Races(call[k])
    BY DEF AddInv, AddTyped
  <2>3. r \in Records /\ Row(call[k]).record = NULL
    BY <2>1, RowIs
  <2>4. reference[r] = 0
    BY <2>1, <2>3, LocalIsReferred
  <2> QED
    BY <2>1, <2>2, <2>3, <2>4
<1>2. call[k].fetched /\ call[k].attempt = 1
  <2>1. call[k].attempt \in Nat \ {0} /\ ~(call[k].attempt > 1) /\ call[k].fetched
    BY <1>1 DEF Races, Call
  <2> QED
    BY <2>1
<1>3. call' = [call EXCEPT ![k] = c] /\ refused' = refused
  BY <1>2 DEF NeedEdition
<1>4. /\ c \in Call /\ c.step = "NEW" /\ c.fetched /\ c.attempt = 1
      /\ c.user = call[k].user /\ c.op = call[k].op /\ c.record = r
      /\ c.new = call[k].new /\ c.refers = call[k].refers
  BY <1>1, <1>2 DEF Call, Inside
<1> HIDE DEF c
<1>5. Knows(c) /\ Races(c)
  BY <1>1, <1>2, <1>4 DEF Knows, Races, Early, Row
<1>6. \A j \in Calls \ {k} : Apart(c, call[j])
  BY <1>1, <1>4 DEF AddInv, Apart, Inside, Knows, Early, RecordFree, Others
<1> QED
  BY <1>1, <1>3, <1>4, <1>5, <1>6, CallKeeps, GhostsKept DEF ghosts

\* Only an ISBN that somebody else was first to enter loses, and only once.
LEMMA LoseKeeps ==
  ASSUME QuickAddAssumption, AddInv, NEW k \in Calls, call[k].step = "NEW", Lose(k),
         reference[call[k].record] # 0
  PROVE  AddInv'
<1> DEFINE c == Outside("PREPARED", call[k].user, call[k].op, call[k].record, call[k].fetched,
                       call[k].attempt + 1)
<1>1. /\ call[k] \in Call /\ Knows(call[k]) /\ Races(call[k]) /\ call[k].record \in Records
      /\ call[k].user \in Users /\ call[k].op \in Operations
      /\ call[k].attempt = 1 /\ call[k].fetched
      /\ UNCHANGED <<tables, answers, made>>
  BY RowIs DEF AddInv, AddTyped, Lose, Races, Knows
<1>2. /\ c \in Call /\ c.step = "PREPARED" /\ c.fetched /\ c.attempt = 2
      /\ c.user = call[k].user /\ c.op = call[k].op /\ c.record = call[k].record
      /\ ~c.new /\ ~c.refers /\ c # Idle
  BY <1>1 DEF Outside, Idle, Call
<1> HIDE DEF c
<1>3. CASE 1 < MaxAttempts
  <2>1. AfterRace(call[k]) = c
    BY <1>1, <1>3 DEF AfterRace, c
  <2>2. call' = [call EXCEPT ![k] = c] /\ refused' = refused
    BY <1>2, <2>1 DEF Lose
  <2>3. Knows(c) /\ Races(c)
    BY <1>1, <1>2 DEF Knows, Races, Early
  <2>4. \A j \in Calls : Apart(c, call[j])
    BY <1>2 DEF Apart, Inside
  <2> QED
    BY <1>1, <1>2, <2>2, <2>3, <2>4, CallKeeps, GhostsKept DEF ghosts
<1>4. CASE ~(1 < MaxAttempts)
  <2>1. AfterRace(call[k]) = Idle
    BY <1>1, <1>4 DEF AfterRace
  <2>2. call' = [call EXCEPT ![k] = Idle]
    BY <2>1 DEF Lose
  <2>3. RacesAreSettled'
    BY <1>4 DEF RacesAreSettled, QuickAddAssumption
  <2>4. Remembered' /\ answers' \subseteq [by : Ops, record : Records, copy : Nat]
    BY <1>1 DEF AddInv, AddTyped, Remembered, tables
  <2> QED
    BY <1>1, <2>2, <2>3, <2>4, IdleKeeps
<1> QED
  BY <1>3, <1>4

LEMMA FreshId ==
  ASSUME FreeIds # {}
  PROVE  NextEdition \in Nat \ {0}
<1>1. NextEdition \in FreeIds
  BY DEF NextEdition
<1> QED
  BY <1>1 DEF FreeIds

LEMMA CreateKeeps ==
  ASSUME QuickAddAssumption, AddInv, NEW k \in Calls, CreateEdition(k)
  PROVE  AddInv'
<1> DEFINE r == call[k].record
           c == [call[k] EXCEPT !.step = "MADE", !.edition = NextEdition, !.new = TRUE]
<1>1. /\ call[k] \in Call /\ call[k].step = "NEW" /\ Knows(call[k]) /\ Races(call[k])
      /\ r \in Records /\ reference[r] \in Nat
  BY RowIs DEF AddInv, AddTyped, CreateEdition
<1>2. CASE KindOf[r] = "ISBN" /\ EditionIds(r) # {}
  <2>1. reference[r] # 0 /\ Lose(k)
    BY <1>1, <1>2, LocalIsReferred DEF CreateEdition
  <2> QED
    BY <1>1, <2>1, LoseKeeps
<1>3. CASE ~(KindOf[r] = "ISBN" /\ EditionIds(r) # {})
  <2>1. call' = [call EXCEPT ![k] = c] /\ UNCHANGED <<tables, ghosts>> /\ FreeIds # {}
    BY <1>3 DEF CreateEdition
  <2>2. NextEdition \in Nat \ {0}
    BY <2>1, FreshId
  <2>3. /\ c \in Call /\ c.step = "MADE" /\ c.edition # 0 /\ c.attempt = call[k].attempt
        /\ c.user = call[k].user /\ c.op = call[k].op /\ c.record = r
        /\ c.new /\ c.refers = call[k].refers
    BY <1>1, <2>2 DEF Call, Inside
  <2>4. KindOf[r] = "ISBN" => /\ reference[r] = 0
                              /\ \A j \in Calls \ {k} : call[j].step \in Inside /\ call[j].new => call[j].record # r
    BY <1>1, <1>3, LocalIsReferred DEF CreateEdition, Others
  <2>5. \A j \in Calls : call[j].new => call[j].step \in Inside
    BY DEF AddInv, AddTyped, Call, Knows, Early
  <2> HIDE DEF c
  <2>6. Knows(c) /\ Races(c)
    BY <1>1, <2>3, <2>4 DEF Knows, Races, Early, Row
  <2>7. \A j \in Calls \ {k} : Apart(call[k], call[j])
    BY DEF AddInv
  <2>8. \A j \in Calls \ {k} : Apart(c, call[j])
    BY <1>1, <2>3, <2>4, <2>5, <2>7 DEF Apart, Inside, Knows
  <2> QED
    BY <2>1, <2>3, <2>6, <2>8, CallKeeps, GhostsKept DEF ghosts
<1> QED
  BY <1>2, <1>3

LEMMA RememberKeeps ==
  ASSUME QuickAddAssumption, AddInv, NEW k \in Calls, RememberReference(k)
  PROVE  AddInv'
<1> DEFINE r == call[k].record
           c == [call[k] EXCEPT !.step = "READY", !.refers = TRUE]
<1>1. /\ call[k] \in Call /\ call[k].step = "MADE" /\ Knows(call[k]) /\ Races(call[k])
      /\ r \in Records /\ reference[r] \in Nat /\ call[k].new /\ ~call[k].refers
      /\ KindOf[r] \in RecordKinds
  BY RowIs DEF AddInv, AddTyped, RememberReference, Knows, QuickAddAssumption
<1>2. KindOf[r] # "VOLUME" => reference[r] = 0
  BY <1>1 DEF Races, RecordKinds
<1>3. CASE KindOf[r] # "WORK" /\ Elsewhere(call[k])
  <2>1. /\ call' = [call EXCEPT ![k] = Idle] /\ refused' = refused \cup {r}
        /\ UNCHANGED <<tables, answers, made>> /\ KindOf[r] = "VOLUME"
    BY <1>1, <1>2, <1>3 DEF RememberReference, Elsewhere
  <2>2. RacesAreSettled'
    BY <2>1 DEF AddInv, RacesAreSettled
  <2>3. Remembered' /\ answers' \subseteq [by : Ops, record : Records, copy : Nat]
    BY <2>1 DEF AddInv, AddTyped, Remembered, tables
  <2> QED
    BY <2>1, <2>2, <2>3, IdleKeeps
<1>4. CASE ~(KindOf[r] # "WORK" /\ Elsewhere(call[k]))
  <2>1. call' = [call EXCEPT ![k] = c] /\ UNCHANGED <<tables, ghosts>>
    BY <1>2, <1>4 DEF RememberReference
  <2>2. reference[r] \in {0, call[k].edition}
    BY <1>2, <1>4 DEF Elsewhere
  <2>3. /\ c \in Call /\ c.step = "READY" /\ c.edition = call[k].edition /\ c.attempt = call[k].attempt
        /\ c.user = call[k].user /\ c.op = call[k].op /\ c.record = r /\ c.new /\ c.refers
    BY <1>1 DEF Call, Inside
  <2>4. \A j \in Calls \ {k} : call[j].refers => call[j].record # r
    <3>1. \A j \in Calls : call[j].refers => call[j].step \in Inside
      BY DEF AddInv, AddTyped, Call, Knows, Early
    <3> QED
      BY <3>1 DEF RememberReference, Others
  <2> HIDE DEF c
  <2>5. Knows(c) /\ Races(c)
    BY <1>1, <2>2, <2>3 DEF Knows, Races, Early, Row
  <2>6. \A j \in Calls \ {k} : Apart(call[k], call[j])
    BY DEF AddInv
  <2>7. \A j \in Calls \ {k} : Apart(c, call[j])
    BY <1>1, <2>3, <2>4, <2>6 DEF Apart, Inside
  <2> QED
    BY <2>1, <2>3, <2>5, <2>7, CallKeeps, GhostsKept DEF ghosts
<1> QED
  BY <1>3, <1>4

-----------------------------------------------------------------------------
(* The commit *)

LEMMA CommitKeeps ==
  ASSUME QuickAddAssumption, AddInv, NEW k \in Calls, Commit(k)
  PROVE  AddInv'
<1> DEFINE c == call[k]
           r == c.record
           x == <<c.user, c.op>>
           id == Cardinality(made) + 1
<1>1. /\ c \in Call /\ c.step = "READY" /\ Knows(c) /\ Races(c) /\ r \in Records /\ r # NULL /\ x \in Ops
      /\ reference[r] \in Nat /\ operation[x].record = NULL /\ c.edition \in Nat /\ c.edition # 0
      /\ \A j \in Calls \ {k} : Apart(c, call[j]) /\ Knows(call[j]) /\ Races(call[j])
  <2>1. c.step = "READY" /\ c \in Call /\ Knows(c) /\ Races(c)
    BY DEF Commit, AddInv, AddTyped
  <2>2. c.edition # 0 /\ c.edition \in Nat /\ operation[x].record = NULL
    BY <2>1 DEF Knows, Early, Row, Call
  <2> QED
    BY <2>1, <2>2, RowIs DEF AddInv, AddTyped
<1>2. id \in Nat \ {0}
  BY FS_CardinalityType DEF AddInv, AddTyped
<1>3. /\ call' = [call EXCEPT ![k] = Idle] /\ refused' = refused
      /\ editions' = IF c.new THEN editions \cup {[id |-> c.edition, record |-> r]} ELSE editions
      /\ reference' = [reference EXCEPT ![r] = IF c.refers /\ reference[r] = 0 THEN c.edition ELSE reference[r]]
      /\ operation' = [operation EXCEPT ![x] = [record |-> r, copy |-> id]]
      /\ made' = made \cup {[id |-> id, by |-> x]}
      /\ \/ answers' = answers
         \/ answers' = answers \cup {[by |-> x, record |-> r, copy |-> id]}
  BY DEF Commit, Recorded
<1> HIDE DEF id, x, r, c
<1>4. reference'[r] = c.edition /\ (reference[r] # 0 => reference'[r] = reference[r])
      /\ \A q \in Records \ {r} : reference'[q] = reference[q]
  BY <1>1, <1>3 DEF Knows, AddInv, AddTyped, r
<1>5. operation'[x] = [record |-> r, copy |-> id] /\ \A y \in Ops \ {x} : operation'[y] = operation[y]
  BY <1>1, <1>3 DEF AddInv, AddTyped
<1>6. AddTyped'
  <2>1. editions' \subseteq [id : Nat \ {0}, record : Records] /\ reference' \in [Records -> Nat]
    BY <1>1, <1>3 DEF AddInv, AddTyped
  <2>2. operation' \in [Ops -> [record : Records \cup {NULL}, copy : Nat]]
    BY <1>1, <1>2, <1>3 DEF AddInv, AddTyped
  <2>3. call' \in [Calls -> Call]
    BY <1>3, IdleIsTyped DEF AddInv, AddTyped
  <2>4. made' \subseteq [id : Nat \ {0}, by : Ops] /\ IsFiniteSet(made')
    <3>1. IsFiniteSet(made \cup {[id |-> id, by |-> x]})
      BY FS_AddElement DEF AddInv, AddTyped
    <3>2. [id |-> id, by |-> x] \in [id : Nat \ {0}, by : Ops]
      BY <1>1, <1>2
    <3> QED
      BY <1>3, <3>1, <3>2 DEF AddInv, AddTyped
  <2>5. answers' \subseteq [by : Ops, record : Records, copy : Nat]
    BY <1>1, <1>2, <1>3 DEF AddInv, AddTyped
  <2> QED
    BY <2>1, <2>2, <2>3, <2>4, <2>5 DEF AddTyped
<1>7. Remembered'
  <2>0. Remembered /\ AddTyped
    BY DEF AddInv
  <2>1. \A m \in made : m.by \in Ops /\ m.by # x
    BY <1>1, <2>0 DEF Remembered, AddTyped
  <2>2. \A a \in answers : a.by \in Ops /\ a.by # x
    <3>1. \A a \in answers : a.by \in Ops /\ a.record \in Records
      BY <2>0 DEF AddTyped
    <3> QED
      BY <1>1, <2>0, <3>1 DEF Remembered, QuickAddAssumption
  <2>3. \A y \in Ops : operation'[y].record = NULL => operation'[y].copy = 0
    BY <1>1, <1>5, <2>0 DEF Remembered
  <2>4. \A y \in Ops : operation'[y].copy # 0 => [id |-> operation'[y].copy, by |-> y] \in made'
    BY <1>3, <1>5, <2>0 DEF Remembered
  <2>5. \A m \in made' : operation'[m.by].record # NULL
    BY <1>1, <1>3, <1>5, <2>0, <2>1 DEF Remembered
  <2>6. \A m, n \in made' : m.by = n.by => m = n
    BY <1>3, <2>0, <2>1 DEF Remembered
  <2>7. \A a \in answers' : /\ [id |-> a.copy, by |-> a.by] \in made'
                            /\ operation'[a.by].record = a.record
    <3>1. \A a \in answers : [id |-> a.copy, by |-> a.by] \in made' /\ operation'[a.by].record = a.record
      BY <1>3, <1>5, <2>0, <2>2 DEF Remembered
    <3> DEFINE n == [by |-> x, record |-> r, copy |-> id]
    <3>2. n.by = x /\ n.record = r /\ n.copy = id
      OBVIOUS
    <3>3. [id |-> n.copy, by |-> n.by] \in made' /\ operation'[n.by].record = n.record
      BY <1>3, <1>5, <3>2
    <3> QED
      BY <1>3, <3>1, <3>3
  <2> QED
    BY <2>3, <2>4, <2>5, <2>6, <2>7 DEF Remembered
<1>8. Referred'
  <2>1. \A e \in editions : e.record \in Records /\ reference[e.record] = e.id /\ e.id # 0
    BY DEF AddInv, AddTyped, Referred
  <2>2. \A e \in editions' : reference'[e.record] = e.id
    BY <1>3, <1>4, <2>1
  <2>3. ~c.new => reference[r] = c.edition
    BY <1>1 DEF Knows, r
  <2>4. \A q \in Records : reference'[q] # 0 => [id |-> reference'[q], record |-> q] \in editions'
    BY <1>1, <1>3, <1>4, <2>3 DEF AddInv, Referred
  <2> QED
    BY <2>2, <2>4 DEF Referred
<1>9. RacesAreSettled'
  BY <1>3 DEF AddInv, RacesAreSettled
<1>10. call'[k] = Idle /\ \A j \in Calls \ {k} : call'[j] = call[j]
  BY <1>3 DEF AddInv, AddTyped
<1>11. ASSUME NEW d \in Call, Knows(d), Races(d), Apart(c, d)
       PROVE  Knows(d)' /\ Races(d)'
  <2>1. d.record \in Records /\ d.record # r => reference'[d.record] = reference[d.record]
    BY <1>4
  <2>2. d.step # "IDLE" => <<d.user, d.op>> \in Ops /\ d.record \in Records
    BY <1>11 DEF Knows, Ops
  <2>3. d.step # "IDLE" /\ Row(d).record # NULL => operation'[<<d.user, d.op>>].record # NULL
    BY <1>1, <1>5, <1>11, <2>2 DEF Row
  <2>4. d.step \notin Early => operation'[<<d.user, d.op>>].record = NULL
    <3>1. d.step \notin Early => d.step \in Inside /\ Row(d).record = NULL
      BY <1>11 DEF Call, Early, Inside, Knows
    <3>2. d.step \in Inside => <<d.user, d.op>> # x
      BY <1>1, <1>11 DEF Apart, Inside, x
    <3> QED
      BY <1>5, <2>2, <3>1, <3>2 DEF Row, Early
  <2>5. d.record \in Records /\ reference[d.record] # 0 => reference'[d.record] = reference[d.record]
    BY <1>4, <2>1
  <2>6. d.record \in Records /\ d.refers => reference'[d.record] \in {0, d.edition}
    BY <1>1, <1>4, <1>11, <2>1 DEF Apart, Knows, r
  <2>7. Knows(d)'
    BY <1>11, <2>2, <2>4, <2>5, <2>6 DEF Knows, Row, Early
  <2>8. d.step \in {"NEW", "MADE"} /\ KindOf[d.record] = "WORK" => reference'[d.record] = 0
    <3>1. d.step \in {"NEW", "MADE"} /\ d.record = r => KindOf[r] # "WORK"
      BY <1>1, <1>11 DEF Apart, Inside, r
    <3> QED
      BY <1>11, <2>1, <2>2, <3>1 DEF Races
  <2>9. d.new /\ KindOf[d.record] = "ISBN" => reference'[d.record] = 0
    <3>1. d.new => d.step # "IDLE"
      BY <1>11 DEF Knows, Early
    <3>2. d.new /\ d.record = r /\ KindOf[r] = "ISBN" => ~c.new /\ reference[r] = 0
      BY <1>11 DEF Apart, Races, r
    <3>3. ~c.new => reference[r] # 0
      BY <1>1 DEF Knows, r
    <3> QED
      BY <1>11, <2>1, <2>2, <3>1, <3>2, <3>3 DEF Races
  <2>10. Races(d)'
    <3>1. d.step \in {"PREPARED", "LOCKED"} /\ ~d.fetched =>
            operation'[<<d.user, d.op>>].record # NULL \/ reference'[d.record] # 0
      BY <1>11, <2>2, <2>3, <2>5 DEF Races
    <3>2. d.attempt > 1 => d.record \in Records /\ reference'[d.record] # 0
      BY <1>11, <2>5 DEF Races
    <3> QED
      BY <1>11, <2>8, <2>9, <3>1, <3>2 DEF Races, Row
  <2> QED
    BY <2>7, <2>10
<1>13. ASSUME NEW j \in Calls PROVE Knows(call[j])' /\ Races(call[j])'
  <2>1. CASE j = k
    BY <1>10, <2>1 DEF Knows, Races, Idle, Outside, Early
  <2>2. CASE j # k
    <3>1. call[j] \in Call /\ Knows(call[j]) /\ Races(call[j]) /\ Apart(c, call[j])
      BY <1>1, <2>2 DEF AddInv, AddTyped
    <3>2. \A d \in Call : Knows(d) /\ Races(d) /\ Apart(c, d) => Knows(d)' /\ Races(d)'
      BY <1>11
    <3>3. call'[j] = call[j]
      BY <1>10, <2>2
    <3> QED
      BY <3>1, <3>2, <3>3 DEF Knows, Races, Row
  <2> QED
    BY <2>1, <2>2
<1>12. \A i, j \in Calls : i # j => Apart(call[i], call[j])'
  <2>1. \A i, j \in Calls : i # j => Apart(call'[i], call'[j])
    BY <1>10 DEF AddInv, Apart, Idle, Outside, Inside
  <2> QED
    BY <2>1 DEF Apart
<1> QED
  BY <1>6, <1>7, <1>8, <1>9, <1>12, <1>13 DEF AddInv

-----------------------------------------------------------------------------
(* The rest, and the invariant *)

LEMMA AbortKeeps ==
  ASSUME QuickAddAssumption, AddInv, NEW k \in Calls, Abort(k)
  PROVE  AddInv'
BY IdleKeeps, GhostsKept DEF Abort, ghosts

LEMMA RemoveKeeps ==
  ASSUME QuickAddAssumption, AddInv, NEW p \in copyRows, RemoveCopy(p)
  PROVE  AddInv'
<1>1. /\ UNCHANGED <<editions, reference, call, ghosts>>
      /\ operation' = [x \in Ops |-> IF operation[x].copy = p.id
                                     THEN [operation[x] EXCEPT !.copy = 0] ELSE operation[x]]
  BY DEF RemoveCopy, AddInv, AddTyped
<1>2. \A x \in Ops : /\ operation[x] \in [record : Records \cup {NULL}, copy : Nat]
                     /\ operation'[x] \in [record : Records \cup {NULL}, copy : Nat]
                     /\ operation'[x].record = operation[x].record
                     /\ operation'[x].copy \in {0, operation[x].copy}
  BY <1>1 DEF AddInv, AddTyped
<1>3. operation' \in [Ops -> [record : Records \cup {NULL}, copy : Nat]]
  BY <1>1, <1>2
<1>4. AddTyped'
  BY <1>1, <1>3 DEF AddInv, AddTyped, ghosts
<1>5. Remembered'
  <2>1. \A m \in made : m.by \in Ops
    BY DEF AddInv, AddTyped
  <2>2. \A a \in answers : a.by \in Ops
    BY DEF AddInv, AddTyped
  <2> QED
    BY <1>1, <1>2, <2>1, <2>2 DEF AddInv, Remembered, ghosts
<1>6. Referred' /\ RacesAreSettled'
  BY <1>1 DEF AddInv, Referred, RacesAreSettled, ghosts
<1>7. \A j \in Calls : (Knows(call[j]) /\ Races(call[j]))'
  <2>1. ASSUME NEW c \in Call, Knows(c), Races(c)
        PROVE  Knows(c)' /\ Races(c)'
    <3>1. c.step # "IDLE" => Row(c)'.record = Row(c).record
      BY <1>2, <2>1 DEF Row, Knows, Ops
    <3> QED
      BY <1>1, <2>1, <3>1 DEF Knows, Races, Early
  <2>2. \A c \in Call : Knows(c) /\ Races(c) => Knows(c)' /\ Races(c)'
    BY <2>1
  <2> QED
    BY <1>1, <2>2 DEF AddInv, AddTyped, Knows, Races, Row
<1>8. \A i, j \in Calls : i # j => Apart(call[i], call[j])'
  BY <1>1 DEF AddInv, Apart
<1> QED
  BY <1>4, <1>5, <1>6, <1>7, <1>8 DEF AddInv

LEMMA AddInvInit ==
  ASSUME QuickAddAssumption, Init
  PROVE  AddInv
<1>1. AddTyped
  BY IdleIsTyped, FS_EmptySet DEF Init, AddTyped, NoOperation, Ops
<1>2. \A x \in Ops : operation[x] = NoOperation
  BY DEF Init, Ops
<1>3. Remembered
  BY <1>2 DEF Init, Remembered, NoOperation
<1>4. Referred /\ RacesAreSettled
  BY DEF Init, Referred, RacesAreSettled
<1>5. \A k \in Calls : call[k] = Idle
  BY DEF Init
<1>6. Knows(Idle) /\ Races(Idle) /\ Apart(Idle, Idle)
  BY DEF Knows, Races, Apart, Idle, Outside, Early, Inside
<1> QED
  BY <1>1, <1>3, <1>4, <1>5, <1>6 DEF AddInv

\* What quick-add.service.ts relies on is inductive: the row of an operation remembers what
\* it made, the catalog and the references agree, and the transactions under way exclude
\* each other as the advisory locks and the unique indexes make them.
THEOREM AddInvariance ==
  ASSUME QuickAddAssumption
  PROVE  Spec => []AddInv
<1>1. Init => AddInv
  BY AddInvInit
<1>2. AddInv /\ [Next]_vars => AddInv'
  <2> SUFFICES ASSUME AddInv, [Next]_vars
               PROVE  AddInv'
    OBVIOUS
  <2>1. ASSUME NEW k \in Calls, Step(k) PROVE AddInv'
    BY <2>1, PrepareKeeps, LockAddKeeps, ReplayKeeps, UseKeeps, NeedKeeps, CreateKeeps,
       RememberKeeps, CommitKeeps, AbortKeeps DEF Step
  <2>2. CASE UNCHANGED vars
    <3>1. AddTyped' /\ Remembered' /\ Referred' /\ RacesAreSettled'
      BY <2>2 DEF vars, AddInv, AddTyped, Remembered, Referred, RacesAreSettled
    <3>2. \A k \in Calls : (Knows(call[k]) /\ Races(call[k]))'
      BY <2>2 DEF vars, AddInv, Knows, Races, Row
    <3>3. \A k, j \in Calls : k # j => Apart(call[k], call[j])'
      BY <2>2 DEF vars, AddInv, Apart
    <3> QED
      BY <3>1, <3>2, <3>3 DEF AddInv
  <2> QED
    BY <2>1, <2>2, SendAddKeeps, RemoveKeeps DEF Next
<1> QED
  BY <1>1, <1>2, PTL DEF Spec

\* However often an operation is sent, and whoever else adds the same book at the moment,
\* it makes one copy and is always answered alike, the catalog gets one edition of a record,
\* and with a second attempt no ISBN and no work ends in an error.
THEOREM OneAddOneAnswerHolds ==
  ASSUME QuickAddAssumption
  PROVE  Spec => []OneAddOneAnswer
<1>1. AddInv => OneAddOneAnswer
  <2> SUFFICES ASSUME AddInv
               PROVE  OneAddOneAnswer
    OBVIOUS
  <2>1. OneCopyPerOperation
    BY DEF AddInv, Remembered, OneCopyPerOperation
  <2>2. AnswersAgree
    <3>1. ASSUME NEW a \in answers, NEW b \in answers, a.by = b.by
          PROVE  a.copy = b.copy /\ a.record = b.record
      <4> DEFINE m == [id |-> a.copy, by |-> a.by]
                 n == [id |-> b.copy, by |-> b.by]
      <4>1. m \in made /\ n \in made /\ m.by = n.by /\ m.id = a.copy /\ n.id = b.copy
        BY <3>1 DEF AddInv, Remembered
      <4>2. m = n
        BY <4>1 DEF AddInv, Remembered
      <4>3. a.record = b.record
        BY <3>1 DEF AddInv, Remembered
      <4> HIDE DEF m, n
      <4> QED
        BY <4>1, <4>2, <4>3
    <3> QED
      BY <3>1 DEF AnswersAgree
  <2>3. OneEditionPerRecord
    BY DEF AddInv, AddTyped, Referred, OneEditionPerRecord
  <2> QED
    BY <2>1, <2>2, <2>3 DEF AddInv, OneAddOneAnswer
<1> QED
  BY <1>1, AddInvariance, PTL
=============================================================================
