----------------------------- MODULE WorkMerge -----------------------------
(***************************************************************************)
(* Merging duplicate works (catalog/merge/merge.service.ts, run by an      *)
(* operator's command) against what users do to the same works meanwhile:  *)
(* reading statuses (reading-status.service.ts), the wishlist              *)
(* (wishlist.service.ts) and new translations (catalog.service.ts).        *)
(*                                                                         *)
(* A merge is one transaction: its writes appear in the step that commits  *)
(* it, its row locks are taken one by one before.  The rows of one user    *)
(* are modelled; reviews follow the same rule as reading statuses.  The    *)
(* language rules of a merge are in EditionLanguage.                       *)
(***************************************************************************)
EXTENDS Naturals, FiniteSets, Waits

CONSTANTS Works,        \* ids, whose order is the order of row locks
          Merges,       \* calls of the merge command
          Readers,      \* requests that set the user's reading status
          Wishers,      \* requests that add to the user's wishlist
          Translators,  \* requests that create a translation
          MaxClock      \* bound on the statuses set

WorkAssumption ==
  /\ Works \subseteq Nat \ {0} /\ MaxClock \in Nat
  \* A call is a call of one operation.
  /\ Merges \cap (Readers \cup Wishers \cup Translators) = {}
  /\ Readers \cap (Wishers \cup Translators) = {} /\ Wishers \cap Translators = {}

VARIABLES clock,
          into,         \* Work.mergedIntoId, 0 when the work is canonical
          status,       \* WorkReadingStatus: updatedAt of the user's row per work, 0 for no row
          wish,         \* WishlistItem: createdAt of the user's row per work, 0 for no row
          translation,  \* where each translation was created, then moved; 0 before
          chosen, wished,   \* history: the last status set and the works wished for
          pc, arg,      \* arg: <<source, target>> of a merge, the work of the others
          pending,      \* row locks a merge has still to take
          locked        \* row locks a merge holds
mvars == <<clock, into, status, wish, translation, chosen, wished, pc, arg, pending, locked>>

Procs == Merges \cup Readers \cup Wishers \cup Translators
Rows == <<into, status, wish, translation>>
History == <<chosen, wished>>

NoArg(p) == IF p \in Merges THEN <<0, 0>> ELSE 0

MInit == /\ clock = 1
         /\ into = [w \in Works |-> 0]
         /\ status = [w \in Works |-> 0] /\ wish = [w \in Works |-> 0]
         /\ translation = [p \in Translators |-> 0]
         /\ chosen = [w \in Works |-> 0] /\ wished = {}
         /\ pc = [p \in Procs |-> "idle"]
         /\ arg = [p \in Procs |-> NoArg(p)]
         /\ pending = [p \in Merges |-> {}] /\ locked = [p \in Merges |-> {}]

Canonical(w) == into[w] = 0
LockedBy(p, w) == w \in locked[p]
Sharers(w) == {p \in Readers : pc[p] = "set" /\ arg[p] = w}
MayShare(w) == \A p \in Merges : ~LockedBy(p, w)
MayLock(p, w) == Sharers(w) = {} /\ \A q \in Merges \ {p} : ~LockedBy(q, w)
To(p, where) == /\ pc' = [pc EXCEPT ![p] = where]
                /\ arg' = (IF where \in {"idle", "done"} THEN [arg EXCEPT ![p] = NoArg(p)] ELSE arg)
Start(p, where, a) == /\ pc' = [pc EXCEPT ![p] = where]
                      /\ arg' = (IF where = "done" THEN arg ELSE [arg EXCEPT ![p] = a])

-----------------------------------------------------------------------------
(* MergeService.merge(source, target). *)

source(p) == arg[p][1]
target(p) == arg[p][2]
MergedInto(w) == {v \in Works : into[v] = w}

\* lockWorks: the rows its snapshot selects, locked in the order of their ids.
Merge(p) ==
  /\ pc[p] = "idle"
  /\ \E s, t \in Works :
       /\ s # t
       /\ Start(p, "locking", <<s, t>>)
       /\ pending' = [pending EXCEPT ![p] = {s, t} \cup MergedInto(s)]
  /\ UNCHANGED <<clock, Rows, History, locked>>

Faulty_NextLock(p) == pending[p]

NextLock(p) == {w \in pending[p] : \A v \in pending[p] : w <= v}

LockRow(p) ==
  /\ pc[p] \in {"locking", "repointing"} /\ pending[p] # {}
  /\ \E w \in (IF pc[p] = "locking" THEN NextLock(p) ELSE pending[p]) :
       /\ MayLock(p, w)
       /\ pending' = [pending EXCEPT ![p] = @ \ {w}]
       /\ locked' = [locked EXCEPT ![p] = @ \cup {w}]
  /\ UNCHANGED <<clock, Rows, History, pc, arg>>

Mergeable(p) == Canonical(source(p)) /\ Canonical(target(p))

End(p) == /\ To(p, "done")
          /\ pending' = [pending EXCEPT ![p] = {}] /\ locked' = [locked EXCEPT ![p] = {}]

\* assertMergeable; a merge in progress goes on to the rows it re-points without having
\* locked them: those a merge that committed after its snapshot sent into the source.
AssertMergeable(p) ==
  /\ pc[p] = "locking" /\ pending[p] = {}
  /\ IF Mergeable(p)
     THEN /\ To(p, "repointing")
          /\ pending' = [pending EXCEPT ![p] = MergedInto(source(p)) \ locked[p]]
          /\ UNCHANGED locked
     ELSE End(p)
  /\ UNCHANGED <<clock, Rows, History>>

\* The later updatedAt stays, the earlier createdAt stays; on a tie the target's row does.
Faulty_LaterStays(s, t) == IF s < t THEN s ELSE t

LaterStays(s, t) == IF s > t THEN s ELSE t

EarlierStays(s, t) == IF t = 0 \/ (s # 0 /\ s < t) THEN s ELSE t

Faulty_Repointed(p) == {source(p)}

Repointed(p) == {source(p)} \cup MergedInto(source(p))

\* An insert of the same user and the target that is not committed yet holds the unique
\* index: moving the source's item waits for it.
MoveBlocked(p) == wish[source(p)] # 0 /\ \E q \in Wishers : pc[q] = "inserted" /\ arg[q] = target(p)

Moved(rows, p, stays) ==
  [rows EXCEPT ![source(p)] = 0, ![target(p)] = stays]

Commit(p) ==
  /\ pc[p] = "repointing" /\ pending[p] = {} /\ ~MoveBlocked(p)
  /\ into' = [w \in Works |-> IF w \in Repointed(p) THEN target(p) ELSE into[w]]
  /\ status' = Moved(status, p, LaterStays(status[source(p)], status[target(p)]))
  /\ wish' = Moved(wish, p, EarlierStays(wish[source(p)], wish[target(p)]))
  /\ translation' = [q \in Translators |-> IF translation[q] = source(p) THEN target(p) ELSE translation[q]]
  /\ End(p)
  /\ UNCHANGED <<clock, History>>

-----------------------------------------------------------------------------
(* ReadingStatusService.set: FOR SHARE on the work, then the user's row. *)

SetStatus(p) ==
  /\ pc[p] = "idle" /\ clock < MaxClock
  /\ \E w \in Works : Start(p, "share", w)
  /\ UNCHANGED <<clock, Rows, History, pending, locked>>

Share(p) == /\ pc[p] = "share" /\ MayShare(arg[p])
            /\ To(p, IF Canonical(arg[p]) THEN "set" ELSE "done")
            /\ UNCHANGED <<clock, Rows, History, pending, locked>>

\* writeStatus: the row's own lock and stamp, whose time is read after every wait; choosing
\* what the row says already is no new choice and leaves its time.
WriteStatus(p) ==
  /\ pc[p] = "set" /\ To(p, "idle")
  /\ \/ /\ clock < MaxClock
        /\ status' = [status EXCEPT ![arg[p]] = clock]
        /\ chosen' = [chosen EXCEPT ![arg[p]] = clock]
        /\ clock' = clock + 1
     \/ status[arg[p]] # 0 /\ UNCHANGED <<clock, status, chosen>>
  /\ UNCHANGED <<into, wish, translation, wished, pending, locked>>

-----------------------------------------------------------------------------
(* Writes that only check: assertCanonical, then an insert whose foreign key *)
(* waits for the work's lock and not for what the merge decided.             *)

AssertCanonical(p) ==
  /\ pc[p] = "idle"
  /\ \E w \in Works : Start(p, IF Canonical(w) THEN "insert" ELSE "done", w)
  /\ UNCHANGED <<clock, Rows, History, pending, locked>>

\* WishlistService.add: an item that is already there is the answer.
InsertItem(p) ==
  /\ pc[p] = "insert" /\ p \in Wishers
  /\ \A q \in Wishers \ {p} : ~(pc[q] = "inserted" /\ arg[q] = arg[p])
  /\ To(p, IF wish[arg[p]] = 0 THEN "inserted" ELSE "done")
  /\ UNCHANGED <<clock, Rows, History, pending, locked>>

CommitItem(p) ==
  /\ pc[p] = "inserted" /\ MayShare(arg[p])
  /\ wish' = [wish EXCEPT ![arg[p]] = clock]
  /\ wished' = wished \cup {arg[p]}
  /\ To(p, "done")
  /\ UNCHANGED <<clock, into, status, translation, chosen, pending, locked>>

\* CatalogService.createTranslation
CreateTranslation(p) ==
  /\ pc[p] = "insert" /\ p \in Translators /\ MayShare(arg[p])
  /\ translation' = [translation EXCEPT ![p] = arg[p]]
  /\ To(p, "done")
  /\ UNCHANGED <<clock, into, status, wish, History, pending, locked>>

-----------------------------------------------------------------------------
(* The database ends a circle of waits by rolling one of its members back. *)

WaitsFor(p) ==
  IF p \in Merges
  THEN LET wants == IF pc[p] = "locking" THEN NextLock(p) ELSE pending[p] IN
       CASE pc[p] \in {"locking", "repointing"} /\ pending[p] # {} ->
              {q \in Merges \ {p} : wants \cap locked[q] # {}} \cup UNION {Sharers(w) : w \in wants}
         [] pc[p] = "repointing" /\ pending[p] = {} /\ MoveBlocked(p) ->
              {q \in Wishers : pc[q] = "inserted" /\ arg[q] = target(p)}
         [] OTHER -> {}
  ELSE IF \/ pc[p] \in {"share", "inserted"}
          \/ p \in Translators /\ pc[p] = "insert"
       THEN {q \in Merges : LockedBy(q, arg[p])}
       ELSE {}

BreakDeadlock(p) ==
  /\ WaitsFor(p) # {} /\ OnCircle(p, Procs, WaitsFor)
  /\ To(p, "done")
  /\ pending' = [q \in Merges |-> IF q = p THEN {} ELSE pending[q]]
  /\ locked' = [q \in Merges |-> IF q = p THEN {} ELSE locked[q]]
  /\ UNCHANGED <<clock, Rows, History>>

MNext == \/ \E p \in Merges : Merge(p) \/ LockRow(p) \/ AssertMergeable(p) \/ Commit(p)
         \/ \E p \in Readers : SetStatus(p) \/ Share(p) \/ WriteStatus(p)
         \/ \E p \in Wishers \cup Translators : AssertCanonical(p)
         \/ \E p \in Wishers : InsertItem(p) \/ CommitItem(p)
         \/ \E p \in Translators : CreateTranslation(p)
         \/ \E p \in Procs : BreakDeadlock(p)

MSpec == MInit /\ [][MNext]_mvars

-----------------------------------------------------------------------------
(* R4: mergedIntoId names a canonical work, so reads resolve it in one step *)
(* and never walk a chain or a circle.                                       *)
OneStepDeep == \A w \in Works : ~Canonical(w) => Canonical(into[w])

(* Q19: whatever was merged while the user kept choosing, the status shown on *)
(* the canonical work is the user's last choice among the works it absorbed,  *)
(* and no status is left behind on a merged work.                             *)
Absorbed(w) == {w} \cup MergedInto(w)
LastChoiceStands ==
  \A w \in Works : IF Canonical(w)
                    THEN /\ \A v \in Absorbed(w) : chosen[v] <= status[w]
                         /\ \E v \in Absorbed(w) : chosen[v] = status[w]
                    ELSE status[w] = 0

(* A book once wished for stays on the user's list, under the canonical work *)
(* or under the work it was added to.                                        *)
WishesSurvive == \A w \in wished : wish[w] # 0 \/ (~Canonical(w) /\ wish[into[w]] # 0)

(* What the user has chosen and wished for outlives every merge. *)
NothingChosenIsLost == LastChoiceStands /\ WishesSurvive

(* What lockWorks' comment says of its order: merges that overlap take their rows *)
(* in the same order and never wait for each other in a circle.  It holds for two *)
(* merges; a third may end between another's snapshot and its rows, which then    *)
(* takes rows late.                                                                *)
MergesMeetInOrder == \A S \in (SUBSET Merges) \ {{}} : \E p \in S : WaitsFor(p) \cap S = {}
Started == {p \in Merges : pc[p] # "idle"}
TwoMergesMeetInOrder == (\E p, q \in Merges : Started \subseteq {p, q}) => MergesMeetInOrder

(* What assertCanonical's comment promises: no translation is written on a *)
(* work that was merged away, where no read would ever find it.            *)
NoTranslationOnMerged == \A p \in Translators : translation[p] # 0 => Canonical(translation[p])

-----------------------------------------------------------------------------
(* What these rest on: no row has two holders nor a holder and a sharer, and who *)
(* holds a work has seen what it decided about it stand.                          *)

MTypeOK ==
  /\ clock \in Nat \ {0}
  /\ into \in [Works -> Works \cup {0}]
  /\ {status, wish, chosen} \subseteq [Works -> Nat] /\ wished \subseteq Works
  /\ translation \in [Translators -> Works \cup {0}]
  /\ DOMAIN pc = Procs /\ DOMAIN arg = Procs
  /\ \A p \in Merges : pc[p] \in {"idle", "locking", "repointing", "done"}
  /\ \A p \in Readers : pc[p] \in {"idle", "share", "set", "done"}
  /\ \A p \in Wishers \cup Translators : pc[p] \in {"idle", "insert", "inserted", "done"}
  /\ \A p \in Merges : pc[p] \in {"locking", "repointing"} =>
        source(p) \in Works /\ target(p) \in Works /\ source(p) # target(p)
  /\ \A p \in Procs \ Merges : pc[p] \in {"share", "set", "insert", "inserted"} => arg[p] \in Works
  /\ {pending, locked} \subseteq [Merges -> SUBSET Works]

HeldOnce == \A p, q \in Merges : p # q => locked[p] \cap locked[q] = {}

\* The rows a merge has decided about are rows it holds.
MergeHolds(p) ==
  CASE pc[p] = "locking" -> {source(p), target(p)} \subseteq pending[p] \cup locked[p]
    [] pc[p] = "repointing" -> /\ {source(p), target(p)} \subseteq locked[p]
                               /\ Canonical(source(p)) /\ Canonical(target(p))
                               /\ MergedInto(source(p)) \subseteq pending[p] \cup locked[p]
    [] OTHER -> pending[p] = {} /\ locked[p] = {}

ReaderShares(p) == pc[p] = "set" => Canonical(arg[p]) /\ MayShare(arg[p])

\* Rows are taken in order; only what another merge has ended since the snapshot comes late.
InOrder(p) ==
  /\ pc[p] = "locking" => \A w \in locked[p], v \in pending[p] : w < v
  /\ \/ \E q \in Merges \ {p} : pc[q] = "done"
     \/ /\ pc[p] = "locking" => MergedInto(source(p)) \subseteq pending[p] \cup locked[p]
        /\ pc[p] = "repointing" => pending[p] = {}

ChosenBefore == \A w \in Works : chosen[w] < clock

MergeInv ==
  /\ MTypeOK /\ HeldOnce /\ ChosenBefore
  /\ \A p \in Merges : MergeHolds(p) /\ InOrder(p)
  /\ \A p \in Readers : ReaderShares(p)
  /\ OneStepDeep /\ NothingChosenIsLost
=============================================================================
