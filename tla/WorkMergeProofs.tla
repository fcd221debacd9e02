-------------------------- MODULE WorkMergeProofs --------------------------
(* Proofs about WorkMerge, for any works and any number of merges, readers and    *)
(* writers.  A merge decides under the locks of both works, so what it has         *)
(* decided about them stands until it ends; a reader decides under a shared lock;   *)
(* and the writes of the wishlist need no lock, because a wish on a work that is    *)
(* merged meanwhile is still found where it was written.                            *)
EXTENDS WorkMerge, TLAPS

(* One step of one call. *)
Acts(p) ==
  \/ p \in Merges /\ (Merge(p) \/ LockRow(p) \/ AssertMergeable(p) \/ Commit(p))
  \/ p \in Readers /\ (SetStatus(p) \/ Share(p) \/ WriteStatus(p))
  \/ p \in Wishers \cup Translators /\ AssertCanonical(p)
  \/ p \in Wishers /\ (InsertItem(p) \/ CommitItem(p))
  \/ p \in Translators /\ CreateTranslation(p)
  \/ BreakDeadlock(p)

LEMMA StepIsOnes ==
  ASSUME [MNext]_mvars
  PROVE  UNCHANGED mvars \/ \E p \in Procs : Acts(p)
BY DEF MNext, Acts, Procs

Place(p) ==
  /\ p \in Merges =>
       /\ pc[p] \in {"idle", "locking", "repointing", "done"}
       /\ pc[p] \in {"locking", "repointing"} =>
            source(p) \in Works /\ target(p) \in Works /\ source(p) # target(p)
  /\ p \in Readers => pc[p] \in {"idle", "share", "set", "done"}
  /\ p \in Wishers \cup Translators => pc[p] \in {"idle", "insert", "inserted", "done"}
  /\ p \notin Merges => (pc[p] \in {"share", "set", "insert", "inserted"} => arg[p] \in Works)

LEMMA TypePlaces ==
  ASSUME MTypeOK
  PROVE  \A p \in Procs : Place(p)
BY DEF MTypeOK, Place, Procs

(* The other calls keep their places and their locks. *)
LEMMA OthersStand ==
  ASSUME MTypeOK, NEW p \in Procs, Acts(p), NEW q \in Procs, q # p
  PROVE  /\ pc'[q] = pc[q] /\ arg'[q] = arg[q]
         /\ q \in Merges => pending'[q] = pending[q] /\ locked'[q] = locked[q]
<1>1. pc'[q] = pc[q] /\ arg'[q] = arg[q]
  BY DEF MTypeOK, Acts, Merge, LockRow, AssertMergeable, Commit, SetStatus, Share, WriteStatus, AssertCanonical,
         InsertItem, CommitItem, CreateTranslation, BreakDeadlock, To, Start, End
<1>2. q \in Merges => pending'[q] = pending[q] /\ locked'[q] = locked[q]
  BY DEF MTypeOK, Acts, Merge, LockRow, AssertMergeable, Commit, SetStatus, Share, WriteStatus, AssertCanonical,
         InsertItem, CommitItem, CreateTranslation, BreakDeadlock, To, Start, End
<1> QED BY <1>1, <1>2

(* Where its own step takes a call, by kind. *)
LEMMA MergeMoves ==
  ASSUME WorkAssumption, MTypeOK, NEW p \in Merges, Acts(p)
  PROVE  \/ /\ Merge(p) /\ pc[p] = "idle" /\ pc'[p] = "locking"
            /\ \E s, t \in Works : /\ s # t /\ arg'[p] = <<s, t>>
                                   /\ pending'[p] = {s, t} \cup MergedInto(s) /\ locked' = locked
         \/ /\ LockRow(p) /\ pc[p] \in {"locking", "repointing"} /\ pc'[p] = pc[p] /\ arg'[p] = arg[p]
            /\ \E w \in pending[p] : /\ pc[p] = "locking" => w \in NextLock(p)
                                     /\ MayLock(p, w)
                                     /\ pending'[p] = pending[p] \ {w} /\ locked'[p] = locked[p] \cup {w}
         \/ /\ AssertMergeable(p) /\ pc[p] = "locking" /\ pending[p] = {} /\ Mergeable(p)
            /\ pc'[p] = "repointing" /\ arg'[p] = arg[p]
            /\ pending'[p] = MergedInto(source(p)) \ locked[p] /\ locked' = locked
         \/ /\ AssertMergeable(p) \/ Commit(p) \/ BreakDeadlock(p)
            /\ pc'[p] = "done" /\ pending'[p] = {} /\ locked'[p] = {}
<1>1. p \in Procs /\ p \notin Readers \cup Wishers \cup Translators
  BY DEF Procs, WorkAssumption
<1>2. CASE Merge(p)
  <2>1. PICK s, t \in Works : /\ s # t /\ Start(p, "locking", <<s, t>>)
                              /\ pending' = [pending EXCEPT ![p] = {s, t} \cup MergedInto(s)]
    BY <1>2 DEF Merge
  <2>2. pc[p] = "idle" /\ locked' = locked
    BY <1>2 DEF Merge
  <2>3. pc'[p] = "locking" /\ arg'[p] = <<s, t>>
    BY <1>1, <2>1 DEF Start, MTypeOK
  <2>4. pending'[p] = {s, t} \cup MergedInto(s)
    BY <2>1 DEF MTypeOK
  <2> QED BY <1>2, <2>1, <2>2, <2>3, <2>4
<1>3. CASE LockRow(p)
  BY <1>1, <1>3 DEF LockRow, MTypeOK, NextLock
<1>4. CASE AssertMergeable(p)
  BY <1>1, <1>4 DEF AssertMergeable, End, To, MTypeOK
<1>5. CASE Commit(p)
  BY <1>1, <1>5 DEF Commit, End, To, MTypeOK
<1>6. CASE BreakDeadlock(p)
  BY <1>1, <1>6 DEF BreakDeadlock, To, MTypeOK
<1> QED BY <1>1, <1>2, <1>3, <1>4, <1>5, <1>6 DEF Acts

LEMMA ReaderMoves ==
  ASSUME WorkAssumption, MTypeOK, NEW p \in Readers, Acts(p)
  PROVE  /\ \A q \in Merges : pending'[q] = pending[q] /\ locked'[q] = locked[q]
         /\ \/ pc'[p] \in {"idle", "done"}
            \/ pc'[p] = "share" /\ arg'[p] \in Works
            \/ /\ Share(p) /\ pc[p] = "share" /\ pc'[p] = "set" /\ arg'[p] = arg[p]
               /\ MayShare(arg[p]) /\ Canonical(arg[p])
<1>1. p \in Procs /\ p \notin Merges \cup Wishers \cup Translators
  BY DEF Procs, WorkAssumption
<1>2. CASE SetStatus(p)
  BY <1>1, <1>2 DEF SetStatus, Start, MTypeOK
<1>3. CASE Share(p)
  BY <1>1, <1>3 DEF Share, To, MTypeOK
<1>4. CASE WriteStatus(p)
  BY <1>1, <1>4 DEF WriteStatus, To, MTypeOK
<1>5. CASE BreakDeadlock(p)
  BY <1>1, <1>5 DEF BreakDeadlock, To, MTypeOK
<1> QED BY <1>1, <1>2, <1>3, <1>4, <1>5 DEF Acts

LEMMA AdderMoves ==
  ASSUME WorkAssumption, MTypeOK, NEW p \in Wishers \cup Translators, Acts(p)
  PROVE  /\ \A q \in Merges : pending'[q] = pending[q] /\ locked'[q] = locked[q]
         /\ \/ pc'[p] = "done"
            \/ pc'[p] = "insert" /\ arg'[p] \in Works
            \/ pc'[p] = "inserted" /\ pc[p] = "insert" /\ arg'[p] = arg[p]
<1>1. p \in Procs /\ p \notin Merges \cup Readers
  BY DEF Procs, WorkAssumption
<1>2. CASE AssertCanonical(p)
  BY <1>1, <1>2 DEF AssertCanonical, Start, MTypeOK
<1>3. CASE InsertItem(p)
  BY <1>1, <1>3 DEF InsertItem, To, MTypeOK
<1>4. CASE CommitItem(p)
  BY <1>1, <1>4 DEF CommitItem, To, MTypeOK
<1>5. CASE CreateTranslation(p)
  BY <1>1, <1>5 DEF CreateTranslation, To, MTypeOK
<1>6. CASE BreakDeadlock(p)
  BY <1>1, <1>6 DEF BreakDeadlock, To, MTypeOK
<1> QED BY <1>1, <1>2, <1>3, <1>4, <1>5, <1>6 DEF Acts

(* What it does to the rows. *)
Chose(p) ==
  /\ pc[p] = "set" /\ p \in Readers
  /\ status' = [status EXCEPT ![arg[p]] = clock]
  /\ chosen' = [chosen EXCEPT ![arg[p]] = clock]
  /\ clock' = clock + 1
  /\ UNCHANGED <<into, wish, translation, wished>>
Wished(p) ==
  /\ pc[p] = "inserted" /\ p \in Wishers
  /\ wish' = [wish EXCEPT ![arg[p]] = clock]
  /\ wished' = wished \cup {arg[p]}
  /\ UNCHANGED <<clock, into, status, translation, chosen>>
Created(p) ==
  /\ pc[p] = "insert" /\ p \in Translators
  /\ translation' = [translation EXCEPT ![p] = arg[p]]
  /\ UNCHANGED <<clock, into, status, wish, History>>
Committed(p) ==
  /\ pc[p] = "repointing" /\ p \in Merges /\ Commit(p)

LEMMA RowsChange ==
  ASSUME WorkAssumption, MTypeOK, NEW p \in Procs, Acts(p)
  PROVE  UNCHANGED <<clock, Rows, History>> \/ Chose(p) \/ Wished(p) \/ Created(p) \/ Committed(p)
<1>1. CASE WriteStatus(p) /\ p \in Readers
  BY <1>1 DEF WriteStatus, Chose, Rows, History
<1>2. CASE CommitItem(p) /\ p \in Wishers
  BY <1>2 DEF CommitItem, Wished, Rows, History
<1>3. CASE CreateTranslation(p) /\ p \in Translators
  BY <1>3 DEF CreateTranslation, Created, Rows, History
<1>4. CASE Commit(p) /\ p \in Merges
  BY <1>4 DEF Commit, Committed
<1> QED BY <1>1, <1>2, <1>3, <1>4
        DEF Acts, Merge, LockRow, AssertMergeable, SetStatus, Share, AssertCanonical, InsertItem, BreakDeadlock

-----------------------------------------------------------------------------
(* The invariant, part by part *)

LEMMA MergeInit ==
  ASSUME WorkAssumption, MInit
  PROVE  MergeInv
<1>1. \A p \in Procs : pc[p] = "idle"
  BY DEF MInit
<1>2. MTypeOK
  BY <1>1 DEF MInit, MTypeOK, Procs
<1>3. HeldOnce /\ ChosenBefore
  BY DEF MInit, HeldOnce, ChosenBefore
<1>4. \A p \in Merges : MergeHolds(p) /\ InOrder(p)
  BY <1>1 DEF MInit, MergeHolds, InOrder, Procs
<1>5. \A p \in Readers : ReaderShares(p)
  BY <1>1 DEF ReaderShares, Procs
<1>6. OneStepDeep /\ NothingChosenIsLost
  <2>1. \A w \in Works : Canonical(w) /\ status[w] = 0 /\ chosen[w] = 0 /\ MergedInto(w) = {}
    BY DEF MInit, Canonical, MergedInto, WorkAssumption
  <2> QED BY <2>1 DEF MInit, OneStepDeep, NothingChosenIsLost, LastChoiceStands, Absorbed, WishesSurvive
<1> QED BY <1>2, <1>3, <1>4, <1>5, <1>6 DEF MergeInv

LEMMA MTypeKept ==
  ASSUME WorkAssumption, MTypeOK, \A p \in Merges : MergeHolds(p), NEW p \in Procs, Acts(p)
  PROVE  MTypeOK'
<1>1. /\ clock' \in Nat \ {0}
      /\ into' \in [Works -> Works \cup {0}]
      /\ {status, wish, chosen}' \subseteq [Works -> Nat] /\ wished' \subseteq Works
      /\ translation' \in [Translators -> Works \cup {0}]
  <2>1. CASE UNCHANGED <<clock, Rows, History>>
    BY <2>1 DEF MTypeOK, Rows, History
  <2>2. CASE Chose(p)
    BY <2>2 DEF Chose, MTypeOK
  <2>3. CASE Wished(p)
    <3>1. arg[p] \in Works
      BY <2>3, TypePlaces DEF Wished, Place, Procs, WorkAssumption
    <3> QED BY <2>3, <3>1 DEF Wished, MTypeOK
  <2>4. CASE Created(p)
    <3>1. arg[p] \in Works
      BY <2>4, TypePlaces DEF Created, Place, Procs, WorkAssumption
    <3> QED BY <2>4, <3>1 DEF Created, MTypeOK, History
  <2>5. CASE Committed(p)
    <3>1. source(p) \in Works /\ target(p) \in Works
      BY <2>5 DEF Committed, MTypeOK
    <3>2. clock' = clock /\ chosen' = chosen /\ wished' = wished
      BY <2>5 DEF Committed, Commit, History
    <3>3. /\ into' = [w \in Works |-> IF w \in Repointed(p) THEN target(p) ELSE into[w]]
          /\ status' = Moved(status, p, LaterStays(status[source(p)], status[target(p)]))
          /\ wish' = Moved(wish, p, EarlierStays(wish[source(p)], wish[target(p)]))
          /\ translation' = [q \in Translators |-> IF translation[q] = source(p) THEN target(p) ELSE translation[q]]
      BY <2>5 DEF Committed, Commit
    <3>4. into' \in [Works -> Works \cup {0}] /\ translation' \in [Translators -> Works \cup {0}]
      BY <3>1, <3>3 DEF MTypeOK
    <3>5. status' \in [Works -> Nat]
      BY <3>1, <3>3 DEF MTypeOK, Moved, LaterStays
    <3>6. wish' \in [Works -> Nat]
      BY <3>1, <3>3 DEF MTypeOK, Moved, EarlierStays
    <3> QED BY <3>2, <3>4, <3>5, <3>6 DEF MTypeOK
  <2> QED BY <2>1, <2>2, <2>3, <2>4, <2>5, RowsChange
<1>2. DOMAIN pc' = Procs /\ DOMAIN arg' = Procs /\ {pending, locked}' \subseteq [Merges -> SUBSET Works]
  <2>1. DOMAIN pc' = Procs /\ DOMAIN arg' = Procs
    BY DEF MTypeOK, Acts, Merge, LockRow, AssertMergeable, Commit, SetStatus, Share, WriteStatus, AssertCanonical,
           InsertItem, CommitItem, CreateTranslation, BreakDeadlock, To, Start, End
  <2>2. pending' \in [Merges -> SUBSET Works] /\ locked' \in [Merges -> SUBSET Works]
    <3>1. \A w : MergedInto(w) \subseteq Works
      BY DEF MergedInto
    <3>2. CASE p \in Merges /\ Merge(p)
      BY <3>1, <3>2 DEF Merge, MTypeOK
    <3>3. CASE p \in Merges /\ LockRow(p)
      BY <3>3 DEF LockRow, NextLock, MTypeOK
    <3>4. CASE p \in Merges /\ AssertMergeable(p)
      BY <3>1, <3>4 DEF AssertMergeable, End, MTypeOK
    <3>5. CASE p \in Merges /\ Commit(p)
      BY <3>5 DEF Commit, End, MTypeOK
    <3>6. CASE BreakDeadlock(p)
      BY <3>6 DEF BreakDeadlock, MTypeOK
    <3>7. CASE UNCHANGED <<pending, locked>>
      BY <3>7 DEF MTypeOK
    <3> QED BY <3>2, <3>3, <3>4, <3>5, <3>6, <3>7
            DEF Acts, SetStatus, Share, WriteStatus, AssertCanonical, InsertItem, CommitItem, CreateTranslation
  <2> QED BY <2>1, <2>2
<1>3. \A q \in Procs : Place(q)'
  <2>1. ASSUME NEW q \in Procs, q # p PROVE Place(q)'
    <3>1. pc'[q] = pc[q] /\ arg'[q] = arg[q]
      BY <2>1, OthersStand
    <3> QED BY <3>1, TypePlaces DEF Place, source, target
  <2>2. CASE p \in Merges
    <3>1. p \notin Readers \cup Wishers \cup Translators
      BY <2>2 DEF WorkAssumption
    <3>2. Place(p)
      BY TypePlaces
    <3>3. \/ pc'[p] = "done"
          \/ pc'[p] \in {"locking", "repointing"} /\ arg'[p] = arg[p] /\ pc[p] \in {"locking", "repointing"}
          \/ pc'[p] = "locking" /\ \E s, t \in Works : s # t /\ arg'[p] = <<s, t>>
      BY <2>2, MergeMoves
    <3>4. Place(p)'
      BY <2>2, <3>1, <3>2, <3>3 DEF Place, source, target
    <3> QED BY <2>1, <3>4
  <2>3. CASE p \in Readers
    <3>1. p \notin Merges \cup Wishers \cup Translators
      BY <2>3 DEF WorkAssumption
    <3>2. Place(p)'
      BY <2>3, <3>1, ReaderMoves, TypePlaces DEF Place
    <3> QED BY <2>1, <3>2
  <2>4. CASE p \in Wishers \cup Translators
    <3>1. p \notin Merges \cup Readers
      BY <2>4 DEF WorkAssumption
    <3>2. Place(p)'
      BY <2>4, <3>1, AdderMoves, TypePlaces DEF Place
    <3> QED BY <2>1, <3>2
  <2> QED BY <2>2, <2>3, <2>4 DEF Procs
<1> QED BY <1>1, <1>2, <1>3 DEF MTypeOK, Place, Procs

(* What a merge does to the works it does not hold: nothing. *)
LEMMA CommitStands ==
  ASSUME WorkAssumption, MTypeOK, NEW p \in Merges, MergeHolds(p), Committed(p),
         NEW v \in Works, v \notin locked[p], Canonical(v)
  PROVE  Canonical(v)' /\ MergedInto(v)' \subseteq MergedInto(v)
<1>1. /\ source(p) \in Works /\ target(p) \in Works /\ {source(p), target(p)} \subseteq locked[p]
      /\ into' = [w \in Works |-> IF w \in Repointed(p) THEN target(p) ELSE into[w]]
  BY DEF Committed, Commit, MergeHolds, MTypeOK
<1>2. v # source(p) /\ v # target(p) /\ into[v] = 0 /\ source(p) # 0
  BY <1>1 DEF Canonical, WorkAssumption
<1>3. v \notin Repointed(p)
  BY <1>2 DEF Repointed, MergedInto
<1> QED BY <1>1, <1>2, <1>3 DEF Canonical, MergedInto

LEMMA IntoChanges ==
  ASSUME WorkAssumption, MTypeOK, NEW p \in Procs, Acts(p)
  PROVE  into' = into \/ Committed(p)
BY RowsChange DEF Rows, Chose, Wished, Created

LEMMA HeldOnceKept ==
  ASSUME WorkAssumption, MTypeOK, HeldOnce, NEW p \in Procs, Acts(p)
  PROVE  HeldOnce'
<1>1. ASSUME NEW q \in Merges \ {p} PROVE locked'[q] = locked[q]
  BY OthersStand DEF Procs
<1>2. ASSUME NEW q \in Merges \ {p}, p \in Merges PROVE locked'[q] \cap locked'[p] = {}
  <2>1. \/ locked'[p] \subseteq locked[p]
        \/ \E w \in pending[p] : MayLock(p, w) /\ locked'[p] = locked[p] \cup {w}
    BY <1>2, MergeMoves
  <2>2. locked[q] \cap locked[p] = {}
    BY <1>2 DEF HeldOnce
  <2>3. \A w : MayLock(p, w) => w \notin locked[q]
    BY <1>2 DEF MayLock, LockedBy
  <2> QED BY <1>1, <1>2, <2>1, <2>2, <2>3
<1> QED BY <1>1, <1>2 DEF HeldOnce

LEMMA ReaderSharesKept ==
  ASSUME WorkAssumption, MTypeOK, \A m \in Merges : MergeHolds(m), \A r \in Readers : ReaderShares(r),
         NEW p \in Procs, Acts(p), NEW q \in Readers
  PROVE  ReaderShares(q)'
<1>1. q \in Procs /\ q \notin Merges
  BY DEF Procs, WorkAssumption
<1>2. CASE q = p
  <2>1. SUFFICES ASSUME pc'[q] = "set" PROVE Canonical(arg[q])' /\ MayShare(arg[q])'
    BY DEF ReaderShares
  <2>2. /\ Share(p) /\ arg'[q] = arg[q] /\ MayShare(arg[q]) /\ Canonical(arg[q])
        /\ \A m \in Merges : locked'[m] = locked[m]
    BY <1>2, <2>1, ReaderMoves
  <2>3. into' = into
    BY <2>2 DEF Share, Rows
  <2> QED BY <2>2, <2>3 DEF Canonical, MayShare, LockedBy
<1>3. CASE q # p
  <2>1. pc'[q] = pc[q] /\ arg'[q] = arg[q]
    BY <1>1, <1>3, OthersStand
  <2>2. SUFFICES ASSUME pc[q] = "set" PROVE Canonical(arg[q])' /\ MayShare(arg[q])'
    BY <2>1 DEF ReaderShares, Canonical, MayShare, LockedBy
  <2>3. PICK a \in Works : a = arg[q]
    BY <1>1, <2>2 DEF MTypeOK
  <2>4. Canonical(a) /\ MayShare(a)
    BY <2>2, <2>3 DEF ReaderShares
  <2>5. into'[a] = into[a]
    <3>1. CASE into' = into
      BY <3>1
    <3>2. CASE Committed(p)
      <4>1. p \in Merges /\ a \notin locked[p]
        BY <2>4, <3>2 DEF Committed, MayShare, LockedBy
      <4> QED BY <2>4, <3>2, <4>1, CommitStands DEF Canonical
    <3> QED BY <3>1, <3>2, IntoChanges
  <2>6. \A m \in Merges : a \notin locked'[m]
    <3>1. ASSUME NEW m \in Merges, m # p PROVE a \notin locked'[m]
      BY <2>4, <3>1, OthersStand DEF MayShare, LockedBy, Procs
    <3>2. ASSUME p \in Merges PROVE a \notin locked'[p]
      <4>1. \/ locked'[p] \subseteq locked[p]
            \/ \E w \in pending[p] : MayLock(p, w) /\ locked'[p] = locked[p] \cup {w}
        BY <3>2, MergeMoves
      <4>2. ASSUME NEW w, MayLock(p, w) PROVE w # a
        BY <2>2, <2>3, <4>2 DEF MayLock, Sharers
      <4> QED BY <2>4, <3>2, <4>1, <4>2 DEF MayShare, LockedBy
    <3> QED BY <3>1, <3>2
  <2>7. arg'[q] = a
    BY <2>1, <2>3
  <2> QED BY <2>1, <2>3, <2>4, <2>5, <2>6, <2>7 DEF Canonical, MayShare, LockedBy
<1> QED BY <1>2, <1>3

LEMMA MergeHoldsKept ==
  ASSUME WorkAssumption, MTypeOK, HeldOnce, \A m \in Merges : MergeHolds(m),
         NEW p \in Procs, Acts(p), NEW q \in Merges
  PROVE  MergeHolds(q)'
<1>1. q \in Procs /\ MergeHolds(q)
  BY DEF Procs
<1>2. CASE q # p
  <2>1. pc'[q] = pc[q] /\ arg'[q] = arg[q] /\ pending'[q] = pending[q] /\ locked'[q] = locked[q]
    BY <1>1, <1>2, OthersStand
  <2>2. source(q)' = source(q) /\ target(q)' = target(q)
    BY <2>1 DEF source, target
  <2>3. CASE pc[q] = "repointing"
    <3>1. /\ {source(q), target(q)} \subseteq locked[q]
          /\ Canonical(source(q)) /\ Canonical(target(q))
          /\ MergedInto(source(q)) \subseteq pending[q] \cup locked[q]
          /\ source(q) \in Works /\ target(q) \in Works
      BY <1>1, <2>3 DEF MergeHolds, MTypeOK
    <3>2. into'[source(q)] = 0 /\ into'[target(q)] = 0
          /\ \A w \in Works : into'[w] = source(q) => into[w] = source(q)
      <4>1. CASE into' = into
        BY <3>1, <4>1 DEF Canonical
      <4>2. CASE Committed(p)
        <5>1. PICK s \in Works, t \in Works : s = source(q) /\ t = target(q)
          BY <3>1
        <5>2. p \in Merges /\ s \notin locked[p] /\ t \notin locked[p]
          BY <1>2, <3>1, <4>2, <5>1 DEF HeldOnce, Committed
        <5>3. Canonical(s)' /\ MergedInto(s)' \subseteq MergedInto(s) /\ Canonical(t)'
          BY <3>1, <4>2, <5>1, <5>2, CommitStands
        <5> QED BY <5>1, <5>3 DEF Canonical, MergedInto
      <4> QED BY <4>1, <4>2, IntoChanges
    <3> QED BY <2>1, <2>2, <2>3, <3>1, <3>2 DEF MergeHolds, Canonical, MergedInto
  <2>4. CASE pc[q] # "repointing"
    BY <1>1, <2>1, <2>2, <2>4 DEF MergeHolds
  <2> QED BY <2>3, <2>4
<1>3. CASE q = p
  <2>1. CASE pc'[p] = "done" /\ pending'[p] = {} /\ locked'[p] = {}
    BY <1>3, <2>1 DEF MergeHolds
  <2>2. CASE \E s, t \in Works : arg'[p] = <<s, t>> /\ pending'[p] = {s, t} \cup MergedInto(s) /\ pc'[p] = "locking"
    BY <1>3, <2>2 DEF MergeHolds, source, target
  <2>3. CASE /\ pc[p] \in {"locking", "repointing"} /\ pc'[p] = pc[p] /\ arg'[p] = arg[p] /\ LockRow(p)
             /\ \E w \in pending[p] : pending'[p] = pending[p] \ {w} /\ locked'[p] = locked[p] \cup {w}
    <3>1. into' = into
      BY <2>3 DEF LockRow, Rows
    <3>2. source(p)' = source(p) /\ target(p)' = target(p)
      BY <2>3 DEF source, target
    <3> QED BY <1>1, <1>3, <2>3, <3>1, <3>2 DEF MergeHolds, Canonical, MergedInto
  <2>4. CASE /\ AssertMergeable(p) /\ pc[p] = "locking" /\ pending[p] = {} /\ Mergeable(p)
             /\ pc'[p] = "repointing" /\ arg'[p] = arg[p]
             /\ pending'[p] = MergedInto(source(p)) \ locked[p] /\ locked' = locked
    <3>1. into' = into
      BY <2>4 DEF AssertMergeable, Rows
    <3>2. source(p)' = source(p) /\ target(p)' = target(p)
      BY <2>4 DEF source, target
    <3>3. {source(p), target(p)} \subseteq locked[p]
      BY <1>1, <1>3, <2>4 DEF MergeHolds
    <3> QED BY <1>3, <2>4, <3>1, <3>2, <3>3 DEF MergeHolds, Mergeable, Canonical, MergedInto
  <2> QED BY <1>3, <2>1, <2>2, <2>3, <2>4, MergeMoves
<1> QED BY <1>2, <1>3

LEMMA InOrderKept ==
  ASSUME WorkAssumption, MTypeOK, \A m \in Merges : MergeHolds(m) /\ InOrder(m),
         NEW p \in Procs, Acts(p), NEW q \in Merges
  PROVE  InOrder(q)'
<1>1. q \in Procs /\ InOrder(q) /\ MergeHolds(q)
  BY DEF Procs
<1>2. ASSUME NEW r \in Merges \ {q}, pc[r] = "done" PROVE pc'[r] = "done"
  <2>1. r \in Procs
    BY DEF Procs
  <2>2. CASE r = p
    BY <1>2, <2>2, MergeMoves
  <2>3. CASE r # p
    BY <1>2, <2>1, <2>3, OthersStand
  <2> QED BY <2>2, <2>3
<1>3. CASE q # p
  <2>1. /\ pc'[q] = pc[q] /\ pending'[q] = pending[q] /\ locked'[q] = locked[q]
        /\ source(q)' = source(q)
    BY <1>1, <1>3, OthersStand DEF source
  <2>2. CASE Committed(p)
    <3>1. p \in Merges \ {q} /\ pc'[p] = "done"
      BY <1>3, <2>2 DEF Committed, Commit, End, To, MTypeOK
    <3> QED BY <1>1, <2>1, <3>1 DEF InOrder
  <2>3. CASE into' = into
    BY <1>1, <1>2, <2>1, <2>3 DEF InOrder, MergedInto
  <2> QED BY <2>2, <2>3, IntoChanges
<1>4. CASE q = p
  <2>1. CASE pc'[p] = "done"
    <3>1. ~(pc'[p] = "locking") /\ ~(pc'[p] = "repointing")
      BY <2>1
    <3> QED BY <1>4, <3>1 DEF InOrder
  <2>2. CASE /\ Merge(p) /\ pc[p] = "idle" /\ pc'[p] = "locking" /\ locked' = locked
             /\ \E s, t \in Works : arg'[p] = <<s, t>> /\ pending'[p] = {s, t} \cup MergedInto(s)
    <3>1. locked[p] = {} /\ into' = into
      BY <1>1, <1>4, <2>2 DEF MergeHolds, Merge, Rows
    <3> QED BY <1>4, <2>2, <3>1 DEF InOrder, MergedInto, source
  <2>3. CASE /\ LockRow(p) /\ pc[p] \in {"locking", "repointing"} /\ pc'[p] = pc[p] /\ arg'[p] = arg[p]
             /\ \E w \in pending[p] : /\ pc[p] = "locking" => w \in NextLock(p)
                                      /\ pending'[p] = pending[p] \ {w} /\ locked'[p] = locked[p] \cup {w}
    <3>1. into' = into /\ source(p)' = source(p)
      BY <2>3 DEF LockRow, Rows, source
    <3>2. PICK w \in pending[p] : /\ pc[p] = "locking" => w \in NextLock(p)
                                  /\ pending'[p] = pending[p] \ {w} /\ locked'[p] = locked[p] \cup {w}
      BY <2>3
    <3>3. pending[p] \subseteq Nat
      BY <1>4 DEF MTypeOK, WorkAssumption
    <3>4. pc[p] = "locking" => \A x \in locked'[p], v \in pending'[p] : x < v
      <4> SUFFICES ASSUME pc[p] = "locking", NEW x \in locked'[p], NEW v \in pending'[p] PROVE x < v
        OBVIOUS
      <4>1. v \in pending[p] /\ v # w
        BY <3>2
      <4>2. CASE x \in locked[p]
        BY <1>1, <1>4, <4>1, <4>2 DEF InOrder
      <4>3. CASE x = w
        <5>1. w <= v
          BY <3>2, <4>1 DEF NextLock
        <5> QED BY <3>3, <4>1, <4>3, <5>1
      <4> QED BY <3>2, <4>2, <4>3
    <3>5. CASE \E r \in Merges \ {q} : pc[r] = "done"
      BY <1>2, <1>4, <2>3, <3>4, <3>5 DEF InOrder
    <3>6. CASE ~\E r \in Merges \ {q} : pc[r] = "done"
      <4>1. pc[p] = "locking" /\ MergedInto(source(p)) \subseteq pending[p] \cup locked[p]
        BY <1>1, <1>4, <2>3, <3>2, <3>6 DEF InOrder
      <4> QED BY <1>4, <2>3, <3>1, <3>2, <3>4, <4>1 DEF InOrder, MergedInto
    <3> QED BY <3>5, <3>6
  <2>4. CASE /\ AssertMergeable(p) /\ pc[p] = "locking" /\ pending[p] = {}
             /\ pc'[p] = "repointing" /\ pending'[p] = MergedInto(source(p)) \ locked[p]
    <3>1. CASE \E r \in Merges \ {q} : pc[r] = "done"
      BY <1>2, <1>4, <2>4, <3>1 DEF InOrder
    <3>2. CASE ~\E r \in Merges \ {q} : pc[r] = "done"
      <4>1. MergedInto(source(p)) \subseteq pending[p] \cup locked[p]
        BY <1>1, <1>4, <2>4, <3>2 DEF InOrder
      <4>2. pending'[p] = {}
        BY <2>4, <4>1
      <4> QED BY <1>4, <2>4, <4>2 DEF InOrder
    <3> QED BY <3>1, <3>2
  <2> QED BY <1>4, <2>1, <2>2, <2>3, <2>4, MergeMoves
<1> QED BY <1>3, <1>4

-----------------------------------------------------------------------------
(* What the committed merge leaves. *)
LEMMA CommitRows ==
  ASSUME WorkAssumption, MTypeOK, NEW p \in Merges, MergeHolds(p), Committed(p)
  PROVE  \E s, t \in Works :
           /\ s # t /\ into[s] = 0 /\ into[t] = 0
           /\ \A w \in Works : into'[w] = IF w = s \/ into[w] = s THEN t ELSE into[w]
           /\ \A w \in Works : status'[w] = IF w = s THEN 0
                                            ELSE IF w = t THEN LaterStays(status[s], status[t]) ELSE status[w]
           /\ \A w \in Works : wish'[w] = IF w = s THEN 0
                                          ELSE IF w = t THEN EarlierStays(wish[s], wish[t]) ELSE wish[w]
           /\ clock' = clock /\ chosen' = chosen /\ wished' = wished
<1> DEFINE s == source(p)
           t == target(p)
<1>1. s \in Works /\ t \in Works /\ s # t /\ into[s] = 0 /\ into[t] = 0
  BY DEF Committed, MTypeOK, MergeHolds, Canonical
<1>2. /\ into' = [w \in Works |-> IF w \in Repointed(p) THEN target(p) ELSE into[w]]
      /\ status' = Moved(status, p, LaterStays(status[source(p)], status[target(p)]))
      /\ wish' = Moved(wish, p, EarlierStays(wish[source(p)], wish[target(p)]))
      /\ clock' = clock /\ chosen' = chosen /\ wished' = wished
  BY DEF Committed, Commit, History
<1>3. \A w \in Works : into'[w] = IF w = s \/ into[w] = s THEN t ELSE into[w]
  BY <1>2 DEF Repointed, MergedInto
<1>4. \A w \in Works : status'[w] = IF w = s THEN 0
                                    ELSE IF w = t THEN LaterStays(status[s], status[t]) ELSE status[w]
  BY <1>1, <1>2 DEF Moved, MTypeOK
<1>5. \A w \in Works : wish'[w] = IF w = s THEN 0
                                  ELSE IF w = t THEN EarlierStays(wish[s], wish[t]) ELSE wish[w]
  BY <1>1, <1>2 DEF Moved, MTypeOK
<1> QED BY <1>1, <1>2, <1>3, <1>4, <1>5

LEMMA OneStepKept ==
  ASSUME WorkAssumption, MTypeOK, \A m \in Merges : MergeHolds(m), OneStepDeep, NEW p \in Procs, Acts(p)
  PROVE  OneStepDeep'
<1>1. CASE into' = into
  BY <1>1 DEF OneStepDeep, Canonical
<1>2. CASE Committed(p)
  <2>1. PICK s, t \in Works :
           /\ s # t /\ into[s] = 0 /\ into[t] = 0
           /\ \A w \in Works : into'[w] = IF w = s \/ into[w] = s THEN t ELSE into[w]
    BY <1>2, CommitRows DEF Committed
  <2>2. into'[t] = 0
    BY <2>1 DEF WorkAssumption
  <2>3. ASSUME NEW w \in Works, into'[w] # 0 PROVE into'[into'[w]] = 0
    <3>1. CASE w = s \/ into[w] = s
      BY <2>1, <2>2, <3>1
    <3>2. CASE ~(w = s \/ into[w] = s)
      <4>1. into'[w] = into[w] /\ into[w] # 0 /\ into[w] \in Works /\ into[w] # s
        BY <2>1, <2>3, <3>2 DEF MTypeOK
      <4>2. into[into[w]] = 0
        BY <4>1 DEF OneStepDeep, Canonical
      <4>3. into[into[w]] # s
        BY <2>1, <4>2 DEF WorkAssumption
      <4> QED BY <2>1, <4>1, <4>2, <4>3
    <3> QED BY <3>1, <3>2
  <2> QED BY <2>3 DEF OneStepDeep, Canonical
<1> QED BY <1>1, <1>2, IntoChanges

LEMMA ChosenBeforeKept ==
  ASSUME WorkAssumption, MTypeOK, ChosenBefore, NEW p \in Procs, Acts(p)
  PROVE  ChosenBefore'
<1>1. CASE clock' = clock /\ chosen' = chosen
  BY <1>1 DEF ChosenBefore
<1>2. CASE Chose(p)
  BY <1>2 DEF Chose, ChosenBefore, MTypeOK
<1> QED BY <1>1, <1>2, RowsChange DEF History, Wished, Created, Committed, Commit

LEMMA LastChoiceKept ==
  ASSUME WorkAssumption, MTypeOK, ChosenBefore, LastChoiceStands,
         \A m \in Merges : MergeHolds(m), \A r \in Readers : ReaderShares(r),
         NEW p \in Procs, Acts(p)
  PROVE  LastChoiceStands'
<1>1. CASE UNCHANGED <<into, status, chosen>>
  BY <1>1 DEF LastChoiceStands, Canonical, Absorbed, MergedInto
<1>2. CASE Chose(p)
  <2>1. PICK a \in Works : a = arg[p]
    BY <1>2, TypePlaces DEF Chose, Place, WorkAssumption
  <2>2. into[a] = 0
    BY <1>2, <2>1 DEF Chose, ReaderShares, Canonical
  <2>3. /\ into' = into
        /\ \A w \in Works : status'[w] = IF w = a THEN clock ELSE status[w]
        /\ \A w \in Works : chosen'[w] = IF w = a THEN clock ELSE chosen[w]
    BY <1>2, <2>1 DEF Chose, MTypeOK
  <2>4. ASSUME NEW w \in Works
        PROVE  IF into[w] = 0
               THEN /\ \A v \in Absorbed(w) : chosen'[v] <= status'[w]
                    /\ \E v \in Absorbed(w) : chosen'[v] = status'[w]
               ELSE status'[w] = 0
    <3>1. CASE w = a
      <4>1. a \in Absorbed(w) /\ chosen'[a] = clock /\ status'[w] = clock
        BY <2>3, <3>1 DEF Absorbed
      <4>2. \A v \in Absorbed(w) : chosen'[v] <= clock
        BY <2>3, <3>1 DEF Absorbed, MergedInto, ChosenBefore, MTypeOK
      <4> QED BY <2>2, <3>1, <4>1, <4>2
    <3>2. CASE w # a
      <4>1. into[w] = 0 => a \notin Absorbed(w)
        BY <2>2, <3>2 DEF Absorbed, MergedInto, WorkAssumption
      <4>2. Absorbed(w) \subseteq Works
        BY DEF Absorbed, MergedInto
      <4> QED BY <2>3, <3>2, <4>1, <4>2 DEF LastChoiceStands, Canonical
    <3> QED BY <3>1, <3>2
  <2> QED BY <2>3, <2>4 DEF LastChoiceStands, Canonical, Absorbed, MergedInto
<1>3. CASE Committed(p)
  <2>1. PICK s, t \in Works :
           /\ s # t /\ into[s] = 0 /\ into[t] = 0
           /\ \A w \in Works : into'[w] = IF w = s \/ into[w] = s THEN t ELSE into[w]
           /\ \A w \in Works : status'[w] = IF w = s THEN 0
                                            ELSE IF w = t THEN LaterStays(status[s], status[t]) ELSE status[w]
           /\ chosen' = chosen
    BY <1>3, CommitRows DEF Committed
  <2>2. t # 0 /\ s # 0
    BY DEF WorkAssumption
  <2>3. ASSUME NEW w \in Works
        PROVE  IF into'[w] = 0
               THEN /\ \A v \in Absorbed(w)' : chosen[v] <= status'[w]
                    /\ \E v \in Absorbed(w)' : chosen[v] = status'[w]
               ELSE status'[w] = 0
    <3>1. CASE w = s \/ into[w] = s
      BY <2>1, <2>2, <3>1 DEF LastChoiceStands, Canonical
    <3>2. CASE w = t
      <4>1. into'[t] = 0 /\ Absorbed(t)' = Absorbed(t) \cup Absorbed(s)
        BY <2>1, <2>2 DEF Absorbed, MergedInto
      <4>2. /\ \A v \in Absorbed(t) : chosen[v] <= status[t]
            /\ \E v \in Absorbed(t) : chosen[v] = status[t]
            /\ \A v \in Absorbed(s) : chosen[v] <= status[s]
            /\ \E v \in Absorbed(s) : chosen[v] = status[s]
        BY <2>1 DEF LastChoiceStands, Canonical
      <4>3. status[s] \in Nat /\ status[t] \in Nat /\ \A v \in Absorbed(s) \cup Absorbed(t) : chosen[v] \in Nat
        BY DEF MTypeOK, Absorbed, MergedInto
      <4>4. CASE status[s] > status[t]
        <5>1. status'[t] = status[s]
          BY <2>1, <4>4 DEF LaterStays
        <5>2. \A v \in Absorbed(t) \cup Absorbed(s) : chosen[v] <= status[s]
          BY <4>2, <4>3, <4>4
        <5> QED BY <3>2, <4>1, <4>2, <5>1, <5>2
      <4>5. CASE ~(status[s] > status[t])
        <5>1. status'[t] = status[t]
          BY <2>1, <4>5 DEF LaterStays
        <5>2. \A v \in Absorbed(t) \cup Absorbed(s) : chosen[v] <= status[t]
          BY <4>2, <4>3, <4>5
        <5> QED BY <3>2, <4>1, <4>2, <5>1, <5>2
      <4> QED BY <4>4, <4>5
    <3>3. CASE ~(w = s \/ into[w] = s) /\ w # t
      <4>1. into'[w] = into[w] /\ status'[w] = status[w]
        BY <2>1, <3>3
      <4>2. into[w] = 0 => Absorbed(w)' = Absorbed(w)
        <5>1. w # 0
          BY DEF WorkAssumption
        <5>2. \A v \in Works : into'[v] = w <=> into[v] = w
          BY <2>1, <2>2, <3>3, <5>1
        <5> QED BY <5>2 DEF Absorbed, MergedInto
      <4> QED BY <4>1, <4>2 DEF LastChoiceStands, Canonical
    <3> QED BY <3>1, <3>2, <3>3
  <2> QED BY <2>1, <2>3 DEF LastChoiceStands, Canonical
<1> QED BY <1>1, <1>2, <1>3, RowsChange DEF Rows, History, Wished, Created

LEMMA WishesKept ==
  ASSUME WorkAssumption, MTypeOK, WishesSurvive, \A m \in Merges : MergeHolds(m), NEW p \in Procs, Acts(p)
  PROVE  WishesSurvive'
<1>1. CASE UNCHANGED <<into, wish, wished>>
  BY <1>1 DEF WishesSurvive, Canonical
<1>2. CASE Wished(p)
  <2>1. PICK a \in Works : a = arg[p]
    BY <1>2, TypePlaces DEF Wished, Place, WorkAssumption, Procs
  <2>2. /\ into' = into /\ wished' = wished \cup {a} /\ clock # 0
        /\ \A w \in Works : wish'[w] = IF w = a THEN clock ELSE wish[w]
    BY <1>2, <2>1 DEF Wished, MTypeOK
  <2>3. \A w \in wished : w \in Works /\ (into[w] # 0 => into[w] \in Works)
    BY DEF MTypeOK
  <2> QED BY <2>2, <2>3 DEF WishesSurvive, Canonical
<1>3. CASE Committed(p)
  <2>1. PICK s, t \in Works :
           /\ s # t /\ into[s] = 0 /\ into[t] = 0
           /\ \A w \in Works : into'[w] = IF w = s \/ into[w] = s THEN t ELSE into[w]
           /\ \A w \in Works : wish'[w] = IF w = s THEN 0
                                          ELSE IF w = t THEN EarlierStays(wish[s], wish[t]) ELSE wish[w]
           /\ wished' = wished
    BY <1>3, CommitRows DEF Committed
  <2>2. t # 0
    BY DEF WorkAssumption
  <2>3. wish[s] # 0 \/ wish[t] # 0 => wish'[t] # 0
    BY <2>1 DEF EarlierStays
  <2>4. ASSUME NEW w \in wished PROVE wish'[w] # 0 \/ (into'[w] # 0 /\ wish'[into'[w]] # 0)
    <3>1. w \in Works /\ into[w] \in Works \cup {0}
      BY DEF MTypeOK
    <3>2. CASE wish[w] # 0
      BY <2>1, <2>2, <2>3, <3>1, <3>2
    <3>3. CASE into[w] # 0 /\ wish[into[w]] # 0
      BY <2>1, <2>2, <2>3, <3>1, <3>3
    <3> QED BY <3>2, <3>3 DEF WishesSurvive, Canonical
  <2> QED BY <2>1, <2>4 DEF WishesSurvive, Canonical
<1> QED BY <1>1, <1>2, <1>3, RowsChange DEF Rows, History, Chose, Created

-----------------------------------------------------------------------------
(* What merges, reading statuses and wishes rest on is an invariant. *)
THEOREM MergeInvariance ==
  ASSUME WorkAssumption
  PROVE  MSpec => []MergeInv
<1>1. MInit => MergeInv
  BY MergeInit
<1>2. MergeInv /\ [MNext]_mvars => MergeInv'
  <2>1. ASSUME MergeInv, NEW p \in Procs, Acts(p) PROVE MergeInv'
    BY <2>1, MTypeKept, HeldOnceKept, ReaderSharesKept, MergeHoldsKept, InOrderKept, OneStepKept,
       ChosenBeforeKept, LastChoiceKept, WishesKept DEF MergeInv, NothingChosenIsLost
  <2>2. ASSUME MergeInv, UNCHANGED mvars PROVE MergeInv'
    BY <2>2 DEF MergeInv, mvars, Rows, History, MTypeOK, source, target, HeldOnce, ChosenBefore, MergeHolds,
                InOrder, ReaderShares, OneStepDeep, NothingChosenIsLost, LastChoiceStands, WishesSurvive,
                Canonical, MergedInto, MayShare, LockedBy, Absorbed
  <2> QED BY <2>1, <2>2, StepIsOnes
<1> QED BY <1>1, <1>2, PTL DEF MSpec

(* R4: mergedIntoId names a canonical work (the re-pointing of MergeService.merge), so that  *)
(* a read resolves it in one step however merges overlap.                                    *)
THEOREM RedirectsAreOneStep ==
  ASSUME WorkAssumption
  PROVE  MSpec => []OneStepDeep
<1>1. MergeInv => OneStepDeep
  BY DEF MergeInv
<1> QED BY <1>1, MergeInvariance, PTL

(* Q19: the status of a canonical work is the user's last choice among the works it absorbed *)
(* and no wish is lost, however merges meet ReadingStatusService.set and WishlistService.add. *)
THEOREM ChoicesSurvive ==
  ASSUME WorkAssumption
  PROVE  MSpec => []NothingChosenIsLost
<1>1. MergeInv => NothingChosenIsLost
  BY DEF MergeInv
<1> QED BY <1>1, MergeInvariance, PTL

(* Two merges take their rows in one order: who decides waits for no row, and who is locking *)
(* waits for a row after all it holds.                                                       *)
LEMMA TwoInOrder ==
  ASSUME WorkAssumption, MergeInv
  PROVE  TwoMergesMeetInOrder
<1> SUFFICES ASSUME NEW p \in Merges, NEW q \in Merges, Started \subseteq {p, q},
                    NEW S \in (SUBSET Merges) \ {{}}, \A m \in S : WaitsFor(m) \cap S # {}
             PROVE  FALSE
  BY Zenon DEF TwoMergesMeetInOrder, MergesMeetInOrder
<1>1. MTypeOK /\ \A m \in Merges : MergeHolds(m) /\ InOrder(m)
  BY DEF MergeInv
<1>2. ASSUME NEW m \in S
      PROVE  /\ pc[m] \in {"locking", "repointing"}
             /\ \E n \in S \ {m}, w \in pending[m] :
                  w \in locked[n] /\ (pc[m] = "locking" => w \in NextLock(m))
  <2>1. PICK n \in S : n \in WaitsFor(m)
    BY <1>2
  <2>2. m \in Merges /\ n \in Merges /\ n \notin Readers \cup Wishers
    BY DEF WorkAssumption
  <2>3. n \notin UNION {Sharers(w) : w \in Works} /\ \A w : n \notin Sharers(w)
    BY <2>2 DEF Sharers
  <2>4. CASE pc[m] \in {"locking", "repointing"} /\ pending[m] # {}
    <3>1. PICK wants : wants = IF pc[m] = "locking" THEN NextLock(m) ELSE pending[m]
      OBVIOUS
    <3>2. WaitsFor(m) = {r \in Merges \ {m} : wants \cap locked[r] # {}} \cup UNION {Sharers(w) : w \in wants}
      BY <2>2, <2>4, <3>1 DEF WaitsFor
    <3>3. n # m /\ wants \cap locked[n] # {}
      BY <2>1, <2>3, <3>2
    <3> QED BY <2>4, <3>1, <3>3 DEF NextLock
  <2>5. CASE ~(pc[m] \in {"locking", "repointing"} /\ pending[m] # {})
    BY <2>1, <2>2, <2>5 DEF WaitsFor
  <2> QED BY <2>4, <2>5
<1>3. S \subseteq {p, q}
  BY <1>2 DEF Started
<1>4. ASSUME NEW m \in S PROVE pc[m] = "locking"
  <2>1. PICK n \in S \ {m} : TRUE
    BY <1>2
  <2>2. \A r \in Merges \ {m} : pc[r] # "done"
    BY <1>2, <1>3, <2>1 DEF Started
  <2>3. InOrder(m) /\ pending[m] # {} /\ pc[m] \in {"locking", "repointing"}
    BY <1>1, <1>2
  <2> QED BY <2>2, <2>3 DEF InOrder
<1>5. PICK m \in S : TRUE
  OBVIOUS
<1>6. PICK n \in S \ {m}, w \in pending[m] : w \in locked[n] /\ w \in NextLock(m)
  BY <1>2, <1>4
<1>7. PICK k \in S \ {n}, v \in pending[n] : v \in locked[k] /\ v \in NextLock(n)
  BY <1>2, <1>4
<1>8. k = m
  BY <1>3
<1>9. w < v /\ v < w
  BY <1>1, <1>4, <1>6, <1>7, <1>8 DEF InOrder
<1>10. w \in Nat /\ v \in Nat
  BY <1>1, <1>6, <1>7 DEF MTypeOK, WorkAssumption
<1> QED BY <1>9, <1>10

(* Two merges that overlap never deadlock with each other (the id order of lockWorks), though *)
(* a third that ends between a snapshot and its rows may break the order.                     *)
THEOREM TwoMergesInOrder ==
  ASSUME WorkAssumption
  PROVE  MSpec => []TwoMergesMeetInOrder
<1>1. MergeInv => TwoMergesMeetInOrder
  BY TwoInOrder
<1> QED BY <1>1, MergeInvariance, PTL
=============================================================================
