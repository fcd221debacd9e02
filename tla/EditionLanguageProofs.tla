----------------------- MODULE EditionLanguageProofs -----------------------
(* Proofs about EditionLanguage, for any works, translations, editions and        *)
(* languages, any number of editors and operators and any bounds.  Each write     *)
(* keeps the texts consistent because it leads along every edition it concerns;   *)
(* that it may do so without a circle of waits follows from what is held at each  *)
(* step, and that it does so behind nobody's back from the revisions it bumps.    *)
EXTENDS EditionLanguage, TLAPS, FiniteSetTheorems, WellFoundedInduction

(* What a patch makes of a text that agreed. *)
LEMMA ResolvedText ==
  ASSUME LanguageAssumption, TypeOK, TextsAgree,
         NEW e \in Editions, NEW p \in Patches, NEW text, text = Resolve(e, p), text # Conflict
  PROVE  /\ text \in Texts
         /\ text.tr # None => /\ text.kind = "TRANSLATION"
                              /\ text.lang = tr[text.tr].lang
                              /\ text.tr \in {ed[e].tr, p.tr}
         /\ text.kind = "ORIGINAL" /\ origLang[ed[e].work] # None => text.lang = origLang[ed[e].work]
<1> DEFINE from == Text(e)
           next == IF p.tr = "omit" THEN from.tr ELSE p.tr
           curLang == IF from.tr = None THEN None ELSE tr[from.tr].lang
           work == origLang[ed[e].work]
<1>1. /\ from \in Texts /\ from.tr = ed[e].tr
      /\ work \in Maybe(Langs) /\ ed[e].work \in Works
      /\ next \in Maybe(Translations) /\ next \in {ed[e].tr, p.tr}
  BY DEF TypeOK, Text, Texts, Patches, Maybe
<1>2. CASE next = None
  <2>1. text = Unlinked(from, p, work)
    BY <1>2 DEF Resolve
  <2> DEFINE unlinks == from.tr # None
             kind == IF p.kind # "omit" THEN p.kind ELSE IF unlinks THEN "ORIGINAL" ELSE from.kind
             lang == IF p.lang # "omit" THEN p.lang
                     ELSE IF unlinks /\ p.kind = "omit" THEN work ELSE from.lang
             plain == [kind |-> kind, lang |-> lang, tr |-> None]
  <2>2. plain \in Texts
    BY <1>1 DEF Patches, Texts, Maybe, TextKinds
  <2>3. text = Filled(plain, work) /\ Fits(plain, work)
    BY <2>1 DEF Unlinked
  <2>4. text.tr = None /\ text.kind = plain.kind /\ text \in Texts
    BY <1>1, <2>2, <2>3 DEF Filled, Texts, Maybe
  <2>5. text.kind = "ORIGINAL" /\ work # None => text.lang = work
    BY <2>2, <2>3, <2>4 DEF Filled, Texts
  <2> QED BY <2>4, <2>5
<1>3. CASE next # None
  <2>1. text = Linked(from, p, work, curLang, tr[next].lang)
    BY <1>3 DEF Resolve
  <2>2. text = [kind |-> "TRANSLATION", lang |-> tr[next].lang, tr |-> next]
    BY <2>1 DEF Linked
  <2>3. next \in Translations /\ tr[next].lang \in Langs
    BY <1>1, <1>3 DEF TypeOK, Maybe
  <2> QED BY <1>1, <2>2, <2>3 DEF Texts, TextKinds, Maybe
<1> QED BY <1>2, <1>3

-----------------------------------------------------------------------------
(* What the four writes do to the catalog, and whose revisions they bump. *)

WorkWritten(p) ==
  \E w \in Works, lang \in Maybe(Langs), led \in SUBSET Editions :
    /\ w = job[p].entity
    /\ led = Led(w, lang)
    /\ origLang' = [origLang EXCEPT ![w] = lang]
    /\ ed' = WithLang(led, lang)
    /\ Commit(p, led \cup {w})
    /\ UNCHANGED <<into, tr>>

TranslationWritten(p) ==
  \E t \in Translations, lang \in Langs, led \in SUBSET Editions :
    /\ t = job[p].entity
    /\ led = {e \in LinkedTo(t) : lang # tr[t].lang /\ ed[e].lang # lang}
    /\ tr' = [tr EXCEPT ![t].lang = lang]
    /\ ed' = WithLang(led, lang)
    /\ Commit(p, led \cup {t})
    /\ UNCHANGED <<origLang, into>>

EditionWritten(p) ==
  \E e \in Editions, text \in Texts :
    /\ e = job[p].entity /\ job[p].current
    /\ text.tr # None => /\ text.kind = "TRANSLATION"
                         /\ text.lang = tr[text.tr].lang
                         /\ tr[text.tr].work = ed[e].work
    /\ text.kind = "ORIGINAL" /\ origLang[ed[e].work] # None => text.lang = origLang[ed[e].work]
    /\ ed' = [ed EXCEPT ![e] = [work |-> ed[e].work, kind |-> text.kind, lang |-> text.lang, tr |-> text.tr]]
    /\ Commit(p, {e})
    /\ UNCHANGED <<origLang, into, tr>>

WorksMerged(p) ==
  \E s, t \in Works :
    LET lang == origLang[t] IN
    /\ pc[p] = "merge"
    /\ MergeConflicts(s, lang) = {}
    /\ into' = [w \in Works |-> IF w = s \/ into[w] = s THEN t ELSE into[w]]
    /\ ed' = [e \in Editions |->
                IF e \in EditionsOf(s)
                THEN [ed[e] EXCEPT !.work = t, !.lang = IF e \in MergeSets(s, lang) THEN lang ELSE @]
                ELSE ed[e]]
    /\ tr' = [x \in Translations |-> IF tr[x].work = s THEN [tr[x] EXCEPT !.work = t] ELSE tr[x]]
    /\ Commit(p, MergeSets(s, lang))
    /\ UNCHANGED origLang

Written(p) == WorkWritten(p) \/ TranslationWritten(p) \/ EditionWritten(p) \/ WorksMerged(p)

LEMMA PatchWrites ==
  ASSUME LanguageAssumption, TypeOK, TextsAgree, NEW p \in Procs,
         PatchWork(p) \/ PatchTranslation(p) \/ PatchEdition(p)
  PROVE  Abort(p) \/ Written(p)
<1>1. CASE PatchWork(p)
  <2>1. ASSUME NEW lang \in Maybe(Langs) PROVE Led(job[p].entity, lang) \in SUBSET Editions
    BY DEF Led, Originals, EditionsOf
  <2> QED BY <1>1, <2>1 DEF PatchWork, Written, WorkWritten
<1>2. CASE PatchTranslation(p) /\ ~Abort(p)
  <2> DEFINE t == job[p].entity
  <2>1. PICK lang \in Langs :
           LET led == {e \in LinkedTo(t) : lang # tr[t].lang /\ ed[e].lang # lang} IN
           /\ tr' = [tr EXCEPT ![t].lang = lang]
           /\ ed' = WithLang(led, lang)
           /\ Commit(p, led \cup {t})
           /\ UNCHANGED <<origLang, into>>
    BY <1>2 DEF PatchTranslation
  <2>2. t \in Translations
    BY <1>2 DEF PatchTranslation
  <2>3. PICK led : led = {e \in LinkedTo(t) : lang # tr[t].lang /\ ed[e].lang # lang}
    OBVIOUS
  <2>4. led \in SUBSET Editions
    BY <2>3 DEF LinkedTo
  <2> QED BY <2>1, <2>2, <2>3, <2>4 DEF Written, TranslationWritten
<1>3. CASE PatchEdition(p) /\ ~Abort(p)
  <2> DEFINE e == job[p].entity
  <2>1. PICK patch \in Patches :
           LET text == IF patch = Nothing THEN Text(e) ELSE Resolve(e, patch) IN
           /\ ~(\/ patch.tr \in Translations /\ tr[patch.tr].work # ed[e].work
                \/ ~Current(p) \/ text = Conflict)
           /\ ed' = [ed EXCEPT ![e] = [work |-> ed[e].work, kind |-> text.kind, lang |-> text.lang, tr |-> text.tr]]
           /\ Commit(p, {e})
           /\ UNCHANGED <<origLang, into, tr>>
    BY <1>3 DEF PatchEdition
  <2>2. e \in Editions
    BY <1>3 DEF PatchEdition
  <2>3. PICK text : text = IF patch = Nothing THEN Text(e) ELSE Resolve(e, patch)
    OBVIOUS
  <2>4. /\ text \in Texts
        /\ text.tr # None => /\ text.kind = "TRANSLATION"
                             /\ text.lang = tr[text.tr].lang
                             /\ text.tr \in {ed[e].tr, patch.tr}
        /\ text.kind = "ORIGINAL" /\ origLang[ed[e].work] # None => text.lang = origLang[ed[e].work]
    <3>1. CASE patch = Nothing
      <4>1. text = Text(e)
        BY <2>3, <3>1
      <4> QED BY <2>2, <4>1 DEF Text, Texts, TypeOK, TextsAgree, TranslatedTextsAgree, OriginalsAgree
    <3>2. CASE patch # Nothing
      BY <2>1, <2>2, <2>3, <3>2, ResolvedText
    <3> QED BY <3>1, <3>2
  <2>5. text.tr # None => tr[text.tr].work = ed[e].work
    <3>1. text.tr \in Maybe(Translations)
      BY <2>4 DEF Texts
    <3>2. CASE text.tr # None /\ text.tr = ed[e].tr
      BY <2>2, <3>2 DEF TextsAgree, TranslatedTextsAgree
    <3>3. CASE text.tr # None /\ text.tr = patch.tr
      BY <2>1, <3>1, <3>3 DEF Maybe
    <3> QED BY <2>4, <3>2, <3>3
  <2> QED BY <2>1, <2>2, <2>3, <2>4, <2>5 DEF Written, EditionWritten, Current
<1> QED BY <1>1, <1>2, <1>3

LEMMA MergeWrites ==
  ASSUME NEW m \in Procs, DoMerge(m), Orderly(m)
  PROVE  Abort(m) \/ Written(m)
BY DEF DoMerge, Written, WorksMerged, Orderly

(* Every step either leaves the catalog alone or is one of these writes. *)
ReadsOrLocks(p) ==
  \/ p \in Editors /\ (Open(p) \/ ReadWork(p) \/ LockWork(p) \/ LockEntity(p))
  \/ p \in Mergers /\ (StartMerge(p) \/ LockWorks(p))
Ends(p) == Abort(p) \/ Written(p)

LEMMA StepCases ==
  ASSUME LanguageAssumption, LanguageInv, [Next]_lvars
  PROVE  UNCHANGED lvars \/ \E p \in Procs : ReadsOrLocks(p) \/ (pc[p] \in {"patch", "merge"} /\ Ends(p))
<1>1. Editors \subseteq Procs /\ Mergers \subseteq Procs
  BY DEF Procs
<1>2. ASSUME NEW p \in Editors, PatchWork(p) \/ PatchTranslation(p) \/ PatchEdition(p)
      PROVE  pc[p] = "patch" /\ Ends(p)
  BY <1>1, <1>2, PatchWrites DEF LanguageInv, Ends, PatchWork, PatchTranslation, PatchEdition
<1>3. ASSUME NEW m \in Mergers, DoMerge(m)
      PROVE  pc[m] = "merge" /\ Ends(m)
  BY <1>1, <1>3, MergeWrites DEF LanguageInv, Ends, DoMerge
<1> QED BY <1>1, <1>2, <1>3 DEF Next, ReadsOrLocks

-----------------------------------------------------------------------------
(* The invariant, conjunct by conjunct *)

LEMMA LanguageInit ==
  ASSUME LanguageAssumption, Init
  PROVE  LanguageInv
<1>1. TypeOK
  BY DEF Init, TypeOK, Maybe, TextKinds, Jobs, NoJob, Procs
<1>2. TextsAgree
  <2>1. \A e \in Editions : ed[e].kind = "UNKNOWN" /\ ed[e].tr = None
    BY DEF Init
  <2> QED BY <2>1 DEF TextsAgree, TranslatedTextsAgree, OriginalsAgree
<1>3. CurrentWasSeen
  BY DEF Init, CurrentWasSeen, NoJob, LanguageAssumption
<1>4. HeldOnce /\ \A p \in Procs : Orderly(p)
  BY DEF Init, HeldOnce, Orderly, HoldsOf
<1> QED BY <1>1, <1>2, <1>3, <1>4 DEF LanguageInv

(* The transaction at its end, which gives everything up. *)
LEMMA CommitEnds ==
  ASSUME TypeOK, NEW p \in Procs, NEW changed, Commit(p, changed)
  PROVE  /\ pc' = [pc EXCEPT ![p] = "idle"]
         /\ held' = [held EXCEPT ![p] = {}]
         /\ job' \in [Procs -> Jobs]
         /\ \A q \in Procs \ {p} :
              /\ job'[q].entity = job[q].entity /\ job'[q].work = job[q].work
              /\ job'[q].target = job[q].target /\ job'[q].saw = job[q].saw
              /\ job'[q].current <=> job[q].current /\ job[q].entity \notin changed
         /\ job'[p] = NoJob
<1>1. pc' = [pc EXCEPT ![p] = "idle"] /\ held' = [held EXCEPT ![p] = {}]
  BY DEF Commit, To
<1>2. job' = [q \in Procs |-> IF q = p THEN NoJob
                              ELSE [job[q] EXCEPT !.current = @ /\ job[q].entity \notin changed]]
  BY DEF Commit, Bumped
<1>3. NoJob \in Jobs
  BY DEF NoJob, Jobs, Maybe
<1>4. ASSUME NEW q \in Procs \ {p}
      PROVE  /\ job'[q] = [job[q] EXCEPT !.current = @ /\ job[q].entity \notin changed]
             /\ job[q] \in Jobs
  BY <1>2, <1>4 DEF TypeOK
<1>5. ASSUME NEW q \in Procs \ {p}
      PROVE  /\ job'[q] \in Jobs
             /\ job'[q].entity = job[q].entity /\ job'[q].work = job[q].work
             /\ job'[q].target = job[q].target /\ job'[q].saw = job[q].saw
             /\ job'[q].current <=> job[q].current /\ job[q].entity \notin changed
  <2>1. PICK b \in BOOLEAN : b <=> job[q].current /\ job[q].entity \notin changed
    OBVIOUS
  <2>2. job[q].current \in BOOLEAN
    BY <1>4, <1>5 DEF Jobs
  <2>3. b = (job[q].current /\ job[q].entity \notin changed)
    BY <2>1, <2>2
  <2>4. job'[q] = [job[q] EXCEPT !.current = b]
    BY <1>4, <1>5, <2>3, Zenon
  <2>5. job[q] \in Jobs
    BY <1>4, <1>5
  <2>6. /\ job'[q] \in Jobs
        /\ job'[q].entity = job[q].entity /\ job'[q].work = job[q].work
        /\ job'[q].target = job[q].target /\ job'[q].saw = job[q].saw
        /\ job'[q].current = b
    BY <2>4, <2>5 DEF Jobs
  <2> QED BY <2>1, <2>6
<1>6. job'[p] = NoJob
  BY <1>2
<1>7. job' \in [Procs -> Jobs]
  BY <1>2, <1>3, <1>5, <1>6
<1> QED BY <1>1, <1>5, <1>6, <1>7

LEMMA TypeKept ==
  ASSUME LanguageAssumption, LanguageInv, [Next]_lvars
  PROVE  TypeOK'
<1>1. TypeOK
  BY DEF LanguageInv
<1>2. CASE UNCHANGED lvars
  BY <1>1, <1>2 DEF lvars, TypeOK
<1>3. ASSUME NEW p \in Procs, ReadsOrLocks(p) PROVE TypeOK'
  <2>1. UNCHANGED Catalog
    BY <1>3 DEF ReadsOrLocks, Open, ReadWork, LockWork, LockEntity, StartMerge, LockWorks, Catalog
  <2>2. pc' \in [Procs -> {"idle", "read", "work", "entity", "patch", "first", "second", "merge"}]
    BY <1>1, <1>3 DEF TypeOK, To, ReadsOrLocks, Open, ReadWork, LockWork, LockEntity, Moved, StartMerge, LockWorks
  <2>3. held' \in [Procs -> SUBSET Entities]
    <3>1. CASE UNCHANGED held
      BY <1>1, <3>1 DEF TypeOK
    <3>2. CASE LockWork(p) \/ LockEntity(p) \/ LockWorks(p)
      <4>1. held' = [held EXCEPT ![p] = {}] \/ \E x \in Entities : held' = [held EXCEPT ![p] = @ \cup {x}]
        <5>1. Orderly(p)
          BY DEF LanguageInv
        <5> QED BY <3>2, <5>1 DEF LockWork, LockEntity, LockWorks, Moved, Hold, Orderly, Entities, Lower, Higher
      <4> QED BY <1>1, <4>1 DEF TypeOK
    <3> QED BY <1>3, <3>1, <3>2 DEF ReadsOrLocks, Open, ReadWork, StartMerge
  <2>4. job' \in [Procs -> Jobs]
    <3>1. job[p] \in Jobs /\ job \in [Procs -> Jobs] /\ NoJob \in Jobs
      BY <1>1 DEF TypeOK, NoJob, Jobs, Maybe
    <3>2. \E j \in Jobs : job' = [job EXCEPT ![p] = j]
      <4>1. CASE UNCHANGED job
        BY <3>1, <4>1
      <4>2. CASE Open(p)
        <5>1. PICK x \in Entities :
                 job' = [job EXCEPT ![p] = [NoJob EXCEPT !.entity = x, !.saw = IF x \in Editions THEN Text(x) ELSE None]]
          BY <4>2 DEF Open
        <5>2. (IF x \in Editions THEN Text(x) ELSE None) \in Maybe(Texts)
          BY <1>1 DEF TypeOK, Text, Texts, Maybe
        <5>3. [NoJob EXCEPT !.entity = x, !.saw = IF x \in Editions THEN Text(x) ELSE None] \in Jobs
          BY <5>2 DEF NoJob, Jobs, Maybe
        <5> QED BY <5>1, <5>3
      <4>3. CASE ReadWork(p)
        <5>1. job[p].entity \in Entities
          BY <4>3 DEF LanguageInv, Orderly, ReadWork
        <5>2. WorkOf(job[p].entity) \in Works
          BY <1>1, <5>1 DEF WorkOf, Entities, TypeOK
        <5>3. [job[p] EXCEPT !.work = WorkOf(job[p].entity)] \in Jobs
          BY <3>1, <5>2 DEF Jobs, Maybe
        <5>4. job' = [job EXCEPT ![p] = [job[p] EXCEPT !.work = WorkOf(job[p].entity)]]
          BY <3>1, <4>3 DEF ReadWork
        <5> QED BY <5>3, <5>4
      <4>4. CASE LockEntity(p)
        <5>1. [job[p] EXCEPT !.tries = @ + 1] \in Jobs
          BY <3>1 DEF Jobs
        <5>2. \/ UNCHANGED job \/ job' = [job EXCEPT ![p] = NoJob]
              \/ job' = [job EXCEPT ![p] = [job[p] EXCEPT !.tries = @ + 1]]
          BY <3>1, <4>4 DEF LockEntity, Moved
        <5> QED BY <3>1, <5>1, <5>2
      <4>5. CASE StartMerge(p)
        <5>1. PICK s, t \in Works : job' = [job EXCEPT ![p] = [NoJob EXCEPT !.work = s, !.target = t]]
          BY <4>5 DEF StartMerge
        <5>2. [NoJob EXCEPT !.work = s, !.target = t] \in Jobs
          BY DEF NoJob, Jobs, Maybe
        <5> QED BY <5>1, <5>2
      <4> QED BY <1>3, <4>1, <4>2, <4>3, <4>4, <4>5 DEF ReadsOrLocks, LockWork, LockWorks
    <3> QED BY <3>1, <3>2
  <2> QED BY <1>1, <2>1, <2>2, <2>3, <2>4 DEF TypeOK, Catalog
<1>4. ASSUME NEW p \in Procs, Ends(p) PROVE TypeOK'
  <2>1. PICK changed : Commit(p, changed)
    BY <1>4 DEF Ends, Abort, Written, WorkWritten, TranslationWritten, EditionWritten, WorksMerged
  <2>2. /\ pc' \in [Procs -> {"idle", "read", "work", "entity", "patch", "first", "second", "merge"}]
        /\ held' \in [Procs -> SUBSET Entities] /\ job' \in [Procs -> Jobs]
    BY <1>1, <2>1, CommitEnds DEF TypeOK
  <2>3. /\ origLang' \in [Works -> Maybe(Langs)]
        /\ into' \in [Works -> Maybe(Works)]
        /\ tr' \in [Translations -> [work : Works, lang : Langs]]
        /\ ed' \in [Editions -> [work : Works, kind : TextKinds, lang : Maybe(Langs), tr : Maybe(Translations)]]
    <3>1. CASE Abort(p)
      BY <1>1, <3>1 DEF Abort, Catalog, TypeOK
    <3>2. CASE WorkWritten(p)
      BY <1>1, <3>2 DEF WorkWritten, WithLang, TypeOK
    <3>3. CASE TranslationWritten(p)
      <4>1. PICK t \in Translations, lang \in Langs, led \in SUBSET Editions :
               /\ tr' = [tr EXCEPT ![t].lang = lang]
               /\ ed' = WithLang(led, lang)
               /\ UNCHANGED <<origLang, into>>
        BY <3>3 DEF TranslationWritten
      <4>2. tr' \in [Translations -> [work : Works, lang : Langs]]
        BY <1>1, <4>1 DEF TypeOK
      <4>3. ed' \in [Editions -> [work : Works, kind : TextKinds, lang : Maybe(Langs), tr : Maybe(Translations)]]
        BY <1>1, <4>1 DEF WithLang, TypeOK, Maybe
      <4> QED BY <1>1, <4>1, <4>2, <4>3 DEF TypeOK
    <3>4. CASE EditionWritten(p)
      BY <1>1, <3>4 DEF EditionWritten, TypeOK, Texts
    <3>5. CASE WorksMerged(p)
      <4>1. PICK s, t \in Works :
               /\ into' = [w \in Works |-> IF w = s \/ into[w] = s THEN t ELSE into[w]]
               /\ ed' = [e \in Editions |->
                           IF e \in EditionsOf(s)
                           THEN [ed[e] EXCEPT !.work = t,
                                              !.lang = IF e \in MergeSets(s, origLang[t]) THEN origLang[t] ELSE @]
                           ELSE ed[e]]
               /\ tr' = [x \in Translations |-> IF tr[x].work = s THEN [tr[x] EXCEPT !.work = t] ELSE tr[x]]
               /\ UNCHANGED origLang
        BY <3>5 DEF WorksMerged
      <4>2. into' \in [Works -> Maybe(Works)] /\ origLang' \in [Works -> Maybe(Langs)]
        BY <1>1, <4>1 DEF TypeOK, Maybe
      <4>3. tr' \in [Translations -> [work : Works, lang : Langs]]
        BY <1>1, <4>1 DEF TypeOK
      <4>4. ASSUME NEW e \in Editions
            PROVE ed'[e] \in [work : Works, kind : TextKinds, lang : Maybe(Langs), tr : Maybe(Translations)]
        <5>1. PICK lang \in Maybe(Langs) : lang = IF e \in MergeSets(s, origLang[t]) THEN origLang[t] ELSE ed[e].lang
          BY <1>1 DEF TypeOK
        <5>2. ed'[e] = IF e \in EditionsOf(s) THEN [ed[e] EXCEPT !.work = t, !.lang = lang] ELSE ed[e]
          BY <4>1, <5>1
        <5>3. ed[e] \in [work : Works, kind : TextKinds, lang : Maybe(Langs), tr : Maybe(Translations)]
          BY <1>1 DEF TypeOK
        <5> QED BY <5>2, <5>3
      <4> QED BY <4>1, <4>2, <4>3, <4>4
    <3> QED BY <1>4, <3>1, <3>2, <3>3, <3>4, <3>5 DEF Ends, Written
  <2> QED BY <2>2, <2>3 DEF TypeOK
<1> QED BY <1>2, <1>3, <1>4, StepCases

(* I1, I2, I3 through every write. *)
LEMMA TextsKept ==
  ASSUME LanguageAssumption, TypeOK, TextsAgree, NEW p \in Procs, Written(p)
  PROVE  TextsAgree'
<1>1. CASE WorkWritten(p)
  <2>1. PICK w \in Works, lang \in Maybe(Langs), led \in SUBSET Editions :
           /\ led = Led(w, lang)
           /\ origLang' = [origLang EXCEPT ![w] = lang]
           /\ ed' = WithLang(led, lang)
           /\ tr' = tr
    BY <1>1 DEF WorkWritten
  <2>2. ASSUME NEW e \in Editions
        PROVE  /\ e \in led => ed[e].kind = "ORIGINAL" /\ ed[e].work = w
               /\ ed'[e].kind = ed[e].kind /\ ed'[e].work = ed[e].work /\ ed'[e].tr = ed[e].tr
               /\ ed'[e].lang = IF e \in led THEN lang ELSE ed[e].lang
    BY <2>1 DEF Led, Originals, EditionsOf, WithLang, TypeOK
  <2>3. TranslatedTextsAgree'
    BY <2>1, <2>2 DEF TextsAgree, TranslatedTextsAgree
  <2>4. ASSUME NEW e \in Editions, ed'[e].kind = "ORIGINAL", origLang'[ed'[e].work] # None
        PROVE  ed'[e].lang = origLang'[ed'[e].work]
    <3>1. CASE ed[e].work # w
      BY <2>1, <2>2, <2>4, <3>1 DEF TextsAgree, OriginalsAgree, TypeOK
    <3>2. CASE ed[e].work = w
      <4>1. origLang'[w] = lang /\ lang # None
        BY <2>1, <2>2, <2>4, <3>2 DEF TypeOK
      <4>2. CASE lang = origLang[w]
        BY <2>1, <2>2, <2>4, <3>2, <4>1, <4>2 DEF Led, TextsAgree, OriginalsAgree
      <4>3. CASE lang # origLang[w]
        <5>1. led = Originals(w, lang)
          BY <2>1, <4>1, <4>3 DEF Led
        <5>2. e \in led \/ ed[e].lang = lang
          BY <2>2, <2>4, <3>2, <5>1 DEF Originals, EditionsOf
        <5> QED BY <2>2, <3>2, <4>1, <5>2
      <4> QED BY <4>2, <4>3
    <3> QED BY <3>1, <3>2
  <2> QED BY <2>3, <2>4 DEF TextsAgree, OriginalsAgree
<1>2. CASE TranslationWritten(p)
  <2>1. PICK t \in Translations, lang \in Langs, led \in SUBSET Editions :
           /\ led = {e \in LinkedTo(t) : lang # tr[t].lang /\ ed[e].lang # lang}
           /\ tr' = [tr EXCEPT ![t].lang = lang]
           /\ ed' = WithLang(led, lang)
           /\ origLang' = origLang
    BY <1>2 DEF TranslationWritten
  <2>2. ASSUME NEW e \in Editions
        PROVE  /\ e \in led => ed[e].tr = t
               /\ ed'[e].kind = ed[e].kind /\ ed'[e].work = ed[e].work /\ ed'[e].tr = ed[e].tr
               /\ ed'[e].lang = IF e \in led THEN lang ELSE ed[e].lang
    BY <2>1 DEF LinkedTo, WithLang, TypeOK
  <2>3. \A x \in Translations : tr'[x].work = tr[x].work /\ tr'[x].lang = IF x = t THEN lang ELSE tr[x].lang
    BY <2>1 DEF TypeOK
  <2>4. ASSUME NEW e \in Editions, ed'[e].tr # None
        PROVE  /\ ed'[e].kind = "TRANSLATION"
               /\ ed'[e].lang = tr'[ed'[e].tr].lang
               /\ ed'[e].work = tr'[ed'[e].tr].work
    <3>1. /\ ed[e].tr \in Translations /\ ed[e].kind = "TRANSLATION"
          /\ ed[e].lang = tr[ed[e].tr].lang /\ ed[e].work = tr[ed[e].tr].work
      BY <2>2, <2>4 DEF TextsAgree, TranslatedTextsAgree, TypeOK, Maybe
    <3>2. e \in led <=> ed[e].tr = t /\ lang # tr[t].lang /\ ed[e].lang # lang
      BY <2>1 DEF LinkedTo
    <3> QED BY <2>2, <2>3, <3>1, <3>2
  <2>5. OriginalsAgree'
    <3>1. ASSUME NEW e \in Editions, ed[e].kind = "ORIGINAL" PROVE e \notin led
      BY <2>1, <2>2, <3>1 DEF TextsAgree, TranslatedTextsAgree, LanguageAssumption
    <3> QED BY <2>1, <2>2, <3>1 DEF TextsAgree, OriginalsAgree
  <2> QED BY <2>4, <2>5 DEF TextsAgree, TranslatedTextsAgree
<1>3. CASE EditionWritten(p)
  <2>1. PICK e \in Editions, text \in Texts :
           /\ text.tr # None => /\ text.kind = "TRANSLATION"
                                /\ text.lang = tr[text.tr].lang
                                /\ tr[text.tr].work = ed[e].work
           /\ text.kind = "ORIGINAL" /\ origLang[ed[e].work] # None => text.lang = origLang[ed[e].work]
           /\ ed' = [ed EXCEPT ![e] = [work |-> ed[e].work, kind |-> text.kind, lang |-> text.lang, tr |-> text.tr]]
           /\ UNCHANGED <<origLang, into, tr>>
    BY <1>3 DEF EditionWritten
  <2>2. /\ ed'[e].work = ed[e].work /\ ed'[e].kind = text.kind /\ ed'[e].lang = text.lang /\ ed'[e].tr = text.tr
        /\ \A x \in Editions \ {e} : ed'[x] = ed[x]
    BY <2>1 DEF TypeOK
  <2>3. TranslatedTextsAgree'
    BY <2>1, <2>2 DEF TextsAgree, TranslatedTextsAgree
  <2>4. OriginalsAgree'
    BY <2>1, <2>2 DEF TextsAgree, OriginalsAgree
  <2> QED BY <2>3, <2>4 DEF TextsAgree
<1>4. CASE WorksMerged(p)
  <2>1. PICK s, t \in Works :
           /\ MergeConflicts(s, origLang[t]) = {}
           /\ ed' = [e \in Editions |->
                       IF e \in EditionsOf(s)
                       THEN [ed[e] EXCEPT !.work = t,
                                          !.lang = IF e \in MergeSets(s, origLang[t]) THEN origLang[t] ELSE @]
                       ELSE ed[e]]
           /\ tr' = [x \in Translations |-> IF tr[x].work = s THEN [tr[x] EXCEPT !.work = t] ELSE tr[x]]
           /\ UNCHANGED origLang
    BY <1>4 DEF WorksMerged
  <2> DEFINE lang == origLang[t]
  <2>2. ASSUME NEW e \in Editions
        PROVE  /\ ed'[e].kind = ed[e].kind /\ ed'[e].tr = ed[e].tr
               /\ ed'[e].work = IF ed[e].work = s THEN t ELSE ed[e].work
               /\ ed'[e].lang = IF e \in MergeSets(s, lang) THEN lang ELSE ed[e].lang
    BY <2>1 DEF EditionsOf, MergeSets, TypeOK
  <2>3. ASSUME NEW x \in Translations
        PROVE  tr'[x].lang = tr[x].lang /\ tr'[x].work = IF tr[x].work = s THEN t ELSE tr[x].work
    BY <2>1 DEF TypeOK
  <2>4. ASSUME NEW e \in Editions
        PROVE  /\ e \in MergeSets(s, lang) <=>
                    ed[e].work = s /\ ed[e].kind = "ORIGINAL" /\ lang # None /\ ed[e].lang = None
               /\ ed[e].work = s /\ ed[e].kind = "ORIGINAL" /\ lang # None => ed[e].lang \in {None, lang}
    BY <2>1 DEF MergeSets, MergeConflicts, EditionsOf
  <2>5. ASSUME NEW e \in Editions, ed'[e].tr # None
        PROVE  /\ ed'[e].kind = "TRANSLATION"
               /\ ed'[e].lang = tr'[ed'[e].tr].lang
               /\ ed'[e].work = tr'[ed'[e].tr].work
    <3>1. /\ ed[e].tr \in Translations /\ ed[e].kind = "TRANSLATION"
          /\ ed[e].lang = tr[ed[e].tr].lang /\ ed[e].work = tr[ed[e].tr].work
      BY <2>2, <2>5 DEF TextsAgree, TranslatedTextsAgree, TypeOK, Maybe
    <3> QED BY <2>2, <2>3, <2>4, <3>1
  <2>6. ASSUME NEW e \in Editions, ed'[e].kind = "ORIGINAL", origLang'[ed'[e].work] # None
        PROVE  ed'[e].lang = origLang'[ed'[e].work]
    <3>1. origLang' = origLang /\ ed[e].kind = "ORIGINAL"
      BY <2>1, <2>2, <2>6
    <3>2. CASE ed[e].work = s
      BY <2>2, <2>4, <2>6, <3>1, <3>2
    <3>3. CASE ed[e].work # s
      BY <2>2, <2>4, <2>6, <3>1, <3>3 DEF TextsAgree, OriginalsAgree
    <3> QED BY <3>2, <3>3
  <2> QED BY <2>5, <2>6 DEF TextsAgree, TranslatedTextsAgree, OriginalsAgree
<1> QED BY <1>1, <1>2, <1>3, <1>4 DEF Written

(* A write that does not bump the revision of an edition leaves its text alone. *)
LEMMA WritesBump ==
  ASSUME TypeOK, NEW p \in Procs, Ends(p)
  PROVE  \E changed : /\ Commit(p, changed)
                      /\ \A e \in Editions \ changed : Text(e)' = Text(e)
<1>1. CASE Abort(p)
  <2>1. \A e \in Editions : Text(e)' = Text(e)
    BY <1>1 DEF Abort, Catalog, Text
  <2> QED BY <1>1, <2>1 DEF Abort
<1>2. CASE WorkWritten(p)
  <2>1. PICK w \in Works, lang \in Maybe(Langs), led \in SUBSET Editions :
         ed' = WithLang(led, lang) /\ Commit(p, led \cup {w})
    BY <1>2 DEF WorkWritten
  <2>2. \A e \in Editions \ (led \cup {w}) : Text(e)' = Text(e)
    BY <2>1 DEF WithLang, Text
  <2> QED BY <2>1, <2>2
<1>3. CASE TranslationWritten(p)
  <2>1. PICK t \in Translations, lang \in Langs, led \in SUBSET Editions :
         ed' = WithLang(led, lang) /\ Commit(p, led \cup {t})
    BY <1>3 DEF TranslationWritten
  <2>2. \A e \in Editions \ (led \cup {t}) : Text(e)' = Text(e)
    BY <2>1 DEF WithLang, Text
  <2> QED BY <2>1, <2>2
<1>4. CASE EditionWritten(p)
  <2>1. PICK e \in Editions : /\ \E text : ed' = [ed EXCEPT ![e] = text]
                               /\ Commit(p, {e})
    BY <1>4 DEF EditionWritten
  <2>2. \A x \in Editions \ {e} : Text(x)' = Text(x)
    BY <2>1 DEF Text, TypeOK
  <2> QED BY <2>1, <2>2
<1>5. CASE WorksMerged(p)
  <2>1. PICK s, t \in Works :
           /\ ed' = [e \in Editions |->
                       IF e \in EditionsOf(s)
                       THEN [ed[e] EXCEPT !.work = t,
                                          !.lang = IF e \in MergeSets(s, origLang[t]) THEN origLang[t] ELSE @]
                       ELSE ed[e]]
           /\ Commit(p, MergeSets(s, origLang[t]))
    BY <1>5 DEF WorksMerged
  <2>2. \A e \in Editions \ MergeSets(s, origLang[t]) : Text(e)' = Text(e)
    BY <2>1 DEF Text, TypeOK
  <2> QED BY <2>1, <2>2
<1> QED BY <1>1, <1>2, <1>3, <1>4, <1>5 DEF Ends, Written

LEMMA CurrentKept ==
  ASSUME LanguageAssumption, LanguageInv, [Next]_lvars
  PROVE  CurrentWasSeen'
<1>1. TypeOK /\ CurrentWasSeen
  BY DEF LanguageInv
<1>2. CASE UNCHANGED lvars
  BY <1>1, <1>2 DEF lvars, CurrentWasSeen, Text
<1>3. ASSUME NEW p \in Procs, ReadsOrLocks(p) PROVE CurrentWasSeen'
  <2>1. ed' = ed
    BY <1>3 DEF ReadsOrLocks, Open, ReadWork, LockWork, LockEntity, StartMerge, LockWorks, Catalog
  <2>2. ASSUME NEW q \in Procs, job'[q].entity \in Editions, job'[q].current
        PROVE  job'[q].saw = Text(job'[q].entity)
    <3>1. job[q] \in Jobs /\ job \in [Procs -> Jobs]
      BY <1>1 DEF TypeOK
    <3>2. CASE job'[q] = job[q]
      BY <1>1, <2>2, <3>2 DEF CurrentWasSeen
    <3>3. CASE Open(p) /\ q = p
      <4>1. PICK x \in Entities :
               job'[q] = [NoJob EXCEPT !.entity = x, !.saw = IF x \in Editions THEN Text(x) ELSE None]
        BY <3>1, <3>3 DEF Open
      <4>2. job'[q].entity = x /\ job'[q].saw = IF x \in Editions THEN Text(x) ELSE None
        BY <4>1 DEF NoJob
      <4> QED BY <2>2, <4>2
    <3>4. CASE ReadWork(p) /\ q = p
      <4>1. job'[q] = [job[q] EXCEPT !.work = WorkOf(job[q].entity)]
        BY <3>1, <3>4 DEF ReadWork
      <4>2. job'[q].entity = job[q].entity /\ job'[q].current = job[q].current /\ job'[q].saw = job[q].saw
        BY <3>1, <4>1 DEF Jobs
      <4> QED BY <1>1, <2>2, <4>2 DEF CurrentWasSeen
    <3>5. CASE job'[q] = NoJob
      BY <2>2, <3>5 DEF NoJob, LanguageAssumption
    <3>6. CASE LockEntity(p) /\ q = p /\ job'[q] = [job[q] EXCEPT !.tries = @ + 1]
      <4>1. job'[q].entity = job[q].entity /\ job'[q].current = job[q].current /\ job'[q].saw = job[q].saw
        BY <3>1, <3>6 DEF Jobs
      <4> QED BY <1>1, <2>2, <4>1 DEF CurrentWasSeen
    <3>7. CASE StartMerge(p) /\ q = p
      <4>1. PICK s, t \in Works : job'[q] = [NoJob EXCEPT !.work = s, !.target = t]
        BY <3>1, <3>7 DEF StartMerge
      <4> QED BY <2>2, <4>1 DEF NoJob, LanguageAssumption
    <3>8. LockEntity(p) => q # p \/ job'[q] = job[q] \/ job'[q] = NoJob \/ job'[q] = [job[q] EXCEPT !.tries = @ + 1]
      BY <3>1 DEF LockEntity, Moved
    <3>9. ReadsOrLocks(p) /\ q # p => job'[q] = job[q]
      BY <3>1 DEF ReadsOrLocks, Open, ReadWork, LockWork, LockEntity, Moved, StartMerge, LockWorks
    <3>10. LockWork(p) \/ LockWorks(p) => job'[q] = job[q]
      BY DEF LockWork, LockWorks
    <3> QED BY <1>3, <3>2, <3>3, <3>4, <3>5, <3>6, <3>7, <3>8, <3>9, <3>10 DEF ReadsOrLocks
  <2> QED BY <2>1, <2>2 DEF CurrentWasSeen, Text
<1>4. ASSUME NEW p \in Procs, Ends(p) PROVE CurrentWasSeen'
  <2>1. PICK changed : /\ Commit(p, changed)
                       /\ \A e \in Editions \ changed : Text(e)' = Text(e)
    BY <1>1, <1>4, WritesBump
  <2>2. ASSUME NEW q \in Procs, job'[q].entity \in Editions, job'[q].current
        PROVE  job'[q].saw = Text(job[q].entity)'
    <3>1. q # p
      BY <1>1, <2>1, <2>2, CommitEnds DEF NoJob, LanguageAssumption
    <3>2. /\ job'[q].entity = job[q].entity /\ job'[q].saw = job[q].saw
          /\ job[q].current /\ job[q].entity \notin changed
      BY <1>1, <2>1, <2>2, <3>1, CommitEnds
    <3>3. job[q].saw = Text(job[q].entity)
      BY <1>1, <2>2, <3>2 DEF CurrentWasSeen
    <3>4. PICK x \in Editions : x = job[q].entity /\ x \notin changed
      BY <2>2, <3>2
    <3>5. Text(x)' = Text(x)
      BY <2>1, <3>4
    <3>6. Text(job[q].entity)' = Text(x)'
      BY <3>2, <3>4 DEF Text
    <3> QED BY <3>2, <3>3, <3>4, <3>5, <3>6
  <2> QED BY <2>2 DEF CurrentWasSeen, Text
<1> QED BY <1>2, <1>3, <1>4, StepCases

(* A step of one transaction leaves what the others hold and want alone. *)
LEMMA OthersStay ==
  ASSUME TypeOK, NEW p \in Procs, ReadsOrLocks(p) \/ Ends(p), NEW q \in Procs, q # p
  PROVE  /\ pc'[q] = pc[q] /\ held'[q] = held[q] /\ job'[q].entity = job[q].entity
         /\ job'[q].work = job[q].work /\ job'[q].target = job[q].target
<1>1. CASE ReadsOrLocks(p)
  <2>1. pc'[q] = pc[q]
    BY <1>1 DEF TypeOK, To, ReadsOrLocks, Open, ReadWork, LockWork, LockEntity, Moved, StartMerge, LockWorks
  <2>2. held'[q] = held[q]
    BY <1>1 DEF TypeOK, Hold, ReadsOrLocks, Open, ReadWork, LockWork, LockEntity, Moved, StartMerge, LockWorks
  <2>3. job'[q] = job[q]
    BY <1>1 DEF TypeOK, ReadsOrLocks, Open, ReadWork, LockWork, LockEntity, Moved, StartMerge, LockWorks
  <2> QED BY <2>1, <2>2, <2>3
<1>2. CASE Ends(p)
  <2>1. PICK changed : Commit(p, changed)
    BY <1>2 DEF Ends, Abort, Written, WorkWritten, TranslationWritten, EditionWritten, WorksMerged
  <2> QED BY <2>1, CommitEnds DEF TypeOK
<1> QED BY <1>1, <1>2

(* And itself it gives everything up, or takes one row that nobody else holds. *)
LEMMA OwnOrder ==
  ASSUME LanguageAssumption, TypeOK, NEW p \in Procs, Orderly(p), ReadsOrLocks(p) \/ Ends(p)
  PROVE  /\ Orderly(p)'
         /\ \/ held'[p] \subseteq held[p]
            \/ \E row : FreeFor(p, {row}) /\ held'[p] = held[p] \cup {row}
<1> USE DEF To, Hold
<1>1. CASE Ends(p)
  <2>1. PICK changed : Commit(p, changed)
    BY <1>1 DEF Ends, Abort, Written, WorkWritten, TranslationWritten, EditionWritten, WorksMerged
  <2>2. pc'[p] = "idle" /\ held'[p] = {}
    BY <2>1, CommitEnds DEF TypeOK
  <2> QED BY <2>2 DEF Orderly, HoldsOf
<1>2. CASE Open(p)
  <2>1. PICK x \in Entities :
           job' = [job EXCEPT ![p] = [NoJob EXCEPT !.entity = x, !.saw = IF x \in Editions THEN Text(x) ELSE None]]
    BY <1>2 DEF Open
  <2>2. pc[p] = "idle" /\ pc'[p] = "read" /\ held'[p] = held[p] /\ job'[p].entity = x
    BY <1>2, <2>1 DEF Open, MayStart, TypeOK, NoJob
  <2> QED BY <2>2 DEF Orderly, HoldsOf
<1>3. CASE ReadWork(p)
  <2>1. /\ pc[p] = "read" /\ pc'[p] = "work" /\ held'[p] = held[p]
        /\ job'[p].entity = job[p].entity /\ job'[p].work = WorkOf(job[p].entity)
    BY <1>3 DEF ReadWork, TypeOK, Jobs
  <2>2. job[p].entity \in Entities
    BY <2>1 DEF Orderly
  <2>3. WorkOf(job[p].entity) \in Works /\ (job[p].entity \in Works => WorkOf(job[p].entity) = job[p].entity)
    BY <2>2 DEF WorkOf, Entities, TypeOK
  <2> QED BY <2>1, <2>2, <2>3 DEF Orderly, HoldsOf
<1>4. CASE LockWork(p)
  <2>1. /\ pc[p] = "work" /\ pc'[p] = "entity" /\ job' = job
        /\ FreeFor(p, {job[p].work}) /\ held'[p] = held[p] \cup {job[p].work}
    BY <1>4 DEF LockWork, TypeOK
  <2> QED BY <2>1 DEF Orderly, HoldsOf
<1>5. CASE LockEntity(p)
  <2>1. CASE WorkOf(job[p].entity) = job[p].work
    <3>1. /\ pc[p] = "entity" /\ pc'[p] = "patch" /\ job' = job
          /\ FreeFor(p, {job[p].entity}) /\ held'[p] = held[p] \cup {job[p].entity}
      BY <1>5, <2>1 DEF LockEntity, TypeOK
    <3> QED BY <3>1 DEF Orderly, HoldsOf
  <2>2. CASE WorkOf(job[p].entity) # job[p].work
    <3>1. pc[p] = "entity" /\ Moved(p)
      BY <1>5, <2>2 DEF LockEntity
    <3>2. /\ held'[p] = {}
          /\ pc'[p] = "idle" \/ (pc'[p] = "read" /\ job'[p].entity = job[p].entity)
      BY <3>1 DEF Moved, TypeOK, Jobs
    <3> QED BY <3>1, <3>2 DEF Orderly, HoldsOf
  <2> QED BY <2>1, <2>2
<1>6. CASE StartMerge(p)
  <2>1. PICK s, t \in Works : s # t /\ job' = [job EXCEPT ![p] = [NoJob EXCEPT !.work = s, !.target = t]]
    BY <1>6 DEF StartMerge
  <2>2. pc[p] = "idle" /\ pc'[p] = "first" /\ held'[p] = held[p] /\ job'[p].work = s /\ job'[p].target = t
    BY <1>6, <2>1 DEF StartMerge, MayStart, TypeOK, NoJob
  <2> QED BY <2>1, <2>2 DEF Orderly, HoldsOf
<1>7. CASE LockWorks(p)
  <2>1. job[p].work \in Works /\ job[p].target \in Works /\ job[p].work # job[p].target
    BY <1>7 DEF LockWorks, Orderly
  <2>2. {Lower(p), Higher(p)} = {job[p].work, job[p].target}
    BY DEF Lower, Higher
  <2>3. CASE pc[p] = "first"
    <3>1. /\ pc'[p] = "second" /\ job' = job
          /\ FreeFor(p, {Lower(p)}) /\ held'[p] = held[p] \cup {Lower(p)}
      BY <1>7, <2>3 DEF LockWorks, TypeOK
    <3>2. held[p] = {}
      BY <2>3 DEF Orderly, HoldsOf
    <3>3. Lower(p)' = Lower(p)
      BY <3>1 DEF Lower
    <3> QED BY <2>1, <3>1, <3>2, <3>3 DEF Orderly, HoldsOf
  <2>4. CASE pc[p] = "second"
    <3>1. /\ pc'[p] = "merge" /\ job' = job
          /\ FreeFor(p, {Higher(p)}) /\ held'[p] = held[p] \cup {Higher(p)}
      BY <1>7, <2>4 DEF LockWorks, TypeOK
    <3>2. held[p] = {Lower(p)}
      BY <2>4 DEF Orderly, HoldsOf
    <3>3. held'[p] = {job[p].work, job[p].target}
      BY <2>2, <3>1, <3>2
    <3> QED BY <2>1, <3>1, <3>3 DEF Orderly, HoldsOf
  <2> QED BY <1>7, <2>3, <2>4 DEF LockWorks
<1> QED BY <1>1, <1>2, <1>3, <1>4, <1>5, <1>6, <1>7 DEF ReadsOrLocks

LEMMA LocksKept ==
  ASSUME LanguageAssumption, LanguageInv, [Next]_lvars
  PROVE  HeldOnce' /\ (\A p \in Procs : Orderly(p))'
<1>1. TypeOK /\ HeldOnce /\ \A p \in Procs : Orderly(p)
  BY DEF LanguageInv
<1>2. CASE UNCHANGED lvars
  BY <1>1, <1>2 DEF lvars, HeldOnce, Orderly, HoldsOf, Lower
<1>3. ASSUME NEW p \in Procs, ReadsOrLocks(p) \/ Ends(p)
      PROVE  HeldOnce' /\ (\A q \in Procs : Orderly(q))'
  <2>1. ASSUME NEW q \in Procs, q # p PROVE held'[q] = held[q] /\ Orderly(q)'
    <3>1. /\ pc'[q] = pc[q] /\ held'[q] = held[q] /\ job'[q].entity = job[q].entity
          /\ job'[q].work = job[q].work /\ job'[q].target = job[q].target
      BY <1>1, <1>3, <2>1, OthersStay
    <3>2. Orderly(q)
      BY <1>1
    <3>3. HoldsOf(q)' = HoldsOf(q)
      BY <3>1 DEF HoldsOf, Lower
    <3> QED BY <3>1, <3>2, <3>3 DEF Orderly
  <2>2. Orderly(p)' /\ (held'[p] \subseteq held[p] \/ \E row : FreeFor(p, {row}) /\ held'[p] = held[p] \cup {row})
    BY <1>1, <1>3, OwnOrder
  <2>3. ASSUME NEW q \in Procs, q # p PROVE held'[q] \cap held'[p] = {}
    <3>1. held[q] \cap held[p] = {}
      BY <1>1, <2>3 DEF HeldOnce
    <3>2. ASSUME NEW row, FreeFor(p, {row}) PROVE row \notin held[q]
      BY <2>3, <3>2 DEF FreeFor
    <3> QED BY <2>1, <2>2, <2>3, <3>1, <3>2
  <2>4. HeldOnce'
    BY <1>1, <2>1, <2>3 DEF HeldOnce
  <2> QED BY <2>1, <2>2, <2>4
<1> QED BY <1>2, <1>3, StepCases

-----------------------------------------------------------------------------
(* What catalog-locks.ts and edition-language.ts rest on is an invariant. *)
THEOREM LanguageInvariance ==
  ASSUME LanguageAssumption
  PROVE  Spec => []LanguageInv
<1>1. Init => LanguageInv
  BY LanguageInit
<1>2. LanguageInv /\ [Next]_lvars => LanguageInv'
  <2> SUFFICES ASSUME LanguageInv, [Next]_lvars PROVE LanguageInv'
    OBVIOUS
  <2>1. TextsAgree'
    <3>1. CASE \E p \in Procs : Written(p)
      BY <3>1, TextsKept DEF LanguageInv
    <3>2. CASE UNCHANGED <<origLang, tr, ed>>
      BY <3>2 DEF LanguageInv, TextsAgree, TranslatedTextsAgree, OriginalsAgree
    <3>3. ASSUME NEW p \in Procs, ReadsOrLocks(p) \/ Abort(p) PROVE UNCHANGED <<origLang, tr, ed>>
      BY <3>3 DEF Abort, Catalog, ReadsOrLocks, Open, ReadWork, LockWork, LockEntity, StartMerge, LockWorks
    <3> QED BY <3>1, <3>2, <3>3, StepCases DEF Ends, lvars
  <2> QED BY <2>1, TypeKept, CurrentKept, LocksKept DEF LanguageInv
<1> QED BY <1>1, <1>2, PTL DEF Spec

(* I1, I2, I3 of edition-language.ts: an edition of a translation is in its language and of  *)
(* its work, and an original in the language of its work, through every correction and merge *)
(* (patchWork, patchTranslation, patchEdition, reconcileEditionLanguages).                   *)
THEOREM TextsAlwaysAgree ==
  ASSUME LanguageAssumption
  PROVE  Spec => []TextsAgree
<1>1. LanguageInv => TextsAgree
  BY DEF LanguageInv
<1> QED BY <1>1, LanguageInvariance, PTL

(* A correction of an edition is written only by an editor whose form shows the text it      *)
(* replaces (assertRevision in patchEdition, against the revisions bumped by cascades and    *)
(* merges).                                                                                   *)
THEOREM SeenBeforeCorrected ==
  ASSUME LanguageAssumption
  PROVE  Spec => CorrectsWhatWasSeen
<1>1. ASSUME LanguageInv, [Next]_lvars
      PROVE  \A p \in Editors : SeenByItsEditor(p)
  <2> SUFFICES ASSUME NEW p \in Editors,
                      pc[p] = "patch", pc'[p] = "idle", job[p].entity \in Editions, ed' # ed
               PROVE  job[p].saw = Text(job[p].entity)
    BY DEF SeenByItsEditor
  <2>1. p \in Procs /\ TypeOK /\ CurrentWasSeen
    BY <1>1 DEF Procs, LanguageInv
  <2>2. PICK q \in Procs : ReadsOrLocks(q) \/ Ends(q)
    BY <1>1, StepCases DEF lvars
  <2>3. q = p
    BY <2>1, <2>2, OthersStay
  <2>4. EditionWritten(p)
    <3>1. ~ReadsOrLocks(p)
      BY DEF ReadsOrLocks, Open, ReadWork, LockWork, LockEntity, StartMerge, LockWorks, Catalog
    <3>2. ~Abort(p)
      BY DEF Abort, Catalog
    <3>3. ~WorkWritten(p) /\ ~TranslationWritten(p) /\ ~WorksMerged(p)
      BY DEF WorkWritten, TranslationWritten, WorksMerged, LanguageAssumption
    <3> QED BY <2>2, <2>3, <3>1, <3>2, <3>3 DEF Ends, Written
  <2> QED BY <2>1, <2>4 DEF EditionWritten, CurrentWasSeen
<1> QED BY <1>1, LanguageInvariance, PTL DEF Spec, CorrectsWhatWasSeen

(* The greatest of some ids: the least of the sets without one would do without an element. *)
LEMMA GreatestId ==
  ASSUME NEW S, S \subseteq Nat, IsFiniteSet(S), S # {}
  PROVE  \E m \in S : \A n \in S : n <= m
<1> DEFINE Greatest(U) == \E m \in U : \A n \in U : n <= m
           Without == {U \in SUBSET S : U # {} /\ ~Greatest(U)}
           T == {Cardinality(U) : U \in Without}
           R == OpToRel(<, Nat)
<1>1. \A U \in SUBSET S : IsFiniteSet(U) /\ Cardinality(U) \in Nat
  BY FS_Subset, FS_CardinalityType
<1>2. SUFFICES ASSUME ~Greatest(S) PROVE FALSE
  OBVIOUS
<1>3. S \in Without
  BY <1>2
<1>4. T \subseteq Nat /\ T # {}
  BY <1>1, <1>3
<1>5. \A n, m \in Nat : n < m => <<n, m>> \in R
  BY DEF OpToRel
<1>6. IsWellFoundedOn(R, Nat)
  BY NatLessThanWellFounded
<1> HIDE DEF R
<1>7. \E t \in T : \A u \in T : ~(<<u, t>> \in R)
  <2> HIDE DEF T
  <2> QED BY <1>4, <1>6, WFMin
<1>8. PICK U \in Without : \A u \in T : ~(<<u, Cardinality(U)>> \in R)
  BY <1>7
<1>9. PICK x \in U : TRUE
  OBVIOUS
<1> DEFINE V == U \ {x}
<1>10. Cardinality(V) < Cardinality(U) /\ V \in SUBSET S
  <2>1. IsFiniteSet(U) /\ Cardinality(U) \in Nat /\ IsFiniteSet(V) /\ Cardinality(V) \in Nat
    BY <1>1
  <2>2. Cardinality(V) = Cardinality(U) - 1
    BY <1>9, <2>1, FS_RemoveElement
  <2> QED BY <2>1, <2>2
<1>11. V = {} \/ Greatest(V)
  <2>1. V \notin Without
    <3>1. ASSUME V \in Without PROVE FALSE
      <4>1. Cardinality(V) \in T /\ Cardinality(V) \in Nat /\ Cardinality(U) \in Nat
        BY <1>1, <3>1
      <4> QED BY <1>5, <1>8, <1>10, <4>1
    <3> QED BY <3>1
  <2> QED BY <1>10, <2>1
<1>12. CASE V = {}
  <2>1. \A n \in U : n <= x
    BY <1>9, <1>12
  <2> QED BY <1>8, <1>9, <2>1
<1>13. CASE Greatest(V)
  <2>1. PICK m \in V : \A n \in V : n <= m
    BY <1>13
  <2>2. \A n \in U : n = x \/ n \in V
    OBVIOUS
  <2>3. CASE x <= m
    BY <1>8, <2>1, <2>2, <2>3
  <2>4. CASE m <= x
    <3>1. \A n \in U : n <= x
      BY <1>9, <2>1, <2>2, <2>4
    <3> QED BY <1>8, <1>9, <3>1
  <2> QED BY <1>9, <2>1, <2>3, <2>4
<1> QED BY <1>11, <1>12, <1>13

(* In that order nobody waits in a circle: who holds an edition waits for nothing, who holds *)
(* a translation waits for editions, and of those who wait for works one waits for the last. *)
LEMMA OrderBreaksCircles ==
  ASSUME LanguageAssumption, LanguageInv
  PROVE  NoCircleOfWaits
<1> SUFFICES ASSUME NEW S \in (SUBSET Procs) \ {{}}, \A p \in S : WaitsFor(p) \cap S # {}
             PROVE  FALSE
  BY Zenon DEF NoCircleOfWaits
<1>1. TypeOK /\ HeldOnce /\ \A p \in Procs : Orderly(p)
  BY DEF LanguageInv
<1>2. ASSUME NEW p \in S
      PROVE  \E q \in S \ {p} : held[q] \cap Wants(p) # {}
  BY DEF WaitsFor
<1>3. ASSUME NEW q \in S PROVE held[q] \cap Editions = {}
  <2>1. SUFFICES ASSUME NEW x \in Editions, x \in held[q] PROVE Wants(q) = {}
    BY <1>2
  <2>2. x \in HoldsOf(q) /\ Orderly(q)
    BY <1>1, <2>1 DEF Orderly
  <2>3. pc[q] = "patch" /\ x = job[q].entity
    BY <2>1, <2>2 DEF Orderly, HoldsOf, Lower, LanguageAssumption
  <2> QED BY <2>1, <2>3 DEF Wants, LanguageAssumption
<1>4. ASSUME NEW q \in S PROVE held[q] \cap Translations = {}
  <2>1. SUFFICES ASSUME NEW x \in Translations, x \in held[q] PROVE Wants(q) \subseteq Editions
    BY <1>2, <1>3
  <2>2. x \in HoldsOf(q) /\ Orderly(q)
    BY <1>1, <2>1 DEF Orderly
  <2>3. pc[q] = "patch" /\ x = job[q].entity
    BY <2>1, <2>2 DEF Orderly, HoldsOf, Lower, LanguageAssumption
  <2> QED BY <2>1, <2>3 DEF Wants, LinkedTo, LanguageAssumption
<1>5. ASSUME NEW p \in S
      PROVE  /\ pc[p] \in {"work", "first", "second"}
             /\ \E q \in S : held[q] \cap Wants(p) # {}
  <2>1. PICK q \in S \ {p} : held[q] \cap Wants(p) # {}
    BY <1>2
  <2>2. PICK x \in held[q] : x \in Wants(p) /\ x \in Works
    BY <1>1, <1>3, <1>4, <2>1 DEF TypeOK, Entities
  <2>3. pc[p] # "entity"
    <3>1. ASSUME pc[p] = "entity" PROVE FALSE
      <4>1. x = job[p].entity /\ x = job[p].work /\ held[p] = {job[p].work}
        BY <1>1, <2>2, <3>1 DEF Wants, Orderly, HoldsOf
      <4>2. held[p] \cap held[q] = {}
        BY <1>1, <2>1 DEF HeldOnce
      <4> QED BY <2>2, <4>1, <4>2
    <3> QED BY <3>1
  <2>4. pc[p] \notin {"patch", "merge"}
    BY <2>2 DEF Wants, EditionsOf, LinkedTo, LanguageAssumption
  <2>5. pc[p] \notin {"idle", "read"}
    BY <2>2 DEF Wants
  <2>6. pc[p] \in {"idle", "read", "work", "entity", "patch", "first", "second", "merge"}
    BY <1>1 DEF TypeOK
  <2> QED BY <2>1, <2>3, <2>4, <2>5, <2>6
<1>6. ASSUME NEW p \in S
      PROVE  \E q \in S : pc[q] = "second" /\ Lower(q) \in Wants(p)
  <2>1. PICK q \in S : held[q] \cap Wants(p) # {}
    BY <1>5
  <2>2. pc[q] = "second" /\ held[q] = {Lower(q)}
    BY <1>1, <1>5, <2>1 DEF Orderly, HoldsOf
  <2> QED BY <2>1, <2>2
<1> DEFINE T == {Higher(q) : q \in {r \in S : pc[r] = "second"}}
<1>7. ASSUME NEW q \in S, pc[q] = "second"
      PROVE  /\ Higher(q) \in Works /\ Lower(q) < Higher(q)
             /\ Wants(q) = {Higher(q)}
  <2>1. /\ job[q].work \in Works /\ job[q].target \in Works /\ job[q].work # job[q].target
        /\ held[q] = {Lower(q)}
    BY <1>1, <1>7 DEF Orderly, HoldsOf
  <2>2. job[q].work \in Nat /\ job[q].target \in Nat
    <3>1. \A w \in Works : w \in Nat
      BY DEF LanguageAssumption
    <3> QED BY <2>1, <3>1
  <2> QED BY <1>7, <2>1, <2>2 DEF Wants, Higher, Lower
<1>8. Works \subseteq Nat /\ IsFiniteSet(Works)
  BY DEF LanguageAssumption
<1>9. T \subseteq Nat /\ IsFiniteSet(T) /\ T # {}
  <2>1. T \subseteq Works
    BY <1>7
  <2>2. \E q \in S : pc[q] = "second"
    <3>1. S # {}
      OBVIOUS
    <3> QED BY <1>6, <3>1
  <2>3. IsFiniteSet(T)
    BY <1>8, <2>1, FS_Subset
  <2> QED BY <1>8, <2>1, <2>2, <2>3
<1>10. PICK m \in T : \A n \in T : n <= m
  <2> HIDE DEF T
  <2> QED BY <1>9, GreatestId
<1>11. PICK q \in S : pc[q] = "second" /\ m = Higher(q)
  OBVIOUS
<1>12. PICK r \in S : pc[r] = "second" /\ Lower(r) = Higher(q)
  BY <1>6, <1>7, <1>11
<1>13. Higher(r) \in T /\ Higher(q) < Higher(r) /\ Higher(q) \in Int /\ Higher(r) \in Int
  BY <1>7, <1>8, <1>11, <1>12
<1> QED BY <1>10, <1>11, <1>13

(* Corrections and merges never wait for each other in a circle: the lock order of            *)
(* catalog-locks.ts, with every lock given up before an entity that moved is tried again.     *)
THEOREM LanguageLocksInOrder ==
  ASSUME LanguageAssumption
  PROVE  Spec => []NoCircleOfWaits
<1>1. LanguageInv => NoCircleOfWaits
  BY OrderBreaksCircles
<1> QED BY <1>1, LanguageInvariance, PTL
=============================================================================
