-------------------------- MODULE EditionLanguage --------------------------
(***************************************************************************)
(* What a text is in and what it is (catalog/edition-language.ts): an      *)
(* edition's own kind and language, kept consistent with its translation   *)
(* and its work by corrections (patchWork, patchTranslation, patchEdition  *)
(* of catalog.service.ts) and merges (merge.service.ts) that run           *)
(* concurrently under the lock order Work, Translation, Edition of         *)
(* catalog-locks.ts.                                                       *)
(*                                                                         *)
(* A transaction's writes appear in the step that commits it.  A revision  *)
(* number is kept as what it is compared for: `current` says whether the   *)
(* entity still has the revision the editor read.  Permissions, titles,    *)
(* authors and ISBNs are left out.                                         *)
(***************************************************************************)
EXTENDS Naturals, FiniteSets

CONSTANTS Works,        \* numbered: rows are locked in the order of their ids
          Translations, Editions, Editors, Mergers, Langs,
          None,         \* null
          MaxAttempts,  \* MAX_ATTEMPTS of retryWhenWorkMoved
          MaxBusy       \* bound on the transactions under way at once

LanguageAssumption ==
  /\ {MaxAttempts, MaxBusy} \subseteq Nat \ {0}
  /\ Works \subseteq Nat /\ IsFiniteSet(Works)
  \* The tables have ids of their own, and null is not one of them, nor a language.
  /\ \A x \in Works : x \notin Translations \cup Editions
  /\ \A x \in Translations : x \notin Editions
  /\ None \notin Works \cup Translations \cup Editions \cup Langs

VARIABLES origLang,   \* Work.origLang
          into,       \* Work.mergedIntoId, or None
          tr,         \* Translation: [work, lang]
          ed,         \* Edition: [work, kind, lang, tr]
          pc, job,    \* an editor's or an operator's transaction
          held        \* row locks of each transaction
lvars == <<origLang, into, tr, ed, pc, job, held>>

Maybe(S) == S \cup {None}
TextKinds == {"ORIGINAL", "TRANSLATION", "UNKNOWN"}
Procs == Editors \cup Mergers
Entities == Works \cup Translations \cup Editions
Text(e) == [kind |-> ed[e].kind, lang |-> ed[e].lang, tr |-> ed[e].tr]
NoJob == [entity |-> None, work |-> None, target |-> None, current |-> TRUE, tries |-> 0, saw |-> None]

-----------------------------------------------------------------------------
(* resolveEditionText: the text of an edition after a patch, or Conflict. *)

Conflict == [kind |-> "conflict", lang |-> None, tr |-> None]

ImpliedLang(from, work, trLang) ==
  IF from.tr # None THEN trLang ELSE IF from.kind = "ORIGINAL" THEN work ELSE None

Linked(from, p, work, curLang, trLang) ==
  LET asked == IF p.lang = "omit" THEN from.lang ELSE p.lang
      follows == p.lang = "omit" /\ from.lang # None /\ from.lang = ImpliedLang(from, work, curLang)
  IN IF p.kind \notin {"omit", "TRANSLATION"} THEN Conflict
     ELSE IF ~follows /\ asked \notin {None, trLang} THEN Conflict
     ELSE [kind |-> "TRANSLATION", lang |-> trLang, tr |-> IF p.tr = "omit" THEN from.tr ELSE p.tr]

\* I3: an original is in the language of its work, as far as that is known.
Fits(text, work) == text.kind = "ORIGINAL" /\ work # None => text.lang \in {None, work}
Filled(text, work) ==
  IF text.kind = "ORIGINAL" /\ work # None THEN [text EXCEPT !.lang = work] ELSE text

Unlinked(from, p, work) ==
  LET unlinks == from.tr # None
      kind == IF p.kind # "omit" THEN p.kind ELSE IF unlinks THEN "ORIGINAL" ELSE from.kind
      lang == IF p.lang # "omit" THEN p.lang
              ELSE IF unlinks /\ p.kind = "omit" THEN work ELSE from.lang
      text == [kind |-> kind, lang |-> lang, tr |-> None]
  IN IF (unlinks /\ p.kind = "omit" /\ work = None) \/ ~Fits(text, work) THEN Conflict
     ELSE Filled(text, work)

Patches == [tr : {"omit", None} \cup Translations, kind : TextKinds \cup {"omit"}, lang : Maybe(Langs) \cup {"omit"}]
Nothing == [tr |-> "omit", kind |-> "omit", lang |-> "omit"]   \* ~changesText

Resolve(e, p) ==
  LET from == Text(e)
      next == IF p.tr = "omit" THEN from.tr ELSE p.tr
      curLang == IF from.tr = None THEN None ELSE tr[from.tr].lang
  IN IF next = None THEN Unlinked(from, p, origLang[ed[e].work])
     ELSE Linked(from, p, origLang[ed[e].work], curLang, tr[next].lang)

-----------------------------------------------------------------------------
Init == /\ origLang \in [Works -> Maybe(Langs)]
        /\ into = [w \in Works |-> None]
        /\ tr \in [Translations -> [work : Works, lang : Langs]]
        /\ ed \in [Editions -> [work : Works, kind : {"UNKNOWN"}, lang : {None}, tr : {None}]]
        /\ pc = [p \in Procs |-> "idle"]
        /\ job = [p \in Procs |-> NoJob]
        /\ held = [p \in Procs |-> {}]

Catalog == <<origLang, into, tr, ed>>
MayStart(p) == pc[p] = "idle" /\ Cardinality({q \in Procs : pc[q] # "idle"}) < MaxBusy
To(p, where) == pc' = [pc EXCEPT ![p] = where]
FreeFor(p, rows) == \A q \in Procs \ {p} : held[q] \cap rows = {}
Hold(p, rows) == held' = [held EXCEPT ![p] = @ \cup rows]
WorkOf(x) == IF x \in Works THEN x ELSE IF x \in Translations THEN tr[x].work ELSE ed[x].work

Faulty_Bumped(p, changed) == [q \in Procs |-> IF q = p THEN NoJob ELSE job[q]]

\* The end of a transaction that gave every entity of `changed` a new revision.
Bumped(p, changed) ==
  [q \in Procs |-> IF q = p THEN NoJob
                   ELSE [job[q] EXCEPT !.current = @ /\ job[q].entity \notin changed]]
Commit(p, changed) == /\ To(p, "idle")
                      /\ job' = Bumped(p, changed)
                      /\ held' = [held EXCEPT ![p] = {}]
Abort(p) == Commit(p, {}) /\ UNCHANGED Catalog

\* The editor opens an entity: what it shows and its revision.
Open(p) ==
  /\ MayStart(p) /\ p \in Editors
  /\ \E x \in Entities :
       job' = [job EXCEPT ![p] = [NoJob EXCEPT !.entity = x, !.saw = IF x \in Editions THEN Text(x) ELSE None]]
  /\ To(p, "read")
  /\ UNCHANGED <<Catalog, held>>

\* The work the entity lies in is read without a lock.
ReadWork(p) ==
  /\ pc[p] = "read"
  /\ job' = [job EXCEPT ![p].work = WorkOf(job[p].entity)]
  /\ To(p, "work")
  /\ UNCHANGED <<Catalog, held>>

LockWork(p) ==
  /\ pc[p] = "work" /\ FreeFor(p, {job[p].work})
  /\ Hold(p, {job[p].work}) /\ To(p, "entity")
  /\ UNCHANGED <<Catalog, job>>

Faulty_Moved(p) ==
  Hold(p, {job[p].entity}) /\ To(p, "work") /\ job' = [job EXCEPT ![p].work = WorkOf(job[p].entity)]

\* WorkMovedError and retryWhenWorkMoved: every lock is given up before the next attempt.
Moved(p) ==
  /\ held' = [held EXCEPT ![p] = {}]
  /\ IF job[p].tries + 1 < MaxAttempts
     THEN To(p, "read") /\ job' = [job EXCEPT ![p].tries = @ + 1]
     ELSE To(p, "idle") /\ job' = [job EXCEPT ![p] = NoJob]

\* lockTranslationInWork, lockEditionInWork: moved meanwhile, the transaction starts over.
LockEntity(p) ==
  /\ pc[p] = "entity" /\ FreeFor(p, {job[p].entity})
  /\ IF WorkOf(job[p].entity) = job[p].work
     THEN Hold(p, {job[p].entity}) /\ To(p, "patch") /\ UNCHANGED job
     ELSE Moved(p)
  /\ UNCHANGED Catalog

Current(p) == job[p].current
EditionsOf(w) == {e \in Editions : ed[e].work = w}
WithLang(es, lang) == [e \in Editions |-> IF e \in es THEN [ed[e] EXCEPT !.lang = lang] ELSE ed[e]]

(* patchWork: planWorkOriginalLangChange, applied before the work itself. *)
Originals(w, lang) == {e \in EditionsOf(w) : ed[e].kind = "ORIGINAL" /\ ed[e].lang # lang}

\* Cleared or kept as it is, the work's language leads no edition after it.
Led(w, lang) == IF lang \in {None, origLang[w]} THEN {} ELSE Originals(w, lang)

PatchWork(p) ==
  LET w == job[p].entity IN
  /\ pc[p] = "patch" /\ w \in Works
  /\ \/ into[w] # None /\ Abort(p)
     \/ into[w] = None /\ ~Current(p) /\ Abort(p)
     \/ /\ into[w] = None /\ Current(p)
        /\ \E lang \in Maybe(Langs) :
             LET led == Led(w, lang) IN
             IF \A e \in led : ed[e].lang \in {None, origLang[w]}
             THEN /\ FreeFor(p, led)
                  /\ origLang' = [origLang EXCEPT ![w] = lang]
                  /\ ed' = WithLang(led, lang)
                  /\ Commit(p, led \cup {w})
                  /\ UNCHANGED <<into, tr>>
             ELSE Abort(p)

Faulty_LinkedTo(t) == {e \in Editions : ed[e].tr = t /\ ed[e].lang = None}

(* patchTranslation: its language is the language of every edition of it (I2). *)
LinkedTo(t) == {e \in Editions : ed[e].tr = t}

PatchTranslation(p) ==
  LET t == job[p].entity IN
  /\ pc[p] = "patch" /\ t \in Translations
  /\ \/ ~Current(p) /\ Abort(p)
     \/ /\ Current(p)
        /\ \E lang \in Langs :
             LET led == {e \in LinkedTo(t) : lang # tr[t].lang /\ ed[e].lang # lang} IN
             /\ FreeFor(p, led)
             /\ tr' = [tr EXCEPT ![t].lang = lang]
             /\ ed' = WithLang(led, lang)
             /\ Commit(p, led \cup {t})
             /\ UNCHANGED <<origLang, into>>

\* patchEdition: a translation of another work is refused before the revision is compared.
PatchEdition(p) ==
  LET e == job[p].entity IN
  /\ pc[p] = "patch" /\ e \in Editions
  /\ \E patch \in Patches :
       LET text == IF patch = Nothing THEN Text(e) ELSE Resolve(e, patch) IN
       IF \/ patch.tr \in Translations /\ tr[patch.tr].work # ed[e].work
          \/ ~Current(p) \/ text = Conflict
       THEN Abort(p)
       ELSE /\ ed' = [ed EXCEPT ![e] = [work |-> ed[e].work, kind |-> text.kind, lang |-> text.lang, tr |-> text.tr]]
            /\ Commit(p, {e})
            /\ UNCHANGED <<origLang, into, tr>>

-----------------------------------------------------------------------------
(* MergeService.merge: locks both works in id order, then plans the languages. *)

StartMerge(m) ==
  /\ MayStart(m) /\ m \in Mergers
  /\ \E s, t \in Works : s # t /\ job' = [job EXCEPT ![m] = [NoJob EXCEPT !.work = s, !.target = t]]
  /\ To(m, "first")
  /\ UNCHANGED <<Catalog, held>>

Lower(m) == IF job[m].work < job[m].target THEN job[m].work ELSE job[m].target
Higher(m) == IF job[m].work < job[m].target THEN job[m].target ELSE job[m].work

LockWorks(m) ==
  LET row == IF pc[m] = "first" THEN Lower(m) ELSE Higher(m)
  IN /\ pc[m] \in {"first", "second"} /\ FreeFor(m, {row})
     /\ Hold(m, {row}) /\ To(m, IF pc[m] = "first" THEN "second" ELSE "merge")
     /\ UNCHANGED <<Catalog, job>>

\* planMergeLanguage: an original in another known language refuses the merge ...
MergeConflicts(s, lang) ==
  {e \in EditionsOf(s) : ed[e].kind = "ORIGINAL" /\ lang # None /\ ed[e].lang \notin {None, lang}}
\* ... and one in no known language takes the target's.
MergeSets(s, lang) == {e \in EditionsOf(s) : ed[e].kind = "ORIGINAL" /\ lang # None /\ ed[e].lang = None}

DoMerge(m) ==
  LET s == job[m].work  t == job[m].target  lang == origLang[t] IN
  /\ pc[m] = "merge"
  /\ IF into[s] # None \/ into[t] # None \/ MergeConflicts(s, lang) # {}
     THEN Abort(m)
     ELSE /\ FreeFor(m, EditionsOf(s) \cup {x \in Translations : tr[x].work = s})
          /\ into' = [w \in Works |-> IF w = s \/ into[w] = s THEN t ELSE into[w]]
          /\ ed' = [e \in Editions |->
                      IF e \in EditionsOf(s)
                      THEN [ed[e] EXCEPT !.work = t, !.lang = IF e \in MergeSets(s, lang) THEN lang ELSE @]
                      ELSE ed[e]]
          /\ tr' = [x \in Translations |-> IF tr[x].work = s THEN [tr[x] EXCEPT !.work = t] ELSE tr[x]]
          /\ Commit(m, MergeSets(s, lang))
          /\ UNCHANGED origLang

Next == \/ \E p \in Editors : \/ Open(p) \/ ReadWork(p) \/ LockWork(p) \/ LockEntity(p)
                              \/ PatchWork(p) \/ PatchTranslation(p) \/ PatchEdition(p)
        \/ \E m \in Mergers : StartMerge(m) \/ LockWorks(m) \/ DoMerge(m)

Spec == Init /\ [][Next]_lvars

-----------------------------------------------------------------------------
(* I1, I2: an edition of a translation is a translation, in its language and of *)
(* its work, through every cascade, unlinking and move.                          *)
TranslatedTextsAgree ==
  \A e \in Editions : ed[e].tr # None =>
     /\ ed[e].kind = "TRANSLATION"
     /\ ed[e].lang = tr[ed[e].tr].lang
     /\ ed[e].work = tr[ed[e].tr].work

(* I3: an original is in the original language of its work whenever that is known. *)
OriginalsAgree ==
  \A e \in Editions : ed[e].kind = "ORIGINAL" /\ origLang[ed[e].work] # None => ed[e].lang = origLang[ed[e].work]

TextsAgree == TranslatedTextsAgree /\ OriginalsAgree

(* A correction never replaces a text its author has not seen: cascades and merges *)
(* that changed it meanwhile make the editor's revision a thing of the past.        *)
SeenByItsEditor(p) ==
  pc[p] = "patch" /\ pc'[p] = "idle" /\ job[p].entity \in Editions /\ ed' # ed
    => job[p].saw = Text(job[p].entity)
CorrectsWhatWasSeen == [][\A p \in Editors : SeenByItsEditor(p)]_lvars

(* What a transaction waits for, and who holds it. *)
Wants(p) ==
  CASE pc[p] = "work" -> {job[p].work}
    [] pc[p] = "entity" -> {job[p].entity}
    [] pc[p] = "first" \/ pc[p] = "second" -> {job[p].work, job[p].target} \ held[p]
    [] pc[p] = "patch" /\ job[p].entity \in Works -> EditionsOf(job[p].entity)
    [] pc[p] = "patch" /\ job[p].entity \in Translations -> LinkedTo(job[p].entity)
    [] pc[p] = "merge" -> EditionsOf(job[p].work) \cup {x \in Translations : tr[x].work = job[p].work}
    [] OTHER -> {}
WaitsFor(p) == {q \in Procs \ {p} : held[q] \cap Wants(p) # {}}

(* The one lock order leaves no circle of waits: among any transactions there is *)
(* one that waits for none of the others.                                         *)
NoCircleOfWaits == \A S \in (SUBSET Procs) \ {{}} : \E p \in S : WaitsFor(p) \cap S = {}

-----------------------------------------------------------------------------
(* What these rest on: a revision that is still current shows the text its editor *)
(* saw, no row has two holders, and a transaction holds the rows of its steps.     *)

Texts == [kind : TextKinds, lang : Maybe(Langs), tr : Maybe(Translations)]
Jobs == [entity : Maybe(Entities), work : Maybe(Works), target : Maybe(Works),
         current : BOOLEAN, tries : Nat, saw : Maybe(Texts)]

TypeOK ==
  /\ origLang \in [Works -> Maybe(Langs)]
  /\ into \in [Works -> Maybe(Works)]
  /\ tr \in [Translations -> [work : Works, lang : Langs]]
  /\ ed \in [Editions -> [work : Works, kind : TextKinds, lang : Maybe(Langs), tr : Maybe(Translations)]]
  /\ pc \in [Procs -> {"idle", "read", "work", "entity", "patch", "first", "second", "merge"}]
  /\ job \in [Procs -> Jobs]
  /\ held \in [Procs -> SUBSET Entities]

CurrentWasSeen ==
  \A p \in Procs : job[p].entity \in Editions /\ job[p].current => job[p].saw = Text(job[p].entity)

HeldOnce == \A p, q \in Procs : p # q => held[p] \cap held[q] = {}

HoldsOf(p) ==
  CASE pc[p] = "entity" -> {job[p].work}
    [] pc[p] = "patch" -> {job[p].work, job[p].entity}
    [] pc[p] = "second" -> {Lower(p)}
    [] pc[p] = "merge" -> {job[p].work, job[p].target}
    [] OTHER -> {}

Orderly(p) ==
  /\ held[p] = HoldsOf(p)
  /\ pc[p] \in {"read", "work", "entity", "patch"} => job[p].entity \in Entities
  /\ pc[p] \in {"work", "entity", "patch"} =>
        job[p].work \in Works /\ (job[p].entity \in Works => job[p].entity = job[p].work)
  /\ pc[p] \in {"first", "second", "merge"} =>
        job[p].work \in Works /\ job[p].target \in Works /\ job[p].work # job[p].target

LanguageInv == TypeOK /\ TextsAgree /\ CurrentWasSeen /\ HeldOnce /\ \A p \in Procs : Orderly(p)
=============================================================================
