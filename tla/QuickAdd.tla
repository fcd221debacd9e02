------------------------------ MODULE QuickAdd ------------------------------
(* POST /me/library/quick-add (quick-add.service.ts): a copy for the owner, and   *)
(* the edition it is a copy of if the catalog does not have it.  A request names   *)
(* an operation and may be repeated, also while it is still running.  Metadata is  *)
(* fetched first, without a transaction; then one transaction takes an advisory    *)
(* lock for the operation, looks the operation up, finds or creates the edition    *)
(* and writes the copy and the operation.  A violated unique index aborts the      *)
(* transaction, which is repeated once.                                            *)
EXTENDS Naturals, FiniteSets

CONSTANTS
  Users, Operations,
  Records,          \* external records: what is added
  KindOf,           \* Records -> RecordKinds
  Calls,            \* requests under way at once
  MaxAttempts,      \* MAX_ATTEMPTS
  MaxCopies,        \* bound on copies ever made
  NULL

\* An edition with an ISBN and a reference, one with a reference only, a work.
RecordKinds == {"ISBN", "VOLUME", "WORK"}

QuickAddAssumption ==
  /\ KindOf \in [Records -> RecordKinds] /\ {MaxAttempts, MaxCopies} \subseteq Nat \ {0}
  /\ NULL \notin Users \cup Operations \cup Records \cup Calls

VARIABLES
  editions,     \* of the catalog: id and the record it was made from
  reference,    \* EditionExternalReference and WorkExternalReference: record -> edition
  copyRows,     \* id, owner and edition
  operation,    \* LibraryAddOperation: the request and the copy
  call,         \* requests between two statements
  answers,      \* ghost: who was told of which copy for which operation and request
  made,         \* ghost: the copies made, with their operation
  refused       \* ghost: records whose request ended in a conflict or an error of the server

vars == <<editions, reference, copyRows, operation, call, answers, made, refused>>
tables == <<editions, reference, copyRows, operation>>
ghosts == <<answers, made, refused>>

NoOperation == [record |-> NULL, copy |-> 0]
\* A request outside of the transaction, at its n-th attempt.
Outside(step, u, o, r, fetched, n) ==
  [step |-> step, user |-> u, op |-> o, record |-> r, fetched |-> fetched,
   edition |-> 0, new |-> FALSE, refers |-> FALSE, attempt |-> n]
Idle == Outside("IDLE", NULL, NULL, NULL, FALSE, 1)

Row(c) == operation[<<c.user, c.op>>]
EditionIds(r) == {e.id : e \in {f \in editions : f.record = r}}

\* Steps of the transaction, in order.
Inside == {"LOCKED", "NEW", "MADE", "READY"}

-----------------------------------------------------------------------------
(* Before the transaction *)

\* A click, another one, a retry after an answer that was lost.  The client may send
\* another request under the same operation by mistake.
SendAdd(k, u, o, r) ==
  /\ call[k] = Idle
  /\ call' = [call EXCEPT ![k] = Outside("SENT", u, o, r, FALSE, 1)]
  /\ UNCHANGED <<tables, ghosts>>

\* findLocal: by ISBN or by reference.  A work record is found by its reference alone.
Local(r) == (IF KindOf[r] = "ISBN" THEN EditionIds(r) ELSE {}) \cup ({reference[r]} \ {0})

\* prepare.  The source is asked only for what is not there yet, and may not answer.
Prepare(k) ==
  LET c == call[k]
      needed == Row(c) = NoOperation /\ Local(c.record) = {}
  IN
  /\ c.step = "SENT"
  /\ \/ call' = [call EXCEPT ![k] = [c EXCEPT !.step = "PREPARED", !.fetched = needed]]
     \/ needed /\ call' = [call EXCEPT ![k] = Idle]
  /\ UNCHANGED <<tables, ghosts>>

-----------------------------------------------------------------------------
(* The transaction: run, replay, createFromTarget *)

Others(k) == {j \in Calls \ {k} : call[j].step \in Inside}

\* pg_advisory_xact_lock on the operation.
LockOperation(k) ==
  LET c == call[k] IN
  /\ c.step = "PREPARED"
  /\ \A j \in Others(k) : <<call[j].user, call[j].op>> # <<c.user, c.op>>
  /\ call' = [call EXCEPT ![k].step = "LOCKED"]
  /\ UNCHANGED <<tables, ghosts>>

SameRequest(c) == Row(c).record = c.record

\* The operation is there: its copy, or a refusal, because the request is another one or
\* the copy was removed.
Replay(k) ==
  LET c == call[k] IN
  /\ c.step = "LOCKED" /\ Row(c) # NoOperation
  /\ answers' = IF SameRequest(c) /\ Row(c).copy # 0
                THEN answers \cup {[by |-> <<c.user, c.op>>, record |-> c.record, copy |-> Row(c).copy]}
                ELSE answers
  /\ call' = [call EXCEPT ![k] = Idle]
  /\ UNCHANGED <<tables, made, refused>>

\* The advisory lock on the record, for a work only, held to the end.
RecordFree(k) ==
  KindOf[call[k].record] = "WORK" =>
    \A j \in Others(k) : call[j].record = call[k].record => call[j].step = "LOCKED"

\* The edition is there: findLocal again, now in the transaction.
UseEdition(k) ==
  LET c == call[k] IN
  /\ c.step = "LOCKED" /\ Row(c) = NoOperation /\ RecordFree(k)
  /\ \E e \in Local(c.record) :
       call' = [call EXCEPT ![k] = [c EXCEPT
         !.edition = e, !.step = IF c.fetched /\ reference[c.record] = 0 THEN "MADE" ELSE "READY"]]
  /\ UNCHANGED <<tables, ghosts>>

\* It is not: without an answer of the source that is an error nobody can get.
NeedEdition(k) ==
  LET c == call[k] IN
  /\ c.step = "LOCKED" /\ Row(c) = NoOperation /\ RecordFree(k) /\ Local(c.record) = {}
  /\ IF c.fetched
     THEN call' = [call EXCEPT ![k].step = "NEW"] /\ UNCHANGED refused
     ELSE call' = [call EXCEPT ![k] = Idle] /\ refused' = refused \cup {c.record}
  /\ UNCHANGED <<tables, answers, made>>

\* Ids that no row has, written or committed.
FreeIds == (1..(MaxCopies + Cardinality(Calls))) \ ({e.id : e \in editions} \cup {call[j].edition : j \in Calls})
NextEdition == CHOOSE id \in FreeIds : TRUE

\* A violated unique index: the transaction is repeated, with what the source said.
AfterRace(c) == IF c.attempt < MaxAttempts
                THEN Outside("PREPARED", c.user, c.op, c.record, c.fetched, c.attempt + 1)
                ELSE Idle

Lose(k) ==
  /\ call' = [call EXCEPT ![k] = AfterRace(call[k])]
  /\ refused' = IF AfterRace(call[k]) = Idle THEN refused \cup {call[k].record} ELSE refused
  /\ UNCHANGED <<tables, answers, made>>

\* Edition_isbn13_key makes it wait for others that insert the same ISBN.
CreateEdition(k) ==
  LET c == call[k]
      indexed == KindOf[c.record] = "ISBN"
  IN
  /\ c.step = "NEW"
  /\ indexed => \A j \in Others(k) : call[j].new => call[j].record # c.record
  /\ IF indexed /\ EditionIds(c.record) # {} THEN Lose(k)
     ELSE /\ FreeIds # {}
          /\ call' = [call EXCEPT ![k] = [c EXCEPT !.step = "MADE", !.edition = NextEdition, !.new = TRUE]]
          /\ UNCHANGED <<tables, ghosts>>

Elsewhere(c) == reference[c.record] \notin {0, c.edition}

\* rememberReference: the insert waits for others that insert the key, gives way to what is
\* there, and a reference that leads to another edition is a conflict.  The reference of a
\* work is a plain insert.
RememberReference(k) ==
  LET c == call[k] IN
  /\ c.step = "MADE"
  /\ \A j \in Others(k) : call[j].refers => call[j].record # c.record
  /\ CASE KindOf[c.record] = "WORK" /\ reference[c.record] # 0 -> Lose(k)
       [] KindOf[c.record] # "WORK" /\ Elsewhere(c) ->
            /\ call' = [call EXCEPT ![k] = Idle] /\ refused' = refused \cup {c.record}
            /\ UNCHANGED <<tables, answers, made>>
       [] OTHER ->
            /\ call' = [call EXCEPT ![k] = [c EXCEPT !.step = "READY", !.refers = TRUE]]
            /\ UNCHANGED <<tables, ghosts>>

Faulty_Recorded(c, id) == operation      \* written down after the commit, if ever

Recorded(c, id) == [operation EXCEPT ![<<c.user, c.op>>] = [record |-> c.record, copy |-> id]]

\* The copy, the operation and the commit.  The answer may get lost.
Commit(k) ==
  LET c == call[k]
      id == Cardinality(made) + 1
  IN
  /\ c.step = "READY" /\ id <= MaxCopies
  /\ editions' = IF c.new THEN editions \cup {[id |-> c.edition, record |-> c.record]} ELSE editions
  /\ reference' = [reference EXCEPT ![c.record] = IF c.refers /\ @ = 0 THEN c.edition ELSE @]
  /\ copyRows' = copyRows \cup {[id |-> id, owner |-> c.user, edition |-> c.edition]}
  /\ operation' = Recorded(c, id)
  /\ made' = made \cup {[id |-> id, by |-> <<c.user, c.op>>]}
  /\ answers' \in {answers, answers \cup {[by |-> <<c.user, c.op>>, record |-> c.record, copy |-> id]}}
  /\ call' = [call EXCEPT ![k] = Idle]
  /\ UNCHANGED refused

\* The time of a transaction is limited, and a process may die.
Abort(k) ==
  /\ call[k].step \in Inside \cup {"PREPARED"} /\ call' = [call EXCEPT ![k] = Idle]
  /\ UNCHANGED <<tables, ghosts>>

\* ON DELETE SET NULL.
RemoveCopy(p) ==
  /\ copyRows' = copyRows \ {p}
  /\ operation' = [x \in DOMAIN operation |->
       IF operation[x].copy = p.id THEN [operation[x] EXCEPT !.copy = 0] ELSE operation[x]]
  /\ UNCHANGED <<editions, reference, call, ghosts>>

-----------------------------------------------------------------------------

Init ==
  /\ editions = {} /\ reference = [r \in Records |-> 0]
  /\ copyRows = {} /\ operation = [x \in Users \X Operations |-> NoOperation]
  /\ call = [k \in Calls |-> Idle]
  /\ answers = {} /\ made = {} /\ refused = {}

Step(k) ==
  \/ Prepare(k) \/ LockOperation(k) \/ Replay(k) \/ UseEdition(k) \/ NeedEdition(k)
  \/ CreateEdition(k) \/ RememberReference(k) \/ Commit(k) \/ Abort(k)

Next ==
  \/ \E k \in Calls : Step(k) \/ \E u \in Users, o \in Operations, r \in Records : SendAdd(k, u, o, r)
  \/ \E p \in copyRows : RemoveCopy(p)

Spec == Init /\ [][Next]_vars

-----------------------------------------------------------------------------
(* Properties *)

\* An operation makes one copy, however often it is sent, at once or later, and even after
\* the copy was removed.
OneCopyPerOperation == \A m, n \in made : m.by = n.by => m = n

\* Whoever repeats an operation is told of the copy they were told of before, and never of a
\* copy of something else than they asked for.
AnswersAgree ==
  \A a, b \in answers : a.by = b.by => a.copy = b.copy /\ a.record = b.record

\* The catalog has one edition of an external record, however many add it first.
OneEditionPerRecord == \A d, e \in editions : d.record = e.record => d = e

\* Adding the same new record at the same moment is not an error for anyone: whoever comes
\* second finds what the first one has made.  A volume has no index to tell them apart early.
RacesAreSettled == MaxAttempts > 1 => refused \cap {r \in Records : KindOf[r] # "VOLUME"} = {}

\* All of it: an operation makes one copy and answers alike, the catalog has one edition of a
\* record, and no race is an error.
OneAddOneAnswer == OneCopyPerOperation /\ AnswersAgree /\ OneEditionPerRecord /\ RacesAreSettled

=============================================================================
