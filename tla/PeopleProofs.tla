---------------------------- MODULE PeopleProofs ----------------------------
(* Proofs about people and their accounts: friendships and invitations, for any   *)
(* users, calls and invitations; invitations by mail, for any limits and periods; *)
(* links to Telegram chats and resets of a password, for any number of requests   *)
(* at once; and the end of a process with auth workflows under way.               *)
(*                                                                                *)
(* PeopleInv: who asked, who agreed and who was told is kept with every row, and   *)
(* what a transaction has read binds it only while the row is the same one.        *)
(* MailsInv: what was counted stands because both advisory locks are held from     *)
(* the count to the insert, and a hash is erased when it no longer counts.         *)
(* LinkInv and ResetInv: the row of the user, or of the account, is held by one    *)
(* transaction at a time, which has seen what it leaves behind.  DrainInv: the     *)
(* first gate is closed when the first snapshot is taken, and the second one only  *)
(* when no workflow is left, so neither set of the shutdown can grow behind the    *)
(* back of the phase that waits for it.                                            *)
EXTENDS People, AuthShutdown, FiniteSetTheorems, TLAPS

Statuses == {"NONE", "PENDING", "ACCEPTED", "DECLINED", "BLOCKED"}
Verbs == {"request", "accept", "decline", "remove", "block", "invite"}
Does == [from : SUBSET Statuses, action : Verbs, roles : SUBSET Roles,
         kind : {"create", "update", "delete", "unchanged", "again"}, to : Statuses]
Transaction == [actor : Users, pair : Pairs, action : Verbs, seen : RowType \cup {NoRow},
                does : Does, inv : Invites \cup {NULL}, retried : BOOLEAN]

PeopleTyped ==
  /\ created \in 0..MaxRows
  /\ row \in [Pairs -> RowType \cup {NoRow}]
  /\ asked \in [Pairs -> SUBSET Users]
  /\ call \in [Calls -> Transaction \cup {Idle}]
  /\ state \in [Invites -> {"NONE", "OPEN", "EXPIRED", "REVOKED"}]
  /\ acceptances \in [Invites -> SUBSET Users]
  /\ \A i \in Invites : IsFiniteSet(acceptances[i])

\* A row as the columns allow it, after n rows were created.
SoundAt(r, p, n) ==
  r # NoRow => /\ r.id <= n
               /\ r.requestedBy \in p
               /\ r.blockedBy \in p \cup {NULL}
               /\ r.status = "BLOCKED" <=> r.blockedBy # NULL

Sound(r, p) == SoundAt(r, p, created)

\* The will of both is recorded, or of the one who is waiting.
Willing(p) ==
  /\ asked[p] \subseteq p
  /\ row[p] # NoRow /\ row[p].status # "BLOCKED" => row[p].requestedBy \in asked[p]
  /\ row[p].status = "ACCEPTED" => asked[p] = p

\* What a transaction has read: the table allows what it is going to do, and as long as the
\* row is the same one, who asked then has asked, and a block is as it was.
Knows(c) ==
  /\ c.actor \in c.pair /\ Sound(c.seen, c.pair)
  /\ c.action = "invite" <=> c.inv # NULL
  /\ c.does.kind # "unchanged"
  /\ IF c.does.kind = "again" THEN c.inv = NULL
     ELSE c.does \in resolveTransition(c.seen, c.action, c.actor)
  /\ c.seen # NoRow /\ row[c.pair].id = c.seen.id =>
       IF c.seen.status = "BLOCKED" THEN row[c.pair] = c.seen
       ELSE c.seen.requestedBy \in asked[c.pair]

\* The lock on an invitation keeps what was checked under it.
Admits(c) ==
  c.inv # NULL => /\ c.pair = {c.actor, InviterOf[c.inv]}
                  /\ state[c.inv] # "REVOKED" /\ Cardinality(acceptances[c.inv]) < MaxUses[c.inv]

PeopleInv ==
  /\ PeopleTyped /\ AskedAreTold /\ UsesAreBounded
  /\ \A p \in Pairs : Sound(row[p], p) /\ Willing(p)
  /\ \A k \in Calls : call[k] # Idle => Knows(call[k]) /\ Admits(call[k])
  /\ \A j, k \in Calls : call[j] # Idle /\ call[k] # Idle /\ call[j].inv = call[k].inv /\ call[k].inv # NULL
                         => j = k

-----------------------------------------------------------------------------

LEMMA PairIs ==
  ASSUME NEW p \in Pairs, NEW u \in p
  PROVE  /\ p \subseteq Users /\ Other(p, u) \in p /\ Other(p, u) # u /\ p = {u, Other(p, u)}
         /\ \A v \in p : v # u => p = {u, v}
<1>1. PICK v, w \in p : v # w /\ p = {v, w}
  BY DEF Pairs
<1>2. \E x \in p : x # u
  BY <1>1
<1>3. Other(p, u) \in p /\ Other(p, u) # u
  BY <1>2 DEF Other
<1> QED
  BY <1>1, <1>3 DEF Pairs

LEMMA PairOf ==
  ASSUME NEW u \in Users, NEW v \in Users, u # v
  PROVE  {u, v} \in Pairs
BY DEF Pairs

\* The table, row by row.
LEMMA Applies ==
  ASSUME NEW r, NEW a, NEW u, NEW t \in resolveTransition(r, a, u)
  PROVE  /\ t \in Does /\ t.kind # "again"
         /\ \/ a = "request" /\ r.status = "NONE" /\ t.kind = "create" /\ t.to = "PENDING"
            \/ a = "request" /\ r.status = "DECLINED" /\ t.kind = "update" /\ t.to = "PENDING"
            \/ /\ a = "request" /\ r.status = "PENDING" /\ actorRoleOf(r, u) = "RECIPIENT"
               /\ t.kind = "update" /\ t.to = "ACCEPTED"
            \/ /\ a = "accept" /\ r.status = "PENDING" /\ actorRoleOf(r, u) = "RECIPIENT"
               /\ t.kind = "update" /\ t.to = "ACCEPTED"
            \/ a = "decline" /\ r.status = "PENDING" /\ t.kind = "update" /\ t.to = "DECLINED"
            \/ a = "invite" /\ r.status = "NONE" /\ t.kind = "create" /\ t.to = "ACCEPTED"
            \/ a = "invite" /\ r.status \in {"PENDING", "DECLINED"} /\ t.kind = "update" /\ t.to = "ACCEPTED"
            \/ a = "invite" /\ r.status = "ACCEPTED" /\ t.kind = "unchanged"
            \/ a = "remove" /\ r.status \in {"PENDING", "ACCEPTED", "DECLINED"} /\ t.kind = "delete"
            \/ a = "remove" /\ r.status = "BLOCKED" /\ actorRoleOf(r, u) = "BLOCKER" /\ t.kind = "delete"
            \/ a = "block" /\ r.status = "NONE" /\ t.kind = "create" /\ t.to = "BLOCKED"
            \/ a = "block" /\ r.status \in {"PENDING", "ACCEPTED", "DECLINED"} /\ t.kind = "update" /\ t.to = "BLOCKED"
<1>1. t \in Transitions /\ r.status \in t.from /\ t.action = a /\ actorRoleOf(r, u) \in t.roles
  BY DEF resolveTransition
<1>2. CASE t \in toRequest
  BY <1>1, <1>2 DEF toRequest, T, Does, Statuses, Verbs, Roles
<1>3. CASE t \in toAccept \cup toDecline
  BY <1>1, <1>3 DEF toAccept, toDecline, T, Does, Statuses, Verbs, Roles
<1>4. CASE t \in toInvite
  BY <1>1, <1>4 DEF toInvite, T, Does, Statuses, Verbs, Roles
<1>5. CASE t \in toRemove \cup fromBlocked
  BY <1>1, <1>5 DEF toRemove, fromBlocked, T, Does, Statuses, Verbs, Roles
<1>6. CASE t \in toBlock
  BY <1>1, <1>6 DEF toBlock, T, Does, Statuses, Verbs, Roles
<1> QED
  BY <1>1, <1>2, <1>3, <1>4, <1>5, <1>6 DEF Transitions

\* Whoever has a request to answer can answer it with one of their own.
LEMMA RecipientMayRequest ==
  ASSUME NEW r \in RowType, NEW u, r.status = "PENDING", r.requestedBy # u
  PROVE  resolveTransition(r, "request", u) # {}
<1> DEFINE t == T({"PENDING"}, "request", {"RECIPIENT"}, "update", "ACCEPTED")
<1>1. t \in Transitions /\ t.from = {"PENDING"} /\ t.action = "request" /\ t.roles = {"RECIPIENT"}
  BY DEF Transitions, toRequest, T
<1>2. r # NoRow
  BY DEF NoRow, RowType
<1>3. actorRoleOf(r, u) = "RECIPIENT"
  BY <1>2 DEF actorRoleOf
<1> HIDE DEF t
<1> QED
  BY <1>1, <1>3 DEF resolveTransition

LEMMA NoRowFacts ==
  /\ NoRow.id = 0 /\ NoRow.status = "NONE" /\ NoRow.requestedBy = NULL /\ NoRow.blockedBy = NULL
  /\ \A r \in RowType : /\ r # NoRow /\ r.id \in Nat /\ r.id # 0 /\ r.status # "NONE"
                        /\ r.status \in Statuses
BY DEF NoRow, RowType, Statuses

LEMMA RoleFacts ==
  ASSUME NEW r \in RowType, NEW u
  PROVE  /\ actorRoleOf(r, u) = "RECIPIENT" => r.requestedBy # u
         /\ actorRoleOf(r, u) = "BLOCKER" => r.blockedBy = u
BY NoRowFacts DEF actorRoleOf

LEMMA TransactionFacts ==
  ASSUME NEW c \in Transaction
  PROVE  /\ c # Idle /\ c.actor \in Users /\ c.pair \in Pairs /\ c.action \in Verbs
         /\ c.seen \in RowType \cup {NoRow} /\ c.does \in Does /\ c.inv \in Invites \cup {NULL}
         /\ c.retried \in BOOLEAN
<1>1. Idle.actor = NULL /\ NULL \notin Users
  BY FriendshipAssumption DEF Idle
<1> QED
  BY <1>1 DEF Transaction

\* What has been read just now is so.
LEMMA ReadKnows ==
  ASSUME PeopleInv, NEW u \in Users, NEW p \in Pairs, u \in p, NEW a \in Verbs,
         NEW t \in resolveTransition(row[p], a, u), t.kind # "unchanged",
         NEW i \in Invites \cup {NULL}, a = "invite" <=> i # NULL, NEW b \in BOOLEAN
  PROVE  Knows(Read(u, p, a, t, i, b))
<1> DEFINE c == Read(u, p, a, t, i, b)
<1>1. /\ c.actor = u /\ c.pair = p /\ c.action = a /\ c.seen = row[p] /\ c.does = t /\ c.inv = i
  BY DEF Read
<1>2. Sound(row[p], p) /\ Willing(p) /\ t.kind # "again"
  BY Applies DEF PeopleInv
<1> HIDE DEF c
<1>3. Knows(c)
  BY <1>1, <1>2 DEF Knows, Willing
<1> QED
  BY <1>3 DEF c

-----------------------------------------------------------------------------
(* Steps that change one transaction and no row *)

LEMMA CallStep ==
  ASSUME PeopleInv, NEW k \in Calls, NEW c \in Transaction \cup {Idle},
         call' = [call EXCEPT ![k] = c], UNCHANGED <<row, created, told, asked, state, acceptances>>,
         c # Idle => Knows(c) /\ Admits(c),
         c # Idle /\ c.inv # NULL => \A j \in Calls \ {k} : call[j] # Idle => call[j].inv # c.inv
  PROVE  PeopleInv'
<1>1. PeopleTyped' /\ AskedAreTold' /\ UsesAreBounded'
  BY DEF PeopleInv, PeopleTyped, AskedAreTold, UsesAreBounded
<1>2. call'[k] = c /\ \A j \in Calls \ {k} : call'[j] = call[j]
  BY DEF PeopleInv, PeopleTyped
<1>3. \A p \in Pairs : (Sound(row[p], p) /\ Willing(p))'
  BY DEF PeopleInv, Sound, SoundAt, Willing
<1>4. \A j \in Calls : (call[j] # Idle => Knows(call[j]) /\ Admits(call[j]))'
  <2>1. \A j \in Calls : call'[j] # Idle => Knows(call'[j]) /\ Admits(call'[j])
    BY <1>2 DEF PeopleInv
  <2> QED
    BY <2>1 DEF Knows, Admits, Sound, SoundAt
<1>5. (\A i, j \in Calls : call[i] # Idle /\ call[j] # Idle /\ call[i].inv = call[j].inv /\ call[j].inv # NULL
                         => i = j)'
  BY <1>2 DEF PeopleInv
<1> QED
  BY <1>1, <1>3, <1>4, <1>5 DEF PeopleInv

LEMMA IdleStep ==
  ASSUME PeopleInv, NEW k \in Calls, call' = [call EXCEPT ![k] = Idle],
         UNCHANGED <<row, created, told, asked, state, acceptances>>
  PROVE  PeopleInv'
BY CallStep

LEMMA BeginKeeps ==
  ASSUME PeopleInv, NEW k \in Calls, NEW p \in Pairs, NEW u \in Users, NEW a \in Actions, Begin(k, u, p, a),
         UNCHANGED <<state, acceptances>>
  PROVE  PeopleInv'
<1>1. u \in p /\ a \in Verbs /\ a # "invite" /\ UNCHANGED <<row, created, told, asked>>
  BY FriendshipAssumption DEF Begin, Verbs
<1>2. PICK t \in resolveTransition(row[p], a, u) : call' = [call EXCEPT ![k] = Read(u, p, a, t, NULL, FALSE)]
  BY DEF Begin
<1>3. t.kind # "unchanged"
  BY <1>1, Applies
<1> DEFINE c == Read(u, p, a, t, NULL, FALSE)
<1>4. c \in Transaction /\ c.inv = NULL /\ Knows(c)
  <2>1. NULL \in Invites \cup {NULL} /\ FALSE \in BOOLEAN /\ PeopleTyped /\ (a = "invite" <=> NULL # NULL)
    BY <1>1 DEF PeopleInv
  <2>2. c \in Transaction /\ c.inv = NULL
    <3>1. t \in Does /\ row[p] \in RowType \cup {NoRow}
      BY <2>1, Applies DEF PeopleTyped
    <3> QED
      BY <1>1, <2>1, <3>1 DEF Read, Transaction
  <2>3. Knows(c)
    BY <1>1, <1>3, <2>1, ReadKnows
  <2> QED
    BY <2>2, <2>3
<1> HIDE DEF c
<1>5. Admits(c)
  BY <1>4 DEF Admits
<1>6. call' = [call EXCEPT ![k] = c]
  BY <1>2 DEF c
<1> QED
  BY <1>1, <1>4, <1>5, <1>6, CallStep

LEMMA ConflictKeeps ==
  ASSUME PeopleInv, NEW k \in Calls, Conflict(k), UNCHANGED <<state, acceptances>>
  PROVE  PeopleInv'
<1> DEFINE c == call[k]
           d == [c EXCEPT !.does.kind = "again", !.retried = TRUE]
<1>1. c # Idle /\ c.inv = NULL /\ UNCHANGED <<row, created, told, asked>> /\ c \in Transaction /\ Knows(c)
  BY DEF Conflict, PeopleInv, PeopleTyped
<1>2. CASE call' = [call EXCEPT ![k] = Idle]
  BY <1>1, <1>2, IdleStep
<1>3. CASE call' = [call EXCEPT ![k] = d]
  <2>1. /\ d \in Transaction /\ d.inv = NULL /\ d.actor = c.actor /\ d.pair = c.pair /\ d.action = c.action
        /\ d.seen = c.seen /\ d.does.kind = "again"
    BY <1>1 DEF Transaction, Does
  <2> HIDE DEF d, c
  <2>2. Knows(d) /\ Admits(d)
    BY <1>1, <2>1 DEF Knows, Admits
  <2> QED
    BY <1>1, <1>3, <2>1, <2>2, CallStep
<1> QED
  BY <1>2, <1>3 DEF Conflict, AfterConflict

LEMMA AgainKeeps ==
  ASSUME PeopleInv, NEW k \in Calls, Again(k), UNCHANGED <<state, acceptances>>
  PROVE  PeopleInv'
<1> DEFINE c == call[k]
<1>1. /\ c # Idle /\ c.does.kind = "again" /\ UNCHANGED <<row, created, told, asked>>
      /\ c \in Transaction /\ Knows(c)
  BY DEF Again, PeopleInv, PeopleTyped
<1>2. /\ c.actor \in Users /\ c.pair \in Pairs /\ c.actor \in c.pair /\ c.action \in Verbs /\ c.action # "invite"
  BY <1>1, TransactionFacts DEF Knows
<1>3. CASE call' = [call EXCEPT ![k] = Idle]
  BY <1>1, <1>3, IdleStep
<1>4. ASSUME NEW t \in resolveTransition(row[c.pair], c.action, c.actor),
             call' = [call EXCEPT ![k] = Read(c.actor, c.pair, c.action, t, NULL, TRUE)]
      PROVE  PeopleInv'
  <2> DEFINE d == Read(c.actor, c.pair, c.action, t, NULL, TRUE)
  <2>1. t.kind # "unchanged"
    BY <1>2, Applies
  <2>2. d \in Transaction /\ d.inv = NULL /\ Knows(d)
    <3>1. NULL \in Invites \cup {NULL} /\ TRUE \in BOOLEAN /\ PeopleTyped /\ (c.action = "invite" <=> NULL # NULL)
      BY <1>2 DEF PeopleInv
    <3>2. d \in Transaction /\ d.inv = NULL
      <4>1. t \in Does /\ row[c.pair] \in RowType \cup {NoRow}
        BY <1>2, <3>1, Applies DEF PeopleTyped
      <4> QED
        BY <1>2, <3>1, <4>1 DEF Read, Transaction
    <3>3. Knows(d)
      BY <1>2, <2>1, <3>1, ReadKnows
    <3> QED
      BY <3>2, <3>3
  <2>3. call' = [call EXCEPT ![k] = d]
    BY <1>4
  <2> HIDE DEF d
  <2>4. Admits(d)
    BY <2>2 DEF Admits
  <2> QED
    BY <1>1, <2>2, <2>3, <2>4, CallStep
<1> QED
  BY <1>3, <1>4 DEF Again

LEMMA BeginAcceptKeeps ==
  ASSUME PeopleInv, NEW k \in Calls, NEW u \in Users, NEW i \in Invites, BeginAccept(k, u, i)
  PROVE  PeopleInv'
<1> DEFINE p == {u, InviterOf[i]}
<1>1. /\ u # InviterOf[i] /\ ~Locked(i) /\ Active(i)
      /\ UNCHANGED <<row, created, told, asked, state, acceptances>>
      /\ i # NULL /\ InviterOf[i] \in Users
  BY InvitationAssumption DEF BeginAccept
<1>2. p \in Pairs /\ u \in p
  BY <1>1, PairOf
<1>3. PICK t \in resolveTransition(row[p], "invite", u) :
        t.kind # "unchanged" /\ call' = [call EXCEPT ![k] = Read(u, p, "invite", t, i, FALSE)]
  BY DEF BeginAccept
<1> DEFINE c == Read(u, p, "invite", t, i, FALSE)
<1> HIDE DEF p
<1>4. c \in Transaction /\ c.inv = i /\ c.pair = p /\ c.actor = u /\ Knows(c)
  <2>1. "invite" \in Verbs /\ i \in Invites \cup {NULL} /\ FALSE \in BOOLEAN /\ PeopleTyped
        /\ ("invite" = "invite" <=> i # NULL)
    BY <1>1 DEF Verbs, PeopleInv
  <2>2. c \in Transaction /\ c.inv = i /\ c.pair = p /\ c.actor = u
    <3>1. t \in Does /\ row[p] \in RowType \cup {NoRow}
      BY <1>2, <2>1, Applies DEF PeopleTyped
    <3> QED
      BY <1>2, <2>1, <3>1 DEF Read, Transaction
  <2>3. Knows(c)
    BY <1>2, <1>3, <2>1, ReadKnows
  <2> QED
    BY <2>2, <2>3
<1>5. call' = [call EXCEPT ![k] = c]
  BY <1>3
<1> HIDE DEF c
<1>6. Admits(c)
  BY <1>1, <1>4 DEF Admits, Active, p
<1>7. \A j \in Calls \ {k} : call[j] # Idle => call[j].inv # i
  BY <1>1 DEF Locked
<1> QED
  BY <1>1, <1>4, <1>5, <1>6, <1>7, CallStep

-----------------------------------------------------------------------------
(* The write *)

\* The transaction that writes, and what the table lets it do.
LEMMA WriterFacts ==
  ASSUME PeopleInv, NEW k \in Calls, NEW c, c = call[k], c # Idle, c.does.kind # "again", ConditionHolds(c)
  PROVE  /\ c \in Transaction /\ Knows(c) /\ Admits(c) /\ c.pair \in Pairs /\ c.actor \in c.pair
         /\ c.actor \in Users /\ c.actor # NULL /\ c.pair \subseteq Users
         /\ c.does \in resolveTransition(c.seen, c.action, c.actor)
         /\ c.seen \in RowType \cup {NoRow} /\ row[c.pair] \in RowType \cup {NoRow}
         /\ Sound(c.seen, c.pair) /\ Sound(row[c.pair], c.pair) /\ Willing(c.pair)
         /\ c.does.kind \in {"create", "update", "delete"}
         /\ c.does.kind = "create" => c.seen = NoRow /\ row[c.pair] = NoRow
         /\ c.does.kind # "create" => /\ c.seen \in RowType /\ row[c.pair] \in RowType
                                      /\ row[c.pair].id = c.seen.id /\ row[c.pair].status = c.seen.status
<1>1. c \in Transaction /\ Knows(c) /\ Admits(c)
  BY DEF PeopleInv, PeopleTyped
<1>2. /\ c.pair \in Pairs /\ c.actor \in Users /\ c.seen \in RowType \cup {NoRow} /\ c.actor # NULL
      /\ row[c.pair] \in RowType \cup {NoRow} /\ Sound(row[c.pair], c.pair) /\ Willing(c.pair)
  <2>1. c.pair \in Pairs /\ c.actor \in Users /\ c.seen \in RowType \cup {NoRow}
    BY <1>1, TransactionFacts
  <2> QED
    BY <2>1, FriendshipAssumption DEF PeopleInv, PeopleTyped
<1>3. c.actor \in c.pair /\ c.does \in resolveTransition(c.seen, c.action, c.actor) /\ c.does.kind # "unchanged"
      /\ Sound(c.seen, c.pair)
  BY <1>1 DEF Knows
<1>4. c.pair \subseteq Users
  BY <1>2 DEF Pairs
<1>5. /\ c.does.kind \in {"create", "update", "delete"}
      /\ c.does.kind = "create" => c.seen.status = "NONE"
      /\ c.does.kind # "create" => c.seen.status # "NONE"
  BY <1>3, Applies
<1>6. c.seen.status = "NONE" <=> c.seen = NoRow
  BY <1>2, NoRowFacts
<1>7. c.does.kind = "create" => c.seen = NoRow /\ row[c.pair] = NoRow
  BY <1>5, <1>6 DEF ConditionHolds
<1>8. c.does.kind # "create" => /\ c.seen \in RowType /\ row[c.pair] \in RowType
                              /\ row[c.pair].id = c.seen.id /\ row[c.pair].status = c.seen.status
  BY <1>2, <1>5, <1>6, NoRowFacts DEF ConditionHolds, Unchanged
<1> QED
  BY <1>1, <1>2, <1>3, <1>4, <1>5, <1>7, <1>8

\* A row that is made: by a request, an invitation or a block.
LEMMA Created ==
  ASSUME PeopleInv, NEW k \in Calls, NEW c, c = call[k], c # Idle, ConditionHolds(c), c.does.kind = "create",
         NEW r, r = After(c), NEW v, v = Voiced(asked[c.pair], c), created < MaxRows
  PROVE  /\ r \in RowType /\ SoundAt(r, c.pair, created + 1) /\ r.id = created + 1 /\ v \subseteq c.pair
         /\ r.status = c.does.to
         /\ r.status # "BLOCKED" => r.requestedBy \in v
         /\ r.status = "ACCEPTED" => v = c.pair
         /\ r.status = "PENDING" => r.requestedBy = c.actor
<1> DEFINE p == c.pair
<1>1. /\ p \in Pairs /\ c.actor \in p /\ c.actor \in Users /\ c.actor # NULL /\ p \subseteq Users
      /\ c.does \in resolveTransition(c.seen, c.action, c.actor) /\ c.seen = NoRow
  BY WriterFacts
<1>2. created + 1 \in 1..MaxRows /\ created \in Nat
  BY FriendshipAssumption DEF PeopleInv, PeopleTyped
<1>3. NoRow.blockedBy = NULL /\ NULL \notin Users /\ c.does.kind # "delete"
  BY NoRowFacts, FriendshipAssumption
<1>4. v = Voices(c)
  BY DEF Voiced
<1>5. \/ c.action = "request" /\ c.does.to = "PENDING" /\ v = {c.actor}
      \/ c.action = "invite" /\ c.does.to = "ACCEPTED" /\ v = p
      \/ c.action = "block" /\ c.does.to = "BLOCKED" /\ v = {}
  BY <1>1, <1>4, Applies DEF Voices
<1>6. Other(p, c.actor) \in p
  BY <1>1, PairIs
<1>7. CASE c.action = "request"
  <2>1. r = [id |-> created + 1, status |-> "PENDING", requestedBy |-> c.actor, blockedBy |-> NULL]
    BY <1>1, <1>3, <1>5, <1>7 DEF After
  <2> QED
    BY <1>1, <1>2, <1>3, <1>5, <1>7, <2>1 DEF RowType, SoundAt
<1>8. CASE c.action = "invite"
  <2>1. r = [id |-> created + 1, status |-> "ACCEPTED", requestedBy |-> Other(p, c.actor), blockedBy |-> NULL]
    BY <1>1, <1>3, <1>5, <1>8 DEF After
  <2> QED
    BY <1>1, <1>2, <1>3, <1>5, <1>6, <1>8, <2>1 DEF RowType, SoundAt
<1>9. CASE c.action = "block"
  <2>1. r = [id |-> created + 1, status |-> "BLOCKED", requestedBy |-> c.actor, blockedBy |-> c.actor]
    BY <1>1, <1>3, <1>5, <1>9 DEF After
  <2> QED
    BY <1>1, <1>2, <1>3, <1>5, <1>9, <2>1 DEF RowType, SoundAt
<1> QED
  BY <1>5, <1>7, <1>8, <1>9

\* A row that changes: never a blocked one, and whoever has asked before has asked still.
LEMMA Updated ==
  ASSUME PeopleInv, NEW k \in Calls, NEW c, c = call[k], c # Idle, ConditionHolds(c), c.does.kind = "update",
         NEW r, r = After(c), NEW v, v = Voiced(asked[c.pair], c)
  PROVE  /\ r \in RowType /\ SoundAt(r, c.pair, created) /\ r.id = row[c.pair].id /\ v \subseteq c.pair
         /\ r.status = c.does.to
         /\ row[c.pair].status # "BLOCKED" /\ row[c.pair] # NoRow /\ asked[c.pair] \subseteq v
         /\ r.status # "BLOCKED" => r.requestedBy \in v
         /\ r.status = "ACCEPTED" => v = c.pair
         /\ r.status = "PENDING" => r.requestedBy = c.actor
<1> DEFINE p == c.pair
<1>1. /\ p \in Pairs /\ c.actor \in p /\ c.actor \in Users /\ c.actor # NULL /\ p \subseteq Users
      /\ c.does \in resolveTransition(c.seen, c.action, c.actor)
      /\ c.seen \in RowType /\ row[p] \in RowType
      /\ row[p].id = c.seen.id /\ row[p].status = c.seen.status
      /\ Sound(c.seen, p) /\ Willing(p) /\ Knows(c)
  BY WriterFacts
<1>2. /\ c.seen.requestedBy \in p /\ c.seen.requestedBy \in Users /\ c.seen.id \in 1..MaxRows
      /\ c.seen.id <= created /\ c.seen # NoRow /\ row[p] # NoRow
      /\ c.seen.status = "BLOCKED" <=> c.seen.blockedBy # NULL
  BY <1>1, NoRowFacts DEF Sound, SoundAt, RowType
<1>3. actorRoleOf(c.seen, c.actor) = "RECIPIENT" => c.seen.requestedBy # c.actor
  BY <1>1, RoleFacts
<1>4. \/ c.action = "request" /\ c.seen.status = "DECLINED" /\ c.does.to = "PENDING" /\ Voices(c) = {c.actor}
      \/ /\ c.action \in {"request", "accept"} /\ c.seen.status = "PENDING" /\ c.does.to = "ACCEPTED"
         /\ Voices(c) = {c.actor} /\ c.seen.requestedBy # c.actor
      \/ c.action = "decline" /\ c.seen.status = "PENDING" /\ c.does.to = "DECLINED" /\ Voices(c) = {}
      \/ /\ c.action = "invite" /\ c.seen.status \in {"PENDING", "DECLINED"} /\ c.does.to = "ACCEPTED"
         /\ Voices(c) = p
      \/ /\ c.action = "block" /\ c.seen.status \in {"PENDING", "ACCEPTED", "DECLINED"}
         /\ c.does.to = "BLOCKED" /\ Voices(c) = {}
  BY <1>1, <1>3, Applies DEF Voices
<1>5. c.seen.status # "BLOCKED" /\ c.seen.blockedBy = NULL /\ c.seen.requestedBy \in asked[p]
  <2>1. c.seen.status # "BLOCKED"
    BY <1>4
  <2> QED
    BY <1>1, <1>2, <2>1 DEF Knows
<1>6. v = asked[p] \cup Voices(c) /\ asked[p] \subseteq p
  BY <1>1 DEF Voiced, Willing
<1>7. r = [id |-> c.seen.id, status |-> c.does.to,
           requestedBy |-> IF c.does.to = "PENDING" THEN c.actor ELSE c.seen.requestedBy,
           blockedBy |-> IF c.does.to = "BLOCKED" THEN c.actor ELSE NULL]
  BY <1>5 DEF After
<1>8. p = {c.actor, c.seen.requestedBy} \/ c.seen.requestedBy = c.actor
  <2>1. PICK x, y \in p : p = {x, y}
    BY <1>1 DEF Pairs
  <2> QED
    BY <1>1, <1>2, <2>1
<1>9. r \in RowType /\ SoundAt(r, p, created) /\ r.id = row[p].id
  BY <1>1, <1>2, <1>4, <1>7 DEF RowType, SoundAt
<1>10. v \subseteq p /\ asked[p] \subseteq v /\ (r.status = "ACCEPTED" => v = p)
  BY <1>1, <1>4, <1>5, <1>6, <1>7, <1>8
<1>11. /\ r.status # "BLOCKED" => r.requestedBy \in v
       /\ r.status = "PENDING" => r.requestedBy = c.actor
  BY <1>4, <1>5, <1>6, <1>7
<1> QED
  BY <1>1, <1>2, <1>5, <1>7, <1>9, <1>10, <1>11

LEMMA Deleted ==
  ASSUME NEW c, c.does.kind = "delete", NEW t \in resolveTransition(c.seen, c.action, c.actor), t = c.does
  PROVE  After(c) = NoRow /\ \A s : Voiced(s, c) = {}
<1>1. After(c) = NoRow
  BY DEF After
<1>2. c.action = "remove"
  BY Applies
<1> QED
  BY <1>1, <1>2 DEF Voiced, Voices

LEMMA SoundLater ==
  ASSUME NEW r \in RowType \cup {NoRow}, NEW p, NEW n \in Nat, NEW m \in Nat, n <= m, SoundAt(r, p, n)
  PROVE  SoundAt(r, p, m)
BY DEF SoundAt, RowType

\* What a write does to the row and to the record of who agreed.
LEMMA Written ==
  ASSUME PeopleInv, NEW k \in Calls, NEW c, c = call[k], c # Idle, c.does.kind # "again", ConditionHolds(c),
         Write(c)
  PROVE  /\ c.pair \in Pairs /\ row[c.pair] \in RowType \cup {NoRow} /\ Willing(c.pair)
         /\ \A q \in Pairs \ {c.pair} : row'[q] = row[q] /\ asked'[q] = asked[q]
         /\ row' \in [Pairs -> RowType \cup {NoRow}] /\ asked' \in [Pairs -> SUBSET Users]
         /\ created \in Nat /\ created' \in 0..MaxRows /\ created <= created'
         /\ SoundAt(row'[c.pair], c.pair, created') /\ asked'[c.pair] \subseteq c.pair
         /\ row'[c.pair] # NoRow /\ row'[c.pair].status # "BLOCKED" => row'[c.pair].requestedBy \in asked'[c.pair]
         /\ row'[c.pair].status = "ACCEPTED" => asked'[c.pair] = c.pair
         /\ row'[c.pair].status = "PENDING" => row'[c.pair].requestedBy = c.actor
         /\ told' = told \cup Notify(c, row'[c.pair])
         /\ \/ c.does.kind = "create" /\ row'[c.pair].id = created + 1 /\ row'[c.pair].status = c.does.to
            \/ /\ c.does.kind = "update" /\ row'[c.pair].id = row[c.pair].id /\ row'[c.pair].status = c.does.to
               /\ row[c.pair] # NoRow /\ row[c.pair].status # "BLOCKED"
               /\ asked[c.pair] \subseteq asked'[c.pair]
            \/ c.does.kind = "delete" /\ row'[c.pair] = NoRow
<1> DEFINE p == c.pair
<1>1. PICK r : r = After(c)
  OBVIOUS
<1>2. PICK v : v = Voiced(asked[p], c)
  OBVIOUS
<1>3. /\ p \in Pairs /\ p \subseteq Users /\ row[p] \in RowType \cup {NoRow} /\ Willing(p)
      /\ c.does.kind \in {"create", "update", "delete"}
      /\ c.does \in resolveTransition(c.seen, c.action, c.actor)
  BY WriterFacts
<1>4. /\ c.does.kind = "create" => created < MaxRows
      /\ row' = [row EXCEPT ![p] = r]
      /\ created' = IF c.does.kind = "create" THEN created + 1 ELSE created
      /\ told' = told \cup Notify(c, r)
      /\ asked' = [asked EXCEPT ![p] = v]
  BY <1>1, <1>2 DEF Write
<1>5. /\ created \in 0..MaxRows /\ MaxRows \in Nat
      /\ row \in [Pairs -> RowType \cup {NoRow}] /\ asked \in [Pairs -> SUBSET Users]
  BY FriendshipAssumption DEF PeopleInv, PeopleTyped
<1>6. created \in Nat /\ created' \in 0..MaxRows /\ created <= created'
  BY <1>4, <1>5
<1>7. row'[p] = r /\ asked'[p] = v /\ \A q \in Pairs \ {p} : row'[q] = row[q] /\ asked'[q] = asked[q]
  BY <1>3, <1>4, <1>5
<1>8. /\ r \in RowType \cup {NoRow} /\ SoundAt(r, p, created') /\ v \subseteq p
      /\ r # NoRow /\ r.status # "BLOCKED" => r.requestedBy \in v
      /\ r.status = "ACCEPTED" => v = p
      /\ r.status = "PENDING" => r.requestedBy = c.actor
      /\ \/ c.does.kind = "create" /\ r.id = created + 1 /\ r.status = c.does.to
         \/ /\ c.does.kind = "update" /\ r.id = row[p].id /\ row[p] # NoRow /\ row[p].status # "BLOCKED"
            /\ r.status = c.does.to /\ asked[p] \subseteq v
         \/ c.does.kind = "delete" /\ r = NoRow
  <2>1. CASE c.does.kind = "create"
    <3>1. /\ r \in RowType /\ SoundAt(r, p, created + 1) /\ r.id = created + 1 /\ v \subseteq p
          /\ r.status = c.does.to
          /\ r.status # "BLOCKED" => r.requestedBy \in v
          /\ r.status = "ACCEPTED" => v = p
          /\ r.status = "PENDING" => r.requestedBy = c.actor
      BY <1>1, <1>2, <1>4, <2>1, Created
    <3>2. created' = created + 1
      BY <1>4, <2>1
    <3> QED
      BY <2>1, <3>1, <3>2
  <2>2. CASE c.does.kind = "update"
    <3>1. /\ r \in RowType /\ SoundAt(r, p, created) /\ r.id = row[p].id /\ v \subseteq p
          /\ r.status = c.does.to
          /\ row[p].status # "BLOCKED" /\ row[p] # NoRow /\ asked[p] \subseteq v
          /\ r.status # "BLOCKED" => r.requestedBy \in v
          /\ r.status = "ACCEPTED" => v = p
          /\ r.status = "PENDING" => r.requestedBy = c.actor
      BY <1>1, <1>2, <2>2, Updated
    <3>2. created' = created
      BY <1>4, <2>2
    <3> QED
      BY <2>2, <3>1, <3>2
  <2>3. CASE c.does.kind = "delete"
    <3>1. r = NoRow /\ v = {}
      BY <1>1, <1>2, <1>3, <2>3, Deleted
    <3> QED
      BY <2>3, <3>1, NoRowFacts DEF SoundAt
  <2> QED
    BY <1>3, <2>1, <2>2, <2>3
<1>9. row' \in [Pairs -> RowType \cup {NoRow}] /\ asked' \in [Pairs -> SUBSET Users]
  BY <1>3, <1>4, <1>5, <1>8
<1> QED
  BY <1>3, <1>4, <1>6, <1>7, <1>8, <1>9

\* A write leaves every row sound and agreed to, and whoever waits for an answer told.
LEMMA WriteKeeps ==
  ASSUME PeopleInv, NEW k \in Calls, NEW c, c = call[k], c # Idle, c.does.kind # "again", ConditionHolds(c),
         Write(c)
  PROVE  AskedAreTold' /\ \A q \in Pairs : (Sound(row[q], q) /\ Willing(q))'
<1> DEFINE p == c.pair
<1>1. /\ p \in Pairs
      /\ \A q \in Pairs \ {p} : row'[q] = row[q] /\ asked'[q] = asked[q]
      /\ created \in Nat /\ created' \in 0..MaxRows /\ created <= created'
      /\ SoundAt(row'[p], p, created') /\ asked'[p] \subseteq p
      /\ row'[p] # NoRow /\ row'[p].status # "BLOCKED" => row'[p].requestedBy \in asked'[p]
      /\ row'[p].status = "ACCEPTED" => asked'[p] = p
      /\ row'[p].status = "PENDING" => row'[p].requestedBy = c.actor
      /\ told' = told \cup Notify(c, row'[p])
  BY Written
<1>2. \A q \in Pairs \ {p} : SoundAt(row'[q], q, created')
  <2>1. \A q \in Pairs : SoundAt(row[q], q, created) /\ row[q] \in RowType \cup {NoRow}
    BY DEF PeopleInv, PeopleTyped, Sound
  <2> QED
    BY <1>1, <2>1, SoundLater
<1>3. \A q \in Pairs : Sound(row[q], q)'
  BY <1>1, <1>2 DEF Sound
<1>4. \A q \in Pairs : Willing(q)'
  BY <1>1 DEF PeopleInv, Willing
<1>5. ASSUME NEW q \in Pairs
      PROVE  /\ row'[q].status = "PENDING" =>
                  [to |-> Other(q, row'[q].requestedBy), of |-> "PENDING", about |-> row'[q].id] \in told'
             /\ row'[q].status = "ACCEPTED" =>
                  \E u \in q : [to |-> u, of |-> "ACCEPTED", about |-> row'[q].id] \in told'
  <2>1. CASE q # p
    BY <1>1, <2>1 DEF PeopleInv, AskedAreTold
  <2>2. CASE q = p
    <3>1. c.actor \in p
      BY WriterFacts
    <3>2. Other(p, c.actor) \in p
      BY <1>1, <3>1, PairIs
    <3>3. row'[p].status \in {"PENDING", "ACCEPTED"} =>
            [to |-> Other(p, c.actor), of |-> row'[p].status, about |-> row'[p].id] \in told'
      BY <1>1 DEF Notify
    <3> QED
      BY <1>1, <2>2, <3>2, <3>3
  <2> QED
    BY <2>1, <2>2
<1>6. AskedAreTold'
  BY <1>5 DEF AskedAreTold
<1> QED
  BY <1>3, <1>4, <1>6

\* What the others have read stays as good as it was.
LEMMA WriteLeavesOthers ==
  ASSUME PeopleInv, NEW k \in Calls, NEW c, c = call[k], c # Idle, c.does.kind # "again", ConditionHolds(c),
         Write(c), NEW j \in Calls, NEW d, d = call[j], d # Idle
  PROVE  Knows(d)'
<1> DEFINE p == c.pair
<1>1. /\ p \in Pairs /\ row[p] \in RowType \cup {NoRow} /\ Willing(p)
      /\ \A q \in Pairs \ {p} : row'[q] = row[q] /\ asked'[q] = asked[q]
      /\ created \in Nat /\ created' \in 0..MaxRows /\ created <= created'
      /\ \/ row'[p].id = created + 1
         \/ /\ row'[p].id = row[p].id /\ row[p].status # "BLOCKED" /\ asked[p] \subseteq asked'[p]
         \/ row'[p] = NoRow
  BY Written
<1>2. Knows(d) /\ d.pair \in Pairs /\ d.seen \in RowType \cup {NoRow}
  BY TransactionFacts DEF PeopleInv, PeopleTyped
<1>3. SoundAt(d.seen, d.pair, created')
  <2>1. SoundAt(d.seen, d.pair, created)
    BY <1>2 DEF Knows, Sound
  <2> QED
    BY <1>1, <1>2, <2>1, SoundLater
<1>4. d.seen # NoRow => d.seen.id \in Nat /\ d.seen.id # 0 /\ d.seen.id <= created
  BY <1>2, NoRowFacts DEF Knows, Sound, SoundAt
<1>5. d.seen # NoRow /\ row'[d.pair].id = d.seen.id =>
        IF d.seen.status = "BLOCKED" THEN row'[d.pair] = d.seen ELSE d.seen.requestedBy \in asked'[d.pair]
  <2>1. CASE d.pair # p
    BY <1>1, <1>2, <2>1 DEF Knows
  <2>2. CASE d.pair = p
    BY <1>1, <1>2, <1>4, <2>2, NoRowFacts DEF Knows
  <2> QED
    BY <2>1, <2>2
<1> QED
  BY <1>2, <1>3, <1>5 DEF Knows, Sound

-----------------------------------------------------------------------------
(* The steps that write, and those of the invitations *)

\* A write whose transaction is over, whatever it does to the invitations.
LEMMA WriterIsDone ==
  ASSUME PeopleInv, NEW k \in Calls, NEW c, c = call[k], c # Idle, c.does.kind # "again", ConditionHolds(c),
         Write(c), call' = [call EXCEPT ![k] = Idle], UNCHANGED state,
         acceptances' \in [Invites -> SUBSET Users], \A i \in Invites : IsFiniteSet(acceptances'[i]),
         \A i \in Invites : Cardinality(acceptances'[i]) <= MaxUses[i],
         \A i \in Invites : i # c.inv => acceptances'[i] = acceptances[i],
         c.inv = NULL => acceptances' = acceptances
  PROVE  PeopleInv'
<1>1. AskedAreTold' /\ \A q \in Pairs : (Sound(row[q], q) /\ Willing(q))'
  BY WriteKeeps
<1>2. /\ row' \in [Pairs -> RowType \cup {NoRow}] /\ asked' \in [Pairs -> SUBSET Users]
      /\ created' \in 0..MaxRows
  BY Written
<1>3. PeopleTyped' /\ UsesAreBounded'
  <2>1. call' \in [Calls -> Transaction \cup {Idle}] /\ state' = state
    BY DEF PeopleInv, PeopleTyped
  <2> QED
    BY <1>2, <2>1 DEF PeopleTyped, UsesAreBounded, PeopleInv
<1>4. call'[k] = Idle /\ \A j \in Calls \ {k} : call'[j] = call[j]
  BY DEF PeopleInv, PeopleTyped
<1>5. ASSUME NEW j \in Calls, call'[j] # Idle
      PROVE  (Knows(call[j]) /\ Admits(call[j]))'
  <2>1. PICK d : d = call[j]
    OBVIOUS
  <2>2. j # k /\ call'[j] = d /\ d # Idle
    BY <1>4, <1>5, <2>1
  <2>3. Knows(d)'
    BY <2>1, <2>2, WriteLeavesOthers
  <2>4. Admits(d) /\ d \in Transaction /\ (d.inv # NULL => d.inv # c.inv)
    BY <2>1, <2>2 DEF PeopleInv, PeopleTyped
  <2>5. Admits(d)'
    BY <2>4, TransactionFacts DEF Admits
  <2> QED
    BY <2>2, <2>3, <2>5
<1>6. (\A i, j \in Calls : call[i] # Idle /\ call[j] # Idle /\ call[i].inv = call[j].inv /\ call[j].inv # NULL
                         => i = j)'
  BY <1>4 DEF PeopleInv
<1> QED
  BY <1>1, <1>3, <1>5, <1>6 DEF PeopleInv

LEMMA FinishKeeps ==
  ASSUME PeopleInv, NEW k \in Calls, Finish(k), UNCHANGED <<state, acceptances>>
  PROVE  PeopleInv'
<1>1. PICK c : c = call[k]
  OBVIOUS
<1>2. /\ c # Idle /\ c.inv = NULL /\ c.does.kind # "again" /\ ConditionHolds(c) /\ Write(c)
      /\ call' = [call EXCEPT ![k] = Idle]
  BY <1>1 DEF Finish
<1>3. /\ acceptances' \in [Invites -> SUBSET Users] /\ \A i \in Invites : IsFiniteSet(acceptances'[i])
      /\ \A i \in Invites : Cardinality(acceptances'[i]) <= MaxUses[i]
  BY DEF PeopleInv, PeopleTyped, UsesAreBounded
<1> QED
  BY <1>1, <1>2, <1>3, WriterIsDone

\* An acceptance uses up what was free under its lock.
LEMMA FinishAcceptKeeps ==
  ASSUME PeopleInv, NEW k \in Calls, FinishAccept(k)
  PROVE  PeopleInv'
<1>1. PICK c : c = call[k]
  OBVIOUS
<1>2. /\ c # Idle /\ c.inv # NULL /\ ConditionHolds(c) /\ Write(c) /\ UNCHANGED state
      /\ acceptances' = [acceptances EXCEPT ![c.inv] = acceptances[c.inv] \cup {c.actor}]
      /\ call' = [call EXCEPT ![k] = Idle]
  BY <1>1 DEF FinishAccept, RecordAcceptance
<1>3. c \in Transaction /\ Knows(c) /\ Admits(c)
  BY <1>1, <1>2 DEF PeopleInv, PeopleTyped
<1>4. c.does.kind # "again" /\ c.inv \in Invites /\ c.actor \in Users
  BY <1>2, <1>3, TransactionFacts DEF Knows
<1>5. /\ acceptances \in [Invites -> SUBSET Users] /\ \A i \in Invites : IsFiniteSet(acceptances[i])
      /\ \A i \in Invites : Cardinality(acceptances[i]) <= MaxUses[i]
  BY DEF PeopleInv, PeopleTyped, UsesAreBounded
<1>6. \A i \in Invites \ {c.inv} : acceptances'[i] = acceptances[i]
  BY <1>2, <1>4, <1>5
<1>7. acceptances'[c.inv] = acceptances[c.inv] \cup {c.actor} /\ acceptances' \in [Invites -> SUBSET Users]
  BY <1>2, <1>4, <1>5
<1>8. IsFiniteSet(acceptances'[c.inv]) /\ Cardinality(acceptances'[c.inv]) <= MaxUses[c.inv]
  <2>1. Cardinality(acceptances[c.inv]) \in Nat /\ MaxUses[c.inv] \in Nat
    BY <1>4, <1>5, FS_CardinalityType, InvitationAssumption
  <2>2. Cardinality(acceptances[c.inv]) < MaxUses[c.inv]
    BY <1>2, <1>3 DEF Admits
  <2>3. /\ IsFiniteSet(acceptances[c.inv] \cup {c.actor})
        /\ \/ Cardinality(acceptances[c.inv] \cup {c.actor}) = Cardinality(acceptances[c.inv])
           \/ Cardinality(acceptances[c.inv] \cup {c.actor}) = Cardinality(acceptances[c.inv]) + 1
    BY <1>4, <1>5, FS_AddElement
  <2> QED
    BY <1>7, <2>1, <2>2, <2>3
<1>9. /\ \A i \in Invites : IsFiniteSet(acceptances'[i])
      /\ \A i \in Invites : Cardinality(acceptances'[i]) <= MaxUses[i]
      /\ \A i \in Invites : i # c.inv => acceptances'[i] = acceptances[i]
  BY <1>5, <1>6, <1>8
<1> QED
  BY <1>1, <1>2, <1>4, <1>7, <1>9, WriterIsDone

LEMMA AbortAcceptKeeps ==
  ASSUME PeopleInv, NEW k \in Calls, AbortAccept(k)
  PROVE  PeopleInv'
BY IdleStep DEF AbortAccept

\* The state of an invitation changes, but none is revoked under its lock.
LEMMA InviteKeeps ==
  ASSUME PeopleInv, NEW i \in Invites, Create(i) \/ Revoke(i) \/ Expire(i)
  PROVE  PeopleInv'
<1>1. UNCHANGED <<row, call, created, told, asked, acceptances>>
  BY DEF Create, Revoke, Expire, fvars
<1>2. PICK s \in {"OPEN", "EXPIRED", "REVOKED"} :
        state' = [state EXCEPT ![i] = s] /\ (s = "REVOKED" => ~Locked(i))
  BY DEF Create, Revoke, Expire
<1>3. PeopleTyped' /\ AskedAreTold' /\ UsesAreBounded'
  BY <1>1, <1>2 DEF PeopleInv, PeopleTyped, AskedAreTold, UsesAreBounded
<1>4. \A p \in Pairs : (Sound(row[p], p) /\ Willing(p))'
  BY <1>1 DEF PeopleInv, Sound, SoundAt, Willing
<1>5. ASSUME NEW j \in Calls, call'[j] # Idle
      PROVE  (Knows(call[j]) /\ Admits(call[j]))'
  <2>1. PICK d : d = call[j]
    OBVIOUS
  <2>2. call'[j] = d /\ d # Idle /\ d \in Transaction /\ Knows(d) /\ Admits(d)
    BY <1>1, <1>5, <2>1 DEF PeopleInv, PeopleTyped
  <2>3. Knows(d)'
    BY <1>1, <2>2 DEF Knows, Sound, SoundAt
  <2>4. d.inv = i => s # "REVOKED"
    BY <1>2, <2>1, <2>2 DEF Locked
  <2>5. d.inv # NULL => d.inv \in Invites /\ state'[d.inv] # "REVOKED"
    BY <1>2, <2>2, <2>4, TransactionFacts DEF Admits, PeopleInv, PeopleTyped
  <2>6. Admits(d)'
    BY <1>1, <2>2, <2>5 DEF Admits
  <2> QED
    BY <2>2, <2>3, <2>6
<1>6. (\A j, k \in Calls : call[j] # Idle /\ call[k] # Idle /\ call[j].inv = call[k].inv /\ call[k].inv # NULL
                         => j = k)'
  BY <1>1 DEF PeopleInv
<1> QED
  BY <1>3, <1>4, <1>5, <1>6 DEF PeopleInv

LEMMA PeopleInit ==
  ASSUME IInit
  PROVE  PeopleInv
<1>1. /\ row = [p \in Pairs |-> NoRow] /\ call = [k \in Calls |-> Idle] /\ created = 0 /\ told = {}
      /\ asked = [p \in Pairs |-> {}] /\ state = [i \in Invites |-> "NONE"]
      /\ acceptances = [i \in Invites |-> {}]
  BY DEF IInit, FInit
<1>2. PeopleTyped
  <2>1. 0 \in 0..MaxRows
    BY FriendshipAssumption
  <2> QED
    BY <1>1, <2>1, FS_EmptySet DEF PeopleTyped
<1>3. AskedAreTold /\ \A p \in Pairs : Sound(row[p], p) /\ Willing(p)
  BY <1>1, NoRowFacts DEF AskedAreTold, Sound, SoundAt, Willing
<1>4. UsesAreBounded
  BY <1>1, FS_EmptySet, InvitationAssumption DEF UsesAreBounded
<1> QED
  BY <1>1, <1>2, <1>3, <1>4 DEF PeopleInv

LEMMA PeopleStep ==
  ASSUME PeopleInv, [INext]_ivars
  PROVE  PeopleInv'
<1>1. ASSUME FNext, UNCHANGED <<state, acceptances>>
      PROVE  PeopleInv'
  BY <1>1, BeginKeeps, FinishKeeps, ConflictKeeps, AgainKeeps DEF FNext
<1>2. CASE UNCHANGED ivars
  <2>1. UNCHANGED <<row, call, created, told, asked, state, acceptances>>
    BY <1>2 DEF ivars
  <2>2. PeopleTyped' /\ AskedAreTold' /\ UsesAreBounded'
    BY <2>1 DEF PeopleInv, PeopleTyped, AskedAreTold, UsesAreBounded
  <2> QED
    BY <2>1, <2>2 DEF PeopleInv, Sound, SoundAt, Willing, Knows, Admits
<1> QED
  BY <1>1, <1>2, InviteKeeps, BeginAcceptKeeps, FinishAcceptKeeps, AbortAcceptKeeps DEF INext

\* Who asked, who agreed and who was told stay recorded with the row of every pair; what a
\* transaction has read binds it as long as the row is the same one; and an acceptance keeps
\* its invitation from being revoked or used up.
THEOREM PeopleInvariance == ISpec => []PeopleInv
<1>1. IInit => PeopleInv
  BY PeopleInit
<1>2. PeopleInv /\ [INext]_ivars => PeopleInv'
  BY PeopleStep
<1> QED
  BY <1>1, <1>2, PTL DEF ISpec

-----------------------------------------------------------------------------
(* What friends can rely on *)

LEMMA AllInv ==
  ASSUME PeopleInv
  PROVE  FTypeOK /\ FriendsAgreed /\ AskedAreTold /\ UsesAreBounded
BY DEF PeopleInv, PeopleTyped, FTypeOK, FriendsAgreed, Sound, SoundAt, Willing

\* A row changes only by the write of a transaction that thereby ends.
LEMMA RowChanges ==
  ASSUME PeopleInv, INext, NEW p \in Pairs, row'[p] # row[p]
  PROVE  \E k \in Calls : /\ call[k] # Idle /\ call'[k] = Idle /\ call[k].pair = p
                          /\ call[k].does.kind # "again" /\ ConditionHolds(call[k]) /\ Write(call[k])
<1>1. PICK k \in Calls : Finish(k) \/ FinishAccept(k)
  <2>1. row' # row
    OBVIOUS
  <2> QED
    BY <2>1 DEF INext, FNext, Create, Revoke, Expire, BeginAccept, AbortAccept, Begin, Conflict, Again, fvars
<1>2. PICK c : c = call[k]
  OBVIOUS
<1>3. c # Idle /\ ConditionHolds(c) /\ Write(c) /\ call' = [call EXCEPT ![k] = Idle]
  BY <1>1, <1>2 DEF Finish, FinishAccept
<1>4. c.does.kind # "again"
  BY <1>1, <1>2, <1>3 DEF Finish, FinishAccept, PeopleInv, Knows
<1>5. c.pair = p
  BY <1>2, <1>3, <1>4, Written
<1>6. call'[k] = Idle
  BY <1>3 DEF PeopleInv, PeopleTyped
<1> QED
  BY <1>2, <1>3, <1>4, <1>5, <1>6

LEMMA BlockAction ==
  ASSUME PeopleInv, INext, NEW p \in Pairs, row[p].status = "BLOCKED", row'[p] # row[p]
  PROVE  \E k \in Calls : /\ call[k] # Idle /\ call'[k] = Idle
                          /\ call[k].pair = p /\ call[k].action = "remove"
                          /\ call[k].actor = row[p].blockedBy
<1>1. PICK k \in Calls : /\ call[k] # Idle /\ call'[k] = Idle /\ call[k].pair = p
                        /\ call[k].does.kind # "again" /\ ConditionHolds(call[k]) /\ Write(call[k])
  BY RowChanges
<1>2. PICK c : c = call[k]
  OBVIOUS
<1>3. /\ Knows(c) /\ c.does \in resolveTransition(c.seen, c.action, c.actor)
      /\ c.does.kind = "create" => row[p] = NoRow
      /\ c.does.kind # "create" => /\ c.seen \in RowType
                                   /\ row[p].id = c.seen.id /\ row[p].status = c.seen.status
  BY <1>1, <1>2, WriterFacts
<1>4. c.does.kind # "create" /\ c.seen.status = "BLOCKED"
  BY <1>3, NoRowFacts
<1>5. c.action = "remove" /\ actorRoleOf(c.seen, c.actor) = "BLOCKER"
  BY <1>3, <1>4, Applies
<1>6. c.seen.blockedBy = c.actor
  BY <1>3, <1>4, <1>5, RoleFacts
<1>7. row[p] = c.seen
  BY <1>1, <1>2, <1>3, <1>4, NoRowFacts DEF Knows
<1> QED
  BY <1>1, <1>2, <1>5, <1>6, <1>7

\* A transaction ends by its write, by a conflict, or by what its repetition finds.
LEMMA Ends ==
  ASSUME PeopleInv, INext, NEW k \in Calls, call[k] # Idle, call'[k] = Idle
  PROVE  Finish(k) \/ Conflict(k) \/ Again(k) \/ FinishAccept(k) \/ AbortAccept(k)
<1>1. call \in [Calls -> Transaction \cup {Idle}] /\ call' # call
  BY DEF PeopleInv, PeopleTyped
<1>2. ASSUME NEW j \in Calls, NEW d, call' = [call EXCEPT ![j] = d]
      PROVE  j = k
  BY <1>1, <1>2
<1>3. ~ \E i \in Invites : Create(i) \/ Revoke(i) \/ Expire(i)
  BY <1>1 DEF Create, Revoke, Expire, fvars
<1>4. ASSUME NEW j \in Calls, NEW p \in Pairs, NEW u \in Users, NEW a \in Actions, Begin(j, u, p, a)
      PROVE  FALSE
  <2>1. call[j] = Idle /\ \E d : call' = [call EXCEPT ![j] = d]
    BY <1>4 DEF Begin
  <2> QED
    BY <1>2, <2>1
<1>5. ASSUME NEW j \in Calls, NEW u \in Users, NEW i \in Invites, BeginAccept(j, u, i)
      PROVE  FALSE
  <2>1. call[j] = Idle /\ \E d : call' = [call EXCEPT ![j] = d]
    BY <1>5 DEF BeginAccept
  <2> QED
    BY <1>2, <2>1
<1>6. ASSUME NEW j \in Calls, Finish(j) \/ Conflict(j) \/ Again(j) \/ FinishAccept(j) \/ AbortAccept(j)
      PROVE  j = k
  <2>1. \E d : call' = [call EXCEPT ![j] = d]
    BY <1>6 DEF Finish, Conflict, Again, FinishAccept, AbortAccept
  <2> QED
    BY <1>2, <2>1
<1> QED
  BY <1>3, <1>4, <1>5, <1>6 DEF INext, FNext

LEMMA MutualAction ==
  ASSUME PeopleInv, INext, NEW k \in Calls, NEW c, c = call[k], c # Idle, call'[k] = Idle,
         c.action = "request", c.does.kind = "again" \/ (c.seen = NoRow /\ ~c.retried)
  PROVE  ~ (row'[c.pair].status = "PENDING" /\ row'[c.pair].requestedBy # c.actor)
<1>1. c \in Transaction /\ Knows(c) /\ c.inv = NULL /\ c.pair \in Pairs /\ c.actor \in Users
  <2>1. c \in Transaction /\ Knows(c)
    BY DEF PeopleInv, PeopleTyped
  <2> QED
    BY <2>1, TransactionFacts DEF Knows
<1>2. Finish(k) \/ Conflict(k) \/ Again(k)
  BY <1>1, Ends DEF FinishAccept, AbortAccept
<1>3. call \in [Calls -> Transaction \cup {Idle}] /\ c.actor # NULL /\ Idle = [actor |-> NULL]
  BY <1>1, FriendshipAssumption DEF PeopleInv, PeopleTyped, Idle
<1>4. CASE Finish(k)
  <2>1. c.does.kind # "again" /\ ConditionHolds(c) /\ Write(c)
    BY <1>4 DEF Finish
  <2> QED
    BY <2>1, Written
<1>5. CASE Conflict(k)
  <2>1. c.does.kind # "again" /\ call' = [call EXCEPT ![k] = AfterConflict(c)]
    BY <1>5 DEF Conflict
  <2>2. c.does \in resolveTransition(NoRow, "request", c.actor) /\ ~c.retried
    BY <1>1, <2>1 DEF Knows
  <2>3. c.does.kind = "create"
    BY <2>2, Applies, NoRowFacts
  <2>4. call'[k] = [c EXCEPT !.does.kind = "again", !.retried = TRUE]
    BY <1>3, <2>1, <2>2, <2>3 DEF AfterConflict
  <2>5. call'[k].actor = c.actor
    BY <1>1, <2>4 DEF Transaction
  <2> QED
    BY <1>3, <2>5
<1>6. CASE Again(k)
  <2>1. row' = row
    BY <1>6 DEF Again
  <2>2. resolveTransition(row[c.pair], "request", c.actor) = {}
    <3>1. ASSUME NEW t, call' = [call EXCEPT ![k] = Read(c.actor, c.pair, c.action, t, NULL, TRUE)]
          PROVE  FALSE
      <4>1. call'[k] = Read(c.actor, c.pair, c.action, t, NULL, TRUE)
        BY <1>3, <3>1
      <4>2. call'[k].actor = c.actor
        BY <4>1 DEF Read
      <4> QED
        BY <1>3, <4>2
    <3> QED
      BY <1>6, <3>1 DEF Again
  <2>3. row[c.pair] \in RowType \cup {NoRow}
    BY <1>1 DEF PeopleInv, PeopleTyped
  <2> QED
    BY <2>1, <2>2, <2>3, RecipientMayRequest, NoRowFacts
<1> QED
  BY <1>2, <1>4, <1>5, <1>6

\* friends.service.ts and friendship.transitions.ts: nobody is a friend without having asked
\* or agreed, nor has a request waiting without having been told; a block falls to nobody but
\* whoever set it, however early the others read; and two who ask each other at the same
\* moment become friends.
THEOREM FriendsAgreeHolds == ISpec => FriendsAgree
<1>1. PeopleInv => FTypeOK /\ FriendsAgreed /\ AskedAreTold
  BY AllInv
<1>2. PeopleInv /\ [INext]_ivars =>
        [\A p \in Pairs : row[p].status = "BLOCKED" /\ row'[p] # row[p] =>
           \E k \in Calls : /\ call[k] # Idle /\ call'[k] = Idle
                            /\ call[k].pair = p /\ call[k].action = "remove"
                            /\ call[k].actor = row[p].blockedBy]_fvars
  BY BlockAction DEF ivars, fvars
<1>3. PeopleInv /\ [INext]_ivars =>
        [\A k \in Calls :
           LET c == call[k] IN
           /\ c # Idle /\ call'[k] = Idle /\ c.action = "request"
           /\ c.does.kind = "again" \/ (c.seen = NoRow /\ ~c.retried)
           => ~ (row'[c.pair].status = "PENDING" /\ row'[c.pair].requestedBy # c.actor)]_fvars
  <2> SUFFICES ASSUME PeopleInv, INext, NEW k \in Calls, NEW c, c = call[k], c # Idle, call'[k] = Idle,
                      c.action = "request", c.does.kind = "again" \/ (c.seen = NoRow /\ ~c.retried)
               PROVE  ~ (row'[c.pair].status = "PENDING" /\ row'[c.pair].requestedBy # c.actor)
    BY DEF ivars, fvars
  <2> QED
    BY MutualAction
<1> QED
  BY <1>1, <1>2, <1>3, PeopleInvariance, PTL DEF ISpec, FriendsAgree, BlockStands, MutualRequestsMeet

-----------------------------------------------------------------------------
(* What invitations are good for *)

LEMMA Accepts ==
  ASSUME PeopleInv, INext, NEW i \in Invites, acceptances'[i] # acceptances[i]
  PROVE  /\ state[i] # "REVOKED"
         /\ \A u \in acceptances'[i] \ acceptances[i] :
               LET p == {u, InviterOf[i]} IN
               row[p].status # "ACCEPTED" /\ row'[p].status = "ACCEPTED"
<1>1. PICK k \in Calls : FinishAccept(k)
  <2>1. acceptances' # acceptances
    OBVIOUS
  <2> QED
    BY <2>1 DEF INext, Create, Revoke, Expire, BeginAccept, AbortAccept
<1>2. PICK c : c = call[k]
  OBVIOUS
<1>3. /\ c # Idle /\ c.inv # NULL /\ ConditionHolds(c) /\ Write(c)
      /\ acceptances' = [acceptances EXCEPT ![c.inv] = acceptances[c.inv] \cup {c.actor}]
  BY <1>1, <1>2 DEF FinishAccept, RecordAcceptance
<1>4. Knows(c) /\ Admits(c) /\ acceptances \in [Invites -> SUBSET Users]
  BY <1>2, <1>3 DEF PeopleInv, PeopleTyped
<1>5. c.inv = i /\ acceptances'[i] = acceptances[i] \cup {c.actor}
  BY <1>3, <1>4
<1>6. c.does.kind # "again" /\ c.action = "invite" /\ c.pair = {c.actor, InviterOf[i]} /\ state[i] # "REVOKED"
  BY <1>3, <1>4, <1>5 DEF Knows, Admits
<1>7. /\ c.does \in resolveTransition(c.seen, c.action, c.actor)
      /\ c.does.kind \in {"create", "update", "delete"}
      /\ c.does.kind = "create" => row[c.pair] = NoRow
      /\ c.does.kind # "create" => row[c.pair].status = c.seen.status
  BY <1>2, <1>3, <1>6, WriterFacts
<1>8. row[c.pair].status # "ACCEPTED" /\ c.does.to = "ACCEPTED" /\ c.does.kind # "delete"
  BY <1>6, <1>7, Applies, NoRowFacts
<1>9. row'[c.pair].status = "ACCEPTED"
  BY <1>2, <1>3, <1>6, <1>8, Written
<1> QED
  BY <1>5, <1>6, <1>8, <1>9

\* invitations.service.ts: an invitation makes no more friends than it has uses, none after
\* its revocation was answered, and spends no use without making a friend.
THEOREM InvitationsAreSpentHolds == ISpec => InvitationsAreSpent
<1>1. PeopleInv => UsesAreBounded
  BY AllInv
<1>2. PeopleInv /\ [INext]_ivars =>
        [\A i \in Invites : state[i] = "REVOKED" => acceptances'[i] = acceptances[i]]_ivars
  BY Accepts
<1>3. PeopleInv /\ [INext]_ivars =>
        [\A i \in Invites : \A u \in acceptances'[i] \ acceptances[i] :
           LET p == {u, InviterOf[i]} IN
           row[p].status # "ACCEPTED" /\ row'[p].status = "ACCEPTED"]_ivars
  BY Accepts
<1> QED
  BY <1>1, <1>2, <1>3, PeopleInvariance, PTL DEF ISpec, InvitationsAreSpent, RevocationIsFinal, UsesMakeFriends

-----------------------------------------------------------------------------
(* Invitations by mail *)

(* The instances bring the operators of FiniteSets with them, under names of their own. *)
LEMMA SameSize ==
  \A S : Mails!Cardinality(S) = Cardinality(S) /\ Telegram!Cardinality(S) = Cardinality(S)
BY DEF Mails!Cardinality, Mails!IsFiniteSet, Telegram!Cardinality, Telegram!IsFiniteSet,
       Cardinality, IsFiniteSet

Mail == [id : Nat, user : Users, to : Recipients, at : Nat, hash : BOOLEAN]
Sending == [step : {"STARTED", "USER", "BOTH", "COUNTED"}, user : Users, to : Recipients, now : Nat]

MailsTyped ==
  /\ clock \in Nat
  /\ mails \subseteq Mail /\ IsFiniteSet(mails)
  /\ request \in [Calls -> Sending \cup {Mails!Idle}]

\* Nothing is from the future, and no hash that still counts has been erased.
MailsDated ==
  /\ \A m \in mails : m.at <= clock /\ (m.hash \/ Mails!Outdated(m))
  /\ \A k \in Calls : request[k].now <= clock

HoldsUser(c) == c.step \in {"USER", "BOTH", "COUNTED"}
HoldsRecipient(c) == c.step \in {"BOTH", "COUNTED"}

\* Each advisory lock has one holder.
LocksHeld ==
  \A j, k \in Calls : j # k =>
     /\ HoldsUser(request[j]) /\ HoldsUser(request[k]) => request[j].user # request[k].user
     /\ HoldsRecipient(request[j]) /\ HoldsRecipient(request[k]) => request[j].to # request[k].to

\* Under the locks, what was counted is so until the insert.
Counted == \A k \in Calls : request[k].step = "COUNTED" => Mails!WithinLimits(request[k])

MailsInv == MailsTyped /\ MailsDated /\ LocksHeld /\ Counted /\ Mails!LimitsHold

-----------------------------------------------------------------------------
(* Sizes *)

LEMMA Fewer ==
  ASSUME NEW S, IsFiniteSet(S), NEW R \in SUBSET S
  PROVE  /\ IsFiniteSet(R) /\ Cardinality(R) \in Nat /\ Cardinality(S) \in Nat
         /\ Cardinality(R) <= Cardinality(S)
BY FS_Subset, FS_CardinalityType

LEMMA OneMore ==
  ASSUME NEW S, IsFiniteSet(S), NEW x, NEW R \in SUBSET (S \cup {x}), NEW n \in Nat, Cardinality(S) < n
  PROVE  Cardinality(R) <= n
<1>1. Cardinality(S) \in Nat
  BY FS_CardinalityType
<1>2. IsFiniteSet(S \cup {x}) /\ (Cardinality(S \cup {x}) = Cardinality(S) \/ Cardinality(S \cup {x}) = Cardinality(S) + 1)
  BY FS_AddElement
<1>3. Cardinality(R) \in Nat /\ Cardinality(R) <= Cardinality(S \cup {x}) /\ Cardinality(S \cup {x}) \in Nat
  BY <1>2, Fewer
<1> QED
  BY <1>1, <1>2, <1>3

LEMMA ErasedFacts ==
  ASSUME Mails!MailAssumption, clock \in Nat, NEW m \in Mail
  PROVE  /\ Mails!Erased(m) \in Mail /\ Mails!Erased(m).at = m.at /\ Mails!Erased(m).user = m.user /\ Mails!Erased(m).to = m.to
         /\ Mails!Erased(m).hash => m.hash
         /\ m.hash => Mails!Erased(m).hash \/ Mails!Outdated(m)
BY DEF Mails!Erased, Mail, Mails!Outdated, Mails!MailAssumption

\* Erasing hashes makes no set of mails larger.
LEMMA ErasedAreFewer ==
  ASSUME NEW S, IsFiniteSet(S)
  PROVE  IsFiniteSet({Mails!Erased(m) : m \in S}) /\ Cardinality({Mails!Erased(m) : m \in S}) <= Cardinality(S)
<1> DEFINE R == {Mails!Erased(m) : m \in S}
           f == [m \in S |-> Mails!Erased(m)]
<1>1. f \in Surjection(S, R)
  <2>1. f \in [S -> R] /\ \A r \in R : \E m \in S : f[m] = r
    OBVIOUS
  <2> QED
    BY <2>1 DEF Surjection
<1> HIDE DEF f
<1> QED
  BY <1>1, FS_Surjection

-----------------------------------------------------------------------------
(* Steps *)

LEMMA Limits ==
  ASSUME Mails!MailAssumption
  PROVE  /\ PerUser \in Nat /\ PerRecipient \in Nat /\ Day \in Nat /\ Week \in Nat
         /\ NULL \notin Users /\ NULL \notin Recipients
BY DEF Mails!MailAssumption

LEMMA SendingFacts ==
  ASSUME Mails!MailAssumption, MailsInv, NEW k \in Calls
  PROVE  /\ request[k] \in Sending \cup {Mails!Idle}
         /\ request[k].step = "IDLE" <=> request[k] = Mails!Idle
         /\ request[k].step # "IDLE" => request[k] \in Sending
         /\ request[k].now \in Nat /\ request[k].now <= clock
BY DEF MailsInv, MailsTyped, MailsDated, Sending, Mails!Idle

LEMMA WithinKept ==
  ASSUME UNCHANGED mails, NEW d, Mails!WithinLimits(d)
  PROVE  Mails!WithinLimits(d)'
BY DEF Mails!WithinLimits, Mails!Since

\* A step of one request that sends nothing.
LEMMA RequestStep ==
  ASSUME Mails!MailAssumption, MailsInv, NEW k \in Calls, NEW c \in Sending \cup {Mails!Idle}, c.now <= clock,
         request' = [request EXCEPT ![k] = c], UNCHANGED <<clock, mails>>,
         HoldsUser(c) => \A j \in Calls \ {k} : HoldsUser(request[j]) => request[j].user # c.user,
         HoldsRecipient(c) => \A j \in Calls \ {k} : HoldsRecipient(request[j]) => request[j].to # c.to,
         c.step = "COUNTED" => Mails!WithinLimits(c)
  PROVE  MailsInv'
<1>1. request'[k] = c /\ \A j \in Calls \ {k} : request'[j] = request[j]
  BY DEF MailsInv, MailsTyped
<1>2. MailsTyped' /\ Mails!LimitsHold'
  BY DEF MailsInv, MailsTyped, Mails!LimitsHold, Mails!Since
<1>3. MailsDated'
  BY <1>1 DEF MailsInv, MailsDated, Mails!Outdated
<1>4. LocksHeld'
  <2>1. \A i, j \in Calls : i # j =>
          /\ HoldsUser(request'[i]) /\ HoldsUser(request'[j]) => request'[i].user # request'[j].user
          /\ HoldsRecipient(request'[i]) /\ HoldsRecipient(request'[j]) => request'[i].to # request'[j].to
    BY <1>1 DEF MailsInv, LocksHeld
  <2> QED
    BY <2>1 DEF LocksHeld, HoldsUser, HoldsRecipient
<1>5. Counted'
  <2>1. ASSUME NEW j \in Calls, request'[j].step = "COUNTED"
        PROVE  Mails!WithinLimits(request[j])'
    <3>1. PICK d : d = request'[j]
      OBVIOUS
    <3>2. Mails!WithinLimits(d)
      BY <1>1, <2>1, <3>1 DEF MailsInv, Counted
    <3>3. Mails!WithinLimits(d)'
      BY <3>2, WithinKept
    <3> QED
      BY <3>1, <3>3
  <2> QED
    BY <2>1 DEF Counted
<1> QED
  BY <1>2, <1>3, <1>4, <1>5 DEF MailsInv

LEMMA TickKeeps ==
  ASSUME Mails!MailAssumption, MailsInv, Mails!Tick
  PROVE  MailsInv'
<1>1. clock' = clock + 1 /\ UNCHANGED <<mails, request>> /\ clock \in Nat /\ mails \subseteq Mail
  BY DEF Mails!Tick, MailsInv, MailsTyped
<1>2. MailsTyped' /\ LocksHeld'
  BY <1>1 DEF MailsInv, MailsTyped, LocksHeld, HoldsUser, HoldsRecipient
<1>3. Mails!LimitsHold'
  BY <1>1 DEF MailsInv, Mails!LimitsHold, Mails!Since
<1>4. Counted'
  BY <1>1 DEF MailsInv, Counted, Mails!WithinLimits, Mails!Since
<1>5. MailsDated'
  BY <1>1, Limits, SendingFacts DEF MailsInv, MailsDated, Mails!Outdated, Mail
<1> QED
  BY <1>2, <1>3, <1>4, <1>5 DEF MailsInv

LEMMA StartKeeps ==
  ASSUME Mails!MailAssumption, MailsInv, NEW k \in Calls, NEW u \in Users, NEW r \in Recipients, Mails!Start(k, u, r)
  PROVE  MailsInv'
<1> DEFINE c == [step |-> "STARTED", user |-> u, to |-> r, now |-> clock]
<1>1. clock \in Nat /\ request' = [request EXCEPT ![k] = c] /\ UNCHANGED <<clock, mails>>
  BY DEF Mails!Start, MailsInv, MailsTyped
<1>2. c \in Sending /\ c.now <= clock /\ ~HoldsUser(c) /\ ~HoldsRecipient(c) /\ c.step # "COUNTED"
  BY <1>1 DEF Sending, HoldsUser, HoldsRecipient
<1> HIDE DEF c
<1> QED
  BY <1>1, <1>2, RequestStep

\* A request goes on to its next statement.
LEMMA Goes ==
  ASSUME Mails!MailAssumption, MailsInv, NEW k \in Calls, request[k].step # "IDLE",
         NEW s \in {"USER", "BOTH", "COUNTED"}, Mails!Go(k, s)
  PROVE  \E c \in Sending : /\ request' = [request EXCEPT ![k] = c] /\ UNCHANGED <<clock, mails>>
                            /\ c.step = s /\ c.user = request[k].user /\ c.to = request[k].to
                            /\ c.now = request[k].now /\ c.now <= clock
<1>1. PICK c : c = [request[k] EXCEPT !.step = s]
  OBVIOUS
<1>2. request[k] \in Sending /\ request[k].now <= clock /\ request \in [Calls -> Sending \cup {Mails!Idle}]
  BY SendingFacts DEF MailsInv, MailsTyped
<1>3. c \in Sending /\ c.step = s /\ c.user = request[k].user /\ c.to = request[k].to /\ c.now = request[k].now
  BY <1>1, <1>2 DEF Sending
<1>4. request' = [request EXCEPT ![k] = c] /\ UNCHANGED <<clock, mails>>
  BY <1>1, <1>2 DEF Mails!Go
<1> QED
  BY <1>2, <1>3, <1>4

LEMMA LockUserKeeps ==
  ASSUME Mails!MailAssumption, MailsInv, NEW k \in Calls, Mails!LockUser(k)
  PROVE  MailsInv'
<1>1. request[k].step = "STARTED" /\ ~Mails!UserLocked(request[k].user) /\ Mails!Go(k, "USER")
  BY DEF Mails!LockUser
<1>2. PICK c \in Sending : /\ request' = [request EXCEPT ![k] = c] /\ UNCHANGED <<clock, mails>>
                           /\ c.step = "USER" /\ c.user = request[k].user /\ c.now <= clock
  BY <1>1, Goes
<1>3. \A j \in Calls \ {k} : HoldsUser(request[j]) => request[j].user # c.user
  BY <1>1, <1>2 DEF Mails!UserLocked, HoldsUser
<1>4. ~HoldsRecipient(c) /\ c.step # "COUNTED"
  BY <1>2 DEF HoldsRecipient
<1> QED
  BY <1>2, <1>3, <1>4, RequestStep

LEMMA LockRecipientKeeps ==
  ASSUME Mails!MailAssumption, MailsInv, NEW k \in Calls, Mails!LockRecipient(k)
  PROVE  MailsInv'
<1>1. request[k].step = "USER" /\ ~Mails!RecipientLocked(request[k].to) /\ Mails!Go(k, "BOTH")
  BY DEF Mails!LockRecipient
<1>2. PICK c \in Sending : /\ request' = [request EXCEPT ![k] = c] /\ UNCHANGED <<clock, mails>>
                           /\ c.step = "BOTH" /\ c.user = request[k].user /\ c.to = request[k].to
                           /\ c.now <= clock
  BY <1>1, Goes
<1>3. \A j \in Calls \ {k} : HoldsUser(request[j]) => request[j].user # c.user
  BY <1>1, <1>2 DEF MailsInv, LocksHeld, HoldsUser
<1>4. \A j \in Calls \ {k} : HoldsRecipient(request[j]) => request[j].to # c.to
  BY <1>1, <1>2 DEF Mails!RecipientLocked, HoldsRecipient
<1> QED
  BY <1>2, <1>3, <1>4, RequestStep

LEMMA CountKeeps ==
  ASSUME Mails!MailAssumption, MailsInv, NEW k \in Calls, Mails!Count(k)
  PROVE  MailsInv'
<1>1. request[k].step = "BOTH" /\ Mails!WithinLimits(request[k]) /\ Mails!Go(k, "COUNTED")
  BY DEF Mails!Count
<1>2. PICK c \in Sending : /\ request' = [request EXCEPT ![k] = c] /\ UNCHANGED <<clock, mails>>
                           /\ c.step = "COUNTED" /\ c.user = request[k].user /\ c.to = request[k].to
                           /\ c.now = request[k].now /\ c.now <= clock
  BY <1>1, Goes
<1>3. \A j \in Calls \ {k} : HoldsUser(request[j]) => request[j].user # c.user
  BY <1>1, <1>2 DEF MailsInv, LocksHeld, HoldsUser
<1>4. \A j \in Calls \ {k} : HoldsRecipient(request[j]) => request[j].to # c.to
  BY <1>1, <1>2 DEF MailsInv, LocksHeld, HoldsRecipient
<1>5. Mails!WithinLimits(c)
  BY <1>1, <1>2 DEF Mails!WithinLimits
<1> QED
  BY <1>2, <1>3, <1>4, <1>5, RequestStep

LEMMA RefuseKeeps ==
  ASSUME Mails!MailAssumption, MailsInv, NEW k \in Calls, Mails!Refuse(k)
  PROVE  MailsInv'
<1>1. Mails!Idle.now <= clock /\ ~HoldsUser(Mails!Idle) /\ ~HoldsRecipient(Mails!Idle) /\ Mails!Idle.step # "COUNTED"
  BY DEF Mails!Idle, HoldsUser, HoldsRecipient, MailsInv, MailsTyped
<1> QED
  BY <1>1, RequestStep DEF Mails!Refuse

\* The new mail was counted as free under both locks, which keep everybody else away.
LEMMA InsertKeeps ==
  ASSUME Mails!MailAssumption, MailsInv, NEW k \in Calls, Mails!Insert(k)
  PROVE  MailsInv'
<1>1. PICK c : c = request[k]
  OBVIOUS
<1>2. PICK x : x = [id |-> Cardinality(mails) + 1, user |-> c.user, to |-> c.to, at |-> clock, hash |-> TRUE]
  OBVIOUS
<1>3. /\ c.step = "COUNTED" /\ mails' = mails \cup {x} /\ request' = [request EXCEPT ![k] = Mails!Idle]
      /\ UNCHANGED clock
  BY <1>1, <1>2, SameSize DEF Mails!Insert
<1>4. /\ clock \in Nat /\ mails \subseteq Mail /\ IsFiniteSet(mails) /\ Cardinality(mails) \in Nat
      /\ request \in [Calls -> Sending \cup {Mails!Idle}]
  BY FS_CardinalityType DEF MailsInv, MailsTyped
<1>5. c \in Sending /\ c.now \in Nat /\ c.now <= clock /\ Mails!WithinLimits(c)
  BY <1>1, <1>3, SendingFacts DEF MailsInv, Counted
<1>6. x \in Mail /\ x.user = c.user /\ x.to = c.to /\ x.at = clock /\ x.hash
  BY <1>2, <1>4, <1>5 DEF Mail, Sending
<1>7. request'[k] = Mails!Idle /\ \A j \in Calls \ {k} : request'[j] = request[j]
  BY <1>3, <1>4
<1>8. MailsTyped'
  BY <1>3, <1>4, <1>6, FS_AddElement DEF MailsTyped
<1>9. MailsDated'
  BY <1>3, <1>4, <1>6, <1>7 DEF MailsInv, MailsDated, Mails!Outdated, Mails!Idle
<1>10. ~HoldsUser(Mails!Idle) /\ ~HoldsRecipient(Mails!Idle) /\ Mails!Idle.step # "COUNTED"
  BY DEF Mails!Idle, HoldsUser, HoldsRecipient
<1>11. LocksHeld'
  <2>1. \A i, j \in Calls : i # j =>
          /\ HoldsUser(request'[i]) /\ HoldsUser(request'[j]) => request'[i].user # request'[j].user
          /\ HoldsRecipient(request'[i]) /\ HoldsRecipient(request'[j]) => request'[i].to # request'[j].to
    BY <1>7, <1>10 DEF MailsInv, LocksHeld
  <2> QED
    BY <2>1 DEF LocksHeld, HoldsUser, HoldsRecipient
<1>12. Counted'
  <2>1. ASSUME NEW j \in Calls, request'[j].step = "COUNTED"
        PROVE  Mails!WithinLimits(request[j])'
    <3>1. PICK d : d = request[j]
      OBVIOUS
    <3>2. j # k /\ request'[j] = d /\ d.step = "COUNTED" /\ Mails!WithinLimits(d)
      BY <1>7, <1>10, <2>1, <3>1 DEF MailsInv, Counted
    <3>3. d.user # c.user /\ d.to # c.to
      BY <1>1, <1>3, <3>1, <3>2 DEF MailsInv, LocksHeld, HoldsUser, HoldsRecipient
    <3>4. {m \in mails' : m.at + Day > d.now /\ m.user = d.user} = {m \in mails : m.at + Day > d.now /\ m.user = d.user}
      BY <1>3, <1>6, <3>3
    <3>5. {m \in mails' : m.at + Week > d.now /\ m.hash /\ m.to = d.to} = {m \in mails : m.at + Week > d.now /\ m.hash /\ m.to = d.to}
      BY <1>3, <1>6, <3>3
    <3>6. \A M : /\ {m \in {n \in M : n.at + Day > d.now} : m.user = d.user} = {m \in M : m.at + Day > d.now /\ m.user = d.user}
                 /\ {m \in {n \in M : n.at + Week > d.now} : m.hash /\ m.to = d.to}
                      = {m \in M : m.at + Week > d.now /\ m.hash /\ m.to = d.to}
      OBVIOUS
    <3>7. Mails!WithinLimits(d)'
      BY <3>2, <3>4, <3>5, <3>6 DEF Mails!WithinLimits, Mails!Since
    <3> QED
      BY <3>2, <3>7
  <2> QED
    BY <2>1 DEF Counted
<1>13. ASSUME NEW m \in mails'
       PROVE  /\ Cardinality({n \in {o \in mails' : o.at + Day > m.at} : n.user = m.user /\ n.at <= m.at}) <= PerUser
              /\ Cardinality({n \in {o \in mails' : o.at + Week > m.at} : n.to = m.to /\ n.at <= m.at}) <= PerRecipient
  <2>1. m \in Mail /\ m.at \in Nat /\ m.at <= clock /\ (m \in mails \/ m = x)
    BY <1>3, <1>4, <1>6 DEF Mail, MailsInv, MailsDated
  <2>2. \A n \in mails : n.at \in Nat /\ n.at <= clock /\ (n.hash \/ Mails!Outdated(n))
    BY <1>4 DEF Mail, MailsInv, MailsDated
  <2>3. Cardinality({n \in {o \in mails' : o.at + Day > m.at} : n.user = m.user /\ n.at <= m.at}) <= PerUser
    <3> DEFINE R == {n \in {o \in mails' : o.at + Day > m.at} : n.user = m.user /\ n.at <= m.at}
               S == {n \in Mails!Since(c.now, Day) : n.user = c.user}
               O == {n \in Mails!Since(m.at, Day) : n.user = m.user /\ n.at <= m.at}
    <3>1. CASE m.at = clock /\ m.user = c.user
      <4>1. R \subseteq S \cup {x}
        BY <1>3, <1>4, <1>5, <2>2, <3>1, Limits DEF Mails!Since
      <4>2. S \subseteq mails
        BY DEF Mails!Since
      <4>3. IsFiniteSet(S) /\ Cardinality(S) < PerUser
        BY <1>4, <1>5, <4>2, Fewer, SameSize DEF Mails!WithinLimits
      <4> HIDE DEF S, R
      <4>4. Cardinality(R) <= PerUser
        BY <4>1, <4>3, OneMore, Limits
      <4> QED
        BY <4>4 DEF R
    <3>2. CASE ~(m.at = clock /\ m.user = c.user)
      <4>1. m \in mails
        BY <1>6, <2>1, <3>2
      <4>2. R \subseteq O /\ O \subseteq mails
        BY <1>3, <1>4, <1>6, <2>1, <3>2 DEF Mails!Since
      <4>3. Cardinality(O) <= PerUser
        BY <4>1, SameSize DEF MailsInv, Mails!LimitsHold
      <4> HIDE DEF O, R
      <4>4. IsFiniteSet(O)
        BY <1>4, <4>2, Fewer
      <4>5. Cardinality(R) \in Nat /\ Cardinality(O) \in Nat /\ Cardinality(R) <= Cardinality(O)
        BY <4>2, <4>4, Fewer
      <4>6. Cardinality(R) <= PerUser
        BY <4>3, <4>5, Limits
      <4> QED
        BY <4>6 DEF R
    <3> QED
      BY <3>1, <3>2
  <2>4. Cardinality({n \in {o \in mails' : o.at + Week > m.at} : n.to = m.to /\ n.at <= m.at}) <= PerRecipient
    <3> DEFINE R == {n \in {o \in mails' : o.at + Week > m.at} : n.to = m.to /\ n.at <= m.at}
               S == {n \in Mails!Since(c.now, Week) : n.hash /\ n.to = c.to}
               O == {n \in Mails!Since(m.at, Week) : n.to = m.to /\ n.at <= m.at}
    <3>1. CASE m.at = clock /\ m.to = c.to
      <4>1. R \subseteq S \cup {x}
        BY <1>3, <1>4, <1>5, <2>2, <3>1, Limits DEF Mails!Since, Mails!Outdated
      <4>2. S \subseteq mails
        BY DEF Mails!Since
      <4>3. IsFiniteSet(S) /\ Cardinality(S) < PerRecipient
        BY <1>4, <1>5, <4>2, Fewer, SameSize DEF Mails!WithinLimits
      <4> HIDE DEF S, R
      <4>4. Cardinality(R) <= PerRecipient
        BY <4>1, <4>3, OneMore, Limits
      <4> QED
        BY <4>4 DEF R
    <3>2. CASE ~(m.at = clock /\ m.to = c.to)
      <4>1. m \in mails
        BY <1>6, <2>1, <3>2
      <4>2. R \subseteq O /\ O \subseteq mails
        BY <1>3, <1>4, <1>6, <2>1, <3>2 DEF Mails!Since
      <4>3. Cardinality(O) <= PerRecipient
        BY <4>1, SameSize DEF MailsInv, Mails!LimitsHold
      <4> HIDE DEF O, R
      <4>4. IsFiniteSet(O)
        BY <1>4, <4>2, Fewer
      <4>5. Cardinality(R) \in Nat /\ Cardinality(O) \in Nat /\ Cardinality(R) <= Cardinality(O)
        BY <4>2, <4>4, Fewer
      <4>6. Cardinality(R) <= PerRecipient
        BY <4>3, <4>5, Limits
      <4> QED
        BY <4>6 DEF R
    <3> QED
      BY <3>1, <3>2
  <2> QED
    BY <2>3, <2>4
<1>14. Mails!LimitsHold'
  BY <1>13, SameSize DEF Mails!LimitsHold, Mails!Since
<1> QED
  BY <1>8, <1>9, <1>11, <1>12, <1>14 DEF MailsInv

\* What the clean-up erases is too old to be counted.
LEMMA EraseKeeps ==
  ASSUME Mails!MailAssumption, MailsInv, Mails!EraseHashes
  PROVE  MailsInv'
<1>1. mails' = {Mails!Erased(m) : m \in mails} /\ UNCHANGED <<clock, request>>
  BY DEF Mails!EraseHashes
<1>2. clock \in Nat /\ mails \subseteq Mail /\ IsFiniteSet(mails)
  BY DEF MailsInv, MailsTyped
<1>3. \A m \in mails : /\ Mails!Erased(m) \in Mail /\ Mails!Erased(m).at = m.at /\ Mails!Erased(m).user = m.user
                       /\ Mails!Erased(m).to = m.to
                       /\ Mails!Erased(m).hash => m.hash
                       /\ m.hash => Mails!Erased(m).hash \/ Mails!Outdated(m)
  BY <1>2, ErasedFacts
<1>4. MailsTyped'
  <2>1. IsFiniteSet(mails')
    BY <1>1, <1>2, ErasedAreFewer
  <2> QED
    BY <1>1, <1>3, <2>1 DEF MailsTyped, MailsInv
<1>5. MailsDated'
  <2>1. \A m \in mails : m.at <= clock /\ (m.hash \/ Mails!Outdated(m))
    BY DEF MailsInv, MailsDated
  <2>2. ASSUME NEW n \in mails'
        PROVE  n.at <= clock /\ (n.hash \/ n.at + Week <= clock)
    <3>1. PICK m \in mails : n = Mails!Erased(m)
      BY <1>1
    <3>2. n.at = m.at /\ (m.hash => n.hash \/ Mails!Outdated(m)) /\ m.at <= clock /\ (m.hash \/ Mails!Outdated(m))
      BY <1>3, <2>1, <3>1
    <3> QED
      BY <3>2 DEF Mails!Outdated
  <2> QED
    BY <1>1, <2>2 DEF MailsInv, MailsDated, Mails!Outdated
<1>6. LocksHeld'
  BY <1>1 DEF MailsInv, LocksHeld, HoldsUser, HoldsRecipient
<1>7. ASSUME NEW S \in SUBSET mails, NEW R \in SUBSET {Mails!Erased(m) : m \in S}
      PROVE  Cardinality(R) \in Nat /\ Cardinality(S) \in Nat /\ Cardinality(R) <= Cardinality(S)
  <2>1. IsFiniteSet(S) /\ Cardinality(S) \in Nat
    BY <1>2, Fewer
  <2>2. IsFiniteSet({Mails!Erased(m) : m \in S}) /\ Cardinality({Mails!Erased(m) : m \in S}) <= Cardinality(S)
    BY <2>1, ErasedAreFewer
  <2>3. Cardinality(R) \in Nat /\ Cardinality(R) <= Cardinality({Mails!Erased(m) : m \in S})
        /\ Cardinality({Mails!Erased(m) : m \in S}) \in Nat
    BY <2>2, Fewer
  <2> QED
    BY <2>1, <2>2, <2>3
<1>8. Counted'
  <2>1. ASSUME NEW j \in Calls, request'[j].step = "COUNTED"
        PROVE  Mails!WithinLimits(request[j])'
    <3>1. PICK d : d = request[j] /\ d = request'[j]
      BY <1>1
    <3>2. Mails!WithinLimits(d)
      BY <2>1, <3>1 DEF MailsInv, Counted
    <3> DEFINE S == {m \in {n \in mails : n.at + Day > d.now} : m.user = d.user}
               R == {m \in {n \in mails' : n.at + Day > d.now} : m.user = d.user}
               U == {m \in {n \in mails : n.at + Week > d.now} : m.hash /\ m.to = d.to}
               V == {m \in {n \in mails' : n.at + Week > d.now} : m.hash /\ m.to = d.to}
    <3>3. Cardinality(S) < PerUser /\ Cardinality(U) < PerRecipient
      BY <3>2, SameSize DEF Mails!WithinLimits, Mails!Since
    <3>4. S \subseteq mails /\ R \subseteq {Mails!Erased(m) : m \in S}
      BY <1>1, <1>3
    <3>5. U \subseteq mails /\ V \subseteq {Mails!Erased(m) : m \in U}
      BY <1>1, <1>3
    <3> HIDE DEF S, R, U, V
    <3>6. Cardinality(R) < PerUser /\ Cardinality(V) < PerRecipient
      <4>1. Cardinality(R) \in Nat /\ Cardinality(S) \in Nat /\ Cardinality(R) <= Cardinality(S)
        BY <1>7, <3>4
      <4>2. Cardinality(V) \in Nat /\ Cardinality(U) \in Nat /\ Cardinality(V) <= Cardinality(U)
        BY <1>7, <3>5
      <4> QED
        BY <3>3, <4>1, <4>2, Limits
    <3>7. Mails!WithinLimits(d)'
      BY <3>6, SameSize DEF Mails!WithinLimits, Mails!Since, R, V
    <3> QED
      BY <3>1, <3>7
  <2> QED
    BY <2>1 DEF Counted
<1>9. ASSUME NEW x \in mails'
      PROVE  /\ Cardinality({n \in {o \in mails' : o.at + Day > x.at} : n.user = x.user /\ n.at <= x.at}) <= PerUser
             /\ Cardinality({n \in {o \in mails' : o.at + Week > x.at} : n.to = x.to /\ n.at <= x.at}) <= PerRecipient
  <2>1. PICK m \in mails : x = Mails!Erased(m)
    BY <1>1
  <2>2. x.at = m.at /\ x.user = m.user /\ x.to = m.to
    BY <1>3, <2>1
  <2> DEFINE S == {n \in {o \in mails : o.at + Day > m.at} : n.user = m.user /\ n.at <= m.at}
             R == {n \in {o \in mails' : o.at + Day > x.at} : n.user = x.user /\ n.at <= x.at}
             U == {n \in {o \in mails : o.at + Week > m.at} : n.to = m.to /\ n.at <= m.at}
             V == {n \in {o \in mails' : o.at + Week > x.at} : n.to = x.to /\ n.at <= x.at}
  <2>3. Cardinality(S) <= PerUser /\ Cardinality(U) <= PerRecipient
    BY SameSize DEF MailsInv, Mails!LimitsHold, Mails!Since
  <2>4. S \subseteq mails /\ R \subseteq {Mails!Erased(n) : n \in S}
    BY <1>1, <1>3, <2>2
  <2>5. U \subseteq mails /\ V \subseteq {Mails!Erased(n) : n \in U}
    BY <1>1, <1>3, <2>2
  <2> HIDE DEF S, R, U, V
  <2>6. Cardinality(R) <= PerUser /\ Cardinality(V) <= PerRecipient
    <3>1. Cardinality(R) \in Nat /\ Cardinality(S) \in Nat /\ Cardinality(R) <= Cardinality(S)
      BY <1>7, <2>4
    <3>2. Cardinality(V) \in Nat /\ Cardinality(U) \in Nat /\ Cardinality(V) <= Cardinality(U)
      BY <1>7, <2>5
    <3> QED
      BY <2>3, <3>1, <3>2, Limits
  <2> QED
    BY <2>6 DEF R, V
<1>10. Mails!LimitsHold'
  BY <1>9, SameSize DEF Mails!LimitsHold, Mails!Since
<1> QED
  BY <1>4, <1>5, <1>6, <1>8, <1>10 DEF MailsInv

LEMMA MailsInit ==
  ASSUME Mails!MailAssumption, Mails!Init
  PROVE  MailsInv
<1>1. clock = 0 /\ mails = {} /\ request = [k \in Calls |-> Mails!Idle] /\ IsFiniteSet(mails)
  BY FS_EmptySet DEF Mails!Init
<1>2. MailsTyped /\ MailsDated
  BY <1>1 DEF MailsTyped, MailsDated, Mails!Idle
<1>3. LocksHeld /\ Counted
  BY <1>1 DEF LocksHeld, HoldsUser, HoldsRecipient, Counted, Mails!Idle
<1>4. Mails!LimitsHold
  BY <1>1 DEF Mails!LimitsHold
<1> QED
  BY <1>2, <1>3, <1>4 DEF MailsInv

LEMMA MailsStutter ==
  ASSUME MailsInv, UNCHANGED Mails!vars
  PROVE  MailsInv'
<1>1. UNCHANGED <<clock, mails, request>>
  BY DEF Mails!vars
<1>2. MailsTyped' /\ MailsDated' /\ LocksHeld'
  BY <1>1 DEF MailsInv, MailsTyped, MailsDated, Mails!Outdated, LocksHeld, HoldsUser, HoldsRecipient
<1>3. Counted'
  BY <1>1 DEF MailsInv, Counted, Mails!WithinLimits, Mails!Since
<1>4. Mails!LimitsHold'
  BY <1>1 DEF MailsInv, Mails!LimitsHold, Mails!Since
<1> QED
  BY <1>2, <1>3, <1>4 DEF MailsInv

\* invitations.service.ts and invite-email-hash-cleanup.service.ts: whoever counts holds both
\* advisory locks until the insert, and hashes are erased only when they no longer count.
THEOREM MailsInvariance ==
  ASSUME Mails!MailAssumption
  PROVE  Mails!Spec => []MailsInv
<1>1. Mails!Init => MailsInv
  BY MailsInit
<1>2. MailsInv /\ [Mails!Next]_(Mails!vars) => MailsInv'
  BY MailsStutter, TickKeeps, EraseKeeps, StartKeeps, LockUserKeeps, LockRecipientKeeps, CountKeeps,
     InsertKeeps, RefuseKeeps DEF Mails!Next, Mails!Work
<1> QED
  BY <1>1, <1>2, PTL DEF Mails!Spec

\* invitations.service.ts: in no day does a user send more mails than allowed, and in no week
\* does a recipient get more, whatever the time requests spend between reading the clock and
\* their insert, and whatever the clean-up erases.
THEOREM MailLimitsHold ==
  ASSUME Mails!MailAssumption
  PROVE  Mails!Spec => []LimitsHold
<1>1. MailsInv => LimitsHold
  BY DEF MailsInv, LimitsHold
<1> QED
  BY <1>1, MailsInvariance, PTL

-----------------------------------------------------------------------------
(* Telegram links *)

LinkKinds == {"create", "consume", "unlink"}
LinkTransaction ==
  [kind : LinkKinds, at : 1..6, user : Users, token : Tokens \cup {NULL}, chat : Chats \cup {NULL},
   users : SUBSET Users, tokens : SUBSET Tokens, takes : Users \cup {NULL}, attempt : Nat]
Links == [state : {"UNUSED", "EXPIRED", "USED", "DELETED"}, user : Users] \cup {Telegram!NoLink}

LinkTyped ==
  /\ chat \in [Users -> Chats \cup {NULL}]
  /\ tokenOf \in [Tokens -> Links]
  /\ linking \in [Calls -> LinkTransaction \cup {Telegram!Idle}]
  /\ void \subseteq Tokens

\* What a transaction has locked at each of its statements.
Formed(c) ==
  /\ c.at = 1 => c.users = {} /\ c.tokens = {}
  /\ c.at > 1 => c.user \in c.users
  /\ c.kind \in {"create", "consume"} => c.token \in Tokens
  /\ c.kind = "consume" => c.tokens = IF c.at > 2 THEN {c.token} ELSE {}
  /\ c.kind # "consume" => c.at <= 3 /\ (c.at = 2 => c.tokens = {}) /\ c.takes = NULL

\* The tokens it holds are its user's and unspent; one that makes a link or ends all of them
\* has seen every unspent link of its user; one that consumes a link consumes its user's.
Grounded(c) ==
  /\ \A t \in c.tokens : t \in Telegram!UnusedOf(c.user)
  /\ c.kind = "consume" => tokenOf[c.token].user = c.user
  /\ c.kind = "create" => tokenOf[c.token] = Telegram!NoLink
  /\ c.kind # "consume" /\ c.at = 3 => Telegram!UnusedOf(c.user) \subseteq c.tokens

\* Every row has one holder, and no two transactions make the same token.
Apart(c, d) ==
  /\ c.users \cap d.users = {} /\ c.tokens \cap d.tokens = {}
  /\ c.kind = "create" /\ d.kind = "create" => c.token # d.token

LinkInv ==
  /\ LinkTyped
  /\ \A k \in Calls : linking[k] # Telegram!Idle => Formed(linking[k]) /\ Grounded(linking[k])
  /\ \A j, k \in Calls : j # k => Apart(linking[j], linking[k])
  /\ \A u \in Users : \A s, t \in Telegram!UnusedOf(u) : s = t
  /\ \A t \in void : tokenOf[t].state \in {"USED", "DELETED"}

-----------------------------------------------------------------------------

LEMMA TelegramConstants ==
  ASSUME Telegram!TelegramAssumption
  PROVE  MaxAttempts \in Nat /\ NULL \notin Users /\ NULL \notin Chats
BY DEF Telegram!TelegramAssumption

LEMMA IdleFacts ==
  /\ Telegram!Idle.kind = "NONE" /\ Telegram!Idle.users = {} /\ Telegram!Idle.tokens = {}
  /\ \A c \in LinkTransaction : c # Telegram!Idle /\ c.kind # "NONE"
BY DEF Telegram!Idle, LinkTransaction, LinkKinds

LEMMA LinkFacts ==
  ASSUME Telegram!TelegramAssumption, LinkInv, NEW t \in Tokens
  PROVE  /\ tokenOf[t] = Telegram!NoLink <=> tokenOf[t].state = "NONE"
         /\ tokenOf[t] # Telegram!NoLink => /\ tokenOf[t].user \in Users
                                            /\ tokenOf[t].state \in {"UNUSED", "EXPIRED", "USED", "DELETED"}
         /\ \A u \in Users : tokenOf[t].user = u => tokenOf[t] # Telegram!NoLink
BY TelegramConstants DEF LinkInv, LinkTyped, Links, Telegram!NoLink

\* Where a transaction is, by the number of its statement.
LEMMA AtFacts ==
  ASSUME LinkInv, NEW k \in Calls, NEW c, c = linking[k], NEW s, Telegram!At(k, s)
  PROVE  /\ c \in LinkTransaction /\ Formed(c) /\ Grounded(c)
         /\ s = "user" => c.at = 1
         /\ s = "burn" => c.kind # "consume" /\ c.at = 2
         /\ s = "claim" => c.kind = "consume" /\ c.at = 2
         /\ s = "see" => c.kind = "consume" /\ c.at = 3
         /\ s = "take" => c.kind = "consume" /\ c.at = 4
         /\ s = "set" => c.kind = "consume" /\ c.at = 5
         /\ s = "commit" => IF c.kind = "consume" THEN c.at = 6 ELSE c.at = 3
<1>1. c # Telegram!Idle /\ c \in LinkTransaction /\ Formed(c) /\ Grounded(c)
  BY IdleFacts DEF Telegram!At, LinkInv, LinkTyped
<1>2. c.kind \in LinkKinds /\ c.at \in 1..6 /\ Telegram!Statements(c.kind)[c.at] = s
  BY <1>1 DEF LinkTransaction, Telegram!At
<1>3. CASE c.kind = "consume"
  <2>1. Telegram!Statements(c.kind) = <<"user", "claim", "see", "take", "set", "commit">>
    BY <1>3 DEF Telegram!Statements
  <2> QED
    BY <1>1, <1>2, <1>3, <2>1
<1>4. CASE c.kind # "consume"
  <2>1. Telegram!Statements(c.kind) = <<"user", "burn", "commit">> /\ c.at \in 1..3
    BY <1>1, <1>2, <1>4 DEF Telegram!Statements, LinkKinds, Formed
  <2> QED
    BY <1>1, <1>2, <1>4, <2>1
<1> QED
  BY <1>3, <1>4

-----------------------------------------------------------------------------
(* Steps that change one transaction and no row *)

LEMMA LinkCallStep ==
  ASSUME LinkInv, NEW k \in Calls, NEW c \in LinkTransaction \cup {Telegram!Idle},
         linking' = [linking EXCEPT ![k] = c], UNCHANGED <<chat, tokenOf, void>>,
         c # Telegram!Idle => Formed(c) /\ Grounded(c),
         \A j \in Calls \ {k} : Apart(c, linking[j])
  PROVE  LinkInv'
<1>1. linking'[k] = c /\ \A j \in Calls \ {k} : linking'[j] = linking[j]
  BY DEF LinkInv, LinkTyped
<1>2. LinkTyped'
  BY DEF LinkInv, LinkTyped
<1>3. \A j \in Calls : (linking[j] # Telegram!Idle => Formed(linking[j]) /\ Grounded(linking[j]))'
  <2>1. ASSUME NEW j \in Calls, linking'[j] # Telegram!Idle
        PROVE  (Formed(linking[j]) /\ Grounded(linking[j]))'
    <3>1. PICK d : d = linking'[j]
      OBVIOUS
    <3>2. Formed(d) /\ Grounded(d)
      BY <1>1, <2>1, <3>1 DEF LinkInv
    <3>3. (Formed(d) /\ Grounded(d))'
      BY <3>2 DEF Formed, Grounded, Telegram!UnusedOf
    <3> QED
      BY <3>1, <3>3
  <2> QED
    BY <2>1
<1>4. (\A i, j \in Calls : i # j => Apart(linking[i], linking[j]))'
  <2>1. \A i, j \in Calls : i # j => Apart(linking'[i], linking'[j])
    BY <1>1 DEF LinkInv, Apart
  <2> QED
    BY <2>1 DEF Apart
<1>5. (\A u \in Users : \A s, t \in Telegram!UnusedOf(u) : s = t)' /\ (\A t \in void : tokenOf[t].state \in {"USED", "DELETED"})'
  BY DEF LinkInv, Telegram!UnusedOf
<1> QED
  BY <1>2, <1>3, <1>4, <1>5 DEF LinkInv

LEMMA StopKeeps ==
  ASSUME LinkInv, NEW k \in Calls, Telegram!Stop(k), UNCHANGED <<chat, tokenOf, void>>
  PROVE  LinkInv'
<1>1. \A j \in Calls \ {k} : Apart(Telegram!Idle, linking[j])
  BY IdleFacts DEF Apart
<1> QED
  BY <1>1, LinkCallStep DEF Telegram!Stop

\* A transaction that has begun holds nothing.
LEMMA BeginFacts ==
  ASSUME NEW kind \in LinkKinds, NEW u \in Users, NEW t \in Tokens \cup {NULL}, NEW d \in Chats \cup {NULL},
         NEW n \in Nat, NEW c, c = Telegram!Begin(kind, u, t, d, n)
  PROVE  /\ c \in LinkTransaction /\ c.kind = kind /\ c.at = 1 /\ c.user = u /\ c.token = t /\ c.users = {}
         /\ c.tokens = {} /\ c.takes = NULL /\ c.chat = d
         /\ (kind \in {"create", "consume"} => t \in Tokens) => Formed(c)
BY DEF Telegram!Begin, LinkTransaction, LinkKinds, Formed

LEMMA CreateKeeps ==
  ASSUME Telegram!TelegramAssumption, LinkInv, NEW k \in Calls, NEW u \in Users, NEW t \in Tokens, Telegram!Create(k, u, t)
  PROVE  LinkInv'
<1>1. PICK c : c = Telegram!Begin("create", u, t, NULL, 1)
  OBVIOUS
<1>2. /\ tokenOf[t] = Telegram!NoLink /\ \A j \in Calls : linking[j].token # t
      /\ linking' = [linking EXCEPT ![k] = c] /\ UNCHANGED <<chat, tokenOf, void>>
  BY <1>1 DEF Telegram!Create
<1>3. /\ c \in LinkTransaction /\ c.kind = "create" /\ c.at = 1 /\ c.token = t /\ c.users = {} /\ c.tokens = {}
      /\ Formed(c)
  BY <1>1, BeginFacts DEF LinkKinds
<1>4. Grounded(c)
  BY <1>2, <1>3 DEF Grounded
<1>5. \A j \in Calls \ {k} : Apart(c, linking[j])
  BY <1>2, <1>3 DEF Apart
<1> QED
  BY <1>2, <1>3, <1>4, <1>5, LinkCallStep

\* A request to consume begins, anew or for the first time.
LEMMA ConsumeBegins ==
  ASSUME Telegram!TelegramAssumption, LinkInv, NEW k \in Calls, NEW u \in Users, NEW t \in Tokens, tokenOf[t].user = u,
         NEW d \in Chats \cup {NULL}, NEW n \in Nat, linking' = [linking EXCEPT ![k] = Telegram!Begin("consume", u, t, d, n)],
         UNCHANGED <<chat, tokenOf, void>>
  PROVE  LinkInv'
<1>1. PICK c : c = Telegram!Begin("consume", u, t, d, n)
  OBVIOUS
<1>2. /\ c \in LinkTransaction /\ c.kind = "consume" /\ c.at = 1 /\ c.token = t /\ c.user = u
      /\ c.users = {} /\ c.tokens = {} /\ Formed(c)
  BY <1>1, BeginFacts DEF LinkKinds
<1>3. Grounded(c)
  BY <1>2 DEF Grounded
<1>4. \A j \in Calls \ {k} : Apart(c, linking[j])
  BY <1>2 DEF Apart
<1> QED
  BY <1>1, <1>2, <1>3, <1>4, LinkCallStep

LEMMA ConsumeKeeps ==
  ASSUME Telegram!TelegramAssumption, LinkInv, NEW k \in Calls, NEW t \in Tokens, NEW d \in Chats, Telegram!Consume(k, t, d)
  PROVE  LinkInv'
<1>1. tokenOf[t].user \in Users
  BY LinkFacts DEF Telegram!Consume
<1> QED
  BY <1>1, ConsumeBegins DEF Telegram!Consume

LEMMA UnlinkKeeps ==
  ASSUME Telegram!TelegramAssumption, LinkInv, NEW k \in Calls, NEW u \in Users, Telegram!Unlink(k, u)
  PROVE  LinkInv'
<1>1. PICK c : c = Telegram!Begin("unlink", u, NULL, NULL, 1)
  OBVIOUS
<1>2. /\ c \in LinkTransaction /\ c.kind = "unlink" /\ c.at = 1 /\ c.users = {} /\ c.tokens = {} /\ Formed(c)
  <2>1. "unlink" \in LinkKinds /\ NULL \in Tokens \cup {NULL} /\ NULL \in Chats \cup {NULL} /\ 1 \in Nat
    BY DEF LinkKinds
  <2> QED
    BY <1>1, <2>1, BeginFacts
<1>3. Grounded(c)
  BY <1>2 DEF Grounded
<1>4. \A j \in Calls \ {k} : Apart(c, linking[j])
  BY <1>2 DEF Apart
<1> QED
  BY <1>1, <1>2, <1>3, <1>4, LinkCallStep DEF Telegram!Unlink

LEMMA RetryKeeps ==
  ASSUME Telegram!TelegramAssumption, LinkInv, NEW k \in Calls, Telegram!Retry(k), UNCHANGED <<chat, tokenOf, void>>
  PROVE  LinkInv'
<1>1. PICK c : c = linking[k]
  OBVIOUS
<1>2. CASE linking' = [linking EXCEPT ![k] = Telegram!Idle]
  BY <1>2, StopKeeps DEF Telegram!Stop
<1>3. CASE c.kind = "consume" /\ linking' = [linking EXCEPT ![k] = Telegram!Begin("consume", c.user, c.token, c.chat, c.attempt + 1)]
  <2>1. c \in LinkTransaction /\ Formed(c) /\ Grounded(c)
    BY <1>1, <1>3, IdleFacts DEF LinkInv, LinkTyped
  <2>2. /\ c.user \in Users /\ c.token \in Tokens /\ c.chat \in Chats \cup {NULL} /\ c.attempt + 1 \in Nat
        /\ tokenOf[c.token].user = c.user
    BY <1>3, <2>1 DEF LinkTransaction, Formed, Grounded
  <2> QED
    BY <1>3, <2>2, ConsumeBegins
<1> QED
  BY <1>1, <1>2, <1>3 DEF Telegram!Retry

-----------------------------------------------------------------------------
(* The statements *)

\* A statement that is done: at is one more.
LEMMA AdvanceFacts ==
  ASSUME NEW k \in Calls, NEW c \in LinkTransaction, c.at \in 1..5, Telegram!Advance(k, c), linking \in [Calls -> LinkTransaction \cup {Telegram!Idle}]
  PROVE  \E d \in LinkTransaction :
           /\ linking' = [linking EXCEPT ![k] = d] /\ d.at = c.at + 1 /\ d.kind = c.kind /\ d.user = c.user
           /\ d.token = c.token /\ d.chat = c.chat /\ d.users = c.users /\ d.tokens = c.tokens /\ d.takes = c.takes
<1>1. PICK d : d = [c EXCEPT !.at = c.at + 1]
  OBVIOUS
<1>2. /\ d \in LinkTransaction /\ d.at = c.at + 1 /\ d.kind = c.kind /\ d.user = c.user /\ d.token = c.token
      /\ d.chat = c.chat /\ d.users = c.users /\ d.tokens = c.tokens /\ d.takes = c.takes
  BY <1>1 DEF LinkTransaction
<1> QED
  BY <1>1, <1>2 DEF Telegram!Advance

\* The row of the user keeps other transactions of the same user away.
LEMMA LinkLockUserKeeps ==
  ASSUME Telegram!TelegramAssumption, LinkInv, NEW k \in Calls, Telegram!LockUser(k)
  PROVE  LinkInv'
<1>1. PICK c : c = linking[k]
  OBVIOUS
<1>2. Telegram!At(k, "user") /\ Telegram!MayLock(k, c.user) /\ UNCHANGED <<chat, tokenOf, void>>
  BY <1>1 DEF Telegram!LockUser
<1>3. c \in LinkTransaction /\ Formed(c) /\ Grounded(c) /\ c.at = 1 /\ linking \in [Calls -> LinkTransaction \cup {Telegram!Idle}]
  BY <1>1, <1>2, AtFacts DEF LinkInv, LinkTyped
<1>4. CASE Telegram!Stop(k)
  BY <1>2, <1>4, StopKeeps
<1>5. CASE Telegram!Advance(k, [c EXCEPT !.users = c.users \cup {c.user}])
  <2>1. PICK b : b = [c EXCEPT !.users = c.users \cup {c.user}]
    OBVIOUS
  <2>2. /\ b \in LinkTransaction /\ b.at = 1 /\ b.kind = c.kind /\ b.user = c.user /\ b.token = c.token
        /\ b.users = {c.user} /\ b.tokens = {} /\ b.takes = c.takes
    BY <1>3, <2>1 DEF LinkTransaction, Formed
  <2>3. PICK d \in LinkTransaction :
          /\ linking' = [linking EXCEPT ![k] = d] /\ d.at = 2 /\ d.kind = c.kind /\ d.user = c.user
          /\ d.token = c.token /\ d.users = {c.user} /\ d.tokens = {} /\ d.takes = c.takes
    <3>1. Telegram!Advance(k, b)
      BY <1>5, <2>1
    <3> QED
      BY <1>3, <2>2, <3>1, AdvanceFacts
  <2>4. Formed(d) /\ Grounded(d)
    BY <1>3, <2>3 DEF Formed, Grounded
  <2>5. \A j \in Calls \ {k} : Apart(d, linking[j])
    BY <1>1, <1>2, <1>3, <2>3 DEF Telegram!MayLock, Telegram!HeldUser, Apart, LinkInv
  <2> QED
    BY <1>2, <2>3, <2>4, <2>5, LinkCallStep
<1> QED
  BY <1>1, <1>4, <1>5 DEF Telegram!LockUser

LEMMA BurnTokensKeeps ==
  ASSUME Telegram!TelegramAssumption, LinkInv, NEW k \in Calls, Telegram!BurnTokens(k)
  PROVE  LinkInv'
<1>1. PICK c : c = linking[k]
  OBVIOUS
<1>2. PICK b : b = [c EXCEPT !.tokens = Telegram!UnusedOf(c.user)]
  OBVIOUS
<1>3. /\ Telegram!At(k, "burn") /\ \A t \in Telegram!UnusedOf(c.user) : ~Telegram!HeldToken(k, t)
      /\ Telegram!Advance(k, b) /\ UNCHANGED <<chat, tokenOf, void>>
  BY <1>1, <1>2 DEF Telegram!BurnTokens, Telegram!ToBurn
<1>4. /\ c \in LinkTransaction /\ Formed(c) /\ Grounded(c) /\ c.kind # "consume" /\ c.at = 2
      /\ linking \in [Calls -> LinkTransaction \cup {Telegram!Idle}] /\ Telegram!UnusedOf(c.user) \subseteq Tokens
  BY <1>1, <1>3, AtFacts DEF LinkInv, LinkTyped, Telegram!UnusedOf
<1>5. /\ b \in LinkTransaction /\ b.at = 2 /\ b.kind = c.kind /\ b.user = c.user /\ b.token = c.token
      /\ b.users = c.users /\ b.tokens = Telegram!UnusedOf(c.user) /\ b.takes = c.takes
  BY <1>2, <1>4 DEF LinkTransaction
<1>6. PICK d \in LinkTransaction :
        /\ linking' = [linking EXCEPT ![k] = d] /\ d.at = 3 /\ d.kind = c.kind /\ d.user = c.user
        /\ d.token = c.token /\ d.users = c.users /\ d.tokens = Telegram!UnusedOf(c.user) /\ d.takes = c.takes
  BY <1>3, <1>4, <1>5, AdvanceFacts
<1>7. Formed(d) /\ Grounded(d)
  BY <1>4, <1>6 DEF Formed, Grounded
<1>8. \A j \in Calls \ {k} : Apart(d, linking[j])
  BY <1>1, <1>3, <1>6 DEF Telegram!HeldToken, Apart, LinkInv
<1> QED
  BY <1>3, <1>6, <1>7, <1>8, LinkCallStep

LEMMA ClaimKeeps ==
  ASSUME Telegram!TelegramAssumption, LinkInv, NEW k \in Calls, Telegram!Claim(k)
  PROVE  LinkInv'
<1>1. PICK c : c = linking[k]
  OBVIOUS
<1>2. Telegram!At(k, "claim") /\ ~Telegram!HeldToken(k, c.token) /\ UNCHANGED <<chat, tokenOf, void>>
  BY <1>1 DEF Telegram!Claim
<1>3. /\ c \in LinkTransaction /\ Formed(c) /\ Grounded(c) /\ c.kind = "consume" /\ c.at = 2 /\ c.token \in Tokens
      /\ linking \in [Calls -> LinkTransaction \cup {Telegram!Idle}]
  BY <1>1, <1>2, AtFacts DEF LinkInv, LinkTyped, Formed
<1>4. CASE Telegram!Stop(k)
  BY <1>2, <1>4, StopKeeps
<1>5. CASE tokenOf[c.token] = [state |-> "UNUSED", user |-> c.user] /\ Telegram!Advance(k, [c EXCEPT !.tokens = {c.token}])
  <2>1. PICK b : b = [c EXCEPT !.tokens = {c.token}]
    OBVIOUS
  <2>2. /\ b \in LinkTransaction /\ b.at = 2 /\ b.kind = c.kind /\ b.user = c.user /\ b.token = c.token
        /\ b.users = c.users /\ b.tokens = {c.token} /\ b.takes = c.takes
    BY <1>3, <2>1 DEF LinkTransaction
  <2>3. PICK d \in LinkTransaction :
          /\ linking' = [linking EXCEPT ![k] = d] /\ d.at = 3 /\ d.kind = c.kind /\ d.user = c.user
          /\ d.token = c.token /\ d.users = c.users /\ d.tokens = {c.token} /\ d.takes = c.takes
    <3>1. Telegram!Advance(k, b)
      BY <1>5, <2>1
    <3> QED
      BY <1>3, <2>2, <3>1, AdvanceFacts
  <2>4. c.token \in Telegram!UnusedOf(c.user)
    BY <1>3, <1>5 DEF Telegram!UnusedOf
  <2>5. Formed(d) /\ Grounded(d)
    BY <1>3, <2>3, <2>4 DEF Formed, Grounded
  <2>6. \A j \in Calls \ {k} : Apart(d, linking[j])
    BY <1>1, <1>2, <1>3, <2>3 DEF Telegram!HeldToken, Apart, LinkInv
  <2> QED
    BY <1>2, <2>3, <2>5, <2>6, LinkCallStep
<1> QED
  BY <1>1, <1>4, <1>5 DEF Telegram!Claim

\* Of a consume that goes on, only the user whose chat it takes may change, and be locked.
LEMMA ConsumerStep ==
  ASSUME Telegram!TelegramAssumption, LinkInv, NEW k \in Calls, NEW c, c = linking[k], c \in LinkTransaction, c.kind = "consume",
         c.at \in 3..5, Formed(c), Grounded(c), NEW b \in LinkTransaction, Telegram!Advance(k, b), b.at = c.at, b.kind = c.kind,
         b.user = c.user, b.token = c.token, b.tokens = c.tokens, c.users \subseteq b.users,
         \A u \in b.users \ c.users : ~Telegram!HeldUser(k, u), UNCHANGED <<chat, tokenOf, void>>
  PROVE  LinkInv'
<1>1. linking \in [Calls -> LinkTransaction \cup {Telegram!Idle}]
  BY DEF LinkInv, LinkTyped
<1>2. PICK d \in LinkTransaction :
        /\ linking' = [linking EXCEPT ![k] = d] /\ d.at = c.at + 1 /\ d.kind = c.kind /\ d.user = c.user
        /\ d.token = c.token /\ d.users = b.users /\ d.tokens = c.tokens
  BY <1>1, AdvanceFacts
<1>3. Formed(d) /\ Grounded(d)
  BY <1>2 DEF Formed, Grounded
<1>4. \A j \in Calls \ {k} : Apart(d, linking[j])
  BY <1>2 DEF Telegram!HeldUser, Apart, LinkInv
<1> QED
  BY <1>2, <1>3, <1>4, LinkCallStep

LEMMA SeeHolderKeeps ==
  ASSUME Telegram!TelegramAssumption, LinkInv, NEW k \in Calls, Telegram!SeeHolder(k)
  PROVE  LinkInv'
<1>1. PICK c : c = linking[k]
  OBVIOUS
<1>2. Telegram!At(k, "see") /\ UNCHANGED <<chat, tokenOf, void>>
  BY DEF Telegram!SeeHolder
<1>3. PICK u \in Users \cup {NULL} : Telegram!Advance(k, [c EXCEPT !.takes = u])
  BY <1>1 DEF Telegram!SeeHolder, Telegram!Others
<1>4. c \in LinkTransaction /\ Formed(c) /\ Grounded(c) /\ c.kind = "consume" /\ c.at = 3
  BY <1>1, <1>2, AtFacts
<1>5. PICK b : b = [c EXCEPT !.takes = u]
  OBVIOUS
<1>6. /\ b \in LinkTransaction /\ b.at = c.at /\ b.kind = c.kind /\ b.user = c.user /\ b.token = c.token
      /\ b.tokens = c.tokens /\ b.users = c.users
  BY <1>4, <1>5 DEF LinkTransaction
<1>7. Telegram!Advance(k, b)
  BY <1>3, <1>5
<1> QED
  BY <1>1, <1>2, <1>4, <1>6, <1>7, ConsumerStep

LEMMA TakeChatKeeps ==
  ASSUME Telegram!TelegramAssumption, LinkInv, NEW k \in Calls, Telegram!TakeChat(k)
  PROVE  LinkInv'
<1>1. PICK c : c = linking[k]
  OBVIOUS
<1>2. /\ Telegram!At(k, "take") /\ (c.takes # NULL => ~Telegram!HeldUser(k, c.takes)) /\ UNCHANGED <<chat, tokenOf, void>>
  BY <1>1 DEF Telegram!TakeChat
<1>3. c \in LinkTransaction /\ Formed(c) /\ Grounded(c) /\ c.kind = "consume" /\ c.at = 4
  BY <1>1, <1>2, AtFacts
<1>4. CASE c.takes # NULL /\ Telegram!Advance(k, [c EXCEPT !.users = c.users \cup {c.takes}])
  <2>1. PICK b : b = [c EXCEPT !.users = c.users \cup {c.takes}]
    OBVIOUS
  <2>2. /\ b \in LinkTransaction /\ b.at = c.at /\ b.kind = c.kind /\ b.user = c.user /\ b.token = c.token
        /\ b.tokens = c.tokens /\ b.users = c.users \cup {c.takes}
    BY <1>3, <1>4, <2>1 DEF LinkTransaction
  <2>3. Telegram!Advance(k, b)
    BY <1>4, <2>1
  <2> QED
    BY <1>1, <1>2, <1>3, <1>4, <2>2, <2>3, ConsumerStep
<1>5. CASE Telegram!Advance(k, [c EXCEPT !.takes = NULL])
  <2>1. PICK b : b = [c EXCEPT !.takes = NULL]
    OBVIOUS
  <2>2. /\ b \in LinkTransaction /\ b.at = c.at /\ b.kind = c.kind /\ b.user = c.user /\ b.token = c.token
        /\ b.tokens = c.tokens /\ b.users = c.users
    BY <1>3, <2>1 DEF LinkTransaction
  <2>3. Telegram!Advance(k, b)
    BY <1>5, <2>1
  <2> QED
    BY <1>1, <1>2, <1>3, <1>5, <2>2, <2>3, ConsumerStep
<1> QED
  BY <1>1, <1>4, <1>5 DEF Telegram!TakeChat

LEMMA SetChatKeeps ==
  ASSUME Telegram!TelegramAssumption, LinkInv, NEW k \in Calls, Telegram!SetChat(k)
  PROVE  LinkInv'
<1>1. PICK c : c = linking[k]
  OBVIOUS
<1>2. Telegram!At(k, "set") /\ UNCHANGED <<chat, tokenOf, void>>
  BY DEF Telegram!SetChat
<1>3. c \in LinkTransaction /\ Formed(c) /\ Grounded(c) /\ c.kind = "consume" /\ c.at = 5
  BY <1>1, <1>2, AtFacts
<1>4. CASE Telegram!Retry(k)
  BY <1>2, <1>4, RetryKeeps
<1>5. CASE Telegram!Advance(k, c)
  BY <1>1, <1>2, <1>3, <1>5, ConsumerStep
<1> QED
  BY <1>1, <1>4, <1>5 DEF Telegram!SetChat

LEMMA ExpireKeeps ==
  ASSUME Telegram!TelegramAssumption, LinkInv, NEW t \in Tokens, Telegram!Expire(t)
  PROVE  LinkInv'
<1>1. /\ tokenOf[t].state = "UNUSED" /\ tokenOf' = [tokenOf EXCEPT ![t] = [tokenOf[t] EXCEPT !.state = "EXPIRED"]]
      /\ UNCHANGED <<chat, linking, void>> /\ tokenOf \in [Tokens -> Links]
  BY DEF Telegram!Expire, LinkInv, LinkTyped
<1>2. /\ tokenOf[t].user \in Users /\ tokenOf'[t] = [state |-> "EXPIRED", user |-> tokenOf[t].user]
      /\ \A x \in Tokens \ {t} : tokenOf'[x] = tokenOf[x]
  BY <1>1, LinkFacts DEF Links, Telegram!NoLink
<1>3. LinkTyped'
  BY <1>1, <1>2 DEF LinkInv, LinkTyped, Links
<1>4. \A u \in Users : Telegram!UnusedOf(u)' = Telegram!UnusedOf(u)
  BY <1>1, <1>2 DEF Telegram!UnusedOf
<1>5. ASSUME NEW j \in Calls, linking[j] # Telegram!Idle
      PROVE  (Formed(linking[j]) /\ Grounded(linking[j]))'
  <2>1. PICK d : d = linking[j]
    OBVIOUS
  <2>2. d \in LinkTransaction /\ d.user \in Users /\ d.token \in Tokens \cup {NULL} /\ Formed(d) /\ Grounded(d)
    BY <1>5, <2>1 DEF LinkInv, LinkTyped, LinkTransaction
  <2>3. Formed(d)'
    BY <2>2 DEF Formed
  <2>4. (d.kind = "consume" => tokenOf'[d.token].user = d.user) /\ (d.kind = "create" => tokenOf'[d.token] = Telegram!NoLink)
    BY <1>1, <1>2, <2>2 DEF Formed, Grounded, Telegram!NoLink
  <2>5. Grounded(d)'
    BY <1>4, <2>2, <2>4 DEF Grounded
  <2> QED
    BY <1>1, <2>1, <2>3, <2>5
<1>6. (\A i, j \in Calls : i # j => Apart(linking[i], linking[j]))'
  BY <1>1 DEF LinkInv, Apart
<1>7. (\A u \in Users : \A x, y \in Telegram!UnusedOf(u) : x = y)'
  BY <1>4 DEF LinkInv
<1>8. (\A x \in void : tokenOf[x].state \in {"USED", "DELETED"})'
  BY <1>1, <1>2 DEF LinkInv, LinkTyped
<1> QED
  BY <1>1, <1>3, <1>5, <1>6, <1>7, <1>8 DEF LinkInv

\* What a commit makes of the tokens.
LEMMA CommitLinks ==
  ASSUME Telegram!TelegramAssumption, LinkInv, NEW k \in Calls, Telegram!Commit(k), NEW c, c = linking[k]
  PROVE  /\ c \in LinkTransaction /\ Formed(c) /\ Grounded(c) /\ c.user \in Users /\ c.user \in c.users
         /\ c.tokens \subseteq Tokens
         /\ c.kind = "consume" => c.tokens = {c.token} /\ c.token \in Tokens
         /\ c.kind # "consume" => Telegram!UnusedOf(c.user) \subseteq c.tokens
         /\ tokenOf' \in [Tokens -> Links]
         /\ \A t \in Tokens : c.kind = "create" /\ t = c.token => tokenOf'[t] = [state |-> "UNUSED", user |-> c.user]
         /\ \A t \in c.tokens : /\ tokenOf'[t].user = tokenOf[t].user
                                /\ tokenOf'[t].state = IF c.kind = "consume" THEN "USED" ELSE "DELETED"
         /\ \A t \in Tokens \ c.tokens : (c.kind = "create" /\ t = c.token) \/ tokenOf'[t] = tokenOf[t]
<1>1. Telegram!At(k, "commit")
  BY DEF Telegram!Commit
<1>2. /\ c \in LinkTransaction /\ Formed(c) /\ Grounded(c) /\ c.kind \in LinkKinds
      /\ IF c.kind = "consume" THEN c.at = 6 ELSE c.at = 3
  BY <1>1, AtFacts DEF LinkTransaction
<1>3. /\ c.user \in Users /\ c.tokens \subseteq Tokens /\ c.user \in c.users
      /\ c.kind = "consume" => c.tokens = {c.token} /\ c.token \in Tokens
      /\ c.kind # "consume" => Telegram!UnusedOf(c.user) \subseteq c.tokens
      /\ c.kind = "create" => c.token \in Tokens /\ c.token \notin c.tokens
  <2>1. c.user \in Users /\ c.tokens \subseteq Tokens
    BY <1>2 DEF LinkTransaction
  <2>2. c.kind = "create" => c.token \in Tokens /\ c.token \notin c.tokens
    BY <1>2, <2>1 DEF Formed, Grounded, Telegram!UnusedOf, Telegram!NoLink
  <2> QED
    BY <1>2, <2>1, <2>2 DEF Formed, Grounded
<1>4. tokenOf \in [Tokens -> Links] /\ \A t \in c.tokens : tokenOf[t] # Telegram!NoLink
  BY <1>2, <1>3 DEF LinkInv, LinkTyped, Grounded, Telegram!UnusedOf, Telegram!NoLink
<1>5. tokenOf' = [t \in Tokens |->
        CASE c.kind = "create" /\ t = c.token -> [state |-> "UNUSED", user |-> c.user]
          [] t \in c.tokens /\ c.kind = "consume" -> [tokenOf[t] EXCEPT !.state = "USED"]
          [] t \in c.tokens /\ c.kind # "consume" -> [tokenOf[t] EXCEPT !.state = "DELETED"]
          [] OTHER -> tokenOf[t]]
  BY DEF Telegram!Commit
<1>6. \A t \in Tokens : c.kind = "create" /\ t = c.token => tokenOf'[t] = [state |-> "UNUSED", user |-> c.user]
  BY <1>3, <1>5
<1>7. ASSUME NEW t \in c.tokens
      PROVE  tokenOf'[t] = [state |-> IF c.kind = "consume" THEN "USED" ELSE "DELETED", user |-> tokenOf[t].user]
  <2>1. t \in Tokens /\ ~(c.kind = "create" /\ t = c.token)
    BY <1>3
  <2>2. tokenOf'[t] = IF c.kind = "consume" THEN [tokenOf[t] EXCEPT !.state = "USED"]
                                         ELSE [tokenOf[t] EXCEPT !.state = "DELETED"]
    BY <1>5, <2>1
  <2>3. tokenOf[t] \in [state : {"UNUSED", "EXPIRED", "USED", "DELETED"}, user : Users]
    BY <1>4, <2>1 DEF Links
  <2> QED
    BY <2>2, <2>3
<1>8. \A t \in Tokens \ c.tokens : (c.kind = "create" /\ t = c.token) \/ tokenOf'[t] = tokenOf[t]
  BY <1>5
<1>9. ASSUME NEW t \in Tokens
      PROVE  tokenOf'[t] \in Links
  <2>1. CASE c.kind = "create" /\ t = c.token
    BY <1>3, <1>6, <2>1 DEF Links
  <2>2. CASE t \in c.tokens
    <3>1. tokenOf[t].user \in Users
      BY <1>4, <2>2 DEF Links
    <3>2. \/ tokenOf'[t] = [state |-> "USED", user |-> tokenOf[t].user]
          \/ tokenOf'[t] = [state |-> "DELETED", user |-> tokenOf[t].user]
      BY <1>7, <2>2
    <3> QED
      BY <3>1, <3>2 DEF Links
  <2>3. CASE t \notin c.tokens /\ ~(c.kind = "create" /\ t = c.token)
    BY <1>4, <1>8, <2>3
  <2> QED
    BY <2>1, <2>2, <2>3
<1>10. tokenOf' \in [Tokens -> Links]
  BY <1>5, <1>9
<1>11. \A t \in c.tokens : /\ tokenOf'[t].user = tokenOf[t].user
                           /\ tokenOf'[t].state = IF c.kind = "consume" THEN "USED" ELSE "DELETED"
  <2>1. ASSUME NEW t \in c.tokens
        PROVE  /\ tokenOf'[t].user = tokenOf[t].user
               /\ tokenOf'[t].state = IF c.kind = "consume" THEN "USED" ELSE "DELETED"
    <3>1. tokenOf'[t] = [state |-> IF c.kind = "consume" THEN "USED" ELSE "DELETED", user |-> tokenOf[t].user]
      BY <1>7
    <3> QED
      BY <3>1
  <2> QED
    BY <2>1
<1> QED
  BY <1>2, <1>3, <1>6, <1>8, <1>10, <1>11

LEMMA CommitKeeps ==
  ASSUME Telegram!TelegramAssumption, LinkInv, NEW k \in Calls, Telegram!Commit(k)
  PROVE  LinkInv'
<1>1. PICK c : c = linking[k]
  OBVIOUS
<1>2. /\ c \in LinkTransaction /\ Formed(c) /\ Grounded(c) /\ c.user \in Users /\ c.user \in c.users
      /\ c.tokens \subseteq Tokens
      /\ c.kind = "consume" => c.tokens = {c.token} /\ c.token \in Tokens
      /\ c.kind # "consume" => Telegram!UnusedOf(c.user) \subseteq c.tokens
      /\ tokenOf' \in [Tokens -> Links]
      /\ \A t \in Tokens : c.kind = "create" /\ t = c.token => tokenOf'[t] = [state |-> "UNUSED", user |-> c.user]
      /\ \A t \in c.tokens : /\ tokenOf'[t].user = tokenOf[t].user
                             /\ tokenOf'[t].state = IF c.kind = "consume" THEN "USED" ELSE "DELETED"
      /\ \A t \in Tokens \ c.tokens : (c.kind = "create" /\ t = c.token) \/ tokenOf'[t] = tokenOf[t]
  BY <1>1, CommitLinks
<1>3. /\ linking' = [linking EXCEPT ![k] = Telegram!Idle]
      /\ void' = IF c.kind = "unlink" THEN void \cup {t \in Tokens : tokenOf[t].user = c.user} ELSE void
  BY <1>1 DEF Telegram!Commit, Telegram!Stop
<1>4. chat' \in [Users -> Chats \cup {NULL}]
  <2>1. chat' = [u \in Users |->
          CASE u = c.user /\ c.kind = "consume" -> c.chat
            [] u = c.user /\ c.kind = "unlink" -> NULL
            [] u = c.takes -> NULL
            [] OTHER -> chat[u]]
    BY <1>1 DEF Telegram!Commit
  <2>2. c.chat \in Chats \cup {NULL} /\ chat \in [Users -> Chats \cup {NULL}]
    BY <1>2 DEF LinkTransaction, LinkInv, LinkTyped
  <2> QED
    BY <2>1, <2>2
<1>5. LinkTyped'
  BY <1>2, <1>3, <1>4 DEF LinkInv, LinkTyped
<1>6. linking'[k] = Telegram!Idle /\ \A j \in Calls \ {k} : linking'[j] = linking[j]
  BY <1>3 DEF LinkInv, LinkTyped
<1>7. (\A i, j \in Calls : i # j => Apart(linking[i], linking[j]))'
  <2>1. \A j \in Calls : Apart(Telegram!Idle, linking[j]) /\ Apart(linking[j], Telegram!Idle)
    BY IdleFacts DEF Apart
  <2>2. \A i, j \in Calls : i # j => Apart(linking'[i], linking'[j])
    BY <1>6, <2>1 DEF LinkInv
  <2> QED
    BY <2>2 DEF Apart
<1>8. \A u \in Users \ {c.user} : Telegram!UnusedOf(u)' \subseteq Telegram!UnusedOf(u)
  BY <1>2 DEF Telegram!UnusedOf
<1>9. /\ c.kind = "create" => Telegram!UnusedOf(c.user)' \subseteq {c.token}
      /\ c.kind # "create" => Telegram!UnusedOf(c.user)' \subseteq Telegram!UnusedOf(c.user)
  BY <1>2 DEF Telegram!UnusedOf
<1>10. (\A u \in Users : \A x, y \in Telegram!UnusedOf(u) : x = y)'
  BY <1>8, <1>9 DEF LinkInv
<1>11. ASSUME NEW t \in void'
       PROVE  tokenOf'[t].state \in {"USED", "DELETED"}
  <2>1. t \in Tokens
    BY <1>3 DEF LinkInv, LinkTyped
  <2>2. CASE t \in c.tokens
    BY <1>2, <2>2
  <2>3. CASE t \notin c.tokens
    <3>1. tokenOf[t] # Telegram!NoLink /\ (t \in void \/ (c.kind = "unlink" /\ tokenOf[t].user = c.user))
      BY <1>2, <1>3, <2>1, LinkFacts DEF LinkInv, Telegram!NoLink
    <3>2. tokenOf'[t] = tokenOf[t]
      BY <1>2, <2>1, <2>3, <3>1 DEF Grounded
    <3>3. tokenOf[t].state \in {"USED", "DELETED"}
      <4>1. CASE t \in void
        BY <4>1 DEF LinkInv
      <4>2. CASE c.kind = "unlink" /\ tokenOf[t].user = c.user
        <5>1. t \notin Telegram!UnusedOf(c.user)
          BY <1>2, <2>3, <4>2
        <5> QED
          BY <2>1, <3>1, <4>2, <5>1, LinkFacts DEF Telegram!UnusedOf
      <4> QED
        BY <3>1, <4>1, <4>2
    <3> QED
      BY <3>2, <3>3
  <2> QED
    BY <2>2, <2>3
<1>12. ASSUME NEW j \in Calls, linking'[j] # Telegram!Idle
       PROVE  (Formed(linking[j]) /\ Grounded(linking[j]))'
  <2>1. PICK d : d = linking[j]
    OBVIOUS
  <2>2. j # k /\ linking'[j] = d /\ d # Telegram!Idle
    BY <1>6, <1>12, <2>1
  <2>3. /\ d \in LinkTransaction /\ d.user \in Users /\ Formed(d) /\ Grounded(d) /\ Apart(c, d)
        /\ d.tokens \subseteq Tokens
    BY <1>1, <2>1, <2>2 DEF LinkInv, LinkTyped, LinkTransaction
  <2>4. Formed(d)'
    BY <2>3 DEF Formed
  <2>5. \A t \in d.tokens : tokenOf'[t] = tokenOf[t]
    BY <1>2, <2>3 DEF Apart, Grounded, Telegram!UnusedOf, Telegram!NoLink
  <2>6. \A t \in d.tokens : t \in Telegram!UnusedOf(d.user)'
    BY <2>3, <2>5 DEF Grounded, Telegram!UnusedOf
  <2>7. d.kind = "consume" => tokenOf'[d.token].user = d.user
    <3>1. d.kind = "consume" => d.token \in Tokens /\ tokenOf[d.token].user = d.user
      BY <2>3 DEF Formed, Grounded
    <3>2. c.kind = "create" => tokenOf[c.token].user = NULL /\ NULL \notin Users
      BY <1>2, TelegramConstants DEF Grounded, Telegram!NoLink
    <3> QED
      BY <1>2, <2>3, <3>1, <3>2
  <2>8. d.kind = "create" => tokenOf'[d.token] = Telegram!NoLink
    <3>1. d.kind = "create" => d.token \in Tokens /\ tokenOf[d.token] = Telegram!NoLink
      BY <2>3 DEF Formed, Grounded
    <3>2. d.kind = "create" => d.token \notin c.tokens
      BY <1>2, <3>1, TelegramConstants DEF Grounded, Telegram!UnusedOf, Telegram!NoLink
    <3> QED
      BY <1>2, <2>3, <3>1, <3>2 DEF Apart
  <2>9. d.kind # "consume" /\ d.at = 3 => Telegram!UnusedOf(d.user)' \subseteq d.tokens
    <3>1. d.at = 3 => d.user \in d.users
      BY <2>3 DEF Formed
    <3>2. d.at = 3 => d.user # c.user
      BY <1>2, <2>3, <3>1 DEF Apart
    <3> QED
      BY <1>8, <2>3, <3>2 DEF Grounded
  <2>10. Grounded(d)'
    BY <2>6, <2>7, <2>8, <2>9 DEF Grounded
  <2> QED
    BY <2>2, <2>4, <2>10
<1> QED
  BY <1>5, <1>7, <1>10, <1>11, <1>12 DEF LinkInv

LEMMA LinkInit ==
  ASSUME Telegram!Init
  PROVE  LinkInv
<1>1. \A u \in Users : Telegram!UnusedOf(u) = {}
  BY DEF Telegram!Init, Telegram!UnusedOf, Telegram!NoLink
<1>2. LinkTyped
  BY DEF Telegram!Init, LinkTyped, Links
<1>3. \A j, k \in Calls : Apart(linking[j], linking[k])
  BY IdleFacts DEF Telegram!Init, Apart
<1> QED
  BY <1>1, <1>2, <1>3 DEF Telegram!Init, LinkInv

LEMMA LinkStep ==
  ASSUME Telegram!TelegramAssumption, LinkInv, [Telegram!Next]_(Telegram!vars)
  PROVE  LinkInv'
<1>1. ASSUME NEW k \in Calls, Telegram!BreakDeadlock(k)
      PROVE  LinkInv'
  BY <1>1, RetryKeeps DEF Telegram!BreakDeadlock
<1>2. CASE UNCHANGED Telegram!vars
  <2>1. UNCHANGED <<chat, tokenOf, linking, void>>
    BY <1>2 DEF Telegram!vars
  <2>2. LinkTyped' /\ (\A u \in Users : \A s, t \in Telegram!UnusedOf(u) : s = t)'
        /\ (\A t \in void : tokenOf[t].state \in {"USED", "DELETED"})'
        /\ (\A j, k \in Calls : j # k => Apart(linking[j], linking[k]))'
    BY <2>1 DEF LinkInv, LinkTyped, Telegram!UnusedOf, Apart
  <2>3. ASSUME NEW j \in Calls, linking[j] # Telegram!Idle
        PROVE  (Formed(linking[j]) /\ Grounded(linking[j]))'
    BY <2>1, <2>3 DEF LinkInv, Formed, Grounded, Telegram!UnusedOf
  <2> QED
    BY <2>1, <2>2, <2>3 DEF LinkInv
<1>3. CASE Telegram!Next
  BY <1>1, <1>3, ExpireKeeps, LinkLockUserKeeps, BurnTokensKeeps, ClaimKeeps, SeeHolderKeeps, TakeChatKeeps,
     SetChatKeeps, CommitKeeps, UnlinkKeeps, CreateKeeps, ConsumeKeeps DEF Telegram!Next, Telegram!Statement
<1> QED
  BY <1>2, <1>3

\* telegram-link.service.ts: the row of the user is held by one transaction at a time, which
\* has seen all the unspent links of its user when it makes a new one or unlinks.
THEOREM LinkInvariance ==
  ASSUME Telegram!TelegramAssumption
  PROVE  Telegram!Spec => []LinkInv
<1>1. Telegram!Init => LinkInv
  BY LinkInit
<1>2. LinkInv /\ [Telegram!Next]_(Telegram!vars) => LinkInv'
  BY LinkStep
<1> QED
  BY <1>1, <1>2, PTL DEF Telegram!Spec

-----------------------------------------------------------------------------
(* What it is good for *)

LEMMA OneIsLive ==
  ASSUME LinkInv
  PROVE  Telegram!OneLiveLink
<1>1. ASSUME NEW u \in Users
      PROVE  Cardinality(Telegram!UnusedOf(u)) <= 1
  <2>1. \A s, t \in Telegram!UnusedOf(u) : s = t
    BY DEF LinkInv
  <2>2. CASE Telegram!UnusedOf(u) = {}
    BY <2>2, FS_EmptySet
  <2>3. ASSUME NEW t \in Telegram!UnusedOf(u)
        PROVE  Cardinality(Telegram!UnusedOf(u)) <= 1
    <3>1. Telegram!UnusedOf(u) = {t}
      BY <2>1
    <3> QED
      BY <3>1, FS_Singleton
  <2> QED
    BY <2>2, <2>3
<1> QED
  BY <1>1, SameSize DEF Telegram!OneLiveLink

\* A transaction waits for none of the same user's, and only a consumer waits for a row that
\* another transaction which waits has locked.
LEMMA Waits ==
  ASSUME Telegram!TelegramAssumption, LinkInv, NEW j \in Calls, NEW k \in Calls, j \in Telegram!WaitsFor(k), k \in Telegram!WaitsFor(j)
  PROVE  linking[k].kind = "consume" /\ linking[k].at > 1 /\ linking[k] # Telegram!Idle
<1>1. PICK c : c = linking[k]
  OBVIOUS
<1>2. PICK d : d = linking[j]
  OBVIOUS
<1>3. j # k /\ Apart(c, d) /\ Apart(d, c)
  BY <1>1, <1>2 DEF Telegram!WaitsFor, LinkInv
<1>4. /\ c \in LinkTransaction /\ Formed(c) /\ Grounded(c) /\ c.user \in Users
      /\ d \in LinkTransaction /\ Formed(d) /\ Grounded(d) /\ d.user \in Users
  <2>1. (\E s : Telegram!At(k, s)) /\ (\E s : Telegram!At(j, s))
    BY DEF Telegram!WaitsFor
  <2> QED
    BY <1>1, <1>2, <2>1, AtFacts DEF LinkTransaction
<1>5. \A t \in d.tokens : tokenOf[t].user = d.user /\ d.user \in d.users
  BY <1>4 DEF Grounded, Telegram!UnusedOf, Formed, LinkTransaction
<1>6. CASE Telegram!At(k, "user")
  <2>1. c.users = {} /\ c.tokens = {} /\ c.at = 1 /\ c.at # 6
    BY <1>1, <1>4, <1>6, AtFacts DEF Formed
  <2>2. Telegram!At(j, "set") /\ k \in Telegram!Writing(j, d.chat)
    BY <1>1, <1>2, <2>1 DEF Telegram!WaitsFor
  <2>3. Telegram!Written(k) = {}
    BY <1>1, <2>1 DEF Telegram!Written
  <2>4. Telegram!At(k, "commit")
    BY <2>2, <2>3 DEF Telegram!Writing
  <2> QED
    BY <1>1, <1>4, <2>1, <2>4, AtFacts
<1>7. CASE Telegram!At(k, "burn")
  <2>1. c.kind # "consume" /\ c.at = 2 /\ c.user \in c.users
    BY <1>1, <1>4, <1>7, AtFacts DEF Formed
  <2>2. ~Telegram!At(k, "user") /\ ~Telegram!At(k, "take") /\ ~Telegram!At(k, "claim") /\ ~Telegram!At(k, "set")
    BY <1>7 DEF Telegram!At
  <2>3. PICK t \in Tokens : t \in Telegram!UnusedOf(c.user) /\ t \in d.tokens
    BY <1>1, <1>2, <2>2 DEF Telegram!WaitsFor, Telegram!ToBurn, Telegram!UnusedOf
  <2> QED
    BY <1>3, <1>5, <2>1, <2>3 DEF Telegram!UnusedOf, Apart
<1>8. CASE Telegram!At(k, "claim") \/ Telegram!At(k, "take") \/ Telegram!At(k, "set")
  BY <1>1, <1>4, <1>8, IdleFacts, AtFacts
<1> QED
  BY <1>6, <1>7, <1>8 DEF Telegram!WaitsFor

LEMMA ConsumersDeadlock ==
  ASSUME Telegram!TelegramAssumption, LinkInv
  PROVE  Telegram!OnlyConsumersDeadlock
<1>1. ASSUME NEW j \in Calls, NEW k \in Calls, j \in Telegram!WaitsFor(k), k \in Telegram!WaitsFor(j)
      PROVE  linking[j].kind = "consume" /\ linking[k].kind = "consume" /\ linking[j].user # linking[k].user
  <2>1. linking[j].kind = "consume" /\ linking[k].kind = "consume" /\ linking[j].at > 1 /\ linking[k].at > 1
        /\ linking[j] # Telegram!Idle /\ linking[k] # Telegram!Idle
    BY <1>1, Waits
  <2>2. linking[j].user \in linking[j].users /\ linking[k].user \in linking[k].users
    BY <2>1 DEF LinkInv, Formed
  <2>3. Apart(linking[j], linking[k])
    BY <1>1 DEF Telegram!WaitsFor, LinkInv
  <2> QED
    BY <2>1, <2>2, <2>3 DEF Apart
<1> QED
  BY <1>1 DEF Telegram!OnlyConsumersDeadlock

LEMMA ConsumeCommits ==
  ASSUME Telegram!TelegramAssumption, LinkInv, NEW k \in Calls, Telegram!Commit(k), linking[k].kind = "consume"
  PROVE  \E t \in Tokens : Grounded(linking[k]) /\ linking[k].tokens = {t} /\ tokenOf'[t].state = "USED"
<1>1. PICK c : c = linking[k]
  OBVIOUS
<1>2. /\ c \in LinkTransaction /\ Formed(c) /\ Grounded(c) /\ c.user \in Users /\ c.user \in c.users
      /\ c.tokens \subseteq Tokens
      /\ c.kind = "consume" => c.tokens = {c.token} /\ c.token \in Tokens
      /\ c.kind # "consume" => Telegram!UnusedOf(c.user) \subseteq c.tokens
      /\ tokenOf' \in [Tokens -> Links]
      /\ \A t \in Tokens : c.kind = "create" /\ t = c.token => tokenOf'[t] = [state |-> "UNUSED", user |-> c.user]
      /\ \A t \in c.tokens : /\ tokenOf'[t].user = tokenOf[t].user
                             /\ tokenOf'[t].state = IF c.kind = "consume" THEN "USED" ELSE "DELETED"
      /\ \A t \in Tokens \ c.tokens : (c.kind = "create" /\ t = c.token) \/ tokenOf'[t] = tokenOf[t]
  BY <1>1, CommitLinks
<1> QED
  BY <1>1, <1>2

LEMMA UnlinkAction ==
  ASSUME Telegram!TelegramAssumption, LinkInv, Telegram!Next, NEW u \in Users, chat'[u] \notin {chat[u], NULL}
  PROVE  \E t \in Tokens \ void : tokenOf[t].user = u /\ tokenOf'[t].state = "USED" /\ tokenOf[t].state # "USED"
<1>1. PICK k \in Calls : Telegram!Commit(k)
  <2>1. chat' # chat
    OBVIOUS
  <2> QED
    BY <2>1 DEF Telegram!Next, Telegram!Statement, Telegram!Expire, Telegram!LockUser, Telegram!BurnTokens, Telegram!Claim, Telegram!SeeHolder, Telegram!TakeChat, Telegram!SetChat, Telegram!BreakDeadlock,
                Telegram!Create, Telegram!Consume, Telegram!Unlink
<1>2. PICK c : c = linking[k]
  OBVIOUS
<1>3. u = c.user /\ c.kind = "consume"
  <2>1. chat' = [v \in Users |->
          CASE v = c.user /\ c.kind = "consume" -> c.chat
            [] v = c.user /\ c.kind = "unlink" -> NULL
            [] v = c.takes -> NULL
            [] OTHER -> chat[v]]
    BY <1>1, <1>2 DEF Telegram!Commit
  <2>2. chat'[u] = CASE u = c.user /\ c.kind = "consume" -> c.chat
                     [] u = c.user /\ c.kind = "unlink" -> NULL
                     [] u = c.takes -> NULL
                     [] OTHER -> chat[u]
    BY <2>1
  <2> QED
    BY <2>2
<1>4. PICK t \in Tokens : Grounded(c) /\ c.tokens = {t} /\ tokenOf'[t].state = "USED"
  BY <1>1, <1>2, <1>3, ConsumeCommits
<1>5. tokenOf[t].user = u /\ tokenOf[t].state \in {"UNUSED", "EXPIRED"}
  BY <1>3, <1>4 DEF Grounded, Telegram!UnusedOf
<1>6. t \notin void
  BY <1>5 DEF LinkInv
<1> QED
  BY <1>4, <1>5, <1>6

\* telegram-link.service.ts: a user has one link that works; whoever has unlinked the chat gets
\* none back through a link from before, however far it was consumed; and the one order of the
\* locks leaves only consumers of different accounts to wait for each other.
THEOREM LinksAreFinalHolds ==
  ASSUME Telegram!TelegramAssumption
  PROVE  Telegram!Spec => LinksAreFinal
<1>1. LinkInv => Telegram!OneLiveLink /\ Telegram!OnlyConsumersDeadlock
  BY OneIsLive, ConsumersDeadlock
<1>2. LinkInv /\ [Telegram!Next]_(Telegram!vars) =>
        [\A u \in Users : chat'[u] \notin {chat[u], NULL} =>
           \E t \in Tokens \ void : tokenOf[t].user = u /\ tokenOf'[t].state = "USED" /\ tokenOf[t].state # "USED"]_(Telegram!vars)
  BY UnlinkAction
<1> QED
  BY <1>1, <1>2, LinkInvariance, PTL DEF Telegram!Spec, LinksAreFinal, Telegram!LinksAreFinal, Telegram!UnlinkStays

-----------------------------------------------------------------------------
(* Resets of a password *)

ResetSteps == {"IDLE", "CHECKED", "FOUND", "CLAIMED", "PASSWORD", "BURNING", "BURNT", "REVOKING"}

\* A confirmation that has taken its token.
Claimed(k) == reset[k].step \in {"CLAIMED", "PASSWORD", "BURNING", "BURNT", "REVOKING"}

Call == [step : ResetSteps, token : Tokens \cup {NULL}, holds : SUBSET Tokens,
         ends : SUBSET (Tokens \cup Sessions)]

ResetTyped ==
  /\ Password!TypeOK
  /\ reset \in [Calls -> Call]
  /\ resets \in [Tokens -> Nat]
  /\ tokenSweeps \subseteq Tokens /\ sessionSweeps \subseteq Sessions

\* A row is held by one transaction, stays unspent until that commits, and the token of a
\* confirmation is among the rows it holds.
HeldRows ==
  \A k \in Calls :
    /\ \A t \in reset[k].holds : Password!Unspent(t)
    /\ \A j \in Calls : j # k => reset[j].holds \cap reset[k].holds = {}
    /\ Claimed(k) => reset[k].token \in reset[k].holds
    /\ reset[k].step = "FOUND" => reset[k].token \in Tokens

\* A token that has set the password is used, and was unspent before.
SpentOnce == \A t \in Tokens : resets[t] = 0 \/ (resets[t] = 1 /\ token[t] = "USED")

\* What the statements of a reset under way have seen they hold, or somebody else has ended it.
Swept ==
  /\ \A t \in tokenSweeps : token[t] # "NONE"
  /\ \A s \in sessionSweeps : session[s] # "NONE"
  /\ \A k \in Calls :
       /\ reset[k].step = "BURNING" => tokenSweeps = reset[k].ends
       /\ reset[k].step \in {"BURNT", "REVOKING"} =>
            \A t \in tokenSweeps : Password!Unspent(t) => t \in reset[k].holds
       /\ reset[k].step = "REVOKING" => sessionSweeps \subseteq reset[k].ends

\* What a reset should have ended is over, and nothing of it starts anew.
Ended ==
  /\ \A t \in Tokens \cap overdue : token[t] \in {"USED", "DELETED"}
  /\ \A s \in Sessions \cap overdue : session[s] = "REVOKED"

ResetInv == ResetTyped /\ HeldRows /\ SpentOnce /\ Swept /\ Ended

-----------------------------------------------------------------------------
(* Rows that change by themselves *)

LEMMA RowsChange ==
  ASSUME Password!ResetAssumption, ResetInv,
         \/ \E t \in Tokens : Password!RequestReset(t) \/ Password!Expire(t) \/ Password!CleanUp(t)
         \/ \E s \in Sessions : Password!RevokeOne(s)
  PROVE  ResetInv'
<1>1. /\ reset' = reset /\ UNCHANGED <<userLock, Password!ghosts>>
      /\ token' \in [Tokens -> {"NONE", "UNUSED", "USED", "EXPIRED", "DELETED"}]
      /\ session' \in [Sessions -> {"NONE", "LIVE", "REVOKED"}]
  BY DEF ResetInv, ResetTyped, Password!TypeOK, Password!RequestReset, Password!Expire, Password!CleanUp, Password!RevokeOne, Password!ghosts
<1>2. \A t \in Tokens :
        \/ token'[t] = token[t]
        \/ token[t] = "NONE" /\ token'[t] = "UNUSED"
        \/ token[t] = "UNUSED" /\ token'[t] = "EXPIRED"
        \/ token[t] = "EXPIRED" /\ token'[t] = "DELETED" /\ \A k \in Calls : t \notin reset[k].holds
  BY DEF ResetInv, ResetTyped, Password!TypeOK, Password!RequestReset, Password!Expire, Password!CleanUp, Password!RevokeOne
<1>3. \A s \in Sessions : session'[s] = session[s] \/ (session[s] = "LIVE" /\ session'[s] = "REVOKED")
  BY DEF ResetInv, ResetTyped, Password!TypeOK, Password!RequestReset, Password!Expire, Password!CleanUp, Password!RevokeOne
<1>4. ResetTyped'
  BY <1>1 DEF ResetInv, ResetTyped, Password!TypeOK, Password!ghosts
<1>5. HeldRows'
  BY <1>1, <1>2 DEF ResetInv, ResetTyped, HeldRows, Claimed, Password!Unspent, Call
<1>6. SpentOnce'
  BY <1>1, <1>2 DEF ResetInv, SpentOnce, Password!ghosts
<1>7. Swept'
  BY <1>1, <1>2, <1>3 DEF ResetInv, ResetTyped, Swept, Password!Unspent, Password!ghosts
<1>8. Ended'
  BY <1>1, <1>2, <1>3 DEF ResetInv, Ended, Password!ghosts
<1> QED
  BY <1>4, <1>5, <1>6, <1>7, <1>8 DEF ResetInv

-----------------------------------------------------------------------------
(* Steps of a call *)

LEMMA IdleIsTyped == Password!Idle \in Call
BY DEF Password!Idle, Call, ResetSteps

\* What a step of call k leaves of it, and of the calls beside it.
Becomes(k, c) ==
  /\ reset' \in [Calls -> Call]
  /\ reset'[k] = c
  /\ \A j \in Calls \ {k} : reset'[j] = reset[j]

LEMMA BecomesTyped ==
  ASSUME ResetTyped, NEW k \in Calls, NEW c \in Call, reset' = [reset EXCEPT ![k] = c]
  PROVE  Becomes(k, c)
BY DEF ResetTyped, Becomes

\* Logins, and a confirmation that gives up or has read its token only.
Resting(c) == /\ c.step \in {"IDLE", "CHECKED", "FOUND"} /\ c.holds = {}
              /\ c.step = "FOUND" => c.token \in Tokens

LEMMA RestKeeps ==
  ASSUME Password!ResetAssumption, ResetInv, NEW k \in Calls, NEW c \in Call, Becomes(k, c), Resting(c),
         token' = token, UNCHANGED Password!ghosts,
         userLock' = IF userLock = k THEN NULL ELSE userLock,
         \/ session' = session
         \/ \E s \in Sessions : session[s] = "NONE" /\ session' = [session EXCEPT ![s] = "LIVE"]
  PROVE  ResetInv'
<1>1. ResetTyped'
  BY DEF ResetInv, ResetTyped, Password!TypeOK, Password!ghosts, Password!ResetAssumption, Becomes, Resting, Call
<1>2. HeldRows'
  BY DEF ResetInv, HeldRows, Claimed, Password!Unspent, Becomes, Resting
<1>3. SpentOnce'
  BY DEF ResetInv, SpentOnce, Password!ghosts
<1>4. Swept' /\ Ended'
  <2>1. \A s \in Sessions : session'[s] = session[s] \/ (session[s] = "NONE" /\ session'[s] = "LIVE")
    BY DEF ResetInv, ResetTyped, Password!TypeOK
  <2> QED
    BY <2>1 DEF ResetInv, ResetTyped, Swept, Ended, Password!Unspent, Password!ghosts, Becomes, Resting
<1> QED
  BY <1>1, <1>2, <1>3, <1>4 DEF ResetInv

LEMMA HoldsNothing ==
  ASSUME Password!ResetAssumption, ResetInv, NEW k \in Calls,
         \/ Password!CheckPassword(k) \/ Password!BreakDeadlock(k)
         \/ \E s \in Sessions : Password!OpenSession(k, s)
         \/ \E t \in Tokens : Password!FindToken(k, t)
  PROVE  ResetInv'
<1>1. ResetTyped /\ Resting(Password!Idle) /\ (reset[k].step \in {"IDLE", "CHECKED"} => userLock # k)
  BY DEF ResetInv, ResetTyped, Password!TypeOK, Resting, Password!Idle
<1>2. CASE Password!CheckPassword(k)
  <2>1. reset' = [reset EXCEPT ![k] = [Password!Idle EXCEPT !.step = "CHECKED"]]
    BY <1>2 DEF Password!CheckPassword, ResetInv, ResetTyped
  <2>2. [Password!Idle EXCEPT !.step = "CHECKED"] \in Call /\ Resting([Password!Idle EXCEPT !.step = "CHECKED"])
    BY DEF Password!Idle, Call, ResetSteps, Resting
  <2>3. Becomes(k, [Password!Idle EXCEPT !.step = "CHECKED"])
    BY <1>1, <2>1, <2>2, BecomesTyped
  <2> QED
    BY <1>1, <1>2, <2>2, <2>3, RestKeeps DEF Password!CheckPassword, Password!Idle
<1>3. CASE Password!BreakDeadlock(k)
  <2>1. Becomes(k, Password!Idle)
    BY <1>1, <1>3, IdleIsTyped, BecomesTyped DEF Password!BreakDeadlock
  <2> QED
    BY <1>1, <1>3, <2>1, IdleIsTyped, RestKeeps DEF Password!BreakDeadlock
<1>4. ASSUME NEW s \in Sessions, Password!OpenSession(k, s) PROVE ResetInv'
  <2>1. Becomes(k, Password!Idle)
    BY <1>1, <1>4, IdleIsTyped, BecomesTyped DEF Password!OpenSession
  <2> QED
    BY <1>1, <1>4, <2>1, IdleIsTyped, RestKeeps DEF Password!OpenSession, Password!ghosts
<1>5. ASSUME NEW t \in Tokens, Password!FindToken(k, t) PROVE ResetInv'
  <2> DEFINE c == [Password!Idle EXCEPT !.step = "FOUND", !.token = t]
  <2>1. c \in Call /\ Resting(c)
    BY DEF Password!Idle, Call, ResetSteps, Resting
  <2>2. Becomes(k, c)
    BY <1>1, <1>5, <2>1, BecomesTyped DEF Password!FindToken
  <2>3. userLock # k
    <3>1. reset[k] = Password!Idle
      BY <1>5 DEF Password!FindToken
    <3> QED
      BY <1>1, <3>1 DEF Password!Idle
  <2> HIDE DEF c
  <2> QED
    BY <1>5, <2>1, <2>2, <2>3, RestKeeps DEF Password!FindToken
<1> QED
  BY <1>2, <1>3, <1>4, <1>5

LEMMA ResetClaimKeeps ==
  ASSUME Password!ResetAssumption, ResetInv, NEW k \in Calls, Password!Claim(k)
  PROVE  ResetInv'
<1> DEFINE t == reset[k].token
           c == [reset[k] EXCEPT !.step = "CLAIMED", !.holds = {t}]
<1>1. /\ token' = token /\ session' = session /\ userLock' = userLock /\ UNCHANGED Password!ghosts
      /\ t \in Tokens /\ reset[k].step = "FOUND" /\ userLock # k
      /\ \A j \in Calls \ {k} : t \notin reset[j].holds
      /\ reset[k] \in Call /\ ResetTyped
  BY DEF ResetInv, ResetTyped, Password!TypeOK, HeldRows, Password!Claim, Password!HeldFrom
<1>2. CASE ~Password!Unspent(t)
  <2>1. Becomes(k, Password!Idle)
    BY <1>1, <1>2, IdleIsTyped, BecomesTyped DEF Password!Claim, Password!Claimable
  <2> QED
    BY <1>1, <2>1, IdleIsTyped, RestKeeps DEF Resting, Password!Idle
<1>3. CASE Password!Unspent(t)
  <2>1. c \in Call /\ c.step = "CLAIMED" /\ c.token = t /\ c.holds = {t}
    BY <1>1 DEF Call, ResetSteps
  <2>2. Becomes(k, c)
    BY <1>1, <1>3, <2>1, BecomesTyped DEF Password!Claim, Password!Claimable
  <2> HIDE DEF c
  <2>3. ResetTyped'
    BY <1>1, <2>1, <2>2 DEF ResetTyped, Password!TypeOK, Password!ghosts, Password!ResetAssumption, Becomes, Call
  <2>4. HeldRows'
    BY <1>1, <1>3, <2>1, <2>2 DEF ResetInv, HeldRows, Claimed, Password!Unspent, Becomes
  <2>5. SpentOnce' /\ Ended' /\ Swept'
    BY <1>1, <2>1, <2>2 DEF ResetInv, SpentOnce, Ended, Swept, Password!Unspent, Password!ghosts, Becomes
  <2> QED
    BY <2>3, <2>4, <2>5 DEF ResetInv
<1> QED
  BY <1>2, <1>3

\* The statements between the claim and the commit, which one transaction is in at a time.
LEMMA StatementsKeep ==
  ASSUME Password!ResetAssumption, ResetInv, NEW k \in Calls,
         Password!SetPassword(k) \/ Password!StartBurning(k) \/ Password!Burn(k) \/ Password!RevokeAll(k)
  PROVE  ResetInv'
<1>0. reset \in [Calls -> Call] /\ reset[k] \in Call
  BY DEF ResetInv, ResetTyped
<1>1. PICK c \in Call :
        /\ Becomes(k, c)
        /\ \/ Password!SetPassword(k) /\ c = [reset[k] EXCEPT !.step = "PASSWORD"]
           \/ Password!StartBurning(k) /\ c = [reset[k] EXCEPT !.step = "BURNING", !.ends = tokenSweeps']
           \/ Password!Burn(k) /\ c = [reset[k] EXCEPT !.step = "BURNT", !.holds = @ \cup Password!ToBurn(k), !.ends = {}]
           \/ Password!RevokeAll(k) /\ c = [reset[k] EXCEPT !.step = "REVOKING", !.ends = Password!Live]
  <2> USE DEF Call, ResetSteps
  <2>1. CASE Password!SetPassword(k)
    <3>1. [reset[k] EXCEPT !.step = "PASSWORD"] \in Call
      BY <1>0
    <3> QED
      BY <1>0, <2>1, <3>1 DEF Password!SetPassword, Becomes
  <2>2. CASE Password!StartBurning(k)
    <3>1. [reset[k] EXCEPT !.step = "BURNING", !.ends = tokenSweeps'] \in Call
      BY <1>0, <2>2 DEF Password!StartBurning
    <3>2. reset' = [reset EXCEPT ![k] = [reset[k] EXCEPT !.step = "BURNING", !.ends = tokenSweeps']]
      BY <1>0, <2>2 DEF Password!StartBurning
    <3> QED
      BY <1>0, <2>2, <3>1, <3>2 DEF Becomes
  <2>3. CASE Password!Burn(k)
    <3>1. [reset[k] EXCEPT !.step = "BURNT", !.holds = @ \cup Password!ToBurn(k), !.ends = {}] \in Call
      <4>1. Password!ToBurn(k) \subseteq Tokens
        BY <2>3 DEF Password!Burn, Password!ToBurn, ResetInv, ResetTyped, Swept
      <4> QED
        BY <1>0, <4>1
    <3>2. reset' = [reset EXCEPT ![k] = [reset[k] EXCEPT !.step = "BURNT", !.holds = @ \cup Password!ToBurn(k), !.ends = {}]]
      BY <1>0, <2>3 DEF Password!Burn
    <3> QED
      BY <1>0, <2>3, <3>1, <3>2 DEF Becomes
  <2>4. CASE Password!RevokeAll(k)
    <3>1. [reset[k] EXCEPT !.step = "REVOKING", !.ends = Password!Live] \in Call
      BY <1>0 DEF Password!Live
    <3>2. reset' = [reset EXCEPT ![k] = [reset[k] EXCEPT !.step = "REVOKING", !.ends = Password!Live]]
      BY <1>0, <2>4 DEF Password!RevokeAll, Password!ToRevoke
    <3> QED
      BY <1>0, <2>4, <3>1, <3>2 DEF Becomes
  <2> QED
    BY <2>1, <2>2, <2>3, <2>4
<1>2. /\ token' = token /\ session' = session /\ UNCHANGED <<resets, overdue>>
      /\ Claimed(k) /\ userLock' = k /\ userLock \in {k, NULL}
      /\ c.step \in {"PASSWORD", "BURNING", "BURNT", "REVOKING"}
      /\ tokenSweeps' \subseteq Tokens /\ sessionSweeps' \subseteq Sessions
  BY <1>0, <1>1 DEF ResetInv, ResetTyped, Password!TypeOK, Claimed, Password!SetPassword, Password!StartBurning, Password!Burn, Password!RevokeAll, Password!ghosts, Call, Password!Live
<1>3. /\ c.token = reset[k].token /\ reset[k].holds \subseteq c.holds
      /\ \A t \in c.holds \ reset[k].holds : Password!Unspent(t) /\ \A j \in Calls \ {k} : t \notin reset[j].holds
  <2>1. Password!Burn(k) => \A t \in Password!ToBurn(k) : Password!Unspent(t) /\ \A j \in Calls \ {k} : t \notin reset[j].holds
    BY DEF Password!Burn, Password!ToBurn, Password!HeldFrom
  <2> QED
    BY <1>0, <1>1, <2>1 DEF Call
<1>4. \A j \in Calls \ {k} : reset[j].step \notin {"PASSWORD", "BURNING", "BURNT", "REVOKING"}
  BY <1>2 DEF ResetInv, ResetTyped, Password!TypeOK, Password!ResetAssumption
<1>5. ResetTyped'
  BY <1>1, <1>2, <1>4 DEF ResetInv, ResetTyped, Password!TypeOK, Password!ResetAssumption, Becomes, Call
<1>6. HeldRows'
  BY <1>1, <1>2, <1>3 DEF ResetInv, HeldRows, Claimed, Password!Unspent, Becomes
<1>7. SpentOnce' /\ Ended'
  BY <1>2 DEF ResetInv, SpentOnce, Ended
<1>8. Swept'
  <2>1. \A j \in Calls : j # k => reset'[j].step \notin {"PASSWORD", "BURNING", "BURNT", "REVOKING"}
    BY <1>1, <1>4 DEF Becomes
  <2>2. \A t \in tokenSweeps' : token[t] # "NONE"
    BY <1>1, <1>2 DEF ResetInv, Swept, Password!SetPassword, Password!StartBurning, Password!Burn, Password!RevokeAll, Password!Unspent, Password!ghosts
  <2>3. \A s \in sessionSweeps' : session[s] # "NONE"
    BY <1>1, <1>2 DEF ResetInv, Swept, Password!SetPassword, Password!StartBurning, Password!Burn, Password!RevokeAll, Password!Live, Password!ghosts
  <2>4. /\ c.step = "BURNING" => tokenSweeps' = c.ends
        /\ c.step \in {"BURNT", "REVOKING"} => \A t \in tokenSweeps' : Password!Unspent(t) => t \in c.holds
        /\ c.step = "REVOKING" => sessionSweeps' \subseteq c.ends
    <3>1. CASE Password!SetPassword(k) /\ c = [reset[k] EXCEPT !.step = "PASSWORD"]
      BY <1>0, <3>1 DEF Call
    <3>2. CASE Password!StartBurning(k) /\ c = [reset[k] EXCEPT !.step = "BURNING", !.ends = tokenSweeps']
      BY <1>0, <3>2 DEF Call
    <3>3. CASE Password!Burn(k) /\ c = [reset[k] EXCEPT !.step = "BURNT", !.holds = @ \cup Password!ToBurn(k), !.ends = {}]
      <4>1. tokenSweeps' = reset[k].ends /\ c.step = "BURNT" /\ Password!ToBurn(k) \subseteq c.holds
        BY <1>0, <3>3 DEF Password!Burn, ResetInv, Swept, Password!ghosts, Call
      <4> QED
        BY <4>1 DEF Password!ToBurn
    <3>4. CASE Password!RevokeAll(k) /\ c = [reset[k] EXCEPT !.step = "REVOKING", !.ends = Password!Live]
      BY <1>0, <3>4 DEF Password!RevokeAll, ResetInv, Swept, Call
    <3> QED
      BY <1>1, <3>1, <3>2, <3>3, <3>4
  <2> QED
    BY <1>1, <1>2, <2>1, <2>2, <2>3, <2>4 DEF Swept, Becomes, Password!Unspent
<1> QED
  BY <1>5, <1>6, <1>7, <1>8 DEF ResetInv

LEMMA ResetCommitKeeps ==
  ASSUME Password!ResetAssumption, ResetInv, NEW k \in Calls, Password!Commit(k)
  PROVE  ResetInv'
<1> DEFINE t == reset[k].token
<1>1. /\ reset[k].step = "REVOKING" /\ Claimed(k) /\ t \in reset[k].holds /\ t \in Tokens /\ userLock = k
      /\ reset[k].holds \subseteq Tokens
      /\ Becomes(k, Password!Idle) /\ userLock' = NULL
      /\ tokenSweeps' = tokenSweeps /\ sessionSweeps' = sessionSweeps
      /\ overdue' = overdue \cup tokenSweeps \cup sessionSweeps
  BY IdleIsTyped, BecomesTyped DEF ResetInv, ResetTyped, Password!TypeOK, HeldRows, Claimed, Password!Commit, Call
<1>2. /\ token' = [u \in Tokens |-> IF u \in reset[k].holds THEN "USED" ELSE token[u]]
      /\ session' = [s \in Sessions |-> IF s \in reset[k].ends THEN "REVOKED" ELSE session[s]]
      /\ resets' = [resets EXCEPT ![t] = @ + 1]
      /\ reset' = [reset EXCEPT ![k] = Password!Idle]
  BY DEF Password!Commit
<1>3. Password!Unspent(t) /\ resets[t] = 0
  BY <1>1 DEF ResetInv, HeldRows, SpentOnce, Password!Unspent
<1>4. ResetTyped'
  <2>1. \A j \in Calls \ {k} : reset[j].step \notin {"PASSWORD", "BURNING", "BURNT", "REVOKING"}
    BY <1>1 DEF ResetInv, ResetTyped, Password!TypeOK
  <2>2. Password!TypeOK'
    BY <1>1, <1>2, <2>1 DEF ResetInv, ResetTyped, Password!TypeOK, Password!Idle, Password!ResetAssumption, Becomes
  <2>3. reset' \in [Calls -> Call]
    BY <1>1 DEF Becomes
  <2>4. resets' = [resets EXCEPT ![t] = 1] /\ resets' \in [Tokens -> Nat]
    BY <1>1, <1>2, <1>3 DEF ResetInv, ResetTyped
  <2> QED
    BY <1>1, <2>2, <2>3, <2>4 DEF ResetInv, ResetTyped
<1>5. HeldRows'
  <2>1. \A j \in Calls \ {k} : \A u \in reset[j].holds : u \in Tokens /\ token'[u] = token[u]
    BY <1>1, <1>2 DEF ResetInv, ResetTyped, HeldRows, Password!Unspent, Call
  <2> QED
    BY <1>1, <2>1 DEF ResetInv, HeldRows, Claimed, Password!Unspent, Password!Idle, Becomes
<1>6. SpentOnce'
  BY <1>1, <1>2, <1>3 DEF ResetInv, ResetTyped, SpentOnce
<1>7. Swept'
  <2>1. \A j \in Calls : reset'[j].step \notin {"BURNING", "BURNT", "REVOKING"}
    BY <1>1 DEF ResetInv, ResetTyped, Password!TypeOK, Password!Idle, Becomes
  <2> QED
    BY <1>1, <1>2, <2>1 DEF ResetInv, ResetTyped, Swept
<1>8. Ended'
  <2>1. \A u \in tokenSweeps : token'[u] \in {"USED", "DELETED"}
    <3>1. \A u \in tokenSweeps : u \in Tokens /\ token[u] # "NONE" /\ (Password!Unspent(u) => u \in reset[k].holds)
      BY <1>1 DEF ResetInv, ResetTyped, Swept
    <3> QED
      BY <1>2, <3>1 DEF ResetInv, ResetTyped, Password!TypeOK, Password!Unspent
  <2>2. \A s \in sessionSweeps : session'[s] = "REVOKED"
    BY <1>1, <1>2 DEF ResetInv, ResetTyped, Swept
  <2>3. \A u \in Tokens \cap overdue : token'[u] \in {"USED", "DELETED"}
    BY <1>2 DEF ResetInv, Ended
  <2>4. \A s \in Sessions \cap overdue : session'[s] = "REVOKED"
    BY <1>2 DEF ResetInv, Ended
  <2> QED
    BY <1>1, <2>1, <2>2, <2>3, <2>4 DEF Ended, ResetInv, ResetTyped, Password!ResetAssumption
<1> QED
  BY <1>4, <1>5, <1>6, <1>7, <1>8 DEF ResetInv

-----------------------------------------------------------------------------

LEMMA InitResetInv ==
  ASSUME Password!ResetAssumption, Password!Init
  PROVE  ResetInv
<1>1. ResetTyped
  BY DEF Password!Init, ResetTyped, Password!TypeOK, Password!Idle, ResetSteps, Call, Password!ResetAssumption
<1> QED
  BY <1>1 DEF Password!Init, ResetInv, HeldRows, SpentOnce, Swept, Ended, Claimed, Password!Idle

LEMMA StepKeepsResetInv ==
  ASSUME Password!ResetAssumption, ResetInv, [Password!Next]_(Password!vars)
  PROVE  ResetInv'
<1>1. CASE UNCHANGED Password!vars
  BY <1>1 DEF Password!vars, ResetInv, ResetTyped, Password!TypeOK, HeldRows, Claimed, Password!Unspent, SpentOnce, Swept, Ended
<1>2. CASE Password!Next
  BY <1>2, RowsChange, HoldsNothing, ResetClaimKeeps, StatementsKeep, ResetCommitKeeps DEF Password!Next, Password!Confirm
<1> QED
  BY <1>1, <1>2

\* auth.service.ts, confirmPasswordReset: whoever has set the password holds the row of the
\* account until the commit, and what its statements saw it has locked or ended since.
THEOREM ResetInvariance ==
  ASSUME Password!ResetAssumption
  PROVE  Password!Spec => []ResetInv
BY InitResetInv, StepKeepsResetInv, PTL DEF Password!Spec

\* auth.service.ts and session.service.ts: a token sets the password once, and once a reset
\* commits no token and no session that it saw is good, whatever else went on meanwhile.
THEOREM ResetEndsAll ==
  ASSUME Password!ResetAssumption
  PROVE  Password!Spec => []ResetIsFinal
<1>1. ResetInv => ResetIsFinal
  BY DEF ResetIsFinal, ResetInv, ResetTyped, SpentOnce, Ended, Password!ResetIsFinal, Password!SingleUse, Password!ResetEndsTheRest, Password!Unspent
<1> QED
  BY <1>1, ResetInvariance, PTL

-----------------------------------------------------------------------------
(* The end of a process: AuthShutdown *)

USE ShutdownAssumption

(* What one assignment to a request's workflow or job does to the active sets. *)
LEMMA GoActive ==
  ASSUME NEW r \in Requests, NEW step, workflow \in [Requests -> Steps \cup {"NEW", "REFUSED", "DONE", "FAILED", "BROKEN", "CUT"}], Go(r, step)
  PROVE  activeWorkflows' = IF step \in Steps THEN activeWorkflows \cup {r} ELSE activeWorkflows \ {r}
BY DEF Go, activeWorkflows, Steps

LEMMA JobActive ==
  ASSUME NEW r \in Requests, NEW s, job \in [Requests -> {"NONE", "RUNNING", "ENDED", "CUT"}],
         job' = [job EXCEPT ![r] = s]
  PROVE  activeEmailJobs' = IF s = "RUNNING" THEN activeEmailJobs \cup {r} ELSE activeEmailJobs \ {r}
BY DEF activeEmailJobs

-----------------------------------------------------------------------------
(* The inductive invariant holds initially. *)
LEMMA DrainInit == Init => DrainInv
BY DEF Init, DrainInv, TypeOK, GateNeverBreaksWorkflow, activeWorkflows, activeEmailJobs, Steps

(* Every step of a request keeps it. *)
LEMMA DrainServe ==
  ASSUME DrainInv, NEW r \in Requests, Serve(r)
  PROVE  DrainInv'
<1> USE DEF DrainInv, TypeOK, GateNeverBreaksWorkflow, gates, shutdown
<1>1. CASE Refuse(r)
  <2>1. activeWorkflows' = activeWorkflows \ {r} /\ activeEmailJobs' = activeEmailJobs
    BY <1>1, GoActive DEF Refuse, Steps, activeEmailJobs
  <2> QED BY <1>1, <2>1 DEF Refuse, Go
<1>2. CASE Reserve(r)
  <2>1. activeWorkflows' = activeWorkflows \cup {r} /\ activeEmailJobs' = activeEmailJobs
    BY <1>2, GoActive DEF Reserve, Steps, activeEmailJobs
  <2> QED BY <1>2, <2>1 DEF Reserve, Go, Steps
<1>3. CASE RequestPasswordReset(r)
  <2>1. activeWorkflows' = activeWorkflows \ {r} /\ activeEmailJobs' = activeEmailJobs \cup {r}
    BY <1>3, GoActive, JobActive DEF RequestPasswordReset, Steps
  <2> QED BY <1>3, <2>1 DEF RequestPasswordReset, Go
<1>4. CASE CreateAccount(r)
  <2>1. r \in activeWorkflows /\ activeEmailJobs' = activeEmailJobs
    BY <1>4 DEF CreateAccount, activeWorkflows, activeEmailJobs, Steps
  <2>2. activeWorkflows' \in {activeWorkflows, activeWorkflows \ {r}}
    <3>1. CASE Go(r, "FAILED")
      BY <3>1, GoActive DEF Steps
    <3>2. CASE Go(r, "ACCOUNT")
      BY <2>1, <3>2, GoActive DEF Steps
    <3> QED BY <1>4, <3>1, <3>2 DEF CreateAccount
  <2> QED BY <1>4, <2>1, <2>2 DEF CreateAccount, Go, Commit, Steps
<1>5. CASE WriteToken(r)
  <2>1. r \in activeWorkflows /\ activeEmailJobs' = activeEmailJobs
    BY <1>5 DEF WriteToken, activeWorkflows, activeEmailJobs, Steps
  <2>2. activeWorkflows' \in {activeWorkflows, activeWorkflows \ {r}}
    <3>1. CASE Go(r, "TOKEN")
      BY <2>1, <3>1, GoActive DEF Steps
    <3>2. CASE Go(r, "DONE")
      BY <3>2, GoActive DEF Steps
    <3> QED BY <1>5, <3>1, <3>2 DEF WriteToken
  <2> QED BY <1>5, <2>1, <2>2 DEF WriteToken, Go, Commit, Steps
<1>6. CASE EnqueueEmail(r)
  <2>1. r \in activeWorkflows
    BY <1>6 DEF EnqueueEmail, activeWorkflows, Steps
  <2>2. acceptingEmailJobs
    BY <2>1
  <2>3. Go(r, "QUEUED") /\ job' = [job EXCEPT ![r] = "RUNNING"]
    BY <1>6, <2>2 DEF EnqueueEmail
  <2>4. activeWorkflows' = activeWorkflows
    BY <2>1, <2>3, GoActive DEF Steps
  <2>5. activeEmailJobs' = activeEmailJobs \cup {r}
    BY <2>3, JobActive
  <2> QED BY <1>6, <2>1, <2>2, <2>3, <2>4, <2>5 DEF EnqueueEmail, Go, Steps
<1>7. CASE Release(r)
  <2>1. activeWorkflows' = activeWorkflows \ {r} /\ activeEmailJobs' = activeEmailJobs
    BY <1>7, GoActive DEF Release, Steps, activeEmailJobs
  <2> QED BY <1>7, <2>1 DEF Release, Go, Commit
<1>8. CASE Fail(r)
  <2>1. activeWorkflows' = activeWorkflows \ {r} /\ activeEmailJobs' = activeEmailJobs
    BY <1>8, GoActive DEF Fail, Steps, activeEmailJobs
  <2> QED BY <1>8, <2>1 DEF Fail, Go
<1>9. CASE EndJob(r)
  <2>1. activeWorkflows' = activeWorkflows /\ activeEmailJobs' = activeEmailJobs \ {r}
    <3>1. job' = [job EXCEPT ![r] = "ENDED"] /\ workflow' = workflow
      BY <1>9 DEF EndJob
    <3>2. activeEmailJobs' = activeEmailJobs \ {r}
      BY <3>1 DEF activeEmailJobs
    <3> QED BY <3>1, <3>2 DEF activeWorkflows
  <2> QED BY <1>9, <2>1 DEF EndJob
<1> QED BY <1>1, <1>2, <1>3, <1>4, <1>5, <1>6, <1>7, <1>8, <1>9 DEF Serve

(* Every step of the shutdown keeps it. *)
LEMMA DrainShutdown ==
  ASSUME DrainInv, BeginShutdown \/ Drained \/ Exit \/ Kill \/ Tick
  PROVE  DrainInv'
<1> USE DEF DrainInv, TypeOK, GateNeverBreaksWorkflow, gates
<1>0. workflow' = workflow /\ job' = job => activeWorkflows' = activeWorkflows /\ activeEmailJobs' = activeEmailJobs
  BY DEF activeWorkflows, activeEmailJobs
<1>1. CASE BeginShutdown
  BY <1>0, <1>1 DEF BeginShutdown, activeWorkflows
<1>2. CASE WorkflowsSettled
  <2>1. activeWorkflows = {}
    BY <1>2 DEF WorkflowsSettled, StillActive
  <2>2. deadline' \in Nat
    BY <1>2 DEF WorkflowsSettled, Remaining
  <2> QED BY <1>0, <1>2, <2>1, <2>2 DEF WorkflowsSettled, MailSnapshot, activeEmailJobs
<1>3. CASE EmailsSettled
  BY <1>0, <1>3 DEF EmailsSettled, StillActive
<1>4. CASE TimedOut
  BY <1>0, <1>4 DEF TimedOut, Waiting
<1>5. CASE Exit
  BY <1>0, <1>5 DEF Exit
<1>6. CASE Kill
  <2>1. activeWorkflows' = {} /\ activeEmailJobs' = {}
    BY <1>6 DEF Kill, activeWorkflows, activeEmailJobs, Steps
  <2> QED BY <1>6, <2>1 DEF Kill, Steps
<1>7. CASE Tick
  BY <1>0, <1>7 DEF Tick, Waiting
<1> QED BY <1>1, <1>2, <1>3, <1>4, <1>5, <1>6, <1>7 DEF Drained

(* DrainInv is an invariant: at a closed gate nothing starts that nobody waits for. *)
THEOREM DrainInvariant == Spec => []DrainInv
<1>1. DrainInv /\ [Next]_vars => DrainInv'
  <2>1. CASE UNCHANGED vars
    BY <2>1 DEF vars, gates, shutdown, DrainInv, TypeOK, GateNeverBreaksWorkflow, activeWorkflows, activeEmailJobs
  <2> QED BY <2>1, DrainServe, DrainShutdown DEF Next
<1> QED BY <1>1, DrainInit, PTL DEF Spec

(* No request that was let in meets the closed gate for mails (registerEmailJob). *)
THEOREM GateHolds == Spec => []GateNeverBreaksWorkflow
<1>1. DrainInv => GateNeverBreaksWorkflow
  BY DEF DrainInv
<1> QED BY <1>1, DrainInvariant, PTL

-----------------------------------------------------------------------------
(* The phases share one budget: the time that is left is what the deadline is set by. *)
THEOREM BudgetShared == Spec => []OneBudget
<1>1. Init => BudgetInv
  BY DrainInit DEF Init, BudgetInv, DrainInv, Waiting
<1>2. DrainInv /\ DrainInv' /\ BudgetInv /\ [Next]_vars => BudgetInv'
  <2> SUFFICES ASSUME DrainInv, DrainInv', BudgetInv, [Next]_vars PROVE BudgetInv'
    OBVIOUS
  <2> USE DEF BudgetInv, Waiting
  <2>0. TypeOK'
    BY DEF DrainInv
  <2>1. CASE UNCHANGED <<phase, elapsed, deadline>>
    BY <2>0, <2>1
  <2>2. CASE BeginShutdown
    BY <2>0, <2>2 DEF BeginShutdown
  <2>3. CASE WorkflowsSettled
    BY <2>0, <2>3 DEF WorkflowsSettled, Remaining, TypeOK
  <2>4. CASE EmailsSettled \/ TimedOut \/ Exit \/ Kill
    BY <2>0, <2>4 DEF EmailsSettled, TimedOut, Exit, Kill
  <2>5. CASE Tick
    BY <2>0, <2>5 DEF Tick, TypeOK
  <2>6. ASSUME NEW r \in Requests, Serve(r) PROVE UNCHANGED <<phase, elapsed, deadline>>
    BY <2>6 DEF Serve, Refuse, Reserve, RequestPasswordReset, CreateAccount, WriteToken,
                EnqueueEmail, Release, Fail, EndJob, shutdown
  <2> QED BY <2>1, <2>2, <2>3, <2>4, <2>5, <2>6 DEF Next, vars, Drained
<1>3. BudgetInv => OneBudget
  BY DEF BudgetInv, OneBudget, TypeOK
<1> QED BY <1>1, <1>2, <1>3, DrainInvariant, PTL DEF Spec

-----------------------------------------------------------------------------
(* A step of one request changes nothing of another. *)
LEMMA ServeIsLocal ==
  ASSUME TypeOK, NEW r \in Requests, Serve(r), NEW q \in Requests, q # r
  PROVE  workflow'[q] = workflow[q] /\ job'[q] = job[q] /\ wrote'[q] = wrote[q] /\ phase' = phase
BY DEF TypeOK, Serve, Refuse, Reserve, RequestPasswordReset, CreateAccount, WriteToken,
       EnqueueEmail, Release, Fail, EndJob, shutdown, Go, Commit

LEMMA WroteServe ==
  ASSUME WroteInv, NEW r \in Requests, Serve(r)
  PROVE  WroteSoFar(r)'
<1> USE DEF WroteInv, WroteSoFar, DrainInv, TypeOK, gates, shutdown, Go, Commit
<1>1. CASE Refuse(r) BY <1>1 DEF Refuse
<1>2. CASE Reserve(r) BY <1>2 DEF Reserve
<1>3. CASE RequestPasswordReset(r) BY <1>3 DEF RequestPasswordReset
<1>4. CASE CreateAccount(r) BY <1>4 DEF CreateAccount, Steps
<1>5. CASE WriteToken(r) BY <1>5 DEF WriteToken, Steps
<1>6. CASE EnqueueEmail(r) BY <1>6 DEF EnqueueEmail, Steps
<1>7. CASE Release(r) BY <1>7 DEF Release, Steps
<1>8. CASE Fail(r) BY <1>8 DEF Fail, Steps
<1>9. CASE EndJob(r) BY <1>9 DEF EndJob
<1> QED BY <1>1, <1>2, <1>3, <1>4, <1>5, <1>6, <1>7, <1>8, <1>9 DEF Serve

(* WroteInv is an invariant: how far a request's writes are follows from its workflow. *)
THEOREM WroteInvariant == Spec => []WroteInv
<1>1. Init => WroteInv
  BY DrainInit DEF WroteInv, WroteSoFar, Init
<1>2. WroteInv /\ DrainInv' /\ [Next]_vars => WroteInv'
  <2> SUFFICES ASSUME WroteInv, DrainInv', [Next]_vars, NEW q \in Requests PROVE WroteSoFar(q)'
    BY DEF WroteInv
  <2>1. CASE UNCHANGED <<workflow, job, wrote>> /\ phase # "KILLED"
    BY <2>1 DEF WroteInv, WroteSoFar
  <2>2. CASE UNCHANGED vars
    BY <2>2 DEF WroteInv, WroteSoFar, vars
  <2>3. ASSUME NEW r \in Requests, Serve(r) PROVE WroteSoFar(q)'
    <3>1. CASE q = r
      BY <2>3, <3>1, WroteServe
    <3>2. CASE q # r
      <4>1. workflow'[q] = workflow[q] /\ job'[q] = job[q] /\ wrote'[q] = wrote[q] /\ phase' = phase
        BY <2>3, <3>2, ServeIsLocal DEF WroteInv, DrainInv
      <4> QED BY <4>1 DEF WroteInv, WroteSoFar
    <3> QED BY <3>1, <3>2
  <2>4. CASE BeginShutdown \/ Drained \/ Exit \/ Tick
    BY <2>1, <2>4 DEF BeginShutdown, Drained, WorkflowsSettled, EmailsSettled, TimedOut, Exit, Tick, Waiting
  <2>5. CASE Kill
    BY <2>5 DEF Kill, WroteInv, WroteSoFar, Steps, DrainInv, TypeOK
  <2> QED BY <2>2, <2>3, <2>4, <2>5 DEF Next
<1> QED BY <1>1, <1>2, DrainInvariant, PTL DEF Spec

(* After a clean shutdown every registration that was let in is whole. *)
THEOREM CleanIsComplete == Spec => []CleanMeansComplete
<1>1. WroteInv => CleanMeansComplete
  <2> SUFFICES ASSUME WroteInv, phase = "CLOSED", NEW r \in Requests, KindOf[r] = "register",
                      workflow[r] \notin {"NEW", "REFUSED", "FAILED"}
               PROVE  wrote[r] = {"ACCOUNT", "TOKEN", "SESSION"} /\ job[r] = "ENDED"
    BY DEF CleanMeansComplete
  <2>1. workflow[r] \notin Steps /\ job[r] # "RUNNING"
    BY DEF WroteInv, DrainInv, activeWorkflows, activeEmailJobs
  <2>2. workflow[r] = "DONE"
    BY <2>1 DEF WroteInv, WroteSoFar, DrainInv, TypeOK, GateNeverBreaksWorkflow
  <2> QED BY <2>1, <2>2 DEF WroteInv, WroteSoFar, DrainInv, TypeOK
<1> QED BY <1>1, WroteInvariant, PTL

(* What the gate refused has left nothing behind. *)
THEOREM RefusedIsClean == Spec => []RefusedLeftNothing
<1>1. WroteInv => RefusedLeftNothing
  BY DEF WroteInv, WroteSoFar, RefusedLeftNothing
<1> QED BY <1>1, WroteInvariant, PTL

-----------------------------------------------------------------------------
(* AuthShutdown implements Drain: each step of a request admits a piece of work,  *)
(* goes on with one or stutters, and each step of the shutdown is one of Drain's. *)

DrainActive == ({"workflow"} \X activeWorkflows) \cup ({"job"} \X activeEmailJobs)
DrainOutcome == CASE phase \in {"CLOSED", "EXITED"} -> "CLEAN"
                  [] phase \in {"TIMEOUT", "KILLED"} -> "FORCED"
                  [] OTHER -> "RUNNING"
DrainGate == IF acceptingWorkflows THEN "OPEN" ELSE "CLOSED"

LEMMA MappedAdmit ==
  ASSUME NEW x \in {"workflow", "job"} \X Requests, acceptingWorkflows, x \notin DrainActive,
         DrainActive' = DrainActive \cup {x}, UNCHANGED <<gates, phase>>
  PROVE  Graceful!DNext
<1>1. Graceful!Admit(x)
  BY DEF Graceful!Admit, DrainActive, gates
<1> QED BY <1>1 DEF Graceful!DNext

LEMMA MappedProceed ==
  ASSUME NEW x \in {"workflow", "job"} \X Requests, NEW y \in {"workflow", "job"} \X Requests,
         x \in DrainActive, phase \notin {"CLOSED", "EXITED"},
         DrainActive' \in {DrainActive \ {x}, DrainActive \cup {y}}, UNCHANGED <<gates, phase>>
  PROVE  Graceful!DNext
<1>1. DrainOutcome # "CLEAN"
  BY DEF DrainOutcome
<1>2. Graceful!Proceed(x)
  BY <1>1 DEF Graceful!Proceed, DrainActive, DrainOutcome, gates
<1> QED BY <1>2 DEF Graceful!DNext

LEMMA MappedServe ==
  ASSUME DrainInv, DrainInv', NEW r \in Requests, Serve(r)
  PROVE  [Graceful!DNext]_Graceful!dvars
<1> DEFINE w == <<"workflow", r>>
<1> DEFINE j == <<"job", r>>
<1> USE DEF DrainInv, TypeOK
<1>0. /\ w \in {"workflow", "job"} \X Requests /\ j \in {"workflow", "job"} \X Requests
      /\ UNCHANGED <<gates, phase>>
  BY DEF Serve, Refuse, Reserve, RequestPasswordReset, CreateAccount, WriteToken,
         EnqueueEmail, Release, Fail, EndJob, shutdown, gates
<1>1. CASE UNCHANGED <<activeWorkflows, activeEmailJobs>>
  BY <1>0, <1>1 DEF Graceful!dvars, gates
<1>2. CASE r \in activeWorkflows /\ activeWorkflows' = activeWorkflows \ {r} /\ activeEmailJobs' = activeEmailJobs
  <2>1. w \in DrainActive /\ DrainActive' = DrainActive \ {w}
    BY <1>2 DEF DrainActive
  <2>2. phase \notin {"CLOSED", "EXITED"}
    BY <1>2
  <2> HIDE DEF w
  <2> QED BY <1>0, <2>1, <2>2, MappedProceed
<1>3. CASE r \in activeEmailJobs /\ activeEmailJobs' = activeEmailJobs \ {r} /\ activeWorkflows' = activeWorkflows
  <2>1. j \in DrainActive /\ DrainActive' = DrainActive \ {j}
    BY <1>3 DEF DrainActive
  <2>2. phase \notin {"CLOSED", "EXITED"}
    BY <1>3
  <2> HIDE DEF j
  <2> QED BY <1>0, <2>1, <2>2, MappedProceed
<1>4. CASE acceptingWorkflows /\ r \notin activeWorkflows /\ activeWorkflows' = activeWorkflows \cup {r}
           /\ activeEmailJobs' = activeEmailJobs
  <2>1. w \notin DrainActive /\ DrainActive' = DrainActive \cup {w}
    BY <1>4 DEF DrainActive
  <2> HIDE DEF w
  <2> QED BY <1>0, <1>4, <2>1, MappedAdmit
<1>5. CASE acceptingWorkflows /\ r \notin activeEmailJobs /\ activeEmailJobs' = activeEmailJobs \cup {r}
           /\ activeWorkflows' = activeWorkflows
  <2>1. j \notin DrainActive /\ DrainActive' = DrainActive \cup {j}
    BY <1>5 DEF DrainActive
  <2> HIDE DEF j
  <2> QED BY <1>0, <1>5, <2>1, MappedAdmit
<1>6. CASE r \in activeWorkflows /\ activeWorkflows' = activeWorkflows /\ activeEmailJobs' = activeEmailJobs \cup {r}
  <2>1. w \in DrainActive /\ DrainActive' = DrainActive \cup {j}
    BY <1>6 DEF DrainActive
  <2>2. phase \notin {"CLOSED", "EXITED"}
    BY <1>6
  <2> HIDE DEF w, j
  <2> QED BY <1>0, <2>1, <2>2, MappedProceed
<1> HIDE DEF w, j
<1>7. CASE Refuse(r)
  <2>1. UNCHANGED <<activeWorkflows, activeEmailJobs>>
    BY <1>7 DEF Refuse, Go, activeWorkflows, activeEmailJobs, Steps
  <2> QED BY <1>1, <2>1
<1>8. CASE Reserve(r)
  <2>1. acceptingWorkflows /\ r \notin activeWorkflows /\ activeWorkflows' = activeWorkflows \cup {r}
        /\ activeEmailJobs' = activeEmailJobs
    BY <1>8, GoActive DEF Reserve, activeWorkflows, activeEmailJobs, Steps
  <2> QED BY <1>4, <2>1
<1>9. CASE RequestPasswordReset(r)
  <2>1. activeWorkflows' = activeWorkflows
    BY <1>9 DEF RequestPasswordReset, Go, activeWorkflows, Steps
  <2>2. activeEmailJobs' = activeEmailJobs \cup {r}
    BY <1>9, JobActive DEF RequestPasswordReset
  <2> QED BY <1>1, <1>5, <1>9, <2>1, <2>2 DEF RequestPasswordReset
<1>10. CASE CreateAccount(r) \/ WriteToken(r) \/ Release(r) \/ Fail(r)
  <2>1. r \in activeWorkflows /\ activeEmailJobs' = activeEmailJobs
    BY <1>10 DEF CreateAccount, WriteToken, Release, Fail, activeWorkflows, activeEmailJobs, Steps
  <2>2. PICK step : Go(r, step)
    BY <1>10 DEF CreateAccount, WriteToken, Release, Fail
  <2>3. activeWorkflows' = activeWorkflows \/ activeWorkflows' = activeWorkflows \ {r}
    <3>1. activeWorkflows' = IF step \in Steps THEN activeWorkflows \cup {r} ELSE activeWorkflows \ {r}
      BY <2>2, GoActive
    <3>2. activeWorkflows \cup {r} = activeWorkflows
      BY <2>1
    <3> QED BY <3>1, <3>2
  <2> QED BY <1>1, <1>2, <2>1, <2>3
<1>11. CASE EnqueueEmail(r)
  <2>1. r \in activeWorkflows
    BY <1>11 DEF EnqueueEmail, activeWorkflows, Steps
  <2>2. Go(r, "QUEUED") /\ job' = [job EXCEPT ![r] = "RUNNING"]
    BY <1>11, <2>1 DEF EnqueueEmail
  <2>3. activeWorkflows' = activeWorkflows
    <3>1. activeWorkflows' = activeWorkflows \cup {r}
      BY <2>2, GoActive DEF Steps
    <3>2. activeWorkflows \cup {r} = activeWorkflows
      BY <2>1
    <3> QED BY <3>1, <3>2
  <2>4. activeEmailJobs' = activeEmailJobs \cup {r}
    BY <2>2, JobActive
  <2> QED BY <1>6, <2>1, <2>3, <2>4
<1>12. CASE EndJob(r)
  <2>1. r \in activeEmailJobs /\ activeWorkflows' = activeWorkflows
    BY <1>12 DEF EndJob, activeWorkflows, activeEmailJobs
  <2>2. activeEmailJobs' = activeEmailJobs \ {r}
    BY <1>12 DEF EndJob, activeEmailJobs
  <2> QED BY <1>3, <2>1, <2>2
<1> QED BY <1>7, <1>8, <1>9, <1>10, <1>11, <1>12 DEF Serve

LEMMA MappedShutdown ==
  ASSUME DrainInv, DrainInv', BeginShutdown \/ Drained \/ Exit \/ Kill \/ Tick
  PROVE  [Graceful!DNext]_Graceful!dvars
<1> USE DEF Graceful!DNext, Graceful!dvars, DrainInv, gates
<1>0. workflow' = workflow /\ job' = job => activeWorkflows' = activeWorkflows /\ activeEmailJobs' = activeEmailJobs
  BY DEF activeWorkflows, activeEmailJobs
<1>1. CASE BeginShutdown
  BY <1>0, <1>1 DEF BeginShutdown, Graceful!CloseGate
<1>2. CASE WorkflowsSettled
  BY <1>0, <1>2 DEF WorkflowsSettled
<1>3. CASE EmailsSettled
  <2>1. activeEmailJobs = {} /\ activeWorkflows = {}
    BY <1>3 DEF EmailsSettled, StillActive
  <2> QED BY <1>0, <1>3, <2>1 DEF EmailsSettled, Graceful!EndCleanly
<1>4. CASE TimedOut
  <2>1. ({"workflow"} \X activeWorkflows) \cup ({"job"} \X activeEmailJobs) # {}
    <3>1. CASE activeWorkflows # {}
      <4>1. PICK r \in activeWorkflows : TRUE
        BY <3>1
      <4>2. <<"workflow", r>> \in {"workflow"} \X activeWorkflows
        OBVIOUS
      <4> QED BY <4>2
    <3>2. CASE activeEmailJobs # {}
      <4>1. PICK r \in activeEmailJobs : TRUE
        BY <3>2
      <4>2. <<"job", r>> \in {"job"} \X activeEmailJobs
        OBVIOUS
      <4> QED BY <4>2
    <3>3. activeWorkflows # {} \/ activeEmailJobs # {}
      BY <1>4 DEF TimedOut, StillActive
    <3> QED BY <3>1, <3>2, <3>3
  <2>2. ~acceptingWorkflows
    BY <1>4 DEF TimedOut, Waiting
  <2> QED BY <1>0, <1>4, <2>1, <2>2 DEF TimedOut, Graceful!GiveUp
<1>5. CASE Exit
  BY <1>0, <1>5 DEF Exit
<1>6. CASE Kill
  <2>1. activeWorkflows' = {} /\ activeEmailJobs' = {}
    BY <1>6 DEF Kill
  <2> QED BY <1>6, <2>1 DEF Kill, Graceful!Die
<1>7. CASE Tick
  BY <1>0, <1>7 DEF Tick, Waiting
<1> QED BY <1>1, <1>2, <1>3, <1>4, <1>5, <1>6, <1>7 DEF Drained

(* The two gates, the snapshots and the timers of auth.service.ts implement Drain. *)
THEOREM ImplementsDrain == Spec => ShutsDownGracefully
<1>1. Init => Graceful!DInit
  BY DEF Init, Graceful!DInit, activeWorkflows, activeEmailJobs, Steps
<1>2. DrainInv /\ DrainInv' /\ [Next]_vars => [Graceful!DNext]_Graceful!dvars
  <2>1. CASE UNCHANGED vars
    BY <2>1 DEF vars, gates, shutdown, Graceful!dvars, activeWorkflows, activeEmailJobs
  <2> QED BY <2>1, MappedServe, MappedShutdown DEF Next
<1> QED BY <1>1, <1>2, DrainInvariant, PTL DEF Spec, ShutsDownGracefully, Graceful!DSpec
=============================================================================
