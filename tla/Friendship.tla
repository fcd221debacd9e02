----------------------------- MODULE Friendship -----------------------------
(* Friendships as friends.service.ts keeps them.  A change is a transaction of   *)
(* two statements: it reads the row of the pair, lets the table of               *)
(* friendship.transitions.ts decide, and then writes on the condition that the   *)
(* row still has the id and the status it read.  Nothing is locked in between,   *)
(* so other changes of the same row may commit.  A row that is deleted and made  *)
(* again has a new id; a row that changes its status and changes it back is not  *)
(* told apart from one that never changed.                                       *)
EXTENDS Naturals, FiniteSets

CONSTANTS
  Users,
  Calls,       \* transactions that may be under way at once
  Actions,     \* what users do in this instance
  MaxRows,     \* bound on rows ever created
  NULL

ASSUME FriendshipAssumption ==
  /\ MaxRows \in Nat /\ NULL \notin Users
  /\ Actions \subseteq {"request", "accept", "decline", "remove", "block"}

Pairs == {p \in SUBSET Users : \E u, v \in p : u # v /\ p = {u, v}}

VARIABLES
  row,         \* the row of a pair
  call,        \* transactions between their read and their write
  created,     \* how many rows were ever created
  told,        \* notifications: to whom, of what, about which row
  asked        \* ghost: who has asked or agreed since the row exists

fvars == <<row, call, created, told, asked>>

NoRow == [id |-> 0, status |-> "NONE", requestedBy |-> NULL, blockedBy |-> NULL]
Idle == [actor |-> NULL]

Other(p, u) == CHOOSE v \in p : v # u

-----------------------------------------------------------------------------
(* friendship.transitions.ts and friendship.pair.ts *)

T(from, action, roles, kind, to) ==
  [from |-> from, action |-> action, roles |-> roles, kind |-> kind, to |-> to]

Roles == {"NONE", "REQUESTER", "RECIPIENT", "BLOCKER", "BLOCKED"}

Faulty_toAccept == {T({"PENDING"}, "accept", Roles, "update", "ACCEPTED")}   \* whoever asked, too

toAccept == {T({"PENDING"}, "accept", {"RECIPIENT"}, "update", "ACCEPTED")}
toDecline == {T({"PENDING"}, "decline", {"RECIPIENT"}, "update", "DECLINED")}
toRequest == {T({"NONE"}, "request", Roles, "create", "PENDING"),
              T({"DECLINED"}, "request", Roles, "update", "PENDING"),
              T({"PENDING"}, "request", {"RECIPIENT"}, "update", "ACCEPTED")}
toInvite == {T({"NONE"}, "invite", Roles, "create", "ACCEPTED"),
             T({"PENDING", "DECLINED"}, "invite", Roles, "update", "ACCEPTED"),
             T({"ACCEPTED"}, "invite", Roles, "unchanged", "ACCEPTED")}
toRemove == {T({"PENDING", "ACCEPTED", "DECLINED"}, "remove", Roles, "delete", "NONE")}
toBlock == {T({"NONE"}, "block", Roles, "create", "BLOCKED"),
            T({"PENDING", "ACCEPTED", "DECLINED"}, "block", Roles, "update", "BLOCKED")}

fromBlocked == {T({"BLOCKED"}, "remove", {"BLOCKER"}, "delete", "NONE")}

Transitions ==
  toRequest \cup toAccept \cup toDecline \cup toInvite \cup toRemove \cup toBlock \cup fromBlocked

actorRoleOf(r, actor) ==
  CASE r = NoRow -> "NONE"
    [] r.status = "BLOCKED" -> IF r.blockedBy = actor THEN "BLOCKER" ELSE "BLOCKED"
    [] OTHER -> IF r.requestedBy = actor THEN "REQUESTER" ELSE "RECIPIENT"

\* The row of the table that applies; the empty set is a refusal.
resolveTransition(r, action, actor) ==
  {t \in Transitions : /\ r.status \in t.from /\ t.action = action
                       /\ actorRoleOf(r, actor) \in t.roles}

-----------------------------------------------------------------------------
(* The first half of a transaction: locate, resolveTransition *)

\* What the transaction remembers of its read.  inv is the invitation that is accepted.
Read(actor, p, action, t, inv, retried) ==
  [actor |-> actor, pair |-> p, action |-> action, seen |-> row[p], does |-> t,
   inv |-> inv, retried |-> retried]

\* A change addressed to a person, or to a request that still exists: in both cases the
\* row is that of the pair.  A refused one and one that has nothing to do change nothing.
Begin(k, actor, p, action) ==
  /\ call[k] = Idle /\ actor \in p
  /\ action \in {"accept", "decline"} => row[p] # NoRow
  /\ \E t \in resolveTransition(row[p], action, actor) :
        call' = [call EXCEPT ![k] = Read(actor, p, action, t, NULL, FALSE)]
  /\ UNCHANGED <<row, created, told, asked>>

-----------------------------------------------------------------------------
(* The second half: the conditional write and the notifications *)

Unchanged(c) == row[c.pair].id = c.seen.id /\ row[c.pair].status = c.seen.status

Faulty_ConditionHolds(c) ==   \* update by id alone
  IF c.does.kind = "create" THEN row[c.pair] = NoRow ELSE row[c.pair].id = c.seen.id

\* The unique index on the pair, or the WHERE of the updateMany and deleteMany.
ConditionHolds(c) == IF c.does.kind = "create" THEN row[c.pair] = NoRow ELSE Unchanged(c)

\* requestedBy and blockedBy come from what was read, not from what is there.
After(c) ==
  LET to == c.does.to IN
  IF c.does.kind = "delete" THEN NoRow ELSE
  [id |-> IF c.does.kind = "create" THEN created + 1 ELSE c.seen.id,
   status |-> to,
   requestedBy |-> IF c.does.kind = "create" /\ c.action = "invite" THEN Other(c.pair, c.actor)
                   ELSE IF c.does.kind = "create" \/ to = "PENDING" THEN c.actor
                   ELSE c.seen.requestedBy,
   blockedBy |-> IF to = "BLOCKED" THEN c.actor ELSE c.seen.blockedBy]

\* A request and an agreement are told to the other side; a refusal or a block to nobody.
Notify(c, r) ==
  {n \in {[to |-> Other(c.pair, c.actor), of |-> r.status, about |-> r.id]} :
     r.status \in {"PENDING", "ACCEPTED"}}

\* Who has expressed a will: an invitation is the will of the inviter.
Voices(c) == CASE c.action = "invite" -> c.pair
               [] c.action \in {"request", "accept"} -> {c.actor}
               [] OTHER -> {}

Voiced(now, c) == IF c.does.kind \in {"create", "delete"} THEN Voices(c) ELSE now \cup Voices(c)

Write(c) ==
  LET r == After(c) IN
  /\ c.does.kind = "create" => created < MaxRows
  /\ row' = [row EXCEPT ![c.pair] = r]
  /\ created' = IF c.does.kind = "create" THEN created + 1 ELSE created
  /\ told' = told \cup Notify(c, r)
  /\ asked' = [asked EXCEPT ![c.pair] = Voiced(@, c)]

Finish(k) ==
  LET c == call[k] IN
  /\ c # Idle /\ c.inv = NULL /\ c.does.kind # "again"
  /\ ConditionHolds(c) /\ Write(c)
  /\ call' = [call EXCEPT ![k] = Idle]

\* runWithRetry: a violated unique index is tried once more, a lost update is not.
AfterConflict(c) ==
  IF c.does.kind = "create" /\ ~c.retried THEN [c EXCEPT !.does.kind = "again", !.retried = TRUE]
                                          ELSE Idle

\* assertSingleRow or the unique index: the transaction is rolled back.
Conflict(k) ==
  LET c == call[k] IN
  /\ c # Idle /\ c.inv = NULL /\ c.does.kind # "again" /\ ~ConditionHolds(c)
  /\ call' = [call EXCEPT ![k] = AfterConflict(c)]
  /\ UNCHANGED <<row, created, told, asked>>

\* The whole transaction is repeated, its read included.
Again(k) ==
  LET c == call[k]
      rows == resolveTransition(row[c.pair], c.action, c.actor)
  IN
  /\ c # Idle /\ c.does.kind = "again"
  /\ \/ \E t \in rows : call' = [call EXCEPT ![k] = Read(c.actor, c.pair, c.action, t, NULL, TRUE)]
     \/ rows = {} /\ call' = [call EXCEPT ![k] = Idle]
  /\ UNCHANGED <<row, created, told, asked>>

-----------------------------------------------------------------------------

FInit ==
  /\ row = [p \in Pairs |-> NoRow]
  /\ call = [k \in Calls |-> Idle]
  /\ created = 0 /\ told = {}
  /\ asked = [p \in Pairs |-> {}]

FNext ==
  \E k \in Calls :
     \/ \E p \in Pairs, actor \in Users, action \in Actions : Begin(k, actor, p, action)
     \/ Finish(k)
     \/ Conflict(k)
     \/ Again(k)

FSpec == FInit /\ [][FNext]_fvars

-----------------------------------------------------------------------------
(* Properties *)

RowType ==
  [id : 1..MaxRows, status : {"PENDING", "ACCEPTED", "DECLINED", "BLOCKED"},
   requestedBy : Users, blockedBy : Users \cup {NULL}]

\* Rows are as the columns and the CHECK friendship_block_author_valid allow: a blocker is
\* one of the pair and recorded exactly while the pair is blocked, and so is whoever asked.
FTypeOK ==
  /\ created \in 0..MaxRows
  /\ \A p \in Pairs : row[p] # NoRow =>
       /\ row[p] \in RowType /\ row[p].id <= created
       /\ row[p].requestedBy \in p
       /\ row[p].blockedBy \in p \cup {NULL}
       /\ row[p].status = "BLOCKED" <=> row[p].blockedBy # NULL

\* Nobody becomes a friend without ever having asked or agreed, whatever is read early and
\* written late (mutual requests, answers, invitations).
FriendsAgreed == \A p \in Pairs : row[p].status = "ACCEPTED" => asked[p] = p

\* Whoever has a request waiting, or a new friend, has been told by the transaction that
\* made it so.
AskedAreTold ==
  \A p \in Pairs :
     /\ row[p].status = "PENDING" =>
          [to |-> Other(p, row[p].requestedBy), of |-> "PENDING", about |-> row[p].id] \in told
     /\ row[p].status = "ACCEPTED" =>
          \E u \in p : [to |-> u, of |-> "ACCEPTED", about |-> row[p].id] \in told

\* A block stands until whoever set it removes it: no change read before it was set, and no
\* change of the other side, gets past it.
BlockStands ==
  [][\A p \in Pairs : row[p].status = "BLOCKED" /\ row'[p] # row[p] =>
        \E k \in Calls : /\ call[k] # Idle /\ call'[k] = Idle
                         /\ call[k].pair = p /\ call[k].action = "remove"
                         /\ call[k].actor = row[p].blockedBy]_fvars

\* Two people who ask each other at the same moment become friends: the one whose insert
\* fails does not give up while the other one's request is waiting for their answer.
MutualRequestsMeet ==
  [][\A k \in Calls :
        LET c == call[k] IN
        /\ c # Idle /\ call'[k] = Idle /\ c.action = "request"
        /\ c.does.kind = "again" \/ (c.seen = NoRow /\ ~c.retried)
        => ~ (row'[c.pair].status = "PENDING" /\ row'[c.pair].requestedBy # c.actor)]_fvars

\* All of it: nobody is a friend without having agreed, nor is asked without being told; a
\* block stands, and two who ask each other at once become friends.
FriendsAgree == [](FTypeOK /\ FriendsAgreed /\ AskedAreTold) /\ BlockStands /\ MutualRequestsMeet

=============================================================================
