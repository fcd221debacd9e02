---------------------------- MODULE TelegramLink ----------------------------
(* Linking a Telegram chat to an account (telegram-link.service.ts).  createLink, *)
(* consume and unlink are transactions that lock the row of a user and then rows  *)
(* of link tokens; a consume also takes the chat from whoever has it, whose row   *)
(* it has to lock as well.  Statements see what is committed when they start,     *)
(* wait for rows that others have locked and then look at them again; the         *)
(* changes of a transaction appear at its commit.                                 *)
EXTENDS Naturals, FiniteSets, Sequences

CONSTANTS
  Users, Chats, Tokens,
  Calls,               \* requests under way at once
  MaxAttempts,         \* MAX_CONSUME_ATTEMPTS
  NULL

TelegramAssumption == MaxAttempts \in Nat \ {0} /\ NULL \notin Users \cup Chats \cup Calls

VARIABLES
  chat,        \* User.telegramChatId
  link,        \* TelegramLinkToken: NONE, UNUSED, EXPIRED, USED or DELETED, and whose
  call,        \* transactions between two statements
  void         \* ghost: tokens that were there when their user unlinked the chat

vars == <<chat, link, call, void>>

NoLink == [state |-> "NONE", user |-> NULL]
Idle == [kind |-> "NONE", at |-> 0, user |-> NULL, token |-> NULL, chat |-> NULL,
         users |-> {}, tokens |-> {}, takes |-> NULL, attempt |-> 0]

UnusedOf(u) == {t \in Tokens : link[t].user = u /\ link[t].state \in {"UNUSED", "EXPIRED"}}

Begin(kind, u, t, c, attempt) ==
  [kind |-> kind, at |-> 1, user |-> u, token |-> t, chat |-> c,
   users |-> {}, tokens |-> {}, takes |-> NULL, attempt |-> attempt]

-----------------------------------------------------------------------------
(* What each transaction does, statement by statement *)

\* The same order of locks everywhere: the user, then the tokens.
Statements(kind) ==
  CASE kind = "create" -> <<"user", "burn", "commit">>
    [] kind = "consume" -> <<"user", "claim", "see", "take", "set", "commit">>
    [] kind = "unlink" -> <<"user", "burn", "commit">>

At(k, s) == call[k].kind # "NONE" /\ Statements(call[k].kind)[call[k].at] = s

HeldUser(k, u) == \E j \in Calls \ {k} : u \in call[j].users
HeldToken(k, t) == \E j \in Calls \ {k} : t \in call[j].tokens

\* Users whose column a transaction has written.
Written(j) ==
  (call[j].users \cap {call[j].takes}) \cup
  (IF call[j].kind = "unlink" \/ At(j, "commit") THEN call[j].users \cap {call[j].user} ELSE {})

\* The unique index makes a writer of the chat wait for others who give it or take it away.
Writing(k, c) ==
  {j \in Calls \ {k} :
     \/ At(j, "commit") /\ call[j].kind = "consume" /\ call[j].chat = c
     \/ \E u \in Written(j) : chat[u] = c}

Advance(k, upd) == call' = [call EXCEPT ![k] = [upd EXCEPT !.at = upd.at + 1]]
Stop(k) == call' = [call EXCEPT ![k] = Idle]

-----------------------------------------------------------------------------
(* Requests *)

Create(k, u, t) ==
  /\ call[k] = Idle /\ link[t] = NoLink /\ \A j \in Calls : call[j].token # t
  /\ call' = [call EXCEPT ![k] = Begin("create", u, t, NULL, 1)]
  /\ UNCHANGED <<chat, link, void>>

\* /start in a private chat; whose token it is is read without a lock.
Consume(k, t, c) ==
  /\ call[k] = Idle /\ link[t].state \notin {"NONE", "DELETED"}
  /\ call' = [call EXCEPT ![k] = Begin("consume", link[t].user, t, c, 1)]
  /\ UNCHANGED <<chat, link, void>>

\* TELEGRAM_NOT_LINKED at once when no row matches; nothing is locked then.
Unlink(k, u) ==
  /\ call[k] = Idle /\ chat[u] # NULL
  /\ call' = [call EXCEPT ![k] = Begin("unlink", u, NULL, NULL, 1)]
  /\ UNCHANGED <<chat, link, void>>

Expire(t) ==
  /\ link[t].state = "UNUSED" /\ link' = [link EXCEPT ![t].state = "EXPIRED"]
  /\ UNCHANGED <<chat, call, void>>

-----------------------------------------------------------------------------
(* Statements *)

MayLock(k, u) == ~HeldUser(k, u)

LockUser(k) ==
  LET c == call[k] IN
  /\ At(k, "user") /\ MayLock(k, c.user)
  /\ IF c.kind = "unlink" /\ chat[c.user] = NULL THEN Stop(k)      \* no row matches any more
     ELSE Advance(k, [c EXCEPT !.users = c.users \cup {c.user}])
  /\ UNCHANGED <<chat, link, void>>

Faulty_ToBurn(k) == IF call[k].kind = "unlink" THEN {} ELSE UnusedOf(call[k].user)

ToBurn(k) == UnusedOf(call[k].user)

\* deleteMany of the unused tokens.
BurnTokens(k) ==
  LET c == call[k] IN
  /\ At(k, "burn") /\ \A t \in ToBurn(k) : ~HeldToken(k, t)
  /\ Advance(k, [c EXCEPT !.tokens = ToBurn(k)])
  /\ UNCHANGED <<chat, link, void>>

\* The conditional update, with the time of the database under the lock.
Claim(k) ==
  LET c == call[k] IN
  /\ At(k, "claim") /\ ~HeldToken(k, c.token)
  /\ IF link[c.token] = [state |-> "UNUSED", user |-> c.user]
     THEN Advance(k, [c EXCEPT !.tokens = {c.token}])
     ELSE Stop(k)
  /\ UNCHANGED <<chat, link, void>>

Others(k) == {u \in Users \ {call[k].user} : chat[u] = call[k].chat}

\* updateMany of whoever has the chat: the row it finds ...
SeeHolder(k) ==
  /\ At(k, "see")
  /\ \E u \in IF Others(k) = {} THEN {NULL} ELSE Others(k) : Advance(k, [call[k] EXCEPT !.takes = u])
  /\ UNCHANGED <<chat, link, void>>

\* ... is locked and looked at again.
TakeChat(k) ==
  LET c == call[k] IN
  /\ At(k, "take") /\ (c.takes # NULL => ~HeldUser(k, c.takes))
  /\ LET still == c.takes # NULL /\ chat[c.takes] = c.chat IN
     Advance(k, IF still THEN [c EXCEPT !.users = c.users \cup {c.takes}]
                         ELSE [c EXCEPT !.takes = NULL])
  /\ UNCHANGED <<chat, link, void>>

\* A consume that lost a deadlock or the race for the chat is repeated from the start.
Retry(k) ==
  LET c == call[k] IN
  call' = [call EXCEPT ![k] =
     IF c.kind # "consume" \/ c.attempt = MaxAttempts THEN Idle
     ELSE Begin("consume", c.user, c.token, c.chat, c.attempt + 1)]

\* The unique index on the chat.
SetChat(k) ==
  LET c == call[k] IN
  /\ At(k, "set") /\ Writing(k, c.chat) = {}
  /\ IF Others(k) \ {c.takes} = {} THEN Advance(k, c) ELSE Retry(k)
  /\ UNCHANGED <<chat, link, void>>

Commit(k) ==
  LET c == call[k] IN
  /\ At(k, "commit") /\ Stop(k)
  /\ link' = [t \in Tokens |->
       CASE c.kind = "create" /\ t = c.token -> [state |-> "UNUSED", user |-> c.user]
         [] t \in c.tokens /\ c.kind = "consume" -> [link[t] EXCEPT !.state = "USED"]
         [] t \in c.tokens /\ c.kind # "consume" -> [link[t] EXCEPT !.state = "DELETED"]
         [] OTHER -> link[t]]
  /\ chat' = [u \in Users |->
       CASE u = c.user /\ c.kind = "consume" -> c.chat
         [] u = c.user /\ c.kind = "unlink" -> NULL
         [] u = c.takes -> NULL
         [] OTHER -> chat[u]]
  /\ void' = IF c.kind = "unlink" THEN void \cup {t \in Tokens : link[t].user = c.user} ELSE void

-----------------------------------------------------------------------------
(* Deadlocks *)

WaitsFor(k) ==
  {j \in Calls \ {k} :
     \/ At(k, "user") /\ call[k].user \in call[j].users
     \/ At(k, "take") /\ call[k].takes \in call[j].users
     \/ At(k, "claim") /\ call[k].token \in call[j].tokens
     \/ At(k, "burn") /\ ToBurn(k) \cap call[j].tokens # {}
     \/ At(k, "set") /\ j \in Writing(k, call[k].chat)}

\* Requests that wait for each other in a circle.
Stuck == {S \in SUBSET Calls : S # {} /\ \A k \in S : WaitsFor(k) \cap S # {}}

\* PostgreSQL ends one of them (40P01).
BreakDeadlock(k) ==
  /\ \E S \in Stuck : k \in S /\ Retry(k)
  /\ UNCHANGED <<chat, link, void>>

-----------------------------------------------------------------------------

Init ==
  /\ chat = [u \in Users |-> NULL] /\ link = [t \in Tokens |-> NoLink]
  /\ call = [k \in Calls |-> Idle] /\ void = {}

Statement(k) ==
  \/ LockUser(k) \/ BurnTokens(k) \/ Claim(k) \/ SeeHolder(k) \/ TakeChat(k) \/ SetChat(k)
  \/ Commit(k) \/ BreakDeadlock(k)

Next ==
  \/ \E t \in Tokens : Expire(t)
  \/ \E k \in Calls :
       \/ Statement(k)
       \/ \E u \in Users : Unlink(k, u) \/ \E t \in Tokens : Create(k, u, t)
       \/ \E t \in Tokens, c \in Chats : Consume(k, t, c)

Spec == Init /\ [][Next]_vars

-----------------------------------------------------------------------------

\* Only the last link works: however often and from however many windows it is asked for,
\* a user has one unused link at most.
OneLiveLink == \A u \in Users : Cardinality(UnusedOf(u)) <= 1

\* Whoever has unlinked the chat stays without one until they ask for a new link: a link
\* from before, half consumed or not, does not bring it back.
UnlinkStays ==
  [][\A u \in Users : chat'[u] \notin {chat[u], NULL} =>
        \E t \in Tokens \ void : link[t].user = u /\ link'[t].state = "USED" /\ link[t].state # "USED"]_vars

\* The one order of locks leaves a single kind of deadlock: consumers of different accounts
\* that take the chat from each other, or want the same one.
OnlyConsumersDeadlock ==
  \A j, k \in Calls : j \in WaitsFor(k) /\ k \in WaitsFor(j) =>
     call[j].kind = "consume" /\ call[k].kind = "consume" /\ call[j].user # call[k].user

\* One link works, none from before an unlinking does, and only consumers of two accounts
\* deadlock.
LinksAreFinal == [](OneLiveLink /\ OnlyConsumersDeadlock) /\ UnlinkStays

=============================================================================
