--------------------------- MODULE PasswordReset ---------------------------
(* The tokens that reset the password of one account and the sessions a reset    *)
(* ends (auth.service.ts, session.service.ts, session-cleanup.service.ts).        *)
(* confirmPasswordReset is one transaction of five statements; each UPDATE works   *)
(* on the rows committed when it starts, waits for rows another transaction has    *)
(* written and then looks at their columns again, and what it writes stays locked  *)
(* until the commit.  Everything else here is a single statement.  A login reads   *)
(* the account, takes its time over the password and then writes a session.  Of    *)
(* time it only matters that any unused token may expire.                          *)
EXTENDS Naturals, FiniteSets

CONSTANTS
  Tokens, Sessions,
  Calls,        \* confirmations and logins that may be under way at once
  NULL

ResetAssumption == NULL \notin Calls /\ Tokens \cap Sessions = {}

VARIABLES
  token,        \* NONE, UNUSED, USED, EXPIRED (and unused) or DELETED
  session,      \* NONE, LIVE or REVOKED
  call,         \* confirmations and logins between two statements
  userLock,     \* the transaction that has written the row of the account
  resets,       \* ghost: the tokens that set the password, a bag
  tokenSweeps, sessionSweeps,   \* ghost: what the UPDATEs of a reset under way have seen
  overdue       \* ghost: tokens and sessions a committed reset should have ended

vars == <<token, session, call, userLock, resets, tokenSweeps, sessionSweeps, overdue>>
ghosts == <<resets, tokenSweeps, sessionSweeps, overdue>>

Idle == [step |-> "IDLE", token |-> NULL, holds |-> {}, ends |-> {}]

\* usedAt IS NULL
Unspent(t) == token[t] \in {"UNUSED", "EXPIRED"}
Live == {s \in Sessions : session[s] = "LIVE"}

\* A row that another transaction has written and not committed.
HeldFrom(k, t) == \E j \in Calls \ {k} : t \in call[j].holds

-----------------------------------------------------------------------------
(* Single statements *)

\* processPasswordReset, in the background; it locks nothing.
RequestReset(t) ==
  /\ token[t] = "NONE" /\ token' = [token EXCEPT ![t] = "UNUSED"]
  /\ UNCHANGED <<session, call, userLock, ghosts>>

Expire(t) ==
  /\ token[t] = "UNUSED" /\ token' = [token EXCEPT ![t] = "EXPIRED"]
  /\ UNCHANGED <<session, call, userLock, ghosts>>

\* SessionCleanupService.run waits for the rows it deletes.
CleanUp(t) ==
  /\ token[t] = "EXPIRED" /\ \A k \in Calls : t \notin call[k].holds
  /\ token' = [token EXCEPT ![t] = "DELETED"]
  /\ UNCHANGED <<session, call, userLock, ghosts>>

\* login: the password is right as read; the session is written later.
CheckPassword(k) ==
  /\ call[k] = Idle /\ call' = [call EXCEPT ![k].step = "CHECKED"]
  /\ UNCHANGED <<token, session, userLock, ghosts>>

OpenSession(k, s) ==
  /\ call[k].step = "CHECKED" /\ session[s] = "NONE"
  /\ session' = [session EXCEPT ![s] = "LIVE"]
  /\ call' = [call EXCEPT ![k] = Idle]
  /\ UNCHANGED <<token, userLock, ghosts>>

\* logout, and the end of a session's time.
RevokeOne(s) ==
  /\ session[s] = "LIVE" /\ session' = [session EXCEPT ![s] = "REVOKED"]
  /\ UNCHANGED <<token, call, userLock, ghosts>>

-----------------------------------------------------------------------------
(* confirmPasswordReset, statement by statement *)

FindToken(k, t) ==
  /\ call[k] = Idle /\ token[t] = "UNUSED"
  /\ call' = [call EXCEPT ![k] = [Idle EXCEPT !.step = "FOUND", !.token = t]]
  /\ UNCHANGED <<token, session, userLock, ghosts>>

Faulty_Claimable(t) == TRUE     \* usedAt is checked by the read alone

Claimable(t) == Unspent(t)

\* The conditional update: one of several that use the token at once gets it.
Claim(k) ==
  LET t == call[k].token IN
  /\ call[k].step = "FOUND" /\ ~HeldFrom(k, t)
  /\ call' = [call EXCEPT ![k] = IF Claimable(t) THEN [@ EXCEPT !.step = "CLAIMED", !.holds = {t}]
                                                 ELSE Idle]
  /\ UNCHANGED <<token, session, userLock, ghosts>>

SetPassword(k) ==
  /\ call[k].step = "CLAIMED" /\ userLock = NULL
  /\ userLock' = k /\ call' = [call EXCEPT ![k].step = "PASSWORD"]
  /\ UNCHANGED <<token, session, ghosts>>

\* The rest of the account's tokens: those the statement sees when it starts ...
StartBurning(k) ==
  LET seen == {t \in Tokens : Unspent(t)} \ {call[k].token} IN
  /\ call[k].step = "PASSWORD"
  /\ call' = [call EXCEPT ![k].step = "BURNING", ![k].ends = seen]
  /\ tokenSweeps' = seen
  /\ UNCHANGED <<token, session, userLock, resets, sessionSweeps, overdue>>

Faulty_ToBurn(k) == {}

ToBurn(k) == {t \in call[k].ends : Unspent(t)}

Faulty_Burn(k) ==   \* through another connection than the transaction's
  /\ call[k].step = "BURNING"
  /\ \A t \in Tokens, j \in Calls : Unspent(t) => t \notin call[j].holds
  /\ call' = [call EXCEPT ![k] = [@ EXCEPT !.step = "BURNT", !.ends = {}]]
  /\ UNCHANGED <<token, session, userLock, ghosts>>

\* ... and, once nobody else holds one of them, those that are still unused.
Burn(k) ==
  /\ call[k].step = "BURNING" /\ \A t \in call[k].ends : ~HeldFrom(k, t)
  /\ call' = [call EXCEPT ![k].step = "BURNT", ![k].holds = @ \cup ToBurn(k), ![k].ends = {}]
  /\ UNCHANGED <<token, session, userLock, ghosts>>

ToRevoke == Live

RevokeAll(k) ==
  /\ call[k].step = "BURNT"
  /\ call' = [call EXCEPT ![k].step = "REVOKING", ![k].ends = ToRevoke]
  /\ sessionSweeps' = Live
  /\ UNCHANGED <<token, session, userLock, resets, tokenSweeps, overdue>>

Commit(k) ==
  LET c == call[k] IN
  /\ c.step = "REVOKING"
  /\ token' = [t \in Tokens |-> IF t \in c.holds THEN "USED" ELSE token[t]]
  /\ session' = [s \in Sessions |-> IF s \in c.ends THEN "REVOKED" ELSE session[s]]
  /\ userLock' = NULL /\ call' = [call EXCEPT ![k] = Idle]
  /\ resets' = [resets EXCEPT ![c.token] = @ + 1]
  /\ overdue' = overdue \cup tokenSweeps \cup sessionSweeps
  /\ UNCHANGED <<tokenSweeps, sessionSweeps>>

\* Whom a transaction waits for.
WaitsFor(k) ==
  {j \in Calls \ {k} :
     \/ call[k].step = "CLAIMED" /\ userLock = j
     \/ call[k].step = "FOUND" /\ call[k].token \in call[j].holds
     \/ call[k].step = "BURNING" /\ call[k].ends \cap call[j].holds # {}}

\* PostgreSQL ends one of two transactions that wait for each other: two tokens of one
\* account used at the same time, one held by each.
BreakDeadlock(k) ==
  /\ \E j \in WaitsFor(k) : k \in WaitsFor(j)
  /\ call' = [call EXCEPT ![k] = Idle]
  /\ userLock' = IF userLock = k THEN NULL ELSE userLock
  /\ UNCHANGED <<token, session, ghosts>>

-----------------------------------------------------------------------------

Init ==
  /\ token = [t \in Tokens |-> "NONE"] /\ session = [s \in Sessions |-> "NONE"]
  /\ call = [k \in Calls |-> Idle] /\ userLock = NULL
  /\ resets = [t \in Tokens |-> 0]
  /\ tokenSweeps = {} /\ sessionSweeps = {} /\ overdue = {}

Confirm(k) ==
  \/ Claim(k) \/ SetPassword(k) \/ StartBurning(k) \/ Burn(k) \/ RevokeAll(k) \/ Commit(k)
  \/ BreakDeadlock(k)

Next ==
  \/ \E t \in Tokens : RequestReset(t) \/ Expire(t) \/ CleanUp(t)
  \/ \E s \in Sessions : RevokeOne(s)
  \/ \E k \in Calls : \/ CheckPassword(k) \/ Confirm(k)
                      \/ \E s \in Sessions : OpenSession(k, s)
                      \/ \E t \in Tokens : FindToken(k, t)

Spec == Init /\ [][Next]_vars

\* A transaction's next statement is sent and answered, and a row lock goes to those who
\* wait for it in the order they came: a deadlock's victim that tries again, and again,
\* does not overtake the other for ever.
FairSpec == Spec /\ \A k \in Calls : SF_vars(Confirm(k))

-----------------------------------------------------------------------------
(* Properties *)

\* Tokens and calls are well formed, and the row of the account is locked exactly by a
\* transaction between its second statement and its end.
TypeOK ==
  /\ token \in [Tokens -> {"NONE", "UNUSED", "USED", "EXPIRED", "DELETED"}]
  /\ session \in [Sessions -> {"NONE", "LIVE", "REVOKED"}]
  /\ userLock \in Calls \cup {NULL}
  /\ \A k \in Calls : /\ call[k].token \in Tokens \cup {NULL}
                      /\ call[k].holds \subseteq Tokens
                      /\ call[k].ends \subseteq Tokens \cup Sessions
                      /\ userLock = k <=> call[k].step \in {"PASSWORD", "BURNING", "BURNT", "REVOKING"}

\* A token sets the password once, however many use it at the same time.
SingleUse == \A t \in Tokens : resets[t] <= 1

\* What was there when a reset ended the others is over once it commits: no token, and no
\* session, that its statements saw is good afterwards, whatever was used, expired or was
\* cleaned up meanwhile.
ResetEndsTheRest ==
  /\ \A t \in Tokens \cap overdue : ~Unspent(t)
  /\ \A s \in Sessions \cap overdue : session[s] # "LIVE"

\* One use and no survivor, of well-formed rows.
ResetIsFinal == TypeOK /\ SingleUse /\ ResetEndsTheRest

\* Every confirmation that has taken its token ends, two tokens of one account used at the
\* same time included: each waits for a row of the other then, and one is sacrificed.
ConfirmationsEnd == \A k \in Calls : call[k].step = "CLAIMED" ~> call[k] = Idle

=============================================================================
