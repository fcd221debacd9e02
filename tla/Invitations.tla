---------------------------- MODULE Invitations ----------------------------
(* Invitations (invitations.service.ts) on top of friendships: whoever has the   *)
(* link of an invitation becomes a friend of the inviter when they accept.  An   *)
(* acceptance locks the row of the invitation, checks it and counts its uses     *)
(* under the lock, and then makes the friendship in the same transaction with    *)
(* the two statements of Friendship.                                             *)
EXTENDS Friendship

CONSTANTS
  Invites,
  InviterOf,       \* Invites -> Users
  MaxUses          \* Invites -> Nat: one for a mail, ten for a link

ASSUME InvitationAssumption ==
  /\ InviterOf \in [Invites -> Users] /\ MaxUses \in [Invites -> Nat \ {0}]
  /\ NULL \notin Invites

VARIABLES
  state,           \* of an invitation, apart from its uses
  acceptances      \* who has accepted it

ivars == <<row, call, created, told, asked, state, acceptances>>

-----------------------------------------------------------------------------

\* createLink, createEmail: before it is created nobody has its token.
Create(i) ==
  /\ state[i] = "NONE" /\ state' = [state EXCEPT ![i] = "OPEN"]
  /\ UNCHANGED <<acceptances, fvars>>

Faulty_Locked(i) == FALSE

\* SELECT ... FOR UPDATE: held from the first statement to the end of the transaction.
Locked(i) == \E k \in Calls : call[k] # Idle /\ call[k].inv = i

\* revoke, and the update after a mail that could not be sent.
Revoke(i) ==
  /\ state[i] \in {"OPEN", "EXPIRED"} /\ ~Locked(i)
  /\ state' = [state EXCEPT ![i] = "REVOKED"]
  /\ UNCHANGED <<acceptances, fvars>>

\* expiresAt passes, lock or no lock.
Expire(i) ==
  /\ state[i] = "OPEN" /\ state' = [state EXCEPT ![i] = "EXPIRED"]
  /\ UNCHANGED <<acceptances, fvars>>

\* invitationStatusOf = ACTIVE, under the lock.
Active(i) == state[i] = "OPEN" /\ Cardinality(acceptances[i]) < MaxUses[i]

\* acceptOnce up to the read of the friendship.  An invitation of one's own, a repeated
\* acceptance, a pair that is blocked and friends already change nothing.
BeginAccept(k, u, i) ==
  LET p == {u, InviterOf[i]} IN
  /\ call[k] = Idle /\ u # InviterOf[i]
  /\ ~Locked(i) /\ Active(i) /\ u \notin acceptances[i]
  /\ \E t \in resolveTransition(row[p], "invite", u) :
        /\ t.kind # "unchanged"
        /\ call' = [call EXCEPT ![k] = Read(u, p, "invite", t, i, FALSE)]
  /\ UNCHANGED <<row, created, told, asked, state, acceptances>>

RecordAcceptance(c) == acceptances' = [acceptances EXCEPT ![c.inv] = @ \cup {c.actor}]

\* The friendship and the acceptance are committed together.
FinishAccept(k) ==
  LET c == call[k] IN
  /\ c # Idle /\ c.inv # NULL
  /\ ConditionHolds(c) /\ Write(c)
  /\ RecordAcceptance(c)
  /\ call' = [call EXCEPT ![k] = Idle]
  /\ UNCHANGED state

\* A conflict is a refusal.  Of a failed insert the whole transaction is repeated, the lock
\* and all checks included: that is another BeginAccept, which may also come too late.
AbortAccept(k) ==
  /\ call[k] # Idle /\ call[k].inv # NULL /\ ~ConditionHolds(call[k])
  /\ call' = [call EXCEPT ![k] = Idle]
  /\ UNCHANGED <<row, created, told, asked, state, acceptances>>

-----------------------------------------------------------------------------

IInit == FInit /\ state = [i \in Invites |-> "NONE"] /\ acceptances = [i \in Invites |-> {}]

INext ==
  \/ FNext /\ UNCHANGED <<state, acceptances>>
  \/ \E i \in Invites : Create(i) \/ Revoke(i) \/ Expire(i)
  \/ \E k \in Calls : \/ \E u \in Users, i \in Invites : BeginAccept(k, u, i)
                      \/ FinishAccept(k)
                      \/ AbortAccept(k)

ISpec == IInit /\ [][INext]_ivars

-----------------------------------------------------------------------------

\* An invitation makes no more friendships than it has uses, however many people accept it
\* at once: the uses counted are the friendships made.
UsesAreBounded == \A i \in Invites : Cardinality(acceptances[i]) <= MaxUses[i]

\* After a revocation nobody gets in, an acceptance already under way included.
RevocationIsFinal ==
  [][\A i \in Invites : state[i] = "REVOKED" => acceptances'[i] = acceptances[i]]_ivars

\* A use is spent on nothing but a friendship that was not there and now is.
UsesMakeFriends ==
  [][\A i \in Invites : \A u \in acceptances'[i] \ acceptances[i] :
        LET p == {u, InviterOf[i]} IN
        row[p].status # "ACCEPTED" /\ row'[p].status = "ACCEPTED"]_ivars

\* The uses are counted, final after a revocation, and make friends.
InvitationsAreSpent == []UsesAreBounded /\ RevocationIsFinal /\ UsesMakeFriends

=============================================================================
