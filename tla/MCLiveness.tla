----------------------------- MODULE MCLiveness -----------------------------
(* What must happen in the end, for TLC: the end of a shutdown, of a confirmation  *)
(* of a password reset and of a request for an invitation by mail, one in each     *)
(* part.  No symmetry: it is not sound for liveness.                               *)

EXTENDS AuthShutdown, TLC

CONSTANTS ann, bob, eve, mail, reset, t1, t2, s1, k1, k2, NULL

VARIABLES
  part,
  token, session, call, userLock, resets, tokenSweeps, sessionSweeps, overdue,
  clock, mails, request

password == <<token, session, call, userLock, resets, tokenSweeps, sessionSweeps, overdue>>
invites == <<clock, mails, request>>

\* The address may have an account before.
Kind == ann :> "register" @@ mail :> "resend" @@ reset :> "reset"
OneAddress == [r \in Requests |-> "ann"]

Password == INSTANCE PasswordReset WITH Tokens <- {t1, t2}, Sessions <- {s1}, Calls <- {k1, k2}

Invites == INSTANCE InviteMails WITH
  Users <- {ann, bob}, Recipients <- {eve}, Calls <- {k1, k2}, PerUser <- 2, PerRecipient <- 1,
  Day <- 1, Week <- 2, MaxRows <- 2, EndOfTime <- 1

LvInit ==
  /\ Init /\ Password!Init /\ Invites!Init
  /\ part \in {"SHUTDOWN", "RESET", "INVITES"}

LvNext ==
  /\ UNCHANGED part
  /\ \/ part = "SHUTDOWN" /\ Next /\ UNCHANGED <<password, invites>>
     \/ part = "RESET" /\ Password!Next /\ UNCHANGED <<vars, invites>>
     \/ part = "INVITES" /\ Invites!Next /\ UNCHANGED <<vars, password>>

\* The fairness of the three specifications, each in its own part.
LvFairness ==
  /\ WF_vars(part = "SHUTDOWN" /\ Drained) /\ WF_vars(part = "SHUTDOWN" /\ Tick)
  /\ \A k \in {k1, k2} :
       /\ SF_password(part = "RESET" /\ Password!Confirm(k))
       /\ SF_invites(part = "INVITES" /\ Invites!Work(k))

LvSpec == LvInit /\ [][LvNext]_<<vars, password, invites, part>> /\ LvFairness

\* What the other two modules say must end: confirmations and requests.
ConfirmationsEnd == Password!ConfirmationsEnd
RequestsEnd == Invites!RequestsEnd

=============================================================================
