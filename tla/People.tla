------------------------------- MODULE People -------------------------------
(* Friendships and invitations, and beside them what else concerns people and     *)
(* their accounts: invitations by mail, Telegram chats, the reset of a password.   *)
(* They have users, requests and tokens in common, and no state.                   *)
EXTENDS Invitations

CONSTANTS
  Recipients, PerUser, PerRecipient, Day, Week, MaxMails, EndOfTime,
  Chats, MaxAttempts,
  Tokens,                        \* of links to a chat, and of resets
  Sessions

VARIABLES
  clock, mails, request,
  chat, tokenOf, linking, void,
  token, session, reset, userLock, resets, tokenSweeps, sessionSweeps, overdue

mailing == <<clock, mails, request>>
telegram == <<chat, tokenOf, linking, void>>
password == <<token, session, reset, userLock, resets, tokenSweeps, sessionSweeps, overdue>>

Mails == INSTANCE InviteMails WITH MaxRows <- MaxMails
Telegram == INSTANCE TelegramLink WITH link <- tokenOf, call <- linking
Password == INSTANCE PasswordReset WITH call <- reset

-----------------------------------------------------------------------------
(* Properties *)

\* Mails: no more than allowed to anybody and by anybody.
LimitsHold == Mails!LimitsHold

\* Telegram: one link works, none from before an unlinking does, and only consumers of two
\* accounts deadlock.
LinksAreFinal == Telegram!LinksAreFinal

\* Password reset: a token works once, and ends what was there before.
ResetIsFinal == Password!ResetIsFinal
=============================================================================
