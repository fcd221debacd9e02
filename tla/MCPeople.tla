------------------------------ MODULE MCPeople ------------------------------
(* What users and processes do to friendships, invitations and accounts, for TLC:  *)
(* five scenarios, one in each part.                                                *)

EXTENDS People, TLC

CONSTANTS ann, bob, eve, kim, link, k1, k2, t1, t2, t3, s1, s2, c1, c2

VARIABLE part

EveInvites == [i \in Invites |-> eve]
Once == [i \in Invites |-> 1]

ASSUME Mails!MailAssumption /\ Telegram!TelegramAssumption /\ Password!ResetAssumption

PInit ==
  /\ IInit /\ Mails!Init /\ Telegram!Init /\ Password!Init
  /\ part \in {"FRIENDS", "INVITES", "MAILS", "TELEGRAM", "RESET"}

\* Two friends use every action; an inviter and two others request, block and accept.
TakesPart ==
  \A k \in Calls : call[k] # Idle =>
     IF part = "FRIENDS" THEN call[k].pair = {ann, bob}
     ELSE eve \in call[k].pair /\ call[k].action \in {"invite", "request", "block"}

\* A user sends one mail a day, a recipient gets two a week; only ann and bob send any, or
\* have a chat.
OfTwo(u) == u \notin Users \ {ann, bob}

PNext ==
  /\ UNCHANGED part
  /\ \/ part = "FRIENDS" /\ FNext /\ TakesPart' /\ UNCHANGED <<state, acceptances>>
        /\ UNCHANGED <<mailing, telegram, password>>
     \/ part = "INVITES" /\ INext /\ TakesPart'
        /\ UNCHANGED <<mailing, telegram, password>>
     \/ part = "MAILS" /\ Mails!Next /\ (\A k \in Calls : OfTwo(request'[k].user))
        /\ UNCHANGED <<ivars, telegram, password>>
     \/ part = "TELEGRAM" /\ Telegram!Next /\ (\A k \in Calls : OfTwo(linking'[k].user))
        /\ UNCHANGED <<ivars, mailing, password>>
     \/ part = "RESET" /\ Password!Next /\ UNCHANGED <<ivars, mailing, telegram>>

PSpec == PInit /\ [][PNext]_<<part, ivars, mailing, telegram, password>>

\* Ann and bob may be swapped, and requests of every kind.
PeopleSymmetry == Permutations({ann, bob}) \cup Permutations(Calls)

=============================================================================
