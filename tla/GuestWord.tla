----------------------------- MODULE GuestWord -----------------------------
(* What the confirmation of a guest hand-over promises, without links, codes,   *)
(* counters or clocks: only somebody who has just repeated a code sent to the   *)
(* address they claim may answer, one code and one proof are good at a time,    *)
(* and the owner has the last word.  GuestLink implements it.                   *)

CONSTANT Claims      \* an email address together with a nickname

VARIABLES
  status,      \* of the request
  invited,     \* the claim a usable code was sent to, if there is one
  proven       \* the claim that may answer, if there is one

wvars == <<status, invited, proven>>

Nobody == invited' = {} /\ proven' = {}

WInit == status = "OPEN" /\ invited = {} /\ proven = {}

\* A code is sent: whatever was sent or proven before is worthless.
Invite(e) == status = "OPEN" /\ invited' = {e} /\ proven' = {} /\ UNCHANGED status

\* The one who has the code repeats it.
Prove(e) == e \in invited /\ invited' = {} /\ proven' = {e} /\ UNCHANGED status

\* Time, wrong guesses, failed mails and new links only take away.
Lapse == invited' \subseteq invited /\ proven' \subseteq proven /\ UNCHANGED status

Answer(e, answer) == status = "OPEN" /\ e \in proven /\ status' = answer /\ Nobody

Decide(decision) == status \in {"OPEN", "DENIED"} /\ status' = decision /\ Nobody

WNext ==
  \/ \E e \in Claims : Invite(e) \/ Prove(e)
  \/ Lapse
  \/ \E e \in Claims, answer \in {"RECEIVED", "DENIED"} : Answer(e, answer)
  \/ \E decision \in {"CANCELLED", "OWNER_RECORDED"} : Decide(decision)

WSpec == WInit /\ [][WNext]_wvars

=============================================================================
