-------------------------- MODULE GuestLinkProofs --------------------------
(* Theorems about GuestLink for all limits, times to live, claims and codes:     *)
(* an answer is a proven one, GuestLink implements GuestWord, guesses and mails  *)
(* stay within their limits, and a failed mail takes back only what it carried.  *)
(*                                                                               *)
(* The argument: whatever secrets the row holds are those of the last link and   *)
(* of the last code ever issued (LinkIsLast, CodeIsLast, ProofIsLast), because a *)
(* new link, a new code and every resolution overwrite all that was there; and   *)
(* the counters beside them are those of the history (Counted), whose windows    *)
(* never overlap (WindowsApart), so a stretch as long as a window meets two at   *)
(* most.                                                                         *)

EXTENDS GuestLink, SequenceTheorems, FiniteSetTheorems, TLAPS

USE LimitsAssumption

\* Changing one entry of the log, as VerifyCode does, changes nothing else in it.
LEMMA LogUpdate ==
  ASSUME NEW s \in Seq(LogEntry), s # <<>>, NEW x \in LogEntry
  PROVE  /\ [s EXCEPT ![Len(s)] = x] \in Seq(LogEntry) /\ [s EXCEPT ![Len(s)] = x] # <<>>
         /\ Len([s EXCEPT ![Len(s)] = x]) = Len(s)
         /\ [s EXCEPT ![Len(s)] = x][Len(s)] = x
<1>1. Len(s) \in 1..Len(s)
  BY EmptySeq
<1>2. /\ [s EXCEPT ![Len(s)] = x] \in Seq(LogEntry) /\ Len([s EXCEPT ![Len(s)] = x]) = Len(s)
      /\ \A j \in 1..Len(s) : [s EXCEPT ![Len(s)] = x][j] = IF j = Len(s) THEN x ELSE s[j]
  BY <1>1, ExceptSeq
<1>3. [s EXCEPT ![Len(s)] = x] # <<>>
  BY <1>1, <1>2, EmptySeq
<1> QED
  BY <1>1, <1>2, <1>3

LEMMA InitInv == Init => LinkInv
BY EmptySeq DEF Init, LinkInv, Typed, LinkIsLast, CodeIsLast, ProofIsLast, ResolvedIsSealed,
   AnswerIsProven, NoLink, NoLimits, NoChallenge

\* Replacing the link, by a new one or by none, leaves nothing that could be out of date.
LEMMA ReplacedLink ==
  ASSUME LinkInv, NEW new \in [token : Nat, expiresAt : Nat], ReplaceLink(new),
         new # NoLink => new.token = linksIssued' /\ new.token # 0,
         now' \in Nat, linksIssued' \in Nat, lookedUp' \subseteq Nat \ {0}, UNCHANGED log
  PROVE  LinkIsLast' /\ CodeIsLast' /\ ProofIsLast'
         /\ (contact' \in [guestEmail : Claims \cup {NULL}, verifiedAt : Nat \cup {NULL},
                           ghostLink : Nat, answeredAt : Nat] => Typed')
BY DEF LinkInv, Typed, LinkIsLast, CodeIsLast, ProofIsLast, ReplaceLink, NoChallenge, NoLimits

LEMMA IssueLinkInv == ASSUME LinkInv, NEW delivery, IssueLink(delivery) PROVE LinkInv'
<1> DEFINE new == [token |-> linksIssued + 1, expiresAt |-> now + LinkTTL]
<1>1. new \in [token : Nat, expiresAt : Nat] /\ new.token = linksIssued' /\ new.token # 0
  BY DEF IssueLink, history, LinkInv, Typed
<1>2. Typed' /\ LinkIsLast' /\ CodeIsLast' /\ ProofIsLast'
  <2>1. ReplaceLink(new) /\ UNCHANGED <<now, contact, lookedUp, log>> /\ linksIssued' = linksIssued + 1
    BY DEF IssueLink, history
  <2> HIDE DEF new
  <2>2. contact' \in [guestEmail : Claims \cup {NULL}, verifiedAt : Nat \cup {NULL},
                      ghostLink : Nat, answeredAt : Nat]
        /\ now' \in Nat /\ linksIssued' \in Nat /\ lookedUp' \subseteq Nat \ {0}
    BY <2>1 DEF LinkInv, Typed
  <2> QED
    BY <1>1, <2>1, <2>2, ReplacedLink
<1>3. ResolvedIsSealed' /\ AnswerIsProven'
  BY DEF IssueLink, history, LinkInv, ResolvedIsSealed, AnswerIsProven
<1> QED
  BY <1>2, <1>3 DEF LinkInv

LEMMA OwnerDecidesInv ==
  ASSUME LinkInv, NEW decision \in {"CANCELLED", "OWNER_RECORDED"}, OwnerDecides(decision)
  PROVE  LinkInv'
<1>1. ReplaceLink(NoLink) /\ UNCHANGED <<now, contact, lookedUp, linksIssued, log>>
  BY DEF OwnerDecides, history
<1>2. Typed' /\ LinkIsLast' /\ CodeIsLast' /\ ProofIsLast'
  <2>1. NoLink \in [token : Nat, expiresAt : Nat]
    BY DEF NoLink
  <2>2. contact' \in [guestEmail : Claims \cup {NULL}, verifiedAt : Nat \cup {NULL},
                      ghostLink : Nat, answeredAt : Nat]
        /\ now' \in Nat /\ linksIssued' \in Nat /\ lookedUp' \subseteq Nat \ {0}
    BY <1>1 DEF LinkInv, Typed
  <2> QED
    BY <1>1, <2>1, <2>2, ReplacedLink
<1>3. ResolvedIsSealed'
  BY DEF OwnerDecides, history, ReplaceLink, ResolvedIsSealed
<1>4. AnswerIsProven'
  BY <1>1 DEF LinkInv, AnswerIsProven, Last
<1> QED
  BY <1>2, <1>3, <1>4 DEF LinkInv

LEMMA FindByTokenInv == ASSUME LinkInv, FindByToken PROVE LinkInv'
BY DEF FindByToken, history, row, LinkInv, Typed, LinkIsLast, CodeIsLast, ProofIsLast, ResolvedIsSealed,
   AnswerIsProven, Last

LEMMA TickInv == ASSUME LinkInv, Tick PROVE LinkInv'
BY DEF Tick, history, row, LinkInv, Typed, LinkIsLast, CodeIsLast, ProofIsLast, ResolvedIsSealed,
   AnswerIsProven, Last

LEMMA MailEndsInv == ASSUME LinkInv, NEW m, MailEnds(m) PROVE LinkInv'
BY DEF MailEnds, history, row, LinkInv, Typed, LinkIsLast, CodeIsLast, ProofIsLast, ResolvedIsSealed,
   AnswerIsProven, Last

\* What a failed mail takes back leaves either nothing or the old row.
LEMMA MailFailsInv == ASSUME LinkInv, NEW m, MailFails(m) PROVE LinkInv'
<1>1. UNCHANGED <<now, status, contact, lookedUp, linksIssued, log>>
      /\ (link' = link \/ link' = NoLink) /\ (challenge' = challenge \/ challenge' = NoChallenge)
      /\ (link' = NoLink => link = NoLink \/ challenge' = NoChallenge)
      /\ (limits' = limits \/ limits' = NoLimits)
  BY DEF MailFails, history, ReplaceLink
<1>2. Typed'
  BY <1>1 DEF LinkInv, Typed, NoLink, NoChallenge, NoLimits
<1>3. LinkIsLast' /\ CodeIsLast' /\ ProofIsLast'
  BY <1>1 DEF LinkInv, LinkIsLast, CodeIsLast, ProofIsLast, Last, NoChallenge
<1>4. ResolvedIsSealed' /\ AnswerIsProven'
  BY <1>1 DEF LinkInv, ResolvedIsSealed, AnswerIsProven, Last
<1> QED
  BY <1>2, <1>3, <1>4 DEF LinkInv

LEMMA RequestCodeInv ==
  ASSUME LinkInv, NEW token \in lookedUp, NEW e \in Claims, NEW code \in Codes,
         RequestCode(token, e, code)
  PROVE  LinkInv'
<1> DEFINE window == IF WindowOpen THEN limits.windowStartedAt ELSE now
           entry == [link |-> token, claim |-> e, at |-> now, window |-> window, wrong |-> 0,
                     verifiedAt |-> NULL]
<1>1. UNCHANGED <<now, status, link, contact, lookedUp, linksIssued>>
      /\ status = "OPEN" /\ link.token = token
      /\ challenge' = NewChallenge(e, code, Len(log) + 1) /\ log' = Append(log, entry)
  BY DEF RequestCode, LockOwnRow
<1>2. window \in Nat
  BY DEF LinkInv, Typed, WindowOpen
<1>3. limits' \in [failedTotal : Nat, sentCount : Nat, windowStartedAt : Nat \cup {NULL}]
  <2> DEFINE sent == IF WindowOpen THEN limits.sentCount ELSE 0
  <2>1. limits' = [limits EXCEPT !.sentCount = sent + 1, !.windowStartedAt = window]
    BY DEF RequestCode
  <2>2. sent + 1 \in Nat
    BY DEF LinkInv, Typed
  <2> HIDE DEF sent, window
  <2> QED
    BY <1>2, <2>1, <2>2 DEF LinkInv, Typed
<1>4. entry \in LogEntry
  BY <1>2 DEF LinkInv, Typed, LogEntry
<1>5. log' \in Seq(LogEntry) /\ log' # <<>> /\ Len(log') = Len(log) + 1 /\ Last' = entry
  BY <1>1, <1>4, AppendProperties DEF LinkInv, Typed, Last
<1>6. Typed' /\ LinkIsLast' /\ CodeIsLast' /\ ProofIsLast'
  <2>1. Len(log) \in Nat
    BY LenProperties DEF LinkInv, Typed
  <2> HIDE DEF entry, window
  <2>2. Typed'
    <3>1. challenge' = [mac |-> e, code |-> code, codeNonce |-> Len(log) + 1,
                        codeExpiresAt |-> now + CodeTTL, attempts |-> 0, proof |-> 0,
                        proofExpiresAt |-> 0, verifiedAt |-> NULL]
      BY <1>1 DEF NewChallenge, NoChallenge
    <3>2. Len(log) + 1 \in Nat /\ now + CodeTTL \in Nat
      BY <2>1 DEF LinkInv, Typed
    <3>3. challenge' \in [mac : Claims \cup {NULL}, code : Codes \cup {NULL}, codeNonce : Nat,
                         codeExpiresAt : Nat, attempts : Nat, proof : Nat, proofExpiresAt : Nat,
                         verifiedAt : Nat \cup {NULL}]
      BY <3>1, <3>2
    <3> QED
      BY <1>1, <1>5, <1>3, <3>3 DEF LinkInv, Typed
  <2>3. LinkIsLast'
    BY <1>1 DEF LinkInv, LinkIsLast
  <2>4. CodeIsLast'
    BY <1>1, <1>5 DEF CodeIsLast, NewChallenge, NoChallenge, entry
  <2>5. ProofIsLast'
    BY <1>1 DEF ProofIsLast, NewChallenge, NoChallenge
  <2> QED
    BY <2>2, <2>3, <2>4, <2>5
<1>7. ResolvedIsSealed' /\ AnswerIsProven'
  BY <1>1 DEF LinkInv, ResolvedIsSealed, AnswerIsProven
<1> QED
  BY <1>6, <1>7 DEF LinkInv

\* A right code turns the code into a proof, a wrong one counts.
LEMMA VerifyCodeInv ==
  ASSUME LinkInv, NEW token \in lookedUp, NEW e \in Claims, NEW code \in Codes,
         VerifyCode(token, e, code)
  PROVE  LinkInv'
<1> DEFINE k == challenge.codeNonce
<1>1. UNCHANGED <<now, status, link, contact, lookedUp, linksIssued>>
      /\ status = "OPEN" /\ link.token = token /\ CodeLive
  BY DEF VerifyCode, history, LockOwnRow
<1>2. limits' \in [failedTotal : Nat, sentCount : Nat, windowStartedAt : Nat \cup {NULL}]
  <2>1. limits' = limits \/ limits' = [limits EXCEPT !.failedTotal = limits.failedTotal + 1]
    BY DEF VerifyCode
  <2>2. limits.failedTotal + 1 \in Nat
    BY DEF LinkInv, Typed
  <2> QED
    BY <2>1, <2>2 DEF LinkInv, Typed
<1>3. /\ log # <<>> /\ k = Len(log) /\ challenge.proof = 0 /\ Last \in LogEntry
      /\ Last.claim = challenge.mac /\ Last.link = link.token
      /\ Last.verifiedAt = NULL /\ challenge.codeExpiresAt = Last.at + CodeTTL
  <2>1. log # <<>> => Last \in LogEntry
    BY LenProperties, EmptySeq, ElementOfSeq DEF LinkInv, Typed, Last
  <2> QED
    BY <1>1, <2>1 DEF CodeLive, LinkInv, CodeIsLast
<1>4. ResolvedIsSealed' /\ AnswerIsProven'
  BY <1>1 DEF LinkInv, ResolvedIsSealed, AnswerIsProven
<1>5. LinkIsLast'
  BY <1>1 DEF LinkInv, LinkIsLast
<1>6. CASE e = challenge.mac /\ code = challenge.code
  <2> DEFINE entry == [Last EXCEPT !.verifiedAt = now]
  <2>1. /\ challenge' = [challenge EXCEPT !.code = NULL, !.codeNonce = 0, !.codeExpiresAt = 0,
                                         !.attempts = 0, !.proof = k,
                                         !.proofExpiresAt = now + ProofTTL, !.verifiedAt = now]
        /\ log' = [log EXCEPT ![Len(log)] = entry]
    BY <1>3, <1>6 DEF VerifyCode, history, Last
  <2>2. now \in Nat /\ entry \in LogEntry
    BY <1>3 DEF LinkInv, Typed, LogEntry
  <2> HIDE DEF entry
  <2>3. log' \in Seq(LogEntry) /\ log' # <<>> /\ Len(log') = Len(log) /\ Last' = entry
    <3>1. log \in Seq(LogEntry) /\ log # <<>> /\ log' = [log EXCEPT ![Len(log)] = entry]
      BY <1>3, <2>1 DEF LinkInv, Typed
    <3>2. log' \in Seq(LogEntry) /\ log' # <<>> /\ Len(log') = Len(log) /\ log'[Len(log)] = entry
      BY <2>2, <3>1, LogUpdate
    <3> QED
      BY <3>2 DEF Last
  <2>4. challenge' = [mac |-> challenge.mac, code |-> NULL, codeNonce |-> 0, codeExpiresAt |-> 0,
                      attempts |-> 0, proof |-> Len(log), proofExpiresAt |-> now + ProofTTL,
                      verifiedAt |-> now]
    BY <1>3, <2>1 DEF LinkInv, Typed
  <2>5. Len(log) \in Nat /\ now + ProofTTL \in Nat /\ challenge.mac \in Claims \cup {NULL}
    BY <2>2, LenProperties DEF LinkInv, Typed
  <2>6. Typed'
    BY <1>1, <1>2, <2>2, <2>3, <2>4, <2>5 DEF LinkInv, Typed
  <2>7. CodeIsLast'
    BY <2>4 DEF CodeIsLast
  <2>8. ProofIsLast'
    BY <1>1, <1>3, <2>2, <2>3, <2>4 DEF ProofIsLast, CodeLive, entry, LogEntry
  <2> QED
    BY <1>4, <1>5, <2>6, <2>7, <2>8 DEF LinkInv
<1>7. CASE ~(e = challenge.mac /\ code = challenge.code)
  <2> DEFINE entry == [Last EXCEPT !.wrong = Last.wrong + 1]
  <2>1. /\ \/ challenge' = NoChallenge
           \/ challenge' = [challenge EXCEPT !.attempts = challenge.attempts + 1]
        /\ log' = [log EXCEPT ![Len(log)] = entry]
    BY <1>3, <1>7 DEF VerifyCode, history, Last
  <2>2. entry \in LogEntry
    <3>1. Last.wrong + 1 \in Nat
      BY <1>3 DEF LogEntry
    <3>2. \A n \in Nat : [Last EXCEPT !.wrong = n] \in LogEntry
      BY <1>3 DEF LogEntry
    <3> QED
      BY <3>1, <3>2
  <2>3. entry.verifiedAt = NULL /\ entry.claim = Last.claim /\ entry.link = Last.link
        /\ entry.at = Last.at
    BY <1>3 DEF LogEntry
  <2> HIDE DEF entry
  <2>4. log' \in Seq(LogEntry) /\ log' # <<>> /\ Len(log') = Len(log) /\ Last' = entry
    <3>1. log \in Seq(LogEntry) /\ log # <<>> /\ log' = [log EXCEPT ![Len(log)] = entry]
      BY <1>3, <2>1 DEF LinkInv, Typed
    <3>2. log' \in Seq(LogEntry) /\ log' # <<>> /\ Len(log') = Len(log) /\ log'[Len(log)] = entry
      BY <2>2, <3>1, LogUpdate
    <3> QED
      BY <3>2 DEF Last
  <2>5. /\ challenge' \in [mac : Claims \cup {NULL}, code : Codes \cup {NULL}, codeNonce : Nat,
                           codeExpiresAt : Nat, attempts : Nat, proof : Nat, proofExpiresAt : Nat,
                           verifiedAt : Nat \cup {NULL}]
        /\ challenge'.proof = 0
        /\ challenge'.code # NULL =>
             /\ challenge'.codeNonce = challenge.codeNonce /\ challenge'.mac = challenge.mac
             /\ challenge'.codeExpiresAt = challenge.codeExpiresAt
    <3>1. CASE challenge' = NoChallenge
      BY <3>1 DEF NoChallenge
    <3>2. CASE challenge' = [challenge EXCEPT !.attempts = challenge.attempts + 1]
      <4>1. challenge.attempts + 1 \in Nat
        BY DEF LinkInv, Typed
      <4> QED
        BY <1>3, <3>2, <4>1 DEF LinkInv, Typed
    <3> QED
      BY <2>1, <3>1, <3>2
  <2>6. Typed'
    BY <1>1, <1>2, <2>4, <2>5 DEF LinkInv, Typed
  <2>7. CodeIsLast'
    BY <1>1, <1>3, <2>4, <2>5, <2>3 DEF CodeIsLast
  <2>8. ProofIsLast'
    BY <2>5 DEF ProofIsLast
  <2> QED
    BY <1>4, <1>5, <2>6, <2>7, <2>8 DEF LinkInv
<1> QED
  BY <1>6, <1>7

LEMMA AnswerInv ==
  ASSUME LinkInv, NEW token \in lookedUp, NEW proof \in DOMAIN log, NEW e \in Claims,
         NEW answer \in {"RECEIVED", "DENIED"}, Answer(token, proof, e, answer)
  PROVE  LinkInv'
<1>1. /\ status = "OPEN" /\ link.token = token /\ link # NoLink
      /\ challenge.proof = proof /\ now < challenge.proofExpiresAt /\ challenge.mac = e
      /\ status' = answer /\ ReplaceLink(NoLink)
      /\ contact' = [guestEmail |-> e, verifiedAt |-> challenge.verifiedAt,
                     ghostLink |-> token, answeredAt |-> now]
      /\ UNCHANGED <<now, lookedUp, linksIssued, log>>
  BY DEF Answer, history, LockOwnRow, ProofAccepted, LinkInv, Typed, NoLink
<1>2. challenge.proof # 0
  BY <1>1, LenProperties DEF LinkInv, Typed
<1>3. Typed' /\ LinkIsLast' /\ CodeIsLast' /\ ProofIsLast'
  <2>1. NoLink \in [token : Nat, expiresAt : Nat]
    BY DEF NoLink
  <2>2. contact' \in [guestEmail : Claims \cup {NULL}, verifiedAt : Nat \cup {NULL},
                      ghostLink : Nat, answeredAt : Nat]
        /\ now' \in Nat /\ linksIssued' \in Nat /\ lookedUp' \subseteq Nat \ {0}
    BY <1>1 DEF LinkInv, Typed
  <2> QED
    BY <1>1, <2>1, <2>2, ReplacedLink
<1>4. ResolvedIsSealed'
  BY <1>1 DEF ReplaceLink, ResolvedIsSealed
<1>5. AnswerIsProven'
  BY <1>1, <1>2 DEF LinkInv, LinkIsLast, ProofIsLast, AnswerIsProven, Last
<1> QED
  BY <1>3, <1>4, <1>5 DEF LinkInv

LEMMA StepInv == LinkInv /\ [Next]_vars => LinkInv'
<1> SUFFICES ASSUME LinkInv, [Next]_vars PROVE LinkInv'
  OBVIOUS
<1>1. CASE OwnerStep
  BY <1>1, IssueLinkInv, OwnerDecidesInv DEF OwnerStep
<1>2. CASE GuestStep
  BY <1>2, FindByTokenInv, RequestCodeInv, VerifyCodeInv, AnswerInv DEF GuestStep
<1>3. CASE MailStep
  BY <1>3, MailEndsInv, MailFailsInv DEF MailStep
<1>4. CASE Tick
  BY <1>4, TickInv
<1>5. CASE UNCHANGED vars
  BY <1>5 DEF vars, history, row, LinkInv, Typed, LinkIsLast, CodeIsLast, ProofIsLast, ResolvedIsSealed,
     AnswerIsProven, Last
<1> QED
  BY <1>1, <1>2, <1>3, <1>4, <1>5 DEF Next

\* Whatever link, code or proof the row holds belongs to the last link and the last code
\* ever issued, and a resolved request holds none.
THEOREM LinkInvariance == Spec => []LinkInv
<1>1. Init => LinkInv
  BY InitInv
<1>2. LinkInv /\ [Next]_vars => LinkInv'
  BY StepInv
<1> QED
  BY <1>1, <1>2, PTL DEF Spec

\* Nobody answers for a guest without having repeated the last code, sent to the address
\* that is kept, under the link in force and within the life of the proof.
THEOREM AnswersAreProven == Spec => []AnswerIsProven
<1>1. LinkInv => AnswerIsProven
  BY DEF LinkInv
<1> QED
  BY <1>1, LinkInvariance, PTL

-----------------------------------------------------------------------------
(* GuestLink implements GuestWord *)

\* A step that leaves status and secrets alone, apart from the passing of time, lapses.
LEMMA LapseWord ==
  ASSUME LinkInv, now' \in Nat, now' >= now, UNCHANGED status,
         \/ UNCHANGED <<link, challenge>>
         \/ challenge' = NoChallenge
  PROVE  Word!Lapse
<1>1. CASE UNCHANGED <<link, challenge>>
  BY <1>1 DEF Word!Lapse, invited, proven, LinkLive, CodeLive, ProofLive, LinkInv, Typed
<1>2. CASE challenge' = NoChallenge
  BY <1>2 DEF Word!Lapse, invited, proven, CodeLive, ProofLive, NoChallenge
<1> QED
  BY <1>1, <1>2

\* A new link, or none, puts an end to all that was sent or proven.
LEMMA NobodyAfterReplace == ASSUME NEW new, ReplaceLink(new) PROVE Word!Nobody
BY DEF ReplaceLink, Word!Nobody, CodeLive, ProofLive, invited, proven, NoChallenge

LEMMA RequestIsInvite ==
  ASSUME LinkInv, NEW token \in lookedUp, NEW e \in Claims, NEW code \in Codes,
         RequestCode(token, e, code)
  PROVE  Word!Invite(e)
<1>1. UNCHANGED <<now, status, link>> /\ status = "OPEN" /\ LinkLive
  BY DEF RequestCode, LockOwnRow, LinkLive, LinkInv, Typed, NoLink
<1>2. challenge'.mac = e /\ challenge'.code = code /\ challenge'.proof = 0
      /\ challenge'.codeExpiresAt = now + CodeTTL
  BY DEF RequestCode, NewChallenge, NoChallenge
<1>3. LinkLive' /\ CodeLive' /\ ~ProofLive'
  <2>1. now < now + CodeTTL
    BY DEF LinkInv, Typed
  <2> QED
    BY <1>1, <1>2, <2>1 DEF LinkLive, CodeLive, ProofLive, NoLink
<1> QED
  BY <1>1, <1>2, <1>3 DEF Word!Invite, invited, proven

LEMMA VerifyIsProveOrLapse ==
  ASSUME LinkInv, NEW token \in lookedUp, NEW e \in Claims, NEW code \in Codes,
         VerifyCode(token, e, code)
  PROVE  Word!Prove(e) \/ Word!Lapse
<1>1. UNCHANGED <<now, status, link>> /\ LinkLive /\ CodeLive
      /\ challenge.codeNonce # 0 /\ challenge.proof = 0
  <2>1. UNCHANGED <<now, status, link>> /\ LinkLive /\ CodeLive
    BY DEF VerifyCode, history, LockOwnRow, LinkLive, LinkInv, Typed, NoLink
  <2> QED
    BY <2>1, EmptySeq DEF CodeLive, LinkInv, CodeIsLast, Typed
<1>2. CASE e = challenge.mac /\ code = challenge.code
  <2>1. challenge'.mac = e /\ challenge'.code = NULL /\ challenge'.proof = challenge.codeNonce
        /\ challenge'.proofExpiresAt = now + ProofTTL
    BY <1>2 DEF VerifyCode, history, LinkInv, Typed
  <2>2. ~CodeLive' /\ ProofLive' /\ LinkLive'
    <3>1. now < now + ProofTTL
      BY DEF LinkInv, Typed
    <3> QED
      BY <1>1, <2>1, <3>1 DEF CodeLive, ProofLive, LinkLive
  <2> QED
    BY <1>1, <1>2, <2>1, <2>2 DEF Word!Prove, invited, proven
<1>3. CASE ~(e = challenge.mac /\ code = challenge.code)
  <2>1. \/ challenge' = NoChallenge
        \/ challenge' = [challenge EXCEPT !.attempts = challenge.attempts + 1]
    BY <1>3 DEF VerifyCode, history
  <2>2. CASE challenge' = NoChallenge
    BY <1>1, <2>2, LapseWord DEF LinkInv, Typed
  <2>3. CASE challenge' = [challenge EXCEPT !.attempts = challenge.attempts + 1]
    <3>1. challenge'.code = challenge.code /\ challenge'.mac = challenge.mac
          /\ challenge'.codeExpiresAt = challenge.codeExpiresAt /\ challenge'.proof = 0
      BY <1>1, <2>3 DEF LinkInv, Typed
    <3> QED
      BY <1>1, <3>1 DEF Word!Lapse, invited, proven, LinkLive, CodeLive, ProofLive
  <2> QED
    BY <2>1, <2>2, <2>3
<1> QED
  BY <1>2, <1>3

LEMMA AnswerIsAnswer ==
  ASSUME LinkInv, NEW token \in lookedUp, NEW proof \in DOMAIN log, NEW e \in Claims,
         NEW answer \in {"RECEIVED", "DENIED"}, Answer(token, proof, e, answer)
  PROVE  Word!Answer(e, answer)
<1>1. LinkLive /\ ProofLive /\ challenge.mac = e
  <2>1. proof # 0
    BY LenProperties DEF LinkInv, Typed
  <2> QED
    BY <2>1 DEF Answer, history, LockOwnRow, ProofAccepted, LinkLive, ProofLive, LinkInv, Typed, NoLink
<1>2. Word!Nobody
  BY NobodyAfterReplace DEF Answer, history
<1> QED
  BY <1>1, <1>2 DEF Answer, history, LockOwnRow, Word!Answer, proven

LEMMA StepWord == LinkInv /\ [Next]_vars => [Word!WNext]_<<status, invited, proven>>
<1> SUFFICES ASSUME LinkInv, [Next]_vars
             PROVE  Word!WNext \/ UNCHANGED <<status, invited, proven>>
  OBVIOUS
<1>1. ASSUME NEW delivery, IssueLink(delivery) PROVE Word!Lapse
  <2>1. challenge' = NoChallenge /\ UNCHANGED <<now, status>>
    BY <1>1 DEF IssueLink, history, ReplaceLink
  <2> QED
    BY <2>1, LapseWord DEF LinkInv, Typed
<1>2. ASSUME NEW decision \in {"CANCELLED", "OWNER_RECORDED"}, OwnerDecides(decision)
      PROVE  Word!Decide(decision)
  BY <1>2, NobodyAfterReplace DEF OwnerDecides, history, Word!Decide
<1>3. ASSUME NEW m, MailFails(m) PROVE Word!Lapse
  <2>1. UNCHANGED <<now, status>> /\ (UNCHANGED <<link, challenge>> \/ challenge' = NoChallenge)
    BY <1>3 DEF MailFails, history, ReplaceLink
  <2> QED
    BY <2>1, LapseWord DEF LinkInv, Typed
<1>4. ASSUME FindByToken \/ Tick \/ (\E m : MailEnds(m)) \/ UNCHANGED vars PROVE Word!Lapse
  <2>1. UNCHANGED <<status, link, challenge>> /\ now' \in Nat /\ now' >= now
    BY <1>4 DEF FindByToken, history, Tick, MailEnds, vars, row, LinkInv, Typed
  <2> QED
    BY <2>1, LapseWord
<1>5. CASE OwnerStep
  BY <1>1, <1>2, <1>5 DEF OwnerStep, Word!WNext
<1>6. CASE GuestStep
  BY <1>4, <1>6, RequestIsInvite, VerifyIsProveOrLapse, AnswerIsAnswer DEF GuestStep, Word!WNext
<1>7. CASE MailStep
  BY <1>3, <1>4, <1>7 DEF MailStep, Word!WNext
<1>8. CASE Tick \/ UNCHANGED vars
  BY <1>4, <1>8 DEF Word!WNext
<1> QED
  BY <1>5, <1>6, <1>7, <1>8 DEF Next

\* Links, codes, counters, mails and clocks implement the promise of GuestWord.
THEOREM ImplementsWord == Spec => KeepsWord
<1>1. Init => Word!WInit
  BY DEF Init, Word!WInit, invited, proven, LinkLive, NoLink
<1>2. LinkInv /\ [Next]_vars => [Word!WNext]_Word!wvars
  BY StepWord DEF Word!wvars
<1> QED
  BY <1>1, <1>2, LinkInvariance, PTL DEF Spec, KeepsWord, Word!WSpec

-----------------------------------------------------------------------------
(* What may be guessed and sent, and what a failed mail takes back *)

LEMMA LogIsTyped ==
  ASSUME LinkInv
  PROVE  /\ Len(log) \in Nat /\ DOMAIN log = 1..Len(log) /\ log \in Seq(LogEntry)
         /\ \A k \in DOMAIN log :
              /\ log[k] \in LogEntry
              /\ log[k].link \in Nat /\ log[k].at \in Nat /\ log[k].window \in Nat
              /\ log[k].wrong \in Nat
<1>1. log \in Seq(LogEntry)
  BY DEF LinkInv, Typed
<1>2. Len(log) \in Nat /\ DOMAIN log = 1..Len(log) /\ \A k \in DOMAIN log : log[k] \in LogEntry
  BY <1>1, LenProperties, ElementOfSeq
<1> QED
  BY <1>1, <1>2 DEF LogEntry

LEMMA SentIsFinite ==
  ASSUME LinkInv, NEW token, NEW window
  PROVE  IsFiniteSet(SentIn(token, window)) /\ Cardinality(SentIn(token, window)) \in Nat
<1>1. SentIn(token, window) \in SUBSET (1..Len(log)) /\ Len(log) \in Nat
  BY LogIsTyped DEF SentIn, IssuedUnder
<1>2. IsFiniteSet(1..Len(log))
  BY <1>1, FS_Interval
<1> QED
  BY <1>1, <1>2, FS_Subset, FS_CardinalityType

\* Codes that keep their links, windows and times keep their windows apart.
LEMMA WindowsStand ==
  ASSUME LinkInv, WindowsApart, DOMAIN log' = DOMAIN log,
         \A k \in DOMAIN log : /\ log'[k].link = log[k].link /\ log'[k].at = log[k].at
                               /\ log'[k].window = log[k].window
  PROVE  /\ \A token : IssuedUnder(token)' = IssuedUnder(token)
         /\ \A token, window : SentIn(token, window)' = SentIn(token, window)
         /\ WindowsApart'
<1>1. \A token : IssuedUnder(token)' = IssuedUnder(token)
  BY DEF IssuedUnder
<1>2. \A token, window : SentIn(token, window)' = SentIn(token, window)
  BY <1>1 DEF SentIn, IssuedUnder
<1>3. ASSUME NEW k \in DOMAIN log
      PROVE  /\ log'[k].window <= log'[k].at /\ log'[k].at < log'[k].window + SendWindow
             /\ \E first \in SentIn(log[k].link, log[k].window)' : log'[first].at = log'[k].window
             /\ Cardinality(SentIn(log[k].link, log[k].window)') <= MaxSends
  <2>1. SentIn(log[k].link, log[k].window)' = SentIn(log[k].link, log[k].window)
    BY <1>2, <1>3 DEF SentIn, IssuedUnder
  <2>2. SentIn(log[k].link, log[k].window) \subseteq DOMAIN log
    BY DEF SentIn, IssuedUnder
  <2> QED
    BY <2>1, <2>2, <1>3 DEF WindowsApart
<1>4. ASSUME NEW j \in DOMAIN log, NEW k \in DOMAIN log, log'[j].link = log'[k].link
      PROVE  \/ log'[j].window = log'[k].window
             \/ log'[j].window + SendWindow <= log'[k].window
             \/ log'[k].window + SendWindow <= log'[j].window
  BY <1>4 DEF WindowsApart
<1>5. WindowsApart'
  BY <1>3, <1>4 DEF WindowsApart
<1> QED
  BY <1>1, <1>2, <1>5

\* The row goes on knowing its window, whatever happens to the rest of it.
LEMMA WindowIsKept ==
  ASSUME LimitsInv, LinkInv', DOMAIN log' = DOMAIN log,
         \A k \in DOMAIN log : /\ log'[k].link = log[k].link /\ log'[k].at = log[k].at
                               /\ log'[k].window = log[k].window,
         now' >= now,
         \/ link' = NoLink
         \/ link'.token = linksIssued + 1 /\ limits'.windowStartedAt = NULL
         \/ /\ link' = link /\ limits'.windowStartedAt = limits.windowStartedAt
            /\ limits'.sentCount = limits.sentCount
  PROVE  WindowsApart' /\ WindowIsLast'
<1>1. /\ \A token : IssuedUnder(token)' = IssuedUnder(token)
      /\ \A token, window : SentIn(token, window)' = SentIn(token, window)
      /\ WindowsApart'
  BY WindowsStand DEF LimitsInv
<1>2. CASE link' = NoLink
  BY <1>1, <1>2 DEF WindowIsLast
<1>3. CASE link'.token = linksIssued + 1 /\ limits'.windowStartedAt = NULL
  <2>1. IssuedUnder(linksIssued + 1) = {}
    <3>1. linksIssued \in Nat /\ \A k \in DOMAIN log : log[k].link \in Nat /\ log[k].link <= linksIssued
      BY LogIsTyped DEF LimitsInv, LinkInv, Typed, Counted
    <3> QED
      BY <3>1 DEF IssuedUnder
  <2> QED
    BY <1>1, <1>3, <2>1 DEF WindowIsLast
<1>4. CASE /\ link' = link /\ limits'.windowStartedAt = limits.windowStartedAt
           /\ limits'.sentCount = limits.sentCount
  <2> SUFFICES ASSUME link # NoLink, limits.windowStartedAt # NULL
               PROVE  /\ limits.windowStartedAt <= now'
                      /\ Cardinality(SentIn(link.token, limits.windowStartedAt)) = limits.sentCount
                      /\ \E first \in SentIn(link.token, limits.windowStartedAt) :
                           log'[first].at = limits.windowStartedAt
                      /\ \A k \in IssuedUnder(link.token) :
                           \/ log'[k].window = limits.windowStartedAt
                           \/ log'[k].window + SendWindow <= limits.windowStartedAt
    BY <1>1, <1>4 DEF WindowIsLast, LimitsInv
  <2>1. limits.windowStartedAt \in Nat /\ now \in Nat /\ now' \in Nat
    BY DEF LimitsInv, LinkInv, Typed
  <2>2. /\ limits.windowStartedAt <= now
        /\ Cardinality(SentIn(link.token, limits.windowStartedAt)) = limits.sentCount
        /\ \E first \in SentIn(link.token, limits.windowStartedAt) :
             log[first].at = limits.windowStartedAt
        /\ \A k \in IssuedUnder(link.token) :
             \/ log[k].window = limits.windowStartedAt
             \/ log[k].window + SendWindow <= limits.windowStartedAt
    BY DEF LimitsInv, WindowIsLast
  <2>3. SentIn(link.token, limits.windowStartedAt) \subseteq DOMAIN log
        /\ IssuedUnder(link.token) \subseteq DOMAIN log
    BY DEF SentIn, IssuedUnder
  <2> QED
    BY <2>1, <2>2, <2>3
<1> QED
  BY <1>2, <1>3, <1>4
\* A code sent in the window in force, or in a new one once SendWindow has passed, is within
\* the limit of its window, and its window is the last of the link.
LEMMA RequestCodeWindows ==
  ASSUME LimitsInv, LinkInv', NEW token \in lookedUp, NEW e \in Claims, NEW code \in Codes,
         RequestCode(token, e, code)
  PROVE  WindowsApart' /\ WindowIsLast' /\ limits'.sentCount <= MaxSends
<1>0. PICK window, sent : /\ window = IF WindowOpen THEN limits.windowStartedAt ELSE now
                          /\ sent = IF WindowOpen THEN limits.sentCount ELSE 0
  OBVIOUS
<1> DEFINE n == Len(log) + 1
           earlier == SentIn(token, window)
<1>1. /\ link' = link /\ now' = now /\ link.token = token /\ link # NoLink /\ sent < MaxSends
      /\ limits'.sentCount = sent + 1 /\ limits'.windowStartedAt = window
      /\ log' = Append(log, [link |-> token, claim |-> e, at |-> now, window |-> window,
                             wrong |-> 0, verifiedAt |-> NULL])
  BY <1>0 DEF RequestCode, LockOwnRow, LimitsInv, LinkInv, Typed, NoLink
<1>2. now \in Nat /\ window \in Nat /\ limits.windowStartedAt \in Nat \cup {NULL} /\ sent \in Nat
  BY <1>0 DEF LimitsInv, LinkInv, Typed, WindowOpen
<1>3. window <= now /\ now < window + SendWindow
  BY <1>0, <1>1, <1>2 DEF WindowOpen, LimitsInv, WindowIsLast
<1>4. /\ \A k \in IssuedUnder(token) :
           log[k].window = window \/ log[k].window + SendWindow <= window
      /\ Cardinality(earlier) = sent
      /\ earlier # {} => \E first \in earlier : log[first].at = window
  <2>1. CASE WindowOpen
    BY <1>0, <1>1, <2>1 DEF WindowOpen, LimitsInv, WindowIsLast
  <2>2. CASE ~WindowOpen
    <3>1. \A k \in IssuedUnder(token) : log[k].window + SendWindow <= now
      <4>1. CASE limits.windowStartedAt = NULL
        BY <1>1, <4>1 DEF LimitsInv, WindowIsLast
      <4>2. CASE limits.windowStartedAt # NULL
        <5>1. limits.windowStartedAt + SendWindow <= now
          BY <1>2, <2>2, <4>2 DEF WindowOpen
        <5>2. \A k \in IssuedUnder(token) : log[k].window \in Nat
          BY LogIsTyped DEF LimitsInv, IssuedUnder
        <5> QED
          BY <1>1, <1>2, <4>2, <5>1, <5>2 DEF LimitsInv, WindowIsLast
      <4> QED
        BY <4>1, <4>2
    <3>2. earlier = {}
      <4>1. \A k \in IssuedUnder(token) : log[k].window # now
        BY <1>2, <3>1
      <4> QED
        BY <1>0, <2>2, <4>1 DEF SentIn
    <3> QED
      BY <1>0, <2>2, <3>1, <3>2, FS_EmptySet
  <2> QED
    BY <2>1, <2>2
<1>5. /\ Len(log) \in Nat /\ DOMAIN log = 1..Len(log) /\ DOMAIN log' = 1..n
      /\ log'[n].link = token /\ log'[n].window = window /\ log'[n].at = now
      /\ \A k \in DOMAIN log : log'[k] = log[k]
  <2> DEFINE entry == [link |-> token, claim |-> e, at |-> now, window |-> window,
                       wrong |-> 0, verifiedAt |-> NULL]
  <2>1. token \in Nat
    BY DEF LimitsInv, LinkInv, Typed
  <2>2. entry \in LogEntry
    BY <1>2, <2>1 DEF LogEntry
  <2>3. log' = Append(log, entry) /\ log \in Seq(LogEntry) /\ Len(log) \in Nat /\ DOMAIN log = 1..Len(log)
    BY <1>1, LogIsTyped DEF LimitsInv
  <2> HIDE DEF entry
  <2>4. log' \in Seq(LogEntry) /\ Len(log') = n /\ log'[n] = entry
        /\ \A k \in 1..Len(log) : log'[k] = log[k]
    BY <2>2, <2>3, AppendProperties
  <2>5. DOMAIN log' = 1..n
    BY <2>4, LenProperties
  <2> QED
    BY <2>3, <2>4, <2>5 DEF entry
<1>6. \A t : IssuedUnder(t)' = IF t = token THEN IssuedUnder(t) \cup {n} ELSE IssuedUnder(t)
  BY <1>5 DEF IssuedUnder
<1>7. \A t, w : SentIn(t, w)' = IF t = token /\ w = window THEN SentIn(t, w) \cup {n} ELSE SentIn(t, w)
  <2>1. \A t : IssuedUnder(t) \subseteq DOMAIN log /\ IssuedUnder(t)' \subseteq DOMAIN log'
    BY DEF IssuedUnder
  <2> QED
    BY <1>5, <1>6, <2>1 DEF SentIn
<1>8. Cardinality(earlier \cup {n}) = sent + 1
  <2>1. n \notin earlier
    BY <1>5 DEF SentIn, IssuedUnder
  <2>2. IsFiniteSet(earlier)
    BY SentIsFinite DEF LimitsInv
  <2> HIDE DEF earlier
  <2> QED
    BY <1>4, <2>1, <2>2, FS_AddElement
<1>9. \E first \in earlier \cup {n} : log'[first].at = window
  <2>1. CASE earlier = {}
    <3>1. sent = 0
      BY <1>4, <2>1, FS_EmptySet
    <3>2. ~WindowOpen
      BY <1>0, <1>1, <2>1 DEF WindowOpen, LimitsInv, WindowIsLast
    <3> QED
      BY <1>0, <1>5, <3>2
  <2>2. CASE earlier # {}
    <3>1. earlier \subseteq DOMAIN log
      BY DEF SentIn, IssuedUnder
    <3> QED
      BY <1>4, <1>5, <2>2, <3>1
  <2> QED
    BY <2>1, <2>2
<1>10. WindowIsLast'
  <2>1. IssuedUnder(token)' = IssuedUnder(token) \cup {n} /\ SentIn(token, window)' = earlier \cup {n}
    BY <1>6, <1>7
  <2>2. \A k \in IssuedUnder(token)' :
          log'[k].window = window \/ log'[k].window + SendWindow <= window
    <3>1. IssuedUnder(token) \subseteq DOMAIN log
      BY DEF IssuedUnder
    <3> QED
      BY <1>4, <1>5, <2>1, <3>1
  <2>3. window # NULL
    BY <1>2
  <2> QED
    BY <1>1, <1>3, <1>8, <1>9, <2>1, <2>2, <2>3 DEF WindowIsLast
<1>11. ASSUME NEW k \in DOMAIN log', k # n
       PROVE  k \in DOMAIN log /\ log'[k] = log[k]
  BY <1>5, <1>11
<1>12. \A k \in DOMAIN log : log[k].window \in Nat /\ log[k].at \in Nat
  BY LogIsTyped DEF LimitsInv
<1>13. ASSUME NEW k \in DOMAIN log'
       PROVE  /\ log'[k].window <= log'[k].at /\ log'[k].at < log'[k].window + SendWindow
              /\ \A t, w : t = log'[k].link /\ w = log'[k].window =>
                   /\ \E first \in SentIn(t, w)' : log'[first].at = w
                   /\ Cardinality(SentIn(t, w)') <= MaxSends
  <2>1. /\ \E first \in SentIn(token, window)' : log'[first].at = window
        /\ Cardinality(SentIn(token, window)') <= MaxSends
    <3>1. SentIn(token, window)' = earlier \cup {n}
      BY <1>7
    <3>2. sent + 1 <= MaxSends
      BY <1>1, <1>2
    <3> QED
      BY <1>8, <1>9, <3>1, <3>2
  <2>2. CASE k = n
    BY <1>3, <1>5, <2>1, <2>2
  <2>3. CASE k # n
    <3>1. k \in DOMAIN log /\ log'[k] = log[k]
      BY <1>11, <2>3
    <3>2. /\ log[k].window <= log[k].at /\ log[k].at < log[k].window + SendWindow
          /\ \E first \in SentIn(log[k].link, log[k].window) : log[first].at = log[k].window
          /\ Cardinality(SentIn(log[k].link, log[k].window)) <= MaxSends
      BY <3>1 DEF LimitsInv, WindowsApart
    <3>3. ASSUME NEW t, NEW w, t = log[k].link, w = log[k].window
          PROVE  /\ \E first \in SentIn(t, w)' : log'[first].at = w
                 /\ Cardinality(SentIn(t, w)') <= MaxSends
      <4>1. CASE t = token /\ w = window
        BY <2>1, <4>1
      <4>2. CASE ~(t = token /\ w = window)
        <5>1. SentIn(t, w)' = SentIn(t, w) /\ SentIn(t, w) \subseteq DOMAIN log
          <6>1. SentIn(t, w)' = SentIn(t, w)
            BY <1>7, <4>2
          <6> QED
            BY <6>1 DEF SentIn, IssuedUnder
        <5> QED
          BY <1>5, <3>2, <3>3, <5>1
      <4> QED
        BY <4>1, <4>2
    <3> QED
      BY <3>1, <3>2, <3>3
  <2> QED
    BY <2>2, <2>3
<1>14. ASSUME NEW j \in DOMAIN log', NEW k \in DOMAIN log', log'[j].link = log'[k].link
       PROVE  \/ log'[j].window = log'[k].window
              \/ log'[j].window + SendWindow <= log'[k].window
              \/ log'[k].window + SendWindow <= log'[j].window
  <2>1. CASE j = n /\ k = n
    BY <2>1
  <2>2. CASE j # n /\ k # n
    BY <1>11, <1>14, <2>2 DEF LimitsInv, WindowsApart
  <2>3. ASSUME NEW m \in DOMAIN log', m # n, log'[m].link = token
        PROVE  log'[m].window = window \/ log'[m].window + SendWindow <= window
    <3>1. m \in DOMAIN log /\ log'[m] = log[m]
      BY <1>11, <2>3
    <3> QED
      BY <1>4, <2>3, <3>1 DEF IssuedUnder
  <2>4. CASE j = n /\ k # n
    BY <1>5, <1>14, <2>3, <2>4
  <2>5. CASE j # n /\ k = n
    BY <1>5, <1>14, <2>3, <2>5
  <2> QED
    BY <2>1, <2>2, <2>4, <2>5
<1>15. WindowsApart'
  BY <1>13, <1>14 DEF WindowsApart
<1> QED
  BY <1>1, <1>2, <1>10, <1>15

\* A link that is replaced, by a new one or by none, takes its counters with it.
LEMMA ReplacedLimits ==
  ASSUME LimitsInv, LinkInv', UNCHANGED history, NEW new, ReplaceLink(new), now' >= now,
         \/ new = NoLink /\ linksIssued' = linksIssued
         \/ new.token = linksIssued + 1 /\ linksIssued' = new.token /\ linksIssued' <= MaxLinks
  PROVE  LimitsInv'
<1>1. link' = new /\ limits' = NoLimits /\ challenge' = NoChallenge /\ UNCHANGED <<log, guesses>>
  BY DEF ReplaceLink, history
<1>2. linksIssued \in Nat /\ linksIssued <= MaxLinks /\ linksIssued' \in Nat
      /\ linksIssued <= linksIssued' /\ linksIssued' <= MaxLinks
  <2>1. linksIssued \in Nat /\ linksIssued <= MaxLinks
    BY DEF LimitsInv, LinkInv, Typed, Counted
  <2> QED
    BY <2>1
<1>3. limits'.sentCount <= MaxSends /\ challenge'.code = NULL /\ limits'.failedTotal = 0
  BY <1>1 DEF NoLimits, NoChallenge
<1>4. link' # NoLink => guesses[link'.token] = 0
  BY <1>1, <1>2 DEF LimitsInv, Counted
<1>5. \A k \in DOMAIN log : log[k].wrong <= MaxAttempts /\ log[k].link <= linksIssued'
  <2>1. \A k \in DOMAIN log : log[k].link \in Nat /\ log[k].link <= linksIssued
    BY LogIsTyped DEF LimitsInv, Counted
  <2>2. \A k \in DOMAIN log : log[k].link <= linksIssued'
    BY <1>2, <2>1
  <2> QED
    BY <2>2 DEF LimitsInv, Counted
<1>6. \A token \in 1..MaxLinks : token > linksIssued' => guesses[token] = 0
  BY <1>2 DEF LimitsInv, Counted
<1>7. Counted'
  BY <1>1, <1>2, <1>3, <1>4, <1>5, <1>6 DEF Counted, LimitsInv
<1>8. limits'.windowStartedAt = NULL
  BY <1>1 DEF NoLimits
<1>9. WindowsApart' /\ WindowIsLast'
  BY <1>1, <1>8, WindowIsKept DEF history
<1> QED
  BY <1>7, <1>9 DEF LimitsInv

\* Nothing that the limits are about.
LEMMA StandingLimits ==
  ASSUME LimitsInv, LinkInv', UNCHANGED <<link, limits, linksIssued, history>>, now' >= now,
         challenge' = challenge \/ challenge' = NoChallenge
  PROVE  LimitsInv'
<1>1. Counted'
  BY DEF LimitsInv, Counted, history, NoChallenge, Last
<1>2. WindowsApart' /\ WindowIsLast'
  BY WindowIsKept DEF history
<1> QED
  BY <1>1, <1>2 DEF LimitsInv

\* A new code is appended to the log and changes none of its entries.
LEMMA RequestCodeLog ==
  ASSUME LinkInv, NEW token \in lookedUp, NEW e \in Claims, NEW code \in Codes,
         RequestCode(token, e, code)
  PROVE  /\ Len(log') = Len(log) + 1 /\ DOMAIN log = 1..Len(log) /\ DOMAIN log' = 1..(Len(log) + 1)
         /\ Len(log) \in Nat /\ log'[Len(log) + 1].wrong = 0 /\ log'[Len(log) + 1].link = token
         /\ \A k \in DOMAIN log : log'[k] = log[k]
<1>1. PICK window \in Nat : log' = Append(log, [link |-> token, claim |-> e, at |-> now,
                                                window |-> window, wrong |-> 0,
                                                verifiedAt |-> NULL])
  BY DEF RequestCode, LinkInv, Typed, WindowOpen
<1> DEFINE entry == [link |-> token, claim |-> e, at |-> now, window |-> window,
                     wrong |-> 0, verifiedAt |-> NULL]
<1>2. entry \in LogEntry
  <2>1. token \in Nat /\ now \in Nat
    BY DEF LinkInv, Typed
  <2> QED
    BY <2>1 DEF LogEntry
<1>3. log \in Seq(LogEntry) /\ Len(log) \in Nat /\ DOMAIN log = 1..Len(log) /\ log' = Append(log, entry)
  BY <1>1, LogIsTyped
<1> HIDE DEF entry
<1>4. log' \in Seq(LogEntry) /\ Len(log') = Len(log) + 1 /\ log'[Len(log) + 1] = entry
      /\ \A k \in 1..Len(log) : log'[k] = log[k]
  BY <1>2, <1>3, AppendProperties
<1>5. DOMAIN log' = 1..(Len(log) + 1)
  BY <1>4, LenProperties
<1> QED
  BY <1>3, <1>4, <1>5 DEF entry

LEMMA RequestCodeLimits ==
  ASSUME LimitsInv, LinkInv', NEW token \in lookedUp, NEW e \in Claims, NEW code \in Codes,
         RequestCode(token, e, code)
  PROVE  LimitsInv'
<1>1. /\ UNCHANGED <<link, linksIssued, guesses>> /\ link.token = token /\ link # NoLink
      /\ challenge' = NewChallenge(e, code, Len(log) + 1)
      /\ limits'.failedTotal = limits.failedTotal
  BY DEF RequestCode, LockOwnRow, LimitsInv, LinkInv, Typed, NoLink
<1>2. /\ Len(log') = Len(log) + 1 /\ DOMAIN log = 1..Len(log) /\ DOMAIN log' = 1..(Len(log) + 1)
      /\ Len(log) \in Nat /\ log'[Len(log) + 1].wrong = 0 /\ log'[Len(log) + 1].link = token
      /\ \A k \in DOMAIN log : log'[k] = log[k]
  BY RequestCodeLog DEF LimitsInv
<1>3. challenge'.code # NULL => Last'.wrong = challenge'.attempts /\ challenge'.attempts < MaxAttempts
  BY <1>1, <1>2 DEF NewChallenge, NoChallenge, Last
<1>4. token <= linksIssued
  BY <1>1 DEF LimitsInv, LinkInv, LinkIsLast, Typed
<1>5. \A k \in DOMAIN log' : log'[k].wrong <= MaxAttempts /\ log'[k].link <= linksIssued
  <2>1. \A k \in DOMAIN log : log[k].wrong <= MaxAttempts /\ log[k].link <= linksIssued
    BY DEF LimitsInv, Counted
  <2> QED
    BY <1>2, <1>4, <2>1
<1>6. WindowsApart' /\ WindowIsLast' /\ limits'.sentCount <= MaxSends
  BY RequestCodeWindows
<1>7. Counted'
  BY <1>1, <1>3, <1>5, <1>6 DEF LimitsInv, Counted
<1> QED
  BY <1>6, <1>7 DEF LimitsInv

\* A wrong guess counts for the code and for the link, and is the last one where either says so.
LEMMA VerifyCodeLimits ==
  ASSUME LimitsInv, LinkInv', NEW token \in lookedUp, NEW e \in Claims, NEW code \in Codes,
         VerifyCode(token, e, code)
  PROVE  LimitsInv'
<1> DEFINE k == challenge.codeNonce
<1>1. /\ UNCHANGED <<now, link, linksIssued>> /\ link.token = token /\ link # NoLink /\ CodeLive
      /\ ~Throttled /\ token = linksIssued
  BY DEF VerifyCode, LockOwnRow, LimitsInv, LinkInv, Typed, NoLink, LinkIsLast
<1>2. /\ k = Len(log) /\ k \in DOMAIN log /\ DOMAIN log = 1..Len(log) /\ Len(log) \in Nat
      /\ \A j \in DOMAIN log : log[j] \in LogEntry
  BY <1>1, LogIsTyped, EmptySeq DEF LimitsInv, LinkInv, CodeIsLast, CodeLive
<1>3. log[k].wrong = challenge.attempts /\ challenge.attempts < MaxAttempts
      /\ challenge.attempts \in Nat
  BY <1>1, <1>2 DEF LimitsInv, LinkInv, Typed, Counted, CodeLive, Last
<1>4. /\ guesses[token] = limits.failedTotal /\ guesses \in [1..MaxLinks -> 0..MaxFailedTotal]
      /\ token \in 1..MaxLinks /\ limits.failedTotal \in Nat
      /\ limits.failedTotal + 1 \in 0..MaxFailedTotal
  <2>1. /\ guesses[token] = limits.failedTotal /\ guesses \in [1..MaxLinks -> 0..MaxFailedTotal]
        /\ linksIssued <= MaxLinks
    BY <1>1 DEF LimitsInv, Counted
  <2>2. token \in Nat \ {0} /\ limits.failedTotal \in Nat
    BY DEF LimitsInv, LinkInv, Typed
  <2>3. limits.failedTotal < MaxFailedTotal
    BY <1>1, <2>2 DEF Throttled
  <2> QED
    BY <1>1, <2>1, <2>2, <2>3
<1>5. \/ /\ log' = [log EXCEPT ![k].verifiedAt = now]
         /\ challenge'.code = NULL /\ UNCHANGED <<limits, guesses>>
      \/ /\ log' = [log EXCEPT ![k].wrong = @ + 1]
         /\ challenge' = IF Exhausted(challenge.attempts + 1) THEN NoChallenge
                         ELSE [challenge EXCEPT !.attempts = @ + 1]
         /\ limits' = [limits EXCEPT !.failedTotal = @ + 1]
         /\ guesses' = [guesses EXCEPT ![token] = @ + 1]
  BY DEF VerifyCode, LimitsInv, LinkInv, Typed
<1>6. /\ DOMAIN log' = DOMAIN log
      /\ \A j \in DOMAIN log :
           /\ log'[j].link = log[j].link /\ log'[j].at = log[j].at
           /\ log'[j].window = log[j].window
           /\ j # k => log'[j] = log[j]
  <2>1. CASE log' = [log EXCEPT ![k].verifiedAt = now]
    BY <1>2, <2>1 DEF LogEntry
  <2>2. CASE log' = [log EXCEPT ![k].wrong = @ + 1]
    BY <1>2, <2>2 DEF LogEntry
  <2> QED
    BY <1>5, <2>1, <2>2
<1>7. limits'.windowStartedAt = limits.windowStartedAt /\ limits'.sentCount = limits.sentCount
  BY <1>5 DEF LimitsInv, LinkInv, Typed
<1>8. WindowsApart' /\ WindowIsLast'
  <2>1. now' >= now
    BY <1>1 DEF LimitsInv, LinkInv, Typed
  <2> QED
    BY <1>1, <1>6, <1>7, <2>1, WindowIsKept
<1>9. Last' = log'[k]
  BY <1>2, <1>6, LogIsTyped DEF Last, LimitsInv
<1>10. CASE UNCHANGED <<limits, guesses>> /\ log' = [log EXCEPT ![k].verifiedAt = now]
            /\ challenge'.code = NULL
  <2>1. \A j \in DOMAIN log : log'[j].wrong = log[j].wrong
    BY <1>2, <1>10 DEF LogEntry
  <2> QED
    <3>1. Counted'
      BY <1>1, <1>6, <1>10, <2>1 DEF LimitsInv, Counted
    <3> QED
      BY <1>8, <3>1 DEF LimitsInv
<1>11. CASE /\ log' = [log EXCEPT ![k].wrong = @ + 1]
            /\ challenge' = IF Exhausted(challenge.attempts + 1) THEN NoChallenge
                            ELSE [challenge EXCEPT !.attempts = @ + 1]
            /\ limits' = [limits EXCEPT !.failedTotal = @ + 1]
            /\ guesses' = [guesses EXCEPT ![token] = @ + 1]
  <2>1. log'[k].wrong = challenge.attempts + 1 /\ challenge.attempts + 1 <= MaxAttempts
    BY <1>2, <1>3, <1>11 DEF LogEntry
  <2>2. challenge'.code # NULL =>
          /\ Last'.wrong = challenge'.attempts /\ challenge'.attempts < MaxAttempts
    <3>1. CASE challenge' = NoChallenge
      BY <3>1 DEF NoChallenge
    <3>2. CASE challenge' = [challenge EXCEPT !.attempts = @ + 1] /\ ~Exhausted(challenge.attempts + 1)
      <4>1. challenge'.attempts = challenge.attempts + 1
        BY <3>2 DEF LimitsInv, LinkInv, Typed
      <4> QED
        BY <1>3, <1>9, <2>1, <3>2, <4>1 DEF Exhausted
    <3> QED
      BY <1>11, <3>1, <3>2
  <2>3. \A j \in DOMAIN log : log'[j].wrong <= MaxAttempts
    BY <1>6, <2>1 DEF LimitsInv, Counted
  <2>4. limits'.failedTotal = limits.failedTotal + 1
    BY <1>11 DEF LimitsInv, LinkInv, Typed
  <2>5. /\ guesses' \in [1..MaxLinks -> 0..MaxFailedTotal] /\ guesses'[token] = limits'.failedTotal
        /\ \A t \in 1..MaxLinks : t > linksIssued => guesses'[t] = 0
    <3>1. guesses' \in [1..MaxLinks -> 0..MaxFailedTotal] /\ guesses'[token] = limits'.failedTotal
      BY <1>4, <1>11, <2>4
    <3>2. \A t \in 1..MaxLinks : t > linksIssued => guesses'[t] = guesses[t]
      BY <1>1, <1>4, <1>11
    <3> QED
      BY <3>1, <3>2 DEF LimitsInv, Counted
  <2>6. \A j \in DOMAIN log' : log'[j].wrong <= MaxAttempts /\ log'[j].link <= linksIssued
    BY <1>6, <2>3 DEF LimitsInv, Counted
  <2>7. linksIssued <= MaxLinks /\ limits'.sentCount <= MaxSends
    BY <1>7 DEF LimitsInv, Counted
  <2>8. Counted'
    BY <1>1, <2>2, <2>5, <2>6, <2>7 DEF Counted
  <2> QED
    BY <1>8, <2>8 DEF LimitsInv
<1> QED
  BY <1>5, <1>10, <1>11

LEMMA StepLimits == LimitsInv /\ [Next]_vars => LimitsInv'
<1> SUFFICES ASSUME LimitsInv, [Next]_vars PROVE LimitsInv'
  OBVIOUS
<1>1. LinkInv' /\ now \in Nat
  BY StepInv DEF LimitsInv, LinkInv, Typed
<1>2. ASSUME NEW delivery, IssueLink(delivery) PROVE LimitsInv'
  <2> DEFINE new == [token |-> linksIssued + 1, expiresAt |-> now + LinkTTL]
  <2>1. /\ UNCHANGED history /\ now' = now /\ ReplaceLink(new)
        /\ linksIssued' = linksIssued + 1 /\ linksIssued' <= MaxLinks
    BY <1>2 DEF IssueLink
  <2>2. new.token = linksIssued + 1
    OBVIOUS
  <2> HIDE DEF new
  <2> QED
    BY <1>1, <2>1, <2>2, ReplacedLimits
<1>3. ASSUME NEW decision, OwnerDecides(decision) PROVE LimitsInv'
  BY <1>1, <1>3, ReplacedLimits DEF OwnerDecides
<1>4. ASSUME NEW token \in lookedUp, NEW proof, NEW e, NEW answer, Answer(token, proof, e, answer)
      PROVE  LimitsInv'
  BY <1>1, <1>4, ReplacedLimits DEF Answer
<1>5. ASSUME NEW m, MailFails(m) PROVE LimitsInv'
  <2>1. UNCHANGED history /\ now' = now /\ linksIssued' = linksIssued
    BY <1>5 DEF MailFails
  <2>2. \/ ReplaceLink(NoLink)
        \/ UNCHANGED <<link, limits>> /\ (challenge' = NoChallenge \/ challenge' = challenge)
    BY <1>5 DEF MailFails
  <2> QED
    BY <1>1, <2>1, <2>2, ReplacedLimits, StandingLimits
<1>6. ASSUME FindByToken \/ Tick \/ (\E m : MailEnds(m)) \/ UNCHANGED vars PROVE LimitsInv'
  <2>1. UNCHANGED <<link, limits, challenge, linksIssued, history>> /\ now' >= now
    BY <1>1, <1>6 DEF FindByToken, Tick, MailEnds, vars, row
  <2> QED
    BY <1>1, <2>1, StandingLimits
<1>7. CASE OwnerStep
  BY <1>2, <1>3, <1>7 DEF OwnerStep
<1>8. CASE GuestStep
  BY <1>1, <1>4, <1>6, <1>8, RequestCodeLimits, VerifyCodeLimits DEF GuestStep
<1>9. CASE MailStep
  BY <1>5, <1>6, <1>9 DEF MailStep
<1>10. CASE Tick \/ UNCHANGED vars
  BY <1>6, <1>10
<1> QED
  BY <1>7, <1>8, <1>9, <1>10 DEF Next

LEMMA InitLimits == Init => LimitsInv
<1> SUFFICES ASSUME Init PROVE LimitsInv
  OBVIOUS
<1>1. LinkInv
  BY InitInv
<1>2. DOMAIN log = {}
  <2>1. log = <<>> /\ Len(log) = 0
    BY EmptySeq DEF Init
  <2> QED
    BY <1>1, <2>1, LogIsTyped
<1>3. Counted
  BY <1>2 DEF Init, Counted, NoLimits, NoLink, NoChallenge
<1>4. WindowsApart /\ WindowIsLast
  BY <1>2 DEF Init, WindowsApart, WindowIsLast
<1> QED
  BY <1>1, <1>3, <1>4 DEF LimitsInv

\* The counters of the row are those of the history while the link they limit is in force,
\* and the windows of a link never overlap.
THEOREM LimitsInvariance == Spec => []LimitsInv
BY InitLimits, StepLimits, PTL DEF Spec

\* A stretch as long as a window meets two windows at most, and when it meets two it misses
\* the code that opened the earlier one.
LEMMA StretchIsBounded ==
  ASSUME LimitsInv, NEW token, NEW from \in Nat
  PROVE  Cardinality({k \in IssuedUnder(token) : log[k].at \in from..(from + SendWindow - 1)})
           <= 2 * MaxSends - 1
<1> DEFINE X == {k \in IssuedUnder(token) : log[k].at \in from..(from + SendWindow - 1)}
           W(k) == SentIn(token, log[k].window)
<1>1. /\ \A k \in DOMAIN log : log[k].at \in Nat /\ log[k].window \in Nat
      /\ SendWindow \in Nat \ {0} /\ MaxSends \in Nat \ {0}
  BY LogIsTyped DEF LimitsInv
<1>2. ASSUME NEW k \in IssuedUnder(token)
      PROVE  /\ k \in DOMAIN log /\ log[k].link = token
             /\ log[k].window <= log[k].at /\ log[k].at < log[k].window + SendWindow
             /\ \E first \in W(k) : log[first].at = log[k].window
             /\ IsFiniteSet(W(k)) /\ Cardinality(W(k)) \in Nat /\ Cardinality(W(k)) <= MaxSends
  <2>1. k \in DOMAIN log /\ log[k].link = token
    BY DEF IssuedUnder
  <2>2. IsFiniteSet(W(k)) /\ Cardinality(W(k)) \in Nat
    BY SentIsFinite DEF LimitsInv
  <2> QED
    BY <2>1, <2>2 DEF LimitsInv, WindowsApart
<1>3. ASSUME NEW j \in IssuedUnder(token), NEW k \in IssuedUnder(token)
      PROVE  \/ log[j].window = log[k].window
             \/ log[j].window + SendWindow <= log[k].window
             \/ log[k].window + SendWindow <= log[j].window
  BY <1>2 DEF LimitsInv, WindowsApart
<1>4. IsFiniteSet(X) /\ Cardinality(X) \in Nat
  <2>1. X \in SUBSET (1..Len(log)) /\ Len(log) \in Nat
    BY LogIsTyped DEF LimitsInv, IssuedUnder
  <2>2. IsFiniteSet(1..Len(log))
    BY <2>1, FS_Interval
  <2> HIDE DEF X
  <2>3. IsFiniteSet(X)
    BY <2>1, <2>2, FS_Subset
  <2> QED
    BY <2>3, FS_CardinalityType
<1>5. ASSUME X = {} PROVE Cardinality(X) <= 2 * MaxSends - 1
  <2> HIDE DEF X
  <2>1. Cardinality(X) = 0
    BY <1>5, FS_EmptySet
  <2> QED
    BY <1>1, <2>1
<1>6. ASSUME NEW k \in X, \A j \in X : log[j].window = log[k].window
      PROVE  Cardinality(X) <= 2 * MaxSends - 1
  <2>1. X \in SUBSET W(k) /\ k \in IssuedUnder(token)
    BY <1>6 DEF SentIn
  <2>2. Cardinality(X) <= Cardinality(W(k))
    BY <1>2, <2>1, FS_Subset
  <2> HIDE DEF X, W
  <2> QED
    BY <1>1, <1>2, <1>4, <2>1, <2>2
<1>7. ASSUME NEW j \in X, NEW k \in X, log[j].window + SendWindow <= log[k].window
      PROVE  Cardinality(X) <= 2 * MaxSends - 1
  <2>1. j \in IssuedUnder(token) /\ k \in IssuedUnder(token)
    OBVIOUS
  <2>2. PICK first \in W(j) : log[first].at = log[j].window
    BY <1>2, <2>1
  <2>3. /\ log[j].window <= log[j].at /\ log[j].at < log[j].window + SendWindow
        /\ from <= log[j].at /\ log[k].window <= log[k].at /\ log[k].at < from + SendWindow
    BY <1>1, <1>2, <2>1
  <2>4. log[j].window < from /\ from < log[j].window + SendWindow
        /\ log[k].window < from + SendWindow
    BY <1>1, <1>2, <1>7, <2>1, <2>3
  <2>5. \A i \in X : i \in W(j) \cup W(k)
    <3> SUFFICES ASSUME NEW i \in X PROVE log[i].window \in {log[j].window, log[k].window}
      BY DEF SentIn
    <3>1. i \in IssuedUnder(token) /\ from <= log[i].at /\ log[i].at < from + SendWindow
          /\ log[i].window <= log[i].at /\ log[i].at < log[i].window + SendWindow
      BY <1>1, <1>2
    <3> QED
      BY <1>1, <1>2, <1>3, <1>7, <2>1, <2>4, <3>1
  <2>6. first \notin X
    BY <1>1, <1>2, <2>1, <2>2, <2>4
  <2>7. X \in SUBSET ((W(j) \ {first}) \cup W(k))
    BY <2>5, <2>6
  <2>8. /\ IsFiniteSet(W(j) \ {first}) /\ Cardinality(W(j) \ {first}) = Cardinality(W(j)) - 1
        /\ IsFiniteSet(W(j)) /\ IsFiniteSet(W(k)) /\ Cardinality(W(j)) <= MaxSends
        /\ Cardinality(W(k)) <= MaxSends /\ Cardinality(W(j)) \in Nat /\ Cardinality(W(k)) \in Nat
    <3>1. IsFiniteSet(W(j)) /\ IsFiniteSet(W(k)) /\ Cardinality(W(j)) <= MaxSends
          /\ Cardinality(W(k)) <= MaxSends /\ Cardinality(W(j)) \in Nat /\ Cardinality(W(k)) \in Nat
      BY <1>2, <2>1
    <3> HIDE DEF W
    <3> QED
      BY <2>2, <3>1, FS_RemoveElement
  <2> HIDE DEF X, W
  <2>9. /\ IsFiniteSet((W(j) \ {first}) \cup W(k))
        /\ Cardinality((W(j) \ {first}) \cup W(k)) <= 2 * MaxSends - 1
    <3> DEFINE A == W(j) \ {first}
               B == W(k)
    <3>1. IsFiniteSet(A) /\ IsFiniteSet(B) /\ Cardinality(A) \in Nat /\ Cardinality(B) \in Nat
          /\ Cardinality(A) + Cardinality(B) <= 2 * MaxSends - 1
      BY <1>1, <2>8, FS_CardinalityType
    <3> HIDE DEF A, B
    <3>2. /\ IsFiniteSet(A \cup B)
          /\ Cardinality(A \cup B) = Cardinality(A) + Cardinality(B) - Cardinality(A \cap B)
      BY <3>1, FS_Union
    <3>3. Cardinality(A \cap B) \in Nat
      <4>1. A \cap B \in SUBSET A
        OBVIOUS
      <4> QED
        BY <3>1, <4>1, FS_Subset, FS_CardinalityType
    <3>4. IsFiniteSet(A \cup B) /\ Cardinality(A \cup B) <= 2 * MaxSends - 1
      BY <1>1, <3>1, <3>2, <3>3
    <3> QED
      BY <3>4 DEF A, B
  <2> DEFINE C == (W(j) \ {first}) \cup W(k)
  <2>10. X \in SUBSET C /\ IsFiniteSet(C) /\ Cardinality(C) <= 2 * MaxSends - 1
    BY <2>7, <2>9
  <2> HIDE DEF C
  <2>11. Cardinality(X) <= Cardinality(C) /\ Cardinality(C) \in Nat
    BY <2>10, FS_Subset, FS_CardinalityType
  <2> QED
    BY <1>1, <1>4, <2>10, <2>11
<1> QED
  <2>1. X \subseteq IssuedUnder(token)
    OBVIOUS
  <2> HIDE DEF X
  <2>2. \/ X = {}
        \/ \E k \in X : \A j \in X : log[j].window = log[k].window
        \/ \E j, k \in X : log[j].window + SendWindow <= log[k].window
    BY <1>3, <2>1
  <2>3. Cardinality(X) <= 2 * MaxSends - 1
    BY <1>5, <1>6, <1>7, <2>2
  <2> QED
    BY <2>3 DEF X

\* However guesses, codes, mails and expiries alternate, neither a code nor a link can be
\* guessed at more often than its limit, and no stretch as long as a window sees more mails
\* than two windows that touch allow.
THEOREM AbuseStaysBounded == Spec => []AbuseIsBounded
<1>1. LimitsInv => GuessesAreBounded
  <2> SUFFICES ASSUME LimitsInv
               PROVE  GuessesAreBounded
    OBVIOUS
  <2>1. \A k \in DOMAIN log : log[k].wrong <= MaxAttempts
    BY DEF LimitsInv, Counted
  <2>2. linksIssued \in Nat /\ linksIssued <= MaxLinks
    BY DEF LimitsInv, LinkInv, Typed, Counted
  <2>3. guesses \in [1..MaxLinks -> 0..MaxFailedTotal]
    BY DEF LimitsInv, Counted
  <2>4. \A token \in 1..linksIssued : guesses[token] <= MaxFailedTotal
    BY <2>2, <2>3
  <2> QED
    BY <2>1, <2>4 DEF GuessesAreBounded
<1>2. LimitsInv => SendsAreBounded
  <2> SUFFICES ASSUME LimitsInv, NEW token \in 1..linksIssued, NEW from \in Times
               PROVE  Cardinality({k \in IssuedUnder(token) : log[k].at \in from..(from + SendWindow - 1)})
                        <= 2 * MaxSends - 1
    BY DEF SendsAreBounded
  <2>1. from \in Nat
    BY DEF Times
  <2> QED
    BY <2>1, StretchIsBounded
<1>3. LimitsInv => AbuseIsBounded
  BY <1>1, <1>2 DEF AbuseIsBounded
<1> QED
  BY <1>3, LimitsInvariance, PTL

\* A row keeps its code until something is done to that code, its link or its own mail.
LEMMA StepOwnMail ==
  ASSUME LimitsInv, [Next]_vars
  PROVE  /\ challenge.codeNonce # 0 /\ challenge'.codeNonce # challenge.codeNonce =>
              \/ link' # link \/ Len(log') > Len(log)
              \/ log'[challenge.codeNonce].verifiedAt # NULL
              \/ log'[challenge.codeNonce].wrong = MaxAttempts
              \/ \E m \in mails \ mails' : m.kind = "CODE" /\ m.id = challenge.codeNonce
         /\ link # NoLink /\ link' # link =>
              \/ linksIssued' > linksIssued \/ status' # "OPEN"
              \/ \E m \in mails \ mails' : m.kind = "LINK" /\ m.id = link.token
<1> DEFINE k == challenge.codeNonce
           CodeGoal == k # 0 /\ challenge'.codeNonce # k =>
                         \/ link' # link \/ Len(log') > Len(log)
                         \/ log'[k].verifiedAt # NULL \/ log'[k].wrong = MaxAttempts
                         \/ \E m \in mails \ mails' : m.kind = "CODE" /\ m.id = k
           LinkGoal == link # NoLink /\ link' # link =>
                         \/ linksIssued' > linksIssued \/ status' # "OPEN"
                         \/ \E m \in mails \ mails' : m.kind = "LINK" /\ m.id = link.token
<1> SUFFICES CodeGoal /\ LinkGoal
  OBVIOUS
<1>1. link = NoLink => k = 0
  BY DEF LimitsInv, Counted, NoChallenge
<1>2. linksIssued \in Nat /\ Len(log) \in Nat
  BY LogIsTyped DEF LimitsInv, LinkInv, Typed
<1>3. ASSUME NEW delivery, IssueLink(delivery) PROVE CodeGoal /\ LinkGoal
  <2>1. linksIssued' = linksIssued + 1 /\ link'.token = linksIssued + 1
    BY <1>3 DEF IssueLink, ReplaceLink
  <2>2. link # NoLink => link.token = linksIssued
    BY DEF LimitsInv, LinkInv, LinkIsLast
  <2> QED
    BY <1>1, <1>2, <2>1, <2>2
<1>4. ASSUME link' = NoLink, status' # "OPEN" PROVE CodeGoal /\ LinkGoal
  BY <1>1, <1>4
<1>5. ASSUME NEW m, MailFails(m) PROVE CodeGoal /\ LinkGoal
  <2>1. m \in mails \ mails'
    BY <1>5 DEF MailFails
  <2>2. CASE LinkOf(m)
    <3>1. link' = NoLink
      BY <1>5, <2>2 DEF MailFails, LinkOf, CodeOf, ReplaceLink
    <3>2. m.kind = "LINK" /\ m.id = link.token
      BY <2>2 DEF LinkOf
    <3> QED
      BY <1>1, <2>1, <3>1, <3>2
  <2>3. CASE ~LinkOf(m) /\ CodeOf(m)
    BY <1>5, <2>1, <2>3 DEF MailFails, CodeOf
  <2>4. CASE ~LinkOf(m) /\ ~CodeOf(m)
    BY <1>5, <2>4 DEF MailFails
  <2> QED
    BY <2>2, <2>3, <2>4
<1>6. ASSUME UNCHANGED <<link, challenge>> PROVE CodeGoal /\ LinkGoal
  BY <1>6
<1>7. ASSUME NEW token \in lookedUp, NEW e \in Claims, NEW code \in Codes,
             RequestCode(token, e, code)
      PROVE  CodeGoal /\ LinkGoal
  <2>1. link' = link /\ Len(log') > Len(log)
    <3>1. link' = link
      BY <1>7 DEF RequestCode
    <3>2. Len(log') = Len(log) + 1
      BY <1>7, RequestCodeLog DEF LimitsInv
    <3> QED
      BY <1>2, <3>1, <3>2
  <2> QED
    BY <2>1
<1>8. ASSUME NEW token \in lookedUp, NEW e \in Claims, NEW code \in Codes,
             VerifyCode(token, e, code)
      PROVE  CodeGoal /\ LinkGoal
  <2>1. /\ link' = link /\ CodeLive /\ now \in Nat
        /\ k = Len(log) /\ k \in DOMAIN log /\ log[k] \in LogEntry
    <3>1. link' = link /\ CodeLive
      BY <1>8 DEF VerifyCode
    <3> QED
      BY <3>1, LogIsTyped, EmptySeq DEF LimitsInv, LinkInv, Typed, CodeIsLast, CodeLive
  <2>2. log[k].wrong = challenge.attempts /\ challenge.attempts < MaxAttempts
        /\ challenge.attempts \in Nat
    BY <2>1 DEF LimitsInv, LinkInv, Typed, Counted, CodeLive, Last
  <2>3. CASE e = challenge.mac /\ code = challenge.code
    <3>1. log' = [log EXCEPT ![k].verifiedAt = now]
      BY <1>8, <2>3 DEF VerifyCode
    <3>2. log'[k].verifiedAt # NULL
      BY <2>1, <3>1 DEF LogEntry
    <3> QED
      BY <2>1, <3>2
  <2>4. CASE ~(e = challenge.mac /\ code = challenge.code) /\ Exhausted(challenge.attempts + 1)
    <3>1. log' = [log EXCEPT ![k].wrong = @ + 1]
      BY <1>8, <2>4 DEF VerifyCode
    <3>2. log'[k].wrong = log[k].wrong + 1
      BY <2>1, <3>1 DEF LogEntry
    <3>3. challenge.attempts + 1 = MaxAttempts
      BY <2>2, <2>4, LimitsAssumption DEF Exhausted
    <3>4. log'[k].wrong = MaxAttempts
      BY <2>2, <3>2, <3>3
    <3> QED
      BY <2>1, <3>4
  <2>5. CASE ~(e = challenge.mac /\ code = challenge.code) /\ ~Exhausted(challenge.attempts + 1)
    <3>1. challenge' = [challenge EXCEPT !.attempts = @ + 1]
      BY <1>8, <2>5 DEF VerifyCode
    <3>2. challenge'.codeNonce = k
      BY <3>1 DEF LimitsInv, LinkInv, Typed
    <3> QED
      BY <2>1, <3>2
  <2> QED
    BY <2>3, <2>4, <2>5
<1> HIDE DEF CodeGoal, LinkGoal
<1>9. CASE OwnerStep
  <2>1. ASSUME NEW decision \in {"CANCELLED", "OWNER_RECORDED"}, OwnerDecides(decision)
        PROVE  link' = NoLink /\ status' # "OPEN"
    BY <2>1 DEF OwnerDecides, ReplaceLink
  <2> QED
    BY <1>3, <1>4, <1>9, <2>1 DEF OwnerStep
<1>10. CASE GuestStep
  <2>1. ASSUME NEW token \in lookedUp, NEW proof, NEW e, NEW answer \in {"RECEIVED", "DENIED"},
               Answer(token, proof, e, answer)
        PROVE  link' = NoLink /\ status' # "OPEN"
    BY <2>1 DEF Answer, ReplaceLink
  <2>2. ASSUME FindByToken PROVE UNCHANGED <<link, challenge>>
    BY <2>2 DEF FindByToken, row
  <2> QED
    BY <1>4, <1>6, <1>7, <1>8, <1>10, <2>1, <2>2 DEF GuestStep
<1>11. CASE MailStep
  <2>1. ASSUME NEW m, MailEnds(m) PROVE UNCHANGED <<link, challenge>>
    BY <2>1 DEF MailEnds, row
  <2> QED
    BY <1>5, <1>6, <1>11, <2>1 DEF MailStep
<1>12. CASE Tick \/ UNCHANGED vars
  BY <1>6, <1>12 DEF Tick, vars, row
<1>13. CodeGoal /\ LinkGoal
  BY <1>9, <1>10, <1>11, <1>12 DEF Next
<1> QED
  BY <1>13 DEF CodeGoal, LinkGoal

\* A mail that fails late takes back the code or the link it carried and no other.
THEOREM OthersKeepTheirSecrets == Spec => OnlyOwnMailTakesBack
<1>1. ASSUME LimitsInv, [Next]_vars
      PROVE  [/\ challenge.codeNonce # 0 /\ challenge'.codeNonce # challenge.codeNonce =>
                   \/ link' # link \/ Len(log') > Len(log)
                   \/ log'[challenge.codeNonce].verifiedAt # NULL
                   \/ log'[challenge.codeNonce].wrong = MaxAttempts
                   \/ \E m \in mails \ mails' : m.kind = "CODE" /\ m.id = challenge.codeNonce
              /\ link # NoLink /\ link' # link =>
                   \/ linksIssued' > linksIssued \/ status' # "OPEN"
                   \/ \E m \in mails \ mails' : m.kind = "LINK" /\ m.id = link.token]_vars
  BY <1>1, StepOwnMail
<1> QED
  BY LimitsInvariance, <1>1, PTL DEF Spec, OnlyOwnMailTakesBack

=============================================================================
