----------------------------- MODULE GuestLink -----------------------------
(* One request for a guest's confirmation: the link, the code, the attempts and  *)
(* the proof that decide who may answer it (guest-loan-response.service.ts,      *)
(* issueLink of guest-loan-confirmation.service.ts, guest-confirmation.rules.ts) *)
(*                                                                               *)
(* Every handler looks the token up without a lock, then locks the row and       *)
(* checks it again in a transaction; mails are sent after the commit, and a      *)
(* failed one takes back what it carried in a statement of its own.              *)
(*                                                                               *)
(* Random secrets are numbers in the order they are drawn: links 1, 2, ..., and  *)
(* codeNonce k for the k-th code, which also stands for the proof given for that *)
(* code.  The six digits are drawn from Codes and may repeat.                    *)

EXTENDS Naturals, Sequences, FiniteSets

CONSTANTS
  Claims,                                   \* an email address together with a nickname
  Codes,                                    \* what the digits of a code can be
  NULL,
  LinkTTL, CodeTTL, ProofTTL, SendWindow,   \* GUEST_LINK_TTL_MS and the like
  MaxAttempts,                              \* GUEST_CODE_MAX_ATTEMPTS
  MaxFailedTotal,                           \* GUEST_CODE_MAX_FAILED_TOTAL
  MaxSends,                                 \* GUEST_CODE_MAX_SENDS_PER_WINDOW
  MaxLinks, MaxCodes, MaxTime               \* bounds of a run

ASSUME LimitsAssumption ==
  /\ LinkTTL \in Nat \ {0} /\ CodeTTL \in Nat \ {0} /\ ProofTTL \in Nat \ {0}
  /\ SendWindow \in Nat \ {0} /\ MaxAttempts \in Nat \ {0}
  /\ MaxFailedTotal \in Nat \ {0} /\ MaxSends \in Nat \ {0}
  /\ MaxLinks \in Nat /\ MaxCodes \in Nat /\ MaxTime \in Nat
  /\ NULL \notin Claims /\ NULL \notin Codes /\ NULL \notin Nat

VARIABLES
  now,         \* the clock of the service
  status,      \* GuestLoanConfirmation.status
  link,        \* token and expiry of the current link
  limits,      \* codeFailedTotal, codeSentCount, codeWindowStartedAt
  challenge,   \* the columns of CLEARED_CHALLENGE
  contact,     \* guestEmail and guestEmailVerifiedAt of the ExternalBorrower; as ghosts,
               \* the link and the moment of the answer that wrote them
  lookedUp,    \* tokens that requests in progress have found by findByToken
  mails,       \* mails being sent
  linksIssued, \* how many links were issued
  log,         \* ghost: for every code ever issued what became of it
  guesses      \* ghost: the wrong guesses under every link

row == <<status, link, limits, challenge>>
history == <<log, guesses>>
vars == <<now, row, contact, lookedUp, mails, linksIssued, history>>

NoLink == [token |-> 0, expiresAt |-> 0]
NoLimits == [failedTotal |-> 0, sentCount |-> 0, windowStartedAt |-> NULL]
NoChallenge == [mac |-> NULL, code |-> NULL, codeNonce |-> 0, codeExpiresAt |-> 0, attempts |-> 0,
                proof |-> 0, proofExpiresAt |-> 0, verifiedAt |-> NULL]

Init ==
  /\ now = 0
  /\ status = "OPEN"
  /\ link = NoLink /\ limits = NoLimits /\ challenge = NoChallenge
  /\ contact = [guestEmail |-> NULL, verifiedAt |-> NULL, ghostLink |-> 0, answeredAt |-> 0]
  /\ lookedUp = {} /\ mails = {} /\ linksIssued = 0
  /\ log = <<>> /\ guesses = [token \in 1..MaxLinks |-> 0]

\* CLEARED_LINK_AND_CHALLENGE, with the values of the new link written over it.
ReplaceLink(new) == link' = new /\ limits' = NoLimits /\ challenge' = NoChallenge

-----------------------------------------------------------------------------
(* The owner: issueLink and applyAction *)

\* rotateLink.  A link that is copied needs no mail.
IssueLink(delivery) ==
  LET token == linksIssued + 1 IN
  /\ status = "OPEN" /\ token <= MaxLinks
  /\ ReplaceLink([token |-> token, expiresAt |-> now + LinkTTL])
  /\ mails' = IF delivery = "EMAIL" THEN mails \cup {[kind |-> "LINK", id |-> token, code |-> NULL]}
                                    ELSE mails
  /\ linksIssued' = token
  /\ UNCHANGED <<now, status, contact, lookedUp, history>>

OwnerDecides(decision) ==
  /\ status \in {"OPEN", "DENIED"}
  /\ status' = decision
  /\ ReplaceLink(NoLink)
  /\ UNCHANGED <<now, contact, lookedUp, mails, linksIssued, history>>

-----------------------------------------------------------------------------
(* The guest: requestCode, verifyCode, answer *)

\* findByToken: the row is found before it is locked, and may change before it is.
FindByToken ==
  /\ link.token \notin lookedUp \cup {0}
  /\ lookedUp' = lookedUp \cup {link.token}
  /\ UNCHANGED <<now, row, contact, mails, linksIssued, history>>

Faulty_LockOwnRow(token) ==   \* trusts the unlocked lookup
  token \in lookedUp /\ status = "OPEN" /\ link # NoLink /\ now < link.expiresAt

\* The locked row is still the one the token opens.
LockOwnRow(token) ==
  token \in lookedUp /\ status = "OPEN" /\ link.token = token /\ now < link.expiresAt

Faulty_Throttled == limits.failedTotal > MaxFailedTotal

Throttled == limits.failedTotal >= MaxFailedTotal

WindowOpen == limits.windowStartedAt # NULL /\ now - limits.windowStartedAt < SendWindow

Faulty_NewChallenge(e, code, nonce) ==   \* an earlier proof survives
  [challenge EXCEPT !.mac = e, !.code = code, !.codeNonce = nonce,
                    !.codeExpiresAt = now + CodeTTL, !.attempts = 0]

\* A new code replaces the previous challenge and any proof.
NewChallenge(e, code, nonce) ==
  [NoChallenge EXCEPT !.mac = e, !.code = code, !.codeNonce = nonce, !.codeExpiresAt = now + CodeTTL]

RequestCode(token, e, code) ==
  LET sent == IF WindowOpen THEN limits.sentCount ELSE 0
      window == IF WindowOpen THEN limits.windowStartedAt ELSE now
      nonce == Len(log) + 1
  IN
  /\ LockOwnRow(token) /\ ~Throttled
  /\ sent < MaxSends /\ nonce <= MaxCodes
  /\ challenge' = NewChallenge(e, code, nonce)
  /\ limits' = [limits EXCEPT !.sentCount = sent + 1, !.windowStartedAt = window]
  /\ mails' = mails \cup {[kind |-> "CODE", id |-> nonce, code |-> code]}
  /\ log' = Append(log, [link |-> token, claim |-> e, at |-> now, window |-> window,
                         wrong |-> 0, verifiedAt |-> NULL])
  /\ UNCHANGED <<now, status, link, contact, lookedUp, linksIssued, guesses>>

Exhausted(attempts) == attempts >= MaxAttempts

CodeLive == challenge.code # NULL /\ now < challenge.codeExpiresAt

\* Without a live code nothing is counted and nothing changes.
VerifyCode(token, e, code) ==
  LET k == challenge.codeNonce IN
  /\ LockOwnRow(token) /\ ~Throttled
  /\ CodeLive
  /\ IF e = challenge.mac /\ code = challenge.code
     THEN /\ challenge' = [challenge EXCEPT !.code = NULL, !.codeNonce = 0, !.codeExpiresAt = 0,
                                            !.attempts = 0, !.proof = k,
                                            !.proofExpiresAt = now + ProofTTL, !.verifiedAt = now]
          /\ log' = [log EXCEPT ![k].verifiedAt = now]
          /\ UNCHANGED <<limits, guesses>>
     ELSE /\ challenge' = IF Exhausted(challenge.attempts + 1) THEN NoChallenge
                          ELSE [challenge EXCEPT !.attempts = @ + 1]
          /\ limits' = [limits EXCEPT !.failedTotal = @ + 1]
          /\ log' = [log EXCEPT ![k].wrong = @ + 1]
          /\ guesses' = [guesses EXCEPT ![token] = @ + 1]
  /\ UNCHANGED <<now, status, link, contact, lookedUp, mails, linksIssued>>

ProofAccepted(proof, e) ==
  /\ challenge.proof = proof /\ now < challenge.proofExpiresAt
  /\ challenge.mac = e

\* Proofs are presented by whoever was given one, at any later time.
Answer(token, proof, e, answer) ==
  /\ LockOwnRow(token)
  /\ log[proof].verifiedAt # NULL /\ ProofAccepted(proof, e)
  /\ status' = answer
  /\ contact' = [guestEmail |-> e, verifiedAt |-> challenge.verifiedAt,
                 ghostLink |-> token, answeredAt |-> now]
  /\ ReplaceLink(NoLink)
  /\ UNCHANGED <<now, lookedUp, mails, linksIssued, history>>

-----------------------------------------------------------------------------
(* Mails and time *)

\* The mail was sent, or the process died while it was being sent: the row stays.
MailEnds(m) ==
  /\ m \in mails
  /\ mails' = mails \ {m}
  /\ UNCHANGED <<now, row, contact, lookedUp, linksIssued, history>>

Faulty_CodeOf(m) == m.kind = "CODE" /\ challenge.code = m.code   \* the digits, not the issue

CodeOf(m) == m.kind = "CODE" /\ challenge.codeNonce = m.id

LinkOf(m) == m.kind = "LINK" /\ link.token = m.id

\* The send failed (or said so): what it carried is taken back, unless it was replaced.
MailFails(m) ==
  /\ m \in mails
  /\ mails' = mails \ {m}
  /\ CASE LinkOf(m) -> ReplaceLink(NoLink)
       [] CodeOf(m) -> challenge' = NoChallenge /\ UNCHANGED <<link, limits>>
       [] OTHER -> UNCHANGED <<link, limits, challenge>>
  /\ UNCHANGED <<now, status, contact, lookedUp, linksIssued, history>>

Tick ==
  /\ now < MaxTime
  /\ now' = now + 1
  /\ UNCHANGED <<row, contact, lookedUp, mails, linksIssued, history>>

-----------------------------------------------------------------------------

OwnerStep ==
  \/ \E delivery \in {"COPY", "EMAIL"} : IssueLink(delivery)
  \/ \E decision \in {"CANCELLED", "OWNER_RECORDED"} : OwnerDecides(decision)

GuestStep ==
  \/ FindByToken
  \/ \E token \in lookedUp, e \in Claims :
       \/ \E code \in Codes : RequestCode(token, e, code) \/ VerifyCode(token, e, code)
       \/ \E proof \in DOMAIN log, answer \in {"RECEIVED", "DENIED"} : Answer(token, proof, e, answer)

MailStep == \E m \in mails : MailEnds(m) \/ MailFails(m)

Next == OwnerStep \/ GuestStep \/ MailStep \/ Tick

Spec == Init /\ [][Next]_vars

-----------------------------------------------------------------------------
(* Properties *)

Times == 0..MaxTime

IssuedUnder(token) == {k \in DOMAIN log : log[k].link = token}

\* However guesses, new codes, failed mails and expiries alternate, a code is guessed wrong
\* at most MaxAttempts times and a link sees at most MaxFailedTotal wrong guesses in all.
GuessesAreBounded ==
  /\ \A k \in DOMAIN log : log[k].wrong <= MaxAttempts
  /\ \A token \in 1..linksIssued : guesses[token] <= MaxFailedTotal

\* The window of codeWindowStartedAt is fixed, not sliding: no stretch of SendWindow sees
\* more than the last MaxSends - 1 mails of one window and MaxSends of the next.
SendsAreBounded ==
  \A token \in 1..linksIssued, from \in Times :
    Cardinality({k \in IssuedUnder(token) : log[k].at \in from..(from + SendWindow - 1)})
      <= 2 * MaxSends - 1

\* What may be tried and sent.
AbuseIsBounded == GuessesAreBounded /\ SendsAreBounded

Last == log[Len(log)]

\* An answer was given by somebody who had repeated the last code ever sent, which went to
\* the address now kept in the contact, under the same link and no longer ago than
\* ProofTTL; the contact's guestEmailVerifiedAt is the moment the code was repeated.
AnswerIsProven ==
  contact.guestEmail # NULL =>
    /\ log # <<>>
    /\ Last.claim = contact.guestEmail
    /\ Last.link = contact.ghostLink /\ Last.link = linksIssued
    /\ Last.verifiedAt # NULL /\ Last.verifiedAt = contact.verifiedAt
    /\ contact.answeredAt < Last.verifiedAt + ProofTTL
    /\ Last.verifiedAt < Last.at + CodeTTL

LogEntry == [link : Nat, claim : Claims, at : Nat, window : Nat, wrong : Nat,
             verifiedAt : Nat \cup {NULL}]

\* The types that the inductive invariant needs.
Typed ==
  /\ now \in Nat /\ linksIssued \in Nat /\ lookedUp \subseteq Nat \ {0}
  /\ link \in [token : Nat, expiresAt : Nat]
  /\ limits \in [failedTotal : Nat, sentCount : Nat, windowStartedAt : Nat \cup {NULL}]
  /\ challenge \in [mac : Claims \cup {NULL}, code : Codes \cup {NULL}, codeNonce : Nat,
                    codeExpiresAt : Nat, attempts : Nat, proof : Nat, proofExpiresAt : Nat,
                    verifiedAt : Nat \cup {NULL}]
  /\ contact \in [guestEmail : Claims \cup {NULL}, verifiedAt : Nat \cup {NULL},
                  ghostLink : Nat, answeredAt : Nat]
  /\ log \in Seq(LogEntry)

LinkIsLast == link # NoLink => link.token = linksIssued /\ link.token # 0

\* A code in the row is the last one issued, under the link in the row, not yet repeated.
CodeIsLast ==
  challenge.code # NULL =>
    /\ log # <<>> /\ challenge.codeNonce = Len(log) /\ challenge.proof = 0
    /\ Last.claim = challenge.mac /\ Last.link = link.token
    /\ Last.verifiedAt = NULL /\ challenge.codeExpiresAt = Last.at + CodeTTL

\* A proof in the row is that of the last code, which was repeated in time.
ProofIsLast ==
  challenge.proof # 0 =>
    /\ log # <<>> /\ challenge.proof = Len(log)
    /\ Last.claim = challenge.mac /\ Last.link = link.token
    /\ Last.verifiedAt # NULL /\ Last.verifiedAt = challenge.verifiedAt
    /\ challenge.proofExpiresAt = Last.verifiedAt + ProofTTL
    /\ Last.verifiedAt < Last.at + CodeTTL

\* Nothing is left of link, code and proof once the request is answered or decided.
ResolvedIsSealed ==
  /\ status # "OPEN" => link = NoLink /\ challenge = NoChallenge
  /\ status = "OPEN" => contact.guestEmail = NULL

\* The inductive invariant behind AnswerIsProven and KeepsWord: whatever the row holds
\* belongs to the last link and the last code, and to nothing once it is resolved.
LinkInv ==
  Typed /\ LinkIsLast /\ CodeIsLast /\ ProofIsLast /\ ResolvedIsSealed /\ AnswerIsProven

\* Nothing of a code without a link; of a code in the row, every wrong guess is counted, and
\* of a link, by the row while it is in force.
Counted ==
  /\ linksIssued <= MaxLinks
  /\ limits.sentCount <= MaxSends
  /\ guesses \in [1..MaxLinks -> 0..MaxFailedTotal]
  /\ \A token \in 1..MaxLinks : token > linksIssued => guesses[token] = 0
  /\ link # NoLink => guesses[link.token] = limits.failedTotal
  /\ link = NoLink => challenge = NoChallenge
  /\ challenge.code # NULL => Last.wrong = challenge.attempts /\ challenge.attempts < MaxAttempts
  /\ \A k \in DOMAIN log : log[k].wrong <= MaxAttempts /\ log[k].link <= linksIssued

SentIn(token, window) == {k \in IssuedUnder(token) : log[k].window = window}

\* The first code of a window is sent when it starts, and the windows of a link do not overlap.
WindowsApart ==
  /\ \A k \in DOMAIN log :
       /\ log[k].window <= log[k].at /\ log[k].at < log[k].window + SendWindow
       /\ \E first \in SentIn(log[k].link, log[k].window) : log[first].at = log[k].window
       /\ Cardinality(SentIn(log[k].link, log[k].window)) <= MaxSends
  /\ \A j, k \in DOMAIN log :
       log[j].link = log[k].link =>
         \/ log[j].window = log[k].window
         \/ log[j].window + SendWindow <= log[k].window
         \/ log[k].window + SendWindow <= log[j].window

\* The row of a link in force knows its last window and what was sent in it.
WindowIsLast ==
  link # NoLink =>
    IF limits.windowStartedAt = NULL THEN IssuedUnder(link.token) = {}
    ELSE /\ limits.windowStartedAt <= now
         /\ Cardinality(SentIn(link.token, limits.windowStartedAt)) = limits.sentCount
         /\ \E first \in SentIn(link.token, limits.windowStartedAt) :
              log[first].at = limits.windowStartedAt
         /\ \A k \in IssuedUnder(link.token) :
              \/ log[k].window = limits.windowStartedAt
              \/ log[k].window + SendWindow <= limits.windowStartedAt

\* The inductive invariant behind AbuseIsBounded and OnlyOwnMailTakesBack: the row's
\* counters are those of the history, for as long as the link they limit is in force.
LimitsInv == LinkInv /\ Counted /\ WindowsApart /\ WindowIsLast

\* A mail that fails late takes back nothing but what it carried: a code stays usable until
\* it is repeated, used up, replaced, or its own mail fails, or the link changes; a link
\* until it is replaced, the request is answered or decided, or its own mail fails.
OnlyOwnMailTakesBack ==
  [][/\ challenge.codeNonce # 0 /\ challenge'.codeNonce # challenge.codeNonce =>
          \/ link' # link \/ Len(log') > Len(log)
          \/ log'[challenge.codeNonce].verifiedAt # NULL
          \/ log'[challenge.codeNonce].wrong = MaxAttempts
          \/ \E m \in mails \ mails' : m.kind = "CODE" /\ m.id = challenge.codeNonce
     /\ link # NoLink /\ link' # link =>
          \/ linksIssued' > linksIssued \/ status' # "OPEN"
          \/ \E m \in mails \ mails' : m.kind = "LINK" /\ m.id = link.token]_vars

\* The abstract view: the claim with a usable code, and the claim with a usable proof.
LinkLive == link # NoLink /\ now < link.expiresAt
ProofLive == challenge.proof # 0 /\ now < challenge.proofExpiresAt

invited == IF LinkLive /\ CodeLive THEN {challenge.mac} ELSE {}
proven == IF LinkLive /\ ProofLive THEN {challenge.mac} ELSE {}

Word == INSTANCE GuestWord WITH Claims <- Claims, status <- status, invited <- invited, proven <- proven

\* Links, codes, proofs, counters and clocks together keep the promise of GuestWord.
KeepsWord == Word!WSpec

=============================================================================
