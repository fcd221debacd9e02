# BookSwap in TLA+

BookSwap is a service for lending one's own books to friends: a NestJS API
(`src/apps/api`) over one PostgreSQL database, a Next.js front end and a package
of shared contracts. This directory holds TLA+ models of the API's core logic,
the TLC configurations that check them on small instances and TLAPS proofs of
what matters most. Source paths below are relative to `src/apps/api/src` unless
they start with `src/`.

Run anything from this directory:

    tlc -workers 2 -config lending.cfg MCLending.tla
    tlapm LendingProofs.tla

`PROJECT.json` lists the runs, the theorems, the lines of code every definition
stands for, and for each property one mutant of the code that breaks it.

## 1. Inventory

All state is in PostgreSQL (READ COMMITTED); several API processes may run.
Handlers are transactions that lock rows with `SELECT ... FOR UPDATE` and read
again what they decide on. What is outside this pattern gives the system its hard
cases: conditional `updateMany` statements and checks without a lock, advisory
locks, mails and provider calls after the commit, background passes (dispatcher,
digest, clean-ups), and the shutdown of a process with work under way.

| Component | State | Operations | Interacts through | What makes it correct | Model |
|---|---|---|---|---|---|
| Transition tables (`loans/*.transitions.ts`) | none | event -> row | called by the loan services | every status has a way out that fits the copy | `LoanTransitions` |
| Registered loans (`loans/loan.service.ts`) | Loan, LoanEvent | request, record existing, PATCH with 11 actions | Copy lock, unique index, notifications | one claim per copy; loan and copy agree; rivals rejected and told | `Lending` |
| Owner's library (`library/library.service.ts`) | Copy | add, edit status, remove, archive, restore | Copy lock (not for the edit) | nothing changes under an active loan | `Lending` |
| Guest loans (`loans/guest-loan.service.ts`) | Loan, Copy, LoanEvent | create, return, mark lost, recover, close loss | lock order ExternalBorrower, Copy, Loan, Confirmation | as above, plus losses settled once | `GuestLending` |
| Hand-over confirmations (`loans/guest-loan-confirmation.service.ts`) | GuestLoanConfirmation | request, cancel, record, issue link | same chain; mail after commit | request, loan and copy tell one story | `GuestLending`, `GuestLink` |
| Guest answers (`loans/guest-loan-response.service.ts`) | link, code, proof columns | find by token, request code, verify, answer | public; mail after commit | only a proven answer counts; guesses are bounded | `GuestLink`, `GuestWord`, `GuestLending` |
| External borrowers, retention (`external-borrowers/`) | ExternalBorrower.retainUntil | create, delete, clean-up batch | ON DELETE SET NULL on copies, loans | nobody who holds a book is erased; the clock runs otherwise; no deadlock with owners and guests | `GuestLending` (without dates), `GuestLocks` |
| Notification dispatcher (`notifications/notification-dispatcher.service.ts`) | NotificationDelivery | reap, claim, load, renew, send, finish | several processes, providers | settled rows are final; eventually settled; no unexplained duplicate | `NotificationDispatcher` |
| Notification records (`notifications.service.ts`) | Notification | create in the caller's transaction | loans, friends, digest | nobody who is owed word misses it | part of `Lending`, `Friendship`, `NotificationDispatcher` |
| Digest (`notifications/notification-digest.service.ts`) | digestKey | hourly pass | unique key, row locks of loans | one event per person, kind and day; no false reminder | `Digest` |
| Friendship (`friends/`) | Friendship | request, accept, decline, remove, block | conditional writes, one retry | nobody a friend without agreeing; a block stands | `Friendship` |
| Invitations (`invitations/`) | Invitation, InvitationAcceptance | create, mail, revoke, accept, erase hashes | Friendship; row and advisory locks | uses and mails are limited; a revocation is final | `Invitations`, `InviteMails` |
| Accounts (`auth/`) | User, Session, one-time tokens, permits in memory | register, resend, reset, login, clean-up, shutdown | background mails, event loop | a token works once, a reset ends the rest; shutdown cuts nothing off | `AuthShutdown`, `Drain`, `PasswordReset` |
| Telegram link (`telegram/telegram-link.service.ts`) | TelegramLinkToken, User.telegramChatId | create, consume, unlink | row locks of users, then tokens | one live link per user, one account per chat, old links stay dead | `TelegramLink` |
| Quick add (`library/quick-add/`) | LibraryAddOperation, external references | add with an operation id | catalog, Copy, advisory lock | a retry yields the same copy; one edition per record | `QuickAdd` |
| Import (`library/import/`) | LibraryImport and its rows | preview, get, patch row, commit, expire | catalog locks, providers | committed once, as reviewed; drafts end with their rows | `LibraryImport` |
| Catalog (`catalog/`) | Work, Translation, Edition, CatalogRevision | create, correct | lock order Work, Translation, Edition | texts agree; no lost update | `EditionLanguage`, `WorkMerge` |
| Merge (`catalog/merge/`) | Work.mergedIntoId and everything that names a work | merge, by an operator | FOR UPDATE on works in id order | redirects one step deep; no user's row lost | `WorkMerge`, `EditionLanguage` |
| Reading status, wishlist | WorkReadingStatus, WishlistItem | set, add | FOR SHARE on the work, or a check only | survive merges | `WorkMerge` |
| ISBN lookup | ExternalBookLookup | read-through cache | external services | TTLs | not modelled |
| Access, history, analytics, web, senders | - | reads, presentation, external I/O | - | - | not modelled (see 7) |

Hard behaviour, by kind: owner's and borrower's operations on one copy in any
order; a statement that waited for a lock and decides on an old snapshot; losses
recovered twice or after the copy was lent again; a contact deleted while loans
refer to it; a guest answering while the owner decides; a mail failing after the
row it belongs to has moved on; a worker that dies, is paused or times out with
a message in flight; retries at the last attempt; requests that are repeated
while the first one still runs; transactions that lock the same rows in different
orders; a process that is told to stop in the middle of it all. The full list,
each at its line, is `hazards` in `PROJECT.json`.

## 2. Modules

    LoanTransitions            the tables as sets of records
      Lending                  copies, registered loans, the owner's library
        LendingHistory         + a memory of whether a status was edited
          LendingProofs        theorems about Lending, LendingHistory and Digest
        GuestLending           + contacts, guest loans, confirmations
          GuestLendingProofs   theorems about both together
    Digest                     the daily reminders of books that are due
    GuestWord                  abstract: who may answer for a guest
      GuestLink                links, codes, proofs, limits, mails; implements GuestWord
        GuestLinkProofs        theorems about GuestLink, the refinement included
    GuestLocks                 row locks of all that writes about guests, one by one
    NotificationDispatcher     delivery queue, workers, providers, time
      NotificationDispatcherProofs  theorems about the queue, the backoff and GuestLocks
    Drain                      abstract: what a graceful shutdown promises
      AuthShutdown             permits, background mails, two gates, one budget
    InviteMails                limits on invitations by mail, clean-up of hashes
    PasswordReset              reset tokens, logins and sessions of one account
    TelegramLink               one-time links between chats and accounts
    Friendship                 requests, answers and blocks of both sides
      Invitations              + links that make friends
        People                 beside InviteMails, TelegramLink and PasswordReset
          PeopleProofs         theorems about all of them, and about AuthShutdown,
                               the refinement of Drain included
    QuickAdd                   adding a book with an operation id
    LibraryImport              review, commit and expiry of an import draft
      LibraryProofs            theorems about both
    Waits                      circles of waits
      WorkMerge                merges against reading statuses, wishes, translations
        WorkMergeProofs        theorems about WorkMerge
    EditionLanguage            corrections and merges against kind and language of texts
      EditionLanguageProofs    theorems about EditionLanguage
    MCLending, MCGuestLending, MCGuestLink, MCNotificationDispatcher, MCPeople,
    MCLiveness, MCLibrary, MCWorkMerge, MCEditionLanguage                 TLC instances

Names are the code's where TLA+ allows (`RecordExisting`, `RunTransition`,
`RenewBeforeSend`, `LockOwnRow`). A definition named `Faulty_X` (or
`FaultyHolder_X` and the like) is `X` with a plausible mistake. No specification
uses it: it takes the place of `X` once, to see that a property notices.

An MC module may have a variable `part`, chosen in the initial state and constant
afterwards: the run is then the union of several instances, of one module with
different constants or of modules that have nothing to do with each other. A part
moves only its own variables, so the states of a run are the sum, not the
product, of those of its parts.

`People` puts modules side by side that have users, requests and tokens in common and no
state, one INSTANCE each, so that one instance for TLC and one module of theorems speak
of all of them.

How a transaction is cut into steps differs by module and is said in its head.
Where everything that matters happens under a lock taken first, the transaction
is one action (`Lending`, `GuestLending`). Where statements decide on what they
read earlier, each statement is an action (`Friendship`, `PasswordReset`,
`TelegramLink`, `QuickAdd`, `InviteMails`); where rows are locked one after
another, so is each lock (`GuestLocks`, `WorkMerge`, `EditionLanguage`,
`LibraryImport`), and the writes of the transaction appear in the step that
commits it. PostgreSQL is modelled from how the code relies on it: a statement sees what
is committed when it starts; it waits for rows that others have written and looks at their
columns again; a unique index refuses a second row and waits for an uncommitted one; a
circle of waits ends with one member rolled back (`BreakDeadlock`).

### LoanTransitions, Lending
`RegisteredRows(origin, status)` is `resolveTransition`: all rows of the table for
a status, with actors, required copy state, effect, event and notification.
`Lending` has the Copy and Loan rows, the audit trail (`events`), the notification
rows (`notified`) and status edits between their two halves (`edits`). One action
per transaction: `Request`, `RecordExisting`, `RunTransition` (all eleven PATCH
actions, with rejection of rivals, custody, event and notifications), `AddCopy`,
`RemoveCopy`, `ArchiveCopy`, `RestoreCopy`. A transaction is one action because it
takes the Copy lock first and decides on what it reads under it, and all that
write the Copy or its loans take that lock. The exception is `updateCopy`, an
`updateMany` with no lock before it: `StartStatusEdit` evaluates its WHERE on a
snapshot; `FinishStatusEdit` is PostgreSQL re-checking, after the lock wait,
only the columns of the Copy row. Any transaction may commit in between.
`LendingHistory` adds a ghost, `edited`: whether any edit has been past its snapshot.

### GuestLending
Adds contacts (`known`, `retainUntil`), guest loans and confirmations. Actions:
`CreateContact`, `DeleteContact`, `CleanupContacts` (with ON DELETE SET NULL in
`Forget`), `CreateGuestLoan`, `PatchGuestLoan`, `RequestConfirmation`,
`ResolveConfirmation` (owner), `GuestAnswer`. The id of a confirmation is that of
its loan (the column is unique).

### GuestLocks
The same services, and `Digest`, seen as lists of locking statements (`Plan`): contacts,
copies, loans, confirmations, then the loans of members whom a hand-over turns down.
`Begin` is what a service looks up without a lock; `Statement` picks the rows on the
snapshot it starts with (`Finds`), `Lock` takes them one by one, in the order of ids
where the SQL says ORDER BY, and the data changes with the commit. A contact may be gone
when its lock is granted: `PATCH` and answers go on without it, a hand-over and a
deletion are refused. `BeginCleanup` skips locked contacts. Loans are open or closed
here; what `GuestLending` decides in one action is decided in `CommitLend`,
`CommitPatch` and `CommitForget` on whatever others committed meanwhile. `Rollback` is
any refusal, error or broken circle.

### GuestLink, GuestWord
One confirmation row: `link`, `limits` and `challenge` are its columns in the
groups in which `guest-confirmation.rules.ts` clears them. `FindByToken` is the
unlocked lookup; every later step checks the token again (`LockOwnRow`). Mails
are in `mails` after the commit and end or fail at any later time; `MailFails` is
the statement that takes back what the mail carried. `log`, `guesses` and two fields
of `contact` are ghosts: they record what happened and decide nothing.
`GuestWord` states the promise with three variables: one claimant at most has a
usable code, one at most a usable proof, only the latter answers, once, and the
owner has the last word. `KeepsWord` is the refinement (`invited`, `proven` are
computed from the row and the clock). `OwnerDecides` and `Answer` are the steps
that `GuestLending` has as `ResolveConfirmation` and `GuestAnswer`.

### NotificationDispatcher
Per delivery row: status, attempts, lease (token, time left) and wait
(nextAttemptAt). Per process: the position in its pass. Each statement and each
provider call is one action, so crashes (`Crash`), failed statements
(`StatementFails`), shutdown (`Stop`, `Down`) and other processes come between any
two. A provider may deliver and then answer with an error, or after the timeout,
or not at all (`Answer`, `TimedOut`, `LateAnswer`). `run` reads the clock once per pass
and hands it to every `reap` of the pass, while a claim reads it anew: `expired[w]` are
the leases that were over when the pass of `w` began, and only these (and rows without
a token) does `Reap` settle, however long pushes keep the pass going.

### Digest
A pass of each process: `Scan` reads the candidates of one kind without a lock;
`ReadSwitch`, `LockLoans` and `Create` are the transaction for one person, from the
owner's switch over the locked rows to the event and its unique key; `Fail` gives the
pass up anywhere. `HandOver` and `Return` are the loans as seen from here. `knew` is a
ghost.

### AuthShutdown, Drain
A request is `workflow[r]` from its permit (`Reserve`) over its writes
(`CreateAccount`, `WriteToken`), the mail it leaves behind (`EnqueueEmail`, `job[r]`)
to the end of the permit (`Release`, `Fail`). `BeginShutdown` closes the gate and
takes the first snapshot, `WorkflowsSettled` closes the second gate and takes the
other, `TimedOut` and `Kill` are the end of the budget. `wrote` is a ghost. `Drain`
says what is promised: work is admitted only while the gate is open, work may
start more work, and a clean end means that nothing is active.

### PasswordReset
One account. A confirmation is `FindToken`, `Claim` (the conditional update),
`SetPassword`, `StartBurning` and `Burn` (one update that may wait for a token
another confirmation holds), `RevokeAll`, `Commit`. A login checks the password
(`CheckPassword`) and opens its session later (`OpenSession`). `overdue` holds what
the statements of committed resets saw and therefore must have ended.

### Friendship, Invitations, InviteMails
`Begin` reads the row of a pair and lets the table decide; `Finish` writes under the
condition that the row has the id and status it read; `Conflict` and `Again` are the
two answers to a lost race. `Invitations` adds the invitation row and its lock;
`FinishAccept` makes friendship and acceptance in one commit. `InviteMails` has the
two advisory locks, the counts and the insert as steps, a clock that goes on while
requests wait, and `EraseHashes`.

### TelegramLink
`Statements` lists, for each kind of transaction, the order of its statements, and
`call[k].at` is the position in it. `SetChat` waits on the unique index of the chat;
`Retry` counts the attempts of a consume.

### QuickAdd, LibraryImport
`QuickAdd`: metadata first (`Prepare`), then the transaction: `LockOperation`,
`Replay`, the search of an edition (`UseEdition`, `NeedEdition`), `CreateEdition`,
`RememberReference`, `Commit`; a violated unique index sends the request back once
(`AfterRace`). Answers may be lost: `Commit` records an answer or not.
`LibraryImport`: each tab has one request at a time with its own `now`; `seen` is the
last document a tab was shown, on which its next request depends. The catalog
changes through `EditionAppears` and `MergeWork`.

### WorkMerge, EditionLanguage
`WorkMerge` has the row locks of merges one by one (`LockRow`), and merges take more
of them when they re-point rows they had not locked; `Commit` moves statuses, wishes
and translations. Clocks are kept per row, as the code compares `updatedAt` and
`createdAt`. `EditionLanguage` has the text of editions (`Resolve` is
`resolveEditionText`), the cascades of a work's and a translation's language, and the
restart of a transaction whose entity moved while it was being locked (`Moved`). A
revision is kept as the one thing it is compared for: whether it still is the one
the editor read.

## 3. Runs

| Run | Instance | States | What it shows |
|---|---|---|---|
| `lending` | 1 copy, owner + 2 borrowers, 3 loans, status edits; or 2 loans, 2 processes, 2 days | 398 thousand | With edits, the inductive invariant, and that the rejected are told; until the first edit, also that nobody gets locked out and a free copy is free; closed loans stay closed; reminders are due, true and sent once |
| `status_edit_race` | the same | violation | `StatusLockedOnLoan` fails, see 6 |
| `guest_lending` | owner, 1 borrower, 1 contact, 1 copy, 3 loans, edits; or 2 contacts, 2 copies, 2 loans | 695 thousand | Confirmations agree with loans, answers stand, a guest's book can always come home, the retention clock runs exactly while no book is out |
| `guest_link` | 2 links, 2 codes, 2 claimants, times 0..3; or 4 codes under 1 link, times 0..2 | 1.5 million | Refinement of `GuestWord`; answers are proven; a late failure takes back only its own mail; guesses and mails are bounded |
| `dispatcher` | 2 workers, of which none, one or both may be paused anywhere, 2 attempts, 2 faults; or 2 processes that write about guests: 2 contacts, 1 copy, 2 loans | 2.1 million | No two calls at once, none for a settled row, each duplicate explained, FAILED only after the last attempt; settled rows final and live leases exclusive even with pauses; what is written about guests waits in no circle |
| `dispatcher_live` | 2 workers, 2 attempts, fair | 264 thousand | Every committed delivery is settled or makes its last attempt; it is settled if passes end |
| `liveness` | 3 requests with one address and budget 3; or 2 tokens and 2 confirmations; or 2 users and 2 mail requests | 33 thousand | Shutdown implements `Drain`, a clean one leaves nothing half done, all shutdowns end; confirmations and mail requests end although they wait for each other |
| `people` | 2 friends, 2 calls, 2 rows; 3 users and a link; 2 senders, 2 recipients, 3 mails; 2 users, 2 chats, 3 links; 3 tokens, 2 sessions | 662 thousand | Friendship, invitations, mail limits, Telegram links and password resets under concurrent calls |
| `library` | 2 tabs with 2 rows in one instant, with 1 row while the catalog changes, or with 1 row that expires while it is at rest; 3 adds of a book or of a work by 2 users; 2 adds of a volume under 2 operations | 1.6 million | One copy per operation, answers agree, one edition per record; a draft is committed once, as reviewed, onto canonical works |
| `work_merge` | 3 works; 3 merges and 2 readers, or 2 merges, 2 wishers and a translator | 454 thousand | Redirects stay one step deep; the last status chosen and every wish survive |
| `edition_language` | 2 works, a translation, an edition, 2 languages; 2 editors and a merge, 2 at once | 584 thousand | Kind and language agree after any sequence of corrections, cascades and merges; no circle of waits (deadlock is checked as well) |
| `work_merge_orphan` | as `work_merge` | violation | `NoTranslationOnMerged` fails, see 6 |

Deadlock is checked where a system never stops. It is off where an instance ends by
its bounds (clocks that end, calls that are made once, works all merged).

**Bounds and why they are enough.** Loans interact only through their copy, and
every rule speaks of one loan, its copy and its rivals: three loans give a
holder, a rival and a third that arrives while one of them changes; the second
copy of the contacts' part is there because a contact, not a copy, links two loans.
In `guest_link` two links and two codes are the least at which something old can
be mistaken for something new; the times to live are 1, 2 and 3 (code, proof,
link) in the order of the real ones, so each can run out while a longer one goes
on. The limits need 2 codes per window and 4 in all, since the claim is
about two windows that touch, and 2 wrong guesses per code of 3 per link, so that
both limits bite. In the dispatcher the unit of time is the attempt timeout, the
lease is longer than it, as in the code (60 s against 10 s; assumed in
`TimesAssumption`), and 2 attempts have a first and a last one (the proofs are for any
number). `MaxFaults`
bounds crashes, failed statements and shutdowns in one behaviour: two are enough for a
crash of each worker. In `people` every race is one of two calls on one row, with a
third party where the code has one (the inviter, whoever has the chat); `MaxRows` 2
lets a friendship be deleted and made again. Mails: one a day per user and two a
week per recipient, so that each limit can be the one that refuses; the day is half
as long as the week's window, less than three mails would not fill it twice. In
`library` two rows are needed for a commit that is partial, two tabs for a review
that is out of date, three requests for a retry that meets both the first request and
a rival. One row and four versions let a draft be saved, reviewed onto the work that a
merge then replaces, and committed; four versions of one row also let an expired draft be
saved again and reviewed. What a commit finds in the catalog and when a draft expires are
apart, as each multiplies the states of the other. Three works make chains, crossing
merges and a work merged while it is being merged into; two editors and one operator are
every pair of cascade and move.
Of the two processes that lock the rows of guests, one reminds or removes contacts and
the other does anything, and one of the two loans has no confirmation: owners and guests
follow the same order as the removal, and the proofs cover any number of each.
`MaxAttempts` is 2 where the code has 2 or 3: a first attempt and a repetition.

**Symmetry** is declared for loans, borrowers, copies, claimants, workers, calls and
tabs that occur in no distinguished role, in runs without liveness only.

**Fairness.** `dispatcher_live`: the interval timer fires again and again in an
idle process, a pass that began goes on (its awaits return: the provider call has
a timeout, and a failed statement is `StatementFails`), time passes, and a
process asked to stop ends. Nothing forces providers to answer or a crashed
process to be restarted. `EventuallySettled` assumes instead that some process is up again and
again, and promises the last attempt of each row even if pushes prolong one pass forever
(`AttemptsEnd`); that the row is then settled needs some process to be idle again and
again (`PassesSettle`), as only the next pass sees a lease that ended during this one,
and nothing in the code limits pushes. `delivered` and `late`, which the queue never reads,
are narrowed in this run (`DpFairNext`): a call delivers if and only if its answer says
so. `liveness`: for the shutdown, weak fairness of the event loop
(`Drained`: what is settled is noticed) and of the timers (`Tick`), and nothing of the
work that is waited for. For confirmations and mail requests strong fairness of
each request's next statement: a lock is granted in the order of its queue, so a
request that waits for a lock that is released again and again gets it.

## 4. Properties

Next to each property its comment names the behaviour it is about. Those that
are least obvious:

- `Custody`, `HomecomingIsAccounted`: holder columns and loan rows are written by
  a dozen different operations; a book comes home only by the loan it left on.
  A loss recovered twice, or after the copy was lent again, would break both.
- `NeverStuck` (in `Undisturbed`), `GuestNeverStuck` (in `HandOverGoesOn`): every loan
  that occupies a copy has a row that ends it *and accepts the copy as it is*. For
  guests this has to survive the deletion of the contact (both references become NULL
  and still match).
- `DuplicatesAreExplained` (in `AttemptsAreCounted`): deliveries go out at least once;
  every duplicate has an attempt of its own whose result was never recorded.
- `SendsAreBounded` (in `AbuseIsBounded`): the window of codes is fixed, not sliding, so
  the bound for an arbitrary hour is twice the limit less one. This is the exact bound.
- `RemindersAreDue`: passes of several processes overlap, one may begin before midnight
  and end after it, and a book may come home between the scan and the lock.
- `OnlyOwnMailTakesBack`: two issues of a code can have the same digits, so the
  failure of the first mail must be matched by nonce.
- `CleanMeansComplete`: a registration is four writes and a mail with two gates
  between them; a shutdown that reports success has let each accepted one finish.
- `LimitsHold`: counted over rows whose recipient's hash is erased by a clean-up and
  with a clock read before the locks; the limits hold for the times of the inserts.
- `ResetEndsTheRest` (in `ResetIsFinal`): a burn may wait for a token that a rival
  confirmation has claimed and must not leave it usable when the rival is rolled back.
- `OnlyRemindersDeadlock` (in `GuestsAreLocked`): the rows of a statement depend on data
  that others change while it waits (whose contact, which copies), so that an order of
  tables in each service does not by itself give one order of rows.
- `MutualRequestsMeet` (in `FriendsAgree`): two people who ask each other at once become
  friends, although one of the inserts violates the unique index.
- `ImportedAsReviewed` (in `ImportsWhatWasReviewed`): the commit compares versions; what
  counts is that the decisions behind them are those its tab displayed.
- `LastChoiceStands` (in `NothingChosenIsLost`): the merged work shows the status chosen
  last among all works it has absorbed, over any number of merges.
- `TextsAgree`: an edition's kind, language, translation and work are written by four
  operations and two cascades.

## 5. Proofs

Theorems hold for every value of the constants: any users, books, contacts, loans,
processes and limits. Those that state a property of a run are linked to it in
`PROJECT.json`. Each rests on an inductive invariant that TLC checked on the run's
instance before it was proved.

**`LendingProofs`**, from `Invariance` (`Spec => []LendingInv`): `TypeCorrect`,
`OneClaimPerCopy`, `CustodyAgrees`, `EveryAbsenceAccounted`, `NobodyLeftWaiting`,
`RejectedTold`, and the action property `HistoryIsNotRewritten`. None of the parts is
inductive alone: `OneClaim` needs `AwayIsAccounted` (an available copy at home has
nobody with a claim that takes it away), `AwayIsAccounted` needs `Custody`,
`NoRequestLeftBehind` needs `ApprovedHasNoRivals` (a hand-over does not look for rivals
because the approval did), and losses need `RecoveredIsLost`. The invariant avoids every
statement that the edit race can break, so it holds with it. The proof sorts the rows of
the tables into eight kinds of change (`RowKinds`), describes a PATCH by its effect
(`TransitionEffect`) and shows each part for each kind. `UndisturbedWithoutEdits` is the
other half, about `LendingHistory`: up to the first edit every loan that occupies its copy
can be ended and a copy offered as available is free. Its invariant has
`PromisedIsReserved` (a promised copy is RESERVED), which the race of section 6 breaks and
which nothing restores. `LockedOutByEditsOnly` says the same of `Lending` with
`StatusEdits = {}`.

`RemindersAreDueHolds`, from `DigestInvariance`, is about any number of passes at once.
`DigestInv` says of each pass that the loans it has locked are still as it saw them, that
whatever it has grouped is for the person it is grouped under, and that everybody whose
book was out when the pass began has the event, is still in a group, or is the one being
written to (`Covered`). A step of anybody else disturbs none of this (`PassKept`): books
come back, locked ones do not, and no book that is out gets another date (`LoansGoOn`).
That a loan is announced as due soon once in its life follows because the date of a loan
does not change and an event of that kind has the day that is `Window` before it.

**`GuestLendingProofs`** carries these over to the system with guests, from
`GuestInvariance` (`GSpec => []GuestInv`): `OneClaimWithGuests`, `CustodyWithGuests`,
`NobodyWaitsForGuests`, `HandOversGoOn`, `ContactsKept`, `AnswersAreFinal` and
`HomecomingsAccounted`. `GuestInv` is `LendingInv` with three parts on the guests' side.
`HolderIsKnown` says that no contact is forgotten while a book is with them;
`ClockFollowsLoans` says of every contact whether an open loan is left, so a step on one
loan has to account for the contact's other loans; and `ConfirmationAgrees` survives a
hand-over because the requests it turns down are never a guest's (`Beside`).

**`GuestLinkProofs`**: `LinkInvariance`, `AnswersAreProven` and `ImplementsWord`, that is
`Spec => Word!WSpec`, from `LinkInv`: whatever the row holds belongs to the last link and
the last code ever issued (`LinkIsLast`, `CodeIsLast`, `ProofIsLast`), and a resolved row
holds nothing (`ResolvedIsSealed`); without `CodeIsLast` a proof could be one for another
address. `AbuseStaysBounded` and `OthersKeepTheirSecrets` come from `LimitsInvariance`:
the counters in the row, which every new link resets, are those of the history for as
long as their link is in force (`Counted`, `WindowIsLast`), and the windows of one link
lie at least `SendWindow` apart, each with a mail at its very start (`WindowsApart`).
A stretch as long as a window therefore meets two windows at most, and when it meets two
it misses the mail that opened the earlier one: twice the limit less one.

**`NotificationDispatcherProofs`**, for any deliveries and workers, any set of workers
that are never paused, and any limits: `AttemptsCounted`, `NeverSentAgain`,
`SettledRowsStay` and, about the recursion of `backoffDelayMs` alone, `BackoffIsBounded`
(that the function exists is proved first, by induction over prefixes). `DispatcherInv`
says that a leased row waits exactly as long as its lease (`LeaseAgrees`), so that it can
be neither claimed nor reaped before; that a worker which still holds the token made the
row's last attempt (`AttemptAgrees`); that the lease of a worker which is never paused
outlasts its call (`Covered`, where `Timeout < Lease` is used); and that what was
delivered or may still be is one more at most than the attempts whose result was lost
(`Accounted`); and that what a pass still counts as expired has no live lease
(`ExpiredAgrees`), so that a reap by the pass's old clock hits none. Fencing alone
(`SettledRowsStay`) needs none of the assumptions on pauses.

The same module has `GuestsAlwaysLocked`, for any contacts, copies, loans, transactions and
order of ids; it joins `NobodyWaitsInACircle`, `DeletionsWaitForNobody` and
`RetentionIsLocked`, all from `LockInvariant`: `LSpec => []LockInv`. `InOrder` says that
what a transaction holds comes before what it waits for; `NoCircle` follows from it, as the
greatest of the rows that a circle waits for (`LastRow`) would be held by one that waits for
a greater one. That a deletion holds all its cascade needs more: `CascadeKnown` says that no
row joins a cascade behind its lock, because a loan and a place are only ever set to a
contact that is held by the lender (`ContactsFirst`) and so by nobody else (`HeldOnce`).

**`PeopleProofs`** has five arguments that share nothing but the module.

- `FriendsAgreeHolds` and `InvitationsAreSpentHolds`, from `PeopleInvariance`, for any
  users, requests, invitations and uses. Locks play no part in a friendship: a write
  happens under the condition that the row still has the id and the status that were read,
  so `Knows` ties what was read to what is recorded now only while the row has the same id.
  `Willing` (who is waiting has asked, friends have both asked) is then kept by every row
  of the table, and a block that was read is still that block. Of invitations, `Admits`
  says that the lock keeps a transaction's invitation open and its uses below the limit.
- `MailLimitsHold`, from `MailsInvariance`, for any limits and periods. `Counted`: what a
  request has counted is within the limits until its insert, as both advisory locks are held (`LocksHeld`), others' inserts are for other
  users and recipients, and erasing takes only hashes that no longer count (`MailsDated`).
- `LinksAreFinalHolds`, from `LinkInvariance`, for any users, chats, links and requests.
  `Formed` says what is locked at each statement, `Grounded` that one who makes a link or
  unlinks has seen every unspent link of its user, which nobody can add to meanwhile as
  that takes the lock of the user. `Apart` (no row has two holders) leaves deadlocks to
  consumers that are past the lock of their user and take a chat (`Waits`).
- `ResetEndsAll`, from `ResetInvariance`, for any tokens, sessions, logins and
  confirmations. `Swept`: all that the statements of a reset saw, it holds or somebody else
  has spent; a token that a rival confirmation had claimed is seen again when the rival is
  rolled back, and then held.
- `GateHolds` (a request that got its permit is never refused its mail by a shutdown),
  `BudgetShared`, `RefusedIsClean`, `CleanIsComplete` and `ImplementsDrain`, that is
  `Spec => Graceful!DSpec`, for any requests, kinds, addresses and any budget. `DrainInv`
  says that each phase waits for a snapshot that contains everything active of its kind,
  and that the second gate closes only when no permit is out: without the latter a permit
  could still enqueue a mail that nobody waits for. `WroteInv` adds how far the writes of a
  request have come, `BudgetInv` that no phase outlives its deadline.

**`LibraryProofs`**, for any tabs, rows and bounds, and any users, operations and records:

- `EditionsStayOnCanonicalWorks`, `ImportsWhatWasReviewedHolds` and
  `DraftsEndWithTheirRowsHolds`, from `ImportInvariance`. `VersionsTell` is what the
  comparison of versions rests on: if all versions of the draft are those a tab was shown,
  the rows are the same; a new version is one that no row ever had, in the draft or on any
  screen (`Dated`). `Holds` says what a commit may rely on after each of its steps: the
  import stays a draft with the rows it compared under the lock of the import, and the
  works it chose cannot be merged away once it has locked them.
- `OneAddOneAnswerHolds`, from `AddInvariance`. `Remembered`: the row of an operation says
  what was made for it, `Referred`: every edition is the one its record refers to. `Apart`
  says which two transactions can be under way at once: never two of one operation, and
  never two past the lookup of one external work, as advisory locks are held to the commit.
  `Races` says that a second attempt finds what the first one lost to, so that it ends
  without an error.

**`EditionLanguageProofs`**: `TextsAlwaysAgree`, `SeenBeforeCorrected` and
`LanguageLocksInOrder`, from `LanguageInvariance`. `CurrentWasSeen` says that an editor
whose revision is still current has on the screen the text that is in the row, as each
write of a text bumps the revision of its edition, cascades and merges included;
`Orderly` says what a transaction holds at each step. From the latter there is no circle: who
holds an edition waits for nothing, who holds a translation waits for editions only, and
of those that wait for works one waits for the greatest (`GreatestId`).

**`WorkMergeProofs`**: `RedirectsAreOneStep`, `ChoicesSurvive` and `TwoMergesInOrder`,
from `MergeInvariance`. `MergeHolds` says that a merge which re-points rows holds both of its
works, still canonical, and has locked or is about to lock all that point to the source;
without it a row that another merge has just redirected would be left two steps away.
`ReaderShares` says that the work a status is written on cannot be merged away meanwhile.
`InOrder` is where the limit of the lock order is visible (section 6): it holds of a merge
as long as no other one has ended, which for two merges is always enough.

**Assumptions** are those named in the modules: owners are users, NULL is none of the
values, users and contacts are disjoint, tables and ids have one order and their ids are
disjoint, edits are AVAILABLE or UNAVAILABLE (the DTO refuses the others), limits and
times to live are positive, a lease outlasts a call, an owner does not borrow their own
book. They are ASSUMEd by the modules, or are hypotheses of the theorems and ASSUMEd by
the MC module, so TLC has evaluated each on the instance of a run. Clocks, rows and issued secrets are bounded by
constants of any size.

**Only model-checked.** Liveness (`EventuallySettled`, `ShutdownEnds`, `ConfirmationsEnd`,
`RequestsEnd`) and the fairness it needs are out of the prover's reach. All other
properties of the passing runs are theorems. `BreakDeadlock` of `WorkMerge` may be any
choice of a member of a circle (`Waits` is a recursive function over data); the proofs use
only that it leaves nothing of one call.

## 6. Where code and documentation disagree

`status_edit_race`: `library.service.ts:266-268` says that the conditions stand in
the `updateMany` so that the database decides the race with a loan. It decides
only the part about the Copy row. The part about loans is a subquery, evaluated on
the statement's snapshot; when the statement waited for an approval to commit,
the holder is still the owner and the edit overwrites RESERVED. TLC's trace:
request, edit takes its snapshot, approve, edit writes AVAILABLE or UNAVAILABLE. From
then on `hand_over` and `cancel` are refused (they require RESERVED) and so are
edits and archiving, so `NeverStuck` does not hold in a system with the
race; `Undisturbed` asks for it where no edits happen.

`work_merge_orphan`: `canonical-work.service.ts:71-75` says that a write to a merged
work is refused and not silently retargeted, since 'the new row would be invisible
from the moment it was written'. `createTranslation` asks first and inserts
afterwards, with no lock and no transaction around both
(`catalog.service.ts:296-298`); the insert's foreign key waits for the merge's lock on
the work, which still exists after it. TLC's trace: the translation's work is
checked, a merge of that work commits, the translation is written on it.
`WishlistService.add` has the same two steps; `WishesSurvive` therefore says that a
wish is on the canonical work or on the one it was added to.

A disagreement with no run of its own: `merge/merge.service.ts:184-189` says of
`lockWorks` that the snapshot of its statement is enough, since a merge into the source
that comes later would have to queue for the source behind us. It does not hold when we
are the ones who queue: a merge into the source may hold that lock when our statement
takes its snapshot and commit while we wait, and the rows it redirected are not among
those we lock. Data stays right (`RedirectsAreOneStep` covers rows that appear late), but the re-pointing `updateMany` then takes these rows out of order, and with
more than two merges two can wait for each other; one is rolled back.
`TwoMergesMeetInOrder` is therefore stated for two merges.

Observed while modelling, with no claim in the code to contradict:

- `reap` compares leases with the clock of the start of the pass
  (`notification-dispatcher.service.ts:204`, `218`, `237`, `344`). While a push in every
  tick keeps a pass going, a row whose last attempt lost its process during that pass
  stays PENDING with its attempts used up. `PassesSettle` therefore asks for passes that
  end.
- A login that checked the old password before a reset and opens its session after
  the reset's statements keeps that session: `ResetEndsTheRest` speaks of what the
  statements saw.
- Two quick adds of one new volume (no ISBN) under different operations can end in
  an error for one of them: no unique index that the retry knows is violated first.
  `RacesAreSettled` is claimed for ISBNs and works.
- The reminders lock the loans of a person in one statement with no ORDER BY
  (`notification-digest.service.ts:295`): a deletion of a contact with two of these loans,
  or the clean-up, may lock the same two the other way round. One of them is rolled back;
  a later pass or another attempt makes up for it. `OnlyRemindersDeadlock` therefore leaves
  the reminders out.
- A draft is read by two SELECTs (the import, then its rows); a commit between them
  can show a draft without its rows.
- A person gets one event of a kind a day. A loan that is handed over (or recorded) on
  the very day on which it is to be announced as due soon, after the day's event for its
  person, is never announced: `NobodyForgotten` asks only for an event of that day.
- Choosing the reading status a work already has does not renew its time: after a
  merge an older *change* of another duplicate may win over it.

## 7. Abstractions, and what is not modelled

- Access checks (friendship, visibility, paused requests) only refuse; a refused
  request changes nothing. The model lets all requests through.
- Dates of loans (due, handed) decide nothing about states and are left out, as
  are alias, note, condition and visibility of a copy.
- At most one edit in flight per copy and status; ids of loans bound their number.
- CHECK constraints on Copy never refuse what the model lets through; the unique
  index on exclusive loans is `IndexAccepts`.
- Contact dates are reduced to NULL or dated; which dates have come is open. The
  back-fill of rows that predate the column is left out.
- `GuestLink`: the contact is present throughout (a waiting loan keeps it,
  `HolderIsKnown` in `GuestLending`), time is read after the lock and one clock
  serves all processes. Hashing and HMACs are modelled by equality of what they
  are computed from. Unused guesses, expired links and refused requests change
  nothing.
- `GuestLocks`: new rows are locked by who inserts them and by nobody else; the shared
  locks of foreign keys on users are left out, as nothing here locks users for itself; the
  loans of members on a copy are one row, as who writes to them holds the copy; the back-fill
  of dates locks contacts only, and skips locked ones. A row whose columns no longer fit
  when its lock is granted stays locked and has no effect.
- Dispatcher: the uuid of a lease is the worker, as a process dispatches one
  delivery at a time; SKIP LOCKED passing over a row that is locked for a moment
  is only a delay; a channel with no sender is a failed load; the branch for a
  notification that is gone cannot be reached (no operation deletes one); one
  clock serves application and database.
- `Digest`: `dueAt` is the last moment of a day and kept as that day; one owner; loans
  without a due date and the texts are left out; a tick is a day in the run. That the
  shutdown waits for the pass is left out, as a pass may be given up anywhere.
- `AuthShutdown`: one process, as permits and gates are in its memory; a request for
  a password reset does its writes inside a background mail job, as in the code.
- `PasswordReset`: time is the fact that an unused token may expire at any moment.
  Confirming an email takes its token with the same conditional write and is not
  modelled again.
- `Friendship`: a row that changes its status and changes it back looks as if it had
  not changed, in the code as in the model.
- `TelegramLink`: how updates reach the API (polling, offsets, repeated updates) is
  left out; a repeated update is another `Consume`.
- `QuickAdd`: a manually typed book makes a chain of rows nobody else can meet; answers
  of providers are any record; the catalog is what quick adds make of it.
- `LibraryImport`: a file is its rows and their outcomes; all rows carry one ISBN, which
  is what makes rows interact; cells, warnings and parse errors are left out.
- `WorkMerge`: reviews follow the rule of reading statuses, authors are left out.
- `EditionLanguage`: editions exist from the start; `createEdition`, which adds one under
  the lock of its work, is left out, and so are permissions, titles, authors, ISBNs; the
  revision table is an audit that nothing reads back.
- Not modelled for good: presentation, senders, read models and reports, lookups at
  external services with their cache, parsing of files, access rules (they only
  refuse), removal of wishes, read marks and channel preferences.

## 8. What could come next

- Dates of retention and a clock skew between the processes of the dispatcher.
- An abstract specification of the delivery queue (at least once, and once without
  faults) with the dispatcher as its refinement; today its parts are stated one by one.
- Reviews, authors and the removal of wishes in `WorkMerge`; repeated updates of the bot.
