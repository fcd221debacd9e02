---------------------------- MODULE AuthShutdown ----------------------------
(* How one process ends its auth workflows and background mails                  *)
(* (auth.service.ts).  A workflow is the whole chain of writes of a request: it   *)
(* gets a permit before the first of them, and while it holds the permit it may   *)
(* leave a mail as a background job.  Shutdown closes the gate for workflows,     *)
(* waits for those inside, then closes the gate for mails and waits for those,    *)
(* all under one deadline.  If the deadline comes first it fails, and the         *)
(* process is killed with whatever is left.                                       *)
EXTENDS Naturals, FiniteSets

CONSTANTS
  Requests,
  KindOf,        \* Requests -> kinds of workflows
  EmailOf,       \* Requests -> addresses
  Budget         \* AUTH_SHUTDOWN_TIMEOUT

Kinds == {"register", "resend", "reset"}

ASSUME ShutdownAssumption ==
  /\ KindOf \in [Requests -> Kinds] /\ DOMAIN EmailOf = Requests
  /\ Budget \in Nat \ {0}

VARIABLES
  workflow,          \* where each request's workflow is
  job,               \* its background job
  accounts,          \* addresses that have an account
  wrote,             \* ghost: what each workflow has committed
  acceptingWorkflows, acceptingEmailJobs,
  phase,             \* of the shutdown
  awaited,           \* the snapshot a phase waits for
  elapsed, deadline  \* time since the shutdown began, and when the phase must end

vars == <<workflow, job, accounts, wrote, acceptingWorkflows, acceptingEmailJobs,
          phase, awaited, elapsed, deadline>>
gates == <<acceptingWorkflows, acceptingEmailJobs>>
shutdown == <<phase, awaited, elapsed, deadline>>

Steps == {"STARTED", "ACCOUNT", "TOKEN", "QUEUED"}     \* the permit is held
activeWorkflows == {r \in Requests : workflow[r] \in Steps}
activeEmailJobs == {r \in Requests : job[r] = "RUNNING"}

Up == phase \notin {"EXITED", "KILLED"}
Waiting == phase \in {"WORKFLOWS", "EMAILS"}

-----------------------------------------------------------------------------
(* Workflows: reserveWorkflow, register, resendEmailVerification,                *)
(* requestPasswordReset                                                          *)

Go(r, step) == workflow' = [workflow EXCEPT ![r] = step]
Commit(r, what) == wrote' = [wrote EXCEPT ![r] = @ \cup {what}]

\* Refused: nothing has been written and the request may be repeated.
Refuse(r) ==
  /\ workflow[r] = "NEW" /\ Up /\ ~acceptingWorkflows
  /\ Go(r, "REFUSED")
  /\ UNCHANGED <<job, accounts, wrote, gates, shutdown>>

Faulty_Reserve(r) ==    \* the gate is not looked at
  /\ workflow[r] = "NEW" /\ Up /\ KindOf[r] # "reset"
  /\ Go(r, "STARTED")
  /\ UNCHANGED <<job, accounts, wrote, gates, shutdown>>

\* The permit, in the turn in which the request reaches the service.
Reserve(r) ==
  /\ workflow[r] = "NEW" /\ Up /\ acceptingWorkflows
  /\ KindOf[r] # "reset"
  /\ Go(r, "STARTED")
  /\ UNCHANGED <<job, accounts, wrote, gates, shutdown>>

\* A reset takes the permit, leaves its job and gives the permit back in one turn.
RequestPasswordReset(r) ==
  /\ workflow[r] = "NEW" /\ Up /\ acceptingWorkflows
  /\ KindOf[r] = "reset"
  /\ Go(r, "DONE") /\ job' = [job EXCEPT ![r] = "RUNNING"]
  /\ UNCHANGED <<accounts, wrote, gates, shutdown>>

\* createAccount: the unique index decides between two registrations of an address.
CreateAccount(r) ==
  /\ workflow[r] = "STARTED" /\ Up /\ KindOf[r] = "register"
  /\ \/ EmailOf[r] \in accounts /\ Go(r, "FAILED") /\ UNCHANGED <<accounts, wrote>>
     \/ EmailOf[r] \notin accounts /\ Go(r, "ACCOUNT")
        /\ accounts' = accounts \cup {EmailOf[r]} /\ Commit(r, "ACCOUNT")
  /\ UNCHANGED <<job, gates, shutdown>>

\* sendEmailVerification; an address that is verified already needs no token.
WriteToken(r) ==
  /\ workflow[r] = (IF KindOf[r] = "register" THEN "ACCOUNT" ELSE "STARTED") /\ Up
  /\ \/ Go(r, "TOKEN") /\ Commit(r, "TOKEN")
     \/ KindOf[r] = "resend" /\ Go(r, "DONE") /\ UNCHANGED wrote
  /\ UNCHANGED <<job, accounts, gates, shutdown>>

\* enqueueEmail.  BROKEN is the error of registerEmailJob at a closed gate: the account
\* and the token are there, the request fails.
EnqueueEmail(r) ==
  /\ workflow[r] = "TOKEN" /\ Up
  /\ IF acceptingEmailJobs THEN Go(r, "QUEUED") /\ job' = [job EXCEPT ![r] = "RUNNING"]
                           ELSE Go(r, "BROKEN") /\ UNCHANGED job
  /\ UNCHANGED <<accounts, wrote, gates, shutdown>>

\* The session, for a registration, and the permit is given back.
Release(r) ==
  /\ workflow[r] = "QUEUED" /\ Up
  /\ Go(r, "DONE")
  /\ IF KindOf[r] = "register" THEN Commit(r, "SESSION") ELSE UNCHANGED wrote
  /\ UNCHANGED <<job, accounts, gates, shutdown>>

\* A statement fails: the request does, and the permit is given back (finally).
Fail(r) ==
  /\ workflow[r] \in Steps /\ Up
  /\ Go(r, "FAILED")
  /\ UNCHANGED <<job, accounts, wrote, gates, shutdown>>

\* The mail goes out or fails; a reset writes its token first.
EndJob(r) ==
  /\ job[r] = "RUNNING" /\ Up
  /\ job' = [job EXCEPT ![r] = "ENDED"]
  /\ UNCHANGED <<workflow, accounts, wrote, gates, shutdown>>

-----------------------------------------------------------------------------
(* Shutdown: onModuleDestroy, settlePhase, settle *)

\* ShutdownBudget.remainingMs
Remaining == IF elapsed < Budget THEN Budget - elapsed ELSE 0

\* Within one turn: the gate, the snapshot, the timer.
BeginShutdown ==
  /\ phase = "UP"
  /\ phase' = "WORKFLOWS" /\ acceptingWorkflows' = FALSE
  /\ awaited' = activeWorkflows /\ elapsed' = 0 /\ deadline' = Budget
  /\ UNCHANGED <<workflow, job, accounts, wrote, acceptingEmailJobs>>

StillActive ==
  awaited \cap (IF phase = "WORKFLOWS" THEN activeWorkflows ELSE activeEmailJobs)

Faulty_MailSnapshot == {}       \* nothing is waited for

MailSnapshot == activeEmailJobs

\* All of the snapshot has ended in time: the gate for mails closes, in the same turn.
WorkflowsSettled ==
  /\ phase = "WORKFLOWS" /\ StillActive = {}
  /\ phase' = "EMAILS" /\ acceptingEmailJobs' = FALSE
  /\ awaited' = MailSnapshot /\ deadline' = elapsed + Remaining
  /\ UNCHANGED <<workflow, job, accounts, wrote, acceptingWorkflows, elapsed>>

EmailsSettled ==
  /\ phase = "EMAILS" /\ StillActive = {}
  /\ phase' = "CLOSED"
  /\ UNCHANGED <<workflow, job, accounts, wrote, gates, awaited, elapsed, deadline>>

FaultyWait_TimedOut == FALSE /\ UNCHANGED vars     \* waits for the snapshot alone

\* AuthShutdownTimeoutError: nothing after the failed phase is done.
TimedOut ==
  /\ Waiting /\ StillActive # {} /\ elapsed >= deadline
  /\ phase' = "TIMEOUT"
  /\ UNCHANGED <<workflow, job, accounts, wrote, gates, awaited, elapsed, deadline>>

Exit ==
  /\ phase = "CLOSED" /\ phase' = "EXITED"
  /\ UNCHANGED <<workflow, job, accounts, wrote, gates, awaited, elapsed, deadline>>

\* process.exit(1) after the error: work that is left is cut off where it stands.
Kill ==
  /\ phase = "TIMEOUT" /\ phase' = "KILLED"
  /\ workflow' = [r \in Requests |-> IF workflow[r] \in Steps THEN "CUT" ELSE workflow[r]]
  /\ job' = [r \in Requests |-> IF job[r] = "RUNNING" THEN "CUT" ELSE job[r]]
  /\ UNCHANGED <<accounts, wrote, gates, awaited, elapsed, deadline>>

\* Time passes; a timer that is due fires before it goes on.
Tick ==
  /\ Waiting /\ elapsed < deadline
  /\ elapsed' = elapsed + 1
  /\ UNCHANGED <<workflow, job, accounts, wrote, gates, phase, awaited, deadline>>

-----------------------------------------------------------------------------

Init ==
  /\ workflow = [r \in Requests |-> "NEW"] /\ job = [r \in Requests |-> "NONE"]
  /\ accounts \in SUBSET {EmailOf[r] : r \in Requests} /\ wrote = [r \in Requests |-> {}]
  /\ acceptingWorkflows = TRUE /\ acceptingEmailJobs = TRUE
  /\ phase = "UP" /\ awaited = {} /\ elapsed = 0 /\ deadline = 0

Serve(r) ==
  \/ Refuse(r) \/ Reserve(r) \/ RequestPasswordReset(r)
  \/ CreateAccount(r) \/ WriteToken(r) \/ EnqueueEmail(r) \/ Release(r) \/ Fail(r) \/ EndJob(r)

Drained == WorkflowsSettled \/ EmailsSettled \/ TimedOut

Next ==
  \/ \E r \in Requests : Serve(r)
  \/ BeginShutdown \/ Drained \/ Exit \/ Kill \/ Tick

Spec == Init /\ [][Next]_vars

\* The event loop resolves what is settled and fires timers; nothing is assumed of the
\* workflows, which wait for a database, or of the mails, which wait for a provider.
FairSpec == Spec /\ WF_vars(Drained) /\ WF_vars(Tick)

-----------------------------------------------------------------------------
(* Properties *)

TypeOK ==
  /\ workflow \in [Requests -> Steps \cup {"NEW", "REFUSED", "DONE", "FAILED", "BROKEN", "CUT"}]
  /\ job \in [Requests -> {"NONE", "RUNNING", "ENDED", "CUT"}]
  /\ accounts \subseteq {EmailOf[r] : r \in Requests}
  /\ wrote \in [Requests -> SUBSET {"ACCOUNT", "TOKEN", "SESSION"}]
  /\ acceptingWorkflows \in BOOLEAN /\ acceptingEmailJobs \in BOOLEAN
  /\ phase \in {"UP", "WORKFLOWS", "EMAILS", "CLOSED", "TIMEOUT", "EXITED", "KILLED"}
  /\ awaited \subseteq Requests
  /\ elapsed \in Nat /\ deadline \in Nat

\* A workflow that has its permit never meets the closed gate for mails: the error that
\* registerEmailJob calls unreachable is, so that no request fails after its account was
\* created because a shutdown came in between.
GateNeverBreaksWorkflow == \A r \in Requests : workflow[r] # "BROKEN"

\* When shutdown reports success no workflow and no mail is left, and every registration
\* that was let in and did not fail has its account, token, mail and session.
CleanMeansComplete ==
  phase = "CLOSED" =>
    \A r \in Requests :
       KindOf[r] = "register" /\ workflow[r] \notin {"NEW", "REFUSED", "FAILED"} =>
         wrote[r] = {"ACCOUNT", "TOKEN", "SESSION"} /\ job[r] = "ENDED"

\* A request refused by the gate has left nothing behind, so that repeating it succeeds.
RefusedLeftNothing == \A r \in Requests : workflow[r] = "REFUSED" => wrote[r] = {} /\ job[r] = "NONE"

\* The phases share one budget: shutdown never waits longer than the documented time.
OneBudget == Waiting => elapsed <= Budget /\ deadline <= Budget

\* Shutdown ends whatever the workflows and the provider do.
ShutdownEnds == phase = "WORKFLOWS" ~> phase \notin {"WORKFLOWS", "EMAILS"}

\* The inductive invariant: what is active is in the snapshot of the phase that waits for
\* it, and the gate for mails closes only when no workflow is left.
DrainInv ==
  /\ TypeOK /\ GateNeverBreaksWorkflow
  /\ acceptingWorkflows <=> phase = "UP"
  /\ phase \in {"UP", "WORKFLOWS"} => acceptingEmailJobs
  /\ phase = "WORKFLOWS" => activeWorkflows \subseteq awaited
  /\ phase = "EMAILS" => activeEmailJobs \subseteq awaited
  /\ phase \in {"EMAILS", "CLOSED", "EXITED"} => activeWorkflows = {}
  /\ phase \in {"CLOSED", "EXITED"} => activeEmailJobs = {}
  /\ ~acceptingEmailJobs => activeWorkflows = {}
  /\ phase = "KILLED" => activeWorkflows = {} /\ activeEmailJobs = {}

\* Strengthenings for the proofs: how far a request's writes are by where its workflow is ...
WroteSoFar(r) ==
  /\ workflow[r] \in {"NEW", "REFUSED"} => wrote[r] = {} /\ job[r] = "NONE"
  /\ KindOf[r] = "register" =>
       /\ workflow[r] = "STARTED" => wrote[r] = {}
       /\ workflow[r] = "ACCOUNT" => wrote[r] = {"ACCOUNT"}
       /\ workflow[r] \in {"TOKEN", "QUEUED"} => wrote[r] = {"ACCOUNT", "TOKEN"}
       /\ workflow[r] = "DONE" => wrote[r] = {"ACCOUNT", "TOKEN", "SESSION"}
       /\ workflow[r] \in {"QUEUED", "DONE"} => job[r] # "NONE"
  /\ workflow[r] = "CUT" \/ job[r] = "CUT" => phase = "KILLED"
WroteInv == DrainInv /\ \A r \in Requests : WroteSoFar(r)
\* ... and no phase outlives its deadline, nor a deadline the budget.
BudgetInv == TypeOK /\ (Waiting => elapsed <= deadline /\ deadline <= Budget)

Graceful == INSTANCE Drain WITH
  Work <- {"workflow", "job"} \X Requests,
  gate <- IF acceptingWorkflows THEN "OPEN" ELSE "CLOSED",
  active <- ({"workflow"} \X activeWorkflows) \cup ({"job"} \X activeEmailJobs),
  outcome <- CASE phase \in {"CLOSED", "EXITED"} -> "CLEAN"
               [] phase \in {"TIMEOUT", "KILLED"} -> "FORCED"
               [] OTHER -> "RUNNING"

\* The two gates, the two snapshots and the timers together keep the promise of Drain.
ShutsDownGracefully == Graceful!DSpec

=============================================================================
