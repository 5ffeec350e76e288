----------------------------- MODULE DurableJobs -----------------------------
(***************************************************************************)
(* One durable job: its row, leased to a worker process, the outbox row    *)
(* that ends with it, and the item that publishers put into the inbox of   *)
(* the run.  Job, outbox and inbox are three tables: the first two change  *)
(* in one transaction, the third in another.                               *)
(*                                                                         *)
(* What a worker does with a job is Orchestration, which EXTENDS this.     *)
(***************************************************************************)
EXTENDS Naturals

CONSTANTS
  Worker,      \* worker processes
  Publisher,   \* publishOne() calls that may be under way at once
  MaxDeliver,  \* attempts after which an outbox row is not claimed (the code: 10)
  MaxFaults    \* bound on the processes that die or lose a lease and on the
               \* statements that throw

ASSUME JobAssumption ==
  /\ "none" \notin Worker \cup Publisher
  /\ MaxDeliver \in Nat \ {0} /\ MaxFaults \in Nat

VARIABLES
  status,     \* durable_job.status; "none" before create
  attempt,    \* durable_job.attempt
  holder,     \* durable_job.lease_token: the worker it was given to
  leaseLive,  \* lease_expires_at > now
  outcome,    \* durable_job.outcome
  outbox,     \* durable_job_completion_outbox
  publisher,  \* where a publishOne() stands
  inbox,      \* run_inbox: the item of the completion
  faults      \* faults so far

rowVars == <<status, attempt, holder, leaseLive, outcome>>
deliveryVars == <<outbox, publisher, inbox>>
jobVars == <<rowVars, deliveryVars, faults>>

Ended == {"completed", "failed", "cancelled"}
NoBox == [state |-> "none", what |-> "none", tries |-> 0, holder |-> "none", live |-> FALSE]

JobTypeOK ==
  /\ status \in {"none", "queued", "running"} \cup Ended
  /\ attempt \in Nat /\ holder \in Worker \cup {"none"} /\ leaseLive \in BOOLEAN
  /\ outcome \in Ended \cup {"none"}
  /\ outbox \in [state : {"none", "waiting", "leased", "delivered"}, what : Ended \cup {"none"},
                 tries : 0..MaxDeliver, holder : Publisher \cup {"none"}, live : BOOLEAN]
  /\ publisher \in [Publisher -> {"idle", "inject", "complete", "retry"}]
  /\ inbox \in [state : {"none", "open", "consumed", "dismissed", "superseded"},
                what : Ended \cup {"none"}]
  /\ faults \in 0..MaxFaults

JobInit ==
  /\ status = "none" /\ attempt = 0 /\ holder = "none" /\ leaseLive = FALSE /\ outcome = "none"
  /\ outbox = NoBox /\ publisher = [p \in Publisher |-> "idle"]
  /\ inbox = [state |-> "none", what |-> "none"]
  /\ faults = 0

Fault == faults < MaxFaults /\ faults' = faults + 1

-----------------------------------------------------------------------------
(* The row of the job *)

\* Orchestrations like any other job.
FiveAttempts == 5                                                         \* mutant

\* max_attempts of a capability orchestration, the only target there is.
MaxAttempts == 1

\* create: a second one with the idempotency key finds the first.
Create ==
  /\ status = "none" /\ status' = "queued"
  /\ UNCHANGED <<attempt, holder, leaseLive, outcome, deliveryVars, faults>>

\* claim of a queued job, or of one whose lease has run out.
ClaimRow(w) ==
  /\ status \in {"queued", "running"} /\ ~leaseLive
  /\ attempt < MaxAttempts
  /\ status' = "running" /\ attempt' = attempt + 1 /\ holder' = w /\ leaseLive' = TRUE
  /\ UNCHANGED <<outcome, deliveryVars, faults>>

Holds(w) == status = "running" /\ holder = w /\ leaseLive

\* The end of a job and its outbox row, one transaction.
EndWith(o) ==
  /\ status' = o /\ outcome' = o /\ holder' = "none" /\ leaseLive' = FALSE
  /\ outbox' = [NoBox EXCEPT !.state = "waiting", !.what = o]
  /\ UNCHANGED <<attempt, publisher, inbox>>

\* failExpiredMaxAttempts, which every claim and the sweep begin with.
FailExpired ==
  /\ status = "running" /\ ~leaseLive /\ attempt >= MaxAttempts
  /\ EndWith("failed") /\ UNCHANGED faults

\* finish: for the worker that holds the job; what it answers is not read.
FinishRow(w, o) == IF Holds(w) THEN EndWith(o) ELSE UNCHANGED <<rowVars, deliveryVars>>

\* cancel of a job that has not ended.
Cancel == status \in {"queued", "running"} /\ EndWith("cancelled") /\ UNCHANGED faults

-----------------------------------------------------------------------------
(* publishOne *)

At(p, l) == publisher' = [publisher EXCEPT ![p] = l]

\* claimCompletionOutbox: a row that is due, or whose publisher has been silent.
ClaimOutbox(p) ==
  /\ publisher[p] = "idle" /\ At(p, "inject")
  /\ \/ outbox.state = "waiting"
     \/ outbox.state = "leased" /\ ~outbox.live
  /\ outbox.tries < MaxDeliver
  /\ outbox' = [outbox EXCEPT !.state = "leased", !.tries = @ + 1, !.holder = p, !.live = TRUE]
  /\ UNCHANGED <<rowVars, inbox, faults>>

\* The item inserted again, over the one that is there.
InjectAgain(p) ==                                                         \* mutant
  /\ publisher[p] = "inject"
  /\ inbox' = [state |-> "open", what |-> outbox.what] /\ At(p, "complete")
  /\ UNCHANGED <<rowVars, outbox, faults>>

\* injectCompletion: one item for one idempotency key, or an exception.
Inject(p) ==
  /\ publisher[p] = "inject"
  /\ \/ /\ inbox' = IF inbox.state = "none" THEN [state |-> "open", what |-> outbox.what]
                                            ELSE inbox
        /\ At(p, "complete") /\ UNCHANGED faults
     \/ At(p, "retry") /\ Fault /\ UNCHANGED inbox
  /\ UNCHANGED <<rowVars, outbox>>

OutboxHeld(p) == outbox.state = "leased" /\ outbox.holder = p /\ outbox.live

\* completeCompletionOutbox and retryCompletionOutbox, for the lease only.
CompleteOutbox(p) ==
  /\ publisher[p] = "complete"
  /\ \/ /\ outbox' = IF OutboxHeld(p)
                     THEN [outbox EXCEPT !.state = "delivered", !.holder = "none", !.live = FALSE]
                     ELSE outbox
        /\ At(p, "idle") /\ UNCHANGED faults
     \/ At(p, "retry") /\ Fault /\ UNCHANGED outbox
  /\ UNCHANGED <<rowVars, inbox>>

RetryOutbox(p) ==
  /\ publisher[p] = "retry" /\ At(p, "idle")
  /\ outbox' = IF OutboxHeld(p)
               THEN [outbox EXCEPT !.state = "waiting", !.holder = "none", !.live = FALSE]
               ELSE outbox
  /\ UNCHANGED <<rowVars, inbox, faults>>

\* The lease of an outbox row runs out: its publisher is gone, or slow.
OutboxExpires ==
  /\ outbox.state = "leased" /\ outbox.live
  /\ outbox' = [outbox EXCEPT !.live = FALSE]
  /\ IF publisher[outbox.holder] = "idle" THEN UNCHANGED faults ELSE Fault
  /\ UNCHANGED <<rowVars, publisher, inbox>>

PublisherDies(p) ==
  /\ publisher[p] # "idle" /\ At(p, "idle") /\ Fault
  /\ UNCHANGED <<rowVars, outbox, inbox>>

\* consumeRunInbox, dismissRunInbox and, when the goal is revised, reviseRunGoal.
CloseItem(how) ==
  /\ inbox.state = "open" /\ inbox' = [inbox EXCEPT !.state = how]
  /\ UNCHANGED <<rowVars, outbox, publisher, faults>>

PublishStep(p) == ClaimOutbox(p) \/ Inject(p) \/ CompleteOutbox(p) \/ RetryOutbox(p)

\* The job by itself: its worker stores what it likes when it likes, leases run
\* out, and there are faults that do not concern the job.
JobNext ==
  \/ Create \/ FailExpired \/ Cancel \/ OutboxExpires
  \/ \E w \in Worker :
       \/ ClaimRow(w)
       \/ (\E o \in {"completed", "failed"} : FinishRow(w, o)) /\ (Fault \/ UNCHANGED faults)
  \/ /\ status = "running" /\ leaseLive /\ leaseLive' = FALSE /\ (Fault \/ UNCHANGED faults)
     /\ UNCHANGED <<status, attempt, holder, outcome, deliveryVars>>
  \/ \E p \in Publisher : PublishStep(p) \/ PublisherDies(p)
  \/ \E how \in {"consumed", "dismissed", "superseded"} : CloseItem(how)
  \/ Fault /\ UNCHANGED <<rowVars, deliveryVars>>
JobSpec == JobInit /\ [][JobNext]_jobVars

-----------------------------------------------------------------------------
(* Properties *)

Told == INSTANCE ActivityPromise WITH
  Outcome <- Ended, None <- "none", asked <- status # "none",
  told <- inbox.what, open <- inbox.state = "open", givenUp <- outbox.tries = MaxDeliver

\* A job that is created ends and has one outcome for ever, whatever its workers
\* do after they lost it; the inbox gets that outcome and no other, once, and the
\* item, read or put aside, does not come back; and it gets it, unless every
\* delivery was used up.
Promise == Told!Spec

=============================================================================
