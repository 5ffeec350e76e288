-------------------------- MODULE DelegationWorker --------------------------
(***************************************************************************)
(* The processes that drive AgentRuns: the delegation worker that executes *)
(* children from a pg-boss queue, the parent-resume worker, the web        *)
(* request that runs the parent first, and the sweepers that put back what *)
(* a crash or a lost job left behind.  Every action is an action of        *)
(* AgentRuns, or a look that leaves its tables alone, together with what   *)
(* it does to the queues and the processes.                                *)
(*                                                                         *)
(* pg-boss delivers a job at least once.  A job whose worker dies comes    *)
(* back or, its retries used up, is gone.                                  *)
(*                                                                         *)
(* Whoever puts a child's job on the queue (the service that created it,   *)
(* the executor that deferred it, the request that resumed it, the sweeper *)
(* that found its dispatch pending) marks the dispatch in a later          *)
(* statement: a publication, which may end anywhere, and several of which  *)
(* may be under way.                                                       *)
(***************************************************************************)
EXTENDS AgentRuns

CONSTANTS
  MaxLosses,        \* bound on the leases of children lost, deferred or given up
  MaxPublications,  \* bound on the publications of a child's job under way at once
  Cancellable       \* the runs a user cancels, each at most once

ASSUME WorkerAssumption ==
  /\ MaxLosses \in Nat /\ MaxLosses < MaxAttempts
  /\ MaxPublications \in Nat
  /\ Cancellable \subseteq Run

VARIABLES
  job,         \* a delegation-execute job for the child is on the queue
  due,         \* publications that are still to enqueue the child's job
  sent,        \* publications that have enqueued it and are still to mark its dispatch
  pc,          \* where an execute() of the child stands that has no lease yet
  exec,        \* the process that took the child's latest lease is alive
  parentExec,  \* the process that runs the parent is alive
  resumeJob,   \* an agent-parent-resume job is on the queue
  losses       \* leases lost so far

publications == <<due, sent>>
workerVars == <<job, publications, pc, exec, parentExec, resumeJob, losses>>
allVars == <<vars, workerVars>>

WorkerTypeOK ==
  /\ job \in [Child -> BOOLEAN]
  /\ due \in [Child -> Nat] /\ sent \in [Child -> Nat]
  /\ pc \in [Child -> {"idle", "parent", "cancel", "read", "claim"}]
  /\ exec \in [Child -> BOOLEAN]
  /\ parentExec \in BOOLEAN /\ resumeJob \in BOOLEAN
  /\ losses \in 0..MaxLosses

\* The web request that created the parent is running it.
WorkerInit ==
  /\ Init
  /\ job = [c \in Child |-> FALSE]
  /\ due = [c \in Child |-> 0] /\ sent = [c \in Child |-> 0]
  /\ pc = [c \in Child |-> "idle"]
  /\ exec = [c \in Child |-> FALSE]
  /\ parentExec = TRUE /\ resumeJob = FALSE
  /\ losses = 0

-----------------------------------------------------------------------------
(* execute(childRunId), up to its claim *)

Goto(c, l) == pc' = [pc EXCEPT ![c] = l]
Enqueue(c) == job' = [job EXCEPT ![c] = TRUE]

\* Somebody is about to enqueue the child's job and to mark its dispatch.
Publish(c) == due[c] + sent[c] < MaxPublications /\ due' = [due EXCEPT ![c] = @ + 1]

\* recordTerminalEvent: if the ended child has left a resume dispatch, enqueue
\* the resume now instead of waiting for the sweep (a crash may prevent it).
NotifyParent == resumeJob' \in {resumeJob, resumeJob \/ resumeDispatch' # 0}

\* selectRun of the child: a finished run is only reported, a run waiting for
\* its remote cancellation is left alone.
LookAtChild(c) ==
  /\ job[c] /\ pc[c] = "idle"
  /\ job' = [job EXCEPT ![c] = FALSE]
  /\ Goto(c, IF \/ status[c] \in Terminal
                \/ status[c] = "waiting_external" /\ cancelRequested[c]
             THEN "idle" ELSE "parent")
  /\ IF status[c] \in Terminal THEN resumeJob' \in {resumeJob, resumeJob \/ resumeDispatch # 0}
                               ELSE UNCHANGED resumeJob
  /\ UNCHANGED <<vars, exec, parentExec, losses, publications>>

\* The parent is to be cancelled, or has ended.
FamilyEnds == cancelRequested[Parent] \/ status[Parent] \in Terminal

\* selectRun of the parent.
LookAtParent(c) ==
  /\ pc[c] = "parent"
  /\ Goto(c, IF FamilyEnds THEN "cancel" ELSE "read")
  /\ UNCHANGED <<vars, job, exec, parentExec, resumeJob, losses, publications>>

\* cancelQueued, or null when the child does not wait for a worker.
CancelOrphan(c) ==
  /\ pc[c] = "cancel" /\ RootFree
  /\ IF status[c] \in Claimable THEN CancelQueued(c) /\ NotifyParent
                                ELSE UNCHANGED <<vars, resumeJob>>
  /\ Goto(c, "idle")
  /\ UNCHANGED <<job, exec, parentExec, losses, publications>>

\* runs.claim: the read, then the transaction.  A null answer puts the job
\* back with a delay of five seconds.
StartClaim(c) ==
  /\ pc[c] = "read" /\ ReadCandidate(c)
  /\ Goto(c, "claim")
  /\ UNCHANGED <<job, exec, parentExec, resumeJob, losses, publications>>

ClaimOnce(c) ==                                                           \* mutant
  LET leased == status'[c] = "running" /\ leaseToken'[c] # leaseToken[c]
  IN /\ pc[c] = "claim" /\ ClaimQueued(c)
     /\ Goto(c, "idle")
     /\ exec' = [exec EXCEPT ![c] = leased \/ @]
     /\ UNCHANGED <<job, parentExec, resumeJob, losses, publications>>
Claim(c) ==
  LET leased == status'[c] = "running" /\ leaseToken'[c] # leaseToken[c]
  IN /\ pc[c] = "claim" /\ ClaimQueued(c)
     /\ Goto(c, "idle")
     /\ exec' = [exec EXCEPT ![c] = leased \/ @]
     /\ job' = [job EXCEPT ![c] = ~leased \/ @]
     /\ UNCHANGED <<parentExec, resumeJob, losses, publications>>

-----------------------------------------------------------------------------
(* execute(childRunId), with its lease *)

Stop(c) == exec' = [exec EXCEPT ![c] = FALSE]

Lose == losses < MaxLosses /\ losses' = losses + 1

\* The heartbeat of the poll timer.
Beat(c) == exec[c] /\ Heartbeat(c) /\ UNCHANGED workerVars

\* The execution returned: succeedWithLease, failWithLease, ..., then
\* recordTerminalEvent.
Finish(c, outcome) ==
  /\ exec[c] /\ FinishRunning(c, outcome)
  /\ Stop(c) /\ NotifyParent
  /\ UNCHANGED <<job, pc, parentExec, losses, publications>>

\* The lease is no longer this process's: it returns and writes nothing.  A
\* remote execution takes any refused write for a lost lease, a refusal because
\* the run was cancelled or is past its deadline as well; and it returns without
\* an outcome when its poll finds the parent ended or to be cancelled.
Abandon(c) ==
  /\ exec[c] /\ RowFree(c)
  /\ \/ ~Holds(c)
     \/ c \in RemoteChild /\ (~MayContinue(c) \/ FamilyEnds)
  /\ Stop(c)
  /\ UNCHANGED <<vars, job, pc, parentExec, resumeJob, losses, publications>>

\* A remote execution persists its task, defers to a later poll (publishing the
\* job itself or leaving that to the sweep), or waits for the user.
RecordTask(c) == exec[c] /\ ~remoteTask[c] /\ RecordRemoteTask(c) /\ UNCHANGED workerVars

Defer(c) ==
  /\ exec[c] /\ DeferRemoteTask(c)
  /\ Stop(c) /\ Lose
  /\ Publish(c) \/ UNCHANGED due
  /\ UNCHANGED <<job, sent, pc, parentExec, resumeJob>>

AskUser(c, s) ==
  /\ exec[c] /\ Wait(c, s)
  /\ Stop(c) /\ Lose
  /\ UNCHANGED <<job, pc, parentExec, resumeJob, publications>>

-----------------------------------------------------------------------------
(* The parent's processes *)

\* Delegating does not need the process: a tool call may still be on its way.
Delegate(c) ==
  /\ CreateDelegated(c)
  /\ Publish(c) \/ UNCHANGED due
  /\ UNCHANGED <<job, sent, pc, exec, parentExec, resumeJob, losses>>

ParentBeat == parentExec /\ Heartbeat(Parent) /\ UNCHANGED workerVars

ParentStops == parentExec' = FALSE /\ UNCHANGED <<job, pc, exec, resumeJob, losses, publications>>

ParentFinishes(outcome) ==
  /\ parentExec
  /\ FinishRunning(Parent, outcome) \/ FinishParentResume(outcome) \/ SuspendEnds
  /\ ParentStops

ParentSuspends(kind) == parentExec /\ SuspendParent(kind) /\ ParentStops

ParentAbandons ==
  /\ parentExec /\ ~Holds(Parent)
  /\ ParentStops /\ UNCHANGED vars

\* execute(parentRunId): claimParentResume, which may find nothing to resume.
ResumeParent ==
  /\ resumeJob /\ RowFree(Parent)
  /\ resumeJob' = FALSE
  /\ \/ ExpireParent /\ UNCHANGED parentExec
     \/ ClaimParentResume /\ parentExec' = TRUE
     \/ /\ ~MayResume /\ ~(status[Parent] = "waiting_external" /\ overdue[Parent])
        /\ UNCHANGED <<vars, parentExec>>
  /\ UNCHANGED <<job, pc, exec, losses, publications>>

-----------------------------------------------------------------------------
(* Publications: enqueueDelegatedRun, then markDispatched *)

\* The job is on the queue: enqueueDelegatedRun answered true.
SendUnchecked(c) ==                                                       \* mutant
  /\ due[c] > 0
  /\ due' = [due EXCEPT ![c] = @ - 1] /\ sent' = [sent EXCEPT ![c] = @ + 1]
  /\ Enqueue(c) \/ UNCHANGED job
  /\ UNCHANGED <<vars, pc, exec, parentExec, resumeJob, losses>>
Send(c) ==
  /\ due[c] > 0
  /\ due' = [due EXCEPT ![c] = @ - 1] /\ sent' = [sent EXCEPT ![c] = @ + 1]
  /\ Enqueue(c)
  /\ UNCHANGED <<vars, pc, exec, parentExec, resumeJob, losses>>

\* markDispatched, of whatever dispatch the child has by then.
Mark(c) ==
  /\ sent[c] > 0
  /\ sent' = [sent EXCEPT ![c] = @ - 1]
  /\ IF dispatch[c] = "none" THEN UNCHANGED vars ELSE MarkDispatched(c)
  /\ UNCHANGED <<job, due, pc, exec, parentExec, resumeJob, losses>>

\* enqueueDelegatedRun answered false or threw, or the process died.
GiveUp(c) ==
  /\ \/ due[c] > 0 /\ due' = [due EXCEPT ![c] = @ - 1] /\ UNCHANGED sent
     \/ sent[c] > 0 /\ sent' = [sent EXCEPT ![c] = @ - 1] /\ UNCHANGED due
  /\ UNCHANGED <<vars, job, pc, exec, parentExec, resumeJob, losses>>

-----------------------------------------------------------------------------
(* The sweepers *)

\* listPendingDispatchRunIds: the sweep has the child on its list.
SweepDispatch(c) ==
  /\ dispatch[c] = "pending" /\ Publish(c)
  /\ UNCHANGED <<vars, job, sent, pc, exec, parentExec, resumeJob, losses>>

\* listStaleDelegatedRunIds.  A queued run older than any timeout is overdue.
StaleWhenQueued(c) == status[c] = "queued" /\ overdue[c]                  \* mutant
Stale(c) ==
  \/ status[c] = "queued" /\ overdue[c]
  \/ status[c] = "running" /\ ~leaseLive[c]

SweepStale(c) ==
  /\ Stale(c) /\ Enqueue(c)
  /\ UNCHANGED <<vars, pc, exec, parentExec, resumeJob, losses, publications>>

SweepTerminal(c) ==
  /\ ReconcileChild(c) /\ NotifyParent
  /\ UNCHANGED <<job, pc, exec, parentExec, losses, publications>>

\* listPendingParentResumeIds lists a dispatch again a minute after it was
\* dispatched, for as long as the row exists.
SweepResume ==
  /\ resumeDispatch # 0 /\ resumeJob' = TRUE
  /\ UNCHANGED <<vars, job, pc, exec, parentExec, losses, publications>>

SweepParent == (ReconcileParent \/ ReapParent) /\ UNCHANGED workerVars

\* The remote-cancel job, which the sweep enqueues while the intent is open.
CancelRemote(c) ==
  /\ RetryRemoteCancellation(c) \/ CompleteRemoteCancellation(c)
  /\ NotifyParent
  /\ UNCHANGED <<job, pc, exec, parentExec, losses, publications>>

-----------------------------------------------------------------------------
(* The user, the clock and crashes *)

Cancel(r) ==
  /\ r \in Cancellable /\ ~cancelRequested[r]
  /\ BeginCancellation(r) /\ UNCHANGED workerVars

\* The request that resumes the child publishes its job.
Answer(c) ==
  \/ ReadResume(c) /\ UNCHANGED workerVars
  \/ /\ Resume(c)
     /\ UNCHANGED due \/ (status'[c] # status[c] /\ Publish(c))
     /\ UNCHANGED <<job, sent, pc, exec, parentExec, resumeJob, losses>>

\* An execution that lives renews its lease, or loses it to a stall.
ChildLeaseExpires(c) ==
  /\ LeaseExpires(c)
  /\ IF exec[c] THEN Lose ELSE UNCHANGED losses
  /\ UNCHANGED <<job, pc, exec, parentExec, resumeJob, publications>>

ParentLeaseExpires == LeaseExpires(Parent) /\ UNCHANGED workerVars

Crash(c) ==
  /\ exec[c] \/ pc[c] # "idle"
  /\ Lose /\ Stop(c) /\ Goto(c, "idle")
  /\ Enqueue(c) \/ UNCHANGED job
  /\ UNCHANGED <<vars, parentExec, resumeJob, publications>>

ParentCrash == parentExec /\ ParentStops /\ UNCHANGED vars

-----------------------------------------------------------------------------
Execute(c) ==
  LookAtChild(c) \/ LookAtParent(c) \/ CancelOrphan(c) \/ StartClaim(c) \/ Claim(c)

ChildStep(c) ==
  \/ Execute(c) \/ Beat(c) \/ Abandon(c) \/ Delegate(c) \/ ChildLeaseExpires(c) \/ Crash(c)
  \/ \E o \in Outcomes : Finish(c, o)
  \/ Send(c) \/ Mark(c) \/ GiveUp(c)
  \/ SweepDispatch(c) \/ SweepStale(c) \/ SweepTerminal(c)

RemoteStep(c) ==
  \/ RecordTask(c) \/ Defer(c) \/ Answer(c) \/ CancelRemote(c)
  \/ \E s \in {"waiting_input", "waiting_approval"} : AskUser(c, s)

ParentStep ==
  \/ \E o \in Outcomes : ParentFinishes(o)
  \/ \E kind \in {"delegation", "goal"} : ParentSuspends(kind)
  \/ ParentBeat \/ ParentAbandons \/ ResumeParent \/ SweepResume \/ SweepParent
  \/ ParentLeaseExpires \/ ParentCrash
  \/ (CommitCancellation \/ ReviseRunGoal) /\ UNCHANGED workerVars

RunStep(r) == Cancel(r) \/ (DeadlinePasses(r) /\ UNCHANGED workerVars)

WorkerNext ==
  \/ ParentStep
  \/ \E c \in Child : ChildStep(c)
  \/ \E c \in RemoteChild : RemoteStep(c)
  \/ \E r \in Run : RunStep(r)

(***************************************************************************)
(* Fairness: pg-boss delivers the jobs it has and runs its schedules, one  *)
(* that is asked again and again to take a job takes it in the end, a      *)
(* handler that has started goes on, an execution that lives ends (its     *)
(* deadline aborts it), the lease of a dead one expires, a transaction     *)
(* commits.  Nothing is assumed of users, crashes, deadlines or of what a  *)
(* remote agent answers.                                                   *)
(***************************************************************************)
ChildFairness(c) ==
  /\ WF_allVars(Execute(c))
  /\ WF_allVars((\E o \in Outcomes : Finish(c, o)) \/ Abandon(c))
  /\ WF_allVars(~exec[c] /\ ChildLeaseExpires(c))
  /\ SF_allVars(Send(c)) /\ WF_allVars(Mark(c))
  /\ WF_allVars(SweepDispatch(c)) /\ WF_allVars(SweepStale(c)) /\ WF_allVars(SweepTerminal(c))

ParentFairness ==
  /\ WF_allVars((\E o \in Outcomes : ParentFinishes(o)) \/ ParentAbandons)
  /\ WF_allVars(~parentExec /\ ParentLeaseExpires)
  /\ WF_allVars(ResumeParent) /\ WF_allVars(SweepResume) /\ WF_allVars(SweepParent)
  /\ WF_allVars(CommitCancellation /\ UNCHANGED workerVars)

WorkerSpec ==
  /\ WorkerInit /\ [][WorkerNext]_allVars
  /\ ParentFairness
  /\ \A c \in Child : ChildFairness(c)

-----------------------------------------------------------------------------
\* A child that waits for a worker is owed one: its job is on the queue, an
\* execute() has it in hand, or its dispatch is pending and stays so until the
\* job is sent again.
Awaits(c) == status[c] = "queued" \/ (status[c] = "waiting_external" /\ ~cancelRequested[c])
Owed(c) == job[c] \/ pc[c] # "idle" \/ (dispatch[c] = "pending" /\ sent[c] = 0)

\* Only a crash can lose that, or the mark of an earlier publication that comes
\* after the child began to wait again: no claim that is refused, no parent that
\* is gone, no deferral, answer of the user, failed enqueue or sweep leaves a
\* child to its deadline.
DispatchKept ==
  [][\A c \in Child :
       Awaits(c)' /\ (Awaits(c) => Owed(c)) =>
         Owed(c)' \/ Crash(c) \/ (~Awaits(c) /\ sent[c] > 0)]_allVars

(* Liveness *)

\* A suspended parent that may go on, all its children joined, is not left
\* suspended: whatever is lost, a resume dispatch leads to a resume.
ParentResumed ==
  []<>~(status[Parent] = "waiting_external" /\ ~cancelRequested[Parent] /\ NoPendingJoin(join))

\* A child without a lease, queued behind a lost job or waiting for a user or a
\* remote agent that may never answer, ends once its deadline has passed.
IdleChildEnds ==
  \A c \in Child :
    status[c] \in Active \ {"running"} /\ overdue[c] ~> status[c] \notin Active \ {"running"}

\* As long as no lease or job is lost, a queued child is claimed or ended without
\* waiting for its deadline: its dispatch is on the queue or will be put there.
QueuedStarts ==
  \A c \in Child : status[c] = "queued" /\ losses = 0 ~> status[c] # "queued" \/ losses > 0

\* A parent that was cancelled or is past its deadline ends, wherever it is and
\* whatever crashes.
ParentEnds == cancelRequested[Parent] \/ overdue[Parent] ~> status[Parent] \in Terminal

\* A child whose process died is taken up again while its family may go on.
Orphaned(c) == status[c] = "running" /\ ~leaseLive[c]
OrphanReclaimed ==
  \A c \in Child :
    []<>~( /\ Orphaned(c) /\ ~cancelRequested[c] /\ ~overdue[c]
           /\ status[Parent] \in Active /\ ~cancelRequested[Parent] )

\* Comment of reapStaleForegroundRuns: delegated runs whose executor process
\* died are recovered by reconcileTerminalDelegatedRuns.
OrphanRecovered == \A c \in Child : Orphaned(c) ~> ~Orphaned(c)

=============================================================================
