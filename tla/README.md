# Iris OS: delegated agent runs in TLA+

Iris OS runs AI agents on behalf of a user. A run may delegate parts of its
work to other agents, each in a run of its own, some of them at remote A2A
agents, whose results it keeps as artifacts. The parent is then suspended, its
lease given up and its process released, until every child has ended; workers,
queues and sweepers carry everything across crashes. A run may also have a plan
of capability calls carried out by a durable job, within the budget that all of
its family shares. This directory models these parts of the system, the ones
where an ordering nobody tested loses a run, wakes a parent twice or never, runs
a tool twice, or lets a run start over after it ended. Paths below are relative
to `src/`.

## The system and its parts

| component | its state | operations | what makes it correct |
|---|---|---|---|
| Run repository, `src/lib/db/pg/repositories/agent-run-repository.pg.ts` | `agent_run`, `agent_run_join`, `agent_run_checkpoint`, `agent_run_dispatch`, `agent_run_resume_dispatch`, `agent_run_remote_cancel`, `agent_run_continuation`, the child rows of `root_run_budget(_reservation)`, `root_run_goal` | create, claim, heartbeat, finish, wait, resume, defer, suspend, claim the resume, cancel a tree, record a remote cancellation, reconcile, reap | one lease at a time; an ended run stays ended; a child's end, its join and its reservation are one step; a suspended parent always has its wake-up |
| Delegation worker, `scripts/workers/delegation-worker.ts`, `src/lib/delegation/worker-executor.ts`, `queue.ts` | pg-boss jobs, the leases a process believes it holds | execute a child, poll its lease, sweep pending and stale runs, cancel at the remote agent | every child is started and ended whatever is lost |
| Parent resume worker, `scripts/workers/parent-resume-worker.ts`, `src/lib/ai/runs/parent-resume-*.ts` | resume jobs | claim a checkpoint, run the parent on, finish | every suspended parent goes on |
| Run recovery, `scripts/workers/run-recovery-worker.ts` | none | reap root runs whose process died | a dead parent ends |
| Harness, `src/lib/ai/runtime/harness.ts` | the lease of the run it executes | run, heartbeat, suspend, finish | no write without the lease |
| Delegation service, `src/lib/delegation/service.ts` | none | check a delegation, create the child | limits of the parent hold |
| Run inbox, `src/lib/ai/runs/run-inbox.server.ts` | inbox messages, the root goal | revise the goal of a suspended run | no work of an old goal beside a new one |
| Root run budget, `src/lib/ai/runtime/server-budget-authority.ts` | counters and reservations of steps, tokens, tool calls, delegations, children | charge, reserve, settle, expire | counters equal what the reservations add up to, and stay within the limits |
| Remote A2A protocol, `src/lib/remote-agent/service.ts`, `src/lib/a2a/provider.ts` | submission ids, task ids | send, continue, get, cancel | one submission, and one stored task, per child whatever crashes; an answer is not lost; a cancellation is confirmed |
| Artifacts, `src/lib/artifacts/service.ts`, `src/lib/db/pg/repositories/artifact-repository.pg.ts` | blobs in a storage, `artifact`, `artifact_cleanup` | create, reap | every live row has its blob, no blob is forgotten |
| Durable jobs, `src/lib/jobs/*.ts`, `scripts/workers/durable-job-worker.ts` | `durable_job`, its completion outbox, an inbox item | create, claim, heartbeat, finish, expire, cancel, deliver the completion | a job ends once; its outcome is delivered once |
| Capability orchestration, `src/lib/jobs/orchestration-target.server.ts`, `src/lib/ai/capability/*.ts` | a plan, the queue and counters of a scheduler session | run a plan step by step, admit, charge and run a call | every call at most once, in the order of the steps, writers alone, within the budget |
| Automation, workflow executor, workspace file system, memory review, cache, MCP manager, activity outbox | see `PROJECT.json` | | not modelled |

The rest (learning, settings, policy, HTTP routes, UI, migrations) is
data, pure computation or rendering; `PROJECT.json` lists each with the reason.

How they interact: the *harness* runs a parent under a lease in `agent_run`. A
tool call goes through the *delegation service* to `createDelegated`, which
reserves a child in the root budget and inserts run, join and dispatch. The
*sweeper* turns dispatch rows into pg-boss jobs; the *delegation worker* claims
the child and ends it, and the same transaction settles the reservation,
completes the join and, if it was the last one of a suspended parent, inserts a
*resume dispatch*, which the parent resume worker turns into a new lease of the
parent. A user may cancel a run and its tree, or revise the goal of a suspended
parent, at any time. The executor of a remote child talks to the *A2A agent*
between its leased writes and stores what a task delivered through the *artifact
service*. A *durable job* runs the plan of an orchestration through the
*capability scheduler*, which charges each call to the *root budget*; when the job
ends, an outbox row takes its outcome to the *inbox* of the run.

Hard about it: eight paths end a child; claims read before
they lock; a cancellation is several statements; every process may stop between
any two writes; jobs are lost or delivered twice; deadlines pass anywhere.
`PROJECT.json` lists each hazard at its line with the properties it is for.

## Modules

| module | what it is |
|---|---|
| `ParentBarrier` | the abstract promise: numbered checkpoints, each resumed at most once, a delegation checkpoint only when every child is observed, nothing rewritten |
| `RunLifecycle` | the abstract contract of one row of `agent_run`: its status, lease, cancellation and deadline |
| `AgentRuns` | the run repository: a variable per table column that matters, an action per transaction |
| `MCAgentRuns` | its constants for TLC |
| `AgentRunsProofs` | the inductive invariant of `AgentRuns`: types, leases, settlement, budget |
| `AgentRunsSafety` | what a step may never do to a run, the limits on children, the goal boundary, the refinement of `RunLifecycle` |
| `AgentRunsBarrier` | the wake-up of a suspended parent and the refinement of `ParentBarrier` |
| `DelegationWorker` | extends `AgentRuns` with jobs, executions, sweepers, crashes and fairness |
| `MCDelegationWorker` | its constants for TLC |
| `DelegationWorkerProofs` | the workers implement the repository; what they know, and what they owe a waiting child |
| `Artifacts` | create and reap of artifacts, over a storage and a table that share no transaction |
| `RemoteDelegation` | extends `Artifacts` with one remote child: two executions of it, the A2A agent, the user's answers, the workers that cancel |
| `MCRemoteDelegation` | its constants for TLC |
| `ArtifactsProofs` | the invariant of `Artifacts`, and its safety by itself |
| `RemoteDelegationProofs` | the invariant of `RemoteDelegation`, what follows from it, the refinements of `RunLifecycle` and of `Artifacts`, failures that need a fault |
| `ActivityPromise` | the abstract promise of a job: it ends once, with one outcome, told once |
| `DurableJobs` | the rows of a job, of its outbox and of the inbox, and the publishers |
| `RootBudget` | the counters of one kind of budget and the ledger behind them |
| `Orchestration` | extends both with the worker, its plan and the scheduler session |
| `MCOrchestration` | its constants for TLC |
| `OrchestrationProofs` | types; budget and job each by itself, and the orchestration as a client of both |
| `OrchestrationSafety` | what the plan may do: once, in order, alone, within the budget |

### AgentRuns

One family: the root run `Parent` and the runs `Child` it delegates. Each
variable is a column (the comment beside it names it). An action is a whole
transaction, with what it calls: `observeTerminalChild` is the operator
`ObserveTerminalChild`, used by every action that ends a child.

* **Locks.** Almost every transaction takes the root advisory lock or locks the
  rows of the run, so it is one atomic action. Three are split.
  `claimQueued` reads its row first (`ReadCandidate`), then waits for the lock
  and decides on what it read (`ClaimQueued`); `candidate[c]` keeps what was read.
  `requestCancellationTree` chooses the remote tasks to cancel in one statement
  (`BeginCancellation`) and cancels in later ones (`CommitCancellation`); in
  between, `RootFree` stops whoever takes the root lock, `RowFree` whoever needs
  the locked row, and the remote writes, which take neither, go on. `resume` looks at
  status, cancellation and deadline (`ReadResume`) and then asks the row for its
  status only (`Resume`), so that a child cancelled or overdue in between is queued.
* **Leases.** A lease token is a fresh UUID per lease; `leaseToken` is the number
  of the attempt it was minted for, 0 for NULL. An executor that lost its lease
  keeps a token no row has any more, so its writes change nothing and need no
  action.
* **Time.** `leaseLive[r]` and `overdue[r]` stand for comparisons with the wall
  clock. With `LateNow` a transaction may have read its clock before it waited
  for a lock. It compares that one `now` with the lease and with the deadline
  (`LeaseAccepted`, `DeadlineAhead`), and may renew, suspend or finish a run whose
  lease has expired, or whose deadline has passed, meanwhile; a finish may then
  still record the outcome it was told (`InTime`). The cancellation flag it reads
  under the lock.
* **Joins.** A child belongs to checkpoint generation `ckpt.generation + 1`, the
  one its parent will write next. The resume waits for every join, of any
  generation, as the code's query does.
* **The goal.** `reviseRunGoal` applies to a parent suspended between goal rounds.
  In a family of depth one it finds no child active, so the stale-goal branch of
  `claimQueued` is written but never taken by a child whose revision differs
  from the root's: that is what `GoalBoundary` says.

* **The contract of a row.** `RunLifecycle` says, in ten actions and whoever writes,
  what may happen to a row: who holds a lease may go on only unhindered, giving the
  run up ends the lease, an ended run is final and has succeeded only if nothing was
  in its way. What a writer does not see is a deadline that has passed since it
  read its clock: `OldClock`, which is `LateNow` in `AgentRuns`, and in general the
  only excuse. `AgentRuns` implements it for each run of the family,
  `RemoteDelegation` for its child, with no old clock.

Idempotent replays (`createDelegated` of a known child, a resume answered twice)
change nothing and are not actions. `reconcileTerminalDelegatedRuns` on a child
already settled is one that does nothing and is kept, as `ReconcileChild`, since
proofs and mutants see whether it stays harmless.

### DelegationWorker

`job` and `resumeJob` say that a pg-boss job is on a queue; duplicates of a job
are not counted. `pc` follows one `execute(childRunId)` from the job to the claim,
one per child at a time; from the claim on, `exec[c]` says that the process holding the latest lease is
alive. `parentExec` says the same of whichever process runs the parent: the web
request, then the resume worker. Each action is an action of `AgentRuns` joined
with its effect on queues and processes, or leaves the tables alone: every behaviour
is one of `AgentRuns` (theorem `WorkerImplementsRuns`).

A crash may leave the job to be delivered again (pg-boss expires and retries it)
or not (its retries are used up). Four places put a child's job on the queue: the
service that creates the child, the execution that defers it, the request that
resumes it and the sweep. Each enqueues and, in a later statement that asks for
nothing but the row, marks the dispatch. This is a publication: `due[c]` counts those
that are still to enqueue, `sent[c]` those still to mark, and between `Publish`, `Send`
and `Mark` anything may happen, `GiveUp` included (the queue is not there, throws, or the
process dies). A mark may so be late: it wipes a dispatch that was armed again.

A live execution gives up without an outcome (`Abandon`) when it has lost its lease,
and, if it is a remote one, when a write is refused because the run was cancelled or
is overdue, or when its poll finds the parent cancelled or ended (`FamilyEnds`).

A delegation is not tied to `parentExec`: the
service checks the parent before the transaction, and the tool call may arrive
after the parent has suspended.

### RemoteDelegation and Artifacts

`AgentRuns` has the tables of a family and sees a remote child only as something
that ends, waits or is cancelled. `RemoteDelegation` looks inside: `exec[e]` is an
execution of `executeRemote()` between its leased writes (`prepareRemoteSubmission`,
`consumeContinuationMessage`, `recordRemoteTask`, `deferRemoteTask`, the finish), with
what it has read and heard, so that an execution that lost its lease, or whose
process died, is met anywhere by the next one. An execution is known by its lease
token: a member of `Exec` that claims again stands for a new one. Queues are not
here (`DelegationWorker` has them), and the two statements of
`requestCancellationTree` are one (`AgentRuns` splits them).

The agent is external and modelled from what the code sends and expects. It may
treat a repeated submission as the old task, as a new one or as a message to
answer directly; ask; refuse; finish late; not receive a call, or have its answer
lost. What it makes of the answer of a user is open as well: the task that asked, another
task, old or new, whose id the code then stores, or a direct message, which the code
takes for a completed task under the stored id. The code compares no ids. One thing is
assumed of the agent: asked for a task by its id, it answers with that task. `heard` are the
answers it was sent, `replied` those of them it answered directly. `task[t]` is its own view, which the properties compare with what the tables
say. A task id the agent did not make is `Message` or `MadeUp`: the code stores both.
`cause` is a ghost variable: why the child was failed.

`Artifacts` gives every `create()` a storage key of its own. The intent to clean
up, the blob and the row are written in this order, and any step may fail, with
or without effect. Time is left out: `claimCleanup` may find due an intent whose
writer is still at work. A `completeCleanup` that throws, done or not, is followed by
`retryCleanup`. The code bets on fifteen minutes here, and on an error of
the commit meaning that it was rolled back; `torn` marks both cases, which
`LiveContent` and `ContentOwned` except. They are the only ways in which the code
loses the blob of a live row.

### Orchestration, DurableJobs and RootBudget

`DurableJobs` has one job, since jobs share nothing. Orchestrations are the only
target there is, and have one attempt (`MaxAttempts`). What `finish` answers is not
read by the worker, and so is not returned by the model. The outbox row and the end
of the job are one transaction, the inbox another, so a publisher that dies in
between, or is late, delivers again.

`RootBudget` has one kind and amounts of 1. All of its operations take the root lock
and are atomic, but `settle()` reads the reservation before: `ReadReservation` and
`Settle`. `raced` is a ghost variable set when a settlement was counted for a row
it did not write; `BudgetExact` and `RunsWithinBudget` except it (see below).

`Orchestration` follows `executeOne` (`at`, `step`) and each call of the plan
(`call[w][c]`) from the checks to the charge, the tool and the check of its result.
`pump()` runs without an await: it is the operator `Pump`, part of whatever action
calls it, and what its loop admits is the set `Admits`, without recursion, so that it
can be proved about. `Promise.all` fails at the first rejection while the other calls
go on: a job may be stored as failed while a call of it is running, and the
properties hold of such calls as well. The charge may throw, before or after it
was entered; the token makes it safe. An aborted signal, a revised goal and an
ended run are seen where the code looks at them, and only there.

## Runs

| run | constants | what it shows |
|---|---|---|
| `family` | two local children, cap of one running sibling, two generations, two attempts | `BudgetExact`, `RunningCap` under racing claims, `ParentWakeup`, and that the repository implements `ParentBarrier` |
| `remote` | one remote child, waits, deferrals, remote cancellation, two goal revisions, one old clock for lease and deadline | `TypeOK`, `LeaseDiscipline`, `ChildSettlement`, `GoalBoundary`, `CancelledNeverSucceeds`, `LeaseNotStolen`, `TerminalIsFinal`, `ImplementsLifecycle` (refinement of `RunLifecycle`) |
| `worker_local` | a local child, cancellation, one lost lease | `ParentResumed`, `ParentEnds`, `OrphanReclaimed` (liveness) |
| `worker_remote` | a remote child, no cancellation, one lost lease | `IdleChildEnds`, `QueuedStarts` (liveness) |
| `worker_tables` | a remote child with everything that may happen, two publications at once | `ImplementsLifecycle` of its rows under workers, queues and crashes; `DispatchKept`: a waiting child loses what it is owed only by a crash or by a late mark |
| `remote_task` | two executions, one canceller, two tasks, one answer, one lost execution; no artifacts | `OneSubmission`, `AnswerDelivered`, `CancelConfirmed`, `TaskKept`, `TransientNeedsFault`, `ImplementsLifecycle`, `CancelSettles` (liveness) |
| `remote_artifacts` | one execution at a time, one question, two keys, one reaper, one failing call, one death, a deadline | `TypeOK`, `SucceededIsDone`, `LiveContent`, `ContentOwned`, `ChildEnds` and `ContentReaped` (liveness) |
| `orchestration` | one worker, three calls in two steps of which one writes, one other client of the budget, one fault | `TypeOK`, `CallOnce`, `ExclusiveAlone`, `RunsWithinBudget`, `PlanKept`, `BudgetExact`, `Promise` (refinement of `ActivityPromise`), `CallsSettle` (liveness) |
| `remote_cancel`, `worker_orphan`, `worker_cap`, `remote_retry` | | the four findings below |

**Bounds.** `MaxAttempts`, `MaxGeneration` and `MaxRevision` stop counters that grow
for ever in the code; two of each are enough for a second lease to meet a first,
a join to belong to another generation than the one waited for, and a revised
goal to meet old work. `MaxLosses` bounds lost leases, so that liveness is not
refuted by endless crashes. `MaxPublications` bounds publications under way at once: one
where liveness is asked for, since a stranded one leaves the sweep's turn to another; two
where a mark is to come late, over a dispatch that another publication is for.
`MaxChildren`, `MaxRunning`, `MaxParallelChildren` and
`MaxDelegations` are limits of the code (8, 3 and two columns), set to the number
of children or just below so that each is reached. Two children are enough for a
cap of one to be raced for and for "the last join" to differ from "a join";
children are otherwise independent. Liveness runs use one child, since what
blocks a child is its own job, lease or parent, and siblings only through the
cap, which `worker_cap` shows on its own. Each user cancels a run of `Cancellable`
at most once. Deadlock checking is off: every run may end.

In `RemoteDelegation`, two executions are enough for a late write to meet a new
lease; two tasks (`MaxTasks`) for a repeated submission taken for a new one; one
answer (`MaxAnswers`) for it to be sent again by a second execution; one death or
lost lease (`MaxLosses`), which may come at every point of every action sequence.
`MaxRetries` is 5 in the code: 1 is enough for the last retry to differ from the
first, and `remote_retry` has 5. `MaxFailures` bounds calls that fail: as many as
`MaxRetries`, so that a child must outlast them (`ChildEnds`). Two keys let a second
execution write an artifact beside the first's remains; `MaxTries` 1 (10 in the code)
makes a cleanup given up a case. Two executions and cancellations are in `remote_task`,
transient failures, deadlines and artifacts in `remote_artifacts`, questions in both:
together their states are too many, and no property needs all of them. One reaper is in
the run; any number is covered by the theorem `ArtifactsSafe`.

In `orchestration`, two calls in the first step run side by side and one must be
alone; the second step depends on both. `MaxParallel` is 2 (4 in the code), the width
of that step. `Limit` is 3 while plan and other client together want 4, so a charge
is refused. `MaxDeliver` 2 (10 in the code) tells a delivery repeated from one given
up. One fault may hit any statement, process or lease. One worker stands for all
processes: with one attempt the row admits one claim. A worker that has lost its job
is not gone, and its calls are still in the model.

**Fairness** (`WorkerSpec`). pg-boss delivers jobs and fires its schedules: the
sweeps and `ResumeParent` are weakly fair. A handler once started goes on
(`Execute`); whoever has enqueued goes on to mark (`Mark`). `Send` is strongly fair: a
queue that is asked again and again to take a job takes it in the end, though it may
refuse (`GiveUp`) any number of times before. A live execution ends, because its
deadline aborts it, or notices that its lease is gone. The lease of a dead process
expires. A transaction that began commits. Nothing is assumed of users, crashes, deadlines or the answers of
remote agents; hence `IdleChildEnds` has to hold without any answer.

`RemoteDelegation` asks, for what the queues do elsewhere, that a child that may be
claimed is claimed some time; that an execution at work, a canceller and a reaper go
on, and that the lease of a dead one expires. Its two promises need more of the world,
and say so: the agent gets on with a task at work and the user answers (for
`ChildEnds`), and a task being cancelled, asked again and again, is some time reported
final (strong fairness of one answer, for `CancelSettles`). Calls that fail are
bounded, never assumed away.

`Orchestration` has one condition, `WF_vars(Goes)`: the system does not stop while a
step of a living process, a timer of a sweep or the clock is possible. No step of
`Goes` can be repeated for ever, so their order needs no assumption. Users, deaths
and other clients of the budget are not in it.

**Mutants.** A definition marked "mutant" is the one below it with a bug
somebody could have written: a settled reservation settled again, siblings
counted by live lease, a claim that checks only the status, a join observed after
the wake-up was decided. The definitions are unused; `PROJECT.json` pairs each
checked property with one under which TLC finds it violated in the same run.

## What is proved

For every finite family and every value of the limits, from `FamilyAssumption`
and `LimitAssumption` (and `WorkerAssumption`) alone, the runs and their workers:

* `Invariance`: `Spec => []IInv`, where `IInv` is the conjunction of `Shape` (types,
  where the counters of the budget are only integers), `LeaseDiscipline`,
  `ChildSettlement` and `BudgetExact`. None of them is inductive alone: that a
  decrement of `budget.reserved` stays a natural number needs `BudgetExact`; that
  `ObserveTerminalChild` settles the right child needs `ChildSettlement`; that a
  run that is not running has no lease to clear needs `LeaseDiscipline`. The proof
  has a lemma per action, under it a step per conjunct the action disturbs, and
  rests on lemmas about `ObserveTerminalChild` and the cardinalities of sets that
  gain or lose one child.
* `TypeCorrect`, `LeasesDisciplined`, `ChildrenSettled`, `BudgetNeverDrifts`: the
  four parts as theorems of the specification.
* `EndedRunsStay`, `LiveLeasesKept`, `CancellationWins` rest on one lemma, `MoveStep`:
  every step moves every run as `SoundMove` says (an ended run keeps its status, a
  live lease is not replaced, a cancelled run does not turn into a succeeded one, and
  only `createDelegated` makes a run).
* `SiblingCap` needs only that a child starts in `claimQueued`, under the root lock;
  `LiveChildrenCapped` that a live child holds a reservation (`ChildSettlement`) and
  that the counter is their number (`BudgetExact`). No run checks its property
  `ParallelismBounded`: with two children the bound would be the family.
* `GoalBoundaryKept`: the strengthening `GoalInv` adds that the root run works for the
  current revision; a revision needs every join complete, so no child is alive.
* `CheckpointsNumbered`: `CheckpointInv` ties the number of the checkpoint to the
  leases of the parent. With it `ParentNeverForgotten` and
  `RepositoryImplementsBarrier` follow from `ParentMoves`: each step leaves the parent
  where it is (joins may complete, and then the wake-up is written), ends it,
  delegates, suspends it or resumes it, and these are the barrier's actions.
* `RepositoryImplementsLifecycle`: each row keeps the contract of `RunLifecycle`. It needs
  `GoalInv` (the stale-goal branch of a claim would end a run that nobody cancelled and
  that is not overdue) and `LateInv` (a candidate that `claimQueued` found overdue still
  is when the lock is given to it).
* `WorkerImplementsRuns`: `WorkerSpec => Spec`. Every step of a worker, a queue, a
  publication, a sweep or a crash is a step of the repository or leaves its tables
  alone; the lemmas go by actor. No run checks it: the actions are built that way, and
  what is worth checking is what follows from it.
* `WorkerSafety`, `WorkerImplementsBarrier`, `WorkerImplementsLifecycle`: hence the
  invariants, the barrier and the contract hold under the workers as well.
* `WorkerTypes`, `WorkerCalls`, `WorkerExecutors` are the parts of one invariant, `WInv`.
  `CallsInv` says what an `execute()` between its reads and its writes may rely on: its
  candidate is there, and it cancels only children of a parent that is cancelled or has
  ended, though it looked at the parent long before. `ExecutorInv` says that a child under a live lease
  has its process, unless one was lost or a remote execution gave up a run that was
  cancelled, is overdue or whose parent was cancelled or has ended: without that last
  case, one way into disagreement 1, the invariant is not inductive. It rests on `LInv`, the invariant of the contract, and on
  `TokenInv` (a running run has a token to fence its writes with).
* `WorkerKeepsDispatches`: the action property `DispatchKept`. A child waits and
  neither its dispatch, nor a job, nor an `execute()` has it in hand only after a crash,
  or after the mark of an earlier publication that came late; then its deadline is what
  ends it (`IdleChildEnds`).

For every set of executions, cancellers, keys and reapers and every bound, from
`ArtifactAssumption` and `RemoteAssumption`, the remote child:

* `RemoteInvariant`: `Spec => []Inv`. The parts that make it inductive are what an
  execution knows (`ExecInv`: it asked under the one submission id, and as long as it
  holds the lease, what it read is still stored), what a canceller knows (`CancelInv`: it
  asks for the task that is stored, because nothing replaces it once a cancellation was
  requested), that nothing is asked before a task id is stored (`QuestionInv`), that a token is held exactly by a running child (`LeaseInv`), and
  `ArtifactInv` of `ArtifactsProofs`: what each position of a `create()` says of the blob,
  the row, the intent and the reapers of its key. There is a lemma per action of an execution.
* `RemoteTypes`, `RemoteOneSubmission`, `RemoteAnswerDelivered`, `RemoteCancelConfirmed`,
  `RemoteSucceededIsDone` and `RemoteTaskKept` follow. The last one needs that only a
  holder of the lease writes, and that a holder which carries no answer of the user asked
  for what is stored: only a holder that does may exchange the task. The one before it needs
  that what a holder heard directly was said to the last answer of the user, or to the
  submission if there was none.
* `RemoteImplementsLifecycle`: the child's row keeps the contract of `RunLifecycle` between
  the steps of its executions, however many of them are late.
* `ArtifactsSafe`: `Artifacts` by itself (`ArtifactSpec`: anybody creates, reapers reap)
  keeps `LiveContent` and `ContentOwned`. `RemoteImplementsArtifacts`: every step of a
  remote delegation is one of the artifacts' or leaves them alone. `RemoteContent` and
  `RemoteLiveContent` follow by composition.
* `RemoteTransientNeedsFault`: `FailedForCause` does not hold (disagreement 4), but its
  weaker half does: no child is failed as unreachable unless a call failed or an execution was
  lost. The invariant, `FaultInv`, says that as long as neither has happened (`CalmInv`),
  every stored task id is the agent's own, or that of a message on its way to the
  finish of the execution that stored it (`MessageHeld`). Once either has
  happened nothing is to be shown, since the two counters only grow.

For every set of workers, publishers, calls, tokens, every plan and every limit, from
`JobAssumption`, `BudgetAssumption` and `PlanAssumption`, the orchestration:

* `BudgetAlwaysExact`, for `RootBudget` by itself (`BudgetSpec`), and, by
  `OrchestrationImplementsBudget`, `OrchestrationBudgetExact`: the counters are the cardinalities of the ledger's two
  kinds of entries, as long as nothing `raced`; and they stay within the limit in any
  case (`TypedInv`), since the locked part of `settle` is refused by the CHECK.
* `JobsPromise`, for `DurableJobs` by itself (`JobSpec`, whatever its workers store and
  when), and, by `OrchestrationImplementsJobs`, `OrchestrationPromise`: the
  specification implements the safety part of `ActivityPromise`. The invariant (`PromiseInv`) says that outcome, outbox and inbox
  carry the same word, in this order.
* `OrchestrationTypes`, `OrchestrationCallOnce`, `OrchestrationExclusive`,
  `OrchestrationPlanKept`, `OrchestrationWithinBudget` rest on one invariant, `CallInv`:
  one attempt admits one busy worker (`OwnerInv`); what a worker has reached, everything
  before has run (`OrderInv`); what ran was charged (`ChargedInv`); and the session's
  counters are the calls it has admitted, the queue the calls that wait, without
  repetition (`SessionInv`). `PumpSound` shows once that whatever the pump admits keeps
  `SessionInv`; the lemmas about the actions of a call cite it.

Every invariant and every action property of a passing run is thereby proved.
Only model-checked: liveness (`ParentResumed`, `ParentEnds`, `OrphanReclaimed`,
`IdleChildEnds`, `QueuedStarts`, `CancelSettles`, `ChildEnds`, `ContentReaped`,
`CallsSettle` and the liveness part of `Promise`), which is beyond the proof system.

## Disagreements between the code and what it says of itself

1. `worker_orphan`: a child whose process died is never taken up again once it was
   cancelled, is overdue or its parent ended. `claimQueued` and `cancelQueued`
   refuse it, and no sweep looks at a running child with a dead lease. The comment of
   `reapStaleForegroundRuns` says that delegated runs are recovered elsewhere.
2. `worker_cap`: the sibling cap counts orphans, the candidate included; when as
   many executors as the cap admits have died, none of their runs is reclaimed.
3. `remote_cancel`: a remote task recorded between the two statements of a
   cancellation is never cancelled at the remote agent.
4. `remote_retry`: when the first call to the agent throws, the child is deferred with
   the made-up task id `retry:<runId>`, which every later execution asks the agent for
   instead of sending the submission again. One transient failure so fails the child,
   while the comment promises that transient failures are retried. The same id also
   replaces a task id already stored. What the code keeps is `TransientNeedsFault`.

Three more are exceptions inside properties and no runs of their own. A deferral whose
enqueue fails leaves its dispatch pending for the sweeper
(`src/lib/delegation/worker-executor.ts:617`), unless the mark of an earlier publication
comes after it (`DispatchKept`); the child then waits for its deadline. `settle()` counts
a reservation it read before it had the lock, although `lock-order.pg.ts:12-13` asks for
the root lock first (`raced`; no caller but tests); and an artifact row can lose its blob when its
`create()` outlives the fifteen minutes of the intent, or when the answer of its commit
is lost (`torn`).

## Not modelled

Left out of the modelled components, and why:

* In `RemoteDelegation`, the parent, old clocks and the two statements of `resume`:
  `AgentRuns` and `DelegationWorker` have them, and there they meet every other writer.
  Two requests that answer one question at once are therefore not met: the second to
  commit replaces the message of the first, which an execution may have taken up, and
  queues nothing.
* Runs nested below depth one. Only root runs and their children meet all the
  transitions; a nested child ends by the same paths with its own parent as the root
  of a barrier, at the price of a state space beyond the runs.
* The status mirror in `delegation_run` and the erasure of a continuation's credentials:
  written beside the modelled columns, read by nothing that decides a transition.
  `PROJECT.json` names the path on which the mirror is left behind.
* A time at which things are due, beyond "has passed": back-off delays, the fifteen
  minutes of an intent, the five of a reaper.
* What models, tools and agents compute; messages and events for display, with the
  activity outbox that carries them; the pure checks of policies and permissions.
* Code that no production path calls: `CapabilityScheduler.schedule` (one batch),
  `discard` of an artifact, `retry` of a job, inbox items other than a completion.
  Some modelled operations have tests as their only callers too: `reserve` and
  `settle`, the creation and cancellation of a job, revising a goal, consuming and
  dismissing an inbox item. They are translated from their code and would be used
  as the code offers them.

Components not modelled at all:

* Automation: its attempts are claimed without a lease and finished without a guard, and
  its outcome is that of an agent run; it meets the modelled parts only through the
  run it starts. It is the next module to write, with the retry that a crash between
  commit and enqueue loses, and the attempt that stays running when its worker dies.
* Workspace files: one transaction per write, under a row lock, with a version.
* The workflow executor: a sequential walk over a graph, in one process.
* Memory review, learning, policies, settings: computations on data.
* The cache, where losing an entry is allowed, and the MCP manager, mostly I/O.
* Authentication, chat, UI, HTTP routes, migrations, which are most of the repository's
  lines: rendering, request handling and generated SQL, without a protocol of their own.
