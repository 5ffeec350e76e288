--------------------------- MODULE RemoteDelegation ---------------------------
(***************************************************************************)
(* One child that a remote A2A agent carries out: the executions that      *)
(* submit, poll and continue its task under a lease, the answers of its    *)
(* user, the workers that cancel the task, the agent, and the artifacts of *)
(* a completed task.                                                       *)
(*                                                                         *)
(* AgentRuns has the tables of a whole family and DelegationWorker the     *)
(* queues; here a child that may be claimed is claimed some time, and the  *)
(* two statements of a cancellation are one.  An execution is known by its *)
(* lease token: a member of Exec that claims again is a new execution.     *)
(*                                                                         *)
(* The agent is external: it may treat a repeated submission as new, ask,  *)
(* refuse, or not answer; it may answer a message of the user with another *)
(* task or directly, with a message and no task.  Asked for a task by its  *)
(* id, it answers with that task.                                          *)
(***************************************************************************)
EXTENDS Artifacts

CONSTANTS
  Exec,         \* executions of the child that may be under way at once
  Canceller,    \* cancelRemote() calls that may be under way at once
  Asks,         \* the questions the agent may ask
  Outcomes,     \* the states in which the agent may end a task
  Files,        \* a completed task carries artifacts
  Deadline,     \* the deadline of the child may pass
  Cancelled,    \* a user may cancel the child
  MaxRetries,   \* MAX_REMOTE_RETRIES (the code: 5)
  MaxTasks,     \* bound on the tasks the agent creates
  MaxAnswers,   \* bound on the answers the user gives
  MaxFailures,  \* bound on the calls that fail transiently
  MaxLosses     \* bound on the executions that die or lose their lease

ASSUME RemoteAssumption ==
  /\ "none" \notin Exec \cup Key
  /\ Asks \subseteq {"input_required", "auth_required"}
  /\ Outcomes \subseteq {"completed", "failed", "rejected", "cancelled"}
  /\ {Files, Deadline, Cancelled} \subseteq BOOLEAN
  /\ {MaxRetries, MaxTasks, MaxAnswers, MaxFailures, MaxLosses} \subseteq Nat

VARIABLES
  status,           \* agent_run.status
  holder,           \* agent_run.lease_token: the execution it was given to
  leaseLive,        \* lease_expires_at > now
  cancelRequested,  \* cancel_requested_at IS NOT NULL
  overdue,          \* absolute_deadline_at <= now
  retries,          \* n of waiting_reason "REMOTE_RETRY:n", else 0
  submission,       \* delegation_run.submission_id
  taskId,           \* delegation_run.remote_task_id
  question,         \* agent_run_continuation: its submission_id, consumed_at
  cancel,           \* agent_run_remote_cancel: none, pending or completed
  result,           \* the artifact in agent_run.result
  exec,             \* the executions: where they stand and what they know
  canceller,        \* the same of the cancelRemote() calls
  task,             \* the agent: the state of its tasks
  sent,             \* the agent: the submission ids it was sent
  heard,            \* the agent: the answers of the user it was sent
  replied,          \* the agent: those of them, 0 the submission, it answered directly
  failures, losses, \* bounded faults so far
  cause             \* ghost: why the run failed

runVars == <<status, holder, leaseLive, cancelRequested, overdue, retries, result, cause>>
delegationVars == <<submission, taskId, question, cancel>>
agentVars == <<task, sent, heard, replied>>
faultVars == <<failures, losses>>
remoteVars == <<runVars, delegationVars, exec, canceller, agentVars, faultVars>>
vars == <<remoteVars, artifactVars>>

TaskId == 1..MaxTasks
NoTask == 0
Message == MaxTasks + 1   \* "message:<submissionId>", of a direct answer to it
MadeUp == MaxTasks + 2    \* "retry:<runId>"
StoredId == {NoTask, Message, MadeUp} \cup TaskId

Terminal == {"succeeded", "failed", "cancelled", "timed_out"}
Waiting == {"waiting_external", "waiting_input", "waiting_approval"}
Claimable == {"queued", "waiting_external"}
WaitFor == [input_required |-> "waiting_input", auth_required |-> "waiting_approval"]
Final == {"completed", "failed", "rejected", "cancelled"}
TaskState == {"working"} \cup Asks \cup Final

Place == {"idle", "prepare", "call", "consume", "record", "ingest", "result"}
Call == [pc : Place, abort : {"none", "lease_lost", "cancelled", "timeout"}, sub : Nat,
         answer : 0..MaxAnswers, task : StoredId, got : StoredId,
         state : TaskState \cup {"none", "message", "transient", "unknown", "unverified"},
         file : Key \cup {"none"}]
NoCall == [pc |-> "idle", abort |-> "none", sub |-> 0, answer |-> 0, task |-> NoTask,
           got |-> NoTask, state |-> "none", file |-> "none"]

RemoteTypeOK ==
  /\ status \in {"queued", "running"} \cup Waiting \cup Terminal
  /\ holder \in Exec \cup {"none"} /\ leaseLive \in BOOLEAN
  /\ cancelRequested \in BOOLEAN /\ overdue \in BOOLEAN
  /\ retries \in 0..MaxRetries
  /\ submission \in Nat /\ taskId \in StoredId
  /\ question \in [id : 0..MaxAnswers, consumed : BOOLEAN]
  /\ cancel \in {"none", "pending", "completed"}
  /\ result \in Key \cup {"none"}
  /\ exec \in [Exec -> Call]
  /\ canceller \in [Canceller -> [pc : {"idle", "call", "record"}, task : StoredId,
                                  said : {"none", "final", "open", "error"}]]
  /\ task \in [TaskId -> TaskState \cup {"none"}]
  /\ sent \subseteq Nat
  /\ heard \subseteq 0..MaxAnswers /\ replied \subseteq 0..MaxAnswers
  /\ failures \in 0..MaxFailures /\ losses \in 0..MaxLosses
  /\ cause \in {"none", "agent", "artifact", "transient"}

TypeOK == RemoteTypeOK /\ ArtifactTypeOK

\* createDelegatedChild has queued the child.
Init ==
  /\ ArtifactInit
  /\ status = "queued" /\ holder = "none" /\ leaseLive = FALSE
  /\ cancelRequested = FALSE /\ overdue = FALSE /\ retries = 0
  /\ submission = 0 /\ taskId = NoTask /\ question = [id |-> 0, consumed |-> TRUE]
  /\ cancel = "none" /\ result = "none" /\ cause = "none"
  /\ exec = [e \in Exec |-> NoCall]
  /\ canceller = [c \in Canceller |-> [pc |-> "idle", task |-> NoTask, said |-> "none"]]
  /\ task = [t \in TaskId |-> "none"] /\ sent = {}
  /\ heard = {} /\ replied = {}
  /\ failures = 0 /\ losses = 0

-----------------------------------------------------------------------------
(* The lease *)

\* The condition on running, token and lease of every leased write.
Holds(e) == status = "running" /\ holder = e /\ leaseLive
\* With the guard against cancellation and deadline most of them add.
MayWriteCancelled(e) == Holds(e) /\ ~overdue                              \* mutant
MayWrite(e) == Holds(e) /\ ~cancelRequested /\ ~overdue

Go(e, l) == exec' = [exec EXCEPT ![e].pc = l]
Leave(e) == exec' = [exec EXCEPT ![e] = NoCall]

\* runs.claim of a child that waits for a worker or whose lease has run out.
Claim(e) ==
  /\ exec[e].pc = "idle"
  /\ \/ status \in Claimable
     \/ status = "running" /\ ~leaseLive
  /\ ~cancelRequested /\ ~overdue
  /\ status' = "running" /\ holder' = e /\ leaseLive' = TRUE
  /\ exec' = [exec EXCEPT ![e] = [NoCall EXCEPT !.pc = "prepare"]]
  /\ UNCHANGED <<cancelRequested, overdue, retries, result, cause, delegationVars, canceller,
                 agentVars, faultVars, artifactVars>>

\* A heartbeat of the poll timer: renew the lease, or learn why not.  A lost
\* lease overrides the other causes, which do not override one another.
Heartbeat(e) ==
  LET found == CASE ~Holds(e) -> "lease_lost" [] cancelRequested -> "cancelled"
                 [] overdue -> "timeout" [] OTHER -> "none"
      old == exec[e].abort
  IN /\ exec[e].pc # "idle" /\ found # old
     /\ \/ found = "lease_lost"
        \/ found # "none" /\ old = "none"
     /\ exec' = [exec EXCEPT ![e].abort = found]
     /\ UNCHANGED <<runVars, delegationVars, canceller, agentVars, faultVars, artifactVars>>

\* The lease runs out: its execution is gone, or it was suspended too long.
LeaseExpires ==
  /\ status = "running" /\ leaseLive
  /\ leaseLive' = FALSE
  /\ IF exec[holder].pc = "idle" THEN UNCHANGED losses
                                 ELSE losses < MaxLosses /\ losses' = losses + 1
  /\ UNCHANGED <<status, holder, cancelRequested, overdue, retries, result, cause, delegationVars,
                 exec, canceller, agentVars, failures, artifactVars>>

\* The process of an execution dies, with the create() it was in.
Crash(e) ==
  /\ exec[e].pc # "idle" /\ losses < MaxLosses /\ losses' = losses + 1
  /\ Leave(e)
  /\ IF exec[e].file # "none" /\ writer[exec[e].file] \in Writing \cup {"undo", "undone"}
     THEN WriterDies(exec[e].file) ELSE UNCHANGED artifactVars
  /\ UNCHANGED <<runVars, delegationVars, canceller, agentVars, failures>>

-----------------------------------------------------------------------------
(* executeRemote *)

\* A new submission id for every execution.
PrepareAnew(e) ==                                                         \* mutant
  /\ exec[e].pc = "prepare" /\ MayWrite(e)
  /\ submission' = submission + 1
  /\ exec' = [exec EXCEPT ![e] = [@ EXCEPT !.pc = "call", !.sub = submission', !.task = taskId,
                !.answer = IF question.consumed THEN 0 ELSE question.id]]
  /\ UNCHANGED <<runVars, taskId, question, cancel, canceller, agentVars, faultVars, artifactVars>>

\* The answer marked as consumed when it is read.
PrepareConsumes(e) ==                                                     \* mutant
  /\ exec[e].pc = "prepare" /\ MayWrite(e)
  /\ submission' = IF submission = 0 THEN 1 ELSE submission
  /\ exec' = [exec EXCEPT ![e] = [@ EXCEPT !.pc = "call", !.sub = submission', !.task = taskId,
                !.answer = IF question.consumed THEN 0 ELSE question.id]]
  /\ question' = [question EXCEPT !.consumed = TRUE]
  /\ UNCHANGED <<runVars, taskId, cancel, canceller, agentVars, faultVars, artifactVars>>

\* consumeContinuation and prepareRemoteSubmission: read the answer that waits,
\* create the submission id once.  Both ask for the lease; what they read does
\* not change while the run is running, so they are one step.
Prepare(e) ==
  /\ exec[e].pc = "prepare"
  /\ IF MayWrite(e)
     THEN /\ submission' = IF submission = 0 THEN 1 ELSE submission
          /\ exec' = [exec EXCEPT ![e] = [@ EXCEPT
               !.pc = "call", !.sub = submission', !.task = taskId,
               !.answer = IF question.consumed THEN 0 ELSE question.id]]
     ELSE Leave(e) /\ UNCHANGED submission
  /\ UNCHANGED <<runVars, taskId, question, cancel, canceller, agentVars, faultVars, artifactVars>>

\* What the agent may do with a task at work.
Moves == {"working"} \cup Outcomes \cup (IF question.id < MaxAnswers THEN Asks ELSE {})

Fault == failures < MaxFailures /\ failures' = failures + 1

\* The call throws: no task id is known.
Throw(e) == exec' = [exec EXCEPT ![e].pc = "result", ![e].state = "transient"]

\* The agent's answer: received, received with a state the provider does not
\* know, or lost.
Answered(e, t, s) ==
  \/ /\ \/ UNCHANGED failures /\ exec' = [exec EXCEPT ![e].got = t, ![e].state = s,
                                   ![e].pc = IF exec[e].answer = 0 THEN "record" ELSE "consume"]
        \/ s # "message" /\ Fault /\ exec' = [exec EXCEPT ![e].got = t, ![e].state = "unknown",
                                   ![e].pc = IF exec[e].answer = 0 THEN "record" ELSE "consume"]
  \/ Fault /\ Throw(e)

\* The id the agent gives the next task it makes.
Fresh(t) == task[t] = "none" /\ \A u \in 1..(t - 1) : task[u] # "none"

\* The agent answers with a task that it moves on, or with any task it has made.
TaskAnswer(e, moved) ==
  /\ UNCHANGED replied
  /\ \E t \in TaskId :
       \/ \E s \in Moves : t \in moved /\ task' = [task EXCEPT ![t] = s] /\ Answered(e, t, s)
       \/ task[t] # "none" /\ UNCHANGED task /\ Answered(e, t, task[t])

\* A direct message, taken for a completed task: under the stored id, if any.
DirectAnswer(e) ==
  /\ "completed" \in Outcomes /\ replied' = replied \cup {exec[e].answer} /\ UNCHANGED task
  /\ Answered(e, IF exec[e].task = NoTask THEN Message ELSE exec[e].task, "message")

\* sendTask: a task, new or, if the agent knows the submission, an old one; or
\* a direct message.
Send(e) ==
  /\ exec[e].pc = "call" /\ exec[e].answer = 0 /\ exec[e].task = NoTask
  /\ sent' = sent \cup {exec[e].sub}
  /\ TaskAnswer(e, {t \in TaskId : Fresh(t)}) \/ DirectAnswer(e)
  /\ UNCHANGED <<runVars, delegationVars, canceller, heard, losses, artifactVars>>

\* getTask of a task the agent knows.
Get(e) ==
  /\ exec[e].pc = "call" /\ exec[e].answer = 0 /\ exec[e].task \in TaskId
  /\ Answered(e, exec[e].task, task[exec[e].task])
  /\ UNCHANGED <<runVars, delegationVars, canceller, agentVars, losses, artifactVars>>

\* continueTask: a message with the answer sets a task that asked to work again,
\* or is answered otherwise: no id is compared.
Continue(e) ==
  /\ exec[e].pc = "call" /\ exec[e].answer # 0
  /\ heard' = heard \cup {exec[e].answer}
  /\ TaskAnswer(e, {t \in TaskId : Fresh(t) \/ task[t] \in Asks}) \/ DirectAnswer(e)
  /\ UNCHANGED <<runVars, delegationVars, canceller, sent, losses, artifactVars>>

\* A call that does not reach the agent, or that names a task it did not make
\* and that it refuses.
CallFails(e) ==
  /\ exec[e].pc = "call" /\ Throw(e)
  /\ IF exec[e].task \in {Message, MadeUp} THEN UNCHANGED failures ELSE Fault
  /\ UNCHANGED <<runVars, delegationVars, canceller, agentVars, losses, artifactVars>>

\* consumeContinuationMessage: the agent has the answer.
Consume(e) ==
  /\ exec[e].pc = "consume"
  /\ IF Holds(e) /\ question = [id |-> exec[e].answer, consumed |-> FALSE]
     THEN question' = [question EXCEPT !.consumed = TRUE] /\ Go(e, "record")
     ELSE Leave(e) /\ UNCHANGED question
  /\ UNCHANGED <<runVars, submission, taskId, cancel, canceller, agentVars, faultVars, artifactVars>>

\* The signal was aborted before the answer came.  A cancelled run is left to
\* cancelRemote; a run out of time has the agent asked to cancel the task.
Aborted(e) ==
  /\ exec[e].pc = "record" /\ exec[e].abort # "none"
  /\ IF exec[e].abort = "timeout" /\ exec[e].got \in TaskId
     THEN task' \in {task, [task EXCEPT ![exec[e].got] = IF @ \in Final THEN @ ELSE "cancelled"]}
     ELSE UNCHANGED task
  /\ IF exec[e].abort = "timeout" THEN Go(e, "result") ELSE Leave(e)
  /\ UNCHANGED <<runVars, delegationVars, canceller, sent, heard, replied, faultVars, artifactVars>>

Unlock == holder' = "none" /\ leaseLive' = FALSE
Arm(n) == status' = "waiting_external" /\ retries' = n /\ Unlock

\* A poll deferred under the made-up id of a failed one.
DeferMadeUp(e) ==                                                         \* mutant
  /\ exec[e].pc = "record" /\ exec[e].abort = "none" /\ exec[e].state = "working"
  /\ Leave(e)
  /\ IF MayWrite(e) THEN Arm(0) /\ taskId' = MadeUp
                    ELSE UNCHANGED <<status, retries, holder, leaseLive, taskId>>
  /\ UNCHANGED <<cancelRequested, overdue, result, cause, submission, question, cancel, canceller,
                 agentVars, faultVars, artifactVars>>

\* deferRemoteTask of a task at work: give the lease back, poll again later.
DeferRemoteTask(e) ==
  /\ exec[e].pc = "record" /\ exec[e].abort = "none" /\ exec[e].state = "working"
  /\ Leave(e)
  /\ IF MayWrite(e) THEN Arm(0) /\ taskId' = exec[e].got
                    ELSE UNCHANGED <<status, retries, holder, leaseLive, taskId>>
  /\ UNCHANGED <<cancelRequested, overdue, result, cause, submission, question, cancel, canceller,
                 agentVars, faultVars, artifactVars>>

\* recordRemoteTask of any other answer; without the lease, nothing is written.
RecordUnleased(e) ==                                                      \* mutant
  /\ exec[e].pc = "record" /\ exec[e].abort = "none" /\ exec[e].state # "working"
  /\ taskId' = exec[e].got /\ Go(e, "result")
  /\ UNCHANGED <<runVars, submission, question, cancel, canceller, agentVars, faultVars,
                 artifactVars>>

RecordRemoteTask(e) ==
  /\ exec[e].pc = "record" /\ exec[e].abort = "none" /\ exec[e].state # "working"
  /\ IF MayWrite(e)
     THEN /\ taskId' = exec[e].got
          /\ Go(e, IF exec[e].state = "completed" /\ Files THEN "ingest" ELSE "result")
     ELSE Leave(e) /\ UNCHANGED taskId
  /\ UNCHANGED <<runVars, submission, question, cancel, canceller, agentVars, faultVars,
                 artifactVars>>

-----------------------------------------------------------------------------
(* ingestRemoteArtifacts *)

\* artifacts.create under a new key.
Ingest(e) ==
  /\ exec[e].pc = "ingest" /\ exec[e].file = "none"
  /\ \E k \in Key : ScheduleUpload(k) /\ exec' = [exec EXCEPT ![e].file = k]
  /\ UNCHANGED <<runVars, delegationVars, canceller, agentVars, faultVars>>

IngestStep(e) ==
  /\ exec[e].pc = "ingest" /\ exec[e].file # "none" /\ CreateStep(exec[e].file)
  /\ UNCHANGED remoteVars

\* The artifact is verified before its row is there.
VerifyStored(e) ==                                                        \* mutant
  /\ exec[e].pc = "ingest" /\ exec[e].file # "none" /\ writer[exec[e].file] = "stored"
  /\ Go(e, "result")
  /\ UNCHANGED <<runVars, delegationVars, canceller, agentVars, faultVars, artifactVars>>

\* verify: the row is there and the storage has the content.
Verify(e) ==
  LET k == exec[e].file
  IN /\ exec[e].pc = "ingest" /\ k # "none" /\ writer[k] \in {"created", "gone"}
     /\ exec' = [exec EXCEPT ![e].pc = "result",
                   ![e].state = IF writer[k] = "created" /\ blob[k] THEN @ ELSE "unverified"]
     /\ UNCHANGED <<runVars, delegationVars, canceller, agentVars, faultVars, artifactVars>>

-----------------------------------------------------------------------------
(* The result, classified by classifyAbortedExecution *)

\* finishRunning, whose own classification has the last word.
Finish(e, outcome, why) ==
  /\ Leave(e)
  /\ IF Holds(e)
     THEN /\ status' = IF cancelRequested THEN "cancelled" ELSE IF overdue THEN "timed_out"
                       ELSE outcome
          /\ result' = IF status' = "succeeded" THEN exec[e].file ELSE result
          /\ cause' = IF status' = "failed" THEN why ELSE cause
          /\ Unlock
     ELSE UNCHANGED <<status, result, cause, holder, leaseLive>>
  /\ UNCHANGED <<cancelRequested, overdue, retries, delegationVars, canceller, agentVars,
                 faultVars, artifactVars>>

\* waitForInput, waitForApproval: refused, they leave the run as it is.
Wait(e) ==
  /\ Leave(e)
  /\ IF MayWrite(e) THEN status' = WaitFor[exec[e].state] /\ retries' = 0 /\ Unlock
                    ELSE UNCHANGED <<status, retries, holder, leaseLive>>
  /\ UNCHANGED <<cancelRequested, overdue, result, cause, delegationVars, canceller, agentVars,
                 faultVars, artifactVars>>

Forget(e) ==
  /\ Leave(e)
  /\ UNCHANGED <<runVars, delegationVars, canceller, agentVars, faultVars, artifactVars>>

\* A transient failure: poll again under the task id, if there is none under a
\* made-up one, which replaces what was stored.
Defer(e) ==
  /\ Leave(e) /\ Arm(retries + 1)
  /\ taskId' = IF exec[e].got = NoTask THEN MadeUp ELSE exec[e].got
  /\ UNCHANGED <<cancelRequested, overdue, result, cause, submission, question, cancel, canceller,
                 agentVars, faultVars, artifactVars>>

\* Retried without a limit.
RetryForever(e) ==                                                        \* mutant
  IF MayWrite(e)
  THEN /\ Leave(e) /\ Arm(retries)
       /\ taskId' = IF exec[e].got = NoTask THEN MadeUp ELSE exec[e].got
       /\ UNCHANGED <<cancelRequested, overdue, result, cause, submission, question, cancel,
                      canceller, agentVars, faultVars, artifactVars>>
  ELSE Finish(e, "failed", "transient")

\* Retried once too often.
RetryOneMore(e) ==                                                        \* mutant
  IF retries <= MaxRetries /\ MayWrite(e) THEN Defer(e) ELSE Finish(e, "failed", "transient")

Retry(e) ==
  IF retries < MaxRetries /\ MayWrite(e) THEN Defer(e) ELSE Finish(e, "failed", "transient")

Conclude(e) ==
  /\ exec[e].pc = "result"
  /\ \/ exec[e].abort = "lease_lost" /\ Forget(e)
     \/ exec[e].abort = "timeout" /\ Finish(e, "timed_out", "none")
     \/ exec[e].abort = "cancelled" /\ Finish(e, "cancelled", "none")
     \/ /\ exec[e].abort = "none"
        /\ \/ exec[e].state \in {"completed", "message"} /\ Finish(e, "succeeded", "none")
           \/ exec[e].state = "cancelled" /\ Finish(e, "cancelled", "none")
           \/ exec[e].state \in {"failed", "rejected"} /\ Finish(e, "failed", "agent")
           \/ exec[e].state = "unverified" /\ Finish(e, "failed", "artifact")
           \/ exec[e].state \in Asks /\ Wait(e)
           \/ exec[e].state \in {"transient", "unknown"} /\ Retry(e)

-----------------------------------------------------------------------------
(* The user, the deadline and cancelRemote *)

\* resume: the answer replaces the last one, the child is queued again.
Resume ==
  /\ status \in {"waiting_input", "waiting_approval"} /\ ~cancelRequested /\ ~overdue
  /\ question.id < MaxAnswers /\ question' = [id |-> question.id + 1, consumed |-> FALSE]
  /\ status' = "queued" /\ retries' = 0
  /\ UNCHANGED <<holder, leaseLive, cancelRequested, overdue, result, cause, submission, taskId,
                 cancel, exec, canceller, agentVars, faultVars, artifactVars>>

\* requestCancellationTree: a remote task that may be at work gets an intent,
\* and its run waits for the answer unless it is waiting for nothing else.
RequestCancel ==
  /\ Cancelled /\ ~cancelRequested /\ status \notin Terminal
  /\ cancelRequested' = TRUE
  /\ cancel' = IF status \in {"running", "waiting_external"} /\ taskId # NoTask
               THEN "pending" ELSE cancel
  /\ status' = IF status # "running" /\ cancel' # "pending" THEN "cancelled" ELSE status
  /\ UNCHANGED <<holder, leaseLive, overdue, retries, result, cause, submission, taskId, question,
                 exec, canceller, agentVars, faultVars, artifactVars>>

DeadlinePasses ==
  /\ Deadline /\ ~overdue /\ overdue' = TRUE
  /\ UNCHANGED <<status, holder, leaseLive, cancelRequested, retries, result, cause,
                 delegationVars, exec, canceller, agentVars, faultVars, artifactVars>>

\* claimQueued and reconcileTerminalDelegatedRuns end an overdue child that no
\* execution holds.
TimeOut ==
  /\ overdue /\ status \in {"queued"} \cup Waiting
  /\ status' = "timed_out"
  /\ UNCHANGED <<holder, leaseLive, cancelRequested, overdue, retries, result, cause,
                 delegationVars, exec, canceller, agentVars, faultVars, artifactVars>>

\* prepareRemoteCancellation
PrepareCancel(c) ==
  /\ canceller[c].pc = "idle" /\ cancel = "pending" /\ taskId # NoTask
  /\ canceller' = [canceller EXCEPT ![c] = [pc |-> "call", task |-> taskId, said |-> "none"]]
  /\ UNCHANGED <<runVars, delegationVars, exec, agentVars, faultVars, artifactVars>>

\* cancelTask: the task is cancelled, is found finished, goes on for now, or
\* the call throws.
CancelTask(c, said) ==
  LET t == canceller[c].task
  IN /\ canceller[c].pc = "call"
     /\ \/ said = "error" /\ UNCHANGED task
        \/ said = "open" /\ t \in TaskId /\ task[t] \notin Final /\ UNCHANGED task
        \/ said = "final" /\ t \in TaskId
           /\ task' = [task EXCEPT ![t] = IF @ \in Final THEN @ ELSE "cancelled"]
     /\ canceller' = [canceller EXCEPT ![c].pc = "record", ![c].said = said]
     /\ UNCHANGED <<runVars, delegationVars, exec, sent, heard, replied, faultVars, artifactVars>>

CancellerDone(c) ==
  canceller' = [canceller EXCEPT ![c] = [pc |-> "idle", task |-> NoTask, said |-> "none"]]

\* Any answer taken for the end of the task.
RecordCancelAnswered(c) ==                                                \* mutant
  /\ canceller[c].pc = "record" /\ CancellerDone(c)
  /\ cancel' = IF canceller[c].said = "error" THEN "pending" ELSE "completed"
  /\ IF cancel' = "completed" /\ status \in {"running", "waiting_external"}
     THEN status' = "cancelled" /\ Unlock ELSE UNCHANGED <<status, holder, leaseLive>>
  /\ UNCHANGED <<cancelRequested, overdue, retries, result, cause, submission, taskId, question,
                 exec, agentVars, faultVars, artifactVars>>

\* An answer for a run that has ended closes nothing.
RecordCancelActive(c) ==                                                  \* mutant
  /\ canceller[c].pc = "record" /\ CancellerDone(c)
  /\ cancel' = IF canceller[c].said # "final" THEN "pending"
               ELSE IF status \in Terminal THEN cancel ELSE "completed"
  /\ IF canceller[c].said = "final" /\ status \in {"running", "waiting_external"}
     THEN status' = "cancelled" /\ Unlock ELSE UNCHANGED <<status, holder, leaseLive>>
  /\ UNCHANGED <<cancelRequested, overdue, retries, result, cause, submission, taskId, question,
                 exec, agentVars, faultVars, artifactVars>>

\* recordRemoteCancellation: a final answer closes the intent and ends the run;
\* any other, however late, opens the intent again.
RecordRemoteCancellation(c) ==
  /\ canceller[c].pc = "record" /\ CancellerDone(c)
  /\ cancel' = IF canceller[c].said = "final" THEN "completed" ELSE "pending"
  /\ IF canceller[c].said = "final" /\ status \in {"running", "waiting_external"}
     THEN status' = "cancelled" /\ Unlock ELSE UNCHANGED <<status, holder, leaseLive>>
  /\ UNCHANGED <<cancelRequested, overdue, retries, result, cause, submission, taskId, question,
                 exec, agentVars, faultVars, artifactVars>>

\* The agent gets on with a task.
AgentWorks(t) ==
  /\ task[t] = "working"
  /\ \E s \in Moves \ {"working"} : task' = [task EXCEPT ![t] = s]
  /\ UNCHANGED <<runVars, delegationVars, exec, canceller, sent, heard, replied, faultVars, artifactVars>>

Reap(r) == ReapStep(r) /\ UNCHANGED remoteVars
ReapCrash(r) ==
  /\ losses < MaxLosses /\ losses' = losses + 1 /\ ReaperDies(r)
  /\ UNCHANGED <<runVars, delegationVars, exec, canceller, agentVars, failures>>

-----------------------------------------------------------------------------
ExecStep(e) ==
  \/ Prepare(e) \/ Send(e) \/ Get(e) \/ Continue(e) \/ CallFails(e) \/ Consume(e) \/ Aborted(e)
  \/ DeferRemoteTask(e) \/ RecordRemoteTask(e) \/ Ingest(e) \/ IngestStep(e) \/ Verify(e)
  \/ Conclude(e)
CancelStep(c) ==
  \/ PrepareCancel(c) \/ RecordRemoteCancellation(c)
  \/ \E said \in {"final", "open", "error"} : CancelTask(c, said)

Next ==
  \/ \E e \in Exec : Claim(e) \/ Heartbeat(e) \/ Crash(e) \/ ExecStep(e)
  \/ LeaseExpires \/ Resume \/ RequestCancel \/ DeadlinePasses \/ TimeOut
  \/ \E c \in Canceller : CancelStep(c)
  \/ \E t \in TaskId : AgentWorks(t)
  \/ \E r \in Reaper : Reap(r) \/ ReapCrash(r)

\* A child that waits is claimed, its executions go on, dead ones lose their
\* lease and are reclaimed (DelegationWorker has the queues).  The agent works,
\* the user answers, and a task being cancelled is some time reported final.
Fairness ==
  /\ WF_vars(\E e \in Exec : Claim(e)) /\ WF_vars(LeaseExpires) /\ WF_vars(Resume)
  /\ WF_vars(TimeOut)
  /\ \A e \in Exec : WF_vars(ExecStep(e))
  /\ \A t \in TaskId : WF_vars(AgentWorks(t))
  /\ \A c \in Canceller : WF_vars(CancelStep(c)) /\ SF_vars(CancelTask(c, "final"))
  /\ \A r \in Reaper : WF_vars(Reap(r))

Spec == Init /\ [][Next]_vars /\ Fairness

-----------------------------------------------------------------------------
(* Properties *)

\* However often executions die, lose their lease or throw, the agent is sent
\* one submission id.
OneSubmission == \A s, u \in sent : s = u

\* An answer of the user is marked as consumed only if the agent was sent it.
AnswerDelivered == question.consumed => question.id \in heard \cup {0}

\* A task of the agent, once stored, is exchanged for another one only by the
\* execution that has the lease, for the task with which the agent answered what
\* it sent for the user.  A late execution, or one that polls or sends the
\* submission again, never does, also if the agent made several tasks for it.
TaskKept ==
  [][{taskId, taskId'} \subseteq TaskId /\ taskId' # taskId =>
       \E e \in Exec : Holds(e) /\ exec[e].answer # 0 /\ exec[e].got = taskId']_vars

\* A child succeeds only with a task the agent completed, whose artifact is a live
\* row that has its blob, or because the agent answered directly, and without an
\* artifact, the last that was sent to it: the submission or the user's answer.
SucceededIsDone ==
  status = "succeeded" =>
    \/ /\ taskId \in TaskId /\ task[taskId] = "completed"
       /\ Files => result # "none" /\ row[result] /\ (blob[result] \/ torn[result])
    \/ /\ question.id \in replied /\ result = "none"
       /\ question.id = 0 => taskId = Message

\* A remote cancellation is closed only when the agent has ended the stored task
\* and the run has ended.
CancelConfirmed ==
  cancel = "completed" => taskId \in TaskId /\ task[taskId] \in Final /\ status \in Terminal

\* A child is failed only because the agent or its artifacts failed, or after
\* more transient failures than are retried.
FailedForCause == status = "failed" /\ cause = "transient" => failures > MaxRetries

\* What the code does keep of that: it takes a failed call, or an execution that
\* was lost, to fail a child as unreachable.  No refused write, late answer or
\* stored id makes up a failure of its own.
TransientNeedsFault == cause = "transient" => failures + losses > 0

\* Between the steps of its executions, however many are late, the child keeps
\* the contract of a row of agent_run; here a write never has an old clock.
Life == INSTANCE RunLifecycle
  WITH None <- "none", OldClock <- FALSE, token <- holder, live <- leaseLive

ImplementsLifecycle == Life!Spec

\* A cancellation that a late answer has opened again is closed again.
CancelSettles == cancel = "pending" /\ taskId \in TaskId ~> cancel = "completed"

\* Deaths, retries and questions come to an end: the child ends, unless it was
\* cancelled, is overdue, or waits for a user who has given all his answers.
ChildEnds ==
  <>(\/ status \in Terminal \/ cancelRequested \/ overdue
     \/ status \in {"waiting_input", "waiting_approval"} /\ question.id = MaxAnswers)

=============================================================================
