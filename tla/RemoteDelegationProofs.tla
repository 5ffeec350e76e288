------------------------ MODULE RemoteDelegationProofs ------------------------
(***************************************************************************)
(* The safety of a remote delegation for any number of executions,         *)
(* cancellations, tasks, retries, losses, failures and artifacts.          *)
(***************************************************************************)
EXTENDS RemoteDelegation, ArtifactsProofs

-----------------------------------------------------------------------------
(* The invariant *)

\* Only a running child has a lease.
LeaseInv ==
  /\ holder # "none" <=> status = "running"
  /\ leaseLive => status = "running"

\* What an execution knows: the one submission id; of the task it asked for, the
\* answer it heard, final states being final; that a direct answer was given, and
\* has no artifact; and while it holds the lease, what is stored.
ExecInv(e) ==
  LET x == exec[e]
  IN /\ x.pc \in {"idle", "prepare", "call"} => x.got = NoTask /\ x.state = "none"
     /\ x.pc \notin {"idle", "prepare"} => x.sub = 1
     /\ x.pc = "consume" => x.answer \in heard
     /\ x.pc \in {"consume", "record"} =>
          x.got # NoTask /\ (x.answer = 0 /\ x.task \in TaskId => x.got = x.task)
     /\ x.state \in Final => x.got \in TaskId /\ task[x.got] = x.state
     /\ x.pc \notin {"ingest", "result"} => x.file = "none"
     /\ x.state = "message" =>
          x.answer \in replied /\ x.file = "none" /\ (x.answer = 0 => x.got = Message)
     /\ x.pc \notin {"idle", "prepare"} /\ holder = e /\ x.answer # 0 => x.answer = question.id
     /\ x.state = "message" /\ holder = e => x.answer = question.id
     /\ x.pc \in {"call", "consume", "record"} /\ holder = e => taskId = x.task
     /\ x.pc = "ingest" => x.state = "completed"
     /\ x.pc = "ingest" /\ holder = e => taskId = x.got
     /\ x.pc = "result" /\ x.state # "transient" => x.got # NoTask
     /\ x.pc = "result" /\ x.abort = "none" =>
          /\ holder = e /\ x.got # NoTask => taskId = x.got
          /\ x.state = "completed" /\ Files => x.file # "none" /\ row[x.file]

\* Nothing has been asked before there is a task id to ask under.
QuestionInv ==
  /\ taskId = NoTask => question.id = 0
  /\ status \in {"waiting_input", "waiting_approval"} => taskId # NoTask

\* A cancelled run with an intent keeps its task; a canceller works on that task
\* and knows its final state only if it has one.
CancelInv ==
  /\ cancel # "none" =>
       cancelRequested /\ taskId # NoTask /\ status \in {"running", "waiting_external"} \cup Terminal
  /\ \A c \in Canceller : canceller[c].pc # "idle" => cancel # "none" /\ canceller[c].task = taskId
  /\ \A c \in Canceller : canceller[c].pc = "record" /\ canceller[c].said = "final" =>
       taskId \in TaskId /\ task[taskId] \in Final

\* A success without the content of its artifact, which ArtifactInv supplies.
ResultInv ==
  status = "succeeded" =>
    \/ /\ taskId \in TaskId /\ task[taskId] = "completed"
       /\ Files => result # "none" /\ row[result]
    \/ /\ question.id \in replied /\ result = "none"
       /\ question.id = 0 => taskId = Message

RemoteInv ==
  /\ RemoteTypeOK /\ LeaseInv /\ CancelInv /\ QuestionInv /\ ResultInv /\ CancelConfirmed
  /\ AnswerDelivered
  /\ submission \in {0, 1} /\ sent \subseteq {1}
  /\ \A e \in Exec : ExecInv(e)

Inv == RemoteInv /\ ArtifactInv

\* The ids that are not the agent's.
LEMMA Ids ==
  /\ NoTask \notin TaskId /\ Message \notin TaskId /\ MadeUp \notin TaskId
  /\ NoTask # Message /\ NoTask # MadeUp /\ Message # MadeUp
  /\ StoredId = TaskId \cup {NoTask, Message, MadeUp}
  BY RemoteAssumption DEF NoTask, TaskId, Message, MadeUp, StoredId

\* What the agent may do with a task.
LEMMA MovesType == Moves \subseteq TaskState
  BY RemoteAssumption DEF Moves, TaskState, Final

-----------------------------------------------------------------------------
(* One step *)

\* An execution that does not move keeps its part of the invariant: final states
\* and rows stay, and nobody but the holder of the lease stores a task id.
LEMMA OthersKeep ==
  ASSUME RemoteTypeOK, NEW d \in Exec, ExecInv(d), exec'[d] = exec[d], heard \subseteq heard',
         replied \subseteq replied',
         \A t \in TaskId : task[t] \in Final => task'[t] = task[t],
         \A k \in Key : row[k] => row'[k],
         holder' = d => holder = d /\ taskId' = taskId /\ question'.id = question.id
  PROVE  ExecInv(d)'
  BY RemoteAssumption, Ids DEF RemoteTypeOK, Call, ExecInv

\* The moves of an execution keep its type.
LEMMA CallType ==
  ASSUME NEW x \in Call
  PROVE  /\ NoCall \in Call
         /\ \A l \in Place : [x EXCEPT !.pc = l] \in Call
         /\ \A a \in {"none", "lease_lost", "cancelled", "timeout"} : [x EXCEPT !.abort = a] \in Call
         /\ \A t \in StoredId, l \in Place,
               v \in TaskState \cup {"none", "message", "transient", "unknown", "unverified"} :
              /\ [x EXCEPT !.state = v, !.pc = l] \in Call
              /\ [x EXCEPT !.got = t, !.state = v, !.pc = l] \in Call
         /\ \A n \in 0..MaxAnswers, t \in StoredId, k \in Nat :
              [x EXCEPT !.pc = "call", !.sub = k, !.task = t, !.answer = n] \in Call
         /\ \A k \in Key : [x EXCEPT !.file = k] \in Call
<1>1. NoCall \in Call
  <2>1. 0 \in 0..MaxAnswers /\ NoTask \in StoredId BY RemoteAssumption, Ids
  <2> QED BY <2>1 DEF Call, NoCall, Place
<1>2. "call" \in Place BY DEF Place
<1> QED BY ZenonT(30), <1>1, <1>2 DEF Call

\* Steps that change nothing of the type but the executions.
LEMMA ExecType ==
  ASSUME RemoteTypeOK, NEW e \in Exec, NEW x \in Call, exec' = [exec EXCEPT ![e] = x],
         UNCHANGED <<runVars, delegationVars, canceller, agentVars, faultVars>>
  PROVE  RemoteTypeOK'
  BY DEF RemoteTypeOK, runVars, delegationVars, agentVars, faultVars

\* An execution that leaves is not bound to anything.
LEMMA IdleKeeps == ASSUME NEW e \in Exec, exec'[e] = NoCall PROVE ExecInv(e)'
  BY Ids DEF ExecInv, NoCall, Final

\* Claiming a child, by a new execution.
LEMMA ClaimKeeps == ASSUME Inv, NEW e \in Exec, Claim(e) PROVE Inv'
<1> USE RemoteAssumption, Ids DEF Inv, RemoteInv, Claim, runVars, delegationVars, agentVars, faultVars
<1>1. ArtifactInv' BY ArtifactsKeep
<1>2. RemoteTypeOK'
  <2>1. [NoCall EXCEPT !.pc = "prepare"] \in Call BY CallType DEF RemoteTypeOK, Place
  <2> QED BY <2>1 DEF RemoteTypeOK
<1>3. LeaseInv' /\ CancelInv' /\ QuestionInv' /\ ResultInv' /\ CancelConfirmed' /\ AnswerDelivered'
  BY DEF LeaseInv, CancelInv, QuestionInv, ResultInv, CancelConfirmed, AnswerDelivered, Terminal, RemoteTypeOK
<1>4. ExecInv(e)' BY DEF ExecInv, NoCall, RemoteTypeOK
<1>5. ASSUME NEW d \in Exec, d # e PROVE ExecInv(d)'
  BY <1>5, OthersKeep DEF RemoteTypeOK, artifactVars
<1> QED BY <1>1, <1>2, <1>3, <1>4, <1>5

\* What a step that leaves the run and the stored delegation alone keeps.
LEMMA QuietKeeps ==
  ASSUME Inv, UNCHANGED <<runVars, submission, taskId, cancel, canceller>>,
         question'.id = question.id, replied \subseteq replied',
         \A t \in TaskId : task[t] \in Final => task'[t] = task[t],
         \A k \in Key : row[k] => row'[k]
  PROVE  LeaseInv' /\ CancelInv' /\ QuestionInv' /\ ResultInv' /\ CancelConfirmed'
  BY DEF Inv, RemoteInv, RemoteTypeOK, runVars, LeaseInv, CancelInv, QuestionInv, ResultInv, CancelConfirmed, Final

\* A renewed or lost lease, seen by the poll timer.
LEMMA HeartbeatKeeps == ASSUME Inv, NEW e \in Exec, Heartbeat(e) PROVE Inv'
<1> USE RemoteAssumption, Ids DEF Inv, RemoteInv, runVars, delegationVars, agentVars, faultVars
<1>1. PICK a \in {"lease_lost", "cancelled", "timeout"} : exec' = [exec EXCEPT ![e].abort = a]
  <2> DEFINE found == CASE ~Holds(e) -> "lease_lost" [] cancelRequested -> "cancelled"
                        [] overdue -> "timeout" [] OTHER -> "none"
  <2>1. found \in {"lease_lost", "cancelled", "timeout", "none"} OBVIOUS
  <2>2. exec' = [exec EXCEPT ![e].abort = found] /\ found # "none" BY DEF Heartbeat
  <2> QED BY <2>1, <2>2
<1>2. UNCHANGED <<runVars, delegationVars, canceller, agentVars, faultVars, artifactVars>>
  BY DEF Heartbeat
<1>3. ArtifactInv' BY <1>2, ArtifactsKeep
<1>4. RemoteTypeOK'
  <2>1. [exec[e] EXCEPT !.abort = a] \in Call BY CallType DEF RemoteTypeOK
  <2> QED BY <1>1, <1>2, <2>1, ExecType DEF RemoteTypeOK
<1>5. LeaseInv' /\ CancelInv' /\ QuestionInv' /\ ResultInv' /\ CancelConfirmed' /\ AnswerDelivered'
  BY <1>2, QuietKeeps DEF artifactVars, AnswerDelivered
<1>6. ExecInv(e)' BY <1>1, <1>2 DEF ExecInv, RemoteTypeOK, artifactVars
<1>7. ASSUME NEW d \in Exec, d # e PROVE ExecInv(d)'
  BY <1>1, <1>2, <1>7, OthersKeep DEF RemoteTypeOK, artifactVars
<1> QED BY <1>2, <1>3, <1>4, <1>5, <1>6, <1>7

\* The end of a lease.
LEMMA LeaseExpiresKeeps == ASSUME Inv, LeaseExpires PROVE Inv'
<1> USE RemoteAssumption, Ids DEF Inv, RemoteInv, LeaseExpires, delegationVars, agentVars
<1>1. ArtifactInv' BY ArtifactsKeep
<1>2. RemoteTypeOK'
  <2>1. losses' \in 0..MaxLosses BY DEF RemoteTypeOK
  <2> QED BY <2>1 DEF RemoteTypeOK
<1>3. LeaseInv' /\ CancelInv' /\ QuestionInv' /\ ResultInv' /\ CancelConfirmed' /\ AnswerDelivered'
  BY DEF LeaseInv, CancelInv, QuestionInv, ResultInv, CancelConfirmed, AnswerDelivered, RemoteTypeOK, artifactVars
<1>4. ASSUME NEW d \in Exec PROVE ExecInv(d)'
  BY OthersKeep DEF RemoteTypeOK, artifactVars
<1> QED BY <1>1, <1>2, <1>3, <1>4

\* The death of an execution, in or out of a create().
LEMMA CrashKeeps == ASSUME Inv, NEW e \in Exec, Crash(e) PROVE Inv'
<1> USE RemoteAssumption, Ids DEF Inv, RemoteInv, runVars, delegationVars, agentVars
<1>1. /\ exec' = [exec EXCEPT ![e] = NoCall] /\ losses' = losses + 1 /\ losses < MaxLosses
      /\ UNCHANGED <<runVars, delegationVars, canceller, agentVars, failures>>
  BY DEF Crash, Leave
<1>2. ArtifactInv' /\ UNCHANGED row
  <2>1. CASE exec[e].file # "none" /\ writer[exec[e].file] \in Writing \cup {"undo", "undone"}
    <3>1. exec[e].file \in Key /\ WriterDies(exec[e].file) BY <2>1 DEF Crash, RemoteTypeOK, Call
    <3> QED BY <3>1, CreateInv DEF WriterDies
  <2>2. CASE UNCHANGED artifactVars BY <2>2, ArtifactsKeep DEF artifactVars
  <2> QED BY <2>1, <2>2 DEF Crash
<1>3. RemoteTypeOK'
  <2>1. NoCall \in Call BY CallType DEF RemoteTypeOK
  <2> QED BY <1>1, <2>1 DEF RemoteTypeOK
<1>4. LeaseInv' /\ CancelInv' /\ QuestionInv' /\ ResultInv' /\ CancelConfirmed' /\ AnswerDelivered'
  BY <1>1, <1>2, QuietKeeps DEF AnswerDelivered
<1>5. ExecInv(e)' BY <1>1, IdleKeeps DEF RemoteTypeOK
<1>6. ASSUME NEW d \in Exec, d # e PROVE ExecInv(d)'
  BY <1>1, <1>2, <1>6, OthersKeep DEF RemoteTypeOK
<1> QED BY <1>1, <1>2, <1>3, <1>4, <1>5, <1>6

\* Reading the answer that waits and creating the submission.
LEMMA PrepareKeeps == ASSUME Inv, NEW e \in Exec, Prepare(e) PROVE Inv'
<1> USE RemoteAssumption, Ids DEF Inv, RemoteInv, runVars, agentVars, faultVars
<1>1. /\ exec[e].pc = "prepare" /\ submission' \in {submission, 1}
      /\ UNCHANGED <<runVars, taskId, question, cancel, canceller, agentVars, faultVars, artifactVars>>
  BY DEF Prepare
<1>2. \/ exec' = [exec EXCEPT ![e] = NoCall]
      \/ /\ submission' = 1
         /\ \E n \in 0..MaxAnswers : n \in {0, question.id} /\ exec' = [exec EXCEPT ![e] = [@ EXCEPT
               !.pc = "call", !.sub = 1, !.task = taskId, !.answer = n]]
  <2>1. CASE MayWrite(e)
    <3>1. submission' = 1 BY <2>1 DEF Prepare
    <3>2. (IF question.consumed THEN 0 ELSE question.id) \in (0..MaxAnswers) \cap {0, question.id}
      BY DEF RemoteTypeOK
    <3> QED BY <2>1, <3>1, <3>2 DEF Prepare
  <2>2. CASE ~MayWrite(e) BY <2>2 DEF Prepare, Leave
  <2> QED BY <2>1, <2>2
<1>3. ArtifactInv' BY <1>1, ArtifactsKeep
<1>4. RemoteTypeOK'
  <2>1. \E x \in Call : exec' = [exec EXCEPT ![e] = x] BY <1>2, CallType DEF RemoteTypeOK
  <2> QED BY <1>1, <2>1 DEF RemoteTypeOK
<1>5. LeaseInv' /\ CancelInv' /\ QuestionInv' /\ ResultInv' /\ CancelConfirmed' /\ AnswerDelivered'
  BY <1>1 DEF artifactVars, LeaseInv, CancelInv, QuestionInv, ResultInv, CancelConfirmed, AnswerDelivered
<1>6. ExecInv(e)'
  <2>1. CASE exec' = [exec EXCEPT ![e] = NoCall] BY <2>1, IdleKeeps DEF RemoteTypeOK
  <2>2. ASSUME NEW n \in 0..MaxAnswers, n \in {0, question.id}, exec' = [exec EXCEPT ![e] = [@ EXCEPT
               !.pc = "call", !.sub = 1, !.task = taskId, !.answer = n]]
        PROVE ExecInv(e)'
    <3> DEFINE x == [exec[e] EXCEPT !.pc = "call", !.sub = 1, !.task = taskId, !.answer = n]
    <3>1. exec[e] \in Call /\ exec'[e] = x BY <2>2 DEF RemoteTypeOK
    <3>2. /\ x.pc = "call" /\ x.sub = 1 /\ x.task = taskId /\ x.answer = n
          /\ x.got = exec[e].got /\ x.state = exec[e].state /\ x.file = exec[e].file
      BY <3>1 DEF Call
    <3> HIDE DEF x
    <3> QED BY <1>1, <2>2, <3>1, <3>2 DEF ExecInv, Final
  <2> QED BY <1>2, <2>1, <2>2
<1>7. ASSUME NEW d \in Exec, d # e PROVE ExecInv(d)'
  BY <1>1, <1>2, <1>7, OthersKeep DEF RemoteTypeOK, artifactVars
<1> QED BY <1>1, <1>3, <1>4, <1>5, <1>6, <1>7

\* An answer of the agent, received or lost.
LEMMA AnsweredKeeps ==
  ASSUME RemoteTypeOK, QuestionInv, NEW e \in Exec, ExecInv(e), exec[e].pc = "call",
         NEW t \in StoredId, NEW s \in TaskState \cup {"none", "message"}, Answered(e, t, s),
         t # NoTask, s # "message" => t \in TaskId /\ task'[t] = s,
         s = "message" => /\ exec[e].answer \in replied'
                          /\ exec[e].answer = 0 => exec[e].task = NoTask /\ t = Message,
         exec[e].answer = 0 => exec[e].task \in {NoTask, t},
         exec[e].answer # 0 => exec[e].answer \in heard',
         UNCHANGED <<holder, taskId, question>>
  PROVE  /\ \E x \in Call : exec' = [exec EXCEPT ![e] = x]
         /\ failures' \in 0..MaxFailures
         /\ ExecInv(e)'
<1>1. exec[e] \in Call /\ exec \in [Exec -> Call] BY DEF RemoteTypeOK
<1>2. failures' \in 0..MaxFailures
  BY RemoteAssumption DEF RemoteTypeOK, Answered, Fault
<1>3. \/ Throw(e)
      \/ \E v \in {s, "unknown"}, l \in {"record", "consume"} :
           /\ exec' = [exec EXCEPT ![e].got = t, ![e].state = v, ![e].pc = l]
           /\ v # s => s # "message"
           /\ l = "consume" => exec[e].answer # 0
  BY DEF Answered
<1>4. CASE Throw(e)
  <2>1. exec' = [exec EXCEPT ![e] = [exec[e] EXCEPT !.pc = "result", !.state = "transient"]]
    BY <1>4 DEF Throw
  <2>2. [exec[e] EXCEPT !.pc = "result", !.state = "transient"] \in Call BY <1>1 DEF Call, Place
  <2>3. ExecInv(e)' BY <1>1, <2>1, <2>2, Ids DEF ExecInv, Final, Call
  <2> QED BY <1>2, <2>1, <2>2, <2>3
<1>5. ASSUME NEW v \in {s, "unknown"}, NEW l \in {"record", "consume"}, v # s => s # "message",
             exec' = [exec EXCEPT ![e].got = t, ![e].state = v, ![e].pc = l],
             l = "consume" => exec[e].answer # 0
      PROVE  ExecInv(e)' /\ \E x \in Call : exec' = [exec EXCEPT ![e] = x]
  <2>1. exec' = [exec EXCEPT ![e] = [exec[e] EXCEPT !.got = t, !.state = v, !.pc = l]]
    BY <1>5
  <2>2. [exec[e] EXCEPT !.got = t, !.state = v, !.pc = l] \in Call
    <3>2. l \in Place /\ v \in TaskState \cup {"none", "message", "transient", "unknown", "unverified"}
      BY DEF Place
    <3> QED BY <1>1, <3>2, CallType
  <2>3. v # "transient" /\ (v = "message" => s = "message") /\ (v \in Final => v = s)
    BY RemoteAssumption DEF TaskState, Final
  <2> DEFINE x == [exec[e] EXCEPT !.got = t, !.state = v, !.pc = l]
  <2>4. /\ exec'[e] = x /\ x.got = t /\ x.state = v /\ x.pc = l /\ x.sub = exec[e].sub
        /\ x.answer = exec[e].answer /\ x.task = exec[e].task /\ x.file = exec[e].file
    BY <1>1, <2>1 DEF Call
  <2> HIDE DEF x
  <2>5. s = "message" /\ holder = e => exec[e].answer = question.id
    BY <1>1 DEF ExecInv, QuestionInv
  <2>6. ExecInv(e)' BY <1>1, <1>5, <2>3, <2>4, <2>5, Ids, RemoteAssumption DEF ExecInv, Final, TaskState
  <2> QED BY <2>1, <2>2, <2>6
<1> QED BY <1>2, <1>3, <1>4, <1>5

\* A call changes the agent, the execution and the bounded failures, no more.
LEMMA CallKeeps ==
  ASSUME Inv, NEW e \in Exec, NEW x \in Call, exec' = [exec EXCEPT ![e] = x], ExecInv(e)',
         failures' \in 0..MaxFailures, task' \in [TaskId -> TaskState \cup {"none"}],
         \A t \in TaskId : task[t] \in Final => task'[t] = task[t],
         heard \subseteq heard', heard' \subseteq 0..MaxAnswers, sent' \subseteq {1},
         replied \subseteq replied', replied' \subseteq 0..MaxAnswers,
         UNCHANGED <<runVars, delegationVars, canceller, losses, artifactVars>>
  PROVE  Inv'
<1> USE DEF Inv, RemoteInv, runVars, delegationVars
<1>1. ArtifactInv' BY ArtifactsKeep
<1>2. RemoteTypeOK' BY DEF RemoteTypeOK
<1>3. LeaseInv' /\ CancelInv' /\ QuestionInv' /\ ResultInv' /\ CancelConfirmed' /\ AnswerDelivered'
  BY QuietKeeps DEF artifactVars, AnswerDelivered
<1>4. ASSUME NEW d \in Exec, d # e PROVE ExecInv(d)'
  BY <1>4, OthersKeep DEF RemoteTypeOK, artifactVars
<1> QED BY <1>1, <1>2, <1>3, <1>4

\* The agent answers a message with a task, one that it moves on or not, or directly.
LEMMA MessageKeeps ==
  ASSUME Inv, NEW e \in Exec, exec[e].pc = "call", exec[e].answer = 0 => exec[e].task = NoTask,
         NEW moved \in SUBSET TaskId, \A t \in moved : task[t] \notin Final,
         TaskAnswer(e, moved) \/ DirectAnswer(e),
         heard \subseteq heard', heard' \subseteq 0..MaxAnswers, sent' \subseteq {1},
         exec[e].answer # 0 => exec[e].answer \in heard',
         UNCHANGED <<runVars, delegationVars, canceller, losses, artifactVars>>
  PROVE  Inv'
<1>1. /\ RemoteTypeOK /\ QuestionInv /\ ExecInv(e) /\ exec[e] \in Call
      /\ replied \subseteq 0..MaxAnswers /\ task \in [TaskId -> TaskState \cup {"none"}]
  BY DEF Inv, RemoteInv, RemoteTypeOK
<1>2. UNCHANGED <<holder, taskId, question>> BY DEF runVars, delegationVars
<1>3. ASSUME NEW t \in TaskId, NEW s \in Moves, t \in moved, UNCHANGED replied,
             task' = [task EXCEPT ![t] = s], Answered(e, t, s)
      PROVE  Inv'
  <2>1. s \in TaskState /\ s # "message" BY MovesType, RemoteAssumption DEF TaskState, Final
  <2>2. task' \in [TaskId -> TaskState \cup {"none"}] /\ task'[t] = s
        /\ \A u \in TaskId : task[u] \in Final => task'[u] = task[u]
    BY <1>1, <1>3, <2>1
  <2>3. /\ \E x \in Call : exec' = [exec EXCEPT ![e] = x]
        /\ failures' \in 0..MaxFailures /\ ExecInv(e)'
    BY <1>1, <1>2, <1>3, <2>1, <2>2, Ids, AnsweredKeeps
  <2> QED BY <1>1, <1>3, <2>2, <2>3, CallKeeps
<1>4. ASSUME NEW t \in TaskId, UNCHANGED <<task, replied>>, Answered(e, t, task[t]) PROVE Inv'
  <2>1. task[t] \in TaskState \cup {"none"} /\ task[t] # "message"
    BY <1>1, RemoteAssumption DEF TaskState, Final
  <2>2. /\ \E x \in Call : exec' = [exec EXCEPT ![e] = x]
        /\ failures' \in 0..MaxFailures /\ ExecInv(e)'
    BY <1>1, <1>2, <1>4, <2>1, Ids, AnsweredKeeps
  <2> QED BY <1>1, <1>4, <2>2, CallKeeps
<1>5. CASE DirectAnswer(e)
  <2> DEFINE t == IF exec[e].task = NoTask THEN Message ELSE exec[e].task
  <2>1. /\ replied' = replied \cup {exec[e].answer} /\ UNCHANGED task
        /\ Answered(e, t, "message")
    BY <1>5 DEF DirectAnswer
  <2>2. /\ t \in StoredId /\ t # NoTask /\ exec[e].answer \in 0..MaxAnswers
        /\ exec[e].answer = 0 => t = Message
    BY <1>1, Ids DEF Call
  <2>3. /\ \E x \in Call : exec' = [exec EXCEPT ![e] = x]
        /\ failures' \in 0..MaxFailures /\ ExecInv(e)'
    BY <1>1, <1>2, <2>1, <2>2, AnsweredKeeps
  <2>4. replied \subseteq replied' /\ replied' \subseteq 0..MaxAnswers BY <1>1, <2>1, <2>2
  <2> QED BY <1>1, <2>1, <2>3, <2>4, CallKeeps
<1> QED BY <1>3, <1>4, <1>5 DEF TaskAnswer

\* sendTask
LEMMA SendKeeps == ASSUME Inv, NEW e \in Exec, Send(e) PROVE Inv'
<1>1. /\ exec[e].pc = "call" /\ exec[e].answer = 0 /\ exec[e].task = NoTask
      /\ sent' = sent \cup {exec[e].sub} /\ heard' = heard
      /\ UNCHANGED <<runVars, delegationVars, canceller, losses, artifactVars>>
  BY DEF Send
<1>2. sent' \subseteq {1} /\ heard' \subseteq 0..MaxAnswers
  BY <1>1 DEF Inv, RemoteInv, ExecInv, RemoteTypeOK
<1>3. \A t \in {u \in TaskId : Fresh(u)} : task[t] \notin Final BY DEF Fresh, Final
<1> QED BY <1>1, <1>2, <1>3, MessageKeeps DEF Send

\* getTask
LEMMA GetKeeps == ASSUME Inv, NEW e \in Exec, Get(e) PROVE Inv'
<1>1. /\ exec[e].pc = "call" /\ exec[e].answer = 0 /\ exec[e].task \in TaskId
      /\ Answered(e, exec[e].task, task[exec[e].task])
      /\ UNCHANGED <<runVars, delegationVars, canceller, agentVars, losses, artifactVars>>
  BY DEF Get
<1>2. RemoteTypeOK /\ QuestionInv /\ ExecInv(e)
      /\ sent \subseteq {1} /\ heard \subseteq 0..MaxAnswers /\ replied \subseteq 0..MaxAnswers
      /\ task \in [TaskId -> TaskState \cup {"none"}]
  BY DEF Inv, RemoteInv, RemoteTypeOK
<1>3. UNCHANGED <<holder, taskId, question, task, sent, heard, replied>>
  BY <1>1 DEF runVars, delegationVars, agentVars
<1>4. /\ task[exec[e].task] \in TaskState \cup {"none"} /\ task[exec[e].task] # "message"
      /\ exec[e].task \in StoredId /\ exec[e].task # NoTask
  BY <1>1, <1>2, Ids, RemoteAssumption DEF TaskState, Final
<1>5. /\ \E x \in Call : exec' = [exec EXCEPT ![e] = x]
      /\ failures' \in 0..MaxFailures /\ ExecInv(e)'
  BY <1>1, <1>2, <1>3, <1>4, AnsweredKeeps
<1> QED BY <1>1, <1>2, <1>3, <1>5, CallKeeps

\* continueTask
LEMMA ContinueKeeps == ASSUME Inv, NEW e \in Exec, Continue(e) PROVE Inv'
<1>1. /\ exec[e].pc = "call" /\ exec[e].answer # 0
      /\ heard' = heard \cup {exec[e].answer} /\ sent' = sent
      /\ UNCHANGED <<runVars, delegationVars, canceller, losses, artifactVars>>
  BY DEF Continue
<1>2. sent' \subseteq {1} /\ heard' \subseteq 0..MaxAnswers
  <2>1. exec[e] \in Call BY DEF Inv, RemoteInv, RemoteTypeOK
  <2>2. exec[e].answer \in 0..MaxAnswers BY <2>1 DEF Call
  <2> QED BY <1>1, <2>2 DEF Inv, RemoteInv, RemoteTypeOK
<1>3. \A t \in {u \in TaskId : Fresh(u) \/ task[u] \in Asks} : task[t] \notin Final
  BY RemoteAssumption DEF Fresh, Final
<1> QED BY <1>1, <1>2, <1>3, MessageKeeps DEF Continue

\* A call that throws.
LEMMA CallFailsKeeps == ASSUME Inv, NEW e \in Exec, CallFails(e) PROVE Inv'
<1>1. /\ exec[e].pc = "call"
      /\ exec' = [exec EXCEPT ![e] = [exec[e] EXCEPT !.state = "transient", !.pc = "result"]]
      /\ UNCHANGED <<runVars, delegationVars, canceller, agentVars, losses, artifactVars>>
  BY DEF CallFails, Throw
<1>2. failures' \in 0..MaxFailures
  BY RemoteAssumption DEF CallFails, Fault, Inv, RemoteInv, RemoteTypeOK
<1>3. RemoteTypeOK /\ ExecInv(e) /\ exec[e] \in Call
      /\ UNCHANGED <<holder, taskId, question, task, sent, heard, replied>>
  BY <1>1 DEF Inv, RemoteInv, RemoteTypeOK, runVars, delegationVars, agentVars
<1>4. [exec[e] EXCEPT !.state = "transient", !.pc = "result"] \in Call BY <1>3, CallType, Ids DEF Place
<1>5. ExecInv(e)' BY <1>1, <1>3, <1>4, Ids DEF ExecInv, Final, Call, RemoteTypeOK
<1> QED BY <1>1, <1>2, <1>3, <1>4, <1>5, CallKeeps DEF Inv, RemoteInv, RemoteTypeOK

\* An execution that gives up leaves everything else as it is.
LEMMA ForgetKeeps ==
  ASSUME Inv, NEW e \in Exec, exec' = [exec EXCEPT ![e] = NoCall],
         UNCHANGED <<runVars, delegationVars, canceller, agentVars, faultVars, artifactVars>>
  PROVE  Inv'
<1>1. NoCall \in Call BY CallType DEF Inv, RemoteInv, RemoteTypeOK
<1>2. ExecInv(e)' BY IdleKeeps DEF Inv, RemoteInv, RemoteTypeOK
<1> QED BY <1>1, <1>2, CallKeeps DEF Inv, RemoteInv, RemoteTypeOK, agentVars, faultVars

\* consumeContinuationMessage: what is consumed has been heard.
LEMMA ConsumeKeeps == ASSUME Inv, NEW e \in Exec, Consume(e) PROVE Inv'
<1> USE DEF Inv, RemoteInv
<1>1. CASE Holds(e) /\ question = [id |-> exec[e].answer, consumed |-> FALSE]
  <2>1. /\ exec[e].pc = "consume" /\ question' = [question EXCEPT !.consumed = TRUE]
        /\ exec' = [exec EXCEPT ![e] = [exec[e] EXCEPT !.pc = "record"]]
        /\ UNCHANGED <<runVars, submission, taskId, cancel, canceller, agentVars, faultVars, artifactVars>>
    BY <1>1 DEF Consume, Go
  <2>2. exec[e] \in Call /\ [exec[e] EXCEPT !.pc = "record"] \in Call
    BY CallType DEF RemoteTypeOK, Place
  <2>3. ArtifactInv' BY <2>1, ArtifactsKeep
  <2>4. RemoteTypeOK' BY ZenonT(30), <2>1, <2>2 DEF RemoteTypeOK, runVars, agentVars, faultVars
  <2>5. LeaseInv' /\ CancelInv' /\ QuestionInv' /\ ResultInv' /\ CancelConfirmed'
    BY <2>1, QuietKeeps DEF artifactVars, agentVars
  <2>6. AnswerDelivered' BY <1>1, <2>1 DEF AnswerDelivered, ExecInv, agentVars
  <2>7. ExecInv(e)' BY <2>1, <2>2, Ids DEF ExecInv, Call, RemoteTypeOK, runVars, agentVars, artifactVars
  <2>8. ASSUME NEW d \in Exec, d # e PROVE ExecInv(d)'
    BY <2>1, <2>8, OthersKeep DEF RemoteTypeOK, runVars, agentVars, artifactVars
  <2>9. submission' \in {0, 1} /\ sent' \subseteq {1} BY <2>1 DEF agentVars
  <2> QED BY <2>3, <2>4, <2>5, <2>6, <2>7, <2>8, <2>9
<1>2. CASE ~(Holds(e) /\ question = [id |-> exec[e].answer, consumed |-> FALSE])
  BY <1>2, ForgetKeeps DEF Consume, Leave, delegationVars
<1> QED BY <1>1, <1>2

\* An answer that came after the abort.
LEMMA AbortedKeeps == ASSUME Inv, NEW e \in Exec, Aborted(e) PROVE Inv'
<1> USE DEF Inv, RemoteInv
<1>1. /\ exec[e].pc = "record" /\ exec[e].abort # "none"
      /\ UNCHANGED <<runVars, delegationVars, canceller, sent, heard, replied, faultVars, artifactVars>>
  BY DEF Aborted
<1>2. exec[e] \in Call /\ NoCall \in Call /\ [exec[e] EXCEPT !.pc = "result"] \in Call
  BY CallType DEF RemoteTypeOK, Place
<1>3. /\ task' \in [TaskId -> TaskState \cup {"none"}]
      /\ \A t \in TaskId : task[t] \in Final => task'[t] = task[t]
  BY DEF Aborted, RemoteTypeOK, TaskState, Final
<1>4. CASE exec' = [exec EXCEPT ![e] = NoCall]
  <2>1. ExecInv(e)' BY <1>4, IdleKeeps DEF RemoteTypeOK
  <2> QED BY <1>1, <1>2, <1>3, <1>4, <2>1, CallKeeps DEF RemoteTypeOK, faultVars
<1>5. CASE exec' = [exec EXCEPT ![e] = [exec[e] EXCEPT !.pc = "result"]]
  <2>1. ExecInv(e)'
    BY <1>1, <1>2, <1>3, <1>5, Ids DEF ExecInv, RemoteTypeOK, Call, runVars, delegationVars, artifactVars
  <2> QED BY <1>1, <1>2, <1>3, <1>5, <2>1, CallKeeps DEF RemoteTypeOK, faultVars
<1> QED BY <1>4, <1>5 DEF Aborted, Go, Leave

\* deferRemoteTask of a task at work.
LEMMA DeferRemoteTaskKeeps == ASSUME Inv, NEW e \in Exec, DeferRemoteTask(e) PROVE Inv'
<1> USE DEF Inv, RemoteInv
<1>1. CASE MayWrite(e)
  <2>1. /\ exec[e].pc = "record" /\ exec' = [exec EXCEPT ![e] = NoCall]
        /\ status' = "waiting_external" /\ retries' = 0 /\ holder' = "none" /\ leaseLive' = FALSE
        /\ taskId' = exec[e].got
        /\ UNCHANGED <<cancelRequested, overdue, result, cause, submission, question, cancel,
                       canceller, agentVars, faultVars, artifactVars>>
    BY <1>1 DEF DeferRemoteTask, Leave, Arm, Unlock
  <2>2. exec[e] \in Call /\ NoCall \in Call BY CallType DEF RemoteTypeOK
  <2>3. /\ status = "running" /\ holder = e /\ ~cancelRequested /\ cancel = "none"
        /\ \A c \in Canceller : canceller[c].pc = "idle"
        /\ exec[e].got # NoTask
    BY <1>1, <2>1 DEF MayWrite, Holds, CancelInv, ExecInv
  <2>4. ArtifactInv' BY <2>1, ArtifactsKeep
  <2>5. RemoteTypeOK'
    <3>1. retries' \in 0..MaxRetries BY <2>1, RemoteAssumption
    <3>2. taskId' \in StoredId BY <2>1, <2>2 DEF Call
    <3> QED BY <2>1, <2>2, <3>1, <3>2 DEF RemoteTypeOK, agentVars, faultVars, Waiting
  <2>6. LeaseInv' /\ CancelInv' /\ QuestionInv' /\ ResultInv' /\ CancelConfirmed' /\ AnswerDelivered'
    BY <2>1, <2>3, RemoteAssumption DEF LeaseInv, CancelInv, QuestionInv, ResultInv, CancelConfirmed, AnswerDelivered,
       RemoteTypeOK, agentVars
  <2>7. ExecInv(e)' BY <2>1, IdleKeeps DEF RemoteTypeOK
  <2>8. ASSUME NEW d \in Exec, d # e PROVE ExecInv(d)'
    BY <2>1, <2>8, OthersKeep, RemoteAssumption DEF RemoteTypeOK, agentVars, artifactVars
  <2>9. submission' \in {0, 1} /\ sent' \subseteq {1} BY <2>1 DEF agentVars
  <2> QED BY <2>4, <2>5, <2>6, <2>7, <2>8, <2>9
<1>2. CASE ~MayWrite(e)
  BY <1>2, ForgetKeeps DEF DeferRemoteTask, Leave, delegationVars, runVars
<1> QED BY <1>1, <1>2

\* recordRemoteTask
LEMMA RecordRemoteTaskKeeps == ASSUME Inv, NEW e \in Exec, RecordRemoteTask(e) PROVE Inv'
<1> USE DEF Inv, RemoteInv
<1>1. CASE MayWrite(e)
  <2> DEFINE l == IF exec[e].state = "completed" /\ Files THEN "ingest" ELSE "result"
  <2>1. /\ exec[e].pc = "record" /\ exec[e].abort = "none" /\ taskId' = exec[e].got
        /\ exec' = [exec EXCEPT ![e] = [exec[e] EXCEPT !.pc = l]]
        /\ UNCHANGED <<runVars, submission, question, cancel, canceller, agentVars, faultVars,
                       artifactVars>>
    BY <1>1 DEF RecordRemoteTask, Go
  <2>2. exec[e] \in Call /\ [exec[e] EXCEPT !.pc = l] \in Call
    <3>1. l \in Place BY DEF Place
    <3> QED BY <3>1, CallType DEF RemoteTypeOK
  <2>3. /\ status = "running" /\ holder = e /\ ~cancelRequested /\ cancel = "none"
        /\ \A c \in Canceller : canceller[c].pc = "idle"
        /\ exec[e].got # NoTask
    BY <1>1, <2>1 DEF MayWrite, Holds, CancelInv, ExecInv
  <2>4. ArtifactInv' BY <2>1, ArtifactsKeep
  <2>5. RemoteTypeOK'
    <3>1. taskId' \in StoredId BY <2>1, <2>2 DEF Call
    <3> QED BY <2>1, <2>2, <3>1 DEF RemoteTypeOK, runVars, agentVars, faultVars
  <2>6. LeaseInv' /\ CancelInv' /\ QuestionInv' /\ ResultInv' /\ CancelConfirmed' /\ AnswerDelivered'
    BY <2>1, <2>3 DEF LeaseInv, CancelInv, QuestionInv, ResultInv, CancelConfirmed, AnswerDelivered,
       runVars, agentVars
  <2>7. ExecInv(e)'
    BY <2>1, <2>2, <2>3, Ids DEF ExecInv, RemoteTypeOK, Call, runVars, agentVars, artifactVars
  <2>8. ASSUME NEW d \in Exec, d # e PROVE ExecInv(d)'
    BY <2>1, <2>3, <2>8, OthersKeep DEF RemoteTypeOK, runVars, agentVars, artifactVars
  <2>9. submission' \in {0, 1} /\ sent' \subseteq {1} BY <2>1 DEF agentVars
  <2> QED BY <2>4, <2>5, <2>6, <2>7, <2>8, <2>9
<1>2. CASE ~MayWrite(e)
  BY <1>2, ForgetKeeps DEF RecordRemoteTask, Leave, delegationVars
<1> QED BY <1>1, <1>2

-----------------------------------------------------------------------------
(* The artifacts of a completed task *)

\* The steps of the artifacts never take a row away.
LEMMA RowsStay ==
  ASSUME ArtifactInv,
         \/ \E k \in Key : ScheduleUpload(k) \/ CreateStep(k) \/ WriterDies(k)
         \/ \E r \in Reaper : ReapStep(r) \/ ReaperDies(r)
  PROVE  \A k \in Key : row[k] => row'[k]
  BY DEF ArtifactInv, ArtifactTypeOK, ScheduleUpload, CreateStep, Upload, Register, RegisterFails,
     UndoUpload, UndoIntent, WriterDies, ReapStep, ClaimCleanup, DeleteBlob, CompleteCleanup,
     RetryCleanup, ReaperDies

\* A step of the artifacts alone keeps the rest.
LEMMA StorageKeeps ==
  ASSUME Inv, ArtifactInv', \A k \in Key : row[k] => row'[k], NEW e \in Exec, NEW x \in Call,
         exec' = [exec EXCEPT ![e] = x], ExecInv(e)', losses' \in 0..MaxLosses,
         UNCHANGED <<runVars, delegationVars, canceller, agentVars, failures>>
  PROVE  Inv'
<1> USE DEF Inv, RemoteInv, runVars, delegationVars, agentVars
<1>1. RemoteTypeOK' BY DEF RemoteTypeOK
<1>2. LeaseInv' /\ CancelInv' /\ QuestionInv' /\ ResultInv' /\ CancelConfirmed' /\ AnswerDelivered'
  BY QuietKeeps DEF AnswerDelivered
<1>3. ASSUME NEW d \in Exec, d # e PROVE ExecInv(d)'
  BY <1>3, OthersKeep DEF RemoteTypeOK
<1> QED BY <1>1, <1>2, <1>3

\* The same when no execution takes part in it.
LEMMA ReapKeeps ==
  ASSUME Inv, NEW r \in Reaper, Reap(r) \/ ReapCrash(r) PROVE Inv'
<1> USE DEF Inv, RemoteInv
<1>1. /\ ReapStep(r) \/ ReaperDies(r)
      /\ UNCHANGED <<runVars, delegationVars, exec, canceller, agentVars, failures>>
      /\ losses' \in 0..MaxLosses
  BY RemoteAssumption DEF Reap, ReapCrash, remoteVars, faultVars, RemoteTypeOK
<1>2. ArtifactInv' /\ \A k \in Key : row[k] => row'[k] BY <1>1, ReapInv, RowsStay
<1>3. RemoteTypeOK' BY <1>1 DEF RemoteTypeOK, runVars, delegationVars, agentVars
<1>4. LeaseInv' /\ CancelInv' /\ QuestionInv' /\ ResultInv' /\ CancelConfirmed' /\ AnswerDelivered'
  BY <1>1, <1>2, QuietKeeps DEF AnswerDelivered, delegationVars, agentVars
<1>5. ASSUME NEW d \in Exec PROVE ExecInv(d)'
  BY <1>1, <1>2, <1>5, OthersKeep DEF RemoteTypeOK, runVars, delegationVars, agentVars
<1>6. submission' \in {0, 1} /\ sent' \subseteq {1} BY <1>1 DEF delegationVars, agentVars
<1> QED BY <1>2, <1>3, <1>4, <1>5, <1>6

\* ingestRemoteArtifacts, from a new key to the row.
LEMMA IngestKeeps == ASSUME Inv, NEW e \in Exec, Ingest(e) \/ IngestStep(e) PROVE Inv'
<1> USE DEF Inv, RemoteInv
<1>1. exec[e] \in Call /\ \A k \in Key : [exec[e] EXCEPT !.file = k] \in Call
  BY CallType DEF RemoteTypeOK
<1>2. CASE Ingest(e)
  <2>1. PICK k \in Key : ScheduleUpload(k) /\ exec' = [exec EXCEPT ![e] = [exec[e] EXCEPT !.file = k]]
    BY <1>2 DEF Ingest
  <2>2. /\ exec[e].pc = "ingest"
        /\ UNCHANGED <<runVars, delegationVars, canceller, agentVars, faultVars>>
    BY <1>2 DEF Ingest
  <2>3. ArtifactInv' /\ \A j \in Key : row[j] => row'[j] BY <2>1, ScheduleInv, RowsStay
  <2>4. ExecInv(e)'
    BY <1>1, <2>1, <2>2, Ids DEF ExecInv, RemoteTypeOK, Call, runVars, delegationVars, agentVars
  <2> QED BY <1>1, <2>1, <2>2, <2>3, <2>4, StorageKeeps DEF RemoteTypeOK, faultVars
<1>3. CASE IngestStep(e)
  <2>1. /\ exec[e].file \in Key /\ CreateStep(exec[e].file) /\ UNCHANGED remoteVars
        /\ exec' = [exec EXCEPT ![e] = exec[e]] /\ UNCHANGED exec
    BY <1>1, <1>3 DEF IngestStep, Call, remoteVars, RemoteTypeOK
  <2>2. ArtifactInv' /\ \A j \in Key : row[j] => row'[j] BY <2>1, CreateInv, RowsStay
  <2>3. ExecInv(e)'
    BY <2>1, <2>2, OthersKeep DEF remoteVars, RemoteTypeOK, runVars, delegationVars, agentVars
  <2> QED BY <1>1, <2>1, <2>2, <2>3, StorageKeeps DEF RemoteTypeOK, faultVars, remoteVars
<1> QED BY <1>2, <1>3

\* verify: a completed state stays only with its row.
LEMMA VerifyKeeps == ASSUME Inv, NEW e \in Exec, Verify(e) PROVE Inv'
<1> USE DEF Inv, RemoteInv
<1>1. PICK s \in {exec[e].state, "unverified"} :
        /\ exec' = [exec EXCEPT ![e] = [exec[e] EXCEPT !.state = s, !.pc = "result"]]
        /\ s # "unverified" => writer[exec[e].file] = "created"
  BY DEF Verify
<1>2. /\ exec[e].pc = "ingest" /\ exec[e].file # "none"
      /\ UNCHANGED <<runVars, delegationVars, canceller, agentVars, faultVars, artifactVars>>
  BY DEF Verify
<1>3. /\ exec[e] \in Call /\ exec[e].file \in Key
      /\ s \in TaskState \cup {"none", "message", "transient", "unknown", "unverified"}
  BY <1>2 DEF RemoteTypeOK, Call
<1>4. [exec[e] EXCEPT !.state = s, !.pc = "result"] \in Call BY <1>3, CallType, Ids DEF Place
<1>5. s # "unverified" => s = "completed" /\ row[exec[e].file]
  BY <1>1, <1>2, <1>3 DEF ExecInv, ArtifactInv
<1>6. ExecInv(e)'
  BY <1>1, <1>2, <1>3, <1>4, <1>5, Ids
     DEF ExecInv, RemoteTypeOK, Call, Final, runVars, delegationVars, agentVars, artifactVars
<1>7. UNCHANGED <<task, sent, heard, replied, failures, losses>> BY <1>2 DEF agentVars, faultVars
<1> QED BY <1>1, <1>2, <1>4, <1>6, <1>7, CallKeeps DEF RemoteTypeOK

-----------------------------------------------------------------------------
(* The result *)

\* A result that is written while the lease is held keeps the rest, whether it
\* ends the run, parks it or asks for another poll.
LEMMA FinishKeeps ==
  ASSUME Inv, NEW e \in Exec, exec[e].pc = "result",
         NEW outcome \in Terminal, NEW why \in {"none", "agent", "artifact", "transient"},
         outcome = "succeeded" => exec[e].state \in {"completed", "message"} /\ exec[e].abort = "none",
         Finish(e, outcome, why)
  PROVE  Inv'
<1> USE DEF Inv, RemoteInv
<1>1. CASE Holds(e)
  <2>1. /\ status' \in Terminal /\ (status' = "succeeded" => outcome = "succeeded")
        /\ result' = IF status' = "succeeded" THEN exec[e].file ELSE result
        /\ cause' \in {cause, why} /\ holder' = "none" /\ leaseLive' = FALSE
        /\ exec' = [exec EXCEPT ![e] = NoCall]
        /\ UNCHANGED <<cancelRequested, overdue, retries, delegationVars, canceller, agentVars,
                       faultVars, artifactVars>>
    BY <1>1 DEF Finish, Leave, Unlock, Terminal
  <2>2. exec[e] \in Call /\ NoCall \in Call BY CallType DEF RemoteTypeOK
  <2>3. status = "running" /\ holder = e BY <1>1 DEF Holds
  <2>4. ArtifactInv' BY <2>1, ArtifactsKeep
  <2>5. RemoteTypeOK'
    <3>1. result' \in Key \cup {"none"} BY <2>1, <2>2 DEF Call, RemoteTypeOK
    <3> QED BY <2>1, <2>2, <3>1 DEF RemoteTypeOK, delegationVars, agentVars, faultVars
  <2>6. LeaseInv' /\ CancelInv' /\ QuestionInv' /\ CancelConfirmed' /\ AnswerDelivered'
    BY <2>1, <2>3, RemoteAssumption DEF LeaseInv, CancelInv, QuestionInv, CancelConfirmed, AnswerDelivered, Terminal,
       delegationVars, agentVars
  <2>7. ResultInv'
    BY <2>1, <2>2, <2>3 DEF ResultInv, ExecInv, Final, Call, delegationVars, agentVars, artifactVars
  <2>8. ExecInv(e)' BY <2>1, IdleKeeps DEF RemoteTypeOK
  <2>9. ASSUME NEW d \in Exec, d # e PROVE ExecInv(d)'
    BY <2>1, <2>9, OthersKeep, RemoteAssumption DEF RemoteTypeOK, delegationVars, agentVars, artifactVars
  <2>10. submission' \in {0, 1} /\ sent' \subseteq {1} BY <2>1 DEF delegationVars, agentVars
  <2> QED BY <2>4, <2>5, <2>6, <2>7, <2>8, <2>9, <2>10
<1>2. CASE ~Holds(e)
  BY <1>2, ForgetKeeps DEF Finish, Leave, runVars
<1> QED BY <1>1, <1>2

\* A question of the agent parks the run.
LEMMA WaitKeeps ==
  ASSUME Inv, NEW e \in Exec, exec[e].pc = "result", exec[e].abort = "none", exec[e].state \in Asks,
         Wait(e)
  PROVE  Inv'
<1> USE DEF Inv, RemoteInv
<1>1. CASE MayWrite(e)
  <2>1. /\ status' \in {"waiting_input", "waiting_approval"} /\ retries' = 0
        /\ holder' = "none" /\ leaseLive' = FALSE /\ exec' = [exec EXCEPT ![e] = NoCall]
        /\ UNCHANGED <<cancelRequested, overdue, result, cause, delegationVars, canceller,
                       agentVars, faultVars, artifactVars>>
    <3>1. exec[e].state \in {"input_required", "auth_required"} BY RemoteAssumption
    <3>2. WaitFor[exec[e].state] \in {"waiting_input", "waiting_approval"}
      <4>1. CASE exec[e].state = "input_required" BY <4>1 DEF WaitFor
      <4>2. CASE exec[e].state = "auth_required" BY <4>2 DEF WaitFor
      <4> QED BY <3>1, <4>1, <4>2
    <3> QED BY <1>1, <3>2 DEF Wait, Leave, Unlock
  <2>2. exec[e] \in Call /\ NoCall \in Call BY CallType DEF RemoteTypeOK
  <2>3. /\ status = "running" /\ holder = e /\ ~cancelRequested /\ cancel = "none"
        /\ taskId # NoTask
    <3>1. exec[e].state # "transient" BY RemoteAssumption
    <3> QED BY <1>1, <3>1 DEF MayWrite, Holds, CancelInv, ExecInv
  <2>4. ArtifactInv' BY <2>1, ArtifactsKeep
  <2>5. RemoteTypeOK'
    <3>1. retries' \in 0..MaxRetries BY <2>1, RemoteAssumption
    <3> QED BY <2>1, <2>2, <3>1 DEF RemoteTypeOK, delegationVars, agentVars, faultVars, Waiting
  <2>6. LeaseInv' /\ CancelInv' /\ QuestionInv' /\ ResultInv' /\ CancelConfirmed' /\ AnswerDelivered'
    BY <2>1, <2>3, RemoteAssumption DEF LeaseInv, CancelInv, QuestionInv, ResultInv, CancelConfirmed, AnswerDelivered,
       delegationVars, agentVars
  <2>7. ExecInv(e)' BY <2>1, IdleKeeps DEF RemoteTypeOK
  <2>8. ASSUME NEW d \in Exec, d # e PROVE ExecInv(d)'
    BY <2>1, <2>8, OthersKeep, RemoteAssumption DEF RemoteTypeOK, delegationVars, agentVars, artifactVars
  <2>9. submission' \in {0, 1} /\ sent' \subseteq {1} BY <2>1 DEF delegationVars, agentVars
  <2> QED BY <2>4, <2>5, <2>6, <2>7, <2>8, <2>9
<1>2. CASE ~MayWrite(e)
  BY <1>2, ForgetKeeps DEF Wait, Leave, runVars
<1> QED BY <1>1, <1>2

\* A poll that is due again under the id the answer had, or a made-up one.
LEMMA DeferKeeps ==
  ASSUME Inv, NEW e \in Exec, MayWrite(e), retries < MaxRetries, Defer(e) PROVE Inv'
<1> USE DEF Inv, RemoteInv
<1>1. /\ status' = "waiting_external" /\ retries' = retries + 1
      /\ holder' = "none" /\ leaseLive' = FALSE /\ exec' = [exec EXCEPT ![e] = NoCall]
      /\ taskId' = IF exec[e].got = NoTask THEN MadeUp ELSE exec[e].got
      /\ UNCHANGED <<cancelRequested, overdue, result, cause, submission, question, cancel,
                     canceller, agentVars, faultVars, artifactVars>>
  BY DEF Defer, Leave, Arm, Unlock
<1>2. exec[e] \in Call /\ NoCall \in Call BY CallType DEF RemoteTypeOK
<1>3. /\ status = "running" /\ holder = e /\ ~cancelRequested /\ cancel = "none"
      /\ \A c \in Canceller : canceller[c].pc = "idle"
  BY DEF MayWrite, Holds, CancelInv
<1>4. ArtifactInv' BY <1>1, ArtifactsKeep
<1>5. RemoteTypeOK'
  <2>1. taskId' \in StoredId BY <1>1, <1>2, Ids DEF Call
  <2>2. retries' \in 0..MaxRetries BY <1>1, RemoteAssumption DEF RemoteTypeOK
  <2> QED BY <1>1, <1>2, <2>1, <2>2 DEF RemoteTypeOK, agentVars, faultVars, Waiting
<1>6. LeaseInv' /\ CancelInv' /\ QuestionInv' /\ ResultInv' /\ CancelConfirmed' /\ AnswerDelivered'
  BY <1>1, <1>3, Ids, RemoteAssumption DEF LeaseInv, CancelInv, QuestionInv, ResultInv, CancelConfirmed, AnswerDelivered,
     agentVars
<1>7. ExecInv(e)' BY <1>1, IdleKeeps DEF RemoteTypeOK
<1>8. ASSUME NEW d \in Exec, d # e PROVE ExecInv(d)'
  BY <1>1, <1>8, OthersKeep, RemoteAssumption DEF RemoteTypeOK, agentVars, artifactVars
<1>9. submission' \in {0, 1} /\ sent' \subseteq {1} BY <1>1 DEF agentVars
<1> QED BY <1>4, <1>5, <1>6, <1>7, <1>8, <1>9

\* The end of an execution, whatever it found.
LEMMA ConcludeKeeps == ASSUME Inv, NEW e \in Exec, Conclude(e) PROVE Inv'
<1>1. exec[e].pc = "result" BY DEF Conclude
<1>2. CASE Forget(e) BY <1>2, ForgetKeeps DEF Forget, Leave
<1>3. CASE \E o \in {"timed_out", "cancelled"} : Finish(e, o, "none")
  BY <1>1, <1>3, FinishKeeps DEF Terminal
<1>4. CASE /\ exec[e].abort = "none" /\ exec[e].state \in {"completed", "message"}
           /\ Finish(e, "succeeded", "none")
  BY <1>1, <1>4, FinishKeeps DEF Terminal
<1>5. CASE \E why \in {"agent", "artifact", "transient"} : Finish(e, "failed", why)
  BY <1>1, <1>5, FinishKeeps DEF Terminal
<1>6. CASE exec[e].abort = "none" /\ exec[e].state \in Asks /\ Wait(e) BY <1>1, <1>6, WaitKeeps
<1>7. CASE Retry(e) BY <1>1, <1>5, <1>7, DeferKeeps DEF Retry
<1> QED BY <1>2, <1>3, <1>4, <1>5, <1>6, <1>7 DEF Conclude

-----------------------------------------------------------------------------
(* The user, the deadline, the cancellation and the agent *)

\* Steps of others than the executions keep what the executions know, if the
\* task id they touch stays with the lease.
LEMMA OutsideKeeps ==
  ASSUME Inv, UNCHANGED <<exec, heard, replied, artifactVars>>,
         \A t \in TaskId : task[t] \in Final => task'[t] = task[t],
         \A d \in Exec : holder' = d => holder = d /\ question'.id = question.id, UNCHANGED taskId
  PROVE  ArtifactInv' /\ \A d \in Exec : ExecInv(d)'
<1>1. ArtifactInv' BY ArtifactsKeep DEF Inv
<1>2. ASSUME NEW d \in Exec PROVE ExecInv(d)'
  BY OthersKeep DEF Inv, RemoteInv, RemoteTypeOK, artifactVars
<1> QED BY <1>1, <1>2

\* The answer of the user, and the deadline.
LEMMA UserKeeps == ASSUME Inv, Resume \/ DeadlinePasses \/ TimeOut PROVE Inv'
<1> USE DEF Inv, RemoteInv
<1>1. /\ status' \in {status, "queued", "timed_out"}
      /\ status' # status => status # "running" /\ status \notin Terminal
      /\ status' = "queued" /\ status' # status => ~cancelRequested /\ status # "waiting_external"
      /\ retries' \in {retries, 0} /\ overdue' \in BOOLEAN
      /\ question' \in [id : 0..MaxAnswers, consumed : BOOLEAN]
      /\ \/ question' = question
         \/ ~question'.consumed /\ taskId # NoTask /\ holder = "none" /\ status' = "queued"
      /\ status' \in {"waiting_input", "waiting_approval"} => status' = status
      /\ UNCHANGED <<holder, leaseLive, cancelRequested, result, cause, submission, taskId,
                     cancel, exec, canceller, agentVars, faultVars, artifactVars>>
  <2>1. CASE Resume
    <3>1. question' \in [id : 0..MaxAnswers, consumed : BOOLEAN] /\ ~question'.consumed
      BY <2>1, RemoteAssumption DEF Resume, RemoteTypeOK
    <3> QED BY <2>1, <3>1 DEF Resume, RemoteTypeOK, Terminal, LeaseInv, QuestionInv
  <2>2. CASE DeadlinePasses BY <2>2 DEF DeadlinePasses, RemoteTypeOK, delegationVars
  <2>3. CASE TimeOut BY <2>3 DEF TimeOut, RemoteTypeOK, delegationVars, Terminal, Waiting
  <2> QED BY <2>1, <2>2, <2>3
<1>2. RemoteTypeOK'
  <2>1. retries' \in 0..MaxRetries BY <1>1, RemoteAssumption DEF RemoteTypeOK
  <2>2. status' \in {"queued", "running"} \cup Waiting \cup Terminal
    BY <1>1 DEF RemoteTypeOK, Terminal
  <2> QED BY <1>1, <2>1, <2>2 DEF RemoteTypeOK, agentVars, faultVars
<1>3. /\ LeaseInv' /\ CancelInv' /\ QuestionInv' /\ CancelConfirmed' /\ AnswerDelivered'
      /\ ResultInv'
  <2>1. LeaseInv' /\ CancelInv' /\ CancelConfirmed' /\ AnswerDelivered'
    BY <1>1 DEF LeaseInv, CancelInv, CancelConfirmed, AnswerDelivered, RemoteTypeOK, Terminal, agentVars
  <2>2. QuestionInv' BY <1>1 DEF QuestionInv
  <2>3. ResultInv' BY <1>1 DEF ResultInv, agentVars, artifactVars
  <2> QED BY <2>1, <2>2, <2>3
<1>4. ArtifactInv' /\ \A d \in Exec : ExecInv(d)'
  BY <1>1, OutsideKeeps, RemoteAssumption DEF agentVars
<1>5. submission' \in {0, 1} /\ sent' \subseteq {1} BY <1>1 DEF agentVars
<1> QED BY <1>2, <1>3, <1>4, <1>5

\* requestCancellationTree
LEMMA RequestCancelKeeps == ASSUME Inv, RequestCancel PROVE Inv'
<1> USE DEF Inv, RemoteInv
<1>1. /\ ~cancelRequested /\ cancelRequested' = TRUE /\ status \notin Terminal
      /\ cancel = "none" /\ cancel' \in {"none", "pending"}
      /\ cancel' = "pending" => status \in {"running", "waiting_external"} /\ taskId # NoTask
                                /\ status' = status
      /\ status' \in {status, "cancelled"} /\ (status = "running" => status' = status)
      /\ UNCHANGED <<holder, leaseLive, overdue, retries, result, cause, submission, taskId,
                     question, exec, canceller, agentVars, faultVars, artifactVars>>
  BY DEF RequestCancel, CancelInv
<1>2. RemoteTypeOK' BY <1>1 DEF RemoteTypeOK, Terminal, agentVars, faultVars
<1>3. LeaseInv' /\ CancelInv' /\ QuestionInv' /\ ResultInv' /\ CancelConfirmed' /\ AnswerDelivered'
  BY <1>1 DEF LeaseInv, CancelInv, QuestionInv, ResultInv, CancelConfirmed, AnswerDelivered, RemoteTypeOK, Terminal,
     agentVars, artifactVars
<1>4. ArtifactInv' /\ \A d \in Exec : ExecInv(d)' BY <1>1, OutsideKeeps DEF agentVars
<1>5. submission' \in {0, 1} /\ sent' \subseteq {1} BY <1>1 DEF agentVars
<1> QED BY <1>1, <1>2, <1>3, <1>4, <1>5

\* cancelRemote: the stored task, the answer of the agent, the record of it.
LEMMA CancelStepKeeps == ASSUME Inv, NEW c \in Canceller, CancelStep(c) PROVE Inv'
<1> USE DEF Inv, RemoteInv
<1>1. CASE PrepareCancel(c)
  <2>1. /\ cancel = "pending"
        /\ canceller' = [canceller EXCEPT ![c] = [pc |-> "call", task |-> taskId, said |-> "none"]]
        /\ UNCHANGED <<runVars, delegationVars, exec, agentVars, faultVars, artifactVars>>
    BY <1>1 DEF PrepareCancel
  <2>2. RemoteTypeOK' BY <2>1 DEF RemoteTypeOK, runVars, delegationVars, agentVars, faultVars
  <2>3. LeaseInv' /\ CancelInv' /\ QuestionInv' /\ ResultInv' /\ CancelConfirmed' /\ AnswerDelivered'
    BY <2>1 DEF LeaseInv, CancelInv, QuestionInv, ResultInv, CancelConfirmed, AnswerDelivered, RemoteTypeOK,
       runVars, delegationVars, agentVars, artifactVars
  <2>4. ArtifactInv' /\ \A d \in Exec : ExecInv(d)'
    BY <2>1, OutsideKeeps DEF runVars, delegationVars, agentVars
  <2>5. submission' \in {0, 1} /\ sent' \subseteq {1} BY <2>1 DEF delegationVars, agentVars
  <2> QED BY <2>2, <2>3, <2>4, <2>5
<1>2. ASSUME NEW said \in {"final", "open", "error"}, CancelTask(c, said) PROVE Inv'
  <2>1. /\ canceller[c].pc = "call"
        /\ canceller' = [canceller EXCEPT ![c].pc = "record", ![c].said = said]
        /\ UNCHANGED <<runVars, delegationVars, exec, sent, heard, replied, faultVars, artifactVars>>
    BY <1>2 DEF CancelTask
  <2>2. canceller[c].task = taskId BY <2>1 DEF CancelInv
  <2>3. /\ task' \in [TaskId -> TaskState \cup {"none"}]
        /\ \A t \in TaskId : task[t] \in Final => task'[t] = task[t]
        /\ said = "final" => taskId \in TaskId /\ task'[taskId] \in Final
    <3>1. CASE task' = task /\ said # "final" BY <3>1 DEF RemoteTypeOK
    <3>2. CASE /\ taskId \in TaskId
               /\ task' = [task EXCEPT ![taskId] = IF @ \in Final THEN @ ELSE "cancelled"]
      BY <3>2 DEF RemoteTypeOK, TaskState, Final
    <3> QED BY <1>2, <2>2, <3>1, <3>2 DEF CancelTask
  <2>4. RemoteTypeOK'
    <3>1. canceller' \in [Canceller -> [pc : {"idle", "call", "record"}, task : StoredId,
                                        said : {"none", "final", "open", "error"}]]
      <4>1. said \in {"none", "final", "open", "error"} BY <1>2
      <4>2. [canceller[c] EXCEPT !.pc = "record", !.said = said]
              \in [pc : {"idle", "call", "record"}, task : StoredId,
                  said : {"none", "final", "open", "error"}]
        BY ZenonT(30), <4>1 DEF RemoteTypeOK
      <4>3. canceller' = [canceller EXCEPT ![c] =
                            [canceller[c] EXCEPT !.pc = "record", !.said = said]]
        BY <2>1
      <4> QED BY <4>2, <4>3 DEF RemoteTypeOK
    <3> QED BY <2>1, <2>3, <3>1 DEF RemoteTypeOK, runVars, delegationVars, faultVars
  <2>5. LeaseInv' /\ QuestionInv' /\ ResultInv' /\ CancelConfirmed' /\ AnswerDelivered'
    BY <2>1, <2>3 DEF LeaseInv, QuestionInv, ResultInv, CancelConfirmed, AnswerDelivered, RemoteTypeOK, Final,
       runVars, delegationVars, artifactVars
  <2>6. CancelInv'
    <3>1. \A b \in Canceller : canceller'[b].pc # "idle" =>
             canceller[b].pc # "idle" /\ canceller'[b].task = canceller[b].task
      BY <2>1 DEF RemoteTypeOK
    <3>2. \A b \in Canceller : canceller'[b].pc = "record" /\ canceller'[b].said = "final" =>
             taskId \in TaskId /\ task'[taskId] \in Final
      BY <2>1, <2>3 DEF RemoteTypeOK, CancelInv
    <3> QED BY <2>1, <3>1, <3>2 DEF CancelInv, runVars, delegationVars
  <2>7. ArtifactInv' /\ \A d \in Exec : ExecInv(d)'
    BY <2>1, <2>3, OutsideKeeps DEF runVars, delegationVars
  <2>8. submission' \in {0, 1} /\ sent' \subseteq {1} BY <2>1 DEF delegationVars
  <2> QED BY <2>4, <2>5, <2>6, <2>7, <2>8
<1>3. CASE RecordRemoteCancellation(c)
  <2>1. /\ canceller[c].pc = "record"
        /\ canceller' = [canceller EXCEPT ![c] = [pc |-> "idle", task |-> NoTask, said |-> "none"]]
        /\ cancel' = (IF canceller[c].said = "final" THEN "completed" ELSE "pending")
        /\ UNCHANGED <<cancelRequested, overdue, retries, result, cause, submission, taskId,
                       question, exec, agentVars, faultVars, artifactVars>>
    BY <1>3 DEF RecordRemoteCancellation, CancellerDone
  <2>2. \/ status' = "cancelled" /\ holder' = "none" /\ leaseLive' = FALSE
           /\ canceller[c].said = "final" /\ status \in {"running", "waiting_external"}
        \/ UNCHANGED <<status, holder, leaseLive>>
           /\ (canceller[c].said = "final" => status \notin {"running", "waiting_external"})
    BY <1>3 DEF RecordRemoteCancellation, Unlock
  <2>3. /\ cancel # "none" /\ cancelRequested /\ taskId # NoTask
        /\ status \in {"running", "waiting_external"} \cup Terminal
        /\ canceller[c].said = "final" => taskId \in TaskId /\ task[taskId] \in Final
    BY <2>1 DEF CancelInv
  <2>4. RemoteTypeOK'
    <3>1. canceller' \in [Canceller -> [pc : {"idle", "call", "record"}, task : StoredId,
                                        said : {"none", "final", "open", "error"}]]
      BY <2>1, Ids DEF RemoteTypeOK
    <3> QED BY <2>1, <2>2, <3>1 DEF RemoteTypeOK, Terminal, agentVars, faultVars
  <2>5. LeaseInv' BY <2>1, <2>2, RemoteAssumption DEF LeaseInv, RemoteTypeOK
  <2>6. CancelInv' BY <2>1, <2>2, <2>3 DEF CancelInv, Terminal, RemoteTypeOK, agentVars
  <2>7. QuestionInv' /\ ResultInv' /\ CancelConfirmed' /\ AnswerDelivered'
    BY <2>1, <2>2, <2>3 DEF QuestionInv, ResultInv, CancelConfirmed, AnswerDelivered, Terminal, agentVars, artifactVars
  <2>8. \A d \in Exec : holder' = d => holder = d BY <2>2, RemoteAssumption
  <2>9. ArtifactInv' /\ \A d \in Exec : ExecInv(d)'
    BY <2>1, <2>8, OutsideKeeps DEF agentVars
  <2>10. submission' \in {0, 1} /\ sent' \subseteq {1} BY <2>1 DEF agentVars
  <2> QED BY <2>4, <2>5, <2>6, <2>7, <2>9, <2>10
<1> QED BY <1>1, <1>2, <1>3 DEF CancelStep

\* The agent at work.
LEMMA AgentWorksKeeps == ASSUME Inv, NEW t \in TaskId, AgentWorks(t) PROVE Inv'
<1> USE DEF Inv, RemoteInv
<1>1. /\ task' \in [TaskId -> TaskState \cup {"none"}]
      /\ \A u \in TaskId : task[u] \in Final => task'[u] = task[u]
      /\ UNCHANGED <<runVars, delegationVars, exec, canceller, sent, heard, replied, faultVars, artifactVars>>
  BY MovesType DEF AgentWorks, RemoteTypeOK, Final
<1>2. RemoteTypeOK' BY <1>1 DEF RemoteTypeOK, runVars, delegationVars, faultVars
<1>3. LeaseInv' /\ CancelInv' /\ QuestionInv' /\ ResultInv' /\ CancelConfirmed' /\ AnswerDelivered'
  BY <1>1, QuietKeeps DEF AnswerDelivered, delegationVars, artifactVars
<1>4. ArtifactInv' /\ \A d \in Exec : ExecInv(d)'
  BY <1>1, OutsideKeeps DEF runVars, delegationVars
<1>5. submission' \in {0, 1} /\ sent' \subseteq {1} BY <1>1 DEF delegationVars
<1> QED BY <1>2, <1>3, <1>4, <1>5

-----------------------------------------------------------------------------
(* The theorems *)

\* The initial states: the child is queued, nobody has it.
LEMMA InitInv == Init => Inv
<1> SUFFICES ASSUME Init PROVE Inv OBVIOUS
<1> USE RemoteAssumption, Ids DEF Init
<1>1. ArtifactInv BY ArtifactInitInv
<1>2. NoCall \in Call
  <2>1. 0 \in 0..MaxAnswers /\ NoTask \in StoredId OBVIOUS
  <2> QED BY <2>1 DEF Call, NoCall, Place
<1>3. RemoteTypeOK
  <2>1. {0} \subseteq 0..MaxRetries /\ {0} \subseteq 0..MaxAnswers /\ {0} \subseteq 0..MaxFailures
        /\ {0} \subseteq 0..MaxLosses
    OBVIOUS
  <2> QED BY <1>2, <2>1 DEF RemoteTypeOK
<1>4. LeaseInv /\ CancelInv /\ QuestionInv /\ ResultInv /\ CancelConfirmed /\ AnswerDelivered
  BY DEF LeaseInv, CancelInv, QuestionInv, ResultInv, CancelConfirmed, AnswerDelivered
<1>5. ASSUME NEW e \in Exec PROVE ExecInv(e) BY DEF ExecInv, NoCall, Final
<1> QED BY <1>1, <1>3, <1>4, <1>5 DEF Inv, RemoteInv

\* Nothing happens.
LEMMA StutterKeeps == Inv /\ UNCHANGED vars => Inv'
<1> SUFFICES ASSUME Inv, UNCHANGED vars PROVE Inv' OBVIOUS
<1> USE DEF Inv, RemoteInv, vars, remoteVars, runVars, delegationVars, agentVars, faultVars
<1>1. ArtifactInv' /\ \A d \in Exec : ExecInv(d)' BY OutsideKeeps
<1>2. RemoteTypeOK' BY DEF RemoteTypeOK
<1>3. LeaseInv' /\ CancelInv' /\ QuestionInv' /\ ResultInv' /\ CancelConfirmed' /\ AnswerDelivered'
  BY QuietKeeps DEF AnswerDelivered, artifactVars
<1> QED BY <1>1, <1>2, <1>3

\* Every step keeps the invariant.
LEMMA NextInv == Inv /\ [Next]_vars => Inv'
<1> SUFFICES ASSUME Inv, Next PROVE Inv' BY StutterKeeps
<1>1. ASSUME NEW e \in Exec, ExecStep(e) PROVE Inv'
  BY <1>1, PrepareKeeps, SendKeeps, GetKeeps, ContinueKeeps, CallFailsKeeps, ConsumeKeeps, AbortedKeeps,
     DeferRemoteTaskKeeps, RecordRemoteTaskKeeps, IngestKeeps, VerifyKeeps, ConcludeKeeps DEF ExecStep
<1>2. ASSUME NEW e \in Exec, Claim(e) \/ Heartbeat(e) \/ Crash(e) PROVE Inv'
  BY <1>2, ClaimKeeps, HeartbeatKeeps, CrashKeeps
<1>3. CASE LeaseExpires BY <1>3, LeaseExpiresKeeps
<1>4. CASE Resume \/ DeadlinePasses \/ TimeOut BY <1>4, UserKeeps
<1>5. CASE RequestCancel BY <1>5, RequestCancelKeeps
<1>6. ASSUME NEW c \in Canceller, CancelStep(c) PROVE Inv' BY <1>6, CancelStepKeeps
<1>7. ASSUME NEW t \in TaskId, AgentWorks(t) PROVE Inv' BY <1>7, AgentWorksKeeps
<1>8. ASSUME NEW r \in Reaper, Reap(r) \/ ReapCrash(r) PROVE Inv' BY <1>8, ReapKeeps
<1> QED BY <1>1, <1>2, <1>3, <1>4, <1>5, <1>6, <1>7, <1>8 DEF Next

\* The invariant holds in every reachable state.
THEOREM RemoteInvariant == Spec => []Inv
  BY InitInv, NextInv, PTL DEF Spec

\* The tables, the executions and the artifacts keep their types.
THEOREM RemoteTypes == Spec => []TypeOK
<1>1. Inv => TypeOK BY DEF Inv, RemoteInv, ArtifactInv, TypeOK
<1> QED BY <1>1, RemoteInvariant, PTL

\* The agent is sent one submission id, however often executions are lost.
THEOREM RemoteOneSubmission == Spec => []OneSubmission
<1>1. Inv => OneSubmission BY DEF Inv, RemoteInv, OneSubmission
<1> QED BY <1>1, RemoteInvariant, PTL

\* A consumed answer of the user has reached the agent.
THEOREM RemoteAnswerDelivered == Spec => []AnswerDelivered
<1>1. Inv => AnswerDelivered BY DEF Inv, RemoteInv
<1> QED BY <1>1, RemoteInvariant, PTL

\* A closed cancellation has a task and a run that have ended.
THEOREM RemoteCancelConfirmed == Spec => []CancelConfirmed
<1>1. Inv => CancelConfirmed BY DEF Inv, RemoteInv
<1> QED BY <1>1, RemoteInvariant, PTL

\* A remote delegation uses the artifacts as they are meant to be used: every
\* step of it is one of theirs or leaves them alone, the deaths included.
THEOREM RemoteImplementsArtifacts == Spec => ArtifactSpec
<1>1. Init => ArtifactInit BY DEF Init
<1>2. Inv /\ [Next]_vars => [ArtifactNext]_artifactVars
  <2> SUFFICES ASSUME Inv, [Next]_vars PROVE ArtifactNext \/ UNCHANGED artifactVars OBVIOUS
  <2>1. ASSUME NEW e \in Exec, exec[e].file # "none" PROVE exec[e].file \in Key
    BY <2>1 DEF Inv, RemoteInv, RemoteTypeOK, Call
  <2>2. ASSUME NEW e \in Exec, Crash(e) PROVE ArtifactNext \/ UNCHANGED artifactVars
    BY <2>1, <2>2 DEF Crash, ArtifactNext
  <2>3. ASSUME NEW e \in Exec, Ingest(e) \/ IngestStep(e) PROVE ArtifactNext
    BY <2>1, <2>3 DEF Ingest, IngestStep, ArtifactNext
  <2>4. ASSUME NEW e \in Exec, Claim(e) \/ Heartbeat(e) \/ (ExecStep(e) /\ ~Ingest(e) /\ ~IngestStep(e))
        PROVE  UNCHANGED artifactVars
    <3>1. CASE Conclude(e) BY <3>1 DEF Conclude, Finish, Wait, Forget, Retry, Defer
    <3>2. CASE ~Conclude(e)
      BY <2>4, <3>2
      DEF Claim, Heartbeat, ExecStep, Prepare, Send, Get, Continue, CallFails, Consume, Aborted,
          DeferRemoteTask, RecordRemoteTask, Verify
    <3> QED BY <3>1, <3>2
  <2>5. ASSUME NEW c \in Canceller, CancelStep(c) PROVE UNCHANGED artifactVars
    BY <2>5 DEF CancelStep, PrepareCancel, CancelTask, RecordRemoteCancellation
  <2>6. CASE LeaseExpires \/ Resume \/ RequestCancel \/ DeadlinePasses \/ TimeOut \/ UNCHANGED vars
    BY <2>6 DEF LeaseExpires, Resume, RequestCancel, DeadlinePasses, TimeOut, vars
  <2>7. ASSUME NEW r \in Reaper, Reap(r) \/ ReapCrash(r) PROVE ArtifactNext
    BY <2>7 DEF Reap, ReapCrash, ArtifactNext
  <2>8. ASSUME NEW t \in TaskId, AgentWorks(t) PROVE UNCHANGED artifactVars BY <2>8 DEF AgentWorks
  <2> QED BY <2>2, <2>3, <2>4, <2>5, <2>6, <2>7, <2>8 DEF Next
<1> QED BY <1>1, <1>2, RemoteInvariant, PTL DEF Spec, ArtifactSpec

\* No live row without its blob, no blob that nothing remembers.
THEOREM RemoteContent == Spec => [](LiveContent /\ ContentOwned)
  BY RemoteImplementsArtifacts, ArtifactsSafe, PTL

\* What the run's artifact rows point to is there for as long as they live.
THEOREM RemoteLiveContent == Spec => []LiveContent
  BY RemoteContent, PTL

\* A success stands on a completed task and a live artifact, or on a direct answer
\* to the last that was sent.
THEOREM RemoteSucceededIsDone == Spec => []SucceededIsDone
<1>1. Inv => SucceededIsDone
  <2> SUFFICES ASSUME Inv, status = "succeeded" PROVE SucceededIsDone
    BY DEF SucceededIsDone
  <2>1. result # "none" => result \in Key BY DEF Inv, RemoteInv, RemoteTypeOK
  <2>2. LiveContent BY ArtifactSafety DEF Inv
  <2> QED BY <2>1, <2>2 DEF Inv, RemoteInv, ResultInv, SucceededIsDone, LiveContent
<1> QED BY <1>1, RemoteInvariant, PTL

\* A stored task is exchanged for another one only with the lease, and for the one
\* that the agent named when it was sent an answer of the user.
THEOREM RemoteTaskKept == Spec => TaskKept
<1> DEFINE Named(e) == Holds(e) /\ exec[e].answer # 0 /\ exec[e].got = taskId'
<1>1. Inv /\ [Next]_vars =>
        [{taskId, taskId'} \subseteq TaskId /\ taskId' # taskId => \E e \in Exec : Named(e)]_vars
  <2> SUFFICES ASSUME Inv, Next, taskId \in TaskId, taskId' # taskId, taskId' \in TaskId,
                      \A e \in Exec : ~Named(e)
               PROVE  FALSE
    BY DEF vars, remoteVars, delegationVars
  <2> USE DEF Inv, RemoteInv
  <2>1. ASSUME NEW e \in Exec, DeferRemoteTask(e) PROVE FALSE
    BY <2>1 DEF DeferRemoteTask, MayWrite, Holds, ExecInv
  <2>2. ASSUME NEW e \in Exec, RecordRemoteTask(e) PROVE FALSE
    BY <2>2 DEF RecordRemoteTask, MayWrite, Holds, ExecInv
  <2>3. ASSUME NEW e \in Exec, Conclude(e) PROVE FALSE
    <3>1. CASE Retry(e)
      BY <2>3, <3>1, Ids DEF Conclude, Retry, Defer, Finish, Forget, Wait, MayWrite, Holds, ExecInv,
         delegationVars
    <3>2. CASE ~Retry(e)
      BY <2>3, <3>2 DEF Conclude, Finish, Forget, Wait, delegationVars
    <3> QED BY <3>1, <3>2
  <2>4. ASSUME NEW e \in Exec, ExecStep(e) PROVE FALSE
    BY <2>1, <2>2, <2>3, <2>4
       DEF ExecStep, Prepare, Send, Get, Continue, CallFails, Consume, Aborted, Ingest, IngestStep,
           Verify, delegationVars, remoteVars
  <2>5. ASSUME NEW e \in Exec, Claim(e) \/ Heartbeat(e) \/ Crash(e) PROVE FALSE
    BY <2>5 DEF Claim, Heartbeat, Crash, delegationVars
  <2>6. ASSUME NEW c \in Canceller, CancelStep(c) PROVE FALSE
    BY <2>6 DEF CancelStep, PrepareCancel, CancelTask, RecordRemoteCancellation, delegationVars
  <2>7. ASSUME NEW r \in Reaper, Reap(r) \/ ReapCrash(r) PROVE FALSE
    BY <2>7 DEF Reap, ReapCrash, remoteVars, delegationVars
  <2>8. ASSUME NEW t \in TaskId, AgentWorks(t) PROVE FALSE BY <2>8 DEF AgentWorks, delegationVars
  <2> QED BY <2>4, <2>5, <2>6, <2>7, <2>8
          DEF Next, LeaseExpires, Resume, RequestCancel, DeadlinePasses, TimeOut, delegationVars
<1> QED BY <1>1, RemoteInvariant, PTL DEF Spec, TaskKept


-----------------------------------------------------------------------------
(* The contract of a row of agent_run *)

\* A step of the contract, or none.
LifeStep == [Life!Next]_(Life!lifeVars)

\* A step that leaves the row alone is none.
LEMMA QuietLife ==
  ASSUME UNCHANGED <<status, holder, leaseLive, cancelRequested, overdue>>
  PROVE  LifeStep
  BY DEF LifeStep, Life!lifeVars

\* The result of an execution that has the lease ends the run.
LEMMA FinishLife ==
  ASSUME NEW e \in Exec, NEW s \in Terminal, NEW why, Finish(e, s, why) PROVE LifeStep
<1>1. CASE Holds(e)
  <2>1. Life!Finish
    BY <1>1 DEF Finish, Holds, Unlock, Terminal, Life!Finish, Life!Ended, Life!Release, Life!Unhindered,
       Life!flags
  <2> QED BY <2>1 DEF LifeStep, Life!Next
<1>2. CASE ~Holds(e) BY <1>2, QuietLife DEF Finish
<1> QED BY <1>1, <1>2

\* An execution that has the lease, and nothing against it, suspends the run.
LEMMA SuspendLife ==
  ASSUME NEW e \in Exec, MayWrite(e), status' \in Waiting, Unlock, UNCHANGED <<cancelRequested, overdue>>
  PROVE  LifeStep
<1>1. Life!Suspend
  BY DEF MayWrite, Holds, Unlock, Waiting, Life!Suspend, Life!Suspended, Life!Release, Life!Unhindered,
     Life!flags
<1> QED BY <1>1 DEF LifeStep, Life!Next

\* The steps of an execution.
LEMMA ExecLife == ASSUME Inv, NEW e \in Exec, ExecStep(e) PROVE LifeStep
<1>1. CASE Conclude(e)
  <2>1. CASE Forget(e) BY <2>1, QuietLife DEF Forget, runVars
  <2>2. ASSUME NEW s \in Terminal, NEW why, Finish(e, s, why) PROVE LifeStep BY <2>2, FinishLife
  <2>3. CASE exec[e].state \in Asks /\ Wait(e)
    <3>1. CASE MayWrite(e)
      <4>1. status' \in Waiting
        <5>1. exec[e].state \in {"input_required", "auth_required"}
          BY <2>3, RemoteAssumption
        <5>2. \A s \in {"input_required", "auth_required"} : WaitFor[s] \in Waiting
          BY DEF WaitFor, Waiting
        <5>3. status' = WaitFor[exec[e].state]
          BY <2>3, <3>1 DEF Wait
        <5> QED BY <5>1, <5>2, <5>3
      <4> QED BY <2>3, <3>1, <4>1, SuspendLife DEF Wait
    <3>2. CASE ~MayWrite(e) BY <2>3, <3>2, QuietLife DEF Wait
    <3> QED BY <3>1, <3>2
  <2>4. CASE Retry(e)
    <3>1. CASE retries < MaxRetries /\ MayWrite(e)
      <4>1. Defer(e) BY <2>4, <3>1 DEF Retry
      <4> QED BY <3>1, <4>1, SuspendLife DEF Defer, Arm, Waiting
    <3>2. CASE ~(retries < MaxRetries /\ MayWrite(e))
      <4>1. Finish(e, "failed", "transient") BY <2>4, <3>2 DEF Retry
      <4> QED BY <4>1, FinishLife DEF Terminal
    <3> QED BY <3>1, <3>2
  <2> QED BY <1>1, <2>1, <2>2, <2>3, <2>4 DEF Conclude, Terminal
<1>2. CASE DeferRemoteTask(e)
  <2>1. CASE MayWrite(e) BY <1>2, <2>1, SuspendLife DEF DeferRemoteTask, Arm, Waiting
  <2>2. CASE ~MayWrite(e) BY <1>2, <2>2, QuietLife DEF DeferRemoteTask
  <2> QED BY <2>1, <2>2
<1>3. CASE Prepare(e) \/ Send(e) \/ Get(e) \/ Continue(e) \/ CallFails(e) \/ Consume(e) \/ Aborted(e)
  BY <1>3, QuietLife DEF Prepare, Send, Get, Continue, CallFails, Consume, Aborted, runVars
<1>4. CASE RecordRemoteTask(e) \/ Ingest(e) \/ IngestStep(e) \/ Verify(e)
  BY <1>4, QuietLife DEF RecordRemoteTask, Ingest, IngestStep, Verify, remoteVars, runVars
<1> QED BY <1>1, <1>2, <1>3, <1>4 DEF ExecStep

\* The steps of everybody else.  That no lease is held while nobody runs the
\* child is what makes the end of a waiting child leave its lease alone.
LEMMA OutsideLife ==
  ASSUME Inv, \/ LeaseExpires \/ Resume \/ RequestCancel \/ DeadlinePasses \/ TimeOut
              \/ \E c \in Canceller : CancelStep(c)
  PROVE  LifeStep
<1> USE DEF Life!lease, Life!flags, Life!Idle, Life!Suspended, Life!Unhindered
<1>0. status # "running" => holder = "none" /\ ~leaseLive BY DEF Inv, RemoteInv, LeaseInv
<1>1. CASE LeaseExpires
  BY <1>1 DEF LeaseExpires, LifeStep, Life!Next, Life!Expire
<1>2. CASE Resume
  BY <1>2 DEF Resume, LifeStep, Life!Next, Life!Requeue
<1>3. CASE DeadlinePasses
  BY <1>3 DEF DeadlinePasses, LifeStep, Life!Next, Life!Pass
<1>4. CASE TimeOut
  BY <1>4 DEF TimeOut, Waiting, LifeStep, Life!Next, Life!End
<1>5. CASE RequestCancel
  <2>1. status \in Life!Idle \cup {"running"}
    BY <1>5 DEF RequestCancel, Inv, RemoteInv, RemoteTypeOK, Waiting, Terminal
  <2>2. Life!End \/ Life!RequestCancel
    BY <1>5, <2>1 DEF RequestCancel, Life!End, Life!RequestCancel
  <2> QED BY <2>2 DEF LifeStep, Life!Next
<1>6. ASSUME NEW c \in Canceller, CancelStep(c) PROVE LifeStep
  <2>1. CASE PrepareCancel(c) \/ \E said \in {"final", "open", "error"} : CancelTask(c, said)
    BY <2>1, QuietLife DEF PrepareCancel, CancelTask, runVars
  <2>2. CASE RecordRemoteCancellation(c)
    <3>1. cancelRequested
      BY <2>2 DEF RecordRemoteCancellation, Inv, RemoteInv, CancelInv
    <3>2. CASE UNCHANGED <<status, holder, leaseLive>>
      BY <2>2, <3>2, QuietLife DEF RecordRemoteCancellation
    <3>3. CASE status = "running" /\ status' = "cancelled" /\ Unlock
      BY <2>2, <3>3 DEF RecordRemoteCancellation, Unlock, LifeStep, Life!Next, Life!Finish,
         Life!Ended, Life!Release
    <3>4. CASE status = "waiting_external" /\ status' = "cancelled" /\ Unlock
      BY <1>0, <2>2, <3>1, <3>4 DEF RecordRemoteCancellation, Unlock, LifeStep, Life!Next, Life!End,
         Inv, RemoteInv, RemoteTypeOK
    <3> QED BY <2>2, <3>2, <3>3, <3>4 DEF RecordRemoteCancellation
  <2> QED BY <1>6, <2>1, <2>2 DEF CancelStep
<1> QED BY <1>1, <1>2, <1>3, <1>4, <1>5, <1>6

\* However many executions are late, and whatever the workers that cancel its
\* task do, the child keeps the contract of a row of agent_run.
THEOREM RemoteImplementsLifecycle == Spec => ImplementsLifecycle
<1>1. Init => Life!Init
  BY DEF Init, Life!Init
<1>2. Inv /\ [Next]_vars => [Life!Next]_(Life!lifeVars)
  <2> SUFFICES ASSUME Inv, [Next]_vars PROVE LifeStep BY DEF LifeStep
  <2>1. ASSUME NEW e \in Exec, Claim(e) PROVE LifeStep
    <3>1. ~leaseLive BY <2>1 DEF Claim, Claimable, Inv, RemoteInv, LeaseInv
    <3> QED BY <2>1, <3>1, RemoteAssumption
            DEF Claim, Claimable, LifeStep, Life!Next, Life!Claim, Life!flags
  <2>2. ASSUME NEW e \in Exec, Heartbeat(e) \/ Crash(e) PROVE LifeStep
    BY <2>2, QuietLife DEF Heartbeat, Crash, runVars
  <2>3. ASSUME NEW t \in TaskId, AgentWorks(t) PROVE LifeStep
    BY <2>3, QuietLife DEF AgentWorks, runVars
  <2>4. ASSUME NEW r \in Reaper, Reap(r) \/ ReapCrash(r) PROVE LifeStep
    BY <2>4, QuietLife DEF Reap, ReapCrash, remoteVars, runVars
  <2>5. CASE UNCHANGED vars BY <2>5, QuietLife DEF vars, remoteVars, runVars
  <2> QED BY <2>1, <2>2, <2>3, <2>4, <2>5, ExecLife, OutsideLife DEF Next
<1> QED BY <1>1, <1>2, RemoteInvariant, PTL DEF Spec, ImplementsLifecycle, Life!Spec

-----------------------------------------------------------------------------
(* A run that nothing troubles does not fail by itself *)

\* Something has gone wrong.
Faulted == failures # 0 \/ losses # 0

\* The id of a direct answer has been stored by the execution that will end the
\* run with it, or something is already against the run.
MessageHeld ==
  taskId = Message /\ status \notin Terminal =>
    \/ cancelRequested \/ overdue
    \/ \E e \in Exec :
         holder = e /\ leaseLive /\ exec[e].pc = "result" /\ exec[e].abort = "none" /\ exec[e].got = Message

\* Until something goes wrong every execution asks for a task of the agent, or
\* for none, and hears an answer it understands, about a task or a direct one.
CalmInv ==
  /\ cause # "transient" /\ taskId # MadeUp
  /\ \A e \in Exec : /\ exec[e].state \notin {"transient", "unknown"}
                     /\ exec[e].task \notin {Message, MadeUp}
                     /\ exec[e].got = Message => exec[e].state = "message"
                     /\ exec[e].got # MadeUp
  /\ MessageHeld

FaultInv == Faulted \/ CalmInv

\* Faults are not forgotten.
LEMMA FaultsAdd ==
  ASSUME RemoteTypeOK, RemoteTypeOK'
  PROVE  /\ Fault => Faulted'
         /\ losses' = losses + 1 => Faulted'
         /\ Faulted /\ failures' \in {failures, failures + 1} /\ losses' \in {losses, losses + 1} => Faulted'
<1>1. failures \in Nat /\ losses \in Nat /\ failures' \in Nat /\ losses' \in Nat
  BY RemoteAssumption DEF RemoteTypeOK
<1>2. Fault => failures' = failures + 1 BY DEF Fault
<1> HIDE DEF Fault
<1>3. \A n \in Nat : n + 1 # 0 OBVIOUS
<1>4. Fault => Faulted' BY <1>1, <1>2, <1>3 DEF Faulted
<1>5. losses' = losses + 1 => Faulted' BY <1>1, <1>3 DEF Faulted
<1>6. Faulted /\ failures' \in {failures, failures + 1} /\ losses' \in {losses, losses + 1} => Faulted'
  BY <1>1, <1>3 DEF Faulted
<1> QED BY <1>4, <1>5, <1>6

\* While nothing has gone wrong and nothing is against the run, an execution may
\* write with a direct answer stored only to end the run with it.
LEMMA HeldOnlyToEnd ==
  ASSUME Inv, CalmInv, NEW e \in Exec, MayWrite(e), taskId = Message
  PROVE  exec[e].pc = "result" /\ exec[e].abort = "none" /\ exec[e].got = Message
  BY RemoteAssumption DEF CalmInv, MessageHeld, MayWrite, Holds, Terminal, Inv, RemoteInv, RemoteTypeOK

\* Steps that leave the run, its task and what the executions know alone.
LEMMA CalmFrame ==
  ASSUME CalmInv, UNCHANGED <<cause, taskId, exec>>,
         status \in Terminal => status' \in Terminal,
         cancelRequested => cancelRequested', overdue => overdue',
         \/ status' \in Terminal \/ cancelRequested' \/ overdue' \/ UNCHANGED <<status, holder, leaseLive>>
  PROVE  CalmInv'
  BY DEF CalmInv, MessageHeld

\* An execution goes on with what it knows; no direct answer is stored, or it is
\* not the execution that has it, or the run has ended.
LEMMA CalmMove ==
  ASSUME Inv, CalmInv, NEW e \in Exec, NEW x \in Call, exec' = [exec EXCEPT ![e] = x],
         cause' # "transient", x.state \notin {"transient", "unknown"},
         x.task \notin {Message, MadeUp}, x.got = Message => x.state = "message", x.got # MadeUp,
         taskId' # MadeUp, MessageHeld'
  PROVE  CalmInv'
  BY DEF CalmInv, Inv, RemoteInv, RemoteTypeOK

\* The same, of an execution that was not about to end the run, which is as it was.
LEMMA CalmCall ==
  ASSUME Inv, CalmInv, NEW e \in Exec, NEW x \in Call, exec' = [exec EXCEPT ![e] = x],
         x.state \notin {"transient", "unknown"}, x.task \notin {Message, MadeUp},
         x.got = Message => x.state = "message", x.got # MadeUp, exec[e].pc # "result" \/ ~MayWrite(e),
         UNCHANGED <<runVars, taskId>>
  PROVE  CalmInv'
<1>1. MessageHeld'
  <2> SUFFICES ASSUME taskId = Message, status \notin Terminal, ~cancelRequested, ~overdue
               PROVE  \E d \in Exec : holder = d /\ leaseLive /\ exec'[d].pc = "result"
                        /\ exec'[d].abort = "none" /\ exec'[d].got = Message
    BY DEF MessageHeld, runVars
  <2>1. PICK d \in Exec : holder = d /\ leaseLive /\ exec[d].pc = "result" /\ exec[d].abort = "none"
                            /\ exec[d].got = Message
    BY DEF CalmInv, MessageHeld
  <2>2. MayWrite(d) BY <2>1, RemoteAssumption DEF MayWrite, Holds, Inv, RemoteInv, LeaseInv
  <2>3. d # e BY <2>1, <2>2
  <2>4. exec'[d] = exec[d] BY <2>3 DEF Inv, RemoteInv, RemoteTypeOK
  <2> QED BY <2>1, <2>4
<1> QED BY <1>1, CalmMove DEF CalmInv, runVars

\* An answer of the agent that is understood.
LEMMA AnsweredCalm ==
  ASSUME Inv, Inv', CalmInv, NEW e \in Exec, exec[e].pc = "call", ~Faulted', UNCHANGED <<runVars, taskId>>,
         NEW t \in StoredId, t # MadeUp, NEW s \in TaskState \cup {"none", "message"},
         Answered(e, t, s), t = Message => s = "message"
  PROVE  CalmInv'
<1>1. ~Fault BY FaultsAdd DEF Inv, RemoteInv
<1>2. PICK l \in {"record", "consume"} : exec' = [exec EXCEPT ![e].got = t, ![e].state = s, ![e].pc = l]
  BY <1>1 DEF Answered
<1> DEFINE x == [exec[e] EXCEPT !.got = t, !.state = s, !.pc = l]
<1>3. exec[e] \in Call /\ exec \in [Exec -> Call] BY DEF Inv, RemoteInv, RemoteTypeOK
<1>4. exec' = [exec EXCEPT ![e] = x] BY <1>2
<1>5. x \in Call
  <2>1. l \in Place BY DEF Place
  <2> QED BY <1>3, <2>1, CallType
<1>6. /\ x.state = s /\ x.got = t /\ x.task = exec[e].task
  BY <1>3 DEF Call
<1>7. s \notin {"transient", "unknown"} BY RemoteAssumption DEF TaskState, Final
<1> HIDE DEF x
<1>8. exec[e].task \notin {Message, MadeUp} BY DEF CalmInv
<1> QED BY <1>4, <1>5, <1>6, <1>7, <1>8, CalmCall

\* The answer to a message: a task, moved on or not, or a direct answer.
LEMMA MessageCalm ==
  ASSUME Inv, Inv', CalmInv, NEW e \in Exec, exec[e].pc = "call", ~Faulted', UNCHANGED <<runVars, taskId>>,
         NEW moved, TaskAnswer(e, moved) \/ DirectAnswer(e)
  PROVE  CalmInv'
<1>1. ASSUME NEW t \in TaskId, NEW s \in TaskState \cup {"none"}, Answered(e, t, s) PROVE CalmInv'
  <2>1. t \in StoredId /\ t # MadeUp /\ t # Message BY Ids
  <2> QED BY <1>1, <2>1, AnsweredCalm
<1>2. CASE DirectAnswer(e)
  <2> DEFINE t == IF exec[e].task = NoTask THEN Message ELSE exec[e].task
  <2>1. exec[e] \in Call BY DEF Inv, RemoteInv, RemoteTypeOK
  <2>2. exec[e].task \in StoredId BY <2>1 DEF Call
  <2>3. t \in StoredId /\ t # MadeUp BY <2>2, Ids DEF CalmInv
  <2>4. Answered(e, t, "message") BY <1>2 DEF DirectAnswer
  <2> QED BY <2>3, <2>4, AnsweredCalm
<1>3. ASSUME NEW t \in TaskId, Answered(e, t, task[t]) PROVE CalmInv'
  BY <1>1, <1>3 DEF Inv, RemoteInv, RemoteTypeOK
<1>4. ASSUME NEW t \in TaskId, NEW s \in Moves, Answered(e, t, s) PROVE CalmInv'
  BY <1>1, <1>4, MovesType
<1> QED BY <1>2, <1>3, <1>4 DEF TaskAnswer

\* The steps of an execution up to its result.
LEMMA CallCalm ==
  ASSUME Inv, Inv', CalmInv, ~Faulted', NEW e \in Exec,
         Prepare(e) \/ Send(e) \/ Get(e) \/ Continue(e) \/ CallFails(e) \/ Consume(e) \/ Aborted(e)
  PROVE  CalmInv'
<1>0. exec[e] \in Call /\ exec \in [Exec -> Call] /\ exec'[e] \in Call /\ NoCall \in Call
  BY CallType DEF Inv, RemoteInv, RemoteTypeOK
<1>1. exec[e].state \notin {"transient", "unknown"} /\ exec[e].task \notin {Message, MadeUp}
      /\ (exec[e].got = Message => exec[e].state = "message") /\ exec[e].got # MadeUp
  BY DEF CalmInv
<1>2. NoCall.state = "none" /\ NoCall.task = NoTask /\ NoCall.got = NoTask BY DEF NoCall
<1>3. CASE Leave(e) /\ exec[e].pc # "result" /\ UNCHANGED <<runVars, taskId>>
  BY <1>0, <1>2, <1>3, Ids, CalmCall DEF Leave
<1>4. ASSUME NEW l \in Place, Go(e, l), exec[e].pc # "result", UNCHANGED <<runVars, taskId>>
      PROVE  CalmInv'
  <2>1. [exec[e] EXCEPT !.pc = l] \in Call BY <1>0, CallType
  <2>2. exec' = [exec EXCEPT ![e] = [exec[e] EXCEPT !.pc = l]] BY <1>4 DEF Go
  <2>3. /\ [exec[e] EXCEPT !.pc = l].state = exec[e].state
        /\ [exec[e] EXCEPT !.pc = l].task = exec[e].task
        /\ [exec[e] EXCEPT !.pc = l].got = exec[e].got
    BY <1>0 DEF Call
  <2> QED BY <1>1, <1>4, <2>1, <2>2, <2>3, CalmCall
<1>5. CASE Prepare(e)
  <2>1. CASE MayWrite(e)
    <3>1. taskId \notin {Message, MadeUp} BY <1>5, <2>1, HeldOnlyToEnd DEF Prepare, CalmInv
    <3>2. PICK n \in 0..MaxAnswers, k \in Nat : exec' = [exec EXCEPT ![e] = [exec[e] EXCEPT
            !.pc = "call", !.sub = k, !.task = taskId, !.answer = n]]
      <4>1. (IF question.consumed THEN 0 ELSE question.id) \in 0..MaxAnswers
        BY RemoteAssumption DEF Inv, RemoteInv, RemoteTypeOK
      <4>2. submission' \in Nat BY DEF Inv, RemoteInv, RemoteTypeOK
      <4> QED BY <1>5, <2>1, <4>1, <4>2 DEF Prepare
    <3> DEFINE x == [exec[e] EXCEPT !.pc = "call", !.sub = k, !.task = taskId, !.answer = n]
    <3>3. x \in Call BY <1>0, CallType DEF Inv, RemoteInv, RemoteTypeOK
    <3>4. x.state = exec[e].state /\ x.task = taskId /\ x.got = exec[e].got BY <1>0 DEF Call
    <3>5. exec[e].pc # "result" /\ UNCHANGED <<runVars, taskId>> BY <1>5 DEF Prepare
    <3>6. exec' = [exec EXCEPT ![e] = x] BY <3>2
    <3> HIDE DEF x
    <3> QED BY <1>1, <3>1, <3>3, <3>4, <3>5, <3>6, CalmCall
  <2>2. CASE ~MayWrite(e) BY <1>3, <1>5, <2>2 DEF Prepare
  <2> QED BY <2>1, <2>2
<1>6. CASE Send(e)
  BY <1>6, MessageCalm DEF Send, delegationVars
<1>7. CASE Get(e)
  <2>1. /\ task[exec[e].task] \in TaskState \cup {"none", "message"}
        /\ exec[e].task \in StoredId /\ exec[e].task \notin {Message, MadeUp}
    BY <1>7, Ids DEF Get, Inv, RemoteInv, RemoteTypeOK
  <2> QED BY <1>7, <2>1, AnsweredCalm DEF Get, delegationVars
<1>8. CASE Continue(e)
  BY <1>8, MessageCalm DEF Continue, delegationVars
<1>9. CASE CallFails(e) BY <1>1, <1>9, FaultsAdd DEF CallFails, Inv, RemoteInv
<1>10. CASE Consume(e) BY <1>3, <1>4, <1>10 DEF Consume, Place
<1>11. CASE Aborted(e) BY <1>3, <1>4, <1>11 DEF Aborted, Place, delegationVars
<1> QED BY <1>5, <1>6, <1>7, <1>8, <1>9, <1>10, <1>11

\* The answer is stored: the id of a direct one by the execution that will end
\* the run, and a task at work is deferred under the agent's id.
LEMMA RecordCalm ==
  ASSUME Inv, Inv', CalmInv, NEW e \in Exec, DeferRemoteTask(e) \/ RecordRemoteTask(e)
  PROVE  CalmInv'
<1>0. exec[e] \in Call /\ exec \in [Exec -> Call] /\ NoCall \in Call
  BY CallType DEF Inv, RemoteInv, RemoteTypeOK
<1>1. NoCall.state = "none" /\ NoCall.task = NoTask /\ NoCall.got = NoTask BY DEF NoCall
<1>2. exec[e].pc = "record" BY DEF DeferRemoteTask, RecordRemoteTask
<1>3. exec[e].got \in TaskId \cup {Message} /\ exec[e].got # MadeUp
  BY <1>0, <1>2, Ids DEF Inv, RemoteInv, ExecInv, CalmInv, Call
<1>4. CASE ~MayWrite(e)
  BY <1>0, <1>1, <1>2, <1>4, Ids, CalmCall DEF DeferRemoteTask, RecordRemoteTask, Leave, runVars
<1>5. CASE DeferRemoteTask(e) /\ MayWrite(e)
  <2>1. exec[e].got # Message BY <1>5 DEF DeferRemoteTask, CalmInv
  <2>2. MessageHeld' BY <1>3, <1>5, <2>1, Ids DEF DeferRemoteTask, MessageHeld
  <2>3. cause' # "transient" BY <1>5 DEF DeferRemoteTask, CalmInv
  <2> QED BY <1>0, <1>1, <1>3, <1>5, <2>2, <2>3, Ids, CalmMove DEF DeferRemoteTask, Leave
<1>6. CASE RecordRemoteTask(e) /\ MayWrite(e)
  <2>1. PICK l \in Place : Go(e, l) /\ (exec[e].got = Message => l = "result")
    BY <1>6 DEF RecordRemoteTask, Place, CalmInv
  <2> DEFINE x == [exec[e] EXCEPT !.pc = l]
  <2>2. x \in Call BY <1>0, CallType
  <2>3. /\ x.state = exec[e].state /\ x.task = exec[e].task /\ x.got = exec[e].got
        /\ x.pc = l /\ x.abort = exec[e].abort
    BY <1>0 DEF Call
  <2>4. exec' = [exec EXCEPT ![e] = x] BY <2>1 DEF Go
  <2> HIDE DEF x
  <2>5. exec'[e] = x BY <1>0, <2>4
  <2>6. MessageHeld'
    BY <1>6, <2>1, <2>3, <2>5 DEF RecordRemoteTask, MayWrite, Holds, MessageHeld, runVars
  <2>7. cause' # "transient" /\ taskId' # MadeUp
    BY <1>3, <1>6 DEF RecordRemoteTask, CalmInv, runVars
  <2> QED BY <2>2, <2>3, <2>4, <2>6, <2>7, CalmMove DEF CalmInv
<1> QED BY <1>4, <1>5, <1>6

\* The artifacts of a completed task; its id is not that of a direct answer.
LEMMA IngestCalm ==
  ASSUME Inv, Inv', CalmInv, NEW e \in Exec, Ingest(e) \/ IngestStep(e) \/ Verify(e)
  PROVE  CalmInv'
<1>0. exec[e] \in Call /\ exec \in [Exec -> Call] BY DEF Inv, RemoteInv, RemoteTypeOK
<1>1. /\ exec[e].state \notin {"transient", "unknown"} /\ exec[e].task \notin {Message, MadeUp}
      /\ exec[e].got # MadeUp /\ (exec[e].pc = "ingest" => exec[e].got # Message)
  BY Ids DEF CalmInv, Inv, RemoteInv, ExecInv, Final
<1>2. CASE Ingest(e)
  <2>1. PICK k \in Key : exec' = [exec EXCEPT ![e] = [exec[e] EXCEPT !.file = k]]
    BY <1>2 DEF Ingest
  <2> DEFINE x == [exec[e] EXCEPT !.file = k]
  <2>2. x \in Call BY <1>0, CallType
  <2>3. x.state = exec[e].state /\ x.task = exec[e].task /\ x.got = exec[e].got BY <1>0 DEF Call
  <2>4. exec[e].pc = "ingest" /\ UNCHANGED <<runVars, taskId>> BY <1>2 DEF Ingest, delegationVars
  <2>5. exec' = [exec EXCEPT ![e] = x] BY <2>1
  <2> HIDE DEF x
  <2> QED BY <1>1, <2>2, <2>3, <2>4, <2>5, CalmCall
<1>3. CASE IngestStep(e)
  BY <1>3, CalmFrame DEF IngestStep, remoteVars, runVars, delegationVars
<1>4. CASE Verify(e)
  <2>1. PICK s \in {exec[e].state, "unverified"} :
          exec' = [exec EXCEPT ![e] = [exec[e] EXCEPT !.state = s, !.pc = "result"]]
    <3>1. ASSUME NEW v, exec' = [exec EXCEPT ![e].pc = "result", ![e].state = v]
          PROVE  exec' = [exec EXCEPT ![e] = [exec[e] EXCEPT !.state = v, !.pc = "result"]]
      BY <1>0, <3>1 DEF Call
    <3>2. PICK v \in {exec[e].state, "unverified"} :
            exec' = [exec EXCEPT ![e].pc = "result", ![e].state = v]
      <4>1. CASE writer[exec[e].file] = "created" /\ blob[exec[e].file]
        BY <1>0, <1>4, <4>1 DEF Verify, Call
      <4>2. CASE ~(writer[exec[e].file] = "created" /\ blob[exec[e].file])
        BY <1>4, <4>2 DEF Verify
      <4> QED BY <4>1, <4>2
    <3> QED BY <3>1, <3>2
  <2> DEFINE x == [exec[e] EXCEPT !.state = s, !.pc = "result"]
  <2>2. x \in Call
    <3>1. s \in TaskState \cup {"none", "message", "transient", "unknown", "unverified"} BY <1>0 DEF Call
    <3>2. "result" \in Place BY DEF Place
    <3>3. NoTask \in StoredId BY Ids
    <3> QED BY <1>0, <3>1, <3>2, <3>3, CallType
  <2>3. x.state = s /\ x.task = exec[e].task /\ x.got = exec[e].got BY <1>0 DEF Call
  <2>4. exec[e].pc = "ingest" /\ UNCHANGED <<runVars, taskId>> BY <1>4 DEF Verify, delegationVars
  <2>5. exec' = [exec EXCEPT ![e] = x] BY <2>1
  <2> HIDE DEF x
  <2> QED BY <1>1, <2>2, <2>3, <2>4, <2>5, CalmCall
<1> QED BY <1>2, <1>3, <1>4

\* The result: one that has the lease ends or suspends the run, and suspends it
\* only under the id of a task; nothing is retried.
LEMMA ConcludeCalm ==
  ASSUME Inv, Inv', CalmInv, NEW e \in Exec, Conclude(e)
  PROVE  CalmInv'
<1>0. exec[e] \in Call /\ exec \in [Exec -> Call] /\ NoCall \in Call
  BY CallType DEF Inv, RemoteInv, RemoteTypeOK
<1>1. NoCall.state = "none" /\ NoCall.task = NoTask /\ NoCall.got = NoTask BY DEF NoCall
<1>2. Leave(e) /\ taskId' = taskId /\ cause' # "transient"
  BY DEF Conclude, Finish, Forget, Wait, CalmInv, delegationVars, runVars
<1>3. CASE UNCHANGED runVars /\ ~MayWrite(e)
  BY <1>0, <1>1, <1>2, <1>3, Ids, CalmCall DEF Leave
<1>4. CASE status' \in Terminal
  <2>1. MessageHeld' BY <1>4 DEF MessageHeld
  <2> QED BY <1>0, <1>1, <1>2, <2>1, Ids, CalmMove DEF Leave, CalmInv
<1>5. ASSUME NEW s \in Terminal, NEW why, Finish(e, s, why) PROVE CalmInv'
  <2>1. CASE Holds(e) BY <1>4, <1>5, <2>1 DEF Finish, Terminal
  <2>2. CASE ~Holds(e) BY <1>3, <1>5, <2>2 DEF Finish, MayWrite, runVars
  <2> QED BY <2>1, <2>2
<1>6. CASE exec[e].abort = "none" /\ exec[e].state \in Asks /\ Wait(e)
  <2>1. CASE ~MayWrite(e) BY <1>3, <1>6, <2>1 DEF Wait, runVars
  <2>2. CASE MayWrite(e)
    <3>1. taskId # Message
      <4>1. "message" \notin Asks BY RemoteAssumption
      <4> QED BY <1>6, <2>2, <4>1, HeldOnlyToEnd DEF CalmInv
    <3>2. MessageHeld' BY <1>2, <3>1, Ids DEF MessageHeld
    <3> QED BY <1>0, <1>1, <1>2, <3>2, Ids, CalmMove DEF Leave, CalmInv
  <2> QED BY <2>1, <2>2
<1>7. CASE exec[e].abort = "lease_lost" /\ Forget(e)
  <2>1. MessageHeld'
    <3> SUFFICES ASSUME taskId = Message, status \notin Terminal, ~cancelRequested, ~overdue
                 PROVE  \E d \in Exec : holder = d /\ leaseLive /\ exec'[d].pc = "result"
                          /\ exec'[d].abort = "none" /\ exec'[d].got = Message
      BY <1>7 DEF Forget, MessageHeld, runVars, delegationVars
    <3>1. PICK d \in Exec : holder = d /\ leaseLive /\ exec[d].pc = "result" /\ exec[d].abort = "none"
                              /\ exec[d].got = Message
      BY DEF CalmInv, MessageHeld
    <3>2. exec'[d] = exec[d] BY <1>0, <1>2, <1>7, <3>1 DEF Leave
    <3> QED BY <3>1, <3>2
  <2> QED BY <1>0, <1>1, <1>2, <2>1, Ids, CalmMove DEF Leave, CalmInv
<1> QED BY <1>5, <1>6, <1>7 DEF Conclude, Terminal, CalmInv

\* A claim, a heartbeat, the end of a lease: a direct answer keeps a claim off
\* the run, and its execution is not told to stop unless there is a reason.
LEMMA LeaseCalm ==
  ASSUME Inv, Inv', CalmInv, ~Faulted',
         \/ LeaseExpires
         \/ \E e \in Exec : Claim(e) \/ Heartbeat(e) \/ Crash(e)
  PROVE  CalmInv'
<1>0. exec \in [Exec -> Call] /\ NoCall \in Call
  <2>1. exec \in [Exec -> Call] BY DEF Inv, RemoteInv, RemoteTypeOK
  <2>2. NoCall \in Call
    <3>1. 0 \in 0..MaxAnswers /\ NoTask \in StoredId BY RemoteAssumption, Ids
    <3> QED BY <3>1 DEF Call, NoCall, Place
  <2> QED BY <2>1, <2>2
<1>1. CASE LeaseExpires
  <2>1. UNCHANGED losses /\ exec[holder].pc = "idle" BY <1>1, FaultsAdd DEF LeaseExpires, Inv, RemoteInv
  <2>2. MessageHeld'
    BY <1>1, <2>1 DEF LeaseExpires, CalmInv, MessageHeld, delegationVars
  <2> QED BY <1>1, <2>2 DEF LeaseExpires, CalmInv, delegationVars
<1>2. ASSUME NEW e \in Exec, Claim(e) PROVE CalmInv'
  <2>1. taskId # Message
    <3> SUFFICES ASSUME taskId = Message PROVE FALSE OBVIOUS
    <3>1. status \notin Terminal BY <1>2 DEF Claim, Claimable, Terminal
    <3>2. status = "running" /\ leaseLive
      BY <1>2, <3>1, RemoteAssumption DEF Claim, CalmInv, MessageHeld, Inv, RemoteInv, LeaseInv
    <3> QED BY <1>2, <3>2 DEF Claim, Claimable
  <2> DEFINE x == [NoCall EXCEPT !.pc = "prepare"]
  <2>2. x \in Call BY <1>0, CallType DEF Place
  <2>3. x.state = "none" /\ x.task = NoTask /\ x.got = NoTask BY DEF NoCall
  <2>4. exec' = [exec EXCEPT ![e] = x] BY <1>2 DEF Claim
  <2> HIDE DEF x
  <2>5. MessageHeld' BY <1>2, <2>1 DEF Claim, MessageHeld, delegationVars
  <2> QED BY <1>2, <2>2, <2>3, <2>4, <2>5, Ids, CalmMove DEF Claim, CalmInv, delegationVars
<1>3. ASSUME NEW e \in Exec, Heartbeat(e) PROVE CalmInv'
  <2> DEFINE found == CASE ~Holds(e) -> "lease_lost" [] cancelRequested -> "cancelled"
                        [] overdue -> "timeout" [] OTHER -> "none"
             x == [exec[e] EXCEPT !.abort = found]
  <2>1. found \in {"lease_lost", "cancelled", "timeout"} /\ exec' = [exec EXCEPT ![e] = x]
        /\ UNCHANGED <<runVars, delegationVars>>
    BY <1>3 DEF Heartbeat
  <2>2. Holds(e) => cancelRequested \/ overdue BY <1>3 DEF Heartbeat
  <2> HIDE DEF found
  <2>3. x \in Call BY <1>0, <2>1, CallType
  <2>4. x.state = exec[e].state /\ x.task = exec[e].task /\ x.got = exec[e].got BY <1>0 DEF Call
  <2> HIDE DEF x
  <2>5. MessageHeld'
    <3> SUFFICES ASSUME taskId = Message, status \notin Terminal, ~cancelRequested, ~overdue
                 PROVE  \E d \in Exec : holder = d /\ leaseLive /\ exec'[d].pc = "result"
                          /\ exec'[d].abort = "none" /\ exec'[d].got = Message
      BY <2>1 DEF MessageHeld, runVars, delegationVars
    <3>1. PICK d \in Exec : holder = d /\ leaseLive /\ exec[d].pc = "result" /\ exec[d].abort = "none"
                              /\ exec[d].got = Message
      BY DEF CalmInv, MessageHeld
    <3>2. Holds(d) BY <3>1, RemoteAssumption DEF Holds, Inv, RemoteInv, LeaseInv
    <3>3. d # e BY <2>2, <3>2
    <3>4. exec'[d] = exec[d] BY <1>0, <2>1, <3>3
    <3> QED BY <3>1, <3>4
  <2> QED BY <2>1, <2>3, <2>4, <2>5, CalmMove DEF CalmInv, runVars, delegationVars
<1>4. ASSUME NEW e \in Exec, Crash(e) PROVE CalmInv'
  BY <1>4, FaultsAdd DEF Crash, Inv, RemoteInv
<1> QED BY <1>1, <1>2, <1>3, <1>4

\* The user, the deadline, the workers that cancel, the agent and the reapers.
LEMMA OutsideCalm ==
  ASSUME Inv, Inv', CalmInv,
         \/ Resume \/ RequestCancel \/ DeadlinePasses \/ TimeOut
         \/ \E c \in Canceller : CancelStep(c)
         \/ \E t \in TaskId : AgentWorks(t)
         \/ \E r \in Reaper : Reap(r) \/ ReapCrash(r)
         \/ UNCHANGED vars
  PROVE  CalmInv'
<1>1. CASE Resume
  <2>1. taskId # Message
    BY <1>1, RemoteAssumption DEF Resume, Terminal, CalmInv, MessageHeld, Inv, RemoteInv, LeaseInv
  <2>2. MessageHeld' BY <1>1, <2>1 DEF Resume, MessageHeld
  <2> QED BY <1>1, <2>2 DEF Resume, CalmInv
<1>2. CASE RequestCancel BY <1>2, CalmFrame DEF RequestCancel
<1>3. CASE DeadlinePasses BY <1>3, CalmFrame DEF DeadlinePasses, delegationVars
<1>4. CASE TimeOut BY <1>4, CalmFrame DEF TimeOut, Terminal, delegationVars
<1>5. ASSUME NEW c \in Canceller, CancelStep(c) PROVE CalmInv'
  <2>1. CASE PrepareCancel(c) \/ \E said \in {"final", "open", "error"} : CancelTask(c, said)
    BY <2>1, CalmFrame DEF PrepareCancel, CancelTask, runVars, delegationVars
  <2>2. CASE RecordRemoteCancellation(c)
    BY <2>2, CalmFrame DEF RecordRemoteCancellation, Terminal
  <2> QED BY <1>5, <2>1, <2>2 DEF CancelStep
<1>6. ASSUME NEW t \in TaskId, AgentWorks(t) PROVE CalmInv'
  BY <1>6, CalmFrame DEF AgentWorks, runVars, delegationVars
<1>7. ASSUME NEW r \in Reaper, Reap(r) \/ ReapCrash(r) PROVE CalmInv'
  BY <1>7, CalmFrame DEF Reap, ReapCrash, remoteVars, runVars, delegationVars
<1>8. CASE UNCHANGED vars
  BY <1>8, CalmFrame DEF vars, remoteVars, runVars, delegationVars
<1> QED BY <1>1, <1>2, <1>3, <1>4, <1>5, <1>6, <1>7, <1>8

\* Once something has gone wrong it stays so.
LEMMA FaultsStay == ASSUME Inv, Inv', Faulted, [Next]_vars PROVE Faulted'
<1> DEFINE Stays == (Fault \/ UNCHANGED failures) /\ losses' \in {losses, losses + 1}
<1> USE DEF faultVars
<1>1. Stays
  <2>1. ASSUME NEW e \in Exec, Claim(e) \/ Heartbeat(e) \/ Crash(e) PROVE Stays
    BY <2>1 DEF Claim, Heartbeat, Crash
  <2>2. ASSUME NEW e \in Exec, Send(e) \/ Get(e) \/ Continue(e) \/ CallFails(e) PROVE Stays
    BY <2>2 DEF Send, Get, Continue, TaskAnswer, DirectAnswer, CallFails, Answered
  <2>3. ASSUME NEW e \in Exec, Prepare(e) \/ Consume(e) \/ Aborted(e) \/ DeferRemoteTask(e) \/ RecordRemoteTask(e)
        PROVE  Stays
    BY <2>3 DEF Prepare, Consume, Aborted, DeferRemoteTask, RecordRemoteTask
  <2>4. ASSUME NEW e \in Exec, Ingest(e) \/ IngestStep(e) \/ Verify(e) PROVE Stays
    BY <2>4 DEF Ingest, IngestStep, Verify, remoteVars
  <2>5. ASSUME NEW e \in Exec, Conclude(e) PROVE Stays
    BY <2>5 DEF Conclude, Finish, Wait, Forget, Retry, Defer
  <2>6. CASE LeaseExpires \/ Resume \/ RequestCancel \/ DeadlinePasses \/ TimeOut
    BY <2>6 DEF LeaseExpires, Resume, RequestCancel, DeadlinePasses, TimeOut
  <2>7. ASSUME NEW c \in Canceller, CancelStep(c) PROVE Stays
    BY <2>7 DEF CancelStep, PrepareCancel, CancelTask, RecordRemoteCancellation
  <2>8. ASSUME NEW t \in TaskId, AgentWorks(t) PROVE Stays BY <2>8 DEF AgentWorks
  <2>9. ASSUME NEW r \in Reaper, Reap(r) \/ ReapCrash(r) PROVE Stays
    BY <2>9 DEF Reap, ReapCrash, remoteVars
  <2>10. CASE UNCHANGED vars BY <2>10 DEF vars, remoteVars
  <2> QED BY <2>1, <2>2, <2>3, <2>4, <2>5, <2>6, <2>7, <2>8, <2>9, <2>10 DEF Next, ExecStep
<1>2. Fault => failures' = failures + 1 BY DEF Fault
<1> QED BY <1>1, <1>2, FaultsAdd DEF Inv, RemoteInv

\* Until a call fails or an execution is lost, no child fails as unreachable and
\* none is polled under a made-up id.
THEOREM RemoteTransientNeedsFault == Spec => []TransientNeedsFault
<1>1. Init => FaultInv
  BY Ids DEF Init, FaultInv, CalmInv, MessageHeld, NoCall
<1>2. Inv /\ Inv' /\ FaultInv /\ [Next]_vars => FaultInv'
  <2> SUFFICES ASSUME Inv, Inv', FaultInv, [Next]_vars PROVE FaultInv' OBVIOUS
  <2>1. CASE Faulted BY <2>1, FaultsStay DEF FaultInv
  <2>2. CASE CalmInv /\ ~Faulted'
    BY <2>2, CallCalm, RecordCalm, IngestCalm, ConcludeCalm, LeaseCalm, OutsideCalm
       DEF Next, ExecStep, FaultInv
  <2> QED BY <2>1, <2>2 DEF FaultInv
<1>3. Inv /\ FaultInv => TransientNeedsFault
  <2>1. Inv => failures \in Nat /\ losses \in Nat
    BY RemoteAssumption DEF Inv, RemoteInv, RemoteTypeOK
  <2> QED BY <2>1 DEF FaultInv, Faulted, CalmInv, TransientNeedsFault
<1> QED BY <1>1, <1>2, <1>3, RemoteInvariant, PTL DEF Spec

=============================================================================
