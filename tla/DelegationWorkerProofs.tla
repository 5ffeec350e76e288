----------------------- MODULE DelegationWorkerProofs -----------------------
(***************************************************************************)
(* Whatever the workers, the queues and the crashes do, they move the      *)
(* tables only as AgentRuns allows; so every invariant of AgentRuns holds  *)
(* of the whole system.                                                    *)
(***************************************************************************)
EXTENDS DelegationWorker, AgentRunsBarrier

-----------------------------------------------------------------------------
(* Refinement *)

\* Each step of a child's workers and sweepers is a step of its tables or
\* leaves all tables alone.
LEMMA ChildStepRefines ==
  ASSUME NEW c \in Child, ChildStep(c)
  PROVE  [Next]_vars
  <1>1. CASE Execute(c)
    BY <1>1 DEF Execute, LookAtChild, LookAtParent, CancelOrphan, StartClaim, Claim, Next, ChildNext
  <1>2. CASE Beat(c) \/ ChildLeaseExpires(c)
    BY <1>2 DEF Beat, ChildLeaseExpires, Next, RunNext, Run
  <1>3. CASE Abandon(c) \/ Crash(c) \/ SweepStale(c)
    BY <1>3 DEF Abandon, Crash, SweepStale
  <1>4. CASE Delegate(c) \/ SweepDispatch(c) \/ SweepTerminal(c)
    BY <1>4 DEF Delegate, SweepDispatch, SweepTerminal, Next, ChildNext
  <1>6. CASE Send(c) \/ Mark(c) \/ GiveUp(c)
    BY <1>6 DEF Send, Mark, GiveUp, Next, ChildNext
  <1>5. ASSUME NEW o \in Outcomes, Finish(c, o) PROVE [Next]_vars
    BY <1>5 DEF Finish, Next, RunNext, Run
  <1>. QED BY <1>1, <1>2, <1>3, <1>4, <1>5, <1>6 DEF ChildStep

\* So is each step of a remote execution, of its user and of its cancellation.
LEMMA RemoteStepRefines ==
  ASSUME NEW c \in RemoteChild, RemoteStep(c)
  PROVE  [Next]_vars
  BY DEF RemoteStep, RecordTask, Defer, AskUser, Answer, CancelRemote, Next, RemoteNext

\* And each step of the parent's processes and sweepers.
LEMMA ParentStepRefines ==
  ASSUME ParentStep
  PROVE  [Next]_vars
  <1>1. Parent \in Run  BY DEF Run
  <1>2. ASSUME NEW o \in Outcomes, ParentFinishes(o) PROVE [Next]_vars
    BY <1>1, <1>2 DEF ParentFinishes, Next, ParentNext, RunNext
  <1>3. ASSUME NEW kind \in {"delegation", "goal"}, ParentSuspends(kind) PROVE [Next]_vars
    BY <1>3 DEF ParentSuspends, Next, ParentNext
  <1>4. CASE ParentBeat \/ ParentLeaseExpires
    BY <1>1, <1>4 DEF ParentBeat, ParentLeaseExpires, Next, RunNext
  <1>5. CASE ParentAbandons \/ ParentCrash \/ SweepResume
    BY <1>5 DEF ParentAbandons, ParentCrash, SweepResume
  <1>6. CASE ResumeParent
    BY <1>6 DEF ResumeParent, Next, ParentNext
  <1>7. CASE SweepParent \/ ((CommitCancellation \/ ReviseRunGoal) /\ UNCHANGED workerVars)
    BY <1>7 DEF SweepParent, Next, ParentNext
  <1>. QED BY <1>2, <1>3, <1>4, <1>5, <1>6, <1>7 DEF ParentStep

\* Every step of the system is a step of its tables or leaves them alone.
LEMMA WorkerStepRefines == [WorkerNext]_allVars => [Next]_vars
  <1> SUFFICES ASSUME [WorkerNext]_allVars PROVE [Next]_vars
    OBVIOUS
  <1>1. CASE UNCHANGED allVars
    BY <1>1 DEF allVars
  <1>2. ASSUME NEW r \in Run, RunStep(r) PROVE [Next]_vars
    BY <1>2 DEF RunStep, Cancel, Next, RunNext
  <1>. QED BY <1>1, <1>2, ChildStepRefines, RemoteStepRefines, ParentStepRefines DEF WorkerNext

\* The workers move the tables only as the run repository does, so what is proved
\* of it holds of the whole system.
THEOREM WorkerImplementsRuns == WorkerSpec => Spec
  <1>1. WorkerInit => Init  BY DEF WorkerInit
  <1>. QED BY <1>1, WorkerStepRefines, PTL DEF WorkerSpec, Spec

\* Under the workers, whatever is lost or crashes: leases stay disciplined, a
\* child's join and reservation are settled in the step that ends it, the root
\* budget is exact, the limits on children hold, a suspended parent is not
\* forgotten, no work outlives its goal and no cancelled run succeeds.
THEOREM WorkerSafety ==
  WorkerSpec => [](/\ LeaseDiscipline /\ ChildSettlement /\ BudgetExact
                   /\ RunningCap /\ ParallelismBounded /\ ParentWakeup
                   /\ GoalBoundary /\ CancelledNeverSucceeds)
  <1>1. IInv => LeaseDiscipline /\ ChildSettlement /\ BudgetExact  BY DEF IInv
  <1>. QED
    BY <1>1, WorkerImplementsRuns, Invariance, SiblingCap, LiveChildrenCapped,
       ParentNeverForgotten, GoalBoundaryKept, CancellationWins, PTL

\* So the whole system keeps the promise of the barrier to a run that delegates.
THEOREM WorkerImplementsBarrier == WorkerSpec => ImplementsBarrier
  BY WorkerImplementsRuns, RepositoryImplementsBarrier, PTL

\* And of the contract of a row of agent_run, for each run.
THEOREM WorkerImplementsLifecycle == WorkerSpec => ImplementsLifecycle
  BY WorkerImplementsRuns, RepositoryImplementsLifecycle, PTL

-----------------------------------------------------------------------------
(* The workers' own state *)

\* What an execute() has read is there when it uses it, it cancels only children
\* of a parent that is cancelled or has ended, and only rows that exist have
\* dispatches, publications, jobs, execute() calls or processes.
CallsInv ==
  \A c \in Child :
    /\ pc[c] = "claim" => candidate[c] # NoCandidate
    /\ pc[c] = "cancel" => FamilyEnds
    /\ dispatch[c] # "none" \/ job[c] \/ pc[c] # "idle" \/ exec[c] => status[c] # "absent"
    /\ due[c] > 0 \/ sent[c] > 0 => status[c] # "absent"

\* A child under a live lease has its process, unless that was lost or is a
\* remote execution that gave up a cancelled or overdue run, or one whose family
\* ends.
ExecutorInv ==
  \A c \in Child :
    status[c] = "running" /\ leaseLive[c] =>
      exec[c] \/ losses > 0 \/ (c \in RemoteChild /\ (cancelRequested[c] \/ overdue[c] \/ FamilyEnds))

WInv == WorkerTypeOK /\ CallsInv /\ ExecutorInv

\* What a step that is none of child d's leaves of d.
Quiet(d) ==
  /\ pc'[d] = pc[d] /\ job'[d] = job[d] /\ exec'[d] = exec[d]
  /\ candidate'[d] = candidate[d] /\ dispatch'[d] = dispatch[d]
  /\ due'[d] = due[d] /\ sent'[d] = sent[d]
  /\ leaseLive'[d] => leaseLive[d]
  /\ Awaits(d)' => Awaits(d)

\* The steps of another child.
LEMMA NeighbourQuiet ==
  ASSUME IInv, WorkerTypeOK, NEW c \in Child, NEW d \in Child \ {c},
         ChildStep(c) \/ (c \in RemoteChild /\ RemoteStep(c))
  PROVE  Quiet(d)
  <1>0. Shape /\ c \in Run /\ d \in Run /\ d # c
    BY DEF IInv, Run
  <1> USE <1>0 DEF Shape, WorkerTypeOK, Quiet, Awaits, runVars, publications, Publish
  <1>1. CASE Execute(c)
    <2>1. CASE LookAtChild(c) \/ LookAtParent(c)
      BY <2>1 DEF LookAtChild, LookAtParent, Goto, vars, childVars, txVars
    <2>2. CASE CancelOrphan(c)
      BY <2>2 DEF CancelOrphan, CancelQueued, Leave, Goto, vars, childVars, txVars
    <2>3. CASE StartClaim(c)
      BY <2>3 DEF StartClaim, ReadCandidate, Goto, childVars, txVars
    <2>4. CASE Claim(c)
      BY <2>4 DEF Claim, ClaimQueued, RefuseCandidate, LeaseCandidate, Leave, Lease, Goto
    <2>. QED BY <1>1, <2>1, <2>2, <2>3, <2>4 DEF Execute
  <1>2. CASE Beat(c) \/ ChildLeaseExpires(c)
    BY <1>2 DEF Beat, ChildLeaseExpires, Heartbeat, LeaseExpires, workerVars, childVars, txVars
  <1>3. CASE Abandon(c) \/ Crash(c) \/ SweepStale(c)
    BY <1>3 DEF Abandon, Crash, SweepStale, Stop, Goto, Enqueue, vars, childVars, txVars
  <1>4. CASE Delegate(c)
    BY <1>4 DEF Delegate, CreateDelegated, workerVars, txVars
  <1>5. CASE SweepDispatch(c)
    BY <1>5 DEF SweepDispatch, vars, childVars, txVars
  <1>9. CASE Send(c)
    BY <1>9 DEF Send, Enqueue, vars, childVars, txVars
  <1>10. CASE Mark(c)
    BY <1>10 DEF Mark, MarkDispatched, vars, childVars, txVars
  <1>11. CASE GiveUp(c)
    BY <1>11 DEF GiveUp, vars, childVars, txVars
  <1>6. CASE SweepTerminal(c)
    BY <1>6 DEF SweepTerminal, ReconcileChild, Leave, txVars
  <1>7. ASSUME NEW o \in Outcomes, Finish(c, o) PROVE Quiet(d)
    BY <1>7 DEF Finish, FinishRunning, Leave, Stop, childVars, txVars
  <1>8. CASE RemoteStep(c)
    <2>1. CASE RecordTask(c)
      BY <2>1 DEF RecordTask, RecordRemoteTask, workerVars, txVars
    <2>5. CASE Answer(c)
      BY <2>5 DEF Answer, ReadResume, Resume, workerVars, childVars, txVars
    <2>2. CASE Defer(c)
      BY <2>2 DEF Defer, DeferRemoteTask, Leave, Stop, Enqueue, txVars
    <2>3. CASE CancelRemote(c)
      BY <2>3 DEF CancelRemote, RetryRemoteCancellation, CompleteRemoteCancellation, Leave, txVars
    <2>4. ASSUME NEW s, AskUser(c, s) PROVE Quiet(d)
      BY <2>4 DEF AskUser, Wait, Leave, Stop, childVars, txVars
    <2>. QED BY <1>8, <2>1, <2>2, <2>3, <2>4, <2>5 DEF RemoteStep
  <1>. QED BY <1>1, <1>2, <1>3, <1>4, <1>5, <1>6, <1>7, <1>8, <1>9, <1>10, <1>11 DEF ChildStep

\* The steps of the parent, of users and of time.
LEMMA OutsideQuiet ==
  ASSUME IInv, NEW d \in Child,
         ParentStep \/ (\E r \in Run : RunStep(r)) \/ UNCHANGED allVars
  PROVE  Quiet(d) /\ losses' = losses
  <1>0. Shape /\ Parent \in Run /\ d \in Run /\ d # Parent
    BY FamilyAssumption DEF IInv, Run
  <1> USE <1>0 DEF Shape, Quiet, Awaits, runVars, childVars, txVars, publications
  <1>1. ASSUME NEW s, EndParent(s), UNCHANGED workerVars \/ ParentStops PROVE Quiet(d) /\ losses' = losses
    BY <1>1 DEF EndParent, Leave, workerVars, ParentStops
  <1>2. ASSUME NEW o \in Outcomes, ParentFinishes(o) PROVE Quiet(d) /\ losses' = losses
    <2>1. CASE FinishRunning(Parent, o)
      BY <1>2, <2>1 DEF ParentFinishes, FinishRunning, Leave, ParentStops
    <2>2. CASE FinishParentResume(o) \/ SuspendEnds
      BY <1>1, <1>2, <2>2 DEF ParentFinishes, FinishParentResume, SuspendEnds
    <2>. QED BY <1>2, <2>1, <2>2 DEF ParentFinishes
  <1>3. ASSUME NEW kind \in {"delegation", "goal"}, ParentSuspends(kind)
        PROVE  Quiet(d) /\ losses' = losses
    BY <1>3 DEF ParentSuspends, SuspendParent, Leave, ParentStops
  <1>4. CASE ParentBeat \/ ParentLeaseExpires
    BY <1>4 DEF ParentBeat, ParentLeaseExpires, Heartbeat, LeaseExpires, workerVars
  <1>5. CASE ParentAbandons \/ ParentCrash \/ SweepResume
    BY <1>5 DEF ParentAbandons, ParentCrash, SweepResume, ParentStops, vars
  <1>6. CASE ResumeParent
    BY <1>6 DEF ResumeParent, ExpireParent, EndParent, Leave, ClaimParentResume, Lease, vars
  <1>7. CASE SweepParent
    BY <1>1, <1>7 DEF SweepParent, ReconcileParent, ReapParent
  <1>8. CASE (CommitCancellation \/ ReviseRunGoal) /\ UNCHANGED workerVars
    BY <1>8 DEF CommitCancellation, ReviseRunGoal, workerVars
  <1>9. ASSUME NEW r \in Run, RunStep(r) PROVE Quiet(d) /\ losses' = losses
    BY <1>9 DEF RunStep, Cancel, BeginCancellation, DeadlinePasses, workerVars
  <1>10. CASE UNCHANGED allVars
    BY <1>10 DEF allVars, vars, workerVars
  <1>. QED BY <1>2, <1>3, <1>4, <1>5, <1>6, <1>7, <1>8, <1>9, <1>10 DEF ParentStep

\* No step takes a loss back.
LEMMA LossStep ==
  WorkerTypeOK /\ [WorkerNext]_allVars => losses' \in 0..MaxLosses /\ losses' >= losses
  <1> SUFFICES ASSUME WorkerTypeOK, [WorkerNext]_allVars PROVE Lose \/ losses' = losses
    BY WorkerAssumption DEF WorkerTypeOK, Lose
  <1>1. ASSUME NEW c \in Child, ChildStep(c) PROVE Lose \/ losses' = losses
    BY <1>1 DEF ChildStep, Execute, LookAtChild, LookAtParent, CancelOrphan, StartClaim, Claim, Beat,
       Abandon, Delegate, ChildLeaseExpires, Crash, Finish, Send, Mark, GiveUp, SweepDispatch, SweepStale,
       SweepTerminal, workerVars
  <1>2. ASSUME NEW c \in RemoteChild, RemoteStep(c) PROVE Lose \/ losses' = losses
    BY <1>2 DEF RemoteStep, RecordTask, Defer, Answer, CancelRemote, AskUser, workerVars
  <1>3. ParentStep => losses' = losses
    BY DEF ParentStep, ParentFinishes, ParentSuspends, ParentBeat, ParentAbandons, ResumeParent,
       SweepResume, SweepParent, ParentLeaseExpires, ParentCrash, ParentStops, workerVars
  <1>4. ASSUME NEW r \in Run, RunStep(r) PROVE losses' = losses
    BY <1>4 DEF RunStep, Cancel, workerVars
  <1>5. UNCHANGED allVars => losses' = losses
    BY DEF allVars, workerVars
  <1>. QED BY <1>1, <1>2, <1>3, <1>4, <1>5 DEF WorkerNext

\* The flags of the parent keep their type.
LEMMA FlagStep ==
  WorkerTypeOK /\ [WorkerNext]_allVars => parentExec' \in BOOLEAN /\ resumeJob' \in BOOLEAN
  <1> SUFFICES ASSUME WorkerTypeOK, [WorkerNext]_allVars
               PROVE  parentExec' \in BOOLEAN /\ resumeJob' \in BOOLEAN
    OBVIOUS
  <1> DEFINE Flags == parentExec' \in BOOLEAN /\ resumeJob' \in BOOLEAN
  <1>0. parentExec \in BOOLEAN /\ resumeJob \in BOOLEAN
    BY DEF WorkerTypeOK
  <1>1. NotifyParent => resumeJob' \in BOOLEAN
    BY <1>0 DEF NotifyParent
  <1>2. UNCHANGED <<parentExec, resumeJob>> => Flags
    BY <1>0
  <1>3. ParentStops => Flags
    BY <1>0 DEF ParentStops
  <1>4. ASSUME NEW c \in Child, ChildStep(c) PROVE Flags
    <2>1. CASE LookAtChild(c)
      <3>1. resumeJob' \in {resumeJob, resumeJob \/ resumeDispatch # 0} \/ resumeJob' = resumeJob
        BY <2>1 DEF LookAtChild
      <3>2. parentExec' = parentExec
        BY <2>1 DEF LookAtChild
      <3>. QED BY <1>0, <3>1, <3>2
    <2>2. CASE CancelOrphan(c)
      <3>1. NotifyParent \/ resumeJob' = resumeJob
        BY <2>2 DEF CancelOrphan
      <3>2. parentExec' = parentExec
        BY <2>2 DEF CancelOrphan
      <3>. QED BY <1>0, <1>1, <3>1, <3>2
    <2>3. CASE SweepTerminal(c) \/ \E o \in Outcomes : Finish(c, o)
      <3>1. NotifyParent /\ parentExec' = parentExec
        BY <2>3 DEF SweepTerminal, Finish
      <3>. QED BY <1>0, <1>1, <3>1
    <2>4. CASE \/ LookAtParent(c) \/ StartClaim(c) \/ Claim(c) \/ Beat(c) \/ Abandon(c) \/ Delegate(c)
               \/ ChildLeaseExpires(c) \/ Crash(c) \/ SweepDispatch(c) \/ SweepStale(c)
               \/ Send(c) \/ Mark(c) \/ GiveUp(c)
      <3>1. UNCHANGED <<parentExec, resumeJob>>
        BY <2>4 DEF LookAtParent, StartClaim, Claim, Beat, Abandon, Delegate, ChildLeaseExpires, Crash,
           SweepDispatch, SweepStale, Send, Mark, GiveUp, workerVars
      <3>. QED BY <1>2, <3>1
    <2>. QED BY <1>4, <2>1, <2>2, <2>3, <2>4 DEF ChildStep, Execute
  <1>5. ASSUME NEW c \in RemoteChild, RemoteStep(c) PROVE Flags
    <2>1. parentExec' = parentExec /\ (NotifyParent \/ resumeJob' = resumeJob)
      BY <1>5 DEF RemoteStep, RecordTask, Defer, Answer, CancelRemote, AskUser, workerVars
    <2>. QED BY <1>0, <1>1, <2>1
  <1>6. CASE ParentStep
    <2>1. CASE ResumeParent
      <3>1. resumeJob' = FALSE /\ (parentExec' = TRUE \/ parentExec' = parentExec)
        BY <2>1 DEF ResumeParent
      <3>. QED BY <1>0, <3>1
    <2>2. CASE SweepResume
      BY <1>0, <2>2 DEF SweepResume
    <2>3. CASE ~(ResumeParent \/ SweepResume)
      <3>1. ParentStops \/ UNCHANGED workerVars
        BY <1>6, <2>3 DEF ParentStep, ParentFinishes, ParentSuspends, ParentBeat, ParentAbandons,
           SweepParent, ParentLeaseExpires, ParentCrash
      <3>. QED BY <1>2, <1>3, <3>1 DEF workerVars
    <2>. QED BY <2>1, <2>2, <2>3
  <1>7. ASSUME NEW r \in Run, RunStep(r) PROVE Flags
    <2>1. UNCHANGED <<parentExec, resumeJob>>
      BY <1>7 DEF RunStep, Cancel, workerVars
    <2>. QED BY <1>2, <2>1
  <1>8. UNCHANGED allVars => Flags
    BY <1>2 DEF allVars, workerVars
  <1>. QED BY <1>4, <1>5, <1>6, <1>7, <1>8 DEF WorkerNext

\* So do the jobs, the execute() calls and the processes of the children.
LEMMA WorkerTypeStep ==
  WorkerTypeOK /\ [WorkerNext]_allVars => WorkerTypeOK' /\ losses' >= losses
  <1> SUFFICES ASSUME WorkerTypeOK, [WorkerNext]_allVars PROVE WorkerTypeOK' /\ losses' >= losses
    OBVIOUS
  <1> DEFINE Kept == /\ job' \in [Child -> BOOLEAN] /\ exec' \in [Child -> BOOLEAN]
                     /\ pc' \in [Child -> {"idle", "parent", "cancel", "read", "claim"}]
                     /\ due' \in [Child -> Nat] /\ sent' \in [Child -> Nat]
  <1>1. UNCHANGED <<job, pc, exec, publications>> => Kept
    BY DEF WorkerTypeOK, publications
  <1>0. RemoteChild \subseteq Child
    BY FamilyAssumption
  <1>2. ASSUME NEW c \in Child, ChildStep(c) \/ RemoteStep(c) PROVE Kept
    <2>0. \A f \in [Child -> Nat] :
            /\ [f EXCEPT ![c] = @ + 1] \in [Child -> Nat]
            /\ f[c] > 0 => [f EXCEPT ![c] = @ - 1] \in [Child -> Nat]
      OBVIOUS
    <2>p. Publish(c) \/ UNCHANGED due => due' \in [Child -> Nat]
      BY <2>0 DEF Publish, WorkerTypeOK
    <2> USE DEF WorkerTypeOK, Stop, Goto, Enqueue, publications
    <2>1. CASE LookAtChild(c)
      BY <2>1 DEF LookAtChild
    <2>2. CASE LookAtParent(c) \/ CancelOrphan(c) \/ StartClaim(c)
      BY <2>2 DEF LookAtParent, CancelOrphan, StartClaim
    <2>3. CASE Claim(c)
      BY <2>3 DEF Claim
    <2>4. CASE Abandon(c) \/ SweepStale(c) \/ Crash(c)
      BY <2>4 DEF Abandon, SweepStale, Crash
    <2>5. CASE SweepTerminal(c) \/ CancelRemote(c) \/ ChildLeaseExpires(c)
      BY <2>5 DEF SweepTerminal, CancelRemote, ChildLeaseExpires
    <2>6. CASE \/ \E o \in Outcomes : Finish(c, o)
               \/ \E s \in {"waiting_input", "waiting_approval"} : AskUser(c, s)
      BY <2>6 DEF Finish, AskUser
    <2>7. CASE Beat(c) \/ RecordTask(c)
      BY <1>1, <2>7 DEF Beat, RecordTask, workerVars
    <2>8. CASE Defer(c) \/ Delegate(c) \/ SweepDispatch(c) \/ Answer(c)
      <3>1. Publish(c) \/ UNCHANGED due
        BY <2>8 DEF Defer, Delegate, SweepDispatch, Answer, workerVars
      <3>2. /\ job' = job /\ pc' = pc /\ sent' = sent
            /\ exec' = exec \/ exec' = [exec EXCEPT ![c] = FALSE]
        BY <2>8 DEF Defer, Delegate, SweepDispatch, Answer, workerVars
      <3>. QED BY <2>p, <3>1, <3>2
    <2>9. CASE Send(c)
      BY <2>0, <2>9 DEF Send
    <2>10. CASE Mark(c)
      BY <2>0, <2>10 DEF Mark
    <2>11. CASE GiveUp(c)
      BY <2>0, <2>11 DEF GiveUp
    <2>. QED BY <1>2, <2>1, <2>2, <2>3, <2>4, <2>5, <2>6, <2>7, <2>8, <2>9, <2>10, <2>11
             DEF ChildStep, Execute, RemoteStep
  <1>3. ParentStep => UNCHANGED <<job, pc, exec, publications>>
    BY DEF ParentStep, ParentFinishes, ParentSuspends, ParentBeat, ParentAbandons, ResumeParent,
       SweepResume, SweepParent, ParentLeaseExpires, ParentCrash, ParentStops, workerVars
  <1>4. ASSUME NEW r \in Run, RunStep(r) PROVE UNCHANGED <<job, pc, exec, publications>>
    BY <1>4 DEF RunStep, Cancel, workerVars
  <1>5. UNCHANGED allVars => UNCHANGED <<job, pc, exec, publications>>
    BY DEF allVars, workerVars
  <1>7. Kept
    BY <1>0, <1>1, <1>2, <1>3, <1>4, <1>5 DEF WorkerNext
  <1>. QED BY <1>7, LossStep, FlagStep DEF WorkerTypeOK

\* What the invariant says of one child.
CallInv(d) ==
  /\ pc[d] = "claim" => candidate[d] # NoCandidate
  /\ pc[d] = "cancel" => FamilyEnds
  /\ dispatch[d] # "none" \/ job[d] \/ pc[d] # "idle" \/ exec[d] => status[d] # "absent"
  /\ due[d] > 0 \/ sent[d] > 0 => status[d] # "absent"
  /\ status[d] = "running" /\ leaseLive[d] =>
       exec[d] \/ losses > 0 \/ (d \in RemoteChild /\ (cancelRequested[d] \/ overdue[d] \/ FamilyEnds))

\* Nothing a step takes back can break it: not for a child it leaves alone ...
LEMMA QuietCall ==
  ASSUME LInv, WInv, [WorkerNext]_allVars, NEW d \in Child, Quiet(d)
  PROVE  CallInv(d)'
  <1>1. /\ d \in Run /\ Parent \in Run /\ LifeStep(d) /\ LifeStep(Parent)
        /\ losses' >= losses /\ losses \in Nat /\ losses' \in Nat
    BY WorkerStepRefines, LifeKept, WorkerTypeStep, WorkerAssumption DEF Run, WInv, WorkerTypeOK
  <1>2. CallInv(d) /\ (leaseLive[d] => status[d] = "running")
    BY <1>1 DEF WInv, CallsInv, ExecutorInv, CallInv, LInv, IInv, LeaseDiscipline
  <1>3. /\ FamilyEnds => FamilyEnds'
        /\ status[d] # "absent" => status'[d] # "absent"
        /\ cancelRequested[d] \/ overdue[d] => cancelRequested'[d] \/ overdue'[d]
    BY <1>1, NothingTakenBack DEF FamilyEnds
  <1>. QED BY <1>1, <1>2, <1>3 DEF CallInv, Quiet

\* ... nor for the child whose step it is.
LEMMA OwnCall ==
  ASSUME LInv, TokenInv, WInv, [WorkerNext]_allVars, NEW c \in Child,
         ChildStep(c) \/ (c \in RemoteChild /\ RemoteStep(c))
  PROVE  CallInv(c)'
  <1>0. /\ c \in Run /\ Parent \in Run /\ LifeStep(c) /\ LifeStep(Parent) /\ Shape /\ LeaseDiscipline
        /\ losses' >= losses /\ losses \in Nat /\ losses' \in Nat /\ WorkerTypeOK /\ WorkerTypeOK'
    BY WorkerStepRefines, LifeKept, WorkerTypeStep, WorkerAssumption
       DEF Run, WInv, WorkerTypeOK, LInv, IInv
  <1>1. CallInv(c) /\ (leaseLive[c] => status[c] = "running")
    BY <1>0 DEF WInv, CallsInv, ExecutorInv, CallInv, LeaseDiscipline
  <1>2. /\ FamilyEnds => FamilyEnds'
        /\ status[c] # "absent" => status'[c] # "absent"
        /\ cancelRequested[c] \/ overdue[c] => cancelRequested'[c] \/ overdue'[c]
        /\ status[c] \in Terminal => status'[c] = status[c]
    BY <1>0, NothingTakenBack DEF FamilyEnds
  <1>3. "running" \notin Terminal /\ "absent" \notin Terminal /\ "absent" \notin Claimable
    BY DEF Terminal, Claimable
  <1>4. ASSUME NEW s, Leave(c, s), s # "running" PROVE ~(status'[c] = "running")
    BY <1>0, <1>4 DEF Leave, Shape
  <1> USE DEF WorkerTypeOK, Stop, Goto, Enqueue, runVars, childVars, txVars, publications
  <1>5. CASE Execute(c)
    <2>1. CASE LookAtChild(c)
      BY <1>0, <1>1, <1>2, <2>1 DEF LookAtChild, CallInv, vars
    <2>2. CASE LookAtParent(c)
      BY <1>0, <1>1, <1>2, <2>2 DEF LookAtParent, CallInv, vars
    <2>3. CASE CancelOrphan(c)
      <3>1. pc'[c] = "idle" /\ status[c] # "absent" /\ exec' = exec /\ job' = job
        BY <1>0, <1>1, <2>3 DEF CancelOrphan, CallInv
      <3>2. CASE status[c] \in Claimable
        <4>1. Leave(c, "cancelled") /\ dispatch' = dispatch
          BY <2>3, <3>2 DEF CancelOrphan, CancelQueued
        <4>. QED BY <1>2, <1>4, <3>1, <4>1 DEF CallInv
      <3>3. CASE status[c] \notin Claimable
        BY <1>0, <1>1, <1>2, <2>3, <3>1, <3>3 DEF CancelOrphan, CallInv, vars
      <3>. QED BY <3>2, <3>3
    <2>4. CASE StartClaim(c)
      <3>1. candidate'[c] # NoCandidate \/ candidate'[c].verdict = "none"
        BY DEF NoCandidate
      <3>2. candidate'[c].verdict \in {"late", "lease", "refuse"}
        BY <1>0, <2>4 DEF StartClaim, ReadCandidate, Shape
      <3>3. candidate'[c] # NoCandidate
        BY <3>1, <3>2
      <3>. QED BY <1>0, <1>1, <1>2, <2>4, <3>3 DEF StartClaim, ReadCandidate, CallInv
    <2>5. CASE Claim(c)
      <3>1. pc'[c] = "idle" /\ status[c] # "absent"
        BY <1>0, <1>1, <2>5 DEF Claim, CallInv
      <3>2. status'[c] = "running" /\ leaseLive'[c] =>
              exec'[c] \/ losses' > 0
              \/ (c \in RemoteChild /\ (cancelRequested'[c] \/ overdue'[c] \/ FamilyEnds'))
        <4>1. CASE status'[c] = "running" /\ leaseToken'[c] # leaseToken[c]
          BY <1>0, <2>5, <4>1 DEF Claim
        <4>2. CASE leaseToken'[c] = leaseToken[c] /\ status'[c] = "running" /\ leaseLive'[c]
          <5>1. UNCHANGED <<status, leaseLive>>
            <6>1. ASSUME NEW s \in {"cancelled", "timed_out"} PROVE ~Leave(c, s)
              BY <1>4, <4>2, <6>1
            <6>2. ~Lease(c)
              BY <1>0, <1>3, <4>2 DEF Lease, Shape, LeaseDiscipline
            <6>. QED BY <2>5, <6>1, <6>2 DEF Claim, ClaimQueued, RefuseCandidate, LeaseCandidate
          <5>2. exec'[c] = exec[c] /\ losses' = losses
            BY <1>0, <2>5, <4>2 DEF Claim
          <5>. QED BY <1>1, <1>2, <4>2, <5>1, <5>2 DEF CallInv
        <4>. QED BY <4>1, <4>2
      <3>. QED BY <1>2, <3>1, <3>2 DEF CallInv
    <2>. QED BY <1>5, <2>1, <2>2, <2>3, <2>4, <2>5 DEF Execute
  <1>6. CASE Beat(c)
    BY <1>0, <1>1, <1>2, <1>6 DEF Beat, Heartbeat, workerVars, CallInv
  <1>7. CASE ChildLeaseExpires(c)
    BY <1>0, <1>1, <1>2, <1>7 DEF ChildLeaseExpires, LeaseExpires, CallInv, Shape
  <1>8. CASE Abandon(c)
    <2>1. status[c] = "running" /\ leaseLive[c] =>
            c \in RemoteChild /\ (cancelRequested[c] \/ overdue[c] \/ FamilyEnds)
      <3>1. ASSUME status[c] = "running", leaseLive[c] PROVE Holds(c)
        <4>1. leaseToken[c] # 0
          BY <1>0, <3>1 DEF TokenInv
        <4>. QED BY <3>1, <4>1 DEF Holds, LeaseAccepted
      <3>. QED BY <1>8, <3>1 DEF Abandon, MayContinue, DeadlineAhead
    <2>. QED BY <1>0, <1>1, <1>2, <1>8, <2>1 DEF Abandon, CallInv, vars
  <1>9. CASE Crash(c)
    BY <1>0, <1>1, <1>2, <1>9 DEF Crash, Lose, CallInv, vars
  <1>10. CASE Delegate(c)
    <2>1. status'[c] = "queued" /\ status[c] = "absent"
          /\ UNCHANGED <<candidate, job, pc, exec, losses>>
      BY <1>0, <1>10 DEF Delegate, CreateDelegated, Shape
    <2>. QED BY <1>0, <1>1, <1>2, <2>1 DEF CallInv
  <1>11. CASE SweepDispatch(c)
    <2>1. UNCHANGED vars /\ UNCHANGED <<job, sent, pc, exec, losses>> /\ dispatch[c] = "pending"
      BY <1>11 DEF SweepDispatch
    <2>. QED BY <1>0, <1>1, <1>2, <2>1 DEF CallInv, vars
  <1>16. CASE Send(c)
    <2>1. status[c] # "absent"
      BY <1>1, <1>16 DEF Send, CallInv
    <2>. QED BY <1>0, <1>1, <1>2, <1>16, <2>1 DEF Send, CallInv, vars
  <1>17. CASE Mark(c)
    <2>1. status[c] # "absent"
      BY <1>1, <1>17 DEF Mark, CallInv
    <2>2. UNCHANGED <<status, leaseLive, cancelRequested, overdue, candidate, job, pc, exec, losses>>
      BY <1>17 DEF Mark, MarkDispatched, vars
    <2>. QED BY <1>0, <1>1, <1>2, <2>1, <2>2 DEF CallInv
  <1>18. CASE GiveUp(c)
    <2>1. status[c] # "absent"
      BY <1>1, <1>18 DEF GiveUp, CallInv
    <2>. QED BY <1>0, <1>1, <1>2, <1>18, <2>1 DEF GiveUp, CallInv, vars
  <1>12. CASE SweepStale(c)
    <2>1. status[c] # "absent"
      BY <1>12 DEF SweepStale, Stale
    <2>. QED BY <1>0, <1>1, <1>2, <1>12, <2>1 DEF SweepStale, CallInv, vars
  <1>13. CASE SweepTerminal(c)
    <2>1. status[c] # "absent" /\ ~(status'[c] = "running")
      <3>1. CASE Expired(c)
        BY <1>4, <1>13, <3>1 DEF SweepTerminal, ReconcileChild, Expired, Waiting
      <3>2. CASE ~Expired(c)
        BY <1>3, <1>13, <3>2 DEF SweepTerminal, ReconcileChild
      <3>. QED BY <3>1, <3>2
    <2>. QED BY <1>1, <1>2, <1>13, <2>1 DEF SweepTerminal, ReconcileChild, CallInv
  <1>14. ASSUME NEW o \in Outcomes, Finish(c, o) PROVE CallInv(c)'
    <2>1. PICK s \in Terminal : Leave(c, s)
      BY <1>14, ClassifyTerminal DEF Finish, FinishRunning
    <2>3. s # "running" /\ status[c] # "absent"
      BY <1>3, <1>14 DEF Finish, FinishRunning, Holds
    <2>2. ~(status'[c] = "running")
      BY <1>4, <2>1, <2>3
    <2>. QED BY <1>1, <1>2, <1>14, <2>2, <2>3 DEF Finish, FinishRunning, CallInv
  <1>15. CASE c \in RemoteChild /\ RemoteStep(c)
    <2>1. CASE RecordTask(c)
      BY <1>0, <1>1, <1>2, <2>1 DEF RecordTask, RecordRemoteTask, workerVars, CallInv
    <2>2. CASE Defer(c)
      <3>1. status[c] # "absent" /\ ~(status'[c] = "running")
        BY <1>4, <2>2 DEF Defer, DeferRemoteTask, MayContinue, Holds
      <3>. QED BY <1>1, <1>2, <2>2, <3>1 DEF Defer, DeferRemoteTask, CallInv
    <2>3. CASE Answer(c)
      <3>1. CASE ReadResume(c) /\ UNCHANGED workerVars
        BY <1>0, <1>1, <1>2, <3>1 DEF ReadResume, workerVars, CallInv
      <3>2. CASE Resume(c)
        <4>1. /\ UNCHANGED <<leaseLive, cancelRequested, overdue, candidate, job, sent, pc, exec, losses>>
              /\ UNCHANGED <<status, dispatch>> \/ status'[c] = "queued"
              /\ UNCHANGED due \/ status'[c] # status[c]
          BY <1>0, <2>3, <3>2 DEF Answer, Resume, Shape, ReadResume
        <4>2. status'[c] # status[c] => status'[c] = "queued"
          BY <4>1
        <4>. QED BY <1>0, <1>1, <1>2, <4>1, <4>2 DEF CallInv
      <3>. QED BY <2>3, <3>1, <3>2 DEF Answer
    <2>4. CASE CancelRemote(c)
      <3>1. CASE RetryRemoteCancellation(c)
        BY <1>0, <1>1, <1>2, <2>4, <3>1 DEF CancelRemote, RetryRemoteCancellation, CallInv
      <3>2. CASE CompleteRemoteCancellation(c) /\ EndsWithRemote(c)
        <4>1. ~(status'[c] = "running")
          BY <1>4, <3>2 DEF CompleteRemoteCancellation
        <4>. QED BY <1>1, <1>2, <2>4, <3>2, <4>1 DEF CancelRemote, CompleteRemoteCancellation, CallInv
      <3>3. CASE CompleteRemoteCancellation(c) /\ ~EndsWithRemote(c)
        BY <1>0, <1>1, <1>2, <2>4, <3>3 DEF CancelRemote, CompleteRemoteCancellation, CallInv
      <3>. QED BY <2>4, <3>1, <3>2, <3>3 DEF CancelRemote
    <2>5. ASSUME NEW s \in {"waiting_input", "waiting_approval"}, AskUser(c, s) PROVE CallInv(c)'
      <3>1. status[c] # "absent" /\ ~(status'[c] = "running")
        BY <1>4, <2>5 DEF AskUser, Wait, MayContinue, Holds
      <3>. QED BY <1>1, <1>2, <2>5, <3>1 DEF AskUser, Wait, CallInv
    <2>. QED BY <1>15, <2>1, <2>2, <2>3, <2>4, <2>5 DEF RemoteStep
  <1>. QED BY <1>5, <1>6, <1>7, <1>8, <1>9, <1>10, <1>11, <1>12, <1>13, <1>14, <1>15,
           <1>16, <1>17, <1>18 DEF ChildStep

\* The invariant of the workers' state.
LEMMA WorkerInvariance == WorkerSpec => []WInv
  <1>1. WorkerInit => WInv
    <2> SUFFICES ASSUME WorkerInit PROVE WInv
      OBVIOUS
    <2>1. WorkerTypeOK
      <3>1. losses \in 0..MaxLosses
        BY WorkerAssumption DEF WorkerInit
      <3>2. parentExec \in BOOLEAN /\ resumeJob \in BOOLEAN
        BY DEF WorkerInit
      <3>3. job \in [Child -> BOOLEAN] /\ exec \in [Child -> BOOLEAN]
        BY DEF WorkerInit
      <3>4. due \in [Child -> Nat] /\ sent \in [Child -> Nat]
        BY DEF WorkerInit
      <3>. QED BY <3>1, <3>2, <3>3, <3>4 DEF WorkerInit, WorkerTypeOK
    <2>2. Child \subseteq Run /\ Parent \notin Child
      BY FamilyAssumption DEF Run
    <2>3. CallsInv
      BY DEF WorkerInit, Init, CallsInv
    <2>4. \A c \in Child : status[c] = "absent"
      BY <2>2 DEF WorkerInit, Init
    <2>. QED BY <2>1, <2>3, <2>4 DEF WInv, ExecutorInv
  <1>2. LInv /\ TokenInv /\ WInv /\ [WorkerNext]_allVars => WInv'
    <2> SUFFICES ASSUME LInv, TokenInv, WInv, [WorkerNext]_allVars PROVE WInv'
      OBVIOUS
    <2>0. IInv /\ WorkerTypeOK /\ RemoteChild \subseteq Child
      BY FamilyAssumption DEF LInv, WInv
    <2>1. ASSUME NEW d \in Child PROVE CallInv(d)'
      <3>1. CASE ParentStep \/ (\E r \in Run : RunStep(r)) \/ UNCHANGED allVars
        BY <2>0, <3>1, OutsideQuiet, QuietCall
      <3>2. ASSUME NEW c \in Child, ChildStep(c) \/ (c \in RemoteChild /\ RemoteStep(c))
            PROVE  CallInv(d)'
        BY <2>0, <3>2, NeighbourQuiet, QuietCall, OwnCall
      <3>. QED BY <2>0, <3>1, <3>2 DEF WorkerNext
    <2>. QED BY <2>0, <2>1, WorkerTypeStep DEF WInv, CallsInv, ExecutorInv, CallInv
  <1>. QED BY <1>1, <1>2, WorkerImplementsRuns, LInvariance, TokenInvariance, PTL
       DEF WorkerSpec

\* The queues, the execute() calls and the processes keep their types.
THEOREM WorkerTypes == WorkerSpec => []WorkerTypeOK
  <1>1. WInv => WorkerTypeOK  BY DEF WInv
  <1>. QED BY <1>1, WorkerInvariance, PTL

\* An execute() finds what it read when it comes to use it; its stale look at
\* the parent never makes it cancel the child of a parent that may go on.
THEOREM WorkerCalls == WorkerSpec => []CallsInv
  <1>1. WInv => CallsInv  BY DEF WInv
  <1>. QED BY <1>1, WorkerInvariance, PTL

\* No child runs under a live lease without a process, but for a loss or for a
\* remote execution that gave up a run which was cancelled, is overdue or belongs
\* to a parent that is cancelled or has ended.
THEOREM WorkerExecutors == WorkerSpec => []ExecutorInv
  <1>1. WInv => ExecutorInv  BY DEF WInv
  <1>. QED BY <1>1, WorkerInvariance, PTL

-----------------------------------------------------------------------------
(* The dispatches *)

\* What DispatchKept says of one child.
Kept(c) ==
  Awaits(c)' /\ (Awaits(c) => Owed(c)) => Owed(c)' \/ Crash(c) \/ (~Awaits(c) /\ sent[c] > 0)

\* A step of the child itself leaves it owed a worker, or not in want of one.
LEMMA OwnKept ==
  ASSUME IInv, WorkerTypeOK, NEW c \in Child,
         ChildStep(c) \/ (c \in RemoteChild /\ RemoteStep(c))
  PROVE  Kept(c)
  <1>0. /\ Shape /\ c \in Run
        /\ Awaits(c) => status[c] \in Claimable
        /\ \A s \in Terminal \cup {"running", "waiting_input", "waiting_approval"} :
             status'[c] = s => ~Awaits(c)'
    BY DEF IInv, Run, Awaits, Terminal, Claimable
  <1>1. ASSUME UNCHANGED <<status, cancelRequested, dispatch, sent, job, pc>> PROVE Kept(c)
    BY <1>1 DEF Kept, Awaits, Owed
  <1>2. ASSUME job'[c] \/ pc'[c] # "idle" PROVE Kept(c)
    BY <1>2 DEF Kept, Owed
  <1>14. ASSUME ~Awaits(c), dispatch'[c] = "pending", sent' = sent PROVE Kept(c)
    <2>1. sent[c] = 0 \/ sent[c] > 0
      BY DEF WorkerTypeOK
    <2>. QED BY <1>14, <2>1 DEF Kept, Owed
  <1>3. ASSUME ~Awaits(c)' PROVE Kept(c)
    BY <1>3 DEF Kept
  <1>4. ASSUME NEW s \in Terminal \cup {"waiting_input", "waiting_approval"}, Leave(c, s) PROVE Kept(c)
    BY <1>0, <1>3, <1>4 DEF Leave, Shape
  <1>5. "cancelled" \in Terminal /\ "timed_out" \in Terminal /\ Claimable \cap Terminal = {}
    BY DEF Terminal, Claimable
  <1> USE DEF WorkerTypeOK, Stop, Goto, Enqueue, runVars, childVars, publications
  <1>6. CASE Execute(c)
    <2>1. CASE LookAtChild(c)
      <3>1. CASE Awaits(c)
        <4>1. ~(status[c] \in Terminal \/ (status[c] = "waiting_external" /\ cancelRequested[c]))
          BY <1>0, <1>5, <3>1 DEF Awaits
        <4>. QED BY <1>2, <2>1, <4>1 DEF LookAtChild
      <3>2. CASE ~Awaits(c)
        BY <1>3, <2>1, <3>2 DEF LookAtChild, Awaits, vars
      <3>. QED BY <3>1, <3>2
    <2>2. CASE LookAtParent(c) \/ StartClaim(c)
      BY <1>2, <2>2 DEF LookAtParent, StartClaim
    <2>3. CASE CancelOrphan(c)
      <3>1. CASE status[c] \in Claimable
        BY <1>4, <1>5, <2>3, <3>1 DEF CancelOrphan, CancelQueued
      <3>2. CASE status[c] \notin Claimable
        BY <1>0, <1>3, <2>3, <3>2 DEF CancelOrphan, Awaits, vars
      <3>. QED BY <3>1, <3>2
    <2>4. CASE Claim(c)
      <3>1. CASE status'[c] = "running"
        BY <1>0, <1>3, <3>1
      <3>2. CASE status'[c] # "running"
        BY <1>2, <2>4, <3>2 DEF Claim
      <3>. QED BY <3>1, <3>2
    <2>. QED BY <1>6, <2>1, <2>2, <2>3, <2>4 DEF Execute
  <1>7. CASE Beat(c) \/ Abandon(c) \/ ChildLeaseExpires(c)
    BY <1>1, <1>7 DEF Beat, Heartbeat, Abandon, ChildLeaseExpires, LeaseExpires, vars, workerVars
  <1>8. CASE Delegate(c)
    <2>1. ~Awaits(c)
      BY <1>8 DEF Delegate, CreateDelegated, Awaits
    <2>2. dispatch'[c] = "pending" /\ sent' = sent
      BY <1>0, <1>8 DEF Delegate, CreateDelegated, Shape
    <2>. QED BY <1>14, <2>1, <2>2
  <1>9. CASE Crash(c)
    BY <1>9 DEF Kept
  <1>10. CASE SweepDispatch(c) \/ SweepStale(c) \/ Send(c)
    BY <1>1, <1>2, <1>10 DEF SweepDispatch, SweepStale, Send, vars
  <1>15. CASE Mark(c)
    <2>1. UNCHANGED <<status, cancelRequested, job, pc>> /\ sent[c] > 0
      BY <1>15 DEF Mark, MarkDispatched, vars
    <2>. QED BY <2>1 DEF Kept, Awaits, Owed
  <1>16. CASE GiveUp(c)
    <2>1. UNCHANGED <<status, cancelRequested, dispatch, job, pc>>
          /\ (sent[c] = 0 => sent'[c] = 0)
      BY <1>16 DEF GiveUp, vars
    <2>. QED BY <2>1 DEF Kept, Awaits, Owed
  <1>11. CASE SweepTerminal(c)
    <2>1. CASE Expired(c)
      BY <1>4, <1>5, <1>11, <2>1 DEF SweepTerminal, ReconcileChild
    <2>2. CASE ~Expired(c)
      <3>1. status[c] \in Terminal /\ status' = status
        BY <1>11, <2>2 DEF SweepTerminal, ReconcileChild
      <3>. QED BY <1>0, <1>3, <3>1
    <2>. QED BY <2>1, <2>2
  <1>12. ASSUME NEW o \in Outcomes, Finish(c, o) PROVE Kept(c)
    <2>1. PICK s \in Terminal : Leave(c, s)
      BY <1>12, ClassifyTerminal DEF Finish, FinishRunning
    <2>. QED BY <1>4, <2>1
  <1>13. CASE RemoteStep(c)
    <2>1. CASE RecordTask(c)
      BY <1>1, <2>1 DEF RecordTask, RecordRemoteTask, workerVars
    <2>2. CASE Defer(c)
      <3>1. ~Awaits(c)
        BY <2>2 DEF Defer, DeferRemoteTask, MayContinue, Holds, Awaits
      <3>2. dispatch'[c] = "pending" /\ sent' = sent
        BY <1>0, <2>2 DEF Defer, DeferRemoteTask, Shape
      <3>. QED BY <1>14, <3>1, <3>2
    <2>5. CASE Answer(c)
      <3>1. CASE ReadResume(c) /\ UNCHANGED workerVars
        BY <1>1, <3>1 DEF ReadResume, workerVars
      <3>2. CASE Resume(c) /\ status[c] # answering[c]
        BY <1>1, <2>5, <3>2 DEF Answer, Resume, workerVars
      <3>3. CASE Resume(c) /\ status[c] = answering[c]
        <4>1. ~Awaits(c)
          BY <1>0, <3>3 DEF Resume, Shape, Awaits
        <4>2. dispatch'[c] = "pending" /\ sent' = sent
          BY <1>0, <2>5, <3>3 DEF Answer, Resume, Shape, workerVars
        <4>. QED BY <1>14, <4>1, <4>2
      <3>. QED BY <2>5, <3>1, <3>2, <3>3 DEF Answer
    <2>3. CASE CancelRemote(c)
      BY <1>1, <1>4, <1>5, <2>3 DEF CancelRemote, RetryRemoteCancellation, CompleteRemoteCancellation
    <2>4. ASSUME NEW s \in {"waiting_input", "waiting_approval"}, AskUser(c, s) PROVE Kept(c)
      BY <1>4, <2>4 DEF AskUser, Wait
    <2>. QED BY <1>13, <2>1, <2>2, <2>3, <2>4, <2>5 DEF RemoteStep
  <1>. QED BY <1>6, <1>7, <1>8, <1>9, <1>10, <1>11, <1>12, <1>13, <1>15, <1>16 DEF ChildStep

\* Only a crash, or the late mark of an earlier publication, loses a waiting child
\* its worker.
THEOREM WorkerKeepsDispatches == WorkerSpec => DispatchKept
  <1>1. ASSUME IInv, WorkerTypeOK, WorkerNext, NEW d \in Child PROVE Kept(d)
    <2>0. RemoteChild \subseteq Child
      BY FamilyAssumption
    <2>1. Quiet(d) => Kept(d)
      BY DEF Quiet, Kept, Owed
    <2>2. CASE ParentStep \/ (\E r \in Run : RunStep(r))
      BY <1>1, <2>1, <2>2, OutsideQuiet
    <2>3. ASSUME NEW c \in Child, ChildStep(c) \/ (c \in RemoteChild /\ RemoteStep(c)) PROVE Kept(d)
      BY <1>1, <2>1, <2>3, NeighbourQuiet, OwnKept
    <2>. QED BY <1>1, <2>0, <2>2, <2>3 DEF WorkerNext
  <1>2. IInv /\ WInv /\ [WorkerNext]_allVars =>
          [\A c \in Child :
             Awaits(c)' /\ (Awaits(c) => Owed(c)) =>
               Owed(c)' \/ Crash(c) \/ (~Awaits(c) /\ sent[c] > 0)]_allVars
    BY <1>1 DEF WInv, Kept
  <1>. QED BY <1>2, WorkerInvariance, WorkerImplementsRuns, Invariance, PTL
       DEF WorkerSpec, DispatchKept

=============================================================================
