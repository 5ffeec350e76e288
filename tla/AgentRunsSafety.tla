--------------------------- MODULE AgentRunsSafety ---------------------------
(* What a step of AgentRuns may never do to a run, to the limits on its      *)
(* children and to the goal they work for; the invariant is that of          *)
(* AgentRunsProofs.                                                          *)
EXTENDS AgentRunsProofs

-----------------------------------------------------------------------------
(* What a step may do to one run *)

\* An ended run keeps its status, a live lease is not replaced by another, a
\* cancelled run does not become a succeeded one, only createDelegated makes a
\* run.
SoundMove(r) ==
  /\ status[r] \in Terminal => status'[r] = status[r]
  /\ leaseLive[r] /\ leaseToken'[r] # leaseToken[r] => status'[r] # "running"
  /\ cancelRequested'[r] /\ status'[r] = "succeeded" =>
       cancelRequested[r] /\ status[r] = "succeeded"
  /\ status[r] = "absent" =>
       status'[r] = "absent" \/ (r \in Child /\ CreateDelegated(r))

\* A step that touches none of this is sound.
LEMMA QuietSound ==
  ASSUME UNCHANGED <<status, leaseToken, cancelRequested>>
  PROVE  \A r \in Run : SoundMove(r)
  BY DEF SoundMove

\* An active run may leave, for "succeeded" only if it was not cancelled.
LEMMA LeaveSound ==
  ASSUME Shape, NEW x \in Run, NEW s \in Active \cup Terminal, s # "running",
         status[x] \in Active, Leave(x, s),
         \A r \in Run : s = "succeeded" \/ r # x => cancelRequested'[r] = cancelRequested[r],
         s = "succeeded" => ~cancelRequested[x]
  PROVE  \A r \in Run : SoundMove(r)
  <1>1. /\ status'[x] = s
        /\ \A r \in Run \ {x} : status'[r] = status[r] /\ leaseToken'[r] = leaseToken[r]
    BY DEF Shape, Leave
  <1>2. status[x] \notin Terminal /\ status[x] # "absent"
    BY DEF Active, Waiting, Terminal
  <1>. QED BY <1>1, <1>2 DEF SoundMove

\* A run without a live lease may be leased.
LEMMA LeaseSound ==
  ASSUME Shape, NEW x \in Run, status[x] \in Active, ~leaseLive[x], Lease(x),
         UNCHANGED cancelRequested
  PROVE  \A r \in Run : SoundMove(r)
  <1>1. /\ status'[x] = "running"
        /\ \A r \in Run \ {x} : status'[r] = status[r] /\ leaseToken'[r] = leaseToken[r]
    BY DEF Shape, Lease
  <1>2. status[x] \notin Terminal /\ status[x] # "absent"
    BY DEF Active, Waiting, Terminal
  <1>. QED BY <1>1, <1>2 DEF SoundMove

\* A parent that was active may end, as "succeeded" only if it was not cancelled.
LEMMA EndParentSound ==
  ASSUME Shape, NEW s \in Terminal, status[Parent] \in Active, EndParent(s),
         s = "succeeded" => ~cancelRequested[Parent]
  PROVE  \A r \in Run : SoundMove(r)
  <1>1. Parent \in Run /\ s \in Active \cup Terminal /\ s # "running"
    BY DEF Run, Terminal
  <1>2. Leave(Parent, s) /\ UNCHANGED cancelRequested
    BY DEF EndParent
  <1>. QED BY <1>1, <1>2, LeaveSound

\* A cancelled run is never classified as succeeded, and one past its deadline
\* only with an old clock.
LEMMA ClassifyCancelled ==
  ASSUME NEW r \in Run, NEW o \in Outcomes, "succeeded" \in Classify(r, o)
  PROVE  ~cancelRequested[r] /\ (overdue[r] => LateNow)
  BY DEF Classify, InTime, DeadlineAhead

\* Every step moves every run soundly.
LEMMA MoveStep ==
  Shape /\ LeaseDiscipline /\ [Next]_vars => \A r \in Run : SoundMove(r)
  <1> SUFFICES ASSUME Shape, LeaseDiscipline, [Next]_vars
               PROVE \A r \in Run : SoundMove(r)
    OBVIOUS
  <1> USE DEF runVars
  <1>p. /\ Parent \in Run /\ Child \subseteq Run
        /\ \A r \in Run : status[r] # "running" => ~leaseLive[r]
    BY DEF Run, LeaseDiscipline
  <1>t. /\ {"cancelled", "timed_out"} \subseteq Terminal
        /\ Waiting \subseteq Active /\ Claimable \subseteq Active
        /\ {"running", "waiting_external", "waiting_input", "waiting_approval"} \subseteq Active
        /\ "running" \notin Terminal /\ "running" \notin Claimable
    BY DEF Terminal, Active, Waiting, Claimable
  <1>1. ASSUME NEW c \in Child, CreateDelegated(c) PROVE \A r \in Run : SoundMove(r)
    <2>1. /\ status[c] = "absent" /\ status'[c] = "queued"
          /\ \A r \in Run \ {c} : status'[r] = status[r]
          /\ UNCHANGED <<leaseToken, cancelRequested>>
      BY <1>1, <1>p DEF Shape, CreateDelegated
    <2>2. "absent" \notin Terminal  BY DEF Terminal
    <2>. QED BY <1>1, <2>1, <2>2 DEF SoundMove
  <1>2. ASSUME NEW c \in Child, ClaimQueued(c) PROVE \A r \in Run : SoundMove(r)
    <2>0. UNCHANGED cancelRequested  BY <1>2 DEF ClaimQueued
    <2>1. ASSUME NEW stale \in BOOLEAN, RefuseCandidate(c, stale)
          PROVE \A r \in Run : SoundMove(r)
      <3>1. CASE status[c] \in Claimable
        <4>1. PICK s \in {"cancelled", "timed_out"} : Leave(c, s)
          BY <2>1, <3>1 DEF RefuseCandidate
        <4>2. s # "succeeded" /\ s # "running"  OBVIOUS
        <4>. QED BY <1>p, <1>t, <2>0, <3>1, <4>1, <4>2, LeaveSound
      <3>2. CASE status[c] \notin Claimable
        BY <2>0, <2>1, <3>2, QuietSound DEF RefuseCandidate
      <3>. QED BY <3>1, <3>2
    <2>2. ASSUME LeaseCandidate(c, candidate[c]) PROVE \A r \in Run : SoundMove(r)
      <3>1. CASE MayLease(c, candidate[c])
        <4>1. candidate[c].status \in Claimable \cup {"running"}
          BY <3>1 DEF MayLease, Shape, Candidate
        <4>2. status[c] = candidate[c].status /\ ~leaseLive[c]
          BY <1>p, <1>t, <3>1, <4>1 DEF MayLease, StillClaimable
        <4>. QED BY <1>p, <1>t, <2>0, <2>2, <3>1, <4>1, <4>2, LeaseSound DEF LeaseCandidate
      <3>2. CASE ~MayLease(c, candidate[c])
        BY <2>0, <2>2, <3>2, QuietSound DEF LeaseCandidate
      <3>. QED BY <3>1, <3>2
    <2>. QED BY <1>2, <2>1, <2>2 DEF ClaimQueued
  <1>3. ASSUME NEW r \in Run, NEW o \in Outcomes, FinishRunning(r, o)
        PROVE \A x \in Run : SoundMove(x)
    <2>1. PICK s \in Classify(r, o) : s \in Terminal /\ Leave(r, s) /\ UNCHANGED cancelRequested
      BY <1>3, ClassifyTerminal DEF FinishRunning
    <2>2. status[r] \in Active
      BY <1>3, <1>t DEF FinishRunning, Holds
    <2>. QED BY <1>t, <2>1, <2>2, LeaveSound, ClassifyCancelled
  <1>4. ASSUME NEW c \in Child, NEW s \in {"waiting_input", "waiting_approval"}, Wait(c, s)
        PROVE \A r \in Run : SoundMove(r)
    <2>1. s \in Active /\ s # "running" /\ s # "succeeded"  BY <1>t
    <2>2. status[c] \in Active  BY <1>4, <1>t DEF Wait, MayContinue, Holds
    <2>. QED BY <1>4, <1>p, <2>1, <2>2, LeaveSound DEF Wait
  <1>5. ASSUME NEW c \in Child, Resume(c) PROVE \A r \in Run : SoundMove(r)
    <2>1. /\ \/ status[c] \in Waiting /\ status'[c] = "queued"
             \/ status'[c] = status[c]
          /\ \A r \in Run \ {c} : status'[r] = status[r]
          /\ UNCHANGED <<leaseToken, cancelRequested>>
      BY <1>5, <1>p DEF Shape, Resume, Waiting
    <2>. QED BY <2>1 DEF SoundMove, Waiting, Terminal
  <1>6. ASSUME NEW c \in Child, DeferRemoteTask(c) PROVE \A r \in Run : SoundMove(r)
    <2>1. status[c] \in Active  BY <1>6, <1>t DEF DeferRemoteTask, MayContinue, Holds
    <2>. QED BY <1>6, <1>p, <1>t, <2>1, LeaveSound DEF DeferRemoteTask
  <1>7. ASSUME NEW c \in Child, CancelQueued(c) PROVE \A r \in Run : SoundMove(r)
    <2>1. /\ status[c] \in Active /\ Leave(c, "cancelled")
          /\ \A r \in Run \ {c} : cancelRequested'[r] = cancelRequested[r]
      BY <1>7, <1>p, <1>t DEF CancelQueued, Shape
    <2>. QED BY <1>p, <1>t, <2>1, LeaveSound
  <1>8. ASSUME CommitCancellation PROVE \A r \in Run : SoundMove(r)
    <2> SUFFICES ASSUME NEW r \in Run PROVE SoundMove(r)
      OBVIOUS
    <2>1. /\ \/ status'[r] = status[r]
             \/ status[r] \in Active /\ status'[r] = "cancelled"
          /\ cancelRequested'[r] => cancelRequested[r] \/ status[r] \in Active
          /\ leaseToken' = leaseToken
      BY <1>8 DEF CommitCancellation
    <2>. QED BY <2>1 DEF SoundMove, Active, Waiting, Terminal
  <1>9. ASSUME NEW c \in Child, CompleteRemoteCancellation(c)
        PROVE \A r \in Run : SoundMove(r)
    <2>1. CASE EndsWithRemote(c)
      <3>1. status[c] \in Active /\ Leave(c, "cancelled") /\ UNCHANGED cancelRequested
        BY <1>9, <1>t, <2>1 DEF CompleteRemoteCancellation, EndsWithRemote
      <3>. QED BY <1>p, <1>t, <3>1, LeaveSound
    <2>2. CASE ~EndsWithRemote(c)
      BY <1>9, <2>2, QuietSound DEF CompleteRemoteCancellation
    <2>. QED BY <2>1, <2>2
  <1>10. ASSUME NEW c \in Child, ReconcileChild(c) PROVE \A r \in Run : SoundMove(r)
    <2>1. CASE Expired(c)
      <3>1. status[c] \in Active /\ Leave(c, "timed_out") /\ UNCHANGED cancelRequested
        BY <1>10, <1>t, <2>1 DEF ReconcileChild, Expired
      <3>. QED BY <1>p, <1>t, <3>1, LeaveSound
    <2>2. CASE ~Expired(c)
      BY <1>10, <2>2, QuietSound DEF ReconcileChild
    <2>. QED BY <2>1, <2>2
  <1>11. ASSUME SuspendEnds \/ ExpireParent \/ ReconcileParent \/ ReapParent
         PROVE \A r \in Run : SoundMove(r)
    <2>1. PICK s \in {"cancelled", "timed_out"} : EndParent(s)
      BY <1>11 DEF SuspendEnds, ExpireParent, ReconcileParent, ReapParent
    <2>2. status[Parent] \in Active
      BY <1>11, <1>t DEF SuspendEnds, ExpireParent, ReconcileParent, ReapParent, ParentLost, Holds
    <2>3. s \in Terminal /\ s # "succeeded"  BY <1>t
    <2>. QED BY <2>1, <2>2, <2>3, EndParentSound
  <1>12. ASSUME NEW kind \in {"delegation", "goal"}, SuspendParent(kind)
         PROVE \A r \in Run : SoundMove(r)
    <2>1. status[Parent] \in Active  BY <1>12, <1>t DEF SuspendParent, MayContinue, Holds
    <2>. QED BY <1>12, <1>p, <1>t, <2>1, LeaveSound DEF SuspendParent
  <1>13. ASSUME ClaimParentResume PROVE \A r \in Run : SoundMove(r)
    <2>1. status[Parent] = "waiting_external" /\ Lease(Parent) /\ UNCHANGED cancelRequested
      BY <1>13 DEF ClaimParentResume, MayResume
    <2>. QED BY <1>p, <1>t, <2>1, LeaseSound
  <1>14. ASSUME NEW o \in Outcomes, FinishParentResume(o) PROVE \A r \in Run : SoundMove(r)
    <2>1. PICK s \in Classify(Parent, o) :
            EndParent(s) /\ s \in Terminal /\ status[Parent] \in Active
      BY <1>14, <1>p, <1>t, ClassifyTerminal DEF FinishParentResume, Holds
    <2>. QED BY <1>p, <2>1, EndParentSound, ClassifyCancelled
  <1>15. CASE UNCHANGED vars
    BY <1>15, QuietSound DEF vars
  <1>. QED
    <2>1. CASE ParentNext
      BY <2>1, <1>8, <1>11, <1>12, <1>13, <1>14, QuietSound DEF ParentNext, ReviseRunGoal
    <2>2. ASSUME NEW c \in Child, ChildNext(c) PROVE \A r \in Run : SoundMove(r)
      BY <2>2, <1>1, <1>2, <1>7, <1>10, QuietSound DEF ChildNext, MarkDispatched, ReadCandidate
    <2>3. ASSUME NEW c \in RemoteChild, RemoteNext(c) PROVE \A r \in Run : SoundMove(r)
      <3>. c \in Child  BY FamilyAssumption
      <3>. QED BY <2>3, <1>4, <1>5, <1>6, <1>9, QuietSound
           DEF RemoteNext, ReadResume, RecordRemoteTask, RetryRemoteCancellation
    <2>4. ASSUME NEW r \in Run, RunNext(r) PROVE \A x \in Run : SoundMove(x)
      BY <2>4, <1>3, QuietSound
         DEF RunNext, Heartbeat, LeaseExpires, DeadlinePasses, BeginCancellation
    <2>. QED BY <1>15, <2>1, <2>2, <2>3, <2>4 DEF Next

\* A run ends once: no late answer, sweep or cancellation rewrites its outcome.
THEOREM EndedRunsStay == Spec => TerminalIsFinal
  <1>1. IInv /\ [Next]_vars => [\A r \in Run : status[r] \in Terminal => status'[r] = status[r]]_vars
    BY MoveStep DEF IInv, SoundMove
  <1>. QED BY <1>1, Invariance, PTL DEF Spec, TerminalIsFinal

\* No executor takes over a run whose lease is alive in the database.
THEOREM LiveLeasesKept == Spec => LeaseNotStolen
  <1>1. IInv /\ [Next]_vars =>
          [\A r \in Run :
             leaseLive[r] /\ leaseToken'[r] # leaseToken[r] => status'[r] # "running"]_vars
    BY MoveStep DEF IInv, SoundMove
  <1>. QED BY <1>1, Invariance, PTL DEF Spec, LeaseNotStolen

\* A run whose cancellation was requested never reports success.
THEOREM CancellationWins == Spec => []CancelledNeverSucceeds
  <1>1. Init => CancelledNeverSucceeds
    BY DEF Init, CancelledNeverSucceeds
  <1>2. IInv /\ CancelledNeverSucceeds /\ [Next]_vars => CancelledNeverSucceeds'
    BY MoveStep DEF IInv, SoundMove, CancelledNeverSucceeds
  <1>. QED BY <1>1, <1>2, Invariance, PTL DEF Spec

-----------------------------------------------------------------------------
(* The limits on children *)

\* A set of children that does not grow keeps its cardinality within a limit.
LEMMA SmallerWithin ==
  ASSUME NEW S \in SUBSET Child, NEW T \in SUBSET S, NEW n \in Nat, Cardinality(S) <= n
  PROVE  Cardinality(T) <= n
  <1>1. IsFiniteSet(S) /\ Cardinality(S) \in Nat /\ T \in SUBSET Child
    BY FiniteFamily
  <1>2. Cardinality(T) <= Cardinality(S) /\ Cardinality(T) \in Nat
    BY <1>1, FS_Subset, FiniteFamily
  <1>. QED BY <1>1, <1>2

\* A child starts to run only in claimQueued, under the cap.
LEMMA RunnerStep ==
  ASSUME Shape, [Next]_vars
  PROVE  \/ \A c \in Child : status'[c] = "running" => status[c] = "running"
         \/ \E c \in Child : /\ Cardinality(Running(Child)) < MaxRunning
                            /\ Lease(c)
  <1> DEFINE Same == \A c \in Child : status'[c] = "running" => status[c] = "running"
             Started == \E c \in Child : Cardinality(Running(Child)) < MaxRunning /\ Lease(c)
  <1> USE DEF runVars
  <1>p. Parent \in Run /\ Child \subseteq Run
    BY DEF Run
  <1>t. "running" \notin Terminal  BY DEF Terminal
  <1>1. ASSUME NEW r \in Run, NEW s, s # "running", Leave(r, s) PROVE Same
    BY <1>1, <1>p DEF Shape, Leave
  <1>2. ASSUME UNCHANGED status PROVE Same
    BY <1>2
  <1>3. ASSUME NEW c \in Child, ChildNext(c) PROVE Same \/ Started
    <2>1. CASE CreateDelegated(c) \/ MarkDispatched(c) \/ ReadCandidate(c)
      BY <1>p, <2>1 DEF Shape, CreateDelegated, MarkDispatched, ReadCandidate
    <2>2. CASE ClaimQueued(c)
      <3>1. ASSUME NEW stale \in BOOLEAN, RefuseCandidate(c, stale) PROVE Same
        BY <1>1, <1>2, <1>p, <3>1 DEF RefuseCandidate
      <3>2. ASSUME LeaseCandidate(c, candidate[c]) PROVE Same \/ Started
        BY <1>2, <3>2 DEF LeaseCandidate, MayLease
      <3>. QED BY <2>2, <3>1, <3>2 DEF ClaimQueued
    <2>3. CASE CancelQueued(c)
      BY <1>1, <1>p, <2>3 DEF CancelQueued
    <2>4. CASE ReconcileChild(c)
      BY <1>1, <1>2, <1>p, <2>4 DEF ReconcileChild
    <2>. QED BY <1>3, <2>1, <2>2, <2>3, <2>4 DEF ChildNext
  <1>4. ASSUME NEW c \in RemoteChild, RemoteNext(c) PROVE Same
    <2>1. c \in Run /\ c \in Child  BY <1>p, FamilyAssumption
    <2>2. CASE Resume(c)
      <3>1. \/ status' = status
            \/ status' = [status EXCEPT ![c] = "queued"]
        BY <2>1, <2>2, ResumeQueues
      <3>. QED BY <1>2, <1>p, <2>1, <3>1 DEF Shape
    <2>3. ASSUME NEW s \in {"waiting_input", "waiting_approval"}, Wait(c, s) PROVE Same
      BY <1>1, <2>1, <2>3 DEF Wait
    <2>4. CASE DeferRemoteTask(c) \/ CompleteRemoteCancellation(c)
      BY <1>1, <1>2, <2>1, <2>4 DEF DeferRemoteTask, CompleteRemoteCancellation
    <2>5. CASE ReadResume(c) \/ RecordRemoteTask(c) \/ RetryRemoteCancellation(c)
      BY <1>2, <2>5 DEF ReadResume, RecordRemoteTask, RetryRemoteCancellation
    <2>. QED BY <1>4, <2>2, <2>3, <2>4, <2>5 DEF RemoteNext
  <1>5. ASSUME NEW r \in Run, RunNext(r) PROVE Same
    <2>1. ASSUME NEW o \in Outcomes, FinishRunning(r, o) PROVE Same
      BY <1>1, <1>t, <2>1, ClassifyTerminal DEF FinishRunning
    <2>. QED BY <1>2, <1>5, <2>1
         DEF RunNext, Heartbeat, LeaseExpires, DeadlinePasses, BeginCancellation
  <1>6. CASE ParentNext
    <2>1. CASE CommitCancellation
      BY <1>p, <2>1 DEF CommitCancellation
    <2>2. ASSUME NEW s, Leave(Parent, s) \/ Lease(Parent) PROVE Same
      BY <2>2, ParentQuiet
    <2>. QED BY <1>2, <1>6, <2>1, <2>2
         DEF ParentNext, SuspendEnds, ExpireParent, ReconcileParent, ReapParent, EndParent,
             SuspendParent, ClaimParentResume, FinishParentResume, ReviseRunGoal
  <1>7. CASE UNCHANGED vars
    BY <1>2, <1>7 DEF vars
  <1>. QED BY <1>3, <1>4, <1>5, <1>6, <1>7 DEF Next

\* However claims race, no more siblings run at once than the cap admits.
THEOREM SiblingCap == Spec => []RunningCap
  <1>1. Init => RunningCap
    <2> SUFFICES ASSUME Init PROVE RunningCap
      OBVIOUS
    <2>1. {c \in Child : status[c] = "running"} = {}
      BY FamilyAssumption DEF Init, Run
    <2>. QED BY <2>1, FS_EmptySet, LimitAssumption DEF RunningCap
  <1>2. IInv /\ RunningCap /\ [Next]_vars => RunningCap'
    <2> SUFFICES ASSUME Shape, RunningCap, [Next]_vars PROVE RunningCap'
      BY DEF IInv
    <2> DEFINE S == {c \in Child : status[c] = "running"}
               T == {c \in Child : status'[c] = "running"}
    <2>1. S \in SUBSET Child /\ MaxRunning \in Nat /\ Cardinality(S) <= MaxRunning
      BY LimitAssumption DEF RunningCap
    <2>2. CASE \A c \in Child : status'[c] = "running" => status[c] = "running"
      <3>1. T \in SUBSET S  BY <2>2
      <3>. QED BY <2>1, <3>1, SmallerWithin DEF RunningCap
    <2>3. ASSUME NEW c \in Child, Cardinality(Running(Child)) < MaxRunning, Lease(c)
          PROVE RunningCap'
      <3>1. Cardinality(S) < MaxRunning
        BY <2>3 DEF Running
      <3>2. T = S \cup {c}
        BY <2>3 DEF Shape, Lease, Run
      <3>3. IsFiniteSet(S) /\ Cardinality(S) \in Nat
        BY <2>1, FiniteFamily
      <3>4. Cardinality(S \cup {c}) \in {Cardinality(S), Cardinality(S) + 1}
        BY <3>3, FS_AddElement
      <3> HIDE DEF S, T
      <3>5. Cardinality(S) + 1 <= MaxRunning
        BY <2>1, <3>1, <3>3
      <3>6. Cardinality(T) <= MaxRunning
        BY <2>1, <3>2, <3>3, <3>4, <3>5
      <3>. QED BY <3>6 DEF RunningCap, T
    <2>. QED BY <2>2, <2>3, RunnerStep
  <1>. QED BY <1>1, <1>2, Invariance, PTL DEF Spec

\* A child is active after a step only if it was before or is created by it.
LEMMA ActiveStep ==
  ASSUME Shape, LeaseDiscipline, [Next]_vars, NEW c \in Child, status'[c] \in Active
  PROVE  status[c] \in Active \/ CreateDelegated(c)
  <1>1. c \in Run /\ status[c] \in Active \cup Terminal \cup {"absent"}
    BY DEF Run, Shape
  <1>2. Active \cap Terminal = {} /\ "absent" \notin Active
    BY DEF Active, Waiting, Terminal
  <1>. QED BY <1>1, <1>2, MoveStep DEF SoundMove

\* The root's budget bounds the children alive at once, not just its counter.
THEOREM LiveChildrenCapped == Spec => []ParallelismBounded
  <1> DEFINE S == {c \in Child : status[c] \in Active}
  <1>t. "absent" \notin Active  BY DEF Active, Waiting
  <1>1. Init => ParallelismBounded
    <2> SUFFICES ASSUME Init PROVE ParallelismBounded
      OBVIOUS
    <2>1. S = {}  BY <1>t, FamilyAssumption DEF Init, Run
    <2>. QED BY <2>1, FS_EmptySet, LimitAssumption DEF ParallelismBounded
  <1>2. IInv /\ ParallelismBounded /\ [Next]_vars => ParallelismBounded'
    <2> SUFFICES ASSUME IInv, ParallelismBounded, [Next]_vars PROVE ParallelismBounded'
      OBVIOUS
    <2> DEFINE T == {c \in Child : status'[c] \in Active}
    <2>0. Shape /\ LeaseDiscipline /\ ChildSettlement /\ BudgetExact
      BY DEF IInv
    <2>1. S \in SUBSET Child /\ MaxParallelChildren \in Nat /\ Cardinality(S) <= MaxParallelChildren
      BY LimitAssumption DEF ParallelismBounded
    <2>2. CASE T \subseteq S
      <3>1. Cardinality(T) <= MaxParallelChildren  BY <2>1, <2>2, SmallerWithin
      <3>. QED BY <3>1 DEF ParallelismBounded
    <2>3. ASSUME NEW c \in Child, CreateDelegated(c) PROVE ParallelismBounded'
      <3>1. /\ \A d \in Child \ {c} : status'[d] = status[d]
            /\ budget.reserved + 1 <= MaxParallelChildren
        BY <2>0, <2>3 DEF Shape, CreateDelegated, BudgetAllows, Run
      <3>2. T \subseteq Reserved \cup {c}
        BY <2>0, <3>1 DEF ChildSettlement, Reserved
      <3>3. IsFiniteSet(Reserved) /\ Cardinality(Reserved) = budget.reserved
            /\ Cardinality(Reserved) \in Nat /\ Reserved \cup {c} \in SUBSET Child
        BY <2>0, FiniteFamily DEF BudgetExact, Reserved
      <3>4. Cardinality(Reserved \cup {c}) \in {Cardinality(Reserved), Cardinality(Reserved) + 1}
        BY <3>3, FS_AddElement
      <3>5. Cardinality(Reserved \cup {c}) <= MaxParallelChildren
        BY <2>1, <3>1, <3>3, <3>4
      <3>6. Cardinality(T) <= MaxParallelChildren
        BY <2>1, <3>2, <3>3, <3>5, SmallerWithin
      <3>. QED BY <3>6 DEF ParallelismBounded
    <2>. QED BY <2>0, <2>2, <2>3, ActiveStep
  <1>. QED BY <1>1, <1>2, Invariance, PTL DEF Spec

-----------------------------------------------------------------------------
(* The goal the children work for *)

\* Only delegating and steering touch a goal revision.
LEMMA GoalStep ==
  ASSUME [Next]_vars
  PROVE  UNCHANGED goalVars \/ ReviseRunGoal \/ \E c \in Child : CreateDelegated(c)
  <1>1. CASE ParentNext
    BY <1>1 DEF ParentNext, SuspendParent, SuspendEnds, ExpireParent, ClaimParentResume,
       FinishParentResume, ReconcileParent, ReapParent, CommitCancellation, EndParent
  <1>2. ASSUME NEW c \in Child, ChildNext(c) PROVE UNCHANGED goalVars \/ CreateDelegated(c)
    BY <1>2 DEF ChildNext, MarkDispatched, ReadCandidate, ClaimQueued, CancelQueued,
       ReconcileChild
  <1>3. ASSUME NEW c \in RemoteChild, RemoteNext(c) PROVE UNCHANGED goalVars
    BY <1>3 DEF RemoteNext, Wait, ReadResume, Resume, RecordRemoteTask, DeferRemoteTask,
       RetryRemoteCancellation, CompleteRemoteCancellation
  <1>4. ASSUME NEW r \in Run, RunNext(r) PROVE UNCHANGED goalVars
    BY <1>4 DEF RunNext, Heartbeat, LeaseExpires, DeadlinePasses, BeginCancellation,
       FinishRunning
  <1>5. CASE UNCHANGED vars
    BY <1>5 DEF vars
  <1>. QED BY <1>1, <1>2, <1>3, <1>4, <1>5 DEF Next

\* The root run always works for the current goal, and so do its live children.
GoalInv == goalRevision[Parent] = rootRevision /\ GoalBoundary

LEMMA GoalInvariance == Spec => []GoalInv
  <1>t. "absent" \notin Active  BY DEF Active, Waiting
  <1>1. Init => GoalInv
    BY <1>t, FamilyAssumption DEF Init, GoalInv, GoalBoundary, Run
  <1>2. IInv /\ GoalInv /\ [Next]_vars => GoalInv'
    <2> SUFFICES ASSUME IInv, GoalInv, [Next]_vars PROVE GoalInv'
      OBVIOUS
    <2>0. Shape /\ LeaseDiscipline /\ ChildSettlement
      BY DEF IInv
    <2>p. Parent \in Run /\ Child \subseteq Run /\ Parent \notin Child
      BY FamilyAssumption DEF Run
    <2>1. ASSUME NEW c \in Child, CreateDelegated(c) PROVE GoalInv'
      <3>1. /\ rootRevision' = rootRevision /\ goalRevision'[Parent] = goalRevision[Parent]
            /\ goalRevision'[c] = goalRevision[Parent]
            /\ \A d \in Child \ {c} : goalRevision'[d] = goalRevision[d] /\ status'[d] = status[d]
        BY <2>0, <2>1, <2>p DEF Shape, CreateDelegated
      <3>. QED BY <3>1 DEF GoalInv, GoalBoundary
    <2>2. CASE ReviseRunGoal
      <3>1. \A c \in Child : status[c] \notin Active
        BY <2>0, <2>2 DEF ReviseRunGoal, NoPendingJoin, ChildSettlement
      <3>2. status' = status /\ goalRevision'[Parent] = rootRevision'
        BY <2>0, <2>2, <2>p DEF ReviseRunGoal, Shape, runVars
      <3>. QED BY <3>1, <3>2 DEF GoalInv, GoalBoundary
    <2>3. CASE UNCHANGED goalVars /\ ~\E c \in Child : CreateDelegated(c)
      BY <2>0, <2>3, ActiveStep DEF GoalInv, GoalBoundary, goalVars
    <2>. QED BY <2>1, <2>2, <2>3, GoalStep
  <1>. QED BY <1>1, <1>2, Invariance, PTL DEF Spec

\* A goal is replaced only when no child of the old one is alive.
THEOREM GoalBoundaryKept == Spec => []GoalBoundary
  <1>1. GoalInv => GoalBoundary  BY DEF GoalInv
  <1>. QED BY <1>1, GoalInvariance, PTL

-----------------------------------------------------------------------------
(* The contract of a row of agent_run *)

\* A claim that found the deadline passed still finds it so: deadlines stay.
LateInv == \A c \in Child : candidate[c].verdict = "late" => overdue[c]

LEMMA LateStep == Shape /\ LateInv /\ [Next]_vars => LateInv'
  <1> SUFFICES ASSUME Shape, LateInv, [Next]_vars PROVE LateInv'
    OBVIOUS
  <1>0. Child \subseteq Run /\ NoCandidate.verdict # "late"
    BY DEF Run, NoCandidate
  <1>1. ASSUME NEW c \in Child, ReadCandidate(c) \/ ClaimQueued(c) PROVE LateInv'
    <2>1. overdue' = overdue /\ \A d \in Child \ {c} : candidate'[d] = candidate[d]
      BY <1>1 DEF ReadCandidate, ClaimQueued, Shape
    <2>2. candidate'[c].verdict = "late" => overdue[c]
      BY <1>0, <1>1 DEF ReadCandidate, ClaimQueued, Shape
    <2>. QED BY <2>1, <2>2 DEF LateInv
  <1>2. ASSUME NEW r \in Run, DeadlinePasses(r) PROVE LateInv'
    BY <1>0, <1>2 DEF DeadlinePasses, LateInv, txVars
  <1>3. CASE UNCHANGED <<candidate, overdue>>
    BY <1>3 DEF LateInv
  <1>4. ParentNext => UNCHANGED <<candidate, overdue>>
    BY DEF ParentNext, SuspendParent, SuspendEnds, ExpireParent, ClaimParentResume,
       FinishParentResume, ReviseRunGoal, ReconcileParent, ReapParent, CommitCancellation,
       EndParent, txVars
  <1>5. ASSUME NEW c \in Child, CreateDelegated(c) \/ MarkDispatched(c) \/ CancelQueued(c)
                               \/ ReconcileChild(c) \/ RemoteNext(c)
        PROVE  UNCHANGED <<candidate, overdue>>
    BY <1>5 DEF CreateDelegated, MarkDispatched, CancelQueued, ReconcileChild, RemoteNext, Wait,
       ReadResume, Resume, RecordRemoteTask, DeferRemoteTask, RetryRemoteCancellation,
       CompleteRemoteCancellation, txVars
  <1>6. ASSUME NEW r \in Run, \/ Heartbeat(r) \/ LeaseExpires(r) \/ BeginCancellation(r)
                               \/ \E o \in Outcomes : FinishRunning(r, o)
        PROVE  UNCHANGED <<candidate, overdue>>
    BY <1>6 DEF Heartbeat, LeaseExpires, BeginCancellation, FinishRunning, txVars
  <1>7. UNCHANGED vars => UNCHANGED <<candidate, overdue>>
    BY DEF vars, txVars
  <1>8. RemoteChild \subseteq Child
    BY FamilyAssumption
  <1>9. ASSUME NEW c \in Child, ChildNext(c) PROVE LateInv'
    BY <1>1, <1>3, <1>5, <1>9 DEF ChildNext
  <1>10. ASSUME NEW r \in Run, RunNext(r) PROVE LateInv'
    BY <1>2, <1>3, <1>6, <1>10 DEF RunNext
  <1>11. ASSUME NEW c \in RemoteChild, RemoteNext(c) PROVE LateInv'
    BY <1>3, <1>5, <1>8, <1>11
  <1>12. ParentNext \/ UNCHANGED vars => LateInv'
    BY <1>3, <1>4, <1>7
  <1>. QED BY <1>9, <1>10, <1>11, <1>12 DEF Next

\* A step of the contract of run r, or none.
LifeStep(r) == UNCHANGED Life(r)!lifeVars \/ Life(r)!Next

\* A step that leaves the row of a run alone is none.
LEMMA QuietLife ==
  ASSUME NEW r \in Run, status'[r] = status[r], leaseToken'[r] = leaseToken[r],
         leaseLive'[r] = leaseLive[r], cancelRequested'[r] = cancelRequested[r],
         overdue'[r] = overdue[r]
  PROVE  LifeStep(r)
  BY DEF LifeStep, Life!lifeVars

\* A running run ends.
LEMMA FinishLife ==
  ASSUME Shape, NEW x \in Run, NEW s \in Terminal, status[x] = "running", Leave(x, s),
         UNCHANGED <<cancelRequested, overdue>>,
         s = "succeeded" => ~cancelRequested[x] /\ (overdue[x] => LateNow)
  PROVE  \A r \in Run : LifeStep(r)
  <1>1. /\ \A r \in Run \ {x} : LifeStep(r)
        /\ status'[x] = s /\ leaseToken'[x] = 0 /\ ~leaseLive'[x]
    BY QuietLife DEF Shape, Leave
  <1>2. Life(x)!Finish
    BY <1>1 DEF Terminal, Life!Finish, Life!Ended, Life!Release, Life!Unhindered, Life!flags
  <1>3. LifeStep(x)
    BY <1>2 DEF LifeStep, Life!Next
  <1>. QED BY <1>1, <1>3

\* A running run that may continue is suspended.
LEMMA SuspendLife ==
  ASSUME Shape, NEW x \in Run, NEW s \in Waiting, MayContinue(x), Leave(x, s),
         UNCHANGED <<cancelRequested, overdue>>
  PROVE  \A r \in Run : LifeStep(r)
  <1>1. /\ \A r \in Run \ {x} : LifeStep(r)
        /\ status'[x] = s /\ leaseToken'[x] = 0 /\ ~leaseLive'[x]
    BY ZenonT(30), QuietLife DEF Shape, Leave
  <1>2. Life(x)!Suspend
    BY <1>1 DEF Waiting, MayContinue, DeadlineAhead, Holds, Life!Suspend, Life!Suspended, Life!Release,
       Life!Unhindered, Life!flags
  <1>3. LifeStep(x)
    BY <1>2 DEF LifeStep, Life!Next
  <1>. QED BY <1>1, <1>3

\* A run nobody executes ends; it has no lease to lose.
LEMMA EndLife ==
  ASSUME Shape, LeaseDiscipline, NEW x \in Run, NEW s, status[x] \in Active \ {"running"},
         Leave(x, s), UNCHANGED overdue,
         \A r \in Run \ {x} : cancelRequested'[r] = cancelRequested[r],
         \/ s = "cancelled" /\ cancelRequested'[x]
         \/ s = "timed_out" /\ overdue[x] /\ UNCHANGED cancelRequested
  PROVE  \A r \in Run : LifeStep(r)
  <1>0. /\ status' = [status EXCEPT ![x] = s] /\ leaseToken'[x] = 0 /\ leaseToken[x] = 0
        /\ leaseLive[x] = FALSE /\ leaseLive'[x] = FALSE
        /\ \A r \in Run \ {x} : leaseToken'[r] = leaseToken[r] /\ leaseLive'[r] = leaseLive[r]
    BY DEF Shape, LeaseDiscipline, Leave
  <1>1. /\ \A r \in Run \ {x} : LifeStep(r)
        /\ status'[x] = s /\ leaseToken'[x] = leaseToken[x] /\ leaseLive'[x] = leaseLive[x]
    BY ZenonT(30), <1>0, QuietLife DEF Shape
  <1>2. Life(x)!End
    BY <1>1 DEF Active, Waiting, Life!End, Life!Idle, Life!Suspended
  <1>3. LifeStep(x)
    BY <1>2 DEF LifeStep, Life!Next
  <1>. QED BY <1>1, <1>3

\* A run without a live lease is claimed.
LEMMA ClaimLife ==
  ASSUME Shape, NEW x \in Run, status[x] \in Claimable \cup {"running"}, ~leaseLive[x], Lease(x),
         UNCHANGED <<cancelRequested, overdue>>
  PROVE  \A r \in Run : LifeStep(r)
  <1>1. /\ status'[x] = "running" /\ leaseToken'[x] # 0 /\ leaseLive'[x]
        /\ \A r \in Run \ {x} : /\ status'[r] = status[r] /\ leaseToken'[r] = leaseToken[r]
                                 /\ leaseLive'[r] = leaseLive[r]
    BY DEF Shape, Lease
  <1>2. Life(x)!Claim
    BY <1>1 DEF Claimable, Life!Claim, Life!flags
  <1>3. LifeStep(x)
    BY <1>2 DEF LifeStep, Life!Next
  <1>. QED BY <1>1, <1>3, QuietLife

\* The parent ends: as it runs, or overdue while it is suspended.
LEMMA EndParentLife ==
  ASSUME Shape, LeaseDiscipline, NEW s \in Terminal, EndParent(s),
         \/ status[Parent] = "running"
            /\ (s = "succeeded" => ~cancelRequested[Parent] /\ (overdue[Parent] => LateNow))
         \/ status[Parent] = "waiting_external" /\ s = "timed_out" /\ overdue[Parent]
  PROVE  \A r \in Run : LifeStep(r)
  <1>1. Parent \in Run /\ Leave(Parent, s) /\ UNCHANGED <<cancelRequested, overdue>>
    BY DEF Run, EndParent
  <1>2. CASE /\ status[Parent] = "running"
             /\ s = "succeeded" => ~cancelRequested[Parent] /\ (overdue[Parent] => LateNow)
    BY <1>1, <1>2, FinishLife
  <1>3. CASE status[Parent] = "waiting_external" /\ s = "timed_out" /\ overdue[Parent]
    BY <1>1, <1>3, EndLife DEF Active, Waiting
  <1>. QED BY <1>2, <1>3

\* The steps of one child.
LEMMA ChildLife ==
  ASSUME IInv, GoalInv, LateInv, NEW c \in Child, ChildNext(c)
  PROVE  \A r \in Run : LifeStep(r)
  <1>0. /\ Shape /\ LeaseDiscipline /\ c \in Run /\ Child \subseteq Run
        /\ Claimable \subseteq Active \ {"running"} /\ Waiting \subseteq Active \ {"running"}
        /\ {"cancelled", "timed_out"} \subseteq Terminal
    BY DEF IInv, Run, Claimable, Active, Waiting, Terminal
  <1>1. CASE CreateDelegated(c)
    <2>1. /\ status[c] = "absent" /\ status'[c] = "queued"
          /\ \A r \in Run \ {c} : status'[r] = status[r]
          /\ UNCHANGED <<leaseToken, leaseLive, cancelRequested, overdue>>
      BY <1>0, <1>1 DEF Shape, CreateDelegated
    <2>2. LifeStep(c)
      BY <2>1 DEF LifeStep, Life!Next, Life!Create, Life!lease, Life!flags
    <2>. QED BY <2>1, <2>2, QuietLife
  <1>2. CASE MarkDispatched(c) \/ ReadCandidate(c)
    BY <1>2, QuietLife DEF MarkDispatched, ReadCandidate, runVars
  <1>3. CASE ClaimQueued(c)
    <2>0. UNCHANGED <<cancelRequested, overdue>>
      BY <1>3 DEF ClaimQueued
    <2>1. ASSUME RefuseCandidate(c, goalRevision[c] # rootRevision),
                 goalRevision[c] # rootRevision \/ candidate[c].verdict = "late"
          PROVE  \A r \in Run : LifeStep(r)
      <3>1. CASE status[c] \in Claimable
        <4>1. goalRevision[c] = rootRevision /\ overdue[c]
          BY <1>0, <2>1, <3>1 DEF GoalInv, GoalBoundary, LateInv
        <4>2. Leave(c, "timed_out")
          BY <2>1, <3>1, <4>1 DEF RefuseCandidate
        <4>. QED BY <1>0, <2>0, <3>1, <4>1, <4>2, EndLife
      <3>2. CASE status[c] \notin Claimable
        BY <2>0, <2>1, <3>2, QuietLife DEF RefuseCandidate
      <3>. QED BY <3>1, <3>2
    <2>2. ASSUME LeaseCandidate(c, candidate[c]) PROVE \A r \in Run : LifeStep(r)
      <3>1. CASE MayLease(c, candidate[c])
        <4>1. candidate[c].status \in Claimable \cup {"running"}
          BY <1>0, <3>1 DEF MayLease, Shape, Candidate
        <4>2. status[c] = candidate[c].status /\ ~leaseLive[c]
          BY <1>0, <3>1, <4>1 DEF MayLease, StillClaimable, LeaseDiscipline
        <4>. QED BY <1>0, <2>0, <2>2, <3>1, <4>1, <4>2, ClaimLife DEF LeaseCandidate
      <3>2. CASE ~MayLease(c, candidate[c])
        BY <2>0, <2>2, <3>2, QuietLife DEF LeaseCandidate
      <3>. QED BY <3>1, <3>2
    <2>. QED BY <1>3, <2>1, <2>2 DEF ClaimQueued
  <1>4. CASE CancelQueued(c)
    <2>1. /\ status[c] \in Active \ {"running"} /\ Leave(c, "cancelled") /\ cancelRequested'[c]
          /\ UNCHANGED overdue /\ \A r \in Run \ {c} : cancelRequested'[r] = cancelRequested[r]
      BY <1>0, <1>4 DEF CancelQueued, Shape
    <2>. QED BY <1>0, <2>1, EndLife
  <1>5. CASE ReconcileChild(c)
    <2>0. UNCHANGED <<cancelRequested, overdue>>
      BY <1>5 DEF ReconcileChild
    <2>1. CASE Expired(c)
      <3>1. status[c] \in Active \ {"running"} /\ overdue[c] /\ Leave(c, "timed_out")
        BY <1>0, <1>5, <2>1 DEF ReconcileChild, Expired
      <3>. QED BY <1>0, <2>0, <3>1, EndLife
    <2>2. CASE ~Expired(c)
      BY <1>5, <2>0, <2>2, QuietLife DEF ReconcileChild
    <2>. QED BY <2>1, <2>2
  <1>. QED BY <1>1, <1>2, <1>3, <1>4, <1>5 DEF ChildNext

\* The steps of a remote child.
LEMMA RemoteLife ==
  ASSUME IInv, NEW c \in RemoteChild, RemoteNext(c)
  PROVE  \A r \in Run : LifeStep(r)
  <1>0. /\ Shape /\ LeaseDiscipline /\ c \in Run
        /\ {"waiting_external", "waiting_input", "waiting_approval"} = Waiting
        /\ Waiting \subseteq Active \ {"running"} /\ "cancelled" \in Terminal
    BY FamilyAssumption DEF IInv, Run, Active, Waiting, Terminal
  <1>1. ASSUME NEW s \in {"waiting_input", "waiting_approval"}, Wait(c, s)
        PROVE  \A r \in Run : LifeStep(r)
    BY <1>0, <1>1, SuspendLife DEF Wait
  <1>2. CASE Resume(c)
    <2>1. /\ \/ status[c] \in {"waiting_input", "waiting_approval"} /\ status'[c] = "queued"
             \/ status'[c] = status[c]
          /\ \A r \in Run \ {c} : status'[r] = status[r]
          /\ UNCHANGED <<leaseToken, leaseLive, cancelRequested, overdue>>
      BY <1>0, <1>2, FamilyAssumption DEF Shape, Resume
    <2>2. LifeStep(c)
      BY <1>0, <2>1, QuietLife DEF LifeStep, Life!Next, Life!Requeue, Life!lease, Life!flags
    <2>. QED BY <2>1, <2>2, QuietLife
  <1>3. CASE DeferRemoteTask(c)
    BY <1>0, <1>3, SuspendLife DEF DeferRemoteTask
  <1>4. CASE ReadResume(c) \/ RecordRemoteTask(c) \/ RetryRemoteCancellation(c)
    BY <1>4, QuietLife DEF ReadResume, RecordRemoteTask, RetryRemoteCancellation, runVars
  <1>5. CASE CompleteRemoteCancellation(c)
    <2>0. UNCHANGED <<cancelRequested, overdue>>
      BY <1>5 DEF CompleteRemoteCancellation
    <2>1. CASE EndsWithRemote(c)
      <3>1. cancelRequested'[c] /\ Leave(c, "cancelled")
        BY <1>5, <2>0, <2>1 DEF CompleteRemoteCancellation, EndsWithRemote
      <3>2. CASE status[c] = "running"
        BY <1>0, <2>0, <3>1, <3>2, FinishLife
      <3>3. CASE status[c] = "waiting_external"
        BY <1>0, <2>0, <3>1, <3>3, EndLife
      <3>. QED BY <2>1, <3>2, <3>3 DEF EndsWithRemote
    <2>2. CASE ~EndsWithRemote(c)
      BY <1>5, <2>0, <2>2, QuietLife DEF CompleteRemoteCancellation
    <2>. QED BY <2>1, <2>2
  <1>. QED BY <1>1, <1>2, <1>3, <1>4, <1>5 DEF RemoteNext

\* The steps any run may take.
LEMMA RunLife ==
  ASSUME IInv, NEW x \in Run, RunNext(x)
  PROVE  \A r \in Run : LifeStep(r)
  <1>0. Shape /\ LeaseDiscipline
    BY DEF IInv
  <1>1. CASE Heartbeat(x)
    <2>1. /\ status[x] = "running" /\ ~cancelRequested[x] /\ (overdue[x] => LateNow) /\ leaseLive'[x]
          /\ \A r \in Run \ {x} : leaseLive'[r] = leaseLive[r]
          /\ UNCHANGED <<status, leaseToken, cancelRequested, overdue>>
      BY <1>0, <1>1 DEF Shape, Heartbeat, MayContinue, DeadlineAhead, Holds
    <2>2. LifeStep(x)
      BY <2>1 DEF LifeStep, Life!Next, Life!Renew, Life!flags, Life!Unhindered
    <2>. QED BY <2>1, <2>2, QuietLife
  <1>2. CASE LeaseExpires(x)
    <2>1. /\ leaseLive[x] /\ ~leaseLive'[x] /\ \A r \in Run \ {x} : leaseLive'[r] = leaseLive[r]
          /\ UNCHANGED <<status, leaseToken, cancelRequested, overdue>>
      BY <1>0, <1>2 DEF Shape, LeaseExpires
    <2>2. LifeStep(x)
      BY <2>1 DEF LifeStep, Life!Next, Life!Expire, Life!flags
    <2>. QED BY <2>1, <2>2, QuietLife
  <1>3. CASE DeadlinePasses(x)
    <2> SUFFICES ASSUME NEW r \in Run PROVE LifeStep(r)
      OBVIOUS
    <2>1. UNCHANGED <<status, leaseToken, leaseLive, cancelRequested>>
      BY <1>3 DEF DeadlinePasses, runVars
    <2>2. overdue'[r] \/ overdue'[r] = overdue[r]
      BY <1>0, <1>3 DEF DeadlinePasses, Shape
    <2>3. CASE overdue'[r]
      BY <2>1, <2>3 DEF LifeStep, Life!Next, Life!Pass, Life!lease
    <2>. QED BY <2>1, <2>2, <2>3, QuietLife
  <1>4. CASE BeginCancellation(x)
    BY <1>4, QuietLife DEF BeginCancellation, runVars
  <1>5. ASSUME NEW o \in Outcomes, FinishRunning(x, o) PROVE \A r \in Run : LifeStep(r)
    <2>1. PICK s \in Classify(x, o) : Leave(x, s)
      BY <1>5 DEF FinishRunning
    <2>2. status[x] = "running" /\ UNCHANGED <<cancelRequested, overdue>>
      BY <1>5 DEF FinishRunning, Holds
    <2>. QED BY <1>0, <2>1, <2>2, FinishLife, ClassifyTerminal, ClassifyCancelled
  <1>. QED BY <1>1, <1>2, <1>3, <1>4, <1>5 DEF RunNext

\* The steps of the parent and of a cancellation.
LEMMA ParentLife ==
  ASSUME IInv, ParentNext
  PROVE  \A r \in Run : LifeStep(r)
  <1>0. /\ Shape /\ LeaseDiscipline /\ Parent \in Run
        /\ "waiting_external" \in Waiting /\ "waiting_external" \in Claimable
        /\ {"cancelled", "timed_out"} \subseteq Terminal
    BY DEF IInv, Run, Waiting, Claimable, Terminal
  <1>1. ASSUME NEW kind \in {"delegation", "goal"}, SuspendParent(kind)
        PROVE  \A r \in Run : LifeStep(r)
    BY <1>0, <1>1, SuspendLife DEF SuspendParent
  <1>2. CASE SuspendEnds
    <2>1. PICK s \in {"cancelled", "timed_out"} : EndParent(s)
      BY <1>2 DEF SuspendEnds
    <2>2. status[Parent] = "running"
      BY <1>2 DEF SuspendEnds, Holds
    <2>. QED BY <1>0, <2>1, <2>2, EndParentLife
  <1>3. CASE ExpireParent \/ ReconcileParent
    BY <1>0, <1>3, EndParentLife DEF ExpireParent, ReconcileParent
  <1>4. CASE ReapParent
    BY <1>0, <1>4, EndParentLife DEF ReapParent, ParentLost
  <1>5. CASE ClaimParentResume
    <2>1. /\ status[Parent] = "waiting_external" /\ Lease(Parent)
          /\ UNCHANGED <<cancelRequested, overdue>>
      BY <1>5 DEF ClaimParentResume, MayResume
    <2>2. ~leaseLive[Parent]
      BY <1>0, <2>1 DEF LeaseDiscipline
    <2>. QED BY <1>0, <2>1, <2>2, ClaimLife
  <1>6. ASSUME NEW o \in Outcomes, FinishParentResume(o) PROVE \A r \in Run : LifeStep(r)
    <2>1. PICK s \in Classify(Parent, o) : EndParent(s)
      BY <1>6 DEF FinishParentResume
    <2>2. status[Parent] = "running"
      BY <1>6 DEF FinishParentResume, Holds
    <2>. QED BY <1>0, <2>1, <2>2, EndParentLife, ClassifyTerminal, ClassifyCancelled
  <1>7. CASE ReviseRunGoal
    BY <1>7, QuietLife DEF ReviseRunGoal, runVars
  <1>8. CASE CommitCancellation
    <2> SUFFICES ASSUME NEW r \in Run PROVE LifeStep(r)
      OBVIOUS
    <2>1. /\ UNCHANGED <<leaseToken, leaseLive, overdue>>
          /\ \/ status'[r] = status[r]
             \/ status[r] \in Active \ {"running"} /\ status'[r] = "cancelled" /\ cancelRequested'[r]
          /\ \/ cancelRequested'[r] = cancelRequested[r]
             \/ cancelRequested'[r] /\ status[r] \in Active
      BY <1>0, <1>8 DEF CommitCancellation, Shape
    <2>2. CASE status'[r] # status[r]
      BY <2>1, <2>2 DEF Active, Waiting, LifeStep, Life!Next, Life!End, Life!Idle, Life!Suspended
    <2>3. CASE status'[r] = status[r] /\ cancelRequested'[r] /\ status[r] \in Active
      BY <2>1, <2>3 DEF Active, Waiting, LifeStep, Life!Next, Life!RequestCancel, Life!Idle,
         Life!Suspended, Life!lease
    <2>. QED BY <2>1, <2>2, <2>3, QuietLife
  <1>. QED BY <1>1, <1>2, <1>3, <1>4, <1>5, <1>6, <1>7, <1>8 DEF ParentNext

\* The invariant of this module, with what it rests on.
LInv == IInv /\ GoalInv /\ LateInv

LEMMA LInvariance == Spec => []LInv
  <1>1. Init => LateInv
    BY DEF Init, LateInv, NoCandidate
  <1>2. IInv /\ LateInv /\ [Next]_vars => LateInv'
    BY LateStep DEF IInv
  <1>. QED BY <1>1, <1>2, Invariance, GoalInvariance, PTL DEF Spec, LInv

\* Every step keeps the contract of every run.
LEMMA LifeKept == LInv /\ [Next]_vars => \A r \in Run : LifeStep(r)
  <1> SUFFICES ASSUME LInv, [Next]_vars PROVE \A r \in Run : LifeStep(r)
    OBVIOUS
  <1>0. IInv /\ GoalInv /\ LateInv
    BY DEF LInv
  <1>1. UNCHANGED vars => \A r \in Run : LifeStep(r)
    BY QuietLife DEF vars, runVars
  <1>2. ASSUME NEW c \in Child, ChildNext(c) PROVE \A r \in Run : LifeStep(r)
    BY <1>0, <1>2, ChildLife
  <1>3. ASSUME NEW c \in RemoteChild, RemoteNext(c) PROVE \A r \in Run : LifeStep(r)
    BY <1>0, <1>3, RemoteLife
  <1>4. ASSUME NEW r \in Run, RunNext(r) PROVE \A x \in Run : LifeStep(x)
    BY <1>0, <1>4, RunLife
  <1>5. ParentNext => \A r \in Run : LifeStep(r)
    BY <1>0, ParentLife
  <1>. QED BY <1>1, <1>2, <1>3, <1>4, <1>5 DEF Next

\* So nothing is taken back: a row stays, a wish to cancel stays, a deadline
\* that passed stays, an ended run stays as it ended.
LEMMA NothingTakenBack ==
  ASSUME NEW r \in Run, LifeStep(r)
  PROVE  /\ status[r] # "absent" => status'[r] # "absent"
         /\ cancelRequested[r] => cancelRequested'[r]
         /\ overdue[r] => overdue'[r]
         /\ status[r] \in Terminal => status'[r] = status[r]
  BY DEF LifeStep, Life!Next, Life!lifeVars, Life!lease, Life!flags, Life!Create, Life!Claim,
     Life!Renew, Life!Expire, Life!Release, Life!Suspend, Life!Finish, Life!Requeue, Life!End,
     Life!RequestCancel, Life!Pass, Life!Suspended, Life!Idle, Life!Ended, Life!Unhindered, Terminal

\* Every run of the family, root or delegated, keeps the contract of a row of
\* agent_run: who may take it, who may end it and when it may succeed.
THEOREM RepositoryImplementsLifecycle == Spec => ImplementsLifecycle
  <1>1. Init => \A r \in Run : Life(r)!Init
    <2> SUFFICES ASSUME Init, NEW r \in Run PROVE Life(r)!Init
      OBVIOUS
    <2>1. ~cancelRequested[r] /\ ~overdue[r]
      BY DEF Init
    <2>2. CASE r = Parent
      <3>1. status[r] = "running" /\ leaseToken[r] = 1 /\ leaseLive[r]
        BY <2>2 DEF Init
      <3>. QED BY <2>1, <3>1 DEF Life!Init
    <2>3. CASE r # Parent
      <3>1. status[r] = "absent" /\ leaseToken[r] = 0 /\ ~leaseLive[r]
        BY <2>3 DEF Init
      <3>. QED BY <2>1, <3>1 DEF Life!Init
    <2>. QED BY <2>2, <2>3
  <1>2. LInv /\ [Next]_vars => [\A r \in Run : UNCHANGED Life(r)!lifeVars \/ Life(r)!Next]_vars
    BY LifeKept DEF LifeStep
  <1>. QED BY <1>1, <1>2, LInvariance, PTL DEF Spec, ImplementsLifecycle

\* A run is never running without a token to fence its writes with, which
\* LeaseDiscipline alone does not say.
TokenInv == \A r \in Run : status[r] = "running" => leaseToken[r] # 0

LEMMA TokenInvariance == Spec => []TokenInv
  <1>1. Init => TokenInv
    BY DEF Init, TokenInv
  <1>2. LInv /\ TokenInv /\ [Next]_vars => TokenInv'
    <2> SUFFICES ASSUME LInv, TokenInv, [Next]_vars, NEW r \in Run, status'[r] = "running"
                 PROVE  leaseToken'[r] # 0
      BY DEF TokenInv
    <2>1. LifeStep(r) /\ (status[r] = "running" => leaseToken[r] # 0)
      BY LifeKept DEF TokenInv
    <2>. QED
      BY <2>1 DEF LifeStep, Life!Next, Life!lifeVars, Life!lease, Life!flags, Life!Create, Life!Claim,
         Life!Renew, Life!Expire, Life!Release, Life!Suspend, Life!Finish, Life!Requeue, Life!End,
         Life!RequestCancel, Life!Pass, Life!Suspended, Life!Ended
  <1>. QED BY <1>1, <1>2, LInvariance, PTL DEF Spec

=============================================================================
