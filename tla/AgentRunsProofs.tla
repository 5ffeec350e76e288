--------------------------- MODULE AgentRunsProofs ---------------------------
(* Theorems about AgentRuns for every family of runs and every limit. *)
EXTENDS AgentRuns, FiniteSetTheorems, TLAPS

(***************************************************************************)
(* TypeOK with the budget counters in Int: they are natural numbers only   *)
(* because they count reservations, which is BudgetExact.                  *)
(***************************************************************************)
Shape ==
  /\ status \in [Run -> Active \cup Terminal \cup {"absent"}]
  /\ leaseToken \in [Run -> Nat]
  /\ leaseLive \in [Run -> BOOLEAN]
  /\ attempt \in [Run -> Nat]
  /\ cancelRequested \in [Run -> BOOLEAN]
  /\ overdue \in [Run -> BOOLEAN]
  /\ goalRevision \in [Run -> Nat]
  /\ rootRevision \in Nat
  /\ dispatch \in [Child -> {"none", "pending", "dispatched"}]
  /\ remoteTask \in [Child -> BOOLEAN]
  /\ remoteCancel \in [Child -> {"none", "pending", "completed"}]
  /\ join \in [Child -> {"none", "pending"} \cup Terminal]
  /\ joinGeneration \in [Child -> Nat]
  /\ reservation \in [Child -> {"none", "reserved", "committed", "released"}]
  /\ budget \in [reserved : Int, committed : Int, delegations : Int]
  /\ ckpt \in [generation : Nat, kind : {"none", "delegation", "goal"},
               claimToken : Nat, completed : BOOLEAN]
  /\ resumeDispatch \in Nat
  /\ candidate \in [Child -> Candidate]
  /\ answering \in [Child -> {"none", "waiting_input", "waiting_approval"}]
  /\ cancelling \in [run : Run, active : BOOLEAN, remote : SUBSET Child]

IInv == Shape /\ LeaseDiscipline /\ ChildSettlement /\ BudgetExact

-----------------------------------------------------------------------------
(* Helpers *)

\* What observeTerminalChild leaves of the join and the reservation of the
\* child, and that it has the right shape.
LEMMA ObserveShape ==
  ASSUME Shape, NEW c \in Child, status' \in [Run -> Active \cup Terminal \cup {"absent"}],
         status'[c] \in Terminal, ObserveTerminalChild(c)
  PROVE  /\ join' \in [Child -> {"none", "pending"} \cup Terminal]
         /\ reservation' \in [Child -> {"none", "reserved", "committed", "released"}]
         /\ budget' \in [reserved : Int, committed : Int, delegations : Int]
         /\ resumeDispatch' \in Nat
  BY DEF Shape, ObserveTerminalChild, Settled, Held

\* The state after a run has left for status s.
LEMMA LeaveShape ==
  ASSUME Shape, NEW r \in Run, NEW s \in Active \cup Terminal, Leave(r, s)
  PROVE  /\ status' \in [Run -> Active \cup Terminal \cup {"absent"}]
         /\ leaseToken' \in [Run -> Nat]
         /\ leaseLive' \in [Run -> BOOLEAN]
         /\ status'[r] = s
  BY DEF Shape, Leave

\* The state after a child has ended with status s and been observed.
LEMMA EndChildShape ==
  ASSUME Shape, NEW c \in Child, NEW s \in Terminal, Leave(c, s), ObserveTerminalChild(c)
  PROVE  /\ status' \in [Run -> Active \cup Terminal \cup {"absent"}]
         /\ leaseToken' \in [Run -> Nat]
         /\ leaseLive' \in [Run -> BOOLEAN]
         /\ join' \in [Child -> {"none", "pending"} \cup Terminal]
         /\ reservation' \in [Child -> {"none", "reserved", "committed", "released"}]
         /\ budget' \in [reserved : Int, committed : Int, delegations : Int]
         /\ resumeDispatch' \in Nat
  <1>1. c \in Run /\ s \in Active \cup Terminal
    BY DEF Run
  <1>2. /\ status' \in [Run -> Active \cup Terminal \cup {"absent"}]
        /\ leaseToken' \in [Run -> Nat]
        /\ leaseLive' \in [Run -> BOOLEAN]
        /\ status'[c] = s
    BY <1>1, LeaveShape
  <1>3. /\ join' \in [Child -> {"none", "pending"} \cup Terminal]
        /\ reservation' \in [Child -> {"none", "reserved", "committed", "released"}]
        /\ budget' \in [reserved : Int, committed : Int, delegations : Int]
        /\ resumeDispatch' \in Nat
    BY <1>2, ObserveShape
  <1>. QED BY <1>2, <1>3

\* The state after a run was leased.
LEMMA LeaseShape ==
  ASSUME Shape, NEW r \in Run, Lease(r)
  PROVE  /\ status' \in [Run -> Active \cup Terminal \cup {"absent"}]
         /\ leaseToken' \in [Run -> Nat]
         /\ leaseLive' \in [Run -> BOOLEAN]
         /\ attempt' \in [Run -> Nat]
  BY DEF Shape, Lease, Active

\* Whatever an executor reports, the run it finishes ends.
LEMMA ClassifyTerminal ==
  ASSUME NEW r, NEW o \in Outcomes
  PROVE  Classify(r, o) \subseteq Terminal
  BY FamilyAssumption DEF Classify, InTime, Terminal

\* An answer queues the run that still waits for it.
LEMMA ResumeQueues ==
  ASSUME Shape, NEW c \in Child, Resume(c)
  PROVE  \/ status' = status
         \/ /\ status[c] \in {"waiting_input", "waiting_approval"}
            /\ status' = [status EXCEPT ![c] = "queued"]
  BY DEF Shape, Resume

\* The initial state has the shape.
LEMMA ShapeInit == Init => Shape
  BY DEF Init, Shape, Run, Active, Waiting, NoCandidate, Candidate, NoCancel, Terminal

\* Ending the parent without a resume keeps the shape of the state.
LEMMA EndParentShape ==
  ASSUME Shape, NEW s \in Terminal, EndParent(s)
  PROVE  Shape'
  <1>1. Parent \in Run  BY DEF Run
  <1>2. Leave(Parent, s)  BY DEF EndParent
  <1>3. ckpt' \in [generation : Nat, kind : {"none", "delegation", "goal"},
                  claimToken : Nat, completed : BOOLEAN]
    <2>1. (ckpt.generation # 0) \in BOOLEAN
      OBVIOUS
    <2>. QED BY <2>1 DEF Shape, EndParent
  <1>. QED BY <1>1, <1>2, <1>3, LeaveShape
       DEF Shape, EndParent, childVars, goalVars, joinVars, txVars

\* Every step keeps the shape of the state.
LEMMA ShapeStep == Shape /\ [Next]_vars => Shape'
  <1> SUFFICES ASSUME Shape, [Next]_vars PROVE Shape'
    OBVIOUS
  <1> USE DEF runVars, childVars, joinVars, goalVars, parentVars, txVars
  <1>p. Parent \in Run /\ Child \subseteq Run
    BY DEF Run
  <1>1. ASSUME NEW c \in Child, CreateDelegated(c) PROVE Shape'
    BY <1>1, <1>p DEF Shape, CreateDelegated, Active
  <1>2. ASSUME NEW c \in Child, MarkDispatched(c) PROVE Shape'
    BY <1>2 DEF Shape, MarkDispatched
  <1>3. ASSUME NEW c \in Child, ReadCandidate(c) PROVE Shape'
    BY <1>3, <1>p DEF Shape, ReadCandidate, Candidate, Claimable, Active, Waiting
  <1>4. ASSUME NEW c \in Child, ClaimQueued(c) PROVE Shape'
    <2>1. candidate' \in [Child -> Candidate]
      BY <1>4 DEF Shape, ClaimQueued, Candidate, NoCandidate
    <2>2. ASSUME NEW stale \in BOOLEAN, RefuseCandidate(c, stale) PROVE Shape'
      <3>1. CASE status[c] \in Claimable
        <4>1. PICK s \in Terminal : Leave(c, s)
          BY <2>2, <3>1 DEF RefuseCandidate, Terminal
        <4>2. ObserveTerminalChild(c)
          BY <2>2, <3>1 DEF RefuseCandidate
        <4>. QED BY <1>4, <2>1, <2>2, <4>1, <4>2, EndChildShape
             DEF Shape, RefuseCandidate, ClaimQueued
      <3>2. CASE status[c] \notin Claimable
        BY <1>4, <2>1, <2>2, <3>2 DEF Shape, RefuseCandidate, ClaimQueued
      <3>. QED BY <3>1, <3>2
    <2>3. ASSUME LeaseCandidate(c, candidate[c]) PROVE Shape'
      <3>1. CASE MayLease(c, candidate[c])
        BY <1>4, <1>p, <2>1, <2>3, <3>1, LeaseShape DEF Shape, LeaseCandidate, ClaimQueued
      <3>2. CASE ~MayLease(c, candidate[c])
        BY <1>4, <2>1, <2>3, <3>2 DEF Shape, LeaseCandidate, ClaimQueued
      <3>. QED BY <3>1, <3>2
    <2>. QED BY <1>4, <2>2, <2>3 DEF ClaimQueued
  <1>5. ASSUME NEW r \in Run, Heartbeat(r) PROVE Shape'
    BY <1>5 DEF Shape, Heartbeat
  <1>6. ASSUME NEW r \in Run, NEW o \in Outcomes, FinishRunning(r, o) PROVE Shape'
    <2>1. PICK s \in Terminal : Leave(r, s)
      BY <1>6, ClassifyTerminal DEF FinishRunning
    <2>2. CASE r \in Child
      <3>1. ObserveTerminalChild(r)  BY <1>6, <2>2 DEF FinishRunning
      <3>. QED BY <1>6, <2>1, <2>2, <3>1, EndChildShape DEF Shape, FinishRunning
    <2>3. CASE r \notin Child
      BY <1>6, <2>1, <2>3, LeaveShape DEF Shape, FinishRunning
    <2>. QED BY <2>2, <2>3
  <1>7. ASSUME NEW c \in Child, NEW s \in {"waiting_input", "waiting_approval"}, Wait(c, s)
        PROVE Shape'
    BY <1>7, <1>p, LeaveShape DEF Shape, Wait, Active, Waiting
  <1>8. ASSUME NEW c \in Child, Resume(c) PROVE Shape'
    BY <1>8, <1>p DEF Shape, Resume, Active
  <1>26. ASSUME NEW c \in Child, ReadResume(c) PROVE Shape'
    BY <1>26 DEF Shape, ReadResume
  <1>9. ASSUME NEW c \in Child, RecordRemoteTask(c) PROVE Shape'
    BY <1>9 DEF Shape, RecordRemoteTask
  <1>10. ASSUME NEW c \in Child, DeferRemoteTask(c) PROVE Shape'
    BY <1>10, <1>p, LeaveShape DEF Shape, DeferRemoteTask, Active, Waiting
  <1>11. ASSUME NEW c \in Child, CancelQueued(c) PROVE Shape'
    <2>1. "cancelled" \in Terminal  BY DEF Terminal
    <2>2. Leave(c, "cancelled") /\ ObserveTerminalChild(c)
      BY <1>11 DEF CancelQueued
    <2>. QED BY <1>11, <1>p, <2>1, <2>2, EndChildShape DEF Shape, CancelQueued
  <1>12. ASSUME NEW r \in Run, BeginCancellation(r) PROVE Shape'
    BY <1>12, FamilyAssumption DEF Shape, BeginCancellation
  <1>13. ASSUME CommitCancellation PROVE Shape'
    <2>. DEFINE tree   == Tree(cancelling.run)
                marked == {r \in tree : status[r] \in Active}
                kept   == {c \in Child : remoteCancel'[c] = "pending"}
                ended  == {r \in marked : status[r] # "running"} \ kept
                freed  == {c \in tree \cap Child : status'[c] = "cancelled" /\ Held(c)}
    <2>1. status' \in [Run -> Active \cup Terminal \cup {"absent"}]
      BY <1>13 DEF Shape, CommitCancellation, Terminal
    <2>2. join' \in [Child -> {"none", "pending"} \cup Terminal]
      BY <1>13, <2>1 DEF Shape, CommitCancellation
    <2>3. Cardinality(freed) \in Nat
      <3>1. freed \in SUBSET Child  OBVIOUS
      <3>. QED BY <3>1, FamilyAssumption, FS_Subset, FS_CardinalityType
    <2>4. budget' \in [reserved : Int, committed : Int, delegations : Int]
      BY <1>13, <2>3 DEF Shape, CommitCancellation
    <2>5. /\ reservation' \in [Child -> {"none", "reserved", "committed", "released"}]
          /\ remoteCancel' \in [Child -> {"none", "pending", "completed"}]
          /\ cancelRequested' \in [Run -> BOOLEAN]
          /\ resumeDispatch' \in Nat
          /\ cancelling' \in [run : Run, active : BOOLEAN, remote : SUBSET Child]
      BY <1>13, <1>p DEF Shape, CommitCancellation, NoCancel
    <2>. QED BY <1>13, <2>1, <2>2, <2>4, <2>5 DEF Shape, CommitCancellation
  <1>14. ASSUME NEW c \in Child, RetryRemoteCancellation(c) PROVE Shape'
    BY <1>14 DEF Shape, RetryRemoteCancellation
  <1>15. ASSUME NEW c \in Child, CompleteRemoteCancellation(c) PROVE Shape'
    <2>1. "cancelled" \in Terminal  BY DEF Terminal
    <2>2. CASE EndsWithRemote(c)
      <3>1. Leave(c, "cancelled") /\ ObserveTerminalChild(c)
        BY <1>15, <2>2 DEF CompleteRemoteCancellation
      <3>. QED BY <1>15, <2>1, <3>1, EndChildShape DEF Shape, CompleteRemoteCancellation
    <2>3. CASE ~EndsWithRemote(c)
      BY <1>15, <2>3 DEF Shape, CompleteRemoteCancellation
    <2>. QED BY <2>2, <2>3
  <1>16. ASSUME NEW c \in Child, ReconcileChild(c) PROVE Shape'
    <2>1. "timed_out" \in Terminal  BY DEF Terminal
    <2>2. CASE Expired(c)
      <3>1. Leave(c, "timed_out") /\ ObserveTerminalChild(c)
        BY <1>16, <2>2 DEF ReconcileChild
      <3>2. /\ status' \in [Run -> Active \cup Terminal \cup {"absent"}]
            /\ leaseToken' \in [Run -> Nat]
            /\ leaseLive' \in [Run -> BOOLEAN]
            /\ join' \in [Child -> {"none", "pending"} \cup Terminal]
            /\ reservation' \in [Child -> {"none", "reserved", "committed", "released"}]
            /\ budget' \in [reserved : Int, committed : Int, delegations : Int]
            /\ resumeDispatch' \in Nat
        BY <2>1, <3>1, EndChildShape
      <3>3. /\ dispatch' = [dispatch EXCEPT ![c] = "none"]
            /\ UNCHANGED <<attempt, cancelRequested, overdue, goalVars, remoteTask, remoteCancel,
                           joinGeneration, ckpt, txVars>>
        BY <1>16, <2>2 DEF ReconcileChild
      <3>. QED BY <3>2, <3>3 DEF Shape
    <2>3. CASE ~Expired(c)
      <3>1. ObserveTerminalChild(c) /\ UNCHANGED status /\ status[c] \in Terminal
        BY <1>16, <2>3 DEF ReconcileChild
      <3>2. status' \in [Run -> Active \cup Terminal \cup {"absent"}] /\ status'[c] \in Terminal
        BY <3>1 DEF Shape
      <3>3. /\ join' \in [Child -> {"none", "pending"} \cup Terminal]
            /\ reservation' \in [Child -> {"none", "reserved", "committed", "released"}]
            /\ budget' \in [reserved : Int, committed : Int, delegations : Int]
            /\ resumeDispatch' \in Nat
        BY <3>1, <3>2, ObserveShape
      <3>. QED BY <1>16, <2>3, <3>3 DEF Shape, ReconcileChild
    <2>. QED BY <2>2, <2>3
  <1>17. ASSUME NEW s \in Terminal, EndParent(s) PROVE Shape'
    BY <1>17, EndParentShape
  <1>18. ASSUME SuspendEnds \/ ExpireParent \/ ReconcileParent \/ ReapParent
         PROVE Shape'
    <2>1. {"cancelled", "timed_out"} \subseteq Terminal  BY DEF Terminal
    <2>. QED BY <1>17, <1>18, <2>1 DEF SuspendEnds, ExpireParent, ReconcileParent, ReapParent
  <1>19. ASSUME NEW kind \in {"delegation", "goal"}, SuspendParent(kind) PROVE Shape'
    <2>1. "waiting_external" \in Active  BY DEF Active, Waiting
    <2>. QED BY <1>19, <1>p, <2>1, LeaveShape DEF Shape, SuspendParent
  <1>20. ASSUME ClaimParentResume PROVE Shape'
    BY SMTT(30), <1>20, <1>p, LeaseShape DEF Shape, ClaimParentResume
  <1>21. ASSUME NEW o \in Outcomes, FinishParentResume(o) PROVE Shape'
    BY <1>21, <1>17, ClassifyTerminal DEF FinishParentResume
  <1>22. ASSUME ReviseRunGoal PROVE Shape'
    BY <1>22, <1>p DEF Shape, ReviseRunGoal
  <1>23. ASSUME NEW r \in Run, LeaseExpires(r) PROVE Shape'
    BY <1>23 DEF Shape, LeaseExpires
  <1>24. ASSUME NEW r \in Run, DeadlinePasses(r) PROVE Shape'
    BY <1>24 DEF Shape, DeadlinePasses
  <1>25. CASE UNCHANGED vars
    BY <1>25 DEF Shape, vars
  <1>. QED
    <2>1. CASE ParentNext
      BY <2>1, <1>13, <1>18, <1>19, <1>20, <1>21, <1>22 DEF ParentNext
    <2>2. ASSUME NEW c \in Child, ChildNext(c) PROVE Shape'
      BY <2>2, <1>1, <1>2, <1>3, <1>4, <1>11, <1>16 DEF ChildNext
    <2>3. ASSUME NEW c \in RemoteChild, RemoteNext(c) PROVE Shape'
      <3>. c \in Child  BY FamilyAssumption
      <3>. QED BY <2>3, <1>7, <1>8, <1>9, <1>10, <1>14, <1>15, <1>26 DEF RemoteNext
    <2>4. ASSUME NEW r \in Run, RunNext(r) PROVE Shape'
      BY <2>4, <1>5, <1>6, <1>12, <1>23, <1>24 DEF RunNext
    <2>. QED BY <1>25, <2>1, <2>2, <2>3, <2>4 DEF Next

-----------------------------------------------------------------------------
(* Leases *)

\* Leaving keeps the tokens and the leases of all runs disciplined.
LEMMA LeaveKeepsDiscipline ==
  ASSUME Shape, LeaseDiscipline, NEW r \in Run, NEW s, s # "running",
         Leave(r, s), attempt' = attempt
  PROVE  /\ \A x \in Run : leaseToken'[x] = IF status'[x] = "running" THEN attempt'[x] ELSE 0
         /\ \A x \in Run : leaseLive'[x] => status'[x] = "running"
         /\ \A x \in Run \ {r} : leaseToken'[x] = leaseToken[x]
  BY DEF Shape, LeaseDiscipline, Leave

\* So does leasing, whose token is that of the new attempt.
LEMMA LeaseKeepsDiscipline ==
  ASSUME Shape, LeaseDiscipline, NEW r \in Run, Lease(r)
  PROVE  /\ \A x \in Run : leaseToken'[x] = IF status'[x] = "running" THEN attempt'[x] ELSE 0
         /\ \A x \in Run : leaseLive'[x] => status'[x] = "running"
         /\ \A x \in Run \ {r} : leaseToken'[x] = leaseToken[x]
         /\ leaseToken'[r] = attempt[r] + 1
  BY DEF Shape, LeaseDiscipline, Lease

\* Ending the parent also gives up the claim on its checkpoint.
LEMMA EndParentKeepsDiscipline ==
  ASSUME Shape, LeaseDiscipline, NEW s \in Terminal, EndParent(s)
  PROVE  LeaseDiscipline'
  <1>1. Parent \in Run /\ s # "running"  BY DEF Run, Terminal
  <1>2. Leave(Parent, s) /\ attempt' = attempt /\ ckpt'.claimToken = 0
    BY DEF EndParent
  <1>. QED BY <1>1, <1>2, LeaveKeepsDiscipline DEF LeaseDiscipline

\* Every step keeps the leases disciplined.
LEMMA LeaseStep == Shape /\ LeaseDiscipline /\ [Next]_vars => LeaseDiscipline'
  <1> SUFFICES ASSUME Shape, LeaseDiscipline, [Next]_vars PROVE LeaseDiscipline'
    OBVIOUS
  <1> USE DEF runVars, parentVars
  <1>p. /\ Parent \in Run /\ Child \subseteq Run /\ Parent \notin Child
        /\ \A c \in Child : c # Parent
    BY FamilyAssumption DEF Run
  <1>t. "running" \notin Terminal /\ {"cancelled", "timed_out"} \subseteq Terminal
    BY DEF Terminal
  <1>1. ASSUME NEW c \in Child, NEW s, s # "running", Leave(c, s), attempt' = attempt,
               ckpt' = ckpt
        PROVE LeaseDiscipline'
    BY <1>1, <1>p, LeaveKeepsDiscipline DEF LeaseDiscipline
  <1>2. ASSUME UNCHANGED <<status, leaseToken, leaseLive, attempt, ckpt>>
        PROVE LeaseDiscipline'
    BY <1>2 DEF LeaseDiscipline
  <1>3. ASSUME NEW c \in Child, CreateDelegated(c) PROVE LeaseDiscipline'
    BY <1>3, <1>p DEF Shape, LeaseDiscipline, CreateDelegated
  <1>4. ASSUME NEW c \in Child, ClaimQueued(c) PROVE LeaseDiscipline'
    <2>1. ASSUME NEW stale \in BOOLEAN, RefuseCandidate(c, stale) PROVE LeaseDiscipline'
      <3>1. CASE status[c] \in Claimable
        BY <1>1, <1>4, <2>1, <3>1 DEF RefuseCandidate, ClaimQueued
      <3>2. CASE status[c] \notin Claimable
        BY <1>2, <1>4, <2>1, <3>2 DEF RefuseCandidate, ClaimQueued
      <3>. QED BY <3>1, <3>2
    <2>2. ASSUME LeaseCandidate(c, candidate[c]) PROVE LeaseDiscipline'
      <3>1. CASE MayLease(c, candidate[c])
        <4>1. Lease(c) /\ ckpt' = ckpt /\ leaseToken[Parent] = leaseToken[Parent]
          BY <1>4, <2>2, <3>1 DEF LeaseCandidate, ClaimQueued
        <4>. QED BY <1>p, <4>1, LeaseKeepsDiscipline DEF LeaseDiscipline
      <3>2. CASE ~MayLease(c, candidate[c])
        BY <1>4, <2>2, <3>2 DEF LeaseCandidate, ClaimQueued, LeaseDiscipline
      <3>. QED BY <3>1, <3>2
    <2>. QED BY <1>4, <2>1, <2>2 DEF ClaimQueued
  <1>5. ASSUME NEW r \in Run, Heartbeat(r) PROVE LeaseDiscipline'
    BY <1>5 DEF Shape, LeaseDiscipline, Heartbeat, MayContinue, Holds
  <1>6. ASSUME NEW r \in Run, NEW o \in Outcomes, FinishRunning(r, o) PROVE LeaseDiscipline'
    <2>1. PICK s \in Terminal : Leave(r, s)
      BY <1>6, ClassifyTerminal DEF FinishRunning
    <2>2. /\ attempt' = attempt /\ ckpt' = ckpt
          /\ r = Parent => ckpt.claimToken = 0
      BY <1>6 DEF FinishRunning
    <2>. QED BY <1>p, <1>t, <2>1, <2>2, LeaveKeepsDiscipline DEF LeaseDiscipline
  <1>7. ASSUME NEW c \in Child, NEW s \in {"waiting_input", "waiting_approval"}, Wait(c, s)
        PROVE LeaseDiscipline'
    BY <1>1, <1>7 DEF Wait
  <1>8. ASSUME NEW c \in Child, Resume(c) PROVE LeaseDiscipline'
    BY <1>8, <1>p DEF Shape, LeaseDiscipline, Resume
  <1>9. ASSUME NEW c \in Child, DeferRemoteTask(c) PROVE LeaseDiscipline'
    BY <1>1, <1>9 DEF DeferRemoteTask
  <1>10. ASSUME NEW c \in Child, CancelQueued(c) PROVE LeaseDiscipline'
    BY <1>1, <1>10 DEF CancelQueued
  <1>11. ASSUME CommitCancellation PROVE LeaseDiscipline'
    <2>1. \A r \in Run : (status'[r] = "running") <=> (status[r] = "running")
      BY <1>11 DEF Shape, CommitCancellation
    <2>. QED BY <1>11, <2>1 DEF LeaseDiscipline, CommitCancellation
  <1>12. ASSUME NEW c \in Child, CompleteRemoteCancellation(c) PROVE LeaseDiscipline'
    BY <1>1, <1>2, <1>12 DEF CompleteRemoteCancellation
  <1>13. ASSUME NEW c \in Child, ReconcileChild(c) PROVE LeaseDiscipline'
    BY <1>1, <1>2, <1>13 DEF ReconcileChild, Expired, Waiting, Terminal
  <1>14. ASSUME SuspendEnds \/ ExpireParent \/ ReconcileParent \/ ReapParent
         PROVE LeaseDiscipline'
    BY <1>14, <1>t, EndParentKeepsDiscipline
       DEF SuspendEnds, ExpireParent, ReconcileParent, ReapParent
  <1>15. ASSUME NEW kind \in {"delegation", "goal"}, SuspendParent(kind) PROVE LeaseDiscipline'
    <2>1. Leave(Parent, "waiting_external") /\ attempt' = attempt /\ ckpt'.claimToken = 0
      BY <1>15 DEF SuspendParent
    <2>. QED BY <1>p, <2>1, LeaveKeepsDiscipline DEF LeaseDiscipline
  <1>16. ASSUME ClaimParentResume PROVE LeaseDiscipline'
    <2>1. /\ Lease(Parent) /\ ckpt'.claimToken = attempt[Parent] + 1
          /\ ckpt'.completed = ckpt.completed /\ ~ckpt.completed
      BY <1>16 DEF ClaimParentResume, MayResume, Shape
    <2>. QED BY <1>p, <2>1, LeaseKeepsDiscipline DEF LeaseDiscipline
  <1>17. ASSUME NEW o \in Outcomes, FinishParentResume(o) PROVE LeaseDiscipline'
    BY <1>17, ClassifyTerminal, EndParentKeepsDiscipline DEF FinishParentResume
  <1>18. ASSUME NEW r \in Run, LeaseExpires(r) PROVE LeaseDiscipline'
    BY <1>18 DEF Shape, LeaseDiscipline, LeaseExpires
  <1>19. CASE UNCHANGED vars
    BY <1>2, <1>19 DEF vars
  <1>. QED
    <2>1. CASE ParentNext
      BY <2>1, <1>2, <1>11, <1>14, <1>15, <1>16, <1>17 DEF ParentNext, ReviseRunGoal
    <2>2. ASSUME NEW c \in Child, ChildNext(c) PROVE LeaseDiscipline'
      BY <2>2, <1>2, <1>3, <1>4, <1>10, <1>13 DEF ChildNext, MarkDispatched, ReadCandidate
    <2>3. ASSUME NEW c \in RemoteChild, RemoteNext(c) PROVE LeaseDiscipline'
      <3>. c \in Child  BY FamilyAssumption
      <3>. QED BY <2>3, <1>2, <1>7, <1>8, <1>9, <1>12
           DEF RemoteNext, ReadResume, RecordRemoteTask, RetryRemoteCancellation
    <2>4. ASSUME NEW r \in Run, RunNext(r) PROVE LeaseDiscipline'
      BY <2>4, <1>2, <1>5, <1>6, <1>18 DEF RunNext, DeadlinePasses, BeginCancellation
    <2>. QED BY <1>19, <2>1, <2>2, <2>3, <2>4 DEF Next

-----------------------------------------------------------------------------
(* Joins and reservations *)

\* Ending an active child through observeTerminalChild settles it.
LEMMA ObserveSettles ==
  ASSUME Shape, ChildSettlement, NEW c \in Child, NEW s \in Terminal,
         status[c] \in Active, status' = [status EXCEPT ![c] = s], ObserveTerminalChild(c)
  PROVE  ChildSettlement'
  <1>1. c \in Run /\ Child \subseteq Run  BY DEF Run
  <1>2. status'[c] = s /\ \A d \in Child \ {c} : status'[d] = status[d]
    BY <1>1 DEF Shape
  <1>3. join[c] = "pending" /\ Held(c)
    BY DEF ChildSettlement, Held
  <1>4. /\ join'[c] = s /\ reservation'[c] = Settled(s)
        /\ \A d \in Child \ {c} : join'[d] = join[d] /\ reservation'[d] = reservation[d]
    BY <1>2, <1>3 DEF Shape, ObserveTerminalChild
  <1>5. s # "absent" /\ s \notin Active
    BY DEF Terminal, Active, Waiting
  <1>. QED BY <1>2, <1>4, <1>5 DEF ChildSettlement, Settled

\* Observing a child again changes nothing.
LEMMA ObserveAgain ==
  ASSUME Shape, ChildSettlement, NEW c \in Child, status[c] \in Terminal,
         ObserveTerminalChild(c)
  PROVE  UNCHANGED joinVars /\ UNCHANGED resumeDispatch
  <1>1. ~Held(c) /\ join[c] # "pending"
    BY DEF ChildSettlement, Held, Settled, Terminal
  <1>. QED BY <1>1 DEF Shape, ObserveTerminalChild, joinVars

\* A step that leaves the joins alone and ends no child keeps them settled.
LEMMA QuietSettlement ==
  ASSUME Shape, ChildSettlement, UNCHANGED <<join, reservation>>,
         \A c \in Child : \/ status'[c] = status[c]
                          \/ status[c] \in Active /\ status'[c] \in Active
  PROVE  ChildSettlement'
  <1>1. \A x \in Active : x # "absent" /\ x \notin Terminal
    BY DEF Terminal, Active, Waiting
  <1>. QED BY <1>1 DEF ChildSettlement, Settled

\* Leaving or leasing the parent changes no status of a child.
LEMMA ParentQuiet ==
  ASSUME Shape, NEW s, Leave(Parent, s) \/ Lease(Parent)
  PROVE  \A c \in Child : status'[c] = status[c]
  BY FamilyAssumption DEF Shape, Leave, Lease, Run

\* Every step keeps the joins and reservations in step with the children.
LEMMA SettlementStep ==
  Shape /\ LeaseDiscipline /\ ChildSettlement /\ [Next]_vars => ChildSettlement'
  <1> SUFFICES ASSUME Shape, LeaseDiscipline, ChildSettlement, [Next]_vars
               PROVE ChildSettlement'
    OBVIOUS
  <1> USE DEF runVars, joinVars
  <1>p. /\ Parent \in Run /\ Child \subseteq Run /\ Parent \notin Child
        /\ \A c \in Child : c # Parent
    BY FamilyAssumption DEF Run
  <1>t. /\ {"cancelled", "timed_out"} \subseteq Terminal
        /\ "running" \in Active /\ "queued" \in Active /\ Waiting \subseteq Active
        /\ "waiting_external" \in Waiting /\ Claimable \subseteq Active
        /\ Active \cap Terminal = {} /\ "absent" \notin Active /\ "absent" \notin Terminal
    BY DEF Terminal, Active, Waiting, Claimable
  <1>1. ASSUME NEW c \in Child, NEW s \in Terminal, status[c] \in Active, Leave(c, s),
               ObserveTerminalChild(c)
        PROVE ChildSettlement'
    BY <1>1, ObserveSettles DEF Leave
  <1>2. ASSUME UNCHANGED <<status, join, reservation>> PROVE ChildSettlement'
    BY <1>2, QuietSettlement
  <1>3. ASSUME NEW c \in Child, CreateDelegated(c) PROVE ChildSettlement'
    <2>1. /\ status'[c] = "queued" /\ join'[c] = "pending" /\ reservation'[c] = "reserved"
          /\ \A d \in Child \ {c} : /\ status'[d] = status[d] /\ join'[d] = join[d]
                                   /\ reservation'[d] = reservation[d]
      BY <1>3, <1>p DEF Shape, CreateDelegated
    <2>. QED BY <2>1, <1>t DEF ChildSettlement, Settled
  <1>4. ASSUME NEW c \in Child, ClaimQueued(c) PROVE ChildSettlement'
    <2>1. ASSUME NEW stale \in BOOLEAN, RefuseCandidate(c, stale) PROVE ChildSettlement'
      BY <1>1, <1>2, <1>t, <2>1 DEF RefuseCandidate
    <2>2. ASSUME LeaseCandidate(c, candidate[c]) PROVE ChildSettlement'
      <3>1. \/ status' = status
            \/ status[c] \in Active /\ status' = [status EXCEPT ![c] = "running"]
        BY <1>t, <2>2 DEF LeaseCandidate, MayLease, StillClaimable, Lease, Shape, Candidate
      <3>2. UNCHANGED <<join, reservation>>
        BY <2>2 DEF LeaseCandidate
      <3>. QED BY <1>p, <1>t, <3>1, <3>2, QuietSettlement DEF Shape
    <2>. QED BY <1>4, <2>1, <2>2 DEF ClaimQueued
  <1>5. ASSUME NEW r \in Run, NEW o \in Outcomes, FinishRunning(r, o) PROVE ChildSettlement'
    <2>1. status[r] \in Active /\ \E s \in Terminal : Leave(r, s)
      BY <1>5, <1>t, ClassifyTerminal DEF FinishRunning, Holds
    <2>2. CASE r \in Child
      BY <1>1, <1>5, <2>1, <2>2 DEF FinishRunning
    <2>3. CASE r \notin Child
      BY <1>5, <2>1, <2>3, ParentQuiet, QuietSettlement DEF FinishRunning, Run
    <2>. QED BY <2>2, <2>3
  <1>6. ASSUME NEW c \in Child, NEW s \in Active, status[c] \in Active,
               status' = [status EXCEPT ![c] = s], UNCHANGED <<join, reservation>>
        PROVE ChildSettlement'
    BY <1>6, <1>p, QuietSettlement DEF Shape
  <1>7. ASSUME NEW c \in Child, NEW s \in {"waiting_input", "waiting_approval"}, Wait(c, s)
        PROVE ChildSettlement'
    <2>1. s \in Active  BY <1>t DEF Waiting
    <2>. QED BY <1>6, <1>7, <1>t, <2>1 DEF Wait, Leave, MayContinue, Holds
  <1>8. ASSUME NEW c \in Child, Resume(c) PROVE ChildSettlement'
    <2>1. UNCHANGED <<join, reservation>>  BY <1>8 DEF Resume, joinVars
    <2>. QED BY <1>2, <1>6, <1>8, <1>t, <2>1, ResumeQueues DEF Waiting
  <1>9. ASSUME NEW c \in Child, DeferRemoteTask(c) PROVE ChildSettlement'
    BY <1>6, <1>9, <1>t DEF DeferRemoteTask, Leave, MayContinue, Holds
  <1>10. ASSUME NEW c \in Child, CancelQueued(c) PROVE ChildSettlement'
    BY <1>1, <1>10, <1>t DEF CancelQueued
  <1>11. ASSUME CommitCancellation PROVE ChildSettlement'
    <2>. DEFINE tree   == Tree(cancelling.run)
                marked == {r \in tree : status[r] \in Active}
                kept   == {c \in Child : remoteCancel'[c] = "pending"}
                ended  == {r \in marked : status[r] # "running"} \ kept
                freed  == {c \in tree \cap Child : status'[c] = "cancelled" /\ Held(c)}
    <2> SUFFICES ASSUME NEW c \in Child
                 PROVE /\ status'[c] = "absent"  => join'[c] = "none" /\ reservation'[c] = "none"
                       /\ status'[c] \in Active   => join'[c] = "pending" /\ reservation'[c] = "reserved"
                       /\ status'[c] \in Terminal => join'[c] = status'[c] /\ reservation'[c] = Settled(status'[c])
      BY DEF ChildSettlement, Settled
    <2>1. /\ status'[c] = IF c \in ended THEN "cancelled" ELSE status[c]
          /\ reservation'[c] = IF c \in freed THEN "released" ELSE reservation[c]
          /\ join'[c] = IF c \in tree /\ status'[c] \in Terminal /\ join[c] = "pending"
                        THEN status'[c] ELSE join[c]
      BY <1>11, <1>p DEF CommitCancellation
    <2>2. CASE c \in ended
      <3>1. /\ status[c] \in Active /\ status'[c] = "cancelled" /\ c \in tree
        BY <2>1, <2>2
      <3>2. join[c] = "pending" /\ Held(c)
        BY <3>1 DEF ChildSettlement, Held
      <3>3. c \in freed
        BY <3>1, <3>2
      <3>. QED BY <1>t, <2>1, <3>1, <3>2, <3>3 DEF Settled
    <2>3. CASE c \notin ended
      <3>1. status'[c] = status[c]  BY <2>1, <2>3
      <3>2. c \notin freed
        BY <3>1, <1>t DEF ChildSettlement, Held, Settled
      <3>3. status'[c] \in Terminal => join[c] # "pending"
        BY <3>1 DEF ChildSettlement, Terminal
      <3>. QED BY <2>1, <3>1, <3>2, <3>3 DEF ChildSettlement, Settled
    <2>. QED BY <2>2, <2>3
  <1>12. ASSUME NEW c \in Child, CompleteRemoteCancellation(c) PROVE ChildSettlement'
    BY <1>1, <1>2, <1>12, <1>t DEF CompleteRemoteCancellation, EndsWithRemote
  <1>13. ASSUME NEW c \in Child, ReconcileChild(c) PROVE ChildSettlement'
    BY <1>1, <1>2, <1>13, <1>t, ObserveAgain DEF ReconcileChild, Expired
  <1>14. ASSUME NEW s, Leave(Parent, s) \/ Lease(Parent), UNCHANGED <<join, reservation>>
         PROVE ChildSettlement'
    BY <1>14, ParentQuiet, QuietSettlement
  <1>15. CASE ParentNext
    BY <1>15, <1>2, <1>11, <1>14
       DEF ParentNext, SuspendEnds, ExpireParent, ReconcileParent, ReapParent, EndParent,
           SuspendParent, ClaimParentResume, FinishParentResume, ReviseRunGoal
  <1>16. ASSUME NEW c \in Child, ChildNext(c) PROVE ChildSettlement'
    BY <1>16, <1>2, <1>3, <1>4, <1>10, <1>13 DEF ChildNext, MarkDispatched, ReadCandidate
  <1>17. ASSUME NEW c \in RemoteChild, RemoteNext(c) PROVE ChildSettlement'
    <2>. c \in Child  BY FamilyAssumption
    <2>. QED BY <1>17, <1>2, <1>7, <1>8, <1>9, <1>12
         DEF RemoteNext, ReadResume, RecordRemoteTask, RetryRemoteCancellation
  <1>18. ASSUME NEW r \in Run, RunNext(r) PROVE ChildSettlement'
    BY <1>18, <1>2, <1>5 DEF RunNext, DeadlinePasses, BeginCancellation, Heartbeat, LeaseExpires
  <1>19. CASE UNCHANGED vars
    BY <1>2, <1>19 DEF vars
  <1>. QED BY <1>15, <1>16, <1>17, <1>18, <1>19 DEF Next

-----------------------------------------------------------------------------
(* Budget counters *)

Reserved  == {c \in Child : reservation[c] = "reserved"}
Committed == {c \in Child : reservation[c] = "committed"}

\* Cardinalities of sets of children are natural numbers.
LEMMA FiniteFamily ==
  /\ IsFiniteSet(Reserved) /\ IsFiniteSet(Committed) /\ IsFiniteSet(Existing)
  /\ \A S \in SUBSET Child : IsFiniteSet(S) /\ Cardinality(S) \in Nat
  <1>1. \A S \in SUBSET Child : IsFiniteSet(S) /\ Cardinality(S) \in Nat
    BY FamilyAssumption, FS_Subset, FS_CardinalityType
  <1>2. Reserved \in SUBSET Child /\ Committed \in SUBSET Child /\ Existing \in SUBSET Child
    BY DEF Reserved, Committed, Existing
  <1>. QED BY <1>1, <1>2

\* Settling the reservation of an active child moves the counters by one.
LEMMA ObserveBudget ==
  ASSUME Shape, ChildSettlement, BudgetExact, NEW c \in Child, NEW s \in Terminal,
         status[c] \in Active, status' = [status EXCEPT ![c] = s], ObserveTerminalChild(c)
  PROVE  BudgetExact'
  <1>1. Held(c)  BY DEF ChildSettlement, Held
  <1>2. status'[c] = s /\ c \in Run /\ Child \subseteq Run  BY DEF Shape, Run
  <1>3. reservation' = [reservation EXCEPT ![c] = Settled(s)]
    BY <1>1, <1>2 DEF ObserveTerminalChild
  <1>4. Existing' = Existing
    BY <1>2 DEF Existing, Shape, Terminal, Active, Waiting
  <1>5. Reserved' = Reserved \ {c} /\ c \in Reserved /\ c \notin Committed
    BY <1>1, <1>3 DEF Reserved, Committed, Shape, Held, Settled
  <1>6. Cardinality(Reserved') = Cardinality(Reserved) - 1
    BY <1>5, FiniteFamily, FS_RemoveElement
  <1>7. CASE s = "cancelled"
    <2>1. Settled(s) = "released"  BY <1>7 DEF Settled
    <2>2. Committed' = Committed  BY <1>1, <1>3, <2>1 DEF Committed, Shape, Held
    <2>3. /\ budget'.reserved = budget.reserved - 1 /\ budget'.committed = budget.committed + 0
          /\ budget'.delegations = budget.delegations
      BY <1>1, <1>2, <2>1 DEF ObserveTerminalChild
    <2>4. budget.committed + 0 = budget.committed  BY DEF Shape
    <2>. QED BY <1>4, <1>6, <2>2, <2>3, <2>4 DEF BudgetExact, Reserved, Committed
  <1>8. CASE s # "cancelled"
    <2>1. Settled(s) = "committed"  BY <1>8 DEF Settled
    <2>2. Committed' = Committed \cup {c}  BY <1>3, <2>1 DEF Committed, Shape
    <2>3. Cardinality(Committed') = Cardinality(Committed) + 1
      BY <1>5, <2>2, FiniteFamily, FS_AddElement
    <2>4. /\ budget'.reserved = budget.reserved - 1 /\ budget'.committed = budget.committed + 1
          /\ budget'.delegations = budget.delegations
      BY <1>1, <1>2, <2>1 DEF ObserveTerminalChild
    <2>. QED BY <1>4, <1>6, <2>3, <2>4 DEF BudgetExact, Reserved, Committed
  <1>. QED BY <1>7, <1>8

\* A step that settles no reservation and creates no child keeps the counters exact.
LEMMA QuietBudget ==
  ASSUME BudgetExact, UNCHANGED <<reservation, budget>>,
         \A c \in Child : (status'[c] = "absent") <=> (status[c] = "absent")
  PROVE  BudgetExact'
  <1>1. Existing' = Existing  BY DEF Existing
  <1>. QED BY <1>1 DEF BudgetExact

\* Every step keeps the counters equal to what the reservations add up to.
LEMMA BudgetStep ==
  Shape /\ ChildSettlement /\ BudgetExact /\ [Next]_vars => BudgetExact'
  <1> SUFFICES ASSUME Shape, ChildSettlement, BudgetExact, [Next]_vars PROVE BudgetExact'
    OBVIOUS
  <1> USE DEF runVars, joinVars
  <1>p. /\ Parent \in Run /\ Child \subseteq Run /\ Parent \notin Child
        /\ \A c \in Child : c # Parent
    BY FamilyAssumption DEF Run
  <1>t. /\ {"cancelled", "timed_out"} \subseteq Terminal
        /\ "running" \in Active /\ "queued" \in Active /\ Waiting \subseteq Active
        /\ "waiting_external" \in Waiting /\ Claimable \subseteq Active
        /\ Active \cap Terminal = {} /\ "absent" \notin Active /\ "absent" \notin Terminal
    BY DEF Terminal, Active, Waiting, Claimable
  <1>1. ASSUME NEW c \in Child, NEW s \in Terminal, status[c] \in Active, Leave(c, s),
               ObserveTerminalChild(c)
        PROVE BudgetExact'
    BY <1>1, ObserveBudget DEF Leave
  <1>2. ASSUME UNCHANGED <<status, reservation, budget>> PROVE BudgetExact'
    BY <1>2, QuietBudget
  <1>3. ASSUME NEW c \in Child, CreateDelegated(c) PROVE BudgetExact'
    <2>1. /\ status[c] = "absent" /\ status' = [status EXCEPT ![c] = "queued"]
          /\ reservation[c] = "none" /\ reservation' = [reservation EXCEPT ![c] = "reserved"]
          /\ budget'.reserved = budget.reserved + 1 /\ budget'.committed = budget.committed
          /\ budget'.delegations = budget.delegations + 1
      BY <1>3 DEF CreateDelegated, ChildSettlement
    <2>2. /\ Reserved' = Reserved \cup {c} /\ c \notin Reserved
          /\ Committed' = Committed
          /\ Existing' = Existing \cup {c} /\ c \notin Existing
      BY <1>p, <2>1 DEF Shape, Reserved, Committed, Existing
    <2>3. /\ Cardinality(Reserved') = Cardinality(Reserved) + 1
          /\ Cardinality(Existing') = Cardinality(Existing) + 1
      BY <2>2, FiniteFamily, FS_AddElement
    <2>. QED BY <2>1, <2>2, <2>3 DEF BudgetExact, Reserved, Committed
  <1>4. ASSUME NEW c \in Child, NEW s \in Active, status[c] \in Active,
               status' = [status EXCEPT ![c] = s], UNCHANGED <<reservation, budget>>
        PROVE BudgetExact'
    BY <1>4, <1>p, <1>t, QuietBudget DEF Shape
  <1>5. ASSUME NEW c \in Child, ClaimQueued(c) PROVE BudgetExact'
    <2>1. ASSUME NEW stale \in BOOLEAN, RefuseCandidate(c, stale) PROVE BudgetExact'
      BY <1>1, <1>2, <1>t, <2>1 DEF RefuseCandidate
    <2>2. ASSUME LeaseCandidate(c, candidate[c]) PROVE BudgetExact'
      <3>1. \/ status' = status
            \/ status[c] \in Active /\ status' = [status EXCEPT ![c] = "running"]
        BY <1>t, <2>2 DEF LeaseCandidate, MayLease, StillClaimable, Lease, Shape, Candidate
      <3>2. UNCHANGED <<reservation, budget>>
        BY <2>2 DEF LeaseCandidate
      <3>3. CASE status' = status
        BY <3>2, <3>3, QuietBudget
      <3>4. CASE status[c] \in Active /\ status' = [status EXCEPT ![c] = "running"]
        BY <1>4, <1>t, <3>2, <3>4
      <3>. QED BY <3>1, <3>3, <3>4
    <2>. QED BY <1>5, <2>1, <2>2 DEF ClaimQueued
  <1>6. ASSUME NEW s, Leave(Parent, s) \/ Lease(Parent), UNCHANGED <<reservation, budget>>
         PROVE BudgetExact'
    BY <1>6, ParentQuiet, QuietBudget
  <1>7. ASSUME NEW r \in Run, NEW o \in Outcomes, FinishRunning(r, o) PROVE BudgetExact'
    <2>1. status[r] \in Active /\ \E s \in Terminal : Leave(r, s)
      BY <1>7, <1>t, ClassifyTerminal DEF FinishRunning, Holds
    <2>2. CASE r \in Child
      BY <1>1, <1>7, <2>1, <2>2 DEF FinishRunning
    <2>3. CASE r \notin Child
      BY <1>6, <1>7, <2>1, <2>3 DEF FinishRunning, Run
    <2>. QED BY <2>2, <2>3
  <1>8. ASSUME NEW c \in Child, NEW s \in {"waiting_input", "waiting_approval"}, Wait(c, s)
        PROVE BudgetExact'
    <2>1. s \in Active  BY <1>t DEF Waiting
    <2>. QED BY <1>4, <1>8, <1>t, <2>1 DEF Wait, Leave, MayContinue, Holds
  <1>9. ASSUME NEW c \in Child, Resume(c) PROVE BudgetExact'
    <2>1. UNCHANGED <<reservation, budget>>  BY <1>9 DEF Resume, joinVars
    <2>. QED BY <1>2, <1>4, <1>9, <1>t, <2>1, ResumeQueues DEF Waiting
  <1>10. ASSUME NEW c \in Child, DeferRemoteTask(c) PROVE BudgetExact'
    BY <1>4, <1>10, <1>t DEF DeferRemoteTask, Leave, MayContinue, Holds
  <1>11. ASSUME NEW c \in Child, CancelQueued(c) PROVE BudgetExact'
    BY <1>1, <1>11, <1>t DEF CancelQueued
  <1>12. ASSUME CommitCancellation PROVE BudgetExact'
    <2>. DEFINE tree   == Tree(cancelling.run)
                marked == {r \in tree : status[r] \in Active}
                kept   == {c \in Child : remoteCancel'[c] = "pending"}
                ended  == {r \in marked : status[r] # "running"} \ kept
                freed  == {c \in tree \cap Child : status'[c] = "cancelled" /\ Held(c)}
    <2>1. \A c \in Child : (status'[c] = "absent") <=> (status[c] = "absent")
      <3> SUFFICES ASSUME NEW c \in Child
                   PROVE (status'[c] = "absent") <=> (status[c] = "absent")
        OBVIOUS
      <3>1. status'[c] = IF c \in ended THEN "cancelled" ELSE status[c]
        BY <1>12, <1>p DEF CommitCancellation
      <3>. QED BY <1>t, <3>1
    <2>2. Existing' = Existing  BY <2>1 DEF Existing
    <2>3. reservation' = [c \in Child |-> IF c \in freed THEN "released" ELSE reservation[c]]
      BY <1>12 DEF CommitCancellation
    <2>4. /\ Reserved' = Reserved \ freed /\ freed \subseteq Reserved
          /\ Committed' = Committed
      BY <2>3 DEF Reserved, Committed, Held
    <2>5. Cardinality(Reserved') = Cardinality(Reserved) - Cardinality(freed)
      <3>1. Reserved \cap freed = freed  BY <2>4
      <3>2. Cardinality(Reserved \ freed) = Cardinality(Reserved) - Cardinality(Reserved \cap freed)
        BY FiniteFamily, FS_Difference
      <3>. QED BY <2>4, <3>1, <3>2
    <2>6. /\ budget'.reserved = budget.reserved - Cardinality(freed)
          /\ budget'.committed = budget.committed /\ budget'.delegations = budget.delegations
      BY <1>12 DEF CommitCancellation, Shape
    <2>. QED BY <2>2, <2>4, <2>5, <2>6 DEF BudgetExact, Reserved, Committed
  <1>13. ASSUME NEW c \in Child, CompleteRemoteCancellation(c) PROVE BudgetExact'
    BY <1>1, <1>2, <1>13, <1>t DEF CompleteRemoteCancellation, EndsWithRemote
  <1>14. ASSUME NEW c \in Child, ReconcileChild(c) PROVE BudgetExact'
    BY <1>1, <1>2, <1>14, <1>t, ObserveAgain DEF ReconcileChild, Expired
  <1>15. CASE ParentNext
    BY <1>15, <1>2, <1>6, <1>12
       DEF ParentNext, SuspendEnds, ExpireParent, ReconcileParent, ReapParent, EndParent,
           SuspendParent, ClaimParentResume, FinishParentResume, ReviseRunGoal
  <1>16. ASSUME NEW c \in Child, ChildNext(c) PROVE BudgetExact'
    BY <1>16, <1>2, <1>3, <1>5, <1>11, <1>14 DEF ChildNext, MarkDispatched, ReadCandidate
  <1>17. ASSUME NEW c \in RemoteChild, RemoteNext(c) PROVE BudgetExact'
    <2>. c \in Child  BY FamilyAssumption
    <2>. QED BY <1>17, <1>2, <1>8, <1>9, <1>10, <1>13
         DEF RemoteNext, ReadResume, RecordRemoteTask, RetryRemoteCancellation
  <1>18. ASSUME NEW r \in Run, RunNext(r) PROVE BudgetExact'
    BY <1>18, <1>2, <1>7 DEF RunNext, DeadlinePasses, BeginCancellation, Heartbeat, LeaseExpires
  <1>19. CASE UNCHANGED vars
    BY <1>2, <1>19 DEF vars
  <1>. QED BY <1>15, <1>16, <1>17, <1>18, <1>19 DEF Next

-----------------------------------------------------------------------------
(* Theorems *)

\* The invariant holds initially.
LEMMA IInvInit == Init => IInv
  <1> SUFFICES ASSUME Init PROVE IInv
    OBVIOUS
  <1>1. Shape  BY ShapeInit
  <1>2. LeaseDiscipline
    BY FamilyAssumption DEF Init, LeaseDiscipline, Run
  <1>3. ChildSettlement
    BY FamilyAssumption DEF Init, ChildSettlement, Run, Active, Waiting, Terminal
  <1>4. Reserved = {} /\ Committed = {} /\ Existing = {}
    BY FamilyAssumption DEF Init, Reserved, Committed, Existing, Run
  <1>5. BudgetExact
    BY <1>4, FS_EmptySet DEF Init, BudgetExact, Reserved, Committed
  <1>. QED BY <1>1, <1>2, <1>3, <1>5 DEF IInv

\* The invariant of the run repository is inductive, so it holds in every
\* reachable state.
THEOREM Invariance == Spec => []IInv
  <1>1. IInv /\ [Next]_vars => IInv'
    BY ShapeStep, LeaseStep, SettlementStep, BudgetStep DEF IInv
  <1>. QED BY IInvInit, <1>1, PTL DEF Spec

\* Type correctness: above all, no settlement drives a counter of
\* root_run_budget below zero.
THEOREM TypeCorrect == Spec => []TypeOK
  <1>1. IInv => TypeOK
    <2> SUFFICES ASSUME IInv PROVE TypeOK
      OBVIOUS
    <2>1. /\ Cardinality(Reserved) \in Nat /\ Cardinality(Committed) \in Nat
          /\ Cardinality(Existing) \in Nat
      BY FiniteFamily, FS_CardinalityType
    <2>2. budget \in [reserved : Nat, committed : Nat, delegations : Nat]
      BY <2>1 DEF IInv, Shape, BudgetExact, Reserved, Committed
    <2>. QED BY <2>2 DEF IInv, Shape, TypeOK
  <1>. QED BY <1>1, Invariance, PTL

\* One executor at a time: the token in the row is that of the last lease given.
THEOREM LeasesDisciplined == Spec => []LeaseDiscipline
  <1>1. IInv => LeaseDiscipline  BY DEF IInv
  <1>. QED BY <1>1, Invariance, PTL

\* Every path that ends a delegated run observes it in the same transaction.
THEOREM ChildrenSettled == Spec => []ChildSettlement
  <1>1. IInv => ChildSettlement  BY DEF IInv
  <1>. QED BY <1>1, Invariance, PTL

\* The counters of root_run_budget never drift from the reservation rows.
THEOREM BudgetNeverDrifts == Spec => []BudgetExact
  <1>1. IInv => BudgetExact  BY DEF IInv
  <1>. QED BY <1>1, Invariance, PTL

=============================================================================
