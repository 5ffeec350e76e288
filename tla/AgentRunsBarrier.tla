--------------------------- MODULE AgentRunsBarrier ---------------------------
(* The suspension of the root run: the run repository implements             *)
(* ParentBarrier, and a suspended parent whose children have all ended has a *)
(* resume dispatch.                                                          *)
EXTENDS AgentRunsSafety

-----------------------------------------------------------------------------
(* What a step may do to the parent and to the joins *)

Unmoved ==
  status'[Parent] = status[Parent] /\ attempt'[Parent] = attempt[Parent] /\ ckpt' = ckpt

\* Joins only complete, with a final status.
Closing ==
  \A c \in Child : join'[c] = join[c] \/ (join[c] = "pending" /\ join'[c] \in Terminal)

\* A step that completes joins leaves the parent a resume dispatch when it is due.
Woken ==
  /\ resumeDispatch # 0 => resumeDispatch' # 0
  /\ cancelRequested[Parent] => cancelRequested'[Parent]
  /\ join' = join \/ (WakeDue(status', cancelRequested', join') => resumeDispatch' # 0)

Ending ==
  /\ status[Parent] \in Active /\ status'[Parent] \in Terminal
  /\ attempt'[Parent] = attempt[Parent]
  /\ ckpt'.generation = ckpt.generation /\ ckpt'.kind = ckpt.kind

\* observeTerminalChild only completes a join, and wakes the parent when due.
LEMMA ObserveCloses ==
  ASSUME Shape, NEW c \in Child, status'[c] \in Terminal, ObserveTerminalChild(c),
         status'[Parent] = status[Parent], cancelRequested'[Parent] = cancelRequested[Parent]
  PROVE  Closing /\ Woken
  <1>1. Closing
    BY DEF Shape, ObserveTerminalChild, Closing
  <1>2. CASE join[c] = "pending"
    <2>1. WakeDue(status', cancelRequested', join') <=> WakeDue(status, cancelRequested, join')
      BY DEF WakeDue
    <2>2. WakeDue(status, cancelRequested, join') => ckpt.generation # 0
      BY DEF WakeDue, Shape
    <2>3. resumeDispatch' = IF resumeDispatch = 0 /\ WakeDue(status, cancelRequested, join')
                            THEN ckpt.generation ELSE resumeDispatch
      BY <1>2 DEF ObserveTerminalChild
    <2>. QED BY <1>1, <2>1, <2>2, <2>3 DEF Woken
  <1>3. CASE join[c] # "pending"
    BY <1>1, <1>3 DEF Shape, ObserveTerminalChild, Woken
  <1>. QED BY <1>2, <1>3

\* Every step leaves the parent where it is, ends it, delegates, suspends it or
\* resumes it.
LEMMA ParentMoves ==
  ASSUME Shape, [Next]_vars
  PROVE  \/ Unmoved /\ Closing /\ Woken
         \/ Ending /\ Closing
         \/ \E c \in Child : CreateDelegated(c)
         \/ \E kind \in {"delegation", "goal"} : SuspendParent(kind)
         \/ ClaimParentResume
  <1> DEFINE Stays == Unmoved /\ Closing /\ Woken
  <1> USE DEF runVars, joinVars, parentVars
  <1>p. Parent \in Run /\ Child \subseteq Run /\ Parent \notin Child
    BY FamilyAssumption DEF Run
  <1>t. /\ {"running", "waiting_external"} \subseteq Active
        /\ {"cancelled", "timed_out"} \subseteq Terminal
    BY DEF Active, Waiting, Terminal
  <1>1. ASSUME UNCHANGED <<join, resumeDispatch, cancelRequested>> PROVE Closing /\ Woken
    BY <1>1 DEF Closing, Woken
  <1>2. ASSUME NEW c \in Child, NEW s, Leave(c, s) PROVE status'[Parent] = status[Parent]
    BY <1>2, <1>p DEF Shape, Leave
  <1>3. ASSUME NEW c \in Child, NEW s \in Terminal, Leave(c, s), ObserveTerminalChild(c),
               attempt'[Parent] = attempt[Parent], ckpt' = ckpt,
               cancelRequested'[Parent] = cancelRequested[Parent]
        PROVE Stays
    <2>1. status'[c] = s  BY <1>3, <1>p DEF Shape, Leave
    <2>. QED BY <1>2, <1>3, <2>1, ObserveCloses DEF Unmoved
  <1>4. ASSUME UNCHANGED <<status, attempt, ckpt, join, resumeDispatch, cancelRequested>> PROVE Stays
    BY <1>1, <1>4 DEF Unmoved
  <1>5. ASSUME NEW s \in Terminal, status[Parent] \in Active, EndParent(s) PROVE Ending /\ Closing
    <2>1. /\ ckpt'.generation = ckpt.generation /\ ckpt'.kind = ckpt.kind
          /\ attempt' = attempt /\ Leave(Parent, s) /\ join' = join
      BY <1>5 DEF EndParent
    <2>2. status'[Parent] = s  BY <1>p, <2>1 DEF Shape, Leave
    <2>. QED BY <1>5, <2>1, <2>2 DEF Ending, Closing
  <1>6. ASSUME NEW c \in Child, ChildNext(c) PROVE Stays \/ CreateDelegated(c)
    <2>1. CASE MarkDispatched(c) \/ ReadCandidate(c)
      BY <1>4, <2>1 DEF MarkDispatched, ReadCandidate
    <2>2. CASE ClaimQueued(c)
      <3>0. UNCHANGED <<cancelRequested, ckpt>>  BY <2>2 DEF ClaimQueued
      <3>1. ASSUME NEW stale \in BOOLEAN, RefuseCandidate(c, stale) PROVE Stays
        BY <1>3, <1>4, <1>t, <3>0, <3>1 DEF RefuseCandidate
      <3>2. ASSUME LeaseCandidate(c, candidate[c]) PROVE Stays
        <4>1. status'[Parent] = status[Parent] /\ attempt'[Parent] = attempt[Parent]
          BY <1>p, <3>2 DEF Shape, LeaseCandidate, Lease
        <4>. QED BY <1>1, <3>0, <3>2, <4>1 DEF LeaseCandidate, Unmoved
      <3>. QED BY <2>2, <3>1, <3>2 DEF ClaimQueued
    <2>3. CASE CancelQueued(c)
      <3>1. cancelRequested'[Parent] = cancelRequested[Parent]
        BY <1>p, <2>3 DEF Shape, CancelQueued
      <3>. QED BY <1>3, <1>t, <2>3, <3>1 DEF CancelQueued
    <2>4. CASE ReconcileChild(c)
      <3>1. CASE Expired(c)
        BY <1>3, <1>t, <2>4, <3>1 DEF ReconcileChild
      <3>2. CASE ~Expired(c)
        BY <2>4, <3>2, ObserveCloses DEF ReconcileChild, Unmoved
      <3>. QED BY <3>1, <3>2
    <2>. QED BY <1>6, <2>1, <2>2, <2>3, <2>4 DEF ChildNext
  <1>7. ASSUME NEW c \in RemoteChild, RemoteNext(c) PROVE Stays
    <2>0. c \in Child  BY FamilyAssumption
    <2>1. ASSUME NEW s, Wait(c, s) PROVE Stays
      BY <1>1, <1>2, <2>0, <2>1 DEF Wait, Unmoved
    <2>2. CASE Resume(c)
      BY <1>1, <1>p, <2>0, <2>2 DEF Shape, Resume, Unmoved
    <2>3. CASE DeferRemoteTask(c)
      BY <1>1, <1>2, <2>0, <2>3 DEF DeferRemoteTask, Unmoved
    <2>4. CASE CompleteRemoteCancellation(c)
      BY <1>3, <1>4, <1>t, <2>0, <2>4 DEF CompleteRemoteCancellation
    <2>5. CASE ReadResume(c) \/ RecordRemoteTask(c) \/ RetryRemoteCancellation(c)
      BY <1>4, <2>5 DEF ReadResume, RecordRemoteTask, RetryRemoteCancellation
    <2>. QED BY <1>7, <2>1, <2>2, <2>3, <2>4, <2>5 DEF RemoteNext
  <1>8. ASSUME NEW r \in Run, RunNext(r) PROVE Stays \/ (Ending /\ Closing)
    <2>1. ASSUME NEW o \in Outcomes, FinishRunning(r, o) PROVE Stays \/ (Ending /\ Closing)
      <3>1. PICK s \in Terminal : status[r] \in Active /\ Leave(r, s)
        BY <1>t, <2>1, ClassifyTerminal DEF FinishRunning, Holds
      <3>2. CASE r \in Child
        BY <1>3, <2>1, <3>1, <3>2 DEF FinishRunning
      <3>3. CASE r = Parent
        <4>1. status'[Parent] \in Terminal  BY <1>p, <3>1, <3>3 DEF Shape, Leave
        <4>. QED BY <1>p, <2>1, <3>1, <3>3, <4>1 DEF FinishRunning, Ending, Closing
      <3>. QED BY <3>2, <3>3 DEF Run
    <2>2. CASE Heartbeat(r) \/ LeaseExpires(r) \/ DeadlinePasses(r) \/ BeginCancellation(r)
      BY <1>4, <2>2 DEF Heartbeat, LeaseExpires, DeadlinePasses, BeginCancellation
    <2>. QED BY <1>8, <2>1, <2>2 DEF RunNext
  <1>9. CASE CommitCancellation
    <2>. DEFINE tree   == Tree(cancelling.run)
                marked == {r \in tree : status[r] \in Active}
                kept   == {c \in Child : remoteCancel'[c] = "pending"}
                ended  == {r \in marked : status[r] # "running"} \ kept
    <2>1. /\ status'[Parent] = IF Parent \in ended THEN "cancelled" ELSE status[Parent]
          /\ cancelRequested[Parent] => cancelRequested'[Parent]
          /\ attempt' = attempt /\ ckpt' = ckpt
      BY <1>9, <1>p DEF CommitCancellation
    <2>2. Closing
      BY <1>9 DEF CommitCancellation, Closing
    <2>3. Woken
      <3>1. WakeDue(status', cancelRequested', join') => ckpt.generation # 0
        BY DEF WakeDue, Shape
      <3>2. resumeDispatch' = IF WakeDue(status', cancelRequested', join')
                              THEN ckpt.generation ELSE resumeDispatch
        BY <1>9 DEF CommitCancellation
      <3>. QED BY <2>1, <3>1, <3>2 DEF Woken
    <2>4. CASE Parent \in ended
      BY <1>t, <2>1, <2>2, <2>4 DEF Ending
    <2>5. CASE Parent \notin ended
      BY <2>1, <2>2, <2>3, <2>5 DEF Unmoved
    <2>. QED BY <2>4, <2>5
  <1>10. ASSUME NEW o \in Outcomes, FinishParentResume(o) PROVE Ending /\ Closing
    BY <1>5, <1>10, <1>t, <1>p, ClassifyTerminal DEF FinishParentResume, Holds
  <1>11. CASE SuspendEnds \/ ExpireParent \/ ReconcileParent \/ ReapParent
    BY <1>5, <1>11, <1>t
       DEF SuspendEnds, ExpireParent, ReconcileParent, ReapParent, ParentLost, Holds
  <1>12. CASE ReviseRunGoal
    BY <1>4, <1>12 DEF ReviseRunGoal
  <1>13. CASE UNCHANGED vars
    BY <1>4, <1>13 DEF vars
  <1>. QED BY <1>6, <1>7, <1>8, <1>9, <1>10, <1>11, <1>12, <1>13 DEF Next, ParentNext

-----------------------------------------------------------------------------
(* The parent's checkpoints *)

\* A running parent has resumed every checkpoint it wrote, one for each lease
\* but the first; a suspended one has exactly one left to resume.
CheckpointInv ==
  /\ status[Parent] \in {"running", "waiting_external"} \cup Terminal
  /\ status[Parent] = "running" => ckpt.generation = attempt[Parent] - 1
  /\ status[Parent] = "waiting_external" =>
       ckpt.generation = attempt[Parent] /\ ckpt.generation > 0 /\ ~ckpt.completed

LEMMA CheckpointInit == Init => CheckpointInv
  BY DEF Init, CheckpointInv, Run

\* Delegating leaves the parent where it is.
LEMMA CreateUnmoved ==
  ASSUME Shape, NEW c \in Child, CreateDelegated(c)
  PROVE  Unmoved
  BY FamilyAssumption DEF Shape, CreateDelegated, Unmoved, Run, parentVars

\* What suspending and resuming do to the parent.
LEMMA SuspendMoves ==
  ASSUME Shape, NEW kind \in {"delegation", "goal"}, SuspendParent(kind)
  PROVE  /\ status[Parent] = "running" /\ status'[Parent] = "waiting_external"
         /\ attempt' = attempt /\ join' = join
         /\ ckpt'.generation = ckpt.generation + 1 /\ ckpt'.kind = kind /\ ~ckpt'.completed
  BY DEF Shape, SuspendParent, MayContinue, Holds, Leave, Run, joinVars

LEMMA ResumeMoves ==
  ASSUME Shape, ClaimParentResume
  PROVE  /\ status[Parent] = "waiting_external" /\ status'[Parent] = "running"
         /\ attempt'[Parent] = attempt[Parent] + 1 /\ join' = join
         /\ ckpt'.generation = ckpt.generation /\ ckpt'.kind = ckpt.kind
         /\ ckpt.kind = "delegation" => NoPendingJoin(join)
  BY DEF Shape, ClaimParentResume, MayResume, Lease, Run, joinVars

LEMMA CheckpointStep == Shape /\ CheckpointInv /\ [Next]_vars => CheckpointInv'
  <1> SUFFICES ASSUME Shape, CheckpointInv, [Next]_vars PROVE CheckpointInv'
    OBVIOUS
  <1>t. "running" \notin Terminal /\ "waiting_external" \notin Terminal
    BY DEF Terminal
  <1>n. attempt[Parent] \in Nat /\ ckpt.generation \in Nat
    BY DEF Shape, Run
  <1>1. ASSUME Unmoved PROVE CheckpointInv'
    BY <1>1 DEF CheckpointInv, Unmoved
  <1>2. ASSUME Ending PROVE CheckpointInv'
    BY <1>2, <1>t DEF CheckpointInv, Ending
  <1>3. ASSUME NEW kind \in {"delegation", "goal"}, SuspendParent(kind) PROVE CheckpointInv'
    BY <1>3, <1>n, SuspendMoves DEF CheckpointInv
  <1>4. CASE ClaimParentResume
    BY <1>4, <1>n, ResumeMoves DEF CheckpointInv
  <1>. QED BY <1>1, <1>2, <1>3, <1>4, CreateUnmoved, ParentMoves

THEOREM CheckpointsNumbered == Spec => []CheckpointInv
  <1>1. IInv /\ CheckpointInv /\ [Next]_vars => CheckpointInv'
    BY CheckpointStep DEF IInv
  <1>. QED BY <1>1, CheckpointInit, Invariance, PTL DEF Spec

-----------------------------------------------------------------------------
(* A suspended parent is never left asleep *)

\* Whichever transaction ends the last child, or suspends a parent whose
\* children have already ended, the resume dispatch is there afterwards.
THEOREM ParentNeverForgotten == Spec => []ParentWakeup
  <1>1. Init => ParentWakeup
    BY DEF Init, ParentWakeup, Run
  <1>2. IInv /\ CheckpointInv /\ ParentWakeup /\ ChildSettlement' /\ CheckpointInv' /\ [Next]_vars
          => ParentWakeup'
    <2> SUFFICES ASSUME IInv, CheckpointInv, ParentWakeup, ChildSettlement', CheckpointInv',
                        [Next]_vars,
                        status'[Parent] = "waiting_external", ~cancelRequested'[Parent],
                        \A c \in Child : status'[c] \notin Active
                 PROVE  resumeDispatch' # 0
      BY DEF ParentWakeup
    <2>0. Shape /\ ChildSettlement
      BY DEF IInv
    <2>t. "waiting_external" \notin Terminal /\ "pending" \notin Terminal /\ "queued" \in Active
      BY DEF Terminal, Active
    <2>1. NoPendingJoin(join')
      <3> SUFFICES ASSUME NEW c \in Child PROVE join'[c] # "pending"
        BY DEF NoPendingJoin
      <3>1. status'[c] \in Active \cup Terminal \cup {"absent"}
        BY <2>0, ShapeStep DEF Shape, Run
      <3>. QED BY <2>t, <3>1 DEF ChildSettlement
    <2>2. ASSUME Unmoved, Woken PROVE resumeDispatch' # 0
      <3>1. status[Parent] = "waiting_external" /\ ~cancelRequested[Parent]
            /\ ckpt.generation > 0 /\ ~ckpt.completed
        BY <2>2 DEF Unmoved, Woken, CheckpointInv
      <3>2. CASE join' = join
        <4>1. \A c \in Child : status[c] \notin Active
          BY <2>0, <2>1, <3>2 DEF NoPendingJoin, ChildSettlement
        <4>. QED BY <2>2, <3>1, <4>1 DEF ParentWakeup, Woken
      <3>3. CASE WakeDue(status', cancelRequested', join') => resumeDispatch' # 0
        BY <2>1, <3>1, <3>3 DEF WakeDue
      <3>. QED BY <2>2, <3>2, <3>3 DEF Woken
    <2>3. ~Ending  BY <2>t DEF Ending
    <2>4. ASSUME NEW c \in Child, CreateDelegated(c) PROVE FALSE
      <3>1. status'[c] = "queued"  BY <2>0, <2>4 DEF Shape, CreateDelegated, Run
      <3>. QED BY <2>t, <3>1
    <2>5. ASSUME NEW kind \in {"delegation", "goal"}, SuspendParent(kind)
          PROVE resumeDispatch' # 0
      <3>1. join' = join  BY <2>0, <2>5, SuspendMoves
      <3>2. resumeDispatch' = ckpt.generation + 1 /\ ckpt.generation \in Nat
        BY <2>0, <2>1, <2>5, <3>1 DEF SuspendParent, Shape
      <3>. QED BY <3>2
    <2>6. ~ClaimParentResume  BY <2>0, ResumeMoves
    <2>. QED BY <2>0, <2>2, <2>3, <2>4, <2>5, <2>6, ParentMoves
  <1>3. IInv => ChildSettlement  BY DEF IInv
  <1>. QED BY <1>1, <1>2, <1>3, Invariance, CheckpointsNumbered, PTL DEF Spec

-----------------------------------------------------------------------------
(* The repository implements the barrier *)

\* The state of the barrier, as AgentRuns maps it.
Phase  == CASE status[Parent] \in Terminal -> "ended"
            [] status[Parent] = "running" -> "running"
            [] OTHER -> "suspended"
Open   == {c \in Child : join[c] = "pending"}
Closed == {c \in Child : join[c] \in Terminal}

LEMMA PhaseIs ==
  /\ status[Parent] \in Terminal => Phase = "ended"
  /\ status[Parent] = "running" => Phase = "running"
  /\ status[Parent] = "waiting_external" => Phase = "suspended"
  /\ Phase = "ended" => status[Parent] \in Terminal
  BY DEF Phase, Terminal

LEMMA PhaseIsNext ==
  /\ status'[Parent] \in Terminal => Phase' = "ended"
  /\ status'[Parent] = "running" => Phase' = "running"
  /\ status'[Parent] = "waiting_external" => Phase' = "suspended"
  /\ status'[Parent] = status[Parent] => Phase' = Phase
  BY DEF Phase, Terminal

\* Joins that complete go from the open children to the closed ones.
LEMMA ClosingMoves ==
  ASSUME Shape, Closing
  PROVE  \E S \in SUBSET Open : Open' = Open \ S /\ Closed' = Closed \cup S
  <1> DEFINE S == {c \in Child : join[c] = "pending" /\ join'[c] \in Terminal}
  <1>1. "pending" \notin Terminal /\ S \in SUBSET Open
    BY DEF Terminal, Open
  <1>2. Open' = Open \ S
    BY <1>1 DEF Closing, Open
  <1>3. Closed' = Closed \cup S
    BY <1>1 DEF Closing, Closed
  <1>. QED BY <1>1, <1>2, <1>3

\* The mapping takes initial states to the barrier's.
LEMMA BarrierInit == Init => Barrier!Init
  <1> SUFFICES ASSUME Init PROVE Barrier!Init
    OBVIOUS
  <1>1. /\ status[Parent] = "running" /\ attempt[Parent] = 1
        /\ ckpt.generation = 0 /\ ckpt.kind = "none"
    BY DEF Init, Run
  <1>2. Open = {} /\ Closed = {}
    BY DEF Init, Open, Closed, Terminal
  <1>. QED BY <1>1, <1>2, PhaseIs DEF Barrier!Init, Phase, Open, Closed

\* Every step is a step of the barrier or stutters under it.
LEMMA BarrierStep ==
  Shape /\ CheckpointInv /\ ChildSettlement /\ [Next]_vars => [Barrier!Next]_(Barrier!vars)
  <1> SUFFICES ASSUME Shape, CheckpointInv, ChildSettlement, [Next]_vars
               PROVE  [Barrier!Next]_(Barrier!vars)
    OBVIOUS
  <1>t. "pending" \notin Terminal /\ "none" \notin Terminal
        /\ "running" \notin Terminal /\ "waiting_external" \notin Terminal
    BY DEF Terminal
  <1>n. attempt[Parent] \in Nat /\ ckpt.generation \in Nat
    BY DEF Shape, Run
  <1>1. ASSUME Unmoved, Closing PROVE [Barrier!Next]_(Barrier!vars)
    <2>1. PICK S \in SUBSET Open : Open' = Open \ S /\ Closed' = Closed \cup S
      BY <1>1, ClosingMoves
    <2>2. Phase' = Phase  BY <1>1, PhaseIsNext DEF Unmoved
    <2>3. CASE S = {}
      <3>1. Open' = Open /\ Closed' = Closed  BY <2>1, <2>3
      <3>. QED BY <1>1, <2>2, <3>1 DEF Barrier!vars, Unmoved, Phase, Open, Closed
    <2>4. CASE S # {}
      <3>1. Barrier!Observe(S)
        BY <1>1, <2>1, <2>2, <2>4 DEF Barrier!Observe, Unmoved, Phase, Open, Closed
      <3>. QED BY <3>1 DEF Barrier!Next, Open
    <2>. QED BY <2>3, <2>4
  <1>2. ASSUME Ending, Closing PROVE Barrier!Next
    <2>1. PICK S \in SUBSET Open : Open' = Open \ S /\ Closed' = Closed \cup S
      BY <1>2, ClosingMoves
    <2>2. Phase # "ended" /\ Phase' = "ended"
      BY <1>2, PhaseIs, PhaseIsNext DEF Ending, Active, Waiting, Terminal
    <2>3. Barrier!End(S)
      BY <1>2, <2>1, <2>2 DEF Barrier!End, Ending, Phase, Open, Closed
    <2>. QED BY <2>3 DEF Barrier!Next, Open
  <1>3. ASSUME NEW c \in Child, CreateDelegated(c) PROVE Barrier!Next
    <2>1. Unmoved /\ status[c] = "absent" /\ join' = [join EXCEPT ![c] = "pending"]
          /\ status[Parent] \in Active
      BY <1>3, CreateUnmoved DEF CreateDelegated
    <2>2. c \notin Open \cup Closed
      BY <1>t, <2>1 DEF ChildSettlement, Open, Closed
    <2>3. Open' = Open \cup {c} /\ Closed' = Closed
      BY <1>t, <2>1, <2>2 DEF Shape, Open, Closed
    <2>4. Phase # "ended" /\ Phase' = Phase
      BY <2>1, PhaseIs, PhaseIsNext DEF Unmoved, Active, Waiting, Terminal
    <2>5. Barrier!Delegate(c)
      BY <2>1, <2>2, <2>3, <2>4 DEF Barrier!Delegate, Unmoved, Phase, Open, Closed
    <2>. QED BY <2>5 DEF Barrier!Next
  <1>4. ASSUME NEW kind \in {"delegation", "goal"}, SuspendParent(kind) PROVE Barrier!Next
    <2>1. /\ status[Parent] = "running" /\ status'[Parent] = "waiting_external"
          /\ attempt' = attempt /\ join' = join
          /\ ckpt'.generation = ckpt.generation + 1 /\ ckpt'.kind = kind
      BY <1>4, SuspendMoves
    <2>2. Phase = "running" /\ Phase' = "suspended" /\ Open' = Open /\ Closed' = Closed
      BY <2>1, PhaseIs, PhaseIsNext DEF Open, Closed
    <2>3. Barrier!Suspend(kind)
      BY <2>1, <2>2 DEF Barrier!Suspend, Phase, Open, Closed
    <2>. QED BY <2>3 DEF Barrier!Next
  <1>5. CASE ClaimParentResume
    <2>1. /\ status[Parent] = "waiting_external" /\ status'[Parent] = "running"
          /\ attempt'[Parent] = attempt[Parent] + 1 /\ join' = join
          /\ ckpt'.generation = ckpt.generation /\ ckpt'.kind = ckpt.kind
          /\ ckpt.kind = "delegation" => NoPendingJoin(join)
      BY <1>5, ResumeMoves
    <2>2. Phase = "suspended" /\ Phase' = "running" /\ Open' = Open /\ Closed' = Closed
      BY <2>1, PhaseIs, PhaseIsNext DEF Open, Closed
    <2>3. ckpt.kind = "delegation" => Open = {}
      BY <2>1 DEF NoPendingJoin, Open
    <2>4. attempt[Parent] - 1 < ckpt.generation /\ attempt'[Parent] - 1 = ckpt.generation
      BY <1>n, <2>1 DEF CheckpointInv
    <2>5. Barrier!Resume
      BY <2>1, <2>2, <2>3, <2>4 DEF Barrier!Resume, Phase, Open, Closed
    <2>. QED BY <2>5 DEF Barrier!Next
  <1>. QED BY <1>1, <1>2, <1>3, <1>4, <1>5, ParentMoves

\* However claims, sweeps, cancellations and late answers interleave, the
\* parent goes on from a delegation checkpoint only when every child it has
\* delegated was observed, resumes a checkpoint once, and stays ended.
THEOREM RepositoryImplementsBarrier == Spec => ImplementsBarrier
  <1>1. IInv /\ CheckpointInv /\ [Next]_vars => [Barrier!Next]_(Barrier!vars)
    BY BarrierStep DEF IInv
  <1>. QED
    BY <1>1, BarrierInit, Invariance, CheckpointsNumbered, PTL
       DEF Spec, ImplementsBarrier, Barrier!Spec

=============================================================================
