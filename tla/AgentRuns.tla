----------------------------- MODULE AgentRuns -----------------------------
(***************************************************************************)
(* The run repository of Iris OS: one root run (Parent) and the runs it    *)
(* delegates (Child), as the PostgreSQL tables agent_run, agent_run_join,  *)
(* agent_run_checkpoint, agent_run_dispatch, agent_run_resume_dispatch,    *)
(* agent_run_remote_cancel, root_run_budget, root_run_budget_reservation   *)
(* and root_run_goal, and every transaction that writes them.              *)
(*                                                                         *)
(* A transaction is one action, except for the three that let others in:   *)
(* claimQueued reads its candidate before it takes the root lock, resume   *)
(* reads its run before it locks the row, and requestCancellationTree runs *)
(* several statements while transactions that do not take the root lock    *)
(* commit in between.                                                      *)
(*                                                                         *)
(* Wall clock time is two flags: leaseLive[r] says that lease_expires_at   *)
(* is in the future, overdue[r] that absolute_deadline_at is in the past.  *)
(* A transaction reads `now` once, before it waits for its locks: what it  *)
(* compares with that `now` may have passed when it writes.                *)
(*                                                                         *)
(* A definition marked "mutant" is the one below it with a plausible bug;  *)
(* no action uses it (README.md, "Mutants").                               *)
(***************************************************************************)
EXTENDS Integers, FiniteSets

CONSTANTS
  Parent,               \* the root run
  Child,                \* the runs it may delegate
  RemoteChild,          \* those whose target is a remote A2A agent
  Outcomes,             \* what an executor may report of its run
  MaxChildren,          \* children a parent may ever have (8 in the code)
  MaxRunning,           \* siblings in status "running" (3 in the code)
  MaxParallelChildren,  \* root_run_budget.max_parallel_children
  MaxDelegations,       \* root_run_budget.max_delegations
  MaxAttempts,          \* bound on the leases a run is given
  MaxGeneration,        \* bound on parent checkpoints
  MaxRevision,          \* bound on goal revisions
  LateNow               \* may a transaction carry a `now` older than an expiry or a deadline

Waiting   == {"waiting_approval", "waiting_input", "waiting_external"}
Active    == {"queued", "running"} \cup Waiting
Terminal  == {"succeeded", "failed", "cancelled", "timed_out", "budget_exhausted"}
Claimable == {"queued", "waiting_external"}

Run == {Parent} \cup Child

ASSUME FamilyAssumption ==
  /\ Parent \notin Child
  /\ IsFiniteSet(Child)
  /\ RemoteChild \subseteq Child
  /\ Outcomes \subseteq Terminal

ASSUME LimitAssumption ==
  /\ {MaxChildren, MaxRunning, MaxParallelChildren, MaxDelegations} \subseteq Nat
  /\ {MaxAttempts, MaxGeneration, MaxRevision} \subseteq Nat \ {0}
  /\ LateNow \in BOOLEAN

VARIABLES
  status,            \* agent_run.status, "absent" before the row exists
  leaseToken,        \* agent_run.lease_token: the attempt it was minted for, 0 = NULL
  leaseLive,         \* agent_run.lease_expires_at > now
  attempt,           \* agent_run.attempt
  cancelRequested,   \* agent_run.cancel_requested_at IS NOT NULL
  overdue,           \* agent_run.absolute_deadline_at <= now
  goalRevision,      \* agent_run.goal_revision
  dispatch,          \* agent_run_dispatch of a child
  remoteTask,        \* delegation_run.remote_task_id IS NOT NULL
  remoteCancel,      \* agent_run_remote_cancel of a child
  join,              \* agent_run_join: "pending", then the status observed
  joinGeneration,    \* agent_run_join.checkpoint_generation
  reservation,       \* root_run_budget_reservation with token child:<id>
  budget,            \* the counters of root_run_budget
  rootRevision,      \* root_run_goal.revision
  ckpt,              \* agent_run_checkpoint of Parent (generation 0: no row)
  resumeDispatch,    \* agent_run_resume_dispatch.generation (0: no row)
  candidate,         \* what a claimQueued in flight has read of its run
  answering,         \* the status a resume in flight has read of its run
  cancelling         \* the requestCancellationTree in flight

runVars   == <<status, leaseToken, leaseLive, attempt, cancelRequested>>
childVars == <<dispatch, remoteTask, remoteCancel, joinGeneration>>
joinVars  == <<join, reservation, budget>>
goalVars  == <<goalRevision, rootRevision>>
parentVars == <<ckpt, resumeDispatch>>
txVars    == <<candidate, answering, cancelling>>
vars == <<runVars, overdue, goalVars, childVars, joinVars, parentVars, txVars>>

NoCandidate == [verdict |-> "none", status |-> "absent", token |-> 0]
NoCancel    == [run |-> Parent, active |-> FALSE, remote |-> {}]

Candidate == [verdict : {"none", "late", "refuse"}, status : {"absent"}, token : {0}]
        \cup [verdict : {"lease"}, status : Claimable \cup {"running"}, token : Nat]

TypeOK ==
  /\ status \in [Run -> Active \cup Terminal \cup {"absent"}]
  /\ leaseToken \in [Run -> Nat]
  /\ leaseLive \in [Run -> BOOLEAN]
  /\ attempt \in [Run -> Nat]
  /\ cancelRequested \in [Run -> BOOLEAN]
  /\ overdue \in [Run -> BOOLEAN]
  /\ goalRevision \in [Run -> Nat]
  /\ rootRevision \in Nat
  /\ dispatch \in [Child -> {"none", "pending", "dispatched"}]
  /\ remoteTask \in [Child -> BOOLEAN]
  /\ remoteCancel \in [Child -> {"none", "pending", "completed"}]
  /\ join \in [Child -> {"none", "pending"} \cup Terminal]
  /\ joinGeneration \in [Child -> Nat]
  /\ reservation \in [Child -> {"none", "reserved", "committed", "released"}]
  /\ budget \in [reserved : Nat, committed : Nat, delegations : Nat]
  /\ ckpt \in [generation : Nat, kind : {"none", "delegation", "goal"},
               claimToken : Nat, completed : BOOLEAN]
  /\ resumeDispatch \in Nat
  /\ candidate \in [Child -> Candidate]
  /\ answering \in [Child -> {"none", "waiting_input", "waiting_approval"}]
  /\ cancelling \in [run : Run, active : BOOLEAN, remote : SUBSET Child]

(***************************************************************************)
(* createRunning has just committed: Parent runs on its first lease, with  *)
(* its budget and goal rows, and has delegated nothing.                    *)
(***************************************************************************)
Init ==
  /\ status = [r \in Run |-> IF r = Parent THEN "running" ELSE "absent"]
  /\ leaseToken = [r \in Run |-> IF r = Parent THEN 1 ELSE 0]
  /\ leaseLive = [r \in Run |-> r = Parent]
  /\ attempt = [r \in Run |-> IF r = Parent THEN 1 ELSE 0]
  /\ cancelRequested = [r \in Run |-> FALSE]
  /\ overdue = [r \in Run |-> FALSE]
  /\ goalRevision = [r \in Run |-> 1]
  /\ rootRevision = 1
  /\ dispatch = [c \in Child |-> "none"]
  /\ remoteTask = [c \in Child |-> FALSE]
  /\ remoteCancel = [c \in Child |-> "none"]
  /\ join = [c \in Child |-> "none"]
  /\ joinGeneration = [c \in Child |-> 0]
  /\ reservation = [c \in Child |-> "none"]
  /\ budget = [reserved |-> 0, committed |-> 0, delegations |-> 0]
  /\ ckpt = [generation |-> 0, kind |-> "none", claimToken |-> 0, completed |-> FALSE]
  /\ resumeDispatch = 0
  /\ candidate = [c \in Child |-> NoCandidate]
  /\ answering = [c \in Child |-> "none"]
  /\ cancelling = NoCancel

-----------------------------------------------------------------------------
(* Locks and leases *)

\* The root-budget advisory lock is free.
RootFree == ~cancelling.active

\* The row of r is not held FOR UPDATE by a cancellation in flight.
RowFree(r) == cancelling.active => cancelling.run # r

\* lease_expires_at > now, where now was read before the transaction waited
\* for its locks.
LeaseAccepted(r) == leaseLive[r] \/ LateNow

\* The caller's token is the one in the row and its lease is accepted.
Holds(r) == status[r] = "running" /\ leaseToken[r] # 0 /\ LeaseAccepted(r)

\* absolute_deadline_at > now, with that same old now.
DeadlineAhead(r) == ~overdue[r] \/ LateNow

\* The further predicates of the writes that continue a run.
MayContinueOverdue(r) == Holds(r) /\ ~cancelRequested[r]                   \* mutant
MayContinueCancelled(r) == Holds(r) /\ DeadlineAhead(r)                    \* mutant
MayContinue(r) == Holds(r) /\ ~cancelRequested[r] /\ DeadlineAhead(r)

Existing == {c \in Child : status[c] # "absent"}

\* The siblings claimQueued counts against its cap.
CountLiveLeases(S) == {c \in S : status[c] = "running" /\ leaseLive[c]}   \* mutant
Running(S) == {c \in S : status[c] = "running"}

\* No join of the parent, of whatever generation, is incomplete.
OwnGenerationJoined(j) ==                                                 \* mutant
  \A c \in Child : joinGeneration[c] = ckpt.generation => j[c] # "pending"
NoPendingJoin(j) == \A c \in Child : j[c] # "pending"

\* The reservation of c is still to be settled: the predicate of every UPDATE
\* that settles it.
HeldOrSettled(c) == reservation[c] # "none"                               \* mutant
Held(c) == reservation[c] = "reserved"

\* What finishRunning and finishParentResume may make of a reported outcome: of
\* a run past its deadline, what the `now` they carry says of it.
InTime(r, outcome) ==
  {s \in {"timed_out"} : overdue[r]} \cup {s \in {outcome} : DeadlineAhead(r)}
ClassifyUncancelled(r, outcome) ==                                        \* mutant
  IF goalRevision[r] # rootRevision THEN {"failed"} ELSE InTime(r, outcome)
Classify(r, outcome) ==
  IF goalRevision[r] # rootRevision THEN {"failed"}
  ELSE IF cancelRequested[r] THEN {"cancelled"} ELSE InTime(r, outcome)

\* Set the status of r and give up its lease.
LeaveLeased(r, s) ==                                                      \* mutant
  status' = [status EXCEPT ![r] = s] /\ UNCHANGED <<leaseToken, leaseLive>>
Leave(r, s) ==
  /\ status' = [status EXCEPT ![r] = s]
  /\ leaseToken' = [leaseToken EXCEPT ![r] = 0]
  /\ leaseLive' = [leaseLive EXCEPT ![r] = FALSE]

\* Give r a lease under a fresh token and count the attempt.
Lease(r) ==
  /\ status' = [status EXCEPT ![r] = "running"]
  /\ attempt' = [attempt EXCEPT ![r] = @ + 1]
  /\ leaseToken' = [leaseToken EXCEPT ![r] = attempt[r] + 1]
  /\ leaseLive' = [leaseLive EXCEPT ![r] = TRUE]

\* The final state of the reservation of a child that ended with status s.
Settled(s) == IF s = "cancelled" THEN "released" ELSE "committed"

\* The INSERT ... SELECT that wakes a suspended parent, over the statuses,
\* cancellation flags and joins its transaction sees.
WakeDueBeforeJoin(st, cancel, j) ==                                       \* mutant
  /\ ckpt.generation > 0 /\ ~ckpt.completed
  /\ st[Parent] = "waiting_external" /\ ~cancel[Parent]
  /\ NoPendingJoin(join)
WakeDue(st, cancel, j) ==
  /\ ckpt.generation > 0 /\ ~ckpt.completed
  /\ st[Parent] = "waiting_external" /\ ~cancel[Parent]
  /\ NoPendingJoin(j)

(***************************************************************************)
(* observeTerminalChild: in the transaction that ends child c, settle its  *)
(* budget reservation, complete its join and, when that was the last       *)
(* pending join of a suspended parent, insert the resume dispatch          *)
(* (ON CONFLICT DO NOTHING).  status' is what the caller has set.          *)
(***************************************************************************)
ObserveTerminalChild(c) ==
  LET held  == Held(c)
      final == Settled(status'[c])
      spent == IF final = "committed" THEN 1 ELSE 0
      joined == join[c] = "pending"
  IN /\ reservation' = [reservation EXCEPT ![c] = IF held THEN final ELSE @]
     /\ budget' = IF held THEN [reserved    |-> budget.reserved - 1,
                               committed   |-> budget.committed + spent,
                               delegations |-> budget.delegations]
                          ELSE budget
     /\ join' = [join EXCEPT ![c] = IF joined THEN status'[c] ELSE @]
     /\ resumeDispatch' = IF joined /\ resumeDispatch = 0 /\ WakeDue(status, cancelRequested, join')
                          THEN ckpt.generation ELSE resumeDispatch

-----------------------------------------------------------------------------
(* Delegation, claims and leases *)

\* The predicate of the UPDATE that reserves a child in root_run_budget.
BudgetAllows ==
  /\ budget.delegations + 1 <= MaxDelegations
  /\ budget.reserved + 1 <= MaxParallelChildren

\* createDelegated: reserve the budget and insert run, join and dispatch.  The
\* join belongs to the checkpoint generation the parent will write next.
CreateDelegated(c) ==
  /\ RootFree
  /\ status[c] = "absent"
  /\ status[Parent] \in Active /\ ~cancelRequested[Parent] /\ ~overdue[Parent]
  /\ Cardinality(Existing) < MaxChildren
  /\ BudgetAllows
  /\ budget' = [reserved    |-> budget.reserved + 1,
                committed   |-> budget.committed,
                delegations |-> budget.delegations + 1]
  /\ reservation' = [reservation EXCEPT ![c] = "reserved"]
  /\ status' = [status EXCEPT ![c] = "queued"]
  /\ goalRevision' = [goalRevision EXCEPT ![c] = goalRevision[Parent]]
  /\ join' = [join EXCEPT ![c] = "pending"]
  /\ joinGeneration' = [joinGeneration EXCEPT ![c] = ckpt.generation + 1]
  /\ dispatch' = [dispatch EXCEPT ![c] = "pending"]
  /\ UNCHANGED <<leaseToken, leaseLive, attempt, cancelRequested, overdue, rootRevision,
                 remoteTask, remoteCancel, parentVars, txVars>>

\* markDispatched: somebody has put the job on the queue.  The UPDATE asks for
\* nothing but the row.
MarkDispatched(c) ==
  /\ dispatch[c] # "none"
  /\ dispatch' = [dispatch EXCEPT ![c] = "dispatched"]
  /\ UNCHANGED <<runVars, overdue, goalVars, remoteTask, remoteCancel, joinGeneration,
                 joinVars, parentVars, txVars>>

\* claimQueued, before any lock: read the candidate row.  What the read says
\* of the run (its deadline passed, it may be leased, or neither) is decided on
\* the values read; the status and the token are needed again by the UPDATE.
ReadCandidate(c) ==
  LET late     == status[c] \in Claimable /\ overdue[c]
      leasable == /\ status[c] \in Claimable \/ (status[c] = "running" /\ ~leaseLive[c])
                  /\ ~cancelRequested[c] /\ ~overdue[c]
      verdict  == IF late THEN "late" ELSE IF leasable THEN "lease" ELSE "refuse"
  IN /\ status[c] # "absent"
     /\ candidate' = [candidate EXCEPT ![c] =
          [verdict |-> verdict,
           status  |-> IF verdict = "lease" THEN status[c] ELSE "absent",
           token   |-> IF verdict = "lease" THEN leaseToken[c] ELSE 0]]
     /\ UNCHANGED <<runVars, overdue, goalVars, childVars, joinVars, parentVars, answering,
                    cancelling>>

\* claimQueued on a run of a superseded goal, or on one whose deadline passed
\* before it ran: end it instead of leasing it.
RefuseUnobserved(c, stale) ==                                             \* mutant
  /\ IF status[c] \in Claimable
     THEN Leave(c, IF stale THEN "cancelled" ELSE "timed_out")
     ELSE UNCHANGED <<status, leaseToken, leaseLive>>
  /\ dispatch' = IF stale THEN [dispatch EXCEPT ![c] = "none"] ELSE dispatch
  /\ UNCHANGED <<attempt, joinVars, resumeDispatch>>
RefuseCandidate(c, stale) ==
  /\ IF status[c] \in Claimable
     THEN /\ Leave(c, IF stale THEN "cancelled" ELSE "timed_out")
          /\ ObserveTerminalChild(c)
     ELSE UNCHANGED <<status, leaseToken, leaseLive, joinVars, resumeDispatch>>
  /\ dispatch' = IF stale THEN [dispatch EXCEPT ![c] = "none"] ELSE dispatch
  /\ UNCHANGED attempt

\* The predicate of the UPDATE that leases a run: the status, the token and the
\* expiry are checked again, and nothing else.
StatusUnchanged(c, seen) == status[c] = seen.status                       \* mutant
StillClaimable(c, seen) ==
  /\ status[c] = seen.status
  /\ IF seen.status = "running"
     THEN leaseToken[c] = seen.token /\ ~leaseLive[c]
     ELSE leaseToken[c] = 0

\* claimQueued on a run it may lease: the sibling cap, then the UPDATE.  When
\* either refuses, the claim returns null and has changed nothing.
MayLease(c, seen) ==
  /\ Cardinality(Running(Child)) < MaxRunning
  /\ seen.verdict = "lease"
  /\ StillClaimable(c, seen)

LeaseCandidate(c, seen) ==
  /\ IF MayLease(c, seen)
     THEN attempt[c] < MaxAttempts /\ Lease(c)
     ELSE UNCHANGED <<status, attempt, leaseToken, leaseLive>>
  /\ UNCHANGED <<dispatch, joinVars, resumeDispatch>>

\* claimQueued, under the root lock.
ClaimQueued(c) ==
  LET seen  == candidate[c]
      stale == goalRevision[c] # rootRevision
  IN /\ RootFree
     /\ seen # NoCandidate
     /\ IF stale \/ seen.verdict = "late" THEN RefuseCandidate(c, stale)
                                         ELSE LeaseCandidate(c, seen)
     /\ candidate' = [candidate EXCEPT ![c] = NoCandidate]
     /\ UNCHANGED <<cancelRequested, overdue, goalVars, remoteTask, remoteCancel,
                    joinGeneration, ckpt, answering, cancelling>>

\* heartbeat answering "active": the lease is good for another leaseMs.
Heartbeat(r) ==
  /\ RowFree(r)
  /\ MayContinue(r)
  /\ r = Parent => ckpt.claimToken \in {0, leaseToken[r]}
  /\ leaseLive' = [leaseLive EXCEPT ![r] = TRUE]
  /\ UNCHANGED <<status, leaseToken, attempt, cancelRequested, overdue, goalVars, childVars,
                 joinVars, parentVars, txVars>>

\* finishRunning: a child ends, or the parent ends in the web request that
\* created it (a resumed parent ends in FinishParentResume).
FinishRunning(r, outcome) ==
  /\ RootFree
  /\ Holds(r)
  /\ r = Parent => ckpt.claimToken = 0
  /\ \E s \in Classify(r, outcome) : Leave(r, s)
  /\ IF r \in Child
     THEN ObserveTerminalChild(r)
     ELSE UNCHANGED <<joinVars, resumeDispatch>>
  /\ UNCHANGED <<attempt, cancelRequested, overdue, goalVars, childVars, ckpt, txVars>>

-----------------------------------------------------------------------------
(* Remote children: waiting, resuming, remote task ids *)

\* wait: a remote task asked for input or credentials.
Wait(c, s) ==
  /\ RowFree(c)
  /\ MayContinue(c)
  /\ attempt[c] < MaxAttempts
  /\ Leave(c, s)
  /\ UNCHANGED <<attempt, cancelRequested, overdue, goalVars, childVars, joinVars,
                 parentVars, txVars>>

\* resume: the user answered.  The SELECT asks for a run that waits for that
\* answer, is not cancelled and is in time ...
ReadResume(c) ==
  /\ status[c] \in {"waiting_input", "waiting_approval"}
  /\ ~cancelRequested[c] /\ DeadlineAhead(c)
  /\ answering' = [answering EXCEPT ![c] = status[c]]
  /\ UNCHANGED <<runVars, overdue, goalVars, childVars, joinVars, parentVars, candidate,
                 cancelling>>

\* ... the UPDATE that queues it again only for one that still waits.
Resume(c) ==
  /\ RowFree(c)
  /\ answering[c] # "none"
  /\ answering' = [answering EXCEPT ![c] = "none"]
  /\ IF status[c] = answering[c]
     THEN /\ status' = [status EXCEPT ![c] = "queued"]
          /\ dispatch' = [dispatch EXCEPT ![c] = "pending"]
     ELSE UNCHANGED <<status, dispatch>>
  /\ UNCHANGED <<leaseToken, leaseLive, attempt, cancelRequested, overdue, goalVars, remoteTask,
                 remoteCancel, joinGeneration, joinVars, parentVars, candidate, cancelling>>

\* recordRemoteTask: persist the id of the task the remote agent created.
RecordRemoteTask(c) ==
  /\ RowFree(c)
  /\ MayContinue(c)
  /\ remoteTask' = [remoteTask EXCEPT ![c] = TRUE]
  /\ UNCHANGED <<runVars, overdue, goalVars, dispatch, remoteCancel, joinGeneration,
                 joinVars, parentVars, txVars>>

\* deferRemoteTask: the remote task is still working; give up the lease and
\* re-arm the dispatch for the next poll.
DeferRemoteTask(c) ==
  /\ RowFree(c)
  /\ MayContinue(c)
  /\ attempt[c] < MaxAttempts
  /\ Leave(c, "waiting_external")
  /\ remoteTask' = [remoteTask EXCEPT ![c] = TRUE]
  /\ dispatch' = [dispatch EXCEPT ![c] = "pending"]
  /\ UNCHANGED <<attempt, cancelRequested, overdue, goalVars, remoteCancel, joinGeneration,
                 joinVars, parentVars, txVars>>

-----------------------------------------------------------------------------
(* Cancellation *)

\* cancelQueued: the worker found the parent cancelled or terminal.
CancelQueued(c) ==
  /\ RootFree
  /\ cancelRequested[Parent] \/ status[Parent] \in Terminal
  /\ status[c] \in Claimable
  /\ Leave(c, "cancelled")
  /\ cancelRequested' = [cancelRequested EXCEPT ![c] = TRUE]
  /\ ObserveTerminalChild(c)
  /\ UNCHANGED <<attempt, overdue, goalVars, childVars, ckpt, txVars>>

Tree(r) == IF r = Parent THEN {Parent} \cup Existing ELSE {r}

\* requestCancellationTree, up to its first statement: take the root lock and
\* the row of r, and choose the remote tasks to cancel.
BeginCancellation(r) ==
  /\ RootFree
  /\ status[r] \in Active
  /\ cancelling' = [run |-> r, active |-> TRUE,
                    remote |-> {c \in Tree(r) \cap RemoteChild :
                                  remoteTask[c] /\ status[c] \in {"waiting_external", "running"}}]
  /\ UNCHANGED <<runVars, overdue, goalVars, childVars, joinVars, parentVars, candidate,
                 answering>>

\* The rest of requestCancellationTree, to its commit: flag the whole tree,
\* end what holds no lease and awaits no remote cancellation, release the
\* reservations of the runs ended, complete their joins, wake the parent.
CommitCancellation ==
  LET tree   == Tree(cancelling.run)
      marked == {r \in tree : status[r] \in Active}
      kept   == {c \in Child : remoteCancel'[c] = "pending"}
      ended  == {r \in marked : status[r] # "running"} \ kept
      freed  == {c \in tree \cap Child : status'[c] = "cancelled" /\ Held(c)}
  IN /\ cancelling.active
     /\ remoteCancel' = [c \in Child |-> IF c \in cancelling.remote THEN "pending"
                                                                   ELSE remoteCancel[c]]
     /\ cancelRequested' = [r \in Run |-> r \in marked \/ cancelRequested[r]]
     /\ status' = [r \in Run |-> IF r \in ended THEN "cancelled" ELSE status[r]]
     /\ reservation' = [c \in Child |-> IF c \in freed THEN "released" ELSE reservation[c]]
     /\ budget' = [budget EXCEPT !.reserved = @ - Cardinality(freed)]
     /\ join' = [c \in Child |-> IF c \in tree /\ status'[c] \in Terminal /\ join[c] = "pending"
                                 THEN status'[c] ELSE join[c]]
     /\ resumeDispatch' = IF WakeDue(status', cancelRequested', join')
                          THEN ckpt.generation ELSE resumeDispatch
     /\ cancelling' = NoCancel
     /\ UNCHANGED <<leaseToken, leaseLive, attempt, overdue, goalVars, dispatch, remoteTask,
                    joinGeneration, ckpt, candidate, answering>>

\* recordRemoteCancellation of an answer that is not final (an error, or a task
\* still working): the intent stays open for a retry.
RetryRemoteCancellation(c) ==
  /\ remoteCancel[c] # "none"
  /\ remoteCancel' = [remoteCancel EXCEPT ![c] = "pending"]
  /\ UNCHANGED <<runVars, overdue, goalVars, dispatch, remoteTask, joinGeneration, joinVars,
                 parentVars, txVars>>

\* The predicate of the UPDATE that ends a run whose remote task is cancelled.
EndsHoweverEnded(c) == cancelRequested[c]                                 \* mutant
EndsWithRemote(c) == cancelRequested[c] /\ status[c] \in {"waiting_external", "running"}

\* recordRemoteCancellation of a final answer: close the intent and end the run.
CompleteRemoteCancellation(c) ==
  /\ RootFree
  /\ remoteCancel[c] # "none"
  /\ remoteCancel' = [remoteCancel EXCEPT ![c] = "completed"]
  /\ IF EndsWithRemote(c)
     THEN Leave(c, "cancelled") /\ ObserveTerminalChild(c)
     ELSE UNCHANGED <<status, leaseToken, leaseLive, joinVars, resumeDispatch>>
  /\ UNCHANGED <<attempt, cancelRequested, overdue, goalVars, dispatch, remoteTask,
                 joinGeneration, ckpt, txVars>>

-----------------------------------------------------------------------------
(* The sweepers *)

\* A waiting child whose deadline passed.
ExpiredExternal(c) == status[c] = "waiting_external" /\ overdue[c]          \* mutant
Expired(c) == status[c] \in Waiting /\ overdue[c]

\* reconcileTerminalDelegatedRuns, its first loop.
ReconcileChild(c) ==
  /\ RootFree
  /\ Expired(c) \/ status[c] \in Terminal
  /\ IF Expired(c)
     THEN Leave(c, "timed_out") /\ dispatch' = [dispatch EXCEPT ![c] = "none"]
     ELSE UNCHANGED <<status, leaseToken, leaseLive, dispatch>>
  /\ ObserveTerminalChild(c)
  /\ UNCHANGED <<attempt, cancelRequested, overdue, goalVars, remoteTask, remoteCancel,
                 joinGeneration, ckpt, txVars>>

\* The parent ends without a resume: close its checkpoint, drop its dispatch.
EndParent(s) ==
  /\ Leave(Parent, s)
  /\ ckpt' = [generation |-> ckpt.generation, kind |-> ckpt.kind, claimToken |-> 0,
              completed |-> ckpt.generation # 0]
  /\ resumeDispatch' = 0
  /\ UNCHANGED <<attempt, cancelRequested, overdue, goalVars, childVars, joinVars, txVars>>

\* reconcileTerminalDelegatedRuns, its second loop: a suspended parent whose
\* deadline passed.
ReconcileParent ==
  /\ RootFree
  /\ status[Parent] = "waiting_external" /\ overdue[Parent] /\ ~ckpt.completed
  /\ EndParent("timed_out")

\* reapStaleForegroundRuns: the executor of the root run died.
LostUncancelled ==                                                        \* mutant
  status[Parent] = "running" /\ ~leaseLive[Parent] /\ ~cancelRequested[Parent]
ParentLost == status[Parent] = "running" /\ ~leaseLive[Parent]

ReapParent ==
  /\ RootFree
  /\ ParentLost
  /\ EndParent("timed_out")

-----------------------------------------------------------------------------
(* Suspension and resume of the parent *)

\* suspendParent on a cancelled or overdue run: the run ends here.
SuspendEnds ==
  /\ RootFree
  /\ Holds(Parent)
  /\ goalRevision[Parent] = rootRevision
  /\ ckpt.claimToken \in {0, leaseToken[Parent]}
  /\ cancelRequested[Parent] \/ overdue[Parent]
  /\ EndParent(IF cancelRequested[Parent] THEN "cancelled" ELSE "timed_out")

\* suspendParent (and checkpointParentAgain): write checkpoint generation + 1
\* and give up the lease; a delegation checkpoint needs a join of its own
\* generation.  With nothing pending the resume dispatch is written at once.
SuspendParent(kind) ==
  LET generation == ckpt.generation + 1
  IN /\ RootFree
     /\ MayContinue(Parent)
     /\ goalRevision[Parent] = rootRevision
     /\ ckpt.claimToken \in {0, leaseToken[Parent]}
     /\ kind = "delegation" => \E c \in Existing : joinGeneration[c] = generation
     /\ generation <= MaxGeneration
     /\ Leave(Parent, "waiting_external")
     /\ ckpt' = [generation |-> generation, kind |-> kind, claimToken |-> 0, completed |-> FALSE]
     /\ resumeDispatch' = IF NoPendingJoin(join) THEN generation ELSE resumeDispatch
     /\ UNCHANGED <<attempt, cancelRequested, overdue, goalVars, childVars, joinVars, txVars>>

\* claimParentResume on a parent past its deadline: it ends here.
ExpireParent ==
  /\ RowFree(Parent)
  /\ status[Parent] = "waiting_external" /\ overdue[Parent]
  /\ EndParent("timed_out")

\* claimParentResume: lease the parent back to continue from its checkpoint.
MayResume ==
  /\ status[Parent] = "waiting_external" /\ DeadlineAhead(Parent) /\ ~cancelRequested[Parent]
  /\ ckpt.generation > 0 /\ ~ckpt.completed
  /\ goalRevision[Parent] = rootRevision
  /\ ckpt.kind = "delegation" => NoPendingJoin(join)

ClaimParentResume ==
  /\ RowFree(Parent)
  /\ MayResume
  /\ Lease(Parent)
  /\ ckpt' = [ckpt EXCEPT !.claimToken = attempt[Parent] + 1]
  /\ UNCHANGED <<cancelRequested, overdue, goalVars, childVars, joinVars, resumeDispatch, txVars>>

\* finishParentResume: the resumed parent ends.
FinishParentResume(outcome) ==
  /\ RowFree(Parent)
  /\ Holds(Parent)
  /\ ckpt.claimToken = leaseToken[Parent] /\ ~ckpt.completed
  /\ \E s \in Classify(Parent, outcome) : EndParent(s)

\* reviseRunGoal: the user steers a parent suspended between goal rounds.
ReviseRunGoal ==
  /\ RowFree(Parent)
  /\ status[Parent] = "waiting_external" /\ ckpt.kind = "goal"
  /\ NoPendingJoin(join)
  /\ rootRevision < MaxRevision
  /\ rootRevision' = rootRevision + 1
  /\ goalRevision' = [goalRevision EXCEPT ![Parent] = rootRevision + 1]
  /\ UNCHANGED <<runVars, overdue, childVars, joinVars, parentVars, txVars>>

-----------------------------------------------------------------------------
(* Time *)

LeaseExpires(r) ==
  /\ status[r] = "running" /\ leaseLive[r]
  /\ leaseLive' = [leaseLive EXCEPT ![r] = FALSE]
  /\ UNCHANGED <<status, leaseToken, attempt, cancelRequested, overdue, goalVars, childVars,
                 joinVars, parentVars, txVars>>

\* A child's deadline is never later than its parent's.
DeadlinePasses(r) ==
  /\ status[r] \in Active /\ ~overdue[r]
  /\ overdue' = [x \in Run |-> overdue[x] \/ x \in Tree(r)]
  /\ UNCHANGED <<runVars, goalVars, childVars, joinVars, parentVars, txVars>>

-----------------------------------------------------------------------------
ParentNext ==
  \/ \E kind \in {"delegation", "goal"} : SuspendParent(kind)
  \/ SuspendEnds \/ ExpireParent \/ ClaimParentResume
  \/ \E o \in Outcomes : FinishParentResume(o)
  \/ ReviseRunGoal \/ ReconcileParent \/ ReapParent \/ CommitCancellation

ChildNext(c) ==
  \/ CreateDelegated(c) \/ MarkDispatched(c) \/ ReadCandidate(c) \/ ClaimQueued(c)
  \/ CancelQueued(c) \/ ReconcileChild(c)

RemoteNext(c) ==
  \/ \E s \in {"waiting_input", "waiting_approval"} : Wait(c, s)
  \/ ReadResume(c) \/ Resume(c) \/ RecordRemoteTask(c) \/ DeferRemoteTask(c)
  \/ RetryRemoteCancellation(c) \/ CompleteRemoteCancellation(c)

RunNext(r) ==
  \/ Heartbeat(r) \/ LeaseExpires(r) \/ DeadlinePasses(r) \/ BeginCancellation(r)
  \/ \E o \in Outcomes : FinishRunning(r, o)

Next ==
  \/ ParentNext
  \/ \E c \in Child : ChildNext(c)
  \/ \E c \in RemoteChild : RemoteNext(c)
  \/ \E r \in Run : RunNext(r)

Spec == Init /\ [][Next]_vars

-----------------------------------------------------------------------------
(* Safety *)

\* A run has a lease token exactly while it runs, the token of its latest
\* attempt, and the checkpoint of a parent is claimed only by that token.
LeaseDiscipline ==
  /\ \A r \in Run : leaseToken[r] = IF status[r] = "running" THEN attempt[r] ELSE 0
  /\ \A r \in Run : leaseLive[r] => status[r] = "running"
  /\ ckpt.claimToken # 0 => ckpt.claimToken = leaseToken[Parent] /\ ~ckpt.completed

\* In the very transaction that ends a child, whichever of the eight paths it
\* is, the join records its status and its reservation is settled: released
\* when it was cancelled, committed otherwise.
ChildSettlement ==
  \A c \in Child :
    /\ status[c] = "absent"  => join[c] = "none" /\ reservation[c] = "none"
    /\ status[c] \in Active   => join[c] = "pending" /\ reservation[c] = "reserved"
    /\ status[c] \in Terminal => join[c] = status[c] /\ reservation[c] = Settled(status[c])

\* The counters of root_run_budget are what the reservation rows add up to:
\* no path loses a reservation or gives one back twice.
BudgetExact ==
  /\ budget.reserved = Cardinality({c \in Child : reservation[c] = "reserved"})
  /\ budget.committed = Cardinality({c \in Child : reservation[c] = "committed"})
  /\ budget.delegations = Cardinality(Existing)

\* The tree never has more live children than the root's budget admits.
ParallelismBounded ==
  Cardinality({c \in Child : status[c] \in Active}) <= MaxParallelChildren

\* No more than MaxRunning siblings run, whatever claims race.
RunningCap == Cardinality({c \in Child : status[c] = "running"}) <= MaxRunning

\* The parent is suspended, may go on, and every child it waits for has ended:
\* then a resume dispatch is there to wake it.
ParentWakeup ==
  /\ status[Parent] = "waiting_external" /\ ~cancelRequested[Parent]
  /\ \A c \in Child : status[c] \notin Active
  => resumeDispatch # 0

\* Work done for a goal the user has replaced never runs on beside the new one.
GoalBoundary ==
  \A c \in Child : status[c] \in Active => goalRevision[c] = rootRevision

\* A run whose cancellation was requested does not report success, however late
\* the request came and wherever the run was.
CancelledNeverSucceeds ==
  \A r \in Run : cancelRequested[r] => status[r] # "succeeded"

\* A lease still alive in the database is never replaced by another executor's.
LeaseNotStolen ==
  [][\A r \in Run :
       leaseLive[r] /\ leaseToken'[r] # leaseToken[r] => status'[r] # "running"]_vars

\* A run ends once: no late answer, sweep or cancellation rewrites its outcome.
TerminalIsFinal ==
  [][\A r \in Run : status[r] \in Terminal => status'[r] = status[r]]_vars

(***************************************************************************)
(* The repository implements the barrier.  A checkpoint was resumed when   *)
(* its parent has run again since it was written.                          *)
(***************************************************************************)
Barrier == INSTANCE ParentBarrier WITH
  phase   <- CASE status[Parent] \in Terminal -> "ended"
               [] status[Parent] = "running" -> "running"
               [] OTHER -> "suspended",
  kind    <- ckpt.kind,
  written <- ckpt.generation,
  resumed <- attempt[Parent] - 1,
  open    <- {c \in Child : join[c] = "pending"},
  closed  <- {c \in Child : join[c] \in Terminal}

ImplementsBarrier == Barrier!Spec

(***************************************************************************)
(* Each run of the family keeps the contract of a row of agent_run.        *)
(***************************************************************************)
Life(r) == INSTANCE RunLifecycle WITH
  None <- 0, status <- status[r], token <- leaseToken[r], live <- leaseLive[r],
  cancelRequested <- cancelRequested[r], overdue <- overdue[r], OldClock <- LateNow

ImplementsLifecycle ==
  /\ \A r \in Run : Life(r)!Init
  /\ [][\A r \in Run : UNCHANGED Life(r)!lifeVars \/ Life(r)!Next]_vars

\* README.md: cancelling a run tree attempts A2A tasks/cancel for its active
\* remote tasks.
RemoteTaskIsCancelled ==
  cancelRequested[Parent] =>
    \A c \in RemoteChild : status[c] = "cancelled" /\ remoteTask[c] => remoteCancel[c] # "none"

=============================================================================
