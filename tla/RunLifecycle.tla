---------------------------- MODULE RunLifecycle ----------------------------
(***************************************************************************)
(* The contract of one row of agent_run, whoever writes it: what may       *)
(* happen to its status, its lease, its cancellation and its deadline.     *)
(* AgentRuns keeps it for every run of a family, RemoteDelegation for a    *)
(* remote child between the steps of its executions.                       *)
(***************************************************************************)
CONSTANTS
  None,      \* no lease token
  OldClock   \* may a writer compare the deadline with an old clock

VARIABLES
  status,           \* of the run, "absent" before its row exists
  token,            \* of the lease it was given
  live,             \* that lease has not expired
  cancelRequested,  \* somebody wants the run to end
  overdue           \* its deadline has passed

lifeVars == <<status, token, live, cancelRequested, overdue>>
lease == <<token, live>>
flags == <<cancelRequested, overdue>>

Suspended == {"waiting_approval", "waiting_input", "waiting_external"}
Idle == {"queued"} \cup Suspended
Ended == {"succeeded", "failed", "cancelled", "timed_out", "budget_exhausted"}

\* Nothing that the one who writes can see keeps the run from going on: a
\* cancellation it always sees, a deadline passed only with a clock of now.
Unhindered == ~cancelRequested /\ (overdue => OldClock)

\* A child is about to be created or queued, a root run runs at once.
Init ==
  /\ status \in {"absent", "queued", "running"}
  /\ live <=> status = "running"
  /\ token # None <=> status = "running"
  /\ ~cancelRequested /\ ~overdue

Create == status = "absent" /\ status' = "queued" /\ UNCHANGED <<lease, flags>>

\* An executor takes a run that nobody holds, for the first time or again.
Claim ==
  /\ ~live /\ status \in {"queued", "waiting_external", "running"}
  /\ status' = "running" /\ token' # None /\ live'
  /\ UNCHANGED flags

Renew == status = "running" /\ Unhindered /\ live' /\ UNCHANGED <<status, token, flags>>
Expire == live /\ ~live' /\ UNCHANGED <<status, token, flags>>

Release == token' = None /\ ~live' /\ UNCHANGED flags

\* Its executor gives it up, to go on later ...
Suspend == status = "running" /\ Unhindered /\ status' \in Suspended /\ Release

\* ... or for good.  It has succeeded only if nothing was in its way.
Finish ==
  /\ status = "running" /\ status' \in Ended /\ Release
  /\ status' = "succeeded" => Unhindered

\* The user's answer.  It was given to a run with nothing in its way, and may be
\* written when that is over.
Requeue ==
  /\ status \in {"waiting_input", "waiting_approval"}
  /\ status' = "queued" /\ UNCHANGED <<lease, flags>>

\* A run that nobody executes ends because it was cancelled or is overdue.
End ==
  /\ status \in Idle /\ UNCHANGED <<token, live, overdue>>
  /\ \/ status' = "cancelled" /\ cancelRequested'
     \/ status' = "timed_out" /\ overdue /\ UNCHANGED cancelRequested

RequestCancel ==
  status \in Idle \cup {"running"} /\ cancelRequested' /\ UNCHANGED <<status, lease, overdue>>
Pass == overdue' /\ UNCHANGED <<status, lease, cancelRequested>>

Next ==
  \/ Create \/ Claim \/ Renew \/ Expire \/ Suspend \/ Finish \/ Requeue \/ End
  \/ RequestCancel \/ Pass

Spec == Init /\ [][Next]_lifeVars

=============================================================================
