---------------------------- MODULE Orchestration ----------------------------
(***************************************************************************)
(* A capability orchestration: the durable job a worker claims, the plan   *)
(* it executes step by step, the calls of a step side by side through a    *)
(* scheduler session, each charged to the budget of the root run before    *)
(* its tool runs.                                                          *)
(*                                                                         *)
(* Composes DurableJobs (the job's tables) and RootBudget.  The calls are  *)
(* promises of one process: after the first rejection the worker reports   *)
(* the job as failed, and the calls it no longer waits for go on.          *)
(***************************************************************************)
EXTENDS DurableJobs, RootBudget, Sequences

CONSTANTS
  Call,        \* the calls of the plan; the token of its charge is the call
  Exclusive,   \* the calls of capabilities with the risk "write"
  Steps,       \* the steps of the plan
  StepOf,      \* the step of a call
  MaxParallel  \* maxParallel of the invoker (the code: 4)

ASSUME PlanAssumption ==
  /\ Call \subseteq Token /\ Exclusive \subseteq Call
  /\ Steps \in Nat \ {0} /\ StepOf \in [Call -> 1..Steps]
  /\ \A n \in 1..Steps : \E c \in Call : StepOf[c] = n
  /\ MaxParallel \in Nat \ {0}

VARIABLES
  at,               \* where the executeOne() of a worker stands; the last two are
                    \* the outcome it is about to store
  step,             \* the step it has begun, 0 for none
  aborted,          \* its signal: a heartbeat found the lease lost
  call,             \* where its calls stand
  pending,          \* CapabilitySchedulerSession.pending
  active,           \* CapabilitySchedulerSession.active
  exclusiveActive,  \* CapabilitySchedulerSession.exclusiveActive
  ran,              \* how often the tool of a call was run
  revised,          \* the goal has another revision than the run
  runEnded          \* the run of the job has ended or is cancelled

sessionVars == <<call, pending, active, exclusiveActive>>
workerVars == <<at, step, aborted>>
outerVars == <<revised, runEnded>>
planVars == <<workerVars, sessionVars, ran, outerVars>>
vars == <<jobVars, budgetVars, planVars>>

Live == {"admitted", "charged", "running"}
CallState == {"todo", "pending", "ended", "ok", "rejected"} \cup Live

PlanTypeOK ==
  /\ at \in [Worker -> {"idle", "start", "run", "completed", "failed"}]
  /\ step \in [Worker -> 0..Steps]
  /\ aborted \in [Worker -> BOOLEAN]
  /\ call \in [Worker -> [Call -> CallState]]
  /\ pending \in [Worker -> Seq(Call)]
  /\ active \in [Worker -> 0..MaxParallel]
  /\ exclusiveActive \in [Worker -> BOOLEAN]
  /\ ran \in [Call -> Nat]
  /\ revised \in BOOLEAN /\ runEnded \in BOOLEAN

TypeOK == JobTypeOK /\ BudgetTypeOK /\ PlanTypeOK

Init ==
  /\ JobInit /\ BudgetInit
  /\ at = [w \in Worker |-> "idle"] /\ step = [w \in Worker |-> 0]
  /\ aborted = [w \in Worker |-> FALSE]
  /\ call = [w \in Worker |-> [c \in Call |-> "todo"]]
  /\ pending = [w \in Worker |-> <<>>] /\ active = [w \in Worker |-> 0]
  /\ exclusiveActive = [w \in Worker |-> FALSE]
  /\ ran = [c \in Call |-> 0]
  /\ revised = FALSE /\ runEnded = FALSE

-----------------------------------------------------------------------------
(* executeOne *)

\* A new session, in which no call has begun.
NewSession(w) ==
  /\ call' = [call EXCEPT ![w] = [c \in Call |-> "todo"]]
  /\ pending' = [pending EXCEPT ![w] = <<>>] /\ active' = [active EXCEPT ![w] = 0]
  /\ exclusiveActive' = [exclusiveActive EXCEPT ![w] = FALSE]

Claim(w) ==
  /\ at[w] = "idle" /\ ClaimRow(w)
  /\ at' = [at EXCEPT ![w] = "start"] /\ step' = [step EXCEPT ![w] = 0]
  /\ aborted' = [aborted EXCEPT ![w] = FALSE]
  /\ NewSession(w)
  /\ UNCHANGED <<budgetVars, ran, outerVars>>

\* The timer finds that the lease is not this worker's any more.
Heartbeat(w) ==
  /\ at[w] # "idle" /\ ~Holds(w) /\ ~aborted[w]
  /\ aborted' = [aborted EXCEPT ![w] = TRUE]
  /\ UNCHANGED <<jobVars, budgetVars, at, step, sessionVars, ran, outerVars>>

\* The lease runs out: its worker is gone, or it was suspended too long.
LeaseExpires ==
  /\ status = "running" /\ leaseLive /\ leaseLive' = FALSE
  /\ IF at[holder] = "idle" THEN UNCHANGED faults ELSE Fault
  /\ UNCHANGED <<status, attempt, holder, outcome, deliveryVars, budgetVars, planVars>>

\* The process dies, and its calls with it.
WorkerDies(w) ==
  /\ step[w] # 0 \/ at[w] # "idle"
  /\ Fault /\ at' = [at EXCEPT ![w] = "idle"] /\ step' = [step EXCEPT ![w] = 0]
  /\ aborted' = [aborted EXCEPT ![w] = FALSE] /\ NewSession(w)
  /\ UNCHANGED <<rowVars, deliveryVars, budgetVars, ran, outerVars>>

\* The end of the plan: with the error that the catch block stores, unless the
\* lease is known to be lost.
Conclude(w, o) ==
  at' = [at EXCEPT ![w] = IF o = "failed" /\ aborted[w] THEN "idle" ELSE o]

\* The target reads its run, which must be at work.
Begin(w) ==
  /\ at[w] = "start"
  /\ IF runEnded THEN Conclude(w, "failed") /\ UNCHANGED step
     ELSE at' = [at EXCEPT ![w] = "run"] /\ step' = [step EXCEPT ![w] = 1]
  /\ UNCHANGED <<jobVars, budgetVars, aborted, sessionVars, ran, outerVars>>

Current(w) == {c \in Call : StepOf[c] = step[w]}

\* Promise.all of a step: the first rejection ends the plan.
StepFails(w) ==
  /\ at[w] = "run" /\ \E c \in Current(w) : call[w][c] = "rejected"
  /\ Conclude(w, "failed")
  /\ UNCHANGED <<jobVars, budgetVars, step, aborted, sessionVars, ran, outerVars>>

\* Promise.race of a step.
StepRaces(w) ==                                                           \* mutant
  /\ at[w] = "run" /\ \E c \in Current(w) : call[w][c] = "ok"
  /\ IF step[w] < Steps THEN step' = [step EXCEPT ![w] = @ + 1] /\ UNCHANGED at
                        ELSE Conclude(w, "completed") /\ UNCHANGED step
  /\ UNCHANGED <<jobVars, budgetVars, aborted, sessionVars, ran, outerVars>>

StepDone(w) ==
  /\ at[w] = "run" /\ \A c \in Current(w) : call[w][c] = "ok"
  /\ IF step[w] < Steps THEN step' = [step EXCEPT ![w] = @ + 1] /\ UNCHANGED at
                        ELSE Conclude(w, "completed") /\ UNCHANGED step
  /\ UNCHANGED <<jobVars, budgetVars, aborted, sessionVars, ran, outerVars>>

\* finish: stored or, when the lease is lost, not, which the worker does not
\* see.  It may throw, stored or not; the first time the catch block stores a
\* failure instead, the second time the job is left to its lease.
Finish(w) ==
  /\ at[w] \in {"completed", "failed"}
  /\ \/ /\ FinishRow(w, at[w]) /\ UNCHANGED faults
        /\ at' = [at EXCEPT ![w] = "idle"]
     \/ /\ FinishRow(w, at[w]) \/ UNCHANGED <<rowVars, deliveryVars>>
        /\ Fault
        /\ IF at[w] = "completed" THEN Conclude(w, "failed") ELSE at' = [at EXCEPT ![w] = "idle"]
  /\ UNCHANGED <<budgetVars, step, aborted, sessionVars, ran, outerVars>>

-----------------------------------------------------------------------------
(* CapabilitySchedulerSession *)

\* How many calls at the head of the queue q need not run alone, and are no more
\* than max when there is a maximum: the longest such run of them.
Parallel(q, limited, max) ==
  LET Fits(n) == (\A i \in 1..n : q[i] \notin Exclusive) /\ (limited => n <= max)
  IN {n \in 0..Len(q) : Fits(n) /\ \A k \in 0..Len(q) : Fits(k) => k <= n}

\* An exclusive call admitted beside others.
AdmitsBeside(w, q, n, x) ==                                               \* mutant
  IF x \/ q = <<>> \/ n >= MaxParallel THEN {0}
  ELSE IF n = 0 /\ aborted[w] THEN {Len(q)}
  ELSE IF q[1] \in Exclusive THEN {1}
  ELSE Parallel(q, ~aborted[w], MaxParallel - n)

\* How many calls a pump() takes from a queue q when n calls are active, and x
\* says that an exclusive one is.  All of this happens without an await; when
\* the signal is aborted a call that is taken is skipped and the next one is
\* taken in its place.
Admits(w, q, n, x) ==
  IF x \/ q = <<>> \/ n >= MaxParallel THEN {0}
  ELSE IF n = 0 /\ aborted[w] THEN {Len(q)}
  ELSE IF q[1] \in Exclusive THEN {IF n = 0 THEN 1 ELSE 0}
  ELSE Parallel(q, ~aborted[w], MaxParallel - n)

\* pump() of a session whose queue is q, in which n calls and perhaps an
\* exclusive one are active and whose calls stand at cs.
Pump(w, q, n, x, cs) == \E m \in Admits(w, q, n, x) :
  LET taken == {q[i] : i \in 1..m}
      admitted == IF aborted[w] THEN {} ELSE taken
  IN /\ pending' = [pending EXCEPT ![w] = SubSeq(q, m + 1, Len(q))]
     /\ call' = [call EXCEPT ![w] = [c \in Call |->
                   IF c \in admitted THEN "admitted" ELSE IF c \in taken THEN "rejected" ELSE cs[c]]]
     /\ active' = [active EXCEPT ![w] = IF aborted[w] THEN n ELSE n + m]
     /\ exclusiveActive' = [exclusiveActive EXCEPT ![w] = x \/ admitted \cap Exclusive # {}]

\* The end of a call that was admitted: with the counters goes the barrier.
EndsBehind(w, c, how) ==                                                  \* mutant
  Pump(w, pending[w], active[w] - 1, exclusiveActive[w], [call[w] EXCEPT ![c] = how])

Ends(w, c, how) ==
  Pump(w, pending[w], active[w] - 1, exclusiveActive[w] /\ c \notin Exclusive,
       [call[w] EXCEPT ![c] = how])

-----------------------------------------------------------------------------
(* A call of the plan: the target's callback and the invoker *)

Moves(w, c, l) ==
  /\ call' = [call EXCEPT ![w][c] = l]
  /\ UNCHANGED <<pending, active, exclusiveActive>>

\* The signal, the revision of the goal and the policy are asked, then the call
\* is admitted to the session.
Check(w, c) ==
  /\ c \in Current(w) /\ call[w][c] = "todo"
  /\ \/ /\ aborted[w] \/ revised
        /\ Moves(w, c, "rejected") /\ UNCHANGED faults
     \/ Fault /\ Moves(w, c, "rejected")
     \/ /\ ~aborted[w] /\ ~revised
        /\ Pump(w, Append(pending[w], c), active[w], exclusiveActive[w],
                [call[w] EXCEPT ![c] = "pending"])
        /\ UNCHANGED faults
  /\ UNCHANGED <<rowVars, deliveryVars, budgetVars, workerVars, ran, outerVars>>

\* The tool runs before it is charged.
ChargeLater(w, c) ==                                                      \* mutant
  /\ call[w][c] = "admitted" /\ Moves(w, c, "charged") /\ UNCHANGED <<faults, budgetVars>>
  /\ UNCHANGED <<rowVars, deliveryVars, workerVars, ran, outerVars>>

\* The charge of one tool call: entered or found to be there, refused, or failed,
\* entered or not.
ChargeCall(w, c) ==
  /\ call[w][c] = "admitted"
  /\ \/ Charge(c) /\ Moves(w, c, "charged") /\ UNCHANGED faults
     \/ /\ ledger[c].state = "none" /\ committed + reserved + 1 > Limit /\ Ends(w, c, "rejected")
        /\ UNCHANGED <<budgetVars, faults>>
     \/ /\ Charge(c) \/ UNCHANGED budgetVars
        /\ Fault /\ Ends(w, c, "rejected")
  /\ UNCHANGED <<rowVars, deliveryVars, workerVars, ran, outerVars>>

\* The tool is started unless the signal is aborted.
RunTool(w, c) ==
  /\ call[w][c] = "charged"
  /\ IF aborted[w] THEN Ends(w, c, "rejected") /\ UNCHANGED ran
     ELSE Moves(w, c, "running") /\ ran' = [ran EXCEPT ![c] = @ + 1]
  /\ UNCHANGED <<jobVars, budgetVars, workerVars, outerVars>>

\* The tool returns or throws.
EndTool(w, c) ==
  /\ call[w][c] = "running"
  /\ \/ Ends(w, c, "ended") /\ UNCHANGED faults
     \/ Ends(w, c, "rejected") /\ Fault
  /\ UNCHANGED <<rowVars, deliveryVars, budgetVars, workerVars, ran, outerVars>>

\* Its result is used if the signal and the revision still stand.
CheckAgain(w, c) ==
  /\ call[w][c] = "ended"
  /\ Moves(w, c, IF aborted[w] \/ revised THEN "rejected" ELSE "ok")
  /\ UNCHANGED <<jobVars, budgetVars, workerVars, ran, outerVars>>

-----------------------------------------------------------------------------
(* The run, its other budget clients and its user *)

ReviseGoal ==
  /\ ~revised /\ revised' = TRUE
  /\ IF inbox.state = "open" THEN CloseItem("superseded") ELSE UNCHANGED jobVars
  /\ UNCHANGED <<budgetVars, workerVars, sessionVars, ran, runEnded>>

EndRun ==
  /\ ~runEnded /\ runEnded' = TRUE
  /\ UNCHANGED <<jobVars, budgetVars, workerVars, sessionVars, ran, revised>>

Spend(t) == (Charge(t) \/ Reserve(t)) /\ UNCHANGED <<jobVars, planVars>>
SettleStep(s) ==
  /\ Settle(s) \/ \E t \in Token : ReadReservation(s, t)
  /\ UNCHANGED <<jobVars, planVars>>
Reap(t) == runEnded /\ Reconcile(t) /\ UNCHANGED <<jobVars, planVars>>

JobStep ==
  /\ \/ Create \/ FailExpired \/ Cancel \/ OutboxExpires
     \/ \E p \in Publisher : PublishStep(p) \/ PublisherDies(p)
     \/ \E how \in {"consumed", "dismissed"} : CloseItem(how)
  /\ UNCHANGED <<budgetVars, planVars>>

CallStep(w, c) == Check(w, c) \/ ChargeCall(w, c) \/ RunTool(w, c) \/ EndTool(w, c) \/ CheckAgain(w, c)
WorkerStep(w) == Begin(w) \/ StepFails(w) \/ StepDone(w) \/ Finish(w)

Next ==
  \/ JobStep \/ LeaseExpires \/ ReviseGoal \/ EndRun
  \/ \E w \in Worker :
       \/ Claim(w) \/ Heartbeat(w) \/ WorkerDies(w) \/ WorkerStep(w)
       \/ \E c \in Call : CallStep(w, c)
  \/ \E t \in Token \ Call : Spend(t) \/ Reap(t)
  \/ \E s \in Settler : SettleStep(s)

\* What processes that live do, the timers of the sweeps and of the reaper, and
\* the clock: not what users and other clients of the root run may do, and not
\* the death of a process.
Goes ==
  \/ /\ FailExpired \/ OutboxExpires \/ \E p \in Publisher : PublishStep(p)
     /\ UNCHANGED <<budgetVars, planVars>>
  \/ LeaseExpires
  \/ \E w \in Worker : Claim(w) \/ WorkerStep(w) \/ \E c \in Call : CallStep(w, c)
  \/ \E s \in Settler : SettleStep(s)
  \/ \E t \in Token \ Call : Reap(t)

\* The system does not stop while one of these is possible.  None of them can be
\* repeated for ever, so nothing is asked of the order in which they come.
Fairness == WF_vars(Goes)

Spec == Init /\ [][Next]_vars /\ Fairness

-----------------------------------------------------------------------------
(* Properties *)

\* "Capability orchestration is at-most-once": no tool is run twice for its
\* call, whatever workers die, lose their lease or fail to store the outcome.
CallOnce == \A c \in Call : ran[c] <= 1

Running(w) == {c \in Call : call[w][c] \in Live}

\* A call that writes runs alone in its session, and no more calls than are
\* allowed run at once, also after the worker has stopped waiting for them.
ExclusiveAlone ==
  \A w \in Worker :
    /\ Cardinality(Running(w)) <= MaxParallel
    /\ \A c \in Running(w) \cap Exclusive : Running(w) = {c}

\* What the orchestration has run, with what the other clients of the root run
\* used or were promised, is within the limit.
RunsWithinBudget ==
  raced \/ Cardinality({t \in Token : IF t \in Call THEN ran[t] > 0 ELSE ledger[t].used = 1})
             + reserved <= Limit

\* A completed job ran every call of its plan; and in any job, a call runs only
\* when those of all earlier steps have run, whose results it may be given.
PlanKept ==
  /\ outcome = "completed" => \A c \in Call : ran[c] = 1
  /\ \A c, d \in Call : StepOf[c] < StepOf[d] /\ ran[d] > 0 => ran[c] > 0

\* The calls that wait in a session are admitted or rejected, all of them.
CallsSettle == \A w \in Worker : pending[w] # <<>> ~> pending[w] = <<>>

=============================================================================
