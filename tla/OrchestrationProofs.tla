------------------------- MODULE OrchestrationProofs -------------------------
(***************************************************************************)
(* What a capability orchestration keeps for any plan, number of workers,  *)
(* publishers and settlements, and bounds: the types, the promise of its   *)
(* job, and the counters of the budget it shares.                          *)
(***************************************************************************)
EXTENDS Orchestration, Integers, FiniteSetTheorems, TLAPS

-----------------------------------------------------------------------------
(* Types *)

\* The types of the plan, without the bound of the active calls, which rests on
\* the scheduler.
PlanTyped ==
  /\ at \in [Worker -> {"idle", "start", "run", "completed", "failed"}]
  /\ step \in [Worker -> 0..Steps] /\ aborted \in [Worker -> BOOLEAN]
  /\ call \in [Worker -> [Call -> CallState]]
  /\ pending \in [Worker -> Seq(Call)] /\ active \in [Worker -> Int]
  /\ exclusiveActive \in [Worker -> BOOLEAN] /\ ran \in [Call -> Nat]
  /\ revised \in BOOLEAN /\ runEnded \in BOOLEAN

Typed == JobTypeOK /\ BudgetTypeOK /\ PlanTyped

\* There is a call, so there is a token.
LEMMA SomeToken == Call # {} /\ Token # {} /\ (CHOOSE t \in Token : TRUE) \in Token
  BY PlanAssumption

\* The end of a job, with its outbox row, has the types of both.
LEMMA EndTypes ==
  ASSUME JobTypeOK, NEW o \in Ended, EndWith(o), faults' \in 0..MaxFaults
  PROVE  JobTypeOK'
<1>1. outbox' = [state |-> "waiting", what |-> o, tries |-> 0, holder |-> "none", live |-> FALSE]
  BY DEF EndWith, NoBox
<1>2. outbox' \in [state : {"none", "waiting", "leased", "delivered"}, what : Ended \cup {"none"},
                   tries : 0..MaxDeliver, holder : Publisher \cup {"none"}, live : BOOLEAN]
  <2>1. 0 \in 0..MaxDeliver BY JobAssumption
  <2> QED BY <1>1, <2>1
<1> QED BY <1>2 DEF JobTypeOK, EndWith

\* finish keeps the types whatever the worker, a lost lease included.
LEMMA FinishTypes ==
  ASSUME JobTypeOK, NEW w \in Worker, NEW o \in Ended, FinishRow(w, o), faults' \in 0..MaxFaults
  PROVE  JobTypeOK'
<1>1. CASE Holds(w) BY <1>1, EndTypes DEF FinishRow
<1>2. CASE ~Holds(w) BY <1>2 DEF FinishRow, JobTypeOK, rowVars, deliveryVars
<1> QED BY <1>1, <1>2

\* A fault is counted within its bound.
LEMMA FaultTypes == ASSUME JobTypeOK, Fault PROVE faults' \in 0..MaxFaults
  BY JobAssumption DEF JobTypeOK, Fault

\* The steps of a publisher keep the types of the job.
LEMMA PublishTypes ==
  ASSUME JobTypeOK, NEW p \in Publisher, PublishStep(p) \/ PublisherDies(p) PROVE JobTypeOK'
<1> USE DEF JobTypeOK, rowVars, deliveryVars, At
<1>1. CASE ClaimOutbox(p)
  <2>1. outbox' = [outbox EXCEPT !.state = "leased", !.tries = @ + 1, !.holder = p, !.live = TRUE]
        /\ outbox.tries < MaxDeliver /\ UNCHANGED <<rowVars, inbox, faults>>
        /\ publisher' = [publisher EXCEPT ![p] = "inject"]
    BY <1>1 DEF ClaimOutbox
  <2>2. outbox.tries + 1 \in 0..MaxDeliver BY <2>1, JobAssumption
  <2> QED BY <2>1, <2>2
<1>2. CASE Inject(p)
  <2>1. UNCHANGED <<rowVars, outbox>> /\ publisher' \in [Publisher -> {"idle", "inject", "complete", "retry"}]
    BY <1>2 DEF Inject
  <2>2. faults' \in 0..MaxFaults BY <1>2, FaultTypes DEF Inject
  <2>3. inbox' \in {inbox, [state |-> "open", what |-> outbox.what]} BY <1>2 DEF Inject
  <2> QED BY <2>1, <2>2, <2>3
<1>3. CASE CompleteOutbox(p)
  <2>1. UNCHANGED <<rowVars, inbox>> /\ publisher' \in [Publisher -> {"idle", "inject", "complete", "retry"}]
    BY <1>3 DEF CompleteOutbox
  <2>2. faults' \in 0..MaxFaults BY <1>3, FaultTypes DEF CompleteOutbox
  <2>3. outbox' \in {outbox, [outbox EXCEPT !.state = "delivered", !.holder = "none", !.live = FALSE]}
    BY <1>3 DEF CompleteOutbox
  <2> QED BY ZenonT(30), <2>1, <2>2, <2>3
<1>4. CASE RetryOutbox(p) BY <1>4 DEF RetryOutbox
<1>5. CASE PublisherDies(p) BY <1>5, FaultTypes DEF PublisherDies
<1> QED BY <1>1, <1>2, <1>3, <1>4, <1>5 DEF PublishStep

\* Every step of the job keeps its types.
LEMMA JobNextTypes == ASSUME JobTypeOK, JobNext PROVE JobTypeOK'
<1>1. CASE Create \/ FailExpired \/ Cancel \/ OutboxExpires
  <2>1. CASE Create BY <2>1 DEF Create, JobTypeOK, deliveryVars
  <2>2. CASE FailExpired BY <2>2, EndTypes DEF FailExpired, JobTypeOK, Ended
  <2>3. CASE Cancel BY <2>3, EndTypes DEF Cancel, JobTypeOK, Ended
  <2>4. CASE OutboxExpires
    <3>1. faults' \in 0..MaxFaults BY <2>4, FaultTypes DEF OutboxExpires, JobTypeOK
    <3> QED BY <2>4, <3>1 DEF OutboxExpires, JobTypeOK, rowVars
  <2> QED BY <1>1, <2>1, <2>2, <2>3, <2>4
<1>2. ASSUME NEW w \in Worker, ClaimRow(w) PROVE JobTypeOK'
  BY <1>2 DEF ClaimRow, JobTypeOK, deliveryVars
<1>3. ASSUME NEW w \in Worker, NEW o \in {"completed", "failed"}, FinishRow(w, o), Fault \/ UNCHANGED faults
      PROVE  JobTypeOK'
  <2>1. faults' \in 0..MaxFaults BY <1>3, FaultTypes DEF JobTypeOK
  <2> QED BY <1>3, <2>1, FinishTypes DEF Ended
<1>4. ASSUME leaseLive' = FALSE, Fault \/ UNCHANGED faults,
             UNCHANGED <<status, attempt, holder, outcome, deliveryVars>>
      PROVE  JobTypeOK'
  <2>1. faults' \in 0..MaxFaults BY <1>4, FaultTypes DEF JobTypeOK
  <2>2. leaseLive' \in BOOLEAN BY <1>4
  <2>3. UNCHANGED <<status, attempt, holder, outcome, outbox, publisher, inbox>> BY <1>4 DEF deliveryVars
  <2> QED BY <2>1, <2>2, <2>3 DEF JobTypeOK
<1>5. ASSUME NEW how \in {"consumed", "dismissed", "superseded"}, CloseItem(how) PROVE JobTypeOK'
  BY <1>5 DEF CloseItem, JobTypeOK, rowVars
<1>6. CASE Fault /\ UNCHANGED <<rowVars, deliveryVars>>
  BY <1>6, FaultTypes DEF JobTypeOK, rowVars, deliveryVars
<1> QED BY <1>1, <1>2, <1>3, <1>4, <1>5, <1>6, PublishTypes DEF JobNext

\* The steps of the budget keep its types, and the sum within the limit.
BudgetTyped == BudgetTypeOK /\ committed + reserved <= Limit

\* A charge is only made when there is room for it.
LEMMA ChargeTypes == ASSUME BudgetTyped, NEW t \in Token, Charge(t) PROVE BudgetTyped'
<1>1. CASE ledger[t].state = "settled" BY <1>1 DEF Charge, BudgetTyped, BudgetTypeOK, budgetVars
<1>2. CASE ledger[t].state # "settled"
  <2>1. committed + 1 \in 0..Limit /\ committed + 1 + reserved <= Limit
    BY <1>2, BudgetAssumption DEF Charge, BudgetTyped, BudgetTypeOK
  <2> QED BY <1>2, <2>1 DEF Charge, BudgetTyped, BudgetTypeOK, Entry, Enter
<1> QED BY <1>1, <1>2

\* So is a promise.
LEMMA ReserveTypes == ASSUME BudgetTyped, NEW t \in Token, Reserve(t) PROVE BudgetTyped'
<1>1. reserved + 1 \in 0..Limit BY BudgetAssumption DEF Reserve, BudgetTyped, BudgetTypeOK
<1> QED BY <1>1 DEF Reserve, BudgetTyped, BudgetTypeOK, Entry, Enter

\* The reaper takes back a promise that is counted.
LEMMA ReconcileTypes == ASSUME BudgetTyped, NEW t \in Token, Reconcile(t) PROVE BudgetTyped'
<1>1. reserved - 1 \in 0..Limit BY BudgetAssumption DEF Reconcile, BudgetTyped, BudgetTypeOK
<1> QED BY <1>1, BudgetAssumption DEF Reconcile, BudgetTyped, BudgetTypeOK, Entry, Enter

\* A settlement puts in the place of one promised at most one used.
LEMMA SettleTypes ==
  ASSUME BudgetTyped, NEW s \in Settler, Settle(s) \/ \E t \in Token : ReadReservation(s, t)
  PROVE  BudgetTyped'
<1>1. ASSUME NEW t \in Token, ReadReservation(s, t) PROVE BudgetTyped'
  <2>1. PICK used \in {0, 1} :
          settler' = [settler EXCEPT ![s] = [pc |-> "write", token |-> t, used |-> used]]
    BY <1>1 DEF ReadReservation
  <2> QED BY <1>1, <2>1 DEF ReadReservation, BudgetTyped, BudgetTypeOK
<1>2. CASE Settle(s)
  <2> DEFINE t == settler[s].token
             used == settler[s].used
  <2>1. t \in Token /\ used \in {0, 1} BY DEF BudgetTyped, BudgetTypeOK
  <2>2. settler' \in [Settler -> [pc : {"idle", "write"}, token : Token, used : {0, 1}]]
    BY <1>2, SomeToken DEF Settle, SettlerDone, Idle, BudgetTyped, BudgetTypeOK
  <2>3. CASE reserved > 0 /\ committed + reserved - 1 + used <= Limit
    <3>1. committed' = committed + used /\ reserved' = reserved - 1 /\ EnterSettled(t, used)
      BY <1>2, <2>3 DEF Settle
    <3>2. committed' \in 0..Limit /\ reserved' \in 0..Limit /\ committed' + reserved' <= Limit
      BY <2>1, <2>3, <3>1, BudgetAssumption DEF BudgetTyped, BudgetTypeOK
    <3>3. ledger' \in [Token -> Entry] /\ raced' \in BOOLEAN
      BY <2>1, <3>1 DEF EnterSettled, Enter, Entry, BudgetTyped, BudgetTypeOK
    <3> QED BY <2>2, <3>2, <3>3 DEF BudgetTyped, BudgetTypeOK
  <2>4. CASE ~(reserved > 0 /\ committed + reserved - 1 + used <= Limit)
    BY <1>2, <2>2, <2>4 DEF Settle, BudgetTyped, BudgetTypeOK
  <2> QED BY <2>3, <2>4
<1> QED BY <1>1, <1>2

\* A step of the budget, one of these, keeps its types and its sum.
BudgetStep == BudgetNext \/ UNCHANGED budgetVars

\* The budget stays typed in every step of the system.
LEMMA BudgetTypes == ASSUME BudgetTyped, BudgetStep PROVE BudgetTyped'
<1>1. CASE UNCHANGED budgetVars BY <1>1 DEF BudgetTyped, BudgetTypeOK, budgetVars
<1> QED BY <1>1, ChargeTypes, ReserveTypes, ReconcileTypes, SettleTypes DEF BudgetStep, BudgetNext

\* What pump() leaves is typed.
LEMMA PumpTypes ==
  ASSUME PlanTyped, NEW w \in Worker, NEW q \in Seq(Call), NEW n \in Int, NEW x \in BOOLEAN,
         NEW cs \in [Call -> CallState], Pump(w, q, n, x, cs)
  PROVE  /\ call' \in [Worker -> [Call -> CallState]] /\ pending' \in [Worker -> Seq(Call)]
         /\ active' \in [Worker -> Int] /\ exclusiveActive' \in [Worker -> BOOLEAN]
<1>1. PICK m \in Admits(w, q, n, x) :
        LET taken == {q[i] : i \in 1..m}
            admitted == IF aborted[w] THEN {} ELSE taken
        IN /\ pending' = [pending EXCEPT ![w] = SubSeq(q, m + 1, Len(q))]
           /\ call' = [call EXCEPT ![w] = [c \in Call |->
                IF c \in admitted THEN "admitted" ELSE IF c \in taken THEN "rejected" ELSE cs[c]]]
           /\ active' = [active EXCEPT ![w] = IF aborted[w] THEN n ELSE n + m]
           /\ exclusiveActive' = [exclusiveActive EXCEPT ![w] = x \/ admitted \cap Exclusive # {}]
  BY DEF Pump
<1>2. m \in 0..Len(q)
  <2>1. Len(q) \in Nat /\ (q # <<>> => Len(q) > 0) OBVIOUS
  <2>2. m \in {0, Len(q)} \/ (q # <<>> /\ m = 1) \/ m \in Parallel(q, ~aborted[w], MaxParallel - n)
    BY DEF Admits
  <2> QED BY <2>1, <2>2 DEF Parallel
<1>3. SubSeq(q, m + 1, Len(q)) \in Seq(Call)
  <2>1. \A i \in m + 1..Len(q) : q[i] \in Call BY <1>2
  <2> QED BY <1>2, <2>1
<1>4. active' \in [Worker -> Int] /\ exclusiveActive' \in [Worker -> BOOLEAN]
  BY <1>1, <1>2 DEF PlanTyped
<1>5. pending' \in [Worker -> Seq(Call)] BY <1>1, <1>3 DEF PlanTyped
<1>6. call' \in [Worker -> [Call -> CallState]]
  <2>1. "admitted" \in CallState /\ "rejected" \in CallState BY DEF CallState, Live
  <2> QED BY <1>1, <2>1 DEF PlanTyped
<1> QED BY <1>4, <1>5, <1>6

\* So is what a call leaves that moves on or ends.
LEMMA MoveTypes ==
  ASSUME PlanTyped, NEW w \in Worker, NEW c \in Call, NEW how \in CallState,
         Moves(w, c, how) \/ Ends(w, c, how)
  PROVE  /\ call' \in [Worker -> [Call -> CallState]] /\ pending' \in [Worker -> Seq(Call)]
         /\ active' \in [Worker -> Int] /\ exclusiveActive' \in [Worker -> BOOLEAN]
<1>1. CASE Moves(w, c, how) BY <1>1 DEF Moves, PlanTyped
<1>2. CASE Ends(w, c, how)
  <2>1. [call[w] EXCEPT ![c] = how] \in [Call -> CallState] /\ pending[w] \in Seq(Call)
        /\ active[w] - 1 \in Int /\ (exclusiveActive[w] /\ c \notin Exclusive) \in BOOLEAN
    BY DEF PlanTyped
  <2> QED BY <1>2, <2>1, PumpTypes DEF Ends
<1> QED BY <1>1, <1>2

\* Whatever a call does is one of the budget's steps, and typed.
LEMMA CallTypes ==
  ASSUME Typed, NEW w \in Worker, NEW c \in Call, CallStep(w, c)
  PROVE  JobTypeOK' /\ PlanTyped' /\ BudgetStep
<1> USE DEF Typed
<1>1. c \in Token BY PlanAssumption
<1>2. faults' \in 0..MaxFaults /\ UNCHANGED <<rowVars, deliveryVars>>
  BY FaultTypes
  DEF CallStep, Check, ChargeCall, RunTool, EndTool, CheckAgain, jobVars, JobTypeOK
<1>3. JobTypeOK' BY <1>2 DEF JobTypeOK, rowVars, deliveryVars
<1>4. UNCHANGED <<workerVars, outerVars>>
  BY DEF CallStep, Check, ChargeCall, RunTool, EndTool, CheckAgain
<1>5. BudgetStep
  BY <1>1 DEF CallStep, Check, ChargeCall, RunTool, EndTool, CheckAgain, BudgetStep, BudgetNext, budgetVars
<1>6. ran' \in [Call -> Nat]
  BY DEF CallStep, Check, ChargeCall, RunTool, EndTool, CheckAgain, PlanTyped
<1>7. /\ call' \in [Worker -> [Call -> CallState]] /\ pending' \in [Worker -> Seq(Call)]
      /\ active' \in [Worker -> Int] /\ exclusiveActive' \in [Worker -> BOOLEAN]
  <2>1. {"rejected", "charged", "running", "ended", "ok", "pending"} \subseteq CallState
    BY DEF CallState, Live
  <2>2. CASE \E how \in CallState : Moves(w, c, how) \/ Ends(w, c, how)
    BY <2>2, MoveTypes
  <2>3. CASE Pump(w, Append(pending[w], c), active[w], exclusiveActive[w],
                  [call[w] EXCEPT ![c] = "pending"])
    <3>1. /\ Append(pending[w], c) \in Seq(Call) /\ active[w] \in Int
          /\ exclusiveActive[w] \in BOOLEAN /\ [call[w] EXCEPT ![c] = "pending"] \in [Call -> CallState]
      BY <2>1 DEF PlanTyped
    <3> QED BY <2>3, <3>1, PumpTypes
  <2>4. \/ \E how \in CallState : Moves(w, c, how) \/ Ends(w, c, how)
        \/ Pump(w, Append(pending[w], c), active[w], exclusiveActive[w],
                [call[w] EXCEPT ![c] = "pending"])
    BY <2>1 DEF CallStep, Check, ChargeCall, RunTool, EndTool, CheckAgain
  <2> QED BY <2>2, <2>3, <2>4
<1>8. PlanTyped' BY <1>4, <1>6, <1>7 DEF PlanTyped, workerVars, outerVars
<1> QED BY <1>3, <1>5, <1>8

\* And so is what a worker does.
LEMMA WorkerTypes ==
  ASSUME Typed, NEW w \in Worker, Claim(w) \/ Heartbeat(w) \/ WorkerDies(w) \/ WorkerStep(w)
  PROVE  JobTypeOK' /\ PlanTyped' /\ BudgetStep
<1> USE DEF Typed
<1>1. BudgetStep
  BY DEF Claim, Heartbeat, WorkerDies, WorkerStep, Begin, StepFails, StepDone, Finish, BudgetStep
<1>2. JobTypeOK'
  <2>1. CASE Claim(w) BY <2>1 DEF Claim, ClaimRow, JobTypeOK, deliveryVars
  <2>2. CASE WorkerDies(w)
    BY <2>2, FaultTypes DEF WorkerDies, JobTypeOK, rowVars, deliveryVars
  <2>3. CASE Finish(w)
    <3>1. at[w] \in Ended BY <2>3 DEF Finish, Ended
    <3>2. faults' \in 0..MaxFaults BY <2>3, FaultTypes DEF Finish, JobTypeOK
    <3>3. CASE FinishRow(w, at[w]) BY <3>1, <3>2, <3>3, FinishTypes
    <3>4. CASE UNCHANGED <<rowVars, deliveryVars>>
      BY <3>2, <3>4 DEF JobTypeOK, rowVars, deliveryVars
    <3> QED BY <2>3, <3>3, <3>4 DEF Finish
  <2>4. CASE UNCHANGED jobVars BY <2>4 DEF jobVars, rowVars, deliveryVars, JobTypeOK
  <2> QED BY <2>1, <2>2, <2>3, <2>4 DEF Heartbeat, WorkerStep, Begin, StepFails, StepDone
<1>3. PlanTyped'
  <2>1. <<>> \in Seq(Call) /\ [c \in Call |-> "todo"] \in [Call -> CallState]
        /\ 0 \in 0..Steps /\ 1 \in 0..Steps
    BY PlanAssumption DEF CallState
  <2>2. CASE Claim(w) BY <2>1, <2>2 DEF Claim, NewSession, outerVars, PlanTyped
  <2>3. CASE Heartbeat(w) BY <2>3 DEF Heartbeat, sessionVars, outerVars, PlanTyped
  <2>4. CASE WorkerDies(w) BY <2>1, <2>4 DEF WorkerDies, NewSession, outerVars, PlanTyped
  <2>5. CASE WorkerStep(w)
    <3>1. UNCHANGED <<aborted, sessionVars, ran, outerVars>>
      BY <2>5 DEF WorkerStep, Begin, StepFails, StepDone, Finish
    <3>2. step' \in [Worker -> 0..Steps]
      BY <2>1, <2>5, PlanAssumption DEF WorkerStep, Begin, StepFails, StepDone, Finish, PlanTyped
    <3>3. at' \in [Worker -> {"idle", "start", "run", "completed", "failed"}]
      BY <2>5 DEF WorkerStep, Begin, StepFails, StepDone, Finish, Conclude, PlanTyped
    <3> QED BY <3>1, <3>2, <3>3 DEF sessionVars, outerVars, PlanTyped
  <2> QED BY <2>2, <2>3, <2>4, <2>5
<1> QED BY <1>1, <1>2, <1>3

\* The types are kept, with the sum of the budget.
TypedInv == Typed /\ committed + reserved <= Limit

\* A job that was not created has the types.
LEMMA JobInitTypes == ASSUME JobInit PROVE JobTypeOK
<1>1. 0 \in 0..MaxDeliver /\ 0 \in 0..MaxFaults BY JobAssumption
<1>2. outbox \in [state : {"none", "waiting", "leased", "delivered"}, what : Ended \cup {"none"},
                  tries : 0..MaxDeliver, holder : Publisher \cup {"none"}, live : BOOLEAN]
  BY <1>1 DEF JobInit, NoBox
<1>3. leaseLive \in BOOLEAN BY DEF JobInit
<1> QED BY <1>1, <1>2, <1>3 DEF JobInit, JobTypeOK

\* It holds when nothing has begun.
LEMMA TypedInit == Init => TypedInv
<1> SUFFICES ASSUME Init PROVE TypedInv OBVIOUS
<1>1. JobTypeOK BY JobInitTypes DEF Init
<1>2. BudgetTypeOK /\ committed + reserved <= Limit
  <2>1. 0 \in 0..Limit /\ 0 + 0 <= Limit BY BudgetAssumption
  <2>2. raced \in BOOLEAN BY DEF Init, BudgetInit
  <2>3. ledger \in [Token -> Entry] BY DEF Init, BudgetInit, Entry
  <2>4. settler \in [Settler -> [pc : {"idle", "write"}, token : Token, used : {0, 1}]]
    BY SomeToken DEF Init, BudgetInit, Idle
  <2> QED BY <2>1, <2>2, <2>3, <2>4 DEF Init, BudgetInit, BudgetTypeOK
<1>3. PlanTyped
  <2>1. 0 \in 0..Steps /\ <<>> \in Seq(Call) /\ "todo" \in CallState BY PlanAssumption DEF CallState
  <2>2. aborted \in [Worker -> BOOLEAN] BY DEF Init
  <2>3. exclusiveActive \in [Worker -> BOOLEAN] BY DEF Init
  <2>4. revised \in BOOLEAN BY DEF Init
  <2>5. runEnded \in BOOLEAN BY DEF Init
  <2>6. call \in [Worker -> [Call -> CallState]] BY <2>1 DEF Init
  <2>7. pending \in [Worker -> Seq(Call)] BY <2>1 DEF Init
  <2> QED BY <2>1, <2>2, <2>3, <2>4, <2>5, <2>6, <2>7 DEF Init, PlanTyped
<1> QED BY <1>1, <1>2, <1>3 DEF TypedInv, Typed

\* Every step of the system keeps it.
LEMMA TypedStep == TypedInv /\ [Next]_vars => TypedInv'
<1> SUFFICES ASSUME TypedInv, [Next]_vars PROVE TypedInv' OBVIOUS
<1> USE DEF TypedInv, Typed, BudgetTyped
<1>0. ASSUME UNCHANGED <<jobVars, planVars>> PROVE JobTypeOK' /\ PlanTyped'
  BY <1>0 DEF jobVars, rowVars, deliveryVars, planVars, workerVars, sessionVars, outerVars,
     JobTypeOK, PlanTyped
<1>1. CASE UNCHANGED vars
  BY <1>1, <1>0, BudgetTypes DEF vars, BudgetStep
<1>2. CASE JobStep
  <2>1. PlanTyped' /\ BudgetStep
    BY <1>2 DEF JobStep, planVars, workerVars, sessionVars, outerVars, PlanTyped, BudgetStep
  <2>2. JobNext BY <1>2 DEF JobStep, JobNext
  <2> QED BY <2>1, <2>2, JobNextTypes, BudgetTypes
<1>3. CASE LeaseExpires
  <2>1. JobTypeOK' BY ZenonT(30), <1>3, FaultTypes DEF LeaseExpires, JobTypeOK, deliveryVars
  <2>2. PlanTyped' /\ BudgetStep
    BY <1>3 DEF LeaseExpires, planVars, workerVars, sessionVars, outerVars, PlanTyped, BudgetStep
  <2> QED BY <2>1, <2>2, BudgetTypes
<1>4. CASE ReviseGoal \/ EndRun
  <2>1. JobTypeOK'
    BY <1>4 DEF ReviseGoal, EndRun, CloseItem, JobTypeOK, jobVars, rowVars, deliveryVars
  <2>2. PlanTyped' /\ BudgetStep
    BY <1>4 DEF ReviseGoal, EndRun, workerVars, sessionVars, PlanTyped, BudgetStep
  <2> QED BY <2>1, <2>2, BudgetTypes
<1>5. ASSUME NEW w \in Worker, Claim(w) \/ Heartbeat(w) \/ WorkerDies(w) \/ WorkerStep(w)
      PROVE  TypedInv'
  BY <1>5, WorkerTypes, BudgetTypes
<1>6. ASSUME NEW w \in Worker, NEW c \in Call, CallStep(w, c) PROVE TypedInv'
  BY <1>6, CallTypes, BudgetTypes
<1>7. ASSUME NEW t \in Token, Spend(t) \/ Reap(t) PROVE TypedInv'
  <2>1. BudgetStep /\ UNCHANGED <<jobVars, planVars>> BY <1>7 DEF Spend, Reap, BudgetStep, BudgetNext
  <2> QED BY <2>1, <1>0, BudgetTypes
<1>8. ASSUME NEW s \in Settler, SettleStep(s) PROVE TypedInv'
  <2>1. BudgetStep /\ UNCHANGED <<jobVars, planVars>> BY <1>8 DEF SettleStep, BudgetStep, BudgetNext
  <2> QED BY <2>1, <1>0, BudgetTypes
<1> QED BY <1>1, <1>2, <1>3, <1>4, <1>5, <1>6, <1>7, <1>8 DEF Next

-----------------------------------------------------------------------------
(* The counters of the budget *)

Used == {t \in Token : ledger[t].used = 1}
Held == {t \in Token : ledger[t].state = "reserved"}

\* What is not settled has used nothing; and the counters count the ledger.
LedgerInv ==
  /\ \A t \in Token : ledger[t].state # "settled" => ledger[t].used = 0
  /\ raced \/ (committed = Cardinality(Used) /\ reserved = Cardinality(Held))

\* One entry changes both sets by at most its token, and so their sizes.
LEMMA Entered ==
  ASSUME ledger \in [Token -> Entry], NEW t \in Token, NEW state \in {"reserved", "settled"},
         NEW used \in {0, 1}, Enter(t, state, used), ledger[t].used = 0
  PROVE  /\ Cardinality(Used') = Cardinality(Used) + used
         /\ Cardinality(Held') = Cardinality(Held) + (IF state = "reserved" THEN 1 ELSE 0)
                                   - (IF ledger[t].state = "reserved" THEN 1 ELSE 0)
<1>1. IsFiniteSet(Used) /\ IsFiniteSet(Held) BY BudgetAssumption, FS_Subset DEF Used, Held
<1>2. /\ ledger'[t].used = used /\ ledger'[t].state = state
      /\ \A r \in Token : r # t => ledger'[r] = ledger[r]
  BY DEF Enter
<1>3. Cardinality(Used) \in Nat /\ Cardinality(Held) \in Nat BY <1>1, FS_CardinalityType
<1>4. Cardinality(Used') = Cardinality(Used) + used
  <2>1. CASE used = 1
    <3>1. Used' = Used \cup {t} /\ t \notin Used BY <1>2, <2>1 DEF Used
    <3> QED BY <1>1, <2>1, <3>1, FS_AddElement
  <2>2. CASE used = 0
    <3>1. Used' = Used BY <1>2, <2>2 DEF Used
    <3> QED BY <1>3, <2>2, <3>1
  <2> QED BY <2>1, <2>2
<1>5. CASE state = "reserved" /\ ledger[t].state # "reserved"
  <2>1. Held' = Held \cup {t} /\ t \notin Held BY <1>2, <1>5 DEF Held
  <2>2. Cardinality(Held') = Cardinality(Held) + 1 BY <1>1, <2>1, FS_AddElement
  <2> QED BY <1>3, <1>4, <1>5, <2>2
<1>6. CASE state = "settled" /\ ledger[t].state = "reserved"
  <2>1. Held' = Held \ {t} /\ t \in Held BY <1>2, <1>6 DEF Held
  <2>2. Cardinality(Held') = Cardinality(Held) - 1 BY <1>1, <2>1, FS_RemoveElement
  <2> QED BY <1>3, <1>4, <1>6, <2>2
<1>7. CASE (state = "reserved") <=> (ledger[t].state = "reserved")
  <2>1. Held' = Held BY <1>2, <1>7 DEF Held
  <2> QED BY <1>3, <1>4, <1>7, <2>1
<1> QED BY <1>5, <1>6, <1>7

\* The ledger and its counters stay together in every step of the budget.
LEMMA LedgerStep == ASSUME BudgetTyped, LedgerInv, BudgetStep PROVE LedgerInv'
<1> USE DEF BudgetTyped
<1>1. ledger \in [Token -> Entry] /\ raced \in BOOLEAN /\ committed \in Int /\ reserved \in Int
  BY BudgetAssumption DEF BudgetTypeOK
<1>2. ASSUME NEW t \in Token, NEW state \in {"reserved", "settled"}, NEW used \in {0, 1},
             Enter(t, state, used), state # "settled" => used = 0
      PROVE  \A r \in Token : ledger'[r].state # "settled" => ledger'[r].used = 0
  BY <1>1, <1>2 DEF Enter, LedgerInv
<1>3. ASSUME NEW t \in Token, Charge(t) PROVE LedgerInv'
  <2>1. CASE ledger[t].state = "settled" BY <1>3, <2>1 DEF Charge, budgetVars, LedgerInv, Used, Held
  <2>2. CASE ledger[t].state # "settled"
    <3>1. /\ Enter(t, "settled", 1) /\ ledger[t].used = 0 /\ ledger[t].state = "none"
          /\ committed' = committed + 1 /\ UNCHANGED <<reserved, raced>>
      BY <1>3, <2>2 DEF Charge, LedgerInv
    <3> QED BY <1>1, <1>2, <3>1, Entered DEF LedgerInv
  <2> QED BY <2>1, <2>2
<1>4. ASSUME NEW t \in Token, Reserve(t) PROVE LedgerInv'
  <2>1. /\ Enter(t, "reserved", 0) /\ ledger[t].used = 0 /\ ledger[t].state = "none"
        /\ reserved' = reserved + 1 /\ UNCHANGED <<committed, raced>>
    BY <1>4 DEF Reserve, LedgerInv
  <2> QED BY <1>1, <1>2, <2>1, Entered DEF LedgerInv
<1>5. ASSUME NEW t \in Token, Reconcile(t) PROVE LedgerInv'
  <2>1. /\ Enter(t, "settled", 0) /\ ledger[t].used = 0 /\ ledger[t].state = "reserved"
        /\ reserved' = reserved - 1 /\ UNCHANGED <<committed, raced>>
    BY <1>5 DEF Reconcile, LedgerInv
  <2> QED BY <1>1, <1>2, <2>1, Entered DEF LedgerInv
<1>6. ASSUME NEW s \in Settler, Settle(s) PROVE LedgerInv'
  <2> DEFINE t == settler[s].token
             used == settler[s].used
  <2>1. t \in Token /\ used \in {0, 1} BY DEF BudgetTypeOK
  <2>2. CASE ~(reserved > 0 /\ committed + reserved - 1 + used <= Limit)
    BY <1>6, <2>2 DEF Settle, LedgerInv, Used, Held
  <2>3. CASE reserved > 0 /\ committed + reserved - 1 + used <= Limit
    <3>1. committed' = committed + used /\ reserved' = reserved - 1 /\ EnterSettled(t, used)
      BY <1>6, <2>3 DEF Settle
    <3>2. CASE ledger[t].state = "reserved"
      <4>1. Enter(t, "settled", used) /\ ledger[t].used = 0 /\ (raced' <=> raced)
        BY <2>1, <3>1, <3>2 DEF EnterSettled, LedgerInv
      <4> QED BY <1>1, <1>2, <2>1, <3>1, <3>2, <4>1, Entered DEF LedgerInv
    <3>3. CASE ledger[t].state # "reserved"
      BY <3>1, <3>3 DEF EnterSettled, LedgerInv
    <3> QED BY <3>2, <3>3
  <2> QED BY <2>2, <2>3
<1>7. CASE UNCHANGED <<ledger, committed, reserved, raced>> BY <1>7 DEF LedgerInv, Used, Held
<1> QED BY <1>3, <1>4, <1>5, <1>6, <1>7 DEF BudgetStep, BudgetNext, ReadReservation, budgetVars

\* Every step of the system is one of the budget, or leaves it alone.
LEMMA NextIsBudgetStep == TypedInv /\ [Next]_vars => BudgetStep
<1> SUFFICES ASSUME TypedInv, [Next]_vars PROVE BudgetStep OBVIOUS
<1>1. CASE UNCHANGED vars \/ JobStep \/ LeaseExpires \/ ReviseGoal \/ EndRun
  BY <1>1 DEF vars, JobStep, LeaseExpires, ReviseGoal, EndRun, BudgetStep
<1>2. ASSUME NEW w \in Worker, Claim(w) \/ Heartbeat(w) \/ WorkerDies(w) \/ WorkerStep(w)
      PROVE  BudgetStep
  BY <1>2, WorkerTypes DEF TypedInv
<1>3. ASSUME NEW w \in Worker, NEW c \in Call, CallStep(w, c) PROVE BudgetStep
  BY <1>3, CallTypes DEF TypedInv
<1>4. ASSUME NEW t \in Token, Spend(t) \/ Reap(t) PROVE BudgetStep
  BY <1>4 DEF Spend, Reap, BudgetStep, BudgetNext
<1>5. ASSUME NEW s \in Settler, SettleStep(s) PROVE BudgetStep
  BY <1>5 DEF SettleStep, BudgetStep, BudgetNext
<1> QED BY <1>1, <1>2, <1>3, <1>4, <1>5 DEF Next

\* The types are invariant.
LEMMA TypedAlways == Spec => []TypedInv
  BY TypedInit, TypedStep, PTL DEF Spec

\* An orchestration is a client of the budget: whatever its workers, its calls
\* and the other clients of the root run do is a step of the budget, or none.
THEOREM OrchestrationImplementsBudget == Spec => BudgetSpec
<1>1. Init => BudgetInit BY DEF Init
<1>2. TypedInv /\ [Next]_vars => [BudgetNext]_budgetVars
  BY NextIsBudgetStep DEF BudgetStep
<1> QED BY <1>1, <1>2, TypedAlways, PTL DEF Spec, BudgetSpec

\* The committed and the reserved counter of the root run's budget are what its
\* ledger of reservations adds up to, whoever its clients are, for any number of
\* tokens and concurrent settle() calls, as long as none was counted for a row it
\* did not write.
THEOREM BudgetAlwaysExact == BudgetSpec => []BudgetExact
<1>1. BudgetInit => BudgetTyped /\ LedgerInv
  <2> SUFFICES ASSUME BudgetInit PROVE BudgetTyped /\ LedgerInv OBVIOUS
  <2>1. \A t \in Token : ledger[t].used = 0 /\ ledger[t].state = "none"
    BY DEF BudgetInit
  <2>2. Used = {} /\ Held = {} BY <2>1 DEF Used, Held
  <2>3. committed = 0 /\ reserved = 0 BY DEF BudgetInit
  <2>4. LedgerInv BY <2>1, <2>2, <2>3, FS_EmptySet DEF LedgerInv
  <2>5. BudgetTyped
    <3>1. 0 \in 0..Limit /\ 0 + 0 <= Limit BY BudgetAssumption
    <3> QED BY <3>1, SomeToken DEF BudgetInit, BudgetTyped, BudgetTypeOK, Entry, Idle
  <2> QED BY <2>4, <2>5
<1>2. BudgetTyped /\ LedgerInv /\ [BudgetNext]_budgetVars => (BudgetTyped /\ LedgerInv)'
  BY BudgetTypes, LedgerStep DEF BudgetStep
<1>3. LedgerInv => BudgetExact BY DEF LedgerInv, BudgetExact, Used, Held
<1> QED BY <1>1, <1>2, <1>3, PTL DEF BudgetSpec

\* So they are for an orchestration and whoever shares the root run with it.
THEOREM OrchestrationBudgetExact == Spec => []BudgetExact
  BY OrchestrationImplementsBudget, BudgetAlwaysExact, PTL

-----------------------------------------------------------------------------
(* The promise of the job *)

\* What has ended stays ended; the outbox row, and then the item, have the
\* outcome of the job and come after it.
PromiseInv ==
  /\ outcome # "none" <=> status \in Ended
  /\ outbox.state = "none" <=> outcome = "none"
  /\ outcome = "none" => outbox.tries = 0
  /\ outbox.what = outcome
  /\ inbox.what # "none" => inbox.what = outcome
  /\ inbox.state = "none" <=> inbox.what = "none"
  /\ \A p \in Publisher : publisher[p] # "idle" => outcome # "none"

Abiding == Told!Next \/ UNCHANGED Told!promiseVars

\* It holds when no job was created, and so does the promise.
LEMMA PromiseInit == JobInit => PromiseInv /\ Told!Init
<1> SUFFICES ASSUME JobInit PROVE PromiseInv /\ Told!Init OBVIOUS
<1>1. /\ status = "none" /\ outcome = "none" /\ inbox.what = "none" /\ inbox.state = "none"
      /\ outbox.state = "none" /\ outbox.what = "none" /\ outbox.tries = 0
      /\ \A p \in Publisher : publisher[p] = "idle"
  BY DEF JobInit, NoBox
<1>2. PromiseInv BY <1>1 DEF PromiseInv, Ended
<1>3. Told!Init BY <1>1, JobAssumption DEF Told!Init
<1> QED BY <1>2, <1>3

\* The end of the job, in whatever way, is the end the promise speaks of.
LEMMA EndPromise ==
  ASSUME JobTypeOK, PromiseInv, NEW o \in Ended, EndWith(o), status \in {"queued", "running"}
  PROVE  PromiseInv' /\ Abiding
<1>1. /\ outcome = "none" /\ outcome' = o /\ status' = o /\ UNCHANGED <<publisher, inbox>>
      /\ outbox'.state = "waiting" /\ outbox'.what = o /\ outbox'.tries = 0 /\ outbox.tries = 0
  BY DEF EndWith, NoBox, PromiseInv, Ended
<1>2. PromiseInv' BY <1>1 DEF PromiseInv, Ended
<1>3. Told!End(o)
  <2>1. inbox.what = "none" /\ status # "none" /\ o # "none" BY <1>1 DEF PromiseInv, Ended
  <2> QED BY <1>1, <2>1, JobAssumption DEF Told!End
<1> QED BY <1>2, <1>3 DEF Abiding, Told!Next

\* What changes none of the tables breaks no promise.
LEMMA SamePromise ==
  ASSUME JobTypeOK, PromiseInv, UNCHANGED <<status, outcome, outbox, publisher, inbox>>
  PROVE  PromiseInv' /\ Abiding
BY DEF PromiseInv, Abiding, Told!promiseVars

\* Publishers tell the outcome once, and try as often as they may.
LEMMA PublishPromise ==
  ASSUME JobTypeOK, PromiseInv, NEW p \in Publisher, PublishStep(p) \/ PublisherDies(p)
  PROVE  PromiseInv' /\ Abiding
<1>0. UNCHANGED <<status, outcome>>
  BY DEF PublishStep, PublisherDies, ClaimOutbox, Inject, CompleteOutbox, RetryOutbox, rowVars
<1>1. CASE ClaimOutbox(p)
  <2>1. /\ outcome # "none" /\ outbox'.state = "leased" /\ outbox'.tries = outbox.tries + 1
        /\ outbox'.what = outbox.what /\ UNCHANGED inbox /\ outbox.tries < MaxDeliver
        /\ publisher' = [publisher EXCEPT ![p] = "inject"]
    BY <1>1 DEF ClaimOutbox, PromiseInv, JobTypeOK, At
  <2>2. PromiseInv' BY <1>0, <2>1 DEF PromiseInv, JobTypeOK
  <2>3. outbox.tries # MaxDeliver BY <2>1, JobAssumption DEF JobTypeOK
  <2>4. CASE outbox'.tries = MaxDeliver
    <3>1. Told!GiveUp BY <1>0, <2>1, <2>4 DEF Told!GiveUp
    <3> QED BY <2>2, <3>1 DEF Abiding, Told!Next
  <2>5. CASE outbox'.tries # MaxDeliver
    <3>1. UNCHANGED Told!promiseVars
      <4>1. (outbox.tries = MaxDeliver)' <=> (outbox.tries = MaxDeliver) BY <2>3, <2>5
      <4> QED BY <1>0, <2>1, <4>1 DEF Told!promiseVars
    <3> QED BY <2>2, <3>1 DEF Abiding
  <2> QED BY <2>4, <2>5
<1>2. CASE Inject(p)
  <2>1. /\ outcome # "none" /\ UNCHANGED outbox
        /\ publisher' = [publisher EXCEPT ![p] = "complete"] \/ publisher' = [publisher EXCEPT ![p] = "retry"]
    BY <1>2 DEF Inject, PromiseInv, At
  <2>2. CASE inbox' = inbox
    BY <1>0, <2>1, <2>2 DEF PromiseInv, JobTypeOK, Abiding, Told!promiseVars
  <2>3. CASE inbox' # inbox
    <3>1. inbox.state = "none" /\ inbox' = [state |-> "open", what |-> outbox.what]
      BY <1>2, <2>3 DEF Inject
    <3>2. inbox.what = "none" /\ inbox'.state = "open" /\ inbox'.what = outcome
      BY <3>1 DEF PromiseInv
    <3>3. PromiseInv' BY <1>0, <2>1, <3>2 DEF PromiseInv, JobTypeOK
    <3>4. Told!Tell BY <1>0, <2>1, <3>2 DEF Told!Tell
    <3> QED BY <3>3, <3>4 DEF Abiding, Told!Next
  <2> QED BY <2>2, <2>3
<1>3. CASE CompleteOutbox(p) \/ RetryOutbox(p) \/ PublisherDies(p)
  <2>1. /\ UNCHANGED inbox /\ publisher[p] # "idle"
        /\ \E l \in {"idle", "retry"} : publisher' = [publisher EXCEPT ![p] = l]
    BY <1>3 DEF CompleteOutbox, RetryOutbox, PublisherDies, At
  <2>2. outbox'.what = outbox.what /\ outbox'.tries = outbox.tries
        /\ (outbox'.state = "none" <=> outbox.state = "none")
    BY ZenonT(30), <1>3 DEF CompleteOutbox, RetryOutbox, PublisherDies, OutboxHeld, JobTypeOK
  <2>3. PromiseInv' BY <1>0, <2>1, <2>2 DEF PromiseInv, JobTypeOK
  <2> QED BY <1>0, <2>1, <2>2, <2>3 DEF Abiding, Told!promiseVars
<1> QED BY <1>1, <1>2, <1>3 DEF PublishStep

\* An item is closed, once.
LEMMA ClosePromise ==
  ASSUME JobTypeOK, PromiseInv, NEW how \in {"consumed", "dismissed", "superseded"}, CloseItem(how)
  PROVE  PromiseInv' /\ Abiding
<1>1. /\ inbox.state = "open" /\ inbox'.state = how /\ inbox'.what = inbox.what
      /\ UNCHANGED <<status, outcome, outbox, publisher>>
  BY DEF CloseItem, rowVars, JobTypeOK
<1>2. PromiseInv' BY <1>1 DEF PromiseInv
<1>3. Told!Close BY <1>1 DEF Told!Close
<1> QED BY <1>2, <1>3 DEF Abiding, Told!Next

\* Every step of the job is a step of the promise or none.
LEMMA PromiseStep == ASSUME JobTypeOK, PromiseInv, [JobNext]_jobVars PROVE PromiseInv' /\ Abiding
<1>1. CASE Create
  <2>1. /\ status = "none" /\ status' = "queued" /\ UNCHANGED <<outcome, outbox, publisher, inbox>>
    BY <1>1 DEF Create, deliveryVars
  <2>2. PromiseInv' BY <2>1 DEF PromiseInv, Ended
  <2>3. Told!Ask BY <2>1 DEF Told!Ask
  <2> QED BY <2>2, <2>3 DEF Abiding, Told!Next
<1>2. CASE FailExpired BY <1>2, EndPromise DEF FailExpired, Ended
<1>3. CASE Cancel BY <1>3, EndPromise DEF Cancel, Ended
<1>4. CASE OutboxExpires
  <2>1. /\ UNCHANGED <<status, outcome, publisher, inbox>>
        /\ outbox'.what = outbox.what /\ outbox'.tries = outbox.tries /\ outbox'.state = outbox.state
    BY <1>4 DEF OutboxExpires, rowVars, JobTypeOK
  <2>2. PromiseInv' BY <2>1 DEF PromiseInv
  <2> QED BY <2>1, <2>2 DEF Abiding, Told!promiseVars
<1>5. ASSUME NEW w \in Worker, ClaimRow(w) PROVE PromiseInv' /\ Abiding
  <2>1. status \in {"queued", "running"} /\ status' = "running" /\ UNCHANGED <<outcome, outbox, publisher, inbox>>
    BY <1>5 DEF ClaimRow, deliveryVars
  <2>2. PromiseInv' BY <2>1 DEF PromiseInv, Ended
  <2> QED BY <2>1, <2>2 DEF Abiding, Told!promiseVars
<1>6. ASSUME NEW w \in Worker, NEW o \in {"completed", "failed"}, FinishRow(w, o) PROVE PromiseInv' /\ Abiding
  <2>1. CASE Holds(w) BY <1>6, <2>1, EndPromise DEF FinishRow, Holds, Ended
  <2>2. CASE ~Holds(w) BY <1>6, <2>2, SamePromise DEF FinishRow, rowVars, deliveryVars
  <2> QED BY <2>1, <2>2
<1>7. CASE UNCHANGED <<status, attempt, holder, outcome, deliveryVars>>
  BY <1>7, SamePromise DEF deliveryVars
<1>8. CASE UNCHANGED <<rowVars, deliveryVars>> \/ UNCHANGED jobVars
  BY <1>8, SamePromise DEF jobVars, rowVars, deliveryVars
<1> QED BY <1>1, <1>2, <1>3, <1>4, <1>5, <1>6, <1>7, <1>8, PublishPromise, ClosePromise DEF JobNext

\* The tables of a durable job implement the safety of the promise: one outcome,
\* given once to the inbox of the run and never reopened, for any number of
\* workers, publishers, deliveries and faults, and whatever its workers store.
THEOREM JobsPromise == JobSpec => Told!Safe
<1>1. JobInit => JobTypeOK BY JobInitTypes
<1>2. JobTypeOK /\ [JobNext]_jobVars => JobTypeOK'
  BY JobNextTypes DEF JobTypeOK, jobVars, rowVars, deliveryVars
<1>3. JobTypeOK /\ PromiseInv /\ [JobNext]_jobVars => PromiseInv' /\ [Told!Next]_Told!promiseVars
  BY PromiseStep DEF Abiding
<1> QED BY <1>1, <1>2, <1>3, PromiseInit, PTL DEF JobSpec, Told!Safe

\* Whatever an orchestration does, and the user and the clock beside it, is a
\* step of its job, or none.
THEOREM OrchestrationImplementsJobs == Spec => JobSpec
<1>1. Init => JobInit BY DEF Init
<1>2. [Next]_vars => [JobNext]_jobVars
  <2> SUFFICES ASSUME [Next]_vars PROVE JobNext \/ UNCHANGED jobVars OBVIOUS
  <2>1. CASE JobStep BY <2>1 DEF JobStep, JobNext
  <2>2. CASE LeaseExpires BY <2>2 DEF LeaseExpires, JobNext
  <2>3. CASE ReviseGoal BY <2>3 DEF ReviseGoal, JobNext
  <2>4. ASSUME NEW w \in Worker, Claim(w) PROVE JobNext BY <2>4 DEF Claim, JobNext
  <2>5. ASSUME NEW w \in Worker, Finish(w) PROVE JobNext BY <2>5 DEF Finish, JobNext
  <2>6. ASSUME NEW w \in Worker, WorkerDies(w) PROVE JobNext BY <2>6 DEF WorkerDies, JobNext
  <2>7. ASSUME NEW w \in Worker, Heartbeat(w) \/ Begin(w) \/ StepFails(w) \/ StepDone(w)
        PROVE  UNCHANGED jobVars
    BY <2>7 DEF Heartbeat, Begin, StepFails, StepDone
  <2>8. ASSUME NEW w \in Worker, NEW c \in Call, CallStep(w, c) PROVE JobNext \/ UNCHANGED jobVars
    BY <2>8 DEF CallStep, Check, ChargeCall, RunTool, EndTool, CheckAgain, JobNext, jobVars
  <2>9. CASE EndRun \/ UNCHANGED vars BY <2>9 DEF EndRun, vars
  <2> QED BY <2>1, <2>2, <2>3, <2>4, <2>5, <2>6, <2>7, <2>8, <2>9
          DEF Next, WorkerStep, Spend, Reap, SettleStep
<1> QED BY <1>1, <1>2, PTL DEF Spec, JobSpec

\* So an orchestration keeps the promise of its job.
THEOREM OrchestrationPromise == Spec => Told!Safe
  BY OrchestrationImplementsJobs, JobsPromise, PTL

=============================================================================
