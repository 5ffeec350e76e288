----------------------------- MODULE RootBudget -----------------------------
(***************************************************************************)
(* The budget of one root run and one kind: two counters in a row and the  *)
(* reservations behind them, in a ledger.  Every operation of the server's *)
(* budget authority is a transaction under the lock of the root run, with  *)
(* one exception: settle() reads the reservation before it has the lock.   *)
(*                                                                         *)
(* Amounts are 1; a reservation may be settled for less, which is 0, and   *)
(* then counts like one that is released.                                  *)
(***************************************************************************)
EXTENDS Naturals, FiniteSets

CONSTANTS
  Token,    \* tokens of reservations
  Settler,  \* settle() calls that may be under way at once
  Limit     \* the limit of the kind, e.g. max_tool_calls

ASSUME BudgetAssumption == IsFiniteSet(Token) /\ Limit \in Nat

VARIABLES
  ledger,     \* root_run_budget_reservation: is it settled, and for how much
  committed,  \* root_run_budget.committed_*
  reserved,   \* root_run_budget.reserved_*
  settler,    \* what a settle() has read
  raced       \* ghost: a settlement was counted for a row it did not write

budgetVars == <<ledger, committed, reserved, settler, raced>>

Entry == [state : {"none", "reserved", "settled"}, used : {0, 1}]
Idle == [pc |-> "idle", token |-> CHOOSE t \in Token : TRUE, used |-> 0]

BudgetTypeOK ==
  /\ ledger \in [Token -> Entry]
  /\ committed \in 0..Limit /\ reserved \in 0..Limit /\ raced \in BOOLEAN
  /\ settler \in [Settler -> [pc : {"idle", "write"}, token : Token, used : {0, 1}]]

BudgetInit ==
  /\ ledger = [t \in Token |-> [state |-> "none", used |-> 0]]
  /\ committed = 0 /\ reserved = 0 /\ raced = FALSE
  /\ settler = [s \in Settler |-> Idle]

Enter(t, state, used) == ledger' = [ledger EXCEPT ![t] = [state |-> state, used |-> used]]

\* A charge is counted and entered once: charged again it changes nothing.
Charge(t) ==
  IF ledger[t].state = "settled" THEN UNCHANGED budgetVars
  ELSE /\ ledger[t].state = "none" /\ committed + reserved + 1 <= Limit
       /\ Enter(t, "settled", 1) /\ committed' = committed + 1
       /\ UNCHANGED <<reserved, settler, raced>>

Reserve(t) ==
  /\ ledger[t].state = "none" /\ committed + reserved + 1 <= Limit
  /\ Enter(t, "reserved", 0) /\ reserved' = reserved + 1
  /\ UNCHANGED <<committed, settler, raced>>

\* settle reads a reservation, to commit one or none of it or to release it.
ReadReservation(s, t) ==
  /\ settler[s].pc = "idle" /\ ledger[t].state = "reserved"
  /\ \E used \in {0, 1} :
       settler' = [settler EXCEPT ![s] = [pc |-> "write", token |-> t, used |-> used]]
  /\ UNCHANGED <<ledger, committed, reserved, raced>>

\* The settlement of the row, if it is still reserved.
EnterSettled(t, used) ==
  /\ raced' = (raced \/ ledger[t].state # "reserved")
  /\ IF ledger[t].state = "reserved" THEN Enter(t, "settled", used) ELSE UNCHANGED ledger

SettlerDone(s) == settler' = [settler EXCEPT ![s] = Idle]

\* The promise stays counted.
SettleKeeps(s) ==                                                         \* mutant
  LET used == settler[s].used
  IN /\ settler[s].pc = "write" /\ SettlerDone(s)
     /\ IF committed + used <= Limit
        THEN /\ committed' = committed + used /\ UNCHANGED reserved
             /\ EnterSettled(settler[s].token, used)
        ELSE UNCHANGED <<ledger, committed, reserved, raced>>

\* No CHECK of the counters.
SettleUnchecked(s) ==                                                     \* mutant
  LET used == settler[s].used
  IN /\ settler[s].pc = "write" /\ SettlerDone(s)
     /\ committed' = committed + used /\ reserved' = reserved - 1
     /\ EnterSettled(settler[s].token, used)

\* settle under the lock: the counters are written in any case, the row only if
\* it is still reserved.  The CHECK of the counters may refuse both.
Settle(s) ==
  LET used == settler[s].used
  IN /\ settler[s].pc = "write" /\ SettlerDone(s)
     /\ IF reserved > 0 /\ committed + reserved - 1 + used <= Limit
        THEN /\ committed' = committed + used /\ reserved' = reserved - 1
             /\ EnterSettled(settler[s].token, used)
        ELSE UNCHANGED <<ledger, committed, reserved, raced>>

\* reconcileExpiredReservations, for a reservation it finds expired and, once it
\* has the lock, still reserved and its run ended.
Reconcile(t) ==
  /\ ledger[t].state = "reserved" /\ reserved > 0
  /\ Enter(t, "settled", 0) /\ reserved' = reserved - 1
  /\ UNCHANGED <<committed, settler, raced>>

\* The budget by itself: its clients charge, promise and settle at any time.
BudgetNext ==
  \/ \E t \in Token : Charge(t) \/ Reserve(t) \/ Reconcile(t)
  \/ \E s \in Settler : Settle(s) \/ \E t \in Token : ReadReservation(s, t)
BudgetSpec == BudgetInit /\ [][BudgetNext]_budgetVars

-----------------------------------------------------------------------------
(* Properties *)

\* The counters are what the ledger says, however charges, reservations,
\* settlements and the reaper interleave, unless a settlement was counted on
\* what it had read before it had the lock.
BudgetExact ==
  raced \/ /\ committed = Cardinality({t \in Token : ledger[t].used = 1})
           /\ reserved = Cardinality({t \in Token : ledger[t].state = "reserved"})

=============================================================================
