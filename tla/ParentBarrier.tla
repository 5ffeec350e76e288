---------------------------- MODULE ParentBarrier ----------------------------
(***************************************************************************)
(* What Iris OS promises a run that delegates: it is suspended at numbered *)
(* checkpoints, a delegation checkpoint lets it go on only when every      *)
(* child it has delegated has been observed, each checkpoint is resumed at *)
(* most once, what has been observed of a child never changes, and an      *)
(* ended run stays ended.  It says nothing of leases, queues or locks.     *)
(***************************************************************************)
EXTENDS Naturals

CONSTANT Child

VARIABLES
  phase,     \* of the parent: "running", "suspended" or "ended"
  kind,      \* of its last checkpoint: "none", "delegation" or "goal"
  written,   \* checkpoints written
  resumed,   \* the last checkpoint resumed
  open,      \* children delegated and not yet observed
  closed     \* children observed

vars == <<phase, kind, written, resumed, open, closed>>

Init ==
  /\ phase = "running" /\ kind = "none"
  /\ written = 0 /\ resumed = 0
  /\ open = {} /\ closed = {}

Delegate(c) ==
  /\ phase # "ended"
  /\ c \notin open \cup closed
  /\ open' = open \cup {c}
  /\ UNCHANGED <<phase, kind, written, resumed, closed>>

Observe(S) ==
  /\ S # {} /\ S \subseteq open
  /\ open' = open \ S /\ closed' = closed \cup S
  /\ UNCHANGED <<phase, kind, written, resumed>>

Suspend(k) ==
  /\ phase = "running"
  /\ phase' = "suspended" /\ kind' = k /\ written' = written + 1
  /\ UNCHANGED <<resumed, open, closed>>

Resume ==
  /\ phase = "suspended" /\ resumed < written
  /\ kind = "delegation" => open = {}
  /\ phase' = "running" /\ resumed' = written
  /\ UNCHANGED <<kind, written, open, closed>>

\* The parent ends; a cancellation observes some of its children with it.
End(S) ==
  /\ phase # "ended" /\ phase' = "ended"
  /\ S \subseteq open
  /\ open' = open \ S /\ closed' = closed \cup S
  /\ UNCHANGED <<kind, written, resumed>>

Next ==
  \/ \E c \in Child : Delegate(c)
  \/ \E S \in SUBSET open : Observe(S) \/ End(S)
  \/ \E k \in {"delegation", "goal"} : Suspend(k)
  \/ Resume

Spec == Init /\ [][Next]_vars

=============================================================================
