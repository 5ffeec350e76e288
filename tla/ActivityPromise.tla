--------------------------- MODULE ActivityPromise ---------------------------
(***************************************************************************)
(* What a durable job promises the run that asks for it: it ends, once,    *)
(* with one outcome; that outcome, and no other, is put once into the      *)
(* inbox of the run; and it is put there, unless its delivery is given up. *)
(***************************************************************************)
CONSTANTS Outcome, None

VARIABLES
  asked,    \* the job was asked for
  outcome,  \* how it ended
  told,     \* the outcome the inbox was given
  open,     \* the item of the inbox waits to be read
  givenUp   \* the delivery may be given up

promiseVars == <<asked, outcome, told, open, givenUp>>

Init == ~asked /\ outcome = None /\ told = None /\ ~open /\ ~givenUp

Ask == ~asked /\ asked' = TRUE /\ UNCHANGED <<outcome, told, open, givenUp>>
End(o) == /\ asked /\ outcome = None
          /\ outcome' = o /\ UNCHANGED <<asked, told, open, givenUp>>
Tell == /\ told = None /\ outcome # None
        /\ told' = outcome /\ open' = TRUE /\ UNCHANGED <<asked, outcome, givenUp>>
Close == open /\ open' = FALSE /\ UNCHANGED <<asked, outcome, told, givenUp>>
GiveUp == outcome # None /\ givenUp' = TRUE /\ UNCHANGED <<asked, outcome, told, open>>

Next == Ask \/ (\E o \in Outcome : End(o)) \/ Tell \/ Close \/ GiveUp

Safe == Init /\ [][Next]_promiseVars
Spec == Safe /\ (asked ~> told # None \/ givenUp)

=============================================================================
