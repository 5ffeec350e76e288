------------------------- MODULE OrchestrationSafety -------------------------
(***************************************************************************)
(* What the calls of a plan keep: the exclusion and the bound of their     *)
(* session, one execution of each, their order, and the limit of the       *)
(* budget.  Rests on the types and the ledger of OrchestrationProofs.      *)
(***************************************************************************)
EXTENDS OrchestrationProofs

-----------------------------------------------------------------------------
(* The scheduler session *)

LiveIn(cs) == {c \in Call : cs[c] \in Live}

\* What a pump() relies on and restores, of a session that stands at cs with the
\* queue q, n active calls, and an exclusive one if x: the queue has no call
\* twice and only waiting ones, the counters count the calls at work, and one
\* that writes is alone.
Sound(q, n, x, cs) ==
  /\ \A i, j \in 1..Len(q) : q[i] = q[j] => i = j
  /\ \A i \in 1..Len(q) : cs[q[i]] = "pending"
  /\ n = Cardinality(LiveIn(cs)) /\ n <= MaxParallel
  /\ x <=> LiveIn(cs) \cap Exclusive # {}
  /\ \A c \in LiveIn(cs) \cap Exclusive : LiveIn(cs) = {c}

SessionInv(w) == Sound(pending[w], active[w], exclusiveActive[w], call[w])

\* Calls are finitely many.
LEMMA FiniteCalls == IsFiniteSet(Call) /\ \A S \in SUBSET Call : IsFiniteSet(S) /\ Cardinality(S) \in Nat
<1>1. IsFiniteSet(Call) BY PlanAssumption, BudgetAssumption, FS_Subset
<1> QED BY <1>1, FS_Subset, FS_CardinalityType

\* The first m calls of a queue that has no call twice are m.
LEMMA Taken ==
  ASSUME NEW q \in Seq(Call), NEW m \in 0..Len(q), \A i, j \in 1..Len(q) : q[i] = q[j] => i = j
  PROVE  Cardinality({q[i] : i \in 1..m}) = m
<1> DEFINE T == {q[i] : i \in 1..m}
           f == [i \in 1..m |-> q[i]]
<1>1. f \in Surjection(1..m, T) BY DEF Surjection
<1>2. f \in Injection(1..m, T) BY DEF Injection, IsInjective
<1>3. IsFiniteSet(1..m) /\ Cardinality(1..m) = m
  <2>1. m \in Int /\ 1 \in Int /\ (1 > m => m = 0) OBVIOUS
  <2> QED BY <2>1, FS_Interval
<1> QED BY <1>1, <1>2, <1>3, FS_Surjection

\* A pump() leaves a sound session sound.
LEMMA PumpSound ==
  ASSUME PlanTyped, NEW w \in Worker, NEW q \in Seq(Call), NEW n \in Int, NEW x \in BOOLEAN,
         NEW cs \in [Call -> CallState], Sound(q, n, x, cs), Pump(w, q, n, x, cs)
  PROVE  SessionInv(w)'
<1>1. PICK m \in Admits(w, q, n, x) :
        LET taken == {q[i] : i \in 1..m}
            admitted == IF aborted[w] THEN {} ELSE taken
        IN /\ pending' = [pending EXCEPT ![w] = SubSeq(q, m + 1, Len(q))]
           /\ call' = [call EXCEPT ![w] = [c \in Call |->
                IF c \in admitted THEN "admitted" ELSE IF c \in taken THEN "rejected" ELSE cs[c]]]
           /\ active' = [active EXCEPT ![w] = IF aborted[w] THEN n ELSE n + m]
           /\ exclusiveActive' = [exclusiveActive EXCEPT ![w] = x \/ admitted \cap Exclusive # {}]
  BY DEF Pump
<1> DEFINE taken == {q[i] : i \in 1..m}
           admitted == IF aborted[w] THEN {} ELSE taken
           R == LiveIn(cs)
<1>2. m \in 0..Len(q) /\ Len(q) \in Nat
  <2>1. Len(q) \in Nat /\ (q # <<>> => Len(q) > 0) OBVIOUS
  <2>2. m \in {0, Len(q)} \/ (q # <<>> /\ m = 1) \/ m \in Parallel(q, ~aborted[w], MaxParallel - n)
    BY DEF Admits
  <2> QED BY <2>1, <2>2 DEF Parallel
<1>3. \A i \in 1..Len(q) : q[i] \in Call OBVIOUS
<1>4. taken \subseteq Call /\ \A c \in taken : cs[c] = "pending"
  BY <1>2, <1>3 DEF Sound
<1>5. taken \cap R = {} BY <1>4 DEF LiveIn, Live
<1>6. /\ pending'[w] = SubSeq(q, m + 1, Len(q))
      /\ active'[w] = IF aborted[w] THEN n ELSE n + m
      /\ exclusiveActive'[w] = (x \/ admitted \cap Exclusive # {})
      /\ \A c \in Call : call'[w][c] =
           IF c \in admitted THEN "admitted" ELSE IF c \in taken THEN "rejected" ELSE cs[c]
  BY <1>1 DEF PlanTyped
<1>7. LiveIn(call'[w]) = R \cup admitted
  <2>1. "admitted" \in Live /\ "rejected" \notin Live BY DEF Live
  <2> QED BY <1>4, <1>5, <1>6, <2>1 DEF LiveIn
<1>8. LET p == pending'[w]
      IN /\ \A i, j \in 1..Len(p) : p[i] = p[j] => i = j
         /\ \A i \in 1..Len(p) : call'[w][p[i]] = "pending"
  <2>0. PICK p : p = SubSeq(q, m + 1, Len(q)) OBVIOUS
  <2>1. Len(p) = Len(q) - m /\ \A i \in 1..Len(p) : p[i] = q[m + i] /\ m + i \in 1..Len(q)
    BY <1>2, <2>0
  <2>2. \A i \in 1..Len(p) : p[i] \notin taken
    BY <1>2, <2>1 DEF Sound
  <2>3. \A i \in 1..Len(p) : call'[w][p[i]] = "pending"
    BY <1>3, <1>6, <2>1, <2>2 DEF Sound
  <2>4. \A i, j \in 1..Len(p) : p[i] = p[j] => i = j
    <3> SUFFICES ASSUME NEW i \in 1..Len(p), NEW j \in 1..Len(p), p[i] = p[j] PROVE i = j OBVIOUS
    <3>1. q[m + i] = q[m + j] /\ m + i \in 1..Len(q) /\ m + j \in 1..Len(q) BY <2>1
    <3>2. m + i = m + j BY <3>1 DEF Sound
    <3> QED BY <1>2, <2>1, <3>2
  <2> QED BY <1>6, <2>0, <2>3, <2>4
<1>9. CASE aborted[w] \/ m = 0
  <2>1. admitted = {} /\ active'[w] = n /\ exclusiveActive'[w] = x
    BY <1>2, <1>6, <1>9
  <2>2. LiveIn(call'[w]) = R BY <1>7, <2>1
  <2> QED BY <1>6, <1>8, <2>1, <2>2 DEF SessionInv, Sound
<1>10. CASE ~aborted[w] /\ m # 0
  <2>1. admitted = taken /\ active'[w] = n + m BY <1>6, <1>10
  <2>2. ~x /\ q # <<>> /\ n < MaxParallel BY <1>10, PlanAssumption DEF Admits
  <2>3. R \cap Exclusive = {} BY <2>2 DEF Sound
  <2>4. Cardinality(R \cup taken) = n + m
    <3>1. R \subseteq Call BY DEF LiveIn
    <3>2. IsFiniteSet(R) /\ IsFiniteSet(taken) BY <1>4, <3>1, FiniteCalls
    <3>3. Cardinality(taken) = m BY <1>2, Taken DEF Sound
    <3>4. Cardinality(R \cap taken) = 0 BY <1>5, FS_EmptySet
    <3>5. Cardinality(R) = n BY DEF Sound
    <3>6. Cardinality(R \cup taken) = Cardinality(R) + Cardinality(taken) - Cardinality(R \cap taken)
      BY <3>2, FS_Union
    <3> QED BY <1>2, <3>3, <3>4, <3>5, <3>6
  <2>5. CASE q[1] \in Exclusive
    <3>1. n = 0 /\ m = 1 BY <1>10, <2>2, <2>5 DEF Admits
    <3>2. R = {}
      <4>1. R \subseteq Call BY DEF LiveIn
      <4> QED BY <3>1, <4>1, FiniteCalls, FS_EmptySet DEF Sound
    <3>3. taken = {q[1]} BY <3>1
    <3>4. exclusiveActive'[w] /\ LiveIn(call'[w]) = {q[1]}
      BY <1>6, <1>7, <2>1, <2>5, <3>2, <3>3
    <3>5. active'[w] = 1 /\ 1 <= MaxParallel BY <2>1, <3>1, PlanAssumption
    <3> QED BY <1>7, <1>8, <2>1, <2>4, <2>5, <3>1, <3>4, <3>5 DEF SessionInv, Sound
  <2>6. CASE q[1] \notin Exclusive
    <3>1. m \in Parallel(q, TRUE, MaxParallel - n) BY <1>10, <2>2, <2>6 DEF Admits
    <3>2. n + m <= MaxParallel /\ taken \cap Exclusive = {}
      BY <1>2, <3>1, PlanAssumption DEF Parallel
    <3>3. LiveIn(call'[w]) \cap Exclusive = {} BY <1>7, <2>1, <2>3, <3>2
    <3>4. exclusiveActive'[w] = FALSE BY <1>6, <2>1, <2>2, <3>2
    <3> QED BY <1>7, <1>8, <2>1, <2>4, <3>2, <3>3, <3>4 DEF SessionInv, Sound
  <2> QED BY <2>5, <2>6
<1> QED BY <1>9, <1>10

\* A pump() moves only calls that wait, and only those of its session.
LEMMA PumpCalls ==
  ASSUME PlanTyped, NEW w \in Worker, NEW q \in Seq(Call), NEW n \in Int, NEW x \in BOOLEAN,
         NEW cs \in [Call -> CallState], Sound(q, n, x, cs), Pump(w, q, n, x, cs)
  PROVE  \A d \in Call : \/ call'[w][d] = cs[d]
                         \/ cs[d] = "pending" /\ call'[w][d] \in {"admitted", "rejected"}
<1>1. PICK m \in Admits(w, q, n, x) :
        LET taken == {q[i] : i \in 1..m}
            admitted == IF aborted[w] THEN {} ELSE taken
        IN call' = [call EXCEPT ![w] = [c \in Call |->
                IF c \in admitted THEN "admitted" ELSE IF c \in taken THEN "rejected" ELSE cs[c]]]
  BY DEF Pump
<1>2. m \in 0..Len(q) /\ Len(q) \in Nat
  <2>1. Len(q) \in Nat /\ (q # <<>> => Len(q) > 0) OBVIOUS
  <2>2. m \in {0, Len(q)} \/ (q # <<>> /\ m = 1) \/ m \in Parallel(q, ~aborted[w], MaxParallel - n)
    BY DEF Admits
  <2> QED BY <2>1, <2>2 DEF Parallel
<1>3. \A c \in {q[i] : i \in 1..m} : cs[c] = "pending" BY <1>2 DEF Sound
<1> QED BY <1>1, <1>3 DEF PlanTyped

\* What one worker's session does is nothing to another's.
LEMMA OtherSession ==
  ASSUME PlanTyped, NEW w \in Worker, NEW v \in Worker, v # w,
         \/ NewSession(w)
         \/ \E c \in Call, how \in CallState : Moves(w, c, how)
         \/ \E q, n, x, cs : Pump(w, q, n, x, cs)
  PROVE  /\ call'[v] = call[v] /\ pending'[v] = pending[v] /\ active'[v] = active[v]
         /\ exclusiveActive'[v] = exclusiveActive[v]
<1>1. CASE NewSession(w) BY <1>1 DEF NewSession, PlanTyped
<1>2. CASE \E c \in Call, how \in CallState : Moves(w, c, how) BY <1>2 DEF Moves, PlanTyped
<1>3. ASSUME NEW q, NEW n, NEW x, NEW cs, Pump(w, q, n, x, cs)
      PROVE  /\ call'[v] = call[v] /\ pending'[v] = pending[v] /\ active'[v] = active[v]
             /\ exclusiveActive'[v] = exclusiveActive[v]
  BY <1>3 DEF Pump, PlanTyped
<1> QED BY <1>1, <1>2, <1>3

\* A call that moves on, at work or not as before, leaves its session sound.
LEMMA MovesSound ==
  ASSUME PlanTyped, NEW w \in Worker, SessionInv(w), NEW c \in Call, NEW how \in CallState,
         Moves(w, c, how), call[w][c] # "pending", call[w][c] \in Live <=> how \in Live
  PROVE  SessionInv(w)'
<1>1. /\ pending'[w] = pending[w] /\ active'[w] = active[w] /\ exclusiveActive'[w] = exclusiveActive[w]
      /\ \A d \in Call : call'[w][d] = IF d = c THEN how ELSE call[w][d]
  BY DEF Moves, PlanTyped
<1>2. LiveIn(call'[w]) = LiveIn(call[w]) BY <1>1 DEF LiveIn
<1>3. \A i \in 1..Len(pending[w]) : call'[w][pending[w][i]] = "pending"
  <2>1. \A i \in 1..Len(pending[w]) : pending[w][i] \in Call BY DEF PlanTyped
  <2> QED BY <1>1, <2>1 DEF SessionInv, Sound
<1> QED BY <1>1, <1>2, <1>3 DEF SessionInv, Sound

\* So does one that ends, and with the pump() that follows moves only itself and
\* calls that wait.
LEMMA EndsSound ==
  ASSUME PlanTyped, NEW w \in Worker, SessionInv(w), NEW c \in Call, NEW how \in {"ended", "rejected"},
         Ends(w, c, how), call[w][c] \in Live
  PROVE  /\ SessionInv(w)'
         /\ \A d \in Call : \/ call'[w][d] = IF d = c THEN how ELSE call[w][d]
                            \/ call[w][d] = "pending" /\ call'[w][d] \in {"admitted", "rejected"}
<1> DEFINE q == pending[w]
           n == active[w] - 1
           x == exclusiveActive[w] /\ c \notin Exclusive
           cs == [call[w] EXCEPT ![c] = how]
<1>1. q \in Seq(Call) /\ n \in Int /\ x \in BOOLEAN /\ cs \in [Call -> CallState]
  BY DEF PlanTyped, CallState
<1>2. LiveIn(cs) = LiveIn(call[w]) \ {c} /\ c \in LiveIn(call[w])
  BY DEF LiveIn, Live, PlanTyped
<1>3. n = Cardinality(LiveIn(cs)) /\ n <= MaxParallel
  <2>1. IsFiniteSet(LiveIn(call[w])) /\ Cardinality(LiveIn(call[w])) \in Nat
    <3>1. LiveIn(call[w]) \subseteq Call BY DEF LiveIn
    <3> QED BY <3>1, FiniteCalls
  <2>2. Cardinality(LiveIn(cs)) = Cardinality(LiveIn(call[w])) - 1
    BY <1>2, <2>1, FS_RemoveElement
  <2>3. active[w] = Cardinality(LiveIn(call[w])) /\ active[w] <= MaxParallel
    BY DEF SessionInv, Sound
  <2> QED BY <2>1, <2>2, <2>3, PlanAssumption
<1>4. x <=> LiveIn(cs) \cap Exclusive # {}
  <2>1. CASE c \in Exclusive
    <3>1. LiveIn(call[w]) = {c} BY <1>2, <2>1 DEF SessionInv, Sound
    <3> QED BY <1>2, <2>1, <3>1
  <2>2. CASE c \notin Exclusive BY <1>2, <2>2 DEF SessionInv, Sound
  <2> QED BY <2>1, <2>2
<1>5. \A d \in LiveIn(cs) \cap Exclusive : LiveIn(cs) = {d}
  BY <1>2 DEF SessionInv, Sound
<1>6. \A i, j \in 1..Len(q) : q[i] = q[j] => i = j BY DEF SessionInv, Sound
<1>7. \A i \in 1..Len(q) : cs[q[i]] = "pending"
  <2>1. \A i \in 1..Len(q) : q[i] \in Call /\ call[w][q[i]] = "pending"
    BY DEF PlanTyped, SessionInv, Sound
  <2>2. "pending" \notin Live BY DEF Live
  <2> QED BY <2>1, <2>2 DEF PlanTyped
<1>8. Sound(q, n, x, cs) BY <1>3, <1>4, <1>5, <1>6, <1>7 DEF Sound
<1>9. Pump(w, q, n, x, cs) BY DEF Ends
<1>10. SessionInv(w)' /\ \A d \in Call : \/ call'[w][d] = cs[d]
                                         \/ cs[d] = "pending" /\ call'[w][d] \in {"admitted", "rejected"}
  <2> HIDE DEF q, n, x, cs
  <2> QED BY <1>1, <1>8, <1>9, PumpSound, PumpCalls
<1>11. \A d \in Call : cs[d] = IF d = c THEN how ELSE call[w][d] BY DEF PlanTyped
<1> QED BY <1>10, <1>11

\* And one that is admitted.
LEMMA AdmitSound ==
  ASSUME PlanTyped, NEW w \in Worker, SessionInv(w), NEW c \in Call, call[w][c] = "todo",
         Pump(w, Append(pending[w], c), active[w], exclusiveActive[w],
              [call[w] EXCEPT ![c] = "pending"])
  PROVE  /\ SessionInv(w)'
         /\ \A d \in Call : \/ call'[w][d] = IF d = c THEN "pending" ELSE call[w][d]
                            \/ /\ d = c \/ call[w][d] = "pending"
                               /\ call'[w][d] \in {"admitted", "rejected"}
<1> DEFINE q == Append(pending[w], c)
           cs == [call[w] EXCEPT ![c] = "pending"]
<1>1. /\ q \in Seq(Call) /\ active[w] \in Int /\ exclusiveActive[w] \in BOOLEAN
      /\ cs \in [Call -> CallState] /\ pending[w] \in Seq(Call)
  BY DEF PlanTyped, CallState
<1>2. LiveIn(cs) = LiveIn(call[w]) BY DEF LiveIn, Live, PlanTyped
<1>3. \A i \in 1..Len(pending[w]) : pending[w][i] \in Call /\ call[w][pending[w][i]] = "pending"
  BY <1>1 DEF SessionInv, Sound
<1>4. /\ Len(q) = Len(pending[w]) + 1 /\ q[Len(q)] = c
      /\ \A i \in 1..Len(pending[w]) : q[i] = pending[w][i]
  BY <1>1
<1>5. \A i \in 1..Len(q) : cs[q[i]] = "pending"
  BY <1>1, <1>3, <1>4 DEF PlanTyped
<1>6. \A i, j \in 1..Len(q) : q[i] = q[j] => i = j
  <2> SUFFICES ASSUME NEW i \in 1..Len(q), NEW j \in 1..Len(q), q[i] = q[j] PROVE i = j OBVIOUS
  <2>1. \A k \in 1..Len(q) : k \in 1..Len(pending[w]) \/ k = Len(q) BY <1>1, <1>4
  <2>2. \A k \in 1..Len(pending[w]) : q[k] # c BY <1>3, <1>4
  <2>3. CASE i \in 1..Len(pending[w]) /\ j \in 1..Len(pending[w])
    BY <1>4, <2>3 DEF SessionInv, Sound
  <2> QED BY <1>4, <2>1, <2>2, <2>3
<1>7. Sound(q, active[w], exclusiveActive[w], cs)
  BY <1>2, <1>5, <1>6 DEF SessionInv, Sound
<1>8. Pump(w, q, active[w], exclusiveActive[w], cs) OBVIOUS
<1>9. /\ SessionInv(w)'
      /\ \A d \in Call : \/ call'[w][d] = cs[d]
                         \/ cs[d] = "pending" /\ call'[w][d] \in {"admitted", "rejected"}
  <2> HIDE DEF q, cs
  <2> QED BY <1>1, <1>7, <1>8, PumpSound, PumpCalls
<1>10. \A d \in Call : cs[d] = IF d = c THEN "pending" ELSE call[w][d] BY DEF PlanTyped
<1> QED BY <1>9, <1>10

\* What a step of a call does to the states of the calls of its session.
Changes(w, c, how) ==
  \A d \in Call : \/ call'[w][d] = IF d = c THEN how ELSE call[w][d]
                  \/ call[w][d] = "pending" /\ call'[w][d] \in {"admitted", "rejected"}
                  \/ d = c /\ how = "pending" /\ call'[w][d] \in {"admitted", "rejected"}

\* A step of a call keeps its session sound and leaves the others alone; and the
\* call takes its next state, from the one it needs.
LEMMA CallSound ==
  ASSUME PlanTyped, NEW w \in Worker, SessionInv(w), NEW c \in Call, CallStep(w, c)
  PROVE  /\ SessionInv(w)'
         /\ \A v \in Worker \ {w} : /\ call'[v] = call[v] /\ pending'[v] = pending[v]
                                    /\ active'[v] = active[v]
                                    /\ exclusiveActive'[v] = exclusiveActive[v]
         /\ \/ /\ call[w][c] = "todo" /\ StepOf[c] = step[w] /\ UNCHANGED ran
               /\ \E how \in {"pending", "rejected"} : Changes(w, c, how)
            \/ /\ call[w][c] \in Live /\ UNCHANGED ran /\ Changes(w, c, "rejected")
            \/ /\ call[w][c] = "admitted" /\ UNCHANGED ran /\ Charge(c) /\ Changes(w, c, "charged")
            \/ /\ call[w][c] = "charged" /\ ran' = [ran EXCEPT ![c] = @ + 1]
               /\ Changes(w, c, "running")
            \/ /\ call[w][c] = "running" /\ UNCHANGED ran /\ Changes(w, c, "ended")
            \/ /\ call[w][c] = "ended" /\ UNCHANGED ran
               /\ \E how \in {"ok", "rejected"} : Changes(w, c, how)
<1>1. {"rejected", "charged", "running", "ended", "ok", "pending"} \subseteq CallState
  BY DEF CallState, Live
<1>2. /\ {"admitted", "charged", "running"} = Live
      /\ {"todo", "pending", "ended", "ok", "rejected"} \cap Live = {}
  BY DEF Live
<1>3. ASSUME NEW how \in CallState, Moves(w, c, how) PROVE Changes(w, c, how)
  BY <1>3 DEF Moves, Changes, PlanTyped
<1>4. ASSUME NEW how \in {"ended", "rejected"}, Ends(w, c, how), call[w][c] \in Live
      PROVE  SessionInv(w)' /\ Changes(w, c, how)
  BY <1>4, EndsSound DEF Changes
<1>5. \A v \in Worker \ {w} : /\ call'[v] = call[v] /\ pending'[v] = pending[v]
                              /\ active'[v] = active[v] /\ exclusiveActive'[v] = exclusiveActive[v]
  <2> SUFFICES ASSUME NEW v \in Worker \ {w}
               PROVE  /\ call'[v] = call[v] /\ pending'[v] = pending[v]
                      /\ active'[v] = active[v] /\ exclusiveActive'[v] = exclusiveActive[v]
    OBVIOUS
  <2>1. \/ \E d \in Call, how \in CallState : Moves(w, d, how)
        \/ \E q, n, x, cs : Pump(w, q, n, x, cs)
    BY <1>1 DEF CallStep, Check, ChargeCall, RunTool, EndTool, CheckAgain, Ends
  <2> QED BY <2>1, OtherSession
<1>6. CASE Check(w, c)
  <2>1. call[w][c] = "todo" /\ StepOf[c] = step[w] /\ UNCHANGED ran
    BY <1>6 DEF Check, Current
  <2>2. CASE Moves(w, c, "rejected")
    BY <1>1, <1>2, <1>3, <1>5, <2>1, <2>2, MovesSound
  <2>3. CASE Pump(w, Append(pending[w], c), active[w], exclusiveActive[w],
                  [call[w] EXCEPT ![c] = "pending"])
    <3>1. SessionInv(w)' /\ Changes(w, c, "pending") BY <2>1, <2>3, AdmitSound DEF Changes
    <3> QED BY <1>5, <2>1, <3>1
  <2> QED BY <1>6, <2>2, <2>3 DEF Check
<1>7. CASE ChargeCall(w, c)
  <2>1. call[w][c] = "admitted" /\ UNCHANGED ran BY <1>7 DEF ChargeCall
  <2>2. CASE Charge(c) /\ Moves(w, c, "charged")
    BY <1>1, <1>2, <1>3, <1>5, <2>1, <2>2, MovesSound
  <2>3. CASE Ends(w, c, "rejected") BY <1>2, <1>4, <1>5, <2>1, <2>3
  <2> QED BY <1>7, <2>2, <2>3 DEF ChargeCall
<1>8. CASE RunTool(w, c)
  <2>1. call[w][c] = "charged" BY <1>8 DEF RunTool
  <2>2. CASE Ends(w, c, "rejected") /\ UNCHANGED ran BY <1>2, <1>4, <1>5, <2>1, <2>2
  <2>3. CASE Moves(w, c, "running") /\ ran' = [ran EXCEPT ![c] = @ + 1]
    BY <1>1, <1>2, <1>3, <1>5, <2>1, <2>3, MovesSound
  <2> QED BY <1>8, <2>2, <2>3 DEF RunTool
<1>9. CASE EndTool(w, c)
  <2>1. call[w][c] = "running" /\ UNCHANGED ran BY <1>9 DEF EndTool
  <2>2. CASE Ends(w, c, "rejected") BY <1>2, <1>4, <1>5, <2>1, <2>2
  <2>3. CASE Ends(w, c, "ended") BY <1>2, <1>4, <1>5, <2>1, <2>3
  <2> QED BY <1>9, <2>2, <2>3 DEF EndTool
<1>10. CASE CheckAgain(w, c)
  <2>1. call[w][c] = "ended" /\ UNCHANGED ran /\ \E how \in {"ok", "rejected"} : Moves(w, c, how)
    BY <1>10 DEF CheckAgain
  <2> QED BY <1>1, <1>2, <1>3, <1>5, <2>1, MovesSound
<1> QED BY <1>6, <1>7, <1>8, <1>9, <1>10 DEF CallStep

-----------------------------------------------------------------------------
(* One execution of the job, and its plan *)

Busy(w) == at[w] # "idle" \/ step[w] # 0

\* There is one attempt and so one worker at it; a call it has not started has
\* not run, and one that has run its tool has run it once.
OwnerInv ==
  /\ attempt <= 1
  /\ attempt = 0 => (\A w \in Worker : ~Busy(w)) /\ (\A c \in Call : ran[c] = 0)
  /\ \A v, w \in Worker : Busy(v) /\ Busy(w) => v = w
  /\ \A w \in Worker : at[w] = "start" => step[w] = 0 /\ \A c \in Call : ran[c] = 0
  /\ \A w \in Worker, c \in Call :
       /\ step[w] = 0 => call[w][c] = "todo"
       /\ step[w] # 0 /\ call[w][c] \in {"todo", "pending", "admitted", "charged"} => ran[c] = 0
       /\ call[w][c] \in {"running", "ended", "ok"} => ran[c] = 1
  /\ \A c \in Call : ran[c] <= 1

\* A worker has run what comes before the step it is in, and everything when it
\* is about to complete the job.
OrderInv ==
  /\ \A w \in Worker, c \in Call :
       /\ StepOf[c] < step[w] => ran[c] = 1
       /\ call[w][c] # "todo" => StepOf[c] <= step[w]
       /\ at[w] = "completed" => ran[c] = 1
  /\ \A w \in Worker : at[w] = "run" => step[w] # 0
  /\ PlanKept

\* What a call has run was charged.
ChargedInv ==
  /\ \A c \in Call : \/ ledger[c].state = "none" /\ ran[c] = 0
                     \/ ledger[c].state = "settled" /\ ledger[c].used = 1
  /\ \A w \in Worker, c \in Call :
       call[w][c] \in {"charged", "running", "ended", "ok"} => ledger[c].state = "settled"

CallInv ==
  /\ TypedInv /\ LedgerInv /\ OwnerInv /\ OrderInv /\ ChargedInv
  /\ \A w \in Worker : SessionInv(w)

\* The order of the calls is kept by what runs the next one when the earlier ran.
LEMMA CallStepInv ==
  ASSUME CallInv, NEW w \in Worker, NEW c \in Call, CallStep(w, c)
  PROVE  OwnerInv' /\ OrderInv' /\ \A v \in Worker : SessionInv(v)'
<1> USE DEF CallInv
<1>0. PlanTyped /\ UNCHANGED <<at, step, attempt, outcome>>
  BY DEF TypedInv, Typed, CallStep, Check, ChargeCall, RunTool, EndTool, CheckAgain,
     jobVars, rowVars, workerVars
<1>1. SessionInv(w)' /\ \A v \in Worker \ {w} : SessionInv(v)'
  BY <1>0, CallSound DEF SessionInv
<1>2. \A v \in Worker \ {w} : call'[v] = call[v] BY <1>0, CallSound
<1>3. step[w] # 0 /\ StepOf[c] <= step[w] /\ attempt # 0 /\ at[w] # "start"
  <2>1. step[w] # 0
    <3>1. call[w][c] # "todo" \/ StepOf[c] = step[w] BY <1>0, CallSound DEF Live
    <3> QED BY <3>1, PlanAssumption DEF OwnerInv
  <2>2. StepOf[c] <= step[w]
    <3>1. call[w][c] # "todo" \/ StepOf[c] = step[w] BY <1>0, CallSound DEF Live
    <3> QED BY <1>0, <3>1, PlanAssumption DEF OrderInv
  <2> QED BY <2>1, <2>2 DEF OwnerInv, Busy
<1>4. \A v \in Worker \ {w} : ~Busy(v) BY <1>3 DEF OwnerInv, Busy
<1>5. CASE UNCHANGED ran
  <2>1. \A d \in Call : /\ call'[w][d] \in {"todo", "pending", "admitted", "charged"} => ran[d] = 0
                        /\ call'[w][d] \in {"running", "ended", "ok"} => ran[d] = 1
                        /\ call'[w][d] # "todo" => StepOf[d] <= step[w]
    <3> SUFFICES ASSUME NEW d \in Call
                 PROVE  /\ call'[w][d] \in {"todo", "pending", "admitted", "charged"} => ran[d] = 0
                        /\ call'[w][d] \in {"running", "ended", "ok"} => ran[d] = 1
                        /\ call'[w][d] # "todo" => StepOf[d] <= step[w]
      OBVIOUS
    <3>1. \/ d # c /\ call'[w][d] = call[w][d]
          \/ /\ call[w][d] = "pending" \/ (d = c /\ call[w][d] = "todo")
             /\ call'[w][d] \in {"admitted", "rejected", "pending"}
          \/ d = c /\ call'[w][d] = "rejected"
          \/ d = c /\ call[w][d] = "admitted" /\ call'[w][d] = "charged"
          \/ d = c /\ call[w][d] = "running" /\ call'[w][d] = "ended"
          \/ d = c /\ call[w][d] = "ended" /\ call'[w][d] = "ok"
      <4>1. ran' # [ran EXCEPT ![c] = @ + 1]
        <5>1. ran[c] \in Nat /\ [ran EXCEPT ![c] = @ + 1][c] = ran[c] + 1 BY <1>0 DEF PlanTyped
        <5> QED BY <1>5, <5>1
      <4> QED BY <1>0, <4>1, CallSound DEF Changes
    <3>2. d = c \/ call[w][d] # "todo" => StepOf[d] <= step[w] BY <1>3 DEF OrderInv
    <3>3. /\ call[w][d] \in {"todo", "pending", "admitted", "charged"} => ran[d] = 0
          /\ call[w][d] \in {"running", "ended", "ok"} => ran[d] = 1
      BY <1>3 DEF OwnerInv
    <3> QED BY <1>3, <3>1, <3>2, <3>3 DEF OrderInv
  <2>2. OwnerInv' BY <1>0, <1>2, <1>3, <1>4, <1>5, <2>1 DEF OwnerInv, Busy
  <2>3. OrderInv' BY <1>0, <1>2, <1>5, <2>1 DEF OrderInv, PlanKept
  <2> QED BY <1>1, <2>2, <2>3
<1>6. CASE ~UNCHANGED ran
  <2>1. /\ call[w][c] = "charged" /\ ran' = [ran EXCEPT ![c] = @ + 1] /\ Changes(w, c, "running")
    BY <1>0, <1>6, CallSound
  <2>2. ran[c] = 0 /\ \A d \in Call : ran'[d] = IF d = c THEN 1 ELSE ran[d]
    BY <1>0, <1>3, <2>1 DEF OwnerInv, PlanTyped
  <2>3. \A d \in Call : \/ d = c /\ call'[w][d] = "running"
                        \/ d # c /\ call'[w][d] = call[w][d]
                        \/ d # c /\ call[w][d] = "pending" /\ call'[w][d] \in {"admitted", "rejected"}
    BY <2>1 DEF Changes
  <2>4. OwnerInv'
    <3>1. \A d \in Call : /\ call'[w][d] \in {"todo", "pending", "admitted", "charged"} => ran'[d] = 0
                          /\ call'[w][d] \in {"running", "ended", "ok"} => ran'[d] = 1
      BY <1>3, <2>2, <2>3 DEF OwnerInv
    <3> QED BY <1>0, <1>2, <1>3, <1>4, <2>2, <3>1 DEF OwnerInv, Busy
  <2>5. OrderInv'
    <3>1. \A v \in Worker, d \in Call : call'[v][d] # "todo" => StepOf[d] <= step[v]
      BY <1>2, <1>3, <2>3 DEF OrderInv
    <3>2. outcome' = "completed" => \A d \in Call : ran'[d] = 1
      BY <1>0, <2>2 DEF OrderInv, PlanKept
    <3>3. \A d, e \in Call : StepOf[d] < StepOf[e] /\ ran'[e] > 0 => ran'[d] > 0
      <4> SUFFICES ASSUME NEW d \in Call, NEW e \in Call, StepOf[d] < StepOf[e], ran'[e] > 0
                   PROVE  ran'[d] > 0
        OBVIOUS
      <4>1. CASE e = c
        <5>1. StepOf[d] < step[w] BY <1>0, <1>3, <4>1, PlanAssumption DEF PlanTyped
        <5> QED BY <2>2, <5>1 DEF OrderInv
      <4>2. CASE e # c BY <2>2, <4>2 DEF OrderInv, PlanKept
      <4> QED BY <4>1, <4>2
    <3> QED BY <1>0, <2>2, <3>1, <3>2, <3>3 DEF OrderInv, PlanKept
  <2> QED BY <1>1, <2>4, <2>5
<1> QED BY <1>5, <1>6

\* What a worker does besides its calls keeps these invariants too.
LEMMA WorkerStepInv ==
  ASSUME CallInv, NEW w \in Worker, Claim(w) \/ Heartbeat(w) \/ WorkerDies(w) \/ WorkerStep(w)
  PROVE  OwnerInv' /\ OrderInv' /\ \A v \in Worker : SessionInv(v)'
<1> USE DEF CallInv
<1>0. PlanTyped /\ UNCHANGED ran
  BY DEF TypedInv, Typed, Claim, Heartbeat, WorkerDies, WorkerStep, Begin, StepFails, StepDone, Finish
<1>1. ASSUME NewSession(w) PROVE \A v \in Worker : SessionInv(v)'
  <2>1. SessionInv(w)'
    <3>1. /\ pending'[w] = <<>> /\ active'[w] = 0 /\ exclusiveActive'[w] = FALSE
          /\ \A c \in Call : call'[w][c] = "todo"
      BY <1>0, <1>1 DEF NewSession, PlanTyped
    <3>2. LiveIn(call'[w]) = {} BY <3>1 DEF LiveIn, Live
    <3>3. Cardinality({}) = 0 /\ 0 <= MaxParallel BY FS_EmptySet, PlanAssumption
    <3> QED BY <3>1, <3>2, <3>3 DEF SessionInv, Sound
  <2>2. \A v \in Worker \ {w} : SessionInv(v)' BY <1>0, <1>1, OtherSession DEF SessionInv
  <2> QED BY <2>1, <2>2
<1>2. ASSUME UNCHANGED sessionVars PROVE \A v \in Worker : SessionInv(v)'
  <2>1. UNCHANGED <<call, pending, active, exclusiveActive>> BY <1>2 DEF sessionVars
  <2> QED BY <2>1 DEF SessionInv
<1>3. CASE Claim(w)
  <2>1. /\ attempt = 0 /\ attempt' = 1 /\ outcome' = outcome
        /\ at' = [at EXCEPT ![w] = "start"] /\ step' = [step EXCEPT ![w] = 0] /\ NewSession(w)
    <3>1. attempt < 1 /\ attempt' = attempt + 1 /\ attempt \in Nat
      BY <1>3 DEF Claim, ClaimRow, MaxAttempts, TypedInv, Typed, JobTypeOK
    <3> QED BY <1>3, <3>1 DEF Claim, ClaimRow
  <2>2. \A c \in Call : ran'[c] = 0 BY <1>0, <2>1 DEF OwnerInv
  <2>3. \A v \in Worker : Busy(v)' <=> v = w BY <1>0, <2>1 DEF OwnerInv, Busy, PlanTyped
  <2>4. \A v \in Worker, c \in Call : call'[v][c] = "todo" /\ step'[v] = 0
    BY <1>0, <2>1 DEF OwnerInv, Busy, PlanTyped, NewSession
  <2>5. OwnerInv' BY <2>1, <2>2, <2>3, <2>4, PlanAssumption DEF OwnerInv
  <2>6. \A v \in Worker : at'[v] \in {"idle", "start"} BY <1>0, <2>1 DEF OwnerInv, Busy, PlanTyped
  <2>7. PlanKept' BY <1>0, <2>1 DEF OrderInv, PlanKept
  <2>8. OrderInv' BY <2>4, <2>6, <2>7, PlanAssumption DEF OrderInv
  <2> QED BY <1>1, <2>1, <2>5, <2>8
<1>4. CASE WorkerDies(w)
  <2>1. /\ UNCHANGED <<attempt, outcome>> /\ Busy(w) /\ NewSession(w)
        /\ at' = [at EXCEPT ![w] = "idle"] /\ step' = [step EXCEPT ![w] = 0]
    BY <1>4 DEF WorkerDies, rowVars, Busy
  <2>2. \A v \in Worker : ~Busy(v)' BY <1>0, <2>1 DEF OwnerInv, Busy, PlanTyped
  <2>3. \A v \in Worker, c \in Call : step'[v] = 0 /\ at'[v] = "idle" BY <2>2 DEF Busy
  <2>4. \A v \in Worker, c \in Call : call'[v][c] = "todo"
    BY <1>0, <2>1 DEF OwnerInv, Busy, PlanTyped, NewSession
  <2>5. OwnerInv' BY <1>0, <2>1, <2>2, <2>3, <2>4 DEF OwnerInv
  <2>6. OrderInv' BY <1>0, <2>1, <2>3, <2>4, PlanAssumption DEF OrderInv, PlanKept
  <2> QED BY <1>1, <2>1, <2>5, <2>6
<1>5. CASE Heartbeat(w)
  <2>1. UNCHANGED <<attempt, outcome, at, step, call, sessionVars>>
    BY <1>5 DEF Heartbeat, jobVars, rowVars, sessionVars
  <2>2. OwnerInv' BY <1>0, <2>1 DEF OwnerInv, Busy
  <2>3. OrderInv' BY <1>0, <2>1 DEF OrderInv, PlanKept
  <2> QED BY <1>2, <2>1, <2>2, <2>3
<1>6. CASE WorkerStep(w)
  <2>0. UNCHANGED <<call, sessionVars>>
    BY <1>6 DEF WorkerStep, Begin, StepFails, StepDone, Finish, sessionVars
  <2>1. /\ Busy(w) /\ attempt # 0 /\ \A v \in Worker \ {w} : ~Busy(v)
    <3>1. Busy(w) BY <1>6 DEF WorkerStep, Begin, StepFails, StepDone, Finish, Busy
    <3> QED BY <3>1 DEF OwnerInv
  <2>2. \A v \in Worker \ {w} : at'[v] = "idle" /\ step'[v] = 0
    BY <1>0, <1>6, <2>1
    DEF WorkerStep, Begin, StepFails, StepDone, Finish, Conclude, Busy, PlanTyped
  <2>3. attempt' = attempt /\ (outcome' = outcome \/ (outcome' = at[w] /\ at[w] \in {"completed", "failed"}))
    BY <1>6 DEF WorkerStep, Begin, StepFails, StepDone, Finish, FinishRow, EndWith, OwnerInv,
       jobVars, rowVars
  <2>4. /\ step[w] = 0 /\ step'[w] # 0 => at[w] = "start" /\ step'[w] = 1
        /\ at'[w] = "run" => step'[w] # 0
        /\ at'[w] # "start"
        /\ step[w] # 0 => step'[w] \in {step[w], step[w] + 1}
        /\ step[w] = 0 => step'[w] \in {0, 1}
    <3>0. step[w] \in Nat BY <1>0 DEF PlanTyped
    <3>1. CASE Begin(w)
      <4>1. at[w] = "start" /\ step[w] = 0 BY <3>1 DEF Begin, OwnerInv
      <4>2. \/ step'[w] = step[w] /\ at'[w] \in {"idle", "failed"}
            \/ step'[w] = 1 /\ at'[w] = "run"
        BY <1>0, <3>1 DEF Begin, Conclude, PlanTyped
      <4> QED BY <4>1, <4>2
    <3>2. CASE StepDone(w)
      <4>1. step[w] # 0 BY <3>2 DEF StepDone, OrderInv
      <4>2. \/ step'[w] = step[w] + 1 /\ at'[w] = "run"
            \/ step'[w] = step[w] /\ at'[w] = "completed"
        BY <1>0, <3>2 DEF StepDone, Conclude, PlanTyped
      <4> QED BY <3>0, <4>1, <4>2
    <3>3. CASE StepFails(w) \/ Finish(w)
      <4>1. step' = step /\ at'[w] \in {"idle", "failed"}
        BY <1>0, <3>3 DEF StepFails, Finish, Conclude, PlanTyped
      <4> QED BY <4>1
    <3> QED BY <1>6, <3>1, <3>2, <3>3 DEF WorkerStep
  <2>5. \A c \in Call : /\ StepOf[c] < step'[w] => ran[c] = 1
                        /\ at'[w] = "completed" => ran[c] = 1
    <3> SUFFICES ASSUME NEW c \in Call
                 PROVE  (StepOf[c] < step'[w] => ran[c] = 1) /\ (at'[w] = "completed" => ran[c] = 1)
      OBVIOUS
    <3>1. step[w] \in Nat /\ step[w] <= Steps /\ StepOf[c] \in Nat /\ StepOf[c] >= 1 /\ StepOf[c] <= Steps
      BY <1>0, PlanAssumption DEF PlanTyped
    <3>2. CASE Begin(w) \/ StepFails(w)
      <4>1. step'[w] \in {step[w], 1} /\ at'[w] # "completed"
        BY <1>0, <3>2 DEF Begin, StepFails, Conclude, PlanTyped
      <4> QED BY <3>1, <4>1 DEF OrderInv
    <3>3. CASE StepDone(w)
      <4>1. StepOf[c] <= step[w] => ran[c] = 1
        <5>1. CASE StepOf[c] = step[w]
          BY <3>3, <5>1 DEF StepDone, Current, OwnerInv
        <5>2. CASE StepOf[c] # step[w] BY <3>1, <5>2 DEF OrderInv
        <5> QED BY <5>1, <5>2
      <4>2. CASE step[w] < Steps
        <5>1. step'[w] = step[w] + 1 /\ at'[w] = "run" BY <1>0, <3>3, <4>2 DEF StepDone, PlanTyped
        <5> QED BY <3>1, <4>1, <5>1
      <4>3. CASE ~(step[w] < Steps)
        <5>1. step'[w] = step[w] BY <3>3, <4>3 DEF StepDone
        <5>2. step[w] = Steps BY <3>1, <4>3, PlanAssumption
        <5> QED BY <3>1, <4>1, <5>1, <5>2
      <4> QED BY <4>2, <4>3
    <3>4. CASE Finish(w)
      <4>1. step' = step /\ at'[w] # "completed" BY <1>0, <3>4 DEF Finish, Conclude, PlanTyped
      <4> QED BY <4>1 DEF OrderInv
    <3> QED BY <1>6, <3>2, <3>3, <3>4 DEF WorkerStep
  <2>6. OwnerInv'
    <3>1. \A c \in Call : /\ step'[w] = 0 => call[w][c] = "todo"
                          /\ step'[w] # 0 /\ call[w][c] \in {"todo", "pending", "admitted", "charged"} => ran[c] = 0
      <4>1. step'[w] = 0 => step[w] = 0 BY <1>0, <2>4 DEF PlanTyped
      <4> QED BY <2>4, <4>1 DEF OwnerInv
    <3>2. \A v \in Worker \ {w} : ~Busy(v)' BY <2>2 DEF Busy
    <3>3. \A v \in Worker \ {w}, c \in Call : call[v][c] = "todo" /\ step'[v] = 0
      BY <2>1, <2>2 DEF OwnerInv, Busy
    <3>4. \A u, v \in Worker : Busy(u)' /\ Busy(v)' => u = v BY <3>2
    <3>5. \A v \in Worker : at'[v] # "start" BY <2>2, <2>4
    <3>6. \A v \in Worker, c \in Call :
            /\ step'[v] = 0 => call'[v][c] = "todo"
            /\ step'[v] # 0 /\ call'[v][c] \in {"todo", "pending", "admitted", "charged"} => ran'[c] = 0
            /\ call'[v][c] \in {"running", "ended", "ok"} => ran'[c] = 1
      BY <1>0, <2>0, <3>1, <3>3 DEF OwnerInv
    <3> QED BY <1>0, <2>1, <2>3, <3>4, <3>5, <3>6 DEF OwnerInv
  <2>7. OrderInv'
    <3>1. \A c \in Call : call[w][c] # "todo" => StepOf[c] <= step'[w]
      <4> SUFFICES ASSUME NEW c \in Call, call[w][c] # "todo" PROVE StepOf[c] <= step'[w] OBVIOUS
      <4>1. step[w] # 0 /\ StepOf[c] <= step[w] BY DEF OwnerInv, OrderInv
      <4> QED BY <1>0, <2>4, <4>1, PlanAssumption DEF PlanTyped
    <3>2. \A v \in Worker \ {w}, c \in Call : call[v][c] = "todo" BY <2>1 DEF OwnerInv, Busy
    <3>3. PlanKept' BY <1>0, <2>3 DEF OrderInv, PlanKept
    <3> QED BY <1>0, <2>0, <2>2, <2>4, <2>5, <3>1, <3>2, <3>3, PlanAssumption DEF OrderInv
  <2> QED BY <1>2, <2>0, <2>6, <2>7
<1> QED BY <1>3, <1>4, <1>5, <1>6

\* What the job's tables, the clock, the user and the budget's other clients do
\* is nothing to the calls.
LEMMA OuterStepInv ==
  ASSUME CallInv, UNCHANGED <<at, step, call, pending, active, exclusiveActive, ran, attempt>>,
         outcome' \in {outcome, "failed", "cancelled"}
  PROVE  OwnerInv' /\ OrderInv' /\ \A v \in Worker : SessionInv(v)'
<1>1. OwnerInv' BY DEF CallInv, OwnerInv, Busy
<1>2. OrderInv' BY DEF CallInv, OrderInv, PlanKept
<1>3. \A v \in Worker : SessionInv(v)' BY DEF CallInv, SessionInv
<1> QED BY <1>1, <1>2, <1>3

\* The row of a call in the ledger is entered by its charge, and by nothing else.
LEMMA CallRows ==
  ASSUME CallInv, [Next]_vars, NEW c \in Call
  PROVE  \/ ledger'[c] = ledger[c]
         \/ ledger[c].state = "none" /\ ledger'[c] = [state |-> "settled", used |-> 1]
<1> USE DEF CallInv, TypedInv, Typed, BudgetTypeOK
<1>1. ASSUME NEW t \in Token, Charge(t)
      PROVE  \/ ledger'[c] = ledger[c]
             \/ ledger[c].state = "none" /\ ledger'[c] = [state |-> "settled", used |-> 1]
  BY <1>1, PlanAssumption DEF Charge, Enter, budgetVars
<1>2. ASSUME NEW t \in Token \ Call, Reserve(t) \/ Reconcile(t) PROVE ledger'[c] = ledger[c]
  BY <1>2, PlanAssumption DEF Reserve, Reconcile, Enter
<1>3. ASSUME NEW s \in Settler, Settle(s) \/ \E t \in Token : ReadReservation(s, t)
      PROVE  ledger'[c] = ledger[c]
  <2>1. ledger[c].state # "reserved" BY DEF ChargedInv
  <2> QED BY <1>3, <2>1, PlanAssumption DEF Settle, EnterSettled, Enter, ReadReservation
<1>4. ASSUME NEW w \in Worker, NEW d \in Call, CallStep(w, d)
      PROVE  \/ ledger'[c] = ledger[c]
             \/ ledger[c].state = "none" /\ ledger'[c] = [state |-> "settled", used |-> 1]
  <2>1. d \in Token BY PlanAssumption
  <2>2. Charge(d) \/ UNCHANGED budgetVars
    BY <1>4 DEF CallStep, Check, ChargeCall, RunTool, EndTool, CheckAgain, budgetVars
  <2> QED BY <1>1, <2>1, <2>2 DEF budgetVars
<1>5. CASE UNCHANGED ledger BY <1>5
<1> QED BY <1>1, <1>2, <1>3, <1>4, <1>5
  DEF Next, vars, budgetVars, JobStep, LeaseExpires, ReviseGoal, EndRun, Claim, Heartbeat, WorkerDies,
      WorkerStep, Begin, StepFails, StepDone, Finish, Spend, Reap, SettleStep

\* The calls that are charged, or have run, stay in the ledger.
LEMMA ChargedStep == ASSUME CallInv, [Next]_vars PROVE ChargedInv'
<1> USE DEF CallInv
<1>0. PlanTyped BY DEF TypedInv, Typed
<1>1. ASSUME UNCHANGED ran, \A w \in Worker, c \in Call :
               call'[w][c] \in {"charged", "running", "ended", "ok"} =>
                 call[w][c] \in {"charged", "running", "ended", "ok"}
      PROVE  ChargedInv'
  BY <1>1, CallRows DEF ChargedInv
<1>2. ASSUME NEW w \in Worker, NEW c \in Call, CallStep(w, c) PROVE ChargedInv'
  <2>1. \A v \in Worker \ {w} : call'[v] = call[v] BY <1>0, <1>2, CallSound
  <2>2. CASE call[w][c] = "admitted" /\ UNCHANGED ran /\ Charge(c) /\ Changes(w, c, "charged")
    <3>1. ledger'[c].state = "settled"
      <4>1. c \in Token /\ ledger \in [Token -> Entry]
        BY PlanAssumption DEF TypedInv, Typed, BudgetTypeOK
      <4> QED BY <2>2, <4>1 DEF Charge, Enter, budgetVars
    <3>2. \A d \in Call : call'[w][d] \in {"charged", "running", "ended", "ok"} =>
            d = c \/ call[w][d] \in {"charged", "running", "ended", "ok"}
      BY <2>2 DEF Changes
    <3> QED BY <2>1, <2>2, <3>1, <3>2, CallRows DEF ChargedInv
  <2>3. CASE call[w][c] = "charged" /\ ran' = [ran EXCEPT ![c] = @ + 1] /\ Changes(w, c, "running")
    <3>1. \A d \in Call : call'[w][d] \in {"charged", "running", "ended", "ok"} =>
            call[w][d] \in {"charged", "running", "ended", "ok"}
      BY <2>3 DEF Changes
    <3>2. \A d \in Call : d # c => ran'[d] = ran[d] BY <1>0, <2>3 DEF PlanTyped
    <3>3. ledger[c].state = "settled" BY <2>3 DEF ChargedInv
    <3> QED BY <2>1, <3>1, <3>2, <3>3, CallRows DEF ChargedInv
  <2>4. CASE /\ UNCHANGED ran
             /\ \/ \E how \in {"pending", "rejected"} : Changes(w, c, how)
                \/ call[w][c] = "running" /\ Changes(w, c, "ended")
                \/ call[w][c] = "ended" /\ \E how \in {"ok", "rejected"} : Changes(w, c, how)
    <3>1. \A d \in Call : call'[w][d] \in {"charged", "running", "ended", "ok"} =>
            call[w][d] \in {"charged", "running", "ended", "ok"}
      BY <2>4 DEF Changes
    <3> QED BY <1>1, <2>1, <2>4, <3>1
  <2> QED BY <1>0, <1>2, <2>2, <2>3, <2>4, CallSound
<1>3. ASSUME NEW w \in Worker, Claim(w) \/ WorkerDies(w) PROVE ChargedInv'
  <2>1. UNCHANGED ran /\ NewSession(w) BY <1>3 DEF Claim, WorkerDies
  <2>2. \A v \in Worker, c \in Call : call'[v][c] \in {"todo", call[v][c]}
    BY <1>0, <2>1 DEF NewSession, PlanTyped
  <2> QED BY <1>1, <2>1, <2>2
<1>4. CASE UNCHANGED <<call, ran>> BY <1>1, <1>4
<1> QED BY <1>2, <1>3, <1>4
  DEF Next, vars, planVars, sessionVars, JobStep, LeaseExpires, ReviseGoal, EndRun, Heartbeat,
      WorkerStep, Begin, StepFails, StepDone, Finish, Spend, Reap, SettleStep

\* Nothing has run at first.
LEMMA CallInit == Init => CallInv
<1> SUFFICES ASSUME Init PROVE CallInv OBVIOUS
<1>1. /\ attempt = 0 /\ outcome = "none"
      /\ \A c \in Call : ran[c] = 0
      /\ \A w \in Worker : /\ at[w] = "idle" /\ step[w] = 0 /\ pending[w] = <<>> /\ active[w] = 0
                           /\ exclusiveActive[w] = FALSE
                           /\ \A c \in Call : call[w][c] = "todo"
  BY DEF Init, JobInit
<1>2. \A t \in Token : ledger[t].used = 0 /\ ledger[t].state = "none"
  BY DEF Init, BudgetInit
<1>3. LedgerInv
  <2>1. Used = {} /\ Held = {} BY <1>2 DEF Used, Held
  <2>2. committed = 0 /\ reserved = 0 BY DEF Init, BudgetInit
  <2> QED BY <1>2, <2>1, <2>2, FS_EmptySet DEF LedgerInv
<1>4. OwnerInv BY <1>1 DEF OwnerInv, Busy
<1>5. OrderInv BY <1>1, PlanAssumption DEF OrderInv, PlanKept
<1>6. ChargedInv BY <1>1, <1>2, PlanAssumption DEF ChargedInv
<1>7. ASSUME NEW w \in Worker PROVE SessionInv(w)
  <2>1. LiveIn(call[w]) = {} BY <1>1 DEF LiveIn, Live
  <2>2. Cardinality({}) = 0 /\ 0 <= MaxParallel BY FS_EmptySet, PlanAssumption
  <2> QED BY <1>1, <2>1, <2>2 DEF SessionInv, Sound
<1> QED BY <1>3, <1>4, <1>5, <1>6, <1>7, TypedInit DEF CallInv

\* Every step keeps the whole invariant.
LEMMA CallNext == CallInv /\ [Next]_vars => CallInv'
<1> SUFFICES ASSUME CallInv, [Next]_vars PROVE CallInv' OBVIOUS
<1>1. TypedInv' /\ LedgerInv'
  BY TypedStep, NextIsBudgetStep, LedgerStep DEF CallInv, TypedInv, Typed, BudgetTyped
<1>2. ChargedInv' BY ChargedStep
<1>3. ASSUME NEW w \in Worker, NEW c \in Call, CallStep(w, c) PROVE CallInv'
  BY <1>1, <1>2, <1>3, CallStepInv DEF CallInv
<1>4. ASSUME NEW w \in Worker, Claim(w) \/ Heartbeat(w) \/ WorkerDies(w) \/ WorkerStep(w)
      PROVE  CallInv'
  BY <1>1, <1>2, <1>4, WorkerStepInv DEF CallInv
<1>5. CASE \/ UNCHANGED vars \/ JobStep \/ LeaseExpires \/ ReviseGoal \/ EndRun
           \/ \E t \in Token \ Call : Spend(t) \/ Reap(t)
           \/ \E s \in Settler : SettleStep(s)
  <2>1. UNCHANGED <<at, step, call, pending, active, exclusiveActive, ran>>
    BY <1>5 DEF vars, planVars, workerVars, sessionVars, JobStep, LeaseExpires, ReviseGoal, EndRun,
       Spend, Reap, SettleStep
  <2>2. UNCHANGED attempt /\ outcome' \in {outcome, "failed", "cancelled"}
    BY <1>5 DEF vars, jobVars, rowVars, JobStep, LeaseExpires, ReviseGoal, EndRun, Spend, Reap,
       SettleStep, Create, FailExpired, Cancel, EndWith, OutboxExpires, PublishStep, PublisherDies,
       ClaimOutbox, Inject, CompleteOutbox, RetryOutbox, CloseItem
  <2> QED BY <1>1, <1>2, <2>1, <2>2, OuterStepInv DEF CallInv
<1> QED BY <1>3, <1>4, <1>5 DEF Next

\* So it holds throughout.
LEMMA CallAlways == Spec => []CallInv
  BY CallInit, CallNext, PTL DEF Spec

-----------------------------------------------------------------------------
(* Theorems *)

\* The variables keep their types: the tables, the ledger, the sessions with no
\* more than MaxParallel active calls in each.
THEOREM OrchestrationTypes == Spec => []TypeOK
<1>1. CallInv => TypeOK
  <2> SUFFICES ASSUME CallInv PROVE TypeOK OBVIOUS
  <2>1. ASSUME NEW w \in Worker PROVE active[w] \in 0..MaxParallel
    <3>1. LiveIn(call[w]) \subseteq Call BY DEF LiveIn
    <3>2. Cardinality(LiveIn(call[w])) \in Nat BY <3>1, FiniteCalls
    <3> QED BY <3>2, PlanAssumption DEF CallInv, SessionInv, Sound
  <2>2. active \in [Worker -> 0..MaxParallel] BY <2>1 DEF CallInv, TypedInv, Typed, PlanTyped
  <2> QED BY <2>2 DEF CallInv, TypedInv, Typed, PlanTyped, TypeOK, PlanTypeOK
<1> QED BY <1>1, CallAlways, PTL

\* No tool is run twice for a call of a plan, for any number of workers that
\* claim, lose and finish the job and of faults: max_attempts is 1, and a charge
\* or a result that is lost is not tried again.
THEOREM OrchestrationCallOnce == Spec => []CallOnce
<1>1. CallInv => CallOnce BY DEF CallInv, OwnerInv, CallOnce
<1> QED BY <1>1, CallAlways, PTL

\* A call that writes is alone in its session, and no more than MaxParallel run,
\* for any plan, also after the worker gave the plan up.
THEOREM OrchestrationExclusive == Spec => []ExclusiveAlone
<1>1. CallInv => ExclusiveAlone
  BY DEF CallInv, SessionInv, Sound, LiveIn, ExclusiveAlone, Running
<1> QED BY <1>1, CallAlways, PTL

\* A completed job ran all of its plan, and no call before those of the steps
\* before its own.
THEOREM OrchestrationPlanKept == Spec => []PlanKept
<1>1. CallInv => PlanKept BY DEF CallInv, OrderInv
<1> QED BY <1>1, CallAlways, PTL

\* What runs is charged before, so that with all other use and promises it stays
\* within the limit of the root run.
THEOREM OrchestrationWithinBudget == Spec => []RunsWithinBudget
<1>1. CallInv => RunsWithinBudget
  <2> SUFFICES ASSUME CallInv, ~raced PROVE RunsWithinBudget BY DEF RunsWithinBudget
  <2> DEFINE S == {t \in Token : IF t \in Call THEN ran[t] > 0 ELSE ledger[t].used = 1}
  <2>1. S \subseteq Used
    BY DEF CallInv, ChargedInv, Used
  <2>2. IsFiniteSet(Used) BY BudgetAssumption, FS_Subset DEF Used
  <2>3. Cardinality(S) <= Cardinality(Used) /\ IsFiniteSet(S) BY <2>1, <2>2, FS_Subset
  <2>4. Cardinality(S) \in Nat /\ Cardinality(Used) \in Nat BY <2>2, <2>3, FS_CardinalityType
  <2>5. /\ committed = Cardinality(Used) /\ committed + reserved <= Limit
        /\ reserved \in Nat /\ Limit \in Nat
    BY BudgetAssumption DEF CallInv, LedgerInv, TypedInv, Typed, BudgetTypeOK
  <2>6. Cardinality(S) + reserved <= Limit BY <2>3, <2>4, <2>5
  <2> QED BY <2>6 DEF RunsWithinBudget
<1> QED BY <1>1, CallAlways, PTL

=============================================================================
