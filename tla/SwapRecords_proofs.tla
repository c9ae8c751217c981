-------------------------- MODULE SwapRecords_proofs --------------------------
(***************************************************************************)
(* Proofs about SwapRecords, for any number of swaps, refreshes, visits    *)
(* and reloads.                                                            *)
(***************************************************************************)
EXTENDS SwapRecords, FiniteSetTheorems, TLAPS

-----------------------------------------------------------------------------
(* The inductive invariant.                                                *)

\* Swaps start in order; one that has not started has left no trace.
Begun ==
    \A s \in Swaps :
        /\ run[s] = "new" <=> s > started
        /\ s > started =>
              /\ list[s] = "absent" /\ leg[s] = 0
              /\ early[s] = 0 /\ late[s] = 0
              /\ clicks[s] = 0 /\ checks[s] = 0 /\ seconds[s] = 0 /\ sentSeconds[s] = 0

\* A run that goes on has a transaction to go.
LegsToGo == \A s \in Swaps : run[s] \in {"sending", "sent"} => leg[s] < Legs[s]

\* Each click sends one second step at most.
EachOnce ==
    \A s \in Swaps :
        /\ clicks[s] + checks[s] + seconds[s] + out[s] <= entered
        /\ sentSeconds[s] <= out[s]

\* A late look, and all of the second step, come after Lombard is done.
AfterLombard ==
    \A s \in Swaps :
        /\ late[s] > 0 => s \in settled
        /\ clicks[s] > 0 \/ checks[s] > 0 \/ seconds[s] > 0 \/ sentSeconds[s] > 0 =>
              s \in settled \cap Quick

\* The first continuation that finds the balance is the only one: after it the
\* clicked record is not ready, in the list or at the gate.
OnlyFirst ==
    \A s \in Swaps \ (regressed \cup doubled) :
        /\ checks[s] + seconds[s] + out[s] <= 1
        /\ s \notin taken => seconds[s] = 0 /\ out[s] = 0
        /\ run[s] # "over" => /\ clicks[s] = 0 /\ checks[s] = 0 /\ s \notin taken
                              /\ list[s] \notin {"waiting", "ready"}
        /\ list[s] \in {"waiting", "ready"} => s \notin taken
        /\ list[s] = "waiting" => clicks[s] = 0 /\ checks[s] = 0

SwapInv == TypeOK /\ Begun /\ LegsToGo /\ EachOnce /\ AfterLombard /\ OnlyFirst /\ Tracked

-----------------------------------------------------------------------------
(* Lemmas about saveSwap().                                                *)

Newer(s, n) == {x \in Swaps : s < x /\ x <= n}

LEMMA NewerFinite ==
    ASSUME NEW s \in Swaps, NEW n \in Nat, NEW S \in SUBSET Newer(s, n)
    PROVE  /\ IsFiniteSet(S) /\ Cardinality(S) \in Nat
           /\ IsFiniteSet(Newer(s, n)) /\ Cardinality(Newer(s, n)) \in Nat
           /\ Cardinality(S) <= Cardinality(Newer(s, n))
<1>1. IsFiniteSet(Swaps)
    BY SwapsAssumption, FS_Interval DEF Swaps
<1>2. IsFiniteSet(Newer(s, n))
    BY <1>1, FS_Subset DEF Newer
<1>3. QED
    BY <1>2, FS_Subset, FS_CardinalityType

\* The record is stored or dropped, the others stay or are dropped, and what is
\* dropped has MAX_KEPT newer ones.
LEMMA SaveResult ==
    ASSUME SwapInv, NEW s \in Swaps, s <= started, NEW status \in Statuses, Save(s, status)
    PROVE  /\ list' \in [Swaps -> Statuses \cup {"absent"}]
           /\ \A x \in Swaps : list'[x] \in {"absent", IF x = s THEN status ELSE list[x]}
           /\ \A x \in Swaps : list'[x] = "absent" =>
                 \/ x # s /\ list[x] = "absent"
                 \/ Cardinality(Newer(x, started)) >= MaxKept
<1> DEFINE there == {x \in Swaps : list[x] # "absent"} \cup {s}
           kept == {x \in there : Cardinality({y \in there : y > x}) < MaxKept}
<1>1. list' = [x \in Swaps |-> IF x \notin kept THEN "absent" ELSE IF x = s THEN status ELSE list[x]]
    BY DEF Save
<1>2. list \in [Swaps -> Statuses \cup {"absent"}] /\ started \in Nat
    BY DEF SwapInv, TypeOK
<1>3. \A x \in Swaps \ there : x # s /\ list[x] = "absent"
    OBVIOUS
<1>4. ASSUME NEW x \in there, x \notin kept
      PROVE  Cardinality(Newer(x, started)) >= MaxKept
    <2>1. {y \in there : y > x} \subseteq Newer(x, started)
        BY <1>2, SwapsAssumption DEF SwapInv, Begun, Newer, Swaps
    <2>2. x \in Swaps /\ ~ (Cardinality({y \in there : y > x}) < MaxKept)
        BY <1>4
    <2> DEFINE S == {y \in there : y > x}
    <2> HIDE DEF S
    <2>3. S \in SUBSET Newer(x, started) /\ ~ (Cardinality(S) < MaxKept)
        BY <2>1, <2>2 DEF S
    <2>4. QED
        BY <1>2, <2>2, <2>3, NewerFinite, SwapsAssumption
<1> HIDE DEF there, kept
<1>5. \A x \in Swaps : list'[x] = IF x \notin kept THEN "absent" ELSE IF x = s THEN status ELSE list[x]
    BY <1>1
<1>6. list' \in [Swaps -> Statuses \cup {"absent"}]
    BY <1>1, <1>2
<1>7. \A x \in Swaps : list'[x] = "absent" /\ x \in kept => x # s /\ list[x] = "absent"
    BY <1>5 DEF Statuses
<1>8. \A x \in Swaps : x \in kept => x \in there
    BY DEF kept
<1>9. \A x \in Swaps : list'[x] = "absent" =>
          (x # s /\ list[x] = "absent") \/ Cardinality(Newer(x, started)) >= MaxKept
    BY <1>3, <1>4, <1>7
<1>10. QED
    BY <1>5, <1>6, <1>9

\* The records that are dropped are so for newer ones, also later.
LEMMA StaysTracked ==
    ASSUME SwapInv, NEW s \in Swaps, started' \in Nat, started <= started', removed \subseteq removed',
           (run[s] = "over" /\ list[s] = "absent") \/ Cardinality(Newer(s, started)) >= MaxKept
    PROVE  s \in removed' \/ Cardinality(Newer(s, started')) >= MaxKept
<1>1. CASE s \in removed
    BY <1>1
<1>2. CASE Cardinality(Newer(s, started)) >= MaxKept
    <2>1. started \in Nat
        BY DEF SwapInv, TypeOK
    <2>2. Newer(s, started) \subseteq Newer(s, started')
        BY <2>1, SwapsAssumption DEF Newer, Swaps
    <2>3. Cardinality(Newer(s, started)) \in Nat
        BY <2>1, NewerFinite
    <2> DEFINE S == Newer(s, started)
    <2> HIDE DEF S
    <2>4. /\ S \in SUBSET Newer(s, started') /\ Cardinality(S) \in Nat
          /\ Cardinality(S) >= MaxKept
        BY <1>2, <2>2, <2>3 DEF S
    <2>5. Cardinality(S) <= Cardinality(Newer(s, started')) /\ Cardinality(Newer(s, started')) \in Nat
        BY <2>4, NewerFinite
    <2>6. QED
        BY <2>4, <2>5, SwapsAssumption
<1>3. QED
    BY <1>1, <1>2 DEF SwapInv, Tracked, Newer

LEMMA TrackedKept ==
    ASSUME SwapInv, TypeOK', started <= started',
           removed \subseteq removed', settled \subseteq settled',
           \A s \in Swaps : out[s] <= out'[s],
           \A s \in Swaps : list'[s] = "absent" /\ run'[s] = "over" =>
               \/ s \in removed'
               \/ run[s] = "over" /\ list[s] = "absent"
               \/ Cardinality(Newer(s, started)) >= MaxKept,
           \A s \in Swaps : list'[s] = "done" =>
               \/ list[s] = "done"
               \/ (s \in Waits => s \in settled') /\ (s \in Quick => out'[s] > 0),
           \A s \in Swaps : list'[s] = "ready" => list[s] = "ready" \/ s \in settled'
    PROVE  Tracked'
<1>1. started' \in Nat
    BY DEF TypeOK
<1>2. \A s \in Swaps : list'[s] = "absent" /\ run'[s] = "over" =>
          s \in removed' \/ Cardinality(Newer(s, started')) >= MaxKept
    BY <1>1, StaysTracked
<1>3. \A s \in Swaps : list[s] = "done" =>
          (s \in Waits => s \in settled') /\ (s \in Quick => out'[s] > 0)
    <2>1. \A s \in Swaps : list[s] = "done" =>
          (s \in Waits => s \in settled) /\ (s \in Quick => out[s] > 0)
        BY DEF SwapInv, Tracked
    <2>2. \A s \in Swaps : out[s] \in Nat /\ out'[s] \in Nat
        BY SwapsAssumption DEF SwapInv, TypeOK
    <2>3. QED
        BY <2>1, <2>2
<1>4. \A s \in Swaps : list[s] = "ready" => s \in settled'
    BY DEF SwapInv, Tracked
<1>5. \A s \in Swaps : Newer(s, started)' = Newer(s, started')
    BY DEF Newer
<1>6. QED
    BY <1>2, <1>3, <1>4 DEF Tracked, Newer

-----------------------------------------------------------------------------
(* Lemmas about the counters.                                              *)

LEMMA CountUp ==
    ASSUME NEW M \in Nat, NEW f \in [Swaps -> 0..M], NEW s \in Swaps, f[s] < M
    PROVE  /\ [f EXCEPT ![s] = @ + 1] \in [Swaps -> 0..M]
           /\ [f EXCEPT ![s] = @ + 1][s] = f[s] + 1
           /\ \A x \in Swaps \ {s} : [f EXCEPT ![s] = @ + 1][x] = f[x]
<1> DEFINE n == f[s] + 1
<1>1. n \in 0..M
    OBVIOUS
<1> HIDE DEF n
<1>2. /\ [f EXCEPT ![s] = n] \in [Swaps -> 0..M] /\ [f EXCEPT ![s] = n][s] = n
      /\ \A x \in Swaps \ {s} : [f EXCEPT ![s] = n][x] = f[x]
    BY <1>1
<1>3. QED
    BY <1>2 DEF n

LEMMA CountDown ==
    ASSUME NEW M \in Nat, NEW f \in [Swaps -> 0..M], NEW s \in Swaps, f[s] > 0
    PROVE  /\ [f EXCEPT ![s] = @ - 1] \in [Swaps -> 0..M]
           /\ [f EXCEPT ![s] = @ - 1][s] = f[s] - 1
           /\ \A x \in Swaps \ {s} : [f EXCEPT ![s] = @ - 1][x] = f[x]
<1> DEFINE n == f[s] - 1
<1>1. n \in 0..M
    OBVIOUS
<1> HIDE DEF n
<1>2. /\ [f EXCEPT ![s] = n] \in [Swaps -> 0..M] /\ [f EXCEPT ![s] = n][s] = n
      /\ \A x \in Swaps \ {s} : [f EXCEPT ![s] = n][x] = f[x]
    BY <1>1
<1>3. QED
    BY <1>2 DEF n

\* The types as SMT takes them best: value by value.
LEMMA Values ==
    ASSUME TypeOK
    PROVE  /\ started \in Nat /\ entered \in Nat /\ Swaps \subseteq Nat
           /\ \A s \in Swaps :
                 /\ early[s] \in Nat /\ late[s] \in Nat /\ clicks[s] \in Nat /\ checks[s] \in Nat
                 /\ seconds[s] \in Nat /\ sentSeconds[s] \in Nat /\ out[s] \in Nat
                 /\ leg[s] \in Nat /\ Legs[s] \in Nat
<1>1. Swaps \subseteq Nat /\ \A s \in Swaps : Legs[s] \in Nat
    BY SwapsAssumption DEF Swaps
<1>2. \A s \in Swaps : /\ early[s] \in 0..MaxLooks /\ late[s] \in 0..MaxLooks
                       /\ clicks[s] \in 0..MaxContinues
                       /\ checks[s] \in 0..MaxContinues /\ seconds[s] \in 0..MaxContinues
                       /\ sentSeconds[s] \in 0..MaxContinues /\ out[s] \in 0..MaxContinues
    BY DEF TypeOK
<1>3. started \in Nat /\ entered \in Nat /\ \A s \in Swaps : leg[s] \in Nat
    BY <1>1, SwapsAssumption DEF TypeOK
<1>4. QED
    BY <1>1, <1>2, <1>3, SwapsAssumption

LEMMA ReadySettled ==
    ASSUME SwapInv
    PROVE  \A s \in Swaps : list[s] = "ready" => s \in settled
BY DEF SwapInv, Tracked

-----------------------------------------------------------------------------
(* Every step preserves the invariant.                                     *)

LEMMA SwapInit == Init => SwapInv
<1> SUFFICES ASSUME Init PROVE SwapInv
    OBVIOUS
<1> USE SwapsAssumption
<1>1. 0 \in 0..MaxLooks /\ 0 \in 0..MaxContinues /\ 0 \in 0..MaxReloads
    OBVIOUS
<1>2. TypeOK
    <2>1. \A s \in Swaps : leg[s] <= Legs[s]
        BY DEF Init
    <2>2. QED
        BY <1>1, <2>1 DEF Init, TypeOK
<1>3. Begun /\ LegsToGo /\ EachOnce /\ AfterLombard /\ OnlyFirst
    BY DEF Init, Begun, LegsToGo, EachOnce, AfterLombard, OnlyFirst, Swaps
<1>4. Tracked
    BY DEF Init, Tracked
<1>5. QED
    BY <1>2, <1>3, <1>4 DEF SwapInv

LEMMA StartInv ==
    ASSUME SwapInv, Start
    PROVE  SwapInv'
<1> USE SwapsAssumption
<1>1. TypeOK /\ Begun /\ LegsToGo /\ EachOnce /\ AfterLombard /\ OnlyFirst
    BY DEF SwapInv
<1>2. /\ UNCHANGED <<list, open, continuing, leg, settled, early, late, checks, seconds,
                     sentSeconds, out, entered, regressed, doubled, clicks, taken, removed, reloads>>
      /\ started' = started + 1 /\ started + 1 \in Swaps /\ busy' \in BOOLEAN
      /\ run' \in [Swaps -> {"new", "sending", "sent", "over", "lost"}]
      /\ run'[started + 1] = "sending" /\ run[started + 1] = "new" /\ leg[started + 1] = 0
      /\ \A x \in Swaps \ {started + 1} : run'[x] = run[x]
    BY <1>1 DEF Start, view, flow, looks, second, history, TypeOK, Begun, Swaps
<1>3. TypeOK'
    BY <1>1, <1>2 DEF TypeOK
<1>4. Begun' /\ LegsToGo'
    BY <1>1, <1>2, Values DEF Begun, LegsToGo
<1>5. EachOnce' /\ AfterLombard'
    BY <1>1, <1>2, Values DEF EachOnce, AfterLombard
<1>6. OnlyFirst'
    BY <1>1, <1>2, Values DEF OnlyFirst
<1>7. Tracked'
    BY <1>1, <1>2, <1>3, Values, TrackedKept
<1>8. QED
    BY <1>3, <1>4, <1>5, <1>6, <1>7 DEF SwapInv

LEMMA BroadcastInv ==
    ASSUME SwapInv, NEW s \in Swaps, Broadcast(s)
    PROVE  SwapInv'
<1> USE SwapsAssumption
<1>1. TypeOK /\ Begun /\ LegsToGo /\ EachOnce /\ AfterLombard /\ OnlyFirst
    BY DEF SwapInv
<1>2. /\ UNCHANGED <<list, open, busy, continuing, started, leg, settled, early, late, checks,
                     seconds, sentSeconds, out, entered, regressed, doubled, clicks, taken, removed, reloads>>
      /\ run' \in [Swaps -> {"new", "sending", "sent", "over", "lost"}]
      /\ run[s] = "sending" /\ run'[s] = "sent"
      /\ \A x \in Swaps \ {s} : run'[x] = run[x]
    BY <1>1 DEF Broadcast, view, flow, looks, second, history, TypeOK
<1>3. TypeOK'
    BY <1>1, <1>2 DEF TypeOK
<1>4. Begun' /\ LegsToGo'
    BY <1>1, <1>2, Values DEF Begun, LegsToGo
<1>5. EachOnce' /\ AfterLombard'
    BY <1>1, <1>2, Values DEF EachOnce, AfterLombard
<1>6. OnlyFirst'
    BY <1>1, <1>2, Values DEF OnlyFirst
<1>7. Tracked'
    BY <1>1, <1>2, <1>3, Values, TrackedKept
<1>8. QED
    BY <1>3, <1>4, <1>5, <1>6, <1>7 DEF SwapInv

LEMMA SettleInv ==
    ASSUME SwapInv, NEW s \in Swaps, Settle(s)
    PROVE  SwapInv'
<1> USE SwapsAssumption
<1>1. TypeOK /\ Begun /\ LegsToGo /\ EachOnce /\ AfterLombard /\ OnlyFirst
    BY DEF SwapInv
<1>2. /\ UNCHANGED <<list, open, busy, continuing, started, run, leg, early, late, checks,
                     seconds, sentSeconds, out, entered, regressed, doubled, clicks, taken, removed, reloads>>
      /\ s \in Waits /\ settled' = settled \cup {s}
    BY <1>1 DEF Settle, view, flow, looks, second, history, TypeOK
<1>3. TypeOK'
    BY <1>1, <1>2 DEF TypeOK
<1>4. Begun' /\ LegsToGo'
    BY <1>1, <1>2, Values DEF Begun, LegsToGo
<1>5. EachOnce' /\ AfterLombard'
    BY <1>1, <1>2, Values DEF EachOnce, AfterLombard
<1>6. OnlyFirst'
    BY <1>1, <1>2, Values DEF OnlyFirst
<1>7. Tracked'
    BY <1>1, <1>2, <1>3, Values, TrackedKept
<1>8. QED
    BY <1>3, <1>4, <1>5, <1>6, <1>7 DEF SwapInv

LEMMA ClickInv ==
    ASSUME SwapInv, NEW s \in Swaps, Click(s)
    PROVE  SwapInv'
<1> USE SwapsAssumption
<1>1. TypeOK /\ Begun /\ LegsToGo /\ EachOnce /\ AfterLombard /\ OnlyFirst
    BY DEF SwapInv
<1>2. /\ UNCHANGED <<list, open, busy, continuing, started, run, leg, settled, early, late, taken,
                     checks, seconds, sentSeconds, out, regressed, doubled, removed, reloads>>
      /\ entered' = entered + 1 /\ entered' \in 0..MaxContinues
      /\ s \in Quick /\ list[s] = "ready"
    BY <1>1 DEF Click, view, flow, looks, history, TypeOK
<1>3. /\ clicks' \in [Swaps -> 0..MaxContinues] /\ clicks'[s] = clicks[s] + 1
      /\ \A x \in Swaps \ {s} : clicks'[x] = clicks[x]
    BY <1>1, Values, CountUp DEF Click, TypeOK, EachOnce
<1>4. TypeOK'
    BY <1>1, <1>2, <1>3 DEF TypeOK
<1>5. Begun' /\ LegsToGo'
    BY <1>1, <1>2, <1>3, Values DEF Begun, LegsToGo
<1>6. EachOnce' /\ AfterLombard'
    BY <1>1, <1>2, <1>3, Values, ReadySettled DEF EachOnce, AfterLombard
<1>7. OnlyFirst'
    BY <1>1, <1>2, <1>3, Values DEF OnlyFirst
<1>8. Tracked'
    BY <1>1, <1>2, <1>3, <1>4, Values, TrackedKept
<1>9. QED
    BY <1>4, <1>5, <1>6, <1>7, <1>8 DEF SwapInv

LEMMA ContinueInv ==
    ASSUME SwapInv, NEW s \in Swaps, Continue(s)
    PROVE  SwapInv'
<1> USE SwapsAssumption
<1>1. TypeOK /\ Begun /\ LegsToGo /\ EachOnce /\ AfterLombard /\ OnlyFirst
    BY DEF SwapInv
<1>2. /\ UNCHANGED <<list, open, busy, started, run, leg, settled, early, late, taken, seconds,
                     sentSeconds, out, entered, regressed, removed, reloads>>
      /\ continuing' \in BOOLEAN
      /\ s \notin taken \/ s \in regressed
      /\ doubled' = IF checks[s] > 0 THEN doubled \cup {s} ELSE doubled
    BY <1>1 DEF Continue, StillReady, flow, looks, history, TypeOK
<1>3. /\ clicks' \in [Swaps -> 0..MaxContinues] /\ clicks[s] > 0 /\ clicks'[s] = clicks[s] - 1
      /\ \A x \in Swaps \ {s} : clicks'[x] = clicks[x]
    BY <1>1, CountDown DEF Continue, TypeOK
<1>4. /\ checks' \in [Swaps -> 0..MaxContinues] /\ checks'[s] = checks[s] + 1
      /\ \A x \in Swaps \ {s} : checks'[x] = checks[x]
    <2>1. checks[s] < MaxContinues
        BY <1>1, <1>3, Values DEF EachOnce, TypeOK
    <2>2. QED
        BY <1>1, <2>1, CountUp DEF Continue, TypeOK
<1>5. TypeOK'
    BY <1>1, <1>2, <1>3, <1>4 DEF TypeOK
<1>6. Begun' /\ LegsToGo'
    BY <1>1, <1>2, <1>3, <1>4, Values DEF Begun, LegsToGo
<1>7. EachOnce' /\ AfterLombard'
    <2>1. \A x \in Swaps : clicks'[x] \in Nat /\ checks'[x] \in Nat
                            /\ clicks'[x] + checks'[x] = clicks[x] + checks[x]
                            /\ (clicks'[x] > 0 \/ checks'[x] > 0 => clicks[x] > 0 \/ checks[x] > 0)
        BY <1>1, <1>3, <1>4, Values
    <2>2. EachOnce'
        BY <1>1, <1>2, <2>1, Values DEF EachOnce
    <2>3. AfterLombard'
        BY <1>1, <1>2, <2>1, Values DEF AfterLombard
    <2>4. QED
        BY <2>2, <2>3
<1>8. OnlyFirst'
    BY <1>1, <1>2, <1>3, <1>4, Values DEF OnlyFirst
<1>9. Tracked'
    BY <1>1, <1>2, <1>5, Values, TrackedKept
<1>10. QED
    BY <1>5, <1>6, <1>7, <1>8, <1>9 DEF SwapInv

LEMMA ClickFailsInv ==
    ASSUME SwapInv, NEW s \in Swaps, ClickFails(s)
    PROVE  SwapInv'
<1> USE SwapsAssumption
<1>1. TypeOK /\ Begun /\ LegsToGo /\ EachOnce /\ AfterLombard /\ OnlyFirst
    BY DEF SwapInv
<1>2. /\ UNCHANGED <<list, open, busy, started, run, leg, settled, early, late, taken, checks,
                     seconds, sentSeconds, out, entered, regressed, doubled, removed, reloads>>
      /\ continuing' \in BOOLEAN
    BY <1>1 DEF ClickFails, flow, looks, history, TypeOK
<1>3. /\ clicks' \in [Swaps -> 0..MaxContinues] /\ clicks[s] > 0 /\ clicks'[s] = clicks[s] - 1
      /\ \A x \in Swaps \ {s} : clicks'[x] = clicks[x]
    BY <1>1, CountDown DEF ClickFails, TypeOK
<1>4. TypeOK'
    BY <1>1, <1>2, <1>3 DEF TypeOK
<1>5. Begun' /\ LegsToGo'
    BY <1>1, <1>2, <1>3, Values DEF Begun, LegsToGo
<1>6. EachOnce' /\ AfterLombard'
    <2>1. \A x \in Swaps : clicks'[x] \in Nat /\ clicks'[x] <= clicks[x]
        BY <1>1, <1>3, Values
    <2>2. EachOnce'
        BY <1>1, <1>2, <2>1, Values DEF EachOnce
    <2>3. AfterLombard'
        BY <1>1, <1>2, <2>1, Values DEF AfterLombard
    <2>4. QED
        BY <2>2, <2>3
<1>7. OnlyFirst'
    BY <1>1, <1>2, <1>3, Values DEF OnlyFirst
<1>8. Tracked'
    BY <1>1, <1>2, <1>3, <1>4, Values, TrackedKept
<1>9. QED
    BY <1>4, <1>5, <1>6, <1>7, <1>8 DEF SwapInv

LEMMA ProceedFailsInv ==
    ASSUME SwapInv, NEW s \in Swaps, ProceedFails(s)
    PROVE  SwapInv'
<1> USE SwapsAssumption
<1>1. TypeOK /\ Begun /\ LegsToGo /\ EachOnce /\ AfterLombard /\ OnlyFirst
    BY DEF SwapInv
<1>2. /\ UNCHANGED <<list, open, busy, started, run, leg, settled, early, late, seconds,
                     sentSeconds, out, entered, regressed, doubled, clicks, taken, removed, reloads>>
      /\ continuing' \in BOOLEAN
    BY <1>1 DEF ProceedFails, view, flow, looks, second, history, TypeOK
<1>3. /\ checks' \in [Swaps -> 0..MaxContinues] /\ checks[s] > 0 /\ checks'[s] = checks[s] - 1
      /\ \A x \in Swaps \ {s} : checks'[x] = checks[x]
    BY <1>1, Values, CountUp, CountDown
    DEF ProceedFails, view, flow, looks, second, history, TypeOK, EachOnce
<1>4. TypeOK'
    BY <1>1, <1>2, <1>3 DEF TypeOK
<1>5. Begun' /\ LegsToGo'
    BY <1>1, <1>2, <1>3, Values DEF Begun, LegsToGo
<1>6. EachOnce' /\ AfterLombard'
    BY <1>1, <1>2, <1>3, Values DEF EachOnce, AfterLombard
<1>7. OnlyFirst'
    BY <1>1, <1>2, <1>3, Values DEF OnlyFirst
<1>8. Tracked'
    BY <1>1, <1>2, <1>3, <1>4, Values, TrackedKept
<1>9. QED
    BY <1>4, <1>5, <1>6, <1>7, <1>8 DEF SwapInv

LEMMA SendSecondInv ==
    ASSUME SwapInv, NEW s \in Swaps, SendSecond(s)
    PROVE  SwapInv'
<1> USE SwapsAssumption
<1>1. TypeOK /\ Begun /\ LegsToGo /\ EachOnce /\ AfterLombard /\ OnlyFirst
    BY DEF SwapInv
<1>2. /\ UNCHANGED <<list, open, busy, continuing, started, run, leg, settled, early, late,
                     checks, entered, regressed, doubled, clicks, taken, removed, reloads>>
    BY <1>1 DEF SendSecond, view, flow, looks, second, history, TypeOK
<1>3. /\ seconds' \in [Swaps -> 0..MaxContinues] /\ seconds[s] > 0 /\ seconds'[s] = seconds[s] - 1
      /\ \A x \in Swaps \ {s} : seconds'[x] = seconds[x]
      /\ sentSeconds' \in [Swaps -> 0..MaxContinues] /\ sentSeconds'[s] = sentSeconds[s] + 1
      /\ \A x \in Swaps \ {s} : sentSeconds'[x] = sentSeconds[x]
      /\ out' \in [Swaps -> 0..MaxContinues] /\ out'[s] = out[s] + 1
      /\ \A x \in Swaps \ {s} : out'[x] = out[x]
    BY <1>1, Values, CountUp, CountDown
    DEF SendSecond, view, flow, looks, second, history, TypeOK, EachOnce
<1>4. TypeOK'
    BY <1>1, <1>2, <1>3 DEF TypeOK
<1>5. Begun' /\ LegsToGo'
    BY <1>1, <1>2, <1>3, Values DEF Begun, LegsToGo
<1>6. EachOnce' /\ AfterLombard'
    <2>1. EachOnce'
        BY <1>1, <1>2, <1>3, Values DEF EachOnce
    <2>2. AfterLombard'
        BY <1>1, <1>2, <1>3, Values DEF AfterLombard
    <2>3. QED
        BY <2>1, <2>2
<1>7. OnlyFirst'
    BY <1>1, <1>2, <1>3, Values DEF OnlyFirst
<1>8. Tracked'
    BY <1>1, <1>2, <1>3, <1>4, Values, TrackedKept
<1>9. QED
    BY <1>4, <1>5, <1>6, <1>7, <1>8 DEF SwapInv

LEMMA RemoveInv ==
    ASSUME SwapInv, NEW s \in Swaps, Remove(s)
    PROVE  SwapInv'
<1> USE SwapsAssumption
<1>1. TypeOK /\ Begun /\ LegsToGo /\ EachOnce /\ AfterLombard /\ OnlyFirst
    BY DEF SwapInv
<1>2. /\ UNCHANGED <<open, busy, continuing, started, run, leg, settled, early, late, checks,
                     seconds, sentSeconds, out, entered, regressed, doubled, clicks, taken, reloads>>
      /\ list' \in [Swaps -> Statuses \cup {"absent"}] /\ list'[s] = "absent"
      /\ \A x \in Swaps \ {s} : list'[x] = list[x]
      /\ removed' = removed \cup {s}
    BY <1>1 DEF Remove, view, flow, looks, second, history, TypeOK
<1>3. TypeOK'
    BY <1>1, <1>2 DEF TypeOK
<1>4. Begun' /\ LegsToGo'
    BY <1>1, <1>2, Values DEF Begun, LegsToGo
<1>5. EachOnce' /\ AfterLombard'
    BY <1>1, <1>2, Values DEF EachOnce, AfterLombard
<1>6. OnlyFirst'
    BY <1>1, <1>2, Values DEF OnlyFirst
<1>7. Tracked'
    BY <1>1, <1>2, <1>3, Values, TrackedKept
<1>8. QED
    BY <1>3, <1>4, <1>5, <1>6, <1>7 DEF SwapInv

LEMMA LookInv ==
    ASSUME SwapInv, NEW s \in Swaps, Look(s)
    PROVE  SwapInv'
<1> USE SwapsAssumption
<1>1. TypeOK /\ Begun /\ LegsToGo /\ EachOnce /\ AfterLombard /\ OnlyFirst
    BY DEF SwapInv
<1>2. /\ UNCHANGED <<list, open, busy, continuing, started, run, leg, settled, checks,
                     seconds, sentSeconds, out, entered, regressed, doubled, clicks, taken, removed, reloads>>
      /\ list[s] = "waiting"
    BY <1>1 DEF Look, view, flow, looks, second, history, TypeOK, Looked
<1>3. /\ early' \in [Swaps -> 0..MaxLooks] /\ late' \in [Swaps -> 0..MaxLooks]
      /\ \A x \in Swaps \ {s} : early'[x] = early[x] /\ late'[x] = late[x]
      /\ late'[s] = late[s] \/ s \in settled
    <2>1. CASE s \in settled
        <3>1. late[s] < MaxLooks /\ late' = [late EXCEPT ![s] = @ + 1] /\ early' = early
            BY <2>1 DEF Look, Looked
        <3>2. QED
            BY <1>1, <2>1, <3>1, CountUp DEF TypeOK
    <2>2. CASE s \notin settled
        <3>1. early[s] < MaxLooks /\ early' = [early EXCEPT ![s] = @ + 1] /\ late' = late
            BY <2>2 DEF Look, Looked
        <3>2. QED
            BY <1>1, <2>2, <3>1, CountUp DEF TypeOK
    <2>3. QED
        BY <2>1, <2>2
<1>4. TypeOK'
    BY <1>1, <1>2, <1>3 DEF TypeOK
<1>5. Begun' /\ LegsToGo'
    BY <1>1, <1>2, <1>3, Values DEF Begun, LegsToGo
<1>6. EachOnce' /\ AfterLombard'
    BY <1>1, <1>2, <1>3, Values DEF EachOnce, AfterLombard
<1>7. OnlyFirst'
    BY <1>1, <1>2, <1>3, Values DEF OnlyFirst
<1>8. Tracked'
    BY <1>1, <1>2, <1>3, <1>4, Values, TrackedKept
<1>9. QED
    BY <1>4, <1>5, <1>6, <1>7, <1>8 DEF SwapInv

LEMMA LookFailsInv ==
    ASSUME SwapInv, NEW s \in Swaps, LookFails(s)
    PROVE  SwapInv'
<1> USE SwapsAssumption
<1>1. TypeOK /\ Begun /\ LegsToGo /\ EachOnce /\ AfterLombard /\ OnlyFirst
    BY DEF SwapInv
<1>2. /\ UNCHANGED <<list, open, busy, continuing, started, run, leg, settled, checks,
                     seconds, sentSeconds, out, entered, regressed, doubled, clicks, taken, removed, reloads>>
    BY <1>1 DEF LookFails, view, flow, looks, second, history, TypeOK
<1>3. /\ early' \in [Swaps -> 0..MaxLooks] /\ late' \in [Swaps -> 0..MaxLooks]
      /\ \A x \in Swaps : early'[x] <= early[x] /\ late'[x] <= late[x]
      /\ \A x \in Swaps : early'[x] \in Nat /\ late'[x] \in Nat
    <2>1. CASE early[s] > 0 /\ early' = [early EXCEPT ![s] = @ - 1] /\ late' = late
        BY <1>1, <2>1, Values, CountDown DEF TypeOK
    <2>2. CASE late[s] > 0 /\ late' = [late EXCEPT ![s] = @ - 1] /\ early' = early
        BY <1>1, <2>2, Values, CountDown DEF TypeOK
    <2>3. QED
        BY <2>1, <2>2 DEF LookFails
<1>4. TypeOK'
    BY <1>1, <1>2, <1>3 DEF TypeOK
<1>5. Begun' /\ LegsToGo'
    BY <1>1, <1>2, <1>3, Values DEF Begun, LegsToGo
<1>6. EachOnce' /\ AfterLombard'
    BY <1>1, <1>2, <1>3, Values DEF EachOnce, AfterLombard
<1>7. OnlyFirst'
    BY <1>1, <1>2, <1>3, Values DEF OnlyFirst
<1>8. Tracked'
    BY <1>1, <1>2, <1>3, <1>4, Values, TrackedKept
<1>9. QED
    BY <1>4, <1>5, <1>6, <1>7, <1>8 DEF SwapInv

LEMMA PageInv ==
    ASSUME SwapInv, Leave \/ Return
    PROVE  SwapInv'
<1> USE SwapsAssumption
<1>1. TypeOK /\ Begun /\ LegsToGo /\ EachOnce /\ AfterLombard /\ OnlyFirst
    BY DEF SwapInv
<1>2. /\ UNCHANGED <<list, started, run, leg, settled, early, late, checks, seconds,
                     sentSeconds, out, entered, regressed, doubled, clicks, taken, removed, reloads>>
      /\ open' \in BOOLEAN /\ busy' \in BOOLEAN /\ continuing' \in BOOLEAN
    BY <1>1 DEF Leave, Return, view, flow, looks, second, history, TypeOK
<1>3. TypeOK'
    BY <1>1, <1>2 DEF TypeOK
<1>4. Begun' /\ LegsToGo'
    BY <1>1, <1>2, Values DEF Begun, LegsToGo
<1>5. EachOnce' /\ AfterLombard'
    BY <1>1, <1>2, Values DEF EachOnce, AfterLombard
<1>6. OnlyFirst'
    BY <1>1, <1>2, Values DEF OnlyFirst
<1>7. Tracked'
    BY <1>1, <1>2, <1>3, Values, TrackedKept
<1>8. QED
    BY <1>3, <1>4, <1>5, <1>6, <1>7 DEF SwapInv

LEMMA ReloadInv ==
    ASSUME SwapInv, Reload
    PROVE  SwapInv'
<1> USE SwapsAssumption
<1>1. TypeOK /\ Begun /\ LegsToGo /\ EachOnce /\ AfterLombard /\ OnlyFirst
    BY DEF SwapInv
<1>2. /\ UNCHANGED <<list, started, leg, settled, out, entered, regressed, doubled, taken, removed>>
      /\ reloads' \in 0..MaxReloads /\ open' \in BOOLEAN /\ busy' \in BOOLEAN /\ continuing' \in BOOLEAN
      /\ run' \in [Swaps -> {"new", "sending", "sent", "over", "lost"}]
      /\ \A x \in Swaps : run'[x] = IF run[x] \in {"sending", "sent"} THEN "lost" ELSE run[x]
    <2>1. run' = [x \in Swaps |-> IF run[x] \in {"sending", "sent"} THEN "lost" ELSE run[x]]
        BY DEF Reload
    <2>2. reloads' \in 0..MaxReloads
        BY <1>1 DEF Reload, TypeOK
    <2>3. QED
        BY <1>1, <2>1, <2>2 DEF Reload, TypeOK
<1>3. /\ early' \in [Swaps -> 0..MaxLooks] /\ late' \in [Swaps -> 0..MaxLooks]
      /\ clicks' \in [Swaps -> 0..MaxContinues]
      /\ checks' \in [Swaps -> 0..MaxContinues] /\ seconds' \in [Swaps -> 0..MaxContinues]
      /\ sentSeconds' \in [Swaps -> 0..MaxContinues]
      /\ \A x \in Swaps : /\ early'[x] = 0 /\ late'[x] = 0 /\ clicks'[x] = 0
                         /\ checks'[x] = 0 /\ seconds'[x] = 0 /\ sentSeconds'[x] = 0
    BY <1>1, Values, CountUp, CountDown
    DEF Reload, view, flow, looks, second, history, TypeOK, EachOnce
<1>4. TypeOK'
    BY <1>1, <1>2, <1>3 DEF TypeOK
<1>5. Begun' /\ LegsToGo'
    BY <1>1, <1>2, <1>3, Values DEF Begun, LegsToGo
<1>6. EachOnce' /\ AfterLombard'
    BY <1>1, <1>2, <1>3, Values DEF EachOnce, AfterLombard
<1>7. OnlyFirst'
    BY <1>1, <1>2, <1>3, Values DEF OnlyFirst
<1>8. Tracked'
    BY <1>1, <1>2, <1>3, <1>4, Values, TrackedKept
<1>9. QED
    BY <1>4, <1>5, <1>6, <1>7, <1>8 DEF SwapInv

LEMMA AnsweredInv ==
    ASSUME SwapInv, NEW s \in Swaps, Answered(s)
    PROVE  SwapInv'
<1> USE SwapsAssumption
<1>1. TypeOK /\ Begun /\ LegsToGo /\ EachOnce /\ AfterLombard /\ OnlyFirst
    BY DEF SwapInv
<1>2. /\ UNCHANGED <<open, continuing, started, settled, early, late, checks, seconds,
                     sentSeconds, out, entered, regressed, doubled, clicks, taken, removed, reloads>>
      /\ run[s] = "sent" /\ busy' \in BOOLEAN
      /\ leg' \in [Swaps -> Nat] /\ leg'[s] = leg[s] + 1 /\ leg'[s] <= Legs[s]
      /\ \A x \in Swaps \ {s} : leg'[x] = leg[x] /\ run'[x] = run[x]
      /\ run' \in [Swaps -> {"new", "sending", "sent", "over", "lost"}]
      /\ IF leg[s] + 1 < Legs[s] THEN run'[s] = "sending" ELSE run'[s] = "over"
    <2>1. leg[s] < Legs[s] /\ leg' = [leg EXCEPT ![s] = @ + 1] /\ run[s] = "sent"
        BY <1>1 DEF Answered, LegsToGo
    <2>2. leg' \in [Swaps -> Nat] /\ leg'[s] = leg[s] + 1 /\ \A x \in Swaps \ {s} : leg'[x] = leg[x]
        BY <1>1, <2>1, Values DEF TypeOK
    <2>3. leg[s] + 1 <= Legs[s]
        BY <1>1, <2>1, Values
    <2>4. UNCHANGED <<open, continuing, started, settled, looks, second, history>>
        BY DEF Answered
    <2>5. CASE leg[s] + 1 < Legs[s]
        <3>1. run' = [run EXCEPT ![s] = "sending"] /\ busy' = busy
            BY <2>5 DEF Answered, MoreLegs
        <3>2. QED
            BY <1>1, <2>1, <2>2, <2>3, <2>4, <2>5, <3>1 DEF TypeOK, looks, second, history
    <2>6. CASE ~ (leg[s] + 1 < Legs[s])
        <3>1. run' = [run EXCEPT ![s] = "over"] /\ busy' = FALSE
            BY <2>6 DEF Answered, MoreLegs
        <3>2. QED
            BY <1>1, <2>1, <2>2, <2>3, <2>4, <2>6, <3>1 DEF TypeOK, looks, second, history
    <2>7. QED
        BY <2>5, <2>6
<1>3. s <= started
    BY <1>1, <1>2, Values DEF Begun
<1>4. PICK status \in Statuses :
          /\ Save(s, status)
          /\ \/ run'[s] = "sending" /\ status = "running"
             \/ run'[s] = "over" /\ s \in Waits /\ status = "waiting"
             \/ run'[s] = "over" /\ s \notin Waits /\ status = "done"
    <2>1. CASE MoreLegs(s)
        <3>1. Save(s, "running")
            BY <2>1 DEF Answered
        <3>2. run'[s] = "sending"
            BY <1>2, <2>1 DEF MoreLegs
        <3>3. "running" \in Statuses
            BY DEF Statuses
        <3>4. QED
            BY <3>1, <3>2, <3>3
    <2>2. CASE ~ MoreLegs(s)
        <3>1. Save(s, IF s \in Waits THEN "waiting" ELSE "done")
            BY <2>2 DEF Answered
        <3>2. run'[s] = "over"
            BY <1>2, <2>2 DEF MoreLegs
        <3>3. "waiting" \in Statuses /\ "done" \in Statuses
            BY DEF Statuses
        <3>4. CASE s \in Waits
            BY <3>1, <3>2, <3>3, <3>4
        <3>5. CASE s \notin Waits
            BY <3>1, <3>2, <3>3, <3>5
        <3>6. QED
            BY <3>4, <3>5
    <2>3. QED
        BY <2>1, <2>2
<1>5. /\ list' \in [Swaps -> Statuses \cup {"absent"}]
      /\ list'[s] \in {"absent", status}
      /\ \A x \in Swaps \ {s} : list'[x] \in {"absent", list[x]}
    BY <1>3, <1>4, SaveResult
<1>6. \A x \in Swaps : list'[x] = "absent" =>
          (x # s /\ list[x] = "absent") \/ Cardinality(Newer(x, started)) >= MaxKept
    BY <1>3, <1>4, SaveResult
<1>7. TypeOK'
    BY <1>1, <1>2, <1>5 DEF TypeOK
<1>8. Begun' /\ LegsToGo'
    BY <1>1, <1>2, <1>3, <1>5, Values DEF Begun, LegsToGo
<1>9. EachOnce' /\ AfterLombard'
    BY <1>1, <1>2, Values DEF EachOnce, AfterLombard
<1>10. OnlyFirst'
    BY <1>1, <1>2, <1>4, <1>5, Values DEF OnlyFirst
<1>11. Tracked'
    <2>1. /\ removed \subseteq removed' /\ settled \subseteq settled' /\ started <= started'
          /\ \A x \in Swaps : out[x] <= out'[x]
        BY <1>1, <1>2, <1>4, <1>5, <1>6, Values
    <2>2. \A x \in Swaps : list'[x] = "absent" /\ run'[x] = "over" =>
              \/ run[x] = "over" /\ list[x] = "absent"
              \/ Cardinality(Newer(x, started)) >= MaxKept
        BY <1>1, <1>2, <1>4, <1>5, <1>6
    <2>3. \A x \in Swaps : list'[x] = "done" =>
              \/ list[x] = "done"
              \/ (x \in Waits => x \in settled') /\ (x \in Quick => out'[x] > 0)
        BY <1>1, <1>2, <1>4, <1>5, <1>6, Values DEF EachOnce, AfterLombard, Statuses
    <2>4. \A x \in Swaps : list'[x] = "ready" => list[x] = "ready" \/ x \in settled'
        BY <1>1, <1>2, <1>4, <1>5, <1>6 DEF Statuses
    <2>5. QED
        BY <1>7, <2>1, <2>2, <2>3, <2>4, TrackedKept
<1>12. QED
    BY <1>7, <1>8, <1>9, <1>10, <1>11 DEF SwapInv

LEMMA RunFailsInv ==
    ASSUME SwapInv, NEW s \in Swaps, RunFails(s)
    PROVE  SwapInv'
<1> USE SwapsAssumption
<1>1. TypeOK /\ Begun /\ LegsToGo /\ EachOnce /\ AfterLombard /\ OnlyFirst
    BY DEF SwapInv
<1>2. /\ UNCHANGED <<open, continuing, started, leg, settled, early, late, checks, seconds,
                     sentSeconds, out, entered, regressed, doubled, clicks, taken, removed, reloads>>
      /\ run[s] \in {"sending", "sent"} /\ busy' \in BOOLEAN
      /\ run' \in [Swaps -> {"new", "sending", "sent", "over", "lost"}] /\ run'[s] = "lost"
      /\ \A x \in Swaps \ {s} : run'[x] = run[x]
    BY <1>1, Values DEF RunFails, view, flow, looks, second, history, TypeOK, LegsToGo
<1>3. s <= started
    BY <1>1, <1>2, Values DEF Begun
<1>4. Save(s, "failed") /\ "failed" \in Statuses
    BY <1>1 DEF RunFails, Statuses, AfterLombard
<1>5. /\ list' \in [Swaps -> Statuses \cup {"absent"}]
      /\ list'[s] \in {"absent", "failed"}
      /\ \A x \in Swaps \ {s} : list'[x] \in {"absent", list[x]}
    BY <1>3, <1>4, SaveResult
<1>6. \A x \in Swaps : list'[x] = "absent" =>
          (x # s /\ list[x] = "absent") \/ Cardinality(Newer(x, started)) >= MaxKept
    BY <1>3, <1>4, SaveResult
<1>7. TypeOK'
    BY <1>1, <1>2, <1>5 DEF TypeOK
<1>8. Begun' /\ LegsToGo'
    BY <1>1, <1>2, <1>3, <1>5, Values DEF Begun, LegsToGo
<1>9. EachOnce' /\ AfterLombard'
    BY <1>1, <1>2, Values DEF EachOnce, AfterLombard
<1>10. OnlyFirst'
    BY <1>1, <1>2, <1>4, <1>5, Values DEF OnlyFirst
<1>11. Tracked'
    <2>1. /\ removed \subseteq removed' /\ settled \subseteq settled' /\ started <= started'
          /\ \A x \in Swaps : out[x] <= out'[x]
        BY <1>1, <1>2, <1>4, <1>5, <1>6, Values
    <2>2. \A x \in Swaps : list'[x] = "absent" /\ run'[x] = "over" =>
              \/ run[x] = "over" /\ list[x] = "absent"
              \/ Cardinality(Newer(x, started)) >= MaxKept
        BY <1>1, <1>2, <1>4, <1>5, <1>6
    <2>3. \A x \in Swaps : list'[x] = "done" =>
              \/ list[x] = "done"
              \/ (x \in Waits => x \in settled') /\ (x \in Quick => out'[x] > 0)
        BY <1>1, <1>2, <1>4, <1>5, <1>6, Values DEF EachOnce, AfterLombard, Statuses
    <2>4. \A x \in Swaps : list'[x] = "ready" => list[x] = "ready" \/ x \in settled'
        BY <1>1, <1>2, <1>4, <1>5, <1>6 DEF Statuses
    <2>5. QED
        BY <1>7, <2>1, <2>2, <2>3, <2>4, TrackedKept
<1>12. QED
    BY <1>7, <1>8, <1>9, <1>10, <1>11 DEF SwapInv

LEMMA EarlyAnswerInv ==
    ASSUME SwapInv, NEW s \in Swaps, EarlyAnswer(s)
    PROVE  SwapInv'
<1> USE SwapsAssumption
<1>1. TypeOK /\ Begun /\ LegsToGo /\ EachOnce /\ AfterLombard /\ OnlyFirst
    BY DEF SwapInv
<1>2. /\ UNCHANGED <<open, busy, continuing, started, run, leg, settled, late, checks,
                     seconds, sentSeconds, out, entered, doubled, clicks, taken, removed, reloads>>
      /\ regressed' = IF list[s] = "waiting" THEN regressed ELSE regressed \cup {s}
    BY <1>1, Values DEF EarlyAnswer, view, flow, looks, second, history, TypeOK, LegsToGo, Copy
<1>3. /\ early' \in [Swaps -> 0..MaxLooks] /\ early[s] > 0 /\ early'[s] = early[s] - 1
      /\ \A x \in Swaps \ {s} : early'[x] = early[x]
    BY <1>1, Values, CountUp, CountDown
    DEF EarlyAnswer, view, flow, looks, second, history, TypeOK, EachOnce, Copy
<1>4. s <= started
    BY <1>1, <1>2, <1>3, Values DEF Begun
<1>5. PICK status \in {"waiting", "ready", "done"} :
          /\ Save(s, status) /\ status \in Statuses
          /\ status = "ready" => s \in settled
          /\ status = "done" => s \in settled /\ s \notin Quick
    BY <1>1, <1>3 DEF EarlyAnswer, Statuses, AfterLombard, Copy, Arrived
<1>6. /\ list' \in [Swaps -> Statuses \cup {"absent"}]
      /\ list'[s] \in {"absent", status}
      /\ \A x \in Swaps \ {s} : list'[x] \in {"absent", list[x]}
    BY <1>4, <1>5, SaveResult
<1>7. \A x \in Swaps : list'[x] = "absent" =>
          (x # s /\ list[x] = "absent") \/ Cardinality(Newer(x, started)) >= MaxKept
    BY <1>4, <1>5, SaveResult
<1>8. TypeOK'
    BY <1>1, <1>2, <1>3, <1>6 DEF TypeOK
<1>9. Begun' /\ LegsToGo'
    BY <1>1, <1>2, <1>3, <1>4, <1>6, Values DEF Begun, LegsToGo
<1>10. EachOnce' /\ AfterLombard'
    BY <1>1, <1>2, <1>3, Values DEF EachOnce, AfterLombard
<1>11. OnlyFirst'
    BY <1>1, <1>2, <1>3, <1>5, <1>6, Values DEF OnlyFirst
<1>12. Tracked'
    <2>1. /\ removed \subseteq removed' /\ settled \subseteq settled' /\ started <= started'
          /\ \A x \in Swaps : out[x] <= out'[x]
        BY <1>1, <1>2, <1>3, <1>5, <1>6, <1>7, Values
    <2>2. \A x \in Swaps : list'[x] = "absent" /\ run'[x] = "over" =>
              \/ run[x] = "over" /\ list[x] = "absent"
              \/ Cardinality(Newer(x, started)) >= MaxKept
        BY <1>1, <1>2, <1>3, <1>5, <1>6, <1>7
    <2>3. \A x \in Swaps : list'[x] = "done" =>
              \/ list[x] = "done"
              \/ (x \in Waits => x \in settled') /\ (x \in Quick => out'[x] > 0)
        BY <1>1, <1>2, <1>3, <1>5, <1>6, <1>7, Values DEF EachOnce, AfterLombard, Statuses
    <2>4. \A x \in Swaps : list'[x] = "ready" => list[x] = "ready" \/ x \in settled'
        BY <1>1, <1>2, <1>3, <1>5, <1>6, <1>7 DEF Statuses
    <2>5. QED
        BY <1>8, <2>1, <2>2, <2>3, <2>4, TrackedKept
<1>13. QED
    BY <1>8, <1>9, <1>10, <1>11, <1>12 DEF SwapInv

LEMMA LateAnswerInv ==
    ASSUME SwapInv, NEW s \in Swaps, LateAnswer(s)
    PROVE  SwapInv'
<1> USE SwapsAssumption
<1>1. TypeOK /\ Begun /\ LegsToGo /\ EachOnce /\ AfterLombard /\ OnlyFirst
    BY DEF SwapInv
<1>2. /\ UNCHANGED <<open, busy, continuing, started, run, leg, settled, early, checks,
                     seconds, sentSeconds, out, entered, doubled, clicks, taken, removed, reloads>>
      /\ regressed' = IF list[s] = "waiting" THEN regressed ELSE regressed \cup {s}
    BY <1>1, Values DEF LateAnswer, view, flow, looks, second, history, TypeOK, LegsToGo, Copy
<1>3. /\ late' \in [Swaps -> 0..MaxLooks] /\ late[s] > 0 /\ late'[s] = late[s] - 1
      /\ \A x \in Swaps \ {s} : late'[x] = late[x]
    BY <1>1, Values, CountUp, CountDown
    DEF LateAnswer, view, flow, looks, second, history, TypeOK, EachOnce, Copy
<1>4. s <= started
    BY <1>1, <1>2, <1>3, Values DEF Begun
<1>5. PICK status \in {"waiting", "ready", "done"} :
          /\ Save(s, status) /\ status \in Statuses
          /\ status = "ready" => s \in settled
          /\ status = "done" => s \in settled /\ s \notin Quick
    BY <1>1, <1>3 DEF LateAnswer, Statuses, AfterLombard, Copy, Arrived
<1>6. /\ list' \in [Swaps -> Statuses \cup {"absent"}]
      /\ list'[s] \in {"absent", status}
      /\ \A x \in Swaps \ {s} : list'[x] \in {"absent", list[x]}
    BY <1>4, <1>5, SaveResult
<1>7. \A x \in Swaps : list'[x] = "absent" =>
          (x # s /\ list[x] = "absent") \/ Cardinality(Newer(x, started)) >= MaxKept
    BY <1>4, <1>5, SaveResult
<1>8. TypeOK'
    BY <1>1, <1>2, <1>3, <1>6 DEF TypeOK
<1>9. Begun' /\ LegsToGo'
    BY <1>1, <1>2, <1>3, <1>4, <1>6, Values DEF Begun, LegsToGo
<1>10. EachOnce' /\ AfterLombard'
    BY <1>1, <1>2, <1>3, Values DEF EachOnce, AfterLombard
<1>11. OnlyFirst'
    BY <1>1, <1>2, <1>3, <1>5, <1>6, Values DEF OnlyFirst
<1>12. Tracked'
    <2>1. /\ removed \subseteq removed' /\ settled \subseteq settled' /\ started <= started'
          /\ \A x \in Swaps : out[x] <= out'[x]
        BY <1>1, <1>2, <1>3, <1>5, <1>6, <1>7, Values
    <2>2. \A x \in Swaps : list'[x] = "absent" /\ run'[x] = "over" =>
              \/ run[x] = "over" /\ list[x] = "absent"
              \/ Cardinality(Newer(x, started)) >= MaxKept
        BY <1>1, <1>2, <1>3, <1>5, <1>6, <1>7
    <2>3. \A x \in Swaps : list'[x] = "done" =>
              \/ list[x] = "done"
              \/ (x \in Waits => x \in settled') /\ (x \in Quick => out'[x] > 0)
        BY <1>1, <1>2, <1>3, <1>5, <1>6, <1>7, Values DEF EachOnce, AfterLombard, Statuses
    <2>4. \A x \in Swaps : list'[x] = "ready" => list[x] = "ready" \/ x \in settled'
        BY <1>1, <1>2, <1>3, <1>5, <1>6, <1>7 DEF Statuses
    <2>5. QED
        BY <1>8, <2>1, <2>2, <2>3, <2>4, TrackedKept
<1>13. QED
    BY <1>8, <1>9, <1>10, <1>11, <1>12 DEF SwapInv

LEMMA ProceedInv ==
    ASSUME SwapInv, NEW s \in Swaps, Proceed(s)
    PROVE  SwapInv'
<1> USE SwapsAssumption
<1>1. TypeOK /\ Begun /\ LegsToGo /\ EachOnce /\ AfterLombard /\ OnlyFirst
    BY DEF SwapInv
<1>2. /\ UNCHANGED <<open, busy, continuing, started, run, leg, settled, early, late,
                     sentSeconds, out, entered, regressed, doubled, clicks, removed, reloads>>
      /\ taken' = taken \cup {s}
    BY <1>1, Values DEF Proceed, view, flow, looks, second, history, TypeOK, LegsToGo
<1>3. /\ checks' \in [Swaps -> 0..MaxContinues] /\ checks[s] > 0 /\ checks'[s] = checks[s] - 1
      /\ \A x \in Swaps \ {s} : checks'[x] = checks[x]
      /\ seconds' \in [Swaps -> 0..MaxContinues] /\ seconds'[s] = seconds[s] + 1
      /\ \A x \in Swaps \ {s} : seconds'[x] = seconds[x]
    BY <1>1, Values, CountUp, CountDown
    DEF Proceed, view, flow, looks, second, history, TypeOK, EachOnce
<1>4. s <= started
    BY <1>1, <1>2, <1>3, Values DEF Begun
<1>5. Save(s, "running") /\ "running" \in Statuses
    BY <1>1, <1>3 DEF Proceed, Statuses, AfterLombard
<1>6. /\ list' \in [Swaps -> Statuses \cup {"absent"}]
      /\ list'[s] \in {"absent", "running"}
      /\ \A x \in Swaps \ {s} : list'[x] \in {"absent", list[x]}
    BY <1>4, <1>5, SaveResult
<1>7. \A x \in Swaps : list'[x] = "absent" =>
          (x # s /\ list[x] = "absent") \/ Cardinality(Newer(x, started)) >= MaxKept
    BY <1>4, <1>5, SaveResult
<1>8. TypeOK'
    BY <1>1, <1>2, <1>3, <1>6 DEF TypeOK
<1>9. Begun' /\ LegsToGo'
    BY <1>1, <1>2, <1>3, <1>4, <1>6, Values DEF Begun, LegsToGo
<1>10. EachOnce' /\ AfterLombard'
    <2>1. EachOnce'
        BY <1>1, <1>2, <1>3, Values DEF EachOnce
    <2>2. AfterLombard'
        BY <1>1, <1>2, <1>3, Values DEF AfterLombard
    <2>3. QED
        BY <2>1, <2>2
<1>11. OnlyFirst'
    BY <1>1, <1>2, <1>3, <1>5, <1>6, Values DEF OnlyFirst
<1>12. Tracked'
    <2>1. /\ removed \subseteq removed' /\ settled \subseteq settled' /\ started <= started'
          /\ \A x \in Swaps : out[x] <= out'[x]
        BY <1>1, <1>2, <1>3, <1>5, <1>6, <1>7, Values
    <2>2. \A x \in Swaps : list'[x] = "absent" /\ run'[x] = "over" =>
              \/ run[x] = "over" /\ list[x] = "absent"
              \/ Cardinality(Newer(x, started)) >= MaxKept
        BY <1>1, <1>2, <1>3, <1>5, <1>6, <1>7
    <2>3. \A x \in Swaps : list'[x] = "done" =>
              \/ list[x] = "done"
              \/ (x \in Waits => x \in settled') /\ (x \in Quick => out'[x] > 0)
        BY <1>1, <1>2, <1>3, <1>5, <1>6, <1>7, Values DEF EachOnce, AfterLombard, Statuses
    <2>4. \A x \in Swaps : list'[x] = "ready" => list[x] = "ready" \/ x \in settled'
        BY <1>1, <1>2, <1>3, <1>5, <1>6, <1>7 DEF Statuses
    <2>5. QED
        BY <1>8, <2>1, <2>2, <2>3, <2>4, TrackedKept
<1>13. QED
    BY <1>8, <1>9, <1>10, <1>11, <1>12 DEF SwapInv

LEMMA SecondDoneInv ==
    ASSUME SwapInv, NEW s \in Swaps, SecondDone(s)
    PROVE  SwapInv'
<1> USE SwapsAssumption
<1>1. TypeOK /\ Begun /\ LegsToGo /\ EachOnce /\ AfterLombard /\ OnlyFirst
    BY DEF SwapInv
<1>2. /\ UNCHANGED <<open, busy, started, run, leg, settled, early, late, checks, seconds,
                     out, entered, regressed, doubled, clicks, taken, removed, reloads>>
      /\ continuing' \in BOOLEAN
    BY <1>1, Values DEF SecondDone, view, flow, looks, second, history, TypeOK, LegsToGo
<1>3. /\ sentSeconds' \in [Swaps -> 0..MaxContinues]
      /\ sentSeconds[s] > 0 /\ sentSeconds'[s] = sentSeconds[s] - 1
      /\ \A x \in Swaps \ {s} : sentSeconds'[x] = sentSeconds[x]
    BY <1>1, Values, CountUp, CountDown
    DEF SecondDone, view, flow, looks, second, history, TypeOK, EachOnce
<1>4. s <= started
    BY <1>1, <1>2, <1>3, Values DEF Begun
<1>5. Save(s, "done") /\ "done" \in Statuses
    BY <1>1, <1>3 DEF SecondDone, Statuses, AfterLombard
<1>6. /\ list' \in [Swaps -> Statuses \cup {"absent"}]
      /\ list'[s] \in {"absent", "done"}
      /\ \A x \in Swaps \ {s} : list'[x] \in {"absent", list[x]}
    BY <1>4, <1>5, SaveResult
<1>7. \A x \in Swaps : list'[x] = "absent" =>
          (x # s /\ list[x] = "absent") \/ Cardinality(Newer(x, started)) >= MaxKept
    BY <1>4, <1>5, SaveResult
<1>8. TypeOK'
    BY <1>1, <1>2, <1>3, <1>6 DEF TypeOK
<1>9. Begun' /\ LegsToGo'
    BY <1>1, <1>2, <1>3, <1>4, <1>6, Values DEF Begun, LegsToGo
<1>10. EachOnce' /\ AfterLombard'
    <2>1. EachOnce'
        BY <1>1, <1>2, <1>3, Values DEF EachOnce
    <2>2. AfterLombard'
        BY <1>1, <1>2, <1>3, Values DEF AfterLombard
    <2>3. QED
        BY <2>1, <2>2
<1>11. OnlyFirst'
    BY <1>1, <1>2, <1>3, <1>5, <1>6, Values DEF OnlyFirst
<1>12. Tracked'
    <2>1. /\ removed \subseteq removed' /\ settled \subseteq settled' /\ started <= started'
          /\ \A x \in Swaps : out[x] <= out'[x]
        BY <1>1, <1>2, <1>3, <1>5, <1>6, <1>7, Values
    <2>2. \A x \in Swaps : list'[x] = "absent" /\ run'[x] = "over" =>
              \/ run[x] = "over" /\ list[x] = "absent"
              \/ Cardinality(Newer(x, started)) >= MaxKept
        BY <1>1, <1>2, <1>3, <1>5, <1>6, <1>7
    <2>3. \A x \in Swaps : list'[x] = "done" =>
              \/ list[x] = "done"
              \/ (x \in Waits => x \in settled') /\ (x \in Quick => out'[x] > 0)
        BY <1>1, <1>2, <1>3, <1>5, <1>6, <1>7, Values DEF EachOnce, AfterLombard, Statuses
    <2>4. \A x \in Swaps : list'[x] = "ready" => list[x] = "ready" \/ x \in settled'
        BY <1>1, <1>2, <1>3, <1>5, <1>6, <1>7 DEF Statuses
    <2>5. QED
        BY <1>8, <2>1, <2>2, <2>3, <2>4, TrackedKept
<1>13. QED
    BY <1>8, <1>9, <1>10, <1>11, <1>12 DEF SwapInv

LEMMA SecondFailsInv ==
    ASSUME SwapInv, NEW s \in Swaps, SecondFails(s)
    PROVE  SwapInv'
<1> USE SwapsAssumption
<1>1. TypeOK /\ Begun /\ LegsToGo /\ EachOnce /\ AfterLombard /\ OnlyFirst
    BY DEF SwapInv
<1>2. /\ UNCHANGED <<open, busy, started, run, leg, settled, early, late, checks, out,
                     entered, regressed, doubled, clicks, taken, removed, reloads>>
      /\ continuing' \in BOOLEAN
    BY <1>1, Values DEF SecondFails, view, flow, looks, second, history, TypeOK, LegsToGo
<1>3. /\ seconds' \in [Swaps -> 0..MaxContinues] /\ sentSeconds' \in [Swaps -> 0..MaxContinues]
      /\ seconds[s] > 0 \/ sentSeconds[s] > 0
      /\ \A x \in Swaps : /\ seconds'[x] \in Nat /\ seconds'[x] <= seconds[x]
                         /\ sentSeconds'[x] \in Nat /\ sentSeconds'[x] <= sentSeconds[x]
    <2>1. CASE seconds[s] > 0 /\ seconds' = [seconds EXCEPT ![s] = @ - 1] /\ sentSeconds' = sentSeconds
        BY <1>1, <2>1, Values, CountDown DEF TypeOK
    <2>2. CASE sentSeconds[s] > 0 /\ sentSeconds' = [sentSeconds EXCEPT ![s] = @ - 1] /\ seconds' = seconds
        BY <1>1, <2>2, Values, CountDown DEF TypeOK
    <2>3. QED
        BY <2>1, <2>2 DEF SecondFails
<1>4. s <= started
    BY <1>1, <1>2, <1>3, Values DEF Begun
<1>5. Save(s, "failed") /\ "failed" \in Statuses
    BY <1>1, <1>3 DEF SecondFails, Statuses, AfterLombard
<1>6. /\ list' \in [Swaps -> Statuses \cup {"absent"}]
      /\ list'[s] \in {"absent", "failed"}
      /\ \A x \in Swaps \ {s} : list'[x] \in {"absent", list[x]}
    BY <1>4, <1>5, SaveResult
<1>7. \A x \in Swaps : list'[x] = "absent" =>
          (x # s /\ list[x] = "absent") \/ Cardinality(Newer(x, started)) >= MaxKept
    BY <1>4, <1>5, SaveResult
<1>8. TypeOK'
    BY <1>1, <1>2, <1>3, <1>6 DEF TypeOK
<1>9. Begun' /\ LegsToGo'
    BY <1>1, <1>2, <1>3, <1>4, <1>6, Values DEF Begun, LegsToGo
<1>10. EachOnce' /\ AfterLombard'
    <2>1. EachOnce'
        BY <1>1, <1>2, <1>3, Values DEF EachOnce
    <2>2. AfterLombard'
        BY <1>1, <1>2, <1>3, Values DEF AfterLombard
    <2>3. QED
        BY <2>1, <2>2
<1>11. OnlyFirst'
    BY <1>1, <1>2, <1>3, <1>5, <1>6, Values DEF OnlyFirst
<1>12. Tracked'
    <2>1. /\ removed \subseteq removed' /\ settled \subseteq settled' /\ started <= started'
          /\ \A x \in Swaps : out[x] <= out'[x]
        BY <1>1, <1>2, <1>3, <1>5, <1>6, <1>7, Values
    <2>2. \A x \in Swaps : list'[x] = "absent" /\ run'[x] = "over" =>
              \/ run[x] = "over" /\ list[x] = "absent"
              \/ Cardinality(Newer(x, started)) >= MaxKept
        BY <1>1, <1>2, <1>3, <1>5, <1>6, <1>7
    <2>3. \A x \in Swaps : list'[x] = "done" =>
              \/ list[x] = "done"
              \/ (x \in Waits => x \in settled') /\ (x \in Quick => out'[x] > 0)
        BY <1>1, <1>2, <1>3, <1>5, <1>6, <1>7, Values DEF EachOnce, AfterLombard, Statuses
    <2>4. \A x \in Swaps : list'[x] = "ready" => list[x] = "ready" \/ x \in settled'
        BY <1>1, <1>2, <1>3, <1>5, <1>6, <1>7 DEF Statuses
    <2>5. QED
        BY <1>8, <2>1, <2>2, <2>3, <2>4, TrackedKept
<1>13. QED
    BY <1>8, <1>9, <1>10, <1>11, <1>12 DEF SwapInv

LEMMA SwapNext == SwapInv /\ [Next]_vars => SwapInv'
<1> SUFFICES ASSUME SwapInv, [Next]_vars PROVE SwapInv'
    OBVIOUS
<1>1. CASE UNCHANGED vars
    BY <1>1 DEF vars, view, flow, looks, second, history, SwapInv, TypeOK, Begun, LegsToGo,
       EachOnce, AfterLombard, OnlyFirst, Tracked
<1>2. CASE Start \/ Leave \/ Return \/ Reload
    BY <1>2, StartInv, PageInv, ReloadInv
<1>3. ASSUME NEW s \in Swaps, Broadcast(s) \/ Answered(s) \/ RunFails(s) \/ Settle(s)
      PROVE  SwapInv'
    BY <1>3, BroadcastInv, AnsweredInv, RunFailsInv, SettleInv
<1>4. ASSUME NEW s \in Swaps, Look(s) \/ EarlyAnswer(s) \/ LateAnswer(s) \/ LookFails(s)
      PROVE  SwapInv'
    BY <1>4, LookInv, EarlyAnswerInv, LateAnswerInv, LookFailsInv
<1>5. ASSUME NEW s \in Swaps, \/ Click(s) \/ Continue(s) \/ ClickFails(s) \/ Proceed(s) \/ ProceedFails(s)
                             \/ SendSecond(s) \/ SecondDone(s) \/ SecondFails(s) \/ Remove(s)
      PROVE  SwapInv'
    BY <1>5, ClickInv, ContinueInv, ClickFailsInv, ProceedInv, ProceedFailsInv, SendSecondInv, SecondDoneInv, SecondFailsInv,
       RemoveInv
<1>6. QED
    BY <1>1, <1>2, <1>3, <1>4, <1>5 DEF Next

-----------------------------------------------------------------------------
(* The theorems.                                                           *)

\* The inductive invariant holds of every behaviour.
THEOREM SwapInvariant == Spec => []SwapInv
<1>1. QED
    BY SwapInit, SwapNext, PTL DEF Spec

\* The list, the runs, the refreshes and the continuations stay in their types.
THEOREM TypeCorrect == Spec => []TypeOK
<1>1. SwapInv => TypeOK
    BY DEF SwapInv
<1>2. QED
    BY <1>1, SwapInvariant, PTL

\* The second step of a quick swap is sent once at most, whatever fails, however
\* often the page is left, reloaded or polled and the button clicked - unless a
\* refresh overwrote the record or two continuations awaited the balance at once.
THEOREM SecondStepSentOnce == Spec => []SecondStepOnce
<1>1. SwapInv => SecondStepOnce
    <2>1. ASSUME SwapInv PROVE TypeOK /\ OnlyFirst
        BY <2>1 DEF SwapInv
    <2>2. QED
        BY <2>1, Values DEF OnlyFirst, SecondStepOnce
<1>2. QED
    BY <1>1, SwapInvariant, PTL

\* A swap whose run is over stays in the list until the user or MAX_KEPT newer
\* ones remove it, and is never done before Lombard and the second step are.
THEOREM RecordsTell == Spec => []Tracked
<1>1. SwapInv => Tracked
    BY DEF SwapInv
<1>2. QED
    BY <1>1, SwapInvariant, PTL

-----------------------------------------------------------------------------
(* The life of a record.                                                   *)

\* What may follow what.
Forward == {<<"running", "waiting">>, <<"running", "done">>, <<"running", "failed">>,
            <<"waiting", "ready">>, <<"waiting", "done">>, <<"ready", "running">>}

MovesOn(s) ==
    list[s] # "absent" /\ s \notin regressed' \cup doubled =>
        list'[s] \in {list[s], "absent"} \/ <<list[s], list'[s]>> \in Forward

\* A record only goes forward, and what is done or has failed stays so.
OnlyForward == [][\A s \in Swaps : MovesOn(s)]_vars

\* Nothing is under way for a record that is done or has failed; a click that is
\* still at the gate will find it so.
AtRest(s) ==
    list[s] \in {"done", "failed"} /\ s \notin regressed \cup doubled =>
        /\ run[s] \notin {"sending", "sent"}
        /\ clicks[s] > 0 => s \in taken
        /\ checks[s] = 0 /\ seconds[s] = 0 /\ sentSeconds[s] = 0

RestInv == \A s \in Swaps : AtRest(s)

\* A step that does nothing for x but to drop its record or end what is under
\* way.
LeavesAlone(x) ==
    /\ list'[x] \in {"absent", list[x]}
    /\ run'[x] \in {run[x], "lost"}
    /\ clicks'[x] > 0 => clicks[x] > 0
    /\ x \in taken => x \in taken'
    /\ checks'[x] \in {0, checks[x]}
    /\ seconds'[x] \in {0, seconds[x]}
    /\ sentSeconds'[x] \in {0, sentSeconds[x]}
    /\ x \in regressed \cup doubled => x \in regressed' \cup doubled'

LEMMA LeftAlone ==
    ASSUME NEW x \in Swaps, AtRest(x), LeavesAlone(x)
    PROVE  AtRest(x)' /\ MovesOn(x)
BY DEF AtRest, LeavesAlone, MovesOn

LEMMA QuietSteps ==
    ASSUME SwapInv, RestInv, NEW x \in Swaps,
           \/ Start \/ Leave \/ Return \/ Reload \/ UNCHANGED vars
           \/ \E s \in Swaps : Settle(s) \/ Look(s) \/ LookFails(s) \/ Remove(s)
    PROVE  AtRest(x)' /\ MovesOn(x)
<1>1. TypeOK /\ AtRest(x)
    BY DEF SwapInv, RestInv
<1>2. CASE Start
    <2>1. list'[x] = list[x] /\ UNCHANGED <<second, history>>
          /\ \A y \in Swaps : run'[y] = run[y] \/ y = started + 1
        BY <1>1, <1>2 DEF Start, TypeOK
    <2>2. x = started + 1 => list[x] = "absent"
        BY <1>1 DEF SwapInv, Begun, TypeOK
    <2>3. QED
        BY <1>1, <2>1, <2>2 DEF AtRest, MovesOn, second, history
<1>3. CASE Reload
    <2>1. LeavesAlone(x)
        BY <1>1, <1>3 DEF Reload, LeavesAlone, TypeOK
    <2>2. QED
        BY <1>1, <2>1, LeftAlone
<1>4. CASE \/ Leave \/ Return \/ UNCHANGED vars
           \/ \E s \in Swaps : Settle(s) \/ Look(s) \/ LookFails(s)
    <2>1. UNCHANGED <<list, run, clicks, taken, checks, seconds, sentSeconds, regressed, doubled>>
        BY <1>4 DEF Leave, Return, Settle, Look, LookFails, vars, flow, second, history
    <2>2. LeavesAlone(x)
        BY <2>1 DEF LeavesAlone
    <2>3. QED
        BY <1>1, <2>2, LeftAlone
<1>5. ASSUME NEW s \in Swaps, Remove(s)
      PROVE  AtRest(x)' /\ MovesOn(x)
    <2>1. list'[x] \in {"absent", list[x]}
          /\ UNCHANGED <<run, clicks, taken, checks, seconds, sentSeconds, regressed, doubled>>
        BY <1>1, <1>5 DEF Remove, TypeOK, flow, second
    <2>2. LeavesAlone(x)
        BY <2>1 DEF LeavesAlone
    <2>3. QED
        BY <1>1, <2>2, LeftAlone
<1>6. QED
    BY <1>2, <1>3, <1>4, <1>5

\* Steps of one swap that save no record.
LEMMA UnsavedSteps ==
    ASSUME SwapInv, RestInv, NEW s \in Swaps, NEW x \in Swaps,
           \/ Broadcast(s) \/ Click(s) \/ Continue(s) \/ ClickFails(s)
           \/ ProceedFails(s) \/ SendSecond(s)
    PROVE  AtRest(x)' /\ MovesOn(x)
<1> USE DEF Broadcast, Click, Continue, ClickFails, ProceedFails, SendSecond, StillReady
<1>1. TypeOK /\ AtRest(x) /\ list' = list
    BY DEF SwapInv, RestInv
<1>2. CASE x # s
    <2>1. LeavesAlone(x)
        BY <1>1, <1>2 DEF LeavesAlone, TypeOK, flow, second, history
    <2>2. QED
        BY <1>1, <2>1, LeftAlone
<1>3. CASE ClickFails(s) /\ x = s
    <2>1. clicks'[x] > 0 => clicks[x] > 0
        BY <1>1, <1>3, Values DEF TypeOK
    <2>2. LeavesAlone(x)
        BY <1>1, <1>3, <2>1 DEF LeavesAlone, flow, history
    <2>3. QED
        BY <1>1, <2>2, LeftAlone
<1>4. CASE ~ ClickFails(s) /\ x = s
    <2>1. \/ list[x] = "ready" \/ run[x] = "sending"
          \/ clicks[x] > 0 /\ (x \notin taken \/ x \in regressed)
          \/ checks[x] > 0 \/ seconds[x] > 0
        BY <1>4
    <2>2. regressed \subseteq regressed' /\ doubled \subseteq doubled'
        BY <1>4 DEF second, history
    <2>3. list[x] \notin {"done", "failed"} \/ x \in regressed \cup doubled
        BY <1>1, <2>1, Values DEF AtRest
    <2>4. QED
        BY <1>1, <2>2, <2>3 DEF AtRest, MovesOn
<1>5. QED
    BY <1>2, <1>3, <1>4

\* saveSwap() of s leaves the other records alone.
LEMMA SavedAlone ==
    ASSUME SwapInv, RestInv, NEW s \in Swaps, s <= started, NEW status \in Statuses,
           Save(s, status), NEW x \in Swaps, x # s,
           run'[x] = run[x], clicks'[x] = clicks[x], taken \subseteq taken', checks'[x] = checks[x], seconds'[x] = seconds[x],
           sentSeconds'[x] = sentSeconds[x],
           regressed \subseteq regressed', doubled \subseteq doubled'
    PROVE  AtRest(x)' /\ MovesOn(x)
<1>1. list'[x] \in {"absent", list[x]}
    BY SaveResult
<1>2. LeavesAlone(x) /\ AtRest(x)
    BY <1>1 DEF LeavesAlone, RestInv
<1>3. QED
    BY <1>2, LeftAlone

\* The run saves the record it alone works on.
LEMMA RunSaves ==
    ASSUME SwapInv, RestInv, NEW s \in Swaps, NEW x \in Swaps, Answered(s) \/ RunFails(s)
    PROVE  AtRest(x)' /\ MovesOn(x)
<1>1. TypeOK /\ Begun /\ AtRest(s) /\ OnlyFirst /\ EachOnce
    BY DEF SwapInv, RestInv
<1>2. run[s] \in {"sending", "sent"} /\ UNCHANGED <<second, regressed>>
    BY DEF Answered, RunFails, history
<1>3. s <= started
    BY <1>1, <1>2, Values DEF Begun
<1>4. PICK status \in {"running", "waiting", "done", "failed"} :
          /\ Save(s, status)
          /\ status \in {"done", "failed"} => run'[s] \in {"over", "lost"}
    BY <1>1 DEF Answered, RunFails, TypeOK
<1>5. \A y \in Swaps \ {s} : run'[y] = run[y]
    BY <1>1 DEF Answered, RunFails, TypeOK
<1>6. CASE x # s
    BY <1>2, <1>3, <1>4, <1>5, <1>6, SavedAlone DEF Statuses, second
<1>7. CASE x = s
    <2> SUFFICES ASSUME s \notin regressed \cup doubled
                 PROVE  AtRest(s)' /\ MovesOn(s)
        BY <1>2, <1>7 DEF AtRest, MovesOn, second
    <2>1. /\ clicks[s] = 0 /\ checks[s] = 0 /\ seconds[s] = 0 /\ out[s] = 0
          /\ list[s] \notin {"waiting", "ready"}
        BY <1>1, <1>2 DEF OnlyFirst
    <2>2. sentSeconds[s] = 0
        BY <1>1, <2>1, Values DEF EachOnce
    <2>3. list[s] \in {"absent", "running"}
        BY <1>1, <1>2, <2>1 DEF AtRest, TypeOK, Statuses
    <2>4. list'[s] \in {"absent", status}
        BY <1>3, <1>4, SaveResult DEF Statuses
    <2>5. AtRest(s)'
        BY <1>2, <1>4, <2>1, <2>2, <2>4 DEF AtRest, second
    <2>6. MovesOn(s)
        BY <1>4, <2>3, <2>4 DEF MovesOn, Forward
    <2>7. QED
        BY <2>5, <2>6
<1>8. QED
    BY <1>6, <1>7

\* A refresh saves its copy over a record that waits, or is on record for it.
LEMMA RefreshSaves ==
    ASSUME SwapInv, RestInv, NEW s \in Swaps, NEW x \in Swaps, EarlyAnswer(s) \/ LateAnswer(s)
    PROVE  AtRest(x)' /\ MovesOn(x)
<1>1. TypeOK /\ Begun /\ OnlyFirst /\ EachOnce
    BY DEF SwapInv
<1>2. early[s] > 0 \/ late[s] > 0
    BY DEF EarlyAnswer, LateAnswer
<1>3. s <= started
    BY <1>1, <1>2, Values DEF Begun
<1>4. PICK status \in {"waiting", "ready", "done"} : Copy(s, status)
    BY DEF EarlyAnswer, LateAnswer, Arrived
<1>5. /\ Save(s, status)
      /\ regressed' = IF list[s] = "waiting" THEN regressed ELSE regressed \cup {s}
      /\ UNCHANGED <<flow, second>>
    BY <1>4 DEF Copy
<1>6. CASE x # s
    BY <1>3, <1>5, <1>6, SavedAlone DEF Statuses, flow, second
<1>7. CASE x = s
    <2> SUFFICES ASSUME s \notin regressed' \cup doubled
                 PROVE  AtRest(s)' /\ MovesOn(s)
        BY <1>5, <1>7 DEF AtRest, MovesOn, second
    <2>1. list[s] = "waiting" /\ s \notin regressed
        BY <1>5
    <2>2. run[s] = "over" /\ clicks[s] = 0 /\ checks[s] = 0 /\ seconds[s] = 0 /\ out[s] = 0
        BY <1>1, <2>1 DEF OnlyFirst
    <2>3. sentSeconds[s] = 0
        BY <1>1, <2>2, Values DEF EachOnce
    <2>4. list'[s] \in {"absent", status}
        BY <1>3, <1>5, SaveResult DEF Statuses
    <2>5. AtRest(s)'
        BY <1>5, <2>2, <2>3 DEF AtRest, flow, second
    <2>6. MovesOn(s)
        BY <2>1, <2>4 DEF MovesOn, Forward
    <2>7. QED
        BY <2>5, <2>6
<1>8. QED
    BY <1>6, <1>7

\* The continuation saves the record of the one second step.
LEMMA SecondSaves ==
    ASSUME SwapInv, RestInv, NEW s \in Swaps, NEW x \in Swaps,
           Proceed(s) \/ SecondDone(s) \/ SecondFails(s)
    PROVE  AtRest(x)' /\ MovesOn(x)
<1>1. TypeOK /\ Begun /\ AtRest(s) /\ OnlyFirst /\ EachOnce
    BY DEF SwapInv, RestInv
<1>2. /\ UNCHANGED <<run, clicks, out, regressed, doubled>>
      /\ taken \subseteq taken'
    BY DEF Proceed, SecondDone, SecondFails, flow, history
<1>3. checks[s] > 0 \/ seconds[s] > 0 \/ sentSeconds[s] > 0
    BY DEF Proceed, SecondDone, SecondFails
<1>4. s <= started
    BY <1>1, <1>3, Values DEF Begun
<1>5. /\ Proceed(s) => Save(s, "running")
      /\ SecondDone(s) => Save(s, "done")
      /\ SecondFails(s) => Save(s, "failed")
    BY DEF Proceed, SecondDone, SecondFails
<1>6. \A y \in Swaps \ {s} :
          checks'[y] = checks[y] /\ seconds'[y] = seconds[y] /\ sentSeconds'[y] = sentSeconds[y]
    BY <1>1 DEF Proceed, SecondDone, SecondFails, TypeOK
<1>7. CASE x # s
    BY <1>2, <1>4, <1>5, <1>6, <1>7, SavedAlone DEF Statuses
<1>8. CASE x = s
    <2> SUFFICES ASSUME s \notin regressed \cup doubled
                 PROVE  AtRest(s)' /\ MovesOn(s)
        BY <1>2, <1>8 DEF AtRest, MovesOn
    <2>1. /\ checks[s] + seconds[s] + out[s] <= 1
          /\ sentSeconds[s] <= out[s]
          /\ run[s] = "over"
        BY <1>1, <1>3, Values DEF OnlyFirst, EachOnce
    <2>2. list[s] \notin {"done", "failed"}
        BY <1>1, <1>3, Values DEF AtRest
    <2>3. CASE Proceed(s)
        <3>1. list[s] # "waiting" /\ list'[s] \in {"absent", "running"}
            BY <1>1, <1>4, <1>5, <2>3, Values, SaveResult DEF Proceed, OnlyFirst, Statuses
        <3>2. list[s] \in {"absent", "running", "ready"}
            BY <1>1, <2>2, <3>1 DEF TypeOK, Statuses
        <3>3. QED
            BY <3>1, <3>2 DEF AtRest, MovesOn, Forward
    <2>4. CASE SecondDone(s) \/ SecondFails(s)
        <3>1. seconds[s] > 0 \/ sentSeconds[s] > 0
            BY <2>4 DEF SecondDone, SecondFails
        <3>2. s \in taken /\ list[s] \notin {"waiting", "ready"}
            BY <1>1, <2>1, <3>1, Values DEF OnlyFirst
        <3>3. list[s] \in {"absent", "running"}
            BY <1>1, <2>2, <3>2 DEF TypeOK, Statuses
        <3>4. list'[s] \in {"absent", "done", "failed"}
            BY <1>4, <1>5, <2>4, SaveResult DEF Statuses
        <3>5. checks'[s] = 0 /\ seconds'[s] = 0 /\ sentSeconds'[s] = 0
            <4>1. CASE seconds[s] > 0 /\ seconds' = [seconds EXCEPT ![s] = @ - 1]
                       /\ UNCHANGED <<checks, sentSeconds>>
                BY <1>1, <2>1, <4>1, Values DEF TypeOK
            <4>2. CASE sentSeconds[s] > 0 /\ sentSeconds' = [sentSeconds EXCEPT ![s] = @ - 1]
                       /\ UNCHANGED <<checks, seconds>>
                BY <1>1, <2>1, <4>2, Values DEF TypeOK
            <4>3. QED
                BY <2>4, <4>1, <4>2 DEF SecondDone, SecondFails
        <3>6. AtRest(s)'
            BY <1>2, <2>1, <3>2, <3>5 DEF AtRest
        <3>7. MovesOn(s)
            BY <3>3, <3>4 DEF MovesOn, Forward
        <3>8. QED
            BY <3>6, <3>7
    <2>5. QED
        BY <2>3, <2>4
<1>9. QED
    BY <1>7, <1>8

\* The status the user reads only moves forward: a swap that is done or has
\* failed is never taken up again, and nothing of it is under way, through
\* reloads, removals, lost answers and any number of other swaps.  A slow
\* refresh and two continuations that met the balance are the only exceptions.
THEOREM RecordsOnlyForward == Spec => OnlyForward
<1>1. Init => RestInv
    BY DEF Init, RestInv, AtRest
<1>2. SwapInv /\ RestInv /\ [Next]_vars => \A x \in Swaps : AtRest(x)' /\ MovesOn(x)
    BY QuietSteps, UnsavedSteps, RunSaves, RefreshSaves, SecondSaves DEF Next
<1>3. SwapInv /\ RestInv /\ [Next]_vars => RestInv'
    BY <1>2 DEF RestInv
<1>4. SwapInv /\ RestInv /\ [Next]_vars => [\A s \in Swaps : MovesOn(s)]_vars
    BY <1>2
<1>5. QED
    BY <1>1, <1>3, <1>4, SwapInvariant, PTL DEF Spec, OnlyForward

=============================================================================
