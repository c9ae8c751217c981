--------------------------- MODULE ScriptRun_lemmas ---------------------------
(***************************************************************************)
(* What the recursive operators of ScriptRun compute: the rows of the page *)
(* after MarkEach, and the Total of a set of calls.  A recursive function  *)
(* has first to be shown to exist; both the existence and the facts about  *)
(* its values go by induction over a set of naturals.                      *)
(***************************************************************************)
EXTENDS ScriptRun, SequenceTheorems, FiniteSetTheorems, WellFoundedInduction, TLAPS

\* A set with 0 and the successors of its members has every natural number.
LEMMA SetInduction ==
    ASSUME NEW S \in SUBSET Nat, 0 \in S, \A n \in S : n + 1 \in S
    PROVE  \A n \in Nat : n \in S
<1> DEFINE Out == Nat \ S
           Less == OpToRel(<, Nat)
<1>1. SUFFICES ASSUME Out # {} PROVE FALSE
    OBVIOUS
<1>2. PICK x \in Out : \A y \in Out : ~ (<<y, x>> \in Less)
    <2>1. IsWellFoundedOn(Less, Nat)
        BY NatLessThanWellFounded
    <2>2. Out \subseteq Nat
        OBVIOUS
    <2> HIDE DEF Out, Less
    <2>3. QED
        BY <1>1, <2>1, <2>2, WFMin
<1>3. x \in Nat /\ x \notin S
    OBVIOUS
<1>4. x # 0 /\ x - 1 \in Nat
    BY <1>3
<1>5. x - 1 \in Out => <<x - 1, x>> \in Less
    BY <1>3, <1>4 DEF OpToRel
<1>6. x - 1 \in S
    BY <1>2, <1>4, <1>5
<1>7. QED
    BY <1>3, <1>4, <1>6

-----------------------------------------------------------------------------
(* The rows.                                                               *)

\* The rows after each of the calls.
Marking(m, rows, calls, st) ==
    /\ m[0] = rows
    /\ \A k \in 1..Len(calls) : m[k] = Mark(m[k - 1], calls[k], st)

\* MarkEach is what it says: the rows after the last call.
LEMMA MarkEachSteps ==
    ASSUME NEW rows, NEW calls, NEW st, Len(calls) \in Nat
    PROVE  \E m : Marking(m, rows, calls, st) /\ MarkEach(rows, calls, st) = m[Len(calls)]
<1> DEFINE Fits(m, n) == m = [k \in 0..n |-> IF k = 0 THEN rows ELSE Mark(m[k - 1], calls[k], st)]
           Table(n) == CHOOSE m : Fits(m, n)
           Some == {n \in Nat : \E m : Fits(m, n)}
<1>1. MarkEach(rows, calls, st) = Table(Len(calls))[Len(calls)]
    BY DEF MarkEach
<1>2. 0 \in Some
    <2> DEFINE m == [k \in 0..0 |-> rows]
    <2>1. Fits(m, 0)
        OBVIOUS
    <2>2. QED
        BY <2>1
<1>3. ASSUME NEW n \in Some PROVE n + 1 \in Some
    <2>1. n \in Nat /\ n + 1 \in Nat
        OBVIOUS
    <2>2. PICK m : Fits(m, n)
        OBVIOUS
    <2> DEFINE next == [k \in 0..(n + 1) |-> IF k <= n THEN m[k] ELSE Mark(m[n], calls[n + 1], st)]
    <2>3. \A k \in 0..n : m[k] = IF k = 0 THEN rows ELSE Mark(m[k - 1], calls[k], st)
        BY <2>2
    <2>4. ASSUME NEW k \in 0..(n + 1)
          PROVE  next[k] = IF k = 0 THEN rows ELSE Mark(next[k - 1], calls[k], st)
        <3>1. CASE k = n + 1
            <4>1. next[k] = Mark(m[n], calls[n + 1], st) /\ k # 0 /\ k - 1 = n
                BY <2>1, <3>1
            <4>2. next[n] = m[n]
                BY <2>1
            <4>3. QED
                BY <3>1, <4>1, <4>2
        <3>2. CASE k # n + 1
            <4>1. k \in 0..n /\ (k # 0 => k - 1 \in 0..n)
                BY <2>1, <3>2
            <4>2. \A j \in 0..n : next[j] = m[j]
                BY <2>1
            <4>3. QED
                BY <2>3, <4>1, <4>2
        <3>3. QED
            BY <3>1, <3>2
    <2>5. Fits(next, n + 1)
        BY <2>4
    <2>6. QED
        BY <2>1, <2>5
<1>4. Len(calls) \in Some
    <2>1. Some \in SUBSET Nat
        OBVIOUS
    <2> HIDE DEF Some
    <2>2. QED
        BY <1>2, <1>3, <2>1, SetInduction
<1>5. Fits(Table(Len(calls)), Len(calls))
    <2>1. \E m : Fits(m, Len(calls))
        BY <1>4
    <2> HIDE DEF Fits
    <2>2. QED
        BY <2>1
<1>6. PICK m : m = Table(Len(calls)) /\ Fits(m, Len(calls))
    BY <1>5
<1>7. Marking(m, rows, calls, st)
    <2>1. \A k \in 0..Len(calls) : m[k] = IF k = 0 THEN rows ELSE Mark(m[k - 1], calls[k], st)
        BY <1>6
    <2>2. QED
        BY <2>1 DEF Marking
<1>8. QED
    BY <1>1, <1>6, <1>7

\* Marking a call keeps a list of rows.
LEMMA MarkRows ==
    ASSUME NEW rows \in Seq(Rows), NEW c, NEW st \in Rows
    PROVE  Mark(rows, c, st) \in Seq(Rows)
<1> DEFINE n == Row(c)
<1>1. CASE n <= Len(rows)
    <2>1. Mark(rows, c, st) = [rows EXCEPT ![n] = st]
        BY <1>1 DEF Mark
    <2> HIDE DEF n
    <2>2. [rows EXCEPT ![n] = st] \in Seq(Rows)
        <3>1. Len(rows) \in Nat /\ rows \in [1..Len(rows) -> Rows]
            OBVIOUS
        <3>2. [rows EXCEPT ![n] = st] \in [1..Len(rows) -> Rows]
            BY <3>1
        <3>3. QED
            BY <3>1, <3>2
    <2>3. QED
        BY <2>1, <2>2
<1>2. CASE ~ (n <= Len(rows))
    BY <1>2 DEF Mark
<1>3. QED
    BY <1>1, <1>2

LEMMA MarkEachRows ==
    ASSUME NEW rows \in Seq(Rows), NEW calls, Len(calls) \in Nat, NEW st \in Rows
    PROVE  MarkEach(rows, calls, st) \in Seq(Rows)
<1>1. PICK m : Marking(m, rows, calls, st) /\ MarkEach(rows, calls, st) = m[Len(calls)]
    BY MarkEachSteps
<1> DEFINE Good == {n \in Nat : n <= Len(calls) => m[n] \in Seq(Rows)}
<1>2. 0 \in Good
    BY <1>1 DEF Marking
<1>3. ASSUME NEW n \in Good PROVE n + 1 \in Good
    <2>1. CASE n + 1 <= Len(calls)
        <3>1. n + 1 \in 1..Len(calls) /\ n <= Len(calls) /\ (n + 1) - 1 = n
            BY <2>1
        <3>2. m[n + 1] = Mark(m[n], calls[n + 1], st)
            BY <1>1, <3>1 DEF Marking
        <3>3. m[n] \in Seq(Rows)
            BY <3>1
        <3>4. QED
            BY <3>2, <3>3, MarkRows
    <2>2. QED
        BY <2>1
<1>4. Len(calls) \in Good
    <2>1. Good \in SUBSET Nat
        OBVIOUS
    <2> HIDE DEF Good
    <2>2. QED
        BY <1>2, <1>3, <2>1, SetInduction
<1>5. QED
    BY <1>1, <1>4

\* The intents have numbers of their own, so the page finds the row of each.
Numbered == \A i, j \in DOMAIN intents : index[intents[i]] = index[intents[j]] => i = j

LEMMA RowFound ==
    ASSUME intents \in Seq(Calls), Numbered, NEW i \in DOMAIN intents
    PROVE  Row(intents[i]) = i
<1> DEFINE Same == {j \in DOMAIN intents : index[intents[j]] = index[intents[i]]}
<1>1. i \in Nat
    OBVIOUS
<1>2. Same = {i}
    BY DEF Numbered
<1>3. Row(intents[i]) = Min({i})
    BY <1>2 DEF Row
<1>4. Min({i}) = i
    BY <1>1 DEF Min
<1>5. QED
    BY <1>3, <1>4

\* A row that is there is replaced, and the next one is added.
LEMMA MarkFound ==
    ASSUME intents \in Seq(Calls), Numbered, NEW i \in DOMAIN intents,
           NEW rows \in Seq(Rows), NEW st \in Rows, i <= Len(rows) + 1
    PROVE  /\ Mark(rows, intents[i], st) \in Seq(Rows)
           /\ Len(Mark(rows, intents[i], st)) = IF i <= Len(rows) THEN Len(rows) ELSE i
           /\ Mark(rows, intents[i], st)[i] = st
           /\ \A j \in 1..Len(rows) : j # i => Mark(rows, intents[i], st)[j] = rows[j]
<1>1. Row(intents[i]) = i /\ i \in Nat \ {0} /\ Len(rows) \in Nat
    BY RowFound
<1>2. Mark(rows, intents[i], st) \in Seq(Rows)
    BY MarkRows
<1>3. CASE i <= Len(rows)
    BY <1>1, <1>2, <1>3 DEF Mark
<1>4. CASE ~ (i <= Len(rows))
    <2>1. i = Len(rows) + 1 /\ Mark(rows, intents[i], st) = Append(rows, st)
        BY <1>1, <1>4 DEF Mark
    <2>2. QED
        BY <1>1, <1>2, <1>4, <2>1
<1>5. QED
    BY <1>3, <1>4

\* The calls are the intents from one position to another.
Stretch(calls, from, to) ==
    Len(calls) = to - from + 1 /\ \A k \in 1..Len(calls) : calls[k] = intents[from + k - 1]

\* Their rows are as asked for, and the others as before.
OnlyMarked(result, rows, from, to, st) ==
    /\ Len(result) = IF to <= Len(rows) THEN Len(rows) ELSE to
    /\ \A j \in from..to : result[j] = st
    /\ \A j \in 1..Len(rows) : j \notin from..to => result[j] = rows[j]

\* One more call marked, at the end of the stretch or of the rows.
LEMMA OneMoreMarked ==
    ASSUME intents \in Seq(Calls), Numbered,
           NEW rows \in Seq(Rows), NEW r \in Seq(Rows), NEW st \in Rows,
           NEW from \in Nat \ {0}, from <= Len(rows) + 1,
           NEW i \in DOMAIN intents, from <= i, OnlyMarked(r, rows, from, i - 1, st)
    PROVE  /\ Mark(r, intents[i], st) \in Seq(Rows)
           /\ OnlyMarked(Mark(r, intents[i], st), rows, from, i, st)
<1>1. i \in Nat \ {0} /\ Len(rows) \in Nat /\ Len(r) \in Nat
    OBVIOUS
<1>2. /\ Len(r) = IF i - 1 <= Len(rows) THEN Len(rows) ELSE i - 1
      /\ \A j \in from..(i - 1) : r[j] = st
      /\ \A j \in 1..Len(rows) : j \notin from..(i - 1) => r[j] = rows[j]
    BY DEF OnlyMarked
<1>3. Len(rows) <= Len(r) /\ i <= Len(r) + 1
    BY <1>1, <1>2
<1> DEFINE next == Mark(r, intents[i], st)
<1>4. /\ next \in Seq(Rows)
      /\ Len(next) = IF i <= Len(r) THEN Len(r) ELSE i
      /\ next[i] = st
      /\ \A j \in 1..Len(r) : j # i => next[j] = r[j]
    BY <1>3, MarkFound
<1> HIDE DEF next
<1>5. Len(next) = IF i <= Len(rows) THEN Len(rows) ELSE i
    BY <1>1, <1>2, <1>4
<1>6. ASSUME NEW j \in from..i PROVE next[j] = st
    <2>1. CASE j = i
        BY <1>4, <2>1
    <2>2. CASE j # i
        <3>1. j \in from..(i - 1) /\ j \in 1..Len(r)
            BY <1>1, <1>3, <2>2
        <3>2. QED
            BY <1>2, <1>4, <2>2, <3>1
    <2>3. QED
        BY <2>1, <2>2
<1>7. ASSUME NEW j \in 1..Len(rows), j \notin from..i PROVE next[j] = rows[j]
    <2>1. j \in 1..Len(r) /\ j # i /\ j \notin from..(i - 1)
        BY <1>1, <1>3, <1>7
    <2>2. QED
        BY <1>2, <1>4, <2>1
<1>8. OnlyMarked(next, rows, from, i, st)
    BY <1>5, <1>6, <1>7 DEF OnlyMarked
<1>9. QED
    BY <1>4, <1>8 DEF next

\* Marking the intents from one position to another sets their rows and leaves
\* the others alone.
LEMMA MarkEachFound ==
    ASSUME intents \in Seq(Calls), Numbered,
           NEW rows \in Seq(Rows), NEW st \in Rows,
           NEW from \in Nat \ {0}, NEW to \in Nat, from <= Len(rows) + 1,
           from <= to + 1, to <= Len(intents),
           NEW calls, Stretch(calls, from, to)
    PROVE  OnlyMarked(MarkEach(rows, calls, st), rows, from, to, st)
<1>0. /\ Len(calls) \in Nat /\ Len(calls) = to - from + 1
      /\ Len(rows) \in Nat /\ Len(intents) \in Nat /\ DOMAIN intents = 1..Len(intents)
    BY DEF Stretch
<1>1. PICK m : Marking(m, rows, calls, st) /\ MarkEach(rows, calls, st) = m[Len(calls)]
    BY <1>0, MarkEachSteps
<1> DEFINE Right(n) == m[n] \in Seq(Rows) /\ OnlyMarked(m[n], rows, from, from + n - 1, st)
           Good == {n \in Nat : n <= Len(calls) => Right(n)}
<1>2. 0 \in Good
    <2>1. m[0] = rows
        BY <1>1 DEF Marking
    <2>2. OnlyMarked(rows, rows, from, from + 0 - 1, st)
        BY <1>0 DEF OnlyMarked
    <2>3. QED
        BY <2>1, <2>2
<1>3. ASSUME NEW n \in Good PROVE n + 1 \in Good
    <2>1. n \in Nat /\ (n <= Len(calls) => Right(n))
        OBVIOUS
    <2> HIDE DEF Right
    <2>2. CASE n + 1 <= Len(calls)
        <3>1. n + 1 \in 1..Len(calls) /\ (n + 1) - 1 = n /\ Right(n)
            BY <1>0, <2>1, <2>2
        <3> DEFINE i == from + n
        <3>2. /\ i \in DOMAIN intents /\ from <= i
              /\ i = from + (n + 1) - 1 /\ i - 1 = from + n - 1
            BY <1>0, <2>1, <2>2
        <3> HIDE DEF i
        <3>3. m[n + 1] = Mark(m[n], intents[i], st)
            BY <1>1, <3>1, <3>2 DEF Marking, Stretch
        <3>4. m[n] \in Seq(Rows) /\ OnlyMarked(m[n], rows, from, i - 1, st)
            BY <3>1, <3>2 DEF Right
        <3>5. m[n + 1] \in Seq(Rows) /\ OnlyMarked(m[n + 1], rows, from, i, st)
            BY <3>2, <3>3, <3>4, OneMoreMarked
        <3>6. QED
            BY <2>1, <3>2, <3>5 DEF Right
    <2>3. QED
        BY <2>1, <2>2
<1>4. Len(calls) \in Good
    <2>1. Good \in SUBSET Nat
        OBVIOUS
    <2> HIDE DEF Good
    <2>2. QED
        BY <1>0, <1>2, <1>3, <2>1, SetInduction
<1>5. QED
    <2>1. OnlyMarked(m[Len(calls)], rows, from, from + Len(calls) - 1, st)
        BY <1>0, <1>4
    <2>2. from + Len(calls) - 1 = to
        BY <1>0
    <2>3. QED
        BY <1>1, <2>1, <2>2

-----------------------------------------------------------------------------
(* Totals.  The sum takes one member after the other, whichever CHOOSE      *)
(* returns; that the choice does not matter is TotalWithout.                *)

AnyOf(s) == CHOOSE x \in s : TRUE
Sums(S) ==
    CHOOSE f : f = [s \in SUBSET S |-> IF s = {} THEN 0 ELSE Amount[AnyOf(s)] + f[s \ {AnyOf(s)}]]

LEMMA TotalIsSum == ASSUME NEW S PROVE Total(S) = Sums(S)[S]
BY DEF Total, MapThenSumSet, MapThenFoldSet, Sums, AnyOf

LEMMA SumsExist ==
    ASSUME NEW S \in SUBSET Calls, IsFiniteSet(S)
    PROVE  Sums(S) = [s \in SUBSET S |-> IF s = {} THEN 0 ELSE Amount[AnyOf(s)] + Sums(S)[s \ {AnyOf(s)}]]
<1> DEFINE Sum(f, s) == IF s = {} THEN 0 ELSE Amount[AnyOf(s)] + f[s \ {AnyOf(s)}]
           UpTo(f, n) == \A s \in SUBSET S : Cardinality(s) <= n => f[s] = Sum(f, s)
           Some == {n \in Nat : \E f \in [SUBSET S -> Nat] : UpTo(f, n)}
<1>1. \A s \in SUBSET S : /\ IsFiniteSet(s) /\ Cardinality(s) \in Nat
                          /\ Cardinality(s) <= Cardinality(S)
                          /\ Cardinality(s) = 0 <=> s = {}
    BY FS_Subset, FS_CardinalityType, FS_EmptySet
<1>2. ASSUME NEW s \in SUBSET S, s # {}
      PROVE  /\ AnyOf(s) \in s /\ s \ {AnyOf(s)} \in SUBSET S
             /\ Cardinality(s \ {AnyOf(s)}) = Cardinality(s) - 1
             /\ Amount[AnyOf(s)] \in Nat
    <2>1. AnyOf(s) \in s
        BY <1>2 DEF AnyOf
    <2>2. QED
        BY <1>1, <2>1, FS_RemoveElement, CallsAssumption
<1>3. 0 \in Some
    <2> DEFINE f == [s \in SUBSET S |-> 0]
    <2>1. f \in [SUBSET S -> Nat]
        OBVIOUS
    <2>2. UpTo(f, 0)
        BY <1>1
    <2>3. QED
        BY <2>1, <2>2
<1>4. ASSUME NEW n \in Some PROVE n + 1 \in Some
    <2>1. n \in Nat /\ n + 1 \in Nat
        OBVIOUS
    <2>2. PICK f \in [SUBSET S -> Nat] : UpTo(f, n)
        OBVIOUS
    <2> DEFINE next == [s \in SUBSET S |-> IF Cardinality(s) <= n THEN f[s] ELSE Sum(f, s)]
    <2>3. next \in [SUBSET S -> Nat]
        <3>1. ASSUME NEW s \in SUBSET S PROVE Sum(f, s) \in Nat
            <4>1. s # {} => Amount[AnyOf(s)] \in Nat /\ f[s \ {AnyOf(s)}] \in Nat
                BY <1>2, <2>2
            <4>2. QED
                BY <4>1
        <3> HIDE DEF Sum
        <3>2. QED
            BY <2>2, <3>1
    <2>4. ASSUME NEW s \in SUBSET S, Cardinality(s) <= n + 1 PROVE next[s] = Sum(next, s)
        <3>1. CASE s = {}
            BY <1>1, <2>1, <2>2, <3>1
        <3>2. CASE s # {}
            <4>1. next[s \ {AnyOf(s)}] = f[s \ {AnyOf(s)}]
                BY <1>1, <1>2, <2>1, <2>4, <3>2
            <4>2. next[s] = Sum(f, s)
                BY <2>2
            <4>3. QED
                BY <3>2, <4>1, <4>2
        <3>3. QED
            BY <3>1, <3>2
    <2>5. UpTo(next, n + 1)
        BY <2>4
    <2>6. QED
        BY <2>1, <2>3, <2>5
<1>5. Cardinality(S) \in Some
    <2>1. Some \in SUBSET Nat /\ Cardinality(S) \in Nat
        BY <1>1
    <2> HIDE DEF Some
    <2>2. QED
        BY <1>3, <1>4, <2>1, SetInduction
<1>6. PICK f \in [SUBSET S -> Nat] : UpTo(f, Cardinality(S))
    BY <1>5
<1>7. f = [s \in SUBSET S |-> Sum(f, s)]
    BY <1>1, <1>6
<1>8. QED
    BY <1>7 DEF Sums

\* The sum of a part does not depend on the whole.
LEMMA SumsAgree ==
    ASSUME NEW S \in SUBSET Calls, IsFiniteSet(S), NEW T \in SUBSET S
    PROVE  Sums(S)[T] \in Nat /\ Sums(S)[T] = Total(T)
<1> DEFINE Good == {n \in Nat : \A s \in SUBSET T : Cardinality(s) <= n =>
                                    Sums(S)[s] \in Nat /\ Sums(S)[s] = Sums(T)[s]}
<1>1. \A s \in SUBSET S : /\ IsFiniteSet(s) /\ Cardinality(s) \in Nat
                          /\ Cardinality(s) = 0 <=> s = {}
    BY FS_Subset, FS_CardinalityType, FS_EmptySet
<1>2. /\ \A s \in SUBSET S : Sums(S)[s] = IF s = {} THEN 0 ELSE Amount[AnyOf(s)] + Sums(S)[s \ {AnyOf(s)}]
      /\ \A s \in SUBSET T : Sums(T)[s] = IF s = {} THEN 0 ELSE Amount[AnyOf(s)] + Sums(T)[s \ {AnyOf(s)}]
    <2>1. IsFiniteSet(T) /\ T \in SUBSET Calls
        BY <1>1
    <2>2. Sums(S) = [s \in SUBSET S |-> IF s = {} THEN 0 ELSE Amount[AnyOf(s)] + Sums(S)[s \ {AnyOf(s)}]]
        BY SumsExist
    <2>3. Sums(T) = [s \in SUBSET T |-> IF s = {} THEN 0 ELSE Amount[AnyOf(s)] + Sums(T)[s \ {AnyOf(s)}]]
        BY <2>1, SumsExist
    <2>4. QED
        BY <2>2, <2>3
<1>3. 0 \in Good
    <2>1. ASSUME NEW s \in SUBSET T, Cardinality(s) <= 0 PROVE s = {}
        BY <1>1, <2>1
    <2>2. QED
        BY <1>2, <2>1
<1>4. ASSUME NEW n \in Good PROVE n + 1 \in Good
    <2>1. ASSUME NEW s \in SUBSET T, Cardinality(s) <= n + 1, s # {}
          PROVE  Sums(S)[s] \in Nat /\ Sums(S)[s] = Sums(T)[s]
        <3>1. AnyOf(s) \in s
            BY <2>1 DEF AnyOf
        <3>2. IsFiniteSet(s) /\ Cardinality(s) \in Nat
            BY <1>1
        <3>3. Cardinality(s \ {AnyOf(s)}) = Cardinality(s) - 1
            BY <3>1, <3>2, FS_RemoveElement
        <3>4. s \ {AnyOf(s)} \in SUBSET T /\ Cardinality(s \ {AnyOf(s)}) <= n
            BY <2>1, <3>2, <3>3
        <3>5. Amount[AnyOf(s)] \in Nat
            BY <3>1, CallsAssumption
        <3>6. /\ Sums(S)[s \ {AnyOf(s)}] \in Nat
              /\ Sums(S)[s \ {AnyOf(s)}] = Sums(T)[s \ {AnyOf(s)}]
            BY <3>4
        <3>7. /\ Sums(S)[s] = Amount[AnyOf(s)] + Sums(S)[s \ {AnyOf(s)}]
              /\ Sums(T)[s] = Amount[AnyOf(s)] + Sums(T)[s \ {AnyOf(s)}]
            BY <1>2, <2>1
        <3>8. QED
            BY <3>5, <3>6, <3>7
    <2>2. \A s \in SUBSET T : s = {} => Sums(S)[s] \in Nat /\ Sums(S)[s] = Sums(T)[s]
        BY <1>2
    <2>3. QED
        BY <2>1, <2>2
<1>5. Cardinality(T) \in Good
    <2>1. Good \in SUBSET Nat /\ Cardinality(T) \in Nat
        BY <1>1
    <2> HIDE DEF Good
    <2>2. QED
        BY <1>3, <1>4, <2>1, SetInduction
<1>6. Cardinality(T) <= Cardinality(T)
    BY <1>1
<1>7. QED
    BY <1>5, <1>6, TotalIsSum

\* The total of a set is what it is without one of its members, and the amount
\* of that member.
LEMMA TotalWithout ==
    ASSUME NEW S \in SUBSET Calls, IsFiniteSet(S)
    PROVE  /\ Total(S) \in Nat
           /\ S = {} => Total(S) = 0
           /\ \A c \in S : Total(S) = Amount[c] + Total(S \ {c})
<1> DEFINE Good == {n \in Nat : \A s \in SUBSET S : Cardinality(s) <= n =>
                                    \A c \in s : Total(s) = Amount[c] + Total(s \ {c})}
<1>1. \A s \in SUBSET S : /\ IsFiniteSet(s) /\ Cardinality(s) \in Nat
                          /\ Cardinality(s) = 0 <=> s = {}
    BY FS_Subset, FS_CardinalityType, FS_EmptySet
<1>2. \A s \in SUBSET S : Total(s) \in Nat
    BY SumsAgree
<1>3. ASSUME NEW s \in SUBSET S, s # {}
      PROVE  AnyOf(s) \in s /\ Total(s) = Amount[AnyOf(s)] + Total(s \ {AnyOf(s)})
    <2>1. AnyOf(s) \in s
        BY <1>3 DEF AnyOf
    <2>2. Sums(S) = [u \in SUBSET S |-> IF u = {} THEN 0 ELSE Amount[AnyOf(u)] + Sums(S)[u \ {AnyOf(u)}]]
        BY SumsExist
    <2>3. Sums(S)[s] = Amount[AnyOf(s)] + Sums(S)[s \ {AnyOf(s)}]
        BY <1>3, <2>2
    <2>4. Sums(S)[s] = Total(s)
        BY SumsAgree
    <2>5. Sums(S)[s \ {AnyOf(s)}] = Total(s \ {AnyOf(s)})
        <3>1. s \ {AnyOf(s)} \in SUBSET S
            OBVIOUS
        <3>2. QED
            BY <3>1, SumsAgree
    <2>6. QED
        BY <2>1, <2>3, <2>4, <2>5
<1>4. 0 \in Good
    BY <1>1
<1>5. ASSUME NEW n \in Good PROVE n + 1 \in Good
    <2>1. ASSUME NEW s \in SUBSET S, Cardinality(s) <= n + 1, NEW c \in s
          PROVE  Total(s) = Amount[c] + Total(s \ {c})
        <3> DEFINE d == AnyOf(s)
        <3>1. d \in s /\ Total(s) = Amount[d] + Total(s \ {d})
            BY <1>3
        <3> HIDE DEF d
        <3>2. CASE c = d
            BY <3>1, <3>2
        <3>3. CASE c # d
            <4>1. IsFiniteSet(s) /\ Cardinality(s) \in Nat
                BY <1>1
            <4>2. /\ Cardinality(s \ {d}) = Cardinality(s) - 1
                  /\ Cardinality(s \ {c}) = Cardinality(s) - 1
                BY <3>1, <4>1, FS_RemoveElement
            <4>3. Cardinality(s \ {d}) <= n /\ Cardinality(s \ {c}) <= n
                BY <2>1, <4>1, <4>2
            <4>4. s \ {d} \in SUBSET S /\ s \ {c} \in SUBSET S /\ c \in s \ {d} /\ d \in s \ {c}
                BY <3>1, <3>3
            <4>5. Total(s \ {d}) = Amount[c] + Total((s \ {d}) \ {c})
                BY <4>3, <4>4
            <4>6. Total(s \ {c}) = Amount[d] + Total((s \ {c}) \ {d})
                BY <4>3, <4>4
            <4>7. (s \ {d}) \ {c} = (s \ {c}) \ {d} /\ (s \ {c}) \ {d} \in SUBSET S
                OBVIOUS
            <4>10. Total((s \ {d}) \ {c}) = Total((s \ {c}) \ {d})
                BY <4>7
            <4>8. Amount[c] \in Nat /\ Amount[d] \in Nat /\ Total((s \ {c}) \ {d}) \in Nat
                BY <1>2, <3>1, <4>7, CallsAssumption
            <4>9. QED
                BY <3>1, <4>5, <4>6, <4>10, <4>8
        <3>4. QED
            BY <3>2, <3>3
    <2>2. QED
        BY <2>1
<1>6. Cardinality(S) \in Good
    <2>1. Good \in SUBSET Nat /\ Cardinality(S) \in Nat
        BY <1>1
    <2> HIDE DEF Good
    <2>2. QED
        BY <1>4, <1>5, <2>1, SetInduction
<1>7. S = {} => Total(S) = 0
    BY SumsExist, TotalIsSum
<1>8. Cardinality(S) <= Cardinality(S)
    BY <1>1
<1>9. QED
    BY <1>2, <1>6, <1>7, <1>8

LEMMA TotalWith ==
    ASSUME NEW S \in SUBSET Calls, IsFiniteSet(S), NEW c \in Calls \ S
    PROVE  IsFiniteSet(S \cup {c}) /\ Total(S \cup {c}) = Total(S) + Amount[c]
<1>1. IsFiniteSet(S \cup {c}) /\ S \cup {c} \in SUBSET Calls
    BY FS_AddElement
<1>4. Total((S \cup {c}) \ {c}) = Total(S)
    <2>1. (S \cup {c}) \ {c} = S
        OBVIOUS
    <2>2. QED
        BY <2>1
<1>2. Total(S \cup {c}) = Amount[c] + Total((S \cup {c}) \ {c})
    BY <1>1, TotalWithout
<1>3. Total(S) \in Nat /\ Amount[c] \in Nat
    BY TotalWithout, CallsAssumption
<1>5. QED
    BY <1>1, <1>2, <1>3, <1>4

\* A part totals no more than the whole.
LEMMA TotalOfPart ==
    ASSUME NEW S \in SUBSET Calls, IsFiniteSet(S), NEW T \in SUBSET S
    PROVE  Total(T) <= Total(S)
<1> DEFINE Good == {n \in Nat : \A s \in SUBSET S : T \subseteq s /\ Cardinality(s) <= n =>
                                    Total(T) <= Total(s)}
<1>1. \A s \in SUBSET S : /\ IsFiniteSet(s) /\ Cardinality(s) \in Nat
                          /\ Cardinality(s) = 0 <=> s = {}
    BY FS_Subset, FS_CardinalityType, FS_EmptySet
<1>2. \A s \in SUBSET S : Total(s) \in Nat
    BY <1>1, TotalWithout
<1>3. 0 \in Good
    <2>1. ASSUME NEW s \in SUBSET S, T \subseteq s, Cardinality(s) <= 0 PROVE T = s
        BY <1>1, <2>1
    <2>2. QED
        BY <1>2, <2>1
<1>4. ASSUME NEW n \in Good PROVE n + 1 \in Good
    <2>1. ASSUME NEW s \in SUBSET S, T \subseteq s, Cardinality(s) <= n + 1
          PROVE  Total(T) <= Total(s)
        <3>1. CASE s = T
            BY <1>2, <3>1
        <3>2. CASE s # T
            <4>1. PICK c \in s : c \notin T
                BY <2>1, <3>2
            <4>2. IsFiniteSet(s) /\ Cardinality(s) \in Nat
                BY <1>1
            <4>3. Cardinality(s \ {c}) = Cardinality(s) - 1
                BY <4>2, FS_RemoveElement
            <4>4. s \ {c} \in SUBSET S /\ T \subseteq s \ {c} /\ Cardinality(s \ {c}) <= n
                BY <2>1, <4>1, <4>2, <4>3
            <4>5. Total(T) <= Total(s \ {c})
                BY <4>4
            <4>6. Total(s) = Amount[c] + Total(s \ {c})
                BY <1>1, TotalWithout
            <4>7. Amount[c] \in Nat /\ Total(T) \in Nat /\ Total(s \ {c}) \in Nat
                BY <1>2, <4>4, CallsAssumption
            <4>8. QED
                BY <4>5, <4>6, <4>7
        <3>3. QED
            BY <3>1, <3>2
    <2>2. QED
        BY <2>1
<1>5. Cardinality(S) \in Good
    <2>1. Good \in SUBSET Nat /\ Cardinality(S) \in Nat
        BY <1>1
    <2> HIDE DEF Good
    <2>2. QED
        BY <1>3, <1>4, <2>1, SetInduction
<1>6. Cardinality(S) <= Cardinality(S)
    BY <1>1
<1>7. QED
    BY <1>5, <1>6

=============================================================================
