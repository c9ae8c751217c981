------------------------- MODULE RateLimiter_proofs --------------------------
(***************************************************************************)
(* Proofs about RateLimiter, for every set of calls and every set of       *)
(* configurations and pause durations.                                     *)
(***************************************************************************)
EXTENDS RateLimiter, SequenceTheorems, FiniteSetTheorems, TLAPS

\* Min of two integers, as the budget and the queue bound each other.
LEMMA MinOfTwo ==
    ASSUME NEW a \in Int, NEW b \in Int
    PROVE  Min({a, b}) = IF a <= b THEN a ELSE b
<1>1. ASSUME a <= b
      PROVE  Min({a, b}) = a
    <2>1. a \in {a, b} /\ \A y \in {a, b} : a =< y
        BY <1>1
    <2>2. \A x \in {a, b} : (\A y \in {a, b} : x =< y) => x = a
        BY <1>1
    <2>3. QED
        BY <2>1, <2>2 DEF Min
<1>2. ASSUME ~(a <= b)
      PROVE  Min({a, b}) = b
    <2>1. b \in {a, b} /\ \A y \in {a, b} : b =< y
        BY <1>2
    <2>2. \A x \in {a, b} : (\A y \in {a, b} : x =< y) => x = b
        BY <1>2
    <2>3. QED
        BY <2>1, <2>2 DEF Min
<1>3. QED
    BY <1>1, <1>2

\* Max of two integers, as a remaining time or budget is cut off at zero.
LEMMA MaxOfTwo ==
    ASSUME NEW a \in Int, NEW b \in Int
    PROVE  Max({a, b}) = IF a >= b THEN a ELSE b
<1>1. ASSUME a >= b
      PROVE  Max({a, b}) = a
    <2>1. a \in {a, b} /\ \A y \in {a, b} : a >= y
        BY <1>1
    <2>2. \A x \in {a, b} : (\A y \in {a, b} : x >= y) => x = a
        BY <1>1
    <2>3. QED
        BY <2>1, <2>2 DEF Max
<1>2. ASSUME ~(a >= b)
      PROVE  Max({a, b}) = b
    <2>1. b \in {a, b} /\ \A y \in {a, b} : b >= y
        BY <1>2
    <2>2. \A x \in {a, b} : (\A y \in {a, b} : x >= y) => x = b
        BY <1>2
    <2>3. QED
        BY <2>1, <2>2 DEF Max
<1>3. QED
    BY <1>1, <1>2

\* A line of n calls gets no more slots than it has calls, and takes no more
\* than the budget leaves.
LEMMA ReleasedBounds ==
    ASSUME NEW n \in Nat, NEW c \in Nat, maxRequests \in Nat \ {0}
    PROVE  /\ Released(n, c) \in 0..n
           /\ c <= maxRequests => c + Released(n, c) <= maxRequests
<1>1. Max({0, maxRequests - c}) = IF 0 >= maxRequests - c THEN 0 ELSE maxRequests - c
    BY MaxOfTwo
<1>2. Released(n, c) = IF n <= Max({0, maxRequests - c}) THEN n ELSE Max({0, maxRequests - c})
    BY <1>1, MinOfTwo DEF Released
<1>3. QED
    BY <1>1, <1>2

\* scheduleReset() leaves a timer that is due in zero or more ticks.
LEMMA ScheduleResetType ==
    ASSUME TypeOK, NEW due \in Nat \cup {NoTimer}, NEW age \in 0..ClockCap
    PROVE  ScheduleReset(due, age) \in Nat
<1>1. windowMs \in Nat /\ age \in Nat
    BY InputsAssumption DEF TypeOK
<1>2. Max({0, windowMs - age}) = IF 0 >= windowMs - age THEN 0 ELSE windowMs - age
    <2>1. 0 \in Int /\ windowMs - age \in Int
        BY <1>1
    <2>2. QED
        BY <2>1, MaxOfTwo
<1>3. Max({0, windowMs - age}) \in Nat
    BY <1>1, <1>2
<1>4. due # NoTimer => due \in Nat
    OBVIOUS
<1>5. QED
    BY <1>3, <1>4 DEF ScheduleReset

\* Settling promises keeps every promise in one of its four states.
LEMMA SettleType ==
    ASSUME TypeOK, NEW S, NEW o \in Outcomes, Settle(S, o)
    PROVE  outcome' \in [Calls -> Outcomes]
BY DEF TypeOK, Settle

\* The line q is cut after n calls: those in front are let through, rest is the
\* line that remains, and no other promise is touched.
CutAt(q, n, rest, before, after) ==
    /\ Len(rest) = Len(q) - n
    /\ \A i \in 1..Len(rest) : rest[i] = q[i + n]
    /\ \A x \in Calls :
          after[x] = IF \E i \in 1..n : q[i] = x THEN "granted" ELSE before[x]

\* flushQueue() splits the line q: the first n calls are let through, the
\* others stay in the order they stood.
LEMMA FlushQueueSplits ==
    ASSUME TypeOK, NEW q \in Seq(Calls), NEW c \in Nat, NEW age \in 0..ClockCap,
           NEW due \in Nat \cup {NoTimer}, FlushQueue(q, c, age, due)
    PROVE  /\ queue' \in Seq(Calls)
           /\ count' \in Nat
           /\ resetDue' \in Nat \cup {NoTimer}
           /\ outcome' \in [Calls -> Outcomes]
           /\ c <= maxRequests => count' <= maxRequests
           /\ \E n \in 0..Len(q) : count' = c + n /\ CutAt(q, n, queue', outcome, outcome')
<1> DEFINE n == Released(Len(q), c)
<1>1. /\ n \in 0..Len(q)
      /\ c <= maxRequests => c + n <= maxRequests
    BY ReleasedBounds, LenProperties DEF TypeOK
<1>2. /\ queue' = SubSeq(q, n + 1, Len(q))
      /\ count' = c + n
      /\ Settle(ToSet(SubSeq(q, 1, n)), "granted")
      /\ resetDue' = IF n < Len(q) THEN ScheduleReset(due, age) ELSE due
    BY DEF FlushQueue
<1> HIDE DEF n
<1>3. Len(q) \in Nat /\ \A i \in 1..Len(q) : q[i] \in Calls
    BY LenProperties, ElementOfSeq
<1>4. /\ queue' \in Seq(Calls)
      /\ Len(queue') = Len(q) - n
      /\ \A i \in 1..Len(queue') : queue'[i] = q[i + n]
    <2>1. \A i \in (n + 1)..Len(q) : q[i] \in Calls
        BY <1>1, <1>3
    <2>2. /\ SubSeq(q, n + 1, Len(q)) \in Seq(Calls)
          /\ Len(SubSeq(q, n + 1, Len(q))) =
                IF n + 1 <= Len(q) THEN Len(q) - (n + 1) + 1 ELSE 0
          /\ \A i \in 1..(Len(q) - (n + 1) + 1) :
                SubSeq(q, n + 1, Len(q))[i] = q[(n + 1) + i - 1]
        BY <1>1, <1>3, <2>1, SubSeqProperties
    <2> DEFINE r == SubSeq(q, n + 1, Len(q))
    <2>3. queue' = r
        BY <1>2
    <2>4. r \in Seq(Calls)
        BY <2>2
    <2>5. Len(r) = Len(q) - n
        BY <1>1, <1>3, <2>2
    <2>6. \A i \in 1..(Len(q) - n) : r[i] = q[i + n]
        BY <1>1, <1>3, <2>2
    <2> HIDE DEF r
    <2>7. QED
        BY <2>3, <2>4, <2>5, <2>6
<1>5. ToSet(SubSeq(q, 1, n)) = {q[i] : i \in 1..n}
    <2>1. \A i \in 1..n : q[i] \in Calls
        BY <1>1, <1>3
    <2>2. /\ SubSeq(q, 1, n) \in Seq(Calls)
          /\ Len(SubSeq(q, 1, n)) = IF 1 <= n THEN n - 1 + 1 ELSE 0
          /\ \A i \in 1..(n - 1 + 1) : SubSeq(q, 1, n)[i] = q[1 + i - 1]
        BY <1>1, <2>1, SubSeqProperties
    <2> DEFINE r == SubSeq(q, 1, n)
    <2>3. DOMAIN r = 1..n
        BY <1>1, <2>2, LenProperties
    <2>4. \A i \in 1..n : r[i] = q[i]
        BY <1>1, <2>2
    <2> HIDE DEF r
    <2>5. ToSet(r) = {q[i] : i \in 1..n}
        BY <2>3, <2>4 DEF ToSet
    <2>6. QED
        BY <2>5 DEF r
<1>6. \A x \in Calls :
         outcome'[x] = IF \E i \in 1..n : q[i] = x THEN "granted" ELSE outcome[x]
    BY <1>2, <1>5 DEF Settle
<1>7. outcome' \in [Calls -> Outcomes]
    BY <1>2, SettleType DEF Outcomes
<1>8. resetDue' \in Nat \cup {NoTimer}
    BY <1>2, ScheduleResetType
<1>9. QED
    BY <1>1, <1>2, <1>4, <1>6, <1>7, <1>8 DEF CutAt

-----------------------------------------------------------------------------
(* Type correctness.                                                       *)

\* The history of a window that opens has its type.
LEMMA WindowOpensType ==
    ASSUME TypeOK, WindowOpens
    PROVE  window' \in Window
BY DEF TypeOK, WindowOpens, Window, NewlyGranted

\* The history of a window that goes on has its type.
LEMMA WindowGoesOnType ==
    ASSUME TypeOK, WindowGoesOn
    PROVE  window' \in Window
BY DEF TypeOK, WindowGoesOn, Window, NewlyGranted

\* Removing a pause timer leaves a sequence of timers.
LEMMA RemoveTimer ==
    ASSUME NEW s \in Seq(Nat), NEW i \in 1..Len(s)
    PROVE  RemoveAt(s, i) \in Seq(Nat)
<1>1. /\ Len(s) \in Nat
      /\ \A k \in 1..Len(s) : s[k] \in Nat
    BY LenProperties, ElementOfSeq
<1>2. SubSeq(s, 1, i - 1) \in Seq(Nat)
    <2>1. \A k \in 1..(i - 1) : s[k] \in Nat
        BY <1>1
    <2>2. QED
        BY <1>1, <2>1, SubSeqProperties
<1>3. SubSeq(s, i + 1, Len(s)) \in Seq(Nat)
    <2>1. \A k \in (i + 1)..Len(s) : s[k] \in Nat
        BY <1>1
    <2>2. QED
        BY <1>1, <2>1, SubSeqProperties
<1>4. QED
    BY <1>2, <1>3, ConcatProperties DEF RemoveAt

\* The limiter as it is constructed has its types.
LEMMA TypeOKInit == Init => TypeOK
<1> SUFFICES ASSUME Init
             PROVE  TypeOK
    OBVIOUS
<1>1. maxRequests \in Nat \ {0} /\ windowMs \in 1..ClockCap /\ 0 \in 0..ClockCap
    BY InputsAssumption DEF Init
<1>2. <<>> \in Seq(Calls) /\ <<>> \in Seq(Nat)
    BY EmptySeq
<1>3. window \in Window
    BY <1>1 DEF Init, Window
<1>4. QED
    BY <1>1, <1>2, <1>3 DEF Init, TypeOK, Outcomes, NoTimer

\* configure() behind the settings form keeps the types.
LEMMA TypeOKConfigure ==
    ASSUME TypeOK, NEW m \in MaxRequestsInputs, NEW w \in WindowMsInputs, Configure(m, w)
    PROVE  TypeOK'
<1>1. m \in Nat \ {0} /\ w \in 1..ClockCap
    BY InputsAssumption DEF Configure
<1>2. Max({window.limit, m}) \in Nat /\ Min({window.span, w}) \in Nat
    <2>1. window.limit \in Int /\ window.span \in Int /\ m \in Int /\ w \in Int
        BY <1>1 DEF TypeOK, Window
    <2>2. Max({window.limit, m}) = IF window.limit >= m THEN window.limit ELSE m
        BY <2>1, MaxOfTwo
    <2>3. Min({window.span, w}) = IF window.span <= w THEN window.span ELSE w
        BY <2>1, MinOfTwo
    <2>4. QED
        BY <1>1, <2>2, <2>3 DEF TypeOK, Window
<1>3. window' \in Window
    BY <1>2 DEF Configure, TypeOK, Window
<1>4. QED
    BY <1>1, <1>3 DEF Configure, TypeOK, switches

\* Each of the four exits of acquire() keeps the types.
LEMMA TypeOKAcquire ==
    ASSUME TypeOK, NEW c \in Calls, Acquire(c)
    PROVE  TypeOK'
<1>1. CASE AcquireBlocked(c)
    BY <1>1, SettleType DEF AcquireBlocked, TypeOK, Outcomes, config, switches
<1>2. CASE AcquirePaused(c)
    <2>1. pauseQueue' \in Seq(Calls)
        BY <1>2, AppendProperties DEF AcquirePaused, TypeOK
    <2>2. QED
        BY <1>2, <2>1, SettleType DEF AcquirePaused, TypeOK, Outcomes, config, switches
<1>3. CASE AcquireSlot(c)
    <2>1. window' \in Window
        BY <1>3, WindowOpensType, WindowGoesOnType DEF AcquireSlot
    <2>2. outcome' \in [Calls -> Outcomes]
        BY <1>3, SettleType DEF AcquireSlot, Outcomes
    <2>3. count' \in Nat /\ elapsed' \in 0..ClockCap
        BY <1>3, InputsAssumption DEF AcquireSlot, Taken, TypeOK
    <2>4. QED
        BY <1>3, <2>1, <2>2, <2>3 DEF AcquireSlot, TypeOK, config, switches
<1>4. CASE AcquireQueued(c)
    <2>1. queue' \in Seq(Calls)
        BY <1>4, AppendProperties DEF AcquireQueued, TypeOK
    <2>2. resetDue' \in Nat
        BY <1>4, ScheduleResetType DEF AcquireQueued, TypeOK
    <2>3. QED
        BY <1>4, <2>1, <2>2, SettleType DEF AcquireQueued, TypeOK, Outcomes, config, switches
<1>5. QED
    BY <1>1, <1>2, <1>3, <1>4 DEF Acquire

\* The callback of resetTimer keeps the types.
LEMMA TypeOKFireReset ==
    ASSUME TypeOK, FireReset
    PROVE  TypeOK'
<1>1. 0 \in 0..ClockCap
    BY InputsAssumption
<1>2. /\ queue' \in Seq(Calls) /\ count' \in Nat /\ resetDue' \in Nat \cup {NoTimer}
      /\ outcome' \in [Calls -> Outcomes]
    BY <1>1, FlushQueueSplits DEF FireReset, TypeOK
<1>3. window' \in Window
    BY WindowOpensType DEF FireReset
<1>4. QED
    BY <1>1, <1>2, <1>3 DEF FireReset, TypeOK, config, switches

\* pause() keeps the types.
LEMMA TypeOKPause ==
    ASSUME TypeOK, NEW d \in PauseMsInputs, Pause(d)
    PROVE  TypeOK'
<1>1. d \in Nat
    BY InputsAssumption
<1>2. resumeDue' \in Seq(Nat)
    BY <1>1, AppendProperties DEF Pause, TypeOK
<1>3. pauseQueue' \in Seq(Calls) /\ queue' \in Seq(Calls)
    BY ConcatProperties, EmptySeq DEF Pause, TypeOK
<1>4. QED
    BY <1>2, <1>3 DEF Pause, TypeOK, config

\* resume() keeps the types, whoever calls it.
LEMMA TypeOKResumeTraffic ==
    ASSUME TypeOK, ResumeTraffic, resumeDue' \in Seq(Nat)
    PROVE  TypeOK'
<1>1. pauseQueue \o queue \in Seq(Calls)
    BY ConcatProperties DEF TypeOK
<1>2. 0 \in 0..ClockCap
    BY InputsAssumption
<1>3. /\ queue' \in Seq(Calls) /\ count' \in Nat /\ resetDue' \in Nat \cup {NoTimer}
      /\ outcome' \in [Calls -> Outcomes]
    BY <1>1, <1>2, FlushQueueSplits DEF ResumeTraffic, TypeOK
<1>4. window' \in Window
    BY WindowOpensType DEF ResumeTraffic
<1>5. pauseQueue' \in Seq(Calls)
    BY EmptySeq DEF ResumeTraffic
<1>6. QED
    BY <1>2, <1>3, <1>4, <1>5 DEF ResumeTraffic, TypeOK, config

\* The timer of a pause keeps the types.
LEMMA TypeOKFireResume ==
    ASSUME TypeOK, NEW i \in DOMAIN resumeDue, FireResume(i)
    PROVE  TypeOK'
<1>1. i \in 1..Len(resumeDue)
    BY LenProperties DEF TypeOK
<1>2. resumeDue' \in Seq(Nat)
    BY <1>1, RemoveTimer DEF FireResume, TypeOK
<1>3. CASE ResumeTraffic
    BY <1>2, <1>3, TypeOKResumeTraffic
<1>4. CASE ~ResumeTraffic
    BY <1>2, <1>4 DEF FireResume, TypeOK, config, switches
<1>5. QED
    BY <1>3, <1>4

\* block() keeps the types.
LEMMA TypeOKBlock ==
    ASSUME TypeOK, Block
    PROVE  TypeOK'
<1>1. outcome' \in [Calls -> Outcomes]
    BY SettleType DEF Block, Outcomes
<1>2. queue' \in Seq(Calls) /\ pauseQueue' \in Seq(Calls)
    BY EmptySeq DEF Block
<1>3. QED
    BY <1>1, <1>2 DEF Block, TypeOK, config

\* The passing of time keeps the types.
LEMMA TypeOKTick ==
    ASSUME TypeOK, Tick
    PROVE  TypeOK'
<1>1. elapsed' \in 0..ClockCap
    <2>1. elapsed + 1 \in Int /\ ClockCap \in Int
        BY InputsAssumption DEF TypeOK
    <2>2. elapsed' = IF elapsed + 1 <= ClockCap THEN elapsed + 1 ELSE ClockCap
        BY <2>1, MinOfTwo DEF Tick
    <2>3. QED
        BY <2>2, InputsAssumption DEF TypeOK
<1>2. resetDue' \in Nat \cup {NoTimer}
    BY DEF Tick, TypeOK, Down, NoTimer
<1>3. resumeDue' \in Seq(Nat)
    <2>1. Len(resumeDue) \in Nat /\ DOMAIN resumeDue = 1..Len(resumeDue)
        BY LenProperties DEF TypeOK
    <2>2. \A i \in 1..Len(resumeDue) : Down(resumeDue[i]) \in Nat
        BY ElementOfSeq DEF TypeOK, Down
    <2>3. [i \in 1..Len(resumeDue) |-> Down(resumeDue[i])] \in Seq(Nat)
        BY <2>1, <2>2, IsASeq
    <2>4. QED
        BY <2>1, <2>3 DEF Tick
<1>4. QED
    BY <1>1, <1>2, <1>3 DEF Tick, TypeOK, config, switches

\* Every step of the limiter keeps the types.
LEMMA TypeOKNext == TypeOK /\ [Next]_vars => TypeOK'
<1> SUFFICES ASSUME TypeOK, [Next]_vars
             PROVE  TypeOK'
    OBVIOUS
<1>1. ASSUME NEW c \in Calls, Acquire(c)
      PROVE  TypeOK'
    BY <1>1, TypeOKAcquire
<1>2. ASSUME NEW m \in MaxRequestsInputs, NEW w \in WindowMsInputs, Configure(m, w)
      PROVE  TypeOK'
    BY <1>2, TypeOKConfigure
<1>3. ASSUME NEW d \in PauseMsInputs, Pause(d)
      PROVE  TypeOK'
    BY <1>3, TypeOKPause
<1>4. CASE Resume
    BY <1>4, TypeOKResumeTraffic DEF Resume, TypeOK
<1>5. CASE Block
    BY <1>5, TypeOKBlock
<1>6. CASE FireReset
    BY <1>6, TypeOKFireReset
<1>7. ASSUME NEW i \in DOMAIN resumeDue, FireResume(i)
      PROVE  TypeOK'
    BY <1>7, TypeOKFireResume
<1>8. CASE Tick
    BY <1>8, TypeOKTick
<1>9. CASE UNCHANGED vars
    BY <1>9 DEF vars, TypeOK
<1>10. QED
    BY <1>1, <1>2, <1>3, <1>4, <1>5, <1>6, <1>7, <1>8, <1>9 DEF Next

\* Every field of the limiter keeps its type under every call of its methods,
\* every timer callback and every setting the form lets through.
THEOREM TypeCorrect == Spec => []TypeOK
BY TypeOKInit, TypeOKNext, PTL DEF Spec

-----------------------------------------------------------------------------
(* Every waiting call stands in line exactly once.                         *)

\* EveryCallAccountedFor, call by call.
Accounted(line, out) ==
    /\ \A c \in Calls : out[c] = "waiting" <=> \E i \in 1..Len(line) : line[i] = c
    /\ \A i, j \in 1..Len(line) : line[i] = line[j] => i = j

\* The line and the waiting calls agree, said call by call.
LEMMA AccountedPointwise ==
    ASSUME NEW line \in Seq(Calls), NEW out
    PROVE  Accounted(line, out) <=>
             /\ ToSet(line) = {c \in Calls : out[c] = "waiting"}
             /\ \A i, j \in DOMAIN line : line[i] = line[j] => i = j
<1>1. DOMAIN line = 1..Len(line) /\ \A i \in 1..Len(line) : line[i] \in Calls
    BY LenProperties, ElementOfSeq
<1>2. ToSet(line) = {line[i] : i \in 1..Len(line)}
    BY <1>1 DEF ToSet
<1>3. QED
    BY <1>1, <1>2 DEF Accounted

\* The line is a sequence of calls.
LEMMA LineType ==
    ASSUME TypeOK
    PROVE  Line \in Seq(Calls)
BY ConcatProperties DEF TypeOK, Line

\* EveryCallAccountedFor is Accounted of the present line.
LEMMA AccountedIs ==
    ASSUME TypeOK
    PROVE  EveryCallAccountedFor <=> Accounted(Line, outcome)
BY AccountedPointwise, LineType DEF EveryCallAccountedFor, Waiting

\* The same after a step.
LEMMA AccountedIsNext ==
    ASSUME TypeOK'
    PROVE  EveryCallAccountedFor' <=> Accounted(Line', outcome')
<1>1. Line' \in Seq(Calls)
    BY ConcatProperties DEF TypeOK, Line
<1>2. QED
    BY <1>1, AccountedPointwise DEF EveryCallAccountedFor, Waiting

\* As long as the same calls wait, an unchanged line accounts for them.
LEMMA SameLine ==
    ASSUME TypeOK, TypeOK', EveryCallAccountedFor, Line' = Line,
           \A c \in Calls : outcome'[c] = "waiting" <=> outcome[c] = "waiting"
    PROVE  EveryCallAccountedFor'
BY AccountedIs, AccountedIsNext DEF Accounted

\* A call that asks for the first time joins the end of the line.
LEMMA JoinLine ==
    ASSUME TypeOK, TypeOK', EveryCallAccountedFor, NEW c \in Calls,
           outcome[c] = "idle", Settle({c}, "waiting"), Line' = Append(Line, c)
    PROVE  EveryCallAccountedFor'
<1>1. Line \in Seq(Calls)
    BY ConcatProperties DEF TypeOK, Line
<1>2. \A x \in Calls : outcome'[x] = IF x = c THEN "waiting" ELSE outcome[x]
    BY DEF Settle
<1>3. /\ Len(Line) \in Nat
      /\ Len(Line') = Len(Line) + 1
      /\ \A i \in 1..Len(Line) : Line'[i] = Line[i]
      /\ Line'[Len(Line) + 1] = c
    BY <1>1, AppendProperties, LenProperties
<1>4. /\ \A x \in Calls : outcome[x] = "waiting" <=> \E i \in 1..Len(Line) : Line[i] = x
      /\ \A i, j \in 1..Len(Line) : Line[i] = Line[j] => i = j
    BY AccountedIs DEF Accounted
<1>5. \A i \in 1..Len(Line) : Line[i] # c
    BY <1>4
<1> HIDE DEF Line
<1>6. \A i \in 1..Len(Line') : i \in 1..Len(Line) \/ i = Len(Line) + 1
    BY <1>3
<1>7. \A x \in Calls :
         outcome'[x] = "waiting" <=> \E i \in 1..Len(Line') : Line'[i] = x
    <2> SUFFICES ASSUME NEW x \in Calls
                 PROVE  outcome'[x] = "waiting" <=> \E i \in 1..Len(Line') : Line'[i] = x
        OBVIOUS
    <2>1. CASE x = c
        BY <1>2, <1>3, <2>1
    <2>2. CASE x # c
        BY <1>2, <1>3, <1>4, <1>6, <2>2
    <2>3. QED
        BY <2>1, <2>2
<1>8. \A i, j \in 1..Len(Line') : Line'[i] = Line'[j] => i = j
    BY <1>3, <1>4, <1>5, <1>6
<1>9. QED
    BY <1>7, <1>8, AccountedIsNext DEF Accounted

\* Releasing the head of the line keeps the tail accounted for.
LEMMA FlushLine ==
    ASSUME TypeOK, TypeOK', EveryCallAccountedFor, pauseQueue' = <<>>,
           NEW c \in Nat, NEW age \in 0..ClockCap, NEW due \in Nat \cup {NoTimer},
           FlushQueue(Line, c, age, due)
    PROVE  EveryCallAccountedFor'
<1>1. Line \in Seq(Calls)
    BY ConcatProperties DEF TypeOK, Line
<1>2. Line' = queue'
    BY ConcatEmptySeq DEF Line, TypeOK
<1>3. PICK n \in 0..Len(Line) : CutAt(Line, n, queue', outcome, outcome')
    BY <1>1, FlushQueueSplits
<1>4. /\ Len(Line) \in Nat
      /\ \A x \in Calls : outcome[x] = "waiting" <=> \E i \in 1..Len(Line) : Line[i] = x
      /\ \A i, j \in 1..Len(Line) : Line[i] = Line[j] => i = j
    BY <1>1, AccountedIs, LenProperties DEF Accounted
<1> HIDE DEF Line
<1>5. \A i, j \in 1..Len(Line') : Line'[i] = Line'[j] => i = j
    <2> SUFFICES ASSUME NEW i \in 1..Len(Line'), NEW j \in 1..Len(Line'), Line'[i] = Line'[j]
                 PROVE  i = j
        OBVIOUS
    <2>1. i + n \in 1..Len(Line) /\ j + n \in 1..Len(Line) /\ Line[i + n] = Line[j + n]
        BY <1>2, <1>3, <1>4 DEF CutAt
    <2>2. i + n = j + n
        BY <1>4, <2>1
    <2>3. QED
        BY <2>2
<1>6. ASSUME NEW x \in Calls
      PROVE  outcome'[x] = "waiting" <=> \E i \in 1..Len(Line') : Line'[i] = x
    <2>1. CASE \E i \in 1..n : Line[i] = x
        <3>1. PICK k \in 1..n : Line[k] = x
            BY <2>1
        <3>2. ASSUME NEW i \in 1..Len(Line')
              PROVE  Line'[i] # x
            <4>1. Line'[i] = Line[i + n] /\ i + n \in 1..Len(Line) /\ i + n # k
                BY <1>2, <1>3, <1>4 DEF CutAt
            <4>2. QED
                BY <1>3, <1>4, <3>1, <4>1
        <3>3. QED
            BY <1>3, <2>1, <3>2 DEF CutAt
    <2>2. CASE ~\E i \in 1..n : Line[i] = x
        <3>1. outcome'[x] = outcome[x]
            BY <1>3, <2>2 DEF CutAt
        <3>2. ASSUME NEW i \in 1..Len(Line), Line[i] = x
              PROVE  \E j \in 1..Len(Line') : Line'[j] = x
            <4>1. i - n \in 1..Len(Line')
                BY <1>2, <1>3, <1>4, <2>2, <3>2 DEF CutAt
            <4>2. Line'[i - n] = x
                BY <1>2, <1>3, <1>4, <4>1, <3>2 DEF CutAt
            <4>3. QED
                BY <4>1, <4>2
        <3>3. ASSUME NEW j \in 1..Len(Line'), Line'[j] = x
              PROVE  \E i \in 1..Len(Line) : Line[i] = x
            BY <1>2, <1>3, <1>4, <3>3 DEF CutAt
        <3>4. QED
            BY <1>4, <3>1, <3>2, <3>3
    <2>3. QED
        BY <2>1, <2>2
<1>7. QED
    BY <1>5, <1>6, AccountedIsNext DEF Accounted

-----------------------------------------------------------------------------
(* The moves between the queues.                                           *)

\* Nobody waits and no timer runs when the limiter is constructed.
LEMMA ModesInit == Init => QueuesMatchMode
<1>1. <<>> \o <<>> = <<>>
    OBVIOUS
<1>2. QED
    BY <1>1 DEF Init, QueuesMatchMode, Line

\* A line that flushQueue() empties leaves no timer where none was armed.
LEMMA ModesNext ==
    ASSUME TypeOK, TypeOK', QueuesMatchMode, [Next]_vars
    PROVE  QueuesMatchMode'
<1>1. \A s \in Seq(Calls) : s \o <<>> = s /\ <<>> \o s = s
    BY ConcatEmptySeq
<1>2. QueuesMatchMode' <=>
         /\ isPaused' => queue' = <<>> /\ resetDue' = NoTimer
         /\ ~isPaused' => pauseQueue' = <<>>
         /\ isBlocked' => queue' = <<>> /\ pauseQueue' = <<>> /\ resetDue' = NoTimer
    <2>1. pauseQueue' \o queue' = <<>> <=> pauseQueue' = <<>> /\ queue' = <<>>
        BY ConcatSimplifications, <1>1 DEF TypeOK
    <2>2. QED
        BY <2>1 DEF QueuesMatchMode, Line
<1>3. /\ isPaused => queue = <<>> /\ resetDue = NoTimer
      /\ ~isPaused => pauseQueue = <<>>
      /\ isBlocked => queue = <<>> /\ pauseQueue = <<>> /\ resetDue = NoTimer
    <2>1. pauseQueue \o queue = <<>> <=> pauseQueue = <<>> /\ queue = <<>>
        BY ConcatSimplifications, <1>1 DEF TypeOK
    <2>2. QED
        BY <2>1 DEF QueuesMatchMode, Line
<1>4. ASSUME NEW c \in Calls, Acquire(c)
      PROVE  QueuesMatchMode'
    BY <1>2, <1>3, <1>4 DEF Acquire, AcquireBlocked, AcquirePaused, AcquireSlot,
                            AcquireQueued, switches
<1>5. ASSUME NEW m \in MaxRequestsInputs, NEW w \in WindowMsInputs, Configure(m, w)
      PROVE  QueuesMatchMode'
    BY <1>2, <1>3, <1>5 DEF Configure, switches
<1>6. ASSUME NEW d \in PauseMsInputs, Pause(d)
      PROVE  QueuesMatchMode'
    BY <1>1, <1>2, <1>3, <1>6 DEF Pause, TypeOK
<1>7. ASSUME isPaused, ResumeTraffic
      PROVE  QueuesMatchMode'
    <2>1. CASE isBlocked
        <3>1. pauseQueue \o queue = <<>>
            BY <1>3, <2>1
        <3>2. FlushQueue(<<>>, 0, 0, NoTimer)
            BY <1>3, <1>7, <3>1 DEF ResumeTraffic
        <3>3. Len(queue') = 0
            <4>1. <<>> \in Seq(Calls) /\ Len(<<>>) = 0 /\ 0 \in 0..ClockCap
                BY EmptySeq, InputsAssumption
            <4>2. PICK n \in 0..0 : CutAt(<<>>, n, queue', outcome, outcome')
                BY <3>2, <4>1, FlushQueueSplits
            <4>3. QED
                BY <4>1, <4>2 DEF CutAt
        <3>4. queue' = <<>>
            BY <3>3, EmptySeq DEF TypeOK
        <3>5. resetDue' = NoTimer
            <4>1. Released(0, 0) \in 0..0
                BY ReleasedBounds DEF TypeOK
            <4>2. Len(<<>>) = 0
                BY EmptySeq
            <4>3. QED
                BY <3>2, <4>1, <4>2 DEF FlushQueue
        <3>6. QED
            BY <1>2, <1>7, <3>4, <3>5 DEF ResumeTraffic
    <2>2. CASE ~isBlocked
        BY <1>2, <1>7, <2>2 DEF ResumeTraffic
    <2>3. QED
        BY <2>1, <2>2
<1>8. CASE Resume
    BY <1>7, <1>8 DEF Resume
<1>9. ASSUME NEW i \in DOMAIN resumeDue, FireResume(i)
      PROVE  QueuesMatchMode'
    <2>1. CASE isPaused /\ ResumeTraffic
        BY <1>7, <2>1
    <2>2. CASE ~isPaused
        BY <1>2, <1>3, <1>9, <2>2 DEF FireResume, ResumeTraffic, switches
    <2>3. QED
        BY <1>9, <2>1, <2>2 DEF FireResume
<1>10. CASE Block
    BY <1>2, <1>3, <1>10 DEF Block
<1>11. CASE FireReset
    BY <1>2, <1>3, <1>11 DEF FireReset, switches, NoTimer
<1>12. CASE Tick
    BY <1>2, <1>3, <1>12 DEF Tick, Down, NoTimer, switches
<1>13. CASE UNCHANGED vars
    BY <1>2, <1>3, <1>13 DEF vars
<1>14. QED
    BY <1>4, <1>5, <1>6, <1>8, <1>9, <1>10, <1>11, <1>12, <1>13 DEF Next

\* Nobody waits when the limiter is constructed.
LEMMA AccountedInit == Init => EveryCallAccountedFor
<1>1. <<>> \o <<>> = <<>> /\ DOMAIN <<>> = {}
    OBVIOUS
<1>2. QED
    BY <1>1 DEF Init, EveryCallAccountedFor, Waiting, Line, ToSet

\* Every step keeps the line and the waiting calls in agreement.
LEMMA AccountedNext ==
    ASSUME TypeOK, TypeOK', QueuesMatchMode, EveryCallAccountedFor, [Next]_vars
    PROVE  EveryCallAccountedFor'
<1>1. \A s \in Seq(Calls) : s \o <<>> = s /\ <<>> \o s = s
    BY ConcatEmptySeq
<1>2. pauseQueue \in Seq(Calls) /\ queue \in Seq(Calls)
    BY DEF TypeOK
<1>3. \A c \in Calls : outcome[c] \in Outcomes
    BY DEF TypeOK
<1>4. ASSUME NEW c \in Calls, Acquire(c)
      PROVE  EveryCallAccountedFor'
    <2>1. CASE AcquireBlocked(c) \/ AcquireSlot(c)
        <3>1. Line' = Line
            BY <2>1 DEF AcquireBlocked, AcquireSlot, Line
        <3>2. \A x \in Calls : outcome'[x] = "waiting" <=> outcome[x] = "waiting"
            BY <2>1 DEF AcquireBlocked, AcquireSlot, Settle
        <3>3. QED
            BY <3>1, <3>2, SameLine
    <2>2. CASE AcquirePaused(c)
        <3>1. Line = pauseQueue /\ Line' = Append(pauseQueue, c)
            BY <1>1, <1>2, <2>2, AppendProperties DEF AcquirePaused, QueuesMatchMode, Line
        <3>2. QED
            BY <2>2, <3>1, JoinLine DEF AcquirePaused
    <2>3. CASE AcquireQueued(c)
        <3>1. Line = queue /\ Line' = Append(queue, c)
            BY <1>1, <1>2, <2>3, AppendProperties DEF AcquireQueued, QueuesMatchMode, Line
        <3>2. QED
            BY <2>3, <3>1, JoinLine DEF AcquireQueued
    <2>4. QED
        BY <1>4, <2>1, <2>2, <2>3 DEF Acquire
<1>5. ASSUME NEW d \in PauseMsInputs, Pause(d)
      PROVE  EveryCallAccountedFor'
    <2>1. Line' = Line
        BY <1>1, <1>2, <1>5, ConcatProperties DEF Pause, Line
    <2>2. QED
        BY <1>5, <2>1, SameLine DEF Pause
<1>6. ASSUME ResumeTraffic
      PROVE  EveryCallAccountedFor'
    <2>1. FlushQueue(Line, 0, 0, resetDue) /\ pauseQueue' = <<>>
        BY <1>6 DEF ResumeTraffic, Line
    <2>2. 0 \in 0..ClockCap /\ resetDue \in Nat \cup {NoTimer}
        BY InputsAssumption DEF TypeOK
    <2>3. QED
        BY <2>1, <2>2, FlushLine
<1>7. CASE FireReset
    <2>1. ~isPaused
        BY <1>7 DEF FireReset, QueuesMatchMode, NoTimer
    <2>2. Line = queue /\ pauseQueue' = <<>>
        BY <1>1, <1>2, <1>7, <2>1 DEF FireReset, QueuesMatchMode, Line
    <2>3. FlushQueue(Line, 0, 0, NoTimer)
        BY <1>7, <2>2 DEF FireReset
    <2>4. 0 \in 0..ClockCap
        BY InputsAssumption
    <2>5. QED
        BY <2>2, <2>3, <2>4, FlushLine
<1>8. ASSUME NEW i \in DOMAIN resumeDue, FireResume(i)
      PROVE  EveryCallAccountedFor'
    <2>1. CASE ResumeTraffic
        BY <1>6, <2>1
    <2>2. CASE ~ResumeTraffic
        BY <1>8, <2>2, SameLine DEF FireResume, Line
    <2>3. QED
        BY <2>1, <2>2
<1>9. CASE Block
    <2>1. Line' = <<>> /\ Len(<<>>) = 0
        BY <1>1, <1>9, EmptySeq DEF Block, Line
    <2>2. \E S : Settle(S, "rejected") /\ \A c \in Calls : c \in S \/ outcome[c] # "waiting"
        <3>1. ToSet(queue \o pauseQueue) = ToSet(Line)
            <4>1. CASE isPaused
                BY <1>1, <1>2, <4>1 DEF QueuesMatchMode, Line
            <4>2. CASE ~isPaused
                BY <1>1, <1>2, <4>2 DEF QueuesMatchMode, Line
            <4>3. QED
                BY <4>1, <4>2
        <3>2. Settle(ToSet(Line), "rejected")
            BY <1>9, <3>1 DEF Block
        <3>3. QED
            BY <3>2 DEF EveryCallAccountedFor, Waiting
    <2>3. \A c \in Calls : outcome'[c] # "waiting"
        BY <2>2 DEF Settle
    <2>4. Accounted(Line', outcome')
        BY <2>1, <2>3 DEF Accounted
    <2>5. QED
        BY <2>4, AccountedIsNext
<1>10. ASSUME NEW m \in MaxRequestsInputs, NEW w \in WindowMsInputs, Configure(m, w)
       PROVE  EveryCallAccountedFor'
    BY <1>10, SameLine DEF Configure, Line
<1>11. CASE Tick
    BY <1>11, SameLine DEF Tick, Line
<1>12. CASE UNCHANGED vars
    BY <1>12, SameLine DEF vars, Line
<1>13. QED
    BY <1>4, <1>5, <1>6, <1>7, <1>8, <1>9, <1>10, <1>11, <1>12 DEF Next, Resume

-----------------------------------------------------------------------------
(* The budget of a window and the distance between windows.                *)

\* Every call let through in the window is paid for by a slot, and the slots
\* taken stay within the budget.  A window that lowered its budget halfway is
\* measured by the larger one.
SlotsCovered ==
    /\ IsFiniteSet(window.admitted)
    /\ Cardinality(window.admitted) <= count
    /\ count <= window.limit
    /\ maxRequests <= window.limit

\* A timer that is armed will not be due before the window is over.
TimerCoversWindow ==
    /\ window.span \in 1..ClockCap
    /\ window.span <= windowMs
    /\ resetDue # NoTimer => resetDue + elapsed >= window.span

\* No slot is taken and no timer runs when the limiter is constructed.
LEMMA WindowHistoryInit == Init => SlotsCovered /\ TimerCoversWindow
<1> SUFFICES ASSUME Init
             PROVE  SlotsCovered /\ TimerCoversWindow
    OBVIOUS
<1>1. maxRequests \in Nat \ {0} /\ windowMs \in 1..ClockCap
    BY InputsAssumption DEF Init
<1>2. window.admitted = {} /\ window.limit = maxRequests /\ window.span = windowMs
    BY DEF Init
<1>3. QED
    BY <1>1, <1>2, FS_EmptySet DEF Init, SlotsCovered, TimerCoversWindow

\* The calls a line of n places lets through are at most n.
LEMMA CutIsFinite ==
    ASSUME NEW q \in Seq(Calls), NEW n \in 0..Len(q),
           NEW S, S \subseteq {q[i] : i \in 1..n}
    PROVE  IsFiniteSet(S) /\ Cardinality(S) <= n
<1> DEFINE T == {q[i] : i \in 1..n}
<1> DEFINE f == [i \in 1..n |-> q[i]]
<1>1. Len(q) \in Nat
    BY LenProperties
<1>2. f \in Surjection(1..n, T)
    BY DEF Surjection
<1>3. IsFiniteSet(1..n) /\ Cardinality(1..n) = n
    BY <1>1, FS_Interval
<1>4. IsFiniteSet(T) /\ Cardinality(T) <= n
    BY <1>2, <1>3, FS_Surjection
<1>5. Cardinality(T) \in Nat
    BY <1>4, FS_CardinalityType
<1> HIDE DEF T
<1>6. S \in SUBSET T
    BY DEF T
<1>7. IsFiniteSet(S) /\ Cardinality(S) <= Cardinality(T) /\ Cardinality(S) \in Nat
    BY <1>4, <1>6, FS_Subset, FS_CardinalityType
<1>8. QED
    BY <1>1, <1>4, <1>5, <1>7

\* A step that flushes a line into a fresh window.
LEMMA FlushWindow ==
    ASSUME TypeOK, TypeOK', NEW q \in Seq(Calls), NEW due \in {resetDue, NoTimer},
           FlushQueue(q, 0, 0, due), due = NoTimer, elapsed' = 0, WindowOpens,
           UNCHANGED config
    PROVE  SlotsCovered' /\ TimerCoversWindow'
<1>1. 0 \in 0..ClockCap /\ due \in Nat \cup {NoTimer}
    BY InputsAssumption
<1>2. /\ count' <= maxRequests
      /\ \E n \in 0..Len(q) : count' = 0 + n /\ CutAt(q, n, queue', outcome, outcome')
    BY <1>1, FlushQueueSplits DEF TypeOK
<1>3. PICK n \in 0..Len(q) : count' = n /\ CutAt(q, n, queue', outcome, outcome')
    BY <1>2, LenProperties
<1>4. NewlyGranted \subseteq {q[i] : i \in 1..n}
    <2>1. SUFFICES ASSUME NEW x \in Calls,
                          outcome'[x] = "granted", outcome[x] # "granted"
                   PROVE  \E i \in 1..n : q[i] = x
        BY DEF NewlyGranted
    <2>2. outcome'[x] = IF \E i \in 1..n : q[i] = x THEN "granted" ELSE outcome[x]
        BY <1>3 DEF CutAt
    <2>3. QED
        BY <2>1, <2>2
<1>5. IsFiniteSet(NewlyGranted) /\ Cardinality(NewlyGranted) <= count'
    BY <1>3, <1>4, CutIsFinite
<1>6. window' = [limit |-> maxRequests, span |-> windowMs, admitted |-> NewlyGranted]
    BY DEF WindowOpens
<1>7. SlotsCovered'
    BY <1>2, <1>5, <1>6 DEF SlotsCovered, config, TypeOK
<1>8. resetDue' = NoTimer \/ resetDue' = windowMs
    <2>1. ScheduleReset(NoTimer, 0) = windowMs
        BY MaxOfTwo DEF ScheduleReset, TypeOK
    <2>2. QED
        BY <2>1 DEF FlushQueue
<1>9. TimerCoversWindow'
    <2>1. window'.span = windowMs /\ windowMs' = windowMs /\ windowMs \in 1..ClockCap
        BY <1>6 DEF config, TypeOK
    <2>2. QED
        BY <1>8, <2>1, InputsAssumption DEF TimerCoversWindow
<1>10. QED
    BY <1>7, <1>9

\* Every step keeps slots and timer in step with the window they belong to.
LEMMA WindowHistoryNext ==
    ASSUME TypeOK, TypeOK', QueuesMatchMode, SlotsCovered, TimerCoversWindow, [Next]_vars
    PROVE  SlotsCovered' /\ TimerCoversWindow'
<1>1. ASSUME NEW c \in Calls, AcquireSlot(c)
      PROVE  SlotsCovered' /\ TimerCoversWindow'
    <2>1. NewlyGranted = {c}
        BY <1>1 DEF AcquireSlot, Settle, NewlyGranted, TypeOK
    <2>2. IsFiniteSet({c}) /\ Cardinality({c}) = 1
        BY FS_Singleton
    <2>3. CASE WindowOver
        <3>1. window' = [limit |-> maxRequests, span |-> windowMs, admitted |-> {c}]
            BY <1>1, <2>1, <2>3 DEF AcquireSlot, WindowOpens
        <3>2. count' = 1 /\ maxRequests' = maxRequests /\ windowMs' = windowMs
              /\ resetDue' = NoTimer
            BY <1>1, <2>3 DEF AcquireSlot, Taken, config
        <3>3. SlotsCovered'
            BY <2>2, <3>1, <3>2 DEF SlotsCovered, TypeOK
        <3>4. TimerCoversWindow'
            BY <3>1, <3>2 DEF TimerCoversWindow, TypeOK
        <3>5. QED
            BY <3>3, <3>4
    <2>4. CASE ~WindowOver
        <3>1. /\ window'.limit = window.limit /\ window'.span = window.span
              /\ window'.admitted = window.admitted \cup {c}
            BY <1>1, <2>1, <2>4 DEF AcquireSlot, WindowGoesOn, TypeOK, Window
        <3>2. /\ count' = count + 1 /\ count < maxRequests
              /\ maxRequests' = maxRequests /\ windowMs' = windowMs
              /\ resetDue' = resetDue /\ elapsed' = elapsed
            BY <1>1, <2>4 DEF AcquireSlot, HasSlot, Taken, config
        <3>3. /\ IsFiniteSet(window'.admitted)
              /\ Cardinality(window'.admitted) <= Cardinality(window.admitted) + 1
              /\ Cardinality(window.admitted) \in Nat
              /\ Cardinality(window'.admitted) \in Nat
            <4> DEFINE A == window.admitted
            <4>1. IsFiniteSet(A) /\ window'.admitted = A \cup {c}
                BY <3>1 DEF SlotsCovered
            <4> HIDE DEF A
            <4>2. Cardinality(A) \in Nat
                BY <4>1, FS_CardinalityType
            <4>3. /\ IsFiniteSet(A \cup {c})
                  /\ Cardinality(A \cup {c}) =
                        IF c \in A THEN Cardinality(A) ELSE Cardinality(A) + 1
                BY <4>1, FS_AddElement
            <4>4. QED
                BY <4>1, <4>2, <4>3 DEF A
        <3>4. SlotsCovered'
            <4>1. /\ Cardinality(window.admitted) <= count
                  /\ count <= window.limit /\ maxRequests <= window.limit
                BY DEF SlotsCovered
            <4>2. count \in Nat /\ maxRequests \in Nat /\ window.limit \in Nat
                BY DEF TypeOK, Window
            <4>3. maxRequests' <= window'.limit
                BY <3>1, <3>2, <4>1
            <4>4. count + 1 <= window.limit
                BY <3>2, <4>1, <4>2
            <4>5. count' <= window'.limit
                BY <3>1, <3>2, <4>4
            <4>6. Cardinality(window'.admitted) <= count'
                BY <3>2, <3>3, <4>1, <4>2
            <4>7. QED
                BY <3>3, <4>3, <4>5, <4>6 DEF SlotsCovered
        <3>5. TimerCoversWindow'
            BY <3>1, <3>2 DEF TimerCoversWindow
        <3>6. QED
            BY <3>4, <3>5
    <2>5. QED
        BY <2>3, <2>4
<1>2. ASSUME NEW c \in Calls, AcquireQueued(c)
      PROVE  SlotsCovered' /\ TimerCoversWindow'
    <2>1. ScheduleReset(resetDue, elapsed) =
             IF resetDue # NoTimer THEN resetDue
             ELSE IF 0 >= windowMs - elapsed THEN 0 ELSE windowMs - elapsed
        <3>1. windowMs - elapsed \in Int
            BY DEF TypeOK
        <3>2. QED
            BY <3>1, MaxOfTwo DEF ScheduleReset
    <2>2. resetDue' + elapsed' >= window'.span
        BY <1>2, <2>1 DEF AcquireQueued, TimerCoversWindow, TypeOK, NoTimer
    <2>3. QED
        BY <1>2, <2>2 DEF AcquireQueued, SlotsCovered, TimerCoversWindow, config
<1>3. ASSUME NEW c \in Calls, Acquire(c)
      PROVE  SlotsCovered' /\ TimerCoversWindow'
    BY <1>1, <1>2, <1>3 DEF Acquire, AcquireBlocked, AcquirePaused, SlotsCovered,
                            TimerCoversWindow, config
<1>4. ASSUME NEW m \in MaxRequestsInputs, NEW w \in WindowMsInputs, Configure(m, w)
      PROVE  SlotsCovered' /\ TimerCoversWindow'
    <2>1. m \in Nat \ {0} /\ w \in 1..ClockCap /\ window.limit \in Nat /\ window.span \in Nat
        BY <1>4, InputsAssumption DEF Configure, TypeOK, Window
    <2>2. Max({window.limit, m}) = IF window.limit >= m THEN window.limit ELSE m
        BY <2>1, MaxOfTwo
    <2>3. Min({window.span, w}) = IF window.span <= w THEN window.span ELSE w
        BY <2>1, MinOfTwo
    <2>4. /\ window'.limit = Max({window.limit, m})
          /\ window'.span = Min({window.span, w})
          /\ window'.admitted = window.admitted
        BY <1>4 DEF Configure, TypeOK, Window
    <2>5. maxRequests' = m /\ windowMs' = w /\ UNCHANGED <<count, resetDue, elapsed>>
        BY <1>4 DEF Configure
    <2>6. SlotsCovered'
        BY <2>1, <2>2, <2>4, <2>5 DEF SlotsCovered, TypeOK
    <2>7. TimerCoversWindow'
        BY <2>1, <2>3, <2>4, <2>5 DEF TimerCoversWindow, TypeOK, NoTimer
    <2>8. QED
        BY <2>6, <2>7
<1>5. ASSUME NEW d \in PauseMsInputs, Pause(d)
      PROVE  SlotsCovered' /\ TimerCoversWindow'
    BY <1>5 DEF Pause, SlotsCovered, TimerCoversWindow, config
<1>6. ASSUME isPaused, ResumeTraffic
      PROVE  SlotsCovered' /\ TimerCoversWindow'
    <2>1. pauseQueue \o queue \in Seq(Calls)
        BY ConcatProperties DEF TypeOK
    <2>2. resetDue = NoTimer
        BY <1>6 DEF QueuesMatchMode
    <2>3. QED
        BY <1>6, <2>1, <2>2, FlushWindow DEF ResumeTraffic, config
<1>7. CASE Resume
    BY <1>6, <1>7 DEF Resume
<1>8. ASSUME NEW i \in DOMAIN resumeDue, FireResume(i)
      PROVE  SlotsCovered' /\ TimerCoversWindow'
    <2>1. CASE isPaused /\ ResumeTraffic
        BY <1>6, <2>1
    <2>2. CASE ~(isPaused /\ ResumeTraffic)
        BY <1>8, <2>2 DEF FireResume, SlotsCovered, TimerCoversWindow, config
    <2>3. QED
        BY <2>1, <2>2
<1>9. CASE FireReset
    BY <1>9, FlushWindow DEF FireReset, TypeOK, config
<1>10. CASE Block
    BY <1>10 DEF Block, SlotsCovered, TimerCoversWindow, config
<1>11. CASE Tick
    <2>1. elapsed' = IF elapsed + 1 <= ClockCap THEN elapsed + 1 ELSE ClockCap
        <3>1. elapsed + 1 \in Int /\ ClockCap \in Int
            BY InputsAssumption DEF TypeOK
        <3>2. QED
            BY <1>11, <3>1, MinOfTwo DEF Tick
    <2>2. resetDue' # NoTimer => resetDue # NoTimer /\ resetDue' >= resetDue - 1 /\ resetDue' >= 0
        BY <1>11 DEF Tick, Down, TypeOK, NoTimer
    <2>3. TimerCoversWindow'
        <3>1. window' = window /\ windowMs' = windowMs
            BY <1>11 DEF Tick, config
        <3>2. window.span \in 1..ClockCap /\ elapsed \in 0..ClockCap /\ ClockCap \in Nat
            BY InputsAssumption DEF TimerCoversWindow, TypeOK
        <3>3. resetDue' \in Int /\ resetDue \in Int
            BY DEF TypeOK, NoTimer
        <3>4. ASSUME resetDue' # NoTimer
              PROVE  resetDue' + elapsed' >= window.span
            <4>1. resetDue + elapsed >= window.span
                BY <2>2, <3>4 DEF TimerCoversWindow
            <4>2. CASE elapsed + 1 <= ClockCap
                BY <2>1, <2>2, <3>2, <3>3, <3>4, <4>1, <4>2
            <4>3. CASE ~(elapsed + 1 <= ClockCap)
                BY <2>1, <2>2, <3>2, <3>3, <3>4, <4>3
            <4>4. QED
                BY <4>2, <4>3
        <3>5. QED
            BY <3>1, <3>4 DEF TimerCoversWindow
    <2>4. QED
        BY <1>11, <2>3 DEF Tick, SlotsCovered, config
<1>12. CASE UNCHANGED vars
    BY <1>12 DEF vars, SlotsCovered, TimerCoversWindow
<1>13. QED
    BY <1>3, <1>4, <1>5, <1>7, <1>8, <1>9, <1>10, <1>11, <1>12 DEF Next

-----------------------------------------------------------------------------
(* The inductive invariant and the safety theorems.                        *)

\* What the properties rest on: the budget and the window lengths need the
\* bookkeeping of SlotsCovered and TimerCoversWindow, and those need to know
\* that no timer survives a pause (QueuesMatchMode).
LimiterInv ==
    /\ TypeOK
    /\ QueuesMatchMode
    /\ EveryCallAccountedFor
    /\ SlotsCovered
    /\ TimerCoversWindow

\* The inductive invariant: types, modes, the line, and what the slots and the
\* reset timer say of the window hold after every step of the limiter.
THEOREM LimiterInvariant == Spec => []LimiterInv
<1>1. Init => LimiterInv
    BY TypeOKInit, ModesInit, AccountedInit, WindowHistoryInit DEF LimiterInv
<1>2. LimiterInv /\ [Next]_vars => LimiterInv'
    BY TypeOKNext, ModesNext, AccountedNext, WindowHistoryNext DEF LimiterInv
<1>3. QED
    BY <1>1, <1>2, PTL DEF Spec

\* Through every pause, resume, block and release, the calls that wait are
\* exactly those in the two queues, each once.
THEOREM AllCallsAccounted == Spec => []EveryCallAccountedFor
<1>1. LimiterInv => EveryCallAccountedFor
    BY DEF LimiterInv
<1>2. QED
    BY <1>1, LimiterInvariant, PTL

\* Neither the queue nor the timer of the other mode is ever left behind.
THEOREM ModesHold == Spec => []QueuesMatchMode
<1>1. LimiterInv => QueuesMatchMode
    BY DEF LimiterInv
<1>2. QED
    BY <1>1, LimiterInvariant, PTL

\* No window ever lets through more calls than its budget.
THEOREM BudgetHolds == Spec => []BudgetPerWindow
<1>1. LimiterInv => BudgetPerWindow
    <2> SUFFICES ASSUME LimiterInv
                 PROVE  BudgetPerWindow
        OBVIOUS
    <2>1. Cardinality(window.admitted) \in Nat
        BY FS_CardinalityType DEF LimiterInv, SlotsCovered
    <2>2. count \in Nat /\ window.limit \in Nat
        BY DEF LimiterInv, TypeOK, Window
    <2>3. QED
        BY <2>1, <2>2 DEF LimiterInv, SlotsCovered, BudgetPerWindow
<1>2. QED
    BY <1>1, LimiterInvariant, PTL

\* A step that replaces the window outside resume() finds it over.
LEMMA WindowsDoNotOverlapStep ==
    ASSUME LimiterInv, [Next]_vars, elapsed' < elapsed, isPaused' = isPaused
    PROVE  elapsed >= window.span
<1>1. /\ window.span \in Int /\ window.span <= windowMs
      /\ resetDue # NoTimer => resetDue + elapsed >= window.span
      /\ elapsed \in 0..ClockCap /\ windowMs \in Int /\ ClockCap \in Int
    BY InputsAssumption DEF LimiterInv, TypeOK, TimerCoversWindow
<1>2. ASSUME NEW c \in Calls, Acquire(c)
      PROVE  elapsed >= window.span
    <2>1. CASE AcquireSlot(c)
        BY <1>1, <2>1 DEF AcquireSlot, WindowOver
    <2>2. CASE AcquireBlocked(c) \/ AcquirePaused(c) \/ AcquireQueued(c)
        BY <1>1, <2>2 DEF AcquireBlocked, AcquirePaused, AcquireQueued
    <2>3. QED
        BY <1>2, <2>1, <2>2 DEF Acquire
<1>3. CASE FireReset
    BY <1>1, <1>3 DEF FireReset, NoTimer
<1>4. CASE Tick
    <2>1. elapsed' = IF elapsed + 1 <= ClockCap THEN elapsed + 1 ELSE ClockCap
        BY <1>1, <1>4, MinOfTwo DEF Tick
    <2>2. QED
        BY <1>1, <2>1
<1>5. CASE Resume
    BY <1>5 DEF Resume, ResumeTraffic
<1>6. ASSUME NEW i \in DOMAIN resumeDue, FireResume(i)
      PROVE  elapsed >= window.span
    BY <1>1, <1>6 DEF FireResume, ResumeTraffic
<1>7. CASE Block
    BY <1>1, <1>7 DEF Block
<1>8. ASSUME NEW d \in PauseMsInputs, Pause(d)
      PROVE  elapsed >= window.span
    BY <1>1, <1>8 DEF Pause
<1>9. ASSUME NEW m \in MaxRequestsInputs, NEW w \in WindowMsInputs, Configure(m, w)
      PROVE  elapsed >= window.span
    BY <1>1, <1>9 DEF Configure
<1>10. CASE UNCHANGED vars
    BY <1>1, <1>10 DEF vars
<1>11. QED
    BY <1>2, <1>3, <1>4, <1>5, <1>6, <1>7, <1>8, <1>9, <1>10 DEF Next

\* Two windows never share a stretch of time shorter than the configured one.
THEOREM WindowsApart == Spec => WindowsDoNotOverlap
<1>1. LimiterInv /\ [Next]_vars =>
         [elapsed' < elapsed /\ isPaused' = isPaused => elapsed >= window.span]_vars
    BY WindowsDoNotOverlapStep
<1>2. QED
    BY <1>1, LimiterInvariant, PTL DEF Spec, WindowsDoNotOverlap

\* The only step that lets a waiting call through is flushQueue() on the whole
\* line, and it lets through the front of the line.
LEMMA LineFacts ==
    ASSUME LimiterInv
    PROVE  /\ Line \in Seq(Calls)
           /\ Len(Line) \in Nat
           /\ DOMAIN Line = 1..Len(Line)
           /\ \A i \in 1..Len(Line) : Line[i] \in Calls /\ outcome[Line[i]] = "waiting"
           /\ \A i, j \in 1..Len(Line) : Line[i] = Line[j] => i = j
           /\ \A c \in Calls : outcome[c] = "waiting" => \E i \in 1..Len(Line) : Line[i] = c
<1>1. Line \in Seq(Calls)
    BY ConcatProperties DEF LimiterInv, TypeOK, Line
<1>2. Accounted(Line, outcome)
    BY AccountedIs DEF LimiterInv
<1>3. Len(Line) \in Nat /\ DOMAIN Line = 1..Len(Line) /\ \A i \in 1..Len(Line) : Line[i] \in Calls
    BY <1>1, LenProperties, ElementOfSeq
<1>4. QED
    BY <1>1, <1>2, <1>3 DEF Accounted

\* FireReset and resume() both release the front of the line.
LEMMA ReleaseSteps ==
    ASSUME LimiterInv, FireReset \/ ResumeTraffic
    PROVE  \E n \in 0..Len(Line) : CutAt(Line, n, queue', outcome, outcome')
<1>1. Line \in Seq(Calls) /\ 0 \in 0..ClockCap /\ NoTimer \in Nat \cup {NoTimer}
    BY LineFacts, InputsAssumption
<1>2. CASE FireReset
    <2>1. pauseQueue = <<>>
        BY <1>2 DEF LimiterInv, QueuesMatchMode, FireReset, NoTimer
    <2>2. Line = queue
        BY <2>1, ConcatEmptySeq DEF Line, LimiterInv, TypeOK
    <2>3. FlushQueue(Line, 0, 0, NoTimer)
        BY <1>2, <2>2 DEF FireReset
    <2>4. QED
        BY <1>1, <2>3, FlushQueueSplits DEF LimiterInv
<1>3. CASE ResumeTraffic
    <2>1. FlushQueue(Line, 0, 0, resetDue) /\ resetDue \in Nat \cup {NoTimer}
        BY <1>3 DEF ResumeTraffic, Line, LimiterInv, TypeOK
    <2>2. QED
        BY <1>1, <2>1, FlushQueueSplits DEF LimiterInv
<1>4. QED
    BY <1>2, <1>3

\* Every other step lets through at most a call that does not wait.
LEMMA NobodyOvertakes ==
    ASSUME LimiterInv, [Next]_vars, ~FireReset, ~ResumeTraffic,
           NEW x \in Calls, outcome[x] = "waiting"
    PROVE  outcome'[x] # "granted"
<1>1. ASSUME NEW c \in Calls, Acquire(c)
      PROVE  outcome'[x] # "granted"
    BY <1>1 DEF Acquire, AcquireBlocked, AcquirePaused, AcquireSlot, AcquireQueued, Settle
<1>2. CASE Block
    BY <1>2 DEF Block, Settle
<1>3. ASSUME NEW i \in DOMAIN resumeDue, FireResume(i)
      PROVE  outcome'[x] # "granted"
    BY <1>3 DEF FireResume
<1>4. ASSUME \/ \E d \in PauseMsInputs : Pause(d)
             \/ \E m \in MaxRequestsInputs, w \in WindowMsInputs : Configure(m, w)
             \/ Tick
             \/ UNCHANGED vars
      PROVE  outcome'[x] # "granted"
    BY <1>4 DEF Pause, Configure, Tick, vars
<1>5. QED
    BY <1>1, <1>2, <1>3, <1>4 DEF Next, Resume

\* Those who wait are served in the order they came, pauses or not.
THEOREM ServedInOrder == Spec => WaitersReleasedInOrder
<1> DEFINE InOrder ==
        \A i, j \in DOMAIN Line :
            i < j /\ outcome'[Line[j]] = "granted" => outcome'[Line[i]] = "granted"
<1>1. ASSUME LimiterInv, [Next]_vars
      PROVE  InOrder
    <2> SUFFICES ASSUME NEW i \in 1..Len(Line), NEW j \in 1..Len(Line), i < j,
                        outcome'[Line[j]] = "granted"
                 PROVE  outcome'[Line[i]] = "granted"
        BY <1>1, LineFacts
    <2>1. FireReset \/ ResumeTraffic
        BY <1>1, LineFacts, NobodyOvertakes
    <2>2. PICK n \in 0..Len(Line) : CutAt(Line, n, queue', outcome, outcome')
        BY <1>1, <2>1, ReleaseSteps
    <2>3. PICK k \in 1..n : Line[k] = Line[j]
        BY <1>1, <2>2, LineFacts DEF CutAt
    <2>4. k = j
        BY <1>1, <2>2, <2>3, LineFacts
    <2>5. i \in 1..n
        BY <1>1, <2>2, <2>4, LineFacts
    <2>6. QED
        BY <1>1, <2>2, <2>5, LineFacts DEF CutAt
<1>2. LimiterInv /\ [Next]_vars => [InOrder]_vars
    BY <1>1
<1>3. QED
    BY <1>2, LimiterInvariant, PTL DEF Spec, WaitersReleasedInOrder

-----------------------------------------------------------------------------
(* The limiter implements AdmissionGate.                                   *)

\* Both releases are a Release of the gate: they take a set of waiting calls,
\* and none once the limiter is blocked.
LEMMA ReleaseIsRelease ==
    ASSUME LimiterInv, LimiterInv', FireReset \/ (isPaused /\ ResumeTraffic)
    PROVE  Gate!GateNext
<1>1. PICK n \in 0..Len(Line) : CutAt(Line, n, queue', outcome, outcome')
    BY ReleaseSteps
<1> DEFINE S == {x \in Calls : \E i \in 1..n : Line[i] = x}
<1>2. S \subseteq Gate!Waiting
    BY <1>1, LineFacts DEF Gate!Waiting
<1>3. isBlocked => S = {}
    <2>1. isBlocked => Line = <<>> /\ Len(<<>>) = 0
        BY EmptySeq DEF LimiterInv, QueuesMatchMode
    <2>2. QED
        BY <1>1, <2>1
<1>4. isPaused' = FALSE /\ isBlocked' = isBlocked
    BY DEF FireReset, ResumeTraffic, switches, LimiterInv, QueuesMatchMode, TypeOK, NoTimer
<1>5. Gate!Settle(S, "granted")
    <2>1. outcome' \in [Calls -> Outcomes]
        BY DEF LimiterInv, TypeOK
    <2>2. \A x \in Calls : outcome'[x] = IF x \in S THEN "granted" ELSE outcome[x]
        BY <1>1 DEF CutAt
    <2> HIDE DEF S
    <2>3. QED
        BY <2>1, <2>2 DEF Gate!Settle
<1>6. Gate!Release(S)
    BY <1>2, <1>3, <1>4, <1>5 DEF Gate!Release
<1>7. QED
    BY <1>6 DEF Gate!GateNext

\* Every step of the limiter is a step of the gate, or changes nothing of it.
LEMMA StepIsGateStep ==
    ASSUME LimiterInv, LimiterInv', [Next]_vars
    PROVE  [Gate!GateNext]_(Gate!gateVars)
<1>1. ASSUME NEW c \in Calls, Acquire(c)
      PROVE  Gate!GateNext
    <2>1. Gate!Pass(c) \/ Gate!Wait(c) \/ Gate!Refuse(c)
        BY <1>1 DEF Acquire, AcquireBlocked, AcquirePaused, AcquireSlot, AcquireQueued,
                    Gate!Pass, Gate!Wait, Gate!Refuse, Settle, Gate!Settle, switches
    <2>2. QED
        BY <2>1 DEF Gate!GateNext
<1>2. ASSUME NEW d \in PauseMsInputs, Pause(d)
      PROVE  Gate!GateNext
    BY <1>2 DEF Pause, Gate!GateNext, Gate!Hold
<1>3. CASE FireReset \/ (isPaused /\ ResumeTraffic)
    BY <1>3, ReleaseIsRelease
<1>4. CASE Resume
    BY <1>3, <1>4 DEF Resume
<1>5. ASSUME NEW i \in DOMAIN resumeDue, FireResume(i)
      PROVE  Gate!GateNext \/ UNCHANGED Gate!gateVars
    BY <1>3, <1>5 DEF FireResume, Gate!gateVars, switches
<1>6. CASE Block
    <2>1. ToSet(queue \o pauseQueue) = Gate!Waiting
        <3>1. Line = queue \o pauseQueue
            BY ConcatEmptySeq DEF LimiterInv, QueuesMatchMode, TypeOK, Line
        <3>2. QED
            BY <3>1 DEF LimiterInv, EveryCallAccountedFor, Waiting, Gate!Waiting
    <2>2. QED
        BY <1>6, <2>1 DEF Block, Gate!GateNext, Gate!Close, Settle, Gate!Settle
<1>7. ASSUME NEW m \in MaxRequestsInputs, NEW w \in WindowMsInputs, Configure(m, w)
      PROVE  UNCHANGED Gate!gateVars
    BY <1>7 DEF Configure, Gate!gateVars, switches
<1>8. CASE Tick \/ UNCHANGED vars
    BY <1>8 DEF Tick, vars, Gate!gateVars, switches
<1>9. QED
    BY <1>1, <1>2, <1>3, <1>4, <1>5, <1>6, <1>7, <1>8 DEF Next

\* Windows, timers and queues add up to the gate its callers are promised.
THEOREM LimiterImplementsGate == Spec => GateSpec
<1>1. Init => Gate!GateInit
    BY DEF Init, Gate!GateInit
<1>2. LimiterInv /\ LimiterInv' /\ [Next]_vars => [Gate!GateNext]_(Gate!gateVars)
    BY StepIsGateStep
<1>3. QED
    BY <1>1, <1>2, LimiterInvariant, PTL DEF Spec, GateSpec, Gate!GateSpec

-----------------------------------------------------------------------------
(* What serving everybody rests on, step by step: the reset timer is lost  *)
(* in one way only, it is never put off, and what it opens is used up.     *)

\* flushQueue() at the start of a window serves the whole line, or fills the
\* window and leaves a timer armed.
LEMMA FlushFills ==
    ASSUME TypeOK, NEW q \in Seq(Calls), NEW due \in Nat \cup {NoTimer},
           FlushQueue(q, 0, 0, due)
    PROVE  \/ queue' = <<>> /\ resetDue' = due
           \/ count' = maxRequests /\ resetDue' = ScheduleReset(due, 0) /\ resetDue' \in Nat
<1> DEFINE n == Released(Len(q), 0)
<1>1. Len(q) \in Nat /\ maxRequests \in Nat \ {0} /\ 0 \in 0..ClockCap
    BY LenProperties, InputsAssumption DEF TypeOK
<1>2. n = IF Len(q) <= maxRequests THEN Len(q) ELSE maxRequests
    <2>1. Max({0, maxRequests - 0}) = maxRequests - 0
        BY <1>1, MaxOfTwo
    <2>2. n = Min({Len(q), Max({0, maxRequests - 0})})
        BY DEF Released
    <2> HIDE DEF n
    <2>3. maxRequests - 0 = maxRequests
        BY <1>1
    <2>4. n = Min({Len(q), maxRequests})
        BY <2>1, <2>2, <2>3
    <2>5. QED
        BY <1>1, <2>4, MinOfTwo
<1>3. /\ queue' = SubSeq(q, n + 1, Len(q))
      /\ count' = 0 + n
      /\ resetDue' = IF n < Len(q) THEN ScheduleReset(due, 0) ELSE due
    BY DEF FlushQueue
<1> HIDE DEF n
<1>4. CASE n < Len(q)
    <2>1. ScheduleReset(due, 0) \in Nat
        BY <1>1, ScheduleResetType
    <2>2. n = maxRequests
        BY <1>1, <1>2, <1>4
    <2>3. count' = maxRequests
        BY <1>1, <1>3, <2>2
    <2>4. resetDue' = ScheduleReset(due, 0)
        BY <1>3, <1>4
    <2>5. QED
        BY <2>1, <2>3, <2>4
<1>5. CASE ~(n < Len(q))
    <2>1. n = Len(q)
        BY <1>1, <1>2, <1>5
    <2>2. SubSeq(q, Len(q) + 1, Len(q)) = <<>>
        BY <1>1, SubSeqEmpty
    <2>3. QED
        BY <1>3, <1>5, <2>1, <2>2
<1>6. QED
    BY <1>4, <1>5

\* The steps that release the line, with the timer they leave.
LEMMA ReleaseFills ==
    ASSUME LimiterInv, FireReset \/ ResumeTraffic
    PROVE  \/ queue' = <<>>
           \/ /\ count' = maxRequests /\ resetDue' \in Nat
              /\ ResumeTraffic /\ resetDue # NoTimer => resetDue' = resetDue
<1>1. CASE FireReset /\ ~ResumeTraffic
    <2>1. queue \in Seq(Calls) /\ FlushQueue(queue, 0, 0, NoTimer)
        BY <1>1 DEF FireReset, LimiterInv, TypeOK
    <2>2. QED
        BY <1>1, <2>1, FlushFills DEF LimiterInv
<1>2. CASE ResumeTraffic
    <2>1. pauseQueue \o queue \in Seq(Calls) /\ resetDue \in Nat \cup {NoTimer}
        BY ConcatProperties DEF LimiterInv, TypeOK
    <2>2. FlushQueue(pauseQueue \o queue, 0, 0, resetDue)
        BY <1>2 DEF ResumeTraffic
    <2>3. QED
        BY <2>1, <2>2, FlushFills DEF LimiterInv, ScheduleReset
<1>3. QED
    BY <1>1, <1>2

\* Everybody who waits for a window has the timer that opens it.
TimerKept == queue # <<>> => resetDue # NoTimer

\* A queue without its timer is the work of a newcomer that found the window
\* over, and of nothing else.
OnlyANewcomerStrands ==
    [][TimerKept /\ ~TimerKept' => WindowOver /\ \E c \in Calls : AcquireSlot(c)]_vars

\* An armed timer counts down until it fires or is disarmed.
TimerNeverPutOff == [][resetDue # NoTimer /\ resetDue' > resetDue => FireReset]_vars

\* A window that the timer or a resume() opens leaves nobody waiting, or no
\* slot.
NoSlotWasted == [][FireReset \/ ResumeTraffic => queue' = <<>> \/ count' = maxRequests]_vars

\* What a step that is not a release, nor a newcomer's, does to the timer.
LEMMA TimerSteps ==
    ASSUME LimiterInv, [Next]_vars, ~FireReset, ~(isPaused /\ ResumeTraffic)
    PROVE  /\ resetDue # NoTimer /\ resetDue' # NoTimer => resetDue' <= resetDue
           /\ \/ TimerKept => TimerKept'
              \/ WindowOver /\ \E c \in Calls : AcquireSlot(c)
<1> USE DEF TimerKept
<1>1. TypeOK /\ (resetDue # NoTimer => resetDue \in Nat)
    BY DEF LimiterInv, TypeOK
<1>2. ASSUME NEW c \in Calls, AcquireSlot(c)
      PROVE  /\ resetDue # NoTimer /\ resetDue' # NoTimer => resetDue' <= resetDue
             /\ (TimerKept => TimerKept') \/ (WindowOver /\ AcquireSlot(c))
    BY <1>1, <1>2 DEF AcquireSlot
<1>3. ASSUME NEW c \in Calls, AcquireQueued(c)
      PROVE  resetDue' # NoTimer /\ (resetDue # NoTimer => resetDue' = resetDue)
    <2>1. ScheduleReset(resetDue, elapsed) \in Nat
        BY <1>1, ScheduleResetType DEF TypeOK
    <2>2. QED
        BY <1>3, <2>1 DEF AcquireQueued, ScheduleReset, NoTimer
<1>4. ASSUME \/ \E c \in Calls : AcquireBlocked(c) \/ AcquirePaused(c)
             \/ \E m \in MaxRequestsInputs, w \in WindowMsInputs : Configure(m, w)
             \/ \E i \in DOMAIN resumeDue : FireResume(i)
             \/ UNCHANGED vars
      PROVE  UNCHANGED <<queue, resetDue>>
    BY <1>4 DEF AcquireBlocked, AcquirePaused, Configure, FireResume, vars
<1>5. ASSUME Block \/ \E d \in PauseMsInputs : Pause(d)
      PROVE  queue' = <<>> /\ resetDue' = NoTimer
    BY <1>5 DEF Block, Pause
<1>6. CASE Tick
    BY <1>1, <1>6 DEF Tick, Down, NoTimer
<1>7. QED
    BY <1>1, <1>2, <1>3, <1>4, <1>5, <1>6 DEF Next, Acquire, Resume

\* With the reset timer kept, every call that waits is served: the run checks
\* it, and these are the steps it takes.  The timer is lost only to a newcomer,
\* it fires no later than it was set to, and the window it opens serves all who
\* wait or as many as the budget allows.
THEOREM TimerServesTheLine == Spec => OnlyANewcomerStrands /\ TimerNeverPutOff /\ NoSlotWasted
<1>1. ASSUME LimiterInv, [Next]_vars
      PROVE  /\ TimerKept /\ ~TimerKept' => WindowOver /\ \E c \in Calls : AcquireSlot(c)
             /\ resetDue # NoTimer /\ resetDue' > resetDue => FireReset
             /\ FireReset \/ ResumeTraffic => queue' = <<>> \/ count' = maxRequests
    <2>1. resetDue \in Nat \cup {NoTimer} /\ resetDue' \in Nat \cup {NoTimer}
        BY <1>1, TypeOKNext DEF LimiterInv, TypeOK
    <2>2. FireReset \/ ResumeTraffic =>
              \/ queue' = <<>>
              \/ count' = maxRequests /\ resetDue' \in Nat
        BY <1>1, ReleaseFills
    <2>3. CASE FireReset
        BY <2>2, <2>3 DEF TimerKept, NoTimer
    <2>4. CASE isPaused /\ ResumeTraffic
        <3>1. resetDue = NoTimer
            BY <1>1, <2>4 DEF LimiterInv, QueuesMatchMode
        <3>2. QED
            BY <2>2, <2>4, <3>1 DEF TimerKept, NoTimer
    <2>5. CASE ~FireReset /\ ~(isPaused /\ ResumeTraffic)
        <3>1. /\ resetDue # NoTimer /\ resetDue' # NoTimer => resetDue' <= resetDue
              /\ \/ TimerKept => TimerKept'
                 \/ WindowOver /\ \E c \in Calls : AcquireSlot(c)
            BY <1>1, <2>5, TimerSteps
        <3>2. ~(resetDue # NoTimer /\ resetDue' > resetDue)
            BY <2>1, <3>1 DEF NoTimer
        <3>3. QED
            BY <2>2, <3>1, <3>2
    <2>6. QED
        BY <2>3, <2>4, <2>5
<1>2. LimiterInv /\ [Next]_vars =>
          [TimerKept /\ ~TimerKept' => WindowOver /\ \E c \in Calls : AcquireSlot(c)]_vars
    BY <1>1
<1>3. LimiterInv /\ [Next]_vars =>
          [resetDue # NoTimer /\ resetDue' > resetDue => FireReset]_vars
    BY <1>1
<1>4. LimiterInv /\ [Next]_vars =>
          [FireReset \/ ResumeTraffic => queue' = <<>> \/ count' = maxRequests]_vars
    BY <1>1
<1>5. QED
    BY <1>2, <1>3, <1>4, LimiterInvariant, PTL
    DEF Spec, OnlyANewcomerStrands, TimerNeverPutOff, NoSlotWasted

=============================================================================
